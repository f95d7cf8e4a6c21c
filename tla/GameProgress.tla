---------------------------- MODULE GameProgress ----------------------------
(***************************************************************************)
(* The progress file of the Beaconkeeper lab and the `ops` invocations     *)
(* that read and write it (game/ops.py): the learner's own verify and hint *)
(* commands, and the `ops verify all; ops status` the grader runs over SSH *)
(* every few seconds of a practice session.                                *)
(*                                                                         *)
(* Nothing locks the file.  Every save writes progress.tmp, one fixed      *)
(* name, and renames it over progress.json, so a file descriptor opened on *)
(* the one may by the time of the write be on the other.                   *)
(***************************************************************************)
EXTENDS Integers, Functions

CONSTANTS
  Procs,         \* slots for ops invocations running at the same time
  N,             \* the number of lanterns, 20 in the game
  HintsPerStep,  \* how many hints each lantern has
  DefaultHints   \* DEFAULT_HINTS_REMAINING

ASSUME GameAssumption ==
  /\ N \in Nat \ {0}
  /\ HintsPerStep \in Nat \ {0}
  /\ DefaultHints \in Nat

VARIABLES
  prog,        \* progress.json
  tmp,         \* progress.tmp
  fd,          \* where the file a process has open for writing is now
  op,          \* the invocations in progress
  verdict,     \* the lanterns a report has as passed and as failed, until
               \*   the next command starts
  earned       \* history: lanterns whose check has passed at least once

vars == <<prog, tmp, fd, op, verdict, earned>>

-----------------------------------------------------------------------------
(* Types *)

Steps == 1..N

\* The data of a progress file; "hints_used" counts up, per lantern.
Progress == [completed: SUBSET Steps,
             used: [Steps -> 0..HintsPerStep],
             left: 0..DefaultHints]

Fresh == [completed |-> {}, used |-> [n \in Steps |-> 0], left |-> DefaultHints]

\* What a path holds: "garbled" is JSON text with the tail of another text.
Contents == [text: {"absent", "empty", "json", "garbled"}, data: Progress]

Absent == [text |-> "absent", data |-> Fresh]
Empty == [text |-> "empty", data |-> Fresh]
Garbled == [text |-> "garbled", data |-> Fresh]
Json(d) == [text |-> "json", data |-> d]

Commands == {"none", "one", "all", "grade", "hint"}

Labels ==
  {"idle", "complete", "check", "load", "open", "write", "replace", "status"}

\* An invocation: the lantern it is at, the data it is about to save, the
\* lanterns a grader run has seen pass and fail, and, for the properties only,
\* whether another one has run at the same time.
Invocations == [at: Labels, cmd: Commands, n: Steps, force: BOOLEAN,
                data: Progress, seen: SUBSET Steps, failed: SUBSET Steps,
                overlapped: BOOLEAN]

Reports == [passed: SUBSET Steps, failed: SUBSET Steps]

NoReport == [passed |-> {}, failed |-> {}]

Idle == [at |-> "idle", cmd |-> "none", n |-> 1, force |-> FALSE,
         data |-> Fresh, seen |-> {}, failed |-> {}, overlapped |-> FALSE]

TypeOK ==
  /\ prog \in Contents
  /\ tmp \in Contents
  /\ fd \in [Procs -> {"none", "tmp", "prog", "unlinked"}]
  /\ op \in [Procs -> Invocations]
  /\ verdict \in Reports
  /\ earned \subseteq Steps

Init ==
  /\ prog = Json(Fresh)
  /\ tmp = Absent
  /\ fd = [p \in Procs |-> "none"]
  /\ op = [p \in Procs |-> Idle]
  /\ verdict = NoReport
  /\ earned = {}

-----------------------------------------------------------------------------
(* Reading and invoking *)

At(p, label) == op[p].at = label

\* load_progress: whatever does not parse counts as a fresh start.
Load(c) == IF c.text = "json" THEN c.data ELSE Fresh

\* Invocations that run at the same time mark each other as overlapped.
Start(p, cmd, n, force, label) ==
  /\ At(p, "idle")
  /\ LET others == {q \in Procs : ~At(q, "idle")}
         new == [Idle EXCEPT !.at = label, !.cmd = cmd, !.n = n,
                             !.force = force, !.overlapped = others # {}]
     IN  op' = [q \in Procs |->
                  IF q = p THEN new
                  ELSE IF q \in others THEN [op[q] EXCEPT !.overlapped = TRUE]
                  ELSE op[q]]
  /\ verdict' = NoReport
  /\ UNCHANGED <<prog, tmp, fd, earned>>

\* cmd_verify with a number; --force runs a check that was passed before.
VerifyOne(p, n, force) == Start(p, "one", n, force, "complete")

\* cmd_verify with "all", which ignores --force.
VerifyAll(p) == Start(p, "all", 1, FALSE, "complete")

\* The grader: `ops verify all --force; ops status`.
Grade(p) == Start(p, "grade", 1, FALSE, "complete")

Hint(p, n) == Start(p, "hint", n, FALSE, "load")

End(p) == op' = [op EXCEPT ![p] = Idle]

\* The rest of a verify after a lantern that passed: the next one, or out.
Passed(p) ==
  LET o == op[p]
      lit == [o EXCEPT !.data = Fresh,
                       !.seen = IF o.cmd = "grade" THEN @ \cup {o.n} ELSE @]
  IN  op' = [op EXCEPT ![p] =
        IF o.cmd \in {"all", "grade"} /\ o.n < N
        THEN [lit EXCEPT !.at = "complete", !.n = @ + 1]
        ELSE IF o.cmd = "grade" THEN [lit EXCEPT !.at = "status"] ELSE Idle]

\* A verify that ends at the lantern it is at; the grader goes on to `ops
\* status` whatever became of the first command.
Stopped(p, failed) ==
  IF op[p].cmd = "grade"
  THEN op' = [op EXCEPT ![p].at = "status", ![p].failed = failed,
                        ![p].data = Fresh]
  ELSE End(p)

-----------------------------------------------------------------------------
(* verify_one and cmd_hint *)

\* is_complete: a lantern that is lit is not checked again, unless forced.
IsComplete(p) ==
  /\ At(p, "complete")
  /\ IF op[p].n \in Load(prog).completed /\ ~op[p].force
     THEN Passed(p)
     ELSE op' = [op EXCEPT ![p].at = "check", ![p].force = FALSE]
  /\ UNCHANGED <<prog, tmp, fd, verdict, earned>>

\* CHECKS[n](inst).  The learner may repair the machine, or break it again,
\* at any time: a check passes or it does not.
RunCheck(p) ==
  /\ At(p, "check")
  /\ \/ /\ earned' = earned \cup {op[p].n}
        /\ op' = [op EXCEPT ![p].at = "load"]
     \/ Stopped(p, {op[p].n}) /\ UNCHANGED earned
  /\ UNCHANGED <<prog, tmp, fd, verdict>>

\* Mutant of Marked: the list of completed lanterns starts anew.
MarkedAlone(d, n) == [d EXCEPT !.completed = {n}]

\* Mutant of Marked: an off-by-one lights the next lantern instead.
MarkedNext(d, n) == [d EXCEPT !.completed = @ \cup {IF n < N THEN n + 1 ELSE n}]

\* mark_complete, up to its save_progress.
Marked(d, n) == [d EXCEPT !.completed = @ \cup {n}]

\* Mutant of Hinted: the max(0, ...) is missing.
HintedBelowZero(d, n) == [d EXCEPT !.used[n] = @ + 1, !.left = @ - 1]

\* Mutant of Hinted: the count of remaining hints stays behind.
HintedFree(d, n) == [d EXCEPT !.used[n] = @ + 1]

\* cmd_hint, up to its save_progress.
Hinted(d, n) ==
  [d EXCEPT !.used[n] = @ + 1, !.left = IF @ > 0 THEN @ - 1 ELSE 0]

\* The second load_progress of a command, whose data the save will write.
LoadProgress(p) ==
  /\ At(p, "load")
  /\ LET d == Load(prog)
         n == op[p].n
     IN  IF op[p].cmd # "hint"
         THEN op' = [op EXCEPT ![p].at = "open", ![p].data = Marked(d, n)]
         ELSE IF d.used[n] < HintsPerStep
         THEN op' = [op EXCEPT ![p].at = "open", ![p].data = Hinted(d, n)]
         ELSE End(p)
  /\ UNCHANGED <<prog, tmp, fd, verdict, earned>>

-----------------------------------------------------------------------------
(* save_progress: tmp.write_text is an open that truncates and one write *)

OpenTmp(p) ==
  /\ At(p, "open")
  /\ tmp' = Empty
  /\ fd' = [fd EXCEPT ![p] = "tmp"]
  /\ op' = [op EXCEPT ![p].at = "write"]
  /\ UNCHANGED <<prog, verdict, earned>>

\* A text written at the start of a file that another process has filled in
\* the meantime covers it, or is shorter and leaves the tail.
Overwrite(c, d) ==
  IF c = Empty \/ c = Json(d) THEN {Json(d)} ELSE {Json(d), Garbled}

WriteTmp(p) ==
  /\ At(p, "write")
  /\ \/ fd[p] = "tmp" /\ tmp' \in Overwrite(tmp, op[p].data) /\ UNCHANGED prog
     \/ fd[p] = "prog" /\ prog' \in Overwrite(prog, op[p].data) /\ UNCHANGED tmp
     \/ fd[p] = "unlinked" /\ UNCHANGED <<prog, tmp>>
  /\ fd' = [fd EXCEPT ![p] = "none"]
  /\ op' = [op EXCEPT ![p].at = "replace"]
  /\ UNCHANGED <<verdict, earned>>

\* The rename takes the open files along; without a source it raises, which
\* ends the command.
ReplaceTmp(p) ==
  /\ At(p, "replace")
  /\ IF tmp = Absent
     THEN Stopped(p, {}) /\ UNCHANGED <<prog, tmp, fd>>
     ELSE /\ prog' = tmp
          /\ tmp' = Absent
          /\ fd' = [q \in Procs |-> CASE fd[q] = "prog" -> "unlinked"
                                      [] fd[q] = "tmp" -> "prog"
                                      [] OTHER -> fd[q]]
          /\ IF op[p].cmd = "hint" THEN End(p) ELSE Passed(p)
  /\ UNCHANGED <<verdict, earned>>

-----------------------------------------------------------------------------
(* The grader's report, and interrupts *)

\* Mutant of Reported: a lantern without a line counts as a failed one.
ReportedMissingFail(o, d, m) ==
  LET passed == o.seen \cup {n \in d.completed \ o.failed : n <= m}
  IN  [passed |-> passed, failed |-> Steps \ passed]

\* parse_checks over all the lines of `ops verify all` and the lines of `ops
\* status` up to lantern m: it keeps the first line it sees for a lantern,
\* and a lantern without a line is in neither set.
Reported(o, d, m) ==
  [passed |-> o.seen \cup {n \in d.completed \ o.failed : n <= m},
   failed |-> o.failed \cup {n \in Steps \ (d.completed \cup o.seen) : n <= m}]

Status(p) ==
  /\ At(p, "status")
  /\ verdict' = Reported(op[p], Load(prog), N)
  /\ End(p)
  /\ UNCHANGED <<prog, tmp, fd, earned>>

\* What can have arrived when the connection closes: some of the lines of
\* `ops verify all`, or all of them and some of those of `ops status`.
Arrived(o, d) ==
  {[passed |-> {n \in o.seen : n <= m}, failed |-> {}] : m \in 0..N}
    \cup (IF o.at = "status" THEN {Reported(o, d, m) : m \in 0..N} ELSE {})

\* The grader loses its connection, to the container's restart or to the
\* network, and reports what has arrived, for it does not look at ssh's exit
\* code; or the web task's timeout kills it (runCommand), and nothing is
\* reported.  On the host the command dies, or goes on with nobody to report
\* to.
Cut(p) ==
  /\ ~At(p, "idle") /\ op[p].cmd = "grade"
  /\ verdict' \in {verdict} \cup Arrived(op[p], Load(prog))
  /\ \/ End(p) /\ fd' = [fd EXCEPT ![p] = "none"]
     \/ /\ ~At(p, "status")
        /\ op' = [op EXCEPT ![p].cmd = "all", ![p].seen = {}]
        /\ UNCHANGED fd
  /\ UNCHANGED <<prog, tmp, earned>>

\* Ctrl-C, a terminal that closes, a restart of the container.
Interrupted(p) ==
  /\ ~At(p, "idle") /\ op[p].cmd # "grade"
  /\ End(p)
  /\ fd' = [fd EXCEPT ![p] = "none"]
  /\ UNCHANGED <<prog, tmp, verdict, earned>>

\* Somebody runs ops.
Invoke(p) ==
  \/ \E n \in Steps, force \in BOOLEAN : VerifyOne(p, n, force)
  \/ \E n \in Steps : Hint(p, n)
  \/ VerifyAll(p)
  \/ Grade(p)

\* An invocation goes on, or is cut short.
Step(p) ==
  \/ IsComplete(p) \/ RunCheck(p) \/ LoadProgress(p)
  \/ OpenTmp(p) \/ WriteTmp(p) \/ ReplaceTmp(p)
  \/ Status(p)
  \/ Cut(p) \/ Interrupted(p)

Next == \E p \in Procs : Invoke(p) \/ Step(p)

Spec == Init /\ [][Next]_vars

-----------------------------------------------------------------------------
(* Properties *)

(***************************************************************************)
(* No lantern is lit, in either file or in a report, whose check has not   *)
(* passed on this machine: whatever mixture of two saves the files hold,   *)
(* it is never better than what was earned.                                *)
(***************************************************************************)
NothingUnearned ==
  Load(prog).completed \cup Load(tmp).completed \cup verdict.passed \subseteq earned

\* The sum of hints_used over all lanterns.
HintsUsed(d) == FoldFunction(+, 0, d.used)

(***************************************************************************)
(* The two hint counters agree in every version of the file, also when one *)
(* of two concurrent hints is forgotten.                                   *)
(***************************************************************************)
HintsAgree ==
  \A c \in {prog, tmp} :
    c.text = "json" =>
      c.data.left = IF HintsUsed(c.data) < DefaultHints
                    THEN DefaultHints - HintsUsed(c.data) ELSE 0

(***************************************************************************)
(* A lantern goes dark only by a command that ran beside another one: a    *)
(* command that has the machine to itself never loses progress, whatever   *)
(* interrupted commands left behind.                                       *)
(***************************************************************************)
LostOnlyToOverlap ==
  [][~(Load(prog).completed \subseteq Load(prog').completed) =>
       \E p \in Procs :
         op[p].overlapped /\ (At(p, "write") \/ At(p, "replace"))]_vars

(***************************************************************************)
(* A grader run that had the machine to itself never misreports a lantern, *)
(* wherever its output is cut off: what it has as passed is lit in the     *)
(* file, what it has as failed is dark, beyond the first dark lantern too, *)
(* where `verify all` stops.  A run that came to its end has them all.     *)
(***************************************************************************)
LoneGraderReportsFile ==
  [][\A p \in Procs :
       /\ op[p].cmd = "grade" /\ op'[p].cmd # "grade"
       /\ ~At(p, "idle") /\ ~op[p].overlapped
       =>
         /\ verdict'.passed \subseteq Load(prog).completed
         /\ verdict'.failed \cap Load(prog).completed = {}
         /\ Status(p) => verdict'.passed \cup verdict'.failed = Steps]_vars

-----------------------------------------------------------------------------
(* What a comment says and the code does not do *)

\* "Preserve transient lanterns that were already honestly verified" is what
\* the all branch of cmd_verify says of itself (ops.py).
VerifyAllPreserves ==
  [][\A p \in Procs :
       op[p].cmd \in {"all", "grade"} /\ op'[p].at # op[p].at =>
         Load(prog).completed \subseteq Load(prog').completed]_vars
=============================================================================
