------------------------ MODULE GameProgress_proofs ------------------------
(***************************************************************************)
(* Proofs of the safety properties of GameProgress, for any number of ops  *)
(* invocations at a time, of lanterns and of hints.                        *)
(***************************************************************************)
EXTENDS GameProgress, InductionLemmas

(***************************************************************************)
(* Progress, contents and invocations                                      *)
(***************************************************************************)

\* A fresh start is a progress, with nothing lit.
LEMMA FreshType == Fresh \in Progress /\ Fresh.completed = {}
  BY GameAssumption DEF Fresh, Progress, Steps

\* What save_progress leaves behind, whole or not, is a content of a file.
LEMMA ContentsType ==
  /\ Absent \in Contents /\ Empty \in Contents /\ Garbled \in Contents
  /\ \A d \in Progress : Json(d) \in Contents
  BY FreshType DEF Absent, Empty, Garbled, Json, Contents

\* load_progress finds a progress in every file.
LEMMA LoadType ==
  ASSUME NEW c \in Contents
  PROVE  Load(c) \in Progress
  BY FreshType DEF Load, Contents

\* Files that hold no JSON load as nothing lit; a saved one as what was saved.
LEMMA LoadParts ==
  /\ Load(Absent).completed = {}
  /\ Load(Empty).completed = {}
  /\ Load(Garbled).completed = {}
  /\ \A d \in Progress : Load(Json(d)) = d
  BY FreshType DEF Load, Absent, Empty, Garbled, Json

\* An empty slot is an invocation.
LEMMA IdleType ==
  /\ Idle \in Invocations
  /\ Idle.at = "idle" /\ Idle.seen = {} /\ Idle.data.completed = {}
  /\ Idle.data = Fresh
  <1>1. 1 \in Steps
    BY GameAssumption DEF Steps
  <1>2. "idle" \in Labels /\ "none" \in Commands
    BY DEF Labels, Commands
  <1>. QED  BY <1>1, <1>2, FreshType DEF Idle, Invocations

\* mark_complete adds one lantern to those that are lit.
LEMMA MarkedType ==
  ASSUME NEW d \in Progress, NEW n \in Steps
  PROVE  /\ Marked(d, n) \in Progress
         /\ Marked(d, n).completed = d.completed \cup {n}
  BY DEF Marked, Progress

\* A hint leaves the lanterns as they are and counts within its bounds.
LEMMA HintedType ==
  ASSUME NEW d \in Progress, NEW n \in Steps, d.used[n] < HintsPerStep
  PROVE  /\ Hinted(d, n) \in Progress
         /\ Hinted(d, n).completed = d.completed
  <1>1. d.used[n] + 1 \in 0..HintsPerStep
    BY GameAssumption DEF Progress
  <1>2. (IF d.left > 0 THEN d.left - 1 ELSE 0) \in 0..DefaultHints
    BY GameAssumption DEF Progress
  <1>. QED  BY <1>1, <1>2 DEF Hinted, Progress

(***************************************************************************)
(* What an action does to the invocations                                  *)
(***************************************************************************)

\* A new invocation reads first; those beside it are marked, and it too.
LEMMA StartParts ==
  ASSUME op \in [Procs -> Invocations], NEW p \in Procs, Invoke(p)
  PROVE  /\ UNCHANGED <<prog, tmp, fd, earned>> /\ verdict' = NoReport
         /\ op' \in [Procs -> Invocations]
         /\ At(p, "idle")
         /\ op'[p].at \in {"complete", "load"}
         /\ op'[p].at = "load" => op'[p].cmd = "hint"
         /\ op'[p].cmd = "grade" => ~op'[p].force
         /\ op'[p].seen = {} /\ op'[p].failed = {}
         /\ op'[p].data = Fresh /\ op'[p].data.completed = {}
         /\ ~op'[p].overlapped => \A q \in Procs \ {p} : op'[q] = op[q] /\ At(q, "idle")
         /\ \A q \in Procs \ {p} :
              op'[q] \in {op[q], [op[q] EXCEPT !.overlapped = TRUE]}
         /\ \A q \in Procs \ {p} : ~At(q, "idle") => op'[q].overlapped
  <1>1. PICK cmd \in Commands, n \in Steps, force \in BOOLEAN,
             label \in {"complete", "load"} :
          /\ Start(p, cmd, n, force, label)
          /\ label = "load" => cmd = "hint"
          /\ cmd = "grade" => ~force
    <2>1. 1 \in Steps
      BY GameAssumption DEF Steps
    <2>2. {"one", "all", "grade", "hint"} \subseteq Commands
      BY DEF Commands
    <2>. QED  BY <2>1, <2>2 DEF Invoke, VerifyOne, VerifyAll, Grade, Hint
  <1>. DEFINE others == {q \in Procs : ~At(q, "idle")}
              new == [Idle EXCEPT !.at = label, !.cmd = cmd, !.n = n,
                                  !.force = force, !.overlapped = others # {}]
  <1>2. /\ At(p, "idle")
        /\ UNCHANGED <<prog, tmp, fd, earned>> /\ verdict' = NoReport
        /\ op' = [q \in Procs |->
                    IF q = p THEN new
                    ELSE IF q \in others THEN [op[q] EXCEPT !.overlapped = TRUE]
                    ELSE op[q]]
    BY <1>1 DEF Start
  <1>3. label \in Labels
    BY DEF Labels
  <1>4. new \in Invocations
    BY <1>3, IdleType DEF Invocations
  <1>5. /\ new.at = label /\ new.cmd = cmd /\ new.force = force
        /\ new.seen = {} /\ new.failed = {} /\ new.data.completed = {}
        /\ new.data = Fresh
        /\ new.overlapped = (others # {})
    BY IdleType DEF Idle
  <1>6. op' \in [Procs -> Invocations]
    BY <1>2, <1>4 DEF Invocations
  <1>7. \A q \in Procs \ {p} :
          op'[q] \in {op[q], [op[q] EXCEPT !.overlapped = TRUE]}
    BY <1>2
  <1>8. \A q \in Procs \ {p} : ~At(q, "idle") => op'[q].overlapped
    BY <1>2 DEF Invocations
  <1>9. op'[p] = new
    BY <1>2
  <1>10. ~op'[p].overlapped =>
           \A q \in Procs \ {p} : op'[q] = op[q] /\ At(q, "idle")
    BY <1>2, <1>5, <1>9
  <1>. QED  BY <1>1, <1>2, <1>5, <1>6, <1>7, <1>8, <1>9, <1>10

\* A verify that goes on from a passed lantern keeps what it knows of itself.
LEMMA PassedParts ==
  ASSUME op \in [Procs -> Invocations], NEW p \in Procs, Passed(p)
  PROVE  /\ op' \in [Procs -> Invocations]
         /\ \A q \in Procs \ {p} : op'[q] = op[q]
         /\ \/ op'[p] = Idle
            \/ /\ op'[p].at \in {"complete", "status"}
               /\ op'[p].at = "status" => op[p].cmd = "grade"
               /\ op'[p].cmd = op[p].cmd
               /\ op'[p].force = op[p].force
               /\ op'[p].data = Fresh /\ op'[p].data.completed = {}
               /\ op'[p].failed = op[p].failed
               /\ op'[p].overlapped = op[p].overlapped
               /\ op'[p].seen \subseteq op[p].seen \cup {op[p].n}
  <1>. DEFINE o == op[p]
              lit == [o EXCEPT !.data = Fresh,
                               !.seen = IF o.cmd = "grade" THEN @ \cup {o.n} ELSE @]
  <1>1. lit \in Invocations
    BY FreshType DEF Invocations
  <1>2. /\ lit.cmd = o.cmd /\ lit.force = o.force /\ lit.data.completed = {}
        /\ lit.data = Fresh
        /\ lit.failed = o.failed /\ lit.overlapped = o.overlapped
        /\ lit.seen \subseteq o.seen \cup {o.n} /\ lit.n = o.n
    BY FreshType DEF Invocations
  <1>. DEFINE next == [lit EXCEPT !.at = "complete", !.n = @ + 1]
              status == [lit EXCEPT !.at = "status"]
  <1>3. "complete" \in Labels /\ "status" \in Labels
    BY DEF Labels
  <1>4. o.n < N => next \in Invocations
    <2>1. o.n < N => lit.n + 1 \in Steps
      BY <1>2, GameAssumption DEF Invocations, Steps
    <2>. HIDE DEF lit
    <2>. QED  BY <1>1, <1>3, <2>1 DEF Invocations
  <1>5. status \in Invocations
    BY <1>1, <1>3 DEF Invocations
  <1>6. \E r \in Invocations :
          /\ op' = [op EXCEPT ![p] = r]
          /\ r \in {next, status, Idle}
          /\ r = status => o.cmd = "grade" \/ r = Idle \/ r = next
    BY <1>4, <1>5, IdleType DEF Passed
  <1>7. /\ next.at = "complete" /\ next.cmd = lit.cmd /\ next.force = lit.force
        /\ next.data = lit.data /\ next.failed = lit.failed
        /\ next.overlapped = lit.overlapped /\ next.seen = lit.seen
    BY <1>1 DEF Invocations
  <1>8. /\ status.at = "status" /\ status.cmd = lit.cmd
        /\ status.force = lit.force /\ status.data = lit.data
        /\ status.failed = lit.failed
        /\ status.overlapped = lit.overlapped /\ status.seen = lit.seen
    BY <1>1 DEF Invocations
  <1>. HIDE DEF next, status, lit
  <1>. QED  BY <1>2, <1>6, <1>7, <1>8

\* A verify that ends at a lantern is over, or is a grader going to report.
LEMMA StoppedParts ==
  ASSUME op \in [Procs -> Invocations], NEW p \in Procs,
         NEW failed \in SUBSET Steps, Stopped(p, failed)
  PROVE  /\ op' \in [Procs -> Invocations]
         /\ \A q \in Procs \ {p} : op'[q] = op[q]
         /\ \/ op'[p] = Idle
            \/ /\ op'[p].at = "status"
               /\ op[p].cmd = "grade"
               /\ op'[p].cmd = op[p].cmd
               /\ op'[p].force = op[p].force
               /\ op'[p].data = Fresh /\ op'[p].data.completed = {}
               /\ op'[p].failed = failed
               /\ op'[p].overlapped = op[p].overlapped
               /\ op'[p].seen = op[p].seen
  <1>1. "status" \in Labels
    BY DEF Labels
  <1>2. CASE op[p].cmd = "grade"
    BY <1>1, <1>2, FreshType DEF Stopped, Invocations
  <1>3. CASE op[p].cmd # "grade"
    BY <1>3, IdleType DEF Stopped, End
  <1>. QED  BY <1>2, <1>3

\* A grader that is cut off is over, or goes on as a command nobody reads.
LEMMA CutParts ==
  ASSUME op \in [Procs -> Invocations], NEW p \in Procs, Cut(p)
  PROVE  /\ op' \in [Procs -> Invocations]
         /\ \A q \in Procs \ {p} : op'[q] = op[q]
         /\ \/ op'[p] = Idle
            \/ /\ op'[p].at = op[p].at /\ op[p].at \notin {"idle", "status"}
               /\ op'[p].cmd = "all"
               /\ op'[p].n = op[p].n /\ op'[p].force = op[p].force
               /\ op'[p].data = op[p].data /\ op'[p].failed = op[p].failed
               /\ op'[p].seen = {}
               /\ op'[p].overlapped = op[p].overlapped
               /\ fd' = fd
  <1>. DEFINE on == [op[p] EXCEPT !.cmd = "all", !.seen = {}]
  <1>1. "all" \in Commands
    BY DEF Commands
  <1>2. on \in Invocations
    BY <1>1 DEF Invocations
  <1>3. CASE End(p)
    BY <1>3, IdleType DEF End
  <1>4. CASE /\ ~At(p, "status") /\ UNCHANGED fd
             /\ op' = [op EXCEPT ![p].cmd = "all", ![p].seen = {}]
    <2>1. op' = [op EXCEPT ![p] = on]
      BY <1>4
    <2>2. /\ on.at = op[p].at /\ on.cmd = "all" /\ on.n = op[p].n
          /\ on.force = op[p].force /\ on.data = op[p].data
          /\ on.failed = op[p].failed /\ on.seen = {}
          /\ on.overlapped = op[p].overlapped
      BY DEF Invocations
    <2>. HIDE DEF on
    <2>. QED  BY <1>2, <1>4, <2>1, <2>2 DEF Cut, At
  <1>. QED  BY <1>3, <1>4 DEF Cut

(***************************************************************************)
(* Reports                                                                 *)
(***************************************************************************)

\* Whatever arrives of a grader's output is a report, on lanterns it has seen
\* pass or the file has lit.
LEMMA ReportType ==
  ASSUME NEW o \in Invocations, NEW d \in Progress
  PROVE  /\ \A r \in Arrived(o, d) \cup {Reported(o, d, N)} :
              r \in Reports /\ r.passed \subseteq o.seen \cup d.completed
         /\ NoReport \in Reports /\ NoReport.passed = {}
  <1>1. o.seen \subseteq Steps /\ o.failed \subseteq Steps
        /\ d.completed \subseteq Steps
    BY DEF Invocations, Progress
  <1>2. \A m : /\ Reported(o, d, m) \in Reports
              /\ Reported(o, d, m).passed \subseteq o.seen \cup d.completed
    BY <1>1 DEF Reported, Reports
  <1>3. \A m : LET r == [passed |-> {n \in o.seen : n <= m}, failed |-> {}]
              IN  r \in Reports /\ r.passed \subseteq o.seen
    BY <1>1 DEF Reports
  <1>. QED  BY <1>2, <1>3 DEF Arrived, NoReport, Reports

\* A report is right about every lantern it has a line for if what the grader
\* has seen is still so; with all the lines it has every lantern.
LEMMA ReportRight ==
  ASSUME NEW o \in Invocations, NEW d \in Progress,
         o.seen \subseteq d.completed, o.failed \cap d.completed = {}
  PROVE  /\ \A r \in Arrived(o, d) \cup {Reported(o, d, N)} :
              r.passed \subseteq d.completed /\ r.failed \cap d.completed = {}
         /\ Reported(o, d, N).passed \cup Reported(o, d, N).failed = Steps
  <1>1. /\ o.seen \subseteq Steps /\ o.failed \subseteq Steps
        /\ d.completed \subseteq Steps
    BY DEF Invocations, Progress
  <1>2. \A m : /\ Reported(o, d, m).passed \subseteq d.completed
              /\ Reported(o, d, m).failed \cap d.completed = {}
    BY DEF Reported
  <1>3. \A r \in Arrived(o, d) \cup {Reported(o, d, N)} :
          r.passed \subseteq d.completed /\ r.failed \cap d.completed = {}
    BY <1>2 DEF Arrived
  <1>4. \A n \in Steps : n <= N
    BY GameAssumption DEF Steps
  <1>5. Reported(o, d, N).passed \cup Reported(o, d, N).failed = Steps
    BY <1>1, <1>4 DEF Reported
  <1>. QED  BY <1>3, <1>5

(***************************************************************************)
(* Type correctness                                                        *)
(***************************************************************************)

\* The initial state is well typed.
LEMMA TypeInit == Init => TypeOK
  BY FreshType, ContentsType, IdleType DEF Init, TypeOK, NoReport, Reports

\* Going to another label keeps the invocations well typed.
LEMMA GoToType ==
  ASSUME op \in [Procs -> Invocations], NEW p \in Procs, NEW label \in Labels
  PROVE  [op EXCEPT ![p].at = label] \in [Procs -> Invocations]
  BY DEF Invocations

\* A write over whatever the file holds leaves a content.
LEMMA OverwriteType ==
  ASSUME NEW c \in Contents, NEW d \in Progress
  PROVE  Overwrite(c, d) \subseteq Contents
  BY ContentsType DEF Overwrite

\* Every step keeps the state well typed.
LEMMA TypeStep == TypeOK /\ [Next]_vars => TypeOK'
  <1>. SUFFICES ASSUME TypeOK, [Next]_vars PROVE TypeOK'
    OBVIOUS
  <1>. USE DEF TypeOK
  <1>0. {"idle", "complete", "check", "load", "open", "write", "replace",
         "status"} \subseteq Labels
    BY DEF Labels
  <1>1. ASSUME NEW p \in Procs, Invoke(p) PROVE TypeOK'
    BY <1>1, StartParts DEF NoReport, Reports
  <1>2. ASSUME NEW p \in Procs, Step(p) PROVE TypeOK'
    <2>1. CASE IsComplete(p)
      <3>1. op' \in [Procs -> Invocations]
        <4>1. CASE Passed(p)
          BY <4>1, PassedParts
        <4>2. CASE op' = [op EXCEPT ![p] =
                            [@ EXCEPT !.at = "check", !.force = FALSE]]
          <5>1. [op[p] EXCEPT !.at = "check", !.force = FALSE] \in Invocations
            BY <1>0, <4>2 DEF Invocations
          <5>. QED  BY <4>2, <5>1
        <4>. QED  BY <2>1, <4>1, <4>2 DEF IsComplete
      <3>. QED  BY <2>1, <3>1 DEF IsComplete
    <2>2. CASE RunCheck(p)
      <3>1. CASE op' = [op EXCEPT ![p].at = "load"]
        <4>1. op[p].n \in Steps
          BY DEF Invocations
        <4>. QED  BY <1>0, <2>2, <3>1, <4>1, GoToType DEF RunCheck
      <3>2. CASE Stopped(p, {op[p].n})
        <4>1. op[p].n \in Steps
          BY DEF Invocations
        <4>. QED  BY <2>2, <3>2, <4>1, StoppedParts DEF RunCheck
      <3>. QED  BY <2>2, <3>1, <3>2 DEF RunCheck
    <2>3. CASE LoadProgress(p)
      <3>. DEFINE d == Load(prog)
                  n == op[p].n
      <3>1. d \in Progress /\ n \in Steps
        BY LoadType DEF Invocations
      <3>2. op' \in [Procs -> Invocations]
        <4>1. ASSUME NEW e \in Progress,
                     op' = [op EXCEPT ![p].at = "open", ![p].data = e]
              PROVE  op' \in [Procs -> Invocations]
          <5>1. [op[p] EXCEPT !.at = "open", !.data = e] \in Invocations
            BY <1>0, <4>1 DEF Invocations
          <5>2. op' = [op EXCEPT ![p] = [op[p] EXCEPT !.at = "open", !.data = e]]
            BY <4>1
          <5>. QED  BY <5>1, <5>2
        <4>2. CASE op[p].cmd # "hint"
          BY <2>3, <3>1, <4>1, <4>2, MarkedType DEF LoadProgress
        <4>3. CASE op[p].cmd = "hint" /\ d.used[n] < HintsPerStep
          BY <2>3, <3>1, <4>1, <4>3, HintedType DEF LoadProgress
        <4>4. CASE op[p].cmd = "hint" /\ ~(d.used[n] < HintsPerStep)
          BY <2>3, <4>4, IdleType DEF LoadProgress, End
        <4>. QED  BY <4>2, <4>3, <4>4
      <3>. QED  BY <2>3, <3>2 DEF LoadProgress
    <2>4. CASE OpenTmp(p)
      BY <1>0, <2>4, GoToType, ContentsType DEF OpenTmp
    <2>5. CASE WriteTmp(p)
      <3>1. op[p].data \in Progress
        BY DEF Invocations
      <3>2. prog' \in Contents /\ tmp' \in Contents
        BY <2>5, <3>1, OverwriteType DEF WriteTmp
      <3>. QED  BY <1>0, <2>5, <3>2, GoToType DEF WriteTmp
    <2>6. CASE ReplaceTmp(p)
      <3>1. op' \in [Procs -> Invocations]
        BY <2>6, PassedParts, StoppedParts, IdleType DEF ReplaceTmp, End
      <3>2. fd' \in [Procs -> {"none", "tmp", "prog", "unlinked"}]
        BY <2>6 DEF ReplaceTmp
      <3>. QED  BY <2>6, <3>1, <3>2, ContentsType DEF ReplaceTmp
    <2>7. CASE Status(p)
      <3>1. verdict' \in Reports
        BY <2>7, LoadType, ReportType DEF Status
      <3>. QED  BY <2>7, <3>1, IdleType DEF Status, End
    <2>9. CASE Cut(p)
      <3>1. verdict' \in Reports
        BY <2>9, LoadType, ReportType DEF Cut
      <3>2. fd' \in [Procs -> {"none", "tmp", "prog", "unlinked"}]
        BY <2>9 DEF Cut
      <3>. QED  BY <2>9, <3>1, <3>2, CutParts DEF Cut
    <2>8. CASE Interrupted(p)
      BY <2>8, IdleType DEF Interrupted, End
    <2>. QED  BY <1>2, <2>1, <2>2, <2>3, <2>4, <2>5, <2>6, <2>7, <2>8, <2>9
              DEF Step
  <1>3. CASE UNCHANGED vars
    BY <1>3 DEF vars
  <1>. QED  BY <1>1, <1>2, <1>3 DEF Next

\* The two files, the invocations and the histories are always well typed.
THEOREM TypeCorrect == Spec => []TypeOK
  BY TypeInit, TypeStep, PTL DEF Spec
(***************************************************************************)
(* Nothing is lit that was not earned                                      *)
(***************************************************************************)

\* NothingUnearned, and that what an invocation has read, has seen or is about
\* to save was earned as well: it may get to a file or to a report much later.
EarnedInv ==
  /\ NothingUnearned
  /\ \A p \in Procs :
       /\ op[p].data.completed \subseteq earned
       /\ op[p].seen \subseteq earned
       /\ op[p].at \in {"load", "open", "write", "replace"} /\ op[p].cmd # "hint" =>
            op[p].n \in earned

\* Every step keeps EarnedInv.
LEMMA EarnedStep == TypeOK /\ EarnedInv /\ [Next]_vars => EarnedInv'
  <1>. SUFFICES ASSUME TypeOK, EarnedInv, [Next]_vars PROVE EarnedInv'
    OBVIOUS
  <1>. USE DEF TypeOK
  <1>1. ASSUME NEW p \in Procs, Invoke(p) PROVE EarnedInv'
    <2>1. \A q \in Procs \ {p} :
            /\ op'[q].data = op[q].data /\ op'[q].seen = op[q].seen
            /\ op'[q].at = op[q].at /\ op'[q].cmd = op[q].cmd
            /\ op'[q].n = op[q].n
      BY <1>1, StartParts DEF Invocations
    <2>. QED  BY <1>1, <2>1, StartParts DEF EarnedInv, NothingUnearned, NoReport
  <1>2. ASSUME NEW p \in Procs, Step(p) PROVE EarnedInv'
    <2>1. CASE IsComplete(p)
      <3>1. CASE op[p].n \in Load(prog).completed /\ Passed(p)
        BY <2>1, <3>1, PassedParts, IdleType
           DEF IsComplete, EarnedInv, NothingUnearned
      <3>2. CASE op' = [op EXCEPT ![p] =
                          [@ EXCEPT !.at = "check", !.force = FALSE]]
        BY <2>1, <3>2 DEF IsComplete, EarnedInv, NothingUnearned, Invocations
      <3>. QED  BY <2>1, <3>1, <3>2 DEF IsComplete
    <2>2. CASE RunCheck(p)
      <3>1. CASE /\ op' = [op EXCEPT ![p].at = "load"]
                 /\ earned' = earned \cup {op[p].n}
        BY <2>2, <3>1 DEF RunCheck, EarnedInv, NothingUnearned, Invocations
      <3>2. CASE Stopped(p, {op[p].n}) /\ UNCHANGED earned
        <4>1. op[p].n \in Steps
          BY DEF Invocations
        <4>. QED  BY <2>2, <3>2, <4>1, StoppedParts, IdleType
                  DEF RunCheck, EarnedInv, NothingUnearned
      <3>. QED  BY <2>2, <3>1, <3>2 DEF RunCheck
    <2>3. CASE LoadProgress(p)
      <3>. DEFINE d == Load(prog)
                  n == op[p].n
      <3>1. d \in Progress /\ n \in Steps /\ d.completed \subseteq earned
        BY LoadType DEF Invocations, EarnedInv, NothingUnearned
      <3>2. ASSUME NEW e \in Progress, e.completed \subseteq earned,
                   op' = [op EXCEPT ![p].at = "open", ![p].data = e]
            PROVE  EarnedInv'
        BY <2>3, <3>2
           DEF LoadProgress, At, EarnedInv, NothingUnearned, Invocations
      <3>3. CASE op[p].cmd # "hint"
        <4>1. n \in earned
          BY <2>3, <3>3 DEF LoadProgress, At, EarnedInv
        <4>. QED  BY <2>3, <3>1, <3>2, <3>3, <4>1, MarkedType DEF LoadProgress
      <3>4. CASE op[p].cmd = "hint" /\ d.used[n] < HintsPerStep
        BY <2>3, <3>1, <3>2, <3>4, HintedType DEF LoadProgress
      <3>5. CASE op[p].cmd = "hint" /\ ~(d.used[n] < HintsPerStep)
        BY <2>3, <3>5, IdleType
           DEF LoadProgress, End, EarnedInv, NothingUnearned
      <3>. QED  BY <3>3, <3>4, <3>5
    <2>4. CASE OpenTmp(p)
      BY <2>4, LoadParts DEF OpenTmp, EarnedInv, NothingUnearned, At, Invocations
    <2>5. CASE WriteTmp(p)
      <3>. DEFINE d == op[p].data
      <3>1. d \in Progress /\ d.completed \subseteq earned
        BY DEF Invocations, EarnedInv
      <3>2. \A c \in Contents : \A o \in Overwrite(c, d) :
              Load(o).completed \subseteq earned
        BY <3>1, LoadParts DEF Overwrite
      <3>3. /\ Load(prog').completed \subseteq earned
            /\ Load(tmp').completed \subseteq earned
        BY <2>5, <3>2 DEF WriteTmp, EarnedInv, NothingUnearned
      <3>. QED  BY <2>5, <3>3
                DEF WriteTmp, EarnedInv, NothingUnearned, At, Invocations
    <2>6. CASE ReplaceTmp(p)
      <3>1. CASE tmp = Absent
        BY <2>6, <3>1, StoppedParts, IdleType
           DEF ReplaceTmp, EarnedInv, NothingUnearned
      <3>2. CASE tmp # Absent /\ op[p].cmd = "hint"
        BY <2>6, <3>2, LoadParts, IdleType
           DEF ReplaceTmp, End, EarnedInv, NothingUnearned
      <3>3. CASE tmp # Absent /\ op[p].cmd # "hint"
        <4>1. op[p].n \in earned
          BY <2>6, <3>3 DEF ReplaceTmp, At, EarnedInv
        <4>. QED  BY <2>6, <3>3, <4>1, LoadParts, PassedParts, IdleType
                  DEF ReplaceTmp, EarnedInv, NothingUnearned
      <3>. QED  BY <3>1, <3>2, <3>3
    <2>7. CASE Status(p)
      <3>1. verdict'.passed \subseteq earned
        BY <2>7, LoadType, ReportType DEF Status, EarnedInv, NothingUnearned
      <3>. QED  BY <2>7, <3>1, IdleType
                DEF Status, End, EarnedInv, NothingUnearned
    <2>8. CASE Interrupted(p)
      BY <2>8, IdleType DEF Interrupted, End, EarnedInv, NothingUnearned
    <2>9. CASE Cut(p)
      <3>1. verdict'.passed \subseteq earned
        BY <2>9, LoadType, ReportType DEF Cut, EarnedInv, NothingUnearned
      <3>. QED  BY <2>9, <3>1, CutParts, IdleType
                DEF Cut, EarnedInv, NothingUnearned
    <2>. QED  BY <1>2, <2>1, <2>2, <2>3, <2>4, <2>5, <2>6, <2>7, <2>8, <2>9
              DEF Step
  <1>3. CASE UNCHANGED vars
    BY <1>3 DEF vars, EarnedInv, NothingUnearned
  <1>. QED  BY <1>1, <1>2, <1>3 DEF Next

\* Whatever two saves make of the files, and whatever is read from them, no
\* lantern is shown lit whose check has not passed on the machine.
THEOREM NothingIsUnearned == Spec => []NothingUnearned
  <1>1. Init => EarnedInv
    BY IdleType, LoadParts, FreshType
       DEF Init, EarnedInv, NothingUnearned, NoReport
  <1>2. EarnedInv => NothingUnearned
    BY DEF EarnedInv
  <1>. QED  BY <1>1, <1>2, EarnedStep, TypeCorrect, PTL DEF Spec

(***************************************************************************)
(* A command that has the machine to itself                                *)
(***************************************************************************)

\* An invocation that nothing has run beside.
Alone(p) == ~At(p, "idle") /\ ~op[p].overlapped

Lit == Load(prog).completed

\* What a command that is alone is about to save has every lit lantern in it,
\* and no other command holds or fills the temporary file.
SavesAll(p) ==
  /\ op[p].at \in {"open", "write"} => Lit \subseteq op[p].data.completed
  /\ op[p].at = "write" => tmp = Empty /\ fd[p] = "tmp"
  /\ op[p].at = "replace" => tmp # Absent /\ Lit \subseteq Load(tmp).completed

\* What a grader run that is alone has seen of the file is still so, and the
\* lantern it is saving will be in the file.
SeesFile(p) ==
  /\ ~op[p].force
  /\ op[p].seen \subseteq Lit
  /\ op[p].failed = {} \/ op[p].at = "status"
  /\ op[p].failed \cap Lit = {}
  /\ op[p].at = "check" => op[p].n \notin Lit
  /\ op[p].at \in {"open", "write"} => op[p].n \in op[p].data.completed
  /\ op[p].at = "replace" => op[p].n \in Load(tmp).completed

LoneInv ==
  \A p \in Procs : Alone(p) =>
    /\ \A q \in Procs \ {p} : At(q, "idle")
    /\ SavesAll(p)
    /\ op[p].cmd = "grade" => SeesFile(p)
    /\ op[p].at = "status" => op[p].cmd = "grade"

\* A step is one of an invocation in progress, leaves the others alone, and
\* ends it or leaves it the command it was, overlapped or not; but a grader
\* that is cut off is a grader no more.
LEMMA StepFrame ==
  ASSUME TypeOK, NEW p \in Procs, Step(p)
  PROVE  /\ ~At(p, "idle")
         /\ \A q \in Procs \ {p} : op'[q] = op[q]
         /\ \/ op'[p].at = "idle"
            \/ /\ op'[p].overlapped = op[p].overlapped
               /\ op'[p].cmd = op[p].cmd \/ Cut(p)
  <1>. USE DEF TypeOK
  <1>1. CASE IsComplete(p)
    BY <1>1, PassedParts, IdleType DEF IsComplete, At, Invocations
  <1>2. CASE RunCheck(p)
    <2>1. op[p].n \in Steps
      BY DEF Invocations
    <2>. QED  BY <1>2, <2>1, StoppedParts, IdleType
              DEF RunCheck, At, Invocations
  <1>3. CASE LoadProgress(p)
    BY <1>3, IdleType DEF LoadProgress, End, At, Invocations
  <1>4. CASE OpenTmp(p)
    BY <1>4 DEF OpenTmp, At, Invocations
  <1>5. CASE WriteTmp(p)
    BY <1>5 DEF WriteTmp, At, Invocations
  <1>6. CASE ReplaceTmp(p)
    BY <1>6, PassedParts, StoppedParts, IdleType DEF ReplaceTmp, End, At
  <1>7. CASE Status(p)
    BY <1>7, IdleType DEF Status, End, At
  <1>8. CASE Interrupted(p)
    BY <1>8, IdleType DEF Interrupted, End
  <1>9. CASE Cut(p)
    BY <1>9, CutParts, IdleType DEF Cut
  <1>. QED  BY <1>1, <1>2, <1>3, <1>4, <1>5, <1>6, <1>7, <1>8, <1>9 DEF Step

\* Only a grader run goes on to report.
LEMMA ReportsOnlyGrade ==
  ASSUME TypeOK, NEW p \in Procs, Step(p), op'[p].at = "status"
  PROVE  op[p].cmd = "grade"
  <1>. USE DEF TypeOK
  <1>1. CASE IsComplete(p)
    BY <1>1, PassedParts, IdleType DEF IsComplete, At, Invocations
  <1>2. CASE RunCheck(p)
    <2>1. op[p].n \in Steps
      BY DEF Invocations
    <2>. QED  BY <1>2, <2>1, StoppedParts, IdleType
              DEF RunCheck, At, Invocations
  <1>3. CASE LoadProgress(p)
    BY <1>3, IdleType DEF LoadProgress, End, At, Invocations
  <1>4. CASE OpenTmp(p)
    BY <1>4 DEF OpenTmp, At, Invocations
  <1>5. CASE WriteTmp(p)
    BY <1>5 DEF WriteTmp, At, Invocations
  <1>6. CASE ReplaceTmp(p)
    BY <1>6, PassedParts, StoppedParts, IdleType DEF ReplaceTmp, End, At
  <1>7. CASE Status(p) \/ Interrupted(p)
    BY <1>7, IdleType DEF Status, Interrupted, End
  <1>8. CASE Cut(p)
    BY <1>8, CutParts, IdleType
  <1>. QED  BY <1>1, <1>2, <1>3, <1>4, <1>5, <1>6, <1>7, <1>8 DEF Step

\* A grader run ends by reporting, or by being cut off.
LEMMA GraderEnds ==
  ASSUME TypeOK, NEW p \in Procs, Step(p),
         op[p].cmd = "grade", op'[p].cmd # "grade"
  PROVE  Status(p) \/ Cut(p)
  <1>. USE DEF TypeOK
  <1>1. Passed(p) => op'[p].cmd = "grade"
    BY DEF Passed, Invocations
  <1>2. \A failed \in SUBSET Steps : Stopped(p, failed) => op'[p].cmd = "grade"
    BY DEF Stopped, Invocations
  <1>3. ~IsComplete(p)
    BY <1>1 DEF IsComplete, Invocations
  <1>4. ~RunCheck(p)
    <2>1. op[p].n \in Steps
      BY DEF Invocations
    <2>. QED  BY <1>2, <2>1 DEF RunCheck, Invocations
  <1>5. ~LoadProgress(p)
    BY DEF LoadProgress, Invocations
  <1>6. ~OpenTmp(p) /\ ~WriteTmp(p)
    BY DEF OpenTmp, WriteTmp, Invocations
  <1>7. ~ReplaceTmp(p)
    BY <1>1, <1>2 DEF ReplaceTmp
  <1>. QED  BY <1>3, <1>4, <1>5, <1>6, <1>7 DEF Step, Interrupted

\* Every step keeps LoneInv.
LEMMA LoneStep == TypeOK /\ LoneInv /\ [Next]_vars => LoneInv'
  <1>. SUFFICES ASSUME TypeOK, LoneInv, [Next]_vars PROVE LoneInv'
    OBVIOUS
  <1>. USE DEF TypeOK
  <1>1. ASSUME NEW p \in Procs, Invoke(p) PROVE LoneInv'
    <2>. SUFFICES ASSUME NEW q \in Procs, Alone(q)'
                  PROVE  (/\ \A r \in Procs \ {q} : At(r, "idle")
                          /\ SavesAll(q)
                          /\ op[q].cmd = "grade" => SeesFile(q)
                          /\ op[q].at = "status" => op[q].cmd = "grade")'
      BY DEF LoneInv
    <2>1. CASE q # p
      <3>1. ~At(q, "idle")
        BY <1>1, <2>1, StartParts DEF Alone, At, Invocations
      <3>. QED  BY <1>1, <2>1, <3>1, StartParts DEF Alone
    <2>2. CASE q = p
      BY <1>1, <2>2, StartParts DEF Alone, At, SavesAll, SeesFile
    <2>. QED  BY <2>1, <2>2
  <1>2. ASSUME NEW p \in Procs, Step(p) PROVE LoneInv'
    <2>. SUFFICES ASSUME NEW q \in Procs, Alone(q)'
                  PROVE  (/\ \A r \in Procs \ {q} : At(r, "idle")
                          /\ SavesAll(q)
                          /\ op[q].cmd = "grade" => SeesFile(q)
                          /\ op[q].at = "status" => op[q].cmd = "grade")'
      BY DEF LoneInv
    <2>1. q = p /\ Alone(p)
      <3>1. CASE q # p
        BY <1>2, <3>1, StepFrame DEF Alone, At, LoneInv
      <3>2. CASE q = p
        BY <1>2, <3>2, StepFrame DEF Alone, At
      <3>. QED  BY <3>1, <3>2
    <2>2. /\ \A r \in Procs \ {p} : At(r, "idle")
          /\ SavesAll(p)
          /\ op[p].cmd = "grade" => SeesFile(p)
      BY <2>1 DEF LoneInv
    <2>3. \A r \in Procs \ {p} : At(r, "idle")'
      BY <1>2, <2>2, StepFrame DEF At
    <2>7. CASE Cut(p)
      <3>1. /\ op'[p].at = op[p].at /\ op[p].at # "status"
            /\ op'[p].cmd = "all" /\ op'[p].data = op[p].data /\ fd' = fd
        BY <2>1, <2>7, CutParts, IdleType DEF Alone, At
      <3>. QED  BY <2>1, <2>2, <2>3, <2>7, <3>1 DEF Cut, SavesAll, At, Lit
    <2>. SUFFICES ASSUME ~Cut(p)
                  PROVE  (/\ \A r \in Procs \ {q} : At(r, "idle")
                          /\ SavesAll(q)
                          /\ op[q].cmd = "grade" => SeesFile(q)
                          /\ op[q].at = "status" => op[q].cmd = "grade")'
      BY <2>7
    <2>4. op'[p].at # "idle" /\ op'[p].cmd = op[p].cmd
      BY <1>2, <2>1, StepFrame DEF Alone, At
    <2>5. (SavesAll(p) /\ (op[p].cmd = "grade" => SeesFile(p)))'
      <3>1. CASE IsComplete(p)
        <4>1. CASE op[p].n \in Load(prog).completed /\ Passed(p)
          BY <2>2, <2>4, <3>1, <4>1, PassedParts, IdleType
             DEF IsComplete, SavesAll, SeesFile, At, Lit
        <4>2. CASE /\ op[p].n \notin Load(prog).completed \/ op[p].force
                   /\ op' = [op EXCEPT ![p] =
                               [@ EXCEPT !.at = "check", !.force = FALSE]]
          <5>1. /\ op'[p].at = "check" /\ ~op'[p].force
                /\ op'[p].seen = op[p].seen /\ op'[p].failed = op[p].failed
                /\ op'[p].n = op[p].n
            BY <4>2 DEF Invocations
          <5>. QED  BY <2>2, <2>4, <3>1, <4>2, <5>1
                    DEF IsComplete, SavesAll, SeesFile, At, Lit
        <4>. QED  BY <3>1, <4>1, <4>2 DEF IsComplete
      <3>2. CASE RunCheck(p)
        <4>1. CASE op' = [op EXCEPT ![p].at = "load"]
          BY <2>2, <2>4, <3>2, <4>1
             DEF RunCheck, SavesAll, SeesFile, At, Lit, Invocations
        <4>2. CASE Stopped(p, {op[p].n})
          <5>1. op[p].n \in Steps
            BY DEF Invocations
          <5>2. /\ op'[p].at = "status"
                /\ op'[p].force = op[p].force /\ op'[p].seen = op[p].seen
                /\ op'[p].failed = {op[p].n}
            BY <2>4, <4>2, <5>1, StoppedParts, IdleType
          <5>. QED  BY <2>2, <2>4, <3>2, <5>2
                    DEF RunCheck, SavesAll, SeesFile, At, Lit
        <4>. QED  BY <3>2, <4>1, <4>2 DEF RunCheck
      <3>3. CASE LoadProgress(p)
        <4>. DEFINE d == Load(prog)
                    n == op[p].n
        <4>1. d \in Progress /\ n \in Steps
          BY LoadType DEF Invocations
        <4>2. ASSUME NEW e \in Progress, d.completed \subseteq e.completed,
                     op[p].cmd = "grade" => n \in e.completed,
                     op' = [op EXCEPT ![p].at = "open", ![p].data = e]
              PROVE  (SavesAll(p) /\ (op[p].cmd = "grade" => SeesFile(p)))'
          <5>1. /\ op'[p].at = "open" /\ op'[p].data = e
                /\ op'[p].n = n /\ op'[p].force = op[p].force
                /\ op'[p].seen = op[p].seen /\ op'[p].failed = op[p].failed
            BY <4>2 DEF Invocations
          <5>. QED  BY <2>2, <2>4, <3>3, <4>2, <5>1
                    DEF LoadProgress, SavesAll, SeesFile, At, Lit
        <4>3. CASE op[p].cmd # "hint"
          BY <3>3, <4>1, <4>2, <4>3, MarkedType DEF LoadProgress
        <4>4. CASE op[p].cmd = "hint" /\ d.used[n] < HintsPerStep
          BY <3>3, <4>1, <4>2, <4>4, HintedType DEF LoadProgress
        <4>5. CASE op[p].cmd = "hint" /\ ~(d.used[n] < HintsPerStep)
          BY <2>4, <3>3, <4>5, IdleType DEF LoadProgress, End
        <4>. QED  BY <4>3, <4>4, <4>5
      <3>4. CASE OpenTmp(p)
        BY <2>2, <2>4, <3>4 DEF OpenTmp, SavesAll, SeesFile, At, Lit, Invocations
      <3>5. CASE WriteTmp(p)
        <4>1. tmp = Empty /\ fd[p] = "tmp" /\ op[p].data \in Progress
          BY <2>2, <3>5 DEF WriteTmp, At, SavesAll, Invocations
        <4>2. tmp' = Json(op[p].data) /\ prog' = prog
          BY <3>5, <4>1 DEF WriteTmp, Overwrite
        <4>3. Load(tmp') = op[p].data /\ tmp' # Absent
          BY <4>1, <4>2, LoadParts DEF Json, Absent
        <4>4. /\ op'[p].at = "replace" /\ op'[p].n = op[p].n
              /\ op'[p].force = op[p].force
              /\ op'[p].seen = op[p].seen /\ op'[p].failed = op[p].failed
          BY <3>5 DEF WriteTmp, Invocations
        <4>. QED  BY <2>2, <2>4, <3>5, <4>2, <4>3, <4>4
                  DEF WriteTmp, SavesAll, SeesFile, At, Lit
      <3>6. CASE ReplaceTmp(p)
        <4>1. tmp # Absent /\ prog' = tmp
          BY <2>2, <3>6 DEF ReplaceTmp, SavesAll, At
        <4>2. op[p].cmd # "hint" /\ Passed(p)
          BY <2>4, <3>6, <4>1, IdleType DEF ReplaceTmp, End
        <4>3. Lit \subseteq Lit'
          BY <2>2, <3>6, <4>1 DEF ReplaceTmp, SavesAll, At, Lit
        <4>. QED  BY <2>2, <2>4, <3>6, <4>1, <4>2, <4>3, PassedParts, IdleType
                  DEF ReplaceTmp, SavesAll, SeesFile, At, Lit
      <3>7. CASE Status(p)
        BY <2>4, <3>7, IdleType DEF Status, End
      <3>8. CASE Interrupted(p)
        BY <2>4, <3>8, IdleType DEF Interrupted, End
      <3>. QED  BY <1>2, <3>1, <3>2, <3>3, <3>4, <3>5, <3>6, <3>7, <3>8
                DEF Step
    <2>6. op'[p].at = "status" => op'[p].cmd = "grade"
      BY <1>2, <2>1, <2>4, ReportsOnlyGrade
    <2>. QED  BY <2>1, <2>3, <2>5, <2>6
  <1>3. CASE UNCHANGED vars
    BY <1>3 DEF vars, LoneInv, Alone, SavesAll, SeesFile, At, Lit
  <1>. QED  BY <1>1, <1>2, <1>3 DEF Next

\* At first no command is in progress, let alone one on its own.
LEMMA LoneInit == Init => LoneInv
  BY IdleType DEF Init, LoneInv, Alone, At

\* LoneInv holds throughout.
LEMMA LoneInvariant == Spec => []LoneInv
  BY LoneInit, LoneStep, TypeCorrect, PTL DEF Spec

\* While a grader run is alone nothing has been reported: the report before
\* it is gone since its start, and the next one is its own.
Unreported ==
  \A p \in Procs : Alone(p) /\ op[p].cmd = "grade" => verdict = NoReport

LEMMA UnreportedStep ==
  TypeOK /\ LoneInv /\ Unreported /\ [Next]_vars => Unreported'
  <1>. SUFFICES ASSUME TypeOK, LoneInv, Unreported, [Next]_vars,
                       NEW q \in Procs, (Alone(q) /\ op[q].cmd = "grade")'
                PROVE  verdict' = NoReport
    BY DEF Unreported
  <1>. USE DEF TypeOK
  <1>1. ASSUME NEW p \in Procs, Invoke(p) PROVE verdict' = NoReport
    BY <1>1, StartParts
  <1>2. ASSUME NEW p \in Procs, Step(p) PROVE verdict' = NoReport
    <2>1. q = p /\ Alone(p)
      <3>1. CASE q # p
        BY <1>2, <3>1, StepFrame DEF Alone, At, LoneInv
      <3>2. CASE q = p
        BY <1>2, <3>2, StepFrame DEF Alone, At
      <3>. QED  BY <3>1, <3>2
    <2>2. ~Cut(p) /\ ~Status(p)
      BY <2>1, CutParts, IdleType DEF Alone, At, Status, End
    <2>3. op[p].cmd = "grade"
      BY <1>2, <2>1, <2>2, StepFrame DEF Alone, At
    <2>4. verdict = NoReport
      BY <2>1, <2>3 DEF Unreported
    <2>. QED  BY <1>2, <2>2, <2>4
              DEF Step, IsComplete, RunCheck, LoadProgress, OpenTmp, WriteTmp,
                  ReplaceTmp, Interrupted
  <1>3. CASE UNCHANGED vars
    BY <1>3 DEF vars, Unreported, Alone, At
  <1>. QED  BY <1>1, <1>2, <1>3 DEF Next

\* No report is older than a grader run that is alone.
LEMMA UnreportedInvariant == Spec => []Unreported
  <1>1. Init => Unreported
    BY DEF Init, Unreported
  <1>. QED  BY <1>1, UnreportedStep, LoneInvariant, TypeCorrect, PTL DEF Spec

\* A lantern goes dark only by a save of a command that ran beside another.
THEOREM LostByOverlapOnly == Spec => LostOnlyToOverlap
  <1>. DEFINE A == ~(Load(prog).completed \subseteq Load(prog').completed) =>
                     \E p \in Procs :
                       op[p].overlapped /\ (At(p, "write") \/ At(p, "replace"))
  <1>1. TypeOK /\ LoneInv /\ [Next]_vars => [A]_vars
    <2>. SUFFICES ASSUME TypeOK, LoneInv, Next,
                         ~(Load(prog).completed \subseteq Load(prog').completed)
                  PROVE  \E p \in Procs :
                           op[p].overlapped /\ (At(p, "write") \/ At(p, "replace"))
      OBVIOUS
    <2>1. PICK p \in Procs : Invoke(p) \/ Step(p)
      BY DEF Next
    <2>2. prog' # prog
      OBVIOUS
    <2>3. WriteTmp(p) \/ ReplaceTmp(p)
      BY <2>1, <2>2, StartParts
         DEF TypeOK, Step, IsComplete, RunCheck, LoadProgress, OpenTmp, Status,
             Cut, Interrupted
    <2>4. op[p].overlapped
      <3>. SUFFICES ASSUME ~op[p].overlapped PROVE FALSE
        OBVIOUS
      <3>1. SavesAll(p)
        BY <2>3 DEF LoneInv, Alone, At, WriteTmp, ReplaceTmp
      <3>. QED  BY <2>2, <2>3, <3>1 DEF WriteTmp, ReplaceTmp, SavesAll, At, Lit
    <2>. QED  BY <2>3, <2>4 DEF WriteTmp, ReplaceTmp
  <1>. QED  BY <1>1, LoneInvariant, TypeCorrect, PTL DEF Spec, LostOnlyToOverlap

\* A grader run that had the machine to itself never misreports a lantern,
\* wherever its output is cut off, and has them all if it is not.
THEOREM LoneGraderIsRight == Spec => LoneGraderReportsFile
  <1>. DEFINE A == \A p \in Procs :
                     /\ op[p].cmd = "grade" /\ op'[p].cmd # "grade"
                     /\ ~At(p, "idle") /\ ~op[p].overlapped
                     =>
                       /\ verdict'.passed \subseteq Load(prog).completed
                       /\ verdict'.failed \cap Load(prog).completed = {}
                       /\ Status(p) =>
                            verdict'.passed \cup verdict'.failed = Steps
  <1>1. TypeOK /\ LoneInv /\ Unreported /\ [Next]_vars => [A]_vars
    <2>. SUFFICES ASSUME TypeOK, LoneInv, Unreported, Next, NEW p \in Procs,
                         op[p].cmd = "grade", op'[p].cmd # "grade",
                         ~At(p, "idle"), ~op[p].overlapped
                  PROVE  /\ verdict'.passed \subseteq Load(prog).completed
                         /\ verdict'.failed \cap Load(prog).completed = {}
                         /\ Status(p) =>
                              verdict'.passed \cup verdict'.failed = Steps
      OBVIOUS
    <2>1. PICK r \in Procs : Invoke(r) \/ Step(r)
      BY DEF Next
    <2>2. r = p /\ Step(p)
      <3>1. CASE Invoke(r)
        BY <3>1, StartParts DEF TypeOK, Invocations
      <3>2. CASE Step(r)
        BY <3>2, StepFrame
      <3>. QED  BY <2>1, <3>1, <3>2
    <2>3. Status(p) \/ Cut(p)
      BY <2>2, GraderEnds
    <2>4. SeesFile(p) /\ verdict = NoReport
      BY DEF LoneInv, Alone, Unreported
    <2>5. op[p] \in Invocations /\ Load(prog) \in Progress
      BY LoadType DEF TypeOK
    <2>6. CASE Status(p)
      BY <2>4, <2>5, <2>6, ReportRight DEF Status, SeesFile, Lit
    <2>7. CASE Cut(p) /\ ~Status(p)
      BY <2>4, <2>5, <2>7, ReportRight DEF Cut, SeesFile, Lit, NoReport
    <2>. QED  BY <2>3, <2>6, <2>7
  <1>. QED  BY <1>1, LoneInvariant, UnreportedInvariant, TypeCorrect, PTL
            DEF Spec, LoneGraderReportsFile

(***************************************************************************)
(* The two hint counters                                                   *)
(***************************************************************************)

\* The hints left are what the used ones leave of the allowance.
Agree(d) ==
  d.left = IF HintsUsed(d) < DefaultHints
           THEN DefaultHints - HintsUsed(d) ELSE 0

\* HintsAgree, and that the data an invocation is about to save agrees too.
HintsInv ==
  /\ Agree(Load(prog)) /\ Agree(Load(tmp))
  /\ \A p \in Procs : Agree(op[p].data)

\* The counts of hints can be added up.
LEMMA UsedType ==
  ASSUME NEW d \in Progress
  PROVE  IsFiniteSet(Steps) /\ d.used \in [Steps -> Nat]
  <1>1. IsFiniteSet(Steps)
    BY FS_Interval, GameAssumption DEF Steps
  <1>. QED  BY <1>1, GameAssumption DEF Progress

\* A fresh start agrees, and the two ways to change a progress keep it so.
LEMMA AgreeParts ==
  /\ Agree(Fresh)
  /\ \A d \in Progress, n \in Steps : Agree(d) => Agree(Marked(d, n))
  /\ \A d \in Progress, n \in Steps :
       Agree(d) /\ d.used[n] < HintsPerStep => Agree(Hinted(d, n))
  <1>1. Agree(Fresh)
    <2>1. HintsUsed(Fresh) = 0
      BY FreshType, UsedType, SumOfZeros DEF HintsUsed, Fresh
    <2>. QED  BY <2>1, GameAssumption DEF Agree, Fresh
  <1>2. ASSUME NEW d \in Progress, NEW n \in Steps, Agree(d)
        PROVE  Agree(Marked(d, n))
    <2>1. Marked(d, n).used = d.used /\ Marked(d, n).left = d.left
      BY DEF Marked, Progress
    <2>. QED  BY <1>2, <2>1 DEF Agree, HintsUsed
  <1>3. ASSUME NEW d \in Progress, NEW n \in Steps, Agree(d),
               d.used[n] < HintsPerStep
        PROVE  Agree(Hinted(d, n))
    <2>1. /\ Hinted(d, n).used = [d.used EXCEPT ![n] = @ + 1]
          /\ Hinted(d, n).left = IF d.left > 0 THEN d.left - 1 ELSE 0
      BY DEF Hinted, Progress
    <2>2. HintsUsed(d) \in Nat /\ HintsUsed(Hinted(d, n)) = HintsUsed(d) + 1
      <3>1. IsFiniteSet(Steps) /\ d.used \in [Steps -> Nat]
        BY UsedType
      <3>2. FoldFunction(+, 0, d.used) \in Nat
        BY <3>1, SumIsNat
      <3>3. FoldFunction(+, 0, [d.used EXCEPT ![n] = @ + 1])
              = FoldFunction(+, 0, d.used) + 1
        BY <3>1, SumOfIncrement
      <3>. QED  BY <2>1, <3>2, <3>3 DEF HintsUsed
    <2>. QED  BY <1>3, <2>1, <2>2, GameAssumption DEF Agree
  <1>. QED  BY <1>1, <1>2, <1>3

\* Whatever is made of two saves loads as one of them, or as a fresh start.
LEMMA AgreeFiles ==
  /\ Agree(Load(Absent)) /\ Agree(Load(Empty)) /\ Agree(Load(Garbled))
  /\ \A d \in Progress : Agree(d) => Agree(Load(Json(d)))
  BY AgreeParts DEF Load, Absent, Empty, Garbled, Json

\* Every step keeps HintsInv: the data of an invocation changes only to that
\* of a fresh start or to what a mark or a hint makes of the file.
LEMMA HintsStep == TypeOK /\ HintsInv /\ [Next]_vars => HintsInv'
  <1>. SUFFICES ASSUME TypeOK, HintsInv, [Next]_vars PROVE HintsInv'
    OBVIOUS
  <1>. USE DEF TypeOK
  <1>0. Agree(Fresh) /\ Agree(Idle.data)
    BY AgreeParts, IdleType
  <1>1. ASSUME NEW p \in Procs, Invoke(p) PROVE HintsInv'
    <2>1. \A q \in Procs \ {p} : op'[q].data = op[q].data
      BY <1>1, StartParts DEF Invocations
    <2>2. op'[p].data = Fresh /\ UNCHANGED <<prog, tmp>>
      BY <1>1, StartParts
    <2>. QED  BY <1>0, <2>1, <2>2 DEF HintsInv
  <1>2. ASSUME NEW p \in Procs, Step(p) PROVE HintsInv'
    <2>1. ASSUME \A q \in Procs : op'[q].data \in {op[q].data, Fresh},
                 UNCHANGED <<prog, tmp>>
          PROVE  HintsInv'
      BY <1>0, <2>1 DEF HintsInv
    <2>2. ASSUME \/ Passed(p) \/ End(p)
                 \/ \E failed \in SUBSET Steps : Stopped(p, failed)
          PROVE  \A q \in Procs : op'[q].data \in {op[q].data, Fresh}
      BY <2>2, PassedParts, StoppedParts, IdleType DEF End
    <2>3. CASE IsComplete(p)
      <3>1. CASE op' = [op EXCEPT ![p] =
                          [@ EXCEPT !.at = "check", !.force = FALSE]]
        BY <2>1, <2>3, <3>1 DEF IsComplete, Invocations
      <3>. QED  BY <2>1, <2>2, <2>3, <3>1 DEF IsComplete
    <2>4. CASE RunCheck(p)
      <3>1. {op[p].n} \in SUBSET Steps
        BY DEF Invocations
      <3>2. CASE op' = [op EXCEPT ![p].at = "load"]
        BY <2>1, <2>4, <3>2 DEF RunCheck, Invocations
      <3>. QED  BY <2>1, <2>2, <2>4, <3>1, <3>2 DEF RunCheck
    <2>5. CASE LoadProgress(p)
      <3>. DEFINE d == Load(prog)
                  n == op[p].n
      <3>1. d \in Progress /\ n \in Steps /\ Agree(d)
        BY LoadType DEF Invocations, HintsInv
      <3>2. ASSUME NEW e, Agree(e),
                   op' = [op EXCEPT ![p].at = "open", ![p].data = e]
            PROVE  HintsInv'
        <4>1. \A q \in Procs : op'[q].data \in {op[q].data, e}
          BY <3>2 DEF Invocations
        <4>. QED  BY <2>5, <3>2, <4>1 DEF LoadProgress, HintsInv
      <3>3. CASE op[p].cmd # "hint"
        BY <2>5, <3>1, <3>2, <3>3, AgreeParts DEF LoadProgress
      <3>4. CASE op[p].cmd = "hint" /\ d.used[n] < HintsPerStep
        BY <2>5, <3>1, <3>2, <3>4, AgreeParts DEF LoadProgress
      <3>5. CASE op[p].cmd = "hint" /\ ~(d.used[n] < HintsPerStep)
        BY <2>1, <2>2, <2>5, <3>5 DEF LoadProgress
      <3>. QED  BY <3>3, <3>4, <3>5
    <2>6. ASSUME NEW label, op' = [op EXCEPT ![p].at = label],
                 Agree(Load(prog')), Agree(Load(tmp'))
          PROVE  HintsInv'
      <3>1. \A q \in Procs : op'[q].data = op[q].data
        BY <2>6 DEF Invocations
      <3>. QED  BY <2>6, <3>1 DEF HintsInv
    <2>7. CASE OpenTmp(p)
      BY <2>6, <2>7, AgreeFiles DEF OpenTmp, HintsInv
    <2>8. CASE WriteTmp(p)
      <3>1. op[p].data \in Progress /\ Agree(op[p].data)
        BY DEF Invocations, HintsInv
      <3>2. \A c : \A o \in Overwrite(c, op[p].data) : Agree(Load(o))
        BY <3>1, AgreeFiles DEF Overwrite
      <3>3. Agree(Load(prog')) /\ Agree(Load(tmp'))
        BY <2>8, <3>2 DEF WriteTmp, HintsInv
      <3>. QED  BY <2>6, <2>8, <3>3 DEF WriteTmp
    <2>9. CASE ReplaceTmp(p)
      <3>1. CASE tmp = Absent
        BY <2>1, <2>2, <2>9, <3>1 DEF ReplaceTmp
      <3>2. CASE tmp # Absent
        <4>1. \A q \in Procs : op'[q].data \in {op[q].data, Fresh}
          BY <2>2, <2>9, <3>2 DEF ReplaceTmp
        <4>2. Agree(Load(prog')) /\ Agree(Load(tmp'))
          BY <2>9, <3>2, AgreeFiles DEF ReplaceTmp, HintsInv
        <4>. QED  BY <1>0, <4>1, <4>2 DEF HintsInv
      <3>. QED  BY <3>1, <3>2
    <2>10. CASE Status(p)
      BY <2>1, <2>2, <2>10 DEF Status
    <2>11. CASE Interrupted(p)
      BY <2>1, <2>2, <2>11 DEF Interrupted
    <2>12. CASE Cut(p)
      <3>1. \A q \in Procs : op'[q].data \in {op[q].data, Fresh}
        BY <2>12, CutParts, IdleType
      <3>. QED  BY <2>1, <2>12, <3>1 DEF Cut
    <2>. QED  BY <1>2, <2>3, <2>4, <2>5, <2>7, <2>8, <2>9, <2>10, <2>11, <2>12
              DEF Step
  <1>3. CASE UNCHANGED vars
    BY <1>3 DEF vars, HintsInv
  <1>. QED  BY <1>1, <1>2, <1>3 DEF Next

\* In every version of the file, hints_remaining and hints_used agree: also
\* when one of two concurrent hints is forgotten, both counters forget it.
THEOREM CountersAgree == Spec => []HintsAgree
  <1>1. Init => HintsInv
    <2>. SUFFICES ASSUME Init PROVE HintsInv
      OBVIOUS
    <2>1. Agree(Load(prog)) /\ Agree(Load(tmp))
      BY AgreeParts, AgreeFiles, FreshType DEF Init
    <2>. QED  BY <2>1, AgreeParts, IdleType DEF Init, HintsInv
  <1>2. HintsInv => HintsAgree
    BY DEF HintsInv, HintsAgree, Agree, Load
  <1>. QED  BY <1>1, <1>2, HintsStep, TypeCorrect, PTL DEF Spec
=============================================================================
