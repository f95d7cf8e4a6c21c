-------------------------- MODULE SessionLifecycle --------------------------
(***************************************************************************)
(* The life of one lab session: its Postgres row, the requests of the web  *)
(* task that work on it (web/lib/sessions.ts over web/lib/db.ts), its EC2  *)
(* host, the one-shot EventBridge schedule and the terminator Lambda.      *)
(* Sessions share nothing but the per-user cap, so one is modelled.        *)
(*                                                                         *)
(* Every await of the TypeScript is a point where another request may run. *)
(* A request is a record in proc[p]: the label it is suspended at, the row *)
(* it read when it was admitted (old), the row the updateSession it is     *)
(* inside has read (snap) and the patch that update carries (upd).         *)
(* updateSession itself is a SELECT followed, an await later, by an UPDATE *)
(* of every column, so a slow writer puts old column values back.          *)
(***************************************************************************)
EXTENDS Naturals

CONSTANTS
  Procs,       \* slots for requests in flight at the same time
  Learner,     \* what the learner may do besides watching: "stop", "grade"
  Triggers,    \* what invokes the terminator: the schedule, the sweep
  MaxCrashes,  \* bound: how often the web task is replaced
  Faults       \* which kinds of failure may happen

FaultKinds == {"db", "aws", "lambda", "net"}

ASSUME LifecycleAssumption ==
  /\ Learner \subseteq {"stop", "grade"}
  /\ Triggers \subseteq {"schedule", "sweep"}
  /\ MaxCrashes \in Nat
  /\ Faults \subseteq FaultKinds

VARIABLES
  row,         \* the sessions row, as far as the lifecycle reads it
  proc,        \* the requests in flight
  inFlight,    \* is the session in sshFinalizeInFlight?
  files,       \* the session workspace on the task's disk still has its keys
  marker,      \* bootstrap.received exists in that workspace
  tokenGiven,  \* POST /api/sessions has answered, the learner has the token
  ec2,         \* the instance: "none", "up" or "gone"
  called,      \* the host has made its one readiness callback
  posted,      \* the host's idle watcher has made its one shutdown callback
  sched,       \* the one-shot schedule: "none" or "armed"
  expired,     \* the ExpiresAt tag of the instance lies in the past
  lambda,      \* the terminator's invocations, by what triggered them
  crashes,     \* replacements of the web task so far
  asked,       \* history: a shutdown request was admitted
  probed       \* history: an SSH login to the host has succeeded

webVars == <<inFlight, files, marker>>
hostVars == <<called, posted>>
awsVars == <<ec2, sched, expired, lambda>>
history == <<asked, probed>>
vars == <<row, proc, webVars, tokenGiven, hostVars, awsVars, crashes, history>>

-----------------------------------------------------------------------------
(* Types *)

Statuses ==
  {"absent", "provisioning", "ready", "running", "stopping", "stopped",
   "failed"}

\* instanceId and sshHost are non-null in the row, or not.
Rows == [status: Statuses, instanceId: BOOLEAN, sshHost: BOOLEAN]

NoRow == [status |-> "absent", instanceId |-> FALSE, sshHost |-> FALSE]

\* The updateSession calls of sessions.ts, by the patch they carry.
Patches ==
  {"none", "failed", "recorded", "recordedNoIp", "callback", "refresh",
   "ready", "probeFailed", "stopping", "terminateError", "stopped",
   "running", "graded", "graderError"}

Labels ==
  {"idle", "prep", "launch", "waitIps", "schedule", "describe", "probeRead",
   "probe", "refresh", "terminate", "grading", "read", "write", "wrote"}

Requests == [at: Labels, old: Rows, snap: Rows, upd: Patches]

Idle == [at |-> "idle", old |-> NoRow, snap |-> NoRow, upd |-> "none"]

TypeOK ==
  /\ row \in Rows
  /\ proc \in [Procs -> Requests]
  /\ inFlight \in BOOLEAN
  /\ files \in BOOLEAN
  /\ marker \in BOOLEAN
  /\ tokenGiven \in BOOLEAN
  /\ ec2 \in {"none", "up", "gone"}
  /\ called \in BOOLEAN
  /\ posted \in BOOLEAN
  /\ sched \in {"none", "armed"}
  /\ expired \in BOOLEAN
  /\ lambda \in [Triggers -> {"idle", "terminate", "notify"}]
  /\ crashes \in 0..MaxCrashes
  /\ asked \in BOOLEAN
  /\ probed \in BOOLEAN

Init ==
  /\ row = NoRow
  /\ proc = [p \in Procs |-> Idle]
  /\ inFlight = FALSE
  /\ files = FALSE
  /\ marker = FALSE
  /\ tokenGiven = FALSE
  /\ ec2 = "none"
  /\ called = FALSE
  /\ posted = FALSE
  /\ sched = "none"
  /\ expired = FALSE
  /\ lambda = [k \in Triggers |-> "idle"]
  /\ crashes = 0
  /\ asked = FALSE
  /\ probed = FALSE

-----------------------------------------------------------------------------
(* Requests and their database updates *)

At(p, label) == proc[p].at = label

Wrote(p, patches) == At(p, "wrote") /\ proc[p].upd \in patches

\* Admit a request into slot p; it has just read the row.
Admit(p, label, patch) ==
  /\ At(p, "idle")
  /\ proc' = [proc EXCEPT ![p] =
       [at |-> label, old |-> row, snap |-> NoRow, upd |-> patch]]

GoTo(p, label) == proc' = [proc EXCEPT ![p].at = label]

\* Call updateSession with a patch.
Update(p, patch) ==
  proc' = [proc EXCEPT ![p].at = "read", ![p].upd = patch]

Finish(p) == proc' = [proc EXCEPT ![p] = Idle]

\* Mutant of Patched: a stop writes EC2's word for the state.
PatchedTerminated(patch, r) ==
  IF patch = "stopped" THEN [r EXCEPT !.status = "terminated"] ELSE r

\* Mutant of Patched: a stop clears the instance id before it is used.
PatchedForgetsId(patch, r) ==
  CASE patch \in {"recorded", "recordedNoIp"} ->
         [status |-> "provisioning", instanceId |-> TRUE, sshHost |-> TRUE]
    [] patch = "stopping" ->
         [r EXCEPT !.status = "stopping", !.instanceId = FALSE]
    [] OTHER -> r

(***************************************************************************)
(* The columns each call of updateSession names.  "probeFailed",           *)
(* "terminateError" and "graderError" set only errorMessage, which is not  *)
(* modelled: they still write the whole row.                               *)
(***************************************************************************)
Patched(patch, r) ==
  CASE patch = "failed"       -> [r EXCEPT !.status = "failed"]
    [] patch = "recorded"     -> [status |-> "provisioning",
                                  instanceId |-> TRUE, sshHost |-> TRUE]
    [] patch = "recordedNoIp" -> [status |-> "provisioning",
                                  instanceId |-> TRUE, sshHost |-> FALSE]
    [] patch = "callback"     -> [r EXCEPT !.sshHost = TRUE]
    [] patch = "refresh"      -> [r EXCEPT !.sshHost = TRUE]
    [] patch = "ready"        -> [r EXCEPT !.status = "ready"]
    [] patch = "stopping"     -> [r EXCEPT !.status = "stopping"]
    [] patch = "stopped"      -> [r EXCEPT !.status = "stopped"]
    [] patch = "running"      -> [r EXCEPT !.status = "running"]
    [] patch = "graded"       -> [r EXCEPT !.status = "ready"]
    [] OTHER                  -> r

\* The SELECT of updateSession.
UpdateRead(p) ==
  /\ At(p, "read")
  /\ proc' = [proc EXCEPT ![p].at = "write", ![p].snap = row]
  /\ UNCHANGED <<row, webVars, tokenGiven, hostVars, awsVars, crashes, history>>

\* What the request does next, where that touches nothing but the request.
AfterWrite(h) ==
  CASE h.upd \in {"stopped", "graded", "graderError"} -> Idle
    [] h.upd = "running" -> [h EXCEPT !.at = "grading", !.snap = NoRow]
    [] h.upd = "terminateError" ->
         [h EXCEPT !.at = "read", !.upd = "stopped", !.snap = NoRow]
    [] h.upd = "refresh" -> [h EXCEPT !.at = "wrote"]
    [] OTHER -> [h EXCEPT !.at = "wrote", !.snap = NoRow]

\* The UPDATE of every column, from the row that was read.
UpdateWrite(p) ==
  /\ At(p, "write")
  /\ row' = Patched(proc[p].upd, proc[p].snap)
  /\ proc' = [proc EXCEPT ![p] = AfterWrite(@)]
  /\ UNCHANGED <<webVars, tokenGiven, hostVars, awsVars, crashes, history>>

-----------------------------------------------------------------------------
(* createSession: insert the row, prepare AWS labs, launch, record *)

\* The row as it is inserted: no host and no address yet.
InsertSession == row' = [NoRow EXCEPT !.status = "provisioning"]

\* ensureEd25519Key and ensureVendedKey: the grader's key and the learner's,
\* on the task's disk and nowhere else.
WriteKeys == files' = TRUE

CreateSession(p) ==
  /\ At(p, "idle")
  /\ row = NoRow
  /\ InsertSession
  /\ proc' = [proc EXCEPT ![p] =
       [at |-> "prep", old |-> row', snap |-> NoRow, upd |-> "none"]]
  /\ WriteKeys
  /\ UNCHANGED <<inFlight, marker, tokenGiven, hostVars, awsVars, crashes,
                 history>>

\* prepareAwsSession is a no-op for labs that are not AWS labs.
Prepared(p) ==
  /\ At(p, "prep")
  /\ GoTo(p, "launch")
  /\ UNCHANGED <<row, webVars, tokenGiven, hostVars, awsVars, crashes, history>>

PrepareFails(p) ==
  /\ "aws" \in Faults
  /\ At(p, "prep")
  /\ Update(p, "failed")
  /\ UNCHANGED <<row, webVars, tokenGiven, hostVars, awsVars, crashes, history>>

\* RunInstances.  The ExpiresAt tag is part of the same call.
Launch(p) ==
  /\ At(p, "launch")
  /\ ec2' = "up"
  /\ GoTo(p, "waitIps")
  /\ UNCHANGED <<row, webVars, tokenGiven, hostVars, sched, expired, lambda,
                 crashes, history>>

\* The call is refused, or its answer is lost after the host was created.
LaunchFails(p) ==
  /\ "aws" \in Faults
  /\ At(p, "launch")
  /\ ec2' \in {"none", "up"}
  /\ Update(p, "failed")
  /\ UNCHANGED <<row, webVars, tokenGiven, hostVars, sched, expired, lambda,
                 crashes, history>>

\* waitForInstanceIps ends with a public address or gives up without one.
IpsAwaited(p) ==
  /\ At(p, "waitIps")
  /\ \E patch \in {"recorded", "recordedNoIp"} :
       proc' = [proc EXCEPT ![p].at = "schedule", ![p].upd = patch]
  /\ UNCHANGED <<row, webVars, tokenGiven, hostVars, awsVars, crashes, history>>

\* scheduleSessionTermination: nothing unless the scheduler is configured
\* (schedulerEnabled), and a failure is only logged.
ScheduleTermination(p) ==
  /\ At(p, "schedule")
  /\ \/ "schedule" \in Triggers /\ sched' = "armed"
     \/ ("schedule" \notin Triggers \/ "aws" \in Faults) /\ UNCHANGED sched
  /\ GoTo(p, "read")
  /\ UNCHANGED <<row, webVars, tokenGiven, hostVars, ec2, expired, lambda,
                 crashes, history>>

\* The POST answers, with the session recorded or failed, and its token; a
\* recorded session is read once more first, and that query may reject.
CreateReturns(p) ==
  /\ Wrote(p, {"recorded", "recordedNoIp", "failed"})
  /\ \/ tokenGiven' = TRUE
     \/ "db" \in Faults /\ proc[p].upd # "failed" /\ UNCHANGED tokenGiven
  /\ Finish(p)
  /\ UNCHANGED <<row, webVars, hostVars, awsVars, crashes, history>>

-----------------------------------------------------------------------------
(* The host's readiness callback: the ready route, then markReady *)

\* notify_ready is one curl; the route takes it only while provisioning.
HostReady(p) ==
  /\ ec2 = "up"
  /\ ~called
  /\ called' = TRUE
  /\ row.status = "provisioning"
  /\ Admit(p, "describe", "callback")
  /\ UNCHANGED <<row, webVars, tokenGiven, posted, awsVars, crashes, history>>

\* Refused with a 409, or never delivered.  It is not repeated either way.
HostReadyLost ==
  /\ ec2 = "up"
  /\ ~called
  /\ called' = TRUE
  /\ row.status # "provisioning" \/ "net" \in Faults
  /\ UNCHANGED <<row, proc, webVars, tokenGiven, posted, awsVars, crashes,
                 history>>

\* markReady after its describeInstanceIps: the marker, then the addresses.
MarkReady(p) ==
  /\ At(p, "describe")
  /\ marker' = TRUE
  /\ GoTo(p, "read")
  /\ UNCHANGED <<row, inFlight, files, tokenGiven, hostVars, awsVars, crashes,
                 history>>

-----------------------------------------------------------------------------
(* finalizeReadyAfterProbe: the SSH probe that makes a session ready *)

\* Mutant of StartProbe: the has() check is missing.
StartProbeAlways(p) ==
  /\ inFlight' = TRUE
  /\ proc' = [proc EXCEPT ![p] = [Idle EXCEPT !.at = "probeRead"]]

\* Entered synchronously by its callers: one probe at a time per task.
StartProbe(p) ==
  IF inFlight
  THEN Finish(p) /\ UNCHANGED inFlight
  ELSE /\ inFlight' = TRUE
       /\ proc' = [proc EXCEPT ![p] = [Idle EXCEPT !.at = "probeRead"]]

\* markReady fires the probe without awaiting it.
CallbackDone(p) ==
  /\ Wrote(p, {"callback"})
  /\ StartProbe(p)
  /\ UNCHANGED <<row, files, marker, tokenGiven, hostVars, awsVars, crashes,
                 history>>

\* Mutant of FinalizeAdmits: only "ready" is checked for.
FinalizeAdmitsStopped(r) == r.status \notin {"absent", "ready"}

FinalizeAdmits(r) == r.status \notin {"absent", "ready", "stopped"}

ProbeRead(p) ==
  /\ At(p, "probeRead")
  /\ IF FinalizeAdmits(row)
     THEN /\ proc' = [proc EXCEPT ![p].at = "probe", ![p].old = row]
          /\ UNCHANGED inFlight
     ELSE Finish(p) /\ inFlight' = FALSE
  /\ UNCHANGED <<row, files, marker, tokenGiven, hostVars, awsVars, crashes,
                 history>>

\* The login needs an address, the grader key, and a host that has booted.
ProbeSucceeds(p) ==
  /\ At(p, "probe")
  /\ proc[p].old.sshHost \/ proc[p].old.instanceId
  /\ files
  /\ ec2 = "up"
  /\ called
  /\ probed' = TRUE
  /\ Update(p, "ready")
  /\ UNCHANGED <<row, webVars, tokenGiven, hostVars, awsVars, crashes, asked>>

ProbeFails(p) ==
  /\ At(p, "probe")
  /\ Update(p, "probeFailed")
  /\ UNCHANGED <<row, webVars, tokenGiven, hostVars, awsVars, crashes, history>>

\* The finally block.
ProbeReleased(p) ==
  /\ Wrote(p, {"ready", "probeFailed"})
  /\ inFlight' = FALSE
  /\ Finish(p)
  /\ UNCHANGED <<row, files, marker, tokenGiven, hostVars, awsVars, crashes,
                 history>>

-----------------------------------------------------------------------------
(* getSessionState: GET /api/sessions/[id], polled by the session page *)

NeedsIps(r) ==
  /\ r.status \notin {"stopped", "failed", "stopping"}
  /\ r.instanceId
  /\ ~r.sshHost

\* Mutant of ShouldProbe: a session that has its address is not probed again.
ShouldProbeOnce(r) ==
  r.status = "provisioning" /\ marker /\ ~inFlight /\ ~r.sshHost

ShouldProbe(r) == r.status = "provisioning" /\ marker /\ ~inFlight

\* A poll that neither looks for addresses nor starts a probe changes nothing.
Poll(p) ==
  /\ tokenGiven
  /\ At(p, "idle")
  /\ \/ /\ NeedsIps(row)
        /\ Admit(p, "refresh", "none")
        /\ UNCHANGED inFlight
     \/ /\ ~NeedsIps(row)
        /\ ShouldProbe(row)
        /\ StartProbe(p)
  /\ UNCHANGED <<row, files, marker, tokenGiven, hostVars, awsVars, crashes,
                 history>>

\* What the poll does with the row maybeRefreshSessionIps returned.
AfterRefresh(p, r) ==
  IF ShouldProbe(r) THEN StartProbe(p) ELSE Finish(p) /\ UNCHANGED inFlight

RefreshFindsNoIp(p) ==
  /\ At(p, "refresh")
  /\ AfterRefresh(p, proc[p].old)
  /\ UNCHANGED <<row, files, marker, tokenGiven, hostVars, awsVars, crashes,
                 history>>

RefreshFindsIp(p) ==
  /\ At(p, "refresh")
  /\ ec2 = "up"
  /\ Update(p, "refresh")
  /\ UNCHANGED <<row, webVars, tokenGiven, hostVars, awsVars, crashes, history>>

Refreshed(p) ==
  /\ Wrote(p, {"refresh"})
  /\ AfterRefresh(p, Patched("refresh", proc[p].snap))
  /\ UNCHANGED <<row, files, marker, tokenGiven, hostVars, awsVars, crashes,
                 history>>

-----------------------------------------------------------------------------
(* shutdownSessionInternal, the one routine every stop goes through *)

ShutdownAdmits(r) == r.status \notin {"absent", "stopped", "stopping"}

BeginShutdown(p) ==
  /\ Admit(p, "read", "stopping")
  /\ asked' = TRUE
  /\ UNCHANGED probed

\* The learner's Stop button; a stop of a stopping session changes nothing.
LearnerStops(p) ==
  /\ "stop" \in Learner
  /\ tokenGiven
  /\ ShutdownAdmits(row)
  /\ BeginShutdown(p)
  /\ UNCHANGED <<row, webVars, tokenGiven, hostVars, awsVars, crashes>>

\* The host's watcher posts once when SSH has been idle, and then exits.
WatcherPosts(p) ==
  /\ ec2 = "up"
  /\ called
  /\ ~posted
  /\ posted' = TRUE
  /\ \/ ShutdownAdmits(row) /\ BeginShutdown(p)
     \/ (~ShutdownAdmits(row) \/ "net" \in Faults) /\ UNCHANGED <<proc, history>>
  /\ UNCHANGED <<row, webVars, tokenGiven, called, awsVars, crashes>>

\* DeleteSchedule, whose failure is only logged; then on to the host, if the
\* row this request was admitted with names one.
CancelSchedule(p) ==
  /\ Wrote(p, {"stopping"})
  /\ sched' \in {"none"} \cup (IF "aws" \in Faults THEN {sched} ELSE {})
  /\ IF proc[p].old.instanceId THEN GoTo(p, "terminate")
                               ELSE Update(p, "stopped")
  /\ UNCHANGED <<row, webVars, tokenGiven, hostVars, ec2, expired, lambda,
                 crashes, history>>

TerminateHost(p) ==
  /\ At(p, "terminate")
  /\ ec2' = "gone"
  /\ Update(p, "stopped")
  /\ UNCHANGED <<row, webVars, tokenGiven, hostVars, sched, expired, lambda,
                 crashes, history>>

\* Refused, or the instance is gone for so long that EC2 has forgotten it.
TerminateFails(p) ==
  /\ At(p, "terminate")
  /\ "aws" \in Faults \/ ec2 = "gone"
  /\ Update(p, "terminateError")
  /\ UNCHANGED <<row, webVars, tokenGiven, hostVars, awsVars, crashes, history>>

-----------------------------------------------------------------------------
(* runGraderForSession *)

\* Mutant of GradeAdmits: a stopped session can be graded.
GradeAdmitsStopped(r) == r.status \notin {"absent", "failed", "provisioning"}

\* Mutant of GradeAdmits: a session can be graded before it is ready.
GradeAdmitsEarly(r) == r.status \notin {"absent", "stopped", "failed"}

GradeAdmits(r) ==
  r.status \notin {"absent", "stopped", "failed", "provisioning"}

Grade(p) ==
  /\ "grade" \in Learner
  /\ tokenGiven
  /\ GradeAdmits(row)
  /\ Admit(p, "read", "running")
  /\ UNCHANGED <<row, webVars, tokenGiven, hostVars, awsVars, crashes, history>>

\* runGrader ends with a verdict, or with an error when the grader is missing
\* or did not start, was killed after 45 seconds or printed no JSON; its exit
\* code says nothing.
GraderAnswers == {"graded", "graderError"}

GraderEnds(p) ==
  /\ At(p, "grading")
  /\ \E patch \in GraderAnswers : Update(p, patch)
  /\ UNCHANGED <<row, webVars, tokenGiven, hostVars, awsVars, crashes, history>>

-----------------------------------------------------------------------------
(* A query of a request rejects; what its try, catch and finally make of it *)

DbFails(p) ==
  /\ "db" \in Faults
  /\ proc[p].at \in {"read", "write"}
  /\ CASE proc[p].upd \in {"recorded", "recordedNoIp"} ->
            Update(p, "failed") /\ UNCHANGED inFlight
       [] proc[p].upd = "graded" ->
            Update(p, "graderError") /\ UNCHANGED inFlight
       [] proc[p].upd = "refresh" ->
            AfterRefresh(p, proc[p].old)
       [] proc[p].upd \in {"ready", "probeFailed"} ->
            Finish(p) /\ inFlight' = FALSE
       [] OTHER ->
            Finish(p) /\ UNCHANGED inFlight
  /\ UNCHANGED <<row, files, marker, tokenGiven, hostVars, awsVars, crashes,
                 history>>

ProbeReadFails(p) ==
  /\ "db" \in Faults
  /\ At(p, "probeRead")
  /\ Finish(p)
  /\ inFlight' = FALSE
  /\ UNCHANGED <<row, files, marker, tokenGiven, hostVars, awsVars, crashes,
                 history>>

(***************************************************************************)
(* The Fargate task is replaced.  Requests and the in-memory set go with   *)
(* the process, and SESSIONS_ROOT with its disk: it is under /tmp and no   *)
(* volume is mounted.                                                      *)
(***************************************************************************)
Crash ==
  /\ row # NoRow
  /\ crashes < MaxCrashes
  /\ crashes' = crashes + 1
  /\ proc' = [p \in Procs |-> Idle]
  /\ inFlight' = FALSE
  /\ files' = FALSE
  /\ marker' = FALSE
  /\ UNCHANGED <<row, tokenGiven, hostVars, awsVars, history>>

-----------------------------------------------------------------------------
(* Time, the schedule and the terminator Lambda *)

\* ExpiresAt passes.
Expire ==
  /\ ec2 # "none"
  /\ ~expired
  /\ expired' = TRUE
  /\ UNCHANGED <<row, proc, webVars, tokenGiven, hostVars, ec2, sched, lambda,
                 crashes, history>>

\* The schedule's time is computed after the tag's, with the same lifetime.
ScheduleFires ==
  /\ "schedule" \in Triggers
  /\ sched = "armed"
  /\ expired
  /\ lambda["schedule"] = "idle"
  /\ sched' = "none"
  /\ lambda' = [lambda EXCEPT !["schedule"] = "terminate"]
  /\ UNCHANGED <<row, proc, webVars, tokenGiven, hostVars, ec2, expired,
                 crashes, history>>

\* Mutant of SweepPicks: the tag is not compared with the clock.
SweepPicksAll == ec2 = "up"

\* Mutant of SweepPicks: hosts of sessions that are over are left out.
SweepPicksLive == ec2 = "up" /\ expired /\ row.status \notin {"stopped", "failed"}

\* The instances a sweep acts on: its state filter and is_expired.
SweepPicks == ec2 = "up" /\ expired

Sweep ==
  /\ "sweep" \in Triggers
  /\ lambda["sweep"] = "idle"
  /\ SweepPicks
  /\ lambda' = [lambda EXCEPT !["sweep"] = "terminate"]
  /\ UNCHANGED <<row, proc, webVars, tokenGiven, hostVars, ec2, sched, expired,
                 crashes, history>>

\* terminate_one takes an instance that is already gone for terminated.
LambdaTerminates(k) ==
  /\ lambda[k] = "terminate"
  /\ ec2' = "gone"
  /\ lambda' = [lambda EXCEPT ![k] = "notify"]
  /\ UNCHANGED <<row, proc, webVars, tokenGiven, hostVars, sched, expired,
                 crashes, history>>

\* Mutant of LambdaTerminateFails: the error is recorded, the return is missing.
LambdaFailureIgnored(k) ==
  /\ "lambda" \in Faults
  /\ lambda[k] = "terminate"
  /\ lambda' = [lambda EXCEPT ![k] = "notify"]
  /\ UNCHANGED <<row, proc, webVars, tokenGiven, hostVars, ec2, sched, expired,
                 crashes, history>>

\* Any other EC2 error is recorded and the web task is not told.
LambdaTerminateFails(k) ==
  /\ "lambda" \in Faults
  /\ lambda[k] = "terminate"
  /\ lambda' = [lambda EXCEPT ![k] = "idle"]
  /\ UNCHANGED <<row, proc, webVars, tokenGiven, hostVars, ec2, sched, expired,
                 crashes, history>>

\* notify_shutdown reaches the shutdown route, which may have nothing to do.
LambdaNotifies(k, p) ==
  /\ lambda[k] = "notify"
  /\ lambda' = [lambda EXCEPT ![k] = "idle"]
  /\ \/ ShutdownAdmits(row) /\ BeginShutdown(p)
     \/ ~ShutdownAdmits(row) /\ UNCHANGED <<proc, history>>
  /\ UNCHANGED <<row, webVars, tokenGiven, hostVars, ec2, sched, expired,
                 crashes>>

\* The callback fails or times out: caught, recorded, never repeated.
LambdaNotifyLost(k) ==
  /\ "net" \in Faults
  /\ lambda[k] = "notify"
  /\ lambda' = [lambda EXCEPT ![k] = "idle"]
  /\ UNCHANGED <<row, proc, webVars, tokenGiven, hostVars, ec2, sched, expired,
                 crashes, history>>

-----------------------------------------------------------------------------

\* The next step of a request that is already in flight.
Step(p) ==
  \/ UpdateRead(p) \/ UpdateWrite(p)
  \/ Prepared(p) \/ PrepareFails(p) \/ Launch(p) \/ LaunchFails(p)
  \/ IpsAwaited(p) \/ ScheduleTermination(p) \/ CreateReturns(p)
  \/ MarkReady(p) \/ CallbackDone(p)
  \/ ProbeRead(p) \/ ProbeSucceeds(p) \/ ProbeFails(p) \/ ProbeReleased(p)
  \/ RefreshFindsNoIp(p) \/ RefreshFindsIp(p) \/ Refreshed(p)
  \/ CancelSchedule(p) \/ TerminateHost(p) \/ TerminateFails(p)
  \/ GraderEnds(p)
  \/ DbFails(p) \/ ProbeReadFails(p)

\* A request arrives.
Arrive(p) ==
  \/ CreateSession(p) \/ HostReady(p) \/ Poll(p) \/ LearnerStops(p)
  \/ WatcherPosts(p) \/ Grade(p)
  \/ \E k \in Triggers : LambdaNotifies(k, p)

Aws ==
  \/ Expire \/ ScheduleFires \/ Sweep
  \/ \E k \in Triggers :
       LambdaTerminates(k) \/ LambdaTerminateFails(k) \/ LambdaNotifyLost(k)

Next ==
  \/ \E p \in Procs : Step(p) \/ Arrive(p)
  \/ Aws
  \/ HostReadyLost
  \/ Crash

Spec == Init /\ [][Next]_vars

(***************************************************************************)
(* Time passes, EventBridge runs the sweep every five minutes, and the     *)
(* TerminateInstances calls of the sweep do not fail for ever.  Nothing is *)
(* asked of the web task, the host or the schedule.                        *)
(***************************************************************************)
SweepFairness ==
  /\ WF_vars(Expire)
  /\ WF_vars(Sweep)
  /\ \A k \in Triggers \ {"schedule"} : SF_vars(LambdaTerminates(k))

SweepSpec == Spec /\ SweepFairness

(***************************************************************************)
(* The event loop runs: a request in flight is not left suspended.  The    *)
(* session page polls every three seconds, and an SSH login or an address  *)
(* lookup that can succeed is not refused for ever.                        *)
(***************************************************************************)
WebFairness ==
  \A p \in Procs :
    /\ WF_vars(Step(p))
    /\ SF_vars(Poll(p))
    /\ SF_vars(ProbeSucceeds(p))
    /\ SF_vars(RefreshFindsIp(p))

\* Callbacks of the Lambda that the network delivers find the web task.
NotifyFairness ==
  \A p \in Procs, k \in Triggers : SF_vars(LambdaNotifies(k, p))

FairSpec == Spec /\ SweepFairness /\ WebFairness /\ NotifyFairness

-----------------------------------------------------------------------------
(* Properties *)

\* A request holds sshFinalizeInFlight between has/add and the finally block.
Probing(p) ==
  \/ proc[p].at \in {"probeRead", "probe"}
  \/ /\ proc[p].at \in {"read", "write", "wrote"}
     /\ proc[p].upd \in {"ready", "probeFailed"}

(***************************************************************************)
(* sshFinalizeInFlight holds the session exactly while one probe runs: two *)
(* never overlap, and no early return, failed query or replaced task       *)
(* leaves it set, which would keep every later poll from probing again.    *)
(***************************************************************************)
ProbeExclusive ==
  /\ inFlight <=> \E p \in Procs : Probing(p)
  /\ \A p, q \in Procs : Probing(p) /\ Probing(q) => p = q

(***************************************************************************)
(* Nothing that is admitted once a session is stopped writes its row: what *)
(* is in flight and may still write was let in before the stop was done.   *)
(***************************************************************************)
AdmittedBeforeStop ==
  \A p \in Procs :
    proc[p].at \in {"read", "write"} => proc[p].old.status # "stopped"

(***************************************************************************)
(* A stopped session comes back to life only by a write of a request that  *)
(* overlapped the stop.  (It can, and NeverInLimbo and the README say what *)
(* follows.)                                                               *)
(***************************************************************************)
StopUndoneOnlyByOverlap ==
  [][row.status = "stopped" /\ row'.status # "stopped" =>
       \E p \in Procs : At(p, "write") /\ proc[p].old.status # "stopped"]_vars

\* The row names the host, and so does all that requests in flight have read.
IdSettled ==
  /\ row.instanceId
  /\ \A p \in Procs :
       /\ proc[p].at \notin {"idle", "probeRead"} => proc[p].old.instanceId
       /\ proc[p].at = "write" => proc[p].snap.instanceId

(***************************************************************************)
(* The instance id in the row is what shutdown needs to find the host.  A  *)
(* request admitted before createSession recorded it can put null back     *)
(* with its full-row UPDATE; once those are over, it is there for good.    *)
(***************************************************************************)
IdKeptOnceSettled == [][IdSettled => IdSettled']_vars

(***************************************************************************)
(* A session that nobody has asked to stop is shown as ready or running    *)
(* only after an SSH login to its host has succeeded: no grade, poll or    *)
(* stale write gets it there first.                                        *)
(***************************************************************************)
ReadyWasProbed ==
  row.status \in {"ready", "running"} => probed \/ asked

(***************************************************************************)
(* The terminator tells the web task that a host is down only when it is:  *)
(* a row it stops never leaves a running host behind on its account.       *)
(***************************************************************************)
NotifiedOnlyAfterGone ==
  \A k \in Triggers : lambda[k] = "notify" => ec2 = "gone"

\* The refinement: what the teardown design promises of the host.
Teardown == INSTANCE LabHost WITH host <- ec2, due <- asked \/ expired

(***************************************************************************)
(* The host is launched once, and taken down only after a stop was asked   *)
(* for or its lifetime is over, by whichever path.                         *)
(***************************************************************************)
TeardownSafety == Teardown!Safety

(***************************************************************************)
(* With nothing but the sweep to rely on, every host is taken down: after  *)
(* crashes, lost callbacks, a schedule that was never made, and rows that  *)
(* say failed, stopped or no longer know the instance.                     *)
(***************************************************************************)
TeardownPromise == Teardown!Spec

(***************************************************************************)
(* A host that reported in does not leave its session in provisioning,     *)
(* whatever overlaps: if a probe fails, or createSession writes its row    *)
(* over the callback's, a later poll probes again.                         *)
(***************************************************************************)
ReportedHostLeavesProvisioning ==
  row.status = "provisioning" /\ marker
    ~> row.status # "provisioning" \/ ec2 = "gone" \/ ~marker

-----------------------------------------------------------------------------
(* What the documentation says and the code does not do *)

\* "The session is still marked stopped, so an API hiccup never strands a
\* session in limbo" (docs/lab-lifecycle-design.md).
NeverInLimbo == row.status = "stopping" ~> row.status # "stopping"

\* "The EC2 state of the world and the Postgres record converge rather than
\* drift" (docs/lab-lifecycle-design.md).
RecordConverges == ec2 = "gone" ~> row.status \in {"stopped", "failed"}
=============================================================================
