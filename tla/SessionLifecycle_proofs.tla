----------------------- MODULE SessionLifecycle_proofs -----------------------
(***************************************************************************)
(* Proofs of the safety properties of SessionLifecycle, for any number of  *)
(* requests at a time, any number of replacements of the web task and any  *)
(* choice of triggers and faults.                                          *)
(***************************************************************************)
EXTENDS SessionLifecycle, TLAPS

(***************************************************************************)
(* What the helpers do to proc                                             *)
(***************************************************************************)

\* A patch makes a row of a row, whichever call of updateSession carries it.
LEMMA PatchedType ==
  ASSUME NEW patch \in Patches, NEW r \in Rows
  PROVE  Patched(patch, r) \in Rows
  BY DEF Patched, Rows, Statuses, Patches

\* What a request does after its UPDATE leaves it a request.
LEMMA AfterWriteType ==
  ASSUME NEW h \in Requests
  PROVE  AfterWrite(h) \in Requests
  <1>1. /\ {"idle", "grading", "read", "wrote"} \subseteq Labels
        /\ {"none", "stopped"} \subseteq Patches
        /\ NoRow \in Rows
    BY DEF Labels, Patches, NoRow, Rows, Statuses
  <1>2. CASE h.upd \in {"stopped", "graded", "graderError"}
    BY <1>1, <1>2 DEF AfterWrite, Idle, Requests
  <1>3. CASE h.upd = "running"
    BY <1>1, <1>3 DEF AfterWrite, Requests
  <1>4. CASE h.upd = "terminateError"
    BY <1>1, <1>4 DEF AfterWrite, Requests
  <1>5. CASE h.upd \notin {"stopped", "graded", "graderError", "running",
                          "terminateError"}
    BY <1>1, <1>5 DEF AfterWrite, Requests
  <1>. QED  BY <1>2, <1>3, <1>4, <1>5

\* A request is well typed when its four parts are.
LEMMA RequestType ==
  ASSUME NEW a \in Labels, NEW o \in Rows, NEW s \in Rows, NEW u \in Patches
  PROVE  [at |-> a, old |-> o, snap |-> s, upd |-> u] \in Requests
  BY DEF Requests

\* The null row is a row and an empty slot is a request.
LEMMA IdleType == NoRow \in Rows /\ Idle \in Requests
  <1>1. NoRow \in Rows
    BY DEF NoRow, Rows, Statuses
  <1>2. "idle" \in Labels /\ "none" \in Patches
    BY DEF Labels, Patches
  <1>. QED  BY <1>1, <1>2 DEF Idle, Requests

\* Admitting, resuming, updating and finishing a request keep proc well typed.
LEMMA ProcType ==
  ASSUME row \in Rows, proc \in [Procs -> Requests],
         NEW p \in Procs, NEW label \in Labels, NEW patch \in Patches,
         \/ Admit(p, label, patch)
         \/ GoTo(p, label)
         \/ Update(p, patch)
         \/ Finish(p)
  PROVE  proc' \in [Procs -> Requests]
  <1>1. CASE Admit(p, label, patch)
    BY <1>1, IdleType DEF Admit, Requests
  <1>2. CASE GoTo(p, label)
    BY <1>2 DEF GoTo, Requests
  <1>3. CASE Update(p, patch)
    <2>1. "read" \in Labels
      BY DEF Labels
    <2>. QED  BY <1>3, <2>1 DEF Update, Requests
  <1>4. CASE Finish(p)
    BY <1>4, IdleType DEF Finish
  <1>. QED  BY <1>1, <1>2, <1>3, <1>4

\* Starting a probe, or finding one in flight, keeps proc well typed.
LEMMA StartProbeType ==
  ASSUME proc \in [Procs -> Requests], inFlight \in BOOLEAN,
         NEW p \in Procs, StartProbe(p)
  PROVE  proc' \in [Procs -> Requests] /\ inFlight' \in BOOLEAN
  <1>1. "probeRead" \in Labels
    BY DEF Labels
  <1>2. [Idle EXCEPT !.at = "probeRead"] \in Requests
    BY <1>1, IdleType DEF Requests
  <1>. QED  BY <1>2, IdleType DEF StartProbe, Finish

\* The parts of an empty slot.
LEMMA IdleParts ==
  /\ Idle.at = "idle" /\ Idle.upd = "none"
  /\ Idle.old = NoRow /\ Idle.snap = NoRow
  /\ NoRow.status = "absent" /\ ~NoRow.instanceId /\ ~NoRow.sshHost
  BY DEF Idle, NoRow

\* At first every slot is empty.
LEMMA SlotsInit == ASSUME Init, NEW p \in Procs PROVE proc[p] = Idle
  BY DEF Init

\* After its UPDATE a request is over, or goes on with the row it was
\* admitted with and the patch it wrote; only a failed termination is
\* followed at once by another update.
LEMMA AfterWriteParts ==
  ASSUME NEW h \in Requests
  PROVE  \/ AfterWrite(h) = Idle
         \/ /\ AfterWrite(h).old = h.old
            /\ AfterWrite(h).snap \in {h.snap, NoRow}
            /\ \/ /\ AfterWrite(h).at = "wrote"
                  /\ AfterWrite(h).upd = h.upd
                  /\ h.upd \notin {"stopped", "graded", "graderError",
                                   "running", "terminateError"}
               \/ /\ AfterWrite(h).at = "grading"
                  /\ AfterWrite(h).upd = h.upd
                  /\ h.upd = "running"
               \/ /\ AfterWrite(h).at = "read"
                  /\ AfterWrite(h).upd = "stopped"
                  /\ h.upd = "terminateError"
  BY DEF AfterWrite, Requests

(***************************************************************************)
(* Type correctness                                                        *)
(***************************************************************************)

\* The names used in the actions are labels and patches.
LEMMA LabelAndPatchNames ==
  /\ {"idle", "prep", "launch", "waitIps", "schedule", "describe", "probeRead",
      "probe", "refresh", "terminate", "grading", "read", "write", "wrote"}
        \subseteq Labels
  /\ {"none", "failed", "recorded", "recordedNoIp", "callback", "refresh",
      "ready", "probeFailed", "stopping", "terminateError", "stopped",
      "running", "graded", "graderError"} \subseteq Patches
  BY DEF Labels, Patches

\* The initial state is well typed.
LEMMA TypeInit == Init => TypeOK
  <1>. SUFFICES ASSUME Init PROVE TypeOK
    OBVIOUS
  <1>1. row \in Rows /\ proc \in [Procs -> Requests]
    BY IdleType DEF Init
  <1>2. crashes \in 0..MaxCrashes
    BY LifecycleAssumption DEF Init
  <1>. QED  BY <1>1, <1>2 DEF Init, TypeOK

\* Every step keeps the state well typed: one step per action.
LEMMA TypeStep == TypeOK /\ [Next]_vars => TypeOK'
  <1>. SUFFICES ASSUME TypeOK, [Next]_vars PROVE TypeOK'
    OBVIOUS
  <1>. USE IdleType, LabelAndPatchNames DEF webVars, hostVars, awsVars, history
  <1>1. ASSUME NEW p \in Procs, Step(p) PROVE TypeOK'
    <2>1. CASE UpdateRead(p)
      <3>1. proc' \in [Procs -> Requests]
        BY <2>1 DEF TypeOK, UpdateRead, Requests
      <3>. QED  BY <2>1, <3>1 DEF TypeOK, UpdateRead
    <2>2. CASE UpdateWrite(p)
      BY <2>2, PatchedType, AfterWriteType DEF TypeOK, UpdateWrite, Requests
    <2>3. CASE Prepared(p)
      BY <2>3, ProcType DEF TypeOK, Prepared
    <2>4. CASE PrepareFails(p)
      BY <2>4, ProcType DEF TypeOK, PrepareFails
    <2>5. CASE Launch(p)
      BY <2>5, ProcType DEF TypeOK, Launch
    <2>6. CASE LaunchFails(p)
      BY <2>6, ProcType DEF TypeOK, LaunchFails
    <2>7. CASE IpsAwaited(p)
      <3>1. proc' \in [Procs -> Requests]
        <4>1. PICK patch \in {"recorded", "recordedNoIp"} :
                proc' = [proc EXCEPT ![p].at = "schedule", ![p].upd = patch]
          BY <2>7 DEF IpsAwaited
        <4>. QED  BY <4>1 DEF TypeOK, Requests
      <3>. QED  BY <2>7, <3>1 DEF TypeOK, IpsAwaited
    <2>8. CASE ScheduleTermination(p)
      BY <2>8, ProcType DEF TypeOK, ScheduleTermination
    <2>9. CASE CreateReturns(p)
      <3>1. proc' \in [Procs -> Requests]
        <4>1. Finish(p)
          BY <2>9 DEF CreateReturns
        <4>. QED  BY <4>1 DEF TypeOK, Finish
      <3>2. tokenGiven' \in BOOLEAN
        BY <2>9 DEF TypeOK, CreateReturns
      <3>3. UNCHANGED <<row, webVars, hostVars, awsVars, crashes, history>>
        BY <2>9 DEF CreateReturns
      <3>. QED  BY <3>1, <3>2, <3>3 DEF TypeOK
    <2>10. CASE MarkReady(p)
      BY <2>10, ProcType DEF TypeOK, MarkReady
    <2>11. CASE CallbackDone(p)
      BY <2>11, ProcType, StartProbeType DEF TypeOK, CallbackDone
    <2>12. CASE ProbeRead(p)
      <3>1. proc' \in [Procs -> Requests]
        <4>1. CASE FinalizeAdmits(row)
          BY <2>12, <4>1 DEF TypeOK, ProbeRead, Requests
        <4>2. CASE ~FinalizeAdmits(row)
          BY <2>12, <4>2, ProcType DEF TypeOK, ProbeRead
        <4>. QED  BY <4>1, <4>2
      <3>2. inFlight' \in BOOLEAN
        BY <2>12 DEF TypeOK, ProbeRead
      <3>3. UNCHANGED <<row, files, marker, tokenGiven, hostVars, awsVars,
                        crashes, history>>
        BY <2>12 DEF ProbeRead
      <3>. QED  BY <3>1, <3>2, <3>3 DEF TypeOK
    <2>13. CASE ProbeSucceeds(p)
      BY <2>13, ProcType DEF TypeOK, ProbeSucceeds
    <2>14. CASE ProbeFails(p)
      BY <2>14, ProcType DEF TypeOK, ProbeFails
    <2>15. CASE ProbeReleased(p)
      <3>1. Finish(p) /\ inFlight' = FALSE
        BY <2>15 DEF ProbeReleased
      <3>2. UNCHANGED <<row, files, marker, tokenGiven, hostVars, awsVars,
                        crashes, history>>
        BY <2>15 DEF ProbeReleased
      <3>. QED  BY <3>1, <3>2 DEF TypeOK, Finish
    <2>16. CASE RefreshFindsNoIp(p)
      BY <2>16, ProcType, StartProbeType DEF TypeOK, RefreshFindsNoIp, AfterRefresh
    <2>17. CASE RefreshFindsIp(p)
      BY <2>17, ProcType DEF TypeOK, RefreshFindsIp
    <2>18. CASE Refreshed(p)
      BY <2>18, ProcType, StartProbeType DEF TypeOK, Refreshed, AfterRefresh
    <2>19. CASE CancelSchedule(p)
      BY <2>19, ProcType DEF TypeOK, CancelSchedule
    <2>20. CASE TerminateHost(p)
      BY <2>20, ProcType DEF TypeOK, TerminateHost
    <2>21. CASE TerminateFails(p)
      BY <2>21, ProcType DEF TypeOK, TerminateFails
    <2>22. CASE GraderEnds(p)
      BY <2>22, ProcType DEF TypeOK, GraderEnds, GraderAnswers
    <2>23. CASE DbFails(p)
      <3>1. proc' \in [Procs -> Requests] /\ inFlight' \in BOOLEAN
        <4>1. CASE proc[p].upd \in {"recorded", "recordedNoIp"}
          BY <2>23, <4>1, ProcType DEF TypeOK, DbFails
        <4>2. CASE proc[p].upd = "graded"
          BY <2>23, <4>2, ProcType DEF TypeOK, DbFails
        <4>3. CASE proc[p].upd = "refresh"
          <5>1. AfterRefresh(p, proc[p].old)
            BY <2>23, <4>3 DEF DbFails
          <5>. QED  BY <5>1, StartProbeType DEF TypeOK, AfterRefresh, Finish
        <4>4. CASE proc[p].upd \notin {"recorded", "recordedNoIp", "graded",
                                       "refresh"}
          BY <2>23, <4>4 DEF TypeOK, DbFails, Finish
        <4>. QED  BY <4>1, <4>2, <4>3, <4>4
      <3>. QED  BY <2>23, <3>1 DEF TypeOK, DbFails
    <2>24. CASE ProbeReadFails(p)
      <3>1. Finish(p) /\ inFlight' = FALSE
        BY <2>24 DEF ProbeReadFails
      <3>2. UNCHANGED <<row, files, marker, tokenGiven, hostVars, awsVars,
                        crashes, history>>
        BY <2>24 DEF ProbeReadFails
      <3>. QED  BY <3>1, <3>2 DEF TypeOK, Finish
    <2>. QED  BY <1>1, <2>1, <2>2, <2>3, <2>4, <2>5, <2>6, <2>7, <2>8, <2>9, <2>10, <2>11, <2>12, <2>13, <2>14, <2>15, <2>16, <2>17, <2>18, <2>19, <2>20, <2>21, <2>22, <2>23, <2>24 DEF Step
  <1>2. ASSUME NEW p \in Procs, Arrive(p) PROVE TypeOK'
    <2>1. CASE CreateSession(p)
      <3>1. row' \in Rows /\ proc' \in [Procs -> Requests]
        <4>1. row' \in Rows
          BY <2>1 DEF CreateSession, InsertSession, Rows, Statuses
        <4>. QED  BY <2>1, <4>1, RequestType
           DEF TypeOK, CreateSession, InsertSession, WriteKeys
      <3>. QED  BY <2>1, <3>1
         DEF TypeOK, CreateSession, InsertSession, WriteKeys
    <2>2. CASE HostReady(p)
      BY <2>2, ProcType DEF TypeOK, HostReady
    <2>3. CASE Poll(p)
      BY <2>3, ProcType, StartProbeType DEF TypeOK, Poll
    <2>4. CASE LearnerStops(p)
      BY <2>4, ProcType DEF TypeOK, LearnerStops, BeginShutdown
    <2>5. CASE WatcherPosts(p)
      BY <2>5, ProcType DEF TypeOK, WatcherPosts, BeginShutdown
    <2>6. CASE Grade(p)
      BY <2>6, ProcType DEF TypeOK, Grade
    <2>7. ASSUME NEW k \in Triggers, LambdaNotifies(k, p) PROVE TypeOK'
      <3>1. proc' \in [Procs -> Requests]
        <4>1. CASE ShutdownAdmits(row)
          BY <2>7, <4>1, ProcType DEF TypeOK, LambdaNotifies, BeginShutdown
        <4>2. CASE ~ShutdownAdmits(row)
          BY <2>7, <4>2 DEF TypeOK, LambdaNotifies
        <4>. QED  BY <4>1, <4>2
      <3>2. asked' \in BOOLEAN /\ probed' \in BOOLEAN
        BY <2>7 DEF TypeOK, LambdaNotifies, BeginShutdown
      <3>3. lambda' \in [Triggers -> {"idle", "terminate", "notify"}]
        BY <2>7 DEF TypeOK, LambdaNotifies
      <3>. QED  BY <2>7, <3>1, <3>2, <3>3 DEF TypeOK, LambdaNotifies
    <2>. QED  BY <1>2, <2>1, <2>2, <2>3, <2>4, <2>5, <2>6, <2>7 DEF Arrive
  <1>3. CASE Aws
    <2>1. CASE Expire
      BY <2>1 DEF TypeOK, Expire
    <2>2. CASE ScheduleFires
      BY <2>2 DEF TypeOK, ScheduleFires
    <2>3. CASE Sweep
      BY <2>3 DEF TypeOK, Sweep
    <2>4. ASSUME NEW k \in Triggers, LambdaTerminates(k) PROVE TypeOK'
      BY <2>4 DEF TypeOK, LambdaTerminates
    <2>5. ASSUME NEW k \in Triggers, LambdaTerminateFails(k) PROVE TypeOK'
      BY <2>5 DEF TypeOK, LambdaTerminateFails
    <2>6. ASSUME NEW k \in Triggers, LambdaNotifyLost(k) PROVE TypeOK'
      BY <2>6 DEF TypeOK, LambdaNotifyLost
    <2>. QED  BY <1>3, <2>1, <2>2, <2>3, <2>4, <2>5, <2>6 DEF Aws
  <1>4. CASE HostReadyLost
    BY <1>4 DEF TypeOK, HostReadyLost
  <1>5. CASE Crash
    <2>1. proc' \in [Procs -> Requests]
      BY <1>5 DEF Crash
    <2>2. crashes' \in 0..MaxCrashes
      BY <1>5, LifecycleAssumption DEF TypeOK, Crash
    <2>. QED  BY <1>5, <2>1, <2>2 DEF TypeOK, Crash
  <1>6. CASE UNCHANGED vars
    BY <1>6 DEF TypeOK, vars
  <1>. QED  BY <1>1, <1>2, <1>3, <1>4, <1>5, <1>6 DEF Next

(***************************************************************************)
(* The state has its types in every behaviour.                             *)
(***************************************************************************)
THEOREM TypeCorrect == Spec => []TypeOK
  BY TypeInit, TypeStep, PTL DEF Spec

-----------------------------------------------------------------------------
(* The inductive invariants *)

\* Nothing in flight was admitted, by what it read, to a stopped session.
NoneAdmittedAfterStop == \A p \in Procs : proc[p].old.status # "stopped"

\* The patch of an update that is still to be called, where a label fixes it.
PatchesSet ==
  \A p \in Procs :
    /\ At(p, "describe") => proc[p].upd = "callback"
    /\ At(p, "schedule") => proc[p].upd \in {"recorded", "recordedNoIp"}

ProbeInv == ProbeExclusive /\ PatchesSet

EarlyStatuses == {"absent", "provisioning", "failed"}

EarlyPatches ==
  {"none", "failed", "recorded", "recordedNoIp", "callback", "refresh",
   "probeFailed"}

\* Before the first login and the first stop nothing anywhere says ready.
EarlyInv ==
  \/ probed
  \/ asked
  \/ /\ row.status \in EarlyStatuses
     /\ \A p \in Procs :
          /\ proc[p].old.status \in EarlyStatuses
          /\ proc[p].snap.status \in EarlyStatuses
          /\ proc[p].upd \in EarlyPatches
          /\ proc[p].at \notin {"terminate", "grading"}

Launching(p) == proc[p].at \in {"prep", "launch"}

\* The request has, or is about to record, the id of a launched instance.
KnowsHost(p) ==
  \/ proc[p].old.instanceId
  \/ proc[p].snap.instanceId
  \/ proc[p].upd \in {"recorded", "recordedNoIp"}
  \/ proc[p].at \in {"waitIps", "schedule"}

\* There is one createSession, and it launches before anything else knows.
LaunchInv ==
  /\ row.status = "absent" =>
       row = NoRow /\ ec2 = "none" /\ \A p \in Procs : At(p, "idle")
  /\ \A p \in Procs : At(p, "write") => proc[p].snap.status # "absent"
  /\ \A p \in Procs : Launching(p) => ec2 = "none"
  /\ \A p, q \in Procs : Launching(p) /\ Launching(q) => p = q
  /\ row.instanceId => ec2 # "none"
  /\ \A p \in Procs : KnowsHost(p) => ec2 # "none"
  /\ expired => ec2 # "none"

\* Whoever is about to terminate the host may, and whoever reports it did.
DueInv ==
  /\ \A p \in Procs : At(p, "terminate") => proc[p].old.instanceId /\ asked
  /\ \A p \in Procs : proc[p].upd = "stopping" => asked
  /\ \A k \in Triggers : lambda[k] = "terminate" => expired
  /\ \A k \in Triggers : lambda[k] = "notify" => ec2 = "gone"

HostInv == LaunchInv /\ DueInv

(***************************************************************************)
(* Admission and the stop                                                  *)
(***************************************************************************)

\* No step lets a writer in, or makes one, that was admitted after the stop.
LEMMA AdmittedStep ==
  ASSUME TypeOK, NoneAdmittedAfterStop, [Next]_vars
  PROVE  NoneAdmittedAfterStop'
  <1>. USE DEF TypeOK, Requests
  <1>1. ASSUME NEW p \in Procs, Step(p) PROVE NoneAdmittedAfterStop'
    <2>1. CASE UpdateRead(p)
      BY <2>1 DEF UpdateRead, NoneAdmittedAfterStop
    <2>2. CASE UpdateWrite(p)
      BY <2>2, AfterWriteParts, IdleParts DEF UpdateWrite, NoneAdmittedAfterStop
    <2>3. CASE Prepared(p)
      BY <2>3 DEF Prepared, GoTo, NoneAdmittedAfterStop
    <2>4. CASE PrepareFails(p)
      BY <2>4 DEF PrepareFails, Update, NoneAdmittedAfterStop
    <2>5. CASE Launch(p)
      BY <2>5 DEF Launch, GoTo, NoneAdmittedAfterStop
    <2>6. CASE LaunchFails(p)
      BY <2>6 DEF LaunchFails, Update, NoneAdmittedAfterStop
    <2>7. CASE IpsAwaited(p)
      BY <2>7 DEF IpsAwaited, NoneAdmittedAfterStop
    <2>8. CASE ScheduleTermination(p)
      BY <2>8 DEF ScheduleTermination, GoTo, NoneAdmittedAfterStop
    <2>9. CASE CreateReturns(p)
      BY <2>9 DEF CreateReturns, Finish, Idle, NoRow, NoneAdmittedAfterStop
    <2>10. CASE MarkReady(p)
      BY <2>10 DEF MarkReady, GoTo, NoneAdmittedAfterStop
    <2>11. CASE CallbackDone(p)
      BY <2>11 DEF CallbackDone, StartProbe, Finish, Idle, NoRow,
                   NoneAdmittedAfterStop
    <2>12. CASE ProbeRead(p)
      BY <2>12 DEF ProbeRead, Finish, Idle, NoRow, FinalizeAdmits,
                   NoneAdmittedAfterStop
    <2>13. CASE ProbeSucceeds(p)
      BY <2>13 DEF ProbeSucceeds, Update, NoneAdmittedAfterStop
    <2>14. CASE ProbeFails(p)
      BY <2>14 DEF ProbeFails, Update, NoneAdmittedAfterStop
    <2>15. CASE ProbeReleased(p)
      BY <2>15 DEF ProbeReleased, Finish, Idle, NoRow, NoneAdmittedAfterStop
    <2>16. CASE RefreshFindsNoIp(p)
      BY <2>16 DEF RefreshFindsNoIp, StartProbe, Finish, Idle, NoRow,
                   AfterRefresh, NoneAdmittedAfterStop
    <2>17. CASE RefreshFindsIp(p)
      BY <2>17 DEF RefreshFindsIp, Update, NoneAdmittedAfterStop
    <2>18. CASE Refreshed(p)
      BY <2>18 DEF Refreshed, StartProbe, Finish, Idle, NoRow, AfterRefresh,
                   NoneAdmittedAfterStop
    <2>19. CASE CancelSchedule(p)
      BY <2>19 DEF CancelSchedule, GoTo, Update, NoneAdmittedAfterStop
    <2>20. CASE TerminateHost(p)
      BY <2>20 DEF TerminateHost, Update, NoneAdmittedAfterStop
    <2>21. CASE TerminateFails(p)
      BY <2>21 DEF TerminateFails, Update, NoneAdmittedAfterStop
    <2>22. CASE GraderEnds(p)
      BY <2>22 DEF GraderEnds, GraderAnswers, Update, NoneAdmittedAfterStop
    <2>23. CASE DbFails(p)
      BY SMTT(30), <2>23 DEF DbFails, Update, Finish, Idle, NoRow, StartProbe,
                   AfterRefresh, NoneAdmittedAfterStop
    <2>24. CASE ProbeReadFails(p)
      BY <2>24 DEF ProbeReadFails, Finish, Idle, NoRow, NoneAdmittedAfterStop
    <2>. QED  BY <1>1, <2>1, <2>2, <2>3, <2>4, <2>5, <2>6, <2>7, <2>8, <2>9,
                 <2>10, <2>11, <2>12, <2>13, <2>14, <2>15, <2>16, <2>17, <2>18,
                 <2>19, <2>20, <2>21, <2>22, <2>23, <2>24 DEF Step
  <1>2. ASSUME NEW p \in Procs, Arrive(p) PROVE NoneAdmittedAfterStop'
    <2>1. CASE CreateSession(p)
      BY <2>1 DEF CreateSession, InsertSession, NoRow, NoneAdmittedAfterStop
    <2>2. CASE HostReady(p)
      BY <2>2 DEF HostReady, Admit, NoRow, NoneAdmittedAfterStop
    <2>3. CASE Poll(p)
      BY <2>3 DEF Poll, StartProbe, Finish, Idle, NoRow, Admit, NeedsIps,
                  ShouldProbe, NoneAdmittedAfterStop
    <2>4. CASE LearnerStops(p)
      BY <2>4 DEF LearnerStops, Admit, NoRow, BeginShutdown, ShutdownAdmits,
                  NoneAdmittedAfterStop
    <2>5. CASE WatcherPosts(p)
      BY <2>5 DEF WatcherPosts, Admit, NoRow, BeginShutdown, ShutdownAdmits,
                  NoneAdmittedAfterStop
    <2>6. CASE Grade(p)
      BY <2>6 DEF Grade, Admit, NoRow, GradeAdmits, NoneAdmittedAfterStop
    <2>7. ASSUME NEW k \in Triggers, LambdaNotifies(k, p) PROVE NoneAdmittedAfterStop'
      BY <2>7 DEF LambdaNotifies, BeginShutdown, ShutdownAdmits, Admit, NoRow,
                  NoneAdmittedAfterStop
    <2>. QED  BY <1>2, <2>1, <2>2, <2>3, <2>4, <2>5, <2>6, <2>7 DEF Arrive
  <1>3. CASE Aws
    <2>1. CASE Expire
      BY <2>1 DEF Expire, NoneAdmittedAfterStop
    <2>2. CASE ScheduleFires
      BY <2>2 DEF ScheduleFires, NoneAdmittedAfterStop
    <2>3. CASE Sweep
      BY <2>3 DEF Sweep, NoneAdmittedAfterStop
    <2>4. ASSUME NEW k \in Triggers, LambdaTerminates(k) PROVE NoneAdmittedAfterStop'
      BY <2>4 DEF LambdaTerminates, NoneAdmittedAfterStop
    <2>5. ASSUME NEW k \in Triggers, LambdaTerminateFails(k) PROVE NoneAdmittedAfterStop'
      BY <2>5 DEF LambdaTerminateFails, NoneAdmittedAfterStop
    <2>6. ASSUME NEW k \in Triggers, LambdaNotifyLost(k) PROVE NoneAdmittedAfterStop'
      BY <2>6 DEF LambdaNotifyLost, NoneAdmittedAfterStop
    <2>. QED  BY <1>3, <2>1, <2>2, <2>3, <2>4, <2>5, <2>6 DEF Aws
  <1>4. CASE HostReadyLost
    BY <1>4 DEF HostReadyLost, NoneAdmittedAfterStop
  <1>5. CASE Crash
    BY <1>5 DEF Crash, Idle, NoRow, NoneAdmittedAfterStop
  <1>6. CASE UNCHANGED vars
    BY <1>6 DEF vars, NoneAdmittedAfterStop
  <1>. QED  BY <1>1, <1>2, <1>3, <1>4, <1>5, <1>6 DEF Next

\* A request that may still write was admitted before the stop was done.
THEOREM NothingAdmittedAfterStop == Spec => []AdmittedBeforeStop
  <1>1. Init => NoneAdmittedAfterStop
    BY SlotsInit, IdleParts DEF NoneAdmittedAfterStop
  <1>2. NoneAdmittedAfterStop => AdmittedBeforeStop
    BY DEF NoneAdmittedAfterStop, AdmittedBeforeStop
  <1>. QED  BY <1>1, <1>2, AdmittedStep, TypeCorrect, PTL DEF Spec

\* The row is written by createSession and by updateSession, and by nothing else.
LEMMA RowStep ==
  ASSUME [Next]_vars
  PROVE  row' = row \/ row = NoRow \/ \E p \in Procs : UpdateWrite(p)
  <1>1. ASSUME NEW p \in Procs, Step(p), ~UpdateWrite(p) PROVE row' = row
    BY <1>1 DEF Step, UpdateRead, Prepared, PrepareFails, Launch, LaunchFails,
                IpsAwaited, ScheduleTermination, CreateReturns, MarkReady,
                CallbackDone, ProbeRead, ProbeSucceeds, ProbeFails,
                ProbeReleased, RefreshFindsNoIp, RefreshFindsIp, Refreshed,
                CancelSchedule, TerminateHost, TerminateFails, GraderEnds,
                GraderAnswers, DbFails, ProbeReadFails
  <1>2. ASSUME NEW p \in Procs, Arrive(p), row # NoRow PROVE row' = row
    BY <1>2
       DEF Arrive, CreateSession, InsertSession, HostReady, Poll,
           LearnerStops,
                WatcherPosts, Grade, LambdaNotifies
  <1>3. Aws => row' = row
    BY DEF Aws, Expire, ScheduleFires, Sweep, LambdaTerminates,
           LambdaTerminateFails, LambdaNotifyLost
  <1>. QED  BY <1>1, <1>2, <1>3 DEF Next, HostReadyLost, Crash, vars

(***************************************************************************)
(* A stopped session comes back only by the write of a request that was    *)
(* admitted before the stop was done.                                      *)
(***************************************************************************)
THEOREM StopUndoneOnlyByEarlierRequest == Spec => StopUndoneOnlyByOverlap
  <1>1. ASSUME AdmittedBeforeStop, [Next]_vars,
               row.status = "stopped", row'.status # "stopped"
        PROVE  \E p \in Procs : At(p, "write") /\ proc[p].old.status # "stopped"
    <2>1. PICK p \in Procs : UpdateWrite(p)
      BY <1>1, RowStep, IdleParts
    <2>2. At(p, "write")
      BY <2>1 DEF UpdateWrite
    <2>. QED  BY <1>1, <2>2 DEF AdmittedBeforeStop, At
  <1>. QED  BY <1>1, NothingAdmittedAfterStop, PTL DEF Spec, StopUndoneOnlyByOverlap

(***************************************************************************)
(* One probe at a time                                                     *)
(***************************************************************************)

\* Every step keeps inFlight and the probe it stands for together.
LEMMA ProbeStep ==
  ASSUME TypeOK, ProbeInv, [Next]_vars
  PROVE  ProbeInv'
  <1>. USE DEF TypeOK, Requests, webVars
  <1>1. ASSUME NEW p \in Procs, Step(p) PROVE ProbeInv'
    <2>1. CASE UpdateRead(p)
      BY <2>1 DEF UpdateRead, ProbeInv, ProbeExclusive, PatchesSet, Probing, At
    <2>2. CASE UpdateWrite(p)
      BY <2>2 DEF UpdateWrite, AfterWrite, Patched, Idle, ProbeInv,
                  ProbeExclusive, PatchesSet, Probing, At
    <2>3. CASE Prepared(p)
      BY <2>3 DEF Prepared, GoTo, ProbeInv, ProbeExclusive, PatchesSet,
                  Probing, At
    <2>4. CASE PrepareFails(p)
      BY <2>4 DEF PrepareFails, Update, ProbeInv, ProbeExclusive, PatchesSet,
                  Probing, At
    <2>5. CASE Launch(p)
      BY <2>5 DEF Launch, GoTo, ProbeInv, ProbeExclusive, PatchesSet, Probing,
                  At
    <2>6. CASE LaunchFails(p)
      BY <2>6 DEF LaunchFails, Update, ProbeInv, ProbeExclusive, PatchesSet,
                  Probing, At
    <2>7. CASE IpsAwaited(p)
      BY <2>7 DEF IpsAwaited, ProbeInv, ProbeExclusive, PatchesSet, Probing, At
    <2>8. CASE ScheduleTermination(p)
      BY <2>8 DEF ScheduleTermination, GoTo, ProbeInv, ProbeExclusive,
                  PatchesSet, Probing, At
    <2>9. CASE CreateReturns(p)
      BY <2>9 DEF CreateReturns, Finish, Idle, NoRow, ProbeInv, ProbeExclusive,
                  PatchesSet, Probing, At, Wrote
    <2>10. CASE MarkReady(p)
      BY <2>10 DEF MarkReady, GoTo, ProbeInv, ProbeExclusive, PatchesSet,
                   Probing, At
    <2>11. CASE CallbackDone(p)
      BY <2>11 DEF CallbackDone, StartProbe, Finish, Idle, NoRow, ProbeInv,
                   ProbeExclusive, PatchesSet, Probing, At, Wrote
    <2>12. CASE ProbeRead(p)
      BY <2>12 DEF ProbeRead, Finish, Idle, NoRow, FinalizeAdmits, ProbeInv,
                   ProbeExclusive, PatchesSet, Probing, At
    <2>13. CASE ProbeSucceeds(p)
      BY <2>13 DEF ProbeSucceeds, Update, ProbeInv, ProbeExclusive, PatchesSet,
                   Probing, At
    <2>14. CASE ProbeFails(p)
      BY <2>14 DEF ProbeFails, Update, ProbeInv, ProbeExclusive, PatchesSet,
                   Probing, At
    <2>15. CASE ProbeReleased(p)
      BY <2>15 DEF ProbeReleased, Finish, Idle, NoRow, ProbeInv,
                   ProbeExclusive, PatchesSet, Probing, At, Wrote
    <2>16. CASE RefreshFindsNoIp(p)
      BY <2>16 DEF RefreshFindsNoIp, StartProbe, Finish, Idle, NoRow,
                   AfterRefresh, ProbeInv, ProbeExclusive, PatchesSet, Probing,
                   At
    <2>17. CASE RefreshFindsIp(p)
      BY <2>17 DEF RefreshFindsIp, Update, ProbeInv, ProbeExclusive,
                   PatchesSet, Probing, At
    <2>18. CASE Refreshed(p)
      BY <2>18 DEF Refreshed, StartProbe, Finish, Idle, NoRow, AfterRefresh,
                   ProbeInv, ProbeExclusive, PatchesSet, Probing, At, Wrote
    <2>19. CASE CancelSchedule(p)
      BY <2>19 DEF CancelSchedule, GoTo, Update, ProbeInv, ProbeExclusive,
                   PatchesSet, Probing, At, Wrote
    <2>20. CASE TerminateHost(p)
      BY <2>20 DEF TerminateHost, Update, ProbeInv, ProbeExclusive, PatchesSet,
                   Probing, At
    <2>21. CASE TerminateFails(p)
      BY <2>21 DEF TerminateFails, Update, ProbeInv, ProbeExclusive,
                   PatchesSet, Probing, At
    <2>22. CASE GraderEnds(p)
      BY <2>22
         DEF GraderEnds, GraderAnswers, Update, ProbeInv, ProbeExclusive,
             PatchesSet,
                   Probing, At
    <2>23. CASE DbFails(p)
      BY <2>23 DEF DbFails, Update, Finish, Idle, NoRow, StartProbe,
                   AfterRefresh, ProbeInv, ProbeExclusive, PatchesSet, Probing,
                   At
    <2>24. CASE ProbeReadFails(p)
      BY <2>24 DEF ProbeReadFails, Finish, Idle, NoRow, ProbeInv,
                   ProbeExclusive, PatchesSet, Probing, At
    <2>. QED  BY <1>1, <2>1, <2>2, <2>3, <2>4, <2>5, <2>6, <2>7, <2>8, <2>9,
                 <2>10, <2>11, <2>12, <2>13, <2>14, <2>15, <2>16, <2>17, <2>18,
                 <2>19, <2>20, <2>21, <2>22, <2>23, <2>24 DEF Step
  <1>2. ASSUME NEW p \in Procs, Arrive(p) PROVE ProbeInv'
    <2>1. CASE CreateSession(p)
      BY <2>1
         DEF CreateSession, InsertSession, NoRow, ProbeInv, ProbeExclusive,
             PatchesSet,
                  Probing, At
    <2>2. CASE HostReady(p)
      BY <2>2 DEF HostReady, Admit, NoRow, ProbeInv, ProbeExclusive,
                  PatchesSet, Probing, At
    <2>3. CASE Poll(p)
      <3>1. At(p, "idle") /\ ~Probing(p)
        BY <2>3 DEF Poll, At, Probing
      <3>2. CASE Admit(p, "refresh", "none") /\ UNCHANGED inFlight
        BY <3>1, <3>2 DEF Admit, ProbeInv, ProbeExclusive, PatchesSet, Probing, At
      <3>3. CASE ~inFlight /\ StartProbe(p)
        <4>1. /\ inFlight'
              /\ proc'[p].at = "probeRead"
              /\ \A q \in Procs \ {p} : proc'[q] = proc[q]
          BY <3>3 DEF StartProbe, Idle
        <4>2. \A q \in Procs : ~Probing(q)
          BY <3>3 DEF ProbeInv, ProbeExclusive
        <4>3. ProbeExclusive'
          BY <4>1, <4>2 DEF ProbeExclusive, Probing
        <4>4. PatchesSet'
          BY <4>1 DEF ProbeInv, PatchesSet, At
        <4>. QED  BY <4>3, <4>4 DEF ProbeInv
      <3>. QED  BY <2>3, <3>2, <3>3 DEF Poll, ShouldProbe
    <2>4. CASE LearnerStops(p)
      BY <2>4 DEF LearnerStops, Admit, NoRow, BeginShutdown, ShutdownAdmits,
                  ProbeInv, ProbeExclusive, PatchesSet, Probing, At
    <2>5. CASE WatcherPosts(p)
      BY <2>5 DEF WatcherPosts, Admit, NoRow, BeginShutdown, ShutdownAdmits,
                  ProbeInv, ProbeExclusive, PatchesSet, Probing, At
    <2>6. CASE Grade(p)
      BY <2>6 DEF Grade, Admit, NoRow, GradeAdmits, ProbeInv, ProbeExclusive,
                  PatchesSet, Probing, At
    <2>7. ASSUME NEW k \in Triggers, LambdaNotifies(k, p) PROVE ProbeInv'
      BY <2>7 DEF LambdaNotifies, BeginShutdown, ShutdownAdmits, Admit, NoRow,
                  ProbeInv, ProbeExclusive, PatchesSet, Probing, At
    <2>. QED  BY <1>2, <2>1, <2>2, <2>3, <2>4, <2>5, <2>6, <2>7 DEF Arrive
  <1>3. CASE Aws
    <2>1. CASE Expire
      BY <2>1 DEF Expire, ProbeInv, ProbeExclusive, PatchesSet, Probing, At
    <2>2. CASE ScheduleFires
      BY <2>2 DEF ScheduleFires, ProbeInv, ProbeExclusive, PatchesSet, Probing,
                  At
    <2>3. CASE Sweep
      BY <2>3 DEF Sweep, ProbeInv, ProbeExclusive, PatchesSet, Probing, At
    <2>4. ASSUME NEW k \in Triggers, LambdaTerminates(k) PROVE ProbeInv'
      BY <2>4 DEF LambdaTerminates, ProbeInv, ProbeExclusive, PatchesSet,
                  Probing, At
    <2>5. ASSUME NEW k \in Triggers, LambdaTerminateFails(k) PROVE ProbeInv'
      BY <2>5 DEF LambdaTerminateFails, ProbeInv, ProbeExclusive, PatchesSet,
                  Probing, At
    <2>6. ASSUME NEW k \in Triggers, LambdaNotifyLost(k) PROVE ProbeInv'
      BY <2>6 DEF LambdaNotifyLost, ProbeInv, ProbeExclusive, PatchesSet,
                  Probing, At
    <2>. QED  BY <1>3, <2>1, <2>2, <2>3, <2>4, <2>5, <2>6 DEF Aws
  <1>4. CASE HostReadyLost
    BY <1>4 DEF HostReadyLost, ProbeInv, ProbeExclusive, PatchesSet, Probing,
                At
  <1>5. CASE Crash
    BY <1>5 DEF Crash, Idle, NoRow, ProbeInv, ProbeExclusive, PatchesSet,
                Probing, At
  <1>6. CASE UNCHANGED vars
    BY <1>6 DEF vars, ProbeInv, ProbeExclusive, PatchesSet, Probing, At
  <1>. QED  BY <1>1, <1>2, <1>3, <1>4, <1>5, <1>6 DEF Next

(***************************************************************************)
(* sshFinalizeInFlight is held exactly while one probe runs, and never two *)
(* run at once.                                                            *)
(***************************************************************************)
THEOREM OneProbeAtATime == Spec => []ProbeExclusive
  <1>1. Init => ProbeInv
    BY SlotsInit, IdleParts DEF Init, ProbeInv, ProbeExclusive, PatchesSet, Probing, At
  <1>2. ProbeInv => ProbeExclusive
    BY DEF ProbeInv
  <1>. QED  BY <1>1, <1>2, ProbeStep, TypeCorrect, PTL DEF Spec

(***************************************************************************)
(* Ready only after a login                                                *)
(***************************************************************************)

\* Every step keeps what holds before the first login or stop.
LEMMA EarlyStep ==
  ASSUME TypeOK, EarlyInv, [Next]_vars
  PROVE  EarlyInv'
  <1>. USE DEF TypeOK, Requests, history
  <1>1. ASSUME NEW p \in Procs, Step(p) PROVE EarlyInv'
    <2>1. CASE UpdateRead(p)
      BY <2>1 DEF UpdateRead, EarlyInv, EarlyStatuses, EarlyPatches, At
    <2>2. CASE UpdateWrite(p)
      BY <2>2, AfterWriteParts, IdleParts DEF UpdateWrite, Patched, EarlyInv,
                                              EarlyStatuses, EarlyPatches, At
    <2>3. CASE Prepared(p)
      BY <2>3 DEF Prepared, GoTo, EarlyInv, EarlyStatuses, EarlyPatches, At
    <2>4. CASE PrepareFails(p)
      BY <2>4 DEF PrepareFails, Update, EarlyInv, EarlyStatuses, EarlyPatches,
                  At
    <2>5. CASE Launch(p)
      BY <2>5 DEF Launch, GoTo, EarlyInv, EarlyStatuses, EarlyPatches, At
    <2>6. CASE LaunchFails(p)
      BY <2>6 DEF LaunchFails, Update, EarlyInv, EarlyStatuses, EarlyPatches,
                  At
    <2>7. CASE IpsAwaited(p)
      BY <2>7 DEF IpsAwaited, EarlyInv, EarlyStatuses, EarlyPatches, At
    <2>8. CASE ScheduleTermination(p)
      BY <2>8 DEF ScheduleTermination, GoTo, EarlyInv, EarlyStatuses,
                  EarlyPatches, At
    <2>9. CASE CreateReturns(p)
      BY <2>9 DEF CreateReturns, Finish, Idle, NoRow, EarlyInv, EarlyStatuses,
                  EarlyPatches, Wrote, At
    <2>10. CASE MarkReady(p)
      BY <2>10 DEF MarkReady, GoTo, EarlyInv, EarlyStatuses, EarlyPatches, At
    <2>11. CASE CallbackDone(p)
      BY <2>11 DEF CallbackDone, StartProbe, Finish, Idle, NoRow, EarlyInv,
                   EarlyStatuses, EarlyPatches, Wrote, At
    <2>12. CASE ProbeRead(p)
      BY <2>12 DEF ProbeRead, Finish, Idle, NoRow, FinalizeAdmits, EarlyInv,
                   EarlyStatuses, EarlyPatches, At
    <2>13. CASE ProbeSucceeds(p)
      BY <2>13 DEF ProbeSucceeds, Update, EarlyInv, EarlyStatuses,
                   EarlyPatches, At
    <2>14. CASE ProbeFails(p)
      BY <2>14 DEF ProbeFails, Update, EarlyInv, EarlyStatuses, EarlyPatches,
                   At
    <2>15. CASE ProbeReleased(p)
      BY <2>15 DEF ProbeReleased, Finish, Idle, NoRow, EarlyInv, EarlyStatuses,
                   EarlyPatches, Wrote, At
    <2>16. CASE RefreshFindsNoIp(p)
      BY <2>16 DEF RefreshFindsNoIp, StartProbe, Finish, Idle, NoRow,
                   AfterRefresh, EarlyInv, EarlyStatuses, EarlyPatches, At
    <2>17. CASE RefreshFindsIp(p)
      BY <2>17 DEF RefreshFindsIp, Update, EarlyInv, EarlyStatuses,
                   EarlyPatches, At
    <2>18. CASE Refreshed(p)
      BY <2>18 DEF Refreshed, StartProbe, Finish, Idle, NoRow, AfterRefresh,
                   EarlyInv, EarlyStatuses, EarlyPatches, Wrote, At
    <2>19. CASE CancelSchedule(p)
      BY <2>19 DEF CancelSchedule, GoTo, Update, EarlyInv, EarlyStatuses,
                   EarlyPatches, Wrote, At
    <2>20. CASE TerminateHost(p)
      BY <2>20 DEF TerminateHost, Update, EarlyInv, EarlyStatuses,
                   EarlyPatches, At
    <2>21. CASE TerminateFails(p)
      BY <2>21 DEF TerminateFails, Update, EarlyInv, EarlyStatuses,
                   EarlyPatches, At
    <2>22. CASE GraderEnds(p)
      BY <2>22
         DEF GraderEnds, GraderAnswers, Update, EarlyInv, EarlyStatuses,
             EarlyPatches,
                   At
    <2>23. CASE DbFails(p)
      BY <2>23 DEF DbFails, Update, Finish, Idle, NoRow, StartProbe,
                   AfterRefresh, EarlyInv, EarlyStatuses, EarlyPatches, At
    <2>24. CASE ProbeReadFails(p)
      BY <2>24 DEF ProbeReadFails, Finish, Idle, NoRow, EarlyInv,
                   EarlyStatuses, EarlyPatches, At
    <2>. QED  BY <1>1, <2>1, <2>2, <2>3, <2>4, <2>5, <2>6, <2>7, <2>8, <2>9,
                 <2>10, <2>11, <2>12, <2>13, <2>14, <2>15, <2>16, <2>17, <2>18,
                 <2>19, <2>20, <2>21, <2>22, <2>23, <2>24 DEF Step
  <1>2. ASSUME NEW p \in Procs, Arrive(p) PROVE EarlyInv'
    <2>1. CASE CreateSession(p)
      BY <2>1
         DEF CreateSession, InsertSession, NoRow, EarlyInv, EarlyStatuses,
             EarlyPatches,
                  At
    <2>2. CASE HostReady(p)
      BY <2>2 DEF HostReady, Admit, NoRow, EarlyInv, EarlyStatuses,
                  EarlyPatches, At
    <2>3. CASE Poll(p)
      BY <2>3 DEF Poll, StartProbe, Finish, Idle, NoRow, Admit, NeedsIps,
                  ShouldProbe, EarlyInv, EarlyStatuses, EarlyPatches, At
    <2>4. CASE LearnerStops(p)
      BY <2>4 DEF LearnerStops, Admit, NoRow, BeginShutdown, ShutdownAdmits,
                  EarlyInv, EarlyStatuses, EarlyPatches, At
    <2>5. CASE WatcherPosts(p)
      BY <2>5 DEF WatcherPosts, Admit, NoRow, BeginShutdown, ShutdownAdmits,
                  EarlyInv, EarlyStatuses, EarlyPatches, At
    <2>6. CASE Grade(p)
      BY <2>6 DEF Grade, Admit, NoRow, GradeAdmits, EarlyInv, EarlyStatuses,
                  EarlyPatches, At
    <2>7. ASSUME NEW k \in Triggers, LambdaNotifies(k, p) PROVE EarlyInv'
      BY <2>7 DEF LambdaNotifies, BeginShutdown, ShutdownAdmits, Admit, NoRow,
                  EarlyInv, EarlyStatuses, EarlyPatches
    <2>. QED  BY <1>2, <2>1, <2>2, <2>3, <2>4, <2>5, <2>6, <2>7 DEF Arrive
  <1>3. CASE Aws
    <2>1. CASE Expire
      BY <2>1 DEF Expire, EarlyInv, EarlyStatuses, EarlyPatches
    <2>2. CASE ScheduleFires
      BY <2>2 DEF ScheduleFires, EarlyInv, EarlyStatuses, EarlyPatches
    <2>3. CASE Sweep
      BY <2>3 DEF Sweep, EarlyInv, EarlyStatuses, EarlyPatches
    <2>4. ASSUME NEW k \in Triggers, LambdaTerminates(k) PROVE EarlyInv'
      BY <2>4 DEF LambdaTerminates, EarlyInv, EarlyStatuses, EarlyPatches
    <2>5. ASSUME NEW k \in Triggers, LambdaTerminateFails(k) PROVE EarlyInv'
      BY <2>5 DEF LambdaTerminateFails, EarlyInv, EarlyStatuses, EarlyPatches
    <2>6. ASSUME NEW k \in Triggers, LambdaNotifyLost(k) PROVE EarlyInv'
      BY <2>6 DEF LambdaNotifyLost, EarlyInv, EarlyStatuses, EarlyPatches
    <2>. QED  BY <1>3, <2>1, <2>2, <2>3, <2>4, <2>5, <2>6 DEF Aws
  <1>4. CASE HostReadyLost
    BY <1>4 DEF HostReadyLost, EarlyInv, EarlyStatuses, EarlyPatches
  <1>5. CASE Crash
    BY <1>5 DEF Crash, Idle, NoRow, EarlyInv, EarlyStatuses, EarlyPatches
  <1>6. CASE UNCHANGED vars
    BY <1>6 DEF vars, EarlyInv, EarlyStatuses, EarlyPatches
  <1>. QED  BY <1>1, <1>2, <1>3, <1>4, <1>5, <1>6 DEF Next

(***************************************************************************)
(* A session nobody has stopped is ready or running only after a login.    *)
(***************************************************************************)
THEOREM ReadyOnlyAfterLogin == Spec => []ReadyWasProbed
  <1>1. Init => EarlyInv
    BY SlotsInit, IdleParts DEF Init, EarlyInv, EarlyStatuses, EarlyPatches
  <1>2. EarlyInv => ReadyWasProbed
    BY DEF EarlyInv, EarlyStatuses, ReadyWasProbed
  <1>. QED  BY <1>1, <1>2, EarlyStep, TypeCorrect, PTL DEF Spec

(***************************************************************************)
(* The instance id                                                         *)
(***************************************************************************)

\* Once settled, no step can write a row without the instance id.
LEMMA SettledStep ==
  ASSUME TypeOK, IdSettled, [Next]_vars
  PROVE  IdSettled'
  <1>. USE DEF TypeOK, Requests
  <1>1. ASSUME NEW p \in Procs, Step(p) PROVE IdSettled'
    <2>1. CASE UpdateRead(p)
      BY <2>1 DEF UpdateRead, IdSettled, At
    <2>2. CASE UpdateWrite(p)
      BY <2>2, AfterWriteParts, IdleParts DEF UpdateWrite, Patched, IdSettled,
                                              At
    <2>3. CASE Prepared(p)
      BY <2>3 DEF Prepared, GoTo, IdSettled, At
    <2>4. CASE PrepareFails(p)
      BY <2>4 DEF PrepareFails, Update, IdSettled, At
    <2>5. CASE Launch(p)
      BY <2>5 DEF Launch, GoTo, IdSettled, At
    <2>6. CASE LaunchFails(p)
      BY <2>6 DEF LaunchFails, Update, IdSettled, At
    <2>7. CASE IpsAwaited(p)
      BY <2>7 DEF IpsAwaited, IdSettled, At
    <2>8. CASE ScheduleTermination(p)
      BY <2>8 DEF ScheduleTermination, GoTo, IdSettled, At
    <2>9. CASE CreateReturns(p)
      BY <2>9 DEF CreateReturns, Finish, Idle, NoRow, IdSettled, Wrote, At
    <2>10. CASE MarkReady(p)
      BY <2>10 DEF MarkReady, GoTo, IdSettled, At
    <2>11. CASE CallbackDone(p)
      BY <2>11 DEF CallbackDone, StartProbe, Finish, Idle, NoRow, IdSettled,
                   Wrote, At
    <2>12. CASE ProbeRead(p)
      BY <2>12 DEF ProbeRead, Finish, Idle, NoRow, FinalizeAdmits, IdSettled,
                   At
    <2>13. CASE ProbeSucceeds(p)
      BY <2>13 DEF ProbeSucceeds, Update, IdSettled, At
    <2>14. CASE ProbeFails(p)
      BY <2>14 DEF ProbeFails, Update, IdSettled, At
    <2>15. CASE ProbeReleased(p)
      BY <2>15 DEF ProbeReleased, Finish, Idle, NoRow, IdSettled, Wrote, At
    <2>16. CASE RefreshFindsNoIp(p)
      BY <2>16 DEF RefreshFindsNoIp, StartProbe, Finish, Idle, NoRow,
                   AfterRefresh, IdSettled, At
    <2>17. CASE RefreshFindsIp(p)
      BY <2>17 DEF RefreshFindsIp, Update, IdSettled, At
    <2>18. CASE Refreshed(p)
      BY <2>18 DEF Refreshed, StartProbe, Finish, Idle, NoRow, AfterRefresh,
                   IdSettled, Wrote, At
    <2>19. CASE CancelSchedule(p)
      BY <2>19 DEF CancelSchedule, GoTo, Update, IdSettled, Wrote, At
    <2>20. CASE TerminateHost(p)
      BY <2>20 DEF TerminateHost, Update, IdSettled, At
    <2>21. CASE TerminateFails(p)
      BY <2>21 DEF TerminateFails, Update, IdSettled, At
    <2>22. CASE GraderEnds(p)
      BY <2>22 DEF GraderEnds, GraderAnswers, Update, IdSettled, At
    <2>23. CASE DbFails(p)
      BY SMTT(30), <2>23 DEF DbFails, Update, Finish, Idle, NoRow, StartProbe,
                   AfterRefresh, IdSettled, At
    <2>24. CASE ProbeReadFails(p)
      BY <2>24 DEF ProbeReadFails, Finish, Idle, NoRow, IdSettled, At
    <2>. QED  BY <1>1, <2>1, <2>2, <2>3, <2>4, <2>5, <2>6, <2>7, <2>8, <2>9,
                 <2>10, <2>11, <2>12, <2>13, <2>14, <2>15, <2>16, <2>17, <2>18,
                 <2>19, <2>20, <2>21, <2>22, <2>23, <2>24 DEF Step
  <1>2. ASSUME NEW p \in Procs, Arrive(p) PROVE IdSettled'
    <2>1. CASE CreateSession(p)
      BY <2>1 DEF CreateSession, InsertSession, NoRow, IdSettled, At
    <2>2. CASE HostReady(p)
      BY <2>2 DEF HostReady, Admit, NoRow, IdSettled, At
    <2>3. CASE Poll(p)
      BY <2>3 DEF Poll, StartProbe, Finish, Idle, NoRow, Admit, NeedsIps,
                  ShouldProbe, IdSettled, At
    <2>4. CASE LearnerStops(p)
      BY <2>4 DEF LearnerStops, Admit, NoRow, BeginShutdown, ShutdownAdmits,
                  IdSettled, At
    <2>5. CASE WatcherPosts(p)
      BY <2>5 DEF WatcherPosts, Admit, NoRow, BeginShutdown, ShutdownAdmits,
                  IdSettled, At
    <2>6. CASE Grade(p)
      BY <2>6 DEF Grade, Admit, NoRow, GradeAdmits, IdSettled, At
    <2>7. ASSUME NEW k \in Triggers, LambdaNotifies(k, p) PROVE IdSettled'
      BY <2>7 DEF LambdaNotifies, BeginShutdown, ShutdownAdmits, Admit, NoRow,
                  IdSettled
    <2>. QED  BY <1>2, <2>1, <2>2, <2>3, <2>4, <2>5, <2>6, <2>7 DEF Arrive
  <1>3. CASE Aws
    <2>1. CASE Expire
      BY <2>1 DEF Expire, IdSettled
    <2>2. CASE ScheduleFires
      BY <2>2 DEF ScheduleFires, IdSettled
    <2>3. CASE Sweep
      BY <2>3 DEF Sweep, IdSettled
    <2>4. ASSUME NEW k \in Triggers, LambdaTerminates(k) PROVE IdSettled'
      BY <2>4 DEF LambdaTerminates, IdSettled
    <2>5. ASSUME NEW k \in Triggers, LambdaTerminateFails(k) PROVE IdSettled'
      BY <2>5 DEF LambdaTerminateFails, IdSettled
    <2>6. ASSUME NEW k \in Triggers, LambdaNotifyLost(k) PROVE IdSettled'
      BY <2>6 DEF LambdaNotifyLost, IdSettled
    <2>. QED  BY <1>3, <2>1, <2>2, <2>3, <2>4, <2>5, <2>6 DEF Aws
  <1>4. CASE HostReadyLost
    BY <1>4 DEF HostReadyLost, IdSettled
  <1>5. CASE Crash
    BY <1>5 DEF Crash, Idle, NoRow, IdSettled
  <1>6. CASE UNCHANGED vars
    BY <1>6 DEF vars, IdSettled
  <1>. QED  BY <1>1, <1>2, <1>3, <1>4, <1>5, <1>6 DEF Next

(***************************************************************************)
(* Once no request in flight was admitted without the instance id, no      *)
(* later write can lose it.                                                *)
(***************************************************************************)
THEOREM IdIsNotLostLater == Spec => IdKeptOnceSettled
  <1>1. ASSUME TypeOK, [Next]_vars PROVE IdSettled => IdSettled'
    BY <1>1, SettledStep
  <1>. QED  BY <1>1, TypeCorrect, PTL DEF Spec, IdKeptOnceSettled

(***************************************************************************)
(* The host comes up once and goes down when it may                       *)
(***************************************************************************)

\* Every step keeps the launch unique.
LEMMA LaunchStep ==
  ASSUME TypeOK, HostInv, [Next]_vars
  PROVE  LaunchInv'
  <1>. USE DEF TypeOK, Requests, awsVars
  <1>1. ASSUME NEW p \in Procs, Step(p) PROVE LaunchInv'
    <2>1. CASE UpdateRead(p)
      BY <2>1 DEF UpdateRead, HostInv, LaunchInv, DueInv, Launching, KnowsHost,
                  At
    <2>2. CASE UpdateWrite(p)
      BY <2>2, AfterWriteParts, IdleParts DEF UpdateWrite, Patched, HostInv,
                                              LaunchInv, DueInv, Launching,
                                              KnowsHost, At
    <2>3. CASE Prepared(p)
      BY <2>3 DEF Prepared, GoTo, HostInv, LaunchInv, DueInv, Launching,
                  KnowsHost, At
    <2>4. CASE PrepareFails(p)
      BY <2>4 DEF PrepareFails, Update, HostInv, LaunchInv, DueInv, Launching,
                  KnowsHost, At
    <2>5. CASE Launch(p)
      BY <2>5 DEF Launch, GoTo, HostInv, LaunchInv, DueInv, Launching,
                  KnowsHost, At
    <2>6. CASE LaunchFails(p)
      BY <2>6 DEF LaunchFails, Update, HostInv, LaunchInv, DueInv, Launching,
                  KnowsHost, At
    <2>7. CASE IpsAwaited(p)
      BY <2>7 DEF IpsAwaited, HostInv, LaunchInv, DueInv, Launching, KnowsHost,
                  At
    <2>8. CASE ScheduleTermination(p)
      BY <2>8 DEF ScheduleTermination, GoTo, HostInv, LaunchInv, DueInv,
                  Launching, KnowsHost, At
    <2>9. CASE CreateReturns(p)
      BY <2>9 DEF CreateReturns, Finish, Idle, NoRow, HostInv, LaunchInv,
                  DueInv, Launching, KnowsHost, At, Wrote
    <2>10. CASE MarkReady(p)
      BY <2>10 DEF MarkReady, GoTo, HostInv, LaunchInv, DueInv, Launching,
                   KnowsHost, At
    <2>11. CASE CallbackDone(p)
      <3>1. ~Launching(p) /\ ~At(p, "idle")
        BY <2>11 DEF CallbackDone, Wrote, At, Launching
      <3>2. CASE inFlight
        BY <2>11, <3>1, <3>2, IdleParts
        DEF CallbackDone, StartProbe, Finish, HostInv, LaunchInv, Launching,
            KnowsHost, At
      <3>3. CASE ~inFlight
        <4>1. /\ proc'[p] = [Idle EXCEPT !.at = "probeRead"]
              /\ \A q \in Procs \ {p} : proc'[q] = proc[q]
          BY <2>11, <3>3 DEF CallbackDone, StartProbe
        <4>2. /\ proc'[p].at = "probeRead"
              /\ ~KnowsHost(p)'
          BY <4>1 DEF Idle, NoRow, KnowsHost
        <4>3. UNCHANGED <<row, awsVars>>
          BY <2>11 DEF CallbackDone
        <4>. QED  BY <3>1, <4>1, <4>2, <4>3
                  DEF HostInv, LaunchInv, Launching, KnowsHost, At
      <3>. QED  BY <3>2, <3>3
    <2>12. CASE ProbeRead(p)
      BY <2>12 DEF ProbeRead, Finish, Idle, NoRow, FinalizeAdmits, HostInv,
                   LaunchInv, DueInv, Launching, KnowsHost, At
    <2>13. CASE ProbeSucceeds(p)
      BY <2>13 DEF ProbeSucceeds, Update, HostInv, LaunchInv, DueInv,
                   Launching, KnowsHost, At
    <2>14. CASE ProbeFails(p)
      BY <2>14 DEF ProbeFails, Update, HostInv, LaunchInv, DueInv, Launching,
                   KnowsHost, At
    <2>15. CASE ProbeReleased(p)
      BY <2>15 DEF ProbeReleased, Finish, Idle, NoRow, HostInv, LaunchInv,
                   DueInv, Launching, KnowsHost, At, Wrote
    <2>16. CASE RefreshFindsNoIp(p)
      BY SMTT(30), <2>16 DEF RefreshFindsNoIp, StartProbe, Finish, Idle, NoRow,
                   AfterRefresh, HostInv, LaunchInv, DueInv, Launching,
                   KnowsHost, At
    <2>17. CASE RefreshFindsIp(p)
      BY <2>17 DEF RefreshFindsIp, Update, HostInv, LaunchInv, DueInv,
                   Launching, KnowsHost, At
    <2>18. CASE Refreshed(p)
      BY SMTT(30), <2>18 DEF Refreshed, StartProbe, Finish, Idle, NoRow, AfterRefresh,
                   HostInv, LaunchInv, DueInv, Launching, KnowsHost, At, Wrote
    <2>19. CASE CancelSchedule(p)
      BY <2>19 DEF CancelSchedule, GoTo, Update, HostInv, LaunchInv, DueInv,
                   Launching, KnowsHost, At, Wrote
    <2>20. CASE TerminateHost(p)
      BY <2>20 DEF TerminateHost, Update, HostInv, LaunchInv, DueInv,
                   Launching, KnowsHost, At
    <2>21. CASE TerminateFails(p)
      BY <2>21 DEF TerminateFails, Update, HostInv, LaunchInv, DueInv,
                   Launching, KnowsHost, At
    <2>22. CASE GraderEnds(p)
      BY <2>22
         DEF GraderEnds, GraderAnswers, Update, HostInv, LaunchInv, DueInv,
             Launching,
                   KnowsHost, At
    <2>23. CASE DbFails(p)
      BY SMTT(30), <2>23 DEF DbFails, Update, Finish, Idle, NoRow, StartProbe,
                   AfterRefresh, HostInv, LaunchInv, DueInv, Launching,
                   KnowsHost, At
    <2>24. CASE ProbeReadFails(p)
      BY <2>24 DEF ProbeReadFails, Finish, Idle, NoRow, HostInv, LaunchInv,
                   DueInv, Launching, KnowsHost, At
    <2>. QED  BY <1>1, <2>1, <2>2, <2>3, <2>4, <2>5, <2>6, <2>7, <2>8, <2>9,
                 <2>10, <2>11, <2>12, <2>13, <2>14, <2>15, <2>16, <2>17, <2>18,
                 <2>19, <2>20, <2>21, <2>22, <2>23, <2>24 DEF Step
  <1>2. ASSUME NEW p \in Procs, Arrive(p) PROVE LaunchInv'
    <2>1. CASE CreateSession(p)
      BY <2>1
         DEF CreateSession, InsertSession, NoRow, HostInv, LaunchInv, DueInv,
             Launching,
                  KnowsHost, At
    <2>2. CASE HostReady(p)
      BY <2>2 DEF HostReady, Admit, NoRow, HostInv, LaunchInv, DueInv,
                  Launching, KnowsHost, At
    <2>3. CASE Poll(p)
      BY SMTT(30), <2>3 DEF Poll, StartProbe, Finish, Idle, NoRow, Admit, NeedsIps,
                  ShouldProbe, HostInv, LaunchInv, DueInv, Launching,
                  KnowsHost, At
    <2>4. CASE LearnerStops(p)
      BY <2>4 DEF LearnerStops, Admit, NoRow, BeginShutdown, ShutdownAdmits,
                  HostInv, LaunchInv, DueInv, Launching, KnowsHost, At
    <2>5. CASE WatcherPosts(p)
      BY <2>5 DEF WatcherPosts, Admit, NoRow, BeginShutdown, ShutdownAdmits,
                  HostInv, LaunchInv, DueInv, Launching, KnowsHost, At
    <2>6. CASE Grade(p)
      BY <2>6 DEF Grade, Admit, NoRow, GradeAdmits, HostInv, LaunchInv, DueInv,
                  Launching, KnowsHost, At
    <2>7. ASSUME NEW k \in Triggers, LambdaNotifies(k, p) PROVE LaunchInv'
      BY <2>7 DEF LambdaNotifies, BeginShutdown, ShutdownAdmits, Admit, NoRow,
                  HostInv, LaunchInv, DueInv, Launching, KnowsHost, At
    <2>. QED  BY <1>2, <2>1, <2>2, <2>3, <2>4, <2>5, <2>6, <2>7 DEF Arrive
  <1>3. CASE Aws
    <2>1. CASE Expire
      BY <2>1 DEF Expire, HostInv, LaunchInv, DueInv, Launching, KnowsHost, At
    <2>2. CASE ScheduleFires
      BY <2>2 DEF ScheduleFires, HostInv, LaunchInv, DueInv, Launching,
                  KnowsHost, At
    <2>3. CASE Sweep
      BY <2>3 DEF Sweep, HostInv, LaunchInv, DueInv, Launching, KnowsHost, At
    <2>4. ASSUME NEW k \in Triggers, LambdaTerminates(k) PROVE LaunchInv'
      BY <2>4 DEF LambdaTerminates, HostInv, LaunchInv, DueInv, Launching,
                  KnowsHost, At
    <2>5. ASSUME NEW k \in Triggers, LambdaTerminateFails(k) PROVE LaunchInv'
      BY <2>5 DEF LambdaTerminateFails, HostInv, LaunchInv, DueInv, Launching,
                  KnowsHost, At
    <2>6. ASSUME NEW k \in Triggers, LambdaNotifyLost(k) PROVE LaunchInv'
      BY <2>6 DEF LambdaNotifyLost, HostInv, LaunchInv, DueInv, Launching,
                  KnowsHost, At
    <2>. QED  BY <1>3, <2>1, <2>2, <2>3, <2>4, <2>5, <2>6 DEF Aws
  <1>4. CASE HostReadyLost
    BY <1>4 DEF HostReadyLost, HostInv, LaunchInv, DueInv, Launching,
                KnowsHost, At
  <1>5. CASE Crash
    BY <1>5 DEF Crash, Idle, NoRow, HostInv, LaunchInv, DueInv, Launching,
                KnowsHost, At
  <1>6. CASE UNCHANGED vars
    BY <1>6 DEF vars, HostInv, LaunchInv, DueInv, Launching, KnowsHost, At
  <1>. QED  BY <1>1, <1>2, <1>3, <1>4, <1>5, <1>6 DEF Next

\* Every step keeps those who may terminate the host entitled to it.
LEMMA DueStep ==
  ASSUME TypeOK, HostInv, [Next]_vars
  PROVE  DueInv'
  <1>. USE DEF TypeOK, Requests, awsVars, history
  <1>1. ASSUME NEW p \in Procs, Step(p) PROVE DueInv'
    <2>1. CASE UpdateRead(p)
      BY <2>1 DEF UpdateRead, HostInv, LaunchInv, DueInv, Launching, At
    <2>2. CASE UpdateWrite(p)
      BY <2>2, AfterWriteParts, IdleParts DEF UpdateWrite, Patched, HostInv,
                                              LaunchInv, DueInv, Launching, At
    <2>3. CASE Prepared(p)
      BY <2>3 DEF Prepared, GoTo, HostInv, LaunchInv, DueInv, Launching, At
    <2>4. CASE PrepareFails(p)
      BY <2>4 DEF PrepareFails, Update, HostInv, LaunchInv, DueInv, Launching,
                  At
    <2>5. CASE Launch(p)
      BY <2>5 DEF Launch, GoTo, HostInv, LaunchInv, DueInv, Launching, At
    <2>6. CASE LaunchFails(p)
      BY <2>6 DEF LaunchFails, Update, HostInv, LaunchInv, DueInv, Launching,
                  At
    <2>7. CASE IpsAwaited(p)
      BY <2>7 DEF IpsAwaited, HostInv, LaunchInv, DueInv, Launching, At
    <2>8. CASE ScheduleTermination(p)
      BY <2>8 DEF ScheduleTermination, GoTo, HostInv, LaunchInv, DueInv,
                  Launching, At
    <2>9. CASE CreateReturns(p)
      BY <2>9 DEF CreateReturns, Finish, Idle, NoRow, HostInv, LaunchInv,
                  DueInv, Launching, At, Wrote
    <2>10. CASE MarkReady(p)
      BY <2>10 DEF MarkReady, GoTo, HostInv, LaunchInv, DueInv, Launching, At
    <2>11. CASE CallbackDone(p)
      BY <2>11 DEF CallbackDone, StartProbe, Finish, Idle, NoRow, HostInv,
                   LaunchInv, DueInv, Launching, At, Wrote
    <2>12. CASE ProbeRead(p)
      BY <2>12 DEF ProbeRead, Finish, Idle, NoRow, FinalizeAdmits, HostInv,
                   LaunchInv, DueInv, Launching, At
    <2>13. CASE ProbeSucceeds(p)
      BY <2>13 DEF ProbeSucceeds, Update, HostInv, LaunchInv, DueInv,
                   Launching, At
    <2>14. CASE ProbeFails(p)
      BY <2>14 DEF ProbeFails, Update, HostInv, LaunchInv, DueInv, Launching,
                   At
    <2>15. CASE ProbeReleased(p)
      BY <2>15 DEF ProbeReleased, Finish, Idle, NoRow, HostInv, LaunchInv,
                   DueInv, Launching, At, Wrote
    <2>16. CASE RefreshFindsNoIp(p)
      BY <2>16 DEF RefreshFindsNoIp, StartProbe, Finish, Idle, NoRow,
                   AfterRefresh, HostInv, LaunchInv, DueInv, Launching, At
    <2>17. CASE RefreshFindsIp(p)
      BY <2>17 DEF RefreshFindsIp, Update, HostInv, LaunchInv, DueInv,
                   Launching, At
    <2>18. CASE Refreshed(p)
      BY <2>18 DEF Refreshed, StartProbe, Finish, Idle, NoRow, AfterRefresh,
                   HostInv, LaunchInv, DueInv, Launching, At, Wrote
    <2>19. CASE CancelSchedule(p)
      BY <2>19 DEF CancelSchedule, GoTo, Update, HostInv, LaunchInv, DueInv,
                   Launching, At, Wrote
    <2>20. CASE TerminateHost(p)
      BY <2>20 DEF TerminateHost, Update, HostInv, LaunchInv, DueInv,
                   Launching, At
    <2>21. CASE TerminateFails(p)
      BY <2>21 DEF TerminateFails, Update, HostInv, LaunchInv, DueInv,
                   Launching, At
    <2>22. CASE GraderEnds(p)
      BY <2>22
         DEF GraderEnds, GraderAnswers, Update, HostInv, LaunchInv, DueInv,
             Launching,
                   At
    <2>23. CASE DbFails(p)
      BY <2>23 DEF DbFails, Update, Finish, Idle, NoRow, StartProbe,
                   AfterRefresh, HostInv, LaunchInv, DueInv, Launching, At
    <2>24. CASE ProbeReadFails(p)
      BY <2>24 DEF ProbeReadFails, Finish, Idle, NoRow, HostInv, LaunchInv,
                   DueInv, Launching, At
    <2>. QED  BY <1>1, <2>1, <2>2, <2>3, <2>4, <2>5, <2>6, <2>7, <2>8, <2>9,
                 <2>10, <2>11, <2>12, <2>13, <2>14, <2>15, <2>16, <2>17, <2>18,
                 <2>19, <2>20, <2>21, <2>22, <2>23, <2>24 DEF Step
  <1>2. ASSUME NEW p \in Procs, Arrive(p) PROVE DueInv'
    <2>1. CASE CreateSession(p)
      BY <2>1
         DEF CreateSession, InsertSession, NoRow, HostInv, LaunchInv, DueInv,
             Launching,
                  At
    <2>2. CASE HostReady(p)
      BY <2>2 DEF HostReady, Admit, NoRow, HostInv, LaunchInv, DueInv,
                  Launching, At
    <2>3. CASE Poll(p)
      BY <2>3 DEF Poll, StartProbe, Finish, Idle, NoRow, Admit, NeedsIps,
                  ShouldProbe, HostInv, LaunchInv, DueInv, Launching, At
    <2>4. CASE LearnerStops(p)
      BY <2>4 DEF LearnerStops, Admit, NoRow, BeginShutdown, ShutdownAdmits,
                  HostInv, LaunchInv, DueInv, Launching, At
    <2>5. CASE WatcherPosts(p)
      BY <2>5 DEF WatcherPosts, Admit, NoRow, BeginShutdown, ShutdownAdmits,
                  HostInv, LaunchInv, DueInv, Launching, At
    <2>6. CASE Grade(p)
      BY <2>6 DEF Grade, Admit, NoRow, GradeAdmits, HostInv, LaunchInv, DueInv,
                  Launching, At
    <2>7. ASSUME NEW k \in Triggers, LambdaNotifies(k, p) PROVE DueInv'
      BY <2>7 DEF LambdaNotifies, BeginShutdown, ShutdownAdmits, Admit, NoRow,
                  HostInv, LaunchInv, DueInv, Launching, At
    <2>. QED  BY <1>2, <2>1, <2>2, <2>3, <2>4, <2>5, <2>6, <2>7 DEF Arrive
  <1>3. CASE Aws
    <2>1. CASE Expire
      BY <2>1 DEF Expire, HostInv, LaunchInv, DueInv, Launching, At
    <2>2. CASE ScheduleFires
      BY <2>2 DEF ScheduleFires, HostInv, LaunchInv, DueInv, Launching, At
    <2>3. CASE Sweep
      BY <2>3 DEF Sweep, SweepPicks, HostInv, LaunchInv, DueInv, Launching, At
    <2>4. ASSUME NEW k \in Triggers, LambdaTerminates(k) PROVE DueInv'
      BY <2>4 DEF LambdaTerminates, HostInv, LaunchInv, DueInv, Launching, At
    <2>5. ASSUME NEW k \in Triggers, LambdaTerminateFails(k) PROVE DueInv'
      BY <2>5 DEF LambdaTerminateFails, HostInv, LaunchInv, DueInv, Launching,
                  At
    <2>6. ASSUME NEW k \in Triggers, LambdaNotifyLost(k) PROVE DueInv'
      BY <2>6 DEF LambdaNotifyLost, HostInv, LaunchInv, DueInv, Launching, At
    <2>. QED  BY <1>3, <2>1, <2>2, <2>3, <2>4, <2>5, <2>6 DEF Aws
  <1>4. CASE HostReadyLost
    BY <1>4 DEF HostReadyLost, HostInv, LaunchInv, DueInv, Launching, At
  <1>5. CASE Crash
    BY <1>5 DEF Crash, Idle, NoRow, HostInv, LaunchInv, DueInv, Launching, At
  <1>6. CASE UNCHANGED vars
    BY <1>6 DEF vars, HostInv, LaunchInv, DueInv, Launching, At
  <1>. QED  BY <1>1, <1>2, <1>3, <1>4, <1>5, <1>6 DEF Next

\* What the refinement needs of the host holds throughout.
LEMMA HostInvariant == Spec => []HostInv
  <1>1. Init => HostInv
    BY SlotsInit, IdleParts
    DEF Init, HostInv, LaunchInv, DueInv, Launching, KnowsHost, At
  <1>2. ASSUME TypeOK, HostInv, [Next]_vars PROVE HostInv'
    BY <1>2, LaunchStep, DueStep DEF HostInv
  <1>. QED  BY <1>1, <1>2, TypeCorrect, PTL DEF Spec

(***************************************************************************)
(* The terminator reports a host as down only when it is.                  *)
(***************************************************************************)
THEOREM ReportsAreTrue == Spec => []NotifiedOnlyAfterGone
  <1>1. HostInv => NotifiedOnlyAfterGone
    BY DEF HostInv, DueInv, NotifiedOnlyAfterGone
  <1>. QED  BY <1>1, HostInvariant, PTL

\* What takes a host down, launches it or makes it due; nothing else does.
LEMMA HostStep ==
  ASSUME [Next]_vars
  PROVE  \/ UNCHANGED <<ec2, asked, expired>>
         \/ \E p \in Procs :
              \/ Launch(p) \/ LaunchFails(p) \/ TerminateHost(p)
              \/ LearnerStops(p) \/ WatcherPosts(p)
              \/ \E k \in Triggers : LambdaNotifies(k, p)
         \/ Expire
         \/ \E k \in Triggers : LambdaTerminates(k)
  <1>. USE DEF awsVars, history
  <1>1. ASSUME NEW p \in Procs, Step(p),
               ~Launch(p), ~LaunchFails(p), ~TerminateHost(p)
        PROVE  UNCHANGED <<ec2, asked, expired>>
    BY <1>1 DEF Step, UpdateRead, UpdateWrite, Prepared, PrepareFails,
                IpsAwaited, ScheduleTermination, CreateReturns, MarkReady,
                CallbackDone, ProbeRead, ProbeSucceeds, ProbeFails,
                ProbeReleased, RefreshFindsNoIp, RefreshFindsIp, Refreshed,
                CancelSchedule, TerminateFails, GraderEnds, GraderAnswers,
                DbFails,
                ProbeReadFails
  <1>2. ASSUME NEW p \in Procs, Arrive(p), ~LearnerStops(p), ~WatcherPosts(p),
               \A k \in Triggers : ~LambdaNotifies(k, p)
        PROVE  UNCHANGED <<ec2, asked, expired>>
    BY <1>2 DEF Arrive, CreateSession, InsertSession, HostReady, Poll, Grade
  <1>3. ASSUME Aws, ~Expire, \A k \in Triggers : ~LambdaTerminates(k)
        PROVE  UNCHANGED <<ec2, asked, expired>>
    BY <1>3 DEF Aws, ScheduleFires, Sweep, LambdaTerminateFails,
                LambdaNotifyLost
  <1>. QED  BY <1>1, <1>2, <1>3 DEF Next, HostReadyLost, Crash, vars

\* Each of those is a step of the teardown design, or none at all to it.
LEMMA TeardownStep ==
  ASSUME TypeOK, HostInv, [Next]_vars
  PROVE  [Teardown!Next]_(Teardown!vars)
  <1>. USE DEF TypeOK, awsVars, history, Teardown!Next, Teardown!vars,
               Teardown!Launch, Teardown!BecomeDue, Teardown!TakeDown
  <1>1. ASSUME NEW p \in Procs, Launch(p) \/ LaunchFails(p)
        PROVE  [Teardown!Next]_(Teardown!vars)
    <2>1. ec2 = "none"
      BY <1>1 DEF HostInv, LaunchInv, Launching, Launch, LaunchFails, At
    <2>. QED  BY <1>1, <2>1 DEF Launch, LaunchFails
  <1>2. ASSUME NEW p \in Procs, TerminateHost(p)
        PROVE  [Teardown!Next]_(Teardown!vars)
    <2>1. asked /\ ec2 # "none"
      BY <1>2 DEF HostInv, LaunchInv, DueInv, KnowsHost, TerminateHost, At
    <2>. QED  BY <1>2, <2>1 DEF TerminateHost
  <1>3. ASSUME NEW p \in Procs,
               LearnerStops(p) \/ WatcherPosts(p)
                 \/ \E k \in Triggers : LambdaNotifies(k, p)
        PROVE  [Teardown!Next]_(Teardown!vars)
    BY <1>3 DEF LearnerStops, WatcherPosts, LambdaNotifies, BeginShutdown
  <1>4. CASE Expire
    BY <1>4 DEF Expire
  <1>5. ASSUME NEW k \in Triggers, LambdaTerminates(k)
        PROVE  [Teardown!Next]_(Teardown!vars)
    <2>1. expired /\ ec2 # "none"
      BY <1>5 DEF HostInv, LaunchInv, DueInv, LambdaTerminates
    <2>. QED  BY <1>5, <2>1 DEF LambdaTerminates
  <1>6. CASE UNCHANGED <<ec2, asked, expired>>
    BY <1>6
  <1>. QED  BY <1>1, <1>2, <1>3, <1>4, <1>5, <1>6, HostStep

(***************************************************************************)
(* The code implements the teardown design's safety: one launch, and no    *)
(* host taken down before a stop was asked for or its lifetime was over.   *)
(***************************************************************************)
THEOREM HostTakenDownOnlyWhenDue == Spec => TeardownSafety
  <1>1. Init => Teardown!Init
    BY DEF Init, Teardown!Init
  <1>. QED  BY <1>1, TeardownStep, TypeCorrect, HostInvariant, PTL
            DEF Spec, TeardownSafety, Teardown!Safety

(***************************************************************************)
(* The promise                                                             *)
(***************************************************************************)

\* SweepFairness with the guards of its actions written out, since an
\* enabling condition cannot be reasoned about here: each of the three
\* actions changes the state, so it is enabled exactly under its guard.
CanExpire == ec2 # "none" /\ ~expired

SweepCanRun == lambda["sweep"] = "idle" /\ SweepPicks

CanTerminate == lambda["sweep"] = "terminate"

TimePasses == []<>~CanExpire \/ []<><<Expire>>_vars

SweepKeepsRunning == []<>~SweepCanRun \/ []<><<Sweep>>_vars

TerminationComesThrough ==
  []<>CanTerminate => []<><<LambdaTerminates("sweep")>>_vars

\* A host that is up stays up until it is gone, and an expiry is final.
LEMMA HostMoves ==
  ASSUME TypeOK, HostInv, [Next]_vars, ec2 # "none"
  PROVE  /\ ec2' # "none"
         /\ ec2 = "gone" => ec2' = "gone"
         /\ expired => expired'
  <1>. USE DEF awsVars, history
  <1>1. ASSUME NEW p \in Procs, Launch(p) \/ LaunchFails(p)  PROVE FALSE
    BY <1>1 DEF HostInv, LaunchInv, Launching, Launch, LaunchFails, At
  <1>2. ASSUME NEW p \in Procs, TerminateHost(p)
        PROVE  ec2' = "gone" /\ expired' = expired
    BY <1>2 DEF TerminateHost
  <1>3. ASSUME NEW p \in Procs, LearnerStops(p) \/ WatcherPosts(p)
                 \/ \E k \in Triggers : LambdaNotifies(k, p)
        PROVE  UNCHANGED <<ec2, expired>>
    BY <1>3 DEF LearnerStops, WatcherPosts, LambdaNotifies
  <1>4. CASE Expire  BY <1>4 DEF Expire
  <1>5. ASSUME NEW k \in Triggers, LambdaTerminates(k)
        PROVE  ec2' = "gone" /\ expired' = expired
    BY <1>5 DEF LambdaTerminates
  <1>. QED  BY <1>1, <1>2, <1>3, <1>4, <1>5, HostStep

\* The sweep's run waits for its callback only once the host is gone: while
\* a host whose lifetime is over is up, it may run or is at the termination.
LEMMA SweepIsNear ==
  ASSUME TypeOK, HostInv, "sweep" \in Triggers, ec2 = "up", expired
  PROVE  SweepCanRun \/ CanTerminate
  <1>1. lambda["sweep"] \in {"idle", "terminate", "notify"}
    BY DEF TypeOK
  <1>2. lambda["sweep"] # "notify"
    BY DEF HostInv, DueInv
  <1>. QED  BY <1>1, <1>2 DEF SweepCanRun, CanTerminate, SweepPicks

(***************************************************************************)
(* Every host is taken down in the end, through crashes, lost posts and    *)
(* failing calls, if time passes, the sweep keeps running and its          *)
(* TerminateInstances does not fail for ever: the fairness of the teardown *)
(* design (TeardownPromise), of which nothing is asked of the web task.    *)
(***************************************************************************)
THEOREM EveryHostIsTakenDown ==
  ASSUME "sweep" \in Triggers
  PROVE  Spec /\ TimePasses /\ SweepKeepsRunning /\ TerminationComesThrough
           => (ec2 = "up" ~> ec2 = "gone")
<1>. DEFINE Up == ec2 = "up"
            Gone == ec2 = "gone"
            There == ec2 # "none"
            Inv == TypeOK /\ HostInv
<1>1. Inv => (There <=> Up \/ Gone) /\ ~(Up /\ Gone)
  BY DEF TypeOK
<1>2. Inv /\ There /\ [Next]_vars => There'
  BY HostMoves
<1>3. Inv /\ There /\ expired /\ [Next]_vars => expired'
  BY HostMoves
<1>4. There /\ ~expired => CanExpire
  BY DEF CanExpire
<1>5. <<Expire>>_vars => expired'
  BY DEF Expire
<1>6. Inv /\ Up /\ expired => SweepCanRun \/ CanTerminate
  BY SweepIsNear
<1>7. Inv /\ <<Sweep>>_vars => CanTerminate'
  BY DEF Sweep, TypeOK, CanTerminate
<1>8. <<LambdaTerminates("sweep")>>_vars => Gone'
  BY DEF LambdaTerminates
<1>9. Spec => []Inv
  BY TypeCorrect, HostInvariant, PTL
<1>10. Inv /\ Gone /\ [Next]_vars => Gone'
  BY HostMoves
<1>. HIDE DEF Up, Gone, There, Inv
<1>11. Spec /\ TimePasses /\ SweepKeepsRunning /\ TerminationComesThrough
         => (Up ~> Gone)
  BY <1>1, <1>2, <1>3, <1>4, <1>5, <1>6, <1>7, <1>8, <1>9, <1>10, PTL
     DEF Spec, TimePasses, SweepKeepsRunning, TerminationComesThrough
<1>. QED  BY <1>11 DEF Up, Gone

=============================================================================
