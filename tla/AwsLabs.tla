------------------------------ MODULE AwsLabs ------------------------------
(***************************************************************************)
(* The AWS sessions of one learner: POST /api/sessions with its cap, the   *)
(* preparation of web/lib/aws-lab-manager.ts step by step, the launch, and *)
(* what frees the cap again.  The candidate's credentials act on the       *)
(* resources the janitor cleans up (Janitor).  Of a session's status only  *)
(* that it counts against the cap is kept; SessionLifecycle has the rest,  *)
(* and its stop, shutdown and grade are single steps here.                 *)
(***************************************************************************)
EXTENDS Janitor

CONSTANTS
  Sessions,   \* the sessions the learner asks for, each once
  Cap         \* OPSCOACH_MAX_ACTIVE_SESSIONS_PER_USER

ASSUME CapAssumption ==
  /\ IsFiniteSet(Sessions)
  /\ Cap \in Nat \ {0}

VARIABLES
  wanted,   \* the sessions the learner will ask for
  req,      \* how far the POST of each session is
  row,      \* its row: none, or whether it counts
  files,    \* what of its AWS files is on the task's disk
  cred,     \* its credentials of the candidate role
  host,     \* its lab host is up
  token,    \* the learner's tab has its token
  grading,  \* a grade of it is running
  fault,    \* history: the sessions that met with a fault
  beside,   \* history: the sessions admitted while another POST was
  revived   \* history: the sessions brought back after they were stopped

labVars ==
  <<wanted, req, row, files, cred, host, token, grading, fault, beside,
    revived>>
vars == <<janitorVars, labVars>>
given == <<janitorVars, wanted>>

-----------------------------------------------------------------------------

PrepareSteps == {"stacks", "role", "starter", "files"}

InFlight == {"admitted", "launching", "failing"} \cup PrepareSteps

\* In the order they are written.
FileOrder == <<"credentials", "workspace", "metadata", "resource_map">>

AllFiles == {FileOrder[i] : i \in DOMAIN FileOrder}

Prefixes == {{FileOrder[j] : j \in 1..i} : i \in 0..(Len(FileOrder) - 1)}

TypeOK ==
  /\ JanitorTypeOK
  /\ wanted \subseteq Sessions
  /\ req \in [Sessions -> InFlight \cup
                {"unasked", "refused", "answered", "lost"}]
  /\ row \in [Sessions -> {"none", "active", "failed", "stopped"}]
  /\ files \in [Sessions -> SUBSET AllFiles]
  /\ cred \in [Sessions -> {"none", "live", "expired"}]
  /\ host \in [Sessions -> BOOLEAN]
  /\ token \in [Sessions -> BOOLEAN]
  /\ grading \subseteq Sessions
  /\ fault \subseteq Sessions
  /\ beside \subseteq Sessions
  /\ revived \subseteq Sessions

Init ==
  /\ JanitorInit
  /\ wanted \in SUBSET Sessions
  /\ req = [s \in Sessions |-> "unasked"]
  /\ row = [s \in Sessions |-> "none"]
  /\ files = [s \in Sessions |-> {}]
  /\ cred = [s \in Sessions |-> "none"]
  /\ host = [s \in Sessions |-> FALSE]
  /\ token = [s \in Sessions |-> FALSE]
  /\ grading = {}
  /\ fault = {}
  /\ beside = {}
  /\ revived = {}

-----------------------------------------------------------------------------
(* POST /api/sessions *)

\* countActiveSessionsForOwner
Active == {s \in Sessions : row[s] = "active"}

Admitted == {s \in Sessions : req[s] = "admitted"}

\* Mutant of Admits: one too many.
AdmitsAtCap == Cardinality(Active) <= Cap

Admits == Cardinality(Active) < Cap

Goto(s, step) == req' = [req EXCEPT ![s] = step]

Post(s) ==
  /\ s \in wanted /\ req[s] = "unasked"
  /\ Goto(s, IF Admits THEN "admitted" ELSE "refused")
  /\ beside' = IF Admitted = {} THEN beside ELSE beside \cup {s}
  /\ UNCHANGED <<given, row, files, cred, host, token, grading, fault, revived>>

Insert(s) ==
  /\ req[s] = "admitted"
  /\ Goto(s, "stacks")
  /\ row' = [row EXCEPT ![s] = "active"]
  /\ UNCHANGED <<given, files, cred, host, token, grading, fault, beside,
                 revived>>

InsertFails(s) ==
  /\ req[s] = "admitted"
  /\ Goto(s, "lost")
  /\ UNCHANGED <<given, row, files, cred, host, token, grading, fault, beside,
                 revived>>

-----------------------------------------------------------------------------
(* prepareAwsSession *)

\* Both stacks' outputs, and the two role names in them.
StackOutputs(s) ==
  /\ req[s] = "stacks"
  /\ Goto(s, "role")
  /\ UNCHANGED <<given, row, files, cred, host, token, grading, fault, beside,
                 revived>>

AssumeRole(s) ==
  /\ req[s] = "role"
  /\ Goto(s, "starter")
  /\ cred' = [cred EXCEPT ![s] = "live"]
  /\ UNCHANGED <<given, row, files, host, token, grading, fault, beside,
                 revived>>

FindStarterFiles(s) ==
  /\ req[s] = "starter"
  /\ Goto(s, "files")
  /\ UNCHANGED <<given, row, files, cred, host, token, grading, fault, beside,
                 revived>>

\* Three directories made anew, and all that goes into them.
WriteFiles(s) ==
  /\ req[s] = "files"
  /\ Goto(s, "launching")
  /\ files' = [files EXCEPT ![s] = AllFiles]
  /\ UNCHANGED <<given, row, cred, host, token, grading, fault, beside,
                 revived>>

\* An AwsLabManagerError or any other, with what is written by then.
PrepareFails(s) ==
  /\ req[s] \in PrepareSteps
  /\ Goto(s, "failing")
  /\ \/ UNCHANGED files
     \/ /\ req[s] = "files"
        /\ \E w \in Prefixes : files' = [files EXCEPT ![s] = w]
  /\ UNCHANGED <<given, row, cred, host, token, grading, fault, beside,
                 revived>>

-----------------------------------------------------------------------------
(* The rest of createSession *)

Launch(s) ==
  /\ req[s] = "launching"
  /\ Goto(s, "answered")
  /\ host' = [host EXCEPT ![s] = TRUE]
  /\ token' = [token EXCEPT ![s] = TRUE]
  /\ UNCHANGED <<given, row, files, cred, grading, fault, beside, revived>>

LaunchFails(s) ==
  /\ req[s] = "launching"
  /\ Goto(s, "failing")
  /\ UNCHANGED <<given, row, files, cred, host, token, grading, fault, beside,
                 revived>>

\* Mutant of MarkFailed: the failure is recorded, and the code goes on.
MarkFailedGoesOn(s) ==
  /\ req[s] = "failing"
  /\ Goto(s, "launching")
  /\ row' = [row EXCEPT ![s] = "failed"]
  /\ UNCHANGED <<given, files, cred, host, token, grading, fault, beside,
                 revived>>

\* The catch: the row says so, and so does the answer, whose token the
\* page throws away.
MarkFailed(s) ==
  /\ req[s] = "failing"
  /\ Goto(s, "answered")
  /\ row' = [row EXCEPT ![s] = "failed"]
  /\ UNCHANGED <<given, files, cred, host, token, grading, fault, beside,
                 revived>>

\* The update in the catch is rejected: a 500, and the row stays.
MarkFails(s) ==
  /\ req[s] = "failing"
  /\ Goto(s, "lost")
  /\ fault' = fault \cup {s}
  /\ UNCHANGED <<given, row, files, cred, host, token, grading, beside,
                 revived>>

-----------------------------------------------------------------------------
(* What comes after *)

TabCloses(s) ==
  /\ token[s]
  /\ token' = [token EXCEPT ![s] = FALSE]
  /\ UNCHANGED <<given, req, row, files, cred, host, grading, fault, beside,
                 revived>>

Stop(s) ==
  /\ token[s]
  /\ row[s] = "active"
  /\ row' = [row EXCEPT ![s] = "stopped"]
  /\ host' = [host EXCEPT ![s] = FALSE]
  /\ UNCHANGED <<given, req, files, cred, token, grading, fault, beside,
                 revived>>

\* Mutant of Sweep: a host that was swept is not reported.
SweepSilently(s) ==
  /\ host[s]
  /\ host' = [host EXCEPT ![s] = FALSE]
  /\ UNCHANGED <<given, req, row, files, cred, token, grading, fault, beside,
                 revived>>

\* The watcher or the Lambda: the host is down, and the row is told.
Sweep(s) ==
  /\ host[s]
  /\ host' = [host EXCEPT ![s] = FALSE]
  /\ row' = [row EXCEPT ![s] = IF @ = "active" THEN "stopped" ELSE @]
  /\ UNCHANGED <<given, req, files, cred, token, grading, fault, beside,
                 revived>>

\* The one callback there is gets lost.
SweepLost(s) ==
  /\ host[s]
  /\ host' = [host EXCEPT ![s] = FALSE]
  /\ fault' = fault \cup {s}
  /\ UNCHANGED <<given, req, row, files, cred, token, grading, beside, revived>>

Grade(s) ==
  /\ token[s]
  /\ row[s] = "active"
  /\ grading' = grading \cup {s}
  /\ UNCHANGED <<given, req, row, files, cred, host, token, fault, beside,
                 revived>>

\* Its last write says ready, whatever the row says by then.
GradeEnds(s) ==
  /\ s \in grading
  /\ grading' = grading \ {s}
  /\ row' = [row EXCEPT ![s] = "active"]
  /\ LET back == IF row[s] = "active" THEN {} ELSE {s}
     IN fault' = fault \cup back /\ revived' = revived \cup back
  /\ UNCHANGED <<given, req, files, cred, host, token, beside>>

CredentialsExpire(s) ==
  /\ cred[s] = "live"
  /\ cred' = [cred EXCEPT ![s] = "expired"]
  /\ UNCHANGED <<given, req, row, files, host, token, grading, fault, beside,
                 revived>>

\* A step of the lab: the alarm every solution needs.
PutMetricAlarm(s) ==
  /\ cred[s] = "live" /\ host[s]
  /\ "alarm" \in Resources \ present
  /\ present' = present \cup {"alarm"}
  /\ UNCHANGED <<nights, expired, renewals, run, labVars>>

\* The task is replaced: no request goes on, and its disk is gone.
Crash ==
  LET cut == {s \in Sessions : req[s] \in InFlight}
  IN /\ req' = [s \in Sessions |-> IF s \in cut THEN "lost" ELSE req[s]]
     /\ files' = [s \in Sessions |-> {}]
     /\ grading' = {}
     /\ fault' = fault \cup cut
     /\ UNCHANGED <<given, row, cred, host, token, beside, revived>>

-----------------------------------------------------------------------------

Create(s) ==
  \/ Insert(s) \/ InsertFails(s)
  \/ StackOutputs(s) \/ AssumeRole(s) \/ FindStarterFiles(s) \/ WriteFiles(s)
  \/ PrepareFails(s) \/ Launch(s) \/ LaunchFails(s)
  \/ MarkFailed(s) \/ MarkFails(s)

Learner(s) ==
  Post(s) \/ TabCloses(s) \/ Stop(s) \/ Grade(s) \/ PutMetricAlarm(s)

Ends(s) ==
  Sweep(s) \/ SweepLost(s) \/ GradeEnds(s) \/ CredentialsExpire(s)

Janitor == JanitorNext /\ UNCHANGED labVars

Next ==
  \/ \E s \in Sessions : Create(s) \/ Learner(s) \/ Ends(s)
  \/ Janitor \/ Crash

Spec == Init /\ [][Next]_vars

(***************************************************************************)
(* A request goes on, a host does not outlive its lifetime, a janitor run  *)
(* comes to its end, and again and again there is a night on which AWS     *)
(* answers every call it can.  Nothing is promised of the learner.         *)
(***************************************************************************)
Fairness ==
  /\ \A s \in Sessions : WF_vars(Create(s)) /\ WF_vars(Sweep(s) \/ SweepLost(s))
  /\ WF_vars(RunSteps /\ UNCHANGED labVars)
  /\ SF_vars(RunStarts("sound") /\ UNCHANGED labVars)

FairSpec == Spec /\ Fairness

-----------------------------------------------------------------------------
(* Properties *)

(***************************************************************************)
(* The cap is checked before the row is inserted, with nothing in between  *)
(* to hold it.  Past it get only the sessions of POSTs that were admitted  *)
(* beside another, and those a late write brought back after their stop.   *)
(***************************************************************************)
CapHolds ==
  Cardinality((Active \cup Admitted) \ (beside \cup revived)) <= Cap

(***************************************************************************)
(* A lab host is launched only for a session whose AWS preparation went    *)
(* through to its last file, none of which has been lost since.            *)
(***************************************************************************)
HostOnlyForPrepared ==
  [][\A s \in Sessions : ~host[s] /\ host'[s] =>
       files[s] = AllFiles /\ row[s] = "active"]_vars

(***************************************************************************)
(* A session stops counting against the cap in the end, whatever becomes   *)
(* of its preparation and whatever its learner does, unless the task was   *)
(* replaced under it, a query or a callback failed, or a late grade        *)
(* brought it back.                                                        *)
(***************************************************************************)
SlotComesBack ==
  \A s \in Sessions : row[s] = "active" ~> (row[s] # "active" \/ s \in fault)

(***************************************************************************)
(* A resource that is not expired goes only if the stack was deployed anew *)
(* after the run at work had read the old tags.                            *)
(***************************************************************************)
LiveGoesOnlyByStaleTags ==
  [][\A r \in present \ present' : expired \/ r \in run.stale]_vars

(***************************************************************************)
(* What has expired and can be deleted is cleaned up in the end, whatever  *)
(* else AWS keeps and however many runs break off, up to the first kind    *)
(* whose tags the janitor's role may not read, once there is one of it.    *)
(***************************************************************************)
BehindAlarm(r) == "alarm" \in present /\ KindOf(r) \in {"topic", "role"}

CleanedUnlessBehindAlarm ==
  \A r \in Scenario \ Kept :
    nights /\ expired /\ r \in present
      ~> (r \notin present \/ ~expired \/ BehindAlarm(r))

(***************************************************************************)
(* infra/AWS_SETUP_REVIEW.md:47: the cleanup function removes expired lab  *)
(* resources.                                                              *)
(***************************************************************************)
ExpiredAreCleaned ==
  \A r \in Scenario \ Kept :
    nights /\ expired /\ r \in present ~> (r \notin present \/ ~expired)
=============================================================================
