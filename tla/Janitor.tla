------------------------------ MODULE Janitor ------------------------------
(***************************************************************************)
(* The nightly janitor of the AWS lab account (infra/lib/janitor/          *)
(* handler.py) over the resources of the one scenario stack all AWS        *)
(* sessions share.  A run goes through seven kinds of resource in a fixed  *)
(* order and deletes what is tagged as expired.  A deletion that AWS       *)
(* refuses is recorded; nearly every other failure ends the whole run.     *)
(***************************************************************************)
EXTENDS Naturals, Sequences, FiniteSets

CONSTANTS
  Resources,   \* the resources looked at, of the ones the scenario has
  Kept,        \* the ones AWS never lets go: in use, or with policies attached
  MaxRenewals  \* bound: how often the operator deploys the stack anew

AllResources ==
  {"data_bucket", "trail_bucket", "group", "template", "trail", "alarm",
   "topic", "role"}

ASSUME ResourcesAssumption ==
  /\ Resources \subseteq AllResources
  /\ Resources # {}
  /\ Kept \subseteq Resources
  /\ MaxRenewals \in Nat

VARIABLES
  nights,    \* the account has a janitor (set once: platform-stack.ts)
  present,   \* the resources there are
  expired,   \* the stack's ExpiresAt has passed
  renewals,  \* how often the stack was deployed anew
  run        \* the janitor's run

janitorVars == <<nights, present, expired, renewals, run>>

-----------------------------------------------------------------------------

KindOf(r) == IF r \in {"data_bucket", "trail_bucket"} THEN "bucket" ELSE r

\* The order of a run; kinds of which nothing is looked at are left out.
OfKind(k) == IF \E r \in Resources : KindOf(r) = k THEN <<k>> ELSE <<>>

Kinds ==
  OfKind("bucket") \o OfKind("group") \o OfKind("template")
    \o OfKind("trail") \o OfKind("alarm") \o OfKind("topic")
    \o OfKind("role")

\* What the stack deploys and tags.  The alarm is the learner's work, and the
\* candidate's role may not tag it.
Scenario == Resources \ {"alarm"}

\* Kinds whose tags come with the listing.
TagsListed == {"group", "template"}

\* Kinds whose tags the janitor's role may read one by one.
TagsGranted == {"bucket", "trail", "topic", "role"}

\* at: 0, or the kind the run is at; todo: what is listed and not done with;
\* due: the part of it whose tags were read, and said expired; stale: history,
\* what was due when the stack was deployed anew.
\* Whether AWS calls may fail in a run is decided as it starts.
NoRun == [at |-> 0, mode |-> "none", listed |-> FALSE, todo |-> {},
          due |-> {}, stale |-> {}]

Runs ==
  [at: 0..Len(Kinds), mode: {"none", "dry", "sound", "faulty"},
   listed: BOOLEAN, todo: SUBSET Resources, due: SUBSET Resources,
   stale: SUBSET Resources]

JanitorTypeOK ==
  /\ nights \in BOOLEAN
  /\ present \subseteq Resources
  /\ expired \in BOOLEAN
  /\ renewals \in 0..MaxRenewals
  /\ run \in Runs
  /\ run.stale \subseteq run.due /\ run.due \subseteq run.todo

JanitorInit ==
  /\ nights \in BOOLEAN
  /\ present = Scenario
  /\ expired = FALSE
  /\ renewals = 0
  /\ run = NoRun

-----------------------------------------------------------------------------

\* The nightly schedule; or by hand, when a dry run is possible.
RunStarts(mode) ==
  /\ nights
  /\ run.at = 0
  /\ run' = [NoRun EXCEPT !.at = 1, !.mode = mode]
  /\ UNCHANGED <<nights, present, expired, renewals>>

Listed(k) == {r \in present : KindOf(r) = k}

List ==
  /\ run.at > 0 /\ ~run.listed
  /\ LET k == Kinds[run.at]
         found == IF k \in TagsListed /\ ~expired THEN {} ELSE Listed(k)
     IN run' = [run EXCEPT !.listed = TRUE, !.todo = found,
                           !.due = IF k \in TagsListed THEN found ELSE {}]
  /\ UNCHANGED <<nights, present, expired, renewals>>

Unread == run.todo \ run.due

\* Mutant of TagsSay: whatever carries an expiry is due.
TagsSayAnything(r) == r \in Scenario

\* is_expired: tagged by the stack, and past its time.
TagsSay(r) == r \in Scenario /\ expired

ReadTags(r) ==
  /\ r \in Unread
  /\ KindOf(r) \in TagsGranted
  /\ run' = IF TagsSay(r) THEN [run EXCEPT !.due = @ \cup {r}]
            ELSE [run EXCEPT !.todo = @ \ {r}]
  /\ UNCHANGED <<nights, present, expired, renewals>>

\* Mutant of Done: what was dealt with is still due.
DoneStillDue(r) == [run EXCEPT !.todo = @ \ {r}, !.stale = @ \ {r}]

Done(r) ==
  [run EXCEPT !.todo = @ \ {r}, !.due = @ \ {r}, !.stale = @ \ {r}]

\* A bucket whose tags cannot be read is left out.
SkipBucket(r) ==
  /\ run.mode # "sound"
  /\ r \in Unread /\ KindOf(r) = "bucket"
  /\ run' = Done(r)
  /\ UNCHANGED <<nights, present, expired, renewals>>

Delete(r) ==
  /\ r \in run.due \ Kept
  /\ run.mode # "dry"
  /\ present' = present \ {r}
  /\ run' = Done(r)
  /\ UNCHANGED <<nights, expired, renewals>>

MayRefuse(r) == run.mode # "sound" \/ r \in Kept

\* Mutant of Refused: the exception is not caught.
RefusedUncaught(r) ==
  /\ r \in run.due
  /\ MayRefuse(r)
  /\ run' = IF run.mode = "dry" THEN Done(r) ELSE NoRun
  /\ UNCHANGED <<nights, present, expired, renewals>>

\* record: AWS refuses, or nothing is to be deleted.
Refused(r) ==
  /\ r \in run.due
  /\ MayRefuse(r)
  /\ run' = Done(r)
  /\ UNCHANGED <<nights, present, expired, renewals>>

\* An exception nobody catches: a listing or a tag that cannot be read,
\* anything but a ClientError in a deletion, the Lambda's five minutes.
Aborts ==
  /\ run.at > 0
  /\ \/ run.mode # "sound"
     \/ \E r \in Unread : KindOf(r) \notin TagsGranted
  /\ run' = NoRun
  /\ UNCHANGED <<nights, present, expired, renewals>>

NextKind ==
  /\ run.at > 0 /\ run.listed /\ run.todo = {}
  /\ run' = IF run.at = Len(Kinds) THEN NoRun
            ELSE [run EXCEPT !.at = @ + 1, !.listed = FALSE]
  /\ UNCHANGED <<nights, present, expired, renewals>>

-----------------------------------------------------------------------------
(* The operator's stack *)

Expire ==
  /\ ~expired
  /\ expired' = TRUE
  /\ UNCHANGED <<nights, present, renewals, run>>

\* Deployed anew, with a later ExpiresAt.
Renew ==
  /\ renewals < MaxRenewals
  /\ renewals' = renewals + 1
  /\ expired' = FALSE
  /\ present' = present \cup Scenario
  /\ run' = [run EXCEPT !.stale = run.due]
  /\ UNCHANGED nights

-----------------------------------------------------------------------------

RunSteps ==
  \/ List \/ Aborts \/ NextKind
  \/ \E r \in Resources :
       ReadTags(r) \/ SkipBucket(r) \/ Delete(r) \/ Refused(r)

JanitorNext ==
  \/ \E mode \in {"dry", "sound", "faulty"} : RunStarts(mode)
  \/ RunSteps \/ Expire \/ Renew
=============================================================================
