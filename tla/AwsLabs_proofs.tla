--------------------------- MODULE AwsLabs_proofs ---------------------------
(***************************************************************************)
(* Proofs about AwsLabs for any number of sessions, any cap and any part   *)
(* of the scenario's resources: what the cap holds, what a lab host rests  *)
(* on, what the janitor deletes, and that a slot comes back.               *)
(***************************************************************************)
EXTENDS AwsLabs, FiniteSetTheorems, TLAPS

(***************************************************************************)
(* The janitor: what is due                                                *)
(***************************************************************************)

\* A run, as far as the argument looks at it.
RunRecords ==
  [at: Nat, mode: {"none", "dry", "sound", "faulty"}, listed: BOOLEAN,
   todo: SUBSET Resources, due: SUBSET Resources, stale: SUBSET Resources]

\* What is due was found expired, and has been renewed at most since.
DueInv ==
  /\ present \subseteq Resources
  /\ run \in RunRecords
  /\ \A r \in run.due : expired \/ r \in run.stale

\* A step of the janitor keeps that, and deletes only what is due.
LEMMA JanitorStep ==
  ASSUME DueInv, JanitorNext
  PROVE  DueInv' /\ present \ present' \subseteq run.due
  <1>. USE DEF DueInv, RunRecords
  <1>1. ASSUME NEW mode \in {"dry", "sound", "faulty"}, RunStarts(mode)
        PROVE  DueInv' /\ present' = present
    BY <1>1 DEF RunStarts, NoRun
  <1>2. CASE List
    <2>1. Listed(Kinds[run.at]) \subseteq Resources
      BY DEF Listed
    <2>2. /\ run'.at = run.at /\ run'.mode = run.mode
          /\ run'.listed /\ run'.stale = run.stale
          /\ run'.due = {} \/ expired
          /\ run'.todo \subseteq Resources /\ run'.due \subseteq Resources
          /\ run' \in RunRecords
      BY <1>2, <2>1 DEF List
    <2>. QED  BY <1>2, <2>2 DEF List
  <1>3. CASE Aborts  BY <1>3 DEF Aborts, NoRun
  <1>4. CASE NextKind
    <2>1. /\ \/ run' = NoRun
             \/ run' = [run EXCEPT !.at = @ + 1, !.listed = FALSE]
          /\ present' = present /\ expired' = expired
      BY <1>4, Zenon DEF NextKind
    <2>2. CASE run' = NoRun
      BY <2>1, <2>2 DEF NoRun
    <2>3. CASE run' = [run EXCEPT !.at = @ + 1, !.listed = FALSE]
      <3>1. run.at + 1 \in Nat  OBVIOUS
      <3>2. \A n \in Nat :
              /\ [run EXCEPT !.at = n, !.listed = FALSE] \in RunRecords
              /\ [run EXCEPT !.at = n, !.listed = FALSE].due = run.due
              /\ [run EXCEPT !.at = n, !.listed = FALSE].stale = run.stale
        OBVIOUS
      <3>3. run' \in RunRecords /\ run'.due = run.due /\ run'.stale = run.stale
        BY <2>3, <3>1, <3>2, Zenon
      <3>. QED  BY <2>1, <3>3
    <2>. QED  BY <2>1, <2>2, <2>3
  <1>5. ASSUME NEW r \in Resources, ReadTags(r)
        PROVE  DueInv' /\ present' = present
    BY <1>5 DEF ReadTags, Unread, TagsSay
  <1>6. ASSUME NEW r \in Resources, run' = Done(r), expired' = expired
        PROVE  /\ run' \in RunRecords
               /\ \A q \in run'.due : expired' \/ q \in run'.stale
    BY <1>6 DEF Done
  <1>7. ASSUME NEW r \in Resources, SkipBucket(r)
        PROVE  DueInv' /\ present' = present
    BY <1>6, <1>7 DEF SkipBucket
  <1>8. ASSUME NEW r \in Resources, Delete(r)
        PROVE  DueInv' /\ present \ present' \subseteq run.due
    BY <1>6, <1>8 DEF Delete
  <1>9. ASSUME NEW r \in Resources, Refused(r)
        PROVE  DueInv' /\ present' = present
    BY <1>6, <1>9 DEF Refused
  <1>10. CASE Expire  BY <1>10 DEF Expire
  <1>11. CASE Renew  BY <1>11 DEF Renew, Scenario
  <1>. QED
    BY <1>1, <1>2, <1>3, <1>4, <1>5, <1>7, <1>8, <1>9, <1>10, <1>11
       DEF JanitorNext, RunSteps, List, Aborts, NextKind, Expire

\* The sessions leave the janitor alone; one step of a lab adds a resource.
LEMMA LabsLeaveJanitor ==
  ASSUME \/ \E s \in Sessions : Create(s) \/ Learner(s) \/ Ends(s)
         \/ Crash
  PROVE  /\ UNCHANGED <<run, expired>>
         /\ \/ present' = present
            \/ present' = present \cup {"alarm"} /\ "alarm" \in Resources
  <1>. USE DEF given, janitorVars
  <1>1. CASE Crash  BY <1>1 DEF Crash
  <1>2. ASSUME NEW s \in Sessions, Create(s)
        PROVE  UNCHANGED <<run, expired, present>>
    BY <1>2 DEF Create, Insert, InsertFails, StackOutputs, AssumeRole,
                FindStarterFiles, WriteFiles, PrepareFails, Launch,
                LaunchFails, MarkFailed, MarkFails
  <1>3. ASSUME NEW s \in Sessions,
               Post(s) \/ TabCloses(s) \/ Stop(s) \/ Grade(s)
        PROVE  UNCHANGED <<run, expired, present>>
    BY <1>3 DEF Post, TabCloses, Stop, Grade
  <1>4. ASSUME NEW s \in Sessions, PutMetricAlarm(s)
        PROVE  /\ UNCHANGED <<run, expired>> /\ "alarm" \in Resources
               /\ present' = present \cup {"alarm"}
    BY <1>4 DEF PutMetricAlarm
  <1>5. ASSUME NEW s \in Sessions, Ends(s)
        PROVE  UNCHANGED <<run, expired, present>>
    BY <1>5 DEF Ends, Sweep, SweepLost, GradeEnds, CredentialsExpire
  <1>. QED  BY <1>1, <1>2, <1>3, <1>4, <1>5 DEF Learner

(***************************************************************************)
(* A resource that is not expired goes only if the stack was deployed anew *)
(* after the run at work had read the old tags (LiveGoesOnlyByStaleTags).  *)
(***************************************************************************)
DeletesDue == \A r \in present \ present' : expired \/ r \in run.stale

THEOREM DeletesOnlyStale == Spec => LiveGoesOnlyByStaleTags
<1>1. Init => DueInv
  BY DEF Init, JanitorInit, DueInv, RunRecords, NoRun, Scenario
<1>2. DueInv /\ [Next]_vars => DueInv' /\ DeletesDue
  <2>. SUFFICES ASSUME DueInv, [Next]_vars  PROVE DueInv' /\ DeletesDue
    OBVIOUS
  <2>1. CASE Janitor
    <3>1. DueInv' /\ present \ present' \subseteq run.due
      BY <2>1, JanitorStep DEF Janitor
    <3>. QED  BY <3>1 DEF DueInv, DeletesDue
  <2>2. CASE UNCHANGED vars
    BY <2>2 DEF vars, janitorVars, DueInv, DeletesDue
  <2>3. CASE \/ \E s \in Sessions : Create(s) \/ Learner(s) \/ Ends(s)
             \/ Crash
    BY <2>3, LabsLeaveJanitor DEF DueInv, DeletesDue
  <2>. QED  BY <2>1, <2>2, <2>3 DEF Next
<1>3. DueInv /\ [Next]_vars => [DeletesDue]_vars
  BY <1>2
<1>. QED
  BY <1>1, <1>2, <1>3, PTL DEF Spec, LiveGoesOnlyByStaleTags, DeletesDue

(***************************************************************************)
(* The sessions: what a lab host rests on                                  *)
(***************************************************************************)

LabTypes ==
  /\ req \in [Sessions -> InFlight \cup
                {"unasked", "refused", "answered", "lost"}]
  /\ row \in [Sessions -> {"none", "active", "failed", "stopped"}]
  /\ files \in [Sessions -> SUBSET AllFiles]
  /\ host \in [Sessions -> BOOLEAN]
  /\ token \in [Sessions -> BOOLEAN]

\* Past the insert the row counts, past the last file all of them are there,
\* and until the answer there is nothing that could change either.
Prepared(s) ==
  /\ req[s] \in PrepareSteps \cup {"launching", "failing"}
       => row[s] = "active"
  /\ req[s] = "launching" => files[s] = AllFiles
  /\ req[s] # "answered" => ~host[s] /\ ~token[s] /\ s \notin grading

LabInv == LabTypes /\ \A s \in Sessions : Prepared(s)

\* A host comes up where everything is prepared, and nowhere else.
HostStep ==
  \A s \in Sessions :
    ~host[s] /\ host'[s] => files[s] = AllFiles /\ row[s] = "active"

\* A step of one session's request keeps that.
LEMMA CreateStep ==
  ASSUME LabInv, NEW s \in Sessions, Create(s)
  PROVE  LabInv' /\ HostStep
  <1>. USE DEF LabInv, LabTypes, Prepared, HostStep, Goto, PrepareSteps,
           InFlight
  <1>1. CASE Insert(s)  BY <1>1 DEF Insert
  <1>2. CASE InsertFails(s)  BY <1>2 DEF InsertFails
  <1>3. CASE StackOutputs(s)  BY <1>3 DEF StackOutputs
  <1>4. CASE AssumeRole(s)  BY <1>4 DEF AssumeRole
  <1>5. CASE FindStarterFiles(s)  BY <1>5 DEF FindStarterFiles
  <1>6. CASE WriteFiles(s)  BY <1>6 DEF WriteFiles
  <1>7. CASE PrepareFails(s)
    <2>1. /\ files' \in [Sessions -> SUBSET AllFiles]
          /\ \A t \in Sessions \ {s} : files'[t] = files[t]
      <3>1. \A w \in Prefixes : w \subseteq AllFiles
        BY DEF Prefixes, AllFiles, FileOrder
      <3>. QED  BY <1>7, <3>1 DEF PrepareFails
    <2>. QED  BY <1>7, <2>1 DEF PrepareFails
  <1>8. CASE Launch(s)  BY <1>8 DEF Launch
  <1>9. CASE LaunchFails(s)  BY <1>9 DEF LaunchFails
  <1>10. CASE MarkFailed(s)  BY <1>10 DEF MarkFailed
  <1>11. CASE MarkFails(s)  BY <1>11 DEF MarkFails
  <1>. QED
    BY <1>1, <1>2, <1>3, <1>4, <1>5, <1>6, <1>7, <1>8, <1>9, <1>10, <1>11
       DEF Create

\* So does what the learner does, and what ends a session.
LEMMA RestStep ==
  ASSUME LabInv, NEW s \in Sessions, Learner(s) \/ Ends(s)
  PROVE  LabInv' /\ HostStep
  <1>. USE DEF LabInv, LabTypes, Prepared, HostStep, Goto, PrepareSteps,
           InFlight, labVars
  <1>1. CASE Post(s)  BY <1>1 DEF Post
  <1>2. CASE TabCloses(s)  BY <1>2 DEF TabCloses
  <1>3. CASE Stop(s)  BY <1>3 DEF Stop
  <1>4. CASE Grade(s)  BY <1>4 DEF Grade
  <1>5. CASE PutMetricAlarm(s)  BY <1>5 DEF PutMetricAlarm
  <1>6. CASE Sweep(s)  BY <1>6 DEF Sweep
  <1>7. CASE SweepLost(s)  BY <1>7 DEF SweepLost
  <1>8. CASE GradeEnds(s)  BY <1>8 DEF GradeEnds
  <1>9. CASE CredentialsExpire(s)  BY <1>9 DEF CredentialsExpire
  <1>. QED
    BY <1>1, <1>2, <1>3, <1>4, <1>5, <1>6, <1>7, <1>8, <1>9
       DEF Learner, Ends

\* A crash takes the files, and with them whoever needed them.
LEMMA CrashStep ==
  ASSUME LabInv, Crash
  PROVE  LabInv' /\ HostStep
  BY DEF LabInv, LabTypes, Prepared, HostStep, PrepareSteps, InFlight, Crash

(***************************************************************************)
(* A lab host is launched only for a session whose AWS preparation went    *)
(* through to its last file, none of which has been lost since             *)
(* (HostOnlyForPrepared).                                                  *)
(***************************************************************************)
THEOREM HostAfterPreparation == Spec => HostOnlyForPrepared
<1>1. Init => LabInv
  BY DEF Init, LabInv, LabTypes, Prepared, PrepareSteps, InFlight
<1>2. LabInv /\ [Next]_vars => LabInv' /\ HostStep
  <2>. SUFFICES ASSUME LabInv, [Next]_vars  PROVE LabInv' /\ HostStep
    OBVIOUS
  <2>1. CASE UNCHANGED labVars
    BY <2>1 DEF labVars, LabInv, LabTypes, Prepared, HostStep
  <2>2. CASE Janitor  BY <2>1, <2>2 DEF Janitor
  <2>3. CASE UNCHANGED vars  BY <2>1, <2>3 DEF vars
  <2>. QED  BY <2>2, <2>3, CreateStep, RestStep, CrashStep DEF Next
<1>3. LabInv /\ [Next]_vars => [HostStep]_vars
  BY <1>2
<1>. QED
  BY <1>1, <1>2, <1>3, PTL DEF Spec, HostOnlyForPrepared, HostStep

(***************************************************************************)
(* The cap                                                                 *)
(***************************************************************************)

\* The sessions that went through the cap one at a time.
Counted == (Active \cup Admitted) \ (beside \cup revived)

\* One more after an answer of the cap that nobody else was waiting for.
OneMore ==
  /\ Cardinality(Active) < Cap
  /\ \E s \in Sessions : Counted' \subseteq Active \cup {s}

LEMMA PostCounts ==
  ASSUME LabInv, NEW s \in Sessions, Post(s)
  PROVE  Counted' \subseteq Counted \/ OneMore
  <1>. USE DEF LabInv, LabTypes, Counted, Active, Admitted, Goto, Post
  <1>1. CASE ~Admits  BY <1>1
  <1>2. CASE Admits /\ Admitted # {}
    BY <1>2
  <1>3. CASE Admits /\ Admitted = {}
    <2>1. Counted' \subseteq Active \cup {s}
      BY <1>3
    <2>. QED  BY <1>3, <2>1 DEF Admits, OneMore
  <1>. QED  BY <1>1, <1>2, <1>3

\* Nothing else adds to them: who comes back after a stop is revived.
LEMMA CreateCounts ==
  ASSUME LabInv, NEW s \in Sessions, Create(s)
  PROVE  Counted' \subseteq Counted
  <1>. USE DEF LabInv, LabTypes, Prepared, PrepareSteps, Counted, Active,
           Admitted, Goto
  <1>1. CASE Insert(s)  BY <1>1 DEF Insert
  <1>2. CASE InsertFails(s)  BY <1>2 DEF InsertFails
  <1>3. CASE StackOutputs(s)  BY <1>3 DEF StackOutputs
  <1>4. CASE AssumeRole(s)  BY <1>4 DEF AssumeRole
  <1>5. CASE FindStarterFiles(s)  BY <1>5 DEF FindStarterFiles
  <1>6. CASE WriteFiles(s)  BY <1>6 DEF WriteFiles
  <1>7. CASE PrepareFails(s)  BY <1>7 DEF PrepareFails
  <1>8. CASE Launch(s)  BY <1>8 DEF Launch
  <1>9. CASE LaunchFails(s)  BY <1>9 DEF LaunchFails
  <1>10. CASE MarkFailed(s)  BY <1>10 DEF MarkFailed
  <1>11. CASE MarkFails(s)  BY <1>11 DEF MarkFails
  <1>. QED
    BY <1>1, <1>2, <1>3, <1>4, <1>5, <1>6, <1>7, <1>8, <1>9, <1>10, <1>11
       DEF Create

LEMMA RestCounts ==
  ASSUME LabInv, NEW s \in Sessions, Learner(s) \/ Ends(s), ~Post(s)
  PROVE  Counted' \subseteq Counted
  <1>. USE DEF LabInv, LabTypes, Counted, Active, Admitted, labVars
  <1>1. CASE TabCloses(s)  BY <1>1 DEF TabCloses
  <1>2. CASE Stop(s)  BY <1>2 DEF Stop
  <1>3. CASE Grade(s)  BY <1>3 DEF Grade
  <1>4. CASE PutMetricAlarm(s)  BY <1>4 DEF PutMetricAlarm
  <1>5. CASE Sweep(s)  BY <1>5 DEF Sweep
  <1>6. CASE SweepLost(s)  BY <1>6 DEF SweepLost
  <1>7. CASE GradeEnds(s)
    <2>1. row' = [row EXCEPT ![s] = "active"] /\ UNCHANGED <<req, beside>>
      BY <1>7 DEF GradeEnds
    <2>2. revived \subseteq revived' /\ (row[s] # "active" => s \in revived')
      BY <1>7 DEF GradeEnds
    <2>. QED  BY <2>1, <2>2
  <1>8. CASE CredentialsExpire(s)  BY <1>8 DEF CredentialsExpire
  <1>. QED
    BY <1>1, <1>2, <1>3, <1>4, <1>5, <1>6, <1>7, <1>8 DEF Learner, Ends

\* The sets that are counted are parts of a finite one.
LEMMA FewSessions ==
  ASSUME NEW S \in SUBSET Sessions, NEW T, T \subseteq S
  PROVE  /\ IsFiniteSet(S) /\ Cardinality(S) \in Nat
         /\ Cardinality(T) \in Nat /\ Cardinality(T) <= Cardinality(S)
  BY CapAssumption, FS_Subset, FS_CardinalityType DEF CapAssumption

(***************************************************************************)
(* Past the cap get only the sessions of POSTs that were admitted beside   *)
(* another, and those brought back after their stop (CapHolds).            *)
(***************************************************************************)
CapInv == LabInv /\ Cardinality(Counted) <= Cap

THEOREM CapOfOneByOne == Spec => []CapHolds
<1>1. Init => CapInv
  <2>. SUFFICES ASSUME Init  PROVE CapInv
    OBVIOUS
  <2>1. LabInv
    BY DEF Init, LabInv, LabTypes, Prepared, PrepareSteps, InFlight
  <2>2. Counted = {}
    BY DEF Init, Counted, Active, Admitted
  <2>. QED
    BY <2>1, <2>2, FS_EmptySet, CapAssumption DEF CapAssumption, CapInv
<1>2. CapInv /\ [Next]_vars => CapInv'
  <2>. SUFFICES ASSUME CapInv, [Next]_vars  PROVE CapInv'
    OBVIOUS
  <2>0. LabInv
    BY DEF CapInv
  <2>1. LabInv' /\ (Counted' \subseteq Counted \/ OneMore)
    <3>1. CASE UNCHANGED labVars
      BY <2>0, <3>1 DEF labVars, LabInv, LabTypes, Prepared, Counted, Active,
                        Admitted
    <3>2. CASE Janitor  BY <3>1, <3>2 DEF Janitor
    <3>3. CASE UNCHANGED vars  BY <3>1, <3>3 DEF vars
    <3>4. CASE Crash
      <4>1. Counted' \subseteq Counted
        BY <2>0, <3>4 DEF LabInv, LabTypes, Crash, Counted, Active, Admitted,
                          InFlight
      <4>. QED  BY <2>0, <3>4, <4>1, CrashStep
    <3>. QED
      BY <2>0, <3>2, <3>3, <3>4, CreateStep, RestStep, CreateCounts,
         RestCounts, PostCounts DEF Next
  <2>2. Counted \subseteq Sessions /\ Active \subseteq Sessions
    BY DEF Counted, Active, Admitted
  <2>3. Cap \in Nat /\ Cardinality(Counted) <= Cap
    BY CapAssumption DEF CapAssumption, CapInv
  <2>4. CASE Counted' \subseteq Counted
    <3>1. /\ Cardinality(Counted) \in Nat /\ Cardinality(Counted') \in Nat
          /\ Cardinality(Counted') <= Cardinality(Counted)
      BY <2>2, <2>4, FewSessions
    <3>2. Cardinality(Counted)' = Cardinality(Counted')
      OBVIOUS
    <3>. QED  BY <2>1, <2>3, <3>1, <3>2 DEF CapInv
  <2>5. CASE OneMore
    <3>1. PICK s \in Sessions : Counted' \subseteq Active \cup {s}
      BY <2>5 DEF OneMore
    <3>2. /\ Cardinality(Active \cup {s}) \in Nat
          /\ Cardinality(Counted') \in Nat
          /\ Cardinality(Counted') <= Cardinality(Active \cup {s})
      BY <2>2, <3>1, FewSessions
    <3>3. IsFiniteSet(Active) /\ Cardinality(Active) \in Nat
      BY <2>2, FewSessions
    <3>4. Cardinality(Active \cup {s}) <= Cardinality(Active) + 1
      <4>1. Cardinality(Active \cup {s}) =
              IF s \in Active THEN Cardinality(Active)
                             ELSE Cardinality(Active) + 1
        BY <3>3, FS_AddElement, Zenon
      <4>. QED  BY <3>2, <3>3, <4>1
    <3>5. Cardinality(Active) < Cap
      BY <2>5 DEF OneMore
    <3>6. Cardinality(Counted') <= Cap
      BY <2>3, <3>2, <3>3, <3>4, <3>5
    <3>. QED  BY <2>1, <3>6 DEF CapInv
  <2>. QED  BY <2>1, <2>4, <2>5
<1>3. CapInv => CapHolds
  BY DEF CapInv, Counted, CapHolds
<1>. QED  BY <1>1, <1>2, <1>3, PTL DEF Spec

(***************************************************************************)
(* Type correctness                                                        *)
(***************************************************************************)

KindNames ==
  {"bucket", "group", "template", "trail", "alarm", "topic", "role"}

\* There is a kind to start with.
LEMMA KindsType == Len(Kinds) \in Nat /\ Len(Kinds) > 0
<1>. DEFINE a == OfKind("bucket")
            b == OfKind("group")
            c == OfKind("template")
            d == OfKind("trail")
            e == OfKind("alarm")
            f == OfKind("topic")
            g == OfKind("role")
            OneOf(t) == t \in Seq(KindNames) /\ Len(t) \in {0, 1}
<1>1. ASSUME NEW k \in KindNames
      PROVE  /\ OneOf(OfKind(k))
             /\ (\E r \in Resources : KindOf(r) = k) => Len(OfKind(k)) = 1
  <2>1. CASE \E r \in Resources : KindOf(r) = k
    <3>1. OfKind(k) = <<k>>
      BY <2>1 DEF OfKind
    <3>. QED  BY <3>1
  <2>2. CASE ~ \E r \in Resources : KindOf(r) = k
    <3>1. OfKind(k) = <<>>
      BY <2>2, Zenon DEF OfKind
    <3>. QED  BY <2>2, <3>1
  <2>. QED  BY <2>1, <2>2
<1>2. OneOf(a) /\ OneOf(b) /\ OneOf(c) /\ OneOf(d) /\ OneOf(e) /\ OneOf(f)
        /\ OneOf(g)
  <2>. HIDE DEF OneOf
  <2>. QED  BY <1>1 DEF KindNames
<1>3. \/ Len(a) = 1 \/ Len(b) = 1 \/ Len(c) = 1 \/ Len(d) = 1
      \/ Len(e) = 1 \/ Len(f) = 1 \/ Len(g) = 1
  <2>1. PICK r \in Resources : KindOf(r) \in KindNames
    BY ResourcesAssumption
       DEF ResourcesAssumption, AllResources, KindOf, KindNames
  <2>2. Len(OfKind(KindOf(r))) = 1
    BY <1>1, <2>1
  <2>. QED  BY <2>1, <2>2 DEF KindNames
<1>. HIDE DEF a, b, c, d, e, f, g
<1>4. Len(a \o b \o c \o d \o e \o f \o g)
        = Len(a) + Len(b) + Len(c) + Len(d) + Len(e) + Len(f) + Len(g)
  BY <1>2
<1>. QED  BY <1>2, <1>3, <1>4 DEF Kinds, a, b, c, d, e, f, g

\* A kind that is not listed yet has nothing left to do.
JanitorInv ==
  /\ JanitorTypeOK
  /\ ~run.listed => run.todo = {}

\* A step of the janitor, or of the operator's stack, keeps it.
LEMMA JanitorTypes ==
  ASSUME JanitorInv, JanitorNext
  PROVE  JanitorInv'
  <1>. USE DEF JanitorInv, JanitorTypeOK, Runs
  <1>1. ASSUME NEW mode \in {"dry", "sound", "faulty"}, RunStarts(mode)
        PROVE  JanitorInv'
    <2>1. 1 \in 0..Len(Kinds)
      BY KindsType
    <2>2. run' = [at |-> 1, mode |-> mode, listed |-> FALSE, todo |-> {},
                  due |-> {}, stale |-> {}]
      BY <1>1 DEF RunStarts, NoRun
    <2>3. run' \in Runs /\ run'.todo = {} /\ run'.due = {} /\ run'.stale = {}
      BY <2>1, <2>2
    <2>. QED  BY <1>1, <2>3 DEF RunStarts
  <1>2. CASE List
    <2>. DEFINE k == Kinds[run.at]
                found == IF k \in TagsListed /\ ~expired THEN {} ELSE Listed(k)
                due == IF k \in TagsListed THEN found ELSE {}
    <2>1. found \subseteq Resources /\ due \subseteq found
      BY DEF Listed
    <2>2. run' = [run EXCEPT !.listed = TRUE, !.todo = found, !.due = due]
      BY <1>2 DEF List
    <2>3. run.stale = {}
      BY <1>2 DEF List
    <2>. HIDE DEF found, due
    <2>4. run' \in Runs /\ run'.todo = found /\ run'.due = due
          /\ run'.stale = run.stale /\ run'.listed
      BY <2>1, <2>2
    <2>. QED  BY <1>2, <2>1, <2>3, <2>4 DEF List
  <1>3. ASSUME run' = NoRun, UNCHANGED <<nights, present, expired, renewals>>
        PROVE  JanitorInv'
    BY <1>3, KindsType DEF NoRun
  <1>4. CASE Aborts  BY <1>3, <1>4 DEF Aborts
  <1>5. CASE NextKind
    <2>1. CASE run.at = Len(Kinds)
      BY <1>3, <1>5, <2>1 DEF NextKind
    <2>2. CASE run.at # Len(Kinds)
      <3>1. run.at + 1 \in 0..Len(Kinds)
        BY <2>2, KindsType
      <3>2. run' = [run EXCEPT !.at = @ + 1, !.listed = FALSE]
        BY <1>5, <2>2 DEF NextKind
      <3>3. run' \in Runs /\ run'.todo = run.todo /\ run'.due = run.due
            /\ run'.stale = run.stale
        BY <3>1, <3>2
      <3>. QED  BY <1>5, <3>3 DEF NextKind
    <2>. QED  BY <2>1, <2>2
  <1>6. ASSUME NEW r \in Resources, ReadTags(r)  PROVE JanitorInv'
    <2>1. CASE run' = [run EXCEPT !.due = @ \cup {r}]
      <3>1. /\ run' \in Runs /\ run'.todo = run.todo
            /\ run'.due = run.due \cup {r} /\ run'.stale = run.stale
            /\ run'.listed = run.listed
        BY <2>1
      <3>. QED  BY <1>6, <3>1 DEF ReadTags, Unread
    <2>2. CASE run' = [run EXCEPT !.todo = @ \ {r}]
      <3>1. /\ run' \in Runs /\ run'.todo = run.todo \ {r}
            /\ run'.due = run.due /\ run'.stale = run.stale
            /\ run'.listed = run.listed
        BY <2>2
      <3>. QED  BY <1>6, <3>1 DEF ReadTags, Unread
    <2>. QED  BY <1>6, <2>1, <2>2 DEF ReadTags
  <1>7. ASSUME NEW r \in Resources, run' = Done(r)
        PROVE  /\ run' \in Runs
               /\ run'.stale \subseteq run'.due /\ run'.due \subseteq run'.todo
               /\ ~run'.listed => run'.todo = {}
    BY <1>7 DEF Done
  <1>8. ASSUME NEW r \in Resources, SkipBucket(r) \/ Delete(r) \/ Refused(r)
        PROVE  JanitorInv'
    BY <1>7, <1>8 DEF SkipBucket, Delete, Refused
  <1>9. CASE Expire  BY <1>9 DEF Expire
  <1>10. CASE Renew
    <2>1. renewals' \in 0..MaxRenewals
      BY <1>10, ResourcesAssumption DEF Renew, ResourcesAssumption
    <2>2. /\ run' \in Runs /\ run'.todo = run.todo /\ run'.due = run.due
          /\ run'.stale = run.due /\ run'.listed = run.listed
      BY <1>10 DEF Renew
    <2>. QED  BY <1>10, <2>1, <2>2 DEF Renew, Scenario
  <1>. QED
    BY <1>1, <1>2, <1>4, <1>5, <1>6, <1>8, <1>9, <1>10
       DEF JanitorNext, RunSteps

\* The sets of sessions, and the credentials.
SetTypes ==
  /\ wanted \subseteq Sessions
  /\ cred \in [Sessions -> {"none", "live", "expired"}]
  /\ grading \subseteq Sessions
  /\ fault \subseteq Sessions
  /\ beside \subseteq Sessions
  /\ revived \subseteq Sessions

LEMMA SetsStep ==
  ASSUME SetTypes,
         \/ \E s \in Sessions : Create(s) \/ Learner(s) \/ Ends(s)
         \/ Crash
  PROVE  SetTypes'
  <1>. USE DEF SetTypes, given
  <1>1. ASSUME NEW s \in Sessions, Create(s)  PROVE SetTypes'
    BY <1>1 DEF Create, Insert, InsertFails, StackOutputs, AssumeRole,
                FindStarterFiles, WriteFiles, PrepareFails, Launch,
                LaunchFails, MarkFailed, MarkFails
  <1>2. ASSUME NEW s \in Sessions, Learner(s)  PROVE SetTypes'
    BY <1>2 DEF Learner, Post, TabCloses, Stop, Grade, PutMetricAlarm, labVars
  <1>3. ASSUME NEW s \in Sessions, Ends(s)  PROVE SetTypes'
    BY <1>3 DEF Ends, Sweep, SweepLost, GradeEnds, CredentialsExpire
  <1>4. CASE Crash  BY <1>4 DEF Crash
  <1>. QED  BY <1>1, <1>2, <1>3, <1>4

\* The sessions change nothing of the janitor but what resources there are.
LEMMA LabsKeepJanitor ==
  ASSUME JanitorInv,
         \/ \E s \in Sessions : Create(s) \/ Learner(s) \/ Ends(s)
         \/ Crash
  PROVE  JanitorInv'
  <1>1. UNCHANGED <<nights, renewals>>
    <2>. USE DEF given, janitorVars
    <2>1. CASE Crash  BY <2>1 DEF Crash
    <2>2. ASSUME NEW s \in Sessions, Create(s) PROVE UNCHANGED <<nights, renewals>>
      BY <2>2 DEF Create, Insert, InsertFails, StackOutputs, AssumeRole,
                  FindStarterFiles, WriteFiles, PrepareFails, Launch,
                  LaunchFails, MarkFailed, MarkFails
    <2>3. ASSUME NEW s \in Sessions, Learner(s) PROVE UNCHANGED <<nights, renewals>>
      BY <2>3 DEF Learner, Post, TabCloses, Stop, Grade, PutMetricAlarm
    <2>4. ASSUME NEW s \in Sessions, Ends(s) PROVE UNCHANGED <<nights, renewals>>
      BY <2>4 DEF Ends, Sweep, SweepLost, GradeEnds, CredentialsExpire
    <2>. QED  BY <2>1, <2>2, <2>3, <2>4
  <1>2. UNCHANGED <<run, expired>> /\ present' \subseteq Resources
    BY LabsLeaveJanitor DEF JanitorInv, JanitorTypeOK
  <1>. QED  BY <1>1, <1>2 DEF JanitorInv, JanitorTypeOK

(***************************************************************************)
(* The rows, the files, the sets of sessions and the janitor's run are     *)
(* always well typed; what a run has due is among what it has to do.       *)
(***************************************************************************)
TypeInv == JanitorInv /\ LabInv /\ SetTypes

THEOREM TypeCorrect == Spec => []TypeOK
<1>1. Init => TypeInv
  <2>. SUFFICES ASSUME Init  PROVE TypeInv
    OBVIOUS
  <2>1. LabInv
    BY DEF Init, LabInv, LabTypes, Prepared, PrepareSteps, InFlight
  <2>2. JanitorInv
    <3>1. 0 \in 0..Len(Kinds) /\ 0 \in 0..MaxRenewals
      BY KindsType, ResourcesAssumption DEF ResourcesAssumption
    <3>2. NoRun \in Runs
      BY <3>1 DEF NoRun, Runs
    <3>. QED
      BY <3>1, <3>2
         DEF Init, JanitorInit, JanitorInv, JanitorTypeOK, NoRun, Scenario
  <2>3. SetTypes
    BY DEF Init, SetTypes
  <2>. QED  BY <2>1, <2>2, <2>3 DEF TypeInv
<1>2. TypeInv /\ [Next]_vars => TypeInv'
  <2>. SUFFICES ASSUME TypeInv, [Next]_vars  PROVE TypeInv'
    OBVIOUS
  <2>. USE DEF TypeInv
  <2>1. ASSUME UNCHANGED labVars  PROVE LabInv' /\ (wanted' = wanted => SetTypes')
    BY <2>1 DEF labVars, LabInv, LabTypes, Prepared, SetTypes
  <2>2. CASE Janitor
    BY <2>1, <2>2, JanitorTypes DEF Janitor, labVars
  <2>3. CASE UNCHANGED vars
    BY <2>1, <2>3 DEF vars, janitorVars, labVars, JanitorInv, JanitorTypeOK
  <2>4. CASE \/ \E s \in Sessions : Create(s) \/ Learner(s) \/ Ends(s)
             \/ Crash
    BY <2>4, CreateStep, RestStep, CrashStep, SetsStep, LabsKeepJanitor
  <2>. QED  BY <2>2, <2>3, <2>4 DEF Next
<1>3. TypeInv => TypeOK
  BY DEF TypeInv, TypeOK, JanitorInv, LabInv, LabTypes, SetTypes
<1>. QED  BY <1>1, <1>2, <1>3, PTL DEF Spec

(***************************************************************************)
(* A slot comes back                                                       *)
(***************************************************************************)

\* The session takes a slot, and met with no fault.
Counts(s) == row[s] = "active" /\ s \notin fault

\* Then its request is at work past the insert, or its host is up, whose end
\* will free the slot.
Accounted(s) ==
  Counts(s) => \/ req[s] \in PrepareSteps \cup {"launching", "failing"}
               \/ req[s] = "answered" /\ host[s]

SlotInv == LabInv /\ \A s \in Sessions : Accounted(s)

\* How a request gets on; of the last step, MarkFailed frees the slot and
\* MarkFails is a fault.
Onward(from, to) ==
  \/ from = "stacks" /\ to \in {"role", "failing"}
  \/ from = "role" /\ to \in {"starter", "failing"}
  \/ from = "starter" /\ to \in {"files", "failing"}
  \/ from = "files" /\ to \in {"launching", "failing"}
  \/ from = "launching" /\ to \in {"answered", "failing"}

\* A session's own request.
LEMMA OwnStep ==
  ASSUME LabInv, NEW s \in Sessions, Create(s), Accounted(s)
  PROVE  /\ Accounted(s)'
         /\ req'[s] # req[s]
         /\ Counts(s) /\ Counts(s)' => Onward(req[s], req'[s])
  <1>. USE DEF LabInv, LabTypes, Prepared, PrepareSteps, Counts, Accounted,
           Onward, Goto
  <1>1. CASE Insert(s)  BY <1>1 DEF Insert
  <1>2. CASE InsertFails(s)  BY <1>2 DEF InsertFails
  <1>3. CASE StackOutputs(s)  BY <1>3 DEF StackOutputs
  <1>4. CASE AssumeRole(s)  BY <1>4 DEF AssumeRole
  <1>5. CASE FindStarterFiles(s)  BY <1>5 DEF FindStarterFiles
  <1>6. CASE WriteFiles(s)  BY <1>6 DEF WriteFiles
  <1>7. CASE PrepareFails(s)  BY <1>7 DEF PrepareFails
  <1>8. CASE Launch(s)  BY <1>8 DEF Launch
  <1>9. CASE LaunchFails(s)  BY <1>9 DEF LaunchFails
  <1>10. CASE MarkFailed(s)  BY <1>10 DEF MarkFailed
  <1>11. CASE MarkFails(s)  BY <1>11 DEF MarkFails
  <1>. QED
    BY <1>1, <1>2, <1>3, <1>4, <1>5, <1>6, <1>7, <1>8, <1>9, <1>10, <1>11
       DEF Create

\* The learner, and what ends a session: the end of a host is told or is a
\* fault, and so is a grade that brings a session back.
LEMMA LearnersStep ==
  ASSUME LabInv, NEW s \in Sessions, Learner(s) \/ Ends(s), Accounted(s)
  PROVE  /\ Accounted(s)'
         /\ Counts(s) /\ Counts(s)' => req'[s] = req[s]
         /\ Sweep(s) \/ SweepLost(s) => ~Counts(s)'
  <1>. USE DEF LabInv, LabTypes, Prepared, PrepareSteps, Counts, Accounted,
           Goto, labVars
  <1>1. CASE Post(s)  BY <1>1 DEF Post, Sweep, SweepLost
  <1>2. CASE TabCloses(s)  BY <1>2 DEF TabCloses, Sweep, SweepLost
  <1>3. CASE Stop(s)  BY <1>3 DEF Stop, Sweep, SweepLost
  <1>4. CASE Grade(s)  BY <1>4 DEF Grade, Sweep, SweepLost
  <1>5. CASE PutMetricAlarm(s)
    BY <1>5 DEF PutMetricAlarm, Sweep, SweepLost
  <1>6. CASE Sweep(s)  BY <1>6 DEF Sweep
  <1>7. CASE SweepLost(s)  BY <1>7 DEF SweepLost
  <1>8. CASE GradeEnds(s)  BY <1>8 DEF GradeEnds, Sweep, SweepLost
  <1>9. CASE CredentialsExpire(s)
    BY <1>9 DEF CredentialsExpire, Sweep, SweepLost
  <1>. QED
    BY <1>1, <1>2, <1>3, <1>4, <1>5, <1>6, <1>7, <1>8, <1>9
       DEF Learner, Ends

\* Another session leaves it alone.
LEMMA OthersStep ==
  ASSUME LabInv, NEW s \in Sessions, NEW t \in Sessions, s # t,
         Create(t) \/ Learner(t) \/ Ends(t)
  PROVE  /\ row'[s] = row[s] /\ req'[s] = req[s] /\ host'[s] = host[s]
         /\ s \in fault' <=> s \in fault
  <1>. USE DEF LabInv, LabTypes, Goto, labVars
  <1>1. CASE Create(t)
    BY <1>1 DEF Create, Insert, InsertFails, StackOutputs, AssumeRole,
                FindStarterFiles, WriteFiles, PrepareFails, Launch,
                LaunchFails, MarkFailed, MarkFails
  <1>2. CASE Learner(t)
    BY <1>2 DEF Learner, Post, TabCloses, Stop, Grade, PutMetricAlarm
  <1>3. CASE Ends(t)
    BY <1>3 DEF Ends, Sweep, SweepLost, GradeEnds, CredentialsExpire
  <1>. QED  BY <1>1, <1>2, <1>3

\* Whatever happens, the slot stays accounted for, and a request gets on.
LEMMA SlotStep ==
  ASSUME SlotInv, [Next]_vars, NEW s \in Sessions
  PROVE  /\ Accounted(s)'
         /\ Counts(s) /\ Counts(s)' =>
              req'[s] = req[s] \/ Onward(req[s], req'[s])
  <1>. USE DEF SlotInv
  <1>1. CASE UNCHANGED labVars
    BY <1>1 DEF labVars, Accounted, Counts
  <1>2. CASE Janitor \/ UNCHANGED vars
    BY <1>1, <1>2 DEF Janitor, vars
  <1>3. CASE Crash
    BY <1>3 DEF Crash, Accounted, Counts, LabInv, LabTypes, InFlight
  <1>4. ASSUME NEW t \in Sessions, Create(t) \/ Learner(t) \/ Ends(t)
        PROVE  /\ Accounted(s)'
               /\ Counts(s) /\ Counts(s)' =>
                    req'[s] = req[s] \/ Onward(req[s], req'[s])
    <2>1. CASE s = t  BY <1>4, <2>1, OwnStep, LearnersStep
    <2>2. CASE s # t  BY <1>4, <2>2, OthersStep DEF Accounted, Counts
    <2>. QED  BY <2>1, <2>2
  <1>. QED  BY <1>2, <1>3, <1>4 DEF Next

LEMMA SlotInvariant == Spec => []SlotInv
<1>1. Init => SlotInv
  BY DEF Init, SlotInv, LabInv, LabTypes, Prepared, PrepareSteps, InFlight,
         Accounted, Counts
<1>2. SlotInv /\ [Next]_vars => LabInv'
  <2>1. ASSUME LabInv, UNCHANGED labVars  PROVE LabInv'
    BY <2>1 DEF labVars, LabInv, LabTypes, Prepared
  <2>. QED
    BY <2>1, CreateStep, RestStep, CrashStep DEF SlotInv, Next, Janitor, vars
<1>3. SlotInv /\ [Next]_vars => SlotInv'
  BY <1>2, SlotStep DEF SlotInv
<1>. QED  BY <1>1, <1>3, PTL DEF Spec

(***************************************************************************)
(* A session that takes a slot and met with no fault has a request at work *)
(* past the insert, or a host whose end will free the slot.                *)
(***************************************************************************)
THEOREM SlotsAreAccountedFor == Spec => [](\A s \in Sessions : Accounted(s))
<1>1. SlotInv => \A s \in Sessions : Accounted(s)
  BY DEF SlotInv
<1>. QED  BY <1>1, SlotInvariant, PTL

\* The fairness of requests and hosts (FairSpec) with the guards of Create
\* and of the host's end written out, since an enabling condition cannot be
\* reasoned about here.
AtWork(s) == req[s] \in InFlight

RequestGoesOn(s) == []<>~AtWork(s) \/ []<><<Create(s)>>_vars

HostEnds(s) == []<>~host[s] \/ []<><<Sweep(s) \/ SweepLost(s)>>_vars

LEMMA OneSlotComesBack ==
  ASSUME NEW s \in Sessions
  PROVE  Spec /\ RequestGoesOn(s) /\ HostEnds(s)
           => (row[s] = "active" ~> (row[s] # "active" \/ s \in fault))
<1>. DEFINE Out == ~Counts(s)
            Stacks == req[s] = "stacks"
            Role == req[s] = "role"
            Starter == req[s] = "starter"
            Files == req[s] = "files"
            Launching == req[s] = "launching"
            Failing == req[s] = "failing"
            Answered == req[s] = "answered"
            Free == row[s] # "active" \/ s \in fault
            Taken == row[s] = "active"
<1>1. SlotInv /\ ~Out => \/ Stacks \/ Role \/ Starter \/ Files
                         \/ Launching \/ Failing \/ (Answered /\ host[s])
  BY DEF SlotInv, Accounted, PrepareSteps
<1>2. SlotInv /\ [Next]_vars =>
        /\ Stacks => Out \/ Out' \/ Stacks' \/ Role' \/ Failing'
        /\ Role => Out \/ Out' \/ Role' \/ Starter' \/ Failing'
        /\ Starter => Out \/ Out' \/ Starter' \/ Files' \/ Failing'
        /\ Files => Out \/ Out' \/ Files' \/ Launching' \/ Failing'
        /\ Launching => Out \/ Out' \/ Launching' \/ Answered' \/ Failing'
        /\ Failing => Out \/ Out' \/ Failing'
        /\ Answered => Out \/ Out' \/ Answered'
  <2>. SUFFICES ASSUME SlotInv, [Next]_vars, ~Out, ~Out'
                PROVE  /\ Stacks => Stacks' \/ Role' \/ Failing'
                       /\ Role => Role' \/ Starter' \/ Failing'
                       /\ Starter => Starter' \/ Files' \/ Failing'
                       /\ Files => Files' \/ Launching' \/ Failing'
                       /\ Launching => Launching' \/ Answered' \/ Failing'
                       /\ Failing => Failing'
                       /\ Answered => Answered'
    OBVIOUS
  <2>1. req'[s] = req[s] \/ Onward(req[s], req'[s])
    BY SlotStep
  <2>. QED  BY <2>1 DEF Onward
<1>3. SlotInv /\ <<Create(s)>>_vars =>
        /\ Stacks => ~Stacks'
        /\ Role => ~Role'
        /\ Starter => ~Starter'
        /\ Files => ~Files'
        /\ Launching => ~Launching'
        /\ Failing => ~Failing'
  <2>1. SlotInv /\ <<Create(s)>>_vars => req'[s] # req[s]
    BY OwnStep DEF SlotInv
  <2>. QED  BY <2>1
<1>4. SlotInv /\ <<Sweep(s) \/ SweepLost(s)>>_vars => Out'
  BY LearnersStep DEF SlotInv, Ends
<1>5. Stacks \/ Role \/ Starter \/ Files \/ Launching \/ Failing => AtWork(s)
  BY DEF AtWork, InFlight, PrepareSteps
<1>6. /\ Stacks => ~Role /\ ~Starter /\ ~Files /\ ~Launching /\ ~Failing
                     /\ ~Answered
      /\ Role => ~Starter /\ ~Files /\ ~Launching /\ ~Failing /\ ~Answered
      /\ Starter => ~Files /\ ~Launching /\ ~Failing /\ ~Answered
      /\ Files => ~Launching /\ ~Failing /\ ~Answered
      /\ Launching => ~Failing /\ ~Answered
      /\ Failing => ~Answered
  OBVIOUS
<1>7. Free <=> Out
  BY DEF Counts
<1>. HIDE DEF Out, Stacks, Role, Starter, Files, Launching, Failing, Answered,
              Free, Taken
<1>8. Spec /\ RequestGoesOn(s) /\ HostEnds(s) => (Taken ~> Free)
  BY <1>1, <1>2, <1>3, <1>4, <1>5, <1>6, <1>7, SlotInvariant, PTL
     DEF Spec, RequestGoesOn, HostEnds
<1>. QED  BY <1>8 DEF Taken, Free

(***************************************************************************)
(* A session stops counting against the cap in the end, whatever becomes   *)
(* of its preparation and whatever its learner does, unless it met with a  *)
(* fault (SlotComesBack), if its request goes on and its host ends.        *)
(***************************************************************************)
THEOREM EverySlotComesBack ==
  Spec /\ (\A s \in Sessions : RequestGoesOn(s) /\ HostEnds(s))
    => SlotComesBack
  BY OneSlotComesBack DEF SlotComesBack
=============================================================================
