------------------------- MODULE SessionPage_proofs -------------------------
(***************************************************************************)
(* Proofs about SessionPage for any number of streams and any bound.  The  *)
(* first part is about the event bus: who can take a listening stream's    *)
(* emitter out of the map.  The second is about what the page shows: all   *)
(* that is on its way to the page, or on it, claims no more than the task  *)
(* has had evidence for (PageTrue), and the evidence only grows.           *)
(***************************************************************************)
EXTENDS SessionPage, InductionLemmas, FiniteSetTheorems, TLAPS

(***************************************************************************)
(* There is always an emitter nobody subscribes to: one more can be made.  *)
(***************************************************************************)
LEMMA FreshBusExists ==
  FreshBus \in Buses /\ FreshBus # NoBus
<1>1. \E b \in Buses : \A s \in Streams : stream[s].bus # b
  <2>. SUFFICES ASSUME \A b \in Buses : \E s \in Streams : stream[s].bus = b
                PROVE  FALSE
    OBVIOUS
  <2>. DEFINE S == {s \in Streams : stream[s].bus \in Buses}
              f == [s \in S |-> stream[s].bus]
  <2>1. IsFiniteSet(Streams) /\ Cardinality(Streams) \in Nat
    BY PageAssumption, FS_CardinalityType DEF PageAssumption
  <2>2. /\ IsFiniteSet(S) /\ Cardinality(S) \in Nat
        /\ Cardinality(S) <= Cardinality(Streams)
    <3>1. S \in SUBSET Streams
      OBVIOUS
    <3>2. IsFiniteSet(S) /\ Cardinality(S) <= Cardinality(Streams)
      BY <2>1, <3>1, FS_Subset, Zenon
    <3>3. Cardinality(S) \in Nat
      BY <3>2, FS_CardinalityType, Zenon
    <3>. QED  BY <3>2, <3>3
  <2>3. f \in Surjection(S, Buses)
    <3>1. f \in [S -> Buses]
      OBVIOUS
    <3>2. \A b \in Buses : \E s \in S : f[s] = b
      OBVIOUS
    <3>. QED  BY <3>1, <3>2, Zenon DEF Surjection
  <2>4. Cardinality(Buses) <= Cardinality(S)
    BY <2>2, <2>3, FS_Surjection, Zenon
  <2>5. Cardinality(Buses) = Cardinality(Streams) + 1
    <3>. DEFINE n == Cardinality(Streams) + 1
    <3>1. n \in Nat /\ n >= 1
      BY <2>1
    <3>. HIDE DEF n
    <3>2. Cardinality(1..n) = n
      BY <3>1, FS_Interval
    <3>. QED  BY <3>2 DEF n, Buses
  <2>. HIDE DEF S
  <2>. QED  BY <2>1, <2>2, <2>4, <2>5
<1>2. FreshBus \in Buses
  BY <1>1, Zenon DEF FreshBus
<1>. QED  BY <1>2 DEF Buses, NoBus

(***************************************************************************)
(* The map and the streams                                                 *)
(***************************************************************************)

\* Who has subscribed, and not left the emitter for good, knows which it was.
BusInv ==
  /\ row \in Sessions /\ log \in 0..MaxLog
  /\ bus \in Buses \cup {NoBus}
  /\ stream \in [Streams -> StreamStates]
  /\ \A s \in Streams :
       stream[s].at \in {"listening", "released"} => stream[s].bus # NoBus

\* A step of the route's GET or of whoever publishes keeps who is heard.
Kept ==
  \A s \in Streams : Heard(s) /\ Listening(s)' => Heard(s)'

CutOffStep ==
  \A s \in Streams :
    Heard(s) /\ Listening(s)' /\ ~Heard(s)'
      => \E t \in Streams \ {s} : StaleRelease(t)

\* An emitter that is in the map stays there when somebody publishes.
LEMMA PublishKeeps ==
  ASSUME BusInv, UNCHANGED stream, bus' = bus \/ bus' = GetBus,
         row' \in Sessions, log' \in 0..MaxLog
  PROVE  BusInv' /\ Kept
  <1>1. bus' \in Buses \cup {NoBus}
    BY FreshBusExists DEF BusInv, GetBus
  <1>2. ASSUME NEW s \in Streams, Heard(s)  PROVE bus' = bus
    BY <1>2 DEF BusInv, Heard, Listening, GetBus
  <1>3. BusInv'
    BY <1>1 DEF BusInv
  <1>. QED  BY <1>2, <1>3 DEF Kept, Heard, Listening

\* What the task does to the row, and a browser's request that makes it.
LEMMA TaskKeeps ==
  ASSUME BusInv,
         \/ RefreshIp \/ HostProgress \/ HostReady
         \/ Probe \/ ProbeFails \/ ProbeSucceeds
         \/ ReadyWritten \/ ReadyLost
         \/ ShutDown \/ ShutDownEnds \/ GradeEnds
         \/ Load \/ Poll \/ Stop \/ RequestGrade
         \/ Receive \/ LoseStop \/ \E k \in Kinds : ApplyAnswer(k)
         \/ Expire
  PROVE  BusInv' /\ Kept
  <1>. USE PublishKeeps DEF TaskStep, Rejected, TaskWork, Write, Publish, serverVars,
           streamVars, pageVars
  <1>1. row \in Sessions /\ log \in 0..MaxLog /\ MaxLog \in Nat
    BY PageAssumption DEF PageAssumption, BusInv
  <1>2. /\ [row EXCEPT !.ip = TRUE] \in Sessions
        /\ [row EXCEPT !.rcvd = TRUE, !.ip = TRUE] \in Sessions
        /\ [row EXCEPT !.rcvd = TRUE] \in Sessions
        /\ [row EXCEPT !.sshErr = TRUE] \in Sessions
        /\ [row EXCEPT !.sshErr = FALSE] \in Sessions
        /\ [row EXCEPT !.status = "ready", !.sshErr = FALSE] \in Sessions
        /\ \A st \in Statuses : [row EXCEPT !.status = st] \in Sessions
    BY <1>1 DEF Sessions, Statuses
  <1>3. "stopping" \in Statuses /\ "stopped" \in Statuses
        /\ "running" \in Statuses /\ "ready" \in Statuses
    BY DEF Statuses
  <1>4. CASE RefreshIp  BY <1>1, <1>2, <1>4 DEF RefreshIp
  <1>5. CASE HostProgress
    <2>1. log' \in 0..MaxLog  BY <1>1, <1>5 DEF HostProgress
    <2>. QED  BY <1>1, <1>5, <2>1 DEF HostProgress
  <1>6. CASE HostReady  BY <1>1, <1>2, <1>6 DEF HostReady
  <1>7. CASE Probe  BY <1>1, <1>7 DEF Probe
  <1>8. CASE ProbeFails  BY <1>1, <1>2, <1>8 DEF ProbeFails
  <1>9. CASE ProbeSucceeds \/ ReadyWritten \/ ReadyLost
    BY <1>1, <1>2, <1>9 DEF ProbeSucceeds, ReadyWritten, ReadyLost
  <1>10. CASE ShutDown  BY <1>1, <1>2, <1>3, <1>10 DEF ShutDown
  <1>11. CASE ShutDownEnds  BY <1>1, <1>2, <1>3, <1>11 DEF ShutDownEnds
  <1>12. CASE GradeEnds  BY <1>1, <1>2, <1>3, <1>12 DEF GradeEnds
  <1>13. CASE Load \/ Poll  BY <1>1, <1>13 DEF Load, Poll, Read
  <1>14. CASE Stop  BY <1>1, <1>2, <1>3, <1>14 DEF Stop
  <1>15. CASE RequestGrade
    BY <1>1, <1>2, <1>3, <1>15
       DEF RequestGrade, GradeLost, GradeRefused, GradeStarts
  <1>16. CASE Receive \/ LoseStop \/ Expire \/ \E k \in Kinds : ApplyAnswer(k)
    BY <1>1, <1>16 DEF Receive, LoseStop, ApplyAnswer, Expire
  <1>. QED
    BY <1>4, <1>5, <1>6, <1>7, <1>8, <1>9, <1>10, <1>11, <1>12, <1>13,
       <1>14, <1>15, <1>16

\* A new request subscribes to the emitter in the map.
LEMMA ConnectKeeps ==
  ASSUME BusInv, Connect \/ \E t \in Streams : Subscribe(t)
  PROVE  BusInv' /\ Kept
  <1>1. CASE Connect
    <2>1. PICK t \in Streams :
            /\ stream[t].at = "free"
            /\ stream' = [stream EXCEPT ![t] = [FreeStream EXCEPT
                 !.at = "reading", !.snap = row, !.log = log]]
            /\ UNCHANGED <<row, log, bus>>
      BY <1>1, Zenon DEF Connect, serverVars
    <2>2. log \in 0..3
      BY PageAssumption DEF PageAssumption, BusInv
    <2>3. stream'[t] \in StreamStates /\ stream'[t].at = "reading"
      BY <2>1, <2>2 DEF BusInv, StreamStates, FreeStream
    <2>. QED
      BY <2>1, <2>3 DEF BusInv, Kept, Heard, Listening
  <1>2. ASSUME NEW t \in Streams, Subscribe(t)  PROVE BusInv' /\ Kept
    <2>1. /\ stream[t].at = "reading" /\ bus' = GetBus
          /\ UNCHANGED <<row, log>>
          /\ stream' = [stream EXCEPT ![t].at = "listening",
                          ![t].bus = GetBus, ![t].snap = NoSession,
                          ![t].log = 0]
      BY <1>2 DEF Subscribe, serverVars
    <2>2. GetBus \in Buses /\ GetBus # NoBus
      BY FreshBusExists DEF BusInv, GetBus
    <2>3. stream'[t] \in StreamStates /\ stream'[t].bus = GetBus
      <3>1. stream[t] \in StreamStates
        BY DEF BusInv
      <3>2. stream'[t] = [stream[t] EXCEPT !.at = "listening",
                            !.bus = GetBus, !.snap = NoSession, !.log = 0]
        BY <2>1 DEF BusInv
      <3>3. stream'[t] = [at |-> "listening", snap |-> NoSession, log |-> 0,
                          bus |-> GetBus, todo |-> stream[t].todo]
        BY <3>1, <3>2 DEF StreamStates
      <3>4. stream[t].todo \in SUBSET {"abort", "cancel"}
        BY <3>1 DEF StreamStates
      <3>. QED  BY <2>2, <3>3, <3>4 DEF StreamStates
    <2>4. \A s \in Streams \ {t} : stream'[s] = stream[s]
      BY <2>1 DEF BusInv
    <2>5. stream' \in [Streams -> StreamStates]
      BY <2>1, <2>3, <2>4 DEF BusInv
    <2>6. BusInv'
      BY <2>1, <2>2, <2>3, <2>4, <2>5 DEF BusInv
    <2>7. ASSUME NEW s \in Streams, Heard(s)  PROVE s # t /\ bus' = bus
      BY <2>1, <2>7 DEF BusInv, Heard, Listening, GetBus
    <2>. QED  BY <2>4, <2>6, <2>7 DEF Kept, Heard, Listening
  <1>. QED  BY <1>1, <1>2

\* A connection that is gone is still subscribed.
LEMMA DropKeeps ==
  ASSUME BusInv, Drop \/ Reload
  PROVE  BusInv' /\ Kept
  <1>1. /\ UNCHANGED <<row, log, bus>>
        /\ \/ stream' = stream
           \/ stream' = [stream EXCEPT ![es].todo = Gone(es)]
    BY DEF Drop, Reload, Disconnected, serverVars
  <1>2. CASE stream' = stream
    BY <1>1, <1>2, PublishKeeps DEF BusInv
  <1>3. CASE stream' = [stream EXCEPT ![es].todo = Gone(es)]
    <2>1. Gone(es) \in SUBSET {"abort", "cancel"}
      BY DEF Gone
    <2>2. \A s \in Streams :
            /\ stream'[s] \in StreamStates
            /\ stream'[s].at = stream[s].at /\ stream'[s].bus = stream[s].bus
      BY <1>3, <2>1 DEF BusInv, StreamStates
    <2>3. stream' \in [Streams -> StreamStates]
      BY <1>3, <2>2 DEF BusInv
    <2>. QED  BY <1>1, <2>2, <2>3 DEF BusInv, Kept, Heard, Listening
  <1>. QED  BY <1>1, <1>2, <1>3

\* A release takes the emitter in the map from others only if it was not the
\* released stream's own.
LEMMA ReleaseStep ==
  ASSUME BusInv, NEW t \in Streams, Abort(t) \/ Cancel(t)
  PROVE  BusInv' /\ CutOffStep
  <1>1. /\ stream[t].at \in {"listening", "released"}
        /\ Unsubscribe(t)
        /\ UNCHANGED <<row, log>>
    BY DEF Abort, Cancel, Listening, serverVars
  <1>2. \/ stream' = [stream EXCEPT ![t] = FreeStream]
        \/ /\ stream[t].at = "listening"
           /\ stream' = [stream EXCEPT ![t] =
                [@ EXCEPT !.at = "released", !.todo = {"abort"}]]
    BY DEF Abort, Cancel, Listening
  <1>3. /\ stream'[t] \in StreamStates
        /\ stream'[t].at = "free" \/ stream'[t].at = "released"
        /\ stream'[t].at = "released" => stream'[t].bus = stream[t].bus
        /\ stream'[t] # stream[t]
    <2>1. FreeStream \in StreamStates /\ FreeStream.at = "free"
      BY DEF FreeStream, StreamStates, NoBus
    <2>2. CASE stream' = [stream EXCEPT ![t] = FreeStream]
      BY <1>1, <2>1, <2>2 DEF BusInv
    <2>3. CASE /\ stream[t].at = "listening"
               /\ stream' = [stream EXCEPT ![t] =
                    [@ EXCEPT !.at = "released", !.todo = {"abort"}]]
      BY ZenonT(30), <2>3 DEF BusInv, StreamStates
    <2>. QED  BY <1>2, <2>2, <2>3
  <1>4. \A s \in Streams \ {t} : stream'[s] = stream[s]
    BY <1>2 DEF BusInv
  <1>5. stream' \in [Streams -> StreamStates]
    BY <1>2, <1>3, <1>4 DEF BusInv
  <1>6. bus' \in {bus, NoBus}
    BY <1>1 DEF Unsubscribe
  <1>7. BusInv'
    BY <1>1, <1>3, <1>4, <1>5, <1>6 DEF BusInv
  <1>8. ASSUME NEW s \in Streams, Heard(s), Listening(s)', ~Heard(s)'
        PROVE  s # t /\ StaleRelease(t)
    <2>1. s # t
      BY <1>3, <1>8 DEF Listening
    <2>2. stream'[s] = stream[s] /\ stream[s].at = "listening"
          /\ stream[s].bus = bus
      BY <1>4, <1>8, <2>1 DEF Heard, Listening
    <2>3. bus' # bus
      BY <1>8, <2>2 DEF Heard
    <2>4. stream[t].bus # bus
      BY <1>1, <2>1, <2>2, <2>3 DEF Unsubscribe, Listening
    <2>5. stream[t].bus # NoBus
      BY <1>1 DEF BusInv
    <2>. QED  BY <1>3, <2>1, <2>4, <2>5 DEF StaleRelease
  <1>. QED  BY <1>7, <1>8 DEF CutOffStep

LEMMA BusInit == Init => BusInv
<1>. SUFFICES ASSUME Init  PROVE BusInv
  OBVIOUS
<1>1. row \in Sessions
  BY DEF Init, Sessions, Statuses
<1>2. log \in 0..MaxLog
  BY PageAssumption DEF PageAssumption, Init
<1>3. 1 \in Buses
  <2>1. Cardinality(Streams) \in Nat
    BY PageAssumption, FS_CardinalityType DEF PageAssumption
  <2>. QED  BY <2>1 DEF Buses
<1>4. FreeStream \in StreamStates /\ FreeStream.at = "free"
  BY DEF FreeStream, StreamStates, NoBus
<1>. QED  BY <1>1, <1>2, <1>3, <1>4 DEF Init, BusInv

(***************************************************************************)
(* A listening stream is cut off only by the release of a stream whose     *)
(* emitter is not the one in the map (CutOffOnlyByStaleRelease).           *)
(***************************************************************************)
THEOREM CutOffByStaleRelease == Spec => CutOffOnlyByStaleRelease
<1>1. Init => BusInv
  BY BusInit
<1>2. BusInv /\ [Next]_vars => BusInv' /\ CutOffStep
  <2>. SUFFICES ASSUME BusInv, [Next]_vars  PROVE BusInv' /\ CutOffStep
    OBVIOUS
  <2>1. Kept => CutOffStep
    BY DEF Kept, CutOffStep
  <2>2. CASE Task
    BY <2>1, <2>2, TaskKeeps, ConnectKeeps, ReleaseStep DEF Task
  <2>3. CASE Browser
    BY <2>1, <2>3, TaskKeeps, ConnectKeeps, DropKeeps DEF Browser
  <2>4. CASE UNCHANGED vars
    BY <2>1, <2>4, PublishKeeps DEF BusInv, vars, serverVars, streamVars
  <2>. QED  BY <2>2, <2>3, <2>4 DEF Next
<1>3. BusInv /\ [Next]_vars => [CutOffStep]_vars
  BY <1>2
<1>. QED
  BY <1>1, <1>2, <1>3, PTL DEF Spec, CutOffOnlyByStaleRelease, CutOffStep

(***************************************************************************)
(* What the page may be told: sessions and events that claim no more than  *)
(* the task has had evidence for                                           *)
(***************************************************************************)

\* ev: the steps there is evidence for; ready: the row has been ready.
TrueSessions(ev, ready) ==
  {s \in Sessions :
     /\ IsReady(s) => ready
     /\ s.inst => "launch_instance" \in ev
     /\ s.ip => "assign_public_ip" \in ev
     /\ s.rcvd => Booting \subseteq ev}

\* What the page may hold, or be answered.
TrueBodies(ev, ready) == TrueSessions(ev, ready) \cup {NoSession}

TrueSteps(ev) ==
  {o \in [Steps -> StepStatuses \cup {None}] :
     \A id \in Steps : o[id] = "done" => id \in ev}

TrueEvents(ev, ready) ==
  {e \in Events :
     /\ e.type = "step" =>
          /\ e.step \in Steps /\ e.status \in StepStatuses
          /\ e.status = "done" => e.step \in ev
     /\ e.type = "progress" => e.step \in Steps
     /\ e.type = "ready" => ready
     /\ e.type = "status" =>
          /\ e.status \in Statuses
          /\ e.status \in {"ready", "running"} => ready}

TruePages(ev, ready) ==
  [view: TrueBodies(ev, ready), steps: TrueSteps(ev), told: BOOLEAN,
   refetch: BOOLEAN]

\* What is on its way to the page, in the streams' snapshots, in their events
\* and in answers, and what is on the page.
PageTrue(ev, ready, strm, q, r, v, o) ==
  /\ \A s \in Streams : strm[s].at = "reading" =>
       strm[s].snap \in TrueSessions(ev, ready)
  /\ q \in [Streams -> Seq(Seq(TrueEvents(ev, ready)))]
  /\ \A k \in Kinds : r[k].body \in TrueBodies(ev, ready)
  /\ v \in TrueBodies(ev, ready)
  /\ o \in TrueSteps(ev)

\* Everything there claims no more than the task has had evidence for.
PageInv ==
  /\ IsReady(row) => wasReady
  /\ wasReady => verified
  /\ srv = "marking" => verified
  /\ srv = "grading" => wasReady
  /\ row.status = "stopping" => srv = "stopping"
  /\ PageTrue(Evidence, wasReady, stream, queue, req, view, steps)

\* An answer has no session only if nobody asked with a token in its time.
Refusals ==
  \A k \in Kinds :
    req[k].at = "answered" /\ req[k].body = NoSession
      => k = "refetch" \/ (k = "read" /\ expired)

\* The rest of the types.
Control ==
  /\ srv \in {"idle", "probing", "marking", "stopping", "grading"}
  /\ es \in Streams \cup {None}
  /\ req \in [Kinds -> Requests]
  /\ loaded \in BOOLEAN
  /\ told \in BOOLEAN
  /\ faults \in 0..MaxFaults
  /\ wasReady \in BOOLEAN
  /\ verified \in BOOLEAN
  /\ expired \in BOOLEAN

(***************************************************************************)
(* Evidence                                                                *)
(***************************************************************************)

\* The set of steps goes with evidence for a ready session.
Sound(ev, ready) ==
  /\ ev \subseteq Steps
  /\ "create_session" \in ev
  /\ ready => ev = Steps
  /\ "ready" \in ev => ready

\* The steps by name, and the ones the host reports.
LEMMA StepNames ==
  /\ Steps = {"create_session", "launch_instance", "assign_public_ip",
              "bootstrap", "start_lab", "install_keys", "verify_ssh", "ready"}
  /\ \A i \in 1..8 : StepDefs[i] \in Steps
  /\ \A i \in 1..3 : BootSteps[i] \in Booting
  /\ Booting \subseteq Steps /\ "ready" \notin Booting
  /\ None \notin Steps /\ None \notin Statuses /\ None \notin StepStatuses
<1>1. \A i \in 1..8 : i = 1 \/ i = 2 \/ i = 3 \/ i = 4 \/ i = 5 \/ i = 6
                        \/ i = 7 \/ i = 8
  OBVIOUS
<1>2. Steps = {"create_session", "launch_instance", "assign_public_ip",
               "bootstrap", "start_lab", "install_keys", "verify_ssh", "ready"}
  BY <1>1 DEF Steps, StepDefs
<1>3. \A i \in 1..8 : StepDefs[i] \in Steps
  BY DEF Steps
<1>4. \A i \in 1..3 : BootSteps[i] \in Booting
  BY DEF BootSteps, Booting
<1>. QED  BY <1>2, <1>3, <1>4 DEF Booting, None, Statuses, StepStatuses

\* Evidence, as a function of the state it is taken from.
EvidenceOf(r, n, ready, login) ==
  {id \in Steps : ready \/ BaseStatus(r, id) = "done"}
    \cup {BootSteps[i] : i \in 1..(n - 1)}
    \cup {id \in {"verify_ssh"} : login}

\* Evidence is sound, and has what the row's fields and the log say.
LEMMA EvidenceSound ==
  ASSUME NEW r \in Sessions, NEW n \in 0..MaxLog, NEW ready \in BOOLEAN,
         NEW login \in BOOLEAN, IsReady(r) => ready
  PROVE  LET ev == EvidenceOf(r, n, ready, login)
         IN /\ Sound(ev, ready)
            /\ r \in TrueSessions(ev, ready)
            /\ \A i \in 1..(n - 1) : BootSteps[i] \in ev
            /\ login => "verify_ssh" \in ev
<1>. DEFINE ev == EvidenceOf(r, n, ready, login)
            said == {id \in Steps : ready \/ BaseStatus(r, id) = "done"}
            logged == {BootSteps[i] : i \in 1..(n - 1)}
            tried == {id \in {"verify_ssh"} : login}
<1>1. n \in Nat /\ n <= 3
  BY PageAssumption DEF PageAssumption
<1>2. logged \subseteq Booting
  <2>1. \A i \in 1..(n - 1) : i \in 1..3
    BY <1>1
  <2>. QED  BY <2>1, StepNames
<1>3. r # NoSession
  BY StepNames DEF Sessions, NoSession
<1>4. BaseStatus(r, "create_session") = "done"
  BY <1>3 DEF BaseStatus
<1>5. BaseStatus(r, "ready") = "done" => ready
  BY DEF BaseStatus
<1>6. /\ r.inst => BaseStatus(r, "launch_instance") = "done"
      /\ r.ip => BaseStatus(r, "assign_public_ip") = "done"
      /\ r.rcvd => \A id \in Booting : BaseStatus(r, id) = "done"
  BY DEF BaseStatus, Booting
<1>7. ev = said \cup logged \cup tried
  BY DEF EvidenceOf
<1>8. /\ tried \subseteq Steps /\ "ready" \notin tried
      /\ login => "verify_ssh" \in tried
  BY StepNames
<1>. HIDE DEF logged, tried, ev
<1>9. /\ ev \subseteq Steps /\ "create_session" \in ev
      /\ ready => ev = Steps
      /\ "ready" \in ev => ready
  BY <1>2, <1>4, <1>5, <1>7, <1>8, StepNames
<1>10. r \in TrueSessions(ev, ready)
  BY <1>6, <1>7, StepNames DEF TrueSessions
<1>. QED  BY <1>7, <1>8, <1>9, <1>10 DEF Sound, logged, ev

\* Nothing is taken back: the row's fields stay set, the log grows.
LEMMA EvidenceGrows ==
  ASSUME NEW r \in Sessions, NEW n \in Nat, NEW ready \in BOOLEAN,
         NEW login \in BOOLEAN,
         NEW r2 \in Sessions, NEW n2 \in Nat, NEW ready2 \in BOOLEAN,
         NEW login2 \in BOOLEAN, r.inst => r2.inst, r.ip => r2.ip, r.rcvd => r2.rcvd,
         n <= n2, IsReady(r) => ready, ready => ready2, login => login2
  PROVE  EvidenceOf(r, n, ready, login)
           \subseteq EvidenceOf(r2, n2, ready2, login2)
<1>1. r # NoSession /\ r2 # NoSession
  BY StepNames DEF Sessions, NoSession
<1>2. ASSUME NEW id \in Steps, BaseStatus(r, id) = "done", ~ready
      PROVE  BaseStatus(r2, id) = "done"
  BY <1>1, <1>2, StepNames DEF BaseStatus, Booting, IsReady
<1>3. \A i \in 1..(n - 1) : i \in 1..(n2 - 1)
  OBVIOUS
<1>. QED  BY <1>2, <1>3 DEF EvidenceOf

\* More evidence makes more of it true.
LEMMA TrueGrows ==
  ASSUME NEW ev, NEW ready, NEW ev2, NEW ready2,
         ev \subseteq ev2, ready => ready2
  PROVE  /\ TrueSessions(ev, ready) \subseteq TrueSessions(ev2, ready2)
         /\ TrueBodies(ev, ready) \subseteq TrueBodies(ev2, ready2)
         /\ TrueSteps(ev) \subseteq TrueSteps(ev2)
         /\ TrueEvents(ev, ready) \subseteq TrueEvents(ev2, ready2)
         /\ \A q \in Seq(Seq(TrueEvents(ev, ready))) :
              q \in Seq(Seq(TrueEvents(ev2, ready2)))
<1>1. TrueSessions(ev, ready) \subseteq TrueSessions(ev2, ready2)
  BY DEF TrueSessions
<1>2. TrueBodies(ev, ready) \subseteq TrueBodies(ev2, ready2)
  BY <1>1 DEF TrueBodies
<1>3. TrueSteps(ev) \subseteq TrueSteps(ev2)
  BY DEF TrueSteps
<1>4. TrueEvents(ev, ready) \subseteq TrueEvents(ev2, ready2)
  BY DEF TrueEvents
<1>5. ASSUME NEW S, NEW T, S \subseteq T  PROVE Seq(S) \subseteq Seq(T)
  BY <1>5
<1>6. Seq(Seq(TrueEvents(ev, ready))) \subseteq Seq(Seq(TrueEvents(ev2, ready2)))
  BY <1>4, <1>5, Zenon
<1>. QED  BY <1>1, <1>2, <1>3, <1>4, <1>6

(***************************************************************************)
(* The list of steps                                                       *)
(***************************************************************************)

\* A step that a true session has done is evident.
LEMMA BaseTrue ==
  ASSUME NEW ev, NEW ready, Sound(ev, ready),
         NEW s \in TrueBodies(ev, ready), NEW id \in Steps
  PROVE  /\ BaseStatus(s, id) \in StepStatuses
         /\ BaseStatus(s, id) = "done" => id \in ev
<1>. USE DEF BaseStatus, StepStatuses, Booting
<1>1. \/ id = "create_session" \/ id = "launch_instance"
      \/ id = "assign_public_ip" \/ id = "bootstrap" \/ id = "start_lab"
      \/ id = "install_keys" \/ id = "verify_ssh" \/ id = "ready"
  BY StepNames
<1>2. BaseStatus(s, id) \in StepStatuses
  BY <1>1
<1>3. CASE s \in TrueSessions(ev, ready)
  BY <1>1, <1>3, StepNames DEF TrueSessions, Sound
<1>4. CASE s = NoSession
  BY <1>1, <1>4, StepNames DEF NoSession, None, IsReady, Sound
<1>. QED  BY <1>2, <1>3, <1>4 DEF TrueBodies

\* deriveProvisioningSteps ticks only what the session or an override says is
\* done, and leaves one step active at most.
LEMMA DeriveTrue ==
  ASSUME NEW ev, NEW ready, Sound(ev, ready),
         NEW s \in TrueBodies(ev, ready), NEW o \in TrueSteps(ev)
  PROVE  LET list == Derive(s, o)
         IN /\ \A i \in 1..8 :
                 /\ list[i] \in StepStatuses
                 /\ list[i] = "done" => StepDefs[i] \in ev
            /\ \A i, j \in 1..8 :
                 list[i] = "active" /\ list[j] = "active" => i = j
<1>. DEFINE raw == [i \in 1..8 |->
              IF o[StepDefs[i]] # None THEN o[StepDefs[i]]
              ELSE BaseStatus(s, StepDefs[i])]
            fall == Waterfall(raw)
            First(i) == /\ fall[i] # "done"
                        /\ i # 8
                        /\ \A j \in 1..(i - 1) : fall[j] = "done"
            list == Derive(s, o)
<1>1. \A i \in 1..8 : /\ raw[i] \in StepStatuses
                      /\ raw[i] = "done" => StepDefs[i] \in ev
  BY BaseTrue, StepNames DEF TrueSteps
<1>2. list = [i \in 1..8 |->
                IF s.status = "failed" /\ First(i) THEN "failed" ELSE fall[i]]
  BY DEF Derive
<1>. HIDE DEF raw
<1>3. \A i \in 1..8 :
        fall[i] = IF raw[i] = "active" /\ \E j \in 1..(i - 1) : raw[j] = "active"
                  THEN "pending" ELSE raw[i]
  BY DEF Waterfall
<1>. HIDE DEF fall
<1>4. \A i \in 1..8 : /\ fall[i] \in StepStatuses
                      /\ fall[i] = "done" => StepDefs[i] \in ev
  BY <1>1, <1>3 DEF StepStatuses
<1>5. \A i, j \in 1..8 : fall[i] = "active" /\ fall[j] = "active" => ~(i < j)
  <2>. SUFFICES ASSUME NEW i \in 1..8, NEW j \in 1..8, i < j,
                       fall[i] = "active", fall[j] = "active"
                PROVE  FALSE
    OBVIOUS
  <2>1. raw[i] = "active" /\ i \in 1..(j - 1)
    BY <1>3
  <2>. QED  BY <1>3, <2>1
<1>. HIDE DEF First
<1>6. \A i \in 1..8 : list[i] \in {"failed", fall[i]}
  BY <1>2
<1>. HIDE DEF list
<1>7. \A i \in 1..8 : /\ list[i] \in StepStatuses
                      /\ list[i] = "done" => StepDefs[i] \in ev
  BY <1>4, <1>6 DEF StepStatuses
<1>8. \A i, j \in 1..8 : list[i] = "active" /\ list[j] = "active" => i = j
  <2>. SUFFICES ASSUME NEW i \in 1..8, NEW j \in 1..8,
                       list[i] = "active", list[j] = "active"
                PROVE  i = j
    OBVIOUS
  <2>1. fall[i] = "active" /\ fall[j] = "active"
    BY <1>6
  <2>2. ~(i < j) /\ ~(j < i)
    BY <1>5, <2>1
  <2>. QED  BY <2>2
<1>. QED  BY <1>7, <1>8 DEF list

(***************************************************************************)
(* Merging                                                                 *)
(***************************************************************************)

\* The page after setSession and the effect: true as what it is given.
LEMMA ShownTrue ==
  ASSUME NEW ev, NEW ready, Sound(ev, ready),
         NEW p \in TruePages(ev, ready), NEW s \in TrueBodies(ev, ready)
  PROVE  /\ Shown(p, s) \in TruePages(ev, ready)
         /\ Shown(p, s).view = s
<1>1. Inferred(s, p.steps) \in TrueSteps(ev)
  <2>1. \A id \in Steps :
          /\ Inferred(s, p.steps)[id] \in {"done", "active", p.steps[id]}
          /\ Inferred(s, p.steps)[id] = "done" =>
               \/ p.steps[id] = "done"
               \/ s.rcvd /\ id \in Booting
               \/ s.ip /\ id = "assign_public_ip"
               \/ s.status = "ready"
    BY DEF Inferred
  <2>2. DOMAIN Inferred(s, p.steps) = Steps
        /\ Inferred(s, p.steps) = [id \in Steps |-> Inferred(s, p.steps)[id]]
    BY DEF Inferred
  <2>3. /\ s.rcvd => Booting \subseteq ev
        /\ s.ip => "assign_public_ip" \in ev
        /\ s.status = "ready" => ev = Steps
    BY DEF TrueBodies, TrueSessions, NoSession, None, IsReady, Sound
  <2>4. p.steps \in [Steps -> StepStatuses \cup {None}]
        /\ \A id \in Steps : p.steps[id] = "done" => id \in ev
    BY DEF TruePages, TrueSteps
  <2>. HIDE DEF Inferred
  <2>5. \A id \in Steps :
          /\ Inferred(s, p.steps)[id] \in StepStatuses \cup {None}
          /\ Inferred(s, p.steps)[id] = "done" => id \in ev
    BY <2>1, <2>3, <2>4 DEF StepStatuses
  <2>. QED  BY <2>2, <2>5 DEF TrueSteps
<1>2. \E o \in TrueSteps(ev) : Shown(p, s) = [p EXCEPT !.view = s, !.steps = o]
  BY <1>1 DEF Shown, TruePages
<1>. QED  BY <1>2 DEF TruePages

\* One event of the stream: true as the event.
LEMMA OnMessageTrue ==
  ASSUME NEW ev, NEW ready, Sound(ev, ready),
         NEW p \in TruePages(ev, ready), NEW e \in TrueEvents(ev, ready)
  PROVE  /\ OnMessage(p, e) \in TruePages(ev, ready)
         /\ p.view # NoSession => OnMessage(p, e).view # NoSession
<1>. DEFINE P == TruePages(ev, ready)
<1>0. e.type \in {"step", "progress", "status", "ready", "error"}
  BY DEF TrueEvents, Events
<1>1. ASSUME NEW id \in Steps, NEW st \in StepStatuses, st = "done" => id \in ev
      PROVE  [p EXCEPT !.steps[id] = st] \in P
             /\ [p EXCEPT !.steps[id] = st].view = p.view
  BY <1>1 DEF TruePages, TrueSteps
<1>2. ASSUME NEW q \in P
      PROVE  /\ \A b \in BOOLEAN : [q EXCEPT !.told = b] \in P
             /\ \A b \in BOOLEAN : [q EXCEPT !.refetch = b] \in P
             /\ \A b \in BOOLEAN : [q EXCEPT !.told = b].view = q.view
             /\ \A b \in BOOLEAN : [q EXCEPT !.refetch = b].view = q.view
             /\ q.refetch \in BOOLEAN
  BY DEF TruePages
<1>3. ASSUME p.view # NoSession, NEW st \in Statuses,
             st \in {"ready", "running"} => ready
      PROVE  /\ [p.view EXCEPT !.status = st] \in TrueBodies(ev, ready)
             /\ [p.view EXCEPT !.status = st] # NoSession
  <2>1. p.view \in TrueSessions(ev, ready)
    BY <1>3 DEF TruePages, TrueBodies
  <2>2. [p.view EXCEPT !.status = st] \in TrueSessions(ev, ready)
    BY <1>3, <2>1 DEF TrueSessions, Sessions, IsReady
  <2>3. [p.view EXCEPT !.status = st].status \in Statuses
    BY <2>2 DEF TrueSessions, Sessions
  <2>. QED  BY <2>2, <2>3, StepNames DEF TrueBodies, NoSession
<1>4. CASE e.type = "step"
  <2>1. OnMessage(p, e) = [p EXCEPT !.steps[e.step] = e.status]
    BY <1>4 DEF OnMessage
  <2>2. /\ e.step \in Steps /\ e.status \in StepStatuses
        /\ e.status = "done" => e.step \in ev
    BY <1>4 DEF TrueEvents
  <2>. QED  BY <1>1, <2>1, <2>2
<1>5. CASE e.type = "progress"
  <2>1. OnMessage(p, e) = [p EXCEPT !.steps[e.step] = "active"]
    BY <1>5 DEF OnMessage
  <2>2. e.step \in Steps /\ "active" \in StepStatuses
    BY <1>5 DEF TrueEvents, StepStatuses
  <2>. QED  BY <1>1, <2>1, <2>2
<1>6. CASE e.type = "ready"
  <2>. DEFINE s == [p.view EXCEPT !.status = "ready", !.ip = TRUE]
              q == IF p.view = NoSession THEN p ELSE Shown(p, s)
  <2>1. OnMessage(p, e) = [q EXCEPT !.told = FALSE]
    BY <1>6 DEF OnMessage
  <2>2. ready
    BY <1>6 DEF TrueEvents
  <2>3. ASSUME p.view # NoSession
        PROVE  s \in TrueBodies(ev, ready) /\ s # NoSession
    <3>1. p.view \in TrueSessions(ev, ready)
      BY <2>3 DEF TruePages, TrueBodies
    <3>2. s \in TrueSessions(ev, ready) /\ s.status = "ready"
      BY <2>2, <3>1, StepNames DEF TrueSessions, Sessions, Statuses, Sound
    <3>. QED  BY <3>2 DEF TrueBodies, NoSession, None
  <2>. HIDE DEF s
  <2>4. q \in P /\ (p.view # NoSession => q.view # NoSession)
    BY <2>3, ShownTrue
  <2>. HIDE DEF q
  <2>. QED  BY <1>2, <2>1, <2>4
<1>7. CASE e.type = "status"
  <2>. DEFINE s == [p.view EXCEPT !.status = e.status]
              q == IF p.view = NoSession THEN p ELSE Shown(p, s)
  <2>1. OnMessage(p, e) = [q EXCEPT !.refetch = @ \/ e.status = "ready"]
    BY <1>7 DEF OnMessage
  <2>2. /\ e.status \in Statuses
        /\ e.status \in {"ready", "running"} => ready
    BY <1>7 DEF TrueEvents
  <2>3. p.view # NoSession => s \in TrueBodies(ev, ready) /\ s # NoSession
    BY <1>3, <2>2
  <2>. HIDE DEF s
  <2>4. q \in P /\ (p.view # NoSession => q.view # NoSession)
    BY <2>3, ShownTrue
  <2>. HIDE DEF q
  <2>5. (q.refetch \/ e.status = "ready") \in BOOLEAN
    BY Zenon
  <2>6. OnMessage(p, e) = [q EXCEPT !.refetch = (q.refetch \/ e.status = "ready")]
    BY <2>1
  <2>. QED  BY <1>2, <2>4, <2>5, <2>6
<1>8. CASE e.type = "error"
  <2>1. OnMessage(p, e) = [p EXCEPT !.told = FALSE]
    BY <1>8 DEF OnMessage
  <2>. QED  BY <1>2, <2>1
<1>. QED  BY <1>0, <1>4, <1>5, <1>6, <1>7, <1>8

\* The recursion of After has a solution, and After takes it.
LEMMA AfterSteps ==
  ASSUME NEW burst, Len(burst) \in Nat
  PROVE  \E f : /\ f[0] = {Page}
                /\ \A i \in 1..Len(burst) :
                     f[i] = {OnMessage(p, burst[i]) : p \in f[i - 1]}
                /\ After(burst) = f[Len(burst)]
<1>. DEFINE Fold(g, n) ==
              g = [i \in 0..n |->
                     IF i = 0 THEN {Page}
                     ELSE {OnMessage(p, burst[i]) : p \in g[i - 1]}]
            T == {n \in Nat : \E g : Fold(g, n)}
<1>1. 0 \in T
  <2>1. Fold([i \in 0..0 |-> {Page}], 0)
    OBVIOUS
  <2>. QED  BY <2>1
<1>2. ASSUME NEW n \in Nat, n \in T  PROVE n + 1 \in T
  <2>1. PICK g : Fold(g, n)
    BY <1>2
  <2>. DEFINE h == [i \in 0..(n + 1) |->
                      IF i = n + 1 THEN {OnMessage(p, burst[i]) : p \in g[n]}
                      ELSE g[i]]
  <2>2. \A i \in 0..n : h[i] = g[i]
    OBVIOUS
  <2>3. Fold(h, n + 1)
    <3>1. ASSUME NEW i \in 0..(n + 1)
          PROVE  h[i] = IF i = 0 THEN {Page}
                        ELSE {OnMessage(p, burst[i]) : p \in h[i - 1]}
      <4>1. CASE i = n + 1
        <5>1. i # 0 /\ i - 1 = n /\ h[i - 1] = g[n]
          BY <2>2, <4>1
        <5>. QED  BY <4>1, <5>1
      <4>2. CASE i # n + 1
        <5>1. i \in 0..n /\ h[i] = g[i]
          BY <2>2, <4>2
        <5>2. g[i] = IF i = 0 THEN {Page}
                     ELSE {OnMessage(p, burst[i]) : p \in g[i - 1]}
          BY <2>1, <5>1
        <5>3. i # 0 => h[i - 1] = g[i - 1]
          BY <2>2, <5>1
        <5>. QED  BY <5>1, <5>2, <5>3
      <4>. QED  BY <4>1, <4>2
    <3>2. h = [i \in 0..(n + 1) |-> h[i]]
      OBVIOUS
    <3>. HIDE DEF h
    <3>. QED  BY <3>1, <3>2
  <2>4. \E k : Fold(k, n + 1)
    <3>. HIDE DEF h, Fold
    <3>. QED  BY <2>3
  <2>. HIDE DEF Fold
  <2>. QED  BY <2>4
<1>3. \E g : Fold(g, Len(burst))
  <2>1. Nat \subseteq T
    <3>. HIDE DEF T
    <3>. QED  BY <1>1, <1>2, SetInduction
  <2>. QED  BY <2>1
<1>. DEFINE f == CHOOSE g : Fold(g, Len(burst))
<1>4. Fold(f, Len(burst))
  <2>. HIDE DEF Fold
  <2>. QED  BY <1>3
<1>5. After(burst) = f[Len(burst)]
  BY DEF After
<1>. HIDE DEF f
<1>6. ASSUME NEW i \in 0..Len(burst)
      PROVE  f[i] = IF i = 0 THEN {Page}
                    ELSE {OnMessage(p, burst[i]) : p \in f[i - 1]}
  BY <1>4, Zenon
<1>7. f[0] = {Page}
  <2>1. 0 \in 0..Len(burst)
    OBVIOUS
  <2>. QED  BY <1>6, <2>1, Zenon
<1>8. ASSUME NEW i \in 1..Len(burst)
      PROVE  f[i] = {OnMessage(p, burst[i]) : p \in f[i - 1]}
  <2>1. i \in 0..Len(burst) /\ i # 0
    OBVIOUS
  <2>. QED  BY <1>6, <2>1, Zenon
<1>. QED  BY <1>5, <1>7, <1>8, Zenon

\* What every event of a burst keeps, the burst keeps.
LEMMA AfterKeeps ==
  ASSUME NEW burst, Len(burst) \in Nat, NEW P, Page \in P,
         \A i \in 1..Len(burst) : \A p \in P : OnMessage(p, burst[i]) \in P
  PROVE  After(burst) \subseteq P
<1>1. PICK f : /\ f[0] = {Page}
               /\ \A i \in 1..Len(burst) :
                    f[i] = {OnMessage(p, burst[i]) : p \in f[i - 1]}
               /\ After(burst) = f[Len(burst)]
  BY AfterSteps
<1>. DEFINE T == {n \in Nat : n <= Len(burst) => f[n] \subseteq P}
<1>2. 0 \in T
  BY <1>1
<1>3. ASSUME NEW n \in Nat, n \in T  PROVE n + 1 \in T
  <2>. SUFFICES ASSUME n + 1 <= Len(burst)  PROVE f[n + 1] \subseteq P
    OBVIOUS
  <2>1. f[n] \subseteq P /\ n + 1 \in 1..Len(burst)
    BY <1>3
  <2>2. f[n + 1] = {OnMessage(p, burst[n + 1]) : p \in f[n]}
    BY <1>1, <2>1
  <2>. QED  BY <2>1, <2>2
<1>4. Nat \subseteq T
  <2>. HIDE DEF T
  <2>. QED  BY <1>2, <1>3, SetInduction
<1>. QED  BY <1>1, <1>4

(***************************************************************************)
(* Bursts                                                                  *)
(***************************************************************************)

\* What makes an event true.
LEMMA EventTrue ==
  ASSUME NEW ev, NEW ready
  PROVE  /\ \A id \in Steps, st \in StepStatuses :
              (st = "done" => id \in ev)
                => StepEvent(id, st) \in TrueEvents(ev, ready)
         /\ \A id \in Steps :
              Event("progress", id, None) \in TrueEvents(ev, ready)
         /\ \A st \in Statuses :
              (st \in {"ready", "running"} => ready)
                => StatusEvent(st) \in TrueEvents(ev, ready)
         /\ ready => ReadyEvent \in TrueEvents(ev, ready)
         /\ ErrorEvent \in TrueEvents(ev, ready)
  BY DEF TrueEvents, Events, Event, StepEvent, StatusEvent, ReadyEvent,
         ErrorEvent

\* What a stream sends before it subscribes says what its snapshot says.
LEMMA SnapshotTrue ==
  ASSUME NEW ev, NEW ready, Sound(ev, ready),
         NEW s \in TrueSessions(ev, ready), NEW n \in 0..3
  PROVE  Snapshot(s, n) \in Seq(TrueEvents(ev, ready))
<1>. DEFINE E == TrueEvents(ev, ready)
            list == Derive(s, NoOverrides)
            Told(i) == IF list[i] = "pending" THEN <<>>
                       ELSE <<StepEvent(StepDefs[i], list[i])>>
            first == <<StatusEvent(s.status)>>
            logged == [i \in 1..n |-> Event("progress", BootSteps[i], None)]
            last == IF s.status = "ready" /\ s.ip THEN <<ReadyEvent>> ELSE <<>>
<1>1. first \in Seq(E)
  <2>1. /\ s.status \in Statuses
        /\ s.status \in {"ready", "running"} => ready
    BY DEF TrueSessions, Sessions, IsReady
  <2>2. StatusEvent(s.status) \in E
    BY <2>1, EventTrue
  <2>. HIDE DEF E
  <2>. QED  BY <2>2
<1>2. \A i \in 1..8 : Told(i) \in Seq(E)
  <2>. SUFFICES ASSUME NEW i \in 1..8  PROVE Told(i) \in Seq(E)
    OBVIOUS
  <2>1. NoOverrides \in TrueSteps(ev)
    BY DEF NoOverrides, TrueSteps, None
  <2>2. list[i] \in StepStatuses /\ (list[i] = "done" => StepDefs[i] \in ev)
    BY <2>1, DeriveTrue DEF TrueBodies
  <2>3. StepEvent(StepDefs[i], list[i]) \in E
    BY <2>2, StepNames, EventTrue
  <2>. HIDE DEF E, list
  <2>. QED  BY <2>3
<1>3. logged \in Seq(E)
  <2>1. \A i \in 1..n : Event("progress", BootSteps[i], None) \in E
    <3>1. \A i \in 1..n : BootSteps[i] \in Steps
      <4>1. \A i \in 1..n : i \in 1..3
        OBVIOUS
      <4>. QED  BY <4>1, StepNames
    <3>. QED  BY <3>1, EventTrue
  <2>2. n \in Nat
    OBVIOUS
  <2>. HIDE DEF E
  <2>. QED  BY <2>1, <2>2
<1>4. last \in Seq(E)
  <2>1. s.status = "ready" => ready
    BY DEF TrueSessions, IsReady
  <2>2. ready => ReadyEvent \in E
    BY EventTrue
  <2>. HIDE DEF E
  <2>. QED  BY <2>1, <2>2
<1>5. Snapshot(s, n) =
        first \o Told(1) \o Told(2) \o Told(3) \o Told(4)
              \o Told(5) \o Told(6) \o Told(7) \o Told(8) \o logged \o last
  BY DEF Snapshot
<1>6. /\ Told(1) \in Seq(E) /\ Told(2) \in Seq(E) /\ Told(3) \in Seq(E)
      /\ Told(4) \in Seq(E) /\ Told(5) \in Seq(E) /\ Told(6) \in Seq(E)
      /\ Told(7) \in Seq(E) /\ Told(8) \in Seq(E)
  <2>. HIDE DEF Told
  <2>. QED  BY <1>2
<1>. HIDE DEF E, list, Told, first, logged, last
<1>. QED  BY <1>1, <1>3, <1>4, <1>5, <1>6 DEF E

\* A publish hands on what it is given.
LEMMA PublishTrue ==
  ASSUME NEW E, queue \in [Streams -> Seq(Seq(E))],
         NEW burst \in Seq(E), Publish(burst)
  PROVE  queue' \in [Streams -> Seq(Seq(E))]
<1>1. \A s \in Streams : Append(queue[s], burst) \in Seq(Seq(E))
  OBVIOUS
<1>. QED  BY <1>1 DEF Publish

(***************************************************************************)
(* The row                                                                 *)
(***************************************************************************)

\* No step takes back what the row or the log says, and none makes the row
\* ready without the history knowing of it.
RowKept ==
  /\ row.inst => row'.inst
  /\ row.ip => row'.ip
  /\ row.rcvd => row'.rcvd
  /\ log <= log'
  /\ wasReady => wasReady'
  /\ wasReady' \in BOOLEAN
  /\ IsReady(row') => wasReady'
  /\ row'.status = "stopping" => srv' = "stopping"
  /\ srv' \in {"idle", "probing", "marking", "stopping", "grading"}
  /\ verified => verified'
  /\ verified' \in BOOLEAN
  /\ wasReady' => verified'
  /\ srv' = "marking" => verified'
  /\ srv' = "grading" => wasReady'

\* The task's work, where it is about a row that has not been asked to stop.
LEMMA WorkKeeps ==
  ASSUME log \in Nat, wasReady \in BOOLEAN, verified \in BOOLEAN,
         wasReady => verified,
         NEW new \in Sessions, NEW burst,
         NEW next \in {"idle", "probing", "marking", "stopping", "grading"},
         row.inst => new.inst, row.ip => new.ip, row.rcvd => new.rcvd,
         new.status = "running" => wasReady,
         new.status = "ready" => verified,
         new.status = "stopping" => next = "stopping",
         next = "grading" => wasReady,
         TaskWork(new, burst, next)
  PROVE  RowKept
<1>1. /\ row' = new /\ srv' = next /\ log' = log
      /\ wasReady' = (wasReady \/ new.status = "ready")
      /\ verified' = (verified \/ next = "marking")
  BY DEF TaskWork, Write
<1>2. /\ wasReady => wasReady'
      /\ wasReady' \in BOOLEAN
      /\ IsReady(row') => wasReady'
  BY <1>1 DEF IsReady
<1>3. log <= log'
  BY <1>1
<1>4. /\ verified => verified'
      /\ verified' \in BOOLEAN
      /\ wasReady' => verified'
      /\ srv' = "marking" => verified'
  BY <1>1
<1>. QED  BY <1>1, <1>2, <1>3, <1>4 DEF RowKept

LEMMA RowStep ==
  ASSUME BusInv, Control, PageInv, Next
  PROVE  RowKept
<1>1. /\ row \in Sessions /\ log \in Nat /\ wasReady \in BOOLEAN
      /\ verified \in BOOLEAN
      /\ row.status = "running" => wasReady
      /\ row.status = "ready" => verified
      /\ wasReady => verified
      /\ srv = "marking" => verified
      /\ srv = "grading" => wasReady
      /\ srv # "stopping" => row.status # "stopping"
      /\ srv \in {"idle", "probing", "marking", "stopping", "grading"}
      /\ IsReady(row) => wasReady
  BY PageAssumption DEF BusInv, Control, PageInv, IsReady, PageAssumption
<1>2. /\ \A new, burst, next :
           TaskStep(new, burst, next) => TaskWork(new, burst, next)
      /\ \A new, burst : Rejected(new, burst) => TaskWork(new, burst, "idle")
  BY DEF TaskStep, Rejected
<1>3. ASSUME UNCHANGED <<row, srv, verified, wasReady>>,
             log' \in {log, log + 1}
      PROVE  RowKept
  BY <1>1, <1>3 DEF RowKept, PageInv
<1>4. /\ [row EXCEPT !.ip = TRUE] \in Sessions
      /\ [row EXCEPT !.rcvd = TRUE, !.ip = TRUE] \in Sessions
      /\ [row EXCEPT !.rcvd = TRUE] \in Sessions
      /\ [row EXCEPT !.sshErr = TRUE] \in Sessions
      /\ [row EXCEPT !.sshErr = FALSE] \in Sessions
      /\ [row EXCEPT !.status = "ready", !.sshErr = FALSE] \in Sessions
      /\ \A st \in Statuses : [row EXCEPT !.status = st] \in Sessions
  BY <1>1 DEF Sessions, Statuses
<1>5. "stopping" \in Statuses /\ "stopped" \in Statuses
      /\ "running" \in Statuses /\ "ready" \in Statuses
  BY DEF Statuses
<1>. USE <1>1, <1>2, <1>4, <1>5, WorkKeeps DEF Sessions
<1>6. CASE RefreshIp  BY <1>6 DEF RefreshIp
<1>7. CASE HostProgress  BY <1>3, <1>7 DEF HostProgress
<1>8. CASE HostReady
  <2>. DEFINE addr == [row EXCEPT !.rcvd = TRUE, !.ip = TRUE]
              mark == [row EXCEPT !.rcvd = TRUE]
  <2>1. row.status # "stopping" /\ srv = "idle"
    BY <1>8 DEF HostReady
  <2>2. ASSUME NEW new \in {addr, mark}, NEW burst,
               NEW next \in {"idle", "probing"}, TaskWork(new, burst, next)
        PROVE  RowKept
    <3>1. /\ row.inst => new.inst
          /\ row.ip => new.ip
          /\ row.rcvd => new.rcvd
          /\ new.status = row.status
          /\ new \in Sessions
      BY <2>2
    <3>2. next \in {"idle", "probing", "marking", "stopping", "grading"}
          /\ next # "grading"
      BY <2>2
    <3>. HIDE DEF addr, mark
    <3>. QED  BY <2>1, <2>2, <3>1, <3>2
  <2>3. \/ \E burst : TaskStep(addr, burst, "idle") \/ TaskStep(addr, burst, "probing")
        \/ \E burst : Rejected(mark, burst)
    BY <1>8 DEF HostReady
  <2>. HIDE DEF addr, mark
  <2>. QED  BY <1>2, <2>2, <2>3
<1>9. CASE Probe  BY <1>9 DEF Probe
<1>10. CASE ProbeFails  BY <1>10 DEF ProbeFails
<1>11. CASE ProbeSucceeds  BY <1>11 DEF ProbeSucceeds
<1>21. CASE ReadyWritten
  <2>. DEFINE new == [row EXCEPT !.status = "ready", !.sshErr = FALSE]
  <2>1. verified /\ TaskWork(new, ReadyBurst, "idle")
    BY <1>21 DEF ReadyWritten
  <2>2. /\ new.inst = row.inst /\ new.ip = row.ip /\ new.rcvd = row.rcvd
        /\ new.status = "ready" /\ new \in Sessions
    OBVIOUS
  <2>. HIDE DEF new
  <2>. QED  BY <2>1, <2>2
<1>22. CASE ReadyLost  BY <1>22 DEF ReadyLost
<1>12. CASE ShutDown  BY <1>12 DEF ShutDown
<1>13. CASE ShutDownEnds  BY <1>13 DEF ShutDownEnds
<1>14. CASE GradeEnds  BY <1>14 DEF GradeEnds
<1>15. CASE \E s \in Streams : Subscribe(s) \/ Abort(s) \/ Cancel(s)
  BY <1>3, <1>15 DEF Subscribe, Abort, Cancel, serverVars
<1>16. CASE Load \/ Poll
  BY <1>3, <1>16 DEF Load, Poll, Read, serverVars
<1>17. CASE RequestGrade
  <2>1. CASE GradeLost \/ GradeRefused
    BY <1>3, <2>1 DEF GradeLost, GradeRefused, serverVars
  <2>2. CASE GradeStarts
    <3>1. row.status \in {"ready", "running"}
      BY <1>17, <2>2 DEF RequestGrade, GradeStarts, Statuses
    <3>. QED  BY <2>2, <3>1 DEF GradeStarts, IsReady
  <2>. QED  BY <1>17, <2>1, <2>2 DEF RequestGrade
<1>18. CASE Stop
  BY <1>3, <1>18 DEF Stop, serverVars
<1>19. CASE Receive \/ LoseStop \/ Expire \/ \E k \in Kinds : ApplyAnswer(k)
  BY <1>3, <1>19 DEF Receive, LoseStop, ApplyAnswer, Expire, serverVars
<1>20. CASE Connect \/ Drop \/ Reload
  BY <1>3, <1>20 DEF Connect, Drop, Reload, serverVars
<1>. QED
  BY <1>6, <1>7, <1>8, <1>9, <1>10, <1>11, <1>21, <1>22, <1>12, <1>13, <1>14,
     <1>15, <1>16, <1>17, <1>18, <1>19, <1>20 DEF Next, Task, Browser

\* A step adds to the evidence, and what is on its way or on the page is as
\* true as before.
LEMMA EvidenceStep ==
  ASSUME BusInv, Control, PageInv, BusInv', RowKept
  PROVE  /\ Sound(Evidence', wasReady')
         /\ row \in TrueSessions(Evidence', wasReady')
         /\ row' \in TrueSessions(Evidence', wasReady')
         /\ \A i \in 1..(log' - 1) : BootSteps[i] \in Evidence'
         /\ verified' => "verify_ssh" \in Evidence'
         /\ PageTrue(Evidence', wasReady', stream, queue, req, view, steps)
<1>1. /\ Evidence = EvidenceOf(row, log, wasReady, verified)
      /\ Evidence' = EvidenceOf(row', log', wasReady', verified')
  BY DEF Evidence, EvidenceOf
<1>2. /\ row \in Sessions /\ row' \in Sessions
      /\ log \in 0..MaxLog /\ log' \in 0..MaxLog
      /\ wasReady \in BOOLEAN /\ wasReady' \in BOOLEAN
      /\ IsReady(row) => wasReady
      /\ IsReady(row') => wasReady'
      /\ wasReady => wasReady'
      /\ verified \in BOOLEAN /\ verified' \in BOOLEAN
      /\ verified => verified'
  BY DEF BusInv, Control, PageInv, RowKept
<1>3. log \in Nat /\ log' \in Nat
  BY <1>2, PageAssumption DEF PageAssumption
<1>4. /\ row.inst => row'.inst
      /\ row.ip => row'.ip
      /\ row.rcvd => row'.rcvd
      /\ log <= log'
  BY DEF RowKept
<1>5. Evidence \subseteq Evidence'
  BY <1>1, <1>2, <1>3, <1>4, EvidenceGrows
<1>6. /\ Sound(Evidence', wasReady')
      /\ row' \in TrueSessions(Evidence', wasReady')
      /\ \A i \in 1..(log' - 1) : BootSteps[i] \in Evidence'
      /\ verified' => "verify_ssh" \in Evidence'
  BY <1>1, <1>2, EvidenceSound
<1>7. row \in TrueSessions(Evidence, wasReady)
  BY <1>1, <1>2, EvidenceSound
<1>8. /\ TrueSessions(Evidence, wasReady) \subseteq TrueSessions(Evidence', wasReady')
      /\ TrueBodies(Evidence, wasReady) \subseteq TrueBodies(Evidence', wasReady')
      /\ TrueSteps(Evidence) \subseteq TrueSteps(Evidence')
      /\ \A q \in Seq(Seq(TrueEvents(Evidence, wasReady))) :
           q \in Seq(Seq(TrueEvents(Evidence', wasReady')))
  BY <1>2, <1>5, TrueGrows
<1>9. PageTrue(Evidence', wasReady', stream, queue, req, view, steps)
  BY <1>8 DEF PageInv, PageTrue
<1>. QED  BY <1>6, <1>7, <1>8, <1>9

(***************************************************************************)
(* What each step does to the page and to what is on its way               *)
(***************************************************************************)

\* The task's work: every event it publishes is true by then.
LEMMA TaskTrue ==
  ASSUME BusInv, BusInv', req \in [Kinds -> Requests],
         NEW ev, NEW ready, Sound(ev, ready),
         PageTrue(ev, ready, stream, queue, req, view, steps),
         row \in TrueSessions(ev, ready), row' \in TrueSessions(ev, ready),
         \A i \in 1..(log' - 1) : BootSteps[i] \in ev,
         verified' => "verify_ssh" \in ev,
         \/ RefreshIp \/ HostProgress \/ HostReady
         \/ Probe \/ ProbeFails \/ ProbeSucceeds
         \/ ReadyWritten \/ ReadyLost
         \/ ShutDown \/ ShutDownEnds \/ GradeEnds
         \/ RequestGrade \/ Stop
  PROVE  PageTrue(ev, ready, stream', queue', req', view', steps')
<1>. DEFINE E == TrueEvents(ev, ready)
            Moved(k) ==
              \/ req'[k] = req[k]
              \/ req'[k].at = "busy" /\ req'[k].body = req[k].body
              \/ req'[k].body \in {row, row'}
<1>1. ASSUME NEW burst \in Seq(E), Publish(burst)
      PROVE  queue' \in [Streams -> Seq(Seq(E))]
  BY <1>1, PublishTrue DEF PageTrue
<1>2. ASSUME queue' \in [Streams -> Seq(Seq(E))],
             UNCHANGED <<stream, view, steps>>,
             req' = req \/ \A k \in Kinds : Moved(k)
      PROVE  PageTrue(ev, ready, stream', queue', req', view', steps')
  <2>1. row \in TrueBodies(ev, ready) /\ row' \in TrueBodies(ev, ready)
    BY DEF TrueBodies
  <2>2. \A k \in Kinds : req'[k].body \in TrueBodies(ev, ready)
    <3>1. \A k \in Kinds : req[k].body \in TrueBodies(ev, ready)
      BY DEF PageTrue
    <3>. QED  BY <1>2, <2>1, <3>1
  <2>. QED  BY <1>2, <2>2 DEF PageTrue
<1>3. /\ \A id \in Steps, st \in StepStatuses :
           (st = "done" => id \in ev) => StepEvent(id, st) \in E
      /\ \A id \in Steps : Event("progress", id, None) \in E
      /\ \A st \in Statuses :
           (st \in {"ready", "running"} => ready) => StatusEvent(st) \in E
      /\ ready => ReadyEvent \in E
      /\ ErrorEvent \in E
  BY EventTrue
<1>4. /\ "active" \in StepStatuses /\ "done" \in StepStatuses
      /\ "failed" \in StepStatuses /\ "stopped" \in Statuses
      /\ "running" \in Statuses /\ "ready" \in Statuses
  BY DEF StepStatuses, Statuses
<1>5. /\ row'.ip => "assign_public_ip" \in ev
      /\ row'.rcvd => Booting \subseteq ev
      /\ row'.status \in {"ready", "running"} => ready
  BY DEF TrueSessions, IsReady
<1>6. row \in Sessions /\ row' \in Sessions
  BY DEF TrueSessions
<1>. HIDE DEF E
<1>7. CASE RefreshIp
  <2>1. row' = [row EXCEPT !.ip = TRUE]
    BY <1>7 DEF RefreshIp, TaskStep, TaskWork, Write
  <2>2. <<StepEvent("assign_public_ip", "done")>> \in Seq(E)
    BY <1>3, <1>4, <1>5, <1>6, <2>1, StepNames DEF Sessions
  <2>. QED
    BY <1>1, <1>2, <1>7, <2>2
       DEF RefreshIp, TaskStep, TaskWork, Write, pageVars
<1>8. CASE HostProgress
  <2>. DEFINE done == [i \in 1..log |-> StepEvent(BootSteps[i], "done")]
              now == <<StepEvent(BootSteps[log'], "active"),
                       Event("progress", BootSteps[log'], None)>>
  <2>1. log \in Nat /\ log' = log + 1 /\ log' \in 1..3
    BY <1>8, PageAssumption DEF HostProgress, BusInv, PageAssumption
  <2>2. \A i \in 1..log : StepEvent(BootSteps[i], "done") \in E
    <3>1. \A i \in 1..log : i \in 1..(log' - 1) /\ i \in 1..3
      BY <2>1
    <3>2. \A i \in 1..log : BootSteps[i] \in Steps /\ BootSteps[i] \in ev
      BY <3>1, StepNames
    <3>. QED  BY <1>3, <1>4, <3>2
  <2>3. done \in Seq(E)
    BY <2>1, <2>2
  <2>4. now \in Seq(E)
    <3>1. BootSteps[log'] \in Steps
      BY <2>1, StepNames
    <3>2. /\ StepEvent(BootSteps[log'], "active") \in E
          /\ Event("progress", BootSteps[log'], None) \in E
      BY <1>3, <1>4, <3>1
    <3>. QED  BY <3>2
  <2>5. Publish(done \o now)
    BY <1>8 DEF HostProgress
  <2>. HIDE DEF done, now
  <2>6. done \o now \in Seq(E)
    BY <2>3, <2>4
  <2>. QED  BY <1>1, <1>2, <1>8, <2>5, <2>6 DEF HostProgress, pageVars
<1>9. CASE HostReady
  <2>. DEFINE done == [i \in 1..3 |-> StepEvent(BootSteps[i], "done")]
              next == IF row.status \in {"ready", "stopped"} THEN <<>>
                      ELSE <<StepEvent("verify_ssh", "active")>>
  <2>1. \/ row' = [row EXCEPT !.rcvd = TRUE, !.ip = TRUE]
        \/ row' = [row EXCEPT !.rcvd = TRUE]
    BY <1>9 DEF HostReady, TaskStep, Rejected, TaskWork, Write
  <2>2. Booting \subseteq ev
    BY <1>5, <1>6, <2>1 DEF Sessions
  <2>3. \A i \in 1..3 : StepEvent(BootSteps[i], "done") \in E
    BY <1>3, <1>4, <2>2, StepNames
  <2>4. done \in Seq(E)
    BY <2>3
  <2>5. next \in Seq(E)
    <3>1. StepEvent("verify_ssh", "active") \in E
      BY <1>3, <1>4, StepNames
    <3>. QED  BY <3>1
  <2>6. /\ Publish(done \o next) \/ Publish(done)
        /\ UNCHANGED <<stream, view, steps, req>>
    BY <1>9 DEF HostReady, TaskStep, Rejected, TaskWork, Write, pageVars
  <2>. HIDE DEF done, next
  <2>7. done \o next \in Seq(E)
    BY <2>4, <2>5
  <2>. QED  BY <1>1, <1>2, <2>4, <2>6, <2>7
<1>10. CASE Probe \/ ProbeFails
  <2>1. /\ <<StepEvent("verify_ssh", "active")>> \in Seq(E)
        /\ <<StepEvent("verify_ssh", "failed")>> \in Seq(E)
        /\ <<StepEvent("verify_ssh", "failed"), ErrorEvent>> \in Seq(E)
    BY <1>3, <1>4, StepNames
  <2>. QED
    BY <1>1, <1>2, <1>10, <2>1
       DEF Probe, ProbeFails, TaskStep, Rejected, TaskWork, Write, pageVars
<1>11. CASE ProbeSucceeds
  <2>1. "verify_ssh" \in ev
    BY <1>11 DEF ProbeSucceeds, TaskStep, TaskWork
  <2>2. <<StepEvent("verify_ssh", "done")>> \in Seq(E)
    <3>1. StepEvent("verify_ssh", "done") \in E
      BY <1>3, <1>4, <2>1, StepNames
    <3>. QED  BY <3>1
  <2>. QED
    BY <1>1, <1>2, <1>11, <2>2
       DEF ProbeSucceeds, TaskStep, TaskWork, Write, pageVars
<1>17. CASE ReadyWritten
  <2>1. row' = [row EXCEPT !.status = "ready", !.sshErr = FALSE]
    BY <1>17 DEF ReadyWritten, TaskStep, TaskWork, Write
  <2>2. ready /\ ev = Steps
    BY <1>5, <1>6, <2>1 DEF Sound, Sessions
  <2>3. ReadyBurst \in Seq(E)
    <3>1. /\ ReadyEvent \in E
          /\ StatusEvent("ready") \in E /\ StepEvent("ready", "done") \in E
      BY <1>3, <1>4, <2>2, StepNames
    <3>. QED  BY <3>1 DEF ReadyBurst
  <2>. QED
    BY <1>1, <1>2, <1>17, <2>3
       DEF ReadyWritten, TaskStep, TaskWork, Write, pageVars
<1>18. CASE ReadyLost
  <2>1. <<>> \in Seq(E)
    OBVIOUS
  <2>. QED
    BY <1>1, <1>2, <1>18, <2>1
       DEF ReadyLost, Rejected, TaskWork, Write, pageVars
<1>12. CASE ShutDown
  <2>1. <<>> \in Seq(E)
    OBVIOUS
  <2>. QED
    BY <1>1, <1>2, <1>12, <2>1
       DEF ShutDown, TaskStep, TaskWork, Write, pageVars
<1>13. CASE ShutDownEnds
  <2>1. StatusEvent("stopped") \in E
    BY <1>3, <1>4
  <2>2. <<StatusEvent("stopped")>> \in Seq(E)
    BY <2>1
  <2>3. /\ Publish(<<StatusEvent("stopped")>>)
        /\ UNCHANGED <<stream, view, steps>>
        /\ \/ req' = req
           \/ req' = [req EXCEPT !["stop"].at = "answered",
                                 !["stop"].body = row']
    BY <1>13 DEF ShutDownEnds, TaskStep, TaskWork, Write, pageVars
  <2>4. req' = req \/ \A k \in Kinds : Moved(k)
    BY <2>3 DEF Requests
  <2>. QED  BY <1>1, <1>2, <2>2, <2>3, <2>4
<1>14. CASE GradeEnds
  <2>1. <<>> \in Seq(E) /\ <<ErrorEvent>> \in Seq(E)
    BY <1>3
  <2>2. /\ Publish(<<>>) \/ Publish(<<ErrorEvent>>)
        /\ UNCHANGED <<stream, view, steps, req>>
    BY <1>14 DEF GradeEnds, TaskWork, Write
  <2>. QED  BY <1>1, <1>2, <2>1, <2>2
<1>15. CASE RequestGrade
  <2>1. UNCHANGED <<stream, view, steps, req>>
    BY <1>15 DEF RequestGrade
  <2>2. CASE GradeLost \/ GradeRefused
    BY <1>2, <2>1, <2>2 DEF GradeLost, GradeRefused, PageTrue, E
  <2>3. CASE GradeStarts
    <3>1. row' = [row EXCEPT !.status = "running"]
          /\ Publish(<<StatusEvent("running")>>)
      BY <2>3 DEF GradeStarts, TaskWork, Write
    <3>2. ready
      BY <1>5, <1>6, <3>1 DEF Sessions
    <3>3. StatusEvent("running") \in E
      BY <1>3, <1>4, <3>2
    <3>4. <<StatusEvent("running")>> \in Seq(E)
      BY <3>3
    <3>. QED  BY <1>1, <1>2, <2>1, <3>1, <3>4
  <2>. QED  BY <1>15, <2>2, <2>3 DEF RequestGrade
<1>16. CASE Stop
  <2>1. UNCHANGED <<stream, view, steps>>
    BY <1>16 DEF Stop, streamVars
  <2>3. queue' \in [Streams -> Seq(Seq(E))]
    <3>1. <<>> \in Seq(E)
      OBVIOUS
    <3>2. queue' = queue \/ Publish(<<>>)
      BY <1>16 DEF Stop, TaskWork, Write
    <3>. QED  BY <1>1, <3>1, <3>2 DEF PageTrue, E
  <2>4. \/ req' = [req EXCEPT !["stop"] = [at |-> "answered", body |-> row]]
        \/ req' = [req EXCEPT !["stop"].at = "busy"]
    BY <1>16 DEF Stop, Answered
  <2>5. \A k \in Kinds : Moved(k)
    BY <2>4 DEF Requests
  <2>. QED  BY <1>2, <2>1, <2>3, <2>5
<1>. QED
  BY <1>7, <1>8, <1>9, <1>10, <1>11, <1>12, <1>13, <1>14, <1>15, <1>16,
     <1>17, <1>18

\* Every step keeps what is known of the streams.
LEMMA BusStep ==
  ASSUME BusInv, [Next]_vars
  PROVE  BusInv'
<1>1. CASE Task
  BY <1>1, TaskKeeps, ConnectKeeps, ReleaseStep DEF Task
<1>2. CASE Browser
  BY <1>2, TaskKeeps, ConnectKeeps, DropKeeps DEF Browser
<1>3. CASE UNCHANGED vars
  BY <1>3, PublishKeeps DEF BusInv, vars, serverVars, streamVars
<1>. QED  BY <1>1, <1>2, <1>3 DEF Next

\* The streams: a snapshot is a row, and is told as it was taken.
LEMMA StreamTrue ==
  ASSUME BusInv, es \in Streams \cup {None},
         NEW ev, NEW ready, Sound(ev, ready),
         PageTrue(ev, ready, stream, queue, req, view, steps),
         row \in TrueSessions(ev, ready),
         \/ Connect \/ Drop \/ Reload
         \/ \E s \in Streams : Subscribe(s) \/ Abort(s) \/ Cancel(s)
  PROVE  PageTrue(ev, ready, stream', queue', req', view', steps')
<1>. DEFINE E == TrueEvents(ev, ready)
<1>1. /\ stream \in [Streams -> StreamStates]
      /\ queue \in [Streams -> Seq(Seq(E))]
      /\ \A s \in Streams : stream[s].at = "reading" =>
           stream[s].snap \in TrueSessions(ev, ready)
  BY DEF BusInv, PageTrue
<1>2. ASSUME \A s \in Streams : stream'[s].at = "reading" =>
               stream'[s].snap \in TrueSessions(ev, ready),
             queue' \in [Streams -> Seq(Seq(E))],
             UNCHANGED <<req, view, steps>>
      PROVE  PageTrue(ev, ready, stream', queue', req', view', steps')
  BY <1>2 DEF PageTrue
<1>3. ASSUME es \in Streams, Disconnected
      PROVE  /\ \A s \in Streams : stream'[s].at = "reading" =>
                  stream'[s].snap \in TrueSessions(ev, ready)
             /\ queue' \in [Streams -> Seq(Seq(E))]
  <2>1. <<>> \in Seq(Seq(E))
    OBVIOUS
  <2>2. queue' = [queue EXCEPT ![es] = <<>>]
    BY <1>3 DEF Disconnected
  <2>. HIDE DEF E
  <2>3. queue' \in [Streams -> Seq(Seq(E))]
    BY <1>1, <2>1, <2>2
  <2>4. \A s \in Streams : /\ stream'[s].at = stream[s].at
                           /\ stream'[s].snap = stream[s].snap
    BY <1>1, <1>3 DEF Disconnected, StreamStates
  <2>. QED  BY <1>1, <2>3, <2>4
<1>4. CASE Connect
  <2>1. PICK t \in Streams :
          stream' = [stream EXCEPT ![t] = [FreeStream EXCEPT
               !.at = "reading", !.snap = row, !.log = log]]
    BY <1>4, Zenon DEF Connect
  <2>2. UNCHANGED <<queue, req, view, steps>>
    BY <1>4 DEF Connect, pageVars
  <2>3. \A s \in Streams : stream'[s] = stream[s] \/ stream'[s].snap = row
    BY <1>1, <2>1 DEF FreeStream
  <2>. QED  BY <1>1, <1>2, <2>2, <2>3
<1>5. CASE Drop
  BY <1>2, <1>3, <1>5 DEF Drop, pageVars
<1>6. CASE Reload
  <2>1. /\ \A s \in Streams : stream'[s].at = "reading" =>
             stream'[s].snap \in TrueSessions(ev, ready)
        /\ queue' \in [Streams -> Seq(Seq(E))]
    BY <1>1, <1>3, <1>6 DEF Reload
  <2>2. /\ view' = NoSession /\ steps' = NoOverrides
        /\ req' = [k \in Kinds |-> NoRequest]
    BY <1>6 DEF Reload
  <2>3. NoOverrides \in TrueSteps(ev)
    BY DEF NoOverrides, TrueSteps, None
  <2>4. NoSession \in TrueBodies(ev, ready)
    BY DEF TrueBodies
  <2>5. \A k \in Kinds : req'[k] = NoRequest
    BY <2>2
  <2>. QED  BY <2>1, <2>2, <2>3, <2>4, <2>5 DEF PageTrue, NoRequest
<1>7. ASSUME NEW s \in Streams, Subscribe(s)
      PROVE  PageTrue(ev, ready, stream', queue', req', view', steps')
  <2>1. stream[s].snap \in TrueSessions(ev, ready) /\ stream[s].log \in 0..3
    BY <1>1, <1>7 DEF Subscribe, StreamStates
  <2>. DEFINE snap == Snapshot(stream[s].snap, stream[s].log)
  <2>2. snap \in Seq(E)
    BY <2>1, SnapshotTrue
  <2>3. queue' = [queue EXCEPT ![s] = <<snap>>] \/ queue' = queue
    BY <1>7 DEF Subscribe
  <2>4. UNCHANGED <<req, view, steps>>
    BY <1>7 DEF Subscribe, pageVars
  <2>5. \A t \in Streams : stream'[t] = stream[t] \/ stream'[t].at = "listening"
    BY <1>1, <1>7 DEF Subscribe, StreamStates
  <2>. HIDE DEF snap, E
  <2>6. <<snap>> \in Seq(Seq(E))
    BY <2>2
  <2>7. queue' \in [Streams -> Seq(Seq(E))]
    BY <1>1, <2>3, <2>6
  <2>. QED  BY <1>1, <1>2, <2>4, <2>5, <2>7
<1>8. ASSUME NEW s \in Streams, Abort(s) \/ Cancel(s)
      PROVE  PageTrue(ev, ready, stream', queue', req', view', steps')
  <2>1. UNCHANGED <<queue, req, view, steps>>
    BY <1>8 DEF Abort, Cancel, pageVars
  <2>2. \/ stream' = [stream EXCEPT ![s] = FreeStream]
        \/ stream' = [stream EXCEPT ![s] =
             [@ EXCEPT !.at = "released", !.todo = {"abort"}]]
    BY <1>8 DEF Abort, Cancel
  <2>3. \A t \in Streams : \/ stream'[t] = stream[t]
                           \/ stream'[t].at \in {"free", "released"}
    <3>1. \A t \in Streams \ {s} : stream'[t] = stream[t]
      BY <1>1, <2>2
    <3>2. CASE stream' = [stream EXCEPT ![s] = FreeStream]
      BY <1>1, <3>1, <3>2 DEF FreeStream
    <3>3. CASE stream' = [stream EXCEPT ![s] =
                 [@ EXCEPT !.at = "released", !.todo = {"abort"}]]
      <4>1. stream'[s].at = "released"
        BY <1>1, <3>3, ZenonT(30) DEF StreamStates
      <4>. QED  BY <3>1, <4>1
    <3>. QED  BY <2>2, <3>2, <3>3
  <2>. QED  BY <1>1, <1>2, <2>1, <2>3
<1>. QED  BY <1>4, <1>5, <1>6, <1>7, <1>8

\* The page's requests: what a read is answered is the row, or nothing.
LEMMA RequestTrue ==
  ASSUME req \in [Kinds -> Requests],
         NEW ev, NEW ready,
         PageTrue(ev, ready, stream, queue, req, view, steps),
         row \in TrueSessions(ev, ready),
         Load \/ Poll \/ LoseStop \/ Expire
  PROVE  PageTrue(ev, ready, stream', queue', req', view', steps')
<1>1. UNCHANGED <<stream, queue, view, steps>>
  BY DEF Load, Poll, LoseStop, Expire, Read, streamVars, pageVars
<1>2. row \in TrueBodies(ev, ready) /\ NoSession \in TrueBodies(ev, ready)
  BY DEF TrueBodies
<1>3. \/ req' = req
      \/ \E b \in {row, NoSession} :
           req' = [req EXCEPT !["read"] = [at |-> "answered", body |-> b]]
      \/ req' = [req EXCEPT !["stop"] = NoRequest]
  BY DEF Load, Poll, LoseStop, Expire, Read, Answered
<1>4. \A k \in Kinds :
        \/ req'[k] = req[k]
        \/ req'[k].body \in {row, NoSession}
  BY <1>3 DEF NoRequest
<1>. QED  BY <1>1, <1>2, <1>4 DEF PageTrue

\* The page is one that tells no more than there is evidence for.
LEMMA PageIsTrue ==
  ASSUME NEW ev, NEW ready, told \in BOOLEAN,
         PageTrue(ev, ready, stream, queue, req, view, steps)
  PROVE  Page \in TruePages(ev, ready)
  BY DEF Page, TruePages, PageTrue

\* What arrives: a burst of events, or an answer.
LEMMA ArrivalTrue ==
  ASSUME Control,
         NEW ev, NEW ready, Sound(ev, ready),
         PageTrue(ev, ready, stream, queue, req, view, steps),
         Receive \/ \E k \in Kinds : ApplyAnswer(k)
  PROVE  PageTrue(ev, ready, stream', queue', req', view', steps')
<1>. DEFINE E == TrueEvents(ev, ready)
            P == TruePages(ev, ready)
<1>1. /\ Page \in P /\ queue \in [Streams -> Seq(Seq(E))]
      /\ req \in [Kinds -> Requests] /\ NoSession \in TrueBodies(ev, ready)
  BY PageIsTrue DEF Control, PageTrue, TrueBodies
<1>2. CASE Receive
  <2>1. PICK p \in After(Head(queue[es])) :
          /\ Display(p)
          /\ req' = IF p.refetch
                    THEN [req EXCEPT !["refetch"] =
                            [at |-> "answered", body |-> NoSession]]
                    ELSE req
    BY <1>2, Zenon DEF Receive
  <2>2. /\ es \in Streams /\ queue[es] # <<>>
        /\ queue' = [queue EXCEPT ![es] = Tail(@)]
        /\ UNCHANGED stream
    BY <1>2 DEF Receive, Control, streamVars
  <2>3. \A e \in E : \A q \in P : OnMessage(q, e) \in P
    BY OnMessageTrue
  <2>. HIDE DEF E, P
  <2>4. Head(queue[es]) \in Seq(E) /\ Tail(queue[es]) \in Seq(Seq(E))
    BY <1>1, <2>2
  <2>5. Len(Head(queue[es])) \in Nat
        /\ \A i \in 1..Len(Head(queue[es])) : Head(queue[es])[i] \in E
    BY <2>4
  <2>6. p \in P
    BY <1>1, <2>1, <2>3, <2>5, AfterKeeps
  <2>7. queue' \in [Streams -> Seq(Seq(E))]
    BY <1>1, <2>2, <2>4
  <2>8. /\ view' \in TrueBodies(ev, ready) /\ steps' \in TrueSteps(ev)
    BY <2>1, <2>6 DEF P, TruePages, Display
  <2>9. \A k \in Kinds : \/ req'[k] = req[k]
                         \/ /\ k = "refetch" /\ req'[k].body = NoSession
    BY <1>1, <2>1
  <2>. QED  BY <1>1, <2>2, <2>7, <2>8, <2>9 DEF PageTrue, E
<1>3. ASSUME NEW k \in Kinds, ApplyAnswer(k)
      PROVE  PageTrue(ev, ready, stream', queue', req', view', steps')
  <2>1. req[k].body \in TrueBodies(ev, ready)
    BY DEF PageTrue
  <2>2. Shown(Page, req[k].body) \in P
    BY <1>1, <2>1, ShownTrue
  <2>3. /\ Display(Shown(Page, req[k].body))
        /\ req' = [req EXCEPT ![k] = NoRequest]
        /\ UNCHANGED <<stream, queue>>
    BY <1>3 DEF ApplyAnswer, streamVars
  <2>4. /\ view' \in TrueBodies(ev, ready) /\ steps' \in TrueSteps(ev)
    BY <2>2, <2>3 DEF TruePages, Display
  <2>5. \A j \in Kinds : req'[j] = req[j] \/ req'[j] = NoRequest
    BY <1>1, <2>3
  <2>. QED  BY <1>1, <2>3, <2>4, <2>5 DEF PageTrue, NoRequest
<1>. QED  BY <1>2, <1>3

(***************************************************************************)
(* The invariant                                                           *)
(***************************************************************************)

IInv == BusInv /\ Control /\ PageInv /\ Refusals

\* A request of the page, or an answer to one.
LEMMA RequestTypes ==
  ASSUME Control, row \in Sessions, row' \in Sessions, Next
  PROVE  req' \in [Kinds -> Requests]
<1>1. req \in [Kinds -> Requests]
  BY DEF Control
<1>2. /\ NoRequest \in Requests
      /\ [at |-> "answered", body |-> row] \in Requests
      /\ [at |-> "answered", body |-> row'] \in Requests
      /\ [at |-> "answered", body |-> NoSession] \in Requests
  BY <1>1 DEF NoRequest, Requests
<1>3. \/ req' = req \/ req' \in [Kinds -> Requests]
      \/ req' = [k \in Kinds |-> NoRequest]
      \/ \E k \in Kinds, r \in Requests : req' = [req EXCEPT ![k] = r]
  <2>1. CASE \/ RefreshIp \/ HostProgress \/ HostReady \/ Probe \/ ProbeFails
             \/ ProbeSucceeds \/ ReadyWritten \/ ReadyLost
             \/ ShutDown \/ GradeEnds \/ RequestGrade
             \/ Connect \/ Drop \/ Expire
             \/ \E s \in Streams : Subscribe(s) \/ Abort(s) \/ Cancel(s)
    BY <2>1 DEF RefreshIp, HostProgress, HostReady, Probe, ProbeFails,
                ProbeSucceeds, ReadyWritten, ReadyLost, Rejected, Fault,
           ShutDown, GradeEnds, RequestGrade, Connect,
                Drop, Expire, Subscribe, Abort, Cancel
  <2>2. CASE ShutDownEnds
    <3>1. \/ req' = req
          \/ req' = [req EXCEPT !["stop"].at = "answered",
                                !["stop"].body = row']
      BY <2>2 DEF ShutDownEnds, TaskStep, TaskWork, Write
    <3>2. [req EXCEPT !["stop"].at = "answered", !["stop"].body = row']
            \in [Kinds -> Requests]
      BY <1>1 DEF Requests
    <3>. QED  BY <3>1, <3>2
  <2>3. CASE Stop
    <3>1. \/ req' = [req EXCEPT !["stop"] = [at |-> "answered", body |-> row]]
          \/ req' = [req EXCEPT !["stop"].at = "busy"]
      BY <2>3 DEF Stop, Answered
    <3>2. [req EXCEPT !["stop"].at = "busy"] \in [Kinds -> Requests]
      BY <1>1 DEF Requests
    <3>. QED  BY <1>2, <3>1, <3>2 DEF Kinds
  <2>4. CASE Load \/ Poll
    <3>1. \/ req' = req
          \/ req' = [req EXCEPT !["read"] = [at |-> "answered", body |-> row]]
          \/ req' = [req EXCEPT !["read"] =
                       [at |-> "answered", body |-> NoSession]]
      BY <2>4 DEF Load, Poll, Read, Answered
    <3>. QED  BY <1>2, <3>1 DEF Kinds
  <2>5. CASE Receive
    <3>1. \/ req' = req
          \/ req' = [req EXCEPT !["refetch"] =
                       [at |-> "answered", body |-> NoSession]]
      BY <2>5 DEF Receive
    <3>. QED  BY <1>2, <3>1 DEF Kinds
  <2>6. CASE \E k \in Kinds : ApplyAnswer(k)
    BY <1>2, <2>6 DEF ApplyAnswer
  <2>7. CASE LoseStop
    BY <1>2, <2>7 DEF LoseStop, Kinds
  <2>8. CASE Reload
    BY <2>8 DEF Reload
  <2>. QED
    BY <2>1, <2>2, <2>3, <2>4, <2>5, <2>6, <2>7, <2>8 DEF Next, Task, Browser
<1>. HIDE DEF Requests
<1>. QED  BY <1>1, <1>2, <1>3

\* The connection, the count of what broke, and what the page shows of errors.
LEMMA ControlStep ==
  ASSUME IInv, BusInv', RowKept, Next
  PROVE  Control'
<1>1. /\ srv' \in {"idle", "probing", "marking", "stopping", "grading"}
      /\ wasReady' \in BOOLEAN /\ verified' \in BOOLEAN
  BY DEF RowKept
<1>2. req' \in [Kinds -> Requests]
  BY RequestTypes DEF IInv, BusInv
<1>3. es' \in Streams \cup {None}
  <2>1. es' \in {es, None} \/ Connect
    BY DEF Next, Task, Browser, RefreshIp, HostProgress, HostReady, Probe,
           ProbeFails, ProbeSucceeds, ReadyWritten, ReadyLost, Rejected, Fault,
           ShutDown, ShutDownEnds, GradeEnds,
           TaskStep, Subscribe, Abort, Cancel, Load, Poll, Read,
           RequestGrade, Stop, Receive, ApplyAnswer, LoseStop, Drop, Reload,
           Disconnected, Expire
  <2>2. ASSUME Connect  PROVE es' \in Streams
    <3>1. PICK s \in Streams : stream[s].at = "free"
      BY <2>2 DEF Connect
    <3>2. es' = CHOOSE t \in Streams : stream[t].at = "free"
      BY <2>2 DEF Connect
    <3>. QED  BY <3>1, <3>2
  <2>. QED  BY <2>1, <2>2 DEF IInv, Control
<1>4. loaded' \in BOOLEAN
  BY DEF IInv, Control, Next, Task, Browser, RefreshIp, HostProgress,
         HostReady, Probe, ProbeFails, ProbeSucceeds, ReadyWritten, ReadyLost, Rejected, Fault,
           ShutDown, ShutDownEnds,
         GradeEnds, TaskStep, Subscribe, Abort, Cancel, Load, Poll, Read,
         RequestGrade, Stop, Receive, ApplyAnswer, LoseStop, Drop, Reload,
         Connect, Expire, pageVars
<1>5. faults' \in {faults, faults + 1} /\ (faults' # faults => faults < MaxFaults)
  <2>1. CASE faults' = faults
    BY <2>1
  <2>2. CASE faults < MaxFaults /\ faults' = faults + 1
    BY <2>2
  <2>3. faults' = faults \/ (faults < MaxFaults /\ faults' = faults + 1)
    BY DEF Next, Task, Browser, RefreshIp, HostProgress, HostReady, Probe,
           ProbeFails, ProbeSucceeds, ReadyWritten, ReadyLost, Rejected, Fault,
           ShutDown, ShutDownEnds, GradeEnds,
           TaskStep, Subscribe, Abort, Cancel, Load, Poll, Read,
           RequestGrade, GradeLost, GradeRefused, GradeStarts, Stop, Receive,
           ApplyAnswer, LoseStop, Drop, Reload, Connect, Expire
  <2>. QED  BY <2>1, <2>2, <2>3
<1>6. faults' \in 0..MaxFaults
  BY <1>5, PageAssumption DEF IInv, Control, PageAssumption
<1>7. told' \in BOOLEAN
  <2>1. CASE Receive
    <3>1. PICK p \in After(Head(queue[es])) : told' = p.told
      BY <2>1, Zenon DEF Receive, Display
    <3>2. Sound(Evidence, wasReady)
      BY EvidenceSound DEF IInv, BusInv, Control, PageInv, Evidence, EvidenceOf
    <3>. DEFINE E == TrueEvents(Evidence, wasReady)
                P == TruePages(Evidence, wasReady)
    <3>3. Page \in P
      BY PageIsTrue DEF IInv, Control, PageInv
    <3>4. \A e \in E : \A q \in P : OnMessage(q, e) \in P
      BY <3>2, OnMessageTrue
    <3>5. queue \in [Streams -> Seq(Seq(E))] /\ es \in Streams
          /\ queue[es] # <<>>
      BY <2>1 DEF IInv, Control, PageInv, PageTrue, Receive
    <3>6. \A q \in P : q.told \in BOOLEAN
      BY DEF TruePages
    <3>. HIDE DEF E, P
    <3>7. Head(queue[es]) \in Seq(E)
      BY <3>5
    <3>8. Len(Head(queue[es])) \in Nat
          /\ \A i \in 1..Len(Head(queue[es])) : Head(queue[es])[i] \in E
      BY <3>7
    <3>. QED  BY <3>1, <3>3, <3>4, <3>6, <3>8, AfterKeeps
  <2>2. CASE \E k \in Kinds : ApplyAnswer(k)
    <3>1. \A s : Shown(Page, s).told = told
      BY DEF Shown, Page
    <3>. QED  BY <2>2, <3>1 DEF ApplyAnswer, Display, IInv, Control
  <2>3. CASE RequestGrade
    <3>1. told' \in {TRUE, FALSE} \/ told' = (told /\ Practice)
      BY <2>3 DEF RequestGrade, GradeLost, GradeRefused, GradeStarts
    <3>2. (told /\ Practice) \in BOOLEAN
      BY Zenon
    <3>. QED  BY <3>1, <3>2
  <2>4. told' \in {told, FALSE} \/ Receive \/ RequestGrade
        \/ \E k \in Kinds : ApplyAnswer(k)
    BY DEF Next, Task, Browser, RefreshIp, HostProgress, HostReady, Probe,
           ProbeFails, ProbeSucceeds, ReadyWritten, ReadyLost, Rejected, Fault,
           ShutDown, ShutDownEnds, GradeEnds,
           TaskStep, Subscribe, Abort, Cancel, Load, Poll, Read,
           Stop, LoseStop, Drop, Reload, Connect, Expire, pageVars
  <2>. QED  BY <2>1, <2>2, <2>3, <2>4 DEF IInv, Control
<1>8. expired' \in BOOLEAN
  BY DEF IInv, Control, Next, Task, Browser, RefreshIp, HostProgress, HostReady,
         Probe, ProbeFails, ProbeSucceeds, ReadyWritten, ReadyLost, Rejected,
         ShutDown, ShutDownEnds, GradeEnds, TaskStep, TaskWork, Subscribe,
         Abort, Cancel, Load, Poll, Read, RequestGrade, GradeLost,
         GradeRefused, GradeStarts, Stop, Receive, ApplyAnswer, LoseStop,
         Drop, Reload, Connect, Expire, serverVars
<1>. QED  BY <1>1, <1>2, <1>3, <1>4, <1>6, <1>7, <1>8 DEF Control

\* Nothing but the refetch and a read past the token's time is answered
\* without a session.
LEMMA RefusalStep ==
  ASSUME Control, Refusals, row \in Sessions, row' \in Sessions, Next
  PROVE  Refusals'
<1>. DEFINE Same(k) == req'[k].at # "answered" \/ req'[k] = req[k]
            Fits(k) == req'[k].body # NoSession
<1>1. req \in [Kinds -> Requests] /\ row # NoSession /\ row' # NoSession
  BY StepNames DEF Control, Sessions, NoSession
<1>2. expired => expired'
  BY DEF Next, Task, Browser, RefreshIp, HostProgress, HostReady, Probe,
         ProbeFails, ProbeSucceeds, ReadyWritten, ReadyLost, Rejected,
         ShutDown, ShutDownEnds, GradeEnds, TaskStep, TaskWork, Subscribe,
         Abort, Cancel, Load, Poll, Read, RequestGrade, GradeLost,
         GradeRefused, GradeStarts, Stop, Receive, ApplyAnswer, LoseStop,
         Drop, Reload, Connect, Expire, serverVars
<1>3. ASSUME \A k \in Kinds :
               \/ Same(k) \/ Fits(k) \/ k = "refetch"
               \/ k = "read" /\ expired'
      PROVE  Refusals'
  BY <1>2, <1>3 DEF Refusals
<1>4. CASE \/ RefreshIp \/ HostProgress \/ HostReady \/ Probe \/ ProbeFails
           \/ ProbeSucceeds \/ ReadyWritten \/ ReadyLost
           \/ ShutDown \/ GradeEnds \/ RequestGrade
           \/ Connect \/ Drop \/ Expire
           \/ \E s \in Streams : Subscribe(s) \/ Abort(s) \/ Cancel(s)
  <2>1. req' = req
    BY <1>4 DEF RefreshIp, HostProgress, HostReady, Probe, ProbeFails,
         ProbeSucceeds, ReadyWritten, ReadyLost, ShutDown, GradeEnds,
         RequestGrade, Connect, Drop, Expire, Subscribe, Abort, Cancel
  <2>. QED  BY <1>3, <2>1
<1>5. CASE ShutDownEnds
  <2>1. \/ req' = req
        \/ req' = [req EXCEPT !["stop"].at = "answered",
                              !["stop"].body = row']
    BY <1>5 DEF ShutDownEnds, TaskStep, TaskWork, Write
  <2>2. \A k \in Kinds : req'[k] = req[k] \/ req'[k].body = row'
    BY <1>1, <2>1 DEF Requests
  <2>. QED  BY <1>1, <1>3, <2>2
<1>6. CASE Stop
  <2>1. \/ req' = [req EXCEPT !["stop"] = [at |-> "answered", body |-> row]]
        \/ req' = [req EXCEPT !["stop"].at = "busy"]
    BY <1>6 DEF Stop, Answered
  <2>2. \A k \in Kinds : \/ req'[k] = req[k]
                         \/ req'[k].body = row
                         \/ req'[k].at = "busy"
    BY <1>1, <2>1 DEF Requests
  <2>. QED  BY <1>1, <1>3, <2>2
<1>7. CASE Load \/ Poll
  <2>1. \/ req' = req
        \/ req' = [req EXCEPT !["read"] = [at |-> "answered",
                     body |-> IF expired THEN NoSession ELSE row]]
    BY <1>7 DEF Load, Poll, Read, Answered
  <2>2. \A k \in Kinds : \/ req'[k] = req[k]
                         \/ k = "read" /\ expired
                         \/ req'[k].body = row
    BY <1>1, <2>1
  <2>. QED  BY <1>1, <1>2, <1>3, <2>2
<1>8. CASE Receive
  <2>1. \/ req' = req
        \/ req' = [req EXCEPT !["refetch"] =
                     [at |-> "answered", body |-> NoSession]]
    BY <1>8 DEF Receive
  <2>2. \A k \in Kinds : req'[k] = req[k] \/ k = "refetch"
    BY <1>1, <2>1
  <2>. QED  BY <1>3, <2>2
<1>9. CASE LoseStop \/ Reload \/ \E k \in Kinds : ApplyAnswer(k)
  <2>1. \/ \E k \in Kinds : req' = [req EXCEPT ![k] = NoRequest]
        \/ req' = [k \in Kinds |-> NoRequest]
    BY <1>9 DEF LoseStop, Reload, ApplyAnswer, Kinds
  <2>2. \A k \in Kinds : req'[k] = req[k] \/ req'[k] = NoRequest
    BY <1>1, <2>1
  <2>. QED  BY <1>3, <2>2 DEF NoRequest
<1>. QED
  BY <1>4, <1>5, <1>6, <1>7, <1>8, <1>9 DEF Next, Task, Browser

LEMMA IInvInit == Init => IInv
<1>. SUFFICES ASSUME Init  PROVE IInv
  OBVIOUS
<1>1. BusInv
  BY BusInit
<1>2. Control
  <2>1. NoRequest \in Requests
    BY DEF NoRequest, Requests
  <2>2. req \in [Kinds -> Requests]
    BY <2>1 DEF Init
  <2>3. faults \in 0..MaxFaults
    BY PageAssumption DEF Init, PageAssumption
  <2>. QED  BY <2>2, <2>3 DEF Init, Control
<1>3. PageInv
  <2>1. row.status \in {"provisioning", "failed"}
    BY DEF Init
  <2>2. NoOverrides \in TrueSteps(Evidence)
    BY DEF NoOverrides, TrueSteps, None
  <2>3. NoSession \in TrueBodies(Evidence, wasReady)
    BY DEF TrueBodies
  <2>4. queue \in [Streams -> Seq(Seq(TrueEvents(Evidence, wasReady)))]
    <3>1. \A S : <<>> \in Seq(S)
      OBVIOUS
    <3>. QED  BY <3>1 DEF Init
  <2>. QED
    BY <2>1, <2>2, <2>3, <2>4
       DEF Init, PageInv, PageTrue, IsReady, FreeStream, NoRequest
<1>4. Refusals
  BY DEF Init, Refusals, NoRequest
<1>. QED  BY <1>1, <1>2, <1>3, <1>4 DEF IInv

LEMMA IInvStep == IInv /\ [Next]_vars => IInv'
<1>. SUFFICES ASSUME IInv, [Next]_vars  PROVE IInv'
  OBVIOUS
<1>1. BusInv'
  BY BusStep DEF IInv
<1>2. CASE Next
  <2>1. RowKept
    BY <1>2, RowStep DEF IInv
  <2>2. Control'
    BY <1>1, <1>2, <2>1, ControlStep
  <2>. DEFINE ev == Evidence'
              ready == wasReady'
  <2>3. /\ Sound(ev, ready)
        /\ row \in TrueSessions(ev, ready) /\ row' \in TrueSessions(ev, ready)
        /\ \A i \in 1..(log' - 1) : BootSteps[i] \in ev
        /\ verified' => "verify_ssh" \in ev
        /\ PageTrue(ev, ready, stream, queue, req, view, steps)
    BY <1>1, <2>1, EvidenceStep DEF IInv
  <2>4. BusInv /\ Control
    BY DEF IInv
  <2>. HIDE DEF ev, ready
  <2>5. es \in Streams \cup {None} /\ req \in [Kinds -> Requests]
    BY <2>4 DEF Control
  <2>6. PageTrue(ev, ready, stream', queue', req', view', steps')
    <3>1. CASE \/ RefreshIp \/ HostProgress \/ HostReady
               \/ Probe \/ ProbeFails \/ ProbeSucceeds
               \/ ReadyWritten \/ ReadyLost
               \/ ShutDown \/ ShutDownEnds \/ GradeEnds
               \/ RequestGrade \/ Stop
      BY <1>1, <2>3, <2>4, <2>5, <3>1, TaskTrue
    <3>2. CASE \/ Connect \/ Drop \/ Reload
               \/ \E s \in Streams : Subscribe(s) \/ Abort(s) \/ Cancel(s)
      BY <2>3, <2>4, <2>5, <3>2, StreamTrue
    <3>3. CASE Load \/ Poll \/ LoseStop \/ Expire
      BY <2>3, <2>5, <3>3, RequestTrue
    <3>4. CASE Receive \/ \E k \in Kinds : ApplyAnswer(k)
      BY <2>3, <2>4, <3>4, ArrivalTrue
    <3>. QED  BY <1>2, <3>1, <3>2, <3>3, <3>4 DEF Next, Task, Browser
  <2>7. PageInv'
    BY <2>1, <2>6 DEF PageInv, RowKept, ev, ready
  <2>8. Refusals'
    BY <1>1, <1>2, RefusalStep DEF IInv, BusInv
  <2>. QED  BY <1>1, <2>2, <2>7, <2>8 DEF IInv
<1>3. CASE UNCHANGED vars
  BY <1>1, <1>3
     DEF IInv, Control, PageInv, Refusals, Evidence, vars, serverVars, streamVars, pageVars
<1>. QED  BY <1>2, <1>3

LEMMA IInvAlways == Spec => []IInv
  BY IInvInit, IInvStep, PTL DEF Spec

LEMMA EvidenceIsSound ==
  ASSUME IInv
  PROVE  Sound(Evidence, wasReady)
<1>1. Evidence = EvidenceOf(row, log, wasReady, verified)
  BY DEF Evidence, EvidenceOf
<1>. QED  BY <1>1, EvidenceSound DEF IInv, BusInv, Control, PageInv

(***************************************************************************)
(* Every variable keeps its type (TypeOK): however many bursts wait in a   *)
(* stream and however long each is, every event in them is one the page    *)
(* can handle.                                                             *)
(***************************************************************************)
THEOREM TypeCorrect == Spec => []TypeOK
<1>1. IInv => TypeOK
  <2>. SUFFICES ASSUME IInv  PROVE TypeOK
    OBVIOUS
  <2>1. queue \in [Streams -> Seq(Seq(Events))]
    <3>. DEFINE E == TrueEvents(Evidence, wasReady)
    <3>1. queue \in [Streams -> Seq(Seq(E))]
      BY DEF IInv, PageInv, PageTrue
    <3>2. E \subseteq Events
      BY DEF TrueEvents
    <3>. HIDE DEF E
    <3>3. \A S, T : S \subseteq T => Seq(S) \subseteq Seq(T)
      OBVIOUS
    <3>4. Seq(Seq(E)) \subseteq Seq(Seq(Events))
      BY <3>2, <3>3, Zenon
    <3>. QED  BY <3>1, <3>4
  <2>2. /\ view \in Sessions \cup {NoSession}
        /\ steps \in [Steps -> StepStatuses \cup {None}]
    BY DEF IInv, PageInv, PageTrue, TrueBodies, TrueSessions, TrueSteps
  <2>. QED  BY <2>1, <2>2 DEF IInv, BusInv, Control, TypeOK
<1>. QED  BY <1>1, IInvAlways, PTL

(***************************************************************************)
(* The list on the page ticks only steps there is evidence for and spins   *)
(* one at most (StepsTellTruth): what deriveProvisioningSteps makes of the *)
(* page's session and overrides, whatever replays, bursts and old answers  *)
(* have gone into them.  verify_ssh is ticked before the row is written,   *)
(* and stays so when the write is rejected: its evidence is the login.     *)
(***************************************************************************)
THEOREM ListTellsTruth == Spec => []StepsTellTruth
<1>1. IInv => StepsTellTruth
  <2>. SUFFICES ASSUME IInv  PROVE StepsTellTruth
    OBVIOUS
  <2>1. /\ Sound(Evidence, wasReady)
        /\ view \in TrueBodies(Evidence, wasReady)
        /\ steps \in TrueSteps(Evidence)
    BY EvidenceIsSound DEF IInv, PageInv, PageTrue
  <2>. QED  BY <2>1, DeriveTrue DEF StepsTellTruth
<1>. QED  BY <1>1, IInvAlways, PTL

(***************************************************************************)
(* No terminal is offered, and "ready" is not ticked, for a session that   *)
(* was never ready (ReadyNotInvented): no snapshot, event, answer or merge *)
(* of these in the page's handlers makes one up.                           *)
(***************************************************************************)
THEOREM ReadyIsReal == Spec => []ReadyNotInvented
<1>1. IInv => ReadyNotInvented
  <2>. SUFFICES ASSUME IInv  PROVE ReadyNotInvented
    OBVIOUS
  <2>1. /\ Sound(Evidence, wasReady)
        /\ view \in TrueBodies(Evidence, wasReady)
        /\ steps \in TrueSteps(Evidence)
    BY EvidenceIsSound DEF IInv, PageInv, PageTrue
  <2>2. steps["ready"] = "done" => wasReady
    BY <2>1, StepNames DEF TrueSteps, Sound
  <2>3. Stage = "terminal" => IsReady(view)
    BY DEF Stage
  <2>4. IsReady(view) => wasReady
    BY <2>1 DEF TrueBodies, TrueSessions, NoSession, None, IsReady
  <2>. QED  BY <2>2, <2>3, <2>4 DEF ReadyNotInvented
<1>. QED  BY <1>1, IInvAlways, PTL

BlankStep ==
  view # NoSession /\ view' = NoSession
    => ~loaded' \/ Applied("refetch") \/ (expired /\ Applied("read"))

(***************************************************************************)
(* The session on the page goes only with a reload, with the answer to the *)
(* refetch, or with that to a poll past the token's time                   *)
(* (BlankOnlyByRefusal): a burst of any length keeps it, and every other   *)
(* answer brings a session.                                                *)
(***************************************************************************)
THEOREM BlankedByRefusal == Spec => BlankOnlyByRefusal
<1>1. ASSUME IInv, [Next]_vars  PROVE BlankStep
  <2>. SUFFICES ASSUME view # NoSession, view' = NoSession
                PROVE  ~loaded' \/ Applied("refetch")
                       \/ (expired /\ Applied("read"))
    BY DEF BlankStep
  <2>. DEFINE E == TrueEvents(Evidence, wasReady)
              P == TruePages(Evidence, wasReady)
              Q == {p \in P : p.view # NoSession}
  <2>1. /\ Sound(Evidence, wasReady) /\ Page \in P /\ Page \in Q
        /\ req \in [Kinds -> Requests]
    BY <1>1, EvidenceIsSound, PageIsTrue DEF IInv, Control, PageInv, Page
  <2>2. Receive \/ Reload \/ \E k \in Kinds : ApplyAnswer(k)
    BY <1>1 DEF Next, Task, Browser, RefreshIp, HostProgress, HostReady,
           Probe, ProbeFails, ProbeSucceeds, ReadyWritten, ReadyLost, Rejected, Fault,
           ShutDown, ShutDownEnds,
           GradeEnds, TaskStep, Subscribe, Abort, Cancel, Load, Poll, Read,
           RequestGrade, Stop, LoseStop, Drop, Connect, Expire, pageVars, vars
  <2>3. ASSUME Receive  PROVE FALSE
    <3>1. PICK p \in After(Head(queue[es])) : view' = p.view
      BY <2>3, Zenon DEF Receive, Display
    <3>2. queue \in [Streams -> Seq(Seq(E))] /\ es \in Streams
          /\ queue[es] # <<>>
      BY <1>1, <2>3 DEF IInv, Control, PageInv, PageTrue, Receive
    <3>3. \A e \in E : \A q \in Q : OnMessage(q, e) \in Q
      BY <2>1, OnMessageTrue
    <3>4. \A q \in Q : q.view # NoSession
      OBVIOUS
    <3>. HIDE DEF E, P, Q
    <3>5. Head(queue[es]) \in Seq(E)
      BY <3>2
    <3>6. Len(Head(queue[es])) \in Nat
          /\ \A i \in 1..Len(Head(queue[es])) : Head(queue[es])[i] \in E
      BY <3>5
    <3>. QED  BY <2>1, <3>1, <3>3, <3>4, <3>6, AfterKeeps
  <2>4. ASSUME NEW k \in Kinds, ApplyAnswer(k)
        PROVE  Applied("refetch") \/ (expired /\ Applied("read"))
    <3>1. req[k].at = "answered" /\ req' = [req EXCEPT ![k] = NoRequest]
          /\ view' = Shown(Page, req[k].body).view
      BY <2>4 DEF ApplyAnswer, Display
    <3>2. req[k].body \in TrueBodies(Evidence, wasReady)
      BY <1>1 DEF IInv, PageInv, PageTrue
    <3>3. req[k].body = NoSession
      BY <2>1, <3>1, <3>2, ShownTrue
    <3>4. k = "refetch" \/ (k = "read" /\ expired)
      BY <1>1, <3>1, <3>3 DEF IInv, Refusals
    <3>5. Applied(k)
      BY <2>1, <3>1 DEF NoRequest, Applied
    <3>. QED  BY <3>4, <3>5
  <2>5. Reload => ~loaded'
    BY DEF Reload
  <2>. QED  BY <2>2, <2>3, <2>4, <2>5
<1>2. IInv /\ [Next]_vars => [BlankStep]_vars
  BY <1>1
<1>. QED  BY <1>2, IInvAlways, PTL DEF Spec, BlankOnlyByRefusal, BlankStep
=============================================================================
