----------------------------- MODULE SessionPage -----------------------------
(***************************************************************************)
(* What a learner's page shows of one session, and how it comes to show    *)
(* it: the row as the web task writes it, the event bus of the task        *)
(* (web/lib/events.ts), the SSE route that subscribes to it, and the page  *)
(* (web/app/session/[id]/page.tsx) that mixes three sources into one view: *)
(* a poll every three seconds, the event stream, and the answers of its    *)
(* own stop and grade requests.                                            *)
(*                                                                         *)
(* The web task does one thing to the row at a time here; requests that    *)
(* overlap on the row are the subject of SessionLifecycle.  Where steps    *)
(* are published before an updateSession (the host's callback, the end of  *)
(* a probe), the write may be rejected and the events are out; the tick of *)
(* verify_ssh is a step of its own, for it says more than the row does.    *)
(* Elsewhere the events follow the write and are one step with it: a write *)
(* that is rejected there tells the page nothing, and is left to           *)
(* SessionLifecycle.  Addresses are public; grades and the texts of errors *)
(* are left out, but for the one that says the session is over.            *)
(* The page renders, and runs its effects, between two events.             *)
(***************************************************************************)
EXTENDS Naturals, Sequences, FiniteSets

CONSTANTS
  Streams,     \* slots for SSE requests the task still knows of
  Practice,    \* is the session in practice mode, where the page grades?
  MaxLag,      \* bound: events, answers and snapshots on their way to the page
  MaxLog,      \* bound: progress reports the host gets through
  MaxFaults    \* bound: broken connections, lost requests, reloads, rejected
               \* writes and the end of the token's time, together

ASSUME PageAssumption ==
  /\ IsFiniteSet(Streams)
  /\ Practice \in BOOLEAN
  /\ MaxLag \in Nat \ {0}
  /\ MaxLog \in 0..3
  /\ MaxFaults \in Nat

None == "none"

ASSUME NoneAssumption == None \notin Streams

VARIABLES
  row,        \* the session as toSessionState shows it
  log,        \* how many boot steps bootstrap.progress.jsonl tells of
  srv,        \* what the task is doing to the row
  verified,   \* history: a probe of the host has succeeded
  expired,    \* the learner's token is past its 24 hours
  bus,        \* the emitter in the bus map for this session, or NoBus
  stream,     \* SSE requests on the task's side
  queue,      \* events on the way to the page, by stream
  es,         \* the page's EventSource, or None while it waits to reconnect
  req,        \* the page's requests in flight, one of each kind
  loaded,     \* the page has sent its initial request
  view,       \* the page's session state, or NoSession
  steps,      \* the page's stepOverrides
  told,       \* the error shown is that the session is over
  faults,     \* how many of these there have been
  wasReady    \* history: the row has been ready

serverVars == <<row, log, srv, verified, expired>>
streamVars == <<bus, stream>>
pageVars == <<loaded, view, steps, told>>
vars == <<serverVars, streamVars, queue, es, req, pageVars, faults, wasReady>>

-----------------------------------------------------------------------------
(* The row and its provisioning steps (web/lib/provisioning-steps.ts) *)

Statuses ==
  {"provisioning", "ready", "running", "stopping", "stopped", "failed"}

\* The steps the host reports while it boots, in order.
BootSteps == <<"bootstrap", "start_lab", "install_keys">>

Booting == {"bootstrap", "start_lab", "install_keys"}

StepDefs ==
  <<"create_session", "launch_instance", "assign_public_ip", "bootstrap",
    "start_lab", "install_keys", "verify_ssh", "ready">>

Steps == {StepDefs[i] : i \in 1..8}

StepStatuses == {"pending", "active", "done", "failed"}

\* inst, ip: instanceId and sshHost are set; rcvd: bootstrapReceived;
\* sshErr: errorMessage tells of a failed SSH verification.
Sessions ==
  [status: Statuses, inst: BOOLEAN, ip: BOOLEAN, rcvd: BOOLEAN,
   sshErr: BOOLEAN]

NoSession ==
  [status |-> None, inst |-> FALSE, ip |-> FALSE, rcvd |-> FALSE,
   sshErr |-> FALSE]

IsReady(s) == s.status \in {"ready", "running"}

\* baseStatus, without an override.
BaseStatus(s, id) ==
  LET ready == IsReady(s)
  IN CASE id = "create_session" ->
            IF s = NoSession THEN "active" ELSE "done"
       [] id = "launch_instance" ->
            IF ready \/ s.inst THEN "done"
            ELSE IF s = NoSession THEN "pending" ELSE "active"
       [] id = "assign_public_ip" ->
            IF ready \/ s.ip THEN "done"
            ELSE IF s.inst THEN "active" ELSE "pending"
       [] id = "bootstrap" ->
            IF ready \/ s.rcvd THEN "done"
            ELSE IF s.ip THEN "active" ELSE "pending"
       [] id \in {"start_lab", "install_keys"} ->
            IF ready \/ s.rcvd THEN "done" ELSE "pending"
       [] id = "verify_ssh" ->
            IF ready THEN "done"
            ELSE IF s.sshErr THEN "failed"
            ELSE IF s.rcvd THEN "active" ELSE "pending"
       [] id = "ready" -> IF ready THEN "done" ELSE "pending"

NoOverrides == [id \in Steps |-> None]

\* Mutant of Waterfall: an active step does not demote the later ones.
WaterfallAll(raw) == raw

\* applyWaterfall: of the active steps only the first stays active.
Waterfall(raw) ==
  [i \in 1..8 |->
     IF raw[i] = "active" /\ \E j \in 1..(i - 1) : raw[j] = "active"
     THEN "pending" ELSE raw[i]]

\* deriveProvisioningSteps: overrides first, and a failed session has its
\* first incomplete step marked.
Derive(s, overrides) ==
  LET raw == [i \in 1..8 |->
        IF overrides[StepDefs[i]] # None THEN overrides[StepDefs[i]]
        ELSE BaseStatus(s, StepDefs[i])]
      fall == Waterfall(raw)
      FirstIncomplete(i) ==
        /\ fall[i] # "done"
        /\ i # 8
        /\ \A j \in 1..(i - 1) : fall[j] = "done"
  IN [i \in 1..8 |->
        IF s.status = "failed" /\ FirstIncomplete(i) THEN "failed"
        ELSE fall[i]]

-----------------------------------------------------------------------------
(* Types *)

\* Events that are published, or replayed, without an await in between: the
\* page receives them in this order, and no answer comes between them.
Event(type, id, status) == [type |-> type, step |-> id, status |-> status]
StepEvent(id, status) == Event("step", id, status)
StatusEvent(status) == Event("status", None, status)
ReadyEvent == Event("ready", None, None)
ErrorEvent == Event("error", None, None)

Events ==
  [type: {"step", "progress", "status", "ready", "error"},
   step: Steps \cup {None},
   status: Statuses \cup StepStatuses \cup {None}]

NoBus == 0
Buses == 1..(Cardinality(Streams) + 1)

\* at: "reading" has its snapshot and has not subscribed yet; "listening"
\* is on the emitter bus; "released" has left it.  todo: what the runtime
\* will still call for a connection that is gone.
StreamStates ==
  [at: {"free", "reading", "listening", "released"},
   snap: Sessions \cup {NoSession}, log: 0..3, bus: Buses \cup {NoBus},
   todo: SUBSET {"abort", "cancel"}]

FreeStream ==
  [at |-> "free", snap |-> NoSession, log |-> 0, bus |-> NoBus, todo |-> {}]

\* A read is the initial request or a poll.
Kinds == {"read", "refetch", "stop"}

Requests ==
  [at: {"idle", "busy", "answered"},
   body: Sessions \cup {NoSession}]

NoRequest == [at |-> "idle", body |-> NoSession]

TypeOK ==
  /\ row \in Sessions
  /\ log \in 0..MaxLog
  /\ srv \in {"idle", "probing", "marking", "stopping", "grading"}
  /\ verified \in BOOLEAN
  /\ expired \in BOOLEAN
  /\ bus \in Buses \cup {NoBus}
  /\ stream \in [Streams -> StreamStates]
  /\ queue \in [Streams -> Seq(Seq(Events))]
  /\ es \in Streams \cup {None}
  /\ req \in [Kinds -> Requests]
  /\ loaded \in BOOLEAN
  /\ view \in Sessions \cup {NoSession}
  /\ steps \in [Steps -> StepStatuses \cup {None}]
  /\ told \in BOOLEAN
  /\ faults \in 0..MaxFaults
  /\ wasReady \in BOOLEAN

\* POST /api/sessions has answered, so the launch is over one way or the
\* other, and the host may have reported; the events of all that went to an
\* emitter nobody listens on.
Init ==
  /\ row \in [status: {"provisioning"}, inst: {TRUE}, ip: BOOLEAN,
              rcvd: {FALSE}, sshErr: {FALSE}]
       \cup [status: {"failed"}, inst: {FALSE}, ip: {FALSE},
             rcvd: {FALSE}, sshErr: {FALSE}]
  /\ log \in 0..MaxLog
  /\ srv = "idle"
  /\ verified = FALSE
  /\ expired = FALSE
  /\ bus = 1
  /\ stream = [s \in Streams |-> FreeStream]
  /\ queue = [s \in Streams |-> <<>>]
  /\ es = None
  /\ req = [k \in Kinds |-> NoRequest]
  /\ loaded = FALSE
  /\ view = NoSession
  /\ steps = NoOverrides
  /\ told = FALSE
  /\ faults = 0
  /\ wasReady = FALSE

-----------------------------------------------------------------------------
(* The bus (web/lib/events.ts) *)

FreshBus ==
  CHOOSE b \in Buses : \A s \in Streams : stream[s].bus # b

\* getBus: the session's emitter, made on first use.
GetBus == IF bus = NoBus THEN FreshBus ELSE bus

Listening(s) == stream[s].at = "listening"

\* publish: the burst goes to whoever listens on the emitter in the map.
Publish(burst) ==
  /\ bus' = GetBus
  /\ queue' = [s \in Streams |->
       IF Listening(s) /\ stream[s].bus = GetBus /\ es = s /\ burst # <<>>
       THEN Append(queue[s], burst) ELSE queue[s]]

\* Mutant of Unsubscribe: the entry goes whoever else is listening.
UnsubscribeAll(s) == bus' = NoBus

\* The release closure: off, and when the emitter it was subscribed to has
\* no listener left, the map entry goes, whichever emitter it holds by then.
Unsubscribe(s) ==
  bus' = IF \E t \in Streams \ {s} :
              Listening(t) /\ stream[t].bus = stream[s].bus
         THEN bus ELSE NoBus

-----------------------------------------------------------------------------
(* The web task's work on the row (web/lib/sessions.ts) *)

Write(new, burst) ==
  /\ row' = new
  /\ Publish(burst)
  /\ wasReady' = (wasReady \/ new.status = "ready")

\* What is on its way to the page and not there yet.
Lag ==
  (IF es = None THEN 0 ELSE Len(queue[es]))
  + Cardinality({k \in Kinds : req[k].at = "answered"})
  + Cardinality({s \in Streams : stream[s].at = "reading"})

Room == Lag < MaxLag

TaskWork(new, burst, next) ==
  /\ UNCHANGED <<log, expired>>
  /\ burst # <<>> => Room
  /\ Write(new, burst)
  /\ srv' = next
  /\ verified' = (verified \/ next = "marking")

TaskStep(new, burst, next) ==
  /\ TaskWork(new, burst, next)
  /\ UNCHANGED <<stream, es, pageVars, faults>>

Fault ==
  /\ faults < MaxFaults
  /\ faults' = faults + 1

\* The events are out, and the write is rejected: new is the old row, but
\* for what it takes from a file.
Rejected(new, burst) ==
  /\ Fault
  /\ TaskWork(new, burst, "idle")
  /\ UNCHANGED <<stream, es, pageVars>>

\* maybeRefreshSessionIps, from any read of the session.
RefreshIp ==
  /\ srv = "idle"
  /\ row.inst /\ ~row.ip
  /\ row.status \notin {"stopped", "failed", "stopping"}
  /\ TaskStep([row EXCEPT !.ip = TRUE],
              <<StepEvent("assign_public_ip", "done")>>, "idle")
  /\ UNCHANGED req

\* reportBootstrapProgress, for the next step of the host's boot.
HostProgress ==
  /\ srv = "idle"
  /\ row.inst /\ ~row.rcvd /\ log < MaxLog
  /\ row.status \notin {"stopped", "stopping", "ready"}
  /\ Room
  /\ log' = log + 1
  /\ Publish([i \in 1..log |-> StepEvent(BootSteps[i], "done")]
              \o <<StepEvent(BootSteps[log'], "active"),
                   Event("progress", BootSteps[log'], None)>>)
  /\ UNCHANGED <<row, srv, verified, expired, stream, es, req, pageVars, faults,
                 wasReady>>

\* markReady: the marker and the three steps, then the address, then the
\* probe; a rejected write leaves the address and the probe out.
HostReady ==
  LET done == [i \in 1..3 |-> StepEvent(BootSteps[i], "done")]
      over == row.status \in {"ready", "stopped"}
  IN /\ srv = "idle"
     /\ row.inst /\ ~row.rcvd
     /\ \/ TaskStep([row EXCEPT !.rcvd = TRUE, !.ip = TRUE],
                    done \o IF over THEN <<>>
                            ELSE <<StepEvent("verify_ssh", "active")>>,
                    IF over THEN "idle" ELSE "probing")
        \/ Rejected([row EXCEPT !.rcvd = TRUE], done)
     /\ UNCHANGED req

\* getSessionState starts the probe again for a host that has reported in.
Probe ==
  /\ srv = "idle"
  /\ row.status = "provisioning" /\ row.rcvd
  /\ TaskStep(row, <<StepEvent("verify_ssh", "active")>>, "probing")
  /\ UNCHANGED req

ProbeFails ==
  /\ srv = "probing"
  /\ \/ TaskStep([row EXCEPT !.sshErr = TRUE],
                 <<StepEvent("verify_ssh", "failed"), ErrorEvent>>, "idle")
     \/ Rejected(row, <<StepEvent("verify_ssh", "failed")>>)
  /\ UNCHANGED req

\* A login came through: the step is ticked before the row says "ready".
ProbeSucceeds ==
  /\ srv = "probing"
  /\ row.ip
  /\ TaskStep(row, <<StepEvent("verify_ssh", "done")>>, "marking")
  /\ UNCHANGED req

ReadyBurst == <<ReadyEvent, StatusEvent("ready"), StepEvent("ready", "done")>>

ReadyWritten ==
  /\ srv = "marking"
  /\ TaskStep([row EXCEPT !.status = "ready", !.sshErr = FALSE], ReadyBurst,
              "idle")
  /\ UNCHANGED req

\* Mutant of ReadyLost: the events do not wait for the write.
ReadyLostAnnounced ==
  /\ srv = "marking"
  /\ Rejected(row, ReadyBurst)
  /\ UNCHANGED req

\* The write is rejected: the row stays as it was, and the tick is out.
ReadyLost ==
  /\ srv = "marking"
  /\ Rejected(row, <<>>)
  /\ UNCHANGED req

\* shutdownSessionInternal, asked for by the host's watcher or the Lambda.
ShutDown ==
  /\ srv = "idle"
  /\ row.status \notin {"stopped", "stopping"}
  /\ TaskStep([row EXCEPT !.status = "stopping"], <<>>, "stopping")
  /\ UNCHANGED req

\* ... and it answers a stop request of the page that started it.
ShutDownEnds ==
  /\ srv = "stopping"
  /\ LET new == [row EXCEPT !.status = "stopped"]
     IN /\ TaskStep(new, <<StatusEvent("stopped")>>, "idle")
        /\ req' = IF req["stop"].at = "busy"
                  THEN [req EXCEPT !["stop"].at = "answered",
                                   !["stop"].body = new]
                  ELSE req

-----------------------------------------------------------------------------
(* The SSE route (web/app/api/sessions/[id]/events/route.ts) *)

\* GET: authorized, and the snapshot is read; the page's EventSource is up.
Connect ==
  /\ es = None
  /\ ~expired
  /\ Room
  /\ \E s \in Streams : stream[s].at = "free"
  /\ LET s == CHOOSE s \in Streams : stream[s].at = "free"
     IN /\ es' = s
        /\ stream' = [stream EXCEPT ![s] = [FreeStream EXCEPT
             !.at = "reading", !.snap = row, !.log = log]]
  /\ UNCHANGED <<serverVars, bus, queue, req, pageVars, faults, wasReady>>

\* What start() sends before it subscribes: status, the derived steps, the
\* log once more, and where to SSH.
Snapshot(s, n) ==
  LET derived == Derive(s, NoOverrides)
      Told(i) == IF derived[i] = "pending" THEN <<>>
                 ELSE <<StepEvent(StepDefs[i], derived[i])>>
  IN <<StatusEvent(s.status)>>
     \o Told(1) \o Told(2) \o Told(3) \o Told(4)
     \o Told(5) \o Told(6) \o Told(7) \o Told(8)
     \o [i \in 1..n |-> Event("progress", BootSteps[i], None)]
     \o IF s.status = "ready" /\ s.ip THEN <<ReadyEvent>> ELSE <<>>

Subscribe(s) ==
  /\ stream[s].at = "reading"
  /\ bus' = GetBus
  /\ stream' = [stream EXCEPT ![s].at = "listening", ![s].bus = GetBus,
                              ![s].snap = NoSession, ![s].log = 0]
  /\ queue' = IF es = s THEN [queue EXCEPT ![s] = 
                                 <<Snapshot(stream[s].snap, stream[s].log)>>]
              ELSE queue
  /\ UNCHANGED <<serverVars, es, req, pageVars, faults, wasReady>>

\* What is left to call for stream s once its connection is gone.  An abort
\* that comes before start() has run finds no handler yet.
Gone(s) ==
  IF stream[s].at = "reading" THEN {"cancel"} ELSE {"abort", "cancel"}

\* The abort handler: unsubscribe, then close, after which cancel is a no-op.
Abort(s) ==
  /\ stream[s].at \in {"listening", "released"}
  /\ "abort" \in stream[s].todo
  /\ Unsubscribe(s)
  /\ stream' = [stream EXCEPT ![s] = FreeStream]
  /\ UNCHANGED <<serverVars, queue, es, req, pageVars, faults, wasReady>>

\* cancel(): unsubscribe; the abort handler is still to come, if it can.
Cancel(s) ==
  /\ Listening(s)
  /\ "cancel" \in stream[s].todo
  /\ Unsubscribe(s)
  /\ stream' = [stream EXCEPT ![s] =
       IF "abort" \in stream[s].todo
       THEN [@ EXCEPT !.at = "released", !.todo = {"abort"}]
       ELSE FreeStream]
  /\ UNCHANGED <<serverVars, queue, es, req, pageVars, faults, wasReady>>

-----------------------------------------------------------------------------
(* The page: requests *)

Answered(k, body) ==
  req' = [req EXCEPT ![k] = [at |-> "answered", body |-> body]]

\* Mutant of Read: the request carries no token.
ReadWithoutToken ==
  /\ req["read"].at = "idle"
  /\ Room
  /\ Answered("read", NoSession)
  /\ UNCHANGED <<serverVars, streamVars, queue, es, view, steps, wasReady>>

\* GET /api/sessions/<id>, by the time the row is read: what the page holds
\* from here on until the answer is applied may be old.  Past the token's
\* time the answer is a 401, whose body has no session.
Read ==
  /\ req["read"].at = "idle"
  /\ Room
  /\ Answered("read", IF expired THEN NoSession ELSE row)
  /\ UNCHANGED <<serverVars, streamVars, queue, es, view, steps, wasReady>>

\* The initial request, once the token is there; if it is lost or refused,
\* the page says so, and applies nothing.
Load ==
  /\ ~loaded
  /\ loaded' = TRUE
  /\ \/ ~expired /\ Read /\ UNCHANGED <<told, faults>>
     \/ /\ \/ expired /\ UNCHANGED faults
           \/ Fault
        /\ told' = FALSE
        /\ UNCHANGED <<serverVars, streamVars, queue, es, req, view, steps,
                       wasReady>>

\* Mutant of Poll: nothing to poll for without a session.
PollWhileShown ==
  /\ loaded
  /\ view # NoSession
  /\ ~IsReady(view)
  /\ view.status \notin {"stopped", "failed"}
  /\ Read
  /\ UNCHANGED <<loaded, told, faults>>

\* The interval of three seconds, until the view is ready or over.  It does
\* not look at the answer's status, so that a 401 is applied like a session.
Poll ==
  /\ loaded
  /\ ~IsReady(view)
  /\ view.status \notin {"stopped", "failed"}
  /\ Read
  /\ UNCHANGED <<loaded, told, faults>>

\* stopSession: the button, live unless the view is stopping or stopped, and
\* POST stop, which returns early or shuts the session down.
Stop ==
  /\ loaded
  /\ view.status \notin {"stopping", "stopped"}
  /\ req["stop"].at = "idle"
  /\ srv = "idle"
  /\ told' = FALSE
  /\ \/ /\ row.status \in {"stopped", "stopping"}
        /\ Room
        /\ Answered("stop", row)
        /\ UNCHANGED <<serverVars, streamVars, queue, wasReady>>
     \/ /\ row.status \notin {"stopped", "stopping"}
        /\ req' = [req EXCEPT !["stop"].at = "busy"]
        /\ TaskWork([row EXCEPT !.status = "stopping"], <<>>, "stopping")
        /\ UNCHANGED stream
  /\ UNCHANGED <<es, loaded, view, steps, faults>>

\* The three ways a POST grade goes: no answer, a refusal, a grader run.  An
\* answer that is an error is shown at once.
GradeLost ==
  /\ Fault
  /\ told' = FALSE
  /\ UNCHANGED <<serverVars, bus, queue, wasReady>>

\* Mutant of GradeRefused: the page says nothing of a refusal.
GradeRefusedSilently ==
  /\ row.status \in {"stopped", "failed"}
  /\ UNCHANGED <<told, serverVars, bus, queue, faults, wasReady>>

GradeRefused ==
  /\ row.status \in {"stopped", "failed"}
  /\ told' = TRUE
  /\ UNCHANGED <<serverVars, bus, queue, faults, wasReady>>

\* The button takes down the last error first.
GradeStarts ==
  /\ row.status \notin {"stopped", "failed", "provisioning"}
  /\ TaskWork([row EXCEPT !.status = "running"],
              <<StatusEvent("running")>>, "grading")
  /\ told' = (told /\ Practice)
  /\ UNCHANGED faults

\* The interval of nine seconds on a ready practice session with an address,
\* or the button of an assessment (runChecks).
RequestGrade ==
  /\ IsReady(view)
  /\ Practice => view.ip
  /\ srv = "idle"
  /\ GradeLost \/ GradeRefused \/ GradeStarts
  /\ UNCHANGED <<stream, es, req, loaded, view, steps>>

\* The grader has run, or failed; a failed run leaves the row at running.
GradeEnds ==
  /\ srv = "grading"
  /\ \/ /\ TaskWork([row EXCEPT !.status = "ready"], <<>>, "idle")
        /\ UNCHANGED told
     \/ /\ TaskWork([row EXCEPT !.sshErr = FALSE], <<ErrorEvent>>, "idle")
        /\ told' = FALSE
  /\ UNCHANGED <<stream, es, req, loaded, view, steps, faults>>

-----------------------------------------------------------------------------
(* The page: what arrives *)

\* Mutant of Inferred: a host that has reported in counts as verified.
InferredByCallback(s, old) ==
  [id \in Steps |->
     CASE s.rcvd /\ id \in Booting \cup {"verify_ssh"} -> "done"
       [] s.ip /\ id = "assign_public_ip" -> "done"
       [] s.status = "ready" /\ id = "ready" -> "done"
       [] OTHER -> old[id]]

\* The effect on bootstrapReceived, sshHost and status of the session.
Inferred(s, old) ==
  [id \in Steps |->
     CASE s.rcvd /\ id \in Booting -> "done"
       [] s.ip /\ id = "assign_public_ip" -> "done"
       [] s.status = "ready" /\ id \in {"verify_ssh", "ready"} -> "done"
       [] s.rcvd /\ s.status = "provisioning" /\ id = "verify_ssh" -> "active"
       [] OTHER -> old[id]]

\* setSession, and the effect when one of its three inputs changed.
Shown(p, s) ==
  [p EXCEPT !.view = s,
            !.steps = IF s = NoSession
                         \/ <<s.rcvd, s.ip, s.status>>
                              = <<p.view.rcvd, p.view.ip, p.view.status>>
                      THEN @ ELSE Inferred(s, @)]

\* Mutant of OnMessage: the status of any event is taken for the session's.
OnMessageAnyStatus(p, e) ==
  IF e.status = None \/ p.view = NoSession THEN p
  ELSE Shown(p, [p.view EXCEPT !.status = e.status])

\* onmessage.  The error branch tests the session of the render that opened
\* the stream, when there was none, so it never marks verify_ssh.
OnMessage(p, e) ==
  CASE e.type = "step" -> [p EXCEPT !.steps[e.step] = e.status]
    [] e.type = "progress" -> [p EXCEPT !.steps[e.step] = "active"]
    [] e.type = "ready" ->
         [(IF p.view = NoSession THEN p
           ELSE Shown(p, [p.view EXCEPT !.status = "ready", !.ip = TRUE]))
          EXCEPT !.told = FALSE]
    [] e.type = "status" ->
         [(IF p.view = NoSession THEN p
           ELSE Shown(p, [p.view EXCEPT !.status = e.status]))
          EXCEPT !.refetch = @ \/ e.status = "ready"]
    [] e.type = "error" -> [p EXCEPT !.told = FALSE]

Page == [view |-> view, steps |-> steps, told |-> told, refetch |-> FALSE]

\* The page after a burst, in a set of its own: TLC evaluates an element of
\* a set once, and an argument whenever it is named.
After(burst) ==
  LET f[i \in 0..Len(burst)] ==
        IF i = 0 THEN {Page} ELSE {OnMessage(p, burst[i]) : p \in f[i - 1]}
  IN f[Len(burst)]

Display(p) ==
  /\ view' = p.view
  /\ steps' = p.steps
  /\ told' = p.told

\* The page handles what one burst brings.  A "ready" status makes it fetch
\* again, without the token: the answer is 401, its body has no session.
Receive ==
  /\ es # None
  /\ queue[es] # <<>>
  /\ \E p \in After(Head(queue[es])) :
        /\ Display(p)
        /\ req' = IF p.refetch
                  THEN [req EXCEPT !["refetch"] =
                          [at |-> "answered", body |-> NoSession]]
                  ELSE req
  /\ queue' = [queue EXCEPT ![es] = Tail(@)]
  /\ UNCHANGED <<serverVars, streamVars, es, loaded, faults, wasReady>>

\* applySessionPayload and its kin, whatever the page shows by now.
ApplyAnswer(k) ==
  /\ req[k].at = "answered"
  /\ Display(Shown(Page, req[k].body))
  /\ req' = [req EXCEPT ![k] = NoRequest]
  /\ UNCHANGED <<serverVars, streamVars, queue, es, loaded, faults, wasReady>>

\* The answer to a stop is lost, and the page says so.  (A read that is lost
\* leaves things as if it had not been sent.)
LoseStop ==
  /\ Fault
  /\ req["stop"].at = "answered"
  /\ req' = [req EXCEPT !["stop"] = NoRequest]
  /\ told' = FALSE
  /\ UNCHANGED <<serverVars, streamVars, queue, es, loaded, view, steps,
                 wasReady>>

Disconnected ==
  /\ es' = None
  /\ queue' = [queue EXCEPT ![es] = <<>>]
  /\ stream' = [stream EXCEPT ![es].todo = Gone(es)]

\* The stream breaks; onerror reconnects three seconds later.
Drop ==
  /\ es # None
  /\ Fault
  /\ Disconnected
  /\ UNCHANGED <<serverVars, bus, req, pageVars, wasReady>>

\* The learner reloads the page: its state goes, the task's side stays.
Reload ==
  /\ loaded
  /\ Fault
  /\ loaded' = FALSE
  /\ view' = NoSession
  /\ steps' = NoOverrides
  /\ told' = FALSE
  /\ req' = [k \in Kinds |-> NoRequest]
  /\ IF es = None THEN UNCHANGED <<es, queue, stream>> ELSE Disconnected
  /\ UNCHANGED <<serverVars, bus, wasReady>>

\* The learner's token passes its time; requireLearnerSession turns down the
\* reads and the streams from here on, and stop and grade do not ask it.
Expire ==
  /\ ~expired
  /\ Fault
  /\ expired' = TRUE
  /\ UNCHANGED <<row, log, srv, verified, streamVars, queue, es, req, pageVars,
                 wasReady>>

\* What the middle of the page is.
Stage ==
  IF view.status \notin {"ready", "running", "failed", "stopped"}
  THEN "provisioning"
  ELSE IF IsReady(view) THEN "terminal" ELSE "notice"

-----------------------------------------------------------------------------

Task ==
  \/ RefreshIp \/ HostProgress \/ HostReady
  \/ Probe \/ ProbeFails \/ ProbeSucceeds \/ ReadyWritten \/ ReadyLost
  \/ ShutDown \/ ShutDownEnds
  \/ GradeEnds
  \/ \E s \in Streams : Subscribe(s) \/ Abort(s) \/ Cancel(s)
  \/ Expire

Browser ==
  \/ Load \/ Poll \/ RequestGrade \/ Stop
  \/ Receive
  \/ \E k \in Kinds : ApplyAnswer(k)
  \/ LoseStop
  \/ Connect \/ Drop \/ Reload

Next == Task \/ Browser

Spec == Init /\ [][Next]_vars

(***************************************************************************)
(* The task finishes what it has begun, the page handles what has arrived  *)
(* and its timers fire; of the things that wait, only that one of them is  *)
(* taken.  Nothing makes a host boot, a learner act or a connection break. *)
(***************************************************************************)
Fairness ==
  /\ WF_vars(\/ ProbeFails \/ ProbeSucceeds \/ ReadyWritten \/ ReadyLost
             \/ ShutDownEnds \/ GradeEnds
             \/ \E s \in Streams : Subscribe(s))
  /\ WF_vars(Receive \/ \E k \in Kinds : ApplyAnswer(k))
  /\ WF_vars(Load \/ Poll)
  /\ Practice => SF_vars(RequestGrade)

FairSpec == Spec /\ Fairness

-----------------------------------------------------------------------------
(* Properties *)

\* The steps the task has had reason to call done: the row says so, a later
\* step of the boot was reported, or a login came through.
Evidence ==
  {id \in Steps : wasReady \/ BaseStatus(row, id) = "done"}
    \cup {BootSteps[i] : i \in 1..(log - 1)}
    \cup {id \in {"verify_ssh"} : verified}

(***************************************************************************)
(* While the page shows the provisioning list, at most one step spins, and *)
(* a step is ticked only when the task has had evidence for it, however    *)
(* replayed logs, events, rejected writes and old answers have been merged *)
(* into the list: verify_ssh may be ticked for a session that never gets   *)
(* ready, but only after a login, and nothing else may.                    *)
(***************************************************************************)
StepsTellTruth ==
  Stage = "provisioning" =>
    LET list == Derive(view, steps)
    IN /\ \A i, j \in 1..8 :
            list[i] = "active" /\ list[j] = "active" => i = j
       /\ \A i \in 1..8 : list[i] = "done" => StepDefs[i] \in Evidence

(***************************************************************************)
(* The terminal is offered only for a session that has been ready: no      *)
(* event, answer or merge of the two invents readiness.                    *)
(***************************************************************************)
ReadyNotInvented ==
  Stage = "terminal" \/ steps["ready"] = "done" => wasReady

(***************************************************************************)
(* A listening stream stops hearing of the session only by its own release *)
(* or by that of a stream whose emitter is not the one in the map: the     *)
(* abort after a cancel, and then every stream that one has cut off.       *)
(***************************************************************************)
Heard(s) == Listening(s) /\ stream[s].bus = bus

StaleRelease(t) == stream[t].bus \notin {bus, NoBus} /\ stream'[t] # stream[t]

CutOffOnlyByStaleRelease ==
  [][\A s \in Streams :
       Heard(s) /\ Listening(s)' /\ ~Heard(s)'
         => \E t \in Streams \ {s} : StaleRelease(t)]_vars

(***************************************************************************)
(* A session on the page disappears from it only by a reload, by the       *)
(* refetch that a "ready" status event triggers (it sends no token and     *)
(* applies the 401 body), or by the answer to a poll once the token is     *)
(* past its time; no event blanks the page, and no poll before that.       *)
(***************************************************************************)
Applied(k) == req[k].at = "answered" /\ req'[k].at = "idle"

BlankOnlyByRefusal ==
  [][view # NoSession /\ view' = NoSession
       => ~loaded' \/ Applied("refetch") \/ (expired /\ Applied("read"))]_vars

(***************************************************************************)
(* Nobody waits for ever on a lab that is there: once the row stays ready  *)
(* and the token keeps its time, the page in the end stays ready too,      *)
(* through rejected writes, refetches that blank it, stale answers and     *)
(* streams that hear nothing.                                              *)
(***************************************************************************)
ReadyLabIsShown ==
  <>[](row.status \in {"ready", "running"} /\ loaded /\ ~expired)
    => <>[]IsReady(view)

(***************************************************************************)
(* A learner whose practice session is over is told in the end, even when  *)
(* the stopped event was missed: by the status, or by the error the next   *)
(* automatic grade brings.                                                 *)
(***************************************************************************)
StopIsTold ==
  <>[](row.status = "stopped" /\ loaded) => <>[](~IsReady(view) \/ told)
=============================================================================
