------------------------- MODULE ShellBridge_proofs -------------------------
(***************************************************************************)
(* Proofs of the safety properties of ShellBridge and of the host below it *)
(* for any number of clients and terminals and any grace, and that a       *)
(* terminal over a host that is gone is told.                              *)
(***************************************************************************)
EXTENDS ShellBridge, TLAPS

(***************************************************************************)
(* Type correctness                                                        *)
(***************************************************************************)

\* The bounds and empty values the steps below start from.
LEMMA ValueTypes ==
  /\ NoWatcher \in Watchers /\ [NoWatcher EXCEPT !.on = TRUE] \in Watchers
  /\ NoTerminal \in Terminals
  /\ FreeBridge \in BridgeStates
  /\ Bridges \subseteq Clients
<1>1. 0 \in 0..Grace
  BY GraceAssumption DEF GraceAssumption
<1>2. /\ NoWatcher \in Watchers
      /\ [NoWatcher EXCEPT !.on = TRUE] \in Watchers
  BY <1>1 DEF NoWatcher, Watchers
<1>3. NoTerminal \in Terminals
  BY DEF NoTerminal, Terminals
<1>4. FreeBridge \in BridgeStates
  BY DEF FreeBridge, BridgeStates
<1>. QED  BY <1>2, <1>3, <1>4 DEF Bridges

\* A step of the boot script keeps the types.
LEMMA ScriptType ==
  ASSUME TypeOK, Script, UNCHANGED <<term, bridgeVars, keyFile, visits>>
  PROVE  TypeOK'
  <1>. USE ValueTypes DEF TypeOK, HostTypeOK, BootSteps, Outcomes, At, Report,
           Fails, bootVars, watchVars, hostVars, bridgeVars
  <1>1. CASE InstallDocker  BY <1>1 DEF InstallDocker
  <1>2. CASE ReleasePort22  BY <1>2 DEF ReleasePort22
  <1>3. CASE StartContainer  BY <1>3 DEF StartContainer
  <1>4. CASE WaitContainer  BY <1>4 DEF WaitContainer
  <1>5. CASE WaitPort22  BY <1>5 DEF WaitPort22
  <1>6. CASE InstallKeys  BY <1>6 DEF InstallKeys
  <1>7. CASE NotifyReady  BY <1>7 DEF NotifyReady
  <1>. QED  BY <1>1, <1>2, <1>3, <1>4, <1>5, <1>6, <1>7 DEF Script

\* A sample of the watcher does.
LEMMA SampledType ==
  ASSUME TypeOK, UNCHANGED <<term, bridgeVars, keyFile, visits>>,
         NEW w \in Watchers, NEW post \in BOOLEAN, Sampled(w, post)
  PROVE  TypeOK'
  <1>1. unseen' \in 0..(Grace + 1)
    BY GraceAssumption DEF GraceAssumption, TypeOK, HostTypeOK, Sampled
  <1>2. asked' \in Outcomes
    BY DEF TypeOK, HostTypeOK, Sampled, Outcomes
  <1>. QED
    BY <1>1, <1>2 DEF TypeOK, HostTypeOK, Sampled, bootVars, bridgeVars

LEMMA WatchType ==
  ASSUME TypeOK, Watch, UNCHANGED <<term, bridgeVars, keyFile, visits>>
  PROVE  TypeOK'
  <1>. USE SampledType, GraceAssumption
       DEF GraceAssumption, TypeOK, HostTypeOK, Watchers
  <1>1. CASE SampleSees
    <2>1. [watcher EXCEPT !.had = TRUE, !.idle = 0] \in Watchers
      <3>1. 0 \in 0..Grace  OBVIOUS
      <3>. QED  BY <3>1
    <2>. QED  BY <1>1, <2>1 DEF SampleSees
  <1>2. CASE SampleWaits
    BY <1>2 DEF SampleWaits
  <1>3. CASE SampleIdle
    <2>1. [watcher EXCEPT !.idle = @ + 1] \in Watchers
      BY <1>3 DEF SampleIdle
    <2>. QED  BY <1>3, <2>1 DEF SampleIdle
  <1>4. CASE SampleAsks
    <2>1. [watcher EXCEPT !.on = FALSE] \in Watchers
      OBVIOUS
    <2>. QED  BY <1>4, <2>1 DEF SampleAsks
  <1>. QED  BY <1>1, <1>2, <1>3, <1>4 DEF Watch

\* A step of the page does.
LEMMA PageType ==
  ASSUME TypeOK, Page
  PROVE  TypeOK'
  <1>. USE ValueTypes DEF TypeOK, HostTypeOK, bootVars, watchVars, hostVars,
           bridgeVars
  <1>1. CASE Mount
    BY <1>1, BridgeAssumption DEF BridgeAssumption, Mount, Terminals
  <1>2. CASE OpenSocket
    BY <1>2 DEF OpenSocket, Terminals, BridgeStates
  <1>3. CASE SocketOpens
    BY <1>3 DEF SocketOpens, Terminals
  <1>4. CASE SocketBreaks
    BY <1>4 DEF SocketBreaks, Terminals
  <1>5. CASE SocketCloses
    BY <1>4, <1>5 DEF SocketCloses
  <1>6. CASE Unmount
    BY <1>6 DEF Unmount, Terminals
  <1>. QED  BY <1>1, <1>2, <1>3, <1>4, <1>5, <1>6 DEF Page

\* A step of one bridge does.
LEMMA ServerType ==
  ASSUME TypeOK, Server
  PROVE  TypeOK'
  <1>1. PICK c \in Bridges :
          \/ Refuse(c) \/ Upgrade(c) \/ ConnReady(c) \/ ConnFails(c)
          \/ ShellOpens(c) \/ ShellEnds(c) \/ SocketGone(c) \/ Forget(c)
    BY DEF Server
  <1>. USE <1>1, ValueTypes DEF TypeOK, HostTypeOK, bootVars, watchVars,
           hostVars, bridgeVars, serverUnchanged
  <1>2. ASSUME Cleanup(c), UNCHANGED serverUnchanged  PROVE TypeOK'
    BY <1>2, ZenonT(30) DEF Cleanup, Closed, BridgeStates
  <1>3. CASE Refuse(c)  BY <1>3 DEF Refuse, FreeBridge, BridgeStates
  <1>4. CASE Upgrade(c)  BY <1>4 DEF Upgrade, FreeBridge, BridgeStates
  <1>5. CASE ConnReady(c)  BY <1>5 DEF ConnReady, BridgeStates
  <1>6. CASE ConnFails(c)  BY <1>2, <1>6 DEF ConnFails
  <1>7. CASE ShellOpens(c)
    <2>1. [bridge[c] EXCEPT !.conn = "shell", !.wired = TRUE] \in BridgeStates
      BY DEF BridgeStates
    <2>2. bridge' = [bridge EXCEPT ![c] =
                       [bridge[c] EXCEPT !.conn = "shell", !.wired = TRUE]]
      BY <1>7 DEF ShellOpens
    <2>. QED  BY <1>7, <2>1, <2>2 DEF ShellOpens
  <1>8. CASE ShellEnds(c)  BY <1>2, <1>8 DEF ShellEnds
  <1>9. CASE SocketGone(c)
    BY <1>2, <1>9 DEF SocketGone, BridgeStates
  <1>10. CASE Forget(c)  BY <1>10 DEF Forget
  <1>. QED
    BY <1>3, <1>4, <1>5, <1>6, <1>7, <1>8, <1>9, <1>10

(***************************************************************************)
(* Every variable keeps its type (TypeOK), whatever closes or fails first. *)
(***************************************************************************)
THEOREM TypeCorrect == Spec => []TypeOK
<1>1. Init => TypeOK
  <2>. SUFFICES ASSUME Init  PROVE TypeOK
    OBVIOUS
  <2>1. HostTypeOK
    <3>1. unseen \in 0..(Grace + 1)
      BY GraceAssumption DEF GraceAssumption, Init, HostInit
    <3>. QED
      BY <3>1, ValueTypes DEF Init, HostInit, HostTypeOK, BootSteps, Outcomes
  <2>2. visits \in 0..MaxVisits
    BY BridgeAssumption DEF BridgeAssumption, Init
  <2>. QED  BY <2>1, <2>2, ValueTypes DEF Init, TypeOK
<1>2. TypeOK /\ [Next]_vars => TypeOK'
  <2>. SUFFICES ASSUME TypeOK, [Next]_vars  PROVE TypeOK'
    OBVIOUS
  <2>. USE DEF TypeOK, HostTypeOK, bootVars, watchVars, hostVars, bridgeVars,
               serverUnchanged
  <2>1. CASE Host
    <3>1. CASE Script  BY <2>1, <3>1, ScriptType DEF Host
    <3>2. CASE ContainerRuns  BY <2>1, <3>2 DEF Host, ContainerRuns
    <3>3. CASE SshdStarts  BY <2>1, <3>3 DEF Host, SshdStarts
    <3>4. CASE Watch  BY <2>1, <3>4, WatchType DEF Host
    <3>. QED  BY <2>1, <3>1, <3>2, <3>3, <3>4 DEF Host, HostNext, Container
  <2>2. CASE Page  BY <2>2, PageType
  <2>3. CASE Server  BY <2>3, ServerType
  <2>4. CASE TaskConnects  BY <2>4 DEF TaskConnects
  <2>5. CASE TaskDisconnects  BY <2>5 DEF TaskDisconnects
  <2>6. CASE Terminate  BY <2>6 DEF Terminate
  <2>7. CASE UNCHANGED vars  BY <2>7 DEF vars
  <2>. QED  BY <2>1, <2>2, <2>3, <2>4, <2>5, <2>6, <2>7 DEF Next
<1>. QED  BY <1>1, <1>2, PTL DEF Spec

(***************************************************************************)
(* What the boot script has done by the time it calls the web task         *)
(***************************************************************************)

BootInv ==
  /\ boot \in {"wait_port22", "install_keys", "notify_ready", "complete"}
       => lab = "running"
  /\ boot \in {"notify_ready", "complete"} => keys
  /\ called # "no" => boot = "complete"

\* The invariant is kept by the script, which is what moves boot.
LEMMA ScriptKeepsBoot ==
  ASSUME BootInv, Script
  PROVE  BootInv'
  <1>. USE DEF BootInv, At, Fails, Report
  <1>1. CASE InstallDocker  BY <1>1 DEF InstallDocker
  <1>2. CASE ReleasePort22  BY <1>2 DEF ReleasePort22
  <1>3. CASE StartContainer  BY <1>3 DEF StartContainer
  <1>4. CASE WaitContainer  BY <1>4 DEF WaitContainer
  <1>5. CASE WaitPort22  BY <1>5 DEF WaitPort22
  <1>6. CASE InstallKeys  BY <1>6 DEF InstallKeys
  <1>7. CASE NotifyReady  BY <1>7 DEF NotifyReady
  <1>. QED  BY <1>1, <1>2, <1>3, <1>4, <1>5, <1>6, <1>7 DEF Script

\* Whoever is not the host leaves the boot alone.
LEMMA OthersLeaveBoot ==
  ASSUME \/ Page \/ Server \/ TaskConnects \/ TaskDisconnects \/ Terminate
  PROVE  UNCHANGED bootVars
  <1>. USE DEF hostVars, serverUnchanged
  <1>1. CASE Page
    BY <1>1 DEF Page, Mount, OpenSocket, SocketOpens, SocketBreaks,
                SocketCloses, Unmount
  <1>2. CASE Server
    BY <1>2 DEF Server, Refuse, Upgrade, ConnReady, ConnFails, ShellOpens,
                ShellEnds, SocketGone, Forget
  <1>3. CASE TaskConnects  BY <1>3 DEF TaskConnects
  <1>4. CASE TaskDisconnects  BY <1>4 DEF TaskDisconnects
  <1>5. CASE Terminate  BY <1>5 DEF Terminate
  <1>. QED  BY <1>1, <1>2, <1>3, <1>4, <1>5

\* Who cannot log in to a host that has called has only sshd to wait for.
ReadyHostHasKeys == called = "delivered" => keys /\ lab = "running"

(***************************************************************************)
(* The web task hears of a host only when the keys are in a container that *)
(* runs (ReadyHostHasKeys), wherever set -e may have ended the script.     *)
(***************************************************************************)
THEOREM KeysBeforeCallback == Spec => []ReadyHostHasKeys
<1>1. Init => BootInv
  BY DEF Init, HostInit, BootInv
<1>2. BootInv /\ [Next]_vars => BootInv'
  <2>. SUFFICES ASSUME BootInv, [Next]_vars  PROVE BootInv'
    OBVIOUS
  <2>1. CASE Host
    <3>1. CASE Script  BY <3>1, ScriptKeepsBoot
    <3>2. CASE ContainerRuns  BY <3>2 DEF ContainerRuns, BootInv
    <3>3. CASE SshdStarts  BY <3>3 DEF SshdStarts, BootInv
    <3>4. CASE Watch
      BY <3>4 DEF Watch, SampleSees, SampleWaits, SampleIdle, SampleAsks,
                  Sampled, bootVars, BootInv
    <3>. QED  BY <2>1, <3>1, <3>2, <3>3, <3>4 DEF Host, HostNext, Container
  <2>2. CASE UNCHANGED bootVars  BY <2>2 DEF bootVars, BootInv
  <2>3. CASE UNCHANGED vars  BY <2>2, <2>3 DEF vars, hostVars
  <2>. QED  BY <2>1, <2>2, <2>3, OthersLeaveBoot DEF Next
<1>3. BootInv => ReadyHostHasKeys
  BY DEF BootInv, ReadyHostHasKeys
<1>. QED  BY <1>1, <1>2, <1>3, PTL DEF Spec

(***************************************************************************)
(* What the ends of a bridge have to do with each other                    *)
(***************************************************************************)

\* A connection counts only from ready to the end of its client; a socket
\* that is not open yet has none; one that is closed has none either, or was
\* closed before anybody listened.
Consistent(c) ==
  /\ ssh[c] => bridge[c].conn \in {"up", "shell"}
  /\ bridge[c].ws \in {"free", "asked"} => bridge[c].conn = "none"
  /\ bridge[c].ws = "closed" => bridge[c].conn = "none" \/ bridge[c].early

AllConsistent == \A c \in Bridges : Consistent(c)

BridgeInv == TypeOK /\ \A c \in Bridges : Consistent(c)

\* A step at one bridge leaves the others as they are.
LEMMA OneBridge ==
  ASSUME BridgeInv, NEW c \in Bridges, Consistent(c)',
         \A d \in Bridges \ {c} : bridge'[d] = bridge[d] /\ ssh'[d] = ssh[d]
  PROVE  \A d \in Bridges : Consistent(d)'
  BY DEF BridgeInv, Consistent

\* Both ends closed at once are consistent.
LEMMA CleanupConsistent ==
  ASSUME BridgeInv, NEW c \in Bridges, Cleanup(c)
  PROVE  \A d \in Bridges : Consistent(d)'
  <1>. USE DEF BridgeInv, TypeOK, HostTypeOK, Cleanup, Closed
  <1>1. bridge'[c].conn = "none" /\ bridge'[c].ws = "closed" /\ ~ssh'[c]
    BY ValueTypes DEF BridgeStates
  <1>2. Consistent(c)'  BY <1>1 DEF Consistent
  <1>3. \A d \in Bridges \ {c} : bridge'[d] = bridge[d] /\ ssh'[d] = ssh[d]
    BY ValueTypes
  <1>. QED  BY <1>2, <1>3, OneBridge

\* What the server does to a bridge keeps it consistent.
LEMMA ServerConsistent ==
  ASSUME BridgeInv, Server
  PROVE  \A d \in Bridges : Consistent(d)'
  <1>1. PICK c \in Bridges :
          \/ Refuse(c) \/ Upgrade(c) \/ ConnReady(c) \/ ConnFails(c)
          \/ ShellOpens(c) \/ ShellEnds(c) \/ SocketGone(c) \/ Forget(c)
    BY DEF Server
  <1>2. bridge[c] \in BridgeStates /\ c \in Clients /\ Consistent(c)
    BY ValueTypes DEF BridgeInv, TypeOK
  <1>. USE <1>2, OneBridge DEF BridgeInv, TypeOK, HostTypeOK, BridgeStates
  <1>3. CASE Refuse(c)
    <2>1. Consistent(c)'  BY <1>3 DEF Refuse, FreeBridge, Consistent
    <2>. QED  BY <1>3, <2>1 DEF Refuse
  <1>4. CASE Upgrade(c)
    <2>1. Consistent(c)'  BY <1>4 DEF Upgrade, FreeBridge, Consistent
    <2>. QED  BY <1>4, <2>1 DEF Upgrade
  <1>5. CASE ConnReady(c)
    <2>1. Consistent(c)'  BY <1>5 DEF ConnReady, Consistent
    <2>2. \A d \in Bridges \ {c} : bridge'[d] = bridge[d] /\ ssh'[d] = ssh[d]
      BY <1>5, ValueTypes DEF ConnReady
    <2>. QED  BY <2>1, <2>2
  <1>6. CASE ConnFails(c)  BY <1>6, CleanupConsistent DEF ConnFails
  <1>7. CASE ShellOpens(c)
    <2>1. Consistent(c)'  BY <1>7 DEF ShellOpens, Consistent
    <2>. QED  BY <1>7, <2>1 DEF ShellOpens
  <1>8. CASE ShellEnds(c)  BY <1>8, CleanupConsistent DEF ShellEnds
  <1>9. CASE SocketGone(c)
    <2>1. CASE bridge[c].wired  BY <1>9, <2>1, CleanupConsistent DEF SocketGone
    <2>2. CASE ~bridge[c].wired
      <3>1. Consistent(c)'  BY <1>9, <2>2 DEF SocketGone, Consistent
      <3>. QED  BY <1>9, <2>2, <3>1 DEF SocketGone
    <2>. QED  BY <2>1, <2>2
  <1>10. CASE Forget(c)
    <2>1. Consistent(c)'  BY <1>10 DEF Forget, FreeBridge, Consistent
    <2>. QED  BY <1>10, <2>1 DEF Forget
  <1>. QED
    BY <1>1, <1>3, <1>4, <1>5, <1>6, <1>7, <1>8, <1>9, <1>10

(***************************************************************************)
(* An SSH connection that nobody holds is always one whose socket was      *)
(* closed before its shell was open (LeakOnlyFromEarlyClose).              *)
(***************************************************************************)
THEOREM LeaksAreEarlyCloses == Spec => []LeakOnlyFromEarlyClose
<1>1. Init => \A c \in Bridges : Consistent(c)
  BY ValueTypes DEF Init, HostInit, FreeBridge, Consistent
<1>2. BridgeInv /\ [Next]_vars => \A c \in Bridges : Consistent(c)'
  <2>. SUFFICES ASSUME BridgeInv, [Next]_vars
                PROVE  \A c \in Bridges : Consistent(c)'
    OBVIOUS
  <2>1. CASE UNCHANGED <<ssh, bridge>>
    BY <2>1 DEF BridgeInv, Consistent
  <2>2. CASE Host
    BY <2>1, <2>2 DEF Host, HostNext, Script, Container, Watch, bridgeVars,
         InstallDocker, ReleasePort22, StartContainer, WaitContainer,
         WaitPort22, InstallKeys, NotifyReady, Fails, ContainerRuns,
         SshdStarts, SampleSees, SampleWaits, SampleIdle, SampleAsks, Sampled
  <2>3. CASE OpenSocket
    <3>1. PICK c \in Bridges :
            /\ bridge[c] = FreeBridge
            /\ bridge' = [bridge EXCEPT ![c].ws = "asked"]
      BY <2>3 DEF OpenSocket
    <3>2. ssh' = ssh
      BY <2>3 DEF OpenSocket, hostVars
    <3>3. Consistent(c)'
      BY <3>1, <3>2 DEF BridgeInv, TypeOK, FreeBridge, Consistent
    <3>. QED  BY <3>1, <3>2, <3>3, OneBridge DEF BridgeInv, TypeOK
  <2>4. CASE Page /\ ~OpenSocket
    BY <2>1, <2>4 DEF Page, Mount, SocketOpens, SocketBreaks, SocketCloses,
                      Unmount, hostVars, bridgeVars
  <2>5. CASE Server  BY <2>5, ServerConsistent
  <2>6. CASE TaskConnects \/ TaskDisconnects
    <3>1. bridge' = bridge /\ \A c \in Bridges : ssh'[c] = ssh[c]
      BY <2>6, ValueTypes DEF TaskConnects, TaskDisconnects, BridgeInv,
                              TypeOK, HostTypeOK, Bridges
    <3>. QED  BY <3>1 DEF BridgeInv, Consistent
  <2>7. CASE Terminate
    BY <2>7, ValueTypes DEF Terminate, bridgeVars, BridgeInv, Consistent
  <2>8. CASE UNCHANGED vars
    BY <2>1, <2>8 DEF vars, hostVars, bridgeVars
  <2>. QED  BY <2>2, <2>3, <2>4, <2>5, <2>6, <2>7, <2>8 DEF Next, Page
<1>3. BridgeInv => LeakOnlyFromEarlyClose
  BY DEF BridgeInv, Consistent, LeakOnlyFromEarlyClose, Leaked
<1>4. AllConsistent /\ TypeOK /\ [Next]_vars => AllConsistent'
  BY <1>2 DEF BridgeInv, AllConsistent
<1>5. Init => AllConsistent
  BY <1>1 DEF AllConsistent
<1>6. TypeOK /\ AllConsistent => LeakOnlyFromEarlyClose
  BY <1>3 DEF BridgeInv, AllConsistent
<1>. QED  BY <1>4, <1>5, <1>6, TypeCorrect, PTL DEF Spec

(***************************************************************************)
(* What the watcher knows                                                  *)
(***************************************************************************)

\* Its idle clock is the number of samples since it last saw anybody.
ClockRight == watcher.on /\ watcher.had => unseen = watcher.idle

AsksAtEnd == asked = "no" /\ asked' # "no" => unseen = Grace /\ ~Connected

\* A sample keeps the clock right, and asks only at the end of the grace.
LEMMA SampleKeepsClock ==
  ASSUME TypeOK, ClockRight, Watch
  PROVE  ClockRight' /\ AsksAtEnd
  <1>. USE GraceAssumption DEF GraceAssumption, TypeOK, HostTypeOK, Watchers,
           Sampled, ClockRight, AsksAtEnd
  <1>1. CASE SampleSees  BY <1>1 DEF SampleSees
  <1>2. CASE SampleWaits  BY <1>2 DEF SampleWaits
  <1>3. CASE SampleIdle  BY <1>3 DEF SampleIdle
  <1>4. CASE SampleAsks  BY <1>4 DEF SampleAsks
  <1>. QED  BY <1>1, <1>2, <1>3, <1>4 DEF Watch

\* The script starts the watcher with nobody seen, and asks for nothing.
LEMMA ScriptStartsClock ==
  ASSUME ClockRight, Script
  PROVE  ClockRight' /\ AsksAtEnd
  <1>1. CASE UNCHANGED watchVars
    BY <1>1 DEF watchVars, ClockRight, AsksAtEnd
  <1>2. CASE NotifyReady
    BY <1>2 DEF NotifyReady, NoWatcher, ClockRight, AsksAtEnd
  <1>3. CASE Script /\ ~NotifyReady
    <2>1. UNCHANGED watchVars
      BY <1>3 DEF Script, InstallDocker, ReleasePort22, StartContainer,
                  WaitContainer, WaitPort22, InstallKeys, Fails
    <2>. QED  BY <1>1, <2>1
  <1>. QED  BY <1>2, <1>3

\* Nobody else touches the watcher.
LEMMA OthersLeaveWatcher ==
  ASSUME \/ Container \/ Page \/ Server
         \/ TaskConnects \/ TaskDisconnects \/ Terminate
  PROVE  UNCHANGED watchVars
  <1>. USE DEF hostVars, serverUnchanged
  <1>1. CASE Container  BY <1>1 DEF Container, ContainerRuns, SshdStarts
  <1>2. CASE Page
    BY <1>2 DEF Page, Mount, OpenSocket, SocketOpens, SocketBreaks,
                SocketCloses, Unmount
  <1>3. CASE Server
    BY <1>3 DEF Server, Refuse, Upgrade, ConnReady, ConnFails, ShellOpens,
                ShellEnds, SocketGone, Forget
  <1>4. CASE TaskConnects  BY <1>4 DEF TaskConnects
  <1>5. CASE TaskDisconnects  BY <1>5 DEF TaskDisconnects
  <1>6. CASE Terminate  BY <1>6 DEF Terminate
  <1>. QED  BY <1>1, <1>2, <1>3, <1>4, <1>5, <1>6

(***************************************************************************)
(* A visited host asks for its end only after a whole grace of samples     *)
(* without a connection (GraceRespected).                                  *)
(***************************************************************************)
THEOREM AsksOnlyWhenIdle == Spec => GraceRespected
<1>1. Init => ClockRight
  BY DEF Init, HostInit, ClockRight, NoWatcher
<1>2. TypeOK /\ ClockRight /\ [Next]_vars => ClockRight' /\ AsksAtEnd
  <2>. SUFFICES ASSUME TypeOK, ClockRight, [Next]_vars
                PROVE  ClockRight' /\ AsksAtEnd
    OBVIOUS
  <2>1. CASE UNCHANGED watchVars
    BY <2>1 DEF watchVars, ClockRight, AsksAtEnd
  <2>2. CASE Watch  BY <2>2, SampleKeepsClock
  <2>3. CASE Script  BY <2>3, ScriptStartsClock
  <2>4. CASE UNCHANGED vars  BY <2>1, <2>4 DEF vars, hostVars
  <2>. QED
    BY <2>1, <2>2, <2>3, <2>4, OthersLeaveWatcher DEF Next, Host, HostNext
<1>3. TypeOK /\ ClockRight /\ [Next]_vars => [AsksAtEnd]_vars
  BY <1>2
<1>. QED  BY <1>1, <1>2, <1>3, TypeCorrect, PTL DEF Spec, GraceRespected, AsksAtEnd

(***************************************************************************)
(* A dead terminal                                                         *)
(***************************************************************************)

\* The terminal's end of its socket is open, the server's end was when it
\* was said to be connected, and a socket that is open has an SSH client.
PageInv ==
  /\ term.status \in {"connecting", "connected"} =>
       term.at \in Bridges /\ browser[term.at]
  /\ term.status = "connected" => bridge[term.at].ws \in {"open", "closed"}
  /\ \A c \in Bridges : bridge[c].ws = "open" => bridge[c].conn # "none"

\* The steps of the runtime at one bridge that Fairness speaks of, and when
\* there is one.
Handles(c) ==
  \/ Refuse(c) \/ Upgrade(c) \/ ConnReady(c) \/ ConnFails(c)
  \/ ShellOpens(c) \/ SocketGone(c) \/ Forget(c)

CanHandle(c) ==
  \/ bridge[c].ws = "asked"
  \/ bridge[c].conn \in {"dialing", "up"}
  \/ bridge[c].conn = "shell" /\ gone
  \/ bridge[c].ws = "open" /\ ~browser[c]
  \/ bridge[c].ws = "closed" /\ bridge[c].conn = "none" /\ ~browser[c]

CanClose ==
  /\ term.status \in {"connecting", "connected"}
  /\ bridge[term.at].ws \in {"closed", "free"}

\* Fairness with these guards written out, since an enabling condition cannot
\* be reasoned about here.
BridgeGoesOn(c) == []<>~CanHandle(c) \/ []<><<Handles(c)>>_vars

CloseIsDelivered == []<>~CanClose \/ []<><<SocketCloses>>_vars

\* What the page does.
LEMMA PageKeepsInv ==
  ASSUME TypeOK, PageInv, Page
  PROVE  PageInv' /\ gone' = gone
  <1>. USE DEF TypeOK, PageInv, hostVars, bridgeVars
  <1>1. CASE Mount  BY <1>1 DEF Mount
  <1>2. CASE OpenSocket
    <2>1. PICK c \in Bridges :
            /\ bridge[c] = FreeBridge /\ ~browser[c]
            /\ term' = [status |-> "connecting", at |-> c]
            /\ bridge' = [bridge EXCEPT ![c].ws = "asked"]
            /\ browser' = [browser EXCEPT ![c] = TRUE]
      BY <1>2 DEF OpenSocket
    <2>2. \A d \in Bridges : bridge'[d].ws = "open" => bridge'[d] = bridge[d]
      BY <2>1 DEF BridgeStates
    <2>3. term'.status = "connecting" /\ term'.at = c /\ browser'[c]
      BY <2>1
    <2>. QED  BY <1>2, <2>2, <2>3 DEF OpenSocket
  <1>3. CASE SocketOpens
    <2>1. term'.status = "connected" /\ term'.at = term.at
      BY <1>3 DEF SocketOpens, Terminals
    <2>. QED  BY <1>3, <2>1 DEF SocketOpens
  <1>4. CASE SocketBreaks \/ SocketCloses
    <2>1. term'.status = "closed"
      BY <1>4 DEF SocketBreaks, SocketCloses
    <2>. QED  BY <1>4, <2>1 DEF SocketBreaks, SocketCloses
  <1>5. CASE Unmount
    <2>1. term'.status = None
      BY <1>5 DEF Unmount, NoTerminal
    <2>2. None \notin {"connecting", "connected"}
      BY DEF None
    <2>. QED  BY <1>5, <2>1, <2>2 DEF Unmount
  <1>. QED  BY <1>1, <1>2, <1>3, <1>4, <1>5 DEF Page

\* What the server does to a bridge: a socket whose browser end is open goes
\* from asked to open to closed.
LEMMA ServerAtBridge ==
  ASSUME TypeOK, PageInv, NEW c \in Bridges, Handles(c) \/ ShellEnds(c)
  PROVE  /\ UNCHANGED <<term, browser, gone>>
         /\ \A d \in Bridges \ {c} : bridge'[d] = bridge[d]
         /\ bridge'[c].ws = "open" => bridge'[c].conn # "none"
         /\ browser[c] /\ bridge[c].ws \in {"open", "closed"}
              => \/ bridge'[c].ws = bridge[c].ws
                 \/ bridge'[c].ws = "closed"
         /\ browser[c] /\ gone /\ bridge[c].ws = "open" => bridge'[c].ws = "closed"
  <1>. USE DEF TypeOK, PageInv, BridgeStates, serverUnchanged
  <1>1. CASE Refuse(c)  BY <1>1 DEF Refuse, FreeBridge
  <1>2. CASE Upgrade(c)  BY <1>2 DEF Upgrade, FreeBridge
  <1>3. CASE ConnReady(c)  BY <1>3 DEF ConnReady, Reachable
  <1>4. CASE ConnFails(c)  BY <1>4 DEF ConnFails, Cleanup, Closed
  <1>5. CASE ShellOpens(c)  BY <1>5 DEF ShellOpens
  <1>6. CASE ShellEnds(c)  BY <1>6 DEF ShellEnds, Cleanup, Closed
  <1>7. CASE SocketGone(c)
    <2>1. ~browser[c] /\ UNCHANGED <<term, browser, gone>>
      BY <1>7 DEF SocketGone
    <2>2. CASE bridge[c].wired
      <3>1. bridge' = [bridge EXCEPT ![c] = Closed(c)]
        BY <1>7, <2>2 DEF SocketGone, Cleanup
      <3>. QED  BY <2>1, <3>1 DEF Closed
    <2>3. CASE ~bridge[c].wired
      <3>1. bridge' = [bridge EXCEPT ![c].ws = "closed", ![c].early = TRUE]
        BY <1>7, <2>3 DEF SocketGone
      <3>. QED  BY <2>1, <3>1
    <2>. QED  BY <2>2, <2>3
  <1>8. CASE Forget(c)  BY <1>8 DEF Forget, FreeBridge
  <1>. QED
    BY <1>1, <1>2, <1>3, <1>4, <1>5, <1>6, <1>7, <1>8 DEF Handles

\* The rest does not touch the terminal, and a host that is gone stays gone.
LEMMA RestKeepsPage ==
  ASSUME Host \/ TaskConnects \/ TaskDisconnects \/ Terminate \/ UNCHANGED vars
  PROVE  UNCHANGED <<term, bridge, browser>> /\ (gone => gone')
  BY DEF Host, HostNext, Script, Container, Watch, InstallDocker,
         ReleasePort22, StartContainer, WaitContainer, WaitPort22,
         InstallKeys, NotifyReady, Fails, ContainerRuns, SshdStarts,
         SampleSees, SampleWaits, SampleIdle, SampleAsks, Sampled,
         TaskConnects, TaskDisconnects, Terminate, serverUnchanged,
         bridgeVars, hostVars, vars

LEMMA PageInvStep ==
  ASSUME TypeOK, PageInv, [Next]_vars
  PROVE  PageInv' /\ (gone => gone')
  <1>1. CASE Page  BY <1>1, PageKeepsInv
  <1>2. CASE Server
    <2>1. PICK c \in Bridges : Handles(c) \/ ShellEnds(c)
      BY <1>2 DEF Server, Handles
    <2>2. \A d \in Bridges : bridge'[d].ws = "open" => bridge'[d].conn # "none"
      BY <2>1, ServerAtBridge DEF PageInv
    <2>3. term.status = "connected" => bridge'[term.at].ws \in {"open", "closed"}
      BY <2>1, ServerAtBridge DEF PageInv
    <2>. QED  BY <2>1, <2>2, <2>3, ServerAtBridge DEF PageInv
  <1>3. CASE \/ Host \/ TaskConnects \/ TaskDisconnects \/ Terminate
             \/ UNCHANGED vars
    BY <1>3, RestKeepsPage DEF PageInv
  <1>. QED  BY <1>1, <1>2, <1>3 DEF Next

\* A terminal that is connected stays at its bridge until it is told, and a
\* bridge that is closed stays closed.
Held(c) == gone /\ term.status = "connected" /\ term.at = c

LEMMA HeldStep ==
  ASSUME TypeOK, PageInv, [Next]_vars, NEW c \in Bridges, Held(c)
  PROVE  /\ Held(c)' \/ term'.status # "connected"
         /\ bridge[c].ws = "closed" /\ Held(c)' => bridge'[c].ws = "closed"
  <1>1. gone'  BY PageInvStep DEF Held
  <1>2. CASE Page
    <2>1. CASE UNCHANGED <<term, bridge>>  BY <1>1, <2>1 DEF Held
    <2>. QED
      BY <1>2, <2>1 DEF Held, Page, Mount, OpenSocket, SocketOpens,
         SocketBreaks, SocketCloses, Unmount, NoTerminal, None
  <1>3. CASE Server
    <2>1. PICK d \in Bridges : Handles(d) \/ ShellEnds(d)
      BY <1>3 DEF Server, Handles
    <2>. QED  BY <1>1, <2>1, ServerAtBridge DEF Held, PageInv
  <1>4. CASE \/ Host \/ TaskConnects \/ TaskDisconnects \/ Terminate
             \/ UNCHANGED vars
    BY <1>1, <1>4, RestKeepsPage DEF Held
  <1>. QED  BY <1>2, <1>3, <1>4 DEF Next

LEMMA PageInvariant == Spec => []PageInv
<1>1. Init => PageInv
  BY DEF Init, PageInv, NoTerminal, None, FreeBridge
<1>2. TypeOK /\ PageInv /\ [Next]_vars => PageInv'
  BY PageInvStep
<1>. QED  BY <1>1, <1>2, TypeCorrect, PTL DEF Spec

(***************************************************************************)
(* A terminal over a host that is gone does not stay "connected", at       *)
(* whichever bridge it is (DeadTerminalTold), if the runtime goes on there *)
(* and delivers the close.                                                 *)
(***************************************************************************)
THEOREM DeadTerminalIsTold ==
  ASSUME NEW c \in Bridges
  PROVE  Spec /\ BridgeGoesOn(c) /\ CloseIsDelivered
           => (Held(c) ~> term.status # "connected")
<1>. DEFINE Told == term.status # "connected"
            Open == bridge[c].ws = "open"
            Shut == bridge[c].ws = "closed"
            Inv == TypeOK /\ PageInv
<1>1. Inv /\ Held(c) => Open \/ Shut
  BY DEF PageInv, Held
<1>2. Inv /\ Held(c) /\ [Next]_vars => Held(c)' \/ Told'
  BY HeldStep
<1>3. Inv /\ Held(c) /\ Shut /\ [Next]_vars => Shut' \/ Told'
  BY HeldStep
<1>4. Inv /\ Held(c) /\ Open => CanHandle(c)
  BY DEF PageInv, TypeOK, BridgeStates, Held, CanHandle
<1>5. Inv /\ Held(c) /\ Open /\ <<Handles(c)>>_vars => Shut'
  BY ServerAtBridge DEF PageInv, Held
<1>6. Held(c) /\ Shut => CanClose
  BY DEF Held, CanClose
<1>7. <<SocketCloses>>_vars => Told'
  BY DEF SocketCloses, SocketBreaks
<1>8. Spec => []Inv
  BY TypeCorrect, PageInvariant, PTL
<1>. HIDE DEF Told, Open, Shut, Inv
<1>9. Spec /\ BridgeGoesOn(c) /\ CloseIsDelivered => (Held(c) ~> Told)
  BY <1>1, <1>2, <1>3, <1>4, <1>5, <1>6, <1>7, <1>8, PTL
     DEF Spec, BridgeGoesOn, CloseIsDelivered
<1>. QED  BY <1>9 DEF Told
=============================================================================
