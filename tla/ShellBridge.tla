----------------------------- MODULE ShellBridge -----------------------------
(***************************************************************************)
(* The browser terminal over one lab host: the page's WebTerminal, one     *)
(* attempt at a time, its WebSocket into web/server.js, and the bridge     *)
(* that server makes of each socket and an SSH connection of its own.      *)
(* Each of the two may close or fail before the other is open, and the     *)
(* host's watcher (HostBoot) counts the SSH connections and nothing else.  *)
(***************************************************************************)
EXTENDS HostBoot

CONSTANT
  Task,     \* the web task's own SSH connections: probe and grader
  MaxVisits \* bound: how often the page brings up a terminal

None == "none"

ASSUME BridgeAssumption ==
  /\ Task \in Clients
  /\ None \notin Clients
  /\ MaxVisits \in Nat

Bridges == Clients \ {Task}

VARIABLES
  term,      \* the page's terminal
  bridge,    \* the server's end of each socket
  browser,   \* is the browser's end of each socket open?
  keyFile,   \* the session's key is on the task's disk
  visits

bridgeVars == <<bridge, browser>>
vars == <<hostVars, term, bridgeVars, keyFile, visits>>

-----------------------------------------------------------------------------

\* loading: the effect waits for its imports; None: nothing is mounted.
Terminals ==
  [status: {None, "loading", "connecting", "connected", "closed"},
   at: Bridges \cup {None}]

NoTerminal == [status |-> None, at |-> None]

\* ws: "asked" while the upgrade waits for shell-auth.  conn: the SSH client;
\* wired: the handlers that come with an open shell are on the socket.
\* early: history, the socket was closed before they were.
BridgeStates ==
  [ws: {"free", "asked", "open", "closed"},
   conn: {"none", "dialing", "up", "shell"},
   wired: BOOLEAN, early: BOOLEAN]

FreeBridge ==
  [ws |-> "free", conn |-> "none", wired |-> FALSE, early |-> FALSE]

TypeOK ==
  /\ HostTypeOK
  /\ term \in Terminals
  /\ bridge \in [Bridges -> BridgeStates]
  /\ browser \in [Bridges -> BOOLEAN]
  /\ keyFile \in BOOLEAN
  /\ visits \in 0..MaxVisits

Init ==
  /\ HostInit
  /\ term = NoTerminal
  /\ bridge = [c \in Bridges |-> FreeBridge]
  /\ browser = [c \in Bridges |-> FALSE]
  /\ keyFile \in BOOLEAN
  /\ visits = 0

-----------------------------------------------------------------------------
(* The page (web/components/WebTerminal.tsx) *)

\* The terminal is mounted, or its Reconnect button pressed.
Mount ==
  /\ called = "delivered"
  /\ term.status \in {None, "closed"}
  /\ visits < MaxVisits
  /\ visits' = visits + 1
  /\ term' = [status |-> "loading", at |-> None]
  /\ UNCHANGED <<hostVars, bridgeVars, keyFile>>

\* The imports are there, and the socket is asked for.
OpenSocket ==
  /\ term.status = "loading"
  /\ \E c \in Bridges :
       /\ bridge[c] = FreeBridge /\ ~browser[c]
       /\ term' = [status |-> "connecting", at |-> c]
       /\ bridge' = [bridge EXCEPT ![c].ws = "asked"]
       /\ browser' = [browser EXCEPT ![c] = TRUE]
  /\ UNCHANGED <<hostVars, keyFile, visits>>

\* The upgrade went through: that is all "connected" says.
SocketOpens ==
  /\ term.status = "connecting"
  /\ bridge[term.at].ws = "open"
  /\ term' = [term EXCEPT !.status = "connected"]
  /\ UNCHANGED <<hostVars, bridgeVars, keyFile, visits>>

\* onclose and onerror: the network breaks, or the server's end is closed.
SocketBreaks ==
  /\ term.status \in {"connecting", "connected"}
  /\ term' = [status |-> "closed", at |-> None]
  /\ browser' = [browser EXCEPT ![term.at] = FALSE]
  /\ UNCHANGED <<hostVars, bridge, keyFile, visits>>

SocketCloses ==
  /\ term.status \in {"connecting", "connected"}
  /\ bridge[term.at].ws \in {"closed", "free"}
  /\ SocketBreaks

\* The effect's cleanup: the page shows something else, or goes away.
Unmount ==
  /\ term.status # None
  /\ term' = NoTerminal
  /\ browser' = IF term.at = None THEN browser
                ELSE [browser EXCEPT ![term.at] = FALSE]
  /\ UNCHANGED <<hostVars, bridge, keyFile, visits>>

-----------------------------------------------------------------------------
(* The server (web/server.js) *)

\* cleanup: once, and both ends.
Closed(c) == [bridge[c] EXCEPT !.ws = "closed", !.conn = "none"]

\* Mutant of Cleanup: only the socket is closed.
CleanupSocketOnly(c) ==
  /\ bridge' = [bridge EXCEPT ![c].ws = "closed"]
  /\ UNCHANGED ssh

Cleanup(c) ==
  /\ bridge' = [bridge EXCEPT ![c] = Closed(c)]
  /\ ssh' = [ssh EXCEPT ![c] = FALSE]

serverUnchanged == <<bootVars, watchVars, gone, term, browser, keyFile, visits>>

\* shell-auth refuses: the token, or no host yet.  The socket is destroyed.
Refuse(c) ==
  /\ bridge[c].ws = "asked"
  /\ bridge' = [bridge EXCEPT ![c] =
       [FreeBridge EXCEPT !.ws = IF browser[c] THEN "closed" ELSE "free"]]
  /\ UNCHANGED <<serverUnchanged, ssh>>

\* shell-auth agrees, whatever has become of the session.  handleUpgrade
\* takes no socket that is gone; bridge reads the key and dials.
Upgrade(c) ==
  /\ bridge[c].ws = "asked"
  /\ bridge' = [bridge EXCEPT ![c] =
       IF ~browser[c] THEN FreeBridge
       ELSE IF ~keyFile THEN [FreeBridge EXCEPT !.ws = "closed"]
       ELSE [FreeBridge EXCEPT !.ws = "open", !.conn = "dialing"]]
  /\ UNCHANGED <<serverUnchanged, ssh>>

\* The SSH connection is there, and the shell is asked for.
ConnReady(c) ==
  /\ bridge[c].conn = "dialing"
  /\ Reachable
  /\ bridge' = [bridge EXCEPT ![c].conn = "up"]
  /\ ssh' = [ssh EXCEPT ![c] = TRUE]
  /\ UNCHANGED serverUnchanged

\* Mutant of ConnFails: no keepalive on a connection that is up.
ConnFailsUnlessUp(c) ==
  /\ bridge[c].conn = "dialing"
  /\ Cleanup(c)
  /\ UNCHANGED serverUnchanged

\* Nobody there, no login in twenty seconds, a connection that goes silent.
ConnFails(c) ==
  /\ \/ bridge[c].conn = "dialing"
     \/ bridge[c].conn \in {"up", "shell"} /\ gone
  /\ Cleanup(c)
  /\ UNCHANGED serverUnchanged

\* The shell is open, and only now does the bridge listen to the socket.
ShellOpens(c) ==
  /\ bridge[c].conn = "up"
  /\ ~gone
  /\ bridge' = [bridge EXCEPT ![c].conn = "shell", ![c].wired = TRUE]
  /\ UNCHANGED <<serverUnchanged, ssh>>

\* No shell; or the shell, once open, comes to its end.
ShellEnds(c) ==
  /\ bridge[c].conn \in {"up", "shell"}
  /\ Cleanup(c)
  /\ UNCHANGED serverUnchanged

\* The server learns that the browser's end is closed.  The event is heard
\* by the handlers that are there, and by no handler that comes later.
SocketGone(c) ==
  /\ bridge[c].ws = "open"
  /\ ~browser[c]
  /\ IF bridge[c].wired THEN Cleanup(c)
     ELSE /\ bridge' = [bridge EXCEPT ![c].ws = "closed", ![c].early = TRUE]
          /\ UNCHANGED ssh
  /\ UNCHANGED serverUnchanged

\* Nothing is left of a bridge: its slot can be used again.
Forget(c) ==
  /\ bridge[c].ws = "closed"
  /\ bridge[c].conn = "none"
  /\ ~browser[c]
  /\ bridge' = [bridge EXCEPT ![c] = FreeBridge]
  /\ UNCHANGED <<serverUnchanged, ssh>>

-----------------------------------------------------------------------------
(* The rest of the web task *)

\* The probe and the graders log in, and are gone again.
TaskConnects ==
  /\ called = "delivered"
  /\ Reachable
  /\ ~ssh[Task]
  /\ ssh' = [ssh EXCEPT ![Task] = TRUE]
  /\ UNCHANGED <<serverUnchanged, bridge>>

TaskDisconnects ==
  /\ ssh[Task]
  /\ ssh' = [ssh EXCEPT ![Task] = FALSE]
  /\ UNCHANGED <<serverUnchanged, bridge>>

\* A shutdown, the one the host asked for or another, terminates it.
Terminate ==
  /\ ~gone
  /\ gone' = TRUE
  /\ ssh' = [c \in Clients |-> FALSE]
  /\ UNCHANGED <<bootVars, watchVars, term, bridgeVars, keyFile, visits>>

-----------------------------------------------------------------------------

Host == HostNext /\ UNCHANGED <<term, bridgeVars, keyFile, visits>>

Page ==
  Mount \/ OpenSocket \/ SocketOpens \/ SocketBreaks \/ SocketCloses \/ Unmount

Server ==
  \E c \in Bridges :
    \/ Refuse(c) \/ Upgrade(c) \/ ConnReady(c) \/ ConnFails(c)
    \/ ShellOpens(c) \/ ShellEnds(c) \/ SocketGone(c) \/ Forget(c)

Next ==
  \/ Host \/ Page \/ Server
  \/ TaskConnects \/ TaskDisconnects \/ Terminate

Spec == Init /\ [][Next]_vars

(***************************************************************************)
(* The watcher samples, timeouts and close events come, and the task's own *)
(* connections end.  Nothing makes a learner come or go, or a host boot.   *)
(***************************************************************************)
Fairness ==
  /\ WF_vars(Watch /\ UNCHANGED <<term, bridgeVars, keyFile, visits>>)
  /\ WF_vars(SocketOpens)
  /\ WF_vars(SocketCloses)
  /\ WF_vars(TaskDisconnects)
  /\ \A c \in Bridges :
       WF_vars(\/ Refuse(c) \/ Upgrade(c) \/ ConnReady(c) \/ ConnFails(c)
               \/ ShellOpens(c) \/ SocketGone(c) \/ Forget(c))

FairSpec == Spec /\ Fairness

-----------------------------------------------------------------------------
(* Properties *)

\* Held by nobody: the socket is closed and the connection stays.
Leaked(c) == bridge[c].ws = "closed" /\ ssh[c]

(***************************************************************************)
(* An SSH connection outlives its browser socket in one case only: the     *)
(* socket was closed before the shell was open, when no handler listened.  *)
(***************************************************************************)
LeakOnlyFromEarlyClose == \A c \in Bridges : Leaked(c) => bridge[c].early

(***************************************************************************)
(* A host that has been visited asks for its shutdown only after a whole   *)
(* grace of samples that saw no connection of anybody.                     *)
(***************************************************************************)
GraceRespected ==
  [][asked = "no" /\ asked' # "no" => unseen = Grace /\ ~Connected]_vars

(***************************************************************************)
(* A terminal over a host that is gone does not stay "connected".          *)
(***************************************************************************)
DeadTerminalTold == gone ~> (term.status # "connected")

(***************************************************************************)
(* A visited host whose visitors have all left asks for its shutdown,      *)
(* unless it is terminated first or a connection leaked.                   *)
(***************************************************************************)
IdleHostAsks ==
  [](boot = "complete" /\ watcher.had
       => <>(\/ asked # "no" \/ gone
             \/ ssh[Task] \/ \E c \in Bridges : browser[c] \/ Leaked(c)))
=============================================================================
