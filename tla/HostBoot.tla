------------------------------ MODULE HostBoot ------------------------------
(***************************************************************************)
(* One lab host from its first boot on: the script the web task hands it   *)
(* as user data (web/lib/lab-user-data.ts).  It installs Docker, gives its *)
(* port 22 to a container, waits for it, puts the keys in, calls the web   *)
(* task once, and leaves a watcher behind that counts connections to port  *)
(* 22 and asks for the host's shutdown when they have been gone for long.  *)
(*                                                                         *)
(* The script runs under set -e: a step that fails ends it, and what comes *)
(* after that step, the watcher included, never happens.  Who connects is  *)
(* left to the modules that extend this one.                               *)
(***************************************************************************)
EXTENDS Naturals, FiniteSets

CONSTANTS
  Clients,  \* the far ends of SSH connections
  Grace     \* samples without a connection before the watcher asks

ASSUME GraceAssumption == Grace \in Nat \ {0}

VARIABLES
  boot,      \* the step the script is at, or how it ended
  port22,    \* who listens on the host's port 22
  lab,       \* the lab container
  sshd,      \* the container's own sshd answers
  keys,      \* the authorized keys are in the container
  reports,   \* progress reports that reached the web task, by step
  called,    \* the readiness callback: "no", "delivered" or "lost"
  ssh,       \* established connections to port 22, by client
  watcher,   \* what the watcher knows, and whether it still runs
  asked,     \* the shutdown request: "no", "delivered" or "lost"
  gone,      \* the instance has been terminated
  unseen     \* history: samples since the last one that saw a connection

bootVars == <<boot, port22, lab, sshd, keys, reports, called>>
watchVars == <<watcher, asked, unseen>>
hostVars == <<bootVars, ssh, watchVars, gone>>

-----------------------------------------------------------------------------

BootSteps ==
  {"install_docker", "release_port22", "start_container", "wait_container",
   "wait_port22", "install_keys", "notify_ready"}

Outcomes == {"no", "delivered", "lost"}

\* idle: 0, or how many samples idle_since has been set for.
Watchers == [on: BOOLEAN, had: BOOLEAN, idle: 0..Grace]

NoWatcher == [on |-> FALSE, had |-> FALSE, idle |-> 0]

HostTypeOK ==
  /\ boot \in BootSteps \cup {"complete", "failed"}
  /\ port22 \in {"host", "free", "lab"}
  /\ lab \in {"none", "starting", "running"}
  /\ sshd \in BOOLEAN
  /\ keys \in BOOLEAN
  /\ reports \in SUBSET {"bootstrap", "start_lab", "install_keys"}
  /\ called \in Outcomes
  /\ ssh \in [Clients -> BOOLEAN]
  /\ watcher \in Watchers
  /\ asked \in Outcomes
  /\ gone \in BOOLEAN
  /\ unseen \in 0..(Grace + 1)

HostInit ==
  /\ boot = "install_docker"
  /\ port22 = "host"
  /\ lab = "none"
  /\ sshd = FALSE
  /\ keys = FALSE
  /\ reports = {}
  /\ called = "no"
  /\ ssh = [c \in Clients |-> FALSE]
  /\ watcher = NoWatcher
  /\ asked = "no"
  /\ gone = FALSE
  /\ unseen = 0

-----------------------------------------------------------------------------
(* The script *)

At(step) == boot = step /\ ~gone

\* report_progress: one curl, whose failure is nothing.
Report(step) == reports' \in {reports, reports \cup {step}}

\* set -e: any step may fail, and the script is over.
Fails(step) ==
  /\ At(step)
  /\ boot' = "failed"
  /\ UNCHANGED <<port22, lab, sshd, keys, called, ssh, watchVars, gone>>

\* Docker is there, or dnf installs it; another OS is an error.
InstallDocker ==
  \/ /\ At("install_docker")
     /\ boot' = "release_port22"
     /\ Report("bootstrap")
     /\ UNCHANGED <<port22, lab, sshd, keys, called, ssh, watchVars, gone>>
  \/ Fails("install_docker") /\ Report("bootstrap")

\* Every systemctl is followed by || true: the host's sshd may stay.
ReleasePort22 ==
  /\ At("release_port22")
  /\ boot' = "start_container"
  /\ port22' \in {"host", "free"}
  /\ Report("bootstrap")
  /\ UNCHANGED <<lab, sshd, keys, called, ssh, watchVars, gone>>

\* Pull and run; the container cannot have a port that is taken.
StartContainer ==
  \/ /\ At("start_container")
     /\ port22 = "free"
     /\ boot' = "wait_container"
     /\ port22' = "lab"
     /\ lab' = "starting"
     /\ Report("start_lab")
     /\ UNCHANGED <<sshd, keys, called, ssh, watchVars, gone>>
  \/ Fails("start_container") /\ Report("bootstrap")

\* Sixty looks, two seconds apart.
WaitContainer ==
  \/ /\ At("wait_container")
     /\ lab = "running"
     /\ boot' = "wait_port22"
     /\ Report("start_lab")
     /\ UNCHANGED <<port22, lab, sshd, keys, called, ssh, watchVars, gone>>
  \/ Fails("wait_container") /\ lab # "running" /\ UNCHANGED reports

\* Ninety tries to connect.  The published port may take the connection
\* before the container's sshd does.
WaitPort22 ==
  \/ /\ At("wait_port22")
     /\ boot' = "install_keys"
     /\ Report("install_keys")
     /\ UNCHANGED <<port22, lab, sshd, keys, called, ssh, watchVars, gone>>
  \/ Fails("wait_port22") /\ ~sshd /\ UNCHANGED reports

InstallKeys ==
  \/ /\ At("install_keys")
     /\ boot' = "notify_ready"
     /\ keys' = TRUE
     /\ UNCHANGED <<port22, lab, sshd, reports, called, ssh, watchVars, gone>>
  \/ Fails("install_keys") /\ UNCHANGED reports

\* notify_ready, skipped if the metadata service names no public address in
\* sixty tries, and start_ssh_idle_watcher, whatever came of it.
NotifyReady ==
  /\ At("notify_ready")
  /\ boot' = "complete"
  /\ called' \in Outcomes
  /\ watcher' = [NoWatcher EXCEPT !.on = TRUE]
  /\ UNCHANGED <<port22, lab, sshd, keys, reports, ssh, asked, gone, unseen>>

-----------------------------------------------------------------------------
(* The container *)

ContainerRuns ==
  /\ lab = "starting" /\ ~gone
  /\ lab' = "running"
  /\ UNCHANGED <<boot, port22, sshd, keys, reports, called, ssh, watchVars,
                 gone>>

SshdStarts ==
  /\ lab = "running" /\ ~sshd /\ ~gone
  /\ sshd' = TRUE
  /\ UNCHANGED <<boot, port22, lab, keys, reports, called, ssh, watchVars,
                 gone>>

\* A client can reach the lab and log in.
Reachable == sshd /\ keys /\ ~gone

-----------------------------------------------------------------------------
(* The watcher: one sample every fifteen seconds *)

Connected == \E c \in Clients : ssh[c]

Sampled(w, post) ==
  /\ watcher.on /\ ~gone
  /\ watcher' = w
  /\ unseen' = IF Connected THEN 0
               ELSE IF unseen > Grace THEN unseen ELSE unseen + 1
  /\ IF post THEN asked' \in {"delivered", "lost"} ELSE UNCHANGED asked
  /\ UNCHANGED <<bootVars, ssh, gone>>

\* Mutant of SampleSees: a connection does not stop the idle clock.
SampleSeesClockRuns ==
  /\ Connected
  /\ Sampled([watcher EXCEPT !.had = TRUE], FALSE)

SampleSees ==
  /\ Connected
  /\ Sampled([watcher EXCEPT !.had = TRUE, !.idle = 0], FALSE)

\* Before the first connection the watcher only looks on.
SampleWaits ==
  /\ ~Connected
  /\ ~watcher.had
  /\ Sampled(watcher, FALSE)

\* Mutant of SampleIdle: the clock runs on past the grace.
SampleIdleOn ==
  /\ ~Connected
  /\ watcher.had
  /\ Sampled([watcher EXCEPT !.idle = @ + 1], FALSE)

\* Mutant of SampleIdle: the clock is set anew at every idle sample.
SampleIdleRestarts ==
  /\ ~Connected
  /\ watcher.had
  /\ watcher.idle < Grace
  /\ Sampled([watcher EXCEPT !.idle = 1], FALSE)

\* The clock starts at the first idle sample and is read at the others.
SampleIdle ==
  /\ ~Connected
  /\ watcher.had
  /\ watcher.idle < Grace
  /\ Sampled([watcher EXCEPT !.idle = @ + 1], FALSE)

\* The grace is over: it asks once, and exits whatever came of it.
SampleAsks ==
  /\ ~Connected
  /\ watcher.had
  /\ watcher.idle = Grace
  /\ Sampled([watcher EXCEPT !.on = FALSE], TRUE)

-----------------------------------------------------------------------------

Script ==
  \/ InstallDocker \/ ReleasePort22 \/ StartContainer \/ WaitContainer
  \/ WaitPort22 \/ InstallKeys \/ NotifyReady

Container == ContainerRuns \/ SshdStarts

Watch == SampleSees \/ SampleWaits \/ SampleIdle \/ SampleAsks

HostNext == Script \/ Container \/ Watch
=============================================================================
