---------------------------- MODULE BeaconMachine ----------------------------
(***************************************************************************)
(* The machine of the Beaconkeeper lab (game/setup_game.py builds it       *)
(* broken), the services systemd runs on it (game/beacon_app.py,           *)
(* game/worker.py and the units), the operator's repairs, and the twenty   *)
(* checks of `ops verify` that judge them (game/ops.py).                   *)
(*                                                                         *)
(* An API process reads its release and its configuration when it starts,  *)
(* binds its port only after that, and keeps what it has read; nginx keeps *)
(* the configuration it last loaded.  Some checks ask the running process, *)
(* some the files, some both; lanterns 1 and 13, 11, and 14 want the       *)
(* machine in states that exclude each other; and a lantern once lit is    *)
(* not checked again, except for the eleven checks lantern 20 repeats one  *)
(* after the other.                                                        *)
(*                                                                         *)
(* GameProgress has the file the lit lanterns are kept in; here lighting   *)
(* one is a single step.                                                   *)
(***************************************************************************)
EXTENDS Naturals, Sequences

CONSTANTS
  Crates,    \* the releases in /opt/supply that can be unpacked
  Ahead,     \* bound: how far past the first dark lantern the operator works
  MaxSlips,  \* bound: moves of the operator that break something
  MaxReboots \* bound: restarts of the container

ASSUME MachineAssumption ==
  /\ Crates \subseteq {"v2", "v21", "shiny"}
  /\ Ahead \in Nat
  /\ MaxSlips \in Nat
  /\ MaxReboots \in Nat

VARIABLES
  link,      \* where /srv/beacon/current points
  dirs,      \* the releases under /srv/beacon/releases
  env,       \* /etc/beacon/beacon.env
  api,       \* the API unit and what its running process has read
  worker,    \* the worker unit, and who owns the directories it writes to
  squatter,  \* the unit that listens on the API's port
  nginx,     \* the locations that proxy to the API: in the file, and loaded
  db,        \* the database: migrated, and the missing tide row present
  chores,    \* the lanterns about one thing nothing else reads
  lit,       \* the completed lanterns
  at,        \* the recheck lantern 20's inspection is at, 0 if none runs
  slips,     \* how many slips there have been
  reboots,   \* how many restarts of the container
  ran,       \* history: the releases the API has served
  clean,     \* history: nothing touched since the last inspection began
  quiet,     \* history: lantern 19 passed, debug not switched on since
  wanted,    \* history: the API's unit was started, or booted, and not stopped
  cleared,   \* history: lantern 5 passed with the squatter's unit stopped
  slipped    \* history: the API's process had read, and had yet to listen,
             \*   debug on, when lantern 19 passed

release == <<link, dirs>>
services == <<api, worker, squatter, nginx>>
data == <<db, chores>>
game == <<lit, at>>

past == <<quiet, cleared, slipped>>

vars == <<release, env, services, data, game, slips, reboots, ran, clean, wanted,
          past>>

-----------------------------------------------------------------------------

Releases == {"v1"} \cup Crates

\* The lantern a release is first pointed at for.
LanternOf == [v1 |-> 1, v2 |-> 11, v21 |-> 14, shiny |-> 12]

\* 2 operator facts, 3 cache cleanup, 16 backup timer, 17 logrotate, 18 the
\* deployer's account, 20 the runbook's text.
Chores == {2, 3, 16, 17, 18, 20}

\* Mutant of Rechecks: the debug check is left to its own lantern.
RechecksNotDebug == <<6, 7, 8, 9, 10, 14, 15, 16, 17, 18>>

Rechecks == <<6, 7, 8, 9, 10, 14, 15, 16, 17, 18, 19>>

\* "wait" is a unit that runs as soon as its process gets through its start:
\* systemd restarts it every RestartSec.
UnitStates == {"off", "wait", "up"}

\* A process of the API that has read its configuration and has not bound its
\* port yet.
ApiStates == UnitStates \cup {"read"}

Envs == [perm: {"root", "group", "open"}, colour: BOOLEAN, debug: BOOLEAN]

\* release, colour and debug are what the process has read.
ApiUnits ==
  {unit \in [on: ApiStates, enabled: BOOLEAN, release: Releases \cup {"none"},
             colour: BOOLEAN, debug: BOOLEAN] :
     unit.on \in {"read", "up"} => unit.release # "none"}

WorkerUnits == [on: UnitStates, enabled: BOOLEAN, owned: BOOLEAN]

SquatterUnits == [on: UnitStates, enabled: BOOLEAN]

Proxies == [file: SUBSET {9, 10}, loaded: SUBSET {9, 10}]

Databases == [migrated: BOOLEAN, tide: BOOLEAN]

TypeOK ==
  /\ link \in Releases \cup {"missing"}
  /\ dirs \in SUBSET Releases
  /\ env \in Envs
  /\ api \in ApiUnits
  /\ worker \in WorkerUnits
  /\ squatter \in SquatterUnits
  /\ nginx \in Proxies
  /\ db \in Databases
  /\ chores \in [Chores -> {"undone", "done", "lost"}]
  /\ lit \in SUBSET (1..20)
  /\ at \in 0..Len(Rechecks)
  /\ slips \in 0..MaxSlips /\ reboots \in 0..MaxReboots
  /\ ran \in SUBSET Releases
  /\ clean \in BOOLEAN /\ quiet \in BOOLEAN
  /\ cleared \in BOOLEAN /\ wanted \in BOOLEAN /\ slipped \in BOOLEAN

\* What setup_game leaves behind: the selector dangles, the configuration is
\* root's with the wrong colour and debug on, the squatter is enabled.
Init ==
  /\ link = "missing"
  /\ dirs = {"v1"}
  /\ env = [perm |-> "root", colour |-> FALSE, debug |-> TRUE]
  /\ api = [on |-> "off", enabled |-> FALSE, release |-> "none",
            colour |-> FALSE, debug |-> FALSE]
  /\ worker = [on |-> "off", enabled |-> FALSE, owned |-> FALSE]
  /\ squatter = [on |-> "wait", enabled |-> TRUE]
  /\ nginx = [file |-> {}, loaded |-> {}]
  /\ db = [migrated |-> FALSE, tide |-> FALSE]
  /\ chores = [c \in Chores |-> "undone"]
  /\ lit = {} /\ at = 0 /\ slips = 0 /\ reboots = 0
  /\ ran = {} /\ clean = FALSE
  /\ quiet = FALSE /\ cleared = FALSE /\ wanted = FALSE /\ slipped = FALSE

-----------------------------------------------------------------------------
(* The processes *)

Readable == env.perm # "root"

\* A process of the API's unit dies; what it had read dies with it.
Down(on) == [api EXCEPT !.on = on, !.release = "none",
                        !.colour = FALSE, !.debug = FALSE]

\* The part of an action that is the end of the API's process.
ApiDies(on) ==
  /\ api' = Down(on)
  /\ slipped' = FALSE
  /\ UNCHANGED <<quiet, cleared>>

\* beacon_app.py's import needs its code and its configuration, its server
\* the port.
ApiMayRead == link \in dirs /\ Readable
PortFree == squatter.on # "up"

ApiMayServe == ApiMayRead /\ PortFree

\* The import: what the file and the selector say now is what the process
\* will say when it serves.
ApiReads ==
  /\ api.on = "wait" /\ ApiMayRead
  /\ api' = [api EXCEPT !.on = "read", !.release = link,
                        !.colour = env.colour, !.debug = env.debug]
  /\ UNCHANGED <<release, env, worker, squatter, nginx, data, game, slips,
                 reboots, ran, clean, wanted, past>>

\* ReusableTCPServer and serve_forever.
ApiBinds ==
  /\ api.on = "read" /\ PortFree
  /\ api' = [api EXCEPT !.on = "up"]
  /\ ran' = ran \cup {api.release}
  /\ UNCHANGED <<release, env, worker, squatter, nginx, data, game, slips,
                 reboots, clean, wanted, past>>

ApiFails ==
  \/ api.on = "wait" /\ ~ApiMayRead
  \/ api.on = "read" /\ ~PortFree

\* Mutant of ApiExits: no Restart, or a limit on it.
ApiGivesUp ==
  /\ ApiFails
  /\ ApiDies("off")
  /\ UNCHANGED <<release, env, worker, squatter, nginx, data, game, slips,
                 reboots, ran, clean, wanted>>

\* Without one of them it exits, and systemd tries again: Restart=on-failure
\* and StartLimitIntervalSec=0, so it never gives up.
ApiExits ==
  /\ ApiFails
  /\ ApiDies("wait")
  /\ UNCHANGED <<release, env, worker, squatter, nginx, data, game, slips,
                 reboots, ran, clean, wanted>>

WorkerStarts ==
  /\ worker.on = "wait" /\ link \in dirs /\ Readable /\ worker.owned
  /\ worker' = [worker EXCEPT !.on = "up"]
  /\ UNCHANGED <<release, env, api, squatter, nginx, data, game, slips,
                 reboots, ran, clean, wanted, past>>

\* Restart=always: it is back whenever the port is free.
SquatterStarts ==
  /\ squatter.on = "wait" /\ api.on # "up"
  /\ squatter' = [squatter EXCEPT !.on = "up"]
  /\ UNCHANGED <<release, env, api, worker, nginx, data, game, slips,
                 reboots, ran, clean, wanted, past>>

\* What systemd does at boot with a unit.
BootState(unit) == IF unit.enabled THEN "wait" ELSE "off"

\* The container restarts: `restart: unless-stopped` brings it back with its
\* files as they are; an inspection that was running is cut off.
Reboot ==
  /\ reboots < MaxReboots
  /\ reboots' = reboots + 1
  /\ ApiDies(BootState(api))
  /\ wanted' = api.enabled
  /\ worker' = [worker EXCEPT !.on = BootState(worker)]
  /\ squatter' = [squatter EXCEPT !.on = BootState(squatter)]
  /\ nginx' = [nginx EXCEPT !.loaded = nginx.file]
  /\ at' = 0
  /\ UNCHANGED <<release, env, data, lit, slips, ran, clean>>

-----------------------------------------------------------------------------
(* The operator.  Repairs come roughly in the order of the lanterns; a slip *)
(* undoes one.                                                              *)

FirstDark == CHOOSE n \in 1..21 : n \notin lit /\ 1..(n - 1) \subseteq lit

Repairs(n) ==
  /\ n <= FirstDark + Ahead
  /\ clean' = FALSE
  /\ UNCHANGED <<game, slips, reboots, ran>>

Slips ==
  /\ slips < MaxSlips
  /\ slips' = slips + 1
  /\ clean' = FALSE
  /\ UNCHANGED <<game, reboots, ran>>

\* ln -sfn: the selector is moved, no process notices.
PointCurrent(r) ==
  /\ Repairs(LanternOf[r]) /\ r \in dirs /\ link # r
  /\ link' = r
  /\ UNCHANGED <<dirs, env, services, data, wanted, past>>

Unpack(r) ==
  /\ IF r = "shiny" THEN Slips ELSE Repairs(LanternOf[r])
  /\ r \in Crates \ dirs
  /\ dirs' = dirs \cup {r}
  /\ UNCHANGED <<link, env, services, data, wanted, past>>

RemoveRelease(r) ==
  /\ Slips /\ r \in dirs
  /\ dirs' = dirs \ {r}
  /\ UNCHANGED <<link, env, services, data, wanted, past>>

SetPermissions(perm) ==
  /\ IF perm = "root" THEN Slips ELSE Repairs(4)
  /\ env.perm # perm
  /\ perm = "open" => env.perm = "root"
  /\ env' = [env EXCEPT !.perm = perm]
  /\ UNCHANGED <<release, services, data, wanted, past>>

Calibrate ==
  /\ Repairs(7) /\ ~env.colour
  /\ env' = [env EXCEPT !.colour = TRUE]
  /\ UNCHANGED <<release, services, data, wanted, past>>

Miscalibrate ==
  /\ Slips /\ env.colour
  /\ env' = [env EXCEPT !.colour = FALSE]
  /\ UNCHANGED <<release, services, data, wanted, past>>

DebugOff ==
  /\ Repairs(19) /\ env.debug
  /\ env' = [env EXCEPT !.debug = FALSE]
  /\ UNCHANGED <<release, services, data, wanted, past>>

DebugOn ==
  /\ Slips /\ ~env.debug
  /\ env' = [env EXCEPT !.debug = TRUE]
  /\ quiet' = FALSE
  /\ UNCHANGED <<release, services, data, wanted, cleared, slipped>>

\* systemctl stop; kill leaves the unit to systemd, which restarts it.
StopSquatter ==
  /\ Repairs(5) /\ squatter.on # "off"
  /\ squatter' = [squatter EXCEPT !.on = "off"]
  /\ UNCHANGED <<release, env, api, worker, nginx, data, wanted, past>>

KillSquatter ==
  /\ Repairs(5) /\ squatter.on = "up"
  /\ squatter' = [squatter EXCEPT !.on = "wait"]
  /\ UNCHANGED <<release, env, api, worker, nginx, data, wanted, past>>

DisableSquatter ==
  /\ Repairs(5) /\ squatter.enabled
  /\ squatter' = [squatter EXCEPT !.enabled = FALSE]
  /\ UNCHANGED <<release, env, api, worker, nginx, data, wanted, past>>

EnableSquatter ==
  /\ Slips /\ ~squatter.enabled
  /\ squatter' = [on |-> IF squatter.on = "up" THEN "up" ELSE "wait",
                  enabled |-> TRUE]
  /\ cleared' = FALSE
  /\ UNCHANGED <<release, env, api, worker, nginx, data, wanted, quiet,
                 slipped>>

EnableApi ==
  /\ Repairs(6) /\ ~api.enabled
  /\ api' = [api EXCEPT !.enabled = TRUE]
  /\ UNCHANGED <<release, env, worker, squatter, nginx, data, wanted, past>>

\* systemctl start or restart.
RestartApi ==
  /\ Repairs(6) /\ api.on # "wait"
  /\ ApiDies("wait")
  /\ wanted' = TRUE
  /\ UNCHANGED <<release, env, worker, squatter, nginx, data>>

StopApi ==
  /\ Slips /\ api.on # "off"
  /\ ApiDies("off")
  /\ wanted' = FALSE
  /\ UNCHANGED <<release, env, worker, squatter, nginx, data>>

OwnQueue ==
  /\ Repairs(8) /\ ~worker.owned
  /\ worker' = [worker EXCEPT !.owned = TRUE]
  /\ UNCHANGED <<release, env, api, squatter, nginx, data, wanted, past>>

EnableWorker ==
  /\ Repairs(8) /\ ~worker.enabled
  /\ worker' = [worker EXCEPT !.on = "wait", !.enabled = TRUE]
  /\ UNCHANGED <<release, env, api, squatter, nginx, data, wanted, past>>

EditNginx(location) ==
  /\ Repairs(location) /\ location \notin nginx.file
  /\ nginx' = [nginx EXCEPT !.file = @ \cup {location}]
  /\ UNCHANGED <<release, env, api, worker, squatter, data, wanted, past>>

SpoilNginx(location) ==
  /\ Slips /\ location \in nginx.file
  /\ nginx' = [nginx EXCEPT !.file = @ \ {location}]
  /\ UNCHANGED <<release, env, api, worker, squatter, data, wanted, past>>

ReloadNginx ==
  /\ Repairs(9) /\ nginx.loaded # nginx.file
  /\ nginx' = [nginx EXCEPT !.loaded = nginx.file]
  /\ UNCHANGED <<release, env, api, worker, squatter, data, wanted, past>>

\* migrate.py of v2.1.
Migrate ==
  /\ Repairs(14) /\ "v21" \in dirs /\ ~db.migrated
  /\ db' = [db EXCEPT !.migrated = TRUE]
  /\ UNCHANGED <<release, env, services, chores, wanted, past>>

InsertTide ==
  /\ Repairs(15) /\ ~db.tide
  /\ db' = [db EXCEPT !.tide = TRUE]
  /\ UNCHANGED <<release, env, services, chores, wanted, past>>

\* The whole database from the backup the game ships, which was taken after
\* the recent row and before any migration.
RestoreBackup ==
  /\ Repairs(15) /\ db # [migrated |-> FALSE, tide |-> TRUE]
  /\ db' = [migrated |-> FALSE, tide |-> TRUE]
  /\ UNCHANGED <<release, env, services, chores, wanted, past>>

DoChore(n) ==
  /\ Repairs(n) /\ chores[n] = "undone"
  /\ chores' = [chores EXCEPT ![n] = "done"]
  /\ UNCHANGED <<release, env, services, db, wanted, past>>

\* A facts file edited wrong, a timer disabled; a cleanup that takes the
\* upload with it cannot be undone.
SpoilChore(n) ==
  /\ Slips /\ chores[n] # "lost"
  /\ n = 3 \/ chores[n] = "done"
  /\ chores' = [chores EXCEPT ![n] = IF n = 3 THEN "lost" ELSE "undone"]
  /\ UNCHANGED <<release, env, services, db, wanted, past>>

-----------------------------------------------------------------------------
(* The checks *)

Serving(r) == api.on = "up" /\ api.release = r

\* /healthz: the colour the process started with.
Healthy == api.on = "up" /\ api.colour

\* /api/ships: v2 has the regression.
ShipsOk == api.on = "up" /\ api.release # "v2"

CheckSymlink == link = "v1" /\ "v1" \in dirs

CheckPermissions == env.perm = "group"

\* Mutant of CheckSquatter: is-enabled is not asked.
CheckSquatterActive == squatter.on # "up"

\* is-active does not count a unit that waits for its restart.
CheckSquatter == squatter.on # "up" /\ ~squatter.enabled

\* Type=simple: a process that is about to exit is active until it does.
CheckApi == /\ api.enabled
            /\ \/ api.on \in {"read", "up"}
               \/ api.on = "wait" /\ link \in dirs

\* Mutant of CheckHealth: the file is not compared.
CheckHealthServed == Healthy

CheckHealth == Healthy /\ env.colour

CheckWorker == worker.enabled /\ worker.on = "up"

CheckPublic == 9 \in nginx.loaded /\ Healthy

CheckDashboard == 10 \in nginx.loaded /\ api.on = "up"

\* Mutant of CheckV2: /version is not asked.
CheckV2Link == link = "v2" /\ {"v1", "v2"} \subseteq dirs /\ Healthy

CheckV2 == /\ link = "v2" /\ {"v1", "v2"} \subseteq dirs
           /\ Serving("v2") /\ Healthy

CheckBadCrate == "shiny" \notin dirs /\ link # "shiny"

\* It asks for the selector and for ships, not for the version that runs.
CheckRollback == link = "v1" /\ ShipsOk /\ "v2" \in dirs

CheckV21 == link = "v21" /\ Serving("v21") /\ db.migrated /\ ShipsOk

\* Mutant of CheckDebug: the running process is not asked.
CheckDebugFile == ~env.debug

\* /debug of the running process.
ServesDebug == api.on = "up" /\ api.debug

\* No answer counts as no /debug.
CheckDebug == ~env.debug /\ ~ServesDebug

Passes(n) ==
  \/ n = 1 /\ CheckSymlink
  \/ n = 4 /\ CheckPermissions
  \/ n = 5 /\ CheckSquatter
  \/ n = 6 /\ CheckApi
  \/ n = 7 /\ CheckHealth
  \/ n = 8 /\ CheckWorker
  \/ n = 9 /\ CheckPublic
  \/ n = 10 /\ CheckDashboard
  \/ n = 11 /\ CheckV2
  \/ n = 12 /\ CheckBadCrate
  \/ n = 13 /\ CheckRollback
  \/ n = 14 /\ CheckV21
  \/ n = 15 /\ db.tide
  \/ n = 19 /\ CheckDebug
  \/ n \in Chores /\ chores[n] = "done"

\* Mutant of Lit: the list counts from 0.
LitFromZero(n) == lit \cup {n - 1}

Lit(n) == lit \cup {n}

\* verify_one: a lit lantern is not checked again, a check that fails leaves
\* nothing behind.
Verify(n) ==
  /\ n \notin lit /\ Passes(n)
  /\ lit' = Lit(n)
  /\ quiet' = (quiet \/ n = 19)
  /\ cleared' = (cleared \/ (n = 5 /\ squatter.on = "off"))
  /\ slipped' = (slipped \/ (n = 19 /\ api.on = "read" /\ api.debug))
  /\ UNCHANGED <<release, env, services, data, at, slips, reboots, ran, clean,
                 wanted>>

\* check_runbook: all the others lit and the text in order, then the rechecks
\* in a row, each reading the machine as it is by then.
BeginInspection ==
  /\ 20 \notin lit /\ 1..19 \subseteq lit /\ Passes(20) /\ at = 0
  /\ at' = 1
  /\ clean' = TRUE
  /\ UNCHANGED <<release, env, services, data, lit, slips, reboots, ran, wanted,
                 past>>

Recheck ==
  /\ at # 0
  /\ IF Passes(Rechecks[at]) /\ at < Len(Rechecks)
     THEN at' = at + 1 /\ lit' = lit
     ELSE /\ at' = 0
          /\ lit' = IF Passes(Rechecks[at]) THEN Lit(20) ELSE lit
  /\ UNCHANGED <<release, env, services, data, slips, reboots, ran, clean, wanted,
                 past>>

-----------------------------------------------------------------------------

System ==
  ApiReads \/ ApiBinds \/ ApiExits \/ WorkerStarts \/ SquatterStarts \/ Reboot

Operator ==
  \/ \E r \in Releases : PointCurrent(r) \/ RemoveRelease(r)
  \/ \E r \in Crates : Unpack(r)
  \/ \E perm \in {"root", "group", "open"} : SetPermissions(perm)
  \/ Calibrate \/ Miscalibrate \/ DebugOff \/ DebugOn
  \/ StopSquatter \/ KillSquatter \/ DisableSquatter \/ EnableSquatter
  \/ EnableApi \/ RestartApi \/ StopApi
  \/ OwnQueue \/ EnableWorker
  \/ \E location \in {9, 10} : EditNginx(location) \/ SpoilNginx(location)
  \/ ReloadNginx
  \/ Migrate \/ InsertTide \/ RestoreBackup
  \/ \E n \in Chores : DoChore(n) \/ SpoilChore(n)

Game == (\E n \in 1..19 : Verify(n)) \/ BeginInspection \/ Recheck

Next == System \/ Operator \/ Game

Spec == Init /\ [][Next]_vars

\* systemd keeps trying; nobody owes the machine a repair.  Strong fairness
\* of the bind: who keeps restarting the API does not hit, each time, the
\* instant between its read and its bind.
FairSpec ==
  Spec /\ WF_vars(ApiReads) /\ SF_vars(ApiBinds) /\ WF_vars(WorkerStarts)

-----------------------------------------------------------------------------
(* Properties *)

\* Dawn cannot break on a machine that never served the regression or the
\* fix: lanterns 11 and 14 ask the process that runs, not only the selector
\* (check_v2_deployed and check_v21_deployed).
DawnHasSeenBoth == 20 \in lit => {"v2", "v21"} \subseteq ran

\* Once lantern 19 has passed, and until someone puts it back into the
\* configuration, only one process can still serve /debug: the one that had
\* read the configuration and was not listening yet when the check asked it,
\* whose silence the check takes for a no (check_debug_disabled).  Every
\* process after that one is without it, whatever is restarted or deployed.
DebugStaysGone == quiet /\ ServesDebug => slipped

\* Lantern 5 with the unit stopped means the port is the API's for good,
\* across restarts and reboots, until someone enables the squatter again
\* (check_squatter).
SquatterStaysGone == cleared => squatter.on = "off"

\* Dawn broke and nobody has touched the machine since its inspection began.
Handed == 20 \in lit /\ clean

\* The inspection does not let that process through: it asks for an API that
\* serves (7, 9, 10, 14) before it asks for /debug again, last of all, and a
\* machine handed over at dawn neither serves /debug nor will after a restart
\* (check_runbook's order).
DawnWithoutDebug == Handed => ~env.debug /\ ~ServesDebug

\* What the inspection does not look at: whether the configuration can still
\* be read, the squatter, the nginx file, the release's directory, who owns
\* the worker's directories.
UncheckedInOrder ==
  /\ Readable
  /\ squatter = [on |-> "off", enabled |-> FALSE]
  /\ {9, 10} \subseteq nginx.file
  /\ link \in dirs
  /\ worker.owned

Green == Healthy /\ {9, 10} \subseteq nginx.loaded /\ worker.on = "up"

\* A machine handed over at dawn, in order where the inspection does not look,
\* comes back green by itself after a restart of the container: the rechecks
\* ask for what is enabled and for the file as well as for what runs
\* (check_runbook).
HandoverSurvivesReboot == (Handed /\ UncheckedInOrder) ~> (Green \/ ~Handed)

\* However long the API's unit has been failing, it serves once the selector,
\* the configuration and the port are right and stay so (the units' Restart
\* and StartLimitIntervalSec).
ApiComesUp ==
  (wanted /\ ApiMayServe) ~> (api.on = "up" \/ ~wanted \/ ~ApiMayServe)
=============================================================================
