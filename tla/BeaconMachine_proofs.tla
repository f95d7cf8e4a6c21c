------------------------ MODULE BeaconMachine_proofs ------------------------
(***************************************************************************)
(* Proofs about BeaconMachine for any set of crates and any number of      *)
(* slips and restarts.  Each of the safety properties needs what a check   *)
(* read beyond what it promises: the file beside the process, the unit's   *)
(* enablement beside its state, the process beside the selector.  What     *)
(* becomes of the machine in the end follows from fairness stated by the   *)
(* guards of the starts.                                                   *)
(***************************************************************************)
EXTENDS BeaconMachine, TLAPS

(***************************************************************************)
(* Type correctness                                                        *)
(***************************************************************************)

\* No release has the name of the absence of one.
LEMMA NoneIsNoRelease == "none" \notin Releases
  BY MachineAssumption DEF MachineAssumption, Releases

\* A process that dies leaves a unit behind.
LEMMA DownType ==
  ASSUME api \in ApiUnits, NEW on \in {"off", "wait"}, ApiDies(on)
  PROVE  /\ api' \in ApiUnits /\ slipped' \in BOOLEAN
         /\ UNCHANGED <<quiet, cleared>>
  BY DEF ApiDies, Down, ApiUnits, ApiStates, UnitStates

\* What systemd does at boot with a unit is one of its states.
LEMMA BootType ==
  ASSUME NEW unit
  PROVE  BootState(unit) \in {"off", "wait"}
  BY DEF BootState

\* What systemd and the processes do keeps the types.
LEMMA SystemType ==
  ASSUME TypeOK, System
  PROVE  TypeOK'
  <1>. USE DEF TypeOK, release, services, data, game, past
  <1>1. CASE ApiReads
    <2>1. link \in Releases /\ env.colour \in BOOLEAN /\ env.debug \in BOOLEAN
      BY <1>1 DEF ApiReads, ApiMayRead, Envs
    <2>2. api' \in ApiUnits
      BY <1>1, <2>1, NoneIsNoRelease DEF ApiReads, ApiUnits, ApiStates
    <2>. QED  BY <1>1, <2>2 DEF ApiReads
  <1>6. CASE ApiBinds
    <2>1. api' \in ApiUnits
      BY <1>6 DEF ApiBinds, ApiUnits, ApiStates, UnitStates
    <2>2. ran' \subseteq Releases
      BY <1>6 DEF ApiBinds, ApiUnits
    <2>. QED  BY <1>6, <2>1, <2>2 DEF ApiBinds
  <1>2. CASE ApiExits
    <2>1. api' \in ApiUnits /\ slipped' \in BOOLEAN /\ cleared' = cleared
          /\ quiet' = quiet
      BY <1>2, DownType DEF ApiExits
    <2>. QED  BY <1>2, <2>1 DEF ApiExits
  <1>3. CASE WorkerStarts
    <2>1. worker' \in WorkerUnits
      BY <1>3 DEF WorkerStarts, WorkerUnits, UnitStates
    <2>. QED  BY <1>3, <2>1 DEF WorkerStarts
  <1>4. CASE SquatterStarts
    <2>1. squatter' \in SquatterUnits
      BY <1>4 DEF SquatterStarts, SquatterUnits, UnitStates
    <2>. QED  BY <1>4, <2>1 DEF SquatterStarts
  <1>5. CASE Reboot
    <2>1. api' \in ApiUnits /\ slipped' \in BOOLEAN /\ cleared' = cleared
          /\ quiet' = quiet
      BY <1>5, BootType, DownType DEF Reboot
    <2>2. worker' \in WorkerUnits
      BY <1>5, BootType DEF Reboot, WorkerUnits, UnitStates
    <2>3. squatter' \in SquatterUnits
      BY <1>5, BootType DEF Reboot, SquatterUnits, UnitStates
    <2>4. nginx' \in Proxies /\ wanted' \in BOOLEAN
      BY <1>5 DEF Reboot, Proxies, ApiUnits
    <2>5. reboots' \in 0..MaxReboots
      BY <1>5, MachineAssumption DEF MachineAssumption, Reboot
    <2>6. at' \in 0..Len(Rechecks)
      BY <1>5 DEF Reboot, Rechecks
    <2>. QED  BY <1>5, <2>1, <2>2, <2>3, <2>4, <2>5, <2>6 DEF Reboot
  <1>. QED  BY <1>1, <1>2, <1>3, <1>4, <1>5, <1>6 DEF System

\* What every repair and slip has in common.
Work ==
  /\ clean' = FALSE
  /\ UNCHANGED <<game, reboots, ran>>
  /\ slips' \in 0..MaxSlips

LEMMA WorkIs ==
  ASSUME TypeOK
  PROVE  /\ \A n : Repairs(n) => Work
         /\ Slips => Work
  BY MachineAssumption DEF MachineAssumption, TypeOK, Repairs, Slips, Work

\* Work at the releases and at the configuration.
LEMMA FilesType ==
  ASSUME TypeOK,
         \/ \E r \in Releases : PointCurrent(r) \/ RemoveRelease(r)
         \/ \E r \in Crates : Unpack(r)
         \/ \E perm \in {"root", "group", "open"} : SetPermissions(perm)
         \/ Calibrate \/ Miscalibrate \/ DebugOff \/ DebugOn
  PROVE  TypeOK'
  <1>. USE WorkIs DEF Work, TypeOK, release, services, data, game, past
  <1>1. ASSUME NEW r \in Releases, PointCurrent(r) \/ RemoveRelease(r)
        PROVE  TypeOK'
    BY <1>1 DEF PointCurrent, RemoveRelease
  <1>2. ASSUME NEW r \in Crates, Unpack(r)  PROVE TypeOK'
    BY <1>2 DEF Unpack, Releases
  <1>3. ASSUME NEW perm \in {"root", "group", "open"}, SetPermissions(perm)
        PROVE  TypeOK'
    <2>1. env' \in Envs  BY <1>3 DEF SetPermissions, Envs
    <2>. QED  BY <1>3, <2>1 DEF SetPermissions
  <1>4. CASE Calibrate
    <2>1. env' \in Envs  BY <1>4 DEF Calibrate, Envs
    <2>. QED  BY <1>4, <2>1 DEF Calibrate
  <1>5. CASE Miscalibrate
    <2>1. env' \in Envs  BY <1>5 DEF Miscalibrate, Envs
    <2>. QED  BY <1>5, <2>1 DEF Miscalibrate
  <1>6. CASE DebugOff
    <2>1. env' \in Envs  BY <1>6 DEF DebugOff, Envs
    <2>. QED  BY <1>6, <2>1 DEF DebugOff
  <1>7. CASE DebugOn
    <2>1. env' \in Envs  BY <1>7 DEF DebugOn, Envs
    <2>. QED  BY <1>7, <2>1 DEF DebugOn
  <1>. QED  BY <1>1, <1>2, <1>3, <1>4, <1>5, <1>6, <1>7

\* Work at the units.
LEMMA UnitsType ==
  ASSUME TypeOK,
         \/ StopSquatter \/ KillSquatter \/ DisableSquatter \/ EnableSquatter
         \/ EnableApi \/ RestartApi \/ StopApi
         \/ OwnQueue \/ EnableWorker
  PROVE  TypeOK'
  <1>. USE WorkIs DEF Work, TypeOK, release, services, data, game, past
  <1>1. CASE StopSquatter
    <2>1. squatter' \in SquatterUnits
      BY <1>1 DEF StopSquatter, SquatterUnits, UnitStates
    <2>. QED  BY <1>1, <2>1 DEF StopSquatter
  <1>2. CASE KillSquatter
    <2>1. squatter' \in SquatterUnits
      BY <1>2 DEF KillSquatter, SquatterUnits, UnitStates
    <2>. QED  BY <1>2, <2>1 DEF KillSquatter
  <1>3. CASE DisableSquatter
    <2>1. squatter' \in SquatterUnits
      BY <1>3 DEF DisableSquatter, SquatterUnits
    <2>. QED  BY <1>3, <2>1 DEF DisableSquatter
  <1>4. CASE EnableSquatter
    <2>1. squatter' \in SquatterUnits
      BY <1>4 DEF EnableSquatter, SquatterUnits, UnitStates
    <2>. QED  BY <1>4, <2>1 DEF EnableSquatter
  <1>5. CASE EnableApi
    <2>1. api' \in ApiUnits  BY <1>5 DEF EnableApi, ApiUnits
    <2>. QED  BY <1>5, <2>1 DEF EnableApi
  <1>6. CASE RestartApi
    <2>1. api' \in ApiUnits /\ slipped' \in BOOLEAN /\ cleared' = cleared
          /\ quiet' = quiet
      BY <1>6, DownType DEF RestartApi
    <2>. QED  BY <1>6, <2>1 DEF RestartApi
  <1>7. CASE StopApi
    <2>1. api' \in ApiUnits /\ slipped' \in BOOLEAN /\ cleared' = cleared
          /\ quiet' = quiet
      BY <1>7, DownType DEF StopApi
    <2>. QED  BY <1>7, <2>1 DEF StopApi
  <1>8. CASE OwnQueue
    <2>1. worker' \in WorkerUnits  BY <1>8 DEF OwnQueue, WorkerUnits
    <2>. QED  BY <1>8, <2>1 DEF OwnQueue
  <1>9. CASE EnableWorker
    <2>1. worker' \in WorkerUnits
      BY <1>9 DEF EnableWorker, WorkerUnits, UnitStates
    <2>. QED  BY <1>9, <2>1 DEF EnableWorker
  <1>. QED
    BY <1>1, <1>2, <1>3, <1>4, <1>5, <1>6, <1>7, <1>8, <1>9

\* Work at nginx, the database and the rest.
LEMMA RestType ==
  ASSUME TypeOK,
         \/ \E location \in {9, 10} :
              EditNginx(location) \/ SpoilNginx(location)
         \/ ReloadNginx
         \/ Migrate \/ InsertTide \/ RestoreBackup
         \/ \E n \in Chores : DoChore(n) \/ SpoilChore(n)
  PROVE  TypeOK'
  <1>. USE WorkIs DEF Work, TypeOK, release, services, data, game, past
  <1>1. ASSUME NEW location \in {9, 10}, EditNginx(location)
        PROVE  TypeOK'
    <2>1. nginx' \in Proxies  BY <1>1 DEF EditNginx, Proxies
    <2>. QED  BY <1>1, <2>1 DEF EditNginx
  <1>2. ASSUME NEW location \in {9, 10}, SpoilNginx(location)
        PROVE  TypeOK'
    <2>1. nginx' \in Proxies  BY <1>2 DEF SpoilNginx, Proxies
    <2>. QED  BY <1>2, <2>1 DEF SpoilNginx
  <1>3. CASE ReloadNginx
    <2>1. nginx' \in Proxies  BY <1>3 DEF ReloadNginx, Proxies
    <2>. QED  BY <1>3, <2>1 DEF ReloadNginx
  <1>4. CASE Migrate
    <2>1. db' \in Databases  BY <1>4 DEF Migrate, Databases
    <2>. QED  BY <1>4, <2>1 DEF Migrate
  <1>5. CASE InsertTide
    <2>1. db' \in Databases  BY <1>5 DEF InsertTide, Databases
    <2>. QED  BY <1>5, <2>1 DEF InsertTide
  <1>6. CASE RestoreBackup
    <2>1. db' \in Databases  BY <1>6 DEF RestoreBackup, Databases
    <2>. QED  BY <1>6, <2>1 DEF RestoreBackup
  <1>7. ASSUME NEW n \in Chores, DoChore(n)  PROVE TypeOK'
    BY <1>7 DEF DoChore
  <1>8. ASSUME NEW n \in Chores, SpoilChore(n)  PROVE TypeOK'
    BY <1>8 DEF SpoilChore
  <1>. QED  BY <1>1, <1>2, <1>3, <1>4, <1>5, <1>6, <1>7, <1>8

\* What ops does.
LEMMA GameType ==
  ASSUME TypeOK, Game
  PROVE  TypeOK'
  <1>. USE DEF TypeOK, release, services, data, game, past
  <1>0. Len(Rechecks) = 11
    BY DEF Rechecks
  <1>1. ASSUME NEW n \in 1..19, Verify(n)  PROVE TypeOK'
    <2>1. /\ lit' \subseteq 1..20 /\ quiet' \in BOOLEAN
          /\ cleared' \in BOOLEAN /\ slipped' \in BOOLEAN
      BY <1>1 DEF Verify, Lit
    <2>. QED  BY <1>1, <2>1 DEF Verify
  <1>2. CASE BeginInspection  BY <1>0, <1>2 DEF BeginInspection
  <1>3. CASE Recheck
    <2>1. at' \in {0, at + 1} /\ at' <= 11
      BY <1>0, <1>3 DEF Recheck
    <2>2. lit' \in {lit, lit \cup {20}}
      BY <1>3 DEF Recheck, Lit
    <2>3. at' \in 0..Len(Rechecks) /\ lit' \subseteq 1..20
      BY <1>0, <2>1, <2>2
    <2>. QED  BY <1>3, <2>3 DEF Recheck
  <1>. QED  BY <1>1, <1>2, <1>3 DEF Game

(***************************************************************************)
(* Every variable keeps its type (TypeOK).                                 *)
(***************************************************************************)
THEOREM TypeCorrect == Spec => []TypeOK
<1>1. Init => TypeOK
  <2>. SUFFICES ASSUME Init  PROVE TypeOK
    OBVIOUS
  <2>. USE DEF Init
  <2>1. link \in Releases \cup {"missing"} /\ dirs \in SUBSET Releases
    BY DEF Releases
  <2>2. env \in Envs /\ db \in Databases /\ nginx \in Proxies
    BY DEF Envs, Databases, Proxies
  <2>3. /\ api \in ApiUnits /\ worker \in WorkerUnits
        /\ squatter \in SquatterUnits
    BY DEF ApiUnits, ApiStates, WorkerUnits, SquatterUnits, UnitStates
  <2>4. at \in 0..Len(Rechecks) /\ slips \in 0..MaxSlips
        /\ reboots \in 0..MaxReboots
    BY MachineAssumption DEF MachineAssumption, Rechecks
  <2>5. chores \in [Chores -> {"undone", "done", "lost"}]
    OBVIOUS
  <2>. QED  BY <2>1, <2>2, <2>3, <2>4, <2>5 DEF TypeOK
<1>2. TypeOK /\ [Next]_vars => TypeOK'
  <2>. SUFFICES ASSUME TypeOK, [Next]_vars  PROVE TypeOK'
    OBVIOUS
  <2>1. CASE System  BY <2>1, SystemType
  <2>2. CASE Operator  BY <2>2, FilesType, UnitsType, RestType DEF Operator
  <2>3. CASE Game  BY <2>3, GameType
  <2>4. CASE UNCHANGED vars
    BY <2>4 DEF vars, TypeOK, release, services, data, game, past
  <2>. QED  BY <2>1, <2>2, <2>3, <2>4 DEF Next
<1>. QED  BY <1>1, <1>2, PTL DEF Spec

(***************************************************************************)
(* Who touches what                                                        *)
(***************************************************************************)

\* A step of the operator, by what it touches: only seven of them touch the
\* units and the histories the properties are about.
Elsewhere == UNCHANGED <<api, squatter, env, ran, lit, at, past>>

EnvRepairs ==
  \/ \E perm \in {"root", "group", "open"} : SetPermissions(perm)
  \/ Calibrate \/ Miscalibrate \/ DebugOff

SquatterRepairs == StopSquatter \/ KillSquatter \/ DisableSquatter

ApiRepairs == EnableApi \/ RestartApi \/ StopApi

LEMMA OperatorTouches ==
  ASSUME Operator
  PROVE  \/ EnvRepairs \/ DebugOn \/ SquatterRepairs \/ EnableSquatter
         \/ ApiRepairs \/ Elsewhere
  <1>. USE DEF Repairs, Slips, Elsewhere, release, services, data, game, past
  <1>1. ASSUME \E r \in Releases : PointCurrent(r) \/ RemoveRelease(r)
        PROVE  Elsewhere
    BY <1>1 DEF PointCurrent, RemoveRelease
  <1>2. ASSUME \E r \in Crates : Unpack(r)  PROVE Elsewhere
    BY <1>2 DEF Unpack
  <1>3. ASSUME OwnQueue \/ EnableWorker \/ ReloadNginx  PROVE Elsewhere
    BY <1>3 DEF OwnQueue, EnableWorker, ReloadNginx
  <1>4. ASSUME \E location \in {9, 10} :
                 EditNginx(location) \/ SpoilNginx(location)
        PROVE  Elsewhere
    BY <1>4 DEF EditNginx, SpoilNginx
  <1>5. ASSUME Migrate \/ InsertTide \/ RestoreBackup  PROVE Elsewhere
    BY <1>5 DEF Migrate, InsertTide, RestoreBackup
  <1>6. ASSUME \E n \in Chores : DoChore(n) \/ SpoilChore(n)
        PROVE  Elsewhere
    BY <1>6 DEF DoChore, SpoilChore
  <1>. QED
    BY <1>1, <1>2, <1>3, <1>4, <1>5, <1>6
       DEF Operator, EnvRepairs, SquatterRepairs, ApiRepairs

(***************************************************************************)
(* What the API's process has read                                         *)
(***************************************************************************)

\* The API's unit after a step: as it was, or a process that has read the
\* configuration just now, or one that listens from now on, or none.
ApiSame ==
  /\ api'.on = api.on /\ api'.release = api.release /\ api'.debug = api.debug
  /\ slipped => slipped'

ApiHasRead ==
  /\ api.on = "wait"
  /\ api'.on = "read" /\ api'.release = link /\ api'.debug = env.debug

ApiListens ==
  /\ api.on = "read"
  /\ api'.on = "up" /\ api'.release = api.release /\ api'.debug = api.debug
  /\ slipped' = slipped
  /\ ran' = ran \cup {api.release}

ApiGone == api'.on \in {"off", "wait"}

\* A dead process serves nothing.
LEMMA DownIs ==
  ASSUME api \in ApiUnits, NEW on \in {"off", "wait"}, ApiDies(on)
  PROVE  ApiGone
  BY DEF ApiDies, Down, ApiUnits, ApiGone

LEMMA ApiSteps ==
  ASSUME TypeOK, [Next]_vars
  PROVE  ApiSame \/ ApiHasRead \/ ApiListens \/ ApiGone
  <1>. USE DEF TypeOK
  <1>1. CASE UNCHANGED <<api, slipped>>  BY <1>1 DEF ApiSame
  <1>2. CASE ApiReads
    BY <1>2 DEF ApiReads, ApiUnits, ApiHasRead
  <1>10. CASE ApiBinds
    BY <1>10 DEF ApiBinds, ApiUnits, ApiListens, past
  <1>3. CASE ApiExits  BY <1>3, DownIs DEF ApiExits
  <1>4. CASE Reboot  BY <1>4, BootType, DownIs DEF Reboot
  <1>5. CASE ApiRepairs
    <2>1. CASE EnableApi  BY <2>1 DEF EnableApi, ApiUnits, ApiSame, past
    <2>2. CASE RestartApi  BY <2>2, DownIs DEF RestartApi
    <2>3. CASE StopApi  BY <2>3, DownIs DEF StopApi
    <2>. QED  BY <1>5, <2>1, <2>2, <2>3 DEF ApiRepairs
  <1>6. CASE WorkerStarts \/ SquatterStarts
    BY <1>1, <1>6 DEF WorkerStarts, SquatterStarts, past
  <1>7. CASE Operator
    <2>1. CASE EnvRepairs
      BY <1>1, <2>1 DEF EnvRepairs, SetPermissions, Calibrate, Miscalibrate,
                        DebugOff, services, past
    <2>2. CASE DebugOn  BY <1>1, <2>2 DEF DebugOn, services
    <2>3. CASE SquatterRepairs \/ EnableSquatter
      BY <1>1, <2>3 DEF SquatterRepairs, StopSquatter, KillSquatter,
                        DisableSquatter, EnableSquatter, past
    <2>4. CASE Elsewhere  BY <1>1, <2>4 DEF Elsewhere, past
    <2>. QED  BY <1>5, <1>7, <2>1, <2>2, <2>3, <2>4, OperatorTouches
  <1>8. CASE Game
    <2>1. ASSUME NEW n \in 1..19, Verify(n)  PROVE ApiSame
      <3>1. UNCHANGED api  BY <2>1 DEF Verify, services
      <3>2. slipped => slipped'  BY <2>1, Zenon DEF Verify
      <3>. QED  BY <3>1, <3>2 DEF ApiSame
    <2>2. CASE BeginInspection \/ Recheck
      BY <1>1, <2>2 DEF BeginInspection, Recheck, services, past
    <2>. QED  BY <1>8, <2>1, <2>2 DEF Game
  <1>9. CASE UNCHANGED vars  BY <1>1, <1>9 DEF vars, services, past
  <1>. QED
    BY <1>2, <1>10, <1>3, <1>4, <1>6, <1>7, <1>8, <1>9 DEF Next, System

(***************************************************************************)
(* Lantern 19                                                              *)
(***************************************************************************)

\* What the check read of both, the file and the process, and the process it
\* could not ask.
DebugGone ==
  quiet => /\ ~env.debug
           /\ api.on \in {"read", "up"} /\ api.debug => slipped

\* The configuration after a step, and the history with it.
LEMMA DebugSteps ==
  ASSUME TypeOK, [Next]_vars, quiet'
  PROVE  /\ env'.debug => env.debug
         /\ \/ quiet
            \/ /\ UNCHANGED <<env, api>> /\ CheckDebug
               /\ api.on = "read" /\ api.debug => slipped'
  <1>1. CASE UNCHANGED <<env, quiet>>  BY <1>1, Zenon
  <1>. USE DEF past, services
  <1>2. CASE System
    BY <1>1, <1>2 DEF System, ApiReads, ApiBinds, ApiExits, ApiDies,
                      WorkerStarts, SquatterStarts, Reboot
  <1>3. CASE Operator
    <2>1. CASE EnvRepairs
      <3>1. env'.debug => env.debug
        BY <2>1 DEF EnvRepairs, SetPermissions, Calibrate, Miscalibrate,
                    DebugOff, TypeOK, Envs
      <3>2. quiet' = quiet
        BY <2>1 DEF EnvRepairs, SetPermissions, Calibrate, Miscalibrate,
                    DebugOff
      <3>. QED  BY <3>1, <3>2, Zenon
    <2>2. CASE DebugOn  BY <2>2 DEF DebugOn
    <2>3. CASE SquatterRepairs \/ EnableSquatter
      BY <1>1, <2>3 DEF SquatterRepairs, StopSquatter, KillSquatter,
                        DisableSquatter, EnableSquatter
    <2>4. CASE ApiRepairs
      BY <1>1, <2>4 DEF ApiRepairs, EnableApi, RestartApi, StopApi, ApiDies
    <2>5. CASE Elsewhere  BY <1>1, <2>5 DEF Elsewhere
    <2>. QED  BY <1>3, <2>1, <2>2, <2>3, <2>4, <2>5, OperatorTouches
  <1>4. CASE Game
    <2>1. ASSUME NEW n \in 1..19, Verify(n)
          PROVE  /\ UNCHANGED <<env, api>>
                 /\ quiet \/ CheckDebug
                 /\ quiet \/ (api.on = "read" /\ api.debug => slipped')
      <3>1. n = 19 /\ Passes(n) => CheckDebug
        BY DEF Passes, Chores
      <3>2. UNCHANGED <<env, api>> /\ Passes(n)
        BY <2>1 DEF Verify
      <3>3. quiet' = (quiet \/ n = 19)
        BY <2>1 DEF Verify
      <3>4. quiet \/ n = 19
        BY <3>3, Zenon
      <3>5. n = 19 => (api.on = "read" /\ api.debug => slipped')
        BY <2>1, Zenon DEF Verify
      <3>. QED  BY <3>1, <3>2, <3>4, <3>5, Zenon
    <2>2. CASE BeginInspection \/ Recheck
      BY <1>1, <2>2 DEF BeginInspection, Recheck
    <2>. QED  BY <1>4, <2>1, <2>2, Zenon DEF Game
  <1>5. CASE UNCHANGED vars  BY <1>1, <1>5 DEF vars
  <1>. QED  BY <1>2, <1>3, <1>4, <1>5 DEF Next

(***************************************************************************)
(* Once lantern 19 has passed, and until debug is put back into the        *)
(* configuration, nobody serves /debug but the one process that had read   *)
(* it and was not listening yet (DebugStaysGone).                          *)
(***************************************************************************)
THEOREM NoDebugAfterCheck == Spec => []DebugStaysGone
<1>1. Init => DebugGone
  BY DEF Init, DebugGone
<1>2. TypeOK /\ DebugGone /\ [Next]_vars => DebugGone'
  <2>. SUFFICES ASSUME TypeOK, DebugGone, [Next]_vars, quiet'
                PROVE  /\ ~env'.debug
                       /\ api'.on \in {"read", "up"} /\ api'.debug => slipped'
    BY DEF DebugGone
  <2>1. CASE quiet
    <3>1. /\ ~env.debug /\ ~env'.debug
          /\ api.on \in {"read", "up"} /\ api.debug => slipped
      BY <2>1, DebugSteps DEF DebugGone
    <3>2. CASE ApiSame \/ ApiListens
      BY <3>1, <3>2 DEF ApiSame, ApiListens
    <3>3. CASE ApiHasRead \/ ApiGone
      BY <3>1, <3>3 DEF ApiHasRead, ApiGone
    <3>. QED  BY <3>1, <3>2, <3>3, ApiSteps
  <2>2. CASE ~quiet
    <3>1. /\ ~env.debug /\ ~(api.on = "up" /\ api.debug)
          /\ api.on = "read" /\ api.debug => slipped'
          /\ UNCHANGED <<env, api>>
      BY <2>2, DebugSteps DEF CheckDebug, ServesDebug
    <3>. QED  BY <3>1
  <2>. QED  BY <2>1, <2>2
<1>3. DebugGone => DebugStaysGone
  BY DEF DebugGone, DebugStaysGone, ServesDebug
<1>. QED  BY <1>1, <1>2, <1>3, TypeCorrect, PTL DEF Spec

(***************************************************************************)
(* Lantern 5                                                               *)
(***************************************************************************)

\* is-active for this boot, is-enabled for the ones to come.
SquatterGone == cleared => squatter.on = "off" /\ ~squatter.enabled

(***************************************************************************)
(* Lantern 5 with the unit stopped means the port is the API's for good,   *)
(* until someone enables the squatter again (SquatterStaysGone).           *)
(***************************************************************************)
THEOREM PortStaysFree == Spec => []SquatterStaysGone
<1>1. Init => SquatterGone
  BY DEF Init, SquatterGone
<1>2. TypeOK /\ SquatterGone /\ [Next]_vars => SquatterGone'
  <2>. SUFFICES ASSUME TypeOK, SquatterGone, [Next]_vars
                PROVE  SquatterGone'
    OBVIOUS
  <2>. USE DEF TypeOK, SquatterUnits, SquatterGone, past, services
  <2>1. CASE UNCHANGED <<squatter, cleared>>  BY <2>1
  <2>2. CASE System
    <3>1. CASE SquatterStarts  BY <3>1 DEF SquatterStarts
    <3>2. CASE Reboot  BY <3>2 DEF Reboot, BootState, ApiDies
    <3>. QED
      BY <2>1, <2>2, <3>1, <3>2 DEF System, ApiReads, ApiBinds, ApiExits,
                                    ApiDies, WorkerStarts
  <2>3. CASE Operator
    <3>1. CASE EnvRepairs \/ DebugOn
      BY <2>1, <3>1 DEF EnvRepairs, SetPermissions, Calibrate, Miscalibrate,
                        DebugOff, DebugOn
    <3>2. CASE SquatterRepairs
      BY <3>2 DEF SquatterRepairs, StopSquatter, KillSquatter,
                  DisableSquatter
    <3>3. CASE EnableSquatter  BY <3>3 DEF EnableSquatter
    <3>4. CASE ApiRepairs
      BY <2>1, <3>4 DEF ApiRepairs, EnableApi, RestartApi, StopApi, ApiDies
    <3>5. CASE Elsewhere  BY <2>1, <3>5 DEF Elsewhere
    <3>. QED  BY <2>3, <3>1, <3>2, <3>3, <3>4, <3>5, OperatorTouches
  <2>4. CASE Game
    <3>1. ASSUME NEW n \in 1..19, Verify(n)  PROVE SquatterGone'
      <4>1. n = 5 /\ Passes(n) => CheckSquatter
        BY DEF Passes, Chores
      <4>. QED  BY <3>1, <4>1 DEF Verify, CheckSquatter
    <3>2. CASE BeginInspection \/ Recheck
      BY <2>1, <3>2 DEF BeginInspection, Recheck
    <3>. QED  BY <2>4, <3>1, <3>2 DEF Game
  <2>5. CASE UNCHANGED vars  BY <2>1, <2>5 DEF vars
  <2>. QED  BY <2>2, <2>3, <2>4, <2>5 DEF Next
<1>3. SquatterGone => SquatterStaysGone
  BY DEF SquatterGone, SquatterStaysGone
<1>. QED  BY <1>1, <1>2, <1>3, TypeCorrect, PTL DEF Spec

(***************************************************************************)
(* Lanterns 11, 14 and 20                                                  *)
(***************************************************************************)

\* Whoever serves has served; and an inspection begins with the rest lit.
Served ==
  /\ api.on = "up" => api.release \in ran
  /\ 11 \in lit => "v2" \in ran
  /\ 14 \in lit => "v21" \in ran
  /\ at # 0 \/ 20 \in lit => {11, 14} \subseteq lit

\* Nobody but ops lights a lantern, and no release is ever forgotten.
LEMMA GameAlone ==
  ASSUME TypeOK, System \/ Operator \/ UNCHANGED vars
  PROVE  /\ lit' = lit /\ (at' = at \/ at' = 0)
         /\ ran \subseteq ran'
  <1>. USE DEF game
  <1>1. CASE System
    BY <1>1 DEF System, ApiReads, ApiBinds, ApiExits, WorkerStarts,
                SquatterStarts, Reboot
  <1>2. CASE Operator
    BY <1>2, OperatorTouches
       DEF Repairs, Slips, EnvRepairs, SetPermissions, Calibrate,
           Miscalibrate, DebugOff, DebugOn, SquatterRepairs, StopSquatter,
           KillSquatter, DisableSquatter, EnableSquatter, ApiRepairs,
           EnableApi, RestartApi, StopApi, Elsewhere
  <1>3. CASE UNCHANGED vars  BY <1>3 DEF vars
  <1>. QED  BY <1>1, <1>2, <1>3

(***************************************************************************)
(* Dawn never breaks on a machine that served neither the regression nor   *)
(* the fix (DawnHasSeenBoth).                                              *)
(***************************************************************************)
THEOREM DawnAfterBothReleases == Spec => []DawnHasSeenBoth
<1>1. Init => Served
  BY DEF Init, Served
<1>2. TypeOK /\ Served /\ [Next]_vars => Served'
  <2>. SUFFICES ASSUME TypeOK, Served, [Next]_vars  PROVE Served'
    OBVIOUS
  <2>1. CASE System \/ Operator \/ UNCHANGED vars
    <3>1. api'.on = "up" => api'.release \in ran'
      BY <2>1, ApiSteps, GameAlone
         DEF Served, ApiSame, ApiHasRead, ApiListens, ApiGone
    <3>. QED  BY <2>1, <3>1, GameAlone DEF Served
  <2>2. CASE Game
    <3>1. UNCHANGED <<api, ran>>
      BY <2>2 DEF Game, Verify, BeginInspection, Recheck, services
    <3>2. ASSUME NEW n \in 1..19, Verify(n)  PROVE Served'
      <4>1. /\ n = 11 /\ Passes(n) => Serving("v2")
            /\ n = 14 /\ Passes(n) => Serving("v21")
        BY DEF Passes, Chores, CheckV2, CheckV21
      <4>2. lit' = lit \cup {n} /\ at' = at /\ Passes(n)
        BY <3>2 DEF Verify, Lit
      <4>. QED  BY <3>1, <4>1, <4>2 DEF Served, Serving
    <3>3. CASE BeginInspection
      BY <3>1, <3>3 DEF BeginInspection, Served
    <3>4. CASE Recheck
      <4>1. at # 0 /\ lit' \in {lit, lit \cup {20}}
        BY <3>4 DEF Recheck, Lit
      <4>. QED  BY <3>1, <4>1 DEF Served
    <3>. QED  BY <2>2, <3>2, <3>3, <3>4 DEF Game
  <2>. QED  BY <2>1, <2>2 DEF Next
<1>3. Served => DawnHasSeenBoth
  BY DEF Served, DawnHasSeenBoth
<1>. QED  BY <1>1, <1>2, <1>3, TypeCorrect, PTL DEF Spec

(***************************************************************************)
(* What systemd owes a unit                                                *)
(***************************************************************************)

\* FairSpec asks fairness of the starts.  An enabling condition cannot be
\* reasoned about here, so the theorems below take what it says as a
\* hypothesis, with the guards of the starts written out: each start changes
\* the state of its unit, so it is enabled exactly under its guard.
ApiCanRead == api.on = "wait" /\ ApiMayRead

ApiCanBind == api.on = "read" /\ PortFree

WorkerCanStart ==
  worker.on = "wait" /\ link \in dirs /\ Readable /\ worker.owned

ApiStartsFairly ==
  /\ []<>~ApiCanRead \/ []<><<ApiReads>>_vars
  /\ <>[]~ApiCanBind \/ []<><<ApiBinds>>_vars

WorkerStartsFairly == []<>~WorkerCanStart \/ []<><<WorkerStarts>>_vars

\* A unit that was started and not stopped runs or is about to: nothing puts
\* it to rest but StopApi, and a boot that does not want it.
WantedOn == wanted => api.on \in {"wait", "read", "up"}

LEMMA WantedOnStep ==
  ASSUME TypeOK, WantedOn, [Next]_vars
  PROVE  WantedOn'
  <1>. USE DEF TypeOK, WantedOn, ApiUnits
  <1>1. CASE UNCHANGED <<api, wanted>>  BY <1>1
  <1>2. CASE System
    <2>1. CASE ApiReads  BY <2>1 DEF ApiReads
    <2>4. CASE ApiBinds  BY <2>4 DEF ApiBinds
    <2>2. CASE ApiExits  BY <2>2 DEF ApiExits, ApiDies, Down
    <2>3. CASE Reboot  BY <2>3 DEF Reboot, ApiDies, Down, BootState
    <2>. QED
      BY <1>1, <1>2, <2>1, <2>2, <2>3, <2>4 DEF System, WorkerStarts,
                                                SquatterStarts
  <1>3. CASE Operator
    <2>1. CASE EnableApi  BY <2>1 DEF EnableApi
    <2>2. CASE RestartApi  BY <2>2 DEF RestartApi, ApiDies, Down
    <2>3. CASE StopApi  BY <2>3 DEF StopApi
    <2>4. CASE ~ApiRepairs
      <3>1. UNCHANGED api
        BY <1>3, <2>4, OperatorTouches
           DEF EnvRepairs, SetPermissions, Calibrate, Miscalibrate, DebugOff,
               DebugOn, SquatterRepairs, StopSquatter, KillSquatter,
               DisableSquatter, EnableSquatter, Elsewhere, services
      <3>2. UNCHANGED wanted
        BY <1>3, <2>4
           DEF Operator, ApiRepairs, PointCurrent, RemoveRelease, Unpack,
               SetPermissions, Calibrate, Miscalibrate, DebugOff, DebugOn,
               StopSquatter, KillSquatter, DisableSquatter, EnableSquatter,
               OwnQueue, EnableWorker, EditNginx, SpoilNginx, ReloadNginx,
               Migrate, InsertTide, RestoreBackup, DoChore, SpoilChore
      <3>. QED  BY <1>1, <3>1, <3>2
    <2>. QED  BY <2>1, <2>2, <2>3, <2>4 DEF ApiRepairs
  <1>4. CASE Game
    BY <1>1, <1>4 DEF Game, Verify, BeginInspection, Recheck, services
  <1>5. CASE UNCHANGED vars  BY <1>1, <1>5 DEF vars, services
  <1>. QED  BY <1>2, <1>3, <1>4, <1>5 DEF Next

(***************************************************************************)
(* However long the API's unit has been failing, it serves once it can     *)
(* (ApiComesUp).                                                           *)
(***************************************************************************)
THEOREM ApiServesOnceItCan == Spec /\ ApiStartsFairly => ApiComesUp
<1>. DEFINE Due == wanted /\ ApiMayServe
            Done == api.on = "up" \/ ~wanted \/ ~ApiMayServe
<1>1. Init => WantedOn
  BY DEF Init, WantedOn
<1>2. TypeOK /\ WantedOn /\ [Next]_vars => WantedOn'
  BY WantedOnStep
<1>3. WantedOn /\ ~Done => ApiCanRead \/ ApiCanBind
  BY DEF WantedOn, ApiCanRead, ApiCanBind, ApiMayServe
<1>4. TypeOK /\ <<ApiReads>>_vars => ~ApiCanRead'
  BY DEF TypeOK, ApiUnits, ApiReads, ApiCanRead
<1>5. TypeOK /\ <<ApiBinds>>_vars => Done'
  BY DEF TypeOK, ApiUnits, ApiBinds
<1>. QED
  BY <1>1, <1>2, <1>3, <1>4, <1>5, TypeCorrect, PTL
     DEF Spec, ApiStartsFairly, ApiComesUp, Due, Done

(***************************************************************************)
(* The machine after dawn                                                  *)
(***************************************************************************)

\* What a recheck that has passed leaves behind for this boot and the next,
\* as long as nobody touches the machine: the rechecks before the one the
\* inspection is at, and all of them once dawn has broken.
Behind(k) == clean /\ (at > k \/ 20 \in lit)

ApiKept == api.enabled /\ api.on \in {"wait", "read", "up"}
ColourKept == env.colour /\ (api.on \in {"read", "up"} => api.colour)
WorkerKept == worker.enabled /\ worker.on \in {"wait", "up"}
ProxyKept(location) == location \in nginx.file => location \in nginx.loaded

Inspected ==
  /\ Behind(1) => ApiKept
  /\ Behind(2) => ColourKept
  /\ Behind(3) => WorkerKept
  /\ Behind(4) => ProxyKept(9)
  /\ Behind(5) => ProxyKept(10)

\* Whatever systemd does, a restart of the container included, keeps what the
\* inspection has seen.
LEMMA SystemKeeps ==
  ASSUME TypeOK, System \/ UNCHANGED vars
  PROVE  /\ ApiKept => ApiKept'
         /\ ColourKept => ColourKept'
         /\ WorkerKept => WorkerKept'
         /\ \A location : ProxyKept(location) => ProxyKept(location)'
         /\ UNCHANGED <<clean, lit, env>>
         /\ at' = at \/ at' = 0
  <1>. USE DEF TypeOK, ApiKept, ColourKept, WorkerKept, ProxyKept, game
  <1>1. CASE ApiReads  BY <1>1 DEF ApiReads, ApiUnits
  <1>7. CASE ApiBinds  BY <1>7 DEF ApiBinds, ApiUnits
  <1>2. CASE ApiExits  BY <1>2 DEF ApiExits, ApiDies, Down, ApiUnits
  <1>3. CASE WorkerStarts  BY <1>3 DEF WorkerStarts, WorkerUnits
  <1>4. CASE SquatterStarts  BY <1>4 DEF SquatterStarts
  <1>5. CASE Reboot
    <2>1. ApiKept => ApiKept'
      BY <1>5 DEF Reboot, ApiDies, Down, BootState, ApiUnits
    <2>2. ColourKept => ColourKept'
      BY <1>5 DEF Reboot, ApiDies, Down, BootState, ApiUnits
    <2>3. WorkerKept => WorkerKept'
      BY <1>5 DEF Reboot, BootState, WorkerUnits
    <2>4. \A location : ProxyKept(location)'
      BY <1>5 DEF Reboot, Proxies
    <2>. QED  BY <1>5, <2>1, <2>2, <2>3, <2>4 DEF Reboot
  <1>6. CASE UNCHANGED vars  BY <1>6 DEF vars, services
  <1>. QED  BY <1>1, <1>2, <1>3, <1>4, <1>5, <1>6, <1>7 DEF System

\* Whatever the operator does is seen.
LEMMA OperatorTouched ==
  ASSUME Operator
  PROVE  ~clean'
  BY DEF Operator, Repairs, Slips, PointCurrent, RemoveRelease, Unpack,
         SetPermissions, Calibrate, Miscalibrate, DebugOff, DebugOn,
         StopSquatter, KillSquatter, DisableSquatter, EnableSquatter,
         EnableApi, RestartApi, StopApi, OwnQueue, EnableWorker, EditNginx,
         SpoilNginx, ReloadNginx, Migrate, InsertTide, RestoreBackup,
         DoChore, SpoilChore

\* What the rechecks ask for is what is kept.
LEMMA PassedIsKept ==
  ASSUME TypeOK
  PROVE  /\ Passes(6) => ApiKept
         /\ Passes(7) => ColourKept
         /\ Passes(8) => WorkerKept
         /\ Passes(9) => ProxyKept(9)
         /\ Passes(10) => ProxyKept(10)
  BY DEF Passes, Chores, ApiKept, ColourKept, WorkerKept, ProxyKept, CheckApi,
         CheckHealth, CheckWorker, CheckPublic, CheckDashboard, Healthy

\* The inspection moves on only past a check that passes, and lights lantern
\* 20 only at its end.
LEMMA RecheckMoves ==
  ASSUME TypeOK, Recheck
  PROVE  /\ \/ at' = at + 1 /\ lit' = lit /\ Passes(Rechecks[at])
            \/ at' = 0 /\ lit' = lit
            \/ /\ at' = 0 /\ at = 11 /\ lit' = lit \cup {20}
               /\ Passes(Rechecks[at])
         /\ at \in 1..11
         /\ UNCHANGED <<clean, env, services>>
  <1>1. Len(Rechecks) = 11
    BY DEF Rechecks
  <1>2. at \in 1..11
    BY <1>1 DEF TypeOK, Recheck
  <1>3. UNCHANGED <<clean, env, services>>
    BY DEF Recheck
  <1>. QED  BY <1>1, <1>2, <1>3 DEF Recheck, Lit

LEMMA InspectedStep ==
  ASSUME TypeOK, Inspected, [Next]_vars
  PROVE  Inspected'
  <1>0. at \in 0..11 /\ at' \in 0..11
    <2>1. TypeOK'
      BY FilesType, UnitsType, RestType, GameType, SystemType
         DEF Next, Operator, vars, TypeOK, release, services, data, game, past
    <2>2. Len(Rechecks) = 11
      BY DEF Rechecks
    <2>. QED  BY <2>1, <2>2 DEF TypeOK
  <1>1. CASE System \/ UNCHANGED vars
    BY <1>0, <1>1, SystemKeeps DEF Inspected, Behind
  <1>2. CASE Operator
    BY <1>2, OperatorTouched DEF Inspected, Behind
  <1>3. CASE Game
    <2>1. UNCHANGED <<env, services>>
      BY <1>3 DEF Game, Verify, BeginInspection, Recheck
    <2>2. /\ ApiKept' = ApiKept /\ ColourKept' = ColourKept
          /\ WorkerKept' = WorkerKept
          /\ ProxyKept(9)' = ProxyKept(9) /\ ProxyKept(10)' = ProxyKept(10)
      BY <2>1 DEF services, ApiKept, ColourKept, WorkerKept, ProxyKept
    <2>3. ASSUME NEW n \in 1..19, Verify(n)
          PROVE  \A k \in 1..5 : Behind(k)' => Behind(k)
      BY <2>3 DEF Verify, Lit, Behind
    <2>4. CASE BeginInspection
      BY <2>4 DEF BeginInspection, Inspected, Behind
    <2>5. CASE Recheck
      <3>1. ASSUME NEW k \in 1..5, Behind(k)'
            PROVE  Behind(k) \/ (at = k /\ Passes(Rechecks[at]))
        <4>1. clean /\ clean' = clean
          BY <2>5, <3>1, RecheckMoves DEF Behind
        <4>2. (at' > k \/ 20 \in lit')
                => at > k \/ 20 \in lit \/ (at = k /\ Passes(Rechecks[at]))
          BY <1>0, <2>5, RecheckMoves
        <4>. QED  BY <3>1, <4>1, <4>2 DEF Behind
      <3>2. /\ Rechecks[1] = 6 /\ Rechecks[2] = 7 /\ Rechecks[3] = 8
            /\ Rechecks[4] = 9 /\ Rechecks[5] = 10
        BY DEF Rechecks
      <3>. QED  BY <2>2, <3>1, <3>2, PassedIsKept DEF Inspected
    <2>. QED
      BY <1>3, <2>2, <2>3, <2>4, <2>5 DEF Game, Inspected
  <1>. QED  BY <1>1, <1>2, <1>3 DEF Next

\* From the second recheck on an untouched API listens; and what the last
\* recheck asked of it and of the file stays true.
StillUp == clean /\ at > 2 => api.on = "up"

DebugKept == ~env.debug /\ (api.on \in {"read", "up"} => ~api.debug)

Silent == StillUp /\ (Handed => DebugKept)

LEMMA SilentStep ==
  ASSUME TypeOK, Silent, [Next]_vars
  PROVE  Silent'
  <1>. USE DEF TypeOK, Silent, StillUp, DebugKept, Handed
  <1>1. CASE System \/ UNCHANGED vars
    <2>1. /\ UNCHANGED <<clean, lit, env>>
          /\ at' = at \/ at' = 0
      BY <1>1, SystemKeeps
    <2>2. api.on = "up" => api'.on = "up" \/ at' = 0
      BY <1>1 DEF System, ApiReads, ApiBinds, ApiExits, ApiFails,
                  WorkerStarts, SquatterStarts, Reboot, vars, services
    <2>3. DebugKept => DebugKept'
      <3>1. CASE ApiReads  BY <3>1 DEF ApiReads, ApiUnits
      <3>2. CASE ApiBinds  BY <3>2 DEF ApiBinds, ApiUnits
      <3>3. CASE ApiExits  BY <3>3, DownIs DEF ApiExits, ApiGone
      <3>4. CASE Reboot  BY <3>4, BootType, DownIs DEF Reboot, ApiGone
      <3>5. CASE UNCHANGED <<api, env>>  BY <3>5
      <3>. QED
        BY <1>1, <3>1, <3>2, <3>3, <3>4, <3>5
           DEF System, WorkerStarts, SquatterStarts, vars, services
    <2>. QED  BY <2>1, <2>2, <2>3
  <1>2. CASE Operator  BY <1>2, OperatorTouched
  <1>3. CASE Game
    <2>1. UNCHANGED <<env, api>>
      BY <1>3 DEF Game, Verify, BeginInspection, Recheck, services
    <2>2. ASSUME NEW n \in 1..19, Verify(n)  PROVE Silent'
      <3>1. at' = at /\ clean' = clean /\ lit' = lit \cup {n}
        BY <2>2 DEF Verify, Lit
      <3>. QED  BY <2>1, <3>1
    <2>3. CASE BeginInspection
      BY <2>1, <2>3 DEF BeginInspection
    <2>4. CASE Recheck
      <3>1. /\ Rechecks[1] = 6 /\ Rechecks[2] = 7 /\ Rechecks[11] = 19
        BY DEF Rechecks
      <3>2. /\ Passes(7) => api.on = "up"
            /\ Passes(19) => ~env.debug /\ ~(api.on = "up" /\ api.debug)
        BY DEF Passes, Chores, CheckHealth, Healthy, CheckDebug, ServesDebug
      <3>5. clean' = clean /\ at \in 1..11
        BY <2>4, RecheckMoves
      <3>6. at' > 2 => at > 2 \/ (at = 2 /\ Passes(7))
        BY <2>4, <3>1, <3>5, RecheckMoves
      <3>7. 20 \in lit' => 20 \in lit \/ (at = 11 /\ Passes(19))
        BY <2>4, <3>1, RecheckMoves
      <3>3. StillUp'
        BY <2>1, <3>2, <3>5, <3>6
      <3>4. Handed' => DebugKept'
        BY <2>1, <3>2, <3>5, <3>7
      <3>. QED  BY <3>3, <3>4
    <2>. QED  BY <1>3, <2>2, <2>3, <2>4 DEF Game
  <1>. QED  BY <1>1, <1>2, <1>3 DEF Next

(***************************************************************************)
(* A machine handed over at dawn does not serve /debug and will not: the   *)
(* order of the rechecks leaves no process the last one cannot ask         *)
(* (DawnWithoutDebug).                                                     *)
(***************************************************************************)
THEOREM NoDebugAtDawn == Spec => []DawnWithoutDebug
<1>1. Init => Silent
  BY DEF Init, Silent, StillUp, Handed
<1>2. TypeOK /\ Silent /\ [Next]_vars => Silent'
  BY SilentStep
<1>3. Silent => DawnWithoutDebug
  BY DEF Silent, DebugKept, DawnWithoutDebug, ServesDebug
<1>. QED  BY <1>1, <1>2, <1>3, TypeCorrect, PTL DEF Spec

\* What a machine that was handed over has, in order where the inspection
\* does not look: all it needs, running or about to run.
Promised ==
  Handed /\ UncheckedInOrder =>
    /\ ApiMayServe
    /\ api.on = "wait" \/ (api.on = "read" /\ api.colour) \/ Healthy
    /\ worker.on \in {"wait", "up"}
    /\ {9, 10} \subseteq nginx.loaded

(***************************************************************************)
(* Dawn is a promise about the next boot: a machine handed over and left   *)
(* alone serves, or has all it needs to start, however often the           *)
(* container restarts (check_runbook's rechecks).                          *)
(***************************************************************************)
THEOREM DawnKeepsItsPromise == Spec => []Promised
<1>1. Init => Inspected
  BY DEF Init, Inspected, Behind
<1>2. TypeOK /\ Inspected /\ [Next]_vars => Inspected'
  BY InspectedStep
<1>3. TypeOK /\ Inspected => Promised
  BY DEF TypeOK, ApiUnits, Inspected, Behind, ApiKept, ColourKept, WorkerKept,
         ProxyKept, Promised, Handed, UncheckedInOrder, ApiMayServe,
         ApiMayRead, PortFree, Healthy
<1>. QED  BY <1>1, <1>2, <1>3, TypeCorrect, PTL DEF Spec

\* Nothing but the operator takes it back.
LEMMA HandedStep ==
  ASSUME TypeOK, Handed, UncheckedInOrder, [Next]_vars
  PROVE  \/ ~Handed'
         \/ /\ UncheckedInOrder'
            /\ ~Reboot /\ api.on = "up" => api'.on = "up"
            /\ ~Reboot /\ worker.on = "up" => worker'.on = "up"
  <1>. USE DEF TypeOK, Handed, UncheckedInOrder, Readable
  <1>1. CASE Operator  BY <1>1, OperatorTouched
  <1>2. CASE System
    <2>1. CASE ApiReads  BY <2>1 DEF ApiReads, ApiUnits, release
    <2>6. CASE ApiBinds  BY <2>6 DEF ApiBinds, ApiUnits, release
    <2>2. CASE ApiExits  BY <2>2 DEF ApiExits, ApiFails, release
    <2>3. CASE WorkerStarts
      BY <2>3 DEF WorkerStarts, WorkerUnits, release
    <2>4. CASE SquatterStarts  BY <2>4 DEF SquatterStarts
    <2>5. CASE Reboot
      BY <2>5 DEF Reboot, BootState, release, SquatterUnits, Proxies,
                  WorkerUnits
    <2>. QED  BY <1>2, <2>1, <2>2, <2>3, <2>4, <2>5, <2>6 DEF System
  <1>3. CASE Game
    <2>1. UNCHANGED <<release, env, services>>
      BY <1>3 DEF Game, Verify, BeginInspection, Recheck
    <2>. QED  BY <2>1 DEF release, services
  <1>4. CASE UNCHANGED vars  BY <1>4 DEF vars, release, services
  <1>. QED  BY <1>1, <1>2, <1>3, <1>4 DEF Next

(***************************************************************************)
(* A machine handed over at dawn comes back green by itself                *)
(* (HandoverSurvivesReboot), once the container has restarted for the last *)
(* time.  That there is a last restart is MaxReboots, which takes an       *)
(* induction over the restarts.                                            *)
(***************************************************************************)
THEOREM GreenAfterLastReboot ==
  /\ Spec /\ ApiStartsFairly /\ WorkerStartsFairly
  /\ <>[][~Reboot]_vars
  => HandoverSurvivesReboot
<1>. DEFINE Kept == Handed /\ UncheckedInOrder
            ApiUp == api.on = "up"
            WorkerUp == worker.on = "up"
<1>1. TypeOK /\ Kept /\ [Next]_vars => Kept' \/ ~Handed'
  BY HandedStep
<1>2. TypeOK /\ Kept /\ ApiUp /\ [Next]_vars /\ [~Reboot]_vars
        => (Kept /\ ApiUp)' \/ ~Handed'
  <2>1. CASE UNCHANGED vars
    BY <2>1, HandedStep DEF vars, services
  <2>. QED  BY <2>1, HandedStep
<1>3. TypeOK /\ Kept /\ WorkerUp /\ [Next]_vars /\ [~Reboot]_vars
        => (Kept /\ WorkerUp)' \/ ~Handed'
  <2>1. CASE UNCHANGED vars
    BY <2>1, HandedStep DEF vars, services
  <2>. QED  BY <2>1, HandedStep
<1>4. Promised /\ Kept /\ ~ApiUp => ApiCanRead \/ ApiCanBind
  BY DEF Promised, ApiMayServe, ApiCanRead, ApiCanBind, Healthy
<1>5. Promised /\ Kept /\ ~WorkerUp => WorkerCanStart
  BY DEF Promised, WorkerCanStart, UncheckedInOrder
<1>6. TypeOK /\ <<ApiReads>>_vars => ~ApiCanRead'
  BY DEF TypeOK, ApiUnits, ApiReads, ApiCanRead
<1>9. TypeOK /\ <<ApiBinds>>_vars => ApiUp'
  BY DEF TypeOK, ApiUnits, ApiBinds
<1>7. TypeOK /\ <<WorkerStarts>>_vars => WorkerUp'
  BY DEF TypeOK, WorkerUnits, WorkerStarts
<1>8. Promised /\ Kept /\ ApiUp /\ WorkerUp => Green
  BY DEF Promised, Green
<1>. QED
  BY <1>1, <1>2, <1>3, <1>4, <1>5, <1>6, <1>7, <1>8, <1>9, TypeCorrect,
     DawnKeepsItsPromise, PTL
     DEF Spec, ApiStartsFairly, WorkerStartsFairly, HandoverSurvivesReboot
=============================================================================
