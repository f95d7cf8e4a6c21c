# A specification of Ops Coach

Ops Coach gives a learner a Linux or AWS lab: a web task creates a *session*,
launches an EC2 host for it, waits until SSH to it works, shows a terminal,
grades on demand and takes the host down again. This directory holds TLA+
models of the parts where order, failure and overlap decide what happens, the
TLC runs that check them, and proofs that TLAPS checks: of every safety
property a run checks, and of what happens in the end where that needs no count.

Source paths below are relative to the root of the repository.

| module | what it is |
| --- | --- |
| `LabHost` | abstract specification: what the teardown design promises of one host |
| `SessionLifecycle` | a session's row, the web task's requests, the EC2 host, the schedule, the terminator Lambda |
| `SessionPage` | the learner's page between its polls, the event stream and its own requests; the bus and the SSE route that feed it |
| `HostBoot` | one lab host: the boot script under `set -e`, the container, the idle watcher |
| `ShellBridge` | `HostBoot` and the browser terminals over it: socket, bridge, SSH connection |
| `Janitor` | the nightly cleanup of the AWS lab account |
| `AwsLabs` | `Janitor` and the AWS sessions of one learner: the cap, the preparation, the launch |
| `BeaconMachine` | the machine of the Beaconkeeper lab, its services, the operator's repairs and the twenty checks |
| `GameProgress` | the Beaconkeeper progress file and the `ops` commands that share it |
| `MC_*` | the instances of these for TLC, with the `.cfg` files of section 9 |
| `*_proofs` | the theorems of a module, for `SessionLifecycle` with the proof that it implements the safety part of `LabHost` |
| `InductionLemmas` | induction and sums over a function, for the proofs of `GameProgress` and `SessionPage` |

`PROJECT.json` lists the runs, the definition-to-source map, the hazards and
which property watches each of them.

## 1. The system

| component | state it keeps | operations | interacts by | what makes it correct |
| --- | --- | --- | --- | --- |
| Session lifecycle (`web/lib/sessions.ts`, `db.ts`, `ec2-labs.ts`, `session-scheduler.ts`, the routes under `web/app/api/sessions`) | the `sessions` row, the in-memory set `sshFinalizeInFlight`, the workspace directory with keys and `bootstrap.received` | create, ready callback, probe, poll, stop, shutdown, grade | HTTP in, SQL, EC2 and EventBridge Scheduler calls out, events to the page | a stop is final but for requests it overlapped; one probe at a time; ready means an SSH login worked; the row keeps the instance id |
| Terminator Lambda (`infra/lib/session-terminator`) | none; reads EC2 tags | one-shot termination, five-minute sweep | terminates hosts, then posts to the shutdown route | every host is taken down, none early; only a host that is gone is reported |
| Lab host (`web/lib/lab-user-data.ts`) | the script's position, port 22, the container, the watcher's clock | boot, readiness callback, idle watcher | one post each to the web task | the callback comes after the keys; an idle host asks for its end, a used one does not |
| Terminal bridge (`web/server.js`, `WebTerminal.tsx`) | a WebSocket and an SSH connection per terminal | upgrade, dial, pipe, clean up | shell-auth route, SSH | neither end outlives the other; a dead terminal says so |
| Session events (`web/lib/events.ts`, events route) | one emitter per watched session | publish, subscribe, release | callbacks inside the web task, SSE to the page | a listening stream hears every event |
| Session page (`web/app/session/[id]/page.tsx`) | status and steps in the browser | apply poll, event and grade answers | fetch, SSE | it shows nothing that was never so, and ends up at the row's state |
| Provisioning steps (`provisioning-steps.ts`, `bootstrap-progress.ts`) | a log file of 40 lines | derive the step list | read by page and stream | at most one active step, done only from evidence |
| Session cap (`web/app/api/sessions/route.ts`) | counts rows of the learner | check before create | shares the table with all sessions | never more than three active, and every slot comes back |
| AWS labs (`aws-lab-manager.ts`) | session directories, assumed credentials | prepare, step by step | STS, CloudFormation, files | a host only over a complete preparation |
| Janitor (`infra/lib/janitor`) | none; reads tags | nightly or manual run over seven kinds of resource | S3, EC2, CloudTrail, CloudWatch, SNS, IAM | what expired goes, what lives stays |
| Beaconkeeper machine (`ContentPacks/beaconkeeper/runtime/game`) | files, units and running processes of the lab container | the operator's repairs; systemd; the checks of `ops verify` | processes read files at their start | a lit lantern means what it says, for running processes and coming ones |
| Beaconkeeper progress (`ops.py`, the grader) | `progress.json` on the lab host | `ops verify/hint/status`, grader over SSH | the learner's shell and the grader run commands side by side | nothing lit that was not earned, nothing lost, counters agree |
| Identity, gate, tokens, SSH keys, content packs, CDK, scripts, other UI | configuration or none | stateless checks, rendering | | not modelled, see section 12 |

The hard behaviours:

* **Every `await` is an interleaving point.** One Node process serves all
  requests. `updateSession` is a SELECT and, an await later, an UPDATE of every
  column (`db.ts:255-333`): a patch that touches one column writes all of them
  back as they were.
* **Guards are read before an await and used after it**: shutdown, grade,
  probe, the cap and the terminal's authorization all decide on state they read
  earlier.
* **Everything may be replaced or lost**: the Fargate task with its memory and
  `/tmp`, the host's one readiness post, the watcher's one shutdown post, the
  Lambda's one callback, the page's connections.
* **Handlers come late or twice**: the bridge listens to its socket only once
  the shell is open; a stream that is gone is released by `cancel` and by
  `abort`.
* **Processes keep what they read**: a running API serves the configuration and
  release of its start, whatever the files say now; the janitor acts on tags it
  read earlier in its run.
* **Two commands share one temporary file** on the lab host.

The modules meet where the code does: `HostBoot`'s two posts are the requests
`HostReady` and `WatcherPosts` of `SessionLifecycle`; the writes and events of
`SessionPage`'s task are those of `SessionLifecycle`, one request at a time;
`BeaconMachine` says what the checks read that `GameProgress` lets pass or fail
freely. `ShellBridge` and `AwsLabs` extend `HostBoot` and `Janitor`.

## 2. SessionLifecycle

Sessions share nothing but the cap, so the module models one session.

| variable | code |
| --- | --- |
| `row` | status, and whether `instance_id` and `ssh_host` are non-null |
| `proc[p]` | a suspended request: `at` the await it is suspended at, `old` the row it was admitted with, `snap` the row the `updateSession` it is inside has read, `upd` the patch that update carries |
| `inFlight` | membership in `sshFinalizeInFlight` (`sessions.ts:71`) |
| `files`, `marker` | the workspace has its keys; `bootstrap.received` exists |
| `tokenGiven` | the POST has answered, so the learner can act |
| `ec2`, `expired`, `sched` | the instance, its `ExpiresAt` tag against the clock, the one-shot schedule |
| `called`, `posted` | the host has made its one readiness / one shutdown post |
| `lambda[k]` | the terminator's run for trigger `k`: idle, about to terminate, about to notify |
| `asked`, `probed` | history only: a shutdown was admitted; an SSH login succeeded |

A patch is named by the call of `updateSession` it stands for (`Patched` gives
the columns it sets); any such call is `UpdateRead` then `UpdateWrite`, and
`AfterWrite` is the synchronous code after it. Between two awaits nothing else
runs, so each action is the code from one await to the next:

| function | actions |
| --- | --- |
| `createSession`, `provisionLabInstance` | `CreateSession`, `Prepared`/`PrepareFails`, `Launch`/`LaunchFails`, `IpsAwaited`, `ScheduleTermination`, update, `CreateReturns` |
| ready route, `markReady` | `HostReady`/`HostReadyLost`, `MarkReady`, update, `CallbackDone` |
| `finalizeReadyAfterProbe` | `StartProbe`, `ProbeRead`, `ProbeSucceeds`/`ProbeFails`, update, `ProbeReleased` |
| `getSessionState`, `maybeRefreshSessionIps` | `Poll`, `RefreshFindsIp`/`RefreshFindsNoIp`, update, `Refreshed` |
| `stopSession`, the watcher's and the Lambda's posts, `shutdownSessionInternal` | `LearnerStops`, `WatcherPosts`, `LambdaNotifies`, then `BeginShutdown`, update, `CancelSchedule`, `TerminateHost`/`TerminateFails`, update |
| `runGraderForSession` | `Grade`, update, `GraderEnds`, update |
| a query that rejects, and the catch or finally it lands in | `DbFails`, `ProbeReadFails` |
| replacement of the task | `Crash` |
| terminator | `Expire`, `ScheduleFires`, `Sweep`, `LambdaTerminates`, `LambdaTerminateFails`, `LambdaNotifies`, `LambdaNotifyLost` |

Abstractions, each an over-approximation unless it says otherwise:

* Error messages, addresses, timestamps and the grader's verdict decide no
  transition; a patch that sets only `errorMessage` still writes the whole row.
* The mode with a database is modelled. Without `DATABASE_URL` the row is a map
  in memory with no await between read and write. The mock EC2 mode is left out.
* No clock: the IP wait, the idle grace and the lifetime may end in any order.
* `LaunchFails` may have launched the host: the answer can be lost.
* The read in `markReady` is folded into the route's read just before it, so a
  status change between the two is not seen (`markReady` looks only at whether
  the row exists and at its instance id).
* A query that commits and whose answer is lost is not modelled: for the caller
  it is the failure, for the row the success, of the same update.
* One web task at a time (`desiredCount: 1`); the overlap of two tasks during a
  rolling deployment is not modelled.
* `reportBootstrapProgress` and `insertCheckRun` write a log file and another
  table, which no transition reads.

### Properties

`ProbeExclusive`, `AdmittedBeforeStop`, `ReadyWasProbed`, `StopUndoneOnlyByOverlap`
and `IdKeptOnceSettled` say how far the full-row writes can go. A stopped
session *can* come back to life, and a recorded instance id *can* be lost: the
properties say exactly by which requests, namely those admitted before.

`TeardownSafety` and `TeardownPromise` are the refinement: with `host <- ec2`
and `due <- asked \/ expired`, the system implements `LabHost`. The promise
uses nothing of the web task: whatever the row says, and through crashes, lost
posts and failed calls, the sweep takes the host down.

`ReportedHostLeavesProvisioning` is the one liveness property of the happy
path: `createSession` can write `provisioning` over the `ready` of a fast host,
and a probe is refused while one is in flight, so it needs the polls.

## 3. SessionPage

| variable | code |
| --- | --- |
| `row`, `log` | the row as `toSessionState` shows it; the boot steps `bootstrap.progress.jsonl` tells of |
| `srv` | what the task is doing to the row; `"marking"` once a probe came through and the write of `ready` is still to come |
| `verified`, `wasReady` | history only: a login came through; the row has been ready |
| `expired` | the learner's token is past its 24 hours (`session-access.ts:15`) |
| `bus`, `stream[s].bus` | the emitter in the map of `events.ts`, by number, and the one stream `s` subscribed to |
| `stream[s]` | an SSE request: its snapshot between reading and subscribing, and which of `abort` and `cancel` the runtime has still to call |
| `queue[s]`, `req[k]` | events and answers on their way |
| `es`, `loaded`, `view`, `steps` | the page's EventSource, initial request, session state and `stepOverrides` |
| `told` | the error shown says that the session is over |

`Derive` is `deriveProvisioningSteps` with its waterfall and the mark of a
failed session; `OnMessage` is `onmessage` branch by branch, and `Shown` is
`setSession` with the effect that infers steps from what changed. Events that
are published without an await in between arrive as one burst.

Where the code publishes before it writes, the write may be rejected with the
events already out: `HostReady` and `ProbeFails` have that alternative
(`Rejected`), and `finalizeReadyAfterProbe` ticks `verify_ssh` in a step of its
own (`ProbeSucceeds`, `sessions.ts:137`), after which the row turns ready
(`ReadyWritten`) or does not (`ReadyLost`). Past the token's time the session
route answers 401 and the stream is refused: the initial request looks at the
status and applies nothing, the poll does not look and applies the body.

Abstractions: the page renders, and runs its effects, between two events; an
`updateSession` whose publishes follow it is one step with them, and cannot be
rejected here (the page would hear nothing: what that does to the row is
`SessionLifecycle`'s subject); the task does one thing to the row at a time,
since overlapping writes are `SessionLifecycle`'s subject too; addresses are
public; grades, hints, the chime and the activity log's
lines are left out. What the chime is seeded from (`page.tsx:420-444`) is
therefore not checked.

* `StepsTellTruth`: whatever is merged, at most one step spins and a tick has
  evidence behind it: the row, a later step of the boot that was reported, or,
  for `verify_ssh`, a login. A ticked `verify_ssh` does not mean that the
  session is or was ready, since the tick is out before the write. The list may
  still go back: after a reload, or a poll answer older than an event, a step can
  look less advanced than it did.
* `ReadyNotInvented`: the terminal is never offered for a session that was
  never ready.
* `CutOffOnlyByStaleRelease`: the second release (`abort` after `cancel`, or
  after the task made a new emitter) deletes the map entry of an emitter that
  is not its own, and with it what the streams on that emitter hear. Nothing
  else does. A stream so cut off does the same to the next when it goes.
* `BlankOnlyByRefusal`: the page loses the session it shows only by a reload,
  by the refetch after a "ready" status, which sends no token (`page.tsx:330`),
  or by the answer to a poll once the token is past its time (`page.tsx:234`).
  From then on the page stays blank, and polls, unless a stop is asked for.
* `ReadyLabIsShown`, `StopIsTold`: through all that, and for the first as long
  as the token keeps its time, the polls and the automatic grades bring the page
  to the truth in the end.

## 4. HostBoot and ShellBridge

`boot` is the step the script is at. Every step may fail, and under `set -e`
that ends the script; a `systemctl` followed by `|| true` may fail and leave the
host's own sshd on port 22, where the container's start then fails. `called` and
`asked` are the two posts, each `"lost"` if the curl fails. The watcher samples
(`Watch`): it begins to care at the first connection it sees, restarts its clock
at every sample that sees one, asks once after a whole grace without, and exits
whatever came of it.

`bridge[c]` is the server's end of a socket and its SSH client: `"asked"` while
the upgrade waits for shell-auth, then dialing, up, with a shell. `wired` says
that the handlers for the socket's close are installed (`server.js:114`), which
is only when the shell is open: `SocketGone` before that is heard by nobody, and
the SSH connection stays (`early`). The page says "connected" as soon as the
upgrade went through. The task's own probe and grader logins are client `Task`.

Abstractions: `ss` sees connections to the published port; a grader's
connection stays for its ControlPersist and is one client; `lab-user-data.sh`,
the manual variant, has no watcher and is not modelled; one host.

* `ReadyHostHasKeys` (a theorem, not in a run): no order of failures makes the
  host call the web task before its keys are in a running container.
* `LeakOnlyFromEarlyClose`: the window before the shell is the only leak.
* `GraceRespected`: nobody who is connected loses the host to the watcher. The
  task's own logins count as visits too, so a learner who never connects can
  lose a host that a probe or a grade has visited; `docs/lab-lifecycle-design.md:37`
  speaks of the learner's connection.
* `DeadTerminalTold`, `IdleHostAsks`: a terminal over a terminated host does not
  stay connected; a visited host that is left asks for its end, unless a leaked
  connection keeps it busy.

## 5. Janitor and AwsLabs

`Janitor` is one run through the kinds of resource in the handler's order:
listing, reading tags, deleting, each a step, so that the stack can expire or be
deployed anew in between. A run is *dry*, *sound* (AWS answers every call it
can) or *faulty*. `TagsGranted` is what `JanitorRole` may read
(`platform-stack.ts:182-215`); reading any other tag raises outside a `try` and
ends the run (`Aborts`). `Kept` are resources AWS never lets go.

`AwsLabs` adds the learner's sessions: `Post` counts (`Admits`) and `Insert`
inserts, an await later; then `prepareAwsSession` step by step with a failure at
each, `Launch`, and the `catch`. Of a status only whether it counts is kept, so
a stop, a shutdown callback and a late grade's last write are one step each. All
AWS sessions share one scenario stack. `Crash` is a replaced task.

Abstractions: the contents of the files; deletions of several calls are one
step; overlapping janitor runs; the token lives in the tab (`sessionStorage`).
Nothing copies the AWS workspace to the lab host: whoever holds the candidate
role's credentials is the candidate.

* `CapHolds`: the cap binds the sessions admitted one at a time. Two POSTs that
  overlap both pass it, and a grade that ends after a stop brings a session
  back; `docs/security.md:23` says "capped at three".
* `HostOnlyForPrepared`: no host over a half-made preparation.
* `SlotComesBack`: a slot is freed in the end, except for the named faults. A
  crash between insert and answer leaves a row that counts for ever.
* `LiveGoesOnlyByStaleTags`, `CleanedUnlessBehindAlarm`: what the janitor may
  delete, and what it will.

## 6. BeaconMachine

The machine as `setup_game.py` leaves it, and what its processes read when they
start: the API keeps `release`, `colour` and `debug`, nginx its loaded file. A
unit in state `"wait"` runs as soon as its process gets through its start:
`Restart=` with `StartLimitIntervalSec=0` never gives up. The API starts in two
steps, since `beacon_app.py` reads its files when it is loaded (`ApiReads`,
lines 18-60) and binds its port only in `main` (`ApiBinds`, line 205): an edit
of the configuration and a check can fall between the two, when systemd calls
the unit active and nobody answers on the port. `Repairs` are the
moves the lanterns ask for, in roughly their order, `Slips` undo one; `Reboot`
restarts the container. `Passes(n)` is check `n` of `ops.py`, asking the files,
the running process, or both, as the check does.

A check is one step (its retries are left out), except lantern 20's inspection,
whose eleven rechecks follow one another with anything in between: `clean` says
that nothing was touched meanwhile. Reduced to right or wrong, or to done or
not: unit files, users, nginx configuration, facts, backup timer, logrotate, the
deployer's account, the runbook. `ops` runs as root.

* `DebugStaysGone`: lantern 19 takes no answer for no `/debug` (`ops.py:868`),
  so one process can get past it: the one that had read the old configuration
  and was not listening yet when the check asked (`slipped`). It serves
  `/debug` with the lantern lit; no process after it does.
* `DawnWithoutDebug`: not even that one gets past lantern 20, whose inspection
  asks for an API that serves before it asks for `/debug` again.
* `SquatterStaysGone`, `DawnHasSeenBoth`: what lanterns 5 and 20 mean for the
  processes to come. Lantern 5 by itself passes in the seconds between a kill of the disabled squatter and its restart; `cleared`
  leaves that case out. `verify --force` repeats a check and changes nothing.
* `HandoverSurvivesReboot`: a machine handed over at dawn comes back green,
  provided what the inspection does not look at is in order
  (`UncheckedInOrder`: the permissions of the configuration, the squatter, the
  nginx file, the release's directory, the worker's directories).
* `ApiComesUp`: however long the unit failed, it serves once it can.

Read from the model and worth knowing: check 13 asks the selector and the ships,
not the version that runs; a unit that crash-loops can pass check 6 in its first
instants; a restore of the whole backup loses the migration marker and nothing
else.

## 7. GameProgress

`prog` and `tmp` are the contents of `progress.json` and `progress.tmp`
(absent, empty, JSON of some progress, or *garbled*: one text over the tail of
another). `fd[p]` is where the file that `p` has open for writing is now: a
rename takes an open file along, so a process can write into `progress.json`
itself. `op[p]` is a running command. `write_text` is an open that truncates
(`OpenTmp`) and one write (`WriteTmp`); `replace` is `ReplaceTmp`; each load is
a step of its own. `Overwrite` says what a write at offset 0 makes of a file
somebody else has filled: the new text, or garbage, depending on lengths that
are not modelled. `load_progress` takes whatever does not parse for a fresh
start. `RunCheck` lets a check pass or fail freely: the machine is the
learner's, who may repair or break it at any time. `Interrupted` may end a
command anywhere. The grader is `ops verify all` followed by `ops status`;
`Reported` is `parse_checks`, which keeps the first line per lantern. It does
not look at ssh's exit code: `Cut` is the end of its connection, after which it
reports what has arrived (`Arrived`: the lines of `verify all` up to some
lantern, or all of them and those of `status` up to some lantern), or the web
task's timeout, after which it reports nothing; on the host the command dies
with it or goes on. What has arrived may be less than what was printed, and any
buffering is allowed for.

`NothingUnearned`: no mixture of two saves ever lights a lantern whose check
has not passed. `HintsAgree`: the two hint counters agree in every version.
`LostOnlyToOverlap`: progress is lost only by a command that ran beside
another. `LoneGraderReportsFile`: a grader run that had the machine to itself
calls no lantern lit that is dark in the file and none dark that is lit,
wherever its output is cut off; one that came to its end has told of all. The
report of a run that was cut off is smaller than the file, not wrong: lanterns
it did not hear of are in neither set.
`VerifyAllPreserves` (run `progress_loss`) is what a comment in `cmd_verify`
says, and it is violated by an overlapping save.

## 8. Where the code does less than it or its documentation says

| run | property | what TLC shows |
| --- | --- | --- |
| `lifecycle_limbo` | `NeverInLimbo` | one rejected query after `stopping` was written leaves it there; from then on the guard refuses every shutdown. (With two requests TLC finds the same end without any failed query: an update of the error message alone that read `stopping` writes it back over `stopped`.) |
| `lifecycle_drift` | `RecordConverges` | the sweep's callback is lost, the instance is no longer listed, and the row keeps its status for ever |
| `progress_loss` | `VerifyAllPreserves` | `verify all` saves what it loaded before another command's save |
| `aws_cleanup` | `ExpiredAreCleaned` | one alarm of a learner, which the lab asks for, ends every later run of the janitor at `list_tags_for_resource`; topics and roles stay for ever |

Not a property, but seen while modelling: `docs/lab-lifecycle-design.md:94` says
that concurrent shutdown triggers collapse to one; both run the whole routine,
whose steps are idempotent. A termination error recorded at `sessions.ts:479` is
overwritten by the message of the admission at 487-490, and `events.ts:42` makes
an emitter for a session nobody watches; neither decides a transition, so no
property speaks of them. Nor of the bootstrap log's forty lines, which the model
keeps as the steps reported.

## 9. Runs and bounds

| run | instance | distinct states | why it is enough |
| --- | --- | --- | --- |
| `lifecycle_safety` | 2 requests, every query, AWS and network failure, no Lambda | 3.0 M | all these properties speak of one or two requests and the row; requests of every kind follow one another without bound |
| `lifecycle_teardown` | 1 request, schedule and sweep, 2 task replacements, every failure | 86 k | the promise rests on the sweep alone; one request at a time reaches every row and every schedule state |
| `lifecycle_liveness` | 2 requests, no failure | 34 k | the hazard is one write over another's |
| `lifecycle_limbo`, `lifecycle_drift` | smallest instance with the behaviour | | counterexamples |
| `page` | 2 stream slots, 2 things in flight to the page, 2 reported boot steps of which 1 before the page is there, 1 fault (a broken connection, a lost request, a reload, a rejected write or the end of the token's time); practice mode | 777 k | an old stream beside a new one, an event beside an answer; slots, requests and polls are reused without bound. A second fault is needed for a stream that was cut off to cut off another: that case is the theorem's |
| `lab_host` | 2 browser sockets and the task, a grace of 2 samples, 3 visits | 338 k | one leaked connection beside one live; a grace longer than one sample |
| `aws_labs` | 2 sessions against a cap of 1, four resources of which one is never let go, one renewal | 477 k | two POSTs at the last slot; a kind before, at and behind the unreadable one |
| `aws_cleanup` | 1 session, the same resources | | counterexample |
| `game` | all 20 lanterns, 3 crates, one lantern ahead, 1 slip, 1 reboot | 756 k | every lantern is lit from the initial machine; one thing breaks at any time, between the API's read and its bind too, and one restart comes at any time |
| `progress_overlap` | 2 commands, 2 lanterns, 1 hint each and 1 in all | 1.5 M | two writers of one file; two lanterns so that one can be lost; fewer hints than lanterns so that the counter meets zero |
| `progress_loss` | the same | | counterexample |

Named bounds: `MaxCrashes`; `Procs` bounds requests in flight, not their number
over time; `Faults`, `Learner` and `Triggers` select which actions exist;
`MaxLag`, `MaxLog`, `MaxFaults`; `MaxVisits`, `Grace`; `MaxRenewals`; `Ahead`,
`MaxSlips`, `MaxReboots`. In the AWS runs `MCInit` starts the instances with a
janitor with one wanted session, since what the janitor does to the stack does
not depend on a second; the cap is checked with both. In `page` it starts with
the host's first report made, so that the second, which ticks the first step, and
a log with a line to replay are within the bound. `Procs` is symmetric in
the lifecycle's safety runs only.

Deadlock checking is off where the system really stops: a session ends, stopped
and its host gone; a page shows an ended session and has nothing to poll; a host
is terminated; a learner has asked for all sessions of the instance; a machine
has dawned. `GameProgress` runs with it on.

## 10. Fairness

* `SessionLifecycle`, `SweepFairness`: time passes; EventBridge invokes the
  sweep every five minutes (`lab-host-stack.ts:201-206`); `TerminateInstances`,
  retried by every sweep, does not fail for ever (strong fairness on the sweep's
  termination). `TeardownPromise` assumes this and nothing else.
  `WebFairness`: the event loop continues a request in flight (weak); the page
  polls every three seconds, and an SSH login or an address lookup that stays
  possible is not refused for ever (strong). `NotifyFairness`: callbacks of the
  Lambda that are not lost find the task.
* `SessionPage`: the task finishes what it began, the page handles what arrived
  and its timers fire; of several things that wait only *one* is taken. Strong
  fairness on the automatic grade of a practice session, an interval of nine
  seconds.
* `ShellBridge`: the watcher samples, the runtime delivers a socket's close and
  open, keepalives and login timeouts end a dead connection, the task's own
  logins end.
* `AwsLabs`: a request goes on, a host does not outlive its lifetime (the
  sweep), a janitor run ends, and again and again there is a night on which AWS
  answers every call it can (strong fairness: without it no cleanup follows).
* `BeaconMachine`: systemd starts what may start (weak), and a process that has
  read its files comes to bind its port (strong: whoever keeps restarting the
  API does not hit, each time, the instant between the two); nothing else.
* Nothing is asked of a learner, a boot, a schedule, a crash, a grader.

## 11. Proofs

TLAPS checks every theorem for all values of the constants that satisfy the
modules' named assumptions (subset and number conditions that say nothing about
sizes; `Sessions` and `Streams` are finite, and the janitor's stack is not
empty). Every invariant and every step property of a passing run is a theorem.

**SessionLifecycle_proofs.** `TypeCorrect` first. None of the properties is
inductive alone; the invariants that are, each with the type invariant beside it:

* `NoneAdmittedAfterStop`: every request past its admission that still has a
  write ahead was admitted with a row that was not `stopped`, also while it is
  suspended elsewhere than at the write. Gives `NothingAdmittedAfterStop` and,
  as an action property, `StopUndoneOnlyByEarlierRequest`.
* `ProbeInv`: `ProbeExclusive` with which patch a request carries at which
  label, so that a request that starts a probe is known not to hold one. Gives
  `OneProbeAtATime`.
* `EarlyInv`: before a login or a stop, no row, snapshot or patch anywhere in
  the system says ready or running. Gives `ReadyOnlyAfterLogin`: the stale
  copies are the reason the invariant must speak of all of them.
* `HostInv`: what each label implies about the host (launched once, `LaunchInv`)
  and about a take-down being due (`DueInv`). Gives `ReportsAreTrue` and the
  step simulation `HostTakenDownOnlyWhenDue`: every step of the system is a
  launch, a due take-down, becoming due, or a stutter of `LabHost`.
* `IdIsNotLostLater` is an action property from the type invariant: no action
  takes the settled state to an unsettled one.
* `EveryHostIsTakenDown` is the other half of the promise: while an expired host
  is up the sweep's run is idle or at the termination (`SweepIsNear`, which is
  `DueInv`: it waits for its callback only once the host is gone), so the sweep
  comes to the termination again and again, until one comes through.

**GameProgress_proofs.** `TypeCorrect`; `NothingIsUnearned` through `EarnedInv`
(also the data that commands are about to save and the lanterns a grader has
seen are earned); `LostByOverlapOnly` and `LoneGraderIsRight` through `LoneInv`
(a command nobody overlapped is the only one running, its descriptor is where
it put it, its data contains the file's, and what it has seen is in the file),
for the latter also what a report says of each lantern wherever it ends
(`ReportRight`); `CountersAgree` through `HintsInv`: the two counters agree in
both files and in whatever a command is about to save, since a hint adds one to a
summand and one to the sum. That last fact is about a fold over a set of any size, and rests on
`InductionLemmas`.

**InductionLemmas.** The library's induction theorems take the predicate as an
operator, which no installed prover can instantiate. Here a predicate is the set
of the values it holds of, and induction is the least element of its complement;
from it follow induction over the parts of a finite set and what an update of a
function does to its sum.

**ShellBridge_proofs.** `TypeCorrect`; `KeysBeforeCallback` through `BootInv`
(what is done by the time the script is where it is); `LeaksAreEarlyCloses`
through `Consistent` (an SSH connection counts only from ready to the end of its
client, and a closed socket has none, or was closed early), bridge by bridge;
`AsksOnlyWhenIdle` through `ClockRight`: the watcher's clock is the number of
samples since it last saw anybody. `DeadTerminalIsTold` through `PageInv`: an
open socket has an SSH client, whose failure over a host that is gone closes it,
and the close comes to a page that still holds its end.

**AwsLabs_proofs.** `TypeCorrect`, for which a kind that is not listed yet must
have nothing left to do; `DeletesOnlyStale` through `DueInv` (what is due was found expired, and
has been renewed at most since); `HostAfterPreparation` through `Prepared` (what
a request's position says of its row, files and host); `CapOfOneByOne`: the
counted sets grow by one session only, after an answer of the cap that nobody
else was waiting for, so their cardinality stays within it.
`SlotsAreAccountedFor`: a session that takes a slot and met with no fault has a
request at work past the insert or a host that is up; from there
`EverySlotComesBack` follows the request stage by stage (`Onward`).

**BeaconMachine_proofs.** `TypeCorrect`; `NoDebugAfterCheck`, `PortStaysFree`,
`DawnAfterBothReleases`. `NoDebugAtDawn` through `Silent`: as long as nobody
touches the machine, an API that a recheck has found serving keeps serving (only
a restart takes it down, and ends the inspection), so the last recheck asks a
process that answers. Each invariant adds what the check read beyond the
property (the file, the unit's enablement, the process), and fails to be
inductive without it. `DawnKeepsItsPromise` is the safety half of
`HandoverSurvivesReboot`, through `Inspected`: what each recheck has seen is
kept, through restarts, until somebody touches the machine; with what the
inspection does not look at in order, that is all the services need.
`GreenAfterLastReboot` adds systemd's part; `ApiServesOnceItCan` rests on
`WantedOn` (a unit that was started and not stopped runs or waits).

**SessionPage_proofs.** `CutOffByStaleRelease` through `BusInv`, with the
pigeonhole argument that there is always an emitter nobody subscribes to. What
the page shows is proved from `IInv`: every variable has its type, with what the
positions of requests and streams imply of each other (`Control`), and
everything on its way to the page or on it (snapshots read, bursts queued,
answers, the view, the steps) claims no more than the task has had evidence for
(`PageTrue`). The evidence only grows, so what was true when it was sent stays
true (a tick of `verify_ssh` is evidence of a login, not of a ready row); merging by `OnMessage` and the waterfall claims nothing new, which for a
burst, a fold over its events, is an induction over its length. It gives
`TypeCorrect`, `ListTellsTruth`, `ReadyIsReal`; and `BlankedByRefusal`, as only a
refetch, or a read past the token's time, is answered without a session while
one is shown (`Refusals`).

**Fairness in proofs.** The prover knows nothing of ENABLED, so a theorem about
the end has its fairness as a hypothesis with the guard of the action in the
place of ENABLED: `[]<>~guard \/ []<><<A>>_vars` for weak fairness,
`[]<>guard => []<><<A>>_vars` for strong. Each such action changes the state
whenever its guard holds, so these say the same as the `WF_` and `SF_` of the
specifications; that guard and ENABLED agree has been compared by TLC in every
state of the runs `lifecycle_teardown`, `lab_host`, `aws_labs` and `game`.

**TLC only.** What needs a count in a temporal argument, since induction over a
temporal formula is out of the prover's reach: that the restarts of
`HandoverSurvivesReboot` come to an end (`GreenAfterLastReboot` has it as a
hypothesis), the watcher's grace in `IdleHostAsks`, the kinds of a janitor run in
`CleanedUnlessBehindAlarm`, the events queued in `ReadyLabIsShown` and
`StopIsTold`. `ReportedHostLeavesProvisioning` needs the fairness of every await
of a request of any kind, whose guards would repeat the module. `TeardownPromise`
and `DeadTerminalTold` are checked by TLC in the form stated; the first speaks of
LabHost's own fairness, and hence ENABLED, where `EveryHostIsTakenDown` says what
it comes to; the second speaks of whichever bridge the terminal is at, where
`DeadTerminalIsTold` takes them one by one. `SlotComesBack` and `ApiComesUp` are
proved under the fairness above.

## 12. Not modelled, and why

Identity, gate and token checks are stateless; content packs are read-only
data; the CDK stacks are declarations, whose consequences are the assumptions
named above; the UI outside the session page renders. The Linux and AWS graders
read a host or an account and print a verdict, which the lifecycle takes as
given. The session janitor (`infra/lib/session-janitor`) is the terminator's
sweep without its callback. Without `DATABASE_URL` the row is a map in memory
with no await between read and write; that mode and the mock modes of EC2 and
AWS are left out.

## 13. What is left

1. Two web tasks at once, during a rolling deployment: `SessionLifecycle` with
   two event loops and two buses.
2. The composition of `SessionPage` with `SessionLifecycle`'s overlapping
   writes, instead of one request at a time.
3. A clock for the idle grace against the lifetime, and for the provisioning
   timeouts of the page.
4. The bootstrap log as forty lines with torn and dropped ones
   (`bootstrap-progress.ts:48`).
5. Overlapping manual runs of the janitor, and its deletions call by call.
