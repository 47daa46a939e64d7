# Verification of manager_linux

`manager_linux` runs on a remote point.  It starts the programs that a
configuration names, keeps them running, updates them with what a server offers,
and reports to that server.  It is one process: a `bevy_ecs` schedule whose stages
run again and again (`src/src/main.rs`), plus a thread for each download.  This
directory holds TLA+ models of its core, their TLC instances, and proofs checked by
TLAPS.  `PROJECT.json` lists the runs, the mutants of the code that each property
must catch, the source lines of every definition, the hazards and the theorems.

## The system

One tick of the main loop is four stages, `PollServer`, `HandlePollEvents`, `Main`
and `Save`, then a pause of 25 ms.  All stages are `SystemStage::parallel()`: the
systems of a stage run once each, in an order that nothing fixes (on several threads,
when they do not write the same data), and components that a system inserts or removes,
and entities it spawns or despawns, change when the stage ends.  Systems talk through
event queues with two buffers.  A system `update_system` of each queue drops the older
buffer; it has no fixed place in its stage either.

| part | state | operations | properties that make it right |
|---|---|---|---|
| executable manager (`execm.rs`) | `Exec` entities with `Run` and `Terminate` components, child processes | `terminate_adder`, `terminate_cleaner`, `terminator`, `run_checker`, `runner` | one process for each program; what it reports as stopped is stopped, or was started in this very stage; a held program stays down as long as somebody asks, and no longer; reports of start and stop alternate |
| program updater (`program_updater.rs`) | `ProgramUpdate` entities in five states, the hashes in memory and on disk | `sys_update_checker`, `sys_new_handler`, `sys_get_handler`, `sys_terminate_handler`, `sys_apply_handler`, `sys_hash_saver` | no update twice at a time; what is installed is what was downloaded; recorded hashes are those of the files; every change is saved; files of a live process are not replaced; every update ends and the program comes back |
| event queues (`events.rs`) | two buffers for each type | send, read, `update_system` | nothing that matters is dropped before it is read |
| poll (`srvm.rs`) | time of the last poll | `sys_poll` | each answer reaches its reader once |
| configuration (`configm.rs`) | the configuration, in memory and on disk | `startup`, `sys_config_updater` | memory and disk agree |
| send manager (`sendm.rs`, `mos.rs`) | queue, directory of spilled messages, two timers | `report`/`stat`/`log`, `sys_send_manager`, `sys_disk_manager` | no report is lost while the manager runs or shuts down; order |
| installation (`mos.rs`) | program directories, a directory for what must survive, archives | `setup_program`, `setup_asset`, `remove_asset`, `setup_config` | configurations and asset survive an update, and a failure or a crash in it |
| streamer (`streamer.rs`) | `Stream` components in two states | `adder`, `runner`, `transfer`, `terminator` | a stream starts its program, and ends when the program or the connection does |
| IPC server (`ipcm.rs`) | clients in two states, two listeners | `server`, `incoming_handler` | each client is answered or dropped, and dropped unanswered only if one read of it does not decode |
| certificate (`certm.rs`) | certificate, application state | `init`, `register`, `sys_reset` | a point without a valid certificate registers anew |
| server API (`siapi.rs`), IPC requests (`ipc.rs`) | none | one connection for each request, with timeouts | an answer or an error in bounded time |

How they interact: `sys_poll` turns answers into events; `sys_update_checker` turns an
event, or a changed configuration, into an update entity; `sys_new_handler` starts a
download thread; `sys_terminate_handler` sends `TerminateRequest`s until the program
has no `Run` component; `sys_apply_handler` installs, records the hash and asks for the
save.  The executable manager reads the requests and gives the program a `Terminate`
component, which keeps `runner` away from it, makes `terminator` ask it to stop, and
expires after `CLEAR_CNT_MAX` = 5 stages without a request.  Everyone hands reports to the
send manager.

What is hard: the free order of systems together with deferred commands and with queues
that forget; the race of a countdown with the requests that restart it; components that
stand for processes which start and end at other times; threads that write files; failures
half way; and restarts, about which the code knows little.  The list "hazards" of
`PROJECT.json` names each at its line.

## The modules

| module | models |
|---|---|
| `BevyEvents` | the event queues of `bevy_ecs` 0.9 as `events.rs` uses them, as sets and as sequences (external: modelled from use) |
| `Execm` | the executable manager, with the senders of requests as environment |
| `ProgramUpdater` | the updater, extending `Execm` by the four stages, the poll event and the downloads; states that both together implement `Execm`, and that its step of an installation is one of `Installer` |
| `SendManager` | the send manager with its directory on disk, the server and the death and restart of the process as environment |
| `Streamer` | the streamer together with the executable manager it sends requests to (extends `Execm`) |
| `Installer` | abstract: what the installation of a build or an asset promises, with its hash |
| `SetupProgram` | the installation of files, one call of the file system after another, with failures and crashes; implements `Installer` |
| `Ipcm` | the IPC server, its two listeners and the programs that connect |
| `ExecmProofs`, `ProgramUpdaterProofs`, `UpdaterRefinesExecm`, `UpdaterInstalls`, `StreamerProofs`, `SetupProgramProofs`, `SendManagerProofs`, `IpcmProofs` | the theorems |
| `MCExecm`, `MCProgramUpdater`, `MCSendManager`, `MCSetupProgram`, `MCStreamer`, `MCIpcm` | the instances for TLC |

### State and code

`Execm`.  `run`, `held`, `cnt`, `asked` are the components `Run`, `Terminate`,
`clear_cnt` and "`tl_req` is less than a period ago"; `cmds` holds the insertions and
removals that wait for the end of the stage, `ran` the systems that have run in it.
`procs` counts live children of a program, so that a second one would be seen; `told` are
the programs whose process was asked to stop.  `balance` is the sum of the reports handed
to the send manager.  Each system is an action with the name of the function; `EndMain`
is the end of the stage.  `Exit`, `PeriodOver` (time) and `RequestTerminate`/`RequestRun`
are the environment.  A request to stop may be lost (`sent` in `terminator`), a start may fail
(`Start`), and `pkill` hits the programs that `NameMatches` says.

`ProgramUpdater`.  `stage` is the running stage.  `task[s]` is an entity with its state:
`new`, `get` (download under way), `got`/`failed` (thread ended, not joined), `terminate`,
`apply`; an entity in `apply` still has its `UpdateStateTerminate` component, as in the
code, and is still seen by the terminate handler.  `nxt[s]` is what the commands of the
stage will make of it.  `temp`, `disk`, `hash`, `saved` are the contents of the
archives, of the installed files, of `ProgramHashesRes` and of the hashes file.  `apply_one`
is one turn of the loop of `sys_apply_handler`; its error paths leave the hash alone and
may leave any of the files broken.  Whether a step of an installation fails is left open,
also where the state of the disk decides it (`setup_asset` needs an existing directory).
`changed` is `config.is_changed()` of the checker.  `waited[p]` is a history variable: how many
Main stages in a row the program has been waited for.

`SendManager`.  A tick is the three systems that touch this state; `todo` are those that have not run.
`queue`, `dt`, `tryDue`, `diskDue` are the fields of the resource, `necessary` what `is_necessary` answers;
`dir` and `files` are `./temp_send_data`, whose file names are times, with `Torn` for a file whose writing was cut
off.  `Hand` is any caller of `report`, `stat` or `log`.  A request may be lost, or its answer (`SendFirst`).  `proc`
says whether the process runs; `Restart` is the next one, with the report of `main.rs`.  `got`, `answered`, `born`, `restored`,
`crashed` are history.  A name is searched for by `temp_send_data_pop` in such a way that the first file of the directory
comes back, in an order that the file system chooses, with the time 0; `Restore` models that, not the search for the oldest.

`SetupProgram`.  `pc` is the next call of `setup_program` and its siblings, named after what it does; `main`, `build`, `here` and `temp`,
`there` are the program directory and `.temp` beside it, each with the build, the asset and the configurations in it; `kept` and `pairs` are the
local `path_pairs`.  Renaming is atomic; writing, unpacking and deleting are done in part first (`Torn`).  Any call may fail (`Fails`: the job
ends, its files stay as they are) and the process may die before any (`Crash`, then `startup` reads the hashes).  An item that the archive of a build
brings along is `Shipped`.  `want` and `lost` are history: what was installed last, and what was no longer in its place when a build began.
The refinement `Inst` maps the two directories to one file for each of build and asset (`Seen`): a file that is being replaced counts as damaged, and an asset in
`.temp` as in place while the build lasts.

`Streamer`.  A stream is a state of its program (`st`), because its components sit on the program's entity; `nxt` is what the commands of the stage
will make of it.  `sq` is the queue of the server's requests, `open` the connections that the server has not ended, `writing` the programs whose
standard input `transfer` is writing to and that do not read: the stage cannot end before each of them reads (`Reads`) or ends (`Ends`), while the other systems of the stage may run.  The streamer's runner sends one
request after another (`request_one`) and then ends (`stream_runner`), since the manager's runner reads the queue in order.
`First` is what the order of bevy's tables says of the manager's runner: entities without stream components are in the oldest table.

`Ipcm`.  `backlog` is what the kernel holds for a listener and `edge` that the next poll will report it; `client` is `IpcClient.state`, or where
else a connection is; `data` is what its program has written: a part of a request, a whole one, a
whole one that is longer than the buffer of 4096 bytes (`long`), or no request; a client is read once.  `server` and `incoming_handler` are the two systems; the rest of the tick does not touch
this state, so that one follows the other.  `handed` and `answered` are history.

Abstractions: contents of files are version numbers; a program has one configuration file,
whose contents and hash are left out (the code never keeps that hash); the server
may offer anything of `Offers` at any time; the configuration may be replaced at any time by
one with the same programs; the first start finds empty files.  `TerminateRequest.hard` is never set by
any sender and is left out.  Events carry no more than their reader uses.

## The runs

| run | instance | what it asks |
|---|---|---|
| `execm` | 2 programs, one order of independent groups, fairness | `TypeOK`, `OneProcess`, `StoppedIsStopped`, `ReportsMatch`, `NoProcessAbandoned`, `TerminateExpires` |
| `upd_tasks` | 1 program, 2 updates, 3 types | `UpdTypeOK`, `NoDuplicateTask`, `OwnDownload`, `HashIsInstalled`, `HashSaved`, `ImplementsInstaller` |
| `upd_wait` | 1 program, 1 update after another, `CLEAR_CNT_MAX` = 5 | `HeldWhileWaiting`, `SafeApply`, `ImplementsExecm` |
| `upd_live` | 1 program, 1 update, fairness | `TaskEnds`, `ComesBack` |
| `send` | 4 messages, two of which may have one time, up to 4 processes, fairness | `SendTypeOK`, `AnsweredIsOver`, `OnePlace`, `InOrder`, `LossNeedsTwin`, `ShutdownSaves`, `Drains` |
| `send_distinct` | 4 messages of different times | `NecessaryKept`, which is violated |
| `send_pop` | 2 messages | `PopSucceeds`, which is violated |
| `setup` | 1 configuration, an asset of 2 versions, a build that ships both | `SetupTypeOK`, `WhereItIs`, `SuccessIsClean`, `ImplementsInstaller` |
| `setup_loss` | the same | `SuccessReturnsAll`, which is violated |
| `stream` | a program that keeps running, one on demand, an unknown pid, fairness | `StreamTypeOK`, `NoRequestLeft`, `NoLateStart`, `OneProcessForStream`, `ImplementsExecm`, `StreamConnects`, `StreamEnds` |
| `stream_two` | 2 programs on demand, fairness | `StreamConnects`, which is violated |
| `ipcm` | 2 connections to one listener, 1 to the other, fairness | `IpcTypeOK`, `HandedOnce`, `DroppedForCause`, `Served`, `AcceptedIfOthersCome` |

What they show.

* `OneProcess`, `NoProcessAbandoned`: although a process starts at once and its `Run` component
  appears later, and although removal comes after the check, no order of the systems gives two
  processes or drops a live one.
* `StoppedIsStopped`: `utils::terminate` looks at `Run` alone, and so it does call a program stopped
  whose process the runner has just spawned.  It is wrong only for the rest of the stage in which the
  process was started, and never about a program that has a `Terminate` component.
* `HeldWhileWaiting` and `SafeApply` give numbers.  A request may be dropped before it is read; a `Terminate` component left from an earlier update may expire in the stage
  in which the adder resets its countdown, and the request is then spent.  After six
  stages of waiting none of this can happen any more (`HeldBy`), and an installation after a
  wait of seven (`SafeAfter`) meets no live process.  That is all `SafeApply` says: it is silent about
  every update that is applied sooner.  Both bounds are tight: TLC finds a
  counterexample for five and for six.  They need `CLEAR_CNT_MAX` >= 4; with 3 TLC finds a
  violation.  The code has 5: one stage to spare.  A *shorter* wait gives no such guarantee, and most are
  shorter: an update whose program stops at the first `pkill` is applied after about four stages.  If, for
  one, the program happens to be down when the update arrives, the runner may start it in the very stage in which the
  handler sees it down, and the installation of the next stage replaces the files of a live
  process.  That is the stage in which `utils::terminate` is wrong.
* `NoDuplicateTask`, `OwnDownload`, `HashIsInstalled`, `HashSaved`: the chain from
  the offer to the saved hash, with two updates that overlap in every way.
* `ImplementsExecm` (`upd_wait`, `stream`): updater and streamer use the manager through its interface only.
* `LossNeedsTwin`: a report that is neither in the queue nor on disk nor answered was in memory when a process died, or
  there is another report that had the same file name: handed over in the same millisecond, or restored like it.  (It says that
  there is such a twin, not that the twin overwrote it.)
* `ShutdownSaves`: a shutdown empties the queue, with the server there or away, if the other systems at last hand over nothing more.  In the
  instance the number of messages sees to that.  In the code nothing does: one tick spills one message, from the tail, so that a program which
  exits whenever it is started, and so adds a report in each tick, keeps the oldest messages in memory for ever.
  `AnsweredIsOver`, `OnePlace` and `InOrder` say that retry, spill and return neither copy nor reorder.
* `send_distinct` shows that the second kind of twin is real (finding, `mos.rs:401`): a message that
  comes back from disk has the time 0 from then on.  If the manager shuts down before it is sent, it is saved as file `0`; if another one
  comes back in the next run and that shuts down too, it overwrites the first.
* `send_pop` (finding, `sendm.rs:128`): before the first shutdown there is no directory to read, and the first check
  of the disk that finds the queue empty ends the manager.  The queue is empty then, so that the panic itself loses
  no message; `send` lets it happen.
* `WhereItIs`, `SuccessIsClean`: one attempt at a build never loses an asset or a configuration that was in place when it began, wherever it fails or the process
  dies, and a success puts back what was there, over anything of the same name in the archive, and leaves no `.temp`.
* `setup_loss` (finding, `mos.rs:237`): two attempts do lose them.  The first fails after the move; the second finds the new, half empty program directory, deletes
  `.temp` with asset and configurations in it, and reports a success.
* `ImplementsInstaller`, in `setup` of the detailed steps and in `upd_tasks` of the single step that `ProgramUpdater` has in their place: both are
  installations that change one file and its hash, or damage that file at most, or the asset beside a build, and change no hash.  This is why the updater may be
  checked and proved with the single step.
* `NoRequestLeft`: the streamer's reader takes one event in a tick, and this is enough in either order of reader and update, as one poll gives one event.
* `NoLateStart`: requests that a stream leaves behind when it is connected start its program again, if it ends at once, but in the next stage at the latest.  The bound is tight.
* `OneProcessForStream`, `StreamConnects`, `StreamEnds`: a stream belongs to one process, comes about although requests are dropped, read for others or answered
  by a failed start, and ends, as long as no program leaves what `transfer` writes to it unread for ever.  One that does stops the main loop: without the
  premise `WritesReturn` TLC finds `StreamEnds` violated.
* `stream_two` (finding, `execm.rs:173`): with a second program on demand that is idle, the runner uses up every request while it looks for one that names that program,
  which comes first in the table, and the stream waits for ever.
* `HandedOnce`, `DroppedForCause`, `Served`: an answer means that the message was handed over, once, unless it was a log of an unknown program; who loses the
  connection without an answer wrote something that did not decode at the one read it gets: no request at all, the first part of one, or a valid request of more than
  4096 bytes, which the buffer cuts.  `Served` promises the answer for a request that fits, and for no other.  `AcceptedIfOthersCome`:
  with one accept for an event, a program that connects together with another one waits until a further one connects, and that is enough, since the first to come is the first accepted.

### Bounds, and why they are enough

* Programs do not interact except through `pkill` by name, the queue of run requests and
  the single start in a stage: two programs show all three.  The updater's guarantees are
  for one program; two updates are enough for two of one type, for build against asset, and
  for asset against its deletion.
* `ClearCntMax` is 1, 2 or 5 in the runs, 0 where no property depends on it.  `MaxRunRequests` bounds the queue of run
  requests (it has no limit in the code; `RequestsStayFew` proves that three for each program are never exceeded); `WaitMax` ends the count of `waited` above
  `SafeAfter`; `Slots` bounds the updates that exist at the same time.
* `Before` fixes the order of systems that touch no common variable.  Such systems
  commute, so that one order of the groups named in the MC modules stands for all;
  inside a group (the request queue, its reader, its sender and the cleaner; the run
  queue and the runner; the checker, its queue and the configuration) every order is explored
  by the run that is about it.  The proofs are for any `Before`.
* Messages of one time, or two that were restored, need two messages and, for the second, two shutdowns and a third process, whose
  report is a message too: four messages.  A process that died starts again as long as there is a number left for its report, so
  that these models may stop, and `CHECK_DEADLOCK` is off in the three runs of `SendManager`.
* Installation: what a step does to one configuration it does to each, and only the asset may be refused by what is already there; one configuration, one version of
  it and of the build, and two of the asset (an old one and a new one) distinguish all that the properties do.  A job may follow any other, without a bound.
* Streams: two programs in the table order that matters, one of them found at once (`keep_run`), one by its requests.  `MaxRunRequests` = 8 is never reached: three
  requests of each program are the most there can be (`RequestsStayFew`).  Only the program on demand is asked for streams or told to stop; a stream of a program that keeps running never asks.
* IPC: two connections to one listener compete for an accept; one to the other listener shows that the two do not interfere.  Connections are made anew without a bound.
* `upd_tasks` runs with one version of the files: an archive that is overwritten shows only by a failed download.  The theorems are for any versions.  It declares the slots symmetric: it checks safety only, and slots are
  interchangeable in every definition.

### Fairness

The main loop never ends: `WF(MainLoop)`.  Its sockets have timeouts, with two exceptions.  The write to the standard input of a program
(`streamer.rs:57`) waits until the program reads or ends; `Streamer` models this, and there `WF(MainLoop)` is no promise while `writing` is not empty, because the stage cannot
end then.  The connect to the socket of a program (`utils/ipc.rs:68`) waits while its queue is full; the models assume that it returns, and those of the
updater and of the manager alone that there is no stream whose program does not read.  Connects to the server end with the timeout of the kernel.  Download threads end
because their sockets have a read timeout.  Time passes: `WF(PeriodOver)`.  A program that was told to
stop does so, `WF` of `Exit` when told.  Two assumptions are about the world and
not about the code: a request that is sent again and again reaches the program some time, and a program
that is started again and again starts some time (`SF` of `Delivered` and `Started`).
Without the first an update waits for ever; without the second no program ever runs.  The safety properties, and
all proofs, use no fairness.  `CHECK_DEADLOCK` is off in the runs of `SendManager` only.

`SendSpec` has the main loop, time and the restart of a dead process.  `ShutdownSaves` does not rest
on the server.  It assumes in its own statement that the other systems at last hand over nothing more (`HandingOverEnds`); here the bound `MaxMessages` makes this true,
in the code nothing does.  `Drains` assumes in its own statement that a server that is asked again and again answers at
last, that the manager is left to run, and, by the bound on messages, that at some time nobody hands over more: while the queue
is never empty at a check of the disk, nothing comes back from it.

`StreamSpec` has the main loop and `SF` of `Started`: a program that is started again and again starts some time.  It assumes nothing of the server, of programs or of time.
`StreamConnects` says in its own statement that requests to stop the program end, `StreamEnds` that writes to programs return at last (`WritesReturn`).
`StreamConnects` has no such premise, because in `stream` only one program has streams: with several, a write that never returns would keep every waiting stream waiting, too.
`IpcSpec` has the main loop, whose poll of the listeners has a timeout; programs are
under no obligation, and `AcceptedIfOthersCome` names the one it rests on.  `setup` checks safety only.

## What is proved

Every safety property that a passing run checks is a theorem as well.  The theorems are for any sets of programs, pids, offers, versions, slots,
configurations, messages, listeners and connections, any matching of names and any order of systems in a stage.  They rest on the
named assumptions of the modules (`ExecmAssumption`, `UpdaterAssumption`, `StreamerAssumption`, `SetupAssumption`,
`SendAssumption`, `IpcmAssumption`), which say what kind of value each constant is and that values that mean different things differ
(no configuration is called `build`, no version is `Torn`).  `HeldInTime` and `AppliedSafely` also assume `ClearCntMax >= 4`, `RequestsStayFew` that the
programs are finitely many, and `StreamerImplementsExecm` that besides `MaxRunRequests` leaves room for three requests of each.

Each invariant is proved in the same way: an inductive invariant, a lemma for each action (or for a few that touch the same state) that says that it keeps it,
and the property as a consequence.  What each of the inductive invariants adds to the properties:

* `ExecmProofs`.  `OneProcess` is not inductive: it needs to be known where a process may
  come from.  `ExecInv` adds that programs with a pending start have neither `Run` nor `Terminate`
  nor an older process, that a pending stop is of a program whose process is gone, and that each
  pending command comes from a system that has run (so that it cannot run again before the
  stage ends).  `OneProcess`, `StoppedIsStopped`, `ReportsMatch` and
  `NoProcessAbandoned` follow.
* `ProgramUpdaterProofs`.  `UpdInv` adds to `ExecInv` what each command may do to an update
  (`NextOK`), that after the apply handler nothing is left to apply (`ApplyDone`), and where the event
  that asks for a save must be while memory and file differ (`SaveInv`).  From it follow
  `NoDuplicateTask`, then `OwnDownload` (two downloads never have one file because they never
  have one pid and type), then `HashIsInstalled` (what is installed is the archive of the update), and `HashSaved`.
* The invariant behind `HeldWhileWaiting` is `WaitInv`.  `Misses(p)` is how many readings in a row may
  still find no request for `p` while it is waited for, from what is in the queue and which
  of its four systems have run: 0, 1 or 2.  A program waited for is then in one of
  five conditions: its component is renewed in time (`Renewed`), or is an old one that may not be
  (`Old`), or is about to be removed (`Expiring`), or is absent, with a wait of at most
  `5 - Misses` stages behind it (`Absent`), or on its way (`Coming`).  Each system keeps the disjunction, by arithmetic on
  `Misses`, the countdown and the age of the wait; `HeldInTime` reads the bound off at the end of a
  stage.  `AppliedSafely` combines it with `StoppedIsStopped`: a program that is held and has no `Run` has no process.
* `UpdaterRefinesExecm` proves `ImplementsExecm`: with the systems of other modules and the
  other stages hidden, every step is a step of `Execm` with no fixed order, or a stutter.
* `UpdaterInstalls` proves `ProgramUpdater`'s `ImplementsInstaller`.  With `OwnDownload` from `UpdInv`, what an update installs is what its hash is of;
  `VersionOK` adds that a build or an asset that has been downloaded has a version at all, which excludes an installation of nothing.
* `StreamerProofs`.  `StreamInv` takes over the manager's part of `ExecInv` (`CommandsOK`, `ProcessesOK`) and adds three things.
  `StagesOK`: what the stage has decided, against what it began with.  A stream that waits for a program that does not run goes on
  waiting, and once the streamer's terminator has run, each stream whose program has no `Run` is about to go.  This gives
  `OneProcessForStream`, since a new `Run` comes with the end of the same stage.
  `AskedOK`: one event of the server at most, in the buffer where the reader or the update still finds it.  From it follow
  `NoRequestLeft` and that no update drops an unread event (`NoneIsDropped`; `NoRequestLeft` alone would not say so).
  `SendersOK`: before the update of the run queue its new buffer holds requests of streams that wait and its old one those of streams
  that waited in the stage before; after it the new one holds requests of this stage only.  That is `NoLateStart`.
  `FewRequests` counts them: with `N` programs and `R` streams that have sent in this stage there are at most `2N + R` unread requests
  before the update of the queue and `N + R` after it, at most `3N` at any time.  So the bound `MaxRunRequests` of `Execm`'s senders
  hides nothing once it is `3N`, and `ImplementsExecm` is proved with no condition on the behaviour.
  `ManagerStaysSafe` and `NothingAbandonedForStreams` state the manager's properties in the company of the streamer.
* `SetupProgramProofs`.  `WhereItIs` speaks of two directories.  What makes it inductive is to say for each step of `setup_program` in
  which of the two each item is, and whether its pair is in `path_pairs` (`Place`), together with what the steps before have done to the
  directories (`DirectoriesOK`: while `.temp` is to be deleted this job has moved nothing there, and what it has moved there keeps it in
  existence).  `CleanOK` is the same between two jobs.  `NoAssetOK` and `LostAssetOK` say what may lie at the place of an asset that was
  never installed, or was lost: without them the refinement mapping could see an old asset come back.  The proof of
  `ImplementsInstaller` then goes call by call: each is a step of `Installer` or a stutter under `Seen`.
* `SendManagerProofs`.  `SendInv` says what the messages in the queue and in the files have in common: they are different messages
  (`PlaceOK`), a file is named after the time of the message in it, that time is the one of its birth until it comes back from disk
  (`TimeOK`), and the queue is what came back, followed by the others in the order of their numbers (`OrderOK`).  `LossNeedsTwin`
  follows, since a file is overwritten only by a message of the same time; `InOrder`, since the head of the queue is the oldest of those
  that never left memory.  Lemmas on queues (`AppendQueue`, `TailQueue` and their like) carry distinctness and order over each operation.
* `IpcmProofs`.  `HandedOnce` is inductive with `HandedByState`: the request of a connection that is queued or read has not been handed
  over, that of one that is written to has, once, unless it is unknown.  `IpcTypeOK` is more than types: the backlogs are the queued
  connections, each once, from which it follows that an accept takes one that no other accept takes.

Only model-checked, because it is out of the prover's reach: the liveness properties `TerminateExpires`, `TaskEnds`, `ComesBack`,
`ShutdownSaves`, `Drains`, `StreamConnects`, `StreamEnds`, `Served` and `AcceptedIfOthersCome` (no fairness, no `ENABLED`).  That bounds
are tight (`HeldBy`, `SafeAfter`, the next stage of `NoLateStart`) and the violations of the findings are counterexamples of TLC, too.

## Not modelled, and the plan

Next:

1. Safety that the liveness properties of `Streamer` and `Ipcm` rest on and no invariant states yet, as lemmas of their own: that a
   waiting stream whose program does not run has sent its request by the end of each stage, and that the server reads a client in each tick.
2. An abstract queue of messages that `SendManager` implements up to the losses it names.

Partly modelled: the start of the manager (`certm.rs`, `configm.rs`: certificate, registration and configuration are read or fetched once, one after another, before the
main loop; an error ends the process) is in the initial states only; the answers of the poll that no model uses are free choices of their readers.
Commands of the server are sent as events that nobody reads.

Not planned: `cmdm.rs` (not compiled), the encodings (`data_types.rs`, `utils/mod.rs`), the archive
format and hashing (libraries), and the time a stage takes.
