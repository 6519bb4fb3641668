# Verification of the container start-up project

TLA+ specifications of the programs in this repository: three managers that start many
containers at once, the application that runs in the containers, and the script that
measures them. Paths are relative to `src/`; `EMC` is
`meta-execution-manager/recipes-execution-manager/execution-manager/execution-manager/src`
and `EMD` is
`meta-execution-manager/recipes-execution-manager/execution-manager-containerd/execution-manager-containerd/src`.

## 1. The system

| component | state | operations | interacts with |
| --- | --- | --- | --- |
| crun execution manager (`EMC/main.c`, `batch_command.c`) | the parsed containers, the pids of the children | `main`, `fork_rec`, `command_container` | forks one child per container; a child calls `mount`, `umount` or executes crun; `main` waits |
| `crun batch` (`recipes-containers/crun/crun/batch_*.patch`) | the same | the same, with crun's command handlers called in the child | the same |
| native manager (`--native`) | the same | `command_native` | the child becomes the application; `main` does not wait |
| containerd execution manager (`EMD/main.cc`, `batch_command.cc`) | the same | `command`: a sequence of gRPC calls per command | a child calls containerd and goes on whatever the call returned |
| gRPC clients (`EMD/*client.cc`) | none | one function per call | block on a completion queue without a deadline |
| configuration parsers, logging | none | read JSON into arrays; `fail_with_error` exits | called by the managers |
| vsomeip application, service half (`vsomeip-application/.../generic/main.cpp`) | flags `running_`, `blocked_`, `is_offered_`; three mutexes, their condition variables | `init`, `start`, `stop`, `run`/`offer`, `notify`, `listen_fifo`, `handle_signal` | five threads share the flags; SIGTERM is handled on a thread of its own |
| vsomeip application, client half | `is_registered_` | `init_request_event`, `on_state`, `on_availability`, `on_message`, the first half of `stop` | callbacks of the vsomeip library, one after the other on its dispatcher thread; `stop` on the signal thread |
| vsomeip application, payloads and modes | `its_ctr`, `operation_mode_`, `cycle_`, `cycle_old_` | the loop of `notify`, the loop of `listen_fifo` | the events reach the clients in UDP datagrams |
| benchmark (`benchmarks/benchmark.py`) | the round, the files | `run`, `run_sequentiell`, `kill`, `test_loop` | starts a manager for each step and waits for it; calls the generator; ignores both results |
| configuration generator (`execution-manager-config/generate_configs.py`) | the files | one call per target and number of containers | writes what the managers' parsers read; takes a digest from an earlier file |
| analysis (`benchmarks/analysis.py`) | lists of differences, rows | one walk over the directories of the logs | reads what the benchmark has collected |
| recipes, patches, images | none | none | build only |

### What is hard here

* *Partial failure nobody looks at.* A fork that fails drops all containers of lower
  index; exit statuses of children are thrown away; `run` forgets the result of `mount`;
  several gRPC functions end without a return value when the call failed.
* *Concurrency of a batch.* All children run at once, and with the forks. The wait loop
  is the only thing between the commands of one batch and those of the next.
* *Timing.* Killing is asynchronous: script and client sleep for a fixed time and then
  delete, whether the application has stopped or not.
* *Threads and signals.* The application's flags are shared without locks, and
  conditions are notified without the mutex under which they are tested.
* *Callbacks.* Registration and availability change while callbacks about earlier
  changes are still queued, and `stop` gives back what a callback is just acquiring.
* *Events in datagrams.* A client knows of a loss only by the numbers in the payload,
  which wrap, stand still in one mode and start again with the server.
* *Files nobody checks.* Generator, parsers and commands must agree on keys and on the
  number of containers; an aborted campaign leaves directories that the next one fills.

The full list, with lines, is under `hazards` in `PROJECT.json`.

### What makes each component correct

* a manager: no command launched twice, none of the launched ones still running when
  control returns, and control does return;
* the world between batches: changed by no late child;
* the benchmark: what it measures is running, and each round starts clean, for every
  container nothing went wrong for, whatever happened to the others;
* a containerd session: no task without its record, nothing left at the end;
* the application as a server: sends only what it offers, has a payload when it sends,
  loses no wakeup, and stops on SIGTERM; its cycle time is that of its mode;
* the application as a client: gets its subscription in the end, never has one without a
  handler, gives everything back, and a jump in the numbers means a loss;
* the campaign: a manager gets the configuration meant for it, and the table says of a
  runtime and a number what was measured for them.

## 2. The modules

```
Batch  <=implements=  ForkWait  <=implements=  ExecManager  <-extends-  Benchmark
                                <=implements=  ContainerdExec <-extends- CtrdSession
VsomeipService
EventStream, VsomeipClient  <-extends-  EventSystem
ConfigGenerator  <-extends-  Campaign  <-extends-  Analysis
MountOptions
```

**Batch** is the abstract specification: what a caller of any of the managers may rely
on. **ForkWait** is `fork_rec` and the wait loop, common to all of them. `manager` is
where `main` is, `native` its option and `nProc` the argument of the pending `fork_rec`.
`Fork`, `ForkFails` and `ForksDone` are its three outcomes, `Wait` one turn of the wait
loop, `WaitReturns` its end with ECHILD. `ChildExit` leaves open what a child does, and
the two modules below say it.

**ExecManager** is `command_container` (and `command_native`) in a child: one action per
system call or crun call, with its refusals (`CommandRefused`: the state does not allow
it) and its faults (`CommandFault`: it failed for a reason of its own). A `run` has two
steps, the mount and crun. External are the kernel's mounts (`overlay`, a count per
container, since overlays stack) and crun's containers.

**Benchmark** puts `benchmark.py` on top: `Script` is the sequence of manager calls and
sleeps in a round, `Call` a `Popen`, `Returned` its `wait`. `tainted` is a history
variable with the containers something went wrong for by itself; properties speak of the
others.

**ContainerdExec** is `command` in a child: `Program` gives the calls of each command,
and each call succeeds (`CallSucceeds`), fails and is passed over (`GoesOn`), or crashes
the child (`Crashes`: the functions that end without a return value, and a missing OCI
file). External are containerd's snapshots, records and tasks: `Accepts` and
`TaskAfter`. The `usleep` calls are not steps; that an application may or may not have
stopped by the next call is (`TaskStops`).

**CtrdSession** runs ContainerdExec in a session: `prepare`, tests with `create`+`start`
and with `run` (as `benchmark.py` does), and `killAndDeleteContainer`. The benchmark
itself creates and deletes the records with `containerd-ctr`; the session uses the
manager's own commands for it. Its `tainted` is that of Benchmark, and `undeleted` the
containers whose last `deleteTask` call failed. `Script` is a constant, and `Expected` the stage its
author expects the containers in before each step: `OrderAssumption` says that the
batches come in an order that makes sense (`Leads`), and nothing of what they do.

**VsomeipService** has one program counter per thread and one action per lock, unlock,
notification, assignment or test of flags. A wait is two steps: entering it (releasing
the mutex) and reacquiring the mutex after a notification, so a notification before the
wait is lost, as in the code. The flags start with arbitrary values; `env` says whether
there are operation modes and spurious wakeups. `HandleSignal` is the arrival
of a signal: the handler sets `stop_application` at once, and then needs
`sighandler_mutex`, which is recursive; while `main` holds it, the signal thread waits
(`"blocked"`).
`late` counts what `stop()` no longer governs: services offered and events sent after it
withdrew the service. The loops of
`run` and `notify` and the whole of `stop()` are there; vsomeip itself is three bits in
`app`.

**EventStream** is the sending of a server that is up: `Send`, `Count` and `Sleep` are
the parts of `notify`'s loop between which the mode can change, `FifoRead` and
`SetCycle` those of `listen_fifo`'s. The widths are constants (`ByteBase`,
`MaxCounter`), so that the wrap of a 32-bit number is within reach of TLC; `FirstBytes`
takes the counter apart as the code does. `Extracted` is what the stream extraction into
a `uint8_t` makes of a byte: a character, not a number. `lost` remembers that a message
has overwritten the configured cycle time in `cycle_old_`.

**VsomeipClient** has what the application holds at the library in `held` and the
callbacks to come in `queue`. A callback is taken from the queue (`OnState`,
`OnAvailability`) and makes its calls one by one (`RequestService`, `Subscribe`), with
`ReleaseNext` of `stop` between any two of them: `Release` is the order in which `stop`
goes through the calls for one service. `late` remembers what a callback acquired
(`Acquire`) after `stop` had given that very thing back. The library is modelled with the weakest memory:
what is requested of an absent daemon or service is lost.

**EventSystem** composes them: an event is on its way when the server sends it to a
subscribed client, and may be lost. `Number` puts the first four bytes together again,
which `on_message` prints. A behaviour looks at one of two `Scenes`, since events and
the client's shutdown do not influence each other but multiply the states.

**ConfigGenerator** has no state: which files each target gets, with which keys
(`Keys`), which keys the parsers store (`KnownKeys`), which ones the commands read
(`UsedKeys`), which files a round uses. **Campaign** is `test_loop` with its three loops
in `at`, the generator calls, the directories and the copies; `Generator` writes the
`FirstFiles` of a target, and fails when that is not all; `written` and `failed` are what
the calls for the current number came to. The logs of the clients are copied one by one
(`CopyClientLog`), so that a directory can hold logs of two campaigns. `Abort` ends the script
anywhere, `BeginCampaign` starts it again over what is there. **Analysis** is the walk
of `analysis.py` over what a campaign left: `WalkNumber` goes through the iterations of
one number, and makes a row when all of them had logs. A difference stands for the logs
it is computed from.

**MountOptions** is one question about the containerd manager: `memory` is the array of
entries, string after string, that `ParseContainer` fills; `RequestOptions` is what the
loop over `mount_options->size()` takes from it.

Operators commented as *Faulty* are variants of the definition below them with a
plausible mistake; they are used by no specification and show that each property can
fail.

## 3. The runs

| run | asks | bounds |
| --- | --- | --- |
| `forkwait` | types, launched suffix, nothing left behind, implements Batch, every batch returns | 4 containers, any number of batches, native or not |
| `exec` | types; the world is quiet between batches; implements ForkWait | 2 containers with any two commands each time, or native; 1 overlay |
| `benchmark` | sound commands succeed, measured containers run, roots mounted once, rounds leave nothing, the benchmark ends | 2 rounds of 2 containers, with mount, create and start or with `run`; 2 overlays |
| `ctrd` | types; quiet between batches; implements ForkWait | 2 containers, all commands, one mixed batch |
| `ctrd_session` | calls succeed, tasks measured run, no orphans, nothing left, session ends | 2 containers, 2 tests |
| `service` | types, payload before send, sends only offered, late offers, lost wakeups, join of the offer thread, clean shutdown | up to 2 signals at any time, with and without modes and spurious wakeups, failing `init` |
| `events` | types, cycle follows mode, stop releases all, subscriptions have handlers, a jump means a loss, subscribed in the end | 2 services, 2 server starts, 2 queued callbacks, 1 datagram on its way, numbers up to 4, cycle 0 or not, payloads below and above the UDP size |
| `campaign` | types, configurations fit, rows of their own iterations, completed campaigns reported | 3 runtimes, numbers 1 and 2, up to 2 iterations, 2 campaigns, 1 failing generator call |

Two containers are enough for the questions about the world, because containers share
only the manager: the second one is there to be in another state than the first.
ForkWait has four, so that a fork fails in the middle with launched containers above and
lost ones below. The overlay bound must exceed one where stacking is the question, and
there it does: with two, the faulty script that never unmounts is found out. Two rounds
are what it takes for one round to disturb the next. Two signals let the second arrive
while `stop()` runs.

In `events` two services let `stop` be in the middle of its loop; numbers up to 4, in
bytes that are bits, wrap within two turns of the loop and still fill three of the four
bytes; two starts show the number after a restart. `MaxQueue` bounds the callbacks the
library has queued before the environment waits, of which two are enough to have one
that is out of date; calls of a callback may add two for each service. In
`campaign` two runtimes share their files and one does not, and a second campaign with
more or fewer iterations finds the directories of the first. Its only failing generator
call may be any of them, after any number of files.

Four runs show a disagreement between the repository and its code, one property each:

* `flags_before_threads`: `main.cpp:497` demands that the flags are initialised before
  the threads start; `init()` starts the fifo thread first (141 against 153-155).
* `signal_ends_process`: a SIGTERM can leave the process running. Either it is handled
  before the signal thread waits (573), and nobody looks at `stop_application`; or
  `stop()` notifies (232) while the notify thread is between test and wait (390-391),
  and the join never returns. The run `service` shows that a settled service does stop.
* `run_unprepared`: the table of `execution-manager-config/README.md` (29) gives `run`
  all that is needed to set up a container; the code uses it only for `prepare`.
* `mount_data`: `batch_command.cc:69` wants the mount data to come from the JSON
  configuration; the loop at line 90 counts the characters of the first option instead
  of the options.

Deadlock is checked except in the service runs, where a process may rightly or wrongly
be stuck (with early signals or a failing `init` it can hang, which
`signal_ends_process` reports), in `events`, where a stopped client and a server at the
bound of its starts have nothing left to do, and in `campaign`, whose analysis ends.

Where the code does not keep what one would wish, the property says what becomes of it
instead of looking away:

* `StopReleasesAll` and `SubscriptionHasHandler`: `on_availability` can subscribe behind
  `stop`. What stays acquired, or is subscribed without a handler, is exactly what was
  acquired after `stop` had given that very thing back.
* `CycleFollowsMode`: a second message with mode 1, or one with a configured cycle of 0,
  loses the configured cycle time; from then on it is the changed one in every mode.
* `SendOnlyOffered`: in the middle of `stop` the notify thread still sees `is_offered_`
  set; one event can be sent for a withdrawn service.
* `ConfigsFit`: after a generator call that failed half way, a file may be one of an
  earlier number; only a file no call for this number wrote, and only of a target for
  which one failed.
* `RowsOwnIterations` and `CompletedCampaignReported`: a row can be missing when a longer
  campaign was aborted before and left a directory without logs, and the differences of
  that number then go into another row.
* `NoOrphanTask` and `SessionLeavesNothing`: a task outlives its record, or the session,
  when its deletion failed; these speak of the containers something went wrong for too.

Two provisos are left. `AtMostOneLateOffer`, `OfferThreadJoins` and `CleanShutdown` need
that `stop` did not overtake `init`, `CleanShutdown` also that the threads had reached
their waits; `signal_ends_process` shows what happens otherwise. `CleanShutdown` says of
a service with modes that it ends in `std::terminate`. The properties of Benchmark leave out containers something went
wrong for by itself: after a failed mount, or an application that stops too late, they
show that the neighbours do not suffer. No property covers what happens to that container
itself, as no document says what should.

### Fairness

* `ForkWait`: the manager is scheduled, and a container command ends, because the
  runtime detaches the application. Native children need not end.
* `Benchmark`, `CtrdSession`: script, manager and children are scheduled; a command ends
  well or with a fault. No application needs to stop.
* `VsomeipService`: weak fairness for each thread and none for the fifo thread, whose
  `open` may block for ever. A mutex is not fair: weak fairness of a thread does not
  help it when the mutex is free only from time to time.
* `EventSystem`: the dispatcher runs the callbacks in its queue (`WF(Dispatch)`);
  server, network and routing owe nothing. `EventuallySubscribed` needs no more, since
  it speaks of a registration and a service that stay.

## 4. The proofs

The proofs hold for all values of the constants: any number of containers, services,
signals, runtimes and iterations.

The inductive invariant of ForkWait is `IInv == TypeOK /\ LaunchedIsSuffix /\
NoChildLeftBehind`. `NoChildLeftBehind` speaks of `returned` states only; what keeps it
is that `WaitReturns` finds no child running or dead, and that nothing is launched
outside `forking`, where the suffix says which children exist. The suffix is what
refinement needs too: `Fork` is `Launch` of Batch only because the container at `nProc`
was not launched before. From it follow `TypeCorrect`, `LaunchedSuffix`,
`NothingLeftBehind` and `ForkWaitImplementsBatch`, whose step maps every action to a
step of Batch or to a stutter.

`ExecImplementsForkWait` is shown action by action, without an invariant: each command
step is a `ChildExit` or leaves the manager alone. With it the invariant of ForkWait is
carried over to ExecManager, and `ExecTypeCorrect` and `QuietAfterReturn` follow: a
child's step on a container needs a running child of a manager that waits, and there is
none between two batches. `ContainerdExec_proof` goes the same way for the gRPC calls:
`CtrdImplementsForkWait`, `CtrdTypeCorrect`, `CtrdQuietAfterReturn`.

`VsomeipService_proof` has one inductive invariant for five properties. `Locks` says
that who holds a mutex is where the code holds it, so that two threads are never both
between the lock and unlock of one mutex; `Threads` who can run yet; `Offered` what
stands behind `is_offered_` (a set flag means an offer thread in its loop, which is why
a flag left from before `init` must not survive, and the payload that `init` made under
`mutex_`); `Waits` that the notify thread enters its wait only with the flag unset;
`Signals` what a `stop` that did not overtake `init` knows: `running_` stays unset, and
the offer thread that has offered late finds that out at the end of its turn, as does
the notify thread after a late event.
`PayloadBeforeSend`, `SendOnlyOffered`, `NoLostOffer` and `AtMostOneLateOffer` are
consequences.

`Benchmark_proof` first shows that a benchmark is a behaviour of ExecManager
(`BenchImplementsExecManager`), so that all of the above holds in each round. Its
invariant then follows the containers nothing went wrong for. `At` is the state of mount
and container the script expects at each stage; both scripts of a round pass through the
same stages, `run` three at a time. `StageInv` says that such a container is at the
stage of this step while its child is not yet born or still running (or past the mount
of a `run`, `Mounted`), and at the next one when the child is dead; so the step of the
script that waits for the batch finds all of them there, whatever became of the others.
`CallInv` says which containers the batch is for: those below a failed fork are tainted,
and the others have been reaped when control returns. An application that ends without being killed, or is still
stopping when a sleep of the script is over, taints its container; the other ends are
those the script expects (`StopIsExpected`). `CommandsSucceed`, `TestsMeasureRunning`, `MountedOnce` and
`RoundsLeaveNothing` are consequences, and the reason why a container of a later, larger
round is clean is the last conjunct: outside the round it is at stage 1.

`CtrdSession_proof` goes the same way for every script in an order `Leads` allows.
Between two calls of one child a container is at none of the stages; `Before` says what
each call finds, `Left` which calls a child of each command may have left, and `Midway`
joins them. From these follow `SessionImplementsContainerdExec`, `CallsSucceed`,
`TestsMeasureRunning` and the first half of `NothingLeft`. The other half, and
`NoTaskOrphaned`, are about all containers, for which no stage holds. `DeletionInv` has
what does: the calls a child has left are an end of its command's program, and in
`killAndDeleteContainer` the task is gone, or its deletion has failed, or is still to
come (`ToDelete`), which is what keeps `deleteContainer` from removing the record first.

`EventSystem_proof`: what the calls of `stop` gave back is no longer held, unless it is
`late` (`GivenBack`); with all calls made that is everything. What `init` requested is
held until `stop` gives that very thing back (`HeldUntilRelease`); and as `Release` gives
back the subscription of a service first, its handler is there as long as the
subscription is, and one made behind that is `late`. `CycleKept` adds to
`CycleFollowsMode` what `cycleOld` holds in each mode.

`SystemTypeCorrect` needs two more. The counter is below the highest number whenever it
goes on, because `Send` wraps it (`StreamInv`). And the dispatcher's queue is bounded
although callbacks queue callbacks (`QueueInv`): a service that is requested already is
not reported again, the services not requested shrink with each report, and they grow
only when the connection is lost, for which the environment waits until there is room,
or when `stop` gives one back, which it does once. The attempt to prove the bound
`MaxQueue + NumServices`, which holds for the two services of the run, showed that it
does not hold for three: `stop` gives back a service, a callback requests it again and
has it reported again, one service after the other.

`JumpsAreLosses` rests on `NumberRead`: the four bytes `notify` writes are, to
`on_message`, the number they were made of. This is arithmetic for every `ByteBase` and
every number below its fourth power (`DividedTwice`, `Bytes`). `Numbered` is the
invariant: as long as nothing is lost, the event on its way follows the one that was
seen, and the counter follows the last event, itself or by one, depending on where
`notify` is in its loop and whether the mode held it.

`Analysis_proof`: `AllGenerated` says which targets have been generated for the current
number at each point of the loops, and whether each of its files was written or the
call failed; `DirsInv` which directories this campaign has filled, over whatever was
there; `WalkInv` that the list of differences has only those of numbers that got no row,
and that these numbers have an iteration without logs. In a completed campaign such an
iteration can only be left over, which is `CampaignReported`. `ConfigurationsFit`,
`RowsAreOwn` and `CampaignReported` hold for every list of runtimes and numbers; `Bounds`
and `RowsType` complete `CampaignTypeCorrect`.

The assumptions are those on the constants, named in the modules and evaluated by the
runs. Three of them are more than types: the rounds of a benchmark are not empty
(`max(config['num'])` fails on an empty list), the containerd session keeps the order
above, and the counter is smaller than four bytes can hold.

All invariants, refinements and action properties of the passing runs are proved. Only
model-checked is liveness (`EveryBatchReturns`, `BenchmarkEnds`, `SessionEnds`,
`OfferThreadJoins`, `CleanShutdown`, `EventuallySubscribed`): fairness and ENABLED are
beyond the prover. What `MountOptions` computes is evaluated by TLC on one file.

## 5. What is not modelled

* `batch_mount.c`: not called (its call is commented out in `main.c:148`).
* The text of configurations, command lines and logs. Of the parsers, more containers
  than the arrays hold and a file without containers: nothing says what should happen.
* gRPC itself, including the channel that is created before the forks; a refused, failed
  or answered call is what is left of it.
* The native kill of the benchmark by `ps` and `grep`: the model lets a caller start
  native applications again only when the old ones have ended.
* Data races as torn values: the flags are single bytes, so a race is modelled by the
  order of their reads and writes. The signal handler calling functions that are not
  async-signal-safe is not modelled.
* The vsomeip library, containerd, crun and the kernel, beyond what the code sees of
  them.
* Of the benchmark: pod, daemon, stress load, core and cgroup set-up. Of the generator:
  `bundle_helper.py` and `extract_layers.py`, and the loop that waits for a digest. Of
  the analysis: the search for time stamps and their arithmetic, and
  `analysis-containerd.py`, which averages one number per log.
* `service_ids.hpp` is a table of constants; recipes, patches of third-party code and
  Dockerfiles have no behaviour of their own.

## 6. Plan

1. The native kill and several runtimes in one round of the benchmark.
2. A configuration with indices and array bounds, should the repository come to say what
   the parsers do with one that is too long.
