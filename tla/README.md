# A verification model of interapps-runner

interapps-runner runs one interactive job of the CyVerse Discovery Environment
under HTCondor: it pulls the images, creates the data containers, downloads the
inputs, runs the step behind a proxy while it asks app-exposer to make it
reachable, uploads the outputs, and tells upstream over AMQP how the job is
doing. These modules model that program (`src/*.go`) in TLA+; TLC checks them on
small instances and TLAPS proves theorems about them.

## Inventory

| part | source | state it keeps | operations | works with |
|---|---|---|---|---|
| step runner | `run.go:374-628` `runAllSteps`, `ConfigureK8s` | derived context, `err`, `stepStatus`/`stepErr`, two channels, position of each goroutine | start the step, wait (select), clean up, return; poll, create, undo | proxy, step and config goroutines; docker-compose; app-exposer; upstream |
| app-exposer client | `k8s.go` | requests under way | POST and DELETE of endpoint, service, ingress under a context | app-exposer |
| job phases | `run.go:63-312, 630-657, 743-845` `Run` | `runner.status`, the current phase | one phase after the other, skipping on failure | docker clients, step runner, upstream |
| status updates | `status.go` | what upstream was last told | `running`, `fail`, `success`; `GetOutboundIP` | AMQP client |
| main life cycle | `main.go` | `job`, `client`, context, job file | start-up, signal callback, stop consumer, exit | all of them |
| exit | `exit.go` | exit channel | receive once, cancel | stop consumer |
| signal handling | `signal_handling.go` | signal channel (1 slot) | receive, quit | signal callback |
| ports | `ports.go` | ports tried | probe, choose | docker, which binds the port later |
| composition | `dcompose.go` | service map | `InitFromJob`, `ConvertStep`, URLs | docker-compose file, names used by `Run` |
| files | `fs.go` | job file, CSV summaries | write, copy, delete | image-janitor, network-pruner |
| working volume | `run.go:88-164, 291-312` | directories, ACLs | `Init`, ACL changes | setfacl |

What is hard in this code, and what correctness means there:

* **Goroutines that share `err`** (`run.go:391-525`). main, the proxy goroutine
  and the step goroutine assign one variable without a lock, and test it. Correct:
  no panic, the result of the step is the result of the step.
* **Two results and a cancellation race in one `select`** (`run.go:475-504`).
  Correct: the wait ends when it must, the result returned is the one of the event
  that ended it, nothing new starts afterwards.
* **Creation and deletion of Kubernetes resources race**, under a context that the
  deletion needs alive (`run.go:509-525, 585-625`). Correct: nothing routes to what
  is not there, a failed configuration is undone, nothing outlives a clean end.
* **Requests whose answer is lost** (`k8s.go:16-31`): a request given up on may be
  processed later.
* **Clients that can and cannot be cancelled** (`run.go:767-842`): a stopped job
  must end, and must still upload and inform.
* **Statuses of many phases folded into one** (`run.go:775-820`): upstream and the
  scheduler must be told the same thing, and a true one.
* **Process exits in the middle** (`status.go:24`, nil errors, nil publishers). Correct:
  image-janitor and network-pruner find the job of whatever `Run` left behind, until
  `main` removes the job file; it does that also when `Run` could not clean up.
* **Signals and stop requests at any moment** (`main.go:202-216, 419-429`, `exit.go`,
  `signal_handling.go`): a channel of one slot, an unbuffered one that is received from
  once, a callback that publishes beside `Run`. Correct: stopping stops, also when it
  comes before `Run` or a second time, and what upstream is told has a reason.
* **Names made up twice** (`dcompose.go`, `run.go`): the services `InitFromJob` writes are
  started by names that `Run` makes up again, and `main` ignores the error of
  `InitFromJob`.
* **The port probe** (`ports.go`) sees the probes of other runners. Correct: the search
  misses no port it could have had, ends, and leaves no listener.
* **`Init` stops half way** (`run.go:88-164, 756`), and `Run` goes on. Correct: what it did
  leave can be used, and nil means that everything is there.

`PROJECT.json` lists these hazards line by line with the properties about them.

## The modules

| module | what it is |
|---|---|
| `JobStatus` | update states, status codes, the `asyncReturn` record |
| `StepContract` | what `runAllSteps` promises to `Run` |
| `StepRunner` | `runAllSteps`, its goroutines and `ConfigureK8s`; refines `StepContract` |
| `StepRunnerInv` | the inductive invariant of `StepRunner` |
| `StepRunnerClaims` | what comments and log messages say of it, and the code does not do |
| `RunContract` | what `Run` promises to `main` |
| `JobSize` | the numbers of data containers and inputs of a job |
| `JobRun` | `Run`, over `StepContract`; refines `RunContract` |
| `JobRunInv` | the inductive invariant of `JobRun` |
| `JobWithSteps` | `JobRun` with `StepRunner` in the place of `StepContract`; refines `JobRun` |
| `SignalContract` | what a `SignalHandler` promises to `main` |
| `SignalHandling` | the channel and the goroutine of `SignalHandler`; refines `SignalContract` |
| `CallContract` | what a call of app-exposer promises to its caller |
| `HTTPCall` | `HTTPDo` with its goroutine and channel; refines `CallContract` |
| `Cancellation` | `SignalHandling`, the callback and `HTTPCall` together |
| `MainLifecycle` | `main` from its start to `os.Exit`, over `RunContract` and `SignalContract` |
| `MainLifecycleInv` | the inductive invariant of `MainLifecycle` |
| `WholeRunner` | the process: `MainLifecycle` with `JobWithSteps` and `SignalHandling` in the place of their contracts; refines `MainLifecycle` and `SignalHandling` |
| `Composition` | `InitFromJob` and `ConvertStep` |
| `Ports` | `AvailableTCPPort` of several runners, and docker |
| `WorkingVolume` | `JobRunner.Init`, its ACLs, and the files created afterwards |
| `*Proofs` | the theorems about the module of that name (`StepRunner`, `JobRun`, `Cancellation` with `HTTPCall` and `SignalHandling`, `MainLifecycle`, `WholeRunner` with `JobWithSteps`, `Composition`, `Ports`, `WorkingVolume`) |

How they fit together: `StepRunner` is proved to keep `StepContract`, `JobRun` uses only
that contract and is proved to keep `RunContract`, and `MainLifecycle` uses only
`RunContract` and `SignalContract`, which `SignalHandling` is proved to keep. That is
how TLC can check each of them. The parts do not only meet at those contracts: they
share the context, the process, and what upstream was last told, and a contract is
silent about containers, requests and the job file. `JobWithSteps` and `WholeRunner`
therefore put the real parts together, and it is proved that the whole is one of the
processes `MainLifecycle` describes (`RunnerImplementsMain`), its `Run` one of those
`JobRun` describes (`JobImplementsRun`). `CallContract` is the part of `StepRunner`'s
requests that `HTTPDo` is responsible for; `StepRunner` has its own requests, because it
also says what they create, so that tie is by reading and not by a proof.
`Composition`, `Ports` and `WorkingVolume` stand alone: what the others need of them is
that they may fail.

Definitions named `X_Something` next to a definition `X`, under a comment that says
"Mutant", are faulty versions of `X`. No module uses them: each shows that some
property notices when the code is wrong in that way (`PROJECT.json`, "mutants").

### StepRunner

`mpc` is main's place in `runAllSteps`: `idle`, in the `select`, between two DELETEs
(`cleanup`), waiting for one (`deleting`), reporting its error (`complaining`),
`returned`. `proxy`, `step` and `cpc` are the places of the three goroutines.
`err` is the shared variable and says where its value comes from. `cancelled` is
the derived context, `parentDone` the one that signals and stop requests cancel.
`call` has every HTTP request the code can make, identified by who makes it
(`configure` the POSTs, `rollback` the DELETEs of `ConfigureK8s`, `cleanup` those
of main) and its resource, and says whether it was sent and whether app-exposer
took it; `k8s` is what then exists.

One action per statement that another goroutine can see. A statement that stores
into `err` and tests it at once is one step, because the compiled code tests the
value it has just stored; every later read of `err` (the `err.Error()` of the three
reports, the `err` sent on `execChan`, the tests in the `select`) is a step of its
own, so the race has every outcome it can have. A request that is refused, whose
connection breaks, or that is given up on with the context is one disjunct: its
sender goes on with an error, and app-exposer may or may not take the request
later. A docker-compose client that fails may leave its container running: it was
killed with the context, or by something else, or it lost the daemon, which `cmd.Run`
(`run.go:227`) does not tell from a container that failed. `OrphanEnds` ends such a
container at some other time. `StepOutlives` has the reasons for which a container of the
step may then still write while `Run` uploads; one of them is that its client has failed
and `Run` counts the step as failed, and uploads what there is.

`NumResources` stands for the three resources, numbered in the order of their
creation; the code has 3. There is one step: `validateInteractive`
(`main.go:170`) refuses a job with more.

`ServerAccepts` (app-exposer) and `OrphanEnds` (docker) are external: all they
assume is what `runAllSteps` can observe.

### StepContract and RunContract

A caller of `runAllSteps` sees a call, Running updates, possibly the end of the
process, and one return: `(Success, nil)` or `(StepFailed, error)`, the second for
certain when the context was done at the call. `StepRunner!KeepsContract` states
the refinement, with the place of main folded into `idle`, `running`, `returned`
and the result hidden until the return. `FairContract` adds that the return comes
once the context is cancelled. `JobRun` uses the actions of the contract, so its
results hold for every implementation that keeps it.

`RunContract` is the same for `Run`: one final update, then one exit code that is
`Success` exactly when the update was Completed.

### JobRun

`rpc` is the phase, `index` the client within it (`data_0`, `data_1`, ...), `client`
whether a client is running, `status` is `runner.status`. `Following` is the order
of the phases, `Guarded` the ones under `if runner.status == messaging.Success`,
`Cancelable` the ones whose clients get the context, `Failure` the status a failed
client leaves. The image logins of `DockerLogin` are one client: they change
nothing and their error is only logged. Updates are published in the same step as
the start and the end of the client they are about.

### JobWithSteps

The actions of `JobRun` and of `StepRunner` side by side. `CallSteps` is `Run` calling
`runAllSteps`; `StepsWork` is everything `runAllSteps` and its goroutines do, also after
it has returned, while `Run` uploads, informs and removes. `ComposeDown` is where the two
touch the same containers: `docker-compose down` (`run.go:829`) removes those of the step
with the project, and one that fails may have removed some. `Run` reads the result of the
steps as soon as they have returned (`phaseBar`, `resultBar` are the places and the result
as the contract shows them).

### SignalHandling, HTTPCall and Cancellation

`signals` is the channel of one signal, to which the Go runtime sends without
waiting; `receiver` is the goroutine of `Receive`: at its `select`, in the signal
callback or in the quit callback. After the quit callback it is back at the `select`:
the `break` of `signal_handling.go:37` leaves the `select` and not the loop. `main` never
sends on the quit channel, the tests do; `SignalHandling` and its proofs let anyone, in
`Cancellation` and `WholeRunner` nobody does.

In `HTTPCall`, `caller`, `goroutine`, `c` and `server` say of each call where `HTTPDo` is,
where its goroutine is, what is in its channel, and what app-exposer knows. net/http is
external: it fails a request whose context is done, and gives up one that is on its
way. `Drain` is the receive after `ctx.Done()`: it drops what the goroutine sent, so
that a call whose request was accepted may return an error.

`Cancellation` runs both: `CallbackCancels` is the `cancel()` of the callback
(`main.go:207`), the `Cancel` of `HTTPCall` is any other one, such as that of `Exit`.

### MainLifecycle

`mpc` is main's place. The startup is one action per step that leaves something
behind: the variable `job`, the job file (created, then filled), the variable
`client` (connected, then perhaps ready to publish, because the error of
`SetupPublishing` is dropped), the goroutine of `Exit`, the consumer. `Fatal` is any
`log.Fatal` on the way; `ComposePanics` the panics of `ConvertStep`. The checks of
flags, configuration and job are one step. `hpc` is the place of the signal callback,
`stop` that of the consumer with each stop request, `exiter` the goroutine of `Exit`.
The callback, the consumer and main share `client` and `job` without a lock: each test
and each use is a step of its own. `Killed` is SIGKILL at any time, and any
signal before `signal.Notify`. `RunDies` includes a `Run` that ends in a panic before its
first update, because `NewJobRunner` failed and its error was only logged (`run.go:751-756`).

### WholeRunner

Four kinds of steps: `Job` (`Run` and all that it has started), `MainCallsRun`,
`MainGoesOn` (`main`, the consumer of stop requests, `Exit`, SIGKILL), `SignalHandled` (the
handler and its callback). `main`, `job`, `amqp` are the variables `mpc`, `job` and
`client` of `MainLifecycle`, renamed because the job has its own; what `MainLifecycle`
has of `Run`'s contract (`phase`, `announced`, `exitCode`) is computed here from the
place of the real `Run`. When the process ends, `Job` goes on with what is outside of it:
the containers, and the requests that app-exposer has still to take.

### Composition

`services` is the service map, with the container name and the `volumes_from` of each
service. The loops over data containers and inputs are one action per iteration;
`ResolveVolume` is the scan of the map, which meets its entries in any order and
keeps the last match. The step's JSON decides whether there is an environment, a
port, and URLs that parse: `Job` has every combination. `main` goes on after an error
(`Write`). The loop over steps is unrolled to the one step that `validateInteractive`
(`main.go:170`) admits.

### Ports

One search per runner: `rando`, `attempts` and `tried` are the variables of
`AvailableTCPPort`, `holder` says who listens on each port. The probe of `portOkay`
listens and closes, two steps between which another runner's probe fails. docker
binds the port later, or finds it taken; another process may have or take any port.
The random generator draws any port, which includes two runners that seed
theirs in the same second. `net.Listen` may fail although nobody has the port:
`portOkay` does not look at the error.

### WorkingVolume

`at` is the call `Init` is at. A `setfacl` is killed, or not started, when the context is
cancelled, and may have added its entry. `default` has the users of the default ACL:
`setfacl -m d:u:UID:rwx` sets the ACL of files created later, so each file remembers
the one it was born with, and the mode it was created with: POSIX makes the group bits of
that mode the mask of the inherited entries, and `Access` cuts them down to it.
`CreateMode` is the 0666 of `os.Create`; under a default ACL the umask does not count.
The owner of a file counts as able to read and write it, because he can change its mode.
Execution, directories made by containers, and what the group and world bits grant
other users are left out: a user may have more than `Access` says.
`result` names the call whose error `Init` returned. iplant.cmd never moves: `Rename` is
called when `Stat` fails (`run.go:157`). After `Init`, whatever it returned, the containers
create files, with any mode: a file created 0600 is shared with nobody, and one created
0644 is for reading only, whatever the ACL says.

## Runs

| run | instance | distinct states | shows |
|---|---|---|---|
| `step_safety` | 3 resources | 2.9 million | all safety properties of `runAllSteps` and its contract, in every interleaving |
| `step_returns` | 2 resources | 450,000 | `KeepsFairContract`: a stopped job leaves `runAllSteps` though nobody else ever moves; `StepEndReturns`: the end of the step ends it if requests end |
| `job_run` | 2 data containers, 2 inputs | 5,000 | what statuses and updates mean, order of phases, stopped jobs end |
| `main_lifecycle` | 2 stop requests, any number of signals | 120,000 | the job file, what upstream is told, and that stopping stops |
| `composition` | 3 volumes of 2 prefixes, 2 inputs | 9,300 | the services are those `Run` starts, volumes resolve to data containers |
| `ports` | 3 ports, 2 runners | 46,000 | the search is exhaustive, ends, leaves no listener |
| `working_volume` | 1 image user, 1 runner user, root | 64,000 | what those who share the volume can do with its files, what a nil of `Init` means |
| `cancellation` | 2 calls, 2 signals | 8,000 | no signal is lost, `HTTPDo` keeps its contract, a signal ends the calls |
| `claim_success` | 3 resources | | violated: a success of `runAllSteps` is a success of the step (`run.go:439`) |
| `claim_config_error` | 3 resources | | violated: a configuration error cancels (`run.go:491`) |
| `claim_cleanup` | 3 resources | | violated: the DELETEs reported done were sent (`run.go:525`) |
| `claim_cancelable` | 1 resource | | violated: `ConfigureK8s` is cancelable (`run.go:427`) |

The properties, in words, stand above their definitions. The four violated ones are
quoted from `run.go`; `PROJECT.json` "findings" says what each trace shows.

`JobWithSteps` and `WholeRunner` have no run among these: what they promise is proved, and
each of their parts has its runs. Before the proofs TLC explored `JobWithSteps` with one
resource and an empty or a one-element list of data containers and inputs in full (3.0
million states), with all its properties and both refinements; of `WholeRunner` all
states of one resource from the moment `main` calls `Run`, without signals, stop requests
and SIGKILL (1.5 million), and the first millions of those from the start with one
signal and one stop request. TLC also reaches the states that the exceptions in its
properties are for: a process that ended with a container running after the job file
was removed, and a job told Completed whose resources still exist.

**Bounds.** The state spaces are finite by themselves and TLC explores all of them; what
is bounded is the size of the inputs. Three resources is the number of the code; two
are enough for the liveness run, with a first and a last one, since every resource in
between is treated alike. Two data containers and two inputs give a first one that
succeeds and a second one that fails. Two stop requests are one more than `Exit`
receives; signals are unbounded because the channel drops what does not fit. Three
volumes of two prefixes make two data containers with the same name. Three ports for
two runners let one give up while the other probes, and let both draw the same
port. Empty lists and larger numbers are covered by the proofs, which hold for all.

**Deadlock** is not checked: the process may end at any time, a job may be done, and
the goroutines that are left behind block on channels nobody reads.

**Fairness.** `MainFair` (`StepRunner`): the Go scheduler runs the goroutine of
`runAllSteps` whenever it can go on by itself; a DELETE under a live context waits for
app-exposer and is not covered. `StepEndReturns` has `Answered` as its antecedent: each
such request ends with an answer or an error, which is an assumption on app-exposer
since `http.DefaultClient` has no timeout. `ConfigureFair` (`claim_cancelable`) lets the
goroutine of `ConfigureK8s` run and its requests end. `JobRun!FairSpec`: `Run` goes on
when it can, a stopped `runAllSteps` returns (its contract), clients that are not given
the context (`docker login`, the upload, `docker-compose down`, `docker network rm`) end,
and clients that are given it end once it is cancelled. `MainLifecycle!FairSpec`:
goroutines are scheduled, the update of a stop request ends, and a stopped `Run`
returns (`StopEndsRun`); nothing is assumed of the startup, which may wait for the
broker, nor of the callback's publishing. `Cancellation!RunnerSpec`: the
handler's goroutine takes a signal when it is at its `select` and there is one; the
callback reaches its `cancel()`; callers go on, and a request under a cancelled context
ends. Nothing makes the callback return or app-exposer answer. `Ports!FairSpec`: a
runner is scheduled and its generator draws an untried port in the end.

## Proofs

Every invariant of the runs is proved for all values of the constants, and so is every
safety contract. `StepRunnerProofs`, for every `NumResources` in `Nat \ {0}`
(`NumResourcesAssumption`):

* `TypeCorrect`. `TypeOK` is not inductive: the position of a goroutine that waits
  for a request must lie within the resources (`InRange`).
* `Safe`: `SafeInv` of `StepRunnerInv` is invariant. It says, at every moment, what
  main may conclude from the place it is in (`WhyEnded`: an ended wait with reason
  "exec" means that the step goroutine is done, "config" that the context is
  cancelled, and a DELETE is only under way when the step ended the wait and
  nothing was cancelled), what the two result records can be (`ExecResult`,
  `ConfigResult`), which of them main carries (`ResultInv`), and where a nil in
  `err` can come from (`NilErr`). `TypeNext` and `SafeNext` go through the actions
  one by one.
* `PanicOnlyAfterSuccess`, `SuccessIsExplained`, `StoppedBeforeStepHolds`: what follows
  from it. The first is why `NilErr` is needed: the nil that main's own DELETEs store
  is harmless because main only sends one after a success was already recorded.
* `ResourcesSafe`: `ResourceInv` is invariant as well. `PostInv` says that POSTs are
  sent one after the other, each when the one before was accepted, and that only an
  accepted POST makes a resource; `UndoInv` what `ConfigureK8s` has undone, counting down;
  `DeleteInv` what main has deleted, counting up, when `ConfigureK8s` was done before;
  `OutputInv` when the container of the step can be running without its client: only
  when that client has failed (`WhyOutlives` turns this into `StepOutlives`).
  `ResourcesInOrder`, `FailureIsUndone`, `NothingIsLeft` and `OutputsAreFinished` are
  the four properties that follow.
* `QuietAfterReturn`: the action property `NothingStartsAfterReturn`.
* `Refinement`: `Spec => KeepsContract`. `ContractNext` maps every action to one of
  the contract or to a stutter.

`JobRunProofs`, for every `NumData` and `NumInputs` in `Nat` (`NumDataAssumption`,
`NumInputsAssumption`), the empty lists included:

* `JobSafe`: `TypeOK` and `JobInv` of `JobRunInv` are inductive together. Neither is
  alone: that `index` stays within the phase needs `ClientInv` (a client runs only
  where one may), that `runner.status` is a status code needs `StepsInv` (what the
  steps can have returned). `DoneInv` ties the history `done` to the place of `Run`:
  the commands that succeeded in the current phase are those before `index`, and a
  phase still to come has none. `SuccessInv` and `FailureInv` say what each value of
  `runner.status` implies about the phases behind it, `InformInv` that the final
  update agrees with the status from then on. `MoveOn`, `PhaseDone` and
  `PhaseNotDone` are the lemmas about the end of a phase.
* `JobTypeCorrect`, `StepsHaveInputs`, `CompletionIsHonest`, `StatusIsExplained`: the
  properties of `job_run` that follow; `RunIsSilent`: the action property
  `SilentAfterFinal`.
* `RunRefinement`: `Spec => KeepsContract`. `RunMovesOn` is the step from one phase to
  the next, which is the return of `Run` after the last one.

`MainLifecycleProofs`, for every set of stop requests: `MainSafe` proves `MainInv`
invariant, which says what main has done from the place it is at (`PlaceInv`: from
the connection to the removal the job file is whole, so from the call of `Run`; `Exit` is there before any
consumer), what `Run` has answered (`RunInv`) and who has cancelled (`CancelInv`).
`AlwaysRecoverable`, `EarlyStopsFail`, `BlockedStopsHarmless`, `UpstreamIsExplained` follow.
`EarlyStopFails` needs `CancelInv`: a context that was cancelled early is one that
`Run`'s contract knows as stopped first.

`CompositionProofs`, for every set of prefixes and every `MaxVolumes` and `MaxInputs` in
`Nat` (`MaxVolumesAssumption`, `MaxInputsAssumption`): `NamesInv` has the exact set of
services at each loop, `ContainersInv` that a service with the container name of a
volume is a data container made for the same prefix, `ResolvedInv` the volumes
resolved so far. They give `CompositionComplete`, `VolumesAreResolved` and
`ErrorLeavesNoUpload`.

`PortsProofs`, for every range and every set of runners (`BoundsAssumption`,
`RunnerAssumption`): `AttemptsInv` says that `attempts` is the number of ports tried and
that the port being probed is not among them. `SearchIsExhaustive` is then a matter
of cardinalities, and `ListenersAreAccounted` is inductive with it.

`WorkingVolumeProofs`, for any users: `VolumeInv` says what `Init` has done from the
call it is at, with both entries in the ACL before `Init` makes the first file, and
`FileInv` who owns a file that `Init` made, with which mode, and that the ACL of every
file has both entries once `Init` has set them. `FilesAreShared` and `NilIsReady` follow.

`CancellationProofs`, for every set of signals and any number of calls:
`NoSignalIsIgnored` and `SignalRefinement` are about the handler, `GoroutineInv` says
that a channel is filled only by a goroutine that is done, and a nil only for an
accepted request; with it `NoGoroutineIsLeft` and `CallRefinement`, and then
`RunnerCallsSafe` and `RunnerHandlesSafe`: both components keep their promises when they
run together (`RunnerHandlerKeepsContract` is the refinement in the composition).

`WholeRunnerProofs`, for every number of resources, data containers, inputs, stop
requests and signals, and from the assumptions above, is about the parts together. It
proves no invariant of a part again: each part's module of proofs is instantiated at the
variables of the whole (`RunFacts`, `LifeFacts`; the `Same...` lemmas say that its
definitions are those of the composition), and each step of the whole is shown to be a
step of the part or to leave it alone.

* `StepsInJob`: `InJob` is invariant in `JobWithSteps`. Until `Run` calls `runAllSteps`, the
  step is as at the start (`Fresh`); from then on its inductive invariant holds
  (`StepsInv`). The two cases are needed: a context may be cancelled before the call,
  which `StepRunner` knows from its own start and `Run`'s earlier phases do not tell it.
  `StepsFrame` is the lemma that `Run`'s own steps, `docker-compose down` included,
  leave that invariant alone.
* `JobImplementsRun`, `JobKeepsContract`: the refinements. `WorkRefines` turns each step of the
  real `runAllSteps` into one of its contract.
* `CompletionIsExplained`, `UploadIsFinished`, `DownHasTheLastWord`, `FinalWordIsKept` need both
  invariants at once: what was done is `Run`'s knowledge, why a step counts as
  succeeded, what its container does and who still publishes is that of the steps.
  `DownInv` is inductive because nothing starts from the upload on (`StartsNothing`).
* `RunnerSafe`: `RunnerInv` is invariant in `WholeRunner`. It says that `main`'s invariant
  always holds, and the job's (`JobOK`) while the process is up: a process that was killed
  between two steps owes the job nothing. `BesideChanges` says what `main`, the handler
  and the consumer can do to the job: end the process, publish, or cancel.
* `RunnerImplementsMain`, `RunnerImplementsHandler`: the refinements, and
  `RunnerKeepsMainsPromises`, that the four invariants of `MainLifecycle` hold of the whole.
* `LeftoversAreFound`, `RequestsAreFound`, `EarlyStopsAreQuiet`, `CompletedIsTrue`,
  `PanicsAreExplained`, `LastWordIsExplained`: what no part can promise alone. The
  argument is the same for the invariants among them: they follow from `RunnerInv` while
  the process is up, and a process that has ended leaves everything they speak of as
  it was (`KeptOrFrozen`), but for containers that end by themselves and requests that
  were already sent.

The inductive invariants themselves are not listed in the runs, which check what
follows from them. Type correctness of the small modules (`SignalHandling`, `HTTPCall`,
`Composition`, `Ports`, `WorkingVolume`) is proved or part of a proved invariant, and so
is that of `MainLifecycle` (`MainTypeCorrect`); no run repeats it.

Remaining: the instance of `HTTPDo` for each request of `StepRunner` is by reading, as said
above, and so are the failures of `Composition`, `Ports` and `WorkingVolume` in `main`'s
`Compose` and in `Run`.

Only model-checked: liveness (`StepEndReturns`, `KeepsFairContract`, `StopEndsRun`,
`SignalCancels`, `StopCancels`, `StoppedProcessEnds`, `StopEndsCalls`,
`SearchEnds`), because fairness and ENABLED are out of the prover's reach.

## Seen while modelling, and not a run

Where comments or names say something else than the code does, but no property is
about it, or the code does it by a single statement:

* `Receive` goes on after a quit command: the `break` of `signal_handling.go:37` leaves the
  `select` and not the loop, although the quit callback logs "Signal handler is quitting"
  (`main.go:218`). `main` never sends on the quit channel, so the process never gets there.
* `main` removes the job file to "prevent image-janitor and network-pruner from continuously
  trying to clean up after the job" (`main.go:434`), also when `docker-compose down` or
  `docker network rm` failed (`run.go:829-842`, the errors are only logged): what they left
  is not found any more. `LeftoversFound` has that case as its exception.
* The default ACL is set "so that the current user will be able to manage files within it
  regardless of the uid of any containers" (`run.go:96-100`). A container that creates its
  files with 0600 or 0644 shuts the user out all the same; `FilesShared` says what is left.
* Goroutines that `runAllSteps` leaves behind may publish Running after the final update
  (`FinalWordIsKept` and `LastWordIsExplained` say which).
* `Run` "executes the job, and returns the exit code on the exit channel" (`run.go:743`): it returns it, and
  sends nothing on `exit`.
* The ACL of `AddWorkingVolumeACL` "is not a default ACL" (`run.go:293`), and the command is
  `setfacl -m d:u:...`.
* iplant.cmd is renamed exactly when it is not there (`run.go:157`).
* A port that `AvailableTCPPort` returns may be taken when docker binds it, and a port that
  another runner was only probing counts as taken (`ports.go:24`): the error "no
  available port found" can be wrong at once.
* After a `log.Fatal` behind `WriteJob` (`main.go:364`) the job file stays although nothing
  of the job was started.
* A step whose backend URL does not parse gets no proxy, `main` ignores the error
  (`main.go:388`), and the job fails only at its upload (`ErrorStopsUpload`).
* `log.Fatal` in `GetOutboundIP` (`status.go:24`) ends a running job without a final
  update, although `Run` is to "Always inform upstream of the job status"
  (`run.go:822`).

## Not modelled

* The text of updates and logs, the CSV summaries, image names, URLs, options and the
  volumes of a service: data without control. So is the default backend URL, which
  ignores a name of the container (`dcompose.go:528`), a container with a name of
  its own, and a name prefix "step-0", which would give a data container the default name
  of the step's (`dcompose.go:409, 473`).
* A publication that fails: `running` logs it, and `Run` ignores what `fail` and
  `success` return. `upstream` is what was published last, not what was delivered.
* The copying of the streams to files; the swap of stdout and stderr
  (`run.go:225-226`) changes no state the properties see.
* Flags and configuration, beyond that reading them may fail.
* `RemoveWorkingVolumeACL`, which nothing calls.
* docker, docker-compose, Kubernetes, app-exposer, the broker and net/http: external, and
  modelled as the outcomes their callers can observe.
