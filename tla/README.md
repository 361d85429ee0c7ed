# test-foundry: specification, model checking and proofs

test-foundry runs tests inside a virtual machine: it starts QEMU on a snapshot,
talks to it over QMP, runs the steps of a test through a guest connection,
watches for guest panics, and writes `test-result.json`. This directory holds
TLA+ models of its concurrent core and of the parts around it, the TLC
configurations that check them and TLAPS proofs about them. Paths below are
relative to `src/internal/` unless they begin with `src/`.

## 1. Inventory

| Component | State | Operations | Interacts with |
|---|---|---|---|
| QMP client, `qemu/machine.go`, `pvpanic.go`, `dump.go`, `reset.go` | socket, `respCh` (16), listener map and channels (1 each), `m.mu`, `m.done`, child guard | start and handshake, `eventLoop`, `Execute`, `SubscribeEvents`/unsubscribe, `WaitFor...`, `Shutdown`, `Kill`, exit monitor | everyone who touches the machine; QEMU |
| Step runner, `executor/runner.go` | `RunResult`, index, one goroutine and `doneCh` per action | `RunSteps`, `RunPanicSteps`, progress callback | actions, panic channel, context, result file |
| Panic handler, `executor/panic_handler.go` | `panicCh` | wait for the panic, pause, close the channel | QMP client, step runner |
| Test session, `cli/cmd_testing.go` | test context, TPM, machine, IPC server, daemon files, result | start in order, monitor, run, save, judge, shut down, clean up | all of the above |
| VM setup and destroy, `cli/cmd_vm_setup.go`, `cmd_vm_destroy.go` | VM context, snapshot | as the session, then snapshot | workspace, QMP client |
| Actions, `action/` | outputs | one `Execute` per action | guest, QMP client, IPC |
| IPC server and client, `ipc/` | HTTP server, temporary files | action, upload, download, screenshot, QMP passthrough | actions, QMP client |
| Guests and transports, `guest/` | cached ssh, SFTP and WinRM clients, one mutex per transport | exec, upload, wait for boot and OOBE, shutdown, reboot | guest OS |
| Workspace, `workspace/` | directory tree, daemon files, ports | create, load, destroy, create test context, allocate ports | session, setup |
| Configuration, `config/` | parsed YAML | load, merge includes, validate | session |
| Expressions, `expr/`, `action/expressions.go` | outputs by step id | resolve a string or a parameter tree | step runner |
| Preboot, `preboot/` | the image before boot | sequential steps | QCOW2 |
| QCOW2 access, `vfs/qcow2.go` | process with an NBD or raw view | aligned reads and writes | preboot |
| Command output capture, `action/exec.go` | bounded buffer | write | exec action |
| VNC capture, `vnc/capture.go` | connection, frame | handshake, rectangles | screenshot |
| Action commands, `cli/cmd_action.go` | none | one request each | IPC client |
| TPM and snapshot, `qemu/tpm.go`, `qemu/snapshot.go` | process of swtpm | start, stop, save | session, setup |
| QEMU command line, `qemu/config.go`, `display.go`, `tools.go`, `child_*.go` | none | arguments, probing a display | session |
| Logging, root command | none | formatting, flags | all |

What is hard in this code:

* **One reader, one mutex.** `eventLoop` is the only reader of the QMP socket;
  it needs `m.mu` to dispatch an event; `Execute` holds `m.mu` while it waits
  for what that reader will read. Responses have no id.
* **Lossy channels.** Listener channels hold one event, `respCh` sixteen
  responses; what does not fit is dropped.
* **Three goroutines decide about a step**: the action, the panic handler, the
  monitor that turns the exit of QEMU into a cancelled context. `select` picks
  any ready case, and an action that is turned away from goes on.
* **Partial failure**: saving progress may fail and is ignored until the last
  save; start-up fails half-way; clean-up uses contexts without a deadline.
* **A directory without a lock.** Several commands, any of which may crash,
  create, read and remove one VM's directory; ports are probed long before they
  are bound.
* **A guest that restarts behind cached clients.** A client of an earlier start
  looks like a connection; some calls to it have no deadline and are made under
  the transport's mutex.
* **Data in pieces**: output cut into chunks, uploads in commands whose exit
  code nobody reads, sectors read, patched and written back, files that two
  requests share.

`PROJECT.json` lists every such place under `hazards`, with the properties that
cover it, or a note that says why none does.

What makes each component correct:

* QMP client: a response belongs to its command, or lags in a bounded way; no
  listener channel is closed twice; nobody blocks past a deadline or past the
  exit of QEMU; an awaited event is seen.
* Step runner, handler and session: each step gets one status in order, the
  status tells what its action did, a panic is reported iff there was one, the
  verdict agrees with the file, the run ends.
* Workspace: a context that loads is whole; daemon files tell the truth about
  who serves; sockets conflict only where nothing but a lock could prevent it.
* Guests and transports: one connection per transport, success means that it
  happened, wait-boot waits for this boot, a call ends with its context.
* Session: whatever was started is stopped on every path, and a snapshot is
  only taken of a machine that is gone.
* IPC files, captured output, uploads, pictures, sectors: what arrives is what
  was sent, whole, or the call does not report success.
* Expressions, configuration: what they compute agrees with a definition of its
  own, written from what the steps put out and from the order of the files.
* Preboot: QEMU boots only from an overlay whose edits are all complete.

## 2. Modules

| Module | Role |
|---|---|
| `QMPMachine` | the QMP client and its callers |
| `QMPCalls` | the calls each kind of goroutine makes: the scripts of `QMPMachine` |
| `MCQMPMachine` | instances of `QMPMachine` for TLC |
| `QMPMachine_proofs` | theorems about `QMPMachine` |
| `TestOutcome` | abstract specification: what a test run promises about its result |
| `TestOutcome_proofs` | theorems about it |
| `StepRunner` | runner, panic handler, monitor, and the part of `runTest` that saves and judges; implements `TestOutcome` |
| `StepRunner_proofs` | invariants of the runner and the refinement proof |
| `TestSession` | the life cycle of `test` and `vm-setup`: acquire, run, release, snapshot |
| `TestSession_proofs` | theorems about it |
| `Workspace` | the directory of a VM, the commands that share it, their sockets |
| `MCWorkspace` | its symmetry, for TLC |
| `Workspace_proofs` | theorems about it |
| `GuestLink` | transports with their cached clients, guest operations, a guest that restarts |
| `MCGuestLink` | an instance for TLC: a test and a request |
| `GuestLink_proofs` | theorems about it |
| `ByteDisk` | abstract specification: an image as a row of bytes |
| `SectorDisk` | reads and writes of whole sectors; implements `ByteDisk` |
| `FileRequests` | files that travel over IPC, through temporary files |
| `ExecOutput` | output of a command on its way into `outputs.stdout` |
| `ChunkedUpload` | uploads over WinRM, command after command |
| `GuestData_proofs` | theorems about these four |
| `ScreenCapture` | the RFB client and the picture it assembles |
| `Expressions` | `${{ ... }}`: what a string becomes |
| `StepOutputs` | step ids, outputs and what later expressions read |
| `PrebootSteps` | edits of the overlay before QEMU starts |
| `Configuration` | include merging, validation, the connection of an image |
| `MCParts` | `SectorDisk` and the small modules after it, side by side in one instance |
| `StepData_proofs` | theorems about the modules from `ScreenCapture` on |

Which module composes which: `QMPMachine` runs the scripts of `QMPCalls`;
`StepRunner` implements `TestOutcome` by the identity mapping, `SectorDisk`
implements `ByteDisk`; `StepOutputs` and `PrebootSteps` evaluate with
`Expressions`. Where a module stands for another in one step (the panic
handler's pause in `StepRunner`, the steps in `TestSession`, the session in
`Workspace`), the finer module has it in detail.

### QMPMachine

A *client* is a goroutine that makes a fixed sequence of calls, its `Script`;
`pc[c]` is where it is inside the current call, `ip[c]` which call that is.
The scripts in `QMPCalls` are read off the functions that make the calls
(`DumpAction.Execute` is "execute a dump, then wait for DUMP_COMPLETED";
`PanicHandler.Start` is "wait for a panic, then pause within five seconds").

| Variable | Code |
|---|---|
| `mu` | holder of `m.mu` *between* steps; only `Execute` keeps it while it blocks. Short critical sections (subscribe, unsubscribe, dispatch, close) are single steps that need `mu = Nobody` |
| `respCh`, `chan[c]`, `listeners` | the channels and the listener map; capacities `RespCap` and 1 |
| `closes[c]` | how often a listener channel was closed: Go panics on the second time |
| `loop`, `hand` | where `eventLoop` is, and the event it has read but not dispatched |
| `wire`, `pending`, `armed`, `qemu` | QEMU: bytes written, commands unanswered, events that will follow, process state |
| `connOpen`, `done` | `qmpConn` not closed by `Kill`; `m.done` closed |
| `sent`, `mine`, `got`, `last`, `abandoned` | history for the properties: ids are given to commands in the order they are written and never read by an action of the code |

| Action | Code |
|---|---|
| `ExecuteWrite`, `ExecuteWriteError`, `ExecuteResponse`, `ExecuteGiveUp` | `Execute`: lock and write; its write error; the three branches of its select |
| `Subscribe`, `WaitEvent`, `WaitGiveUp`, `Unsubscribe` | `SubscribeEvents` and the loops of `WaitForPanic`, `WaitForReset`, `WaitForDumpCompletion` |
| `Kill`, `ExitSeen`, `ExitCancelled` | `Kill`; waiting on `m.done`, with or without killing when the context ends |
| `GuestCommand` | a reboot or shutdown command given inside the guest |
| `LoopRead...`, `DispatchEvent`, `CloseListeners` | `eventLoop`, `dispatchEvent`, `closeListeners` |
| `MonitorExit` | the goroutine that closes `m.done` |
| `Qemu...` | external: answers in order, writes events between or before answers, crashes, exits |
| `Expire` | external: a context or a call's own timeout ends |

QEMU may write the event of a command before its answer (it does so for STOP)
or at any later time.

### TestOutcome and StepRunner

`TestOutcome` has four variables (`results`, `presults`, `detected`, `verdict`)
and five actions: a step passes, fails, is skipped, a panic step ends, the run
is judged. `StepRunner` implements it: the same four variables, so the
refinement mapping is the identity, and every other step of the runner is a
stutter of the abstract one.

In `StepRunner`, `rpc` is the line the runner is at (`resolve` before
`ResolveParams`, `select` in the select statement, `grace` in the
`panic.action_delay` wait, `skip` in the skip loops, `save`/`write` inside the
callback, `panic_...` in `RunPanicSteps`, `conclude` in `runTest`). `act[i]` is
the goroutine of step *i*'s action: its result stays in its buffered `doneCh`
whether or not anybody takes it. `timedOut`, `released` and `ctx` together are
the step's context (`StepCtxDone`). `file` is `test-result.json`; a write
truncates it first (`Truncate`, then `Write` or `WriteError`). `handler`,
`notice` and `panicCh` are the panic handler as the runner sees it: its calls
to the machine are those of `QMPCalls!PanicHandler`, which `QMPMachine` runs in
detail, and its pause ends within five seconds whatever QEMU does, so here it
is one step (`HandlerSignals`). Parameters, outputs and error texts are
abstracted: whether resolving fails is a free choice (`StepRejected`).

### TestSession

`at` is the stage of `runTest` or `runVMSetup`, one stage per call that can
fail; `TestOrder` and `SetupOrder` are the two orders of the stages before QEMU
is started (they differ: vm-setup allocates ports after preboot, runTest
before). After that the stages have the same names for both commands, and the
differences are in the guards.

| Stages | Code |
|---|---|
| `context` ... `args` | directory, ports, preboot, output directory, `StartTPM`, arguments |
| `start`, `connect`, `handshake` | `StartMachine`: spawn, `connectQMP`, `handshake`; a QEMU that fails the last two is killed there, since there is no `Machine` yet |
| `guest`, `ipc`, `files` | `createGuest`, `ipc.StartServer`, the four daemon files in their order |
| `steps`, `save`, `hold` | `RunSteps` (one step here, `StepRunner` has it in detail), the final result, waiting under `--no-shutdown` |
| `quit`, `quitting`, `exit_wait` | `machine.Shutdown`: write, await the response, await the exit |
| `shutdown_ipc` ... `remove_files` | the closure `cleanup` if `cleaning`, else the end of the main flow |
| `snapshot`, `leave`, `returned` | `SaveSnapshot`, deferred functions, the return |

`qemu = "dying"` is a process that was told to end, by a signal or by `quit`,
and has not ended yet: `Kill` does not wait. `done` is closed by the monitor
only afterwards, so `IsRunning` may still say yes. `conn` is closed by `Kill`,
whoever calls it: the session, a poweroff step, a request. What QEMU answers to
`quit` may be an error although it will end, because a late response of an
earlier command may be taken for the answer (`qmp_stale`).

### Workspace

A process runs one command on one VM: `cmd[p]`, and `at[p]` is the file
operation it is about to make. `root` and `tests[p]` are the entries of the VM's
directory and of the directory of `p`'s test (its name holds the time in
nanoseconds, so no two tests share one; `--keep-test-context`, under which it
stays, is a flag of `TestSession` only); `addr` and `pid` say whose address and
number the daemon files hold, `sock` which sockets were probed, `bound` which
QEMU listens where. `found[p]` is the address or number a command has read and
may use later. The rest is history.

| Action | Code |
|---|---|
| `Stat`, `LoadContext`, `MakeDir`, `CreateFile` | `CreateContext`, `LoadContext`, `CreateTestContext`, file by file in the code's order (`NextFile`) |
| `Probe`, `Boot`, `PortTaken` | `AllocateRuntimeResources`, one resource each; QEMU binding everything at its start, or failing to |
| `WriteDaemonFile`, `SessionEnds`, `RemoveAddr`, `RemovePid`, `SaveSnapshot`, `RemoveTest` | the session, as far as its files go: all four daemon files are written, only `daemon.addr` and `daemon.pid` are removed again, so `ssh.port` and `vnc.port` (`PortFiles`) stay in the VM's directory |
| `ReadPid`, `KillDaemon`, `RemoveEntry` | vm-destroy: reading `daemon.pid`, `proc.Kill` of the number that was read, `os.RemoveAll` entry by entry. `os.FindProcess` and `Kill` are one step: the handle (a pidfd on Linux, a process handle on Windows) stays with the process it was opened on |
| `FindDaemon`, `Connect` | `NewClientFromWorkspace` and the first request |
| `Fail`, `Crash`, `ReuseNumber` | a call fails; the process dies anywhere; its number is given to a stranger |

### GuestLink

The steps of a test and the requests over IPC share one `Guest`, whose
transports (one, or one for commands and one for files) cache a client behind
`t.mu`. Each start of the guest has a number; `client[t]` is the start the
cached client was made in, so a client whose number is not `start` is dead
without the cache knowing. `at[u]` is where a caller is:

| Place | Code |
|---|---|
| `lock`, `dial`, `sftp` | `connectLocked` and `ensureSFTPLocked`: the mutex is held while dialing (ten seconds at most) and while SFTP starts (no deadline) |
| `session`, `run`, `reply` | `NewSession` (no deadline), the command in the guest, its exit status; the context kills the session |
| `remote`, `copy`, `written` | opening the remote file (no deadline), `io.Copy` under `watchContext`, closing the remote file (no deadline); for WinRM command after command, and its last answer |
| `tick` | the tickers of `WaitBoot` and `WaitOOBEComplete` |
| `probe`, `close`, `close_files` | `Reboot` and `Shutdown`: is the guest still there after an error, and `closeTransports` |
| `drain`, `drain_files` | `sftp.Close` inside `SSHTransport.Close` (`ssh.go:157`): under the mutex, until the receive loop of the session has ended (no deadline) |
| `gone` | the actions `reboot` and `shutdown` waiting for the RESET, or for the exit of QEMU, after the guest has obeyed |

What the guest does (`GuestGoesOn`, `SetupEnds`) is free: it restarts when
told, or by itself, panics and hangs at any time, also while it is stopping.
`CopyFile` lets an upload over WinRM end without the file being there: no exit
code is looked at, and an empty file sends no chunk (`winrm.go:179`, `:188`,
`:211`).

### The small modules

They share no state with each other; `MCParts` runs them side by side, one per
behaviour, and `part` says which.

* `SectorDisk`: `alignDown`, `alignUp`, `ReadAt` and `WriteAt` of
  `vfs/qcow2.go` (`Patch` reads the sectors and patches them, `Pwrite` writes
  them back); every call of the library may fail, a write half-way.
* `FileRequests`: handler and client of an upload, a download and a
  screenshot, block by block. `via` is the file the server uses, which for an
  upload is named after the uploaded file and is never removed; `target` the
  file the client writes.
* `ExecOutput`: `captureWriter.Write` returns the length it has kept, which
  `io.Copy` takes for a short write when a chunk crosses the limit; from then
  on nobody reads, and ssh lets the command write one window more. The exit
  code that a step expects is chosen at the beginning (`expect`).
* `ChunkedUpload`: the directory, then each chunk, is a PowerShell command of
  its own. `CommandEnds` covers those that fail in the guest: the exit code is
  not looked at.
* `ScreenCapture`: version, security types, result, `ServerInit`, messages,
  rectangles. The server chooses what it sends; what the code checks is a
  guard, and everything else that breaks the protocol is `CaptureFails`.
* `Expressions`, `StepOutputs`: a string is a sequence of texts and
  expressions. `stepOutputs` is `ActionContext.StepOutputs`; `vmconfig` the
  state behind `vmConfigOnce`; `EffectiveId` the numbering that panic steps
  begin again.
* `PrebootSteps`: one step at a time opens, truncates, writes, and only then
  looks at its context. A file holds the number of the step that wrote it,
  negated if the write was cut short. `FindEFIFAT32` chooses the partition.
* `Configuration`: pure operators. `ProcessIncludes`, `ValidTest` and
  `WithDefaults` are `LoadTestConfig`; `LoadConnection` is what
  `ImageConfig.validate` makes of a connection, `Forwards` what QEMU forwards,
  `Transports` what `createGuestTransports` builds.

## 3. Runs

| Run | Question | Result |
|---|---|---|
| `qmp_machine` | the panic handler and a panic step that powers off, beside a test that dumps and shuts the guest down: closing of listeners, lag and order of responses, `DeadlinesHold`, `ExitReleasesEveryone`, `WaitSeesEvent` | holds |
| `qmp_execute_stalls` | does a running QEMU's answer reach `Execute`? | violated |
| `qmp_stale` | does `Execute` return the response of its command? (handler, and a test that reboots the guest and ends with `Shutdown`) | violated |
| `qmp_dump_missed` | does the dump action see the completion of its dump? | violated |
| `runner_safety` | the runner implements `TestOutcome`; statuses, panics, verdict and file agree; one step at a time; the run ends | holds |
| `runner_panic_lost` | does a panic fail the current step? | violated |
| `session_lifecycle` | both commands, all flags, a failure at any stage, QEMU ending at any time, two requests: everything is released, in order; success is truthful; the session ends | holds |
| `session_snapshot` | is QEMU gone when the snapshot is taken? | violated |
| `workspace` | three commands of any kind on one VM's directory, file by file, with crashes, reused numbers and shared sockets: what loads is whole, daemon files are those of a setup, conflicts are races | holds |
| `guest_link` | a test and a request share the guest's transports, with every combination of methods, while the guest restarts, panics or hangs | holds |
| `exec_output_cut` | does a command pass whatever it prints beyond the limit? | violated |
| `parts` | the small modules: files over IPC, captured output, uploads, pictures, outputs and expressions, preboot edits, configurations, sectors | holds |

The properties of the passing runs:

* `ListenersOpen`: `unsubscribe` and `closeListeners` both close a listener
  channel and `dispatchEvent` sends on it; none closes or uses a closed one.
* `LagBound`: a returned response is never newer than its command, and older
  by at most the number of `Execute` calls that gave up.
* `ResponsesInOrder`: responses are returned in order, each once.
* `DeadlinesHold`: a caller with a deadline ends although it may need `m.mu`
  while others hold it (the panic handler's pause holds it for five seconds if
  a STOP event comes first).
* `ExitReleasesEveryone`: the exit of QEMU releases every blocked call.
* `WaitSeesEvent`: if the next event is the one a wait wants and its slot is
  free, the wait ends, even if the event loop has to wait for `m.mu` first.
  This is as far as the code keeps that promise: with a slot taken by another
  event the wanted one is dropped (`qemu/machine.go:342`).
* `StatusTruthful`, `PanicReal`, `VerdictSaved`, `OneStepAtATime`, `RunEnds`,
  and `OutcomeSpec`, the refinement.
* `Released`, `StopOrder`: what the session acquired is gone when it returns,
  whichever stage failed; swtpm is stopped after QEMU and the requests.
* `OutcomeTruthful`, `SnapshotOfSetup`: a command succeeds only with passed
  steps; a snapshot is saved only of such a setup, with everything else quiet.
* `SessionEnds`: the session returns, except under `--no-shutdown` as long as
  nobody closes QEMU.
* `ConfigTellsComplete`: `config.json` is the last file of `CreateContext`, so a
  context that `LoadContext` accepts is whole, whatever crashed and however
  many vm-setups got past `os.Stat` together, until a vm-destroy begins.
* `DaemonFilesOfSetups`: daemon files in the VM's directory are those of a
  vm-setup that serves, is ending, or has failed or crashed. vm-destroy kills a
  stranger only under a number that such a failure or crash left there, or, and
  this with nothing having failed, under that of a vm-setup that came to its end
  after vm-destroy had read `daemon.pid` and before it killed (`overtaken`).
* `ConflictOnlyByRace`: QEMU finds a socket taken only if another QEMU bound it
  after it was probed, or two probes of one session returned the same port.
  "Another QEMU" is the model's host: there, other programs and the IPC servers
  (`ipc/server.go:34`, an ephemeral port each) bind no sockets; on a real host
  they may take a probed port in the same way.
* `QuietMeansWhole`: when no command is at work and none has failed or crashed,
  the directory is a complete context with the `ssh.port` and `vnc.port` of its
  vm-setup, or is not there, and `daemon.addr`, `daemon.pid` and directories of
  tests are gone. Every overlap of commands that leaves less shows as a failure
  of one of them. The port files stay because nothing but vm-destroy removes
  them; no command reads them.
* `OneConnection`: a transport has one connection per cached client and no
  other, although callers race for it and others close it.
* `SuccessTruthful`: a command, a download, and an upload over ssh that reports
  success was carried out, and wait-oobe ends after the setup did, whichever
  connection was lost, closed by another caller or cancelled on the way. Uploads
  over WinRM are excepted: they may report success without the file.
* `BootTruthful`: wait-boot succeeds only after it saw the guest up, as long as
  the test is alone with a guest that restarts when told. `meddled` names what
  else there may be: requests, a guest that restarts or hangs by itself, a
  reboot whose step failed. Then a cached client of an earlier start may answer
  at once.
* `CallsEnd`: a call whose context has ended ends, unless the guest hangs while
  the call waits for it where no deadline applies (`HeldByGuest`: starting or
  closing SFTP, opening a session or a file, a reply or a file whose closing
  waits for the other end), or while the holder of the mutex it needs does
  (`Stuck`). Dialing or between two attempts of a wait it ends even then.
* `DeliveredWhole`, `ShortOnlyIfShared`: a request delivers exactly its own file
  or reports an error, unless another request uses the same file meanwhile; it
  is cut short only then, or if client and server mean one file by two paths.
* `OutputUpToLimit`: as long as a command prints no more than the limit, which
  it may reach exactly, its step does not fail for its output, however it is cut
  into chunks, and captures all of it; of more a step that passes has the first
  bytes. That more output should do no harm either is `OutputDiscarded`, which
  does not hold (`exec_output_cut`).
* `UploadWhole`: a successful upload over WinRM has put the whole file in the
  guest, unless a command failed there, or the file is empty.
* `PictureTruthful`: each pixel of the update is at its place, later rectangles
  over earlier ones, and blank exactly where the update did not reach. The
  reference (`Shown`) numbers the pixels the other way round than the code.
* `ExpressionsOfSteps`: an expression stands for the output of the last step
  executed under its id, failed or not, in either list; no step meets the error
  that the arguments of QEMU may have left in `vmConfigOnce`.
* `BootsAsEdited`: QEMU boots only from an overlay in which each step passed in
  time, each file is whole and as its last step wrote it, on the EFI partition
  if there is a readable one.
* `MergesInOrder`: preboot steps, steps and panic steps are those of the main
  file if it has any, or else of the last include that has some, each with its
  timeout (thirty seconds for a preboot step without one); so is the serial log;
  extra arguments of QEMU are appended, the main file's first. The last is what
  the code does and not what the documentation says: see below.
* `ConnectionsReady`: a connection that passes validation gives every transport
  credentials and a forwarded port.
* `BytesAsWritten`: the refinement of `ByteDisk`.

The violations, and what a reader of the code should know of them:

* **Late responses** (`qmp_stale`). `stop` makes QEMU write STOP before its
  answer, so the handler's pause runs into its five seconds
  (`qmp_execute_stalls`), its response stays in `respCh`, and every command
  after it returns the response of the one before: in the run, the `quit` of
  `Shutdown` gets the response of the pause. A failed dump is reported by the
  next command.
* **Subscribing too late** (`qmp_dump_missed`). The dump action subscribes
  after `Execute` has returned (`action/dump.go:42`); the reboot action has the
  same order with RESET (`action/reboot.go:26`).
* **A panic may be lost** (`runner_panic_lost`). If the action is finished and
  the panic channel is closed, `select` chooses; if the action wins and the
  step is the last one, the run passes.
* **A snapshot of an image in use** (`session_snapshot`). `Kill` sends a signal
  and returns. If `Shutdown` fails, which it does when a poweroff step was the
  last one of the setup and the process is still ending, nothing waits for the
  exit before `qemu-img` opens the image.
* **Long output** (`exec_output_cut`). `action/exec.go:46` says that what is
  beyond the limit is silently discarded, and `src/docs/test-definition.md:189`
  that exec captures up to 4 KB. A chunk that crosses the limit is written
  short, which ends the copying with an error: a command that exits with 0 then
  fails, and one that prints more than the window of ssh besides never ends
  before the step's timeout. A chunk that ends exactly at the limit does no harm,
  and from then on the rest is discarded.

Seen while modelling, and visible in the models as what the properties have to
except:

* The exit that a shutdown step waits for also cancels the context of the run;
  `RunSteps` may see that first and record the step as failed.
* A failed vm-setup leaves `daemon.addr` and `daemon.pid`; runTest writes them
  into the directory of the test, where no client looks (`ipc/client.go:35`).
* A test accepts the `config.json` of a setup that is still running or that
  failed before its snapshot. `RestoreSnapshot` is called by no command; `test`
  reads the image through a new overlay instead.
* `os.WriteFile` truncates the result before writing, so a reader in between
  finds an empty file.
* Panic steps run beside an action that was left behind, and their default ids
  overwrite those of the test's steps.
* A step whose action ignores its context (WinRM, SFTP start and close,
  `NewSession`) outlives its timeout, since the select has no branch for it.
* `action file-upload`, `file-download`, `screenshot` and `sleep` send no
  timeout; the server's clean-up waits for such a request. No request ever
  fills `ExecResponseData`, so `action exec` prints no output.
* `src/docs/test-definition.md:63-72` lists `qemu.extra_args` among the values
  for which later includes win and the main file always wins;
  `config/test.go:85` and `:113` append those of all files. `MergesInOrder` and
  the theorem `MergeInOrder` say what the code does.
* A vm-destroy that has read `daemon.pid` may find, when it kills, that the
  vm-setup has ended in between and its number belongs to a stranger.
* `SSHTransport.Close` closes the SFTP client under the mutex and without a
  deadline: with a hung guest, `reboot` and `shutdown` and whoever needs the
  transport after them wait.
* wait-boot while the guest is still stopping, or after a reboot step that
  failed, may be answered by a client of the start before.
* A WinRM upload reports success although a command of it failed, and an empty
  file leaves an earlier one in place.

## 4. Bounds, and why they are enough

* `qmp_machine`: two callers make every kind of call. The test has a deadline,
  the handler none but its pause's own timeout, so that both `Execute`s can give
  up, a response can be late by one, and one caller can keep the other from
  `m.mu`; `RespCap = 1` makes the full channel happen at once (16 in the code:
  only the comparison with the capacity matters); `MaxEvents = 1` spontaneous
  message (panic or garbage) besides the events the calls lead to, so both
  listeners, a full slot and an ill-timed dispatch all occur; QEMU may answer
  with an error. That responses can be late by more, and that more callers
  compete, is covered by the theorems about `LagBound`, `ResponsesInOrder` and
  `ListenersOpen`, for any callers, scripts and events; the liveness properties
  have been checked with these two callers only.
* `runner_safety`: three steps (first, middle, last), two panic steps, the last
  step a shutdown; disk errors at any save; timeouts, panic, exit at any time.
* `session_lifecycle`: all flags, both commands; two requests, so that one may
  end while another is under way. Nothing else is bounded: a session is finite.
* `workspace`: three processes are the least in which two commands overlap and a
  third finds what they left; the instance has ssh for commands and files, so a
  session needs one port and one display, and with two of each two sessions race
  for both and a third finds none; firmware variables and no TPM. Three are also
  enough for a vm-destroy that has read the number of a vm-setup which then
  ends, and for the host giving that number away. Processes and ports are
  interchangeable, which the symmetry uses. That two probes of one session
  return the same port takes two methods, and with ports for two such sessions
  the instance grows beyond use: that case of `ConflictOnlyByRace`, TPM and QMP
  over TCP are covered by the theorems.
* `guest_link`: the test makes two calls out of wait-boot and reboot, the
  request one out of wait-oobe, exec and upload, with one or two transports of
  either kind; two starts of the guest make a cached client stale. More calls
  and starts bring nothing new to the safety properties: the theorems hold for
  any number. `CallsEnd` has been checked on this instance only.
* `parts`: an image of two sectors of two bytes makes every alignment happen;
  two requests over two paths and two blocks, so that files are shared and
  half-written; a limit of 3 bytes, chunks up to 3, a window of 4 and 9 bytes of
  output, so that a command passes, is cut short and waits for a reader;
  pictures up to 2 by 2 and two rectangles that overlap or reach beyond; three
  chunks (first, middle, last); two steps of each list and three preboot steps,
  so that one file is added twice and fetched in between; two includes, each
  with and without every field. Requests and paths are interchangeable
  (`Symmetry`): only `FileRequests` has them, it names none and compares them
  for equality only, and no liveness is checked. These behaviours end, so this
  run does not check deadlock.
* The violation runs use the smallest instance in which the fault occurs.
* `AllEnded`, `Finished`, `Returned` and `AllDone` keep a finished behaviour
  from counting as a deadlock, so every run but `parts` and `exec_output_cut`
  checks deadlock: there a finished output has no next step.

## 5. Fairness

* Goroutines are weakly fair. Taking `m.mu` is strongly fair: `sync.Mutex`
  hands the lock to a waiter that has starved for a millisecond. This covers
  `Execute`, subscribe, unsubscribe, dispatch and close.
* `GuestLink`: code that can run does (weak); taking a mutex is strongly fair as
  above, and so is `WaitTimesOut`, since a `select` between a ticker and an
  ended context does not choose the ticker for ever. Calls into the ssh
  packages are fair only while the guest is not hung: closing a session, a file
  or an SFTP client frees them only if the other side answers or is gone. So
  the closing of a transport is fair as far as the mutex goes (`CloseCommand`,
  `CloseFiles`), and what it waits for there (`CommandDrained`, `FilesDrained`)
  is not while the guest hangs.
* `Workspace` and `parts` claim safety only and assume no fairness.
* QEMU answers commands, writes the events they lead to, and exits once told
  to; it is not obliged to crash or to speak of its own accord.
* A deadline that exists passes (`Expire`, `StepTimeout`).
* An action that looks at its context returns once that is done; steps in
  `Stubborn` need not, and `RunEnds` is claimed for `Stubborn = {}` only.
* In `TestSession`: the steps end (`StepRunner`), QEMU answers the handshake and
  `quit` or ends, requests end. The last is true of requests that carry a
  timeout, or that wait for something that ends; those of `file-upload`,
  `file-download`, `screenshot` and `sleep` carry none and can keep `cleanup`
  waiting, which is listed as a hazard.
* Nothing is assumed of the guest or of the disk.

`DeadlinesHold` needs every `Execute` to be bounded by somebody's deadline:
one `Execute` without one can hold `m.mu` for good (`qmp_execute_stalls`).

## 6. Proofs

All theorems hold for every value of the constants, under the named
assumptions: `ClientsAssumption` (scripts are non-empty sequences of calls, the
free mutex is no client), `QemuAssumption` (a positive capacity, spontaneous
events are events), `ParametersAssumption` (sizes are naturals, flags are
Booleans), `WorkspaceAssumption` (no process and no socket is `None`, displays
are numbers), `GuestAssumption` (the test is a user, users make finitely many
calls, the guest may start at least once), `DiskAssumption` (the image is whole
sectors), `OutputAssumption` and `UploadAssumption` (sizes are naturals),
`RequestsAssumption` (a file has at least one block, and "none" is no path),
`CaptureAssumption` and `PrebootAssumption` (the bounds of TLC's instance are
naturals), `StepOutputsAssumption` (so are they and the ids, and a string is a
sequence of its parts). TLC evaluates them on the passing runs.

* `QMPMachine_proofs`. The inductive invariant `IInv` joins `TypeOK` with
  - `LockInv`: `m.mu` is held between steps by the client that awaits a
    response and by nobody else. Without it two commands could be in flight;
  - the order of ids (`RespOrder`, `WireOrder`, `PendingOrder`): ids grow from
    `respCh` through the socket to the unanswered commands and are greater than
    the last one returned. Dropping a response (full channel, QEMU gone) keeps
    this, so `ResponsesInOrder` follows (`OrderCorrect`);
  - `LagInv`: commands sent are at most the last response, plus the abandoned
    calls, plus one if `m.mu` is held. `LagBound` follows (`LagCorrect`), and
    with no abandoned call `OwnResponse` (`OwnResponseUntilGiveUp`): giving up
    is the *only* cause of the stale responses of `qmp_stale`;
  - `ListenersOpen`, inductive with the type invariant (`ListenersCorrect`).

  Frame lemmas (`ListenFrame`, `QueueFrame`, `GhostFrame`) say once which
  actions touch which variables; the cases of the invariants use them.
* `TestOutcome_proofs`. `ShapeCorrect` and `PassCorrect`: at most one failure,
  passed steps before it, skipped ones after; pass means that all steps passed
  without a panic.
* `StepRunner_proofs`. `PlaceInv` ties the place of the runner (`At`, which
  looks through a save in progress) to the index and the number of statuses;
  `ActionInv` to the actions that were started; `FailureInv` says why a run is
  not a success; `PanicInv` follows a panic from the guest to the runner;
  `SavedInv` ties the verdict to the last save. From these: `TypeCorrect`,
  `StatusCorrect`, `PanicCorrect`, `SavedCorrect`, `OneStepCorrect`,
  `Refinement` (`Spec => OutcomeSpec`), and `RunShape`, which carries the
  theorems of `TestOutcome` over.

* `TestSession_proofs`. `QemuInv`, `FlowInv`, `IpcInv`, `FileInv` and `StepsInv`
  say what may still be held at each stage; each is kept by every step given
  the types and one or two of the others, and at `returned` they are `Released`
  and `OutcomeTruthful`. `StopOrder` and `SnapshotOfSetup` follow because only
  one action stops swtpm or saves the snapshot, and the invariant describes its
  stage.

* `Workspace_proofs`. `CmdInv` says which command a stage belongs to; `FilesInv`
  that, while nothing is being destroyed, a vm-setup at a stage of
  `CreateContext` has in the directory what comes `Before` that stage, and
  `config.json` comes with everything. It is needed because a second vm-setup
  may be at an earlier stage of the same directory: it only adds. `RaceInv` says
  that a probed socket which is bound by now makes its owner `raced`. From
  these: `TypeCorrect`, `ConfigCorrect`, `ConflictCorrect`. `DaemonFilesCorrect`
  needs `ReadInv` beside the types: a number that vm-destroy has read and not
  yet killed is that of a vm-setup which serves, ends, has failed or crashed, or
  has removed the file since, and is then `overtaken`. For `QuietCorrect`
  (`QuietMeansWhole`) every overlap of the four commands has to be followed: as
  long as nobody removes anything and nothing has failed or crashed (`Smooth`),
  the directory is absent, or whole, or about to become so (`WholeInv`): the
  overlay is the first file that `CreateContext` puts, so as long as it is
  missing whoever made the directory is still to put it, and once it is there,
  some vm-setup that has in the directory all that comes before its stage puts
  the rest (`Completing`). `PublishInv` adds the port files: a whole context has
  them, or some vm-setup is still to put those that are missing (`Publishing`).
  `EntriesInv` and `TestsInv` keep foreign entries and leftovers of tests out.
* `GuestLink_proofs`. `PlaceInv` ties places to operations; `LinkInv` says that
  who dials, starts or ends SFTP holds the mutex, and that there is no client
  while somebody dials, without which `OpenInv`, the count of connections, could
  not be kept; `SuccessInv` carries what the guest has done from `GuestRuns` or
  `CopyFile` to the success, but for uploads over WinRM. `AloneInv` is the
  argument for wait-boot: while nothing has meddled, only the test is at work,
  and a client of an earlier start is cached only from the moment the guest
  obeys a reboot until the transports are closed, in which the test is inside
  that call. From these: `TypeCorrect`, `ConnectionsCorrect`, `SuccessCorrect`,
  `BootCorrect`, for any users, calls and starts.
* `GuestData_proofs`, what travels to and from the guest and its image.
  - `OutputInv`: what was read is kept up to the limit, and copying stops only
    with more read than that (`OutputCorrect`, of `OutputUpToLimit`).
  - `UploadInv`: unless a command failed, the guest's file holds the chunks
    before the next one (`UploadCorrect`).
  - `DiskInv` says that the buffer of a write holds, for the sectors it touches,
    the bytes of the image with the data in place (`BufferCorrect`). So writing
    any part of it back changes only bytes that were asked for, and each step
    maps to one of `ByteDisk` or a stutter (`Refinement`), for every sector size.
  - `RequestsInv`, for files over IPC: handler and client are never further
    apart than the protocol allows (`InStep`); a request that is not `crossed`
    shares no file with another one that may still use it (`Apart`); and as
    long as that is so, the handler's file, the response and the client's file
    are each a beginning of what was asked for (`Prepared`, `Answered`,
    `Received`). The exception is a client that writes the file the handler
    sends: it empties it, the rest cannot be sent, and that is the only way for
    an uncrossed download to end short. From these `DeliveryCorrect` and
    `ShortnessCorrect`, for any number of requests, paths and blocks. `Apart` is
    kept only because a request counts as active until *both* ends have ended: a
    handler that has sent everything leaves a client that still writes its file.
* `StepData_proofs`, what steps and sessions work from.
  - `CaptureInv`: from the first message on the picture is what the rectangles
    so far show (`PictureCorrect`). One rectangle paints exactly its pixels
    because row and column of a position are unique (`RowAndColumn`).
  - `StepsInv`: `stepOutputs` has the ids of the steps that have run, each with
    the output of the last one (`LatestAfter`), and the machine's configuration
    is not remembered as missing unless the session ended on it
    (`ExpressionsCorrect`).
  - `PrebootInv`: where the command and its step are (`StageInv`), and that as
    long as no step has failed each file of the EFI partition is as the last
    step that added it left it, except the one being overwritten, and so is what
    was fetched, as of the step that fetched it (`EditsInv`). `BootsAsEdited`
    follows at the boot, when no step is under way (`PrebootCorrect`).
  - Merging is a fold over the includes, so its theorem needs an induction over
    their number. The library's induction theorems take an operator; the lemma
    `Induction` states it of a set instead, by the least number outside of it,
    and is applied to the set of the *n* for which the equation of the fold has
    a solution (`MergesExist`, `FlattensExist`) or up to which an equality
    holds. `FoldOfIncludes` then gives the rounds of the loop, in which a field
    is that of the last include that has it (`LaterIncludesWin`) and arguments
    add up (`ArgumentsAddUp`). `MergeInOrder` says so for any definition with
    any includes, preboot steps and their timeouts among its fields,
    `MergeCorrect` for those of the run.
  - `ConnectionReady`: a connection that validation accepts, whatever its
    methods and ports, gives each transport credentials and a forwarded port;
    `ConnectionsCorrect` for those of the run.

Every invariant and action property that a passing run checks is the statement
of a theorem. Only model-checked are the liveness properties (`DeadlinesHold`,
`ExitReleasesEveryone`, `WaitSeesEvent`, `RunEnds`, `SessionEnds`, `CallsEnd`),
since the prover does not handle fairness or ENABLED; and the violated
properties, which need a behaviour and not a proof. What evaluating one
expression gives (`Expressions`) is not the subject of a theorem of its own:
`ExpressionsOfSteps` compares it with what the steps have put out.

## 7. Not modelled

* The inside of connecting to QEMU and of the QMP handshake (`connectQMP` tries
  again until its context ends): in `TestSession` each is one step that fails
  or succeeds. The child guard: it does nothing on Unix, and on Windows closes
  a job object, which two concurrent calls of `Kill` may do twice
  (`qemu/machine.go:330`).
* `/status` of the IPC server, which only reads; `Seek` of `vfs/qcow2.go`, which
  moves an offset nothing reads; `RestoreSnapshot`, which nothing calls; the
  subcommands of `action` that pass flags on and print the answer.
* Fields of an image that are checked or defaulted one by one, YAML decoding,
  QEMU arguments other than ports and display, PNG encoding, directories of the
  FAT file system, logging, the root command: formatting, or the libraries'.
* The content of commands, results, steps and errors, except where a property
  tells them apart.
* Memory-model effects: `m.exitErr` is written before `m.done` is closed and
  read after, and the other shared data are behind `m.mu` or `t.mu`.

## 8. What would come next

* The two models of the panic, `QMPMachine` with the handler's script and
  `StepRunner` with its channel, as one specification: today the pause of the
  handler is one step of the runner.
* The retries of `connectQMP`, against a QEMU that is slow to listen.
* A second VM beside the first in `Workspace`: only the sockets are shared, and
  the processes of one VM already compete for them.
