---------------------------- MODULE TestSession ----------------------------
(***************************************************************************)
(* The life cycle of a session: runTest (cli/cmd_testing.go) and           *)
(* runVMSetup (cli/cmd_vm_setup.go) acquire, one after the other, a        *)
(* directory, ports, swtpm, QEMU, the IPC server and the daemon files, run *)
(* the steps (StepRunner has them in detail), and release everything,      *)
(* after a failure of any stage by the closure cleanup.  vm-setup ends     *)
(* with a snapshot of the image QEMU has used.                             *)
(*                                                                         *)
(* Beside the session run QEMU, the monitor of its process, and the        *)
(* requests the IPC server handles.                                        *)
(***************************************************************************)
CONSTANT Requests       \* what clients may post to the IPC server

Options == [kind : {"test", "setup"}, tpm : BOOLEAN, noShutdown : BOOLEAN,
            keep : BOOLEAN]

VARIABLES
    opt,        \* command and flags of the session
    at,         \* the stage the session is at
    cleaning,   \* it is in the closure cleanup
    ctxDir,     \* directory: "none", "made", "removed", "stuck"
    deferred,   \* its removal is deferred to the return
    steps,      \* "none", "passed" or "failed"
    snap,       \* the snapshot has been saved
    outcome,    \* what the command returns: "none", "ok", "error"
    tpm,        \* swtpm: "none", "running", "stopped"
    qemu,       \* QEMU: "none", "running", "dying" (told to end), "exited"
    machine,    \* the session has a Machine
    conn,       \* its QMP connection is open
    done,       \* its channel done is closed
    ipc,        \* IPC server: "none", "serving", "draining", "closed"
    busy,       \* requests it is handling
    files       \* daemon files that exist

flowVars == <<at, cleaning>>
diskVars == <<ctxDir, deferred, files>>
endVars  == <<steps, snap, outcome>>
procVars == <<tpm, qemu, machine, conn, done>>
ipcVars  == <<ipc, busy>>
vars == <<opt, flowVars, diskVars, endVars, procVars, ipcVars>>

(* The stages before QEMU is started, each with the one that follows it.   *)
TestOrder  == [context |-> "ports", ports |-> "preboot",
               preboot |-> "output", output |-> "tpm", tpm |-> "args",
               args |-> "start"]
SetupOrder == [context |-> "preboot", preboot |-> "ports", ports |-> "tpm",
               tpm |-> "start"]

NextStage == IF opt.kind = "test" THEN TestOrder[at] ELSE SetupOrder[at]

Init ==
    /\ opt \in {o \in Options : o.kind = "setup" => ~o.keep}
    /\ at = "context" /\ cleaning = FALSE
    /\ ctxDir = "none" /\ deferred = FALSE /\ files = {}
    /\ steps = "none" /\ snap = FALSE /\ outcome = "none"
    /\ tpm = "none" /\ qemu = "none" /\ machine = FALSE /\ conn = FALSE
    /\ done = FALSE
    /\ ipc = "none" /\ busy = {}

-----------------------------------------------------------------------------
(* Start-up.                                                               *)

Go(stage) == at' = stage /\ UNCHANGED cleaning

(* Every failure once there is something to release.                       *)
CleanUp == at' = "shutdown_ipc" /\ cleaning' = TRUE

(* Loading the configuration or creating the directory may fail, the       *)
(* latter with the directory half made.                                    *)
CreateContext ==
    /\ at = "context"
    /\ \/ ctxDir' = "made" /\ Go(NextStage)
       \/ ctxDir' \in {"none", "made"} /\ Go("leave")
    /\ UNCHANGED <<opt, deferred, files, endVars, procVars, ipcVars>>

AllocatePorts ==
    /\ at = "ports"
    /\ \/ Go(NextStage) /\ deferred' = (opt.kind = "test")
       \/ Go("leave") /\ UNCHANGED deferred
    /\ UNCHANGED <<opt, ctxDir, files, endVars, procVars, ipcVars>>

(* Preboot steps, and the output directory of a test.                      *)
Prepare ==
    /\ at \in {"preboot", "output"}
    /\ Go(NextStage) \/ Go("leave")
    /\ UNCHANGED <<opt, diskVars, endVars, procVars, ipcVars>>

(* swtpm that does not offer its socket in time is killed again.           *)
StartTPM ==
    /\ at = "tpm"
    /\ \/ ~opt.tpm /\ Go(NextStage) /\ UNCHANGED tpm
       \/ opt.tpm /\ Go(NextStage) /\ tpm' = "running"
       \/ opt.tpm /\ CleanUp /\ UNCHANGED tpm
    /\ UNCHANGED <<opt, diskVars, endVars, qemu, machine, conn, done, ipcVars>>

(* The arguments of QEMU may not resolve.                                  *)
ResolveArgs ==
    /\ at = "args"
    /\ Go(NextStage) \/ CleanUp
    /\ UNCHANGED <<opt, diskVars, endVars, procVars, ipcVars>>

SpawnQemu ==
    /\ at = "start"
    /\ \/ Go("connect") /\ qemu' = "running"
       \/ CleanUp /\ UNCHANGED qemu
    /\ UNCHANGED <<opt, diskVars, endVars, tpm, machine, conn, done, ipcVars>>

(* A signal, or the command quit: the process will end, in its own time.   *)
TellToEnd == qemu' = IF qemu = "running" THEN "dying" ELSE qemu

(* A faulty variant: a QEMU that does not answer is left behind.           *)
StartMachineLeaks ==
    /\ at \in {"connect", "handshake"}
    /\ \/ /\ at = "connect" /\ qemu = "running"
          /\ Go("handshake") /\ UNCHANGED <<qemu, machine, conn>>
       \/ /\ at = "handshake"
          /\ Go("guest") /\ machine' = TRUE /\ conn' = TRUE
          /\ UNCHANGED qemu
       \/ CleanUp /\ UNCHANGED <<qemu, machine, conn>>
    /\ UNCHANGED <<opt, diskVars, endVars, tpm, done, ipcVars>>

(* Connecting and the handshake succeed, or QEMU is killed and there is no *)
(* Machine for cleanup to kill.  The handshake may be answered by a QEMU   *)
(* that has already gone.                                                  *)
StartMachine ==
    /\ at \in {"connect", "handshake"}
    /\ \/ /\ at = "connect" /\ qemu = "running"
          /\ Go("handshake") /\ UNCHANGED <<qemu, machine, conn>>
       \/ /\ at = "handshake"
          /\ Go("guest") /\ machine' = TRUE /\ conn' = TRUE
          /\ UNCHANGED qemu
       \/ CleanUp /\ TellToEnd /\ UNCHANGED <<machine, conn>>
    /\ UNCHANGED <<opt, diskVars, endVars, tpm, done, ipcVars>>

CreateGuest ==
    /\ at = "guest"
    /\ Go("ipc") \/ CleanUp
    /\ UNCHANGED <<opt, diskVars, endVars, procVars, ipcVars>>

StartServer ==
    /\ at = "ipc"
    /\ \/ Go("files") /\ ipc' = "serving"
       \/ CleanUp /\ UNCHANGED ipc
    /\ UNCHANGED <<opt, diskVars, endVars, procVars, busy>>

DaemonFiles == {"addr", "pid", "ssh", "vnc"}

(* The files are written in this order; a failed one may exist all the     *)
(* same, empty or half written.                                            *)
NextFile == IF "addr" \notin files THEN "addr"
            ELSE IF "pid" \notin files THEN "pid"
            ELSE IF "ssh" \notin files THEN "ssh" ELSE "vnc"

WriteDaemonFile ==
    /\ at = "files"
    /\ \/ /\ files' = files \cup {NextFile}
          /\ Go(IF NextFile = "vnc" THEN "steps" ELSE "files")
       \/ files' \in {files, files \cup {NextFile}} /\ CleanUp
    /\ UNCHANGED <<opt, ctxDir, deferred, endVars, procVars, ipcVars>>

-----------------------------------------------------------------------------
(* The steps and what follows them.                                        *)

(* The method Machine.Kill: close the connection, signal the process.      *)
Kill == conn' = FALSE /\ TellToEnd

(* A poweroff step kills QEMU and does not wait.                           *)
StepPowersOff ==
    /\ at = "steps"
    /\ Kill
    /\ UNCHANGED <<opt, flowVars, diskVars, endVars, tpm, machine, done,
                   ipcVars>>

(* A faulty variant: vm-setup does not look at the statuses.               *)
StepsEndUnchecked ==
    /\ at = "steps"
    /\ steps' \in {"passed", "failed"}
    /\ Go(IF opt.kind = "test" THEN "save" ELSE "quit")
    /\ UNCHANGED <<opt, diskVars, snap, outcome, procVars, ipcVars>>

StepsEnd ==
    /\ at = "steps"
    /\ steps' \in {"passed", "failed"}
    /\ IF opt.kind = "test" THEN Go("save")
       ELSE IF steps' = "passed" THEN Go("quit")
       ELSE IF opt.noShutdown THEN Go("hold") ELSE CleanUp
    /\ UNCHANGED <<opt, diskVars, snap, outcome, procVars, ipcVars>>

SaveResult ==
    /\ at = "save"
    /\ \/ Go(IF steps = "failed" /\ opt.noShutdown THEN "hold" ELSE "quit")
       \/ CleanUp
    /\ UNCHANGED <<opt, diskVars, endVars, procVars, ipcVars>>

(* --no-shutdown after a failure: wait until somebody ends QEMU.           *)
HoldEnds ==
    /\ at = "hold" /\ done
    /\ CleanUp
    /\ UNCHANGED <<opt, diskVars, endVars, procVars, ipcVars>>

(* Machine.Shutdown, if done is still open: write "quit"; if that fails,   *)
(* because somebody has closed the connection, or QEMU has closed it by    *)
(* ending, kill.                                                           *)
Quit ==
    /\ at = "quit"
    /\ \/ done /\ Go("shutdown_ipc") /\ UNCHANGED <<qemu, conn>>
       \/ ~done /\ conn /\ Go("quitting") /\ TellToEnd /\ UNCHANGED conn
       \/ /\ ~done /\ (~conn \/ qemu # "running")
          /\ Go("shutdown_ipc") /\ Kill
    /\ UNCHANGED <<opt, diskVars, endVars, tpm, machine, done, ipcVars>>

(* The response: success; or an error, possibly that of an earlier command *)
(* (QMPMachine), or the end of QEMU itself: kill and go on.                *)
QuitAnswered ==
    /\ at = "quitting"
    /\ \/ Go("exit_wait") /\ UNCHANGED <<qemu, conn>>
       \/ Go("shutdown_ipc") /\ Kill
    /\ UNCHANGED <<opt, diskVars, endVars, tpm, machine, done, ipcVars>>

ExitSeen ==
    /\ at = "exit_wait" /\ done
    /\ Go("shutdown_ipc")
    /\ UNCHANGED <<opt, diskVars, endVars, procVars, ipcVars>>

-----------------------------------------------------------------------------
(* Release: by cleanup after a failure, in the main flow otherwise.        *)

(* A faulty variant: cleanup stops swtpm while QEMU still runs.            *)
ShutdownIPCThenTPM ==
    /\ at = "shutdown_ipc"
    /\ \/ /\ ipc = "none"
          /\ Go("stop_tpm") /\ UNCHANGED ipc
       \/ ipc = "serving" /\ ipc' = "draining" /\ Go("shutdown_ipc")
       \/ /\ ipc = "draining" /\ busy = {}
          /\ ipc' = "closed"
          /\ Go("stop_tpm")
    /\ UNCHANGED <<opt, diskVars, endVars, procVars, busy>>

(* A faulty variant: http.Server.Close instead of Shutdown.                *)
CloseIPC ==
    /\ at = "shutdown_ipc"
    /\ \/ /\ ipc = "none"
          /\ Go("kill") /\ UNCHANGED ipc
       \/ /\ ipc # "none"
          /\ ipc' = "closed"
          /\ Go(IF cleaning THEN "kill" ELSE "stop_tpm")
    /\ UNCHANGED <<opt, diskVars, endVars, procVars, busy>>

(* http.Server.Shutdown: accept nothing more and wait, without a deadline, *)
(* for the requests under way.                                             *)
ShutdownIPC ==
    /\ at = "shutdown_ipc"
    /\ \/ /\ ipc = "none"
          /\ Go("kill") /\ UNCHANGED ipc
       \/ ipc = "serving" /\ ipc' = "draining" /\ Go("shutdown_ipc")
       \/ /\ ipc = "draining" /\ busy = {}
          /\ ipc' = "closed"
          /\ Go(IF cleaning THEN "kill" ELSE "stop_tpm")
    /\ UNCHANGED <<opt, diskVars, endVars, procVars, busy>>

KillMachine ==
    /\ at = "kill"
    /\ IF machine THEN Kill ELSE UNCHANGED <<conn, qemu>>
    /\ Go("stop_tpm")
    /\ UNCHANGED <<opt, diskVars, endVars, tpm, machine, done, ipcVars>>

(* Interrupt, wait for five seconds, kill.                                 *)
StopTPM ==
    /\ at = "stop_tpm"
    /\ tpm' = IF tpm = "running" THEN "stopped" ELSE tpm
    /\ Go("remove_files")
    /\ UNCHANGED <<opt, diskVars, endVars, qemu, machine, conn, done, ipcVars>>

(* The cleanup of vm-setup leaves the daemon files.                        *)
RemoveDaemonFiles ==
    /\ at = "remove_files"
    /\ files' = IF cleaning /\ opt.kind = "setup" THEN files
                ELSE files \ {"addr", "pid"}
    /\ Go(IF opt.kind = "setup" /\ ~cleaning THEN "snapshot" ELSE "leave")
    /\ UNCHANGED <<opt, ctxDir, deferred, endVars, procVars, ipcVars>>

SaveSnapshot ==
    /\ at = "snapshot"
    /\ snap' \in BOOLEAN
    /\ Go("leave")
    /\ UNCHANGED <<opt, diskVars, steps, outcome, procVars, ipcVars>>

(* Return: the deferred function removes the directory of a test.          *)
Leave ==
    /\ at = "leave"
    /\ ctxDir' \in IF deferred /\ ~opt.keep THEN {"removed", "stuck"}
                   ELSE {ctxDir}
    /\ files' = IF ctxDir' = "removed" THEN {} ELSE files
    /\ outcome' = IF \/ opt.kind = "test" /\ steps = "passed" /\ ~cleaning
                     \/ opt.kind = "setup" /\ snap
                  THEN "ok" ELSE "error"
    /\ Go("returned")
    /\ UNCHANGED <<opt, deferred, steps, snap, procVars, ipcVars>>

-----------------------------------------------------------------------------
(* Requests, QEMU and the monitor of its process.                          *)

(* A faulty variant: requests are accepted while the server shuts down.    *)
RequestAcceptedLate(r) ==
    /\ ipc \in {"serving", "draining"} /\ r \notin busy
    /\ busy' = busy \cup {r}
    /\ UNCHANGED <<opt, flowVars, diskVars, endVars, procVars, ipc>>

RequestAccepted(r) ==
    /\ ipc = "serving" /\ r \notin busy
    /\ busy' = busy \cup {r}
    /\ UNCHANGED <<opt, flowVars, diskVars, endVars, procVars, ipc>>

RequestEnds(r) ==
    /\ r \in busy
    /\ busy' = busy \ {r}
    /\ UNCHANGED <<opt, flowVars, diskVars, endVars, procVars, ipc>>

(* The action poweroff, posted over IPC.                                   *)
RequestPowersOff(r) ==
    /\ r \in busy /\ conn
    /\ Kill
    /\ UNCHANGED <<opt, flowVars, diskVars, endVars, tpm, machine, done,
                   ipcVars>>

(* QEMU ends: told to, crashed, closed by hand, or shut down by its guest. *)
QemuExits ==
    /\ qemu \in {"running", "dying"}
    /\ qemu' = "exited"
    /\ UNCHANGED <<opt, flowVars, diskVars, endVars, tpm, machine, conn, done,
                   ipcVars>>

(* A faulty variant: done is closed when QEMU is told to end.              *)
MonitorEarly ==
    /\ machine /\ qemu \in {"dying", "exited"} /\ ~done
    /\ done' = TRUE
    /\ UNCHANGED <<opt, flowVars, diskVars, endVars, tpm, qemu, machine, conn,
                   ipcVars>>

MonitorExit ==
    /\ machine /\ qemu = "exited" /\ ~done
    /\ done' = TRUE
    /\ UNCHANGED <<opt, flowVars, diskVars, endVars, tpm, qemu, machine, conn,
                   ipcVars>>

-----------------------------------------------------------------------------
Acquire == CreateContext \/ AllocatePorts \/ Prepare \/ StartTPM
           \/ ResolveArgs \/ SpawnQemu \/ StartMachine \/ CreateGuest
           \/ StartServer \/ WriteDaemonFile

Conclude == StepsEnd \/ SaveResult \/ HoldEnds \/ Quit \/ QuitAnswered
            \/ ExitSeen

Release == ShutdownIPC \/ KillMachine \/ StopTPM \/ RemoveDaemonFiles
           \/ SaveSnapshot \/ Leave

Session == Acquire \/ Conclude \/ Release

Returned == at = "returned" /\ UNCHANGED vars

Next ==
    \/ Session
    \/ StepPowersOff
    \/ \E r \in Requests : RequestAccepted(r) \/ RequestEnds(r)
                           \/ RequestPowersOff(r)
    \/ QemuExits \/ MonitorExit
    \/ Returned

Spec == Init /\ [][Next]_vars

(* The session runs: its steps end (StepRunner), QEMU answers the          *)
(* handshake and "quit" or ends, a QEMU that was told to end does, and     *)
(* requests end.  This last is assumed: file-upload, file-download,        *)
(* screenshot and sleep of the command line carry no timeout.              *)
(* Nobody has to close a QEMU that was left running for debugging.         *)
Fairness ==
    /\ WF_vars(Session) /\ WF_vars(MonitorExit)
    /\ WF_vars(qemu = "dying" /\ QemuExits)
    /\ \A r \in Requests : WF_vars(RequestEnds(r))

FairSpec == Spec /\ Fairness

-----------------------------------------------------------------------------
Stages == {"context", "ports", "preboot", "output", "tpm", "args", "start",
           "connect", "handshake", "guest", "ipc", "files", "steps", "save",
           "hold", "quit", "quitting", "exit_wait", "shutdown_ipc", "kill",
           "stop_tpm", "remove_files", "snapshot", "leave", "returned"}

(* Types; done is closed only when QEMU is gone, and only a Machine has a  *)
(* connection (the goroutine in StartMachine, cmd.Wait).                   *)
TypeOK ==
    /\ opt \in Options /\ at \in Stages /\ cleaning \in BOOLEAN
    /\ ctxDir \in {"none", "made", "removed", "stuck"}
    /\ deferred \in BOOLEAN /\ files \subseteq DaemonFiles
    /\ steps \in {"none", "passed", "failed"} /\ snap \in BOOLEAN
    /\ outcome \in {"none", "ok", "error"}
    /\ tpm \in {"none", "running", "stopped"}
    /\ qemu \in {"none", "running", "dying", "exited"}
    /\ machine \in BOOLEAN /\ conn \in BOOLEAN /\ done \in BOOLEAN
    /\ ipc \in {"none", "serving", "draining", "closed"}
    /\ busy \subseteq Requests
    /\ done => machine /\ qemu = "exited"
    /\ conn => machine

(* Whichever stage failed and whoever ended QEMU meanwhile, a session that *)
(* has returned has let go of everything: QEMU is gone or told to go,      *)
(* swtpm is stopped, the IPC server has no request left; a test has        *)
(* removed its daemon files and, once that was deferred, tried to remove   *)
(* its directory (cleanup and the end of runTest and runVMSetup).          *)
Released ==
    at = "returned" =>
        /\ qemu # "running" /\ tpm # "running"
        /\ ipc \in {"none", "closed"} /\ busy = {}
        /\ opt.kind = "test" => files \cap {"addr", "pid"} = {}
        /\ deferred /\ ~opt.keep => ctxDir # "made"

(* A command succeeds only if all its steps passed, and vm-setup exactly   *)
(* if it has saved the snapshot (the returns of runTest and runVMSetup).   *)
OutcomeTruthful ==
    at = "returned" =>
        /\ outcome # "none"
        /\ outcome = "ok" => steps = "passed"
        /\ opt.kind = "setup" => (outcome = "ok" <=> snap)

(* swtpm outlives QEMU and the requests: it is stopped only when QEMU is   *)
(* gone or has been told to go and no request is under way (the order of   *)
(* cleanup and of the end of runTest).                                     *)
StopOrder ==
    [][tpm = "running" /\ tpm' = "stopped"
       => qemu # "running" /\ ipc # "serving" /\ busy = {}]_vars

(* The snapshot holds a VM whose setup succeeded, with QEMU told to end,   *)
(* swtpm stopped, no request under way and no daemon announced             *)
(* (runVMSetup's order before qemu.SaveSnapshot).                          *)
SnapshotOfSetup ==
    [][snap' /\ ~snap
       => /\ opt.kind = "setup" /\ steps = "passed"
          /\ qemu # "running" /\ tpm # "running"
          /\ ipc = "closed" /\ busy = {} /\ "addr" \notin files]_vars

(* The session returns, unless QEMU was left running for debugging and     *)
(* nobody closes it (--no-shutdown).                                       *)
SessionEnds == <>[](\/ at = "returned"
                    \/ at = "hold" /\ qemu = "running")

(* qemu/snapshot.go: "SaveSnapshot creates a snapshot while QEMU is        *)
(* stopped": when qemu-img opens the image the process is gone.            *)
SnapshotOfStopped == [][at = "snapshot" /\ at' # at => qemu = "exited"]_vars
=============================================================================
