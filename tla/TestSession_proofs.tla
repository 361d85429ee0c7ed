------------------------- MODULE TestSession_proofs -------------------------
(***************************************************************************)
(* Theorems about TestSession, for any set of requests.                    *)
(***************************************************************************)
EXTENDS TestSession, TLAPS

(* Groups of stages: before QEMU runs, before the IPC server runs, while   *)
(* both run, and the release of what was acquired.                         *)
Early     == {"context", "ports", "preboot", "output", "tpm", "args", "start"}
BeforeIPC == Early \cup {"connect", "handshake", "guest", "ipc"}
Up        == {"files", "steps", "save", "hold", "quit", "quitting",
              "exit_wait"}
Over      == {"snapshot", "leave", "returned"}
Late      == Over \cup {"stop_tpm", "remove_files"}
Releasing == {"shutdown_ipc", "kill", "stop_tpm", "remove_files"}

(* The parts of TypeOK: data, Booleans, and what ties the fields of a       *)
(* Machine together.                                                       *)
DataOK ==
    /\ opt \in Options /\ at \in Stages
    /\ ctxDir \in {"none", "made", "removed", "stuck"}
    /\ files \subseteq DaemonFiles
    /\ steps \in {"none", "passed", "failed"}
    /\ outcome \in {"none", "ok", "error"}
    /\ tpm \in {"none", "running", "stopped"}
    /\ qemu \in {"none", "running", "dying", "exited"}
    /\ ipc \in {"none", "serving", "draining", "closed"}
    /\ busy \subseteq Requests

FlagOK ==
    /\ cleaning \in BOOLEAN /\ deferred \in BOOLEAN /\ snap \in BOOLEAN
    /\ machine \in BOOLEAN /\ conn \in BOOLEAN /\ done \in BOOLEAN

HandleOK ==
    /\ done => machine /\ qemu = "exited"
    /\ conn => machine

LEMMA TypeParts == TypeOK <=> DataOK /\ FlagOK /\ HandleOK
  BY DEF TypeOK, DataOK, FlagOK, HandleOK

(* The parts of the inductive invariant: what a session may still hold at  *)
(* each stage.                                                             *)
QemuInv ==
    /\ at \in Early => qemu = "none"
    /\ at \in Late \cup {"quitting", "exit_wait"} => qemu # "running"
    /\ at \in {"shutdown_ipc", "kill"} /\ ~cleaning => qemu # "running"
    /\ qemu = "running" /\ ~machine => at \in {"connect", "handshake"}

FlowInv ==
    /\ cleaning => at \in Releasing \cup {"leave", "returned"}
    /\ at = "kill" => cleaning
    /\ at \in {"output", "args", "save"} => opt.kind = "test"
    /\ at \in {"context", "ports", "preboot", "output", "tpm"}
       => tpm = "none"
    /\ at \in Over \cup {"remove_files"} => tpm # "running"

IpcInv ==
    /\ busy # {} => ipc \in {"serving", "draining"}
    /\ at \in BeforeIPC => ipc = "none"
    /\ at \in Up => ipc = "serving"
    /\ at \in Late \cup {"kill"} => ipc \in {"none", "closed"}
    /\ at \in Releasing \cup {"snapshot"} /\ ~cleaning => ipc # "none"

FileInv ==
    /\ at \in BeforeIPC => files = {}
    /\ at \in Over /\ opt.kind = "test" => files \cap {"addr", "pid"} = {}
    /\ at = "snapshot" => opt.kind = "setup" /\ "addr" \notin files
    /\ at = "returned" /\ deferred /\ ~opt.keep => ctxDir # "made"

StepsInv ==
    /\ /\ opt.kind = "setup" /\ ~cleaning
       /\ at \in {"quit", "quitting", "exit_wait"} \cup Releasing
       => steps = "passed"
    /\ at = "snapshot" => steps = "passed"
    /\ snap => steps = "passed" /\ at \in {"leave", "returned"}
    /\ OutcomeTruthful

IInv == TypeOK /\ QemuInv /\ FlowInv /\ IpcInv /\ FileInv /\ StepsInv

(* What follows a stage of the start-up.                                   *)
LEMMA NextStageFact ==
    ASSUME opt \in Options,
           at \in {"context", "ports", "preboot", "output", "tpm", "args"},
           at \in {"output", "args"} => opt.kind = "test"
    PROVE  /\ NextStage \in Early \ {"context"}
           /\ at \in {"context", "ports", "preboot", "output"}
              => NextStage \in {"ports", "preboot", "output", "tpm"}
           /\ at \in {"tpm", "args"} => NextStage \in {"args", "start"}
           /\ NextStage \in {"output", "args"} => opt.kind = "test"
  BY DEF NextStage, TestOrder, SetupOrder, Early, Options

LEMMA NextFileFact == NextFile \in DaemonFiles
  BY DEF NextFile, DaemonFiles

(* QEMU runs only where the stage allows it.                               *)
LEMMA QemuStep ==
    ASSUME HandleOK, QemuInv, FlowInv, [Next]_vars
    PROVE  QemuInv'
  <1> USE DEF HandleOK, QemuInv, FlowInv, diskVars, endVars, procVars, ipcVars,
         flowVars, Go, CleanUp, Late, Over, Releasing, Early
  <1>1. CASE CreateContext
    BY <1>1, NextStageFact DEF CreateContext
  <1>2. CASE AllocatePorts
    BY <1>2, NextStageFact DEF AllocatePorts
  <1>3. CASE Prepare
    BY <1>3, NextStageFact DEF Prepare
  <1>4. CASE StartTPM
    BY <1>4, NextStageFact DEF StartTPM
  <1>5. CASE ResolveArgs
    BY <1>5, NextStageFact DEF ResolveArgs
  <1>6. CASE SpawnQemu
    BY <1>6 DEF SpawnQemu
  <1>7. CASE StartMachine
    BY <1>7 DEF StartMachine, TellToEnd
  <1>8. CASE CreateGuest
    BY <1>8 DEF CreateGuest
  <1>9. CASE StartServer
    BY <1>9 DEF StartServer
  <1>10. CASE WriteDaemonFile
    BY <1>10, NextFileFact DEF WriteDaemonFile
  <1>11. CASE StepsEnd
    BY <1>11 DEF StepsEnd
  <1>12. CASE SaveResult
    BY <1>12 DEF SaveResult
  <1>13. CASE HoldEnds
    BY <1>13 DEF HoldEnds
  <1>14. CASE Quit
    BY <1>14 DEF Quit, Kill, TellToEnd
  <1>15. CASE QuitAnswered
    BY <1>15 DEF QuitAnswered, Kill, TellToEnd
  <1>16. CASE ExitSeen
    BY <1>16 DEF ExitSeen
  <1>17. CASE ShutdownIPC
    BY <1>17 DEF ShutdownIPC
  <1>18. CASE KillMachine
    BY <1>18 DEF KillMachine, Kill, TellToEnd
  <1>19. CASE StopTPM
    BY <1>19 DEF StopTPM
  <1>20. CASE RemoveDaemonFiles
    BY <1>20 DEF RemoveDaemonFiles
  <1>21. CASE SaveSnapshot
    BY <1>21 DEF SaveSnapshot
  <1>22. CASE Leave
    BY <1>22 DEF Leave
  <1>23. CASE StepPowersOff
    BY <1>23 DEF StepPowersOff, Kill, TellToEnd
  <1>24. ASSUME NEW r \in Requests, RequestAccepted(r)
        PROVE  QemuInv'
    BY <1>24 DEF RequestAccepted
  <1>25. ASSUME NEW r \in Requests, RequestEnds(r)
        PROVE  QemuInv'
    BY <1>25 DEF RequestEnds
  <1>26. ASSUME NEW r \in Requests, RequestPowersOff(r)
        PROVE  QemuInv'
    BY <1>26 DEF RequestPowersOff, Kill, TellToEnd
  <1>27. CASE QemuExits
    BY <1>27 DEF QemuExits
  <1>28. CASE MonitorExit
    BY <1>28 DEF MonitorExit
  <1>29. CASE UNCHANGED vars
    BY <1>29 DEF vars
  <1> QED
    BY <1>1, <1>2, <1>3, <1>4, <1>5, <1>6, <1>7, <1>8, <1>9, <1>10,
       <1>11, <1>12, <1>13, <1>14, <1>15, <1>16, <1>17, <1>18, <1>19,
       <1>20, <1>21, <1>22, <1>23, <1>24, <1>25, <1>26, <1>27, <1>28,
       <1>29
    DEF Next, Session, Acquire, Conclude, Release, Returned

(* Cleaning up, the kind of session and swtpm agree with the stage.        *)
LEMMA FlowStep ==
    ASSUME DataOK, FlowInv, IpcInv, [Next]_vars
    PROVE  FlowInv'
  <1> USE DEF DataOK, FlowInv, IpcInv, diskVars, endVars, procVars, ipcVars,
         flowVars, Go, CleanUp, Late, Over, Releasing, Early
  <1>1. CASE CreateContext
    BY <1>1, NextStageFact DEF CreateContext
  <1>2. CASE AllocatePorts
    BY <1>2, NextStageFact DEF AllocatePorts
  <1>3. CASE Prepare
    BY <1>3, NextStageFact DEF Prepare
  <1>4. CASE StartTPM
    BY <1>4, NextStageFact DEF StartTPM
  <1>5. CASE ResolveArgs
    BY <1>5, NextStageFact DEF ResolveArgs
  <1>6. CASE SpawnQemu
    BY <1>6 DEF SpawnQemu
  <1>7. CASE StartMachine
    BY <1>7 DEF StartMachine, TellToEnd
  <1>8. CASE CreateGuest
    BY <1>8 DEF CreateGuest
  <1>9. CASE StartServer
    BY <1>9 DEF StartServer
  <1>10. CASE WriteDaemonFile
    BY <1>10, NextFileFact DEF WriteDaemonFile
  <1>11. CASE StepsEnd
    BY <1>11 DEF StepsEnd
  <1>12. CASE SaveResult
    BY <1>12 DEF SaveResult
  <1>13. CASE HoldEnds
    BY <1>13 DEF HoldEnds
  <1>14. CASE Quit
    BY <1>14 DEF Quit, Kill, TellToEnd
  <1>15. CASE QuitAnswered
    BY <1>15 DEF QuitAnswered, Kill, TellToEnd
  <1>16. CASE ExitSeen
    BY <1>16 DEF ExitSeen
  <1>17. CASE ShutdownIPC
    BY <1>17 DEF ShutdownIPC
  <1>18. CASE KillMachine
    BY <1>18 DEF KillMachine, Kill, TellToEnd
  <1>19. CASE StopTPM
    BY <1>19 DEF StopTPM
  <1>20. CASE RemoveDaemonFiles
    BY <1>20 DEF RemoveDaemonFiles
  <1>21. CASE SaveSnapshot
    BY <1>21 DEF SaveSnapshot
  <1>22. CASE Leave
    BY <1>22 DEF Leave
  <1>23. CASE StepPowersOff
    BY <1>23 DEF StepPowersOff, Kill, TellToEnd
  <1>24. ASSUME NEW r \in Requests, RequestAccepted(r)
        PROVE  FlowInv'
    BY <1>24 DEF RequestAccepted
  <1>25. ASSUME NEW r \in Requests, RequestEnds(r)
        PROVE  FlowInv'
    BY <1>25 DEF RequestEnds
  <1>26. ASSUME NEW r \in Requests, RequestPowersOff(r)
        PROVE  FlowInv'
    BY <1>26 DEF RequestPowersOff, Kill, TellToEnd
  <1>27. CASE QemuExits
    BY <1>27 DEF QemuExits
  <1>28. CASE MonitorExit
    BY <1>28 DEF MonitorExit
  <1>29. CASE UNCHANGED vars
    BY <1>29 DEF vars
  <1> QED
    BY <1>1, <1>2, <1>3, <1>4, <1>5, <1>6, <1>7, <1>8, <1>9, <1>10,
       <1>11, <1>12, <1>13, <1>14, <1>15, <1>16, <1>17, <1>18, <1>19,
       <1>20, <1>21, <1>22, <1>23, <1>24, <1>25, <1>26, <1>27, <1>28,
       <1>29
    DEF Next, Session, Acquire, Conclude, Release, Returned

(* The IPC server accepts and handles requests only at its stages.         *)
LEMMA IpcStep ==
    ASSUME DataOK, FlowInv, IpcInv, [Next]_vars
    PROVE  IpcInv'
  <1> USE DEF DataOK, FlowInv, IpcInv, diskVars, endVars, procVars, ipcVars,
         flowVars, Go, CleanUp, Late, Over, Releasing, Early, BeforeIPC, Up
  <1>1. CASE CreateContext
    BY <1>1, NextStageFact DEF CreateContext
  <1>2. CASE AllocatePorts
    BY <1>2, NextStageFact DEF AllocatePorts
  <1>3. CASE Prepare
    BY <1>3, NextStageFact DEF Prepare
  <1>4. CASE StartTPM
    BY <1>4, NextStageFact DEF StartTPM
  <1>5. CASE ResolveArgs
    BY <1>5, NextStageFact DEF ResolveArgs
  <1>6. CASE SpawnQemu
    BY <1>6 DEF SpawnQemu
  <1>7. CASE StartMachine
    BY <1>7 DEF StartMachine, TellToEnd
  <1>8. CASE CreateGuest
    BY <1>8 DEF CreateGuest
  <1>9. CASE StartServer
    BY <1>9 DEF StartServer
  <1>10. CASE WriteDaemonFile
    BY <1>10, NextFileFact DEF WriteDaemonFile
  <1>11. CASE StepsEnd
    BY <1>11 DEF StepsEnd
  <1>12. CASE SaveResult
    BY <1>12 DEF SaveResult
  <1>13. CASE HoldEnds
    BY <1>13 DEF HoldEnds
  <1>14. CASE Quit
    BY <1>14 DEF Quit, Kill, TellToEnd
  <1>15. CASE QuitAnswered
    BY <1>15 DEF QuitAnswered, Kill, TellToEnd
  <1>16. CASE ExitSeen
    BY <1>16 DEF ExitSeen
  <1>17. CASE ShutdownIPC
    BY <1>17 DEF ShutdownIPC
  <1>18. CASE KillMachine
    BY <1>18 DEF KillMachine, Kill, TellToEnd
  <1>19. CASE StopTPM
    BY <1>19 DEF StopTPM
  <1>20. CASE RemoveDaemonFiles
    BY <1>20 DEF RemoveDaemonFiles
  <1>21. CASE SaveSnapshot
    BY <1>21 DEF SaveSnapshot
  <1>22. CASE Leave
    BY <1>22 DEF Leave
  <1>23. CASE StepPowersOff
    BY <1>23 DEF StepPowersOff, Kill, TellToEnd
  <1>24. ASSUME NEW r \in Requests, RequestAccepted(r)
        PROVE  IpcInv'
    BY <1>24 DEF RequestAccepted
  <1>25. ASSUME NEW r \in Requests, RequestEnds(r)
        PROVE  IpcInv'
    BY <1>25 DEF RequestEnds
  <1>26. ASSUME NEW r \in Requests, RequestPowersOff(r)
        PROVE  IpcInv'
    BY <1>26 DEF RequestPowersOff, Kill, TellToEnd
  <1>27. CASE QemuExits
    BY <1>27 DEF QemuExits
  <1>28. CASE MonitorExit
    BY <1>28 DEF MonitorExit
  <1>29. CASE UNCHANGED vars
    BY <1>29 DEF vars
  <1> QED
    BY <1>1, <1>2, <1>3, <1>4, <1>5, <1>6, <1>7, <1>8, <1>9, <1>10,
       <1>11, <1>12, <1>13, <1>14, <1>15, <1>16, <1>17, <1>18, <1>19,
       <1>20, <1>21, <1>22, <1>23, <1>24, <1>25, <1>26, <1>27, <1>28,
       <1>29
    DEF Next, Session, Acquire, Conclude, Release, Returned

(* Daemon files and the directory go before the session has returned.      *)
LEMMA FileStep ==
    ASSUME DataOK, FlowInv, FileInv, [Next]_vars
    PROVE  FileInv'
  <1> USE DEF DataOK, FlowInv, FileInv, diskVars, endVars, procVars, ipcVars,
         flowVars, Go, CleanUp, Late, Over, Releasing, Early, BeforeIPC,
         Options, DaemonFiles
  <1>1. CASE CreateContext
    BY <1>1, NextStageFact DEF CreateContext
  <1>2. CASE AllocatePorts
    BY <1>2, NextStageFact DEF AllocatePorts
  <1>3. CASE Prepare
    BY <1>3, NextStageFact DEF Prepare
  <1>4. CASE StartTPM
    BY <1>4, NextStageFact DEF StartTPM
  <1>5. CASE ResolveArgs
    BY <1>5, NextStageFact DEF ResolveArgs
  <1>6. CASE SpawnQemu
    BY <1>6 DEF SpawnQemu
  <1>7. CASE StartMachine
    BY <1>7 DEF StartMachine, TellToEnd
  <1>8. CASE CreateGuest
    BY <1>8 DEF CreateGuest
  <1>9. CASE StartServer
    BY <1>9 DEF StartServer
  <1>10. CASE WriteDaemonFile
    BY <1>10, NextFileFact DEF WriteDaemonFile
  <1>11. CASE StepsEnd
    BY <1>11 DEF StepsEnd
  <1>12. CASE SaveResult
    BY <1>12 DEF SaveResult
  <1>13. CASE HoldEnds
    BY <1>13 DEF HoldEnds
  <1>14. CASE Quit
    BY <1>14 DEF Quit, Kill, TellToEnd
  <1>15. CASE QuitAnswered
    BY <1>15 DEF QuitAnswered, Kill, TellToEnd
  <1>16. CASE ExitSeen
    BY <1>16 DEF ExitSeen
  <1>17. CASE ShutdownIPC
    BY <1>17 DEF ShutdownIPC
  <1>18. CASE KillMachine
    BY <1>18 DEF KillMachine, Kill, TellToEnd
  <1>19. CASE StopTPM
    BY <1>19 DEF StopTPM
  <1>20. CASE RemoveDaemonFiles
    BY <1>20 DEF RemoveDaemonFiles
  <1>21. CASE SaveSnapshot
    BY <1>21 DEF SaveSnapshot
  <1>22. CASE Leave
    BY <1>22 DEF Leave
  <1>23. CASE StepPowersOff
    BY <1>23 DEF StepPowersOff, Kill, TellToEnd
  <1>24. ASSUME NEW r \in Requests, RequestAccepted(r)
        PROVE  FileInv'
    BY <1>24 DEF RequestAccepted
  <1>25. ASSUME NEW r \in Requests, RequestEnds(r)
        PROVE  FileInv'
    BY <1>25 DEF RequestEnds
  <1>26. ASSUME NEW r \in Requests, RequestPowersOff(r)
        PROVE  FileInv'
    BY <1>26 DEF RequestPowersOff, Kill, TellToEnd
  <1>27. CASE QemuExits
    BY <1>27 DEF QemuExits
  <1>28. CASE MonitorExit
    BY <1>28 DEF MonitorExit
  <1>29. CASE UNCHANGED vars
    BY <1>29 DEF vars
  <1> QED
    BY <1>1, <1>2, <1>3, <1>4, <1>5, <1>6, <1>7, <1>8, <1>9, <1>10,
       <1>11, <1>12, <1>13, <1>14, <1>15, <1>16, <1>17, <1>18, <1>19,
       <1>20, <1>21, <1>22, <1>23, <1>24, <1>25, <1>26, <1>27, <1>28,
       <1>29
    DEF Next, Session, Acquire, Conclude, Release, Returned

(* Only passed steps lead to a snapshot or to success.                     *)
LEMMA StepsStep ==
    ASSUME DataOK, FlowInv, StepsInv, [Next]_vars
    PROVE  StepsInv'
  <1> USE DEF DataOK, FlowInv, StepsInv, diskVars, endVars, procVars, ipcVars,
         flowVars, Go, CleanUp, Late, Over, Releasing, Early, Options,
         OutcomeTruthful
  <1>1. CASE CreateContext
    BY <1>1, NextStageFact DEF CreateContext
  <1>2. CASE AllocatePorts
    BY <1>2, NextStageFact DEF AllocatePorts
  <1>3. CASE Prepare
    BY <1>3, NextStageFact DEF Prepare
  <1>4. CASE StartTPM
    BY <1>4, NextStageFact DEF StartTPM
  <1>5. CASE ResolveArgs
    BY <1>5, NextStageFact DEF ResolveArgs
  <1>6. CASE SpawnQemu
    BY <1>6 DEF SpawnQemu
  <1>7. CASE StartMachine
    BY <1>7 DEF StartMachine, TellToEnd
  <1>8. CASE CreateGuest
    BY <1>8 DEF CreateGuest
  <1>9. CASE StartServer
    BY <1>9 DEF StartServer
  <1>10. CASE WriteDaemonFile
    BY <1>10, NextFileFact DEF WriteDaemonFile
  <1>11. CASE StepsEnd
    BY <1>11 DEF StepsEnd
  <1>12. CASE SaveResult
    BY <1>12 DEF SaveResult
  <1>13. CASE HoldEnds
    BY <1>13 DEF HoldEnds
  <1>14. CASE Quit
    BY <1>14 DEF Quit, Kill, TellToEnd
  <1>15. CASE QuitAnswered
    BY <1>15 DEF QuitAnswered, Kill, TellToEnd
  <1>16. CASE ExitSeen
    BY <1>16 DEF ExitSeen
  <1>17. CASE ShutdownIPC
    BY <1>17 DEF ShutdownIPC
  <1>18. CASE KillMachine
    BY <1>18 DEF KillMachine, Kill, TellToEnd
  <1>19. CASE StopTPM
    BY <1>19 DEF StopTPM
  <1>20. CASE RemoveDaemonFiles
    BY <1>20 DEF RemoveDaemonFiles
  <1>21. CASE SaveSnapshot
    BY <1>21 DEF SaveSnapshot
  <1>22. CASE Leave
    BY <1>22 DEF Leave
  <1>23. CASE StepPowersOff
    BY <1>23 DEF StepPowersOff, Kill, TellToEnd
  <1>24. ASSUME NEW r \in Requests, RequestAccepted(r)
        PROVE  StepsInv'
    BY <1>24 DEF RequestAccepted
  <1>25. ASSUME NEW r \in Requests, RequestEnds(r)
        PROVE  StepsInv'
    BY <1>25 DEF RequestEnds
  <1>26. ASSUME NEW r \in Requests, RequestPowersOff(r)
        PROVE  StepsInv'
    BY <1>26 DEF RequestPowersOff, Kill, TellToEnd
  <1>27. CASE QemuExits
    BY <1>27 DEF QemuExits
  <1>28. CASE MonitorExit
    BY <1>28 DEF MonitorExit
  <1>29. CASE UNCHANGED vars
    BY <1>29 DEF vars
  <1> QED
    BY <1>1, <1>2, <1>3, <1>4, <1>5, <1>6, <1>7, <1>8, <1>9, <1>10,
       <1>11, <1>12, <1>13, <1>14, <1>15, <1>16, <1>17, <1>18, <1>19,
       <1>20, <1>21, <1>22, <1>23, <1>24, <1>25, <1>26, <1>27, <1>28,
       <1>29
    DEF Next, Session, Acquire, Conclude, Release, Returned

(* Every step keeps the types.                                             *)
LEMMA DataStep ==
    ASSUME DataOK, FlowInv, [Next]_vars
    PROVE  DataOK'
  <1> USE DEF DataOK, FlowInv, diskVars, endVars, procVars, ipcVars, flowVars,
         Go, CleanUp, Early, DaemonFiles, Stages
  <1>1. CASE CreateContext
    BY <1>1, NextStageFact DEF CreateContext
  <1>2. CASE AllocatePorts
    BY <1>2, NextStageFact DEF AllocatePorts
  <1>3. CASE Prepare
    BY <1>3, NextStageFact DEF Prepare
  <1>4. CASE StartTPM
    BY <1>4, NextStageFact DEF StartTPM
  <1>5. CASE ResolveArgs
    BY <1>5, NextStageFact DEF ResolveArgs
  <1>6. CASE SpawnQemu
    BY <1>6 DEF SpawnQemu
  <1>7. CASE StartMachine
    BY <1>7 DEF StartMachine, TellToEnd
  <1>8. CASE CreateGuest
    BY <1>8 DEF CreateGuest
  <1>9. CASE StartServer
    BY <1>9 DEF StartServer
  <1>10. CASE WriteDaemonFile
    <2>1. files' \in {files, files \cup {NextFile}}
      BY <1>10 DEF WriteDaemonFile
    <2>2. files' \subseteq DaemonFiles
      BY <2>1, NextFileFact DEF DataOK
    <2>3. at' \in Stages
      BY <1>10 DEF WriteDaemonFile
    <2>4. UNCHANGED <<opt, ctxDir, steps, outcome, tpm, qemu, ipc, busy>>
      BY <1>10 DEF WriteDaemonFile
    <2> QED
      BY ONLY <2>2, <2>3, <2>4, DataOK DEF DataOK
  <1>11. CASE StepsEnd
    BY <1>11 DEF StepsEnd
  <1>12. CASE SaveResult
    BY <1>12 DEF SaveResult
  <1>13. CASE HoldEnds
    BY <1>13 DEF HoldEnds
  <1>14. CASE Quit
    BY <1>14 DEF Quit, Kill, TellToEnd
  <1>15. CASE QuitAnswered
    BY <1>15 DEF QuitAnswered, Kill, TellToEnd
  <1>16. CASE ExitSeen
    BY <1>16 DEF ExitSeen
  <1>17. CASE ShutdownIPC
    BY <1>17 DEF ShutdownIPC
  <1>18. CASE KillMachine
    BY <1>18 DEF KillMachine, Kill, TellToEnd
  <1>19. CASE StopTPM
    BY <1>19 DEF StopTPM
  <1>20. CASE RemoveDaemonFiles
    BY <1>20 DEF RemoveDaemonFiles
  <1>21. CASE SaveSnapshot
    BY <1>21 DEF SaveSnapshot
  <1>22. CASE Leave
    BY <1>22 DEF Leave
  <1>23. CASE StepPowersOff
    BY <1>23 DEF StepPowersOff, Kill, TellToEnd
  <1>24. ASSUME NEW r \in Requests, RequestAccepted(r)
        PROVE  DataOK'
    BY <1>24 DEF RequestAccepted
  <1>25. ASSUME NEW r \in Requests, RequestEnds(r)
        PROVE  DataOK'
    BY <1>25 DEF RequestEnds
  <1>26. ASSUME NEW r \in Requests, RequestPowersOff(r)
        PROVE  DataOK'
    BY <1>26 DEF RequestPowersOff, Kill, TellToEnd
  <1>27. CASE QemuExits
    BY <1>27 DEF QemuExits
  <1>28. CASE MonitorExit
    BY <1>28 DEF MonitorExit
  <1>29. CASE UNCHANGED vars
    BY <1>29 DEF vars
  <1> QED
    BY <1>1, <1>2, <1>3, <1>4, <1>5, <1>6, <1>7, <1>8, <1>9, <1>10,
       <1>11, <1>12, <1>13, <1>14, <1>15, <1>16, <1>17, <1>18, <1>19,
       <1>20, <1>21, <1>22, <1>23, <1>24, <1>25, <1>26, <1>27, <1>28,
       <1>29
    DEF Next, Session, Acquire, Conclude, Release, Returned

(* Flags stay Booleans.                                                    *)
LEMMA FlagStep ==
    ASSUME FlagOK, [Next]_vars
    PROVE  FlagOK'
  <1> USE DEF FlagOK, diskVars, endVars, procVars, ipcVars, flowVars, Go,
         CleanUp
  <1>1. CASE CreateContext
    BY <1>1, NextStageFact DEF CreateContext
  <1>2. CASE AllocatePorts
    BY <1>2, NextStageFact DEF AllocatePorts
  <1>3. CASE Prepare
    BY <1>3, NextStageFact DEF Prepare
  <1>4. CASE StartTPM
    BY <1>4, NextStageFact DEF StartTPM
  <1>5. CASE ResolveArgs
    BY <1>5, NextStageFact DEF ResolveArgs
  <1>6. CASE SpawnQemu
    BY <1>6 DEF SpawnQemu
  <1>7. CASE StartMachine
    BY <1>7 DEF StartMachine, TellToEnd
  <1>8. CASE CreateGuest
    BY <1>8 DEF CreateGuest
  <1>9. CASE StartServer
    BY <1>9 DEF StartServer
  <1>10. CASE WriteDaemonFile
    BY <1>10, NextFileFact DEF WriteDaemonFile
  <1>11. CASE StepsEnd
    BY <1>11 DEF StepsEnd
  <1>12. CASE SaveResult
    BY <1>12 DEF SaveResult
  <1>13. CASE HoldEnds
    BY <1>13 DEF HoldEnds
  <1>14. CASE Quit
    BY <1>14 DEF Quit, Kill, TellToEnd
  <1>15. CASE QuitAnswered
    BY <1>15 DEF QuitAnswered, Kill, TellToEnd
  <1>16. CASE ExitSeen
    BY <1>16 DEF ExitSeen
  <1>17. CASE ShutdownIPC
    BY <1>17 DEF ShutdownIPC
  <1>18. CASE KillMachine
    BY <1>18 DEF KillMachine, Kill, TellToEnd
  <1>19. CASE StopTPM
    BY <1>19 DEF StopTPM
  <1>20. CASE RemoveDaemonFiles
    BY <1>20 DEF RemoveDaemonFiles
  <1>21. CASE SaveSnapshot
    BY <1>21 DEF SaveSnapshot
  <1>22. CASE Leave
    BY <1>22 DEF Leave
  <1>23. CASE StepPowersOff
    BY <1>23 DEF StepPowersOff, Kill, TellToEnd
  <1>24. ASSUME NEW r \in Requests, RequestAccepted(r)
        PROVE  FlagOK'
    BY <1>24 DEF RequestAccepted
  <1>25. ASSUME NEW r \in Requests, RequestEnds(r)
        PROVE  FlagOK'
    BY <1>25 DEF RequestEnds
  <1>26. ASSUME NEW r \in Requests, RequestPowersOff(r)
        PROVE  FlagOK'
    BY <1>26 DEF RequestPowersOff, Kill, TellToEnd
  <1>27. CASE QemuExits
    BY <1>27 DEF QemuExits
  <1>28. CASE MonitorExit
    BY <1>28 DEF MonitorExit
  <1>29. CASE UNCHANGED vars
    BY <1>29 DEF vars
  <1> QED
    BY <1>1, <1>2, <1>3, <1>4, <1>5, <1>6, <1>7, <1>8, <1>9, <1>10,
       <1>11, <1>12, <1>13, <1>14, <1>15, <1>16, <1>17, <1>18, <1>19,
       <1>20, <1>21, <1>22, <1>23, <1>24, <1>25, <1>26, <1>27, <1>28,
       <1>29
    DEF Next, Session, Acquire, Conclude, Release, Returned

(* Only a Machine has a connection or a closed done.                       *)
LEMMA HandleStep ==
    ASSUME HandleOK, QemuInv, [Next]_vars
    PROVE  HandleOK'
  <1> USE DEF HandleOK, QemuInv, diskVars, endVars, procVars, ipcVars,
         flowVars, Go, CleanUp, Early
  <1>1. CASE CreateContext
    BY <1>1, NextStageFact DEF CreateContext
  <1>2. CASE AllocatePorts
    BY <1>2, NextStageFact DEF AllocatePorts
  <1>3. CASE Prepare
    BY <1>3, NextStageFact DEF Prepare
  <1>4. CASE StartTPM
    BY <1>4, NextStageFact DEF StartTPM
  <1>5. CASE ResolveArgs
    BY <1>5, NextStageFact DEF ResolveArgs
  <1>6. CASE SpawnQemu
    BY <1>6 DEF SpawnQemu
  <1>7. CASE StartMachine
    BY <1>7 DEF StartMachine, TellToEnd
  <1>8. CASE CreateGuest
    BY <1>8 DEF CreateGuest
  <1>9. CASE StartServer
    BY <1>9 DEF StartServer
  <1>10. CASE WriteDaemonFile
    BY <1>10, NextFileFact DEF WriteDaemonFile
  <1>11. CASE StepsEnd
    BY <1>11 DEF StepsEnd
  <1>12. CASE SaveResult
    BY <1>12 DEF SaveResult
  <1>13. CASE HoldEnds
    BY <1>13 DEF HoldEnds
  <1>14. CASE Quit
    BY <1>14 DEF Quit, Kill, TellToEnd
  <1>15. CASE QuitAnswered
    BY <1>15 DEF QuitAnswered, Kill, TellToEnd
  <1>16. CASE ExitSeen
    BY <1>16 DEF ExitSeen
  <1>17. CASE ShutdownIPC
    BY <1>17 DEF ShutdownIPC
  <1>18. CASE KillMachine
    BY <1>18 DEF KillMachine, Kill, TellToEnd
  <1>19. CASE StopTPM
    BY <1>19 DEF StopTPM
  <1>20. CASE RemoveDaemonFiles
    BY <1>20 DEF RemoveDaemonFiles
  <1>21. CASE SaveSnapshot
    BY <1>21 DEF SaveSnapshot
  <1>22. CASE Leave
    BY <1>22 DEF Leave
  <1>23. CASE StepPowersOff
    BY <1>23 DEF StepPowersOff, Kill, TellToEnd
  <1>24. ASSUME NEW r \in Requests, RequestAccepted(r)
        PROVE  HandleOK'
    BY <1>24 DEF RequestAccepted
  <1>25. ASSUME NEW r \in Requests, RequestEnds(r)
        PROVE  HandleOK'
    BY <1>25 DEF RequestEnds
  <1>26. ASSUME NEW r \in Requests, RequestPowersOff(r)
        PROVE  HandleOK'
    BY <1>26 DEF RequestPowersOff, Kill, TellToEnd
  <1>27. CASE QemuExits
    BY <1>27 DEF QemuExits
  <1>28. CASE MonitorExit
    BY <1>28 DEF MonitorExit
  <1>29. CASE UNCHANGED vars
    BY <1>29 DEF vars
  <1> QED
    BY <1>1, <1>2, <1>3, <1>4, <1>5, <1>6, <1>7, <1>8, <1>9, <1>10,
       <1>11, <1>12, <1>13, <1>14, <1>15, <1>16, <1>17, <1>18, <1>19,
       <1>20, <1>21, <1>22, <1>23, <1>24, <1>25, <1>26, <1>27, <1>28,
       <1>29
    DEF Next, Session, Acquire, Conclude, Release, Returned

THEOREM Inductive == Spec => []IInv
  <1>1. Init => IInv
    BY DEF Init, IInv, TypeOK, Options, Stages, DaemonFiles, QemuInv, FlowInv,
           IpcInv, FileInv, StepsInv, OutcomeTruthful, Early, BeforeIPC, Up,
           Over, Late, Releasing
  <1>2. IInv /\ [Next]_vars => IInv'
    <2> SUFFICES ASSUME IInv, [Next]_vars PROVE IInv'
      OBVIOUS
    <2>1. TypeOK /\ QemuInv /\ FlowInv /\ IpcInv /\ FileInv /\ StepsInv
      BY DEF IInv
    <2>2. DataOK /\ FlagOK /\ HandleOK
      BY <2>1, TypeParts
    <2>3. DataOK' /\ FlagOK' /\ HandleOK'
      BY <2>1, <2>2, DataStep, FlagStep, HandleStep
    <2>4. TypeOK'
      BY <2>3 DEF TypeOK, DataOK, FlagOK, HandleOK
    <2>5. QemuInv' /\ FlowInv' /\ IpcInv'
      BY <2>1, <2>2, QemuStep, FlowStep, IpcStep
    <2>6. FileInv' /\ StepsInv'
      BY <2>1, <2>2, FileStep, StepsStep
    <2> QED
      BY <2>4, <2>5, <2>6 DEF IInv
  <1> QED
    BY <1>1, <1>2, PTL DEF Spec

(* Types; done is closed only when QEMU is gone.                           *)
THEOREM TypeCorrect == Spec => []TypeOK
  <1>1. IInv => TypeOK
    BY DEF IInv
  <1> QED
    BY <1>1, Inductive, PTL

(* Whatever failed, a session that has returned holds nothing any more.    *)
THEOREM ReleasedCorrect == Spec => []Released
  <1>1. IInv => Released
    BY DEF IInv, Released, QemuInv, FlowInv, IpcInv, FileInv, Late, Over
  <1> QED
    BY <1>1, Inductive, PTL

(* Success means passed steps, for vm-setup a saved snapshot.              *)
THEOREM OutcomeCorrect == Spec => []OutcomeTruthful
  <1>1. IInv => OutcomeTruthful
    BY DEF IInv, StepsInv
  <1> QED
    BY <1>1, Inductive, PTL

(* Only StopTPM stops swtpm, and it comes after QEMU and the requests.     *)
THEOREM StopOrderCorrect == Spec => StopOrder
  <1> DEFINE Safe == qemu # "running" /\ ipc # "serving" /\ busy = {}
  <1>1. ASSUME IInv, [Next]_vars, tpm = "running", tpm' = "stopped"
        PROVE  Safe
    <2>1. StopTPM
      BY <1>1
      DEF Next, vars, Session, Acquire, Conclude, Release, Returned, procVars,
          CreateContext, AllocatePorts, Prepare, StartTPM, ResolveArgs,
          SpawnQemu, StartMachine, CreateGuest, StartServer, WriteDaemonFile,
          StepsEnd, SaveResult, HoldEnds, Quit, QuitAnswered, ExitSeen,
          ShutdownIPC, KillMachine, RemoveDaemonFiles, SaveSnapshot, Leave,
          StepPowersOff, RequestAccepted, RequestEnds, RequestPowersOff,
          QemuExits, MonitorExit
    <2>2. at = "stop_tpm"
      BY <2>1 DEF StopTPM
    <2> QED
      BY <1>1, <2>2 DEF IInv, QemuInv, IpcInv, Late, Over
  <1>2. IInv /\ [Next]_vars
        => [tpm = "running" /\ tpm' = "stopped" => Safe]_vars
    BY <1>1
  <1> QED
    BY <1>2, Inductive, PTL DEF Spec, StopOrder

(* Only SaveSnapshot saves it, after a successful setup was shut down.     *)
THEOREM SnapshotCorrect == Spec => SnapshotOfSetup
  <1> DEFINE Quiet == /\ opt.kind = "setup" /\ steps = "passed"
                      /\ qemu # "running" /\ tpm # "running"
                      /\ ipc = "closed" /\ busy = {} /\ "addr" \notin files
  <1>1. ASSUME IInv, [Next]_vars, snap', ~snap
        PROVE  Quiet
    <2>1. SaveSnapshot
      BY <1>1
      DEF Next, vars, Session, Acquire, Conclude, Release, Returned, endVars,
          CreateContext, AllocatePorts, Prepare, StartTPM, ResolveArgs,
          SpawnQemu, StartMachine, CreateGuest, StartServer, WriteDaemonFile,
          StepsEnd, SaveResult, HoldEnds, Quit, QuitAnswered, ExitSeen,
          ShutdownIPC, KillMachine, StopTPM, RemoveDaemonFiles, Leave,
          StepPowersOff, RequestAccepted, RequestEnds, RequestPowersOff,
          QemuExits, MonitorExit
    <2>2. at = "snapshot"
      BY <2>1 DEF SaveSnapshot
    <2>3. ~cleaning
      BY <1>1, <2>2 DEF IInv, FlowInv, Releasing
    <2> QED
      BY <1>1, <2>2, <2>3
      DEF IInv, TypeOK, QemuInv, FlowInv, IpcInv, FileInv, StepsInv, Late, Over
  <1>2. IInv /\ [Next]_vars => [snap' /\ ~snap => Quiet]_vars
    BY <1>1
  <1> QED
    BY <1>2, Inductive, PTL DEF Spec, SnapshotOfSetup

=============================================================================
