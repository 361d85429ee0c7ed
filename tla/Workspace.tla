----------------------------- MODULE Workspace -----------------------------
(***************************************************************************)
(* The directory of a VM and the commands that share it                    *)
(* (src/internal/workspace).  Each process runs one command of the program *)
(* on the same VM: vm-setup, test, vm-destroy or action.  Nothing locks    *)
(* the directory.  A process may crash between any two file operations;    *)
(* what it wrote stays, and its number may be given to a stranger.         *)
(***************************************************************************)
EXTENDS Naturals, FiniteSets

CONSTANTS
  Procs,        \* processes, and their numbers in daemon.pid
  Ports,        \* ephemeral TCP ports of the host
  Displays,     \* VNC displays, 0..99 in the code
  None,         \* no socket, no process
  ExecMethod, FileMethod,  \* VMConfig, "" where the file leaves them out
  QMPOverTCP,   \* HostUsesQMPTCP: a Windows host
  Firmware,     \* firmware_vars is given
  TPM           \* --tpm

ASSUME WorkspaceAssumption ==
  /\ None \notin Procs \cup Ports \cup Displays
  /\ Displays \subseteq Nat
  /\ QMPOverTCP \in BOOLEAN /\ Firmware \in BOOLEAN /\ TPM \in BOOLEAN

VARIABLES
  cmd,      \* the command of each process, None before it has started
  at,       \* the call it is about to make
  root,     \* the entries of the VM's directory; {} if it does not exist
  tests,    \* the entries of the directory of each test
  addr,     \* whose address daemon.addr holds
  pid,      \* whose number daemon.pid holds
  sock,     \* sock[p][k]: the socket p has probed for k
  bound,    \* bound[s]: the process whose QEMU listens on s
  raced,    \* history: another QEMU took a socket between probe and bind
  reused,   \* processes whose number now belongs to a stranger
  found,    \* the process whose address or number a command has read
  struck,   \* history: numbers vm-destroy has killed that were a stranger's
  overtaken \* history: vm-setups that removed daemon.pid after a vm-destroy
            \* had read their number and before it killed

vars == <<cmd, at, root, tests, addr, pid, sock, bound, raced, reused, found,
          struck, overtaken>>

Commands == {"setup", "test", "destroy", "action"}
PortFiles == {"ssh_port", "vnc_port"}
Files == {"dir", "overlay", "efivars", "tpm", "config", "addr", "pid"}
         \cup PortFiles
Sockets == Ports \cup Displays

\* What a complete context of this VM holds.
Wanted == {"dir", "overlay", "config"}
          \cup (IF Firmware THEN {"efivars"} ELSE {})
          \cup (IF TPM THEN {"tpm"} ELSE {})

\* The sockets a run needs: usesSSH and usesWinRM with their defaults.
Exec == IF ExecMethod = "" THEN "ssh" ELSE ExecMethod
File == IF FileMethod = "" THEN Exec ELSE FileMethod
Kinds == {"vnc"} \cup ({"ssh", "winrm"} \cap {Exec, File})
         \cup (IF QMPOverTCP THEN {"qmp"} ELSE {})
ProbeOrder == [ssh |-> 1, winrm |-> 2, vnc |-> 3, qmp |-> 4]

CreateStages == {"overlay", "efivars", "tpm", "config"}
DaemonStages == {"addr", "pid"} \cup PortFiles
NextDaemonFile == [addr |-> "pid", pid |-> "ssh_port", ssh_port |-> "vnc_port",
                   vnc_port |-> "running"]
Ended == {"done", "failed", "refused", "crashed"}
Stages == {"idle", "stat", "load", "find", "connect", "mkdir", "probe", "boot",
           "running", "remove_addr", "remove_pid", "snapshot", "cleanup",
           "read_pid", "kill", "remove", "port_taken", "reached", "dead"}
          \cup CreateStages \cup DaemonStages \cup Ended

First == [setup |-> "stat", test |-> "load", destroy |-> "stat",
          action |-> "find"]

\* A faulty variant: config.json is written as soon as the overlay is there.
NextFileConfigFirst(c, s) ==
  CASE s = "overlay" -> IF c = "setup" THEN "config" ELSE "probe"
    [] s = "config" -> IF Firmware THEN "efivars" ELSE
                       IF TPM THEN "tpm" ELSE "probe"
    [] s = "efivars" -> IF TPM THEN "tpm" ELSE "probe"
    [] OTHER -> "probe"

\* The order of the files: CreateContext ends with config.json, a test
\* context has none.
NextFile(c, s) ==
  LET efi == s = "overlay" /\ Firmware
      tpm == s \in {"overlay", "efivars"} /\ TPM IN
  CASE efi -> "efivars"
    [] ~efi /\ tpm -> "tpm"
    [] s = "config" -> "probe"
    [] OTHER -> IF c = "setup" THEN "config" ELSE "probe"

---------------------------------------------------------------------------
Init ==
  /\ cmd = [p \in Procs |-> None]
  /\ at = [p \in Procs |-> "idle"]
  /\ root = {} /\ tests = [p \in Procs |-> {}]
  /\ addr = None /\ pid = None
  /\ sock = [p \in Procs |-> [k \in Kinds |-> None]]
  /\ bound = [s \in Sockets |-> None]
  /\ raced = [p \in Procs |-> FALSE]
  /\ reused = {} /\ struck = {} /\ overtaken = {}
  /\ found = [p \in Procs |-> None]

filevars == <<root, tests, addr, pid>>
netvars == <<sock, bound, raced>>
restvars == <<reused, found, struck, overtaken>>

Go(p, from, to) == at[p] = from /\ at' = [at EXCEPT ![p] = to]

Start(p, c) ==
  /\ Go(p, "idle", First[c])
  /\ cmd' = [cmd EXCEPT ![p] = c]
  /\ UNCHANGED <<filevars, netvars, restvars>>

\* os.Stat of the root: vm-setup refuses what exists, vm-destroy what does
\* not.  Between this and MkdirAll anything may happen.
Stat(p) ==
  /\ Go(p, "stat",
        IF cmd[p] = "setup"
        THEN IF "dir" \in root THEN "refused" ELSE "mkdir"
        ELSE IF "dir" \in root THEN "read_pid" ELSE "refused")
  /\ UNCHANGED <<cmd, filevars, netvars, restvars>>

\* LoadContext looks at config.json only.
LoadContext(p) ==
  /\ Go(p, "load", IF "config" \in root THEN "mkdir" ELSE "failed")
  /\ UNCHANGED <<cmd, filevars, netvars, restvars>>

\* MkdirAll: a test creates the VM's directory again if it has to.
MakeDir(p) ==
  /\ Go(p, "mkdir", "overlay")
  /\ root' = root \cup {"dir"}
  /\ tests' = IF cmd[p] = "test" THEN [tests EXCEPT ![p] = {"dir"}] ELSE tests
  /\ UNCHANGED <<cmd, addr, pid, netvars, restvars>>

Dir(p) == IF cmd[p] = "setup" THEN root ELSE tests[p]

Put(p, f) ==
  /\ "dir" \in Dir(p)
  /\ IF cmd[p] = "setup"
     THEN root' = root \cup {f} /\ UNCHANGED tests
     ELSE tests' = [tests EXCEPT ![p] = @ \cup {f}] /\ UNCHANGED root

\* CreateContext and CreateTestContext, file by file.  The overlay of a test
\* needs the VM's overlay to back it; firmware variables and TPM state are
\* copied if the VM has them.
CreateFile(p) ==
  /\ at[p] \in CreateStages
  /\ cmd[p] = "test" /\ at[p] = "overlay" => "overlay" \in root
  /\ IF cmd[p] = "test" /\ at[p] \notin root
     THEN UNCHANGED <<root, tests>>
     ELSE Put(p, at[p])
  /\ at' = [at EXCEPT ![p] = NextFile(cmd[p], at[p])]
  /\ UNCHANGED <<cmd, addr, pid, netvars, restvars>>

---------------------------------------------------------------------------
(* Sockets: probed one after the other, each released at once, and bound   *)
(* by QEMU only when it starts.                                            *)

Unprobed(p) == {k \in Kinds : sock[p][k] = None}
Free(S) == {s \in S : bound[s] = None}

\* Any port the host does not use.
findFreePort == Free(Ports)

\* The first display that is free.
FindFreeVNCDisplay ==
  {d \in Free(Displays) : \A e \in Free(Displays) : d <= e}

\* A faulty variant: the first display is taken without looking.
ProbesFixedDisplay(k) ==
  IF k = "vnc" THEN {d \in Displays : \A e \in Displays : d <= e}
               ELSE findFreePort

\* A faulty variant: with every display taken the next number is returned.
ProbesBeyondLast(k) ==
  CASE k # "vnc" -> findFreePort
    [] Free(Displays) = {} -> {Cardinality(Displays)}
    [] OTHER -> FindFreeVNCDisplay

\* What probing for a resource may find, nothing if all are taken.
Probes(k) == IF k = "vnc" THEN FindFreeVNCDisplay ELSE findFreePort

\* AllocateRuntimeResources, one resource.
Probe(p) ==
  /\ at[p] = "probe"
  /\ \E k \in Unprobed(p) : \E s \in Probes(k) :
       /\ \A j \in Unprobed(p) : ProbeOrder[k] <= ProbeOrder[j]
       /\ sock' = [sock EXCEPT ![p][k] = s]
       /\ at' = [at EXCEPT ![p] = IF Unprobed(p) = {k} THEN "boot" ELSE @]
  /\ UNCHANGED <<cmd, filevars, bound, raced, restvars>>

SocketsOf(p) == {sock[p][k] : k \in Kinds}
Coincide(p) == \E j, k \in Kinds : j # k /\ sock[p][j] = sock[p][k]

\* QEMU binds everything it was given and opens its image.
Boot(p) ==
  /\ Go(p, "boot", "addr")
  /\ "overlay" \in Dir(p) /\ "overlay" \in root
  /\ ~Coincide(p) /\ \A s \in SocketsOf(p) : bound[s] = None
  /\ bound' = [s \in Sockets |-> IF s \in SocketsOf(p) THEN p ELSE bound[s]]
  /\ raced' = [q \in Procs |->
                 \/ raced[q]
                 \/ q # p /\ at[q] \in {"probe", "boot"}
                    /\ SocketsOf(q) \cap SocketsOf(p) # {}]
  /\ UNCHANGED <<cmd, filevars, sock, restvars>>

Released(p) == [s \in Sockets |-> IF bound[s] = p THEN None ELSE bound[s]]

\* A socket is in use: QEMU ends, StartMachine fails.
PortTaken(p) ==
  /\ Go(p, "boot", "port_taken")
  /\ Coincide(p) \/ \E s \in SocketsOf(p) : bound[s] # None
  /\ UNCHANGED <<cmd, filevars, netvars, restvars>>

---------------------------------------------------------------------------
(* A session: daemon files, run, end                                       *)

WriteDaemonFile(p) ==
  /\ at[p] \in DaemonStages
  /\ Put(p, at[p])
  /\ addr' = IF cmd[p] = "setup" /\ at[p] = "addr" THEN p ELSE addr
  /\ pid' = IF cmd[p] = "setup" /\ at[p] = "pid" THEN p ELSE pid
  /\ at' = [at EXCEPT ![p] = NextDaemonFile[@]]
  /\ UNCHANGED <<cmd, netvars, restvars>>

\* The steps are over and QEMU and the server are gone.
SessionEnds(p) ==
  /\ Go(p, "running", IF cmd[p] = "setup" THEN "remove_addr" ELSE "cleanup")
  /\ bound' = Released(p)
  /\ UNCHANGED <<cmd, filevars, sock, raced, restvars>>

\* os.Remove, whoever wrote the file.  ssh.port and vnc.port stay.
RemoveAddr(p) ==
  /\ Go(p, "remove_addr", "remove_pid")
  /\ root' = root \ {"addr"} /\ addr' = None
  /\ UNCHANGED <<cmd, tests, pid, netvars, restvars>>

\* The numbers that vm-destroy has read and not yet killed.
PidsRead == {found[d] : d \in {e \in Procs : at[e] = "kill"}}

\* A faulty variant: the file of the process number is left.
KeepPid(p) ==
  /\ Go(p, "remove_pid", "snapshot")
  /\ UNCHANGED <<cmd, filevars, netvars, restvars>>

RemovePid(p) ==
  /\ Go(p, "remove_pid", "snapshot")
  /\ root' = root \ {"pid"} /\ pid' = None
  /\ overtaken' = overtaken \cup ({p} \cap PidsRead)
  /\ UNCHANGED <<cmd, tests, addr, netvars, reused, found, struck>>

SaveSnapshot(p) ==
  /\ Go(p, "snapshot", IF "overlay" \in root THEN "done" ELSE "failed")
  /\ UNCHANGED <<cmd, filevars, netvars, restvars>>

\* A faulty variant: the directory of the test stays.
KeepTest(p) ==
  /\ Go(p, "cleanup", "done")
  /\ UNCHANGED <<cmd, filevars, netvars, restvars>>

\* The deferred os.RemoveAll of the test's directory.
RemoveTest(p) ==
  /\ Go(p, "cleanup", "done")
  /\ tests' = [tests EXCEPT ![p] = {}]
  /\ UNCHANGED <<cmd, root, addr, pid, netvars, restvars>>

\* A call fails.  vm-setup leaves everything, daemon files included; a test
\* removes its directory once the removal is deferred, after the sockets.
Fail(p) ==
  /\ at[p] \in {"mkdir", "probe", "boot", "port_taken", "running", "snapshot",
                "remove"} \cup CreateStages \cup DaemonStages
  /\ at' = [at EXCEPT ![p] = "failed"]
  /\ bound' = Released(p)
  /\ tests' = IF /\ cmd[p] = "test"
                 /\ at[p] \notin {"mkdir", "probe"} \cup CreateStages
              THEN [tests EXCEPT ![p] = {}] ELSE tests
  /\ UNCHANGED <<cmd, root, addr, pid, sock, raced, restvars>>

---------------------------------------------------------------------------
(* vm-destroy, action, crashes                                             *)

Alive(q) == at[q] \notin Ended \cup {"idle"}

\* Crash: QEMU follows its parent, files stay.
Crashed(q) == [at EXCEPT ![q] = "crashed"]

\* os.ReadFile of daemon.pid, if there is one.
ReadPid(p) ==
  /\ Go(p, "read_pid", "kill")
  /\ found' = [found EXCEPT ![p] = IF "pid" \in root THEN pid ELSE None]
  /\ UNCHANGED <<cmd, filevars, netvars, reused, struck, overtaken>>

\* os.FindProcess and proc.Kill of the number that was read: its process may
\* have ended since, and the number be a stranger's.  One step, for the handle
\* of FindProcess stays with the process it was opened on.
KillDaemon(p) ==
  /\ at[p] = "kill"
  /\ IF found[p] \in Procs /\ Alive(found[p])
     THEN /\ at' = [at EXCEPT ![found[p]] = "crashed", ![p] = "remove"]
          /\ bound' = Released(found[p])
          /\ UNCHANGED struck
     ELSE /\ at' = [at EXCEPT ![p] = "remove"]
          /\ struck' = struck \cup ({found[p]} \cap reused)
          /\ UNCHANGED bound
  /\ UNCHANGED <<cmd, filevars, sock, raced, reused, found, overtaken>>

\* os.RemoveAll, entry by entry, the directory last.
RemoveEntry(p) ==
  /\ at[p] = "remove"
  /\ \/ \E f \in root \ {"dir"} :
          root' = root \ {f} /\ UNCHANGED <<at, tests>>
     \/ \E q \in Procs :
          /\ tests[q] # {}
          /\ tests' = [tests EXCEPT ![q] = {}] /\ UNCHANGED <<at, root>>
     \/ /\ root \subseteq {"dir"} /\ \A q \in Procs : tests[q] = {}
        /\ root' = {} /\ Go(p, "remove", "done") /\ UNCHANGED tests
  /\ addr' = (IF "addr" \in root' THEN addr ELSE None)
  /\ pid' = (IF "pid" \in root' THEN pid ELSE None)
  /\ UNCHANGED <<cmd, netvars, restvars>>

\* NewClientFromWorkspace reads daemon.addr in the directory of the VM.
FindDaemon(p) ==
  /\ Go(p, "find", IF "addr" \in root THEN "connect" ELSE "refused")
  /\ found' = [found EXCEPT ![p] = IF "addr" \in root THEN addr ELSE None]
  /\ UNCHANGED <<cmd, filevars, netvars, reused, struck, overtaken>>

\* The server listens from StartServer to the end of the session.
Serving(q) == at[q] \in DaemonStages \cup {"running"}

Connect(p) ==
  /\ Go(p, "connect", IF found[p] \in Procs /\ Serving(found[p])
                      THEN "reached" ELSE "dead")
  /\ UNCHANGED <<cmd, filevars, netvars, restvars>>

Crash(p) ==
  /\ Alive(p) /\ at[p] \notin {"reached", "dead"}
  /\ at' = Crashed(p) /\ bound' = Released(p)
  /\ UNCHANGED <<cmd, filevars, sock, raced, restvars>>

\* The host gives the number of an ended process to another program; only a
\* number in daemon.pid or read from it can matter.
ReuseNumber(p) ==
  /\ at[p] \in Ended /\ p \in {pid} \cup PidsRead /\ p \notin reused
  /\ reused' = reused \cup {p}
  /\ UNCHANGED <<cmd, at, filevars, netvars, found, struck, overtaken>>

AllEnded ==
  /\ \A p \in Procs : at[p] \in Ended \cup {"reached", "dead"}
  /\ UNCHANGED vars

Step(p) ==
  \/ \E c \in Commands : Start(p, c)
  \/ Stat(p) \/ LoadContext(p) \/ MakeDir(p) \/ CreateFile(p)
  \/ Probe(p) \/ Boot(p) \/ PortTaken(p)
  \/ WriteDaemonFile(p) \/ SessionEnds(p)
  \/ RemoveAddr(p) \/ RemovePid(p) \/ SaveSnapshot(p) \/ RemoveTest(p)
  \/ Fail(p)
  \/ ReadPid(p) \/ KillDaemon(p) \/ RemoveEntry(p) \/ FindDaemon(p) \/ Connect(p)
  \/ Crash(p) \/ ReuseNumber(p)

Next == (\E p \in Procs : Step(p)) \/ AllEnded

Spec == Init /\ [][Next]_vars

---------------------------------------------------------------------------
(* Properties                                                              *)

TypeOK ==
  /\ cmd \in [Procs -> Commands \cup {None}]
  /\ at \in [Procs -> Stages]
  /\ root \subseteq Files
  /\ tests \in [Procs -> SUBSET Files]
  /\ addr \in Procs \cup {None} /\ pid \in Procs \cup {None}
  /\ sock \in [Procs -> [Kinds -> Sockets \cup {None}]]
  /\ bound \in [Sockets -> Procs \cup {None}]
  /\ raced \in [Procs -> BOOLEAN]
  /\ reused \subseteq Procs /\ struck \subseteq Procs
  /\ overtaken \subseteq Procs
  /\ found \in [Procs -> Procs \cup {None}]

\* No vm-destroy has begun to remove.
NothingDestroyed ==
  \A p \in Procs :
    cmd[p] = "destroy" => at[p] \notin {"remove", "done", "failed", "crashed"}

\* CreateContext writes config.json last, so a context that LoadContext
\* accepts is whole, whatever crashed and however many vm-setups got past
\* os.Stat together, until somebody destroys it.
ConfigTellsComplete ==
  NothingDestroyed /\ "config" \in root => Wanted \subseteq root

\* daemon.addr and daemon.pid in the VM's directory are those of a vm-setup
\* that serves, or has failed or crashed, never of a test; vm-destroy kills
\* another program's process only if such a vm-setup left its number, or the
\* vm-setup has come to its end since vm-destroy read the number.
DaemonFilesOfSetups ==
  /\ "addr" \in root =>
       /\ addr \in Procs /\ cmd[addr] = "setup"
       /\ at[addr] \in {"pid", "ssh_port", "vnc_port", "running",
                       "remove_addr", "failed", "crashed"}
  /\ "pid" \in root =>
       /\ pid \in Procs /\ cmd[pid] = "setup"
       /\ at[pid] \in {"ssh_port", "vnc_port", "running", "remove_addr",
                      "remove_pid", "failed", "crashed"}
  /\ \A q \in struck :
       cmd[q] = "setup" /\ (at[q] \in {"failed", "crashed"} \/ q \in overtaken)

\* QEMU finds one of its sockets taken only if another QEMU bound it after
\* AllocateRuntimeResources had probed it, or two probes returned one port.
\* (Other programs of the host, and the IPC servers, take ports too.)
ConflictOnlyByRace ==
  \A p \in Procs : at[p] = "port_taken" => raced[p] \/ Coincide(p)

\* When no command is at work and none has failed or crashed, the directory
\* is a complete context with the port files of its vm-setup, or is not there,
\* without daemon.addr, daemon.pid and test directories: every overlap of
\* commands that leaves less shows as a failure.
QuietMeansWhole ==
  (\A p \in Procs : at[p] \in {"idle", "done", "refused", "reached", "dead"})
  => /\ root \in {{}, Wanted \cup PortFiles}
     /\ \A p \in Procs : tests[p] = {}
=============================================================================
