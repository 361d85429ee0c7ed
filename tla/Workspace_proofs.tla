-------------------------- MODULE Workspace_proofs --------------------------
(***************************************************************************)
(* Theorems about Workspace, for any processes, ports, displays and        *)
(* settings of a VM.                                                       *)
(***************************************************************************)
EXTENDS Workspace, TLAPS

(* The parts of TypeOK.                                                    *)
ProcOK ==
  /\ cmd \in [Procs -> Commands \cup {None}]
  /\ at \in [Procs -> Stages]
  /\ found \in [Procs -> Procs \cup {None}]

NumberOK ==
  /\ reused \subseteq Procs /\ struck \subseteq Procs
  /\ overtaken \subseteq Procs

FileOK ==
  /\ root \subseteq Files
  /\ tests \in [Procs -> SUBSET Files]
  /\ addr \in Procs \cup {None} /\ pid \in Procs \cup {None}

NetOK ==
  /\ sock \in [Procs -> [Kinds -> Sockets \cup {None}]]
  /\ bound \in [Sockets -> Procs \cup {None}]

RaceOK == raced \in [Procs -> BOOLEAN]

(* Which command a stage belongs to.                                       *)
CmdInv ==
  \A p \in Procs :
    /\ at[p] = "stat" => cmd[p] \in {"setup", "destroy"}
    /\ at[p] \in {"read_pid", "kill", "remove"} => cmd[p] = "destroy"
    /\ at[p] \in {"remove_addr", "remove_pid", "snapshot"} => cmd[p] = "setup"

(* What CreateContext has put into the directory before each file.         *)
Before(s) ==
  CASE s = "overlay" -> {"dir"}
    [] s = "efivars" -> {"dir", "overlay"}
    [] s = "tpm" -> {"dir", "overlay"} \cup (Wanted \cap {"efivars"})
    [] s = "config" -> Wanted \ {"config"}

FilesOK ==
  /\ "config" \in root => Wanted \subseteq root
  /\ \A p \in Procs :
       cmd[p] = "setup" /\ at[p] \in CreateStages
       => Before(at[p]) \subseteq root

(* Some vm-destroy has begun to remove.                                    *)
Destroyed == ~NothingDestroyed

FilesInv == NothingDestroyed => FilesOK

(* The number vm-destroy has read is that of a vm-setup, which is not done  *)
(* yet, has failed or crashed, or has overtaken it.                        *)
ReadInv ==
  /\ \A q \in overtaken : at[q] # "idle"
  /\ \A d \in Procs : at[d] = "kill" /\ found[d] \in Procs =>
       /\ cmd[found[d]] = "setup"
       /\ \/ found[d] \in overtaken
          \/ at[found[d]] \in {"ssh_port", "vnc_port", "running", "remove_addr",
                              "remove_pid", "failed", "crashed"}

(* A socket somebody has bound since it was probed makes its owner raced.  *)
RaceInv ==
  \A p \in Procs :
    /\ at[p] \in {"idle", "stat", "load", "mkdir"} \cup CreateStages =>
         Unprobed(p) = Kinds
    /\ at[p] \in {"probe", "boot"} =>
         \A k \in Kinds :
           sock[p][k] # None /\ bound[sock[p][k]] # None => raced[p]
    /\ at[p] = "boot" => Unprobed(p) = {}
    /\ at[p] = "port_taken" => raced[p] \/ Coincide(p)

(* The directory holds what belongs to this VM and, if anything, itself.     *)
EntriesInv ==
  /\ root \subseteq Wanted \cup DaemonStages
  /\ root # {} => "dir" \in root
  /\ \A p \in Procs : at[p] \in CreateStages => at[p] \in Wanted

(* Only a test that is under way or has failed has a directory of its own.  *)
TestsInv ==
  \A p \in Procs : tests[p] # {} =>
    /\ cmd[p] = "test"
    /\ at[p] \notin {"idle", "find", "connect", "done", "refused", "reached",
                     "dead"}

(* No command removes entries, has failed or has crashed.                  *)
Smooth ==
  \A p \in Procs : at[p] \notin {"remove", "failed", "crashed"}

(* A vm-setup that is about to put the rest of the files.                   *)
Completing(p) ==
  /\ cmd[p] = "setup" /\ at[p] \in CreateStages \ {"overlay"}
  /\ Before(at[p]) \subseteq root

(* Then the directory is absent, whole, or about to become so: whoever has  *)
(* made it waits for an overlay, and who puts the overlay puts the rest.    *)
WholeInv ==
  Smooth =>
    \/ root = {}
    \/ "overlay" \notin root /\ \E p \in Procs : at[p] = "overlay"
    \/ Wanted \subseteq root
    \/ "overlay" \in root /\ \E p \in Procs : Completing(p)

(* A vm-setup that is yet to put the port files, or the second of them.     *)
Publishing(p) ==
  /\ cmd[p] = "setup"
  /\ \/ at[p] \in CreateStages \cup {"probe", "boot", "port_taken", "addr",
                                    "pid", "ssh_port"}
     \/ at[p] = "vnc_port" /\ "ssh_port" \in root

(* A whole context without its port files has somebody to put them.         *)
PublishInv ==
  Smooth /\ Wanted \subseteq root =>
    PortFiles \subseteq root \/ \E p \in Procs : Publishing(p)

IInv ==
  /\ TypeOK /\ CmdInv /\ FilesInv /\ DaemonFilesOfSetups /\ ReadInv /\ RaceInv
  /\ EntriesInv /\ TestsInv /\ WholeInv /\ PublishInv

(* Put adds one file to the directory of its command.                      *)
LEMMA PutFact ==
  ASSUME FileOK, NEW p \in Procs, NEW f \in Files, Put(p, f)
  PROVE  /\ root' \subseteq Files /\ tests' \in [Procs -> SUBSET Files]
         /\ cmd[p] # "setup" => root' = root
         /\ cmd[p] = "setup" => root' = root \cup {f}
<1>1. CASE cmd[p] = "setup"
  BY <1>1 DEF FileOK, Put
<1>2. CASE cmd[p] # "setup"
  <2>1. tests[p] \cup {f} \subseteq Files
    BY DEF FileOK
  <2> QED
    BY <1>2, <2>1 DEF FileOK, Put
<1> QED
  BY <1>1, <1>2

(* The files that tell of a daemon come one after the other.               *)
LEMMA DaemonFact ==
  /\ DaemonStages = {"addr", "pid", "ssh_port", "vnc_port"}
  /\ DaemonStages \subseteq Files
  /\ NextDaemonFile["addr"] = "pid" /\ NextDaemonFile["pid"] = "ssh_port"
  /\ NextDaemonFile["ssh_port"] = "vnc_port"
  /\ NextDaemonFile["vnc_port"] = "running"
  BY DEF DaemonStages, PortFiles, Files, NextDaemonFile

(* A daemon file is put in the directory of its command, the next one or    *)
(* the run follows.                                                        *)
LEMMA WriteFact ==
  ASSUME ProcOK, FileOK, NEW p \in Procs, WriteDaemonFile(p)
  PROVE  /\ at[p] \in DaemonStages
         /\ at' = [at EXCEPT ![p] = NextDaemonFile[at[p]]]
         /\ at'[p] = NextDaemonFile[at[p]]
         /\ at'[p] \in {"pid", "ssh_port", "vnc_port", "running"}
         /\ cmd' = cmd /\ found' = found
         /\ root' \subseteq Files /\ tests' \in [Procs -> SUBSET Files]
         /\ cmd[p] # "setup" => root' = root
         /\ cmd[p] = "setup" => root' = root \cup {at[p]}
<1>1. /\ at[p] \in DaemonStages /\ Put(p, at[p])
      /\ at' = [at EXCEPT ![p] = NextDaemonFile[at[p]]]
      /\ cmd' = cmd /\ found' = found
  BY DEF WriteDaemonFile, restvars
<1>2. at'[p] = NextDaemonFile[at[p]]
  BY <1>1 DEF ProcOK
<1>3. at[p] \in Files
  BY <1>1, DaemonFact
<1> QED
  BY <1>1, <1>2, <1>3, PutFact, DaemonFact

(* Every process stays in its command's stages.                            *)
LEMMA ProcStep ==
  ASSUME ProcOK, FileOK, [Next]_vars
  PROVE  ProcOK'
<1> USE DEF ProcOK, FileOK, filevars, netvars, restvars, Go, Stages,
  CreateStages, DaemonStages, Ended, Commands
<1>1. CASE UNCHANGED vars
  BY <1>1 DEF vars
<1>2. ASSUME NEW p \in Procs, Step(p)
      PROVE  ProcOK'
  <2>1. CASE \E c \in Commands : Start(p, c)
    BY <2>1 DEF Start, First
  <2>2. CASE Stat(p)
    BY <2>2 DEF Stat
  <2>3. CASE LoadContext(p)
    BY <2>3 DEF LoadContext
  <2>4. CASE MakeDir(p)
    BY <2>4 DEF MakeDir
  <2>5. CASE CreateFile(p)
    BY <2>5 DEF CreateFile, Put, NextFile
  <2>6. CASE Probe(p)
    BY <2>6 DEF Probe
  <2>7. CASE Boot(p)
    BY <2>7 DEF Boot
  <2>8. CASE PortTaken(p)
    BY <2>8 DEF PortTaken
  <2>9. CASE WriteDaemonFile(p)
    BY <2>9, WriteFact, DaemonFact DEF PortFiles
  <2>10. CASE SessionEnds(p)
    BY <2>10 DEF SessionEnds
  <2>11. CASE RemoveAddr(p)
    BY <2>11 DEF RemoveAddr
  <2>12. CASE RemovePid(p)
    BY <2>12 DEF RemovePid
  <2>13. CASE SaveSnapshot(p)
    BY <2>13 DEF SaveSnapshot
  <2>14. CASE RemoveTest(p)
    BY <2>14 DEF RemoveTest
  <2>15. CASE Fail(p)
    BY <2>15 DEF Fail
  <2>16. CASE KillDaemon(p)
    BY <2>16 DEF KillDaemon, Alive
  <2>17. CASE RemoveEntry(p)
    BY <2>17 DEF RemoveEntry
  <2>18. CASE FindDaemon(p)
    BY <2>18 DEF FindDaemon
  <2>19. CASE Connect(p)
    BY <2>19 DEF Connect
  <2>20. CASE Crash(p)
    BY <2>20 DEF Crash, Crashed
  <2>21. CASE ReuseNumber(p)
    BY <2>21 DEF ReuseNumber
  <2>22. CASE ReadPid(p)
    BY <2>22 DEF ReadPid
  <2> QED
    BY <1>2, <2>1, <2>2, <2>3, <2>4, <2>5, <2>6, <2>7, <2>8, <2>9, <2>10,
      <2>11, <2>12, <2>13, <2>14, <2>15, <2>16, <2>17, <2>18, <2>19, <2>20,
      <2>21, <2>22 DEF Step
<1> QED
  BY <1>1, <1>2 DEF Next, AllEnded

(* Numbers are those of processes.                                         *)
LEMMA NumberStep ==
  ASSUME NumberOK, [Next]_vars
  PROVE  NumberOK'
<1> USE DEF NumberOK, filevars, netvars, restvars
<1>1. CASE UNCHANGED vars
  BY <1>1 DEF vars
<1>2. ASSUME NEW p \in Procs, Step(p)
      PROVE  NumberOK'
  <2>1. CASE \E c \in Commands : Start(p, c)
    BY <2>1 DEF Start
  <2>2. CASE Stat(p)
    BY <2>2 DEF Stat
  <2>3. CASE LoadContext(p)
    BY <2>3 DEF LoadContext
  <2>4. CASE MakeDir(p)
    BY <2>4 DEF MakeDir
  <2>5. CASE CreateFile(p)
    BY <2>5 DEF CreateFile
  <2>6. CASE Probe(p)
    BY <2>6 DEF Probe
  <2>7. CASE Boot(p)
    BY <2>7 DEF Boot
  <2>8. CASE PortTaken(p)
    BY <2>8 DEF PortTaken
  <2>9. CASE WriteDaemonFile(p)
    BY <2>9 DEF WriteDaemonFile
  <2>10. CASE SessionEnds(p)
    BY <2>10 DEF SessionEnds
  <2>11. CASE RemoveAddr(p)
    BY <2>11 DEF RemoveAddr
  <2>12. CASE RemovePid(p)
    BY <2>12 DEF RemovePid
  <2>13. CASE SaveSnapshot(p)
    BY <2>13 DEF SaveSnapshot
  <2>14. CASE RemoveTest(p)
    BY <2>14 DEF RemoveTest
  <2>15. CASE Fail(p)
    BY <2>15 DEF Fail
  <2>16. CASE KillDaemon(p)
    BY <2>16 DEF KillDaemon, Alive
  <2>17. CASE RemoveEntry(p)
    BY <2>17 DEF RemoveEntry
  <2>18. CASE FindDaemon(p)
    BY <2>18 DEF FindDaemon
  <2>19. CASE Connect(p)
    BY <2>19 DEF Connect
  <2>20. CASE Crash(p)
    BY <2>20 DEF Crash
  <2>21. CASE ReuseNumber(p)
    BY <2>21 DEF ReuseNumber
  <2>22. CASE ReadPid(p)
    BY <2>22 DEF ReadPid
  <2> QED
    BY <1>2, <2>1, <2>2, <2>3, <2>4, <2>5, <2>6, <2>7, <2>8, <2>9, <2>10,
      <2>11, <2>12, <2>13, <2>14, <2>15, <2>16, <2>17, <2>18, <2>19, <2>20,
      <2>21, <2>22 DEF Step
<1> QED
  BY <1>1, <1>2 DEF Next, AllEnded

(* Only known files, each process its own test directory.                  *)
LEMMA FileStep ==
  ASSUME ProcOK, FileOK, [Next]_vars
  PROVE  FileOK'
<1> USE DEF ProcOK, FileOK, filevars, netvars, restvars, Files
<1>1. CASE UNCHANGED vars
  BY <1>1 DEF vars
<1>2. ASSUME NEW p \in Procs, Step(p)
      PROVE  FileOK'
  <2>1. CASE \E c \in Commands : Start(p, c)
    BY <2>1 DEF Start
  <2>2. CASE Stat(p)
    BY <2>2 DEF Stat
  <2>3. CASE LoadContext(p)
    BY <2>3 DEF LoadContext
  <2>4. CASE MakeDir(p)
    BY <2>4 DEF MakeDir
  <2>5. CASE CreateFile(p)
    <3>1. CASE cmd[p] = "test" /\ at[p] \notin root
      BY <2>5, <3>1 DEF CreateFile
    <3>2. CASE ~(cmd[p] = "test" /\ at[p] \notin root)
      BY <2>5, <3>2, PutFact DEF CreateFile, CreateStages
    <3> QED
      BY <3>1, <3>2
  <2>6. CASE Probe(p)
    BY <2>6 DEF Probe
  <2>7. CASE Boot(p)
    BY <2>7 DEF Boot
  <2>8. CASE PortTaken(p)
    BY <2>8 DEF PortTaken
  <2>9. CASE WriteDaemonFile(p)
    BY <2>9, WriteFact DEF WriteDaemonFile
  <2>10. CASE SessionEnds(p)
    BY <2>10 DEF SessionEnds
  <2>11. CASE RemoveAddr(p)
    BY <2>11 DEF RemoveAddr
  <2>12. CASE RemovePid(p)
    BY <2>12 DEF RemovePid
  <2>13. CASE SaveSnapshot(p)
    BY <2>13 DEF SaveSnapshot
  <2>14. CASE RemoveTest(p)
    BY <2>14 DEF RemoveTest
  <2>15. CASE Fail(p)
    BY <2>15 DEF Fail
  <2>16. CASE KillDaemon(p)
    BY <2>16 DEF KillDaemon
  <2>17. CASE RemoveEntry(p)
    BY <2>17 DEF RemoveEntry
  <2>18. CASE FindDaemon(p)
    BY <2>18 DEF FindDaemon
  <2>19. CASE Connect(p)
    BY <2>19 DEF Connect
  <2>20. CASE Crash(p)
    BY <2>20 DEF Crash
  <2>21. CASE ReuseNumber(p)
    BY <2>21 DEF ReuseNumber
  <2>22. CASE ReadPid(p)
    BY <2>22 DEF ReadPid
  <2> QED
    BY <1>2, <2>1, <2>2, <2>3, <2>4, <2>5, <2>6, <2>7, <2>8, <2>9, <2>10,
      <2>11, <2>12, <2>13, <2>14, <2>15, <2>16, <2>17, <2>18, <2>19, <2>20,
      <2>21, <2>22 DEF Step
<1> QED
  BY <1>1, <1>2 DEF Next, AllEnded

(* Sockets are probed from those of the host and bound by processes.       *)
LEMMA NetStep ==
  ASSUME NetOK, [Next]_vars
  PROVE  NetOK'
<1> USE DEF NetOK, filevars, netvars, restvars, Sockets
<1>1. CASE UNCHANGED vars
  BY <1>1 DEF vars
<1>2. ASSUME NEW p \in Procs, Step(p)
      PROVE  NetOK'
  <2>1. CASE \E c \in Commands : Start(p, c)
    BY <2>1 DEF Start
  <2>2. CASE Stat(p)
    BY <2>2 DEF Stat
  <2>3. CASE LoadContext(p)
    BY <2>3 DEF LoadContext
  <2>4. CASE MakeDir(p)
    BY <2>4 DEF MakeDir
  <2>5. CASE CreateFile(p)
    BY <2>5 DEF CreateFile
  <2>6. CASE Probe(p)
    BY <2>6 DEF Probe, Probes, findFreePort, FindFreeVNCDisplay, Free,
      Unprobed
  <2>7. CASE Boot(p)
    BY <2>7 DEF Boot, SocketsOf
  <2>8. CASE PortTaken(p)
    BY <2>8 DEF PortTaken
  <2>9. CASE WriteDaemonFile(p)
    BY <2>9 DEF WriteDaemonFile
  <2>10. CASE SessionEnds(p)
    BY <2>10 DEF SessionEnds, Released
  <2>11. CASE RemoveAddr(p)
    BY <2>11 DEF RemoveAddr
  <2>12. CASE RemovePid(p)
    BY <2>12 DEF RemovePid
  <2>13. CASE SaveSnapshot(p)
    BY <2>13 DEF SaveSnapshot
  <2>14. CASE RemoveTest(p)
    BY <2>14 DEF RemoveTest
  <2>15. CASE Fail(p)
    BY <2>15 DEF Fail, Released
  <2>16. CASE KillDaemon(p)
    BY <2>16 DEF KillDaemon, Released
  <2>17. CASE RemoveEntry(p)
    BY <2>17 DEF RemoveEntry
  <2>18. CASE FindDaemon(p)
    BY <2>18 DEF FindDaemon
  <2>19. CASE Connect(p)
    BY <2>19 DEF Connect
  <2>20. CASE Crash(p)
    BY <2>20 DEF Crash, Released
  <2>21. CASE ReuseNumber(p)
    BY <2>21 DEF ReuseNumber
  <2>22. CASE ReadPid(p)
    BY <2>22 DEF ReadPid
  <2> QED
    BY <1>2, <2>1, <2>2, <2>3, <2>4, <2>5, <2>6, <2>7, <2>8, <2>9, <2>10,
      <2>11, <2>12, <2>13, <2>14, <2>15, <2>16, <2>17, <2>18, <2>19, <2>20,
      <2>21, <2>22 DEF Step
<1> QED
  BY <1>1, <1>2 DEF Next, AllEnded

(* raced is a flag.                                                        *)
LEMMA RaceOKStep ==
  ASSUME RaceOK, [Next]_vars
  PROVE  RaceOK'
<1> USE DEF RaceOK, filevars, netvars, restvars
<1>1. CASE UNCHANGED vars
  BY <1>1 DEF vars
<1>2. ASSUME NEW p \in Procs, Step(p)
      PROVE  RaceOK'
  <2>1. CASE \E c \in Commands : Start(p, c)
    BY <2>1 DEF Start
  <2>2. CASE Stat(p)
    BY <2>2 DEF Stat
  <2>3. CASE LoadContext(p)
    BY <2>3 DEF LoadContext
  <2>4. CASE MakeDir(p)
    BY <2>4 DEF MakeDir
  <2>5. CASE CreateFile(p)
    BY <2>5 DEF CreateFile
  <2>6. CASE Probe(p)
    BY <2>6 DEF Probe
  <2>7. CASE Boot(p)
    BY <2>7 DEF Boot
  <2>8. CASE PortTaken(p)
    BY <2>8 DEF PortTaken
  <2>9. CASE WriteDaemonFile(p)
    BY <2>9 DEF WriteDaemonFile
  <2>10. CASE SessionEnds(p)
    BY <2>10 DEF SessionEnds
  <2>11. CASE RemoveAddr(p)
    BY <2>11 DEF RemoveAddr
  <2>12. CASE RemovePid(p)
    BY <2>12 DEF RemovePid
  <2>13. CASE SaveSnapshot(p)
    BY <2>13 DEF SaveSnapshot
  <2>14. CASE RemoveTest(p)
    BY <2>14 DEF RemoveTest
  <2>15. CASE Fail(p)
    BY <2>15 DEF Fail
  <2>16. CASE KillDaemon(p)
    BY <2>16 DEF KillDaemon
  <2>17. CASE RemoveEntry(p)
    BY <2>17 DEF RemoveEntry
  <2>18. CASE FindDaemon(p)
    BY <2>18 DEF FindDaemon
  <2>19. CASE Connect(p)
    BY <2>19 DEF Connect
  <2>20. CASE Crash(p)
    BY <2>20 DEF Crash
  <2>21. CASE ReuseNumber(p)
    BY <2>21 DEF ReuseNumber
  <2>22. CASE ReadPid(p)
    BY <2>22 DEF ReadPid
  <2> QED
    BY <1>2, <2>1, <2>2, <2>3, <2>4, <2>5, <2>6, <2>7, <2>8, <2>9, <2>10,
      <2>11, <2>12, <2>13, <2>14, <2>15, <2>16, <2>17, <2>18, <2>19, <2>20,
      <2>21, <2>22 DEF Step
<1> QED
  BY <1>1, <1>2 DEF Next, AllEnded

(* Stages keep to their command.                                           *)
LEMMA CmdStep ==
  ASSUME ProcOK, CmdInv, [Next]_vars
  PROVE  CmdInv'
<1> USE DEF ProcOK, CmdInv, filevars, netvars, restvars, Go, Stages,
  CreateStages, DaemonStages, Ended
<1>1. CASE UNCHANGED vars
  BY <1>1 DEF vars
<1>2. ASSUME NEW p \in Procs, Step(p)
      PROVE  CmdInv'
  <2>1. CASE \E c \in Commands : Start(p, c)
    BY <2>1 DEF Start, First, Commands
  <2>2. CASE Stat(p)
    BY <2>2 DEF Stat
  <2>3. CASE LoadContext(p)
    BY <2>3 DEF LoadContext
  <2>4. CASE MakeDir(p)
    BY <2>4 DEF MakeDir
  <2>5. CASE CreateFile(p)
    BY <2>5 DEF CreateFile, Put, NextFile
  <2>6. CASE Probe(p)
    BY <2>6 DEF Probe
  <2>7. CASE Boot(p)
    BY <2>7 DEF Boot
  <2>8. CASE PortTaken(p)
    BY <2>8 DEF PortTaken
  <2>9. CASE WriteDaemonFile(p)
    <3>1. /\ at' = [at EXCEPT ![p] = at'[p]] /\ cmd' = cmd
          /\ at'[p] \in {"pid", "ssh_port", "vnc_port", "running"}
      BY <2>9, DaemonFact DEF WriteDaemonFile
    <3> QED
      BY <3>1
  <2>10. CASE SessionEnds(p)
    BY <2>10 DEF SessionEnds
  <2>11. CASE RemoveAddr(p)
    BY <2>11 DEF RemoveAddr
  <2>12. CASE RemovePid(p)
    BY <2>12 DEF RemovePid
  <2>13. CASE SaveSnapshot(p)
    BY <2>13 DEF SaveSnapshot
  <2>14. CASE RemoveTest(p)
    BY <2>14 DEF RemoveTest
  <2>15. CASE Fail(p)
    BY <2>15 DEF Fail
  <2>16. CASE KillDaemon(p)
    BY <2>16 DEF KillDaemon, Alive
  <2>17. CASE RemoveEntry(p)
    BY <2>17 DEF RemoveEntry
  <2>18. CASE FindDaemon(p)
    BY <2>18 DEF FindDaemon
  <2>19. CASE Connect(p)
    BY <2>19 DEF Connect
  <2>20. CASE Crash(p)
    BY <2>20 DEF Crash, Crashed
  <2>21. CASE ReuseNumber(p)
    BY <2>21 DEF ReuseNumber
  <2>22. CASE ReadPid(p)
    BY <2>22 DEF ReadPid
  <2> QED
    BY <1>2, <2>1, <2>2, <2>3, <2>4, <2>5, <2>6, <2>7, <2>8, <2>9, <2>10,
      <2>11, <2>12, <2>13, <2>14, <2>15, <2>16, <2>17, <2>18, <2>19, <2>20,
      <2>21, <2>22 DEF Step
<1> QED
  BY <1>1, <1>2 DEF Next, AllEnded

(* What is in a directory before and after each file.                      *)
LEMMA WantedFacts ==
  /\ Wanted \subseteq Files \ DaemonStages
  /\ \A s \in CreateStages :
       LET n == NextFile("setup", s) IN
         /\ n \in CreateStages \cup {"probe"}
         /\ n \in CreateStages => Before(n) \subseteq Before(s) \cup {s}
  /\ \A s \in CreateStages : Before(s) \subseteq Wanted
  /\ Wanted \subseteq Before("config") \cup {"config"}
  /\ \A c : NextFile(c, "config") = "probe"
  BY WorkspaceAssumption
  DEF Wanted, Files, DaemonStages, PortFiles, NextFile, CreateStages, Before

(* A probe finds a socket of the host that nobody has bound.               *)
LEMMA ProbeFact ==
  ASSUME NEW k, NEW s \in Probes(k)
  PROVE  s \in Sockets /\ bound[s] = None /\ s # None
  BY WorkspaceAssumption
  DEF Probes, findFreePort, FindFreeVNCDisplay, Free, Sockets

(* What vm-destroy has begun it does not take back.                        *)
LEMMA DestroyedStays ==
  ASSUME Destroyed, ProcOK, CmdInv, [Next]_vars
  PROVE  Destroyed'
<1> USE DEF Destroyed, NothingDestroyed, ProcOK, CmdInv, filevars, netvars,
  restvars, Go
<1>1. CASE UNCHANGED vars
  BY <1>1 DEF vars
<1>2. ASSUME NEW p \in Procs, Step(p)
      PROVE  Destroyed'
  <2>1. CASE \E c \in Commands : Start(p, c)
    BY <2>1 DEF Start, First, Commands
  <2>2. CASE Stat(p)
    BY <2>2 DEF Stat
  <2>3. CASE LoadContext(p)
    BY <2>3 DEF LoadContext
  <2>4. CASE MakeDir(p)
    BY <2>4 DEF MakeDir
  <2>5. CASE CreateFile(p)
    BY <2>5 DEF CreateFile, CreateStages
  <2>6. CASE Probe(p)
    BY <2>6 DEF Probe
  <2>7. CASE Boot(p)
    BY <2>7 DEF Boot
  <2>8. CASE PortTaken(p)
    BY <2>8 DEF PortTaken
  <2>9. CASE WriteDaemonFile(p)
    BY <2>9, DaemonFact DEF WriteDaemonFile
  <2>10. CASE SessionEnds(p)
    BY <2>10 DEF SessionEnds
  <2>11. CASE RemoveAddr(p)
    BY <2>11 DEF RemoveAddr
  <2>12. CASE RemovePid(p)
    BY <2>12 DEF RemovePid
  <2>13. CASE SaveSnapshot(p)
    BY <2>13 DEF SaveSnapshot
  <2>14. CASE RemoveTest(p)
    BY <2>14 DEF RemoveTest
  <2>15. CASE Fail(p)
    BY <2>15 DEF Fail
  <2>16. CASE KillDaemon(p)
    BY <2>16 DEF KillDaemon, Alive, Ended
  <2>17. CASE RemoveEntry(p)
    BY <2>17 DEF RemoveEntry
  <2>18. CASE FindDaemon(p)
    BY <2>18 DEF FindDaemon
  <2>19. CASE Connect(p)
    BY <2>19 DEF Connect
  <2>20. CASE Crash(p)
    BY <2>20 DEF Crash, Crashed, Alive, Ended
  <2>21. CASE ReuseNumber(p)
    BY <2>21 DEF ReuseNumber, Ended
  <2>22. CASE ReadPid(p)
    BY <2>22 DEF ReadPid
  <2> QED
    BY <1>2, <2>1, <2>2, <2>3, <2>4, <2>5, <2>6, <2>7, <2>8, <2>9, <2>10,
      <2>11, <2>12, <2>13, <2>14, <2>15, <2>16, <2>17, <2>18, <2>19, <2>20,
      <2>21, <2>22 DEF Step
<1> QED
  BY <1>1, <1>2 DEF Next, AllEnded

(* CreateContext writes its files in order and nobody removes one before    *)
(* vm-destroy does: config.json comes with all the others.                 *)
LEMMA FilesStep ==
  ASSUME ProcOK, FileOK, CmdInv, FilesOK,
         NothingDestroyed, NothingDestroyed', [Next]_vars
  PROVE  FilesOK'
<1> USE DEF FilesOK, ProcOK, CmdInv, filevars, netvars, restvars, Go
<1>1. CASE UNCHANGED vars
  BY <1>1 DEF vars
<1>2. ASSUME NEW p \in Procs, Step(p)
      PROVE  FilesOK'
  <2>1. CASE \E c \in Commands : Start(p, c)
    BY <2>1, WantedFacts DEF Start, First, CreateStages
  <2>2. CASE Stat(p)
    BY <2>2, WantedFacts DEF Stat, CreateStages
  <2>3. CASE LoadContext(p)
    BY <2>3, WantedFacts DEF LoadContext, CreateStages
  <2>4. CASE MakeDir(p)
    BY <2>4, WantedFacts DEF MakeDir, CreateStages, Before
  <2>5. CASE CreateFile(p)
    <3>1. at[p] \in Files /\ at[p] \in CreateStages
      BY <2>5 DEF CreateFile, CreateStages, Files
    <3>2. CASE cmd[p] # "setup"
      <4>1. root' = root
        BY <2>5, <3>1, <3>2, PutFact DEF CreateFile
      <4> QED
        BY <2>5, <3>2, <4>1 DEF CreateFile
    <3>3. CASE cmd[p] = "setup"
      <4>1. root' = root \cup {at[p]}
        BY <2>5, <3>1, <3>3, PutFact DEF CreateFile
      <4>2. Before(at[p]) \subseteq root
        BY <3>1, <3>3
      <4>3. "config" \in root' => Wanted \subseteq root'
        BY <4>1, <4>2, WantedFacts
      <4>4. ASSUME NEW q \in Procs, cmd'[q] = "setup", at'[q] \in CreateStages
            PROVE  Before(at'[q]) \subseteq root'
        <5>1. CASE q = p
          BY <2>5, <3>1, <3>3, <4>1, <4>2, <4>4, <5>1, WantedFacts
          DEF CreateFile
        <5>2. CASE q # p
          BY <2>5, <4>1, <4>4, <5>2 DEF CreateFile
        <5> QED
          BY <5>1, <5>2
      <4> QED
        BY <4>3, <4>4 DEF Before
    <3> QED
      BY <3>2, <3>3
  <2>6. CASE Probe(p)
    BY <2>6, WantedFacts DEF Probe, CreateStages
  <2>7. CASE Boot(p)
    BY <2>7, WantedFacts DEF Boot, CreateStages
  <2>8. CASE PortTaken(p)
    BY <2>8, WantedFacts DEF PortTaken, CreateStages
  <2>9. CASE WriteDaemonFile(p)
    <3>1. /\ at[p] \in DaemonStages /\ at[p] \notin Wanted
          /\ at'[p] \notin CreateStages
      BY <2>9, WriteFact, WantedFacts DEF CreateStages
    <3>2. root' = root \/ root' = root \cup {at[p]}
      BY <2>9, WriteFact
    <3>3. "config" \in root' => "config" \in root
      BY <3>1, <3>2, DaemonFact
    <3>4. ASSUME NEW q \in Procs, cmd'[q] = "setup", at'[q] \in CreateStages
          PROVE  q # p
      BY <3>1, <3>4
    <3> QED
      BY <2>9, <3>2, <3>3, <3>4 DEF WriteDaemonFile
  <2>10. CASE SessionEnds(p)
    BY <2>10, WantedFacts DEF SessionEnds, CreateStages
  <2>11. CASE RemoveAddr(p)
    BY <2>11, WantedFacts, DaemonFact DEF RemoveAddr, CreateStages
  <2>12. CASE RemovePid(p)
    BY <2>12, WantedFacts, DaemonFact DEF RemovePid, CreateStages
  <2>13. CASE SaveSnapshot(p)
    BY <2>13, WantedFacts DEF SaveSnapshot, CreateStages
  <2>14. CASE RemoveTest(p)
    BY <2>14, WantedFacts DEF RemoveTest, CreateStages
  <2>15. CASE Fail(p)
    BY <2>15, WantedFacts DEF Fail, CreateStages
  <2>16. CASE KillDaemon(p)
    BY <2>16, WantedFacts DEF KillDaemon, Alive, CreateStages
  <2>17. CASE RemoveEntry(p)
    BY <2>17, WantedFacts DEF RemoveEntry, NothingDestroyed
  <2>18. CASE FindDaemon(p)
    BY <2>18, WantedFacts DEF FindDaemon, CreateStages
  <2>19. CASE Connect(p)
    BY <2>19, WantedFacts DEF Connect, CreateStages
  <2>20. CASE Crash(p)
    BY <2>20, WantedFacts DEF Crash, Crashed, CreateStages
  <2>21. CASE ReuseNumber(p)
    BY <2>21, WantedFacts DEF ReuseNumber
  <2>22. CASE ReadPid(p)
    BY <2>22, WantedFacts DEF ReadPid, CreateStages
  <2> QED
    BY <1>2, <2>1, <2>2, <2>3, <2>4, <2>5, <2>6, <2>7, <2>8, <2>9, <2>10,
      <2>11, <2>12, <2>13, <2>14, <2>15, <2>16, <2>17, <2>18, <2>19, <2>20,
      <2>21, <2>22 DEF Step
<1> QED
  BY <1>1, <1>2 DEF Next, AllEnded

(* Whoever wrote a daemon file is a vm-setup that has not removed it.      *)
LEMMA DaemonStep ==
  ASSUME ProcOK, FileOK, NumberOK, CmdInv, ReadInv, DaemonFilesOfSetups,
         [Next]_vars
  PROVE  DaemonFilesOfSetups'
<1> USE DEF ProcOK, FileOK, NumberOK, CmdInv, DaemonFilesOfSetups, filevars,
  netvars, restvars, Go, Commands
<1>1. CASE UNCHANGED vars
  BY <1>1 DEF vars
<1>2. ASSUME NEW p \in Procs, Step(p)
      PROVE  DaemonFilesOfSetups'
  <2>1. CASE \E c \in Commands : Start(p, c)
    <3>1. \A q \in struck : at[q] # "idle"
      BY DEF ReadInv
    <3> QED
      BY <2>1, <3>1 DEF Start, First
  <2>2. CASE Stat(p)
    BY <2>2 DEF Stat
  <2>3. CASE LoadContext(p)
    BY <2>3 DEF LoadContext
  <2>4. CASE MakeDir(p)
    BY <2>4 DEF MakeDir
  <2>5. CASE CreateFile(p)
    <3>1. at[p] \in CreateStages /\ at[p] \in Files
      BY <2>5 DEF CreateFile, CreateStages, Files
    <3>2. root' = root \/ root' = root \cup {at[p]}
      BY <2>5, <3>1, PutFact DEF CreateFile
    <3>3. root' \cap {"addr", "pid"} = root \cap {"addr", "pid"}
      BY <3>1, <3>2 DEF CreateStages
    <3> QED
      BY <2>5, <3>1, <3>3 DEF CreateFile, CreateStages
  <2>6. CASE Probe(p)
    BY <2>6 DEF Probe
  <2>7. CASE Boot(p)
    BY <2>7 DEF Boot
  <2>8. CASE PortTaken(p)
    BY <2>8 DEF PortTaken
  <2>9. CASE WriteDaemonFile(p)
    <3>1. /\ at[p] \in DaemonStages /\ at'[p] = NextDaemonFile[at[p]]
          /\ at' = [at EXCEPT ![p] = at'[p]] /\ cmd' = cmd
          /\ struck' = struck /\ overtaken' = overtaken
      BY <2>9, WriteFact DEF WriteDaemonFile
    <3>2. CASE cmd[p] = "setup"
      <4>1. /\ root' = root \cup {at[p]}
            /\ addr' = IF at[p] = "addr" THEN p ELSE addr
            /\ pid' = IF at[p] = "pid" THEN p ELSE pid
        BY <2>9, <3>2, WriteFact DEF WriteDaemonFile
      <4> QED
        BY <3>1, <3>2, <4>1, DaemonFact
    <3>3. CASE cmd[p] # "setup"
      <4>1. root' = root /\ addr' = addr /\ pid' = pid
        BY <2>9, <3>3, WriteFact DEF WriteDaemonFile
      <4> QED
        BY <3>1, <3>3, <4>1
    <3> QED
      BY <3>2, <3>3
  <2>10. CASE SessionEnds(p)
    BY <2>10 DEF SessionEnds
  <2>11. CASE RemoveAddr(p)
    BY <2>11 DEF RemoveAddr
  <2>12. CASE RemovePid(p)
    BY <2>12 DEF RemovePid
  <2>13. CASE SaveSnapshot(p)
    BY <2>13 DEF SaveSnapshot
  <2>14. CASE RemoveTest(p)
    BY <2>14 DEF RemoveTest
  <2>15. CASE Fail(p)
    BY <2>15 DEF Fail
  <2>16. CASE KillDaemon(p)
    <3>1. CASE found[p] \in Procs /\ Alive(found[p])
      <4>1. /\ at' = [at EXCEPT ![found[p]] = "crashed", ![p] = "remove"]
            /\ at[p] = "kill" /\ cmd[p] = "destroy"
            /\ struck' = struck /\ overtaken' = overtaken /\ cmd' = cmd
            /\ root' = root /\ addr' = addr /\ pid' = pid
        BY <2>16, <3>1 DEF KillDaemon
      <4> QED
        BY <4>1
    <3>2. CASE ~(found[p] \in Procs /\ Alive(found[p]))
      <4>1. /\ at' = [at EXCEPT ![p] = "remove"] /\ at[p] = "kill"
            /\ struck' = struck \cup ({found[p]} \cap reused)
            /\ cmd[p] = "destroy"
        BY <2>16, <3>2 DEF KillDaemon
      <4>2. ASSUME found[p] \in Procs
            PROVE  /\ cmd[found[p]] = "setup"
                   /\ \/ at[found[p]] \in {"failed", "crashed"}
                      \/ found[p] \in overtaken
        BY <3>2, <4>1, <4>2 DEF ReadInv, Alive, Ended
      <4>3. \A q \in struck' :
              cmd[q] = "setup" /\ (at[q] \in {"failed", "crashed"}
                                  \/ q \in overtaken)
        BY <4>1, <4>2
      <4> QED
        BY <2>16, <4>1, <4>3 DEF KillDaemon
    <3> QED
      BY <3>1, <3>2
  <2>17. CASE RemoveEntry(p)
    BY <2>17 DEF RemoveEntry
  <2>18. CASE FindDaemon(p)
    BY <2>18 DEF FindDaemon
  <2>19. CASE Connect(p)
    BY <2>19 DEF Connect
  <2>20. CASE Crash(p)
    BY <2>20 DEF Crash, Crashed, Alive, Ended
  <2>21. CASE ReuseNumber(p)
    BY <2>21 DEF ReuseNumber, Ended
  <2>22. CASE ReadPid(p)
    BY <2>22 DEF ReadPid
  <2> QED
    BY <1>2, <2>1, <2>2, <2>3, <2>4, <2>5, <2>6, <2>7, <2>8, <2>9, <2>10,
      <2>11, <2>12, <2>13, <2>14, <2>15, <2>16, <2>17, <2>18, <2>19, <2>20,
      <2>21, <2>22 DEF Step
<1> QED
  BY <1>1, <1>2 DEF Next, AllEnded

(* Whose number vm-destroy has read fails, crashes, or overtakes it.        *)
LEMMA ReadStep ==
  ASSUME ProcOK, FileOK, NumberOK, DaemonFilesOfSetups, ReadInv, [Next]_vars
  PROVE  ReadInv'
<1> USE DEF ProcOK, NumberOK, ReadInv, filevars, netvars, restvars, Go
<1>1. CASE UNCHANGED vars
  BY <1>1 DEF vars
<1>2. ASSUME NEW p \in Procs, Step(p)
      PROVE  ReadInv'
  <2>1. CASE \E c \in Commands : Start(p, c)
    BY <2>1 DEF Start, First, Commands
  <2>2. CASE Stat(p)
    BY <2>2 DEF Stat
  <2>3. CASE LoadContext(p)
    BY <2>3 DEF LoadContext
  <2>4. CASE MakeDir(p)
    BY <2>4 DEF MakeDir
  <2>5. CASE CreateFile(p)
    <3>1. /\ at[p] \in CreateStages
          /\ NextFile(cmd[p], at[p]) \in CreateStages \cup {"probe"}
      BY <2>5 DEF CreateFile, CreateStages, NextFile
    <3> QED
      BY <2>5, <3>1 DEF CreateFile, CreateStages
  <2>6. CASE Probe(p)
    BY <2>6 DEF Probe
  <2>7. CASE Boot(p)
    BY <2>7 DEF Boot
  <2>8. CASE PortTaken(p)
    BY <2>8 DEF PortTaken
  <2>9. CASE WriteDaemonFile(p)
    BY <2>9, WriteFact, DaemonFact DEF WriteDaemonFile
  <2>10. CASE SessionEnds(p)
    BY <2>10 DEF SessionEnds
  <2>11. CASE RemoveAddr(p)
    BY <2>11 DEF RemoveAddr
  <2>12. CASE RemovePid(p)
    <3>1. \A d \in Procs : at[d] = "kill" /\ found[d] = p => p \in overtaken'
      BY <2>12 DEF RemovePid, PidsRead
    <3> QED
      BY <2>12, <3>1 DEF RemovePid
  <2>13. CASE SaveSnapshot(p)
    BY <2>13 DEF SaveSnapshot
  <2>14. CASE RemoveTest(p)
    BY <2>14 DEF RemoveTest
  <2>15. CASE Fail(p)
    BY <2>15 DEF Fail, CreateStages, DaemonStages, PortFiles
  <2>16. CASE KillDaemon(p)
    BY <2>16 DEF KillDaemon, Alive, Ended
  <2>17. CASE RemoveEntry(p)
    BY <2>17 DEF RemoveEntry
  <2>18. CASE FindDaemon(p)
    BY <2>18 DEF FindDaemon
  <2>19. CASE Connect(p)
    BY <2>19 DEF Connect
  <2>20. CASE Crash(p)
    BY <2>20 DEF Crash, Crashed, Alive, Ended
  <2>21. CASE ReuseNumber(p)
    BY <2>21 DEF ReuseNumber
  <2>22. CASE ReadPid(p)
    <3>1. /\ at' = [at EXCEPT ![p] = "kill"] /\ cmd' = cmd
          /\ found' = [found EXCEPT ![p] = IF "pid" \in root THEN pid ELSE None]
          /\ overtaken' = overtaken /\ at[p] = "read_pid"
      BY <2>22 DEF ReadPid
    <3>2. ASSUME found'[p] \in Procs
          PROVE  /\ cmd[found'[p]] = "setup" /\ found'[p] # p
                 /\ at[found'[p]] \in
                    {"ssh_port", "vnc_port", "running", "remove_addr",
                     "remove_pid", "failed", "crashed"}
      BY <3>1, <3>2, WorkspaceAssumption DEF DaemonFilesOfSetups, FileOK
    <3> QED
      BY <3>1, <3>2
  <2> QED
    BY <1>2, <2>1, <2>2, <2>3, <2>4, <2>5, <2>6, <2>7, <2>8, <2>9, <2>10,
      <2>11, <2>12, <2>13, <2>14, <2>15, <2>16, <2>17, <2>18, <2>19, <2>20,
      <2>21, <2>22 DEF Step
<1> QED
  BY <1>1, <1>2 DEF Next, AllEnded

(* A socket may be taken between the probe and the bind.                   *)
LEMMA RaceStep ==
  ASSUME ProcOK, NetOK, RaceOK, RaceInv, [Next]_vars
  PROVE  RaceInv'
<1> USE DEF ProcOK, NetOK, RaceOK, RaceInv, Unprobed, Coincide, SocketsOf,
  filevars, netvars, restvars, Go, CreateStages
<1>1. CASE UNCHANGED vars
  BY <1>1 DEF vars
<1>2. ASSUME NEW p \in Procs, Step(p)
      PROVE  RaceInv'
  <2>1. CASE \E c \in Commands : Start(p, c)
    BY <2>1 DEF Start, First, Commands
  <2>2. CASE Stat(p)
    BY <2>2 DEF Stat
  <2>3. CASE LoadContext(p)
    BY <2>3 DEF LoadContext
  <2>4. CASE MakeDir(p)
    BY <2>4 DEF MakeDir
  <2>5. CASE CreateFile(p)
    BY <2>5 DEF CreateFile, NextFile
  <2>6. CASE Probe(p)
    <3>0. PICK k \in Unprobed(p) : \E s \in Probes(k) :
            /\ sock' = [sock EXCEPT ![p][k] = s]
            /\ at' = [at EXCEPT ![p] = IF Unprobed(p) = {k} THEN "boot" ELSE @]
      BY <2>6 DEF Probe
    <3>1. PICK s \in Probes(k) :
            /\ sock' = [sock EXCEPT ![p][k] = s]
            /\ at' = [at EXCEPT ![p] = IF Unprobed(p) = {k} THEN "boot" ELSE @]
      BY <3>0
    <3>2. s \in Sockets /\ bound[s] = None /\ s # None
      BY ProbeFact
    <3>3. at[p] = "probe" /\ bound' = bound /\ raced' = raced /\ k \in Kinds
      BY <2>6, <3>1 DEF Probe
    <3>4. \A j \in Kinds : sock'[p][j] = IF j = k THEN s ELSE sock[p][j]
      BY <3>1, <3>3
    <3>5. \A q \in Procs : q # p => sock'[q] = sock[q] /\ at'[q] = at[q]
      BY <3>1
    <3>6. /\ at'[p] \in {"probe", "boot"}
          /\ at'[p] = "boot" => Unprobed(p) = {k}
      BY <3>1, <3>3
    <3>7. ASSUME NEW q \in Procs, q # p
          PROVE  Unprobed(q)' = Unprobed(q) /\ Coincide(q)' = Coincide(q)
      BY <3>5, <3>7
    <3>8. at'[p] = "boot" => Unprobed(p)' = {}
      BY <3>2, <3>4, <3>6
    <3>9. \A j \in Kinds :
            sock'[p][j] # None /\ bound'[sock'[p][j]] # None => raced'[p]
      BY <3>2, <3>3, <3>4
    <3>10. ASSUME NEW q \in Procs, q # p
           PROVE  /\ at'[q] \in {"idle", "stat", "load", "mkdir"}
                              \cup CreateStages => Unprobed(q)' = Kinds
                  /\ at'[q] \in {"probe", "boot"} =>
                       \A j \in Kinds :
                         sock'[q][j] # None /\ bound'[sock'[q][j]] # None
                         => raced'[q]
                  /\ at'[q] = "boot" => Unprobed(q)' = {}
                  /\ at'[q] = "port_taken" => raced'[q] \/ Coincide(q)'
      BY <3>3, <3>5, <3>7, <3>10
    <3> QED
      BY <3>6, <3>8, <3>9, <3>10
  <2>7. CASE Boot(p)
    <3>1. ASSUME NEW q \in Procs, at'[q] \in {"probe", "boot"},
                 NEW k \in Kinds,
                 sock'[q][k] # None, bound'[sock'[q][k]] # None
          PROVE  raced'[q]
      <4>1. q # p /\ at[q] \in {"probe", "boot"} /\ sock' = sock
        BY <2>7, <3>1 DEF Boot
      <4>2. sock[q][k] \in Sockets
        BY <3>1, <4>1
      <4>3. CASE sock[q][k] \in SocketsOf(p)
        <5>0. sock[q][k] \in {sock[q][j] : j \in Kinds}
          BY <3>1
        <5>1. SocketsOf(q) \cap SocketsOf(p) # {}
          BY <4>3, <5>0
        <5> QED
          BY <2>7, <4>1, <5>1 DEF Boot
      <4>4. CASE sock[q][k] \notin SocketsOf(p)
        <5>1. bound'[sock[q][k]] = bound[sock[q][k]]
          BY <2>7, <4>2, <4>4 DEF Boot
        <5>2. raced[q]
          BY <3>1, <4>1, <5>1
        <5> QED
          BY <2>7, <5>2 DEF Boot
      <4> QED
        BY <4>3, <4>4
    <3>2. \A q \in Procs : raced[q] => raced'[q]
      BY <2>7 DEF Boot
    <3>3. /\ at' = [at EXCEPT ![p] = "addr"] /\ sock' = sock
      BY <2>7 DEF Boot
    <3>4. ASSUME NEW q \in Procs
          PROVE  /\ at'[q] \in {"idle", "stat", "load", "mkdir"}
                              \cup CreateStages => Unprobed(q)' = Kinds
                 /\ at'[q] = "boot" => Unprobed(q)' = {}
                 /\ at'[q] = "port_taken" => raced'[q] \/ Coincide(q)'
      <4>1. at'[q] = at[q] \/ at'[q] = "addr"
        BY <3>3
      <4>2. Unprobed(q)' = Unprobed(q) /\ Coincide(q)' = Coincide(q)
        BY <3>3
      <4> QED
        BY <3>2, <4>1, <4>2
    <3> QED
      BY <3>1, <3>4
  <2>8. CASE PortTaken(p)
    BY <2>8 DEF PortTaken
  <2>9. CASE WriteDaemonFile(p)
    <3>1. /\ at' = [at EXCEPT ![p] = NextDaemonFile[at[p]]]
          /\ at[p] \in DaemonStages
          /\ NextDaemonFile[at[p]] \in {"pid", "ssh_port", "vnc_port", "running"}
      BY <2>9, DaemonFact DEF WriteDaemonFile
    <3> QED
      BY <2>9, <3>1 DEF WriteDaemonFile
  <2>10. CASE SessionEnds(p)
    BY <2>10 DEF SessionEnds, Released
  <2>11. CASE RemoveAddr(p)
    BY <2>11 DEF RemoveAddr
  <2>12. CASE RemovePid(p)
    BY <2>12 DEF RemovePid
  <2>13. CASE SaveSnapshot(p)
    BY <2>13 DEF SaveSnapshot
  <2>14. CASE RemoveTest(p)
    BY <2>14 DEF RemoveTest
  <2>15. CASE Fail(p)
    BY <2>15 DEF Fail, Released
  <2>16. CASE KillDaemon(p)
    BY <2>16 DEF KillDaemon, Alive, Released
  <2>17. CASE RemoveEntry(p)
    BY <2>17 DEF RemoveEntry
  <2>18. CASE FindDaemon(p)
    BY <2>18 DEF FindDaemon
  <2>19. CASE Connect(p)
    BY <2>19 DEF Connect
  <2>20. CASE Crash(p)
    BY <2>20 DEF Crash, Crashed, Released
  <2>21. CASE ReuseNumber(p)
    BY <2>21 DEF ReuseNumber
  <2>22. CASE ReadPid(p)
    BY <2>22 DEF ReadPid
  <2> QED
    BY <1>2, <2>1, <2>2, <2>3, <2>4, <2>5, <2>6, <2>7, <2>8, <2>9, <2>10,
      <2>11, <2>12, <2>13, <2>14, <2>15, <2>16, <2>17, <2>18, <2>19, <2>20,
      <2>21, <2>22 DEF Step
<1> QED
  BY <1>1, <1>2 DEF Next, AllEnded

(* The steps of a command that leave the directory of the VM as it is and   *)
(* neither begin nor end the creation of a context.                        *)
LEMMA PlainFact ==
  ASSUME ProcOK, CmdInv, NEW p \in Procs,
         \/ \E c \in Commands : Start(p, c)
         \/ Stat(p) \/ LoadContext(p) \/ Probe(p)
         \/ Boot(p) \/ PortTaken(p) \/ SessionEnds(p) \/ SaveSnapshot(p)
         \/ RemoveTest(p) \/ FindDaemon(p) \/ Connect(p)
         \/ ReadPid(p) \/ ReuseNumber(p)
  PROVE  /\ root' = root
         /\ \A q \in Procs \ {p} : at'[q] = at[q] /\ cmd'[q] = cmd[q]
         /\ at[p] \notin CreateStages /\ at'[p] \notin CreateStages
         /\ Smooth' => at[p] \notin {"remove", "failed", "crashed"}
  BY DEF ProcOK, CmdInv, Go, filevars, netvars, restvars, CreateStages,
    DaemonStages, Ended, Smooth, Start, First, Commands, Stat, LoadContext,
    Probe, Boot, PortTaken, SessionEnds, SaveSnapshot, RemoveTest, FindDaemon,
    Connect, ReadPid, ReuseNumber

(* Files are put for this VM's settings only, and the directory goes last.  *)
LEMMA EntriesStep ==
  ASSUME ProcOK, FileOK, CmdInv, EntriesInv, [Next]_vars
  PROVE  EntriesInv'
<1> USE DEF EntriesInv
<1>1. CASE UNCHANGED vars
  BY <1>1 DEF vars
<1>2. ASSUME NEW p \in Procs, Step(p)
      PROVE  EntriesInv'
  <2>1. CASE \/ \E c \in Commands : Start(p, c)
             \/ Stat(p) \/ LoadContext(p) \/ Probe(p)
             \/ Boot(p) \/ PortTaken(p) \/ SessionEnds(p) \/ SaveSnapshot(p)
             \/ RemoveTest(p) \/ FindDaemon(p) \/ Connect(p)
             \/ ReadPid(p) \/ ReuseNumber(p)
    <3>1. /\ root' = root
          /\ \A q \in Procs \ {p} : at'[q] = at[q]
          /\ at'[p] \notin CreateStages
      BY <2>1, PlainFact
    <3> QED
      BY <3>1
  <2>2. CASE MakeDir(p)
    BY <2>2 DEF MakeDir, Go, ProcOK, Wanted
  <2>3. CASE CreateFile(p)
    <3>1. at[p] \in Wanted /\ at[p] \in Files /\ at[p] \in CreateStages
      BY <2>3, WantedFacts DEF CreateFile
    <3>2. /\ root' = root \/ root' = root \cup {at[p]}
          /\ root' # root => "dir" \in root
      BY <2>3, <3>1, PutFact DEF CreateFile, Put, Dir
    <3>3. /\ at' = [at EXCEPT ![p] = NextFile(cmd[p], at[p])]
          /\ NextFile(cmd[p], at[p]) \in CreateStages
               => NextFile(cmd[p], at[p]) \in Wanted
      BY <2>3 DEF CreateFile, NextFile, Wanted, CreateStages
    <3> QED
      BY <3>1, <3>2, <3>3 DEF ProcOK
  <2>4. CASE WriteDaemonFile(p)
    <3>1. at[p] \in DaemonStages
      BY <2>4, WriteFact
    <3>2. /\ root' = root \/ root' = root \cup {at[p]}
          /\ root' # root => "dir" \in root
      BY <2>4, WriteFact DEF WriteDaemonFile, Put, Dir
    <3>3. \A q \in Procs :
            \/ at'[q] = at[q]
            \/ at'[q] \in {"pid", "ssh_port", "vnc_port", "running"}
      BY <2>4, WriteFact DEF ProcOK
    <3> QED
      BY <3>1, <3>2, <3>3 DEF CreateStages
  <2>5. CASE RemoveAddr(p) \/ RemovePid(p)
    BY <2>5 DEF RemoveAddr, RemovePid, Go, ProcOK, CreateStages
  <2>6. CASE Fail(p) \/ KillDaemon(p) \/ Crash(p)
    BY <2>6 DEF Fail, KillDaemon, Crash, Crashed, filevars, ProcOK,
      CreateStages
  <2>7. CASE RemoveEntry(p)
    <3>1. root' = {} \/ (\E f \in root \ {"dir"} : root' = root \ {f})
          \/ root' = root
      BY <2>7 DEF RemoveEntry
    <3>2. \A q \in Procs : at'[q] = at[q] \/ at'[q] = "done"
      BY <2>7 DEF RemoveEntry, Go, ProcOK
    <3> QED
      BY <3>1, <3>2 DEF CreateStages
  <2> QED
    BY <1>2, <2>1, <2>2, <2>3, <2>4, <2>5, <2>6, <2>7 DEF Step
<1> QED
  BY <1>1, <1>2 DEF Next, AllEnded

(* The directory of a test lasts until its deferred removal.                *)
LEMMA TestsStep ==
  ASSUME ProcOK, FileOK, CmdInv, TestsInv, [Next]_vars
  PROVE  TestsInv'
<1> USE DEF TestsInv, ProcOK, FileOK, filevars
<1>1. CASE UNCHANGED vars
  BY <1>1 DEF vars
<1>2. ASSUME NEW p \in Procs, Step(p)
      PROVE  TestsInv'
  <2>1. CASE \E c \in Commands : Start(p, c)
    BY <2>1 DEF Start, Go
  <2>2. CASE Stat(p) \/ SaveSnapshot(p)
    BY <2>2 DEF Stat, SaveSnapshot, Go, CmdInv
  <2>3. CASE \/ LoadContext(p) \/ PortTaken(p) \/ FindDaemon(p) \/ Connect(p)
             \/ Probe(p) \/ Boot(p) \/ SessionEnds(p)
             \/ RemoveAddr(p) \/ RemovePid(p) \/ ReadPid(p)
    BY <2>3 DEF LoadContext, PortTaken, FindDaemon, Connect, Probe, Boot,
      SessionEnds, RemoveAddr, RemovePid, ReadPid, Go
  <2>4. CASE MakeDir(p)
    BY <2>4 DEF MakeDir, Go
  <2>5. CASE CreateFile(p)
    <3>1. \A q \in Procs : tests'[q] # {} => tests[q] # {}
      BY <2>5 DEF CreateFile, Put, Dir
    <3>2. /\ at' = [at EXCEPT ![p] = NextFile(cmd[p], at[p])] /\ cmd' = cmd
          /\ NextFile(cmd[p], at[p]) \in CreateStages \cup {"probe"}
      BY <2>5 DEF CreateFile, NextFile, CreateStages
    <3> QED
      BY <3>1, <3>2 DEF CreateStages
  <2>6. CASE WriteDaemonFile(p)
    <3>1. \A q \in Procs : tests'[q] # {} => tests[q] # {}
      BY <2>6 DEF WriteDaemonFile, Put, Dir
    <3> QED
      BY <2>6, <3>1, WriteFact
  <2>7. CASE RemoveTest(p)
    BY <2>7 DEF RemoveTest, Go
  <2>8. CASE Fail(p) \/ KillDaemon(p) \/ Crash(p) \/ ReuseNumber(p)
    BY <2>8 DEF Fail, KillDaemon, Crash, Crashed, ReuseNumber
  <2>9. CASE RemoveEntry(p)
    <3>1. \A q \in Procs : tests'[q] # {} => tests'[q] = tests[q]
      BY <2>9 DEF RemoveEntry
    <3>2. tests[p] = {}
      BY <2>9 DEF RemoveEntry, CmdInv
    <3>3. cmd' = cmd /\ \A q \in Procs \ {p} : at'[q] = at[q]
      BY <2>9 DEF RemoveEntry, Go
    <3> QED
      BY <3>1, <3>2, <3>3
  <2> QED
    BY <1>2, <2>1, <2>2, <2>3, <2>4, <2>5, <2>6, <2>7, <2>8, <2>9 DEF Step
<1> QED
  BY <1>1, <1>2 DEF Next, AllEnded

(* Whole or becoming so: who leaves the stage of the overlay has put it, or *)
(* is a test that has found it, and the last vm-destroy leaves nothing.     *)
LEMMA WholeStep ==
  ASSUME ProcOK, FileOK, CmdInv, EntriesInv, TestsInv, WholeInv, [Next]_vars
  PROVE  WholeInv'
<1> USE DEF WholeInv
<1>1. CASE UNCHANGED vars
  BY <1>1 DEF vars, Smooth, Completing
<1>2. ASSUME NEW p \in Procs, Step(p), Smooth'
      PROVE  WholeInv'
  <2>1. CASE \/ \E c \in Commands : Start(p, c)
             \/ Stat(p) \/ LoadContext(p) \/ Probe(p)
             \/ Boot(p) \/ PortTaken(p) \/ SessionEnds(p) \/ SaveSnapshot(p)
             \/ RemoveTest(p) \/ FindDaemon(p) \/ Connect(p)
             \/ ReadPid(p) \/ ReuseNumber(p)
    <3>1. /\ root' = root
          /\ \A q \in Procs \ {p} : at'[q] = at[q] /\ cmd'[q] = cmd[q]
          /\ at[p] \notin CreateStages
          /\ at[p] \notin {"remove", "failed", "crashed"}
      BY <1>2, <2>1, PlainFact
    <3>2. Smooth
      BY <1>2, <3>1 DEF Smooth
    <3>3. \A q \in Procs : /\ at[q] = "overlay" => at'[q] = "overlay"
                           /\ Completing(q) => Completing(q)'
      BY <3>1 DEF Completing, CreateStages, Before
    <3> QED
      BY <3>1, <3>2, <3>3
  <2>2. CASE MakeDir(p)
    <3>1. /\ root' = root \cup {"dir"} /\ at[p] = "mkdir" /\ cmd' = cmd
          /\ at' = [at EXCEPT ![p] = "overlay"]
      BY <2>2 DEF MakeDir, Go
    <3>2. Smooth
      BY <1>2, <3>1 DEF Smooth, ProcOK
    <3>3. at'[p] = "overlay" /\ ("overlay" \in root' <=> "overlay" \in root)
      BY <3>1 DEF ProcOK
    <3>4. \A q \in Procs : Completing(q) => Completing(q)'
      BY <3>1 DEF Completing, CreateStages, Before, ProcOK
    <3> QED
      BY <3>1, <3>2, <3>3, <3>4
  <2>3. CASE CreateFile(p)
    <3>1. /\ at[p] \in Files /\ at[p] \in CreateStages /\ cmd' = cmd
          /\ at' = [at EXCEPT ![p] = NextFile(cmd[p], at[p])]
      BY <2>3 DEF CreateFile, CreateStages, Files
    <3>2. Smooth
      BY <1>2, <3>1 DEF Smooth, ProcOK, CreateStages
    <3>3. CASE cmd[p] = "setup"
      <4>1. root' = root \cup {at[p]} /\ "dir" \in root
        BY <2>3, <3>1, <3>3, PutFact DEF CreateFile, Put, Dir
      <4>2. \A q \in Procs \ {p} : Completing(q) => Completing(q)'
        BY <3>1, <4>1 DEF Completing, CreateStages, Before, ProcOK
      <4>3. at[p] = "overlay" \/ Completing(p)
            => \/ Wanted \subseteq root'
               \/ "overlay" \in root' /\ Completing(p)'
        <5> SUFFICES ASSUME at[p] = "overlay" \/ Completing(p)
                     PROVE  \/ Wanted \subseteq root'
                            \/ "overlay" \in root' /\ Completing(p)'
          OBVIOUS
        <5>1. Before(at[p]) \subseteq root
          BY <4>1 DEF Before, Completing
        <5>2. "overlay" \in root'
          BY <4>1, <5>1, WantedFacts DEF Completing, CreateStages, Before,
            Wanted
        <5> DEFINE n == NextFile("setup", at[p])
        <5>3. /\ n \in CreateStages \cup {"probe"} /\ n # "overlay"
              /\ n \in CreateStages => Before(n) \subseteq root'
              /\ n = "probe" => at[p] = "config"
          <6>1. n # "overlay" /\ (n = "probe" => at[p] = "config")
            BY <3>1 DEF NextFile, CreateStages
          <6> QED
            BY <3>1, <4>1, <5>1, <6>1, WantedFacts
        <5>4. at'[p] = n
          BY <3>1, <3>3 DEF ProcOK
        <5>5. CASE n = "probe"
          BY <4>1, <5>1, <5>3, <5>5, WantedFacts
        <5>6. CASE n \in CreateStages
          <6>1. Before(at[p])' \subseteq root'
            BY <5>3, <5>4, <5>6 DEF Before
          <6> QED
            BY <3>1, <3>3, <5>2, <5>3, <5>4, <5>6, <6>1 DEF Completing
        <5> QED
          BY <5>3, <5>5, <5>6
      <4>4. \A q \in Procs \ {p} : at'[q] = at[q]
        BY <3>1
      <4> QED
        BY <3>2, <4>1, <4>2, <4>3, <4>4
    <3>4. CASE cmd[p] # "setup"
      <4>1. root' = root /\ (at[p] = "overlay" => "overlay" \in root)
        BY <2>3, <3>1, <3>4, PutFact DEF CreateFile, Put, Dir, TestsInv
      <4>2. \A q \in Procs \ {p} : /\ at'[q] = at[q]
                                   /\ Completing(q) => Completing(q)'
        BY <3>1, <4>1 DEF Completing, CreateStages, Before, ProcOK
      <4>3. ~Completing(p)
        BY <3>4 DEF Completing
      <4> QED
        BY <3>2, <4>1, <4>2, <4>3
    <3> QED
      BY <3>3, <3>4
  <2>4. CASE WriteDaemonFile(p) \/ RemoveAddr(p) \/ RemovePid(p)
    <3>1. /\ root' \ DaemonStages = root \ DaemonStages
          /\ at[p] \in DaemonStages \cup {"remove_addr", "remove_pid"}
          /\ cmd' = cmd /\ \A q \in Procs \ {p} : at'[q] = at[q]
      <4>1. CASE WriteDaemonFile(p)
        BY <4>1, WriteFact DEF ProcOK
      <4> QED
        BY <2>4, <4>1, DaemonFact DEF RemoveAddr, RemovePid, Go, ProcOK
    <3>2. Smooth
      BY <1>2, <3>1, DaemonFact DEF Smooth
    <3>3. \A q \in Procs : /\ at[q] = "overlay" => at'[q] = "overlay"
                           /\ Completing(q) => Completing(q)'
      BY <3>1, WantedFacts, DaemonFact DEF Completing, CreateStages, Before
    <3>4. Wanted \subseteq root => Wanted \subseteq root'
      BY <3>1, WantedFacts
    <3>5. root = {} => root' = {}
      BY <2>4, EntriesStep, <1>2 DEF EntriesInv, WriteDaemonFile, Put, Dir,
        RemoveAddr, RemovePid
    <3> QED
      BY <3>1, <3>2, <3>3, <3>4, <3>5, DaemonFact
  <2>5. CASE Fail(p) \/ KillDaemon(p) \/ Crash(p)
    BY <1>2, <2>5 DEF Fail, KillDaemon, Crash, Crashed, Smooth, ProcOK
  <2>6. CASE RemoveEntry(p)
    BY <1>2, <2>6 DEF RemoveEntry, Smooth, Go
  <2> QED
    BY <1>2, <2>1, <2>2, <2>3, <2>4, <2>5, <2>6 DEF Step
<1> QED
  BY <1>1, <1>2 DEF Next, AllEnded

(* Who makes a context whole goes on to put the port files, and nobody else *)
(* but vm-destroy removes one.                                             *)
LEMMA PublishStep ==
  ASSUME ProcOK, FileOK, CmdInv, EntriesInv, PublishInv, [Next]_vars
  PROVE  PublishInv'
<1> USE DEF PublishInv
<1>1. CASE UNCHANGED vars
  BY <1>1 DEF vars, Smooth, Publishing
<1>2. ASSUME NEW p \in Procs, Step(p), Smooth', Wanted \subseteq root'
      PROVE  PortFiles \subseteq root' \/ \E q \in Procs : Publishing(q)'
  <2>1. CASE \/ \E c \in Commands : Start(p, c)
             \/ Stat(p) \/ LoadContext(p) \/ Probe(p)
             \/ Boot(p) \/ PortTaken(p) \/ SessionEnds(p) \/ SaveSnapshot(p)
             \/ RemoveTest(p) \/ FindDaemon(p) \/ Connect(p)
             \/ ReadPid(p) \/ ReuseNumber(p)
    <3>1. /\ root' = root
          /\ \A q \in Procs \ {p} : at'[q] = at[q] /\ cmd'[q] = cmd[q]
          /\ at[p] \notin {"remove", "failed", "crashed"}
      BY <1>2, <2>1, PlainFact
    <3>2. Smooth
      BY <1>2, <3>1 DEF Smooth
    <3>3. \A q \in Procs \ {p} : Publishing(q) => Publishing(q)'
      BY <3>1 DEF Publishing
    <3>4. Publishing(p) => Publishing(p)'
      BY <2>1 DEF Publishing, ProcOK, Go, filevars, netvars, restvars,
        CreateStages, Ended, Start, First, Commands, Stat, LoadContext, Probe,
        Boot, PortTaken, SessionEnds, SaveSnapshot, RemoveTest, FindDaemon,
        Connect, ReadPid, ReuseNumber
    <3> QED
      BY <1>2, <3>1, <3>2, <3>3, <3>4
  <2>2. CASE MakeDir(p)
    <3>1. /\ root' = root \cup {"dir"} /\ at[p] = "mkdir" /\ cmd' = cmd
          /\ at' = [at EXCEPT ![p] = "overlay"]
      BY <2>2 DEF MakeDir, Go
    <3>2. Smooth
      BY <1>2, <3>1 DEF Smooth, ProcOK
    <3>3. root' = root
      BY <1>2, <3>1 DEF Wanted, EntriesInv
    <3>4. \A q \in Procs : Publishing(q) => Publishing(q)'
      BY <3>1, <3>3 DEF Publishing, CreateStages, ProcOK
    <3> QED
      BY <1>2, <3>2, <3>3, <3>4
  <2>3. CASE CreateFile(p)
    <3>1. /\ at[p] \in Files /\ at[p] \in CreateStages /\ cmd' = cmd
          /\ at' = [at EXCEPT ![p] = NextFile(cmd[p], at[p])]
          /\ NextFile(cmd[p], at[p]) \in CreateStages \cup {"probe"}
      BY <2>3 DEF CreateFile, CreateStages, Files, NextFile
    <3>2. CASE cmd[p] = "setup"
      BY <3>1, <3>2 DEF Publishing, ProcOK
    <3>3. CASE cmd[p] # "setup"
      <4>1. root' = root
        BY <2>3, <3>1, <3>3, PutFact DEF CreateFile
      <4>2. Smooth
        BY <1>2, <3>1 DEF Smooth, ProcOK, CreateStages
      <4>3. \A q \in Procs : Publishing(q) => Publishing(q)'
        BY <3>1, <3>3, <4>1 DEF Publishing, ProcOK
      <4> QED
        BY <1>2, <4>1, <4>2, <4>3
    <3> QED
      BY <3>2, <3>3
  <2>4. CASE WriteDaemonFile(p)
    <3>1. /\ at[p] \in DaemonStages /\ at'[p] = NextDaemonFile[at[p]]
          /\ at' = [at EXCEPT ![p] = at'[p]] /\ cmd' = cmd
          /\ root' = root \/ root' = root \cup {at[p]}
          /\ cmd[p] = "setup" => root' = root \cup {at[p]}
      BY <2>4, WriteFact
    <3>2. Smooth /\ Wanted \subseteq root
      BY <1>2, <3>1, DaemonFact, WantedFacts DEF Smooth, ProcOK
    <3>3. \A q \in Procs \ {p} : Publishing(q) => Publishing(q)'
      BY <3>1 DEF Publishing, ProcOK
    <3>4. CASE Publishing(p)
      <4>1. \/ at[p] \in {"addr", "pid"} /\ Publishing(p)'
            \/ at[p] = "ssh_port" /\ Publishing(p)'
            \/ at[p] = "vnc_port" /\ "ssh_port" \in root
        BY <3>1, <3>4, DaemonFact DEF Publishing, CreateStages
      <4>2. CASE at[p] = "vnc_port" /\ "ssh_port" \in root
        BY <3>1, <3>4, <4>2 DEF Publishing, PortFiles
      <4> QED
        BY <4>1, <4>2
    <3> QED
      BY <3>1, <3>2, <3>3, <3>4
  <2>5. CASE RemoveAddr(p) \/ RemovePid(p)
    <3>1. /\ root' \ {"addr", "pid"} = root \ {"addr", "pid"}
          /\ at[p] \in {"remove_addr", "remove_pid"} /\ cmd' = cmd
          /\ \A q \in Procs \ {p} : at'[q] = at[q]
      BY <2>5 DEF RemoveAddr, RemovePid, Go, ProcOK
    <3>2. Smooth /\ Wanted \subseteq root
      BY <1>2, <3>1, DaemonFact, WantedFacts DEF Smooth
    <3>3. \A q \in Procs : Publishing(q) => Publishing(q)'
      BY <3>1 DEF Publishing, CreateStages
    <3> QED
      BY <3>1, <3>2, <3>3 DEF PortFiles
  <2>6. CASE Fail(p) \/ KillDaemon(p) \/ Crash(p)
    BY <1>2, <2>6 DEF Fail, KillDaemon, Crash, Crashed, Smooth, ProcOK
  <2>7. CASE RemoveEntry(p)
    BY <1>2, <2>7 DEF RemoveEntry, Smooth, Go, Wanted
  <2> QED
    BY <1>2, <2>1, <2>2, <2>3, <2>4, <2>5, <2>6, <2>7 DEF Step
<1> QED
  BY <1>1, <1>2 DEF Next, AllEnded

(* The parts hold together, at first and after every step.                 *)
LEMMA TypeParts == TypeOK <=> ProcOK /\ NumberOK /\ FileOK /\ NetOK /\ RaceOK
  BY DEF TypeOK, ProcOK, NumberOK, FileOK, NetOK, RaceOK

LEMMA Initial == Init => IInv
<1> SUFFICES ASSUME Init PROVE IInv
  OBVIOUS
<1> USE DEF Init
<1>1. ProcOK /\ NumberOK /\ FileOK
  BY DEF ProcOK, NumberOK, FileOK, Stages
<1>2. NetOK
  BY DEF NetOK
<1>3. RaceOK
  BY DEF RaceOK
<1>4. CmdInv /\ FilesInv /\ DaemonFilesOfSetups /\ ReadInv
  BY DEF CmdInv, FilesInv, FilesOK, DaemonFilesOfSetups, ReadInv, CreateStages
<1>5. RaceInv
  BY DEF RaceInv, Unprobed
<1>6. EntriesInv /\ TestsInv /\ WholeInv /\ PublishInv
  BY DEF EntriesInv, TestsInv, WholeInv, PublishInv, Wanted, CreateStages
<1> QED
  BY <1>1, <1>2, <1>3, <1>4, <1>5, <1>6, TypeParts DEF IInv

LEMMA Inductive == IInv /\ [Next]_vars => IInv'
<1> SUFFICES ASSUME IInv, [Next]_vars PROVE IInv'
  OBVIOUS
<1>1. ProcOK /\ NumberOK /\ FileOK /\ NetOK /\ RaceOK
  BY TypeParts DEF IInv
<1>2. ProcOK' /\ NumberOK' /\ FileOK' /\ NetOK' /\ RaceOK'
  BY <1>1, ProcStep, NumberStep, FileStep, NetStep, RaceOKStep
<1>3. TypeOK'
  BY <1>2 DEF TypeOK, ProcOK, NumberOK, FileOK, NetOK, RaceOK
<1>4. CmdInv' /\ DaemonFilesOfSetups' /\ ReadInv' /\ RaceInv'
  BY <1>1, CmdStep, DaemonStep, ReadStep, RaceStep DEF IInv
<1>5. FilesInv'
  <2>1. CASE NothingDestroyed'
    <3>1. NothingDestroyed
      BY <1>1, <2>1, DestroyedStays DEF IInv, Destroyed
    <3>2. FilesOK'
      BY <1>1, <2>1, <3>1, FilesStep DEF IInv, FilesInv
    <3> QED
      BY <3>2 DEF FilesInv
  <2>2. CASE ~NothingDestroyed'
    BY <2>2 DEF FilesInv
  <2> QED
    BY <2>1, <2>2
<1>6. EntriesInv' /\ TestsInv' /\ WholeInv' /\ PublishInv'
  BY <1>1, EntriesStep, TestsStep, WholeStep, PublishStep DEF IInv
<1> QED
  BY <1>3, <1>4, <1>5, <1>6 DEF IInv

LEMMA InvariantCorrect == Spec => []IInv
  BY Initial, Inductive, PTL DEF Spec

---------------------------------------------------------------------------
(* Every variable keeps its type, whichever commands overlap.              *)
THEOREM TypeCorrect == Spec => []TypeOK
<1>1. IInv => TypeOK
  BY DEF IInv
<1> QED
  BY <1>1, InvariantCorrect, PTL

(* LoadContext may trust config.json: CreateContext writes it last, so that *)
(* a context that has it is whole until a vm-destroy removes entries.       *)
THEOREM ConfigCorrect == Spec => []ConfigTellsComplete
<1>1. IInv => ConfigTellsComplete
  BY DEF IInv, FilesInv, FilesOK, ConfigTellsComplete
<1> QED
  BY <1>1, InvariantCorrect, PTL

(* The daemon files a client or vm-destroy reads are those of a vm-setup    *)
(* that serves, ends, or has failed or crashed without removing them.       *)
THEOREM DaemonFilesCorrect == Spec => []DaemonFilesOfSetups
<1>1. IInv => DaemonFilesOfSetups
  BY DEF IInv
<1> QED
  BY <1>1, InvariantCorrect, PTL

(* The probes of AllocateRuntimeResources leave one way to a conflict: the  *)
(* time until QEMU binds, or two probes of one session that found one port. *)
THEOREM ConflictCorrect == Spec => []ConflictOnlyByRace
<1>1. IInv => ConflictOnlyByRace
  BY DEF IInv, RaceInv, ConflictOnlyByRace
<1> QED
  BY <1>1, InvariantCorrect, PTL

(* Overlapping commands that all report success, or refuse, leave a whole   *)
(* context with the port files, or none: vm-setup removes daemon.addr and   *)
(* daemon.pid only, and what is left half-made has a failure to tell of it. *)
THEOREM QuietCorrect == Spec => []QuietMeansWhole
<1>1. ASSUME IInv,
             \A p \in Procs :
               at[p] \in {"idle", "done", "refused", "reached", "dead"}
      PROVE  /\ root \in {{}, Wanted \cup PortFiles}
             /\ \A p \in Procs : tests[p] = {}
  <2>1. "addr" \notin root /\ "pid" \notin root
    BY <1>1 DEF IInv, DaemonFilesOfSetups
  <2>2. root = {} \/ Wanted \subseteq root
    BY <1>1 DEF IInv, WholeInv, Smooth, Completing, CreateStages
  <2>3. Wanted \subseteq root => PortFiles \subseteq root
    BY <1>1 DEF IInv, PublishInv, Smooth, Publishing, CreateStages
  <2>4. root \subseteq Wanted \cup PortFiles
    BY <1>1, <2>1 DEF IInv, EntriesInv, DaemonStages
  <2>5. \A p \in Procs : tests[p] = {}
    BY <1>1 DEF IInv, TestsInv
  <2> QED
    BY <2>2, <2>3, <2>4, <2>5
<1>2. IInv => QuietMeansWhole
  BY <1>1 DEF QuietMeansWhole
<1> QED
  BY <1>2, InvariantCorrect, PTL

=============================================================================
