-------------------------- MODULE GuestLink_proofs --------------------------
(***************************************************************************)
(* Theorems about GuestLink, for any users, calls and starts of the guest. *)
(***************************************************************************)
EXTENDS GuestLink, TLAPS

(* The parts of TypeOK: the guest, the transports, the users, flags.       *)
GuestOK ==
  /\ kind \in [Transports -> {"ssh", "winrm"}]
  /\ guest \in {"down", "up", "stopping", "hung"}
  /\ start \in 0..MaxStarts

MutexOK == mu \in [Transports -> Users \cup {Nobody}]

CacheOK ==
  /\ client \in [Transports -> 0..MaxStarts]
  /\ sftp \in [Transports -> 0..MaxStarts]

UserOK ==
  /\ at \in [Users -> Places] /\ op \in [Users -> AllOps \cup {"none"}]
  /\ left \in [Users -> Nat]

ConnOK == conn \in [Users -> 0..MaxStarts]

FlagOK ==
  /\ setup \in BOOLEAN
  /\ expired \in [Users -> BOOLEAN] /\ sawUp \in [Users -> BOOLEAN]
  /\ obeyed \in [Users -> BOOLEAN] /\ meddled \in BOOLEAN

(* Each place belongs to certain operations.                               *)
PlaceInv ==
  \A u \in Users :
    /\ at[u] # "idle" => op[u] \in AllOps
    /\ at[u] \in {"session", "run", "reply"} =>
         op[u] \in {"wait_oobe", "exec"} \cup Powering
    /\ at[u] \in {"sftp", "remote", "copy", "written"} => op[u] \in FileOps
    /\ at[u] = "tick" => op[u] \in Waiting
    /\ at[u] \in {"probe", "close", "drain", "close_files", "drain_files",
                 "gone"} => op[u] \in Powering

(* Who dials, starts SFTP or ends it holds the mutex, and there is no      *)
(* client yet while somebody dials.                                        *)
LinkInv ==
  /\ \A u \in Users : at[u] \in {"dial", "sftp"} => mu[T(u)] = u
  /\ \A u \in Users : at[u] = "drain" => mu["command"] = u
  /\ \A u \in Users : at[u] = "drain_files" => mu["files"] = u
  /\ \A u \in Users : at[u] = "dial" => client[T(u)] = 0

(* A guest that is there has started; open counts the clients.             *)
StartInv == guest # "down" => start > 0
OpenInv == open \in [Transports -> Nat] /\ OneConnection

SuccessInv ==
  /\ SuccessTruthful
  /\ \A u \in Users : at[u] = "reply" /\ op[u] = "exec" => obeyed[u]
  /\ \A u \in Users : at[u] = "written" =>
       obeyed[u] \/ (op[u] = "upload" /\ ~SSH(u))

(* Undisturbed, the guest stops only while the tester's reboot or shutdown *)
(* goes on, which leaves no client of the start before; and a wait-boot    *)
(* that has not seen the guest up has found no client.                     *)
AloneInv ==
  ~meddled =>
    /\ \A u \in Users : u # Tester => at[u] = "idle"
    /\ guest # "hung"
    /\ guest = "stopping" =>
         /\ op[Tester] \in Powering
         /\ at[Tester] \in {"reply", "probe", "close", "drain", "close_files",
                            "drain_files", "gone"}
    /\ guest \in {"stopping", "down"} =>
         \/ client["command"] = 0
         \/ /\ op[Tester] \in Powering
            /\ at[Tester] \in {"reply", "probe", "close", "drain"}
    /\ op[Tester] = "wait_boot" =>
         \/ sawUp[Tester]
         \/ guest = "down" /\ at[Tester] \in {"lock", "dial", "tick", "err"}
    /\ at[Tester] = "idle" => op[Tester] = "none"

IInv ==
  /\ TypeOK /\ PlaceInv /\ LinkInv /\ StartInv /\ OpenInv
  /\ SuccessInv /\ AloneInv

(* The transport of a user.                                                *)
LEMMA TransportFact ==
  ASSUME NEW u PROVE T(u) \in Transports
  BY DEF T, Transports

(* Closing a client keeps the types and the count of the connections.      *)
LEMMA ForgetFact ==
  ASSUME NEW t \in Transports, CacheOK, OpenInv, Forget(t)
  PROVE  CacheOK' /\ OpenInv'
<1> USE DEF CacheOK, OpenInv, OneConnection
<1>1. /\ client' = [client EXCEPT ![t] = 0] /\ sftp' = [sftp EXCEPT ![t] = 0]
      /\ open' = [open EXCEPT ![t] = IF client[t] = 0 THEN @ ELSE @ - 1]
  BY DEF Forget
<1>2. CacheOK'
  BY <1>1, GuestAssumption
<1>3. open'[t] = 0 /\ client'[t] = 0
  BY <1>1
<1>4. open' = [open EXCEPT ![t] = 0]
  BY <1>1, <1>3
<1>5. open' \in [Transports -> Nat]
  BY <1>4
<1>6. OneConnection'
  BY <1>1, <1>4
<1> QED
  BY <1>2, <1>5, <1>6

(* Closing a transport closes a client or leaves the clients alone.        *)
LEMMA ClosingFact ==
  ASSUME NEW u, \/ CloseCommand(u) \/ CloseFiles(u)
                \/ CommandDrained(u) \/ FilesDrained(u)
  PROVE  \/ \E t \in Transports : Forget(t)
         \/ UNCHANGED <<client, sftp, open>>
  BY DEF CloseCommand, CloseFiles, CommandDrained, FilesDrained,
    CloseTransport, SFTPEnds, Transports

(* Where a user goes that has its client.                                  *)
LEMMA AfterClientFact ==
  ASSUME NEW u, op[u] \in AllOps
  PROVE  \/ AfterClient(u) = "ok" /\ op[u] = "wait_boot"
         \/ AfterClient(u) \in {"remote", "copy"} /\ op[u] \in FileOps
         \/ /\ AfterClient(u) \in {"session", "run"}
            /\ op[u] \in {"wait_oobe", "exec"} \cup Powering
<1>1. CASE op[u] = "wait_boot"
  BY <1>1 DEF AfterClient
<1>2. CASE op[u] \in FileOps
  BY <1>2 DEF AfterClient, FileOps
<1>3. CASE op[u] \in {"wait_oobe", "exec"} \cup Powering
  BY <1>3 DEF AfterClient, FileOps, Powering
<1> QED
  BY <1>1, <1>2, <1>3 DEF AllOps, FileOps, Powering

(* The guest starts at most MaxStarts times.                               *)
LEMMA GuestStep ==
  ASSUME GuestOK, [Next]_vars
  PROVE  GuestOK'
<1> USE DEF GuestOK, guestvars, linkvars, uservars, rest, Goto, Proceed
<1>1. CASE UNCHANGED vars
  BY <1>1 DEF vars, T, shared
<1>2. ASSUME NEW u \in Users, Step(u)
      PROVE  GuestOK'
  <2>1. CASE \E o \in Ops[u] : Begin(u, o)
    BY <2>1, GuestAssumption DEF Begin
  <2>2. CASE Acquire(u)
    BY <2>2, GuestAssumption DEF Acquire, AfterClient
  <2>3. CASE Dialed(u)
    BY <2>3, GuestAssumption DEF Dialed, AfterClient, Release
  <2>4. CASE DialFails(u)
    BY <2>4, GuestAssumption DEF DialFails, AfterError, Release
  <2>5. CASE StartSFTP(u)
    BY <2>5, GuestAssumption DEF StartSFTP, Release
  <2>6. CASE NewSession(u)
    BY <2>6, GuestAssumption DEF NewSession, AfterError
  <2>7. CASE GuestRuns(u)
    BY <2>7, GuestAssumption DEF GuestRuns
  <2>8. CASE RunReturns(u)
    BY <2>8, GuestAssumption DEF RunReturns
  <2>9. CASE RunBreaks(u)
    BY <2>9, GuestAssumption DEF RunBreaks, AfterError
  <2>10. CASE OpenRemote(u)
    BY <2>10, GuestAssumption DEF OpenRemote
  <2>11. CASE CopyFile(u)
    BY <2>11, GuestAssumption DEF CopyFile
  <2>12. CASE CopyBreaks(u)
    BY <2>12, GuestAssumption DEF CopyBreaks
  <2>13. CASE Retry(u)
    BY <2>13, GuestAssumption DEF Retry
  <2>14. CASE WaitTimesOut(u)
    BY <2>14, GuestAssumption DEF WaitTimesOut
  <2>15. CASE Probe(u)
    BY <2>15, GuestAssumption DEF Probe
  <2>16. CASE CloseCommand(u)
    BY <2>16, GuestAssumption DEF CloseCommand, CloseTransport, Forget,
      Release, AfterClose, AfterCommand
  <2>17. CASE CloseFiles(u)
    BY <2>17, GuestAssumption DEF CloseFiles, CloseTransport, Forget,
      Release, AfterClose, AfterCommand
  <2>18. CASE End(u)
    BY <2>18, GuestAssumption DEF End
  <2>19. CASE Expire(u)
    BY <2>19, GuestAssumption DEF Expire
  <2>20. CASE CopyReturns(u)
    BY <2>20, GuestAssumption DEF CopyReturns
  <2>21. CASE CommandDrained(u)
    BY <2>21, GuestAssumption DEF CommandDrained, SFTPEnds, Forget, Release,
      AfterClose, AfterCommand
  <2>22. CASE FilesDrained(u)
    BY <2>22, GuestAssumption DEF FilesDrained, SFTPEnds, Forget, Release, AfterClose
  <2> QED
    BY <1>2, <2>1, <2>2, <2>3, <2>4, <2>5, <2>6, <2>7, <2>8, <2>9, <2>10,
      <2>11, <2>12, <2>13, <2>14, <2>15, <2>16, <2>17, <2>18, <2>19, <2>20,
      <2>21, <2>22 DEF Step
<1>3. CASE GuestGoesOn
  BY <1>3, GuestAssumption DEF GuestGoesOn, GuestStarts, GuestChanges
<1>4. CASE SetupEnds
  BY <1>4, GuestAssumption DEF SetupEnds
<1> QED
  BY <1>1, <1>2, <1>3, <1>4 DEF Next, AllDone

(* Only users hold a mutex.                                                *)
LEMMA MutexStep ==
  ASSUME MutexOK, [Next]_vars
  PROVE  MutexOK'
<1> USE DEF MutexOK, guestvars, linkvars, uservars, rest, Goto, Proceed
<1>1. CASE UNCHANGED vars
  BY <1>1 DEF vars, T, shared
<1>2. ASSUME NEW u \in Users, Step(u)
      PROVE  MutexOK'
  <2>1. CASE \E o \in Ops[u] : Begin(u, o)
    BY <2>1, TransportFact DEF Begin
  <2>2. CASE Acquire(u)
    BY <2>2, TransportFact DEF Acquire, AfterClient
  <2>3. CASE Dialed(u)
    BY <2>3, TransportFact DEF Dialed, AfterClient, Release
  <2>4. CASE DialFails(u)
    BY <2>4, TransportFact DEF DialFails, AfterError, Release
  <2>5. CASE StartSFTP(u)
    BY <2>5, TransportFact DEF StartSFTP, Release
  <2>6. CASE NewSession(u)
    BY <2>6, TransportFact DEF NewSession, AfterError
  <2>7. CASE GuestRuns(u)
    BY <2>7, TransportFact DEF GuestRuns
  <2>8. CASE RunReturns(u)
    BY <2>8, TransportFact DEF RunReturns
  <2>9. CASE RunBreaks(u)
    BY <2>9, TransportFact DEF RunBreaks, AfterError
  <2>10. CASE OpenRemote(u)
    BY <2>10, TransportFact DEF OpenRemote
  <2>11. CASE CopyFile(u)
    BY <2>11, TransportFact DEF CopyFile
  <2>12. CASE CopyBreaks(u)
    BY <2>12, TransportFact DEF CopyBreaks
  <2>13. CASE Retry(u)
    BY <2>13, TransportFact DEF Retry
  <2>14. CASE WaitTimesOut(u)
    BY <2>14, TransportFact DEF WaitTimesOut
  <2>15. CASE Probe(u)
    BY <2>15, TransportFact DEF Probe
  <2>16. CASE CloseCommand(u)
    BY <2>16, TransportFact DEF CloseCommand, CloseTransport, Forget,
      Release, AfterClose, AfterCommand
  <2>17. CASE CloseFiles(u)
    BY <2>17, TransportFact DEF CloseFiles, CloseTransport, Forget,
      Release, AfterClose, AfterCommand
  <2>18. CASE End(u)
    BY <2>18, TransportFact DEF End
  <2>19. CASE Expire(u)
    BY <2>19, TransportFact DEF Expire
  <2>20. CASE CopyReturns(u)
    BY <2>20, TransportFact DEF CopyReturns
  <2>21. CASE CommandDrained(u)
    BY <2>21, TransportFact DEF CommandDrained, SFTPEnds, Forget, Release,
      AfterClose, AfterCommand
  <2>22. CASE FilesDrained(u)
    BY <2>22, TransportFact DEF FilesDrained, SFTPEnds, Forget, Release, AfterClose
  <2> QED
    BY <1>2, <2>1, <2>2, <2>3, <2>4, <2>5, <2>6, <2>7, <2>8, <2>9, <2>10,
      <2>11, <2>12, <2>13, <2>14, <2>15, <2>16, <2>17, <2>18, <2>19, <2>20,
      <2>21, <2>22 DEF Step
<1>3. CASE GuestGoesOn
  BY <1>3, TransportFact DEF GuestGoesOn, GuestStarts, GuestChanges
<1>4. CASE SetupEnds
  BY <1>4, TransportFact DEF SetupEnds
<1> QED
  BY <1>1, <1>2, <1>3, <1>4 DEF Next, AllDone

(* A client is of a start of the guest.                                    *)
LEMMA CacheStep ==
  ASSUME GuestOK, CacheOK, OpenInv, [Next]_vars
  PROVE  CacheOK'
<1> USE DEF GuestOK, CacheOK, guestvars, linkvars, uservars, rest, Goto,
  Proceed
<1>1. CASE UNCHANGED vars
  BY <1>1 DEF vars, T, shared
<1>2. ASSUME NEW u \in Users, Step(u)
      PROVE  CacheOK'
  <2>1. CASE \E o \in Ops[u] : Begin(u, o)
    BY <2>1, GuestAssumption, TransportFact DEF Begin
  <2>2. CASE Acquire(u)
    BY <2>2, GuestAssumption, TransportFact DEF Acquire, AfterClient
  <2>3. CASE Dialed(u)
    BY <2>3, GuestAssumption, TransportFact DEF Dialed, AfterClient, Release
  <2>4. CASE DialFails(u)
    BY <2>4, GuestAssumption, TransportFact DEF DialFails, AfterError, Release
  <2>5. CASE StartSFTP(u)
    BY <2>5, GuestAssumption, TransportFact DEF StartSFTP, Release
  <2>6. CASE NewSession(u)
    BY <2>6, GuestAssumption, TransportFact DEF NewSession, AfterError
  <2>7. CASE GuestRuns(u)
    BY <2>7, GuestAssumption, TransportFact DEF GuestRuns
  <2>8. CASE RunReturns(u)
    BY <2>8, GuestAssumption, TransportFact DEF RunReturns
  <2>9. CASE RunBreaks(u)
    BY <2>9, GuestAssumption, TransportFact DEF RunBreaks, AfterError
  <2>10. CASE OpenRemote(u)
    BY <2>10, GuestAssumption, TransportFact DEF OpenRemote
  <2>11. CASE CopyFile(u)
    BY <2>11, GuestAssumption, TransportFact DEF CopyFile
  <2>12. CASE CopyBreaks(u)
    BY <2>12, GuestAssumption, TransportFact DEF CopyBreaks
  <2>13. CASE Retry(u)
    BY <2>13, GuestAssumption, TransportFact DEF Retry
  <2>14. CASE WaitTimesOut(u)
    BY <2>14, GuestAssumption, TransportFact DEF WaitTimesOut
  <2>15. CASE Probe(u)
    BY <2>15, GuestAssumption, TransportFact DEF Probe
  <2>16. CASE CloseCommand(u)
    BY <2>16, ForgetFact, ClosingFact DEF CacheOK, OpenInv, OneConnection
  <2>17. CASE CloseFiles(u)
    BY <2>17, ForgetFact, ClosingFact DEF CacheOK, OpenInv, OneConnection
  <2>18. CASE End(u)
    BY <2>18, GuestAssumption, TransportFact DEF End
  <2>19. CASE Expire(u)
    BY <2>19, GuestAssumption, TransportFact DEF Expire
  <2>20. CASE CopyReturns(u)
    BY <2>20, GuestAssumption, TransportFact DEF CopyReturns
  <2>21. CASE CommandDrained(u)
    BY <2>21, ForgetFact, ClosingFact DEF CacheOK, OpenInv, OneConnection
  <2>22. CASE FilesDrained(u)
    BY <2>22, ForgetFact, ClosingFact DEF CacheOK, OpenInv, OneConnection
  <2> QED
    BY <1>2, <2>1, <2>2, <2>3, <2>4, <2>5, <2>6, <2>7, <2>8, <2>9, <2>10,
      <2>11, <2>12, <2>13, <2>14, <2>15, <2>16, <2>17, <2>18, <2>19, <2>20,
      <2>21, <2>22 DEF Step
<1>3. CASE GuestGoesOn
  BY <1>3, GuestAssumption, TransportFact DEF GuestGoesOn, GuestStarts,
    GuestChanges
<1>4. CASE SetupEnds
  BY <1>4, GuestAssumption, TransportFact DEF SetupEnds
<1> QED
  BY <1>1, <1>2, <1>3, <1>4 DEF Next, AllDone

(* Users stay in their places and operations.                              *)
LEMMA UserStep ==
  ASSUME UserOK, [Next]_vars
  PROVE  UserOK'
<1> USE DEF UserOK, Places, guestvars, linkvars, uservars, rest, Goto, Proceed
<1>1. CASE UNCHANGED vars
  BY <1>1 DEF vars, T, shared
<1>2. ASSUME NEW u \in Users, Step(u)
      PROVE  UserOK'
  <2>1. CASE \E o \in Ops[u] : Begin(u, o)
    <3>1. PICK o \in Ops[u] : Begin(u, o)
      BY <2>1
    <3>2. o \in AllOps
      BY GuestAssumption
    <3>3. /\ left[u] > 0 /\ left' = [left EXCEPT ![u] = @ - 1]
          /\ at' = [at EXCEPT ![u] = "lock"] /\ op' = [op EXCEPT ![u] = o]
      BY <3>1 DEF Begin
    <3> QED
      BY <3>2, <3>3
  <2>2. CASE Acquire(u)
    BY <2>2, GuestAssumption, TransportFact DEF Acquire, AfterClient
  <2>3. CASE Dialed(u)
    BY <2>3, GuestAssumption, TransportFact DEF Dialed, AfterClient, Release
  <2>4. CASE DialFails(u)
    BY <2>4, GuestAssumption, TransportFact DEF DialFails, AfterError, Release
  <2>5. CASE StartSFTP(u)
    BY <2>5, GuestAssumption, TransportFact DEF StartSFTP, Release
  <2>6. CASE NewSession(u)
    BY <2>6, GuestAssumption, TransportFact DEF NewSession, AfterError
  <2>7. CASE GuestRuns(u)
    BY <2>7, GuestAssumption, TransportFact DEF GuestRuns
  <2>8. CASE RunReturns(u)
    BY <2>8, GuestAssumption, TransportFact DEF RunReturns
  <2>9. CASE RunBreaks(u)
    BY <2>9, GuestAssumption, TransportFact DEF RunBreaks, AfterError
  <2>10. CASE OpenRemote(u)
    BY <2>10, GuestAssumption, TransportFact DEF OpenRemote
  <2>11. CASE CopyFile(u)
    BY <2>11, GuestAssumption, TransportFact DEF CopyFile
  <2>12. CASE CopyBreaks(u)
    BY <2>12, GuestAssumption, TransportFact DEF CopyBreaks
  <2>13. CASE Retry(u)
    BY <2>13, GuestAssumption, TransportFact DEF Retry
  <2>14. CASE WaitTimesOut(u)
    BY <2>14, GuestAssumption, TransportFact DEF WaitTimesOut
  <2>15. CASE Probe(u)
    BY <2>15, GuestAssumption, TransportFact DEF Probe
  <2>16. CASE CloseCommand(u)
    BY <2>16, GuestAssumption, TransportFact DEF CloseCommand, CloseTransport, Forget,
      Release, AfterClose, AfterCommand
  <2>17. CASE CloseFiles(u)
    BY <2>17, GuestAssumption, TransportFact DEF CloseFiles, CloseTransport, Forget,
      Release, AfterClose, AfterCommand
  <2>18. CASE End(u)
    BY <2>18, GuestAssumption, TransportFact DEF End
  <2>19. CASE Expire(u)
    BY <2>19, GuestAssumption, TransportFact DEF Expire
  <2>20. CASE CopyReturns(u)
    BY <2>20, GuestAssumption, TransportFact DEF CopyReturns
  <2>21. CASE CommandDrained(u)
    BY <2>21, GuestAssumption, TransportFact DEF CommandDrained, SFTPEnds, Forget, Release,
      AfterClose, AfterCommand
  <2>22. CASE FilesDrained(u)
    BY <2>22, GuestAssumption, TransportFact DEF FilesDrained, SFTPEnds, Forget, Release, AfterClose
  <2> QED
    BY <1>2, <2>1, <2>2, <2>3, <2>4, <2>5, <2>6, <2>7, <2>8, <2>9, <2>10,
      <2>11, <2>12, <2>13, <2>14, <2>15, <2>16, <2>17, <2>18, <2>19, <2>20,
      <2>21, <2>22 DEF Step
<1>3. CASE GuestGoesOn
  BY <1>3, GuestAssumption, TransportFact DEF GuestGoesOn, GuestStarts,
    GuestChanges
<1>4. CASE SetupEnds
  BY <1>4, GuestAssumption, TransportFact DEF SetupEnds
<1> QED
  BY <1>1, <1>2, <1>3, <1>4 DEF Next, AllDone

(* A user works with a client of a start of the guest, or with none.       *)
LEMMA ConnStep ==
  ASSUME GuestOK, CacheOK, ConnOK, [Next]_vars
  PROVE  ConnOK'
<1> USE DEF GuestOK, CacheOK, ConnOK, guestvars, linkvars, uservars, rest,
  Goto, Proceed
<1>1. CASE UNCHANGED vars
  BY <1>1 DEF vars, T, shared
<1>2. ASSUME NEW u \in Users, Step(u)
      PROVE  ConnOK'
  <2>1. CASE \E o \in Ops[u] : Begin(u, o)
    BY <2>1, GuestAssumption, TransportFact DEF Begin
  <2>2. CASE Acquire(u)
    BY <2>2, GuestAssumption, TransportFact DEF Acquire, AfterClient
  <2>3. CASE Dialed(u)
    BY <2>3, GuestAssumption, TransportFact DEF Dialed, AfterClient, Release
  <2>4. CASE DialFails(u)
    BY <2>4, GuestAssumption, TransportFact DEF DialFails, AfterError, Release
  <2>5. CASE StartSFTP(u)
    BY <2>5, GuestAssumption, TransportFact DEF StartSFTP, Release
  <2>6. CASE NewSession(u)
    BY <2>6, GuestAssumption, TransportFact DEF NewSession, AfterError
  <2>7. CASE GuestRuns(u)
    BY <2>7, GuestAssumption, TransportFact DEF GuestRuns
  <2>8. CASE RunReturns(u)
    BY <2>8, GuestAssumption, TransportFact DEF RunReturns
  <2>9. CASE RunBreaks(u)
    BY <2>9, GuestAssumption, TransportFact DEF RunBreaks, AfterError
  <2>10. CASE OpenRemote(u)
    BY <2>10, GuestAssumption, TransportFact DEF OpenRemote
  <2>11. CASE CopyFile(u)
    BY <2>11, GuestAssumption, TransportFact DEF CopyFile
  <2>12. CASE CopyBreaks(u)
    BY <2>12, GuestAssumption, TransportFact DEF CopyBreaks
  <2>13. CASE Retry(u)
    BY <2>13, GuestAssumption, TransportFact DEF Retry
  <2>14. CASE WaitTimesOut(u)
    BY <2>14, GuestAssumption, TransportFact DEF WaitTimesOut
  <2>15. CASE Probe(u)
    BY <2>15, GuestAssumption, TransportFact DEF Probe
  <2>16. CASE CloseCommand(u)
    BY <2>16, GuestAssumption, TransportFact DEF CloseCommand, CloseTransport, Forget,
      Release, AfterClose, AfterCommand
  <2>17. CASE CloseFiles(u)
    BY <2>17, GuestAssumption, TransportFact DEF CloseFiles, CloseTransport, Forget,
      Release, AfterClose, AfterCommand
  <2>18. CASE End(u)
    BY <2>18, GuestAssumption, TransportFact DEF End
  <2>19. CASE Expire(u)
    BY <2>19, GuestAssumption, TransportFact DEF Expire
  <2>20. CASE CopyReturns(u)
    BY <2>20, GuestAssumption, TransportFact DEF CopyReturns
  <2>21. CASE CommandDrained(u)
    BY <2>21, GuestAssumption, TransportFact DEF CommandDrained, SFTPEnds, Forget, Release,
      AfterClose, AfterCommand
  <2>22. CASE FilesDrained(u)
    BY <2>22, GuestAssumption, TransportFact DEF FilesDrained, SFTPEnds, Forget, Release, AfterClose
  <2> QED
    BY <1>2, <2>1, <2>2, <2>3, <2>4, <2>5, <2>6, <2>7, <2>8, <2>9, <2>10,
      <2>11, <2>12, <2>13, <2>14, <2>15, <2>16, <2>17, <2>18, <2>19, <2>20,
      <2>21, <2>22 DEF Step
<1>3. CASE GuestGoesOn
  BY <1>3, GuestAssumption, TransportFact DEF GuestGoesOn, GuestStarts,
    GuestChanges
<1>4. CASE SetupEnds
  BY <1>4, GuestAssumption, TransportFact DEF SetupEnds
<1> QED
  BY <1>1, <1>2, <1>3, <1>4 DEF Next, AllDone

(* Flags are flags.                                                        *)
LEMMA FlagStep ==
  ASSUME FlagOK, [Next]_vars
  PROVE  FlagOK'
<1> USE DEF FlagOK, guestvars, linkvars, uservars, rest, Goto, Proceed
<1>1. CASE UNCHANGED vars
  BY <1>1 DEF vars, T, shared
<1>2. ASSUME NEW u \in Users, Step(u)
      PROVE  FlagOK'
  <2>1. CASE \E o \in Ops[u] : Begin(u, o)
    BY <2>1 DEF Begin
  <2>2. CASE Acquire(u)
    BY <2>2 DEF Acquire, AfterClient
  <2>3. CASE Dialed(u)
    BY <2>3 DEF Dialed, AfterClient, Release
  <2>4. CASE DialFails(u)
    BY <2>4 DEF DialFails, AfterError, Release
  <2>5. CASE StartSFTP(u)
    BY <2>5 DEF StartSFTP, Release
  <2>6. CASE NewSession(u)
    BY <2>6 DEF NewSession, AfterError
  <2>7. CASE GuestRuns(u)
    BY <2>7 DEF GuestRuns
  <2>8. CASE RunReturns(u)
    BY <2>8 DEF RunReturns
  <2>9. CASE RunBreaks(u)
    BY <2>9 DEF RunBreaks, AfterError
  <2>10. CASE OpenRemote(u)
    BY <2>10 DEF OpenRemote
  <2>11. CASE CopyFile(u)
    BY <2>11 DEF CopyFile
  <2>12. CASE CopyBreaks(u)
    BY <2>12 DEF CopyBreaks
  <2>13. CASE Retry(u)
    BY <2>13 DEF Retry
  <2>14. CASE WaitTimesOut(u)
    BY <2>14 DEF WaitTimesOut
  <2>15. CASE Probe(u)
    BY <2>15 DEF Probe
  <2>16. CASE CloseCommand(u)
    BY <2>16 DEF CloseCommand, CloseTransport, Forget,
      Release, AfterClose, AfterCommand
  <2>17. CASE CloseFiles(u)
    BY <2>17 DEF CloseFiles, CloseTransport, Forget,
      Release, AfterClose, AfterCommand
  <2>18. CASE End(u)
    BY <2>18 DEF End
  <2>19. CASE Expire(u)
    BY <2>19 DEF Expire
  <2>20. CASE CopyReturns(u)
    BY <2>20 DEF CopyReturns
  <2>21. CASE CommandDrained(u)
    BY <2>21 DEF CommandDrained, SFTPEnds, Forget, Release,
      AfterClose, AfterCommand
  <2>22. CASE FilesDrained(u)
    BY <2>22 DEF FilesDrained, SFTPEnds, Forget, Release, AfterClose
  <2> QED
    BY <1>2, <2>1, <2>2, <2>3, <2>4, <2>5, <2>6, <2>7, <2>8, <2>9, <2>10,
      <2>11, <2>12, <2>13, <2>14, <2>15, <2>16, <2>17, <2>18, <2>19, <2>20,
      <2>21, <2>22 DEF Step
<1>3. CASE GuestGoesOn
  BY <1>3 DEF GuestGoesOn, GuestStarts, GuestChanges
<1>4. CASE SetupEnds
  BY <1>4 DEF SetupEnds
<1> QED
  BY <1>1, <1>2, <1>3, <1>4 DEF Next, AllDone

(* A user is only where its operation leads.                               *)
LEMMA PlaceStep ==
  ASSUME UserOK, PlaceInv, [Next]_vars
  PROVE  PlaceInv'
<1> USE DEF UserOK, PlaceInv, Powering, FileOps, Waiting, AllOps, guestvars,
  linkvars, uservars, rest, Goto, Proceed
<1>1. CASE UNCHANGED vars
  BY <1>1 DEF vars, T, shared
<1>2. ASSUME NEW u \in Users, Step(u)
      PROVE  PlaceInv'
  <2>1. CASE \E o \in Ops[u] : Begin(u, o)
    <3>1. PICK o \in Ops[u] : Begin(u, o)
      BY <2>1
    <3>2. o \in AllOps
      BY GuestAssumption
    <3>3. /\ at' = [at EXCEPT ![u] = "lock"] /\ op' = [op EXCEPT ![u] = o]
      BY <3>1 DEF Begin
    <3> QED
      BY <3>2, <3>3
  <2>2. CASE Acquire(u)
    <3>1. /\ \/ at' = [at EXCEPT ![u] = "dial"]
             \/ at' = [at EXCEPT ![u] = "sftp"] /\ op[u] \in FileOps
             \/ at' = [at EXCEPT ![u] = AfterClient(u)]
          /\ at[u] = "lock" /\ op' = op
      BY <2>2 DEF Acquire, NeedsSFTP
    <3> QED
      BY <3>1, AfterClientFact
  <2>3. CASE Dialed(u)
    <3>1. /\ \/ at' = [at EXCEPT ![u] = "sftp"] /\ op[u] \in FileOps
             \/ at' = [at EXCEPT ![u] = AfterClient(u)]
          /\ at[u] = "dial" /\ op' = op
      BY <2>3 DEF Dialed, NeedsSFTP
    <3> QED
      BY <3>1, AfterClientFact
  <2>4. CASE DialFails(u)
    BY <2>4, GuestAssumption DEF DialFails, AfterError, Release
  <2>5. CASE StartSFTP(u)
    BY <2>5, GuestAssumption DEF StartSFTP, Release
  <2>6. CASE NewSession(u)
    BY <2>6, GuestAssumption DEF NewSession, AfterError
  <2>7. CASE GuestRuns(u)
    BY <2>7, GuestAssumption DEF GuestRuns
  <2>8. CASE RunReturns(u)
    BY <2>8, GuestAssumption DEF RunReturns
  <2>9. CASE RunBreaks(u)
    BY <2>9, GuestAssumption DEF RunBreaks, AfterError
  <2>10. CASE OpenRemote(u)
    BY <2>10, GuestAssumption DEF OpenRemote
  <2>11. CASE CopyFile(u)
    BY <2>11, GuestAssumption DEF CopyFile
  <2>12. CASE CopyBreaks(u)
    BY <2>12, GuestAssumption DEF CopyBreaks
  <2>13. CASE Retry(u)
    BY <2>13, GuestAssumption DEF Retry
  <2>14. CASE WaitTimesOut(u)
    BY <2>14, GuestAssumption DEF WaitTimesOut
  <2>15. CASE Probe(u)
    BY <2>15, GuestAssumption DEF Probe
  <2>16. CASE CloseCommand(u)
    BY <2>16, GuestAssumption DEF CloseCommand, CloseTransport, Forget,
      Release, AfterClose, AfterCommand
  <2>17. CASE CloseFiles(u)
    BY <2>17, GuestAssumption DEF CloseFiles, CloseTransport, Forget,
      Release, AfterClose, AfterCommand
  <2>18. CASE End(u)
    BY <2>18, GuestAssumption DEF End
  <2>19. CASE Expire(u)
    BY <2>19, GuestAssumption DEF Expire
  <2>20. CASE CopyReturns(u)
    BY <2>20, GuestAssumption DEF CopyReturns
  <2>21. CASE CommandDrained(u)
    BY <2>21, GuestAssumption DEF CommandDrained, SFTPEnds, Forget, Release,
      AfterClose, AfterCommand
  <2>22. CASE FilesDrained(u)
    BY <2>22, GuestAssumption DEF FilesDrained, SFTPEnds, Forget, Release, AfterClose
  <2> QED
    BY <1>2, <2>1, <2>2, <2>3, <2>4, <2>5, <2>6, <2>7, <2>8, <2>9, <2>10,
      <2>11, <2>12, <2>13, <2>14, <2>15, <2>16, <2>17, <2>18, <2>19, <2>20,
      <2>21, <2>22 DEF Step
<1>3. CASE GuestGoesOn
  BY <1>3, GuestAssumption DEF GuestGoesOn, GuestStarts, GuestChanges
<1>4. CASE SetupEnds
  BY <1>4, GuestAssumption DEF SetupEnds
<1> QED
  BY <1>1, <1>2, <1>3, <1>4 DEF Next, AllDone

(* Nobody dials without the mutex, or where there is a client.             *)
LEMMA LinkStep ==
  ASSUME GuestOK, MutexOK, CacheOK, UserOK, PlaceInv, LinkInv, [Next]_vars
  PROVE  LinkInv'
<1> USE DEF MutexOK, CacheOK, UserOK, LinkInv, T, shared, Unlocked, guestvars,
  linkvars, uservars, rest, Goto, Proceed
<1>1. CASE UNCHANGED vars
  BY <1>1 DEF vars, T, shared
<1>2. ASSUME NEW u \in Users, Step(u)
      PROVE  LinkInv'
  <2>1. CASE \E o \in Ops[u] : Begin(u, o)
    BY <2>1, GuestAssumption, TransportFact DEF Begin
  <2>2. CASE Acquire(u)
    <3>1. AfterClient(u) \notin {"dial", "sftp", "drain", "drain_files"}
      BY DEF AfterClient
    <3> QED
      BY <2>2, <3>1, GuestAssumption, TransportFact DEF Acquire, Transports
  <2>3. CASE Dialed(u)
    <3>1. AfterClient(u) \notin {"dial", "sftp", "drain", "drain_files"}
      BY DEF AfterClient
    <3> QED
      BY <2>3, <3>1, GuestAssumption, TransportFact DEF Dialed, Release, Transports
  <2>4. CASE DialFails(u)
    BY <2>4, GuestAssumption, TransportFact DEF DialFails, AfterError, Release
  <2>5. CASE StartSFTP(u)
    BY <2>5, GuestAssumption, TransportFact DEF StartSFTP, Release
  <2>6. CASE NewSession(u)
    BY <2>6, GuestAssumption, TransportFact DEF NewSession, AfterError
  <2>7. CASE GuestRuns(u)
    BY <2>7, GuestAssumption, TransportFact DEF GuestRuns
  <2>8. CASE RunReturns(u)
    BY <2>8, GuestAssumption, TransportFact DEF RunReturns
  <2>9. CASE RunBreaks(u)
    BY <2>9, GuestAssumption, TransportFact DEF RunBreaks, AfterError
  <2>10. CASE OpenRemote(u)
    BY <2>10, GuestAssumption, TransportFact DEF OpenRemote
  <2>11. CASE CopyFile(u)
    BY <2>11, GuestAssumption, TransportFact DEF CopyFile
  <2>12. CASE CopyBreaks(u)
    BY <2>12, GuestAssumption, TransportFact DEF CopyBreaks
  <2>13. CASE Retry(u)
    BY <2>13, GuestAssumption, TransportFact DEF Retry
  <2>14. CASE WaitTimesOut(u)
    BY <2>14, GuestAssumption, TransportFact DEF WaitTimesOut
  <2>15. CASE Probe(u)
    BY <2>15, GuestAssumption, TransportFact DEF Probe
  <2>16. CASE CloseCommand(u)
    BY <2>16, GuestAssumption DEF CloseCommand, CloseTransport, Forget, Release,
      AfterClose, AfterCommand, Transports
  <2>17. CASE CloseFiles(u)
    BY <2>17, GuestAssumption DEF CloseFiles, CloseTransport, Forget, Release,
      AfterClose, AfterCommand, Transports
  <2>18. CASE End(u)
    BY <2>18, GuestAssumption, TransportFact DEF End
  <2>19. CASE Expire(u)
    BY <2>19, GuestAssumption, TransportFact DEF Expire
  <2>20. CASE CopyReturns(u)
    BY <2>20, GuestAssumption, TransportFact DEF CopyReturns
  <2>21. CASE CommandDrained(u)
    BY <2>21, GuestAssumption DEF CommandDrained, SFTPEnds, Forget, Release,
      AfterClose, AfterCommand, Transports
  <2>22. CASE FilesDrained(u)
    BY <2>22, GuestAssumption DEF FilesDrained, SFTPEnds, Forget, Release,
      AfterClose, AfterCommand, Transports
  <2> QED
    BY <1>2, <2>1, <2>2, <2>3, <2>4, <2>5, <2>6, <2>7, <2>8, <2>9, <2>10,
      <2>11, <2>12, <2>13, <2>14, <2>15, <2>16, <2>17, <2>18, <2>19, <2>20,
      <2>21, <2>22 DEF Step
<1>3. CASE GuestGoesOn
  BY <1>3, GuestAssumption, TransportFact DEF GuestGoesOn, GuestStarts,
    GuestChanges
<1>4. CASE SetupEnds
  BY <1>4, GuestAssumption, TransportFact DEF SetupEnds
<1> QED
  BY <1>1, <1>2, <1>3, <1>4 DEF Next, AllDone

(* A guest that is there has started.                                      *)
LEMMA StartStep ==
  ASSUME GuestOK, StartInv, [Next]_vars
  PROVE  StartInv'
<1> USE DEF GuestOK, StartInv, guestvars, linkvars, uservars, rest, Goto,
  Proceed
<1>1. CASE UNCHANGED vars
  BY <1>1 DEF vars, T, shared
<1>2. ASSUME NEW u \in Users, Step(u)
      PROVE  StartInv'
  <2>1. CASE \E o \in Ops[u] : Begin(u, o)
    BY <2>1 DEF Begin
  <2>2. CASE Acquire(u)
    BY <2>2 DEF Acquire, AfterClient
  <2>3. CASE Dialed(u)
    BY <2>3 DEF Dialed, AfterClient, Release
  <2>4. CASE DialFails(u)
    BY <2>4 DEF DialFails, AfterError, Release
  <2>5. CASE StartSFTP(u)
    BY <2>5 DEF StartSFTP, Release
  <2>6. CASE NewSession(u)
    BY <2>6 DEF NewSession, AfterError
  <2>7. CASE GuestRuns(u)
    BY <2>7 DEF GuestRuns, Live, Accepting
  <2>8. CASE RunReturns(u)
    BY <2>8 DEF RunReturns
  <2>9. CASE RunBreaks(u)
    BY <2>9 DEF RunBreaks, AfterError
  <2>10. CASE OpenRemote(u)
    BY <2>10 DEF OpenRemote
  <2>11. CASE CopyFile(u)
    BY <2>11 DEF CopyFile
  <2>12. CASE CopyBreaks(u)
    BY <2>12 DEF CopyBreaks
  <2>13. CASE Retry(u)
    BY <2>13 DEF Retry
  <2>14. CASE WaitTimesOut(u)
    BY <2>14 DEF WaitTimesOut
  <2>15. CASE Probe(u)
    BY <2>15 DEF Probe
  <2>16. CASE CloseCommand(u)
    BY <2>16 DEF CloseCommand, CloseTransport, Forget,
      Release, AfterClose, AfterCommand
  <2>17. CASE CloseFiles(u)
    BY <2>17 DEF CloseFiles, CloseTransport, Forget,
      Release, AfterClose, AfterCommand
  <2>18. CASE End(u)
    BY <2>18 DEF End
  <2>19. CASE Expire(u)
    BY <2>19 DEF Expire
  <2>20. CASE CopyReturns(u)
    BY <2>20 DEF CopyReturns
  <2>21. CASE CommandDrained(u)
    BY <2>21 DEF CommandDrained, SFTPEnds, Forget, Release,
      AfterClose, AfterCommand
  <2>22. CASE FilesDrained(u)
    BY <2>22 DEF FilesDrained, SFTPEnds, Forget, Release, AfterClose
  <2> QED
    BY <1>2, <2>1, <2>2, <2>3, <2>4, <2>5, <2>6, <2>7, <2>8, <2>9, <2>10,
      <2>11, <2>12, <2>13, <2>14, <2>15, <2>16, <2>17, <2>18, <2>19, <2>20,
      <2>21, <2>22 DEF Step
<1>3. CASE GuestGoesOn
  BY <1>3 DEF GuestGoesOn, GuestStarts, GuestChanges
<1>4. CASE SetupEnds
  BY <1>4 DEF SetupEnds
<1> QED
  BY <1>1, <1>2, <1>3, <1>4 DEF Next, AllDone

(* Each client that is made is closed before the next.                     *)
LEMMA OpenStep ==
  ASSUME GuestOK, CacheOK, UserOK, LinkInv, StartInv, OpenInv, [Next]_vars
  PROVE  OpenInv'
<1> USE DEF CacheOK, GuestOK, UserOK, LinkInv, StartInv, OpenInv,
  OneConnection, Accepting, guestvars, linkvars, uservars, rest, Goto, Proceed
<1>1. CASE UNCHANGED vars
  BY <1>1 DEF vars, T, shared
<1>2. ASSUME NEW u \in Users, Step(u)
      PROVE  OpenInv'
  <2>1. CASE \E o \in Ops[u] : Begin(u, o)
    BY <2>1, GuestAssumption, TransportFact DEF Begin
  <2>2. CASE Acquire(u)
    BY <2>2, GuestAssumption, TransportFact DEF Acquire, AfterClient
  <2>3. CASE Dialed(u)
    BY <2>3, GuestAssumption, TransportFact DEF Dialed, AfterClient, Release
  <2>4. CASE DialFails(u)
    BY <2>4, GuestAssumption, TransportFact DEF DialFails, AfterError, Release
  <2>5. CASE StartSFTP(u)
    BY <2>5, GuestAssumption, TransportFact DEF StartSFTP, Release
  <2>6. CASE NewSession(u)
    BY <2>6, GuestAssumption, TransportFact DEF NewSession, AfterError
  <2>7. CASE GuestRuns(u)
    BY <2>7, GuestAssumption, TransportFact DEF GuestRuns
  <2>8. CASE RunReturns(u)
    BY <2>8, GuestAssumption, TransportFact DEF RunReturns
  <2>9. CASE RunBreaks(u)
    BY <2>9, GuestAssumption, TransportFact DEF RunBreaks, AfterError
  <2>10. CASE OpenRemote(u)
    BY <2>10, GuestAssumption, TransportFact DEF OpenRemote
  <2>11. CASE CopyFile(u)
    BY <2>11, GuestAssumption, TransportFact DEF CopyFile
  <2>12. CASE CopyBreaks(u)
    BY <2>12, GuestAssumption, TransportFact DEF CopyBreaks
  <2>13. CASE Retry(u)
    BY <2>13, GuestAssumption, TransportFact DEF Retry
  <2>14. CASE WaitTimesOut(u)
    BY <2>14, GuestAssumption, TransportFact DEF WaitTimesOut
  <2>15. CASE Probe(u)
    BY <2>15, GuestAssumption, TransportFact DEF Probe
  <2>16. CASE CloseCommand(u)
    BY <2>16, ForgetFact, ClosingFact DEF CacheOK, OpenInv, OneConnection
  <2>17. CASE CloseFiles(u)
    BY <2>17, ForgetFact, ClosingFact DEF CacheOK, OpenInv, OneConnection
  <2>18. CASE End(u)
    BY <2>18, GuestAssumption, TransportFact DEF End
  <2>19. CASE Expire(u)
    BY <2>19, GuestAssumption, TransportFact DEF Expire
  <2>20. CASE CopyReturns(u)
    BY <2>20, GuestAssumption, TransportFact DEF CopyReturns
  <2>21. CASE CommandDrained(u)
    BY <2>21, ForgetFact, ClosingFact DEF CacheOK, OpenInv, OneConnection
  <2>22. CASE FilesDrained(u)
    BY <2>22, ForgetFact, ClosingFact DEF CacheOK, OpenInv, OneConnection
  <2> QED
    BY <1>2, <2>1, <2>2, <2>3, <2>4, <2>5, <2>6, <2>7, <2>8, <2>9, <2>10,
      <2>11, <2>12, <2>13, <2>14, <2>15, <2>16, <2>17, <2>18, <2>19, <2>20,
      <2>21, <2>22 DEF Step
<1>3. CASE GuestGoesOn
  BY <1>3, GuestAssumption, TransportFact DEF GuestGoesOn, GuestStarts,
    GuestChanges
<1>4. CASE SetupEnds
  BY <1>4, GuestAssumption, TransportFact DEF SetupEnds
<1> QED
  BY <1>1, <1>2, <1>3, <1>4 DEF Next, AllDone

(* What an operation reports it has done.                                  *)
LEMMA SuccessStep ==
  ASSUME UserOK, FlagOK, PlaceInv, SuccessInv, [Next]_vars
  PROVE  SuccessInv'
<1> USE DEF UserOK, FlagOK, PlaceInv, SuccessInv, SuccessTruthful, SSH, T,
  shared, Powering,
  FileOps, Waiting, guestvars, linkvars, uservars, rest, Goto, Proceed
<1>1. CASE UNCHANGED vars
  BY <1>1 DEF vars, T, shared
<1>2. ASSUME NEW u \in Users, Step(u)
      PROVE  SuccessInv'
  <2>1. CASE \E o \in Ops[u] : Begin(u, o)
    BY <2>1 DEF Begin
  <2>2. CASE Acquire(u)
    BY <2>2 DEF Acquire, AfterClient
  <2>3. CASE Dialed(u)
    BY <2>3 DEF Dialed, AfterClient, Release
  <2>4. CASE DialFails(u)
    BY <2>4 DEF DialFails, AfterError, Release
  <2>5. CASE StartSFTP(u)
    BY <2>5 DEF StartSFTP, Release
  <2>6. CASE NewSession(u)
    BY <2>6 DEF NewSession, AfterError
  <2>7. CASE GuestRuns(u)
    BY <2>7 DEF GuestRuns
  <2>8. CASE RunReturns(u)
    BY <2>8 DEF RunReturns
  <2>9. CASE RunBreaks(u)
    BY <2>9 DEF RunBreaks, AfterError
  <2>10. CASE OpenRemote(u)
    BY <2>10 DEF OpenRemote
  <2>11. CASE CopyFile(u)
    BY <2>11 DEF CopyFile
  <2>12. CASE CopyBreaks(u)
    BY <2>12 DEF CopyBreaks
  <2>13. CASE Retry(u)
    BY <2>13 DEF Retry
  <2>14. CASE WaitTimesOut(u)
    BY <2>14 DEF WaitTimesOut
  <2>15. CASE Probe(u)
    BY <2>15 DEF Probe
  <2>16. CASE CloseCommand(u)
    BY <2>16 DEF CloseCommand, CloseTransport, Forget,
      Release, AfterClose, AfterCommand
  <2>17. CASE CloseFiles(u)
    BY <2>17 DEF CloseFiles, CloseTransport, Forget,
      Release, AfterClose, AfterCommand
  <2>18. CASE End(u)
    BY <2>18 DEF End
  <2>19. CASE Expire(u)
    BY <2>19 DEF Expire
  <2>20. CASE CopyReturns(u)
    BY <2>20 DEF CopyReturns
  <2>21. CASE CommandDrained(u)
    BY <2>21 DEF CommandDrained, SFTPEnds, Forget, Release,
      AfterClose, AfterCommand
  <2>22. CASE FilesDrained(u)
    BY <2>22 DEF FilesDrained, SFTPEnds, Forget, Release, AfterClose
  <2> QED
    BY <1>2, <2>1, <2>2, <2>3, <2>4, <2>5, <2>6, <2>7, <2>8, <2>9, <2>10,
      <2>11, <2>12, <2>13, <2>14, <2>15, <2>16, <2>17, <2>18, <2>19, <2>20,
      <2>21, <2>22 DEF Step
<1>3. CASE GuestGoesOn
  BY <1>3 DEF GuestGoesOn, GuestStarts, GuestChanges
<1>4. CASE SetupEnds
  BY <1>4 DEF SetupEnds
<1> QED
  BY <1>1, <1>2, <1>3, <1>4 DEF Next, AllDone

(* A test that is left alone finds no client of an earlier start.          *)
LEMMA AloneStep ==
  ASSUME GuestOK, CacheOK, UserOK, FlagOK, PlaceInv, AloneInv, [Next]_vars
  PROVE  AloneInv'
<1> USE DEF GuestOK, CacheOK, UserOK, FlagOK, PlaceInv, AloneInv, Accepting,
  Powering, FileOps, Waiting, guestvars, linkvars, uservars, rest, Goto,
  Proceed
<1>1. CASE UNCHANGED vars
  BY <1>1 DEF vars, T, shared
<1>2. ASSUME NEW u \in Users, Step(u)
      PROVE  AloneInv'
  <2>1. CASE \E o \in Ops[u] : Begin(u, o)
    <3>1. PICK o \in Ops[u] : Begin(u, o)
      BY <2>1
    <3>2. CASE meddled'
      BY <3>2
    <3>3. CASE ~meddled'
      <4>1. u = Tester /\ ~meddled /\ at[u] = "idle" /\ op[u] = "none"
        BY <3>1, <3>3 DEF Begin
      <4>2. /\ guest \in {"up", "down"}
            /\ guest = "down" => client["command"] = 0
        BY <4>1
      <4>3. /\ at' = [at EXCEPT ![u] = "lock"] /\ op' = [op EXCEPT ![u] = o]
            /\ guest' = guest /\ client' = client
            /\ sawUp' = [sawUp EXCEPT ![u] = Accepting /\ o = "wait_boot"]
        BY <3>1 DEF Begin
      <4>4. /\ at'[u] = "lock" /\ op'[u] = o
            /\ o = "wait_boot" /\ guest = "up" => sawUp'[u]
        BY <4>3
      <4> QED
        BY <4>1, <4>2, <4>3, <4>4
    <3> QED
      BY <3>2, <3>3
  <2>2. CASE Acquire(u)
    <3>1. CASE meddled
      BY <2>2, <3>1 DEF Acquire
    <3>2. CASE ~meddled
      <4>1. u = Tester /\ at[u] = "lock" /\ op[u] \in AllOps
        BY <2>2, <3>2 DEF Acquire
      <4>2. /\ guest' = guest /\ client' = client /\ op' = op
            /\ sawUp' = sawUp /\ meddled' = meddled
        BY <2>2 DEF Acquire
      <4>3. at' = [at EXCEPT ![u] = at'[u]] /\ at'[u] # "idle"
        BY <2>2, <4>1, AfterClientFact DEF Acquire
      <4>4. op[u] = "wait_boot" =>
              at'[u] = IF client["command"] = 0 THEN "dial" ELSE "ok"
        BY <2>2 DEF Acquire, T, NeedsSFTP, AfterClient
      <4>5. guest \in {"up", "down"} /\ (guest = "down" => client["command"] = 0)
        BY <3>2, <4>1
      <4>6. op[u] = "wait_boot" => sawUp[u] \/ (guest = "down" /\ at'[u] = "dial")
        BY <3>2, <4>1, <4>4, <4>5
      <4>7. \A v \in Users : v # Tester => at'[v] = "idle"
        BY <3>2, <4>1, <4>3
      <4> QED
        BY <3>2, <4>1, <4>2, <4>3, <4>5, <4>6, <4>7
    <3> QED
      BY <3>1, <3>2
  <2>3. CASE Dialed(u)
    BY <2>3, GuestAssumption DEF Dialed, AfterClient, Release
  <2>4. CASE DialFails(u)
    BY <2>4, GuestAssumption DEF DialFails, AfterError, Release
  <2>5. CASE StartSFTP(u)
    BY <2>5, GuestAssumption DEF StartSFTP, Release
  <2>6. CASE NewSession(u)
    BY <2>6, GuestAssumption DEF NewSession, AfterError
  <2>7. CASE GuestRuns(u)
    BY <2>7, GuestAssumption DEF GuestRuns
  <2>8. CASE RunReturns(u)
    BY <2>8, GuestAssumption DEF RunReturns
  <2>9. CASE RunBreaks(u)
    BY <2>9, GuestAssumption DEF RunBreaks, AfterError
  <2>10. CASE OpenRemote(u)
    BY <2>10, GuestAssumption DEF OpenRemote
  <2>11. CASE CopyFile(u)
    BY <2>11, GuestAssumption DEF CopyFile
  <2>12. CASE CopyBreaks(u)
    BY <2>12, GuestAssumption DEF CopyBreaks
  <2>13. CASE Retry(u)
    BY <2>13, GuestAssumption DEF Retry
  <2>14. CASE WaitTimesOut(u)
    BY <2>14, GuestAssumption DEF WaitTimesOut
  <2>15. CASE Probe(u)
    BY <2>15, GuestAssumption DEF Probe
  <2>16. CASE CloseCommand(u)
    <3>1. CASE meddled
      BY <2>16, <3>1 DEF CloseCommand, CloseTransport
    <3>2. CASE ~meddled
      <4>1. /\ u = Tester /\ at[u] = "close" /\ op[u] \in Powering
        BY <2>16, <3>2 DEF CloseCommand
      <4>2. /\ guest' = guest /\ op' = op /\ sawUp' = sawUp
            /\ meddled' = meddled
            /\ \/ client' = [client EXCEPT !["command"] = 0]
               \/ client' = client /\ at'[u] = "drain"
        BY <2>16 DEF CloseCommand, CloseTransport, Forget
      <4>3. client'["command"] = 0 \/ at'[u] = "drain"
        BY <4>2 DEF Transports
      <4>4. /\ at' = [at EXCEPT ![u] = at'[u]] /\ at'[u] # "idle"
            /\ \/ at'[u] \in {"drain", "gone", "close_files"}
               \/ guest = "down" /\ at'[u] = "ok"
        BY <2>16 DEF CloseCommand, CloseTransport, AfterClose, AfterCommand
      <4>5. \A v \in Users : v # Tester => at'[v] = "idle"
        BY <3>2, <4>1, <4>4
      <4> QED
        BY <3>2, <4>1, <4>2, <4>3, <4>4, <4>5
    <3> QED
      BY <3>1, <3>2
  <2>17. CASE CloseFiles(u)
    <3>1. CASE meddled
      BY <2>17, <3>1 DEF CloseFiles, CloseTransport
    <3>2. CASE ~meddled
      <4>1. /\ u = Tester /\ at[u] = "close_files" /\ op[u] \in Powering
        BY <2>17, <3>2 DEF CloseFiles
      <4>2. /\ guest' = guest /\ op' = op /\ sawUp' = sawUp
            /\ meddled' = meddled
            /\ client' \in {client, [client EXCEPT !["files"] = 0]}
        BY <2>17 DEF CloseFiles, CloseTransport, Forget
      <4>3. client'["command"] = client["command"]
        BY <4>2 DEF Transports
      <4>4. /\ at' = [at EXCEPT ![u] = at'[u]] /\ at'[u] # "idle"
            /\ \/ at'[u] \in {"drain_files", "gone"}
               \/ guest = "down" /\ at'[u] = "ok"
        BY <2>17 DEF CloseFiles, CloseTransport, AfterClose
      <4>5. \A v \in Users : v # Tester => at'[v] = "idle"
        BY <3>2, <4>1, <4>4
      <4> QED
        BY <3>2, <4>1, <4>2, <4>3, <4>4, <4>5
    <3> QED
      BY <3>1, <3>2
  <2>18. CASE End(u)
    BY <2>18, GuestAssumption DEF End
  <2>19. CASE Expire(u)
    BY <2>19, GuestAssumption DEF Expire
  <2>20. CASE CopyReturns(u)
    BY <2>20, GuestAssumption DEF CopyReturns
  <2>21. CASE CommandDrained(u)
    <3>1. CASE meddled
      BY <2>21, <3>1 DEF CommandDrained, SFTPEnds
    <3>2. CASE ~meddled
      <4>1. /\ u = Tester /\ at[u] = "drain" /\ op[u] \in Powering
        BY <2>21, <3>2 DEF CommandDrained
      <4>2. /\ guest' = guest /\ op' = op /\ sawUp' = sawUp
            /\ meddled' = meddled
            /\ \/ client' = [client EXCEPT !["command"] = 0]
               \/ client' = client /\ at'[u] = "drain"
        BY <2>21 DEF CommandDrained, SFTPEnds, Forget
      <4>3. client'["command"] = 0 \/ at'[u] = "drain"
        BY <4>2 DEF Transports
      <4>4. /\ at' = [at EXCEPT ![u] = at'[u]] /\ at'[u] # "idle"
            /\ \/ at'[u] \in {"drain", "gone", "close_files"}
               \/ guest = "down" /\ at'[u] = "ok"
        BY <2>21 DEF CommandDrained, SFTPEnds, AfterClose, AfterCommand
      <4>5. \A v \in Users : v # Tester => at'[v] = "idle"
        BY <3>2, <4>1, <4>4
      <4> QED
        BY <3>2, <4>1, <4>2, <4>3, <4>4, <4>5
    <3> QED
      BY <3>1, <3>2
  <2>22. CASE FilesDrained(u)
    BY <2>22, GuestAssumption DEF FilesDrained, SFTPEnds, Forget, Release, AfterClose
  <2> QED
    BY <1>2, <2>1, <2>2, <2>3, <2>4, <2>5, <2>6, <2>7, <2>8, <2>9, <2>10,
      <2>11, <2>12, <2>13, <2>14, <2>15, <2>16, <2>17, <2>18, <2>19, <2>20,
      <2>21, <2>22 DEF Step
<1>3. CASE GuestGoesOn
  <2>1. CASE GuestStarts
    BY <2>1, GuestAssumption DEF GuestStarts
  <2>2. ASSUME NEW from, NEW to, GuestChanges(from, to, TRUE)
        PROVE  AloneInv'
    BY <2>2 DEF GuestChanges
  <2>3. CASE GuestChanges("stopping", "down", FALSE)
    <3>1. CASE meddled
      BY <2>3, <3>1 DEF GuestChanges
    <3>2. CASE ~meddled
      <4>1. /\ guest = "stopping" /\ guest' = "down" /\ op' = op
            /\ client' = client /\ sawUp' = sawUp
        BY <2>3 DEF GuestChanges
      <4>2. \A v \in Users : at'[v] = at[v] \/ (at[v] = "gone" /\ at'[v] = "ok")
        BY <2>3 DEF GuestChanges
      <4> QED
        BY <3>2, <4>1, <4>2, GuestAssumption
    <3> QED
      BY <3>1, <3>2
  <2> QED
    BY <1>3, <2>1, <2>2, <2>3 DEF GuestGoesOn
<1>4. CASE SetupEnds
  BY <1>4, GuestAssumption DEF SetupEnds
<1> QED
  BY <1>1, <1>2, <1>3, <1>4 DEF Next, AllDone

---------------------------------------------------------------------------
(* The parts hold together, at first and after every step.                 *)
LEMMA TypeParts ==
  ASSUME OpenInv
  PROVE  TypeOK <=> /\ GuestOK /\ MutexOK /\ CacheOK /\ UserOK /\ ConnOK
                    /\ FlagOK
  BY DEF TypeOK, OpenInv, GuestOK, MutexOK, CacheOK, UserOK, ConnOK, FlagOK

LEMMA Initial == Init => IInv
<1> SUFFICES ASSUME Init PROVE IInv
  OBVIOUS
<1> USE GuestAssumption DEF Init
<1>1. GuestOK /\ MutexOK /\ CacheOK /\ ConnOK
  BY DEF GuestOK, MutexOK, CacheOK, ConnOK
<1>2. UserOK
  BY DEF UserOK, Places
<1>3. FlagOK
  BY DEF FlagOK
<1>4. PlaceInv /\ LinkInv /\ StartInv /\ SuccessInv
  BY DEF PlaceInv, LinkInv, StartInv, SuccessInv, SuccessTruthful
<1>5. OpenInv
  BY DEF OpenInv, OneConnection
<1>6. AloneInv
  BY DEF AloneInv, Transports
<1> QED
  BY <1>1, <1>2, <1>3, <1>4, <1>5, <1>6, TypeParts DEF IInv

LEMMA Inductive == IInv /\ [Next]_vars => IInv'
<1> SUFFICES ASSUME IInv, [Next]_vars PROVE IInv'
  OBVIOUS
<1>1. GuestOK /\ MutexOK /\ CacheOK /\ UserOK /\ ConnOK /\ FlagOK
  BY TypeParts DEF IInv
<1>2. /\ GuestOK' /\ MutexOK' /\ CacheOK' /\ UserOK' /\ ConnOK' /\ FlagOK'
  BY <1>1, GuestStep, MutexStep, CacheStep, UserStep, ConnStep, FlagStep
  DEF IInv
<1>3. PlaceInv' /\ LinkInv' /\ StartInv'
  BY <1>1, PlaceStep, LinkStep, StartStep DEF IInv
<1>4. OpenInv' /\ SuccessInv' /\ AloneInv'
  BY <1>1, OpenStep, SuccessStep, AloneStep DEF IInv
<1>5. TypeOK'
  BY <1>2, <1>4
  DEF TypeOK, OpenInv, GuestOK, MutexOK, CacheOK, UserOK, ConnOK, FlagOK
<1> QED
  BY <1>3, <1>4, <1>5 DEF IInv

LEMMA InvariantCorrect == Spec => []IInv
  BY Initial, Inductive, PTL DEF Spec

---------------------------------------------------------------------------
(* Every variable keeps its type; the number of open connections is one,    *)
(* because of OneConnection.                                               *)
THEOREM TypeCorrect == Spec => []TypeOK
<1>1. IInv => TypeOK
  BY DEF IInv
<1> QED
  BY <1>1, InvariantCorrect, PTL

(* connectLocked looks and dials under t.mu, and Close forgets what it has *)
(* closed: a transport has one connection per cached client and no other.  *)
THEOREM ConnectionsCorrect == Spec => []OneConnection
<1>1. IInv => OneConnection
  BY DEF IInv, OpenInv
<1> QED
  BY <1>1, InvariantCorrect, PTL

(* exec, downloads and uploads over SSH succeed only if the guest has done  *)
(* what they asked for, and wait-oobe only when setup is over.             *)
THEOREM SuccessCorrect == Spec => []SuccessTruthful
<1>1. IInv => SuccessTruthful
  BY DEF IInv, SuccessInv
<1> QED
  BY <1>1, InvariantCorrect, PTL

(* Any number of reboots and waits of an undisturbed test: wait-boot does   *)
(* not succeed with a client of the start before.                          *)
THEOREM BootCorrect == Spec => []BootTruthful
<1>1. IInv => BootTruthful
  <2> SUFFICES ASSUME IInv, ~meddled,
                      NEW u \in Users, at[u] = "ok", op[u] = "wait_boot"
               PROVE  sawUp[u]
    BY DEF BootTruthful
  <2>1. u = Tester
    BY DEF IInv, AloneInv
  <2> QED
    BY <2>1 DEF IInv, AloneInv
<1> QED
  BY <1>1, InvariantCorrect, PTL
=============================================================================
