----------------------------- MODULE GuestLink -----------------------------
(***************************************************************************)
(* The connection to the guest (src/internal/guest).  The steps of a test  *)
(* and requests over IPC share one Guest; its transports cache a client    *)
(* behind a mutex.  The guest restarts, by command or by itself, and the   *)
(* cache does not hear of it.  Each start of the guest has a number, and   *)
(* an ssh client is good for the start it was made in.                     *)
(***************************************************************************)
EXTENDS Naturals

CONSTANTS
  Users,       \* the runner and IPC requests
  Tester,      \* the runner
  Calls,       \* Calls[u]: how many calls u makes
  Ops,         \* Ops[u]: the operations u chooses from
  MaxStarts,   \* how often the guest starts
  Nobody       \* holder of a free mutex

Transports == {"command", "files"}
AllOps == {"wait_boot", "wait_oobe", "exec", "upload", "download", "reboot",
           "shutdown"}

ASSUME GuestAssumption ==
  /\ Tester \in Users /\ Nobody \notin Users
  /\ Calls \in [Users -> Nat] /\ Ops \in [Users -> SUBSET AllOps]
  /\ MaxStarts \in Nat \ {0}

VARIABLES
  kind,      \* kind[t]: "ssh" or "winrm", by exec_method and file_method
  guest,     \* what the guest is doing
  start,     \* the number of its last start
  setup,     \* Windows setup is under way: what checkOOBEState asks for
  mu,        \* mu[t]: who holds t.mu
  client,    \* client[t]: the start the cached client was made in, 0 for nil
  sftp,      \* sftp[t]: the same for the cached SFTP client
  open,      \* open[t]: connections made and not closed
  at, op,    \* where a user is, in which operation
  conn,      \* conn[u]: the client u works with, 0 once it was closed
  left,      \* calls u may still make
  expired,   \* the context of u's call has ended
  sawUp,     \* history: the guest was up during u's wait-boot
  obeyed,    \* history: the guest ran u's command or has u's file
  meddled    \* history: something other than the tester's calls interfered

guestvars == <<kind, guest, start, setup>>
linkvars == <<mu, client, sftp, open>>
uservars == <<op, left, expired>>
vars == <<guestvars, linkvars, uservars, at, conn, sawUp, obeyed, meddled>>

\* transportShared: one method for both, and one transport.
shared == kind["command"] = kind["files"]

Waiting == {"wait_boot", "wait_oobe"}
Powering == {"reboot", "shutdown"}
FileOps == {"upload", "download"}
Accepting == guest \in {"up", "stopping"}

T(u) == IF op[u] \in FileOps /\ ~shared THEN "files" ELSE "command"
SSH(u) == kind[T(u)] = "ssh"

\* An ssh client lives as long as the guest it was made in; a WinRM client
\* connects anew for each command.
Live(u) == Accepting /\ (SSH(u) => conn[u] = start)
Dead(u) == guest = "down" \/ (SSH(u) /\ conn[u] # start)

Init ==
  /\ kind \in [Transports -> {"ssh", "winrm"}]
  /\ guest = "down" /\ start = 0 /\ setup = TRUE
  /\ mu = [t \in Transports |-> Nobody]
  /\ client = [t \in Transports |-> 0] /\ sftp = [t \in Transports |-> 0]
  /\ open = [t \in Transports |-> 0]
  /\ at = [u \in Users |-> "idle"] /\ op = [u \in Users |-> "none"]
  /\ conn = [u \in Users |-> 0] /\ left = Calls
  /\ expired = [u \in Users |-> FALSE] /\ sawUp = [u \in Users |-> FALSE]
  /\ obeyed = [u \in Users |-> FALSE] /\ meddled = FALSE

Goto(u, s) == at' = [at EXCEPT ![u] = s]

\* The places of a user that works with a client; elsewhere it has let go.
Linked == {"sftp", "session", "run", "reply", "remote", "copy", "written"}
Proceed(u, s) ==
  /\ Goto(u, s)
  /\ conn' = IF s \in Linked THEN conn ELSE [conn EXCEPT ![u] = 0]

Unlocked(t) == mu[t] = Nobody
Release(t) == mu' = [mu EXCEPT ![t] = Nobody]

\* Close is ending the SFTP session of t, under the mutex.
Draining(t) == \E u \in Users : mu[t] = u /\ at[u] \in {"drain", "drain_files"}

Begin(u, o) ==
  /\ at[u] = "idle" /\ left[u] > 0
  /\ Goto(u, "lock")
  /\ op' = [op EXCEPT ![u] = o]
  /\ left' = [left EXCEPT ![u] = @ - 1]
  /\ sawUp' = [sawUp EXCEPT ![u] = Accepting /\ o = "wait_boot"]
  /\ meddled' = (meddled \/ u # Tester)
  /\ UNCHANGED <<guestvars, linkvars, expired, conn, obeyed>>

---------------------------------------------------------------------------
(* Acquiring a client                                                      *)

\* What follows once a client is there, outside the mutex.
AfterClient(u) == CASE op[u] = "wait_boot" -> "ok"
                    [] op[u] \in FileOps -> IF SSH(u) THEN "remote" ELSE "copy"
                    [] OTHER -> IF SSH(u) THEN "session" ELSE "run"
NeedsSFTP(u) == op[u] \in FileOps /\ SSH(u) /\ sftp[T(u)] = 0

\* Where an error of a command or a connection leads: the waits try again,
\* Reboot and Shutdown look whether the guest is gone.
AfterError(u) == CASE op[u] \in Waiting -> "tick"
                   [] op[u] \in Powering -> "probe"
                   [] OTHER -> "err"

\* A faulty variant: the check for a cached client is made without the mutex.
AcquireUnlocked(u) ==
  /\ at[u] = "lock"
  /\ conn' = [conn EXCEPT ![u] = client[T(u)]]
  /\ IF client[T(u)] = 0
     THEN Goto(u, "dial") /\ UNCHANGED mu
     ELSE IF NeedsSFTP(u)
     THEN Goto(u, "sftp") /\ UNCHANGED mu
     ELSE Goto(u, AfterClient(u)) /\ UNCHANGED mu
  /\ UNCHANGED <<guestvars, client, sftp, open, uservars, sawUp, obeyed,
                 meddled>>

\* connectLocked: a client that is there is taken, dead or alive; otherwise
\* the mutex stays held while dialing, and while SFTP starts.
Acquire(u) ==
  /\ at[u] = "lock" /\ Unlocked(T(u))
  /\ conn' = [conn EXCEPT ![u] = client[T(u)]]
  /\ IF client[T(u)] = 0
     THEN Goto(u, "dial") /\ mu' = [mu EXCEPT ![T(u)] = u]
     ELSE IF NeedsSFTP(u)
     THEN Goto(u, "sftp") /\ mu' = [mu EXCEPT ![T(u)] = u]
     ELSE Goto(u, AfterClient(u)) /\ UNCHANGED mu
  /\ UNCHANGED <<guestvars, client, sftp, open, uservars, sawUp, obeyed,
                 meddled>>

Dialed(u) ==
  /\ at[u] = "dial" /\ Accepting
  /\ client' = [client EXCEPT ![T(u)] = start]
  /\ open' = [open EXCEPT ![T(u)] = @ + 1]
  /\ conn' = [conn EXCEPT ![u] = start]
  /\ IF NeedsSFTP(u) THEN Goto(u, "sftp") /\ UNCHANGED mu
                     ELSE Goto(u, AfterClient(u)) /\ Release(T(u))
  /\ UNCHANGED <<guestvars, sftp, uservars, sawUp, obeyed, meddled>>

\* The guest refuses, does not answer within ten seconds, or the context
\* ends: closing the raw connection aborts the handshake.
DialFails(u) ==
  /\ at[u] = "dial"
  /\ Goto(u, AfterError(u)) /\ Release(T(u))
  /\ UNCHANGED <<guestvars, client, sftp, open, uservars, conn, sawUp, obeyed,
                 meddled>>

\* ensureSFTPLocked: no deadline, under the mutex.
StartSFTP(u) ==
  /\ at[u] = "sftp" /\ (Live(u) \/ Dead(u))
  /\ Release(T(u))
  /\ sftp' = IF Live(u) THEN [sftp EXCEPT ![T(u)] = start] ELSE sftp
  /\ Proceed(u, IF Live(u) THEN "remote" ELSE "err")
  /\ UNCHANGED <<guestvars, client, open, uservars, sawUp, obeyed, meddled>>

---------------------------------------------------------------------------
(* Commands and transfers                                                  *)

rest == <<guestvars, linkvars, uservars, sawUp, meddled>>

\* NewSession: no deadline; an error on a dead client, which stays cached.
NewSession(u) ==
  /\ at[u] = "session" /\ (Live(u) \/ Dead(u))
  /\ Proceed(u, IF Live(u) THEN "run" ELSE AfterError(u))
  /\ UNCHANGED <<rest, obeyed>>

\* The guest carries the command out; a reboot begins with an answer.
GuestRuns(u) ==
  /\ at[u] = "run" /\ Live(u)
  /\ obeyed' = [obeyed EXCEPT ![u] = op[u] = "exec"]
  /\ guest' = IF op[u] \in Powering THEN "stopping" ELSE guest
  /\ Goto(u, "reply")
  /\ UNCHANGED <<kind, start, setup, linkvars, uservars, conn, sawUp,
                 meddled>>

\* The exit status arrives.  A cancelled context wins over it.
RunReturns(u) ==
  /\ at[u] = "reply" /\ Live(u) /\ ~expired[u]
  /\ Proceed(u, CASE op[u] = "wait_oobe" -> IF setup THEN "tick" ELSE "ok"
               [] op[u] \in Powering -> "close"
               [] OTHER -> "ok")
  /\ UNCHANGED <<rest, obeyed>>

\* A faulty variant: a lost connection counts as an exit status.
RunBreaksQuietly(u) ==
  /\ at[u] \in {"run", "reply"} /\ (Dead(u) \/ expired[u])
  /\ Proceed(u, IF op[u] = "exec" THEN "ok" ELSE AfterError(u))
  /\ UNCHANGED <<rest, obeyed>>

\* A faulty variant: the context does not close the session.
RunBreaksDeadOnly(u) ==
  /\ at[u] \in {"run", "reply"} /\ Dead(u)
  /\ Proceed(u, AfterError(u))
  /\ UNCHANGED <<rest, obeyed>>

\* The connection is lost, or the context ends and the session is killed.
RunBreaks(u) ==
  /\ at[u] \in {"run", "reply"} /\ (Dead(u) \/ expired[u])
  /\ Proceed(u, AfterError(u))
  /\ UNCHANGED <<rest, obeyed>>

\* MkdirAll and Create, or Open: no deadline.
OpenRemote(u) ==
  /\ at[u] = "remote" /\ (Live(u) \/ Dead(u))
  /\ \E s \in {"copy", "err"} : (s = "copy" => Live(u)) /\ Proceed(u, s)
  /\ UNCHANGED <<rest, obeyed>>

\* io.Copy under watchContext, WinRM sends command after command: the other
\* end has acknowledged the last one.  It has the whole file then, but for an
\* upload over WinRM, which looks at no exit code and sends no chunk of an
\* empty file (ChunkedUpload).
CopyFile(u) ==
  /\ at[u] = "copy" /\ Live(u) /\ Goto(u, "written")
  /\ \E whole \in BOOLEAN :
       /\ whole \/ (op[u] = "upload" /\ ~SSH(u))
       /\ obeyed' = [obeyed EXCEPT ![u] = whole]
  /\ UNCHANGED <<rest, conn>>

\* The remote file is closed: no deadline, and an error of it is ignored.
\* WinRM has its answer.
CopyReturns(u) ==
  /\ at[u] = "written"
  /\ Live(u) \/ (SSH(u) /\ (Dead(u) \/ Draining(T(u))))
  /\ Proceed(u, "ok")
  /\ UNCHANGED <<rest, obeyed>>

\* A faulty variant: a transfer that is cut short looks like its end.
CopyBreaksQuietly(u) ==
  /\ at[u] = "copy" /\ (Dead(u) \/ expired[u])
  /\ Proceed(u, IF expired[u] THEN "ok" ELSE "err")
  /\ UNCHANGED <<rest, obeyed>>

\* The connection is lost, the context ends, or Close ends the SFTP session.
CopyBreaks(u) ==
  /\ at[u] = "copy" \/ (at[u] = "written" /\ ~SSH(u))
  /\ Dead(u) \/ expired[u] \/ (SSH(u) /\ Draining(T(u)))
  /\ Proceed(u, "err")
  /\ UNCHANGED <<rest, obeyed>>

---------------------------------------------------------------------------
(* Waiting, rebooting, shutting down                                       *)

\* The ticker of WaitBoot and WaitOOBEComplete: once more.
Retry(u) ==
  /\ at[u] = "tick"
  /\ Proceed(u, "lock")
  /\ UNCHANGED <<rest, obeyed>>

\* The context of a wait ends, that of the actions reboot and shutdown too.
WaitTimesOut(u) ==
  /\ at[u] \in {"tick", "gone"} /\ expired[u]
  /\ Goto(u, "err")
  /\ meddled' = (meddled \/ at[u] = "gone")
  /\ UNCHANGED <<guestvars, linkvars, uservars, conn, sawUp, obeyed>>

\* IsConnected, asked of the client that is cached now: an error counts only
\* if the guest still answers.
Cached(t) == /\ client[t] # 0 /\ Accepting
             /\ kind[t] = "ssh" => client[t] = start
Probe(u) ==
  /\ at[u] = "probe" /\ Unlocked("command")
  /\ Goto(u, IF Cached("command") THEN "err" ELSE "close")
  /\ meddled' = (meddled \/ Cached("command"))
  /\ UNCHANGED <<guestvars, linkvars, uservars, conn, sawUp, obeyed>>

\* A faulty variant: a client that is not there is counted all the same.
ForgetAnyway(t) ==
  /\ client' = [client EXCEPT ![t] = 0] /\ sftp' = [sftp EXCEPT ![t] = 0]
  /\ open' = [open EXCEPT ![t] = @ - 1]
  /\ conn' = [v \in Users |-> IF T(v) = t THEN 0 ELSE conn[v]]
  /\ Release(t)

\* The client is closed: who works with an ssh client of t loses it.
Forget(t) ==
  /\ client' = [client EXCEPT ![t] = 0] /\ sftp' = [sftp EXCEPT ![t] = 0]
  /\ open' = [open EXCEPT ![t] = IF client[t] = 0 THEN @ ELSE @ - 1]
  /\ conn' = [v \in Users |-> IF T(v) = t THEN 0 ELSE conn[v]]
  /\ Release(t)

\* Close: an SFTP client is closed first, and that waits, under the mutex, for
\* the other end (places "drain" and "drain_files").
CloseTransport(u, t, drain, next) ==
  /\ Unlocked(t)
  /\ IF sftp[t] = 0
     THEN Forget(t) /\ Goto(u, next)
     ELSE /\ mu' = [mu EXCEPT ![t] = u] /\ Goto(u, drain)
          /\ UNCHANGED <<client, sftp, open, conn>>
  /\ UNCHANGED <<guestvars, uservars, sawUp, obeyed, meddled>>

\* The receive loop of the SFTP session has ended, the client is closed too.
SFTPEnds(u, t, next) ==
  /\ guest # "hung" \/ sftp[t] # start
  /\ Forget(t) /\ Goto(u, next)
  /\ UNCHANGED <<guestvars, uservars, sawUp, obeyed, meddled>>

\* RebootAction and ShutdownAction go on to wait until the guest is gone: for
\* a RESET from now on, for the exit of QEMU at any time.
AfterClose(u) == IF op[u] = "shutdown" /\ guest = "down" THEN "ok" ELSE "gone"
AfterCommand(u) == IF shared THEN AfterClose(u) ELSE "close_files"

\* A faulty variant: the transport of the commands is not closed.
KeepCommand(u) ==
  /\ at[u] = "close" /\ Goto(u, AfterCommand(u))
  /\ UNCHANGED <<guestvars, linkvars, uservars, conn, sawUp, obeyed, meddled>>

\* closeTransports
CloseCommand(u) ==
  at[u] = "close" /\ CloseTransport(u, "command", "drain", AfterCommand(u))

CloseFiles(u) ==
  /\ at[u] = "close_files"
  /\ CloseTransport(u, "files", "drain_files", AfterClose(u))

CommandDrained(u) ==
  at[u] = "drain" /\ SFTPEnds(u, "command", AfterCommand(u))

FilesDrained(u) ==
  at[u] = "drain_files" /\ SFTPEnds(u, "files", AfterClose(u))

\* The call returns; what belonged to it is gone.
End(u) ==
  /\ at[u] \in {"ok", "err"}
  /\ Goto(u, "idle")
  /\ op' = [op EXCEPT ![u] = "none"] /\ conn' = [conn EXCEPT ![u] = 0]
  /\ expired' = [expired EXCEPT ![u] = FALSE]
  /\ sawUp' = [sawUp EXCEPT ![u] = FALSE]
  /\ obeyed' = [obeyed EXCEPT ![u] = FALSE]
  /\ UNCHANGED <<guestvars, linkvars, left, meddled>>

---------------------------------------------------------------------------
(* The guest and the contexts                                              *)

Expire(u) ==
  /\ at[u] \notin {"idle", "ok", "err"} /\ ~expired[u]
  /\ expired' = [expired EXCEPT ![u] = TRUE]
  /\ UNCHANGED <<guestvars, linkvars, op, left, at, conn, sawUp, obeyed,
                 meddled>>

GuestStarts ==
  /\ guest = "down" /\ start < MaxStarts
  /\ guest' = "up" /\ start' = start + 1
  /\ sawUp' = [u \in Users |-> op[u] = "wait_boot"]
  /\ UNCHANGED <<kind, setup, linkvars, uservars, at, conn, obeyed,
                 meddled>>

\* The end of a restart that was asked for, or a reset, a panic, a hang.  Who
\* waits for it learns that the guest goes down, if the event is not dropped.
GuestChanges(from, to, own) ==
  /\ guest = from /\ guest' = to
  /\ meddled' = (meddled \/ own)
  /\ \E heard \in SUBSET {u \in Users : at[u] = "gone" /\ to = "down"} :
       at' = [u \in Users |-> IF u \in heard THEN "ok" ELSE at[u]]
  /\ UNCHANGED <<kind, start, setup, linkvars, uservars, conn, sawUp, obeyed>>

GuestGoesOn ==
  \/ GuestStarts
  \/ GuestChanges("stopping", "down", FALSE)
  \/ GuestChanges("up", "down", TRUE)
  \/ \E from \in {"up", "stopping"} : GuestChanges(from, "hung", TRUE)
  \/ \E to \in {"up", "stopping", "down"} : GuestChanges("hung", to, TRUE)

\* Only wait-oobe can tell when, so one is under way.
SetupEnds ==
  /\ guest = "up" /\ setup /\ \E u \in Users : op[u] = "wait_oobe"
  /\ setup' = FALSE
  /\ UNCHANGED <<kind, guest, start, linkvars, uservars, at, conn, sawUp,
                 obeyed, meddled>>

Step(u) ==
  \/ \E o \in Ops[u] : Begin(u, o)
  \/ Acquire(u) \/ Dialed(u) \/ DialFails(u) \/ StartSFTP(u)
  \/ NewSession(u) \/ GuestRuns(u) \/ RunReturns(u) \/ RunBreaks(u)
  \/ OpenRemote(u) \/ CopyFile(u) \/ CopyReturns(u) \/ CopyBreaks(u)
  \/ Retry(u) \/ WaitTimesOut(u) \/ Probe(u)
  \/ CloseCommand(u) \/ CommandDrained(u)
  \/ CloseFiles(u) \/ FilesDrained(u)
  \/ End(u) \/ Expire(u)

AllDone ==
  /\ \A u \in Users : at[u] = "idle" /\ left[u] = 0
  /\ UNCHANGED vars

Next == (\E u \in Users : Step(u)) \/ GuestGoesOn \/ SetupEnds \/ AllDone

\* Code that can run does; a mutex that is free again and again is got, and
\* select does not overlook the end of a context for ever.  Nothing is assumed
\* of the guest.  Closing a session, a file or an SFTP client frees a call that
\* waits for the guest only if the guest answers or is gone.
Locking(u) == Acquire(u) \/ Probe(u) \/ CloseCommand(u) \/ CloseFiles(u)
Working(u) ==
  \/ Dialed(u) \/ DialFails(u) \/ Retry(u)
  \/ /\ guest # "hung"
     /\ StartSFTP(u) \/ NewSession(u) \/ OpenRemote(u) \/ RunReturns(u)
        \/ RunBreaks(u) \/ CopyReturns(u) \/ CopyBreaks(u)
        \/ CommandDrained(u) \/ FilesDrained(u)

Fairness ==
  \A u \in Users :
    SF_vars(Locking(u)) /\ SF_vars(WaitTimesOut(u)) /\ WF_vars(Working(u))

Spec == Init /\ [][Next]_vars /\ Fairness

---------------------------------------------------------------------------
(* Properties                                                              *)

Places == {"idle", "lock", "dial", "sftp", "session", "run", "reply", "remote",
           "copy", "written", "tick", "probe", "close", "drain", "close_files",
           "drain_files", "gone", "ok", "err"}

TypeOK ==
  /\ kind \in [Transports -> {"ssh", "winrm"}]
  /\ guest \in {"down", "up", "stopping", "hung"}
  /\ start \in 0..MaxStarts /\ setup \in BOOLEAN
  /\ mu \in [Transports -> Users \cup {Nobody}]
  /\ client \in [Transports -> 0..MaxStarts]
  /\ sftp \in [Transports -> 0..MaxStarts] /\ open \in [Transports -> Nat]
  /\ at \in [Users -> Places] /\ op \in [Users -> AllOps \cup {"none"}]
  /\ conn \in [Users -> 0..MaxStarts] /\ left \in [Users -> Nat]
  /\ expired \in [Users -> BOOLEAN] /\ sawUp \in [Users -> BOOLEAN]
  /\ obeyed \in [Users -> BOOLEAN] /\ meddled \in BOOLEAN

\* Concurrent callers share one connection: a transport never has two, and
\* none that is not its cached client ("cannot race into creating (and
\* leaking) a second connection").
OneConnection ==
  \A t \in Transports : open[t] = (IF client[t] = 0 THEN 0 ELSE 1)

\* What reports success has happened: the guest ran the command, gave or has
\* the file, setup is over when wait-oobe says so, whichever connection was
\* lost, closed by another caller's reboot or cancelled on the way.  Uploads
\* over WinRM promise no such thing.
SuccessTruthful ==
  \A u \in Users : at[u] = "ok" =>
    /\ op[u] \in {"exec", "download"} => obeyed[u]
    /\ op[u] = "upload" /\ SSH(u) => obeyed[u]
    /\ op[u] = "wait_oobe" => ~setup

\* wait-boot succeeds only after it has seen the guest up, as long as the
\* test is alone with a guest that restarts when told and its own reboots
\* do not report an error: the reboot action closes the clients and waits
\* for the reset, so that none is left of the start before.  Otherwise the
\* cached client may be that of an earlier start, and wait-boot returns at
\* once.
BootTruthful ==
  \A u \in Users :
    at[u] = "ok" /\ op[u] = "wait_boot" => sawUp[u] \/ meddled

Ended(u) == at[u] \in {"ok", "err", "idle"}

\* Where a hung guest holds a call: no deadline applies there, or it does
\* only if the ssh packages let go; and who waits for the mutex while its
\* holder starts SFTP or closes it.
HeldByGuest == {"sftp", "session", "remote", "run", "reply", "copy", "written",
                "drain", "drain_files"}
Wanted(u) == CASE at[u] = "lock" -> T(u)
               [] at[u] = "close_files" -> "files"
               [] OTHER -> "command"
Stuck(u) ==
  /\ guest = "hung"
  /\ \/ at[u] \in HeldByGuest
     \/ /\ at[u] \in {"lock", "probe", "close", "close_files"}
        /\ \E v \in Users : mu[Wanted(u)] = v /\ at[v] \in HeldByGuest

\* Every call ends once its context has ended, unless the guest hangs and the
\* call, or the holder of the mutex it needs, waits for the guest; even then
\* while it dials or waits for the next attempt of wait-boot.
CallsEnd == \A u \in Users : expired[u] ~> (Ended(u) \/ Stuck(u))
=============================================================================
