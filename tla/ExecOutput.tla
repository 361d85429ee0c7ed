----------------------------- MODULE ExecOutput -----------------------------
(***************************************************************************)
(* The output of a command in the guest on its way into `outputs.stdout`   *)
(* (ExecAction in src/internal/action/exec.go over RunCommand of the ssh   *)
(* transport).  Bytes are counted, not named: all that happens to them     *)
(* is that some are kept, in order, from the first one on.                 *)
(***************************************************************************)
EXTENDS Naturals

CONSTANTS
  Limit,      \* execStdoutMaxSize, 4096
  Window,     \* what ssh lets a guest write that nobody reads, 2 MB
  Chunk,      \* the buffer of io.Copy, 32 KB
  MaxOutput   \* bound: bytes the command prints

ASSUME OutputAssumption ==
  Limit \in Nat /\ Window \in Nat /\ Chunk \in Nat /\ MaxOutput \in Nat

VARIABLES
  printed,   \* bytes the command has written
  unread,    \* of those, the ones io.Copy has not read
  captured,  \* len(w.buf)
  copier,    \* the goroutine copying stdout
  exit,      \* exit code of the command, Running before
  expect,    \* expect_exit_code of the step, Running if it has none
  expired,   \* the context of the step has ended
  outcome    \* what Execute has returned

outputvars == <<printed, unread, captured, copier, exit, expect, expired,
                outcome>>

Running == 99
Smaller(a, b) == IF a < b THEN a ELSE b

OutputInit ==
  /\ printed = 0 /\ unread = 0 /\ captured = 0
  /\ copier = "copying" /\ exit = Running /\ expect \in {0, 1, Running}
  /\ expired = FALSE /\ outcome = "none"

\* The command writes; beyond the window it has to wait.
CommandPrints(n) ==
  /\ exit = Running /\ printed + n <= MaxOutput /\ unread + n <= Window
  /\ printed' = printed + n /\ unread' = unread + n
  /\ UNCHANGED <<captured, copier, exit, expect, expired, outcome>>

CommandExits(code) ==
  /\ exit = Running
  /\ exit' = code
  /\ UNCHANGED <<printed, unread, captured, copier, expect, expired, outcome>>

\* A faulty variant: a chunk that fills the buffer counts as cut.
ShortWhenFull(n, room) == room > 0 /\ n >= room

\* A chunk of n bytes is written short if it is cut to the room there is.
ShortWrite(n, room) == room > 0 /\ n > room

\* io.Copy hands a chunk to captureWriter.Write, which returns the length it
\* has kept: a chunk that crosses the limit is a short write, and ends the
\* copying.  Once the limit is reached exactly, chunks are dropped silently.
Copy(n) ==
  /\ copier = "copying" /\ n <= unread
  /\ captured' = captured + Smaller(n, Limit - captured)
  /\ copier' = IF ShortWrite(n, Limit - captured) THEN "stopped" ELSE "copying"
  /\ unread' = unread - n
  /\ UNCHANGED <<printed, exit, expect, expired, outcome>>

CopyEnds ==
  /\ copier = "copying" /\ unread = 0 /\ exit # Running
  /\ copier' = "ended"
  /\ UNCHANGED <<printed, unread, captured, exit, expect, expired, outcome>>

\* The step wants another exit code.
Unexpected == expect # Running /\ expect # exit

\* wg.Wait, session.Wait.  The exit code is looked at before the error of
\* the copying, which only a command with code 0 reports.
RunCommandReturns ==
  /\ outcome = "none" /\ ~expired
  /\ copier # "copying" /\ exit # Running
  /\ outcome' = IF Unexpected \/ (exit = 0 /\ copier = "stopped")
                THEN "failed" ELSE "passed"
  /\ UNCHANGED <<printed, unread, captured, copier, exit, expect, expired>>

\* The step times out: the session is killed, whatever the command did.
StepExpires ==
  /\ outcome = "none" /\ ~expired
  /\ expired' = TRUE /\ outcome' = "failed"
  /\ UNCHANGED <<printed, unread, captured, copier, exit, expect>>

OutputNext ==
  \/ \E n \in 1..MaxOutput : CommandPrints(n)
  \/ \E code \in {0, 1} : CommandExits(code)
  \/ \E n \in 1..Chunk : Copy(n)
  \/ CopyEnds \/ RunCommandReturns \/ StepExpires

OutputSpec == OutputInit /\ [][OutputNext]_outputvars

---------------------------------------------------------------------------
(* Properties                                                              *)

\* The comment of captureWriter: what is beyond max bytes is "silently"
\* discarded.  A command that exits as the step wants it, in time, makes the
\* step pass, however much it prints.
OutputDiscarded == outcome = "failed" => expired \/ Unexpected

\* Up to the limit, itself included, no output does harm, however it is cut
\* into chunks: the step fails for another reason only, and a step that
\* passes has captured all of it.  Of more output it has captured the first
\* Limit bytes if it passes; that it may fail is OutputDiscarded's matter.
OutputUpToLimit ==
  /\ outcome = "passed" => captured = Smaller(printed, Limit)
  /\ outcome = "failed" => expired \/ Unexpected \/ printed > Limit
  /\ copier = "stopped" => captured = Limit /\ printed > Limit
=============================================================================
