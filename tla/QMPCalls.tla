------------------------------ MODULE QMPCalls ------------------------------
(***************************************************************************)
(* The calls the goroutines of test-foundry make on a qemu.Machine: the    *)
(* scripts of the clients of QMPMachine.                                   *)
(***************************************************************************)
EXTENDS Sequences

PanicEvents == {"GUEST_PANICKED", "GUEST_CRASHLOADED"}
QmpEvents   == PanicEvents \cup {"RESET", "STOP", "RESUME", "DUMP_COMPLETED",
                                 "DUMP_FAILED"}

Plain(kind) == [kind |-> kind, lenient |-> FALSE, arms |-> {},
                quits |-> FALSE, wants |-> {}, fails |-> {}, kills |-> FALSE,
                timed |-> FALSE]

(* WaitForPanic, WaitForReset and WaitForDumpCompletion.                   *)
WaitForPanic == [Plain("wait") EXCEPT !.wants = PanicEvents]
WaitForReset == [Plain("wait") EXCEPT !.wants = {"RESET"}]
WaitForDumpCompletion == [Plain("wait") EXCEPT !.wants = {"DUMP_COMPLETED"},
                                               !.fails = {"DUMP_FAILED"}]

(* A command without an event of its own, POST /api/v1/qmp for instance.   *)
Command == Plain("execute")

(* Pause and Resume.                                                       *)
Pause  == [Command EXCEPT !.arms = {"STOP"}]
Resume == [Command EXCEPT !.arms = {"RESUME"}]

(* PanicHandler.Start: the pause has five seconds and its failure is only  *)
(* logged; panicCh is closed when the script ends after its second call.   *)
PanicHandler == <<WaitForPanic, [Pause EXCEPT !.lenient = TRUE,
                                              !.timed = TRUE]>>

(* The dump action: start the dump, then wait for its completion.          *)
Dump == <<[Command EXCEPT !.arms = {"DUMP_COMPLETED"}], WaitForDumpCompletion>>

(* The reboot action: reboot in the guest, then wait for the RESET.        *)
Reboot == <<[Plain("guest") EXCEPT !.arms = {"RESET"}], WaitForReset>>

(* The shutdown action: shut the guest down, then wait for the exit.       *)
GuestShutdown == <<[Plain("guest") EXCEPT !.quits = TRUE], Plain("exit")>>

(* Machine.Shutdown: quit, then wait for the exit, or kill.                *)
MachineShutdown == <<[Command EXCEPT !.quits = TRUE],
                     [Plain("exit") EXCEPT !.kills = TRUE]>>

(* The poweroff action.                                                    *)
PowerOff == <<Plain("kill")>>
=============================================================================
