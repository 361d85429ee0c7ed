---------------------------- MODULE MCQMPMachine ----------------------------
(* Instances of QMPMachine for TLC.                                        *)
EXTENDS QMPMachine, QMPCalls

(* The panic handler and, once it has told of a panic, a panic step that   *)
(* powers the machine off; beside them a test that dumps the guest's       *)
(* memory and shuts the guest down.                                        *)
SessionScript == [c \in {"handler", "test"} |->
    IF c = "handler" THEN PanicHandler \o PowerOff ELSE Dump \o GuestShutdown]

(* The panic handler and a panic step that resumes the guest.              *)
ResumeScript == [c \in {"handler", "resume"} |->
    IF c = "handler" THEN PanicHandler ELSE <<Resume>>]

(* The panic handler and a test that reboots the guest and ends.           *)
StaleScript == [c \in {"handler", "test"} |->
    IF c = "handler" THEN PanicHandler ELSE Reboot \o MachineShutdown]

(* One action at a time.                                                 *)
DumpScript   == [c \in {"dump"} |-> Dump]
=============================================================================
