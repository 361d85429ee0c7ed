---------------------------- MODULE MCGuestLink ----------------------------
(***************************************************************************)
(* An instance of GuestLink for TLC: a test and a request over IPC         *)
(***************************************************************************)
EXTENDS GuestLink, TLC

MCUsers == {"tester", "ipc"}
MCCalls == ("tester" :> 2) @@ ("ipc" :> 1)
MCOps == ("tester" :> {"wait_boot", "reboot"})
         @@ ("ipc" :> {"wait_oobe", "exec", "upload"})
=============================================================================
