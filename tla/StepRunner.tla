----------------------------- MODULE StepRunner -----------------------------
(***************************************************************************)
(* The step runner of test-foundry: executor/runner.go (RunSteps and       *)
(* RunPanicSteps), executor/panic_handler.go, and the part of runTest in   *)
(* cli/cmd_testing.go that saves the result and judges the run.            *)
(*                                                                         *)
(* RunSteps starts every action in a goroutine and selects over its result,*)
(* the panic channel and the context, which a monitor cancels when QEMU    *)
(* exits; the panic handler is a third goroutine.  When RunSteps turns     *)
(* away from a step, the goroutine of its action goes on.                  *)
(*                                                                         *)
(* Steps 1 .. N are the test's, steps N + 1 .. N + P the panic steps.      *)
(***************************************************************************)
EXTENDS Naturals, Sequences

CONSTANTS
    N,              \* number of steps of the test
    P,              \* number of panic steps
    ActionDelay,    \* panic.action_delay is positive
    HasHandler,     \* panicCh is not nil (nil in vm-setup)
    Stubborn,       \* steps whose action ignores its context (winrm)
    ShutdownSteps,  \* steps whose action is "shutdown"
    DiskFails       \* test-result.json may fail to be written

Steps      == 1 .. N
PanicSteps == N + 1 .. N + P
AllSteps   == 1 .. N + P

ASSUME ParametersAssumption ==
    /\ N \in Nat /\ P \in Nat
    /\ ActionDelay \in BOOLEAN /\ HasHandler \in BOOLEAN
    /\ DiskFails \in BOOLEAN
    /\ Stubborn \subseteq AllSteps /\ ShutdownSteps \subseteq Steps

VARIABLES
    rpc,        \* where the runner is
    then,       \* where it goes after saving
    cur,        \* index of the current step
    act,        \* per step: "none", "running", or the result in doneCh
    timedOut,   \* steps whose context timed out
    released,   \* steps whose context the runner cancelled
    results,    \* RunResult.Steps
    presults,   \* RunResult.PanicSteps
    detected,   \* RunResult.PanicDetected
    verdict,    \* what runTest concludes
    file,       \* test-result.json
    qemu,       \* "up" or "exited" (m.done closed)
    ctx,        \* the context of the run is cancelled
    guest,      \* "ok", "panicked" or "off" (asked to shut down)
    handler,    \* panic handler: "starting", "watching", "pausing", "gone"
    notice,     \* a panic event is in the handler's listener channel
    panicCh     \* the panic channel is closed

recordVars == <<results, presults, detected, verdict>>
runnerVars == <<rpc, then, cur>>
stepVars   == <<act, timedOut, released>>
worldVars  == <<qemu, ctx, guest>>
panicVars  == <<handler, notice, panicCh>>
vars == <<runnerVars, stepVars, recordVars, file, worldVars, panicVars>>

(* The file holds one result, or none that can be read.                    *)
Torn     == {}
Snapshot == {[steps |-> results, panic |-> presults, detected |-> detected]}

(* The empty result is saved before the steps start.                       *)
Init ==
    /\ rpc = (IF N > 0 THEN "resolve" ELSE "main_over")
    /\ then = "resolve" /\ cur = 1
    /\ act = [i \in AllSteps |-> "none"]
    /\ timedOut = {} /\ released = {}
    /\ results = << >> /\ presults = << >>
    /\ detected = FALSE /\ verdict = "none"
    /\ file = Snapshot
    /\ qemu = "up" /\ ctx = FALSE /\ guest = "ok"
    /\ handler = (IF HasHandler THEN "starting" ELSE "gone")
    /\ notice = FALSE /\ panicCh = FALSE

(* A faulty variant: steps share the context of the run.                   *)
RunCtxDone(i) == ctx

StepCtxDone(i) == i \in timedOut \cup released \/ ctx

-----------------------------------------------------------------------------
(* RunSteps.                                                               *)

SaveThen(l) == rpc' = "save" /\ then' = l

(* A faulty variant: the rejected step is recorded, then run all the same. *)
StepRejectedRuns ==
    /\ rpc = "resolve"
    /\ results' = Append(results, "failed")
    /\ SaveThen("resolve")
    /\ UNCHANGED <<cur, stepVars, presults, detected, verdict, file,
                   worldVars, panicVars>>

(* Resolving the parameters fails, or the action is unknown.               *)
StepRejected ==
    /\ rpc = "resolve"
    /\ results' = Append(results, "failed")
    /\ SaveThen("skip")
    /\ UNCHANGED <<cur, stepVars, presults, detected, verdict, file,
                   worldVars, panicVars>>

StepStarts ==
    /\ rpc = "resolve"
    /\ act' = [act EXCEPT ![cur] = "running"]
    /\ rpc' = "select"
    /\ UNCHANGED <<then, cur, timedOut, released, recordVars, file,
                   worldVars, panicVars>>

(* A faulty variant: the run goes on after a failed step.                  *)
FinishStepGoesOn(err) ==
    /\ released' = released \cup {cur}
    /\ detected' = (detected \/ err = "panic")
    /\ results' = Append(results, IF err = "nil" THEN "passed" ELSE "failed")
    /\ cur' = IF cur < N THEN cur + 1 ELSE cur
    /\ SaveThen(IF cur < N THEN "resolve" ELSE "main_over")

(* The select statement ended with this error, "nil" for none: release the *)
(* step's context, record the status, save.                                *)
FinishStep(err) ==
    /\ released' = released \cup {cur}
    /\ detected' = (detected \/ err = "panic")
    /\ IF err = "nil"
       THEN /\ results' = Append(results, "passed")
            /\ cur' = IF cur < N THEN cur + 1 ELSE cur
            /\ SaveThen(IF cur < N THEN "resolve" ELSE "main_over")
       ELSE /\ results' = Append(results, "failed")
            /\ SaveThen("skip")
            /\ UNCHANGED cur

SelectDone ==
    /\ rpc = "select" /\ act[cur] \in {"ok", "err"}
    /\ IF act[cur] = "err" /\ ActionDelay /\ HasHandler
       THEN /\ rpc' = "grace"
            /\ UNCHANGED <<then, cur, released, results, detected>>
       ELSE FinishStep(IF act[cur] = "ok" THEN "nil" ELSE "err")
    /\ UNCHANGED <<act, timedOut, presults, verdict, file, worldVars,
                   panicVars>>

SelectPanic ==
    /\ rpc = "select" /\ panicCh
    /\ FinishStep("panic")
    /\ UNCHANGED <<act, timedOut, presults, verdict, file, worldVars,
                   panicVars>>

(* A faulty variant: the end of the context is taken for a panic.          *)
SelectCtxAsPanic ==
    /\ rpc = "select" /\ ctx
    /\ FinishStep("panic")
    /\ UNCHANGED <<act, timedOut, presults, verdict, file, worldVars,
                   panicVars>>

SelectCtx ==
    /\ rpc = "select" /\ ctx
    /\ FinishStep("cancelled")
    /\ UNCHANGED <<act, timedOut, presults, verdict, file, worldVars,
                   panicVars>>

(* A faulty variant: the error of the action is lost in the grace period.  *)
GraceForgets ==
    /\ rpc = "grace"
    /\ \/ panicCh /\ FinishStep("panic")
       \/ FinishStep("nil")
    /\ UNCHANGED <<act, timedOut, presults, verdict, file, worldVars,
                   panicVars>>

(* A step failed by itself and panic.action_delay gives the panic a chance *)
(* to be the reason.                                                       *)
GraceEnds ==
    /\ rpc = "grace"
    /\ \/ panicCh /\ FinishStep("panic")
       \/ FinishStep("err")
    /\ UNCHANGED <<act, timedOut, presults, verdict, file, worldVars,
                   panicVars>>

(* A faulty variant: skipping does not stop at the last step.              *)
SkipForever ==
    /\ rpc = "skip"
    /\ results' = Append(results, "skipped")
    /\ cur' = cur + 1
    /\ SaveThen("skip")
    /\ UNCHANGED <<stepVars, presults, detected, verdict, file, worldVars,
                   panicVars>>

SkipStep ==
    /\ rpc = "skip"
    /\ IF cur < N
       THEN /\ results' = Append(results, "skipped")
            /\ cur' = cur + 1
            /\ SaveThen("skip")
       ELSE /\ rpc' = "main_over"
            /\ UNCHANGED <<then, cur, results>>
    /\ UNCHANGED <<stepVars, presults, detected, verdict, file, worldVars,
                   panicVars>>

-----------------------------------------------------------------------------
(* What runTest does after RunSteps, and RunPanicSteps.                    *)

MainOver ==
    /\ rpc = "main_over"
    /\ IF detected /\ P > 0
       THEN rpc' = "panic_resolve" /\ cur' = N + 1 /\ UNCHANGED then
       ELSE SaveThen("conclude") /\ UNCHANGED cur
    /\ UNCHANGED <<stepVars, recordVars, file, worldVars, panicVars>>

(* The panic step ended: record it whatever its status and go on.          *)
PanicStepRecorded(status) ==
    /\ presults' = Append(presults, status)
    /\ cur' = cur + 1
    /\ SaveThen(IF cur < N + P THEN "panic_resolve" ELSE "final")

PanicStepRejected ==
    /\ rpc = "panic_resolve"
    /\ PanicStepRecorded("failed")
    /\ UNCHANGED <<stepVars, results, detected, verdict, file, worldVars,
                   panicVars>>

PanicStepStarts ==
    /\ rpc = "panic_resolve"
    /\ act' = [act EXCEPT ![cur] = "running"]
    /\ rpc' = "panic_step"
    /\ UNCHANGED <<then, cur, timedOut, released, recordVars, file,
                   worldVars, panicVars>>

PanicStepEnds ==
    /\ rpc = "panic_step" /\ act[cur] \in {"ok", "err"}
    /\ released' = released \cup {cur}
    /\ PanicStepRecorded(IF act[cur] = "ok" THEN "passed" ELSE "failed")
    /\ UNCHANGED <<act, timedOut, results, detected, verdict, file,
                   worldVars, panicVars>>

FinalSave ==
    /\ rpc = "final"
    /\ SaveThen("conclude")
    /\ UNCHANGED <<cur, stepVars, recordVars, file, worldVars, panicVars>>

(* os.WriteFile truncates the file, then writes it.                        *)
Truncate ==
    /\ rpc = "save"
    /\ file' = Torn
    /\ rpc' = "write"
    /\ UNCHANGED <<then, cur, stepVars, recordVars, worldVars, panicVars>>

Write ==
    /\ rpc = "write"
    /\ file' = Snapshot
    /\ rpc' = then
    /\ UNCHANGED <<then, cur, stepVars, recordVars, worldVars, panicVars>>

(* A faulty variant: runTest drops the error of its last save, too.        *)
WriteErrorDropped ==
    /\ rpc \in {"save", "write"} /\ DiskFails
    /\ rpc' = then
    /\ UNCHANGED <<then, cur, stepVars, recordVars, file, worldVars,
                   panicVars>>

(* Opening or writing fails: the runner drops the error of its callback,   *)
(* runTest returns it.                                                     *)
WriteError ==
    /\ rpc \in {"save", "write"} /\ DiskFails
    /\ IF then = "conclude"
       THEN rpc' = "finished" /\ verdict' = "error"
       ELSE rpc' = then /\ UNCHANGED verdict
    /\ UNCHANGED <<then, cur, stepVars, results, presults, detected, file,
                   worldVars, panicVars>>

TestFailed == detected \/ \E i \in 1 .. Len(results) : results[i] = "failed"

Conclude ==
    /\ rpc = "conclude"
    /\ verdict' = IF TestFailed THEN "fail" ELSE "pass"
    /\ rpc' = "finished"
    /\ UNCHANGED <<then, cur, stepVars, results, presults, detected, file,
                   worldVars, panicVars>>

-----------------------------------------------------------------------------
(* The goroutines of the actions.                                          *)

(* The action of step i returns.  The shutdown action returns nil when     *)
(* QEMU exited, and an error when its context is done.                     *)
ActionReturns(i) ==
    /\ act[i] = "running"
    /\ \E r \in {"ok", "err"} :
          /\ i \in ShutdownSteps =>
                 \/ r = "ok" /\ qemu = "exited"
                 \/ r = "err" /\ (guest # "off" \/ StepCtxDone(i))
          /\ act' = [act EXCEPT ![i] = r]
    /\ UNCHANGED <<runnerVars, timedOut, released, recordVars, file,
                   worldVars, panicVars>>

(* The guest accepts the request to shut down.                             *)
ShutdownAccepted(i) ==
    /\ i \in ShutdownSteps /\ act[i] = "running" /\ guest = "ok"
    /\ qemu = "up"
    /\ guest' = "off"
    /\ UNCHANGED <<runnerVars, stepVars, recordVars, file, qemu, ctx,
                   panicVars>>

StepTimeout(i) ==
    /\ act[i] = "running" /\ i \notin timedOut \cup released
    /\ timedOut' = timedOut \cup {i}
    /\ UNCHANGED <<runnerVars, act, released, recordVars, file, worldVars,
                   panicVars>>

-----------------------------------------------------------------------------
(* QEMU, the goroutine that watches its exit, and the panic handler.       *)

(* The guest panics: the event reaches the handler if it is subscribed and *)
(* no other event fills its channel (QMPMachine!DispatchEvent).            *)
GuestPanics ==
    /\ qemu = "up" /\ guest # "panicked"
    /\ guest' = "panicked"
    /\ notice' \in {FALSE, handler = "watching"}
    /\ UNCHANGED <<runnerVars, stepVars, recordVars, file, qemu, ctx,
                   handler, panicCh>>

(* QEMU exits: shut down, killed, or crashed.                              *)
QemuExits ==
    /\ qemu = "up"
    /\ qemu' = "exited"
    /\ UNCHANGED <<runnerVars, stepVars, recordVars, file, ctx, guest,
                   panicVars>>

MonitorCancels ==
    /\ qemu = "exited" /\ ~ctx
    /\ ctx' = TRUE
    /\ UNCHANGED <<runnerVars, stepVars, recordVars, file, qemu, guest,
                   panicVars>>

HandlerSubscribes ==
    /\ handler = "starting"
    /\ handler' = "watching"
    /\ UNCHANGED <<runnerVars, stepVars, recordVars, file, worldVars, notice,
                   panicCh>>

HandlerWakes ==
    /\ handler = "watching" /\ notice
    /\ handler' = "pausing" /\ notice' = FALSE
    /\ UNCHANGED <<runnerVars, stepVars, recordVars, file, worldVars,
                   panicCh>>

HandlerStops ==
    /\ handler = "watching" /\ (ctx \/ qemu = "exited")
    /\ handler' = "gone"
    /\ UNCHANGED <<runnerVars, stepVars, recordVars, file, worldVars, notice,
                   panicCh>>

(* The pause succeeded or not, after five seconds at most.                 *)
HandlerSignals ==
    /\ handler = "pausing"
    /\ panicCh' = TRUE
    /\ handler' = "gone"
    /\ UNCHANGED <<runnerVars, stepVars, recordVars, file, worldVars, notice>>

-----------------------------------------------------------------------------
Saving == Truncate \/ Write \/ WriteError

RunSteps == StepRejected \/ StepStarts \/ SelectDone \/ SelectPanic
            \/ SelectCtx \/ GraceEnds \/ SkipStep

RunPanicSteps == PanicStepRejected \/ PanicStepStarts \/ PanicStepEnds

RunTest == MainOver \/ FinalSave \/ Conclude

Runner == RunSteps \/ RunPanicSteps \/ RunTest \/ Saving

Handler == HandlerSubscribes \/ HandlerWakes \/ HandlerStops \/ HandlerSignals

Finished == rpc = "finished" /\ UNCHANGED vars

Next ==
    \/ Runner
    \/ \E i \in AllSteps : ActionReturns(i) \/ ShutdownAccepted(i)
                           \/ StepTimeout(i)
    \/ GuestPanics \/ QemuExits \/ MonitorCancels
    \/ Handler
    \/ Finished

Spec == Init /\ [][Next]_vars

(* Goroutines are scheduled, timeouts expire, an action that looks at its  *)
(* context returns once that is done, and a guest that was shut down takes *)
(* QEMU with it.  Nothing else that happens outside has to happen.         *)
ActionGivesUp(i) == StepCtxDone(i) /\ ActionReturns(i)

Fairness ==
    /\ WF_vars(Runner) /\ WF_vars(Handler) /\ WF_vars(MonitorCancels)
    /\ \A i \in AllSteps : WF_vars(StepTimeout(i))
    /\ \A i \in AllSteps \ Stubborn : WF_vars(ActionGivesUp(i))

FairSpec == Spec /\ Fairness

-----------------------------------------------------------------------------
(* Properties.                                                             *)

TypeOfData ==
    /\ rpc \in {"resolve", "select", "grace", "skip", "save", "write",
                "main_over", "panic_resolve", "panic_step", "final",
                "conclude", "finished"}
    /\ then \in {"resolve", "skip", "main_over", "panic_resolve", "final",
                 "conclude"}
    /\ cur \in 1 .. N + P + 1
    /\ act \in [AllSteps -> {"none", "running", "ok", "err"}]
    /\ timedOut \subseteq AllSteps /\ released \subseteq AllSteps
    /\ results \in Seq({"passed", "failed", "skipped"})
    /\ presults \in Seq({"passed", "failed"})
    /\ verdict \in {"none", "pass", "fail", "error"}
    /\ qemu \in {"up", "exited"}
    /\ guest \in {"ok", "panicked", "off"}
    /\ handler \in {"starting", "watching", "pausing", "gone"}

TypeOfFlags ==
    /\ detected \in BOOLEAN /\ ctx \in BOOLEAN
    /\ notice \in BOOLEAN /\ panicCh \in BOOLEAN

(* The type invariant of the runner.                                       *)
TypeOK == TypeOfData /\ TypeOfFlags

(* The run keeps the promise of TestOutcome, whatever QEMU, the handler    *)
(* and the abandoned goroutines do.                                        *)
Outcome == INSTANCE TestOutcome WITH
             N <- N, P <- P, results <- results, presults <- presults,
             detected <- detected, verdict <- verdict
OutcomeSpec == Outcome!Spec

(* A status tells what happened to the step's action: one recorded as      *)
(* passed did run to the end without error, one recorded as skipped never  *)
(* started, not even in a goroutine that was left behind.                  *)
StatusTruthful ==
    \A i \in 1 .. Len(results) :
        /\ results[i] = "passed" => act[i] = "ok"
        /\ results[i] = "skipped" => act[i] = "none"

(* Whoever is told that the test passed or failed finds the result of that *)
(* very run in test-result.json, all its steps included, although the      *)
(* errors of the saves on the way were dropped.                            *)
VerdictSaved == verdict \in {"pass", "fail"} => file = Snapshot

(* No false alarm: a detected panic is a panic of the guest.               *)
PanicReal == detected => guest = "panicked" /\ panicCh

(* RunSteps runs its steps one after the other: while the test's steps     *)
(* run, the only action under way is the current one's.                    *)
OneStepAtATime ==
    [][\A i, j \in Steps : act[i] = "none" /\ act'[i] = "running"
                               => act[j] # "running"]_vars

(* The comment of RunSteps: "If a panic is detected via panicCh, the       *)
(* current step is cancelled, marked as failed".  So no step passes once   *)
(* the panic channel is closed.                                            *)
PanicFailsStep ==
    [][panicCh /\ Len(results') > Len(results)
           => results'[Len(results')] # "passed"]_vars

(* If no action ignores its context the run ends.                          *)
RunEnds == <>(rpc = "finished")
=============================================================================
