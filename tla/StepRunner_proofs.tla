------------------------- MODULE StepRunner_proofs --------------------------
(***************************************************************************)
(* What the step runner guarantees for every number of steps and panic     *)
(* steps, every choice of stubborn and shutdown steps, and every behaviour *)
(* of QEMU, the panic handler and the abandoned goroutines.                *)
(*                                                                         *)
(* The argument: where the runner is (At) determines how many statuses are *)
(* recorded and which actions were started; a panic is known to the runner *)
(* only through the channel that the handler closes after a guest panic.   *)
(***************************************************************************)
EXTENDS StepRunner, TLAPS

AllPassed == \A i \in 1 .. Len(results) : results[i] = "passed"

(* Where the runner is, or will be when the file is saved.                 *)
At == IF rpc \in {"save", "write"} THEN then ELSE rpc

(* The place of the runner and the statuses recorded so far.               *)
PlaceInv ==
    /\ At \in {"resolve", "select", "grace"} =>
          /\ cur \in Steps /\ Len(results) = cur - 1 /\ AllPassed
          /\ ~detected /\ presults = << >>
    /\ At = "skip" =>
          /\ cur \in Steps /\ Len(results) = cur /\ ~AllPassed
          /\ presults = << >>
    /\ At = "main_over" =>
          /\ Len(results) = N /\ presults = << >>
          /\ N > 0 => cur = N
    /\ At \in {"panic_resolve", "panic_step"} =>
          /\ cur \in PanicSteps /\ Len(presults) = cur - N - 1
          /\ detected /\ Len(results) = N
    /\ At = "final" => detected /\ Len(results) = N /\ Len(presults) = P
    /\ At \in {"conclude", "finished"} =>
          Len(results) = N /\ (detected => Len(presults) = P)
    /\ detected => ~AllPassed
    /\ rpc # "finished" => verdict = "none"

(* The actions started so far, and what became of them.                    *)
ActionInv ==
    /\ \A i \in AllSteps : i > cur => act[i] = "none"
    /\ At \in {"resolve", "panic_resolve"} => act[cur] = "none"
    /\ Len(results) <= N
    /\ StatusTruthful

(* Why the run is not a success: some step failed.                         *)
FailureInv == ~AllPassed => \E i \in 1 .. Len(results) : results[i] = "failed"

(* Who knows of a panic.                                                   *)
PanicInv ==
    /\ notice \/ handler = "pausing" \/ panicCh => guest = "panicked"
    /\ PanicReal

(* The verdict follows a save that succeeded.                              *)
SavedInv ==
    /\ rpc = "conclude" => file = Snapshot
    /\ verdict \in {"pass", "fail"} => rpc = "finished" /\ file = Snapshot

IInv == TypeOK /\ PlaceInv /\ FailureInv /\ ActionInv /\ PanicInv /\ SavedInv

-----------------------------------------------------------------------------
(* Types: the data and the flags separately.                               *)

LEMMA InitType == Init => TypeOK
<1> SUFFICES ASSUME Init PROVE TypeOK
  OBVIOUS
<1>1. results = << >> /\ presults = << >>
  BY DEF Init
<1>2. cur \in 1 .. N + P + 1
  BY ParametersAssumption DEF Init
<1>3. act \in [AllSteps -> {"none", "running", "ok", "err"}]
  BY DEF Init
<1>4. TypeOfData
  BY <1>1, <1>2, <1>3 DEF Init, TypeOfData
<1>5. TypeOfFlags
  BY DEF Init, TypeOfFlags
<1>6. QED BY <1>4, <1>5 DEF TypeOK

LEMMA NextData ==
    ASSUME TypeOfData, PlaceInv, [Next]_vars PROVE TypeOfData'
<1> USE ParametersAssumption DEF TypeOfData, Steps, PanicSteps, SaveThen, At,
        runnerVars, stepVars, recordVars, worldVars, panicVars
<1>1. CASE StepRejected BY <1>1 DEF StepRejected
<1>2. CASE StepStarts BY <1>2 DEF StepStarts
<1>3. ASSUME NEW err, FinishStep(err), rpc \in {"select", "grace"},
             UNCHANGED <<act, timedOut, presults, verdict, qemu, guest,
                         handler>>
      PROVE  TypeOfData'
  <2>1. cur \in AllSteps /\ cur \in 1 .. N
    BY <1>3 DEF PlaceInv, AllSteps
  <2>2. released' \subseteq AllSteps
    BY <1>3, <2>1 DEF FinishStep
  <2>3. cur' \in 1 .. N + P + 1
    BY <1>3, <2>1 DEF FinishStep
  <2>4. results' \in Seq({"passed", "failed", "skipped"})
    <3>1. \E s \in {"passed", "failed"} : results' = Append(results, s)
      BY <1>3 DEF FinishStep
    <3>2. QED BY <3>1
  <2>5. rpc' = "save" /\ then' \in {"resolve", "skip", "main_over"}
    BY <1>3 DEF FinishStep
  <2>6. QED BY <1>3, <2>2, <2>3, <2>4, <2>5
<1>4. CASE SelectDone BY <1>3, <1>4 DEF SelectDone
<1>5. CASE SelectPanic BY <1>3, <1>5 DEF SelectPanic
<1>6. CASE SelectCtx BY <1>3, <1>6 DEF SelectCtx
<1>7. CASE GraceEnds BY <1>3, <1>7 DEF GraceEnds
<1>8. CASE SkipStep
  <2>1. cur' \in 1 .. N + P + 1
    BY <1>8 DEF SkipStep
  <2>2. results' \in Seq({"passed", "failed", "skipped"})
    BY <1>8 DEF SkipStep
  <2>3. /\ rpc' \in {"save", "main_over"}
        /\ then' \in {"resolve", "skip", "main_over", "panic_resolve",
                      "final", "conclude"}
    BY <1>8 DEF SkipStep
  <2>4. QED BY <1>8, <2>1, <2>2, <2>3 DEF SkipStep
<1>9. CASE MainOver BY <1>9 DEF MainOver
<1>10. ASSUME NEW s \in {"passed", "failed"}, PanicStepRecorded(s),
              rpc \in {"panic_resolve", "panic_step"},
              released' \in {released, released \cup {cur}},
              UNCHANGED <<act, timedOut, results, verdict, qemu, guest,
                          handler>>
       PROVE  TypeOfData'
  <2>1. cur \in AllSteps /\ cur \in N + 1 .. N + P
    BY <1>10 DEF PlaceInv, AllSteps
  <2>2. released' \subseteq AllSteps
    BY <1>10, <2>1
  <2>3. cur' \in 1 .. N + P + 1
    BY <1>10, <2>1 DEF PanicStepRecorded
  <2>4. presults' \in Seq({"passed", "failed"})
    BY <1>10 DEF PanicStepRecorded
  <2>5. rpc' = "save" /\ then' \in {"panic_resolve", "final"}
    BY <1>10 DEF PanicStepRecorded
  <2>6. QED BY <1>10, <2>2, <2>3, <2>4, <2>5
<1>11. CASE PanicStepRejected BY <1>10, <1>11 DEF PanicStepRejected
<1>12. CASE PanicStepStarts BY <1>12 DEF PanicStepStarts
<1>13. CASE PanicStepEnds BY <1>10, <1>13 DEF PanicStepEnds
<1>14. CASE FinalSave BY <1>14 DEF FinalSave
<1>15. CASE Truncate \/ Write BY <1>15 DEF Truncate, Write
<1>16. CASE WriteError BY <1>16 DEF WriteError
<1>17. CASE Conclude BY <1>17 DEF Conclude
<1>18. ASSUME NEW i \in AllSteps,
              ActionReturns(i) \/ ShutdownAccepted(i) \/ StepTimeout(i)
       PROVE  TypeOfData'
  BY <1>18 DEF ActionReturns, ShutdownAccepted, StepTimeout
<1>19. CASE GuestPanics \/ QemuExits \/ MonitorCancels
  BY <1>19 DEF GuestPanics, QemuExits, MonitorCancels
<1>20. CASE Handler
  BY <1>20 DEF Handler, HandlerSubscribes, HandlerWakes, HandlerStops,
               HandlerSignals
<1>21. CASE UNCHANGED vars BY <1>21 DEF vars
<1>22. QED
  BY <1>1, <1>2, <1>4, <1>5, <1>6, <1>7, <1>8, <1>9, <1>11, <1>12, <1>13,
     <1>14, <1>15, <1>16, <1>17, <1>18, <1>19, <1>20, <1>21
     DEF Next, Runner, RunSteps, RunPanicSteps, RunTest, Saving, Finished

LEMMA NextFlags == ASSUME TypeOfFlags, [Next]_vars PROVE TypeOfFlags'
<1> USE DEF TypeOfFlags, recordVars, worldVars, panicVars
<1>1. CASE RunSteps
  BY <1>1 DEF RunSteps, StepRejected, StepStarts, SelectDone, SelectPanic,
              SelectCtx, GraceEnds, FinishStep, SkipStep
<1>2. CASE RunPanicSteps
  BY <1>2 DEF RunPanicSteps, PanicStepRejected, PanicStepStarts,
              PanicStepEnds
<1>3. CASE RunTest BY <1>3 DEF RunTest, MainOver, FinalSave, Conclude
<1>4. CASE Saving BY <1>4 DEF Saving, Truncate, Write, WriteError
<1>5. ASSUME NEW i \in AllSteps,
             ActionReturns(i) \/ ShutdownAccepted(i) \/ StepTimeout(i)
      PROVE  TypeOfFlags'
  BY <1>5 DEF ActionReturns, ShutdownAccepted, StepTimeout
<1>6. CASE GuestPanics \/ QemuExits \/ MonitorCancels
  BY <1>6 DEF GuestPanics, QemuExits, MonitorCancels
<1>7. CASE Handler
  BY <1>7 DEF Handler, HandlerSubscribes, HandlerWakes, HandlerStops,
              HandlerSignals
<1>8. CASE UNCHANGED vars BY <1>8 DEF vars
<1>9. QED
  BY <1>1, <1>2, <1>3, <1>4, <1>5, <1>6, <1>7, <1>8
     DEF Next, Runner, Finished

-----------------------------------------------------------------------------
(* The place of the runner.                                                *)

LEMMA Appended ==
    ASSUME TypeOfData, NEW s \in {"passed", "failed", "skipped"},
           results' = Append(results, s)
    PROVE  /\ Len(results') = Len(results) + 1
           /\ results'[Len(results) + 1] = s
           /\ \A i \in 1 .. Len(results) : results'[i] = results[i]
           /\ AllPassed' <=> AllPassed /\ s = "passed"
<1>1. /\ Len(results') = Len(results) + 1
      /\ results'[Len(results) + 1] = s
      /\ \A i \in 1 .. Len(results) : results'[i] = results[i]
  BY DEF TypeOfData
<1>2. AllPassed' => AllPassed /\ s = "passed"
  <2>1. Len(results) \in Nat
    BY DEF TypeOfData
  <2>2. QED BY <1>1, <2>1 DEF AllPassed
<1>3. AllPassed /\ s = "passed" => AllPassed'
  <2>1. Len(results) \in Nat
    BY DEF TypeOfData
  <2>2. QED BY <1>1, <2>1 DEF AllPassed
<1>4. QED BY <1>1, <1>2, <1>3

LEMMA InitPlace == Init => PlaceInv
BY ParametersAssumption DEF Init, PlaceInv, At, AllPassed, Steps, PanicSteps

LEMMA NextPlace ==
    ASSUME TypeOfData, PlaceInv, [Next]_vars PROVE PlaceInv'
<1> USE ParametersAssumption DEF PlaceInv, At, Steps, PanicSteps, SaveThen,
        runnerVars, recordVars
<1> DEFINE record == <<results, presults, detected, verdict>>
<1>1. CASE StepRejected
  <2>1. results' = Append(results, "failed") /\ Len(results) \in Nat
    BY <1>1 DEF StepRejected, TypeOfData
  <2>2. Len(results') = Len(results) + 1 /\ ~AllPassed'
    BY <2>1, Appended
  <2>3. QED BY <1>1, <2>2 DEF StepRejected
<1>2. CASE StepStarts
  <2>1. AllPassed' <=> AllPassed
    BY <1>2 DEF StepStarts, AllPassed
  <2>2. QED BY <1>2, <2>1 DEF StepStarts
<1>3. ASSUME NEW err, FinishStep(err), rpc \in {"select", "grace"},
             UNCHANGED <<presults, verdict>>
      PROVE  PlaceInv'
  <2>1. CASE err = "nil"
    <3>1. results' = Append(results, "passed") /\ Len(results) \in Nat
      BY <1>3, <2>1 DEF FinishStep, TypeOfData
    <3>2. Len(results') = Len(results) + 1 /\ AllPassed'
      BY <1>3, <3>1, Appended
    <3>3. ~detected' /\ presults' = << >> /\ verdict' = "none"
      BY <1>3, <2>1 DEF FinishStep
    <3>4. CASE cur < N
      BY <1>3, <2>1, <3>2, <3>3, <3>4 DEF FinishStep
    <3>5. CASE ~(cur < N)
      BY <1>3, <2>1, <3>2, <3>3, <3>5 DEF FinishStep
    <3>6. QED BY <3>4, <3>5
  <2>2. CASE err # "nil"
    <3>1. results' = Append(results, "failed") /\ Len(results) \in Nat
      BY <1>3, <2>2 DEF FinishStep, TypeOfData
    <3>2. Len(results') = Len(results) + 1 /\ ~AllPassed'
      BY <3>1, Appended
    <3>3. QED BY <1>3, <2>2, <3>2 DEF FinishStep
  <2>3. QED BY <2>1, <2>2
<1>4. CASE SelectDone
  <2>1. CASE act[cur] = "err" /\ ActionDelay /\ HasHandler
    <3>1. AllPassed' <=> AllPassed
      BY <1>4, <2>1 DEF SelectDone, AllPassed
    <3>2. QED BY <1>4, <2>1, <3>1 DEF SelectDone
  <2>2. CASE ~(act[cur] = "err" /\ ActionDelay /\ HasHandler)
    BY <1>3, <1>4, <2>2 DEF SelectDone
  <2>3. QED BY <2>1, <2>2
<1>5. CASE SelectPanic BY <1>3, <1>5 DEF SelectPanic
<1>6. CASE SelectCtx BY <1>3, <1>6 DEF SelectCtx
<1>7. CASE GraceEnds BY <1>3, <1>7 DEF GraceEnds
<1>8. CASE SkipStep
  <2>1. CASE cur < N
    <3>1. results' = Append(results, "skipped") /\ Len(results) \in Nat
      BY <1>8, <2>1 DEF SkipStep, TypeOfData
    <3>2. Len(results') = Len(results) + 1 /\ ~AllPassed'
      BY <3>1, Appended
    <3>3. QED BY <1>8, <2>1, <3>2 DEF SkipStep
  <2>2. CASE ~(cur < N)
    <3>1. AllPassed' <=> AllPassed
      BY <1>8, <2>2 DEF SkipStep, AllPassed
    <3>2. QED BY <1>8, <2>2, <3>1 DEF SkipStep
  <2>3. QED BY <2>1, <2>2
<1>9. CASE MainOver
  <2>1. AllPassed' <=> AllPassed
    BY <1>9 DEF MainOver, AllPassed
  <2>2. CASE detected /\ P > 0
    <3>1. N > 0
      <4>1. CASE N = 0
        BY <1>9, <2>2, <4>1 DEF MainOver, AllPassed
      <4>2. QED BY <4>1
    <3>2. QED BY <1>9, <2>1, <2>2, <3>1 DEF MainOver
  <2>3. CASE ~(detected /\ P > 0)
    <3>1. detected => P = 0
      BY <2>3
    <3>2. QED BY <1>9, <2>1, <2>3, <3>1 DEF MainOver
  <2>4. QED BY <2>2, <2>3
<1>10. ASSUME NEW s \in {"passed", "failed"}, PanicStepRecorded(s),
              rpc \in {"panic_resolve", "panic_step"},
              UNCHANGED <<results, detected, verdict>>
       PROVE  PlaceInv'
  <2>1. Len(presults') = Len(presults) + 1 /\ Len(presults) \in Nat
    BY <1>10 DEF PanicStepRecorded, TypeOfData
  <2>2. AllPassed' <=> AllPassed
    BY <1>10 DEF AllPassed
  <2>3. CASE cur < N + P
    BY <1>10, <2>1, <2>2, <2>3 DEF PanicStepRecorded
  <2>4. CASE ~(cur < N + P)
    BY <1>10, <2>1, <2>2, <2>4 DEF PanicStepRecorded
  <2>5. QED BY <2>3, <2>4
<1>11. CASE PanicStepRejected BY <1>10, <1>11 DEF PanicStepRejected
<1>12. CASE PanicStepStarts
  <2>1. AllPassed' <=> AllPassed
    BY <1>12 DEF PanicStepStarts, AllPassed
  <2>2. QED BY <1>12, <2>1 DEF PanicStepStarts
<1>13. CASE PanicStepEnds BY <1>10, <1>13 DEF PanicStepEnds
<1>14. CASE FinalSave
  <2>1. AllPassed' <=> AllPassed
    BY <1>14 DEF FinalSave, AllPassed
  <2>2. QED BY <1>14, <2>1 DEF FinalSave
<1>15. CASE Truncate \/ Write
  <2>1. AllPassed' <=> AllPassed
    BY <1>15 DEF Truncate, Write, AllPassed
  <2>2. At' = At
    BY <1>15 DEF Truncate, Write, TypeOfData
  <2>3. rpc' # "finished" /\ rpc # "finished"
    BY <1>15 DEF Truncate, Write, TypeOfData
  <2>4. UNCHANGED <<cur, record>>
    BY <1>15 DEF Truncate, Write
  <2>5. QED BY <2>1, <2>2, <2>3, <2>4
<1>16. CASE WriteError
  <2>1. AllPassed' <=> AllPassed
    BY <1>16 DEF WriteError, AllPassed
  <2>2. CASE then = "conclude"
    BY <1>16, <2>1, <2>2 DEF WriteError
  <2>3. CASE then # "conclude"
    BY <1>16, <2>1, <2>3 DEF WriteError, TypeOfData
  <2>4. QED BY <2>2, <2>3
<1>17. CASE Conclude
  <2>1. AllPassed' <=> AllPassed
    BY <1>17 DEF Conclude, AllPassed
  <2>2. QED BY <1>17, <2>1 DEF Conclude
<1>18. ASSUME UNCHANGED <<rpc, then, cur, record>> PROVE PlaceInv'
  <2>1. AllPassed' <=> AllPassed
    BY <1>18 DEF AllPassed
  <2>2. QED BY <1>18, <2>1
<1>19. ASSUME NEW i \in AllSteps,
              ActionReturns(i) \/ ShutdownAccepted(i) \/ StepTimeout(i)
       PROVE  PlaceInv'
  BY <1>18, <1>19 DEF ActionReturns, ShutdownAccepted, StepTimeout
<1>20. CASE GuestPanics \/ QemuExits \/ MonitorCancels
  BY <1>18, <1>20 DEF GuestPanics, QemuExits, MonitorCancels
<1>21. CASE Handler
  BY <1>18, <1>21 DEF Handler, HandlerSubscribes, HandlerWakes, HandlerStops,
               HandlerSignals
<1>22. CASE UNCHANGED vars BY <1>18, <1>22 DEF vars
<1>23. QED
  BY <1>1, <1>2, <1>4, <1>5, <1>6, <1>7, <1>8, <1>9, <1>11, <1>12, <1>13,
     <1>14, <1>15, <1>16, <1>17, <1>19, <1>20, <1>21, <1>22
     DEF Next, Runner, RunSteps, RunPanicSteps, RunTest, Saving, Finished

-----------------------------------------------------------------------------
(* The actions started, and the statuses recorded for them.                *)

LEMMA InitAction == Init => ActionInv
BY ParametersAssumption
   DEF Init, ActionInv, At, AllSteps, StatusTruthful

LEMMA NextAction ==
    ASSUME TypeOfData, PlaceInv, ActionInv, [Next]_vars PROVE ActionInv'
<1> USE ParametersAssumption DEF ActionInv, StatusTruthful, Steps,
        PanicSteps, AllSteps, SaveThen, runnerVars, stepVars, recordVars
<1>0. /\ N \in Nat /\ P \in Nat /\ Len(results) \in Nat /\ cur \in Nat
      /\ act \in [AllSteps -> {"none", "running", "ok", "err"}]
  BY DEF TypeOfData
<1>1. CASE StepRejected
  <2>1. /\ results' = Append(results, "failed")
        /\ At' = "skip" /\ UNCHANGED <<cur, act>>
        /\ cur \in 1 .. N /\ Len(results) = cur - 1
    BY <1>1 DEF StepRejected, PlaceInv, At
  <2>2. QED BY <1>0, <2>1, Appended
<1>2. CASE StepStarts
  <2>1. /\ act' = [act EXCEPT ![cur] = "running"]
        /\ At' = "select" /\ UNCHANGED <<cur, results>>
        /\ cur \in 1 .. N /\ Len(results) = cur - 1
    BY <1>2 DEF StepStarts, PlaceInv, At
  <2>2. QED BY <1>0, <2>1
<1>3. ASSUME NEW err, FinishStep(err), rpc \in {"select", "grace"},
             err = "nil" => act[cur] = "ok", UNCHANGED act
      PROVE  ActionInv'
  <2>1. cur \in 1 .. N /\ Len(results) = cur - 1
    BY <1>3 DEF PlaceInv, At
  <2>2. CASE err = "nil"
    <3>1. /\ results' = Append(results, "passed")
          /\ cur' = IF cur < N THEN cur + 1 ELSE cur
          /\ At' = IF cur < N THEN "resolve" ELSE "main_over"
      BY <1>3, <2>2 DEF FinishStep, At
    <3>2. CASE cur < N
      BY <1>0, <1>3, <2>1, <2>2, <3>1, <3>2, Appended
    <3>3. CASE ~(cur < N)
      BY <1>0, <1>3, <2>1, <2>2, <3>1, <3>3, Appended
    <3>4. QED BY <3>2, <3>3
  <2>3. CASE err # "nil"
    <3>1. /\ results' = Append(results, "failed")
          /\ cur' = cur /\ At' = "skip"
      BY <1>3, <2>3 DEF FinishStep, At
    <3>2. QED BY <1>0, <1>3, <2>1, <3>1, Appended
  <2>4. QED BY <2>2, <2>3
<1>4. CASE SelectDone
  <2>1. CASE act[cur] = "err" /\ ActionDelay /\ HasHandler
    <3>1. At' = "grace" /\ UNCHANGED <<cur, act, results>>
      BY <1>4, <2>1 DEF SelectDone, At
    <3>2. QED BY <3>1
  <2>2. CASE ~(act[cur] = "err" /\ ActionDelay /\ HasHandler)
    BY <1>3, <1>4, <2>2 DEF SelectDone
  <2>3. QED BY <2>1, <2>2
<1>5. CASE SelectPanic BY <1>3, <1>5 DEF SelectPanic
<1>6. CASE SelectCtx BY <1>3, <1>6 DEF SelectCtx
<1>7. CASE GraceEnds BY <1>3, <1>7 DEF GraceEnds
<1>8. CASE SkipStep
  <2>1. cur \in 1 .. N /\ Len(results) = cur /\ UNCHANGED act
    BY <1>8 DEF SkipStep, PlaceInv, At
  <2>2. CASE cur < N
    <3>1. /\ results' = Append(results, "skipped")
          /\ cur' = cur + 1 /\ At' = "skip"
      BY <1>8, <2>2 DEF SkipStep, At
    <3>2. QED BY <1>0, <2>1, <2>2, <3>1, Appended
  <2>3. CASE ~(cur < N)
    <3>1. At' = "main_over" /\ UNCHANGED <<results, cur>>
      BY <1>8, <2>3 DEF SkipStep, At
    <3>2. QED BY <2>1, <3>1
  <2>4. QED BY <2>2, <2>3
<1>9. CASE MainOver
  <2>1. UNCHANGED <<act, results>>
    BY <1>9 DEF MainOver
  <2>2. CASE detected /\ P > 0
    <3>1. N > 0
      <4>1. CASE N = 0
        BY <1>9, <2>2, <4>1 DEF MainOver, PlaceInv, At, AllPassed
      <4>2. QED BY <4>1
    <3>2. cur = N
      BY <1>9, <3>1 DEF MainOver, PlaceInv, At
    <3>3. cur' = N + 1 /\ At' = "panic_resolve"
      BY <1>9, <2>2 DEF MainOver, At
    <3>4. QED BY <1>0, <2>1, <2>2, <3>2, <3>3
  <2>3. CASE ~(detected /\ P > 0)
    <3>1. UNCHANGED cur /\ At' = "conclude"
      BY <1>9, <2>3 DEF MainOver, At
    <3>2. QED BY <2>1, <3>1
  <2>4. QED BY <2>2, <2>3
<1>10. ASSUME NEW s, PanicStepRecorded(s),
              rpc \in {"panic_resolve", "panic_step"},
              UNCHANGED <<act, results>>
       PROVE  ActionInv'
  <2>1. cur \in N + 1 .. N + P
    BY <1>10 DEF PlaceInv, At
  <2>2. /\ cur' = cur + 1
        /\ At' = IF cur < N + P THEN "panic_resolve" ELSE "final"
    BY <1>10 DEF PanicStepRecorded, At
  <2>3. QED BY <1>0, <1>10, <2>1, <2>2
<1>11. CASE PanicStepRejected BY <1>10, <1>11 DEF PanicStepRejected
<1>12. CASE PanicStepStarts
  <2>1. /\ act' = [act EXCEPT ![cur] = "running"]
        /\ At' = "panic_step" /\ UNCHANGED <<cur, results>>
        /\ cur \in N + 1 .. N + P /\ Len(results) = N
    BY <1>12 DEF PanicStepStarts, PlaceInv, At
  <2>2. QED BY <1>0, <2>1
<1>13. CASE PanicStepEnds BY <1>10, <1>13 DEF PanicStepEnds
<1>14. CASE FinalSave
  <2>1. At' = "conclude" /\ UNCHANGED <<act, results, cur>>
    BY <1>14 DEF FinalSave, At
  <2>2. QED BY <2>1
<1>15. CASE Saving
  <2>1. At' = At \/ At' = "finished"
    BY <1>15 DEF Saving, Truncate, Write, WriteError, TypeOfData, At
  <2>2. UNCHANGED <<act, results, cur>>
    BY <1>15 DEF Saving, Truncate, Write, WriteError
  <2>3. QED BY <2>1, <2>2
<1>16. CASE Conclude
  <2>1. At' = "finished" /\ UNCHANGED <<act, results, cur>>
    BY <1>16 DEF Conclude, At
  <2>2. QED BY <2>1
<1>17. ASSUME NEW i \in AllSteps, ActionReturns(i) PROVE ActionInv'
  <2>1. PICK r \in {"ok", "err"} : act' = [act EXCEPT ![i] = r]
    BY <1>17 DEF ActionReturns
  <2>2. act[i] = "running" /\ At' = At /\ UNCHANGED <<results, cur>>
    BY <1>17 DEF ActionReturns, At
  <2>3. QED BY <1>0, <2>1, <2>2
<1>18. ASSUME UNCHANGED <<rpc, then, cur, act, results>> PROVE ActionInv'
  BY <1>18 DEF At
<1>19. ASSUME NEW i \in AllSteps, ShutdownAccepted(i) \/ StepTimeout(i)
       PROVE  ActionInv'
  BY <1>18, <1>19 DEF ShutdownAccepted, StepTimeout
<1>20. CASE GuestPanics \/ QemuExits \/ MonitorCancels
  BY <1>18, <1>20 DEF GuestPanics, QemuExits, MonitorCancels
<1>21. CASE Handler
  BY <1>18, <1>21 DEF Handler, HandlerSubscribes, HandlerWakes, HandlerStops,
               HandlerSignals
<1>22. CASE UNCHANGED vars BY <1>18, <1>22 DEF vars
<1>23. QED
  BY <1>1, <1>2, <1>4, <1>5, <1>6, <1>7, <1>8, <1>9, <1>11, <1>12, <1>13,
     <1>14, <1>15, <1>16, <1>17, <1>19, <1>20, <1>21, <1>22
     DEF Next, Runner, RunSteps, RunPanicSteps, RunTest, Finished

-----------------------------------------------------------------------------
(* Who knows of a panic.                                                   *)

LEMMA InitPanic == Init => PanicInv
BY DEF Init, PanicInv, PanicReal

LEMMA NextPanic == ASSUME PanicInv, [Next]_vars PROVE PanicInv'
<1> USE DEF PanicInv, PanicReal, recordVars, worldVars, panicVars
<1>1. CASE RunSteps
  <2>1. CASE StepRejected \/ StepStarts \/ SkipStep
    BY <2>1 DEF StepRejected, StepStarts, SkipStep
  <2>2. ASSUME NEW err, FinishStep(err), err = "panic" => panicCh,
               UNCHANGED <<guest, handler, notice, panicCh>>
        PROVE  PanicInv'
    <3>1. detected' => detected \/ err = "panic"
      BY <2>2 DEF FinishStep
    <3>2. QED BY <2>2, <3>1
  <2>3. CASE SelectDone
    <3>1. CASE detected' = detected
      BY <2>3, <3>1 DEF SelectDone
    <3>2. CASE FinishStep(IF act[cur] = "ok" THEN "nil" ELSE "err")
      BY <2>2, <2>3, <3>2 DEF SelectDone
    <3>3. QED BY <2>3, <3>1, <3>2 DEF SelectDone
  <2>4. CASE SelectPanic BY <2>2, <2>4 DEF SelectPanic
  <2>5. CASE SelectCtx BY <2>2, <2>5 DEF SelectCtx
  <2>6. CASE GraceEnds BY <2>2, <2>6 DEF GraceEnds
  <2>7. QED BY <1>1, <2>1, <2>3, <2>4, <2>5, <2>6 DEF RunSteps
<1>2. CASE RunPanicSteps \/ RunTest \/ Saving
  BY <1>2 DEF RunPanicSteps, PanicStepRejected, PanicStepStarts,
              PanicStepEnds, RunTest, MainOver, FinalSave, Conclude, Saving,
              Truncate, Write, WriteError
<1>3. ASSUME NEW i \in AllSteps,
             ActionReturns(i) \/ ShutdownAccepted(i) \/ StepTimeout(i)
      PROVE  PanicInv'
  BY <1>3 DEF ActionReturns, ShutdownAccepted, StepTimeout
<1>4. CASE GuestPanics \/ QemuExits \/ MonitorCancels
  <2>1. CASE GuestPanics
    <3>1. guest' = "panicked" /\ UNCHANGED <<detected, panicCh>>
      BY <2>1 DEF GuestPanics
    <3>2. QED BY <3>1
  <2>2. CASE QemuExits \/ MonitorCancels
    BY <2>2 DEF QemuExits, MonitorCancels
  <2>3. QED BY <1>4, <2>1, <2>2
<1>5. CASE Handler
  BY <1>5 DEF Handler, HandlerSubscribes, HandlerWakes, HandlerStops,
              HandlerSignals
<1>6. CASE UNCHANGED vars BY <1>6 DEF vars
<1>7. QED
  BY <1>1, <1>2, <1>3, <1>4, <1>5, <1>6 DEF Next, Runner, Finished

-----------------------------------------------------------------------------
(* The verdict and the file.                                               *)

LEMMA NextSaved == ASSUME SavedInv, [Next]_vars PROVE SavedInv'
<1> USE DEF SavedInv, Snapshot, SaveThen, recordVars, runnerVars
<1>1. CASE RunSteps
  <2>1. rpc # "finished" /\ rpc' # "conclude" /\ verdict' = verdict
    BY <1>1 DEF RunSteps, StepRejected, StepStarts, SelectDone, SelectPanic,
                SelectCtx, GraceEnds, FinishStep, SkipStep
  <2>2. QED BY <2>1
<1>2. CASE RunPanicSteps \/ MainOver \/ FinalSave
  <2>1. rpc # "finished" /\ rpc' # "conclude" /\ verdict' = verdict
    BY <1>2 DEF RunPanicSteps, PanicStepRejected, PanicStepStarts,
                PanicStepEnds, PanicStepRecorded, MainOver, FinalSave
  <2>2. QED BY <2>1
<1>3. CASE Conclude BY <1>3 DEF Conclude
<1>4. CASE Truncate \/ WriteError
  BY <1>4 DEF Truncate, WriteError
<1>5. CASE Write BY <1>5 DEF Write
<1>6. ASSUME UNCHANGED <<runnerVars, recordVars, file>> PROVE SavedInv'
  BY <1>6
<1>7. ASSUME NEW i \in AllSteps,
             ActionReturns(i) \/ ShutdownAccepted(i) \/ StepTimeout(i)
      PROVE  SavedInv'
  BY <1>6, <1>7 DEF ActionReturns, ShutdownAccepted, StepTimeout
<1>8. CASE GuestPanics \/ QemuExits \/ MonitorCancels
  BY <1>6, <1>8 DEF GuestPanics, QemuExits, MonitorCancels
<1>9. CASE Handler
  BY <1>6, <1>9 DEF Handler, HandlerSubscribes, HandlerWakes, HandlerStops,
                    HandlerSignals
<1>10. CASE UNCHANGED vars BY <1>6, <1>10 DEF vars
<1>11. QED
  BY <1>1, <1>2, <1>3, <1>4, <1>5, <1>7, <1>8, <1>9, <1>10
     DEF Next, Runner, RunTest, Saving, Finished

-----------------------------------------------------------------------------
(* Every step of the runner records nothing or one status.                 *)

LEMMA Recorded ==
    ASSUME TypeOfData, PlaceInv, [Next]_vars
    PROVE  \/ results' = results
           \/ results' = Append(results, "passed") /\ AllPassed
           \/ results' = Append(results, "failed")
           \/ results' = Append(results, "skipped") /\ ~AllPassed
<1> USE DEF PlaceInv, At, recordVars
<1>1. CASE RunSteps
  <2>1. CASE StepRejected \/ StepStarts
    BY <2>1 DEF StepRejected, StepStarts
  <2>2. ASSUME NEW err, FinishStep(err), rpc \in {"select", "grace"}
        PROVE  \/ results' = Append(results, "passed") /\ AllPassed
               \/ results' = Append(results, "failed")
    BY <2>2 DEF FinishStep
  <2>3. CASE SelectDone BY <2>2, <2>3 DEF SelectDone
  <2>4. CASE SelectPanic \/ SelectCtx \/ GraceEnds
    BY <2>2, <2>4 DEF SelectPanic, SelectCtx, GraceEnds
  <2>5. CASE SkipStep BY <2>5 DEF SkipStep
  <2>6. QED BY <1>1, <2>1, <2>3, <2>4, <2>5 DEF RunSteps
<1>2. CASE RunPanicSteps \/ RunTest \/ Saving
  BY <1>2 DEF RunPanicSteps, PanicStepRejected, PanicStepStarts,
              PanicStepEnds, RunTest, MainOver, FinalSave, Conclude, Saving,
              Truncate, Write, WriteError
<1>3. ASSUME NEW i \in AllSteps,
             ActionReturns(i) \/ ShutdownAccepted(i) \/ StepTimeout(i)
      PROVE  results' = results
  BY <1>3 DEF ActionReturns, ShutdownAccepted, StepTimeout
<1>4. CASE GuestPanics \/ QemuExits \/ MonitorCancels
  BY <1>4 DEF GuestPanics, QemuExits, MonitorCancels
<1>5. CASE Handler
  BY <1>5 DEF Handler, HandlerSubscribes, HandlerWakes, HandlerStops,
              HandlerSignals
<1>6. CASE UNCHANGED vars BY <1>6 DEF vars
<1>7. QED
  BY <1>1, <1>2, <1>3, <1>4, <1>5, <1>6 DEF Next, Runner, Finished

LEMMA NextFailure ==
    ASSUME TypeOfData, PlaceInv, FailureInv, [Next]_vars PROVE FailureInv'
<1> USE DEF FailureInv
<1>0. Len(results) \in Nat
  BY DEF TypeOfData
<1>1. CASE results' = results
  BY <1>1 DEF AllPassed
<1>2. CASE results' = Append(results, "passed") /\ AllPassed
  BY <1>2, Appended
<1>3. CASE results' = Append(results, "failed")
  <2>1. results'[Len(results')] = "failed" /\ Len(results') \in 1 .. Len(results')
    BY <1>0, <1>3, Appended
  <2>2. QED BY <2>1
<1>4. CASE results' = Append(results, "skipped") /\ ~AllPassed
  <2>1. PICK f \in 1 .. Len(results) : results[f] = "failed"
    BY <1>4
  <2>2. f \in 1 .. Len(results') /\ results'[f] = "failed"
    BY <1>0, <1>4, <2>1, Appended
  <2>3. QED BY <2>2
<1>5. QED BY <1>1, <1>2, <1>3, <1>4, Recorded

-----------------------------------------------------------------------------
(* The invariants.                                                         *)

LEMMA Invariance == Spec => []IInv
<1>1. ASSUME Init PROVE IInv
  <2>1. FailureInv
    BY <1>1 DEF Init, FailureInv, AllPassed
  <2>2. SavedInv
    BY <1>1 DEF Init, SavedInv
  <2>3. QED
    BY <1>1, <2>1, <2>2, InitType, InitPlace, InitAction, InitPanic DEF IInv
<1>2. ASSUME IInv, [Next]_vars PROVE IInv'
  BY <1>2, NextData, NextFlags, NextPlace, NextFailure, NextAction, NextPanic,
            NextSaved
     DEF IInv, TypeOK
<1>3. QED BY <1>1, <1>2, PTL DEF Spec

(* Whatever the interleaving of runner, handler, monitor and actions, the  *)
(* runner's data are of their type: its index never leaves the steps.      *)
THEOREM TypeCorrect == Spec => []TypeOK
BY Invariance, PTL DEF IInv

(* A step recorded as passed ran to its end without error; one recorded as *)
(* skipped was never started.                                              *)
THEOREM StatusCorrect == Spec => []StatusTruthful
<1>1. IInv => StatusTruthful
  BY DEF IInv, ActionInv
<1>2. QED BY <1>1, Invariance, PTL

(* No verdict without the result in the file.                              *)
THEOREM SavedCorrect == Spec => []VerdictSaved
<1>1. IInv => VerdictSaved
  BY DEF IInv, SavedInv, VerdictSaved
<1>2. QED BY <1>1, Invariance, PTL

(* RunSteps reports a panic only if the guest had one.                     *)
THEOREM PanicCorrect == Spec => []PanicReal
<1>1. IInv => PanicReal
  BY DEF IInv, PanicInv
<1>2. QED BY <1>1, Invariance, PTL

(* When RunSteps starts a step every earlier one has passed, and what has  *)
(* passed has returned: an action that was left behind ends the sequence.  *)
THEOREM OneStepCorrect == Spec => OneStepAtATime
<1> DEFINE A == \A i, j \in Steps : act[i] = "none" /\ act'[i] = "running"
                                       => act[j] # "running"
<1>1. ASSUME IInv, [Next]_vars PROVE [A]_vars
  <2> USE DEF stepVars
  <2>1. SUFFICES ASSUME NEW i \in Steps, NEW j \in Steps, Next,
                        act[i] = "none", act'[i] = "running"
                 PROVE  act[j] # "running"
    BY <1>1
  <2>2. /\ N \in Nat /\ i \in AllSteps /\ j \in AllSteps
        /\ act \in [AllSteps -> {"none", "running", "ok", "err"}]
    BY <1>1, ParametersAssumption
       DEF IInv, TypeOK, TypeOfData, Steps, AllSteps
  <2>3. CASE StepStarts
    <3>1. /\ cur \in 1 .. N /\ Len(results) = cur - 1 /\ AllPassed
          /\ act[cur] = "none"
      BY <1>1, <2>3 DEF StepStarts, IInv, PlaceInv, ActionInv, At, Steps
    <3>2. CASE j < cur
      <4>1. j \in 1 .. Len(results)
        BY <2>2, <3>1, <3>2 DEF Steps
      <4>2. act[j] = "ok"
        BY <1>1, <3>1, <4>1
           DEF IInv, ActionInv, StatusTruthful, AllPassed
      <4>3. QED BY <4>2
    <3>3. CASE j > cur
      BY <1>1, <2>2, <3>3 DEF IInv, ActionInv
    <3>4. CASE j = cur
      BY <3>1, <3>4
    <3>5. QED BY <2>2, <3>1, <3>2, <3>3, <3>4 DEF Steps
  <2>4. CASE PanicStepStarts
    <3>1. cur \in N + 1 .. N + P
      BY <1>1, <2>4 DEF PanicStepStarts, IInv, PlaceInv, At, PanicSteps
    <3>2. act'[i] = act[i]
      BY <2>2, <2>4, <3>1 DEF PanicStepStarts, Steps
    <3>3. QED BY <2>1, <3>2
  <2>5. ASSUME NEW k \in AllSteps, ActionReturns(k) PROVE FALSE
    BY <2>1, <2>2, <2>5 DEF ActionReturns
  <2>6. ASSUME UNCHANGED act PROVE FALSE
    BY <2>1, <2>6
  <2>7. CASE StepRejected \/ SelectDone \/ SelectPanic \/ SelectCtx
             \/ GraceEnds \/ SkipStep
    BY <2>6, <2>7 DEF StepRejected, SelectDone, SelectPanic, SelectCtx,
                      GraceEnds, SkipStep
  <2>8. CASE PanicStepRejected \/ PanicStepEnds \/ RunTest \/ Saving
    BY <2>6, <2>8
       DEF PanicStepRejected, PanicStepEnds, RunTest, MainOver, FinalSave,
           Conclude, Saving, Truncate, Write, WriteError
  <2>9. ASSUME NEW k \in AllSteps, ShutdownAccepted(k) \/ StepTimeout(k)
        PROVE  FALSE
    BY <2>6, <2>9 DEF ShutdownAccepted, StepTimeout
  <2>10. CASE GuestPanics \/ QemuExits \/ MonitorCancels
    BY <2>6, <2>10 DEF GuestPanics, QemuExits, MonitorCancels
  <2>11. CASE Handler
    BY <2>6, <2>11 DEF Handler, HandlerSubscribes, HandlerWakes,
                       HandlerStops, HandlerSignals
  <2>12. CASE Finished
    BY <2>6, <2>12 DEF Finished, vars
  <2>13. QED
    BY <2>1, <2>3, <2>4, <2>5, <2>7, <2>8, <2>9, <2>10, <2>11, <2>12
       DEF Next, Runner, RunSteps, RunPanicSteps
<1>2. QED BY <1>1, Invariance, PTL DEF Spec, OneStepAtATime

-----------------------------------------------------------------------------
(* The runner implements TestOutcome: each of its steps records what the   *)
(* abstract specification allows at that point, or nothing.  Place and     *)
(* failure invariants give the guards of the abstract actions.             *)
THEOREM Refinement == Spec => OutcomeSpec
<1>1. Init => Outcome!Init
  BY DEF Init, Outcome!Init
<1>2. ASSUME IInv, [Next]_vars PROVE [Outcome!Next]_(Outcome!vars)
  <2> USE ParametersAssumption
  <2> USE DEF IInv, PlaceInv, At, Steps, PanicSteps, recordVars,
              Outcome!Next, Outcome!vars
  <2>0. /\ TypeOK /\ TypeOfData /\ TypeOfFlags
        /\ Outcome!AllPassed(results) <=> AllPassed
        /\ detected \in BOOLEAN
    BY <1>2 DEF TypeOK, TypeOfFlags, AllPassed, Outcome!AllPassed
  <2>1. CASE StepRejected
    BY <1>2, <2>0, <2>1 DEF StepRejected, Outcome!Fail
  <2>2. ASSUME NEW err, FinishStep(err), rpc \in {"select", "grace"},
               UNCHANGED <<presults, verdict>>
        PROVE  Outcome!Pass \/ Outcome!Fail
    <3>1. /\ cur \in 1 .. N /\ Len(results) = cur - 1 /\ AllPassed
          /\ ~detected /\ presults = << >> /\ verdict = "none"
      BY <1>2, <2>2
    <3>2. CASE err = "nil"
      <4>1. results' = Append(results, "passed")
        BY <2>2, <3>2 DEF FinishStep
      <4>2. ~detected'
        BY <2>2, <3>1, <3>2 DEF FinishStep
      <4>3. detected' \in BOOLEAN
        BY <2>2 DEF FinishStep
      <4>4. detected' = detected
        BY <2>0, <3>1, <4>2, <4>3
      <4>5. QED BY <2>0, <2>2, <3>1, <4>1, <4>4 DEF Outcome!Pass
    <3>3. CASE err # "nil"
      <4>1. results' = Append(results, "failed") /\ detected' \in BOOLEAN
        BY <2>2, <3>3 DEF FinishStep
      <4>2. QED BY <2>0, <2>2, <3>1, <4>1 DEF Outcome!Fail
    <3>4. QED BY <3>2, <3>3
  <2>3. CASE SelectDone
    <3>1. CASE UNCHANGED Outcome!vars
      BY <3>1
    <3>2. CASE FinishStep(IF act[cur] = "ok" THEN "nil" ELSE "err")
      BY <2>2, <2>3, <3>2 DEF SelectDone
    <3>3. QED BY <2>3, <3>1, <3>2 DEF SelectDone
  <2>4. CASE SelectPanic BY <2>2, <2>4 DEF SelectPanic
  <2>5. CASE SelectCtx BY <2>2, <2>5 DEF SelectCtx
  <2>6. CASE GraceEnds BY <2>2, <2>6 DEF GraceEnds
  <2>7. CASE SkipStep
    <3>1. CASE cur < N
      BY <1>2, <2>0, <2>7, <3>1 DEF SkipStep, Outcome!Skip
    <3>2. CASE ~(cur < N)
      BY <2>7, <3>2 DEF SkipStep
    <3>3. QED BY <3>1, <3>2
  <2>8. ASSUME NEW s \in {"passed", "failed"}, PanicStepRecorded(s),
               rpc \in {"panic_resolve", "panic_step"},
               UNCHANGED <<results, detected, verdict>>
        PROVE  Outcome!PanicStep
    <3>1. /\ cur \in N + 1 .. N + P /\ Len(presults) = cur - N - 1
          /\ detected /\ Len(results) = N /\ verdict = "none"
      BY <1>2, <2>8
    <3>2. presults' = Append(presults, s)
      BY <2>8 DEF PanicStepRecorded
    <3>3. Len(presults) < P
      BY <3>1
    <3>4. QED BY <2>8, <3>1, <3>2, <3>3 DEF Outcome!PanicStep
  <2>9. CASE PanicStepRejected BY <2>8, <2>9 DEF PanicStepRejected
  <2>10. CASE PanicStepEnds BY <2>8, <2>10 DEF PanicStepEnds
  <2>11. CASE WriteError
    <3>1. CASE then = "conclude"
      BY <1>2, <2>11, <3>1 DEF WriteError, Outcome!Conclude
    <3>2. CASE then # "conclude"
      BY <2>11, <3>2 DEF WriteError
    <3>3. QED BY <3>1, <3>2
  <2>12. CASE Conclude
    <3>1. TestFailed <=> ~AllPassed
      BY <1>2 DEF TestFailed, FailureInv, AllPassed
    <3>2. QED BY <1>2, <2>0, <2>12, <3>1 DEF Conclude, Outcome!Conclude
  <2>13. CASE StepStarts \/ PanicStepStarts \/ MainOver \/ FinalSave
              \/ Truncate \/ Write
    BY <2>13 DEF StepStarts, PanicStepStarts, MainOver, FinalSave, Truncate,
                 Write
  <2>14. ASSUME NEW i \in AllSteps,
                ActionReturns(i) \/ ShutdownAccepted(i) \/ StepTimeout(i)
         PROVE  UNCHANGED Outcome!vars
    BY <2>14 DEF ActionReturns, ShutdownAccepted, StepTimeout
  <2>15. CASE GuestPanics \/ QemuExits \/ MonitorCancels
    BY <2>15 DEF GuestPanics, QemuExits, MonitorCancels
  <2>16. CASE Handler
    BY <2>16 DEF Handler, HandlerSubscribes, HandlerWakes, HandlerStops,
                 HandlerSignals
  <2>17. CASE UNCHANGED vars BY <2>17 DEF vars
  <2>18. QED
    BY <1>2, <2>1, <2>3, <2>4, <2>5, <2>6, <2>7, <2>9, <2>10, <2>11, <2>12,
       <2>13, <2>14, <2>15, <2>16, <2>17
       DEF Next, Runner, RunSteps, RunPanicSteps, RunTest, Saving, Finished
<1>3. QED
  BY <1>1, <1>2, Invariance, PTL DEF Spec, OutcomeSpec, Outcome!Spec

-----------------------------------------------------------------------------
(* What TestOutcome_proofs shows of the abstract specification holds of    *)
(* the runner.                                                             *)
Promise == INSTANCE TestOutcome_proofs

(* The statuses of a run have the shape TestOutcome promises, and a run    *)
(* concludes with "pass" only if all its steps passed without a panic.     *)
THEOREM RunShape == Spec => [](Outcome!ResultShape /\ Outcome!PassMeansPassed)
<1>1. Promise!Sizes
  BY ParametersAssumption DEF Promise!Sizes
<1>2. Outcome!ResultShape <=> Promise!ResultShape
  BY DEF Outcome!ResultShape, Promise!ResultShape
<1>3. Outcome!PassMeansPassed <=> Promise!PassMeansPassed
  BY DEF Outcome!PassMeansPassed, Promise!PassMeansPassed,
         Outcome!AllPassed, Promise!AllPassed
<1>4. Outcome!Init <=> Promise!Init
  BY DEF Outcome!Init, Promise!Init
<1>5. [Outcome!Next]_(Outcome!vars) <=> [Promise!Next]_(Promise!vars)
  BY DEF Outcome!Next, Promise!Next, Outcome!vars, Promise!vars,
         Outcome!Pass, Promise!Pass, Outcome!Fail, Promise!Fail,
         Outcome!Skip, Promise!Skip, Outcome!PanicStep, Promise!PanicStep,
         Outcome!Conclude, Promise!Conclude,
         Outcome!AllPassed, Promise!AllPassed
<1>6. Promise!Spec => []Promise!ResultShape
  BY <1>1, Promise!ShapeCorrect
<1>7. Promise!Spec => []Promise!PassMeansPassed
  BY <1>1, Promise!PassCorrect
<1>8. QED
  BY <1>2, <1>3, <1>4, <1>5, <1>6, <1>7, Refinement, PTL
     DEF OutcomeSpec, Outcome!Spec, Promise!Spec
=============================================================================
