------------------------- MODULE TestOutcome_proofs -------------------------
(***************************************************************************)
(* TestOutcome keeps its promise for every number of steps and of panic    *)
(* steps.                                                                  *)
(***************************************************************************)
EXTENDS TestOutcome, TLAPS

(* The sizes are natural numbers; StepRunner assumes it of its own.        *)
Sizes == N \in Nat /\ P \in Nat

(* The statuses recorded so far, and the counts of panic steps, stay of    *)
(* their type: the run never records more steps than the test has.         *)
THEOREM TypeCorrect == ASSUME Sizes PROVE Spec => []TypeOK
<1>1. ASSUME Init PROVE TypeOK
  <2>1. results \in Seq(Statuses) /\ presults \in Seq({"passed", "failed"})
    BY <1>1 DEF Init
  <2>2. Len(results) <= N /\ Len(presults) <= P
    BY <1>1 DEF Init, Sizes
  <2>3. detected \in BOOLEAN /\ verdict = "none"
    BY <1>1 DEF Init
  <2>4. QED BY <2>1, <2>2, <2>3 DEF TypeOK
<1>2. ASSUME TypeOK, [Next]_vars PROVE TypeOK'
  <2> USE <1>2 DEF TypeOK, Statuses, Sizes
  <2>1. CASE Pass      BY <2>1 DEF Pass
  <2>2. CASE Fail      BY <2>2 DEF Fail
  <2>3. CASE Skip      BY <2>3 DEF Skip
  <2>4. CASE PanicStep BY <2>4 DEF PanicStep
  <2>5. CASE Conclude  BY <2>5 DEF Conclude
  <2>6. CASE UNCHANGED vars BY <2>6 DEF vars
  <2>7. QED BY <1>2, <2>1, <2>2, <2>3, <2>4, <2>5, <2>6 DEF Next
<1>3. QED BY <1>1, <1>2, PTL DEF Spec

(* The shape is inductive by itself: Pass and Fail need everything before  *)
(* to have passed, Skip needs a failure before it.                         *)
THEOREM ShapeCorrect == ASSUME Sizes PROVE Spec => []ResultShape
<1>1. Init => ResultShape
  BY DEF Init, ResultShape
<1>2. ASSUME TypeOK, ResultShape, [Next]_vars PROVE ResultShape'
  <2> USE <1>2 DEF TypeOK, Sizes, ResultShape, Statuses, AllPassed
  <2>1. CASE Pass
    <3>1. /\ results' = Append(results, "passed")
          /\ \A i \in 1 .. Len(results) : results[i] = "passed"
          /\ UNCHANGED <<presults, detected>>
      BY <2>1 DEF Pass
    <3>2. ~detected /\ presults = << >>
      BY <3>1
    <3>3. QED BY <3>1, <3>2
  <2>2. CASE Fail
    <3>1. /\ results' = Append(results, "failed")
          /\ \A i \in 1 .. Len(results) : results[i] = "passed"
          /\ presults' = << >>
      BY <2>2 DEF Fail
    <3>2. results'[Len(results')] = "failed" /\ Len(results') \in 1 .. Len(results')
      BY <3>1
    <3>3. QED BY <3>1, <3>2
  <2>3. CASE Skip
    <3>1. /\ results' = Append(results, "skipped")
          /\ UNCHANGED <<presults, detected>>
      BY <2>3 DEF Skip
    <3>2. PICK k \in 1 .. Len(results) : results[k] # "passed"
      BY <2>3 DEF Skip
    <3>3. PICK f \in 1 .. Len(results) : results[f] = "failed"
      <4>1. CASE results[k] = "failed"  BY <4>1
      <4>2. CASE results[k] = "skipped" BY <4>2
      <4>3. QED BY <3>2, <4>1, <4>2
    <3>4. \A i \in 1 .. Len(results) : results'[i] = results[i]
      BY <3>1
    <3>5. Len(results') = Len(results) + 1 /\ results'[Len(results) + 1] = "skipped"
      BY <3>1
    <3>6. ASSUME NEW i \in 1 .. Len(results')
          PROVE  /\ results'[i] = "failed"
                       => \A j \in 1 .. i - 1 : results'[j] = "passed"
                 /\ results'[i] = "skipped"
                       => \E j \in 1 .. i - 1 : results'[j] = "failed"
                 /\ results'[i] = "passed"
                       => \A j \in 1 .. i - 1 : results'[j] = "passed"
      <4>1. CASE i \in 1 .. Len(results)
        <5>1. \A j \in 1 .. i - 1 : results'[j] = results[j]
          BY <3>4, <4>1
        <5>2. results'[i] = results[i]
          BY <3>4, <4>1
        <5>3. CASE results[i] = "skipped"
          <6>1. PICK j \in 1 .. i - 1 : results[j] = "failed"
            BY <4>1, <5>3
          <6>2. results'[j] = "failed"
            BY <5>1, <6>1
          <6>3. QED BY <5>2, <5>3, <6>2
        <5>4. CASE results[i] # "skipped"
          BY <4>1, <5>1, <5>2, <5>4
        <5>5. QED BY <5>3, <5>4
      <4>2. CASE i = Len(results) + 1
        <5>1. f \in 1 .. i - 1 /\ results'[f] = "failed"
          BY <3>3, <3>4, <4>2
        <5>2. results'[i] = "skipped"
          BY <3>5, <4>2
        <5>3. QED BY <5>1, <5>2, Zenon
      <4>3. i \in 1 .. Len(results) \/ i = Len(results) + 1
        BY <3>5
      <4>4. QED BY <4>1, <4>2, <4>3, Zenon
    <3>7. detected' => \E i \in 1 .. Len(results') : results'[i] = "failed"
      BY <3>3, <3>4, <3>5
    <3>8. QED BY <3>1, <3>6, <3>7
  <2>4. CASE PanicStep BY <2>4 DEF PanicStep
  <2>5. CASE Conclude  BY <2>5 DEF Conclude
  <2>6. CASE UNCHANGED vars BY <2>6 DEF vars
  <2>7. QED BY <1>2, <2>1, <2>2, <2>3, <2>4, <2>5, <2>6 DEF Next
<1>3. QED BY <1>1, <1>2, TypeCorrect, PTL DEF Spec

(* A run that passes had every step pass and no panic detected.            *)
THEOREM PassCorrect == ASSUME Sizes PROVE Spec => []PassMeansPassed
<1>1. Init => PassMeansPassed
  BY DEF Init, PassMeansPassed
<1>2. ASSUME TypeOK, ResultShape, PassMeansPassed, [Next]_vars
      PROVE  PassMeansPassed'
  <2> USE <1>2 DEF PassMeansPassed
  <2>1. CASE Pass      BY <2>1 DEF Pass
  <2>2. CASE Fail      BY <2>2 DEF Fail
  <2>3. CASE Skip      BY <2>3 DEF Skip
  <2>4. CASE PanicStep BY <2>4 DEF PanicStep
  <2>5. CASE Conclude
    <3>1. AllPassed(results) => ~detected
      BY DEF ResultShape, AllPassed
    <3>2. QED BY <2>5, <3>1 DEF Conclude, AllPassed
  <2>6. CASE UNCHANGED vars BY <2>6 DEF vars, AllPassed
  <2>7. QED BY <1>2, <2>1, <2>2, <2>3, <2>4, <2>5, <2>6 DEF Next
<1>3. QED BY <1>1, <1>2, TypeCorrect, ShapeCorrect, PTL DEF Spec
=============================================================================
