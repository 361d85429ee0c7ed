----------------------------- MODULE TestOutcome -----------------------------
(***************************************************************************)
(* What a test run promises to whoever reads its result: the abstract      *)
(* specification that StepRunner implements.  Steps get their status in    *)
(* order; the first failure is the only one and everything after it is     *)
(* skipped; panic steps run only after a detected panic, and however they  *)
(* end; the verdict follows from what was recorded.                        *)
(***************************************************************************)
EXTENDS Naturals, Sequences

CONSTANTS N,   \* number of steps
          P    \* number of panic steps

VARIABLES
    results,    \* status of the steps recorded so far
    presults,   \* status of the panic steps recorded so far
    detected,   \* a panic was detected
    verdict     \* "none" until the run is over

vars == <<results, presults, detected, verdict>>

Statuses == {"passed", "failed", "skipped"}

AllPassed(rs) == \A i \in 1 .. Len(rs) : rs[i] = "passed"

Init ==
    /\ results = << >> /\ presults = << >>
    /\ detected = FALSE /\ verdict = "none"

Pass ==
    /\ verdict = "none" /\ presults = << >>
    /\ Len(results) < N /\ AllPassed(results)
    /\ results' = Append(results, "passed")
    /\ UNCHANGED <<presults, detected, verdict>>

Fail ==
    /\ verdict = "none" /\ presults = << >>
    /\ Len(results) < N /\ AllPassed(results)
    /\ results' = Append(results, "failed")
    /\ detected' \in BOOLEAN
    /\ UNCHANGED <<presults, verdict>>

Skip ==
    /\ verdict = "none" /\ presults = << >>
    /\ Len(results) < N /\ ~AllPassed(results)
    /\ results' = Append(results, "skipped")
    /\ UNCHANGED <<presults, detected, verdict>>

PanicStep ==
    /\ verdict = "none" /\ detected
    /\ Len(results) = N /\ Len(presults) < P
    /\ \E s \in {"passed", "failed"} : presults' = Append(presults, s)
    /\ UNCHANGED <<results, detected, verdict>>

(* The run is judged, or ends in an error if its result cannot be written. *)
Conclude ==
    /\ verdict = "none" /\ Len(results) = N
    /\ detected => Len(presults) = P
    /\ \/ verdict' = IF AllPassed(results) THEN "pass" ELSE "fail"
       \/ verdict' = "error"
    /\ UNCHANGED <<results, presults, detected>>

Next == Pass \/ Fail \/ Skip \/ PanicStep \/ Conclude

Spec == Init /\ [][Next]_vars

-----------------------------------------------------------------------------
(* The type invariant of the outcome.                                      *)
TypeOK ==
    /\ results \in Seq(Statuses) /\ Len(results) <= N
    /\ presults \in Seq({"passed", "failed"}) /\ Len(presults) <= P
    /\ detected \in BOOLEAN
    /\ verdict \in {"none", "pass", "fail", "error"}

(* One step at most fails; those before it passed, those after it were     *)
(* skipped; a panic is never reported without a failed step, and panic     *)
(* steps never without a detected panic.                                   *)
ResultShape ==
    /\ \A i \in 1 .. Len(results) :
          /\ results[i] = "failed" => \A j \in 1 .. i - 1 : results[j] = "passed"
          /\ results[i] = "skipped" => \E j \in 1 .. i - 1 : results[j] = "failed"
          /\ results[i] = "passed" => \A j \in 1 .. i - 1 : results[j] = "passed"
    /\ detected => \E i \in 1 .. Len(results) : results[i] = "failed"
    /\ presults # << >> => detected

(* A run passes only if every step passed and no panic was detected.       *)
PassMeansPassed ==
    verdict = "pass" => Len(results) = N /\ AllPassed(results) /\ ~detected
=============================================================================
