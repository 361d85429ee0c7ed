----------------------------- MODULE StepOutputs -----------------------------
(***************************************************************************)
(* The outputs of steps, what later expressions make of them, and the ids  *)
(* that tie both together: RunSteps and RunPanicSteps of                   *)
(* src/internal/executor/runner.go, the action context of                  *)
(* src/internal/action, and the QEMU arguments that are resolved before    *)
(* there is a machine.  Step ids are numbers: n is "step_n".               *)
(***************************************************************************)
EXTENDS Expressions

CONSTANTS
  StepIds,    \* ids a step may be given; 0 for none
  MaxSteps,   \* bound: steps of a list
  Strings     \* what parameters and arguments consist of

ASSUME StepOutputsAssumption ==
  StepIds \subseteq Nat /\ MaxSteps \in Nat /\ Strings \subseteq Seq(Parts)

VARIABLES
  list,         \* which list is running
  number,       \* the index of the next step, from 1
  stepOutputs,  \* ActionContext.StepOutputs: id -> stdout
  vmconfig,     \* ActionContext.vmConfigOnce
  resolved,     \* history: the last string resolved, its value
  ran           \* history: id and stdout of each step executed

outputvarsofsteps == <<list, number, stepOutputs, vmconfig, resolved, ran>>

StepOutputsInit ==
  /\ list = "arguments" /\ number = 1
  /\ stepOutputs = <<>> /\ vmconfig = "unread"
  /\ resolved = [string |-> <<>>, value |-> String(<<>>)] /\ ran = <<>>

Reads(string, what) == \E i \in DOMAIN string : string[i].of = what

\* VMConfig, behind a sync.Once: what the first reader finds, an error
\* included, is the answer for good.
VMConfig(string) ==
  IF vmconfig = "unread" /\ Reads(string, "vmconfig")
  THEN IF list = "arguments" THEN "missing" ELSE "read"
  ELSE vmconfig

\* ExprContext.
Context(string) ==
  [dirs |-> {"test.dir", "output.dir"}, vmconfig |-> VMConfig(string) = "read",
   steps |-> TRUE, outputs |-> stepOutputs]

Resolve(string) ==
  /\ vmconfig' = VMConfig(string)
  /\ resolved' = [string |-> string,
                  value |-> ResolveString(string, Context(string))]

\* A faulty variant: arguments that cannot be resolved are left out.
ArgumentsDropped(string) ==
  /\ list = "arguments"
  /\ Resolve(string)
  /\ list' = "steps"
  /\ UNCHANGED <<number, stepOutputs, ran>>

\* resolveTestQEMUExtraArgs, before the machine is started: the session ends
\* if it fails.
ResolveArguments(string) ==
  /\ list = "arguments"
  /\ Resolve(string)
  /\ list' = IF ResolveStrings(<<string>>, Context(string)) = <<Error>>
             THEN "refused" ELSE "steps"
  /\ UNCHANGED <<number, stepOutputs, ran>>

EffectiveId(id) == IF id = 0 THEN number ELSE id

\* The parameters do not resolve, or the action is unknown: no outputs are
\* stored.  The rest of the steps is skipped, that of the panic steps is not.
StepNotRun(string) ==
  /\ list \in {"steps", "panicsteps"} /\ number <= MaxSteps
  /\ Resolve(string)
  /\ list' = IF list = "steps" THEN "failed" ELSE list
  /\ number' = number + 1
  /\ UNCHANGED <<stepOutputs, ran>>

\* A faulty variant: a step that fails leaves no outputs.
StoreOfPassed(eid, stdout, passed) ==
  IF passed THEN [i \in DOMAIN stepOutputs \cup {eid} |->
                    IF i = eid THEN stdout ELSE stepOutputs[i]]
            ELSE stepOutputs

\* r.actx.StepOutputs[stepID] = sctx.Outputs(), whether the step has passed
\* or not.  An action that was abandoned may set its output later: Outputs
\* has made a copy.
Store(eid, stdout, passed) ==
  [i \in DOMAIN stepOutputs \cup {eid} |->
     IF i = eid THEN stdout ELSE stepOutputs[i]]

\* stdout is <<>> for a step without output, or abandoned before it.
StepRuns(id, string, stdout, passed) ==
  /\ list \in {"steps", "panicsteps"} /\ number <= MaxSteps
  /\ Resolve(string)
  /\ resolved'.value # Error
  /\ stepOutputs' = Store(EffectiveId(id), stdout, passed)
  /\ ran' = Append(ran, [id |-> EffectiveId(id), stdout |-> stdout])
  /\ list' = IF list = "steps" /\ ~passed THEN "failed" ELSE list
  /\ number' = number + 1

\* RunPanicSteps: the ids start with step_1 again, the outputs stay.
PanicStepsStart ==
  /\ list = "failed"
  /\ list' = "panicsteps" /\ number' = 1
  /\ UNCHANGED <<stepOutputs, vmconfig, resolved, ran>>

StepOutputsNext ==
  \/ \E string \in Strings : ResolveArguments(string) \/ StepNotRun(string)
  \/ \E id \in StepIds, string \in Strings, passed \in BOOLEAN :
       \E stdout \in {<<>>, <<<<"stdout", Len(ran)>>>>} :
         StepRuns(id, string, stdout, passed)
  \/ PanicStepsStart

StepOutputsSpec == StepOutputsInit /\ [][StepOutputsNext]_outputvarsofsteps

---------------------------------------------------------------------------
(* Properties                                                              *)

\* stdout of the last step executed with an id, a step of either list.
Latest(id) ==
  LET hits == {i \in DOMAIN ran : ran[i].id = id} IN
  IF hits = {} THEN <<>>
  ELSE ran[CHOOSE i \in hits : \A j \in hits : j <= i].stdout

OutputsOfLatest == \A id \in 1..(2 * MaxSteps) :
  LET string == <<[of |-> "steps", key |-> id]>> IN
  ResolveString(string, Context(string)) = String(Latest(id))

VMConfigForSteps ==
  list \notin {"arguments", "refused"} => vmconfig # "missing"

\* What the expressions of a step stand for.  steps.<id>.outputs.stdout is the
\* output of the last step that was executed under that id, failed or not,
\* and nothing before there is one: the outputs of a test outlast it into its
\* panic steps, where step_1 is the first test step until the first panic
\* step has been run.  vmconfig is always there: vmConfigOnce keeps what it
\* first finds, and although the arguments of QEMU are resolved before there
\* is a machine, no step meets that error.
ExpressionsOfSteps == OutputsOfLatest /\ VMConfigForSteps
=============================================================================
