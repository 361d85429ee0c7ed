------------------------------- MODULE MCParts -------------------------------
(***************************************************************************)
(* The small parts of the system, which share no state, side by side: a    *)
(* behaviour is one of one part, and the others stay where they are.       *)
(* Parts without state, the configurations, give a sample of their inputs. *)
(***************************************************************************)
EXTENDS SectorDisk, FileRequests, ExecOutput, ScreenCapture, ChunkedUpload,
        StepOutputs, PrebootSteps, Configuration

VARIABLES
  part,    \* the part this behaviour is of
  sample   \* the input of a part without state

partsvars == <<diskvars, requestvars, outputvars, capturevars, uploadvars,
               outputvarsofsteps, prebootvars>>

\* Parameters of a step: one expression, or one behind a text.
ShortStrings ==
  LET parts == [of : {"text", "output.dir", "env"}, key : {1}]
               \cup [of : {"vmconfig"}, key : 1..3]
               \cup [of : {"steps"}, key : 1..2]
  IN  {<<p>> : p \in parts}
      \cup {<<[of |-> "text", key |-> 2], p>> :
              p \in {q \in parts : q.of = "steps"}}

\* Test definitions in the file f that give any of their fields.
StepOf(f, timeout) == <<[action |-> f, timeout |-> timeout]>>
Definitions(f) ==
  LET Maybe(x, none) == {x, none} IN
  [name : {f, ""}, delay : {1},
   preboot : Maybe(StepOf(f, IF f = "one" THEN 45 ELSE 0), <<>>),
   steps : Maybe(StepOf(f, 60), <<>>),
   panic : {StepOf(f, 60), StepOf(f, 0), <<>>}, serial : Maybe(f, ""),
   args : Maybe(<<f>>, <<>>)]
Included(f) == {d \in Definitions(f) : d.name = f /\ d.panic # StepOf(f, 0)}

Tests ==
  [main : Definitions("main"),
   includes : {<<>>, <<Unreadable>>}
              \cup {<<one, two>> : one \in Included("one"),
                                   two \in Included("two")}]

\* Connections that give any of their fields; the ports differ from each
\* other and from the defaults.
Connections ==
  [exec : {"", "ssh", "winrm", "telnet"}, file : {"", "ssh", "winrm", "nfs"},
   user : BOOLEAN, password : BOOLEAN, key : BOOLEAN, tls : BOOLEAN,
   port : {0, 1}, ssh : {0, 2}, winrm : {0, 3}]

Init ==
  /\ DiskInit /\ RequestsInit /\ OutputInit /\ CaptureInit /\ UploadInit
  /\ StepOutputsInit /\ PrebootInit
  /\ \/ part = "disk" /\ sample = None
     \/ /\ part \in {"requests", "output", "capture", "upload", "steps",
                     "preboot"}
        /\ image = [i \in 0..(Size - 1) |-> 0] /\ sample = None
     \/ /\ image = [i \in 0..(Size - 1) |-> 0]
        /\ \/ part = "tests" /\ sample \in Tests
           \/ part = "connections" /\ sample \in Connections

Disk ==
  /\ part = "disk" /\ DiskNext
  /\ UNCHANGED <<requestvars, outputvars, capturevars, uploadvars,
                 outputvarsofsteps, prebootvars>>
Files ==
  /\ part = "requests" /\ RequestsNext
  /\ UNCHANGED <<diskvars, outputvars, capturevars, uploadvars,
                 outputvarsofsteps, prebootvars>>
Output ==
  /\ part = "output" /\ OutputNext
  /\ UNCHANGED <<diskvars, requestvars, capturevars, uploadvars,
                 outputvarsofsteps, prebootvars>>
Capture ==
  /\ part = "capture" /\ CaptureNext
  /\ UNCHANGED <<diskvars, requestvars, outputvars, uploadvars,
                 outputvarsofsteps, prebootvars>>
Upload ==
  /\ part = "upload" /\ UploadNext
  /\ UNCHANGED <<diskvars, requestvars, outputvars, capturevars,
                 outputvarsofsteps, prebootvars>>
Steps ==
  /\ part = "steps" /\ StepOutputsNext
  /\ UNCHANGED <<diskvars, requestvars, outputvars, capturevars, uploadvars,
                 prebootvars>>
Preboot ==
  /\ part = "preboot" /\ PrebootNext
  /\ UNCHANGED <<diskvars, requestvars, outputvars, capturevars, uploadvars,
                 outputvarsofsteps>>

Next ==
  /\ Disk \/ Files \/ Output \/ Capture \/ Upload \/ Steps \/ Preboot
  /\ UNCHANGED <<part, sample>>

Spec == Init /\ [][Next]_<<partsvars, part, sample>>

\* Neither commands nor names of files differ, and only one part has them.
Symmetry == Permutations(Requesters) \cup Permutations(Paths)

---------------------------------------------------------------------------
(* Properties of the configurations                                        *)

\* LoadTestConfig merges lists of steps and the serial log so that the last
\* file that gives them has the say, adds up extra_args, and accepts nothing
\* without steps or with a step that is left without a timeout.
MergesInOrder ==
  part = "tests" => MergedInOrder(sample.main, sample.includes)

\* ImageConfig.validate accepts only connections the transports can be made
\* from: credentials for every method in use, and a port of the guest behind
\* every port of the host.
ConnectionsReady == part = "connections" => ReadyToConnect(sample)
=============================================================================
