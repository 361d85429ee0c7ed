---------------------------- MODULE PrebootSteps ----------------------------
(***************************************************************************)
(* The offline edits of the overlay before QEMU starts: RunSteps of        *)
(* src/internal/preboot, its two actions, and what the commands make of    *)
(* the result.  A file of the host or of the EFI partition is named by the *)
(* step that wrote it, negated if the write was cut short.                 *)
(***************************************************************************)
EXTENDS Integers, Sequences, Expressions

CONSTANTS
  EFIFiles,   \* files of the EFI partition, which a step may add or get
  MaxPreboot  \* bound: preboot steps

ASSUME PrebootAssumption == MaxPreboot \in Nat

VARIABLES
  partitions,  \* [efi, fat] of each: its type, whether FAT32 can be read
  total,       \* steps of the definition
  statuses,    \* of the steps that have a result
  step,        \* the step under way
  esp,         \* the files on the partition found
  fetched,     \* the files of the host that steps have fetched
  edits,       \* history: what each passed step has found or put where
  session      \* the command

prebootvars ==
  <<partitions, total, statuses, step, esp, fetched, edits, session>>

Absent == MaxPreboot + 1
Empty == MaxPreboot + 2

\* A faulty variant: the first partition with FAT32 on it.
FirstFAT32(disk) ==
  LET fat == {i \in DOMAIN disk : disk[i].fat} IN
  IF fat = {} THEN 0 ELSE CHOOSE i \in fat : \A j \in fat : i <= j

\* findEFIFAT32: the first readable partition of the EFI type, or else of any
\* type; 0 if there is none.  (A disk that is FAT32 as a whole is like one
\* partition of no type.)
FindEFIFAT32(disk) ==
  LET fat == {i \in DOMAIN disk : disk[i].fat}
      efi == {i \in fat : disk[i].efi}
      Least(S) == CHOOSE i \in S : \A j \in S : i <= j
  IN  IF efi # {} THEN Least(efi) ELSE IF fat # {} THEN Least(fat) ELSE 0

Target == FindEFIFAT32(partitions)

PrebootInit ==
  /\ partitions = <<>> /\ total = 0 /\ statuses = <<>>
  /\ step = [at |-> "none", action |-> "none", file |-> "none",
             expired |-> FALSE]
  /\ esp = [p \in {0, 1, 2} |-> [f \in EFIFiles |-> Absent]]
  /\ fetched = [f \in EFIFiles |-> Absent]
  /\ edits = <<>> /\ session = "new"

\* An overlay that steps have not touched yet; the image may hold files.
\* LoadTestConfig has seen to it that no step is without an action.
OverlayCreated(disk, n, f) ==
  /\ session = "new"
  /\ session' = "preboot" /\ partitions' = disk /\ total' = n
  /\ esp' = [esp EXCEPT ![FindEFIFAT32(disk)][f] = 0]
  /\ UNCHANGED <<statuses, step, fetched, edits>>

Number == Len(statuses) + 1
Rest == step' = [step EXCEPT !.at = "none"]

Passed == statuses' = Append(statuses, "passed") /\ Rest
Failed == statuses' = Append(statuses, "failed") /\ Rest

\* RunSteps goes on only after a step that has passed.
GoesOn == \A i \in DOMAIN statuses : statuses[i] = "passed"

\* The context of preboot has the directory of the definition and the
\* environment; anything else is an error.
PrebootContext == [dirs |-> {"test.dir"}, vmconfig |-> FALSE,
                   steps |-> FALSE, outputs |-> <<>>]

StepBegins(action, file, string) ==
  /\ session = "preboot" /\ step.at = "none" /\ GoesOn /\ Number <= total
  /\ IF \/ ResolveString(string, PrebootContext) = Error
        \/ action = "unknown" \/ Target = 0
     THEN Failed
     ELSE /\ step' = [at |-> "open", action |-> action, file |-> file,
                      expired |-> FALSE]
          /\ UNCHANGED statuses
  /\ UNCHANGED <<partitions, total, esp, fetched, edits, session>>

StepExpired ==
  /\ step.at # "none" /\ ~step.expired
  /\ step' = [step EXCEPT !.expired = TRUE]
  /\ UNCHANGED <<partitions, total, statuses, esp, fetched, edits, session>>

\* The source cannot be read, a directory or file not be made.
OpenFails ==
  /\ step.at = "open"
  /\ Failed
  /\ UNCHANGED <<partitions, total, esp, fetched, edits, session>>

\* O_CREATE|O_TRUNC: the file is empty from here on.
OpenForWriting ==
  /\ step.at = "open" /\ step.action = "efi-add-file"
  /\ esp' = [esp EXCEPT ![Target][step.file] = Empty]
  /\ step' = [step EXCEPT !.at = "write"]
  /\ UNCHANGED <<partitions, total, statuses, fetched, edits, session>>

\* file.Write, and one that fails half-way.
WriteFile ==
  /\ step.at = "write"
  /\ esp' = [esp EXCEPT ![Target][step.file] = Number]
  /\ step' = [step EXCEPT !.at = "written"]
  /\ UNCHANGED <<partitions, total, statuses, fetched, edits, session>>

WriteFails ==
  /\ step.at = "write"
  /\ \E left \in {Empty, -Number} :
       esp' = [esp EXCEPT ![Target][step.file] = left]
  /\ Failed
  /\ UNCHANGED <<partitions, total, fetched, edits, session>>

\* efi-get-file: read it all, write it to the host.
GetFile ==
  /\ step.at = "open" /\ step.action = "efi-get-file"
  /\ esp[Target][step.file] # Absent
  /\ fetched' = [fetched EXCEPT ![step.file] = esp[Target][step.file]]
  /\ step' = [step EXCEPT !.at = "written"]
  /\ UNCHANGED <<partitions, total, statuses, esp, edits, session>>

\* A faulty variant: the context is not looked at.
StepEndsAnyway ==
  /\ step.at = "written"
  /\ Passed
  /\ edits' = Append(edits, [step EXCEPT !.at = "passed"])
  /\ UNCHANGED <<partitions, total, esp, fetched, session>>

\* The only look at the context: a step whose time is over has done its work
\* and fails.
StepEnds ==
  /\ step.at = "written"
  /\ IF step.expired THEN Failed /\ UNCHANGED edits
     ELSE Passed /\ edits' = Append(edits, [step EXCEPT !.at = "passed"])
  /\ UNCHANGED <<partitions, total, esp, fetched, session>>

\* The command looks for a failed step.  (What it removes then is the matter
\* of TestSession and Workspace.)
CommandGoesOn ==
  /\ session = "preboot" /\ step.at = "none"
  /\ Number > total \/ ~GoesOn
  /\ session' = IF GoesOn THEN "boots" ELSE "refused"
  /\ UNCHANGED <<partitions, total, statuses, step, esp, fetched, edits>>

PrebootNext ==
  \/ \E disk \in SeqOf([efi : BOOLEAN, fat : BOOLEAN], 2),
        n \in 1..MaxPreboot, f \in EFIFiles : OverlayCreated(disk, n, f)
  \/ \E action \in {"efi-add-file", "efi-get-file", "unknown"},
        file \in EFIFiles, of \in {"test.dir", "env", "steps"} :
       StepBegins(action, file, <<[of |-> of, key |-> 1]>>)
  \/ StepExpired \/ OpenFails \/ OpenForWriting \/ WriteFile \/ WriteFails
  \/ GetFile \/ StepEnds \/ CommandGoesOn

PrebootSpec == PrebootInit /\ [][PrebootNext]_prebootvars

---------------------------------------------------------------------------
(* Properties                                                              *)

\* The step whose file a passed efi-get-file found: the last one to add it
\* before; 0 is the image.
AddedBefore(i) ==
  LET adds == {j \in 1..(i - 1) : edits[j].action = "efi-add-file"
                                  /\ edits[j].file = edits[i].file}
  IN  IF adds = {} THEN 0 ELSE CHOOSE j \in adds : \A k \in adds : k <= j

\* QEMU boots only from an overlay in which every step has passed within its
\* time: each file added is there whole, as its last step wrote it, on the
\* EFI partition if the disk has a readable one; and what was fetched is what
\* the overlay held at that point.  Half-written files, and edits made after
\* the deadline, are never booted from.
BootsAsEdited ==
  session = "boots" =>
    /\ Len(edits) = total
    /\ \A i \in DOMAIN edits : ~edits[i].expired
    /\ \A i \in DOMAIN edits :
         IF edits[i].action = "efi-add-file"
         THEN \/ esp[Target][edits[i].file] = i
              \/ \E j \in (i + 1)..total :
                   /\ edits[j].action = "efi-add-file"
                   /\ edits[j].file = edits[i].file
         ELSE \/ fetched[edits[i].file] = AddedBefore(i)
              \/ \E j \in (i + 1)..total :
                   /\ edits[j].action = "efi-get-file"
                   /\ edits[j].file = edits[i].file
    /\ \A p \in DOMAIN partitions :
         partitions[p].efi /\ partitions[p].fat =>
           partitions[Target].efi /\ partitions[Target].fat
=============================================================================
