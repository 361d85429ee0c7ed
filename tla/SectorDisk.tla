----------------------------- MODULE SectorDisk -----------------------------
(***************************************************************************)
(* The offline image of the preboot steps (src/internal/vfs/qcow2.go).     *)
(* The library reads and writes whole sectors; ReadAt and WriteAt take any *)
(* offset and length, so a write reads the sectors it touches, patches     *)
(* them and writes them back.  Every call of the library may fail.         *)
(***************************************************************************)
EXTENDS Integers

CONSTANTS
  Size,        \* bytes of the image
  SectorSize,  \* qcow2LogicalSectorSize, 512 in the code
  Byte,        \* the values of a byte
  None         \* no request, no data, an error

ASSUME DiskAssumption ==
  /\ SectorSize \in Nat \ {0}
  /\ Size \in Nat /\ Size % SectorSize = 0

VARIABLES
  image,     \* the bytes of the image
  request,   \* the call under way
  reply,     \* what the last call returned
  buffer     \* the sectors a write has read and patched

diskvars == <<image, request, reply, buffer>>

\* The same image seen byte by byte.
Bytes == INSTANCE ByteDisk WITH Size <- Size, Byte <- Byte, None <- None,
                               image <- image, request <- request,
                               reply <- reply

alignDown(value) == (value \div SectorSize) * SectorSize

alignUp(value) ==
  IF value % SectorSize = 0 THEN value ELSE alignDown(value) + SectorSize

\* The sectors of the request under way.
Start == alignDown(request.off)
End == alignUp(request.off + request.len)
Sectors == Start..(End - 1)

DiskInit ==
  /\ image \in [0..(Size - 1) -> Byte]
  /\ request = None /\ reply = None /\ buffer = None

Ask(r) ==
  /\ request = None
  /\ request' = r /\ reply' = None
  /\ UNCHANGED <<image, buffer>>

Return(r) == request' = None /\ reply' = r /\ buffer' = None

\* Nothing to read or write: the library is not called.
AnswerEmpty ==
  /\ request # None /\ buffer = None /\ request.len = 0
  /\ Return(IF request.kind = "read" THEN Bytes!Slice(image, request.off, 0)
                                     ELSE 0)
  /\ UNCHANGED image

\* Blk_Pread: an error, always so beyond the end of the image.
PreadFails ==
  /\ request # None /\ buffer = None /\ request.len > 0
  /\ Return(None)
  /\ UNCHANGED image

\* ReadAt cuts what was asked for out of the sectors.
ReadAt ==
  /\ request # None /\ buffer = None /\ request.len > 0
  /\ request.kind = "read" /\ End <= Size
  /\ LET buf == [i \in Sectors |-> image[i]] IN
       Return(Bytes!Slice(buf, request.off, request.len))
  /\ UNCHANGED image

\* A faulty variant: the data is put at the start of the first sector.
PatchAtStart ==
  /\ request # None /\ buffer = None /\ request.len > 0
  /\ request.kind = "write" /\ End <= Size
  /\ buffer' = [i \in Sectors |->
                  IF i \in Bytes!Span(Start, request.len)
                  THEN request.data[i - Start] ELSE image[i]]
  /\ UNCHANGED <<image, request, reply>>

\* WriteAt patches the sectors it has read.
Patch ==
  /\ request # None /\ buffer = None /\ request.len > 0
  /\ request.kind = "write" /\ End <= Size
  /\ buffer' = [i \in Sectors |->
                  IF i \in Bytes!Span(request.off, request.len)
                  THEN request.data[i - request.off] ELSE image[i]]
  /\ UNCHANGED <<image, request, reply>>

\* Blk_Pwrite, and one that fails half-way.
Pwrite ==
  /\ buffer # None
  /\ image' = [i \in 0..(Size - 1) |-> IF i \in Sectors THEN buffer[i]
                                                        ELSE image[i]]
  /\ Return(request.len)

PwriteFails ==
  /\ buffer # None
  /\ \E W \in SUBSET Sectors :
       image' = [i \in 0..(Size - 1) |-> IF i \in W THEN buffer[i]
                                                    ELSE image[i]]
  /\ Return(None)

DiskNext ==
  \/ \E r \in Bytes!Requests : Ask(r)
  \/ AnswerEmpty \/ PreadFails \/ ReadAt \/ Patch \/ Pwrite \/ PwriteFails

DiskSpec == DiskInit /\ [][DiskNext]_diskvars

---------------------------------------------------------------------------
(* Properties                                                              *)

\* The image behaves as a row of bytes: a write that reads, patches and
\* writes back whole sectors changes the bytes it was given and no others,
\* even when it fails half-way, and a read returns exactly what is there.
BytesAsWritten == Bytes!Spec
=============================================================================
