-------------------------- MODULE GuestData_proofs --------------------------
(***************************************************************************)
(* The data that passes between the program, the guest and its disk, for   *)
(* any size of it: SectorDisk implements ByteDisk, what ExecOutput keeps   *)
(* of an output, what ChunkedUpload puts together in the guest, and what   *)
(* FileRequests delivers across the socket and the files of the host.      *)
(***************************************************************************)
EXTENDS SectorDisk, ExecOutput, ChunkedUpload, FileRequests, TLAPS

---------------------------------------------------------------------------
(* The sectors of an image                                                 *)

\* alignDown and alignUp enclose a value in a row of whole sectors.
LEMMA Alignment ==
  ASSUME NEW v \in Nat
  PROVE  /\ alignDown(v) \in Nat /\ alignDown(v) <= v
         /\ alignUp(v) \in Nat /\ v <= alignUp(v)
<1>1. SectorSize \in Nat /\ SectorSize > 0
  BY DiskAssumption
<1> DEFINE q == v \div SectorSize
<1>2. q \in Nat /\ v = (q * SectorSize) + (v % SectorSize)
  BY <1>1, Z3
<1>3. v % SectorSize \in 0..(SectorSize - 1)
  BY <1>1
<1>4. q * SectorSize \in Nat
  BY <1>1, <1>2, Z3
<1> QED
  BY <1>1, <1>2, <1>3, <1>4 DEF alignDown, alignUp

\* The fields of a request, whatever its kind.
LEMMA RequestFields ==
  ASSUME NEW r \in Bytes!Requests
  PROVE  /\ r.kind \in {"read", "write"}
         /\ r.off \in 0..Size /\ r.len \in 0..Size
         /\ r.kind = "write" => r.data \in [0..(r.len - 1) -> Byte]
<1>1. CASE r \in {[kind |-> "read", off |-> o, len |-> n, data |-> None] :
                    o \in 0..Size, n \in 0..Size}
  BY <1>1
<1>2. CASE r \in UNION {[kind : {"write"}, off : 0..Size, len : {n},
                         data : [0..(n - 1) -> Byte]] : n \in 0..Size}
  BY <1>2
<1> QED
  BY <1>1, <1>2 DEF Bytes!Requests

\* The bytes of the request lie in its sectors.
LEMMA SpanInSectors ==
  ASSUME request \in Bytes!Requests
  PROVE  /\ Start \in Nat /\ End \in Nat
         /\ Bytes!Span(request.off, request.len) \subseteq Sectors
<1>1. request.off \in Nat /\ request.len \in Nat
  BY RequestFields, DiskAssumption
<1>2. /\ Start \in Nat /\ Start <= request.off
      /\ End \in Nat /\ request.off + request.len <= End
  BY <1>1, Alignment DEF Start, End
<1> QED
  BY <1>1, <1>2 DEF Sectors, Bytes!Span

---------------------------------------------------------------------------
\* What a write has read and patched.
Patched ==
  [i \in Sectors |->
     IF i \in Bytes!Span(request.off, request.len)
     THEN request.data[i - request.off] ELSE image[i]]

\* The buffer of a write holds the image as it is, with the data in place.
DiskInv ==
  /\ image \in [0..(Size - 1) -> Byte]
  /\ request \in Bytes!Requests \cup {None}
  /\ buffer # None =>
       /\ request # None /\ request.kind = "write"
       /\ End <= Size /\ buffer = Patched

\* The image that a write of the sectors W leaves.
Merged(W) ==
  [i \in 0..(Size - 1) |-> IF i \in W THEN buffer[i] ELSE image[i]]

\* Whatever sectors of the buffer arrive, only bytes of the request change.
LEMMA MergedIsWritten ==
  ASSUME DiskInv, buffer # None, NEW W \in SUBSET Sectors
  PROVE  LET V == W \cap Bytes!Span(request.off, request.len) IN
         /\ V \in SUBSET (Bytes!Span(request.off, request.len)
                          \cap (0..(Size - 1)))
         /\ Merged(W) = Bytes!Written(V)
<1> DEFINE S == Bytes!Span(request.off, request.len)
           V == W \cap S
<1>1. request \in Bytes!Requests /\ End <= Size /\ buffer = Patched
  BY DEF DiskInv
<1>2. Start \in Nat /\ End \in Nat /\ S \subseteq Sectors
  BY <1>1, SpanInSectors
<1>3. Sectors \subseteq 0..(Size - 1)
  BY <1>1, <1>2, DiskAssumption DEF Sectors
<1>4. ASSUME NEW i \in 0..(Size - 1)
      PROVE  (IF i \in W THEN buffer[i] ELSE image[i])
             = (IF i \in V THEN request.data[i - request.off] ELSE image[i])
  <2>1. i \in W => buffer[i] = IF i \in S THEN request.data[i - request.off]
                                         ELSE image[i]
    BY <1>1 DEF Patched
  <2> QED
    BY <2>1
<1>5. Merged(W) = Bytes!Written(V)
  BY <1>4 DEF Merged, Bytes!Written
<1> QED
  BY <1>3, <1>5

\* The bytes of a request are bytes.
LEMMA WrittenType ==
  ASSUME DiskInv, request # None, request.kind = "write",
         NEW V \in SUBSET Bytes!Span(request.off, request.len)
  PROVE  Bytes!Written(V) \in [0..(Size - 1) -> Byte]
<1>1. /\ request.off \in Nat /\ request.len \in Nat
      /\ request.data \in [0..(request.len - 1) -> Byte]
  BY RequestFields, DiskAssumption DEF DiskInv
<1>2. ASSUME NEW i \in V
      PROVE  request.data[i - request.off] \in Byte
  <2>1. i - request.off \in 0..(request.len - 1)
    BY <1>1 DEF Bytes!Span
  <2> QED
    BY <1>1, <2>1
<1> QED
  BY <1>2 DEF Bytes!Written, DiskInv
---------------------------------------------------------------------------
(* The invariant                                                           *)

LEMMA InitInv == DiskInit => DiskInv
BY DEF DiskInit, DiskInv

LEMMA AskInv ==
  ASSUME DiskInv, NEW r \in Bytes!Requests, Ask(r)
  PROVE  DiskInv'
BY DEF DiskInv, Ask

LEMMA PatchInv ==
  ASSUME DiskInv, Patch
  PROVE  DiskInv'
<1>1. request' = request /\ image' = image /\ buffer' = Patched
  BY DEF Patch, Patched
<1>2. Start' = Start /\ End' = End /\ Patched' = Patched
  BY <1>1 DEF Start, End, Sectors, Patched, Bytes!Span
<1> QED
  BY <1>1, <1>2 DEF DiskInv, Patch

\* A write that arrives, whole or in part, leaves bytes.
LEMMA MergedInv ==
  ASSUME DiskInv, buffer # None, NEW W \in SUBSET Sectors,
         image' = Merged(W), NEW r, Return(r)
  PROVE  DiskInv'
<1>1. image' \in [0..(Size - 1) -> Byte]
  BY MergedIsWritten, WrittenType DEF DiskInv
<1> QED
  BY <1>1 DEF DiskInv, Return

(* Returning forgets the buffer.                                           *)
LEMMA ReturnInv ==
  ASSUME DiskInv, UNCHANGED image, NEW r, Return(r)
  PROVE  DiskInv'
BY DEF DiskInv, Return

(* Every step of a read or write keeps the buffer true to the image.       *)
LEMMA NextInv == DiskInv /\ [DiskNext]_diskvars => DiskInv'
<1> SUFFICES ASSUME DiskInv, [DiskNext]_diskvars PROVE DiskInv'
  OBVIOUS
<1>1. CASE UNCHANGED diskvars
  BY <1>1 DEF DiskInv, diskvars, Patched, Sectors, Start, End, Bytes!Span
<1>2. CASE \E r \in Bytes!Requests : Ask(r)
  BY <1>2, AskInv
<1>3. CASE AnswerEmpty
  BY <1>3, ReturnInv DEF AnswerEmpty
<1>4. CASE PreadFails
  BY <1>4, ReturnInv DEF PreadFails
<1>5. CASE ReadAt
  BY <1>5, ReturnInv DEF ReadAt
<1>6. CASE Patch
  BY <1>6, PatchInv
<1>7. CASE Pwrite
  BY <1>7, MergedInv DEF Pwrite, Merged
<1>8. CASE PwriteFails
  BY <1>8, MergedInv DEF PwriteFails, Merged
<1> QED
  BY <1>1, <1>2, <1>3, <1>4, <1>5, <1>6, <1>7, <1>8 DEF DiskNext

---------------------------------------------------------------------------
(* The refinement, action by action                                        *)

LEMMA EmptyRefines ==
  ASSUME DiskInv, AnswerEmpty
  PROVE  Bytes!Next
<1>1. /\ request # None /\ request.len = 0 /\ request' = None
      /\ image' = image
      /\ request.kind \in {"read", "write"} /\ request.off \in Nat
  BY RequestFields, DiskAssumption DEF DiskInv, AnswerEmpty, Return
<1>2. CASE request.kind = "read"
  <2>1. Bytes!Read
    BY <1>1, <1>2 DEF AnswerEmpty, Return, Bytes!Read
  <2> QED
    BY <2>1 DEF Bytes!Next
<1>3. CASE request.kind = "write"
  <2>1. Bytes!Span(request.off, request.len) = {}
    BY <1>1 DEF Bytes!Span
  <2>2. image = Bytes!Written({})
    BY DEF DiskInv, Bytes!Written
  <2>3. reply' = 0
    BY <1>3 DEF AnswerEmpty, Return
  <2>4. Bytes!Write
    BY <1>1, <1>3, <2>1, <2>2, <2>3 DEF Bytes!Write
  <2> QED
    BY <2>4 DEF Bytes!Next
<1> QED
  BY <1>1, <1>2, <1>3

LEMMA ReadRefines ==
  ASSUME DiskInv, ReadAt
  PROVE  Bytes!Next
<1> DEFINE buf == [i \in Sectors |-> image[i]]
<1>1. /\ request \in Bytes!Requests /\ request # None
      /\ request.kind = "read" /\ request' = None /\ image' = image
      /\ reply' = Bytes!Slice(buf, request.off, request.len)
  BY DEF DiskInv, ReadAt, Return
<1>2. request.off \in Nat /\ request.len \in Nat
  BY <1>1, RequestFields, DiskAssumption
<1>3. ASSUME NEW i \in 0..(request.len - 1)
      PROVE  buf[request.off + i] = image[request.off + i]
  <2>1. request.off + i \in Bytes!Span(request.off, request.len)
    BY <1>2 DEF Bytes!Span
  <2> QED
    BY <1>1, <2>1, SpanInSectors
<1>4. Bytes!Slice(buf, request.off, request.len)
      = Bytes!Slice(image, request.off, request.len)
  BY <1>3 DEF Bytes!Slice
<1>5. Bytes!Read
  BY <1>1, <1>4 DEF Bytes!Read
<1> QED
  BY <1>5 DEF Bytes!Next

LEMMA PwriteRefines ==
  ASSUME DiskInv, Pwrite
  PROVE  Bytes!Next
<1> DEFINE S == Bytes!Span(request.off, request.len)
<1>1. /\ request \in Bytes!Requests /\ request # None
      /\ request.kind = "write" /\ request' = None
      /\ reply' = request.len /\ image' = Merged(Sectors)
  BY DEF DiskInv, Pwrite, Return, Merged
<1>2. S \subseteq Sectors
  BY <1>1, SpanInSectors
<1>3. Sectors \cap S = S
  BY <1>2
<1>4. image' = Bytes!Written(S)
  BY <1>1, <1>3, MergedIsWritten DEF Pwrite
<1>5. Bytes!Write
  BY <1>1, <1>4 DEF Bytes!Write
<1> QED
  BY <1>5 DEF Bytes!Next

LEMMA PwriteFailsRefines ==
  ASSUME DiskInv, PwriteFails
  PROVE  Bytes!Next
<1>1. PICK W \in SUBSET Sectors : image' = Merged(W)
  BY DEF PwriteFails, Merged
<1>2. request # None /\ request.kind = "write" /\ request' = None
      /\ reply' = None
  BY DEF DiskInv, PwriteFails, Return
<1>3. \E V \in SUBSET (Bytes!Span(request.off, request.len)
                       \cap (0..(Size - 1))) : image' = Bytes!Written(V)
  BY <1>1, MergedIsWritten DEF PwriteFails
<1>4. Bytes!Fail
  BY <1>2, <1>3 DEF Bytes!Fail
<1> QED
  BY <1>4 DEF Bytes!Next

LEMMA NextRefines == DiskInv /\ [DiskNext]_diskvars => [Bytes!Next]_Bytes!vars
<1> SUFFICES ASSUME DiskInv, [DiskNext]_diskvars
             PROVE  [Bytes!Next]_Bytes!vars
  OBVIOUS
<1>1. CASE UNCHANGED diskvars
  BY <1>1 DEF diskvars, Bytes!vars
<1>2. CASE \E r \in Bytes!Requests : Ask(r)
  BY <1>2 DEF Ask, Bytes!Ask, Bytes!Next
<1>3. CASE AnswerEmpty
  BY <1>3, EmptyRefines
<1>4. CASE PreadFails
  BY <1>4 DEF PreadFails, Return, Bytes!Fail, Bytes!Next
<1>5. CASE ReadAt
  BY <1>5, ReadRefines
<1>6. CASE Patch
  BY <1>6 DEF Patch, Bytes!vars
<1>7. CASE Pwrite
  BY <1>7, PwriteRefines
<1>8. CASE PwriteFails
  BY <1>8, PwriteFailsRefines
<1> QED
  BY <1>1, <1>2, <1>3, <1>4, <1>5, <1>6, <1>7, <1>8 DEF DiskNext

---------------------------------------------------------------------------
(* Theorems                                                                *)

\* The sectors a write has read and patched are the image with the data in
\* place until they are written back: nothing comes between.
THEOREM BufferCorrect == DiskSpec => []DiskInv
BY InitInv, NextInv, PTL DEF DiskSpec

\* Reading, patching and writing back whole sectors is reading and writing
\* bytes, also when a write arrives in part, whatever the size of a sector.
THEOREM Refinement == DiskSpec => BytesAsWritten
<1>1. DiskInit => Bytes!Init
  BY DEF DiskInit, Bytes!Init
<1> QED
  BY <1>1, BufferCorrect, NextRefines, PTL
  DEF DiskSpec, BytesAsWritten, Bytes!Spec

---------------------------------------------------------------------------
(* The output of a command, and the chunks of an upload                    *)

\* As long as the copying goes on, what was read is kept up to the limit; it
\* has stopped only in the middle of a chunk, with more read than is kept.
OutputInv ==
  /\ printed \in Nat /\ unread \in Nat /\ captured \in Nat
  /\ unread <= printed
  /\ copier \in {"copying", "stopped", "ended"}
  /\ captured = Smaller(printed - unread, Limit)
  /\ copier = "stopped" => printed - unread > Limit
  /\ copier = "ended" => unread = 0 /\ exit # Running
  /\ outcome = "passed" => copier # "copying" /\ exit # Running
  /\ outcome = "failed" =>
       expired \/ copier = "stopped" \/ (exit # Running /\ Unexpected)

LEMMA OutputStarts == OutputInit => OutputInv
  BY OutputAssumption DEF OutputInit, OutputInv, Smaller

(* Reading and copying keep count of what was read and kept.               *)
LEMMA OutputStep == OutputInv /\ [OutputNext]_outputvars => OutputInv'
<1> SUFFICES ASSUME OutputInv, [OutputNext]_outputvars PROVE OutputInv'
  OBVIOUS
<1> USE OutputAssumption DEF OutputInv, Smaller, Unexpected
<1>1. CASE UNCHANGED outputvars
  BY <1>1 DEF outputvars
<1>2. ASSUME NEW n \in 1..MaxOutput, CommandPrints(n) PROVE OutputInv'
  BY <1>2 DEF CommandPrints
<1>3. ASSUME NEW code \in {0, 1}, CommandExits(code) PROVE OutputInv'
  BY <1>3 DEF CommandExits, Running
<1>4. ASSUME NEW n \in 1..Chunk, Copy(n) PROVE OutputInv'
  <2> DEFINE room == Limit - captured
             cut == ShortWrite(n, room)
  <2>1. /\ printed' = printed /\ exit' = exit /\ outcome' = outcome
        /\ expect' = expect /\ expired' = expired
        /\ n <= unread /\ unread' = unread - n
        /\ captured' = captured + Smaller(n, room)
        /\ copier = "copying" /\ copier' = IF cut THEN "stopped" ELSE "copying"
    BY <1>4 DEF Copy
  <2>2. room \in Nat /\ n \in Nat
    OBVIOUS
  <2>3. captured' = Smaller(printed' - unread', Limit) /\ captured' \in Nat
    BY <2>1, <2>2
  <2>4. cut => printed' - unread' > Limit
    BY <2>1, <2>2 DEF ShortWrite
  <2> HIDE DEF cut, room
  <2> QED
    BY <2>1, <2>2, <2>3, <2>4
<1>5. CASE CopyEnds
  BY <1>5 DEF CopyEnds
<1>6. CASE RunCommandReturns
  BY <1>6 DEF RunCommandReturns
<1>7. CASE StepExpires
  BY <1>7 DEF StepExpires
<1> QED
  BY <1>1, <1>2, <1>3, <1>4, <1>5, <1>6, <1>7 DEF OutputNext

\* An exec step that passes has its output up to the limit, and one that
\* prints no more than the limit does not fail for its output, however the
\* output is cut into chunks.
THEOREM OutputCorrect == OutputSpec => []OutputUpToLimit
<1>1. OutputInv => OutputUpToLimit
  BY OutputAssumption DEF OutputInv, OutputUpToLimit, Smaller
<1> QED
  BY <1>1, OutputStarts, OutputStep, PTL DEF OutputSpec

---------------------------------------------------------------------------
\* The chunks before the next one.
Sent(n) == [i \in 1..(n - 1) |-> i]

UploadInv ==
  /\ chunks \in Nat /\ next \in Nat
  /\ upload \in {"none", "sending", "ok", "failed"}
  /\ upload = "none" => chunks = 0 /\ next = 0
  /\ upload = "sending" => next <= chunks + 1
  /\ upload = "ok" => next = chunks + 1
  /\ next <= 1 /\ upload # "failed" => remote \in {Missing, Old}
  /\ next > 1 /\ ~ignored /\ upload # "failed" => remote = Sent(next)
  /\ upload \in {"none", "sending"} => local = Missing
  /\ local # Missing => local = remote

LEMMA UploadBegins == UploadInit => UploadInv
  BY DEF UploadInit, UploadInv

\* A chunk that arrives completes those before it.
LEMMA StoredFact ==
  ASSUME UploadInv, upload = "sending", ~ignored
  PROVE  /\ next = 0 => Stored = remote
         /\ next > 0 => Stored = Sent(next + 1)
<1>1. CASE next = 0
  BY <1>1 DEF Stored
<1>2. CASE next = 1
  BY <1>2 DEF Stored, Sent
<1>3. CASE next > 1
  <2>1. Stored = Append(Sent(next), next)
    BY <1>3 DEF Stored, UploadInv
  <2>2. Sent(next) \in Seq(Nat) /\ Len(Sent(next)) = next - 1
    BY <1>3 DEF Sent, UploadInv
  <2>3. Append(Sent(next), next) = Sent(next + 1)
    BY <1>3, <2>2 DEF Sent, UploadInv
  <2> QED
    BY <1>3, <2>1, <2>3
<1> QED
  BY <1>1, <1>2, <1>3 DEF UploadInv

(* Each command of an upload keeps the chunks before it in place.          *)
LEMMA UploadStep == UploadInv /\ [UploadNext]_uploadvars => UploadInv'
<1> SUFFICES ASSUME UploadInv, [UploadNext]_uploadvars PROVE UploadInv'
  OBVIOUS
<1> USE DEF UploadInv
<1>1. CASE UNCHANGED uploadvars
  BY <1>1 DEF uploadvars
<1>2. ASSUME NEW n \in 0..MaxChunks, NEW dir \in BOOLEAN,
             NEW before \in {Missing, Old}, UploadStarts(n, dir, before)
      PROVE  UploadInv'
  BY <1>2, UploadAssumption DEF UploadStarts
<1>3. CASE CommandEnds
  <2>1. /\ upload = "sending" /\ upload' = "sending" /\ chunks' = chunks
        /\ next <= chunks /\ next' = next + 1
        /\ local = Missing /\ local' = local
    BY <1>3 DEF CommandEnds
  <2>2. CASE remote' = Stored /\ ignored' = ignored
    <3>1. next = 0 => remote' = remote
      BY <2>2 DEF Stored
    <3>2. ~ignored' /\ next > 0 => remote' = Sent(next')
      BY <2>1, <2>2, StoredFact
    <3> QED
      BY <2>1, <2>2, <3>1, <3>2
  <2>3. CASE remote' = remote /\ ignored'
    BY <2>1, <2>3
  <2> QED
    BY <1>3, <2>2, <2>3 DEF CommandEnds
<1>4. CASE CommandLost
  BY <1>4 DEF CommandLost
<1>5. CASE UploadReturns
  BY <1>5 DEF UploadReturns
<1>6. CASE Download
  BY <1>6 DEF Download
<1> QED
  BY <1>1, <1>2, <1>3, <1>4, <1>5, <1>6 DEF UploadNext

\* An upload over WinRM that succeeds has put every chunk in its place unless
\* a command failed in the guest, whose exit code Upload does not look at.
THEOREM UploadCorrect == UploadSpec => []UploadWhole
<1>1. UploadInv => UploadWhole
  BY DEF UploadInv, UploadWhole, Whole, Sent
<1> QED
  BY <1>1, UploadBegins, UploadStep, PTL DEF UploadSpec

---------------------------------------------------------------------------
(* Files over the socket                                                   *)

(* The first n blocks of what a request is to deliver.                     *)
Begin(r, n) == [i \in 1..n |-> Wanted(r)[i]]

ServerStages == {"none", "create", "write", "open", "send", "over", "aborted",
                 "error"}
ClientStages == {"idle", "waiting", "copying", "ok", "failed", "short"}

ExchangeType ==
  /\ kind \in [Requesters -> Kinds \cup {"none"}]
  /\ via \in [Requesters -> Paths \cup {"none"}]
  /\ target \in [Requesters -> Paths \cup {"none"}]
  /\ server \in [Requesters -> ServerStages]
  /\ client \in [Requesters -> ClientStages]
  /\ crossed \in [Requesters -> BOOLEAN]
  /\ DOMAIN host = Paths
  /\ DOMAIN written = Requesters /\ DOMAIN size = Requesters
  /\ DOMAIN sent = Requesters /\ DOMAIN got = Requesters
  /\ DOMAIN saved = Requesters

(* How far the handler and the client of a request may be apart.           *)
InStep(r) ==
  /\ client[r] = "idle" <=> server[r] = "none"
  /\ client[r] # "idle" =>
       /\ kind[r] \in Kinds /\ via[r] \in Paths
       /\ kind[r] = "upload" <=> target[r] = "none"
  /\ server[r] \in {"create", "write", "open"} => client[r] = "waiting"
  /\ server[r] = "send" => client[r] \in {"waiting", "copying"}
  /\ server[r] = "aborted" => kind[r] # "upload"
  /\ client[r] = "copying" =>
       kind[r] # "upload" /\ server[r] \in {"send", "over", "aborted"}
  /\ client[r] = "ok" => server[r] = "over"
  /\ client[r] = "short" => server[r] = "aborted"
  /\ client[r] = "failed" => server[r] = "error"

(* A request that nobody has crossed has its files to itself.              *)
Apart(r) ==
  ~crossed[r] /\ Active(r) =>
    \A q \in Requesters \ {r} :
      Active(q) => FilesOf(q) \cap FilesOf(r) = {}

(* Before the answer: the handler's file grows to what is wanted.          *)
Prepared(r) ==
  /\ server[r] \in {"none", "create", "write", "open"} =>
       sent[r] = <<>> /\ got[r] = 0
  /\ server[r] \in {"none", "create"} => written[r] = 0
  /\ server[r] = "write" =>
       written[r] \in 0..(Blocks - 1) /\ host[via[r]] = Begin(r, written[r])
  /\ server[r] = "open" => host[via[r]] = Wanted(r)

(* From then on what has been sent is a beginning of it.  The client may    *)
(* have emptied the file that is being sent, and then no more comes.       *)
Answered(r) ==
  /\ server[r] \in {"send", "over", "aborted"} =>
       /\ size[r] = Blocks
       /\ Len(sent[r]) \in 0..Blocks /\ sent[r] = Begin(r, Len(sent[r]))
       /\ got[r] \in 0..Len(sent[r])
  /\ server[r] = "send" /\ (client[r] = "waiting" \/ via[r] # target[r]) =>
       host[via[r]] = Wanted(r)
  /\ server[r] = "over" => Len(sent[r]) = Blocks
  /\ server[r] = "aborted" => via[r] = target[r]

(* And what the client has written is a beginning of what was sent.        *)
Received(r) ==
  /\ client[r] = "waiting" => got[r] = 0
  /\ client[r] = "copying" => host[target[r]] = Begin(r, got[r])
  /\ client[r] = "ok" /\ kind[r] # "upload" => saved[r] = Wanted(r)

Uncrossed(r) == ~crossed[r] => Prepared(r) /\ Answered(r) /\ Received(r)

RequestsInv ==
  /\ ExchangeType
  /\ \A r \in Requesters : InStep(r) /\ Apart(r) /\ Uncrossed(r)

---------------------------------------------------------------------------
(* Files over IPC: the arithmetic of blocks                                *)

(* What a beginning is, as a sequence, and how it grows by one block,      *)
(* appended or put at its place in a file.                                 *)
LEMMA BeginFacts ==
  ASSUME NEW r, NEW n \in 0..Blocks
  PROVE  /\ Len(Begin(r, n)) = n /\ Begin(r, 0) = <<>>
         /\ Begin(r, Blocks) = Wanted(r) /\ Len(Wanted(r)) = Blocks
         /\ n < Blocks =>
              /\ PutAt(Begin(r, n), n + 1, Wanted(r)[n + 1]) = Begin(r, n + 1)
              /\ Append(Begin(r, n), Wanted(r)[n + 1]) = Begin(r, n + 1)
         /\ \A k \in 1..n : Begin(r, n)[k] = Wanted(r)[k]
<1> USE RequestsAssumption
<1> DEFINE w == IF kind[r] = "download" THEN "guest" ELSE r
           B == {<<w, i>> : i \in 1..Blocks}
<1>1. /\ \A i \in 1..Blocks : Wanted(r)[i] \in B
      /\ Wanted(r) \in Seq(B) /\ Len(Wanted(r)) = Blocks
      /\ Wanted(r) = [i \in 1..Blocks |-> Wanted(r)[i]]
  BY DEF Wanted
<1> HIDE DEF B, w
<1>2. Begin(r, n) \in Seq(B) /\ Len(Begin(r, n)) = n
  <2>1. n \in Nat /\ 1..n \subseteq 1..Blocks
    OBVIOUS
  <2>2. Begin(r, n) \in [1..n -> B]
    BY <1>1, <2>1 DEF Begin
  <2>3. Begin(r, n) \in Seq(B)
    BY <2>1, <2>2
  <2> QED
    BY <2>1, <2>2, <2>3
<1>3. Begin(r, 0) = <<>> /\ Begin(r, Blocks) = Wanted(r)
  BY <1>1 DEF Begin
<1>4. \A k \in 1..n : Begin(r, n)[k] = Wanted(r)[k]
  BY DEF Begin
<1>5. ASSUME n < Blocks
      PROVE  PutAt(Begin(r, n), n + 1, Wanted(r)[n + 1]) = Begin(r, n + 1)
  BY <1>2, <1>4, <1>5 DEF PutAt, Begin
<1>6. ASSUME n < Blocks
      PROVE  Append(Begin(r, n), Wanted(r)[n + 1]) = Begin(r, n + 1)
  <2>1. Wanted(r)[n + 1] \in B
    BY <1>1, <1>6
  <2>2. Append(Begin(r, n), Wanted(r)[n + 1])
        = [j \in 1..(n + 1) |->
             IF j = n + 1 THEN Wanted(r)[n + 1] ELSE Begin(r, n)[j]]
    BY <1>2, <2>1
  <2> QED
    BY <1>4, <2>2 DEF Begin
<1> QED
  BY <1>1, <1>2, <1>3, <1>4, <1>5, <1>6

(* The part of a request's state that another request never touches.       *)
Own(r) == <<kind[r], via[r], target[r], server[r], client[r], written[r],
            size[r], sent[r], got[r], saved[r]>>

(* A request keeps what it has if nobody has written to its files.         *)
LEMMA Undisturbed ==
  ASSUME NEW r \in Requesters, ExchangeType,
         InStep(r), Uncrossed(r), Own(r)' = Own(r),
         ~crossed'[r] => ~crossed[r],
         ~crossed[r] /\ Active(r) =>
           /\ host'[via[r]] = host[via[r]]
           /\ target[r] # "none" => host'[target[r]] = host[target[r]]
  PROVE  InStep(r)' /\ Uncrossed(r)'
<1>1. /\ kind'[r] = kind[r] /\ via'[r] = via[r] /\ target'[r] = target[r]
      /\ server'[r] = server[r] /\ client'[r] = client[r]
      /\ written'[r] = written[r] /\ size'[r] = size[r]
      /\ sent'[r] = sent[r] /\ got'[r] = got[r] /\ saved'[r] = saved[r]
  BY DEF Own
<1>2. Wanted(r)' = Wanted(r) /\ \A n : Begin(r, n)' = Begin(r, n)
  BY <1>1 DEF Wanted, Begin
<1>3. InStep(r)'
  BY <1>1 DEF InStep
<1>4. ASSUME ~crossed'[r] PROVE Prepared(r)' /\ Answered(r)' /\ Received(r)'
  <2>1. Prepared(r) /\ Answered(r) /\ Received(r)
    BY <1>4 DEF Uncrossed
  <2>2. Prepared(r)'
    BY <1>1, <1>2, <1>4, <2>1 DEF Prepared, Active, Begin
  <2>3. Answered(r)'
    BY <1>1, <1>2, <1>4, <2>1 DEF Answered, Active, Begin
  <2>4. Received(r)'
    BY <1>1, <1>2, <1>4, <2>1 DEF Received, Active, InStep, Begin
  <2> QED
    BY <2>2, <2>3, <2>4
<1> QED
  BY <1>3, <1>4 DEF Uncrossed

(* One request takes a step, on its own files at most.                     *)
StepOf(q) ==
  \/ ServerCreates(q) \/ ServerWrites(q) \/ ServerFails(q) \/ ServerOpens(q)
  \/ ServerSends(q) \/ ServerEnds(q) \/ ClientAnswered(q) \/ ClientCreates(q)
  \/ ClientCopies(q) \/ ClientEnds(q)

(* What such a step leaves alone.                                          *)
LEMMA StepFrame ==
  ASSUME ExchangeType, NEW q \in Requesters, InStep(q), StepOf(q)
  PROVE  /\ ExchangeType'
         /\ crossed' = crossed /\ kind' = kind /\ via' = via
         /\ target' = target /\ Active(q)
         /\ \A r \in Requesters \ {q} : Own(r)' = Own(r)
         /\ \A f \in Paths \ FilesOf(q) : host'[f] = host[f]
         /\ \A r \in Requesters : Active(r)' => Active(r)
<1> USE DEF ExchangeType, restofclient, restofserver, InStep, Active,
     ServerStages, ClientStages
<1>1. /\ ExchangeType'
      /\ crossed' = crossed /\ kind' = kind /\ via' = via
      /\ target' = target /\ Active(q)
      /\ \A r \in Requesters : Active(r)' => Active(r)
  BY DEF StepOf, ServerCreates, ServerWrites, ServerFails, ServerOpens,
    ServerSends, ServerEnds, ClientAnswered, ClientCreates, ClientCopies,
    ClientEnds
<1>2. \A r \in Requesters \ {q} : Own(r)' = Own(r)
  BY DEF Own, StepOf, ServerCreates, ServerWrites, ServerFails, ServerOpens,
    ServerSends, ServerEnds, ClientAnswered, ClientCreates, ClientCopies,
    ClientEnds
<1>3. \A f \in Paths \ FilesOf(q) : host'[f] = host[f]
  BY RequestsAssumption DEF FilesOf, StepOf, ServerCreates, ServerWrites,
    ServerFails, ServerOpens, ServerSends, ServerEnds, ClientAnswered,
    ClientCreates, ClientCopies, ClientEnds
<1> QED
  BY <1>1, <1>2, <1>3

(* What a step makes of the request that takes it.                          *)
LEMMA StepOfOne ==
  ASSUME ExchangeType, NEW q \in Requesters, InStep(q), Uncrossed(q),
         StepOf(q)
  PROVE  InStep(q)' /\ Uncrossed(q)'
<1> USE RequestsAssumption DEF ExchangeType, restofclient, restofserver
<1>1. InStep(q)'
  BY DEF InStep, StepOf, ServerCreates, ServerWrites, ServerFails,
    ServerOpens, ServerSends, ServerEnds, ClientAnswered, ClientCreates,
    ClientCopies, ClientEnds, Responding
<1>2. crossed' = crossed /\ kind' = kind /\ via' = via /\ target' = target
  BY StepFrame
<1>3. Wanted(q)' = Wanted(q) /\ \A n : Begin(q, n)' = Begin(q, n)
  BY <1>2 DEF Wanted, Begin
<1>4. ASSUME ~crossed'[q] PROVE Prepared(q)' /\ Answered(q)' /\ Received(q)'
  <2>0. Prepared(q) /\ Answered(q) /\ Received(q)
    BY <1>2, <1>4 DEF Uncrossed
  <2> USE <2>0, <1>2 DEF Prepared, Answered, Received
  <2>1. CASE ServerCreates(q)
    <3>1. host'[via[q]] = Begin(q, 0) /\ via[q] \in Paths
      BY <2>1, BeginFacts DEF ServerCreates, InStep
    <3> QED
      BY <2>1, <1>3, <3>1 DEF ServerCreates, InStep
  <2>2. CASE ServerWrites(q)
    <3> DEFINE i == written[q] + 1
    <3>1. /\ via[q] \in Paths /\ written[q] \in 0..Blocks
          /\ i - 1 = written[q] /\ i \in 1..Blocks
      BY <2>2 DEF ServerWrites, InStep
    <3>2. host'[via[q]] = Begin(q, i)
      BY <2>2, <3>1, BeginFacts DEF ServerWrites
    <3>3. i = Blocks => Begin(q, i) = Wanted(q)
      BY <3>1, BeginFacts
    <3>4. /\ written'[q] = i /\ client' = client /\ sent' = sent /\ got' = got
          /\ server'[q] = IF i = Blocks THEN "open" ELSE "write"
          /\ client[q] = "waiting"
      BY <2>2 DEF ServerWrites, InStep
    <3> HIDE DEF i
    <3> QED
      BY <1>3, <2>2, <3>1, <3>2, <3>3, <3>4 DEF ServerWrites
  <2>3. CASE ServerFails(q)
    BY <2>3, <1>3 DEF ServerFails, InStep
  <2>4. CASE ServerOpens(q)
    <3>1. /\ Len(host[via[q]]) = Blocks /\ Len(sent[q]) = 0
          /\ sent[q] = Begin(q, 0)
      BY <2>4, BeginFacts DEF ServerOpens
    <3> QED
      BY <2>4, <1>3, <3>1 DEF ServerOpens, InStep
  <2>5. CASE ServerSends(q)
    <3> DEFINE n == Len(sent[q])
    <3>1. n \in 0..Blocks /\ n < Len(host[via[q]]) /\ server[q] = "send"
      BY <2>5 DEF ServerSends, MoreToSend
    <3>2. host[via[q]] = Wanted(q)
      <4>1. CASE client[q] = "waiting" \/ via[q] # target[q]
        BY <3>1, <4>1
      <4>2. CASE client[q] = "copying" /\ via[q] = target[q]
        BY <3>1, <4>2, BeginFacts
      <4> QED
        BY <3>1, <4>1, <4>2 DEF InStep
    <3>3. n < Blocks
      BY <3>1, <3>2, BeginFacts
    <3>4. sent'[q] = Begin(q, n + 1) /\ Len(sent'[q]) = n + 1
      BY <2>5, <3>1, <3>2, <3>3, BeginFacts DEF ServerSends
    <3>5. /\ UNCHANGED <<server, client, host, written, size, got, saved>>
      BY <2>5 DEF ServerSends
    <3>6. n + 1 \in 0..Blocks
      BY <3>1, <3>3
    <3>7. got[q] \in 0..(n + 1)
      BY <3>1
    <3> HIDE DEF n
    <3> QED
      BY <1>3, <3>1, <3>2, <3>4, <3>5, <3>6, <3>7 DEF InStep
  <2>6. CASE ServerEnds(q)
    <3>1. server[q] = "send" /\ ~MoreToSend(q) /\ size[q] = Blocks
      BY <2>6 DEF ServerEnds
    <3>2. CASE client[q] = "waiting" \/ via[q] # target[q]
      <4>1. Len(host[via[q]]) = Blocks
        BY <3>1, <3>2, BeginFacts
      <4>2. Len(sent[q]) = Blocks
        BY <3>1, <4>1 DEF MoreToSend
      <4> QED
        BY <1>3, <2>6, <3>1, <4>2 DEF ServerEnds, InStep
    <3>3. CASE client[q] = "copying" /\ via[q] = target[q]
      BY <1>3, <2>6, <3>1, <3>3 DEF ServerEnds, InStep
    <3> QED
      BY <3>1, <3>2, <3>3 DEF InStep
  <2>7. CASE ClientAnswered(q)
    BY <2>7, <1>3 DEF ClientAnswered, InStep
  <2>8. CASE ClientCreates(q)
    <3>1. /\ target[q] \in Paths /\ client'[q] = "copying" /\ got[q] = 0
          /\ UNCHANGED <<server, written, size, sent, got, saved>>
          /\ server[q] \in {"send", "over", "aborted"}
      BY <2>8 DEF ClientCreates, Responding, InStep, Kinds
    <3>2. host'[target[q]] = Begin(q, 0)
      BY <2>8, <3>1, BeginFacts DEF ClientCreates
    <3>3. via[q] # target[q] => host'[via[q]] = host[via[q]]
      BY <2>8, <3>1 DEF ClientCreates, InStep
    <3> QED
      BY <1>3, <3>1, <3>2, <3>3
  <2>9. CASE ClientCopies(q)
    <3> DEFINE i == got[q] + 1
    <3>1. /\ target[q] \in Paths /\ client'[q] = "copying"
          /\ client[q] = "copying"
          /\ UNCHANGED <<server, written, size, sent, saved>>
          /\ server[q] \in {"send", "over", "aborted"}
      BY <2>9 DEF ClientCopies, InStep, Kinds
    <3>2. /\ i \in 1..Len(sent[q]) /\ got'[q] = i /\ Len(sent[q]) \in 0..Blocks
          /\ got[q] \in 0..Blocks /\ got[q] < Blocks /\ i \in 0..Blocks
      BY <2>9, <3>1 DEF ClientCopies
    <3>3. sent[q][i] = Wanted(q)[i]
      BY <3>1, <3>2, BeginFacts
    <3>4. host'[target[q]] = Begin(q, i)
      BY <2>9, <3>1, <3>2, <3>3, BeginFacts DEF ClientCopies
    <3>5. via[q] # target[q] => host'[via[q]] = host[via[q]]
      BY <2>9, <3>1 DEF ClientCopies, InStep
    <3> HIDE DEF i
    <3> QED
      BY <1>3, <3>1, <3>2, <3>4, <3>5
  <2>10. CASE ClientEnds(q)
    <3>1. /\ client[q] = "copying" /\ server[q] \in {"over", "aborted"}
          /\ got[q] = Len(sent[q]) /\ saved'[q] = Begin(q, got[q])
          /\ client'[q] = IF server[q] = "over" THEN "ok" ELSE "short"
          /\ UNCHANGED <<server, host, written, size, sent, got>>
      BY <2>10 DEF ClientEnds
    <3>2. server[q] = "over" => saved'[q] = Wanted(q)
      BY <3>1, BeginFacts
    <3> QED
      BY <1>3, <3>1, <3>2
  <2> QED
    BY <2>1, <2>2, <2>3, <2>4, <2>5, <2>6, <2>7, <2>8, <2>9, <2>10 DEF StepOf
<1> QED
  BY <1>1, <1>4 DEF Uncrossed

(* Before the first request no file has been touched.                      *)
LEMMA RequestsStart == RequestsInit => RequestsInv
<1> SUFFICES ASSUME RequestsInit PROVE RequestsInv
  OBVIOUS
<1>1. ExchangeType
  BY DEF RequestsInit, ExchangeType, ServerStages, ClientStages
<1>2. ASSUME NEW r \in Requesters
      PROVE  InStep(r) /\ Apart(r) /\ Uncrossed(r)
  BY <1>2 DEF RequestsInit, InStep, Apart, Uncrossed, Active, Prepared,
    Answered, Received
<1> QED
  BY <1>1, <1>2 DEF RequestsInv

(* Whoever posts a request either finds the files it names unused, or both *)
(* it and those that use them count as crossed.                            *)
LEMMA PostStep ==
  ASSUME RequestsInv, NEW r \in Requesters, NEW k \in Kinds, NEW v \in Paths,
         NEW t \in Paths \cup {"none"}, Post(r, k, v, t)
  PROVE  RequestsInv'
<1> DEFINE others == {q \in Requesters \ {r} : Active(q)
                        /\ FilesOf(q) \cap ({v, t} \ {"none"}) # {}}
<1>1. /\ client[r] = "idle" /\ (k = "upload" <=> t = "none")
      /\ kind' = [kind EXCEPT ![r] = k] /\ via' = [via EXCEPT ![r] = v]
      /\ target' = [target EXCEPT ![r] = t]
      /\ client' = [client EXCEPT ![r] = "waiting"]
      /\ server' = [server EXCEPT ![r] = "create"]
      /\ crossed' = [q \in Requesters |->
                       \/ crossed[q] \/ q \in others
                       \/ q = r /\ others # {}]
      /\ UNCHANGED <<host, written, size, sent, got, saved>>
  BY DEF Post
<1>2. ExchangeType /\ ExchangeType'
  BY <1>1 DEF RequestsInv, ExchangeType, ServerStages, ClientStages
<1>3. \A q \in Requesters \ {r} :
        /\ Own(q)' = Own(q) /\ (Active(q)' <=> Active(q))
        /\ FilesOf(q)' = FilesOf(q)
  BY <1>1, <1>2 DEF Own, Active, FilesOf, ExchangeType
<1>4. FilesOf(r)' = {v, t} \ {"none"}
  BY <1>1, <1>2 DEF FilesOf, ExchangeType
<1>5. \A q \in Requesters : ~crossed'[q] =>
        /\ ~crossed[q] /\ q \notin others /\ (q = r => others = {})
  BY <1>1
<1>6. ASSUME NEW q \in Requesters, ~crossed'[q], Active(q)',
             NEW p \in Requesters \ {q}, Active(p)'
      PROVE  FilesOf(p)' \cap FilesOf(q)' = {}
  <2>1. CASE q = r
    BY <1>3, <1>4, <1>5, <1>6, <2>1
  <2>2. CASE p = r
    BY <1>3, <1>4, <1>5, <1>6, <2>2
  <2>3. CASE p # r /\ q # r
    BY <1>3, <1>5, <1>6, <2>3 DEF RequestsInv, Apart
  <2> QED
    BY <2>1, <2>2, <2>3
<1>7. ASSUME NEW q \in Requesters \ {r}
      PROVE  InStep(q)' /\ Uncrossed(q)'
  BY <1>1, <1>2, <1>3, <1>5, <1>7, Undisturbed DEF RequestsInv
<1>8. InStep(r)' /\ Uncrossed(r)'
  <2>1. server[r] = "none" /\ InStep(r)'
    BY <1>1, <1>2 DEF RequestsInv, InStep, ExchangeType, Kinds
  <2>2. ASSUME ~crossed'[r]
        PROVE  Prepared(r)' /\ Answered(r)' /\ Received(r)'
    <3>1. written[r] = 0 /\ sent[r] = <<>> /\ got[r] = 0
      BY <1>5, <2>1, <2>2 DEF RequestsInv, Uncrossed, Prepared
    <3> QED
      BY <1>1, <1>2, <3>1 DEF Prepared, Answered, Received, ExchangeType
  <2> QED
    BY <2>1, <2>2 DEF Uncrossed
<1> QED
  BY <1>2, <1>6, <1>7, <1>8 DEF RequestsInv, Apart

(* A request of anybody, and any step of its two ends, keeps all of it.    *)
LEMMA RequestsStep == RequestsInv /\ [RequestsNext]_requestvars => RequestsInv'
<1> SUFFICES ASSUME RequestsInv, [RequestsNext]_requestvars
             PROVE  RequestsInv'
  OBVIOUS
<1>1. CASE UNCHANGED requestvars
  <2> USE <1>1 DEF requestvars
  <2>1. ExchangeType'
    BY DEF RequestsInv, ExchangeType
  <2>2. ASSUME NEW r \in Requesters
        PROVE  InStep(r)' /\ Apart(r)' /\ Uncrossed(r)'
    <3>1. InStep(r) /\ Apart(r) /\ Uncrossed(r) /\ ExchangeType
      BY DEF RequestsInv
    <3>2. Apart(r)'
      BY <3>1 DEF Apart, Active, FilesOf
    <3> QED
      BY <3>1, <3>2, Undisturbed DEF Own
  <2> QED
    BY <2>1, <2>2 DEF RequestsInv
<1>2. ASSUME NEW q \in Requesters, StepOf(q) PROVE RequestsInv'
  <2>1. ExchangeType /\ InStep(q) /\ Uncrossed(q)
    BY DEF RequestsInv
  <2>2. /\ ExchangeType'
        /\ crossed' = crossed /\ kind' = kind /\ via' = via
        /\ target' = target /\ Active(q)
        /\ \A r \in Requesters \ {q} : Own(r)' = Own(r)
        /\ \A f \in Paths \ FilesOf(q) : host'[f] = host[f]
        /\ \A r \in Requesters : Active(r)' => Active(r)
    BY <1>2, <2>1, StepFrame
  <2>3. ASSUME NEW r \in Requesters PROVE Apart(r)'
    BY <2>2 DEF RequestsInv, Apart, FilesOf
  <2>4. ASSUME NEW r \in Requesters \ {q} PROVE InStep(r)' /\ Uncrossed(r)'
    <3>1. InStep(r) /\ Uncrossed(r) /\ Apart(r)
      BY DEF RequestsInv
    <3>2. ASSUME ~crossed[r], Active(r)
          PROVE  /\ host'[via[r]] = host[via[r]]
                 /\ target[r] # "none" => host'[target[r]] = host[target[r]]
      <4>1. FilesOf(q) \cap FilesOf(r) = {}
        BY <2>2, <3>1, <3>2 DEF Apart
      <4>2. via[r] \in Paths /\ via[r] \in FilesOf(r)
        BY <2>1, <3>1, <3>2, RequestsAssumption
           DEF InStep, Active, FilesOf, ExchangeType
      <4>3. target[r] # "none" =>
              target[r] \in Paths /\ target[r] \in FilesOf(r)
        BY <2>1 DEF FilesOf, ExchangeType
      <4> QED
        BY <2>2, <4>1, <4>2, <4>3
    <3> QED
      BY <2>1, <2>2, <3>1, <3>2, Undisturbed
  <2>5. InStep(q)' /\ Uncrossed(q)'
    BY <1>2, <2>1, StepOfOne
  <2> QED
    BY <2>2, <2>3, <2>4, <2>5 DEF RequestsInv
<1> QED
  BY <1>1, <1>2, PostStep DEF RequestsNext, StepOf

(* So it holds in every state.                                             *)
LEMMA RequestsInvariant == RequestsSpec => []RequestsInv
  BY RequestsStart, RequestsStep, PTL DEF RequestsSpec

(* A command that succeeds has delivered its own file, whatever requests    *)
(* came before it and whatever they left in the files it uses.              *)
THEOREM DeliveryCorrect == RequestsSpec => []DeliveredWhole
<1>1. RequestsInv => DeliveredWhole
  <2> SUFFICES ASSUME RequestsInv, NEW r \in Requesters,
                      client[r] = "ok", ~crossed[r]
               PROVE  IF kind[r] = "upload" THEN sent[r] = Wanted(r)
                                            ELSE saved[r] = Wanted(r)
    BY DEF DeliveredWhole
  <2>1. InStep(r) /\ Answered(r) /\ Received(r)
    BY DEF RequestsInv, Uncrossed
  <2>2. sent[r] = Begin(r, Blocks)
    BY <2>1 DEF InStep, Answered
  <2> QED
    BY <2>1, <2>2, RequestsAssumption, BeginFacts DEF Received
<1> QED
  BY <1>1, RequestsInvariant, PTL

(* A response is cut short only if the path of the client is the server's,  *)
(* or another request has used one of the two files.                        *)
THEOREM ShortnessCorrect == RequestsSpec => []ShortOnlyIfShared
<1>1. RequestsInv => ShortOnlyIfShared
  BY DEF RequestsInv, ShortOnlyIfShared, InStep, Uncrossed, Answered
<1> QED
  BY <1>1, RequestsInvariant, PTL
=============================================================================
