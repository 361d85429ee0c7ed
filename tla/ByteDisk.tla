------------------------------ MODULE ByteDisk ------------------------------
(***************************************************************************)
(* What the file systems of go-diskfs expect of an image: a row of bytes,  *)
(* read and written at any offset, by one caller at a time.                *)
(***************************************************************************)
EXTENDS Integers

CONSTANTS
  Size,   \* bytes of the image
  Byte,   \* the values of a byte
  None    \* no request, no data, an error

VARIABLES
  image,    \* the bytes
  request,  \* the call under way
  reply     \* what the last call returned

Span(off, len) == off..(off + len - 1)
Slice(f, off, len) == [i \in 0..(len - 1) |-> f[off + i]]

\* What the image becomes when the bytes of W arrive, and no others.
Written(W) ==
  [i \in 0..(Size - 1) |-> IF i \in W THEN request.data[i - request.off]
                                      ELSE image[i]]

Requests ==
  {[kind |-> "read", off |-> o, len |-> n, data |-> None] :
     o \in 0..Size, n \in 0..Size}
  \cup UNION {[kind : {"write"}, off : 0..Size, len : {n},
               data : [0..(n - 1) -> Byte]] : n \in 0..Size}

Init ==
  /\ image \in [0..(Size - 1) -> Byte]
  /\ request = None /\ reply = None

Ask(r) ==
  /\ request = None
  /\ request' = r /\ reply' = None
  /\ UNCHANGED image

\* A call fails.  A failed read leaves no trace, a failed write has put any
\* of its own bytes in place.
Fail ==
  /\ request # None
  /\ request' = None /\ reply' = None
  /\ \/ UNCHANGED image
     \/ /\ request.kind = "write"
        /\ \E W \in SUBSET (Span(request.off, request.len)
                            \cap (0..(Size - 1))) :
             image' = Written(W)

Read ==
  /\ request # None /\ request.kind = "read"
  /\ reply' = Slice(image, request.off, request.len)
  /\ request' = None
  /\ UNCHANGED image

Write ==
  /\ request # None /\ request.kind = "write"
  /\ image' = Written(Span(request.off, request.len))
  /\ reply' = request.len
  /\ request' = None

Next == (\E r \in Requests : Ask(r)) \/ Fail \/ Read \/ Write

vars == <<image, request, reply>>
Spec == Init /\ [][Next]_vars
=============================================================================
