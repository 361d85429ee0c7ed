---------------------------- MODULE ChunkedUpload ----------------------------
(***************************************************************************)
(* Files over WinRM (src/internal/guest/windows/transport/winrm.go): a     *)
(* PowerShell command for the directory, then one for each chunk, each of  *)
(* which may fail in the guest, or not be answered.                        *)
(***************************************************************************)
EXTENDS Naturals, Sequences

CONSTANT MaxChunks   \* bound: chunks of the file

ASSUME UploadAssumption == MaxChunks \in Nat

VARIABLES
  chunks,     \* chunks of the local file; 0 for an empty one
  directory,  \* the directory exists in the guest
  remote,     \* what the guest's file holds
  next,       \* the command that comes next, 0 for the directory
  ignored,    \* history: a command failed in the guest
  upload,     \* what Upload has returned
  local       \* what a Download has put in its file

uploadvars == <<chunks, directory, remote, next, ignored, upload, local>>

\* No file, and the one of an earlier upload.  An upload never leaves an
\* empty file.
Missing == <<>>
Old == <<0>>
Whole == [i \in 1..chunks |-> i]

UploadInit ==
  /\ chunks = 0 /\ directory = TRUE /\ remote = Missing
  /\ next = 0 /\ ignored = FALSE /\ upload = "none" /\ local = Missing

\* Upload reads the local file; the guest may hold an earlier one.
UploadStarts(n, dir, before) ==
  /\ upload = "none"
  /\ dir \/ before = Missing
  /\ chunks' = n /\ directory' = dir /\ remote' = before
  /\ upload' = "sending"
  /\ UNCHANGED <<next, ignored, local>>

\* A faulty variant: every chunk is written like the first.
StoredAfresh == IF next = 0 THEN remote ELSE <<next>>

\* WriteAllBytes for the first chunk, Open with Append for the others.
Stored ==
  CASE next = 0 -> remote
    [] next = 1 -> <<1>>
    [] OTHER -> Append(remote, next)

\* The exit code of a command is not looked at: whether it did its work or
\* failed in the guest, the next one follows.
CommandEnds ==
  /\ upload = "sending" /\ next <= chunks
  /\ \/ /\ directory \/ next = 0
        /\ remote' = Stored /\ directory' = TRUE
        /\ UNCHANGED ignored
     \/ /\ ignored' = TRUE
        /\ UNCHANGED <<remote, directory>>
  /\ next' = next + 1
  /\ UNCHANGED <<chunks, upload, local>>

\* RunWithContext returns an error; the command may have done its work.
CommandLost ==
  /\ upload = "sending" /\ next <= chunks
  /\ upload' = "failed"
  /\ remote' \in {remote} \cup (IF directory THEN {Stored} ELSE {})
  /\ UNCHANGED <<chunks, directory, next, ignored, local>>

UploadReturns ==
  /\ upload = "sending" /\ next > chunks
  /\ upload' = "ok"
  /\ UNCHANGED <<chunks, directory, remote, next, ignored, local>>

\* Download reads the file with one command and does look at its exit code.
Download ==
  /\ upload \in {"ok", "failed"} /\ remote # Missing
  /\ local' = remote
  /\ UNCHANGED <<chunks, directory, remote, next, ignored, upload>>

UploadNext ==
  \/ \E n \in 0..MaxChunks, dir \in BOOLEAN, before \in {Missing, Old} :
       UploadStarts(n, dir, before)
  \/ CommandEnds \/ CommandLost \/ UploadReturns \/ Download

UploadSpec == UploadInit /\ [][UploadNext]_uploadvars

---------------------------------------------------------------------------
(* Properties                                                              *)

\* An upload that succeeds has put the whole file in the guest, in order and
\* over whatever was there, unless a command failed in the guest, of which
\* Upload does not tell, or the file is empty: then nothing is written and an
\* earlier file stays.  What can be downloaded afterwards is that file.
UploadWhole ==
  /\ upload = "ok" /\ ~ignored /\ chunks > 0 => remote = Whole
  /\ upload = "ok" /\ chunks = 0 => remote \in {Missing, Old}
  /\ local # Missing => local = remote
=============================================================================
