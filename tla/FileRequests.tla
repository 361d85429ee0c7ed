---------------------------- MODULE FileRequests ----------------------------
(***************************************************************************)
(* Files that travel over IPC (src/internal/ipc): `action file-upload`,    *)
(* `file-download` and `screenshot`.  Client and server run on one host,   *)
(* the server handles each request in a goroutine, and everything passes   *)
(* through files with names that others may use.  Contents are sequences   *)
(* of blocks <<whose, number>>.                                            *)
(***************************************************************************)
EXTENDS Naturals, Sequences, FiniteSets

CONSTANTS
  Requesters,  \* commands on the host
  Paths,       \* files of the host
  Blocks       \* how many blocks a file, a picture has

ASSUME RequestsAssumption == Blocks \in Nat \ {0} /\ "none" \notin Paths

VARIABLES
  kind,     \* what a command asks for
  via,      \* the file the server puts the data in
  target,   \* the file the client puts the data in (not for an upload)
  server,   \* where the handler is
  client,   \* where the client is
  host,     \* the files of the host
  written,  \* blocks the handler has written to via
  size,     \* the length of the response
  sent,     \* what the handler has read and sent, to guest or client
  got,      \* blocks the client has written
  saved,    \* history: what target held when the client was done
  crossed   \* history: another request used one of its files meanwhile

requestvars == <<kind, via, target, server, client, host, written, size, sent,
                 got, saved, crossed>>

Kinds == {"upload", "download", "screenshot"}
Hole == <<"hole", 0>>

\* What a request is to deliver.  A download is of the one file of the guest.
Wanted(r) == [i \in 1..Blocks |-> <<IF kind[r] = "download" THEN "guest"
                                    ELSE r, i>>]

\* A write at a position, which a truncation may have left beyond the end.
PutAt(f, i, b) ==
  [j \in 1..(IF Len(f) < i THEN i ELSE Len(f)) |->
     IF j = i THEN b ELSE IF j <= Len(f) THEN f[j] ELSE Hole]

RequestsInit ==
  /\ kind = [r \in Requesters |-> "none"]
  /\ via = [r \in Requesters |-> "none"]
  /\ target = [r \in Requesters |-> "none"]
  /\ server = [r \in Requesters |-> "none"]
  /\ client = [r \in Requesters |-> "idle"]
  /\ host = [p \in Paths |-> <<>>]
  /\ written = [r \in Requesters |-> 0] /\ size = [r \in Requesters |-> 0]
  /\ sent = [r \in Requesters |-> <<>>] /\ got = [r \in Requesters |-> 0]
  /\ saved = [r \in Requesters |-> <<>>]
  /\ crossed = [r \in Requesters |-> FALSE]

\* The handler or the client may still use its files.
Active(r) == client[r] \notin {"idle", "ok", "failed", "short"}
             \/ server[r] \notin {"none", "over", "aborted", "error"}
FilesOf(r) == {via[r], target[r]} \ {"none"}

\* UploadFile, DownloadFile, Screenshot: post the request.  The temporary
\* file of an upload is named after the file, that of a download after the
\* file in the guest; a relative path may mean another file for the server.
Post(r, k, v, t) ==
  /\ client[r] = "idle"
  /\ k = "upload" <=> t = "none"
  /\ kind' = [kind EXCEPT ![r] = k]
  /\ via' = [via EXCEPT ![r] = v] /\ target' = [target EXCEPT ![r] = t]
  /\ client' = [client EXCEPT ![r] = "waiting"]
  /\ server' = [server EXCEPT ![r] = "create"]
  /\ LET others == {q \in Requesters \ {r} : Active(q)
                      /\ FilesOf(q) \cap ({v, t} \ {"none"}) # {}} IN
       crossed' = [q \in Requesters |->
                     \/ crossed[q] \/ q \in others
                     \/ q = r /\ others # {}]
  /\ UNCHANGED <<host, written, size, sent, got, saved>>

---------------------------------------------------------------------------
(* The server                                                              *)

restofclient == <<kind, via, target, client, got, saved, crossed>>

\* os.WriteFile, os.Create: an earlier file of that name is emptied.
ServerCreates(r) ==
  /\ server[r] = "create"
  /\ server' = [server EXCEPT ![r] = "write"]
  /\ host' = [host EXCEPT ![via[r]] = <<>>]
  /\ UNCHANGED <<restofclient, written, size, sent>>

\* A faulty variant: the last block is still to be flushed.
ServerWritesShort(r) ==
  /\ server[r] = "write"
  /\ LET i == written[r] + 1 IN
       /\ host' = [host EXCEPT ![via[r]] = PutAt(@, i, Wanted(r)[i])]
       /\ written' = [written EXCEPT ![r] = i]
       /\ server' = [server EXCEPT ![r] = IF i >= Blocks - 1 THEN "open"
                                                             ELSE @]
  /\ UNCHANGED <<restofclient, size, sent>>

\* The upload received, the guest's file, the picture: block by block.
ServerWrites(r) ==
  /\ server[r] = "write"
  /\ LET i == written[r] + 1 IN
       /\ host' = [host EXCEPT ![via[r]] = PutAt(@, i, Wanted(r)[i])]
       /\ written' = [written EXCEPT ![r] = i]
       /\ server' = [server EXCEPT ![r] = IF i = Blocks THEN "open" ELSE @]
  /\ UNCHANGED <<restofclient, size, sent>>

\* Writing or the guest fails; the handler answers with an error.
ServerFails(r) ==
  /\ server[r] \in {"create", "write", "send"}
  /\ server[r] = "send" => kind[r] = "upload"
  /\ server' = [server EXCEPT ![r] = "error"]
  /\ UNCHANGED <<restofclient, host, written, size, sent>>

\* FileTransport.Upload opens the temporary file, http.ServeFile the other
\* one, whose size at this moment becomes that of the response.
ServerOpens(r) ==
  /\ server[r] = "open"
  /\ server' = [server EXCEPT ![r] = "send"]
  /\ size' = [size EXCEPT ![r] = Len(host[via[r]])]
  /\ UNCHANGED <<restofclient, host, written, sent>>

MoreToSend(r) ==
  LET n == Len(sent[r]) IN
  n < Len(host[via[r]]) /\ (kind[r] = "upload" \/ n < size[r])

ServerSends(r) ==
  /\ server[r] = "send" /\ MoreToSend(r)
  /\ sent' = [sent EXCEPT ![r] = Append(@, host[via[r]][Len(@) + 1])]
  /\ UNCHANGED <<restofclient, server, host, written, size>>

\* The end of the file: an upload has succeeded, a response that is shorter
\* than announced is aborted.
ServerEnds(r) ==
  /\ server[r] = "send" /\ ~MoreToSend(r)
  /\ server' = [server EXCEPT ![r] =
                  IF kind[r] = "upload" \/ Len(sent[r]) = size[r]
                  THEN "over" ELSE "aborted"]
  /\ UNCHANGED <<restofclient, host, written, size, sent>>

---------------------------------------------------------------------------
(* The client                                                              *)

restofserver == <<kind, via, target, server, written, size, sent, crossed>>

\* The answer to an upload, or an error.
ClientAnswered(r) ==
  /\ client[r] = "waiting"
  /\ \/ kind[r] = "upload" /\ server[r] = "over"
     \/ server[r] = "error"
  /\ client' = [client EXCEPT ![r] = IF server[r] = "over" THEN "ok"
                                                           ELSE "failed"]
  /\ UNCHANGED <<restofserver, host, got, saved>>

\* The header has arrived.
Responding(r) == kind[r] # "upload" /\ server[r] \in {"send", "over", "aborted"}

\* A faulty variant: the client creates the file it has asked the server for.
ClientCreatesVia(r) ==
  /\ client[r] = "waiting" /\ Responding(r)
  /\ client' = [client EXCEPT ![r] = "copying"]
  /\ host' = [host EXCEPT ![via[r]] = <<>>]
  /\ UNCHANGED <<restofserver, got, saved>>

\* os.Create(localPath), while the server may still be reading.
ClientCreates(r) ==
  /\ client[r] = "waiting" /\ Responding(r)
  /\ client' = [client EXCEPT ![r] = "copying"]
  /\ host' = [host EXCEPT ![target[r]] = <<>>]
  /\ UNCHANGED <<restofserver, got, saved>>

ClientCopies(r) ==
  /\ client[r] = "copying" /\ got[r] < Len(sent[r])
  /\ LET i == got[r] + 1 IN
       /\ host' = [host EXCEPT ![target[r]] = PutAt(@, i, sent[r][i])]
       /\ got' = [got EXCEPT ![r] = i]
  /\ UNCHANGED <<restofserver, client, saved>>

\* io.Copy fails if the body was shorter than announced.
ClientEnds(r) ==
  /\ client[r] = "copying" /\ got[r] = Len(sent[r])
  /\ server[r] \in {"over", "aborted"}
  /\ client' = [client EXCEPT ![r] = IF server[r] = "over" THEN "ok"
                                                           ELSE "short"]
  /\ saved' = [saved EXCEPT ![r] = host[target[r]]]
  /\ UNCHANGED <<restofserver, host, got>>

RequestsNext ==
  \E r \in Requesters :
    \/ \E k \in Kinds, v \in Paths, t \in Paths \cup {"none"} : Post(r, k, v, t)
    \/ ServerCreates(r) \/ ServerWrites(r) \/ ServerFails(r)
    \/ ServerOpens(r) \/ ServerSends(r) \/ ServerEnds(r)
    \/ ClientAnswered(r) \/ ClientCreates(r) \/ ClientCopies(r)
    \/ ClientEnds(r)

RequestsSpec == RequestsInit /\ [][RequestsNext]_requestvars

---------------------------------------------------------------------------
(* Properties                                                              *)

\* A command that succeeds has delivered exactly its own file, unless another
\* request used one of its files meanwhile: neither what an earlier request
\* left in the temporary file, which nobody removes, nor the client writing
\* to the very file it is being served can put other bytes in.
DeliveredWhole ==
  \A r \in Requesters : client[r] = "ok" /\ ~crossed[r] =>
    IF kind[r] = "upload" THEN sent[r] = Wanted(r) ELSE saved[r] = Wanted(r)

\* A download or a screenshot is cut short only if another request used its
\* files, or if client and server mean the same file by the path: then the
\* client empties it while it is being served.
ShortOnlyIfShared ==
  \A r \in Requesters :
    client[r] = "short" => crossed[r] \/ via[r] = target[r]
=============================================================================
