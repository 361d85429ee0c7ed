------------------------- MODULE QMPMachine_proofs --------------------------
(***************************************************************************)
(* What the QMP client guarantees for every set of callers, every script   *)
(* of calls, every capacity of the response channel and whatever QEMU      *)
(* writes.                                                                 *)
(*                                                                         *)
(* The argument: m.mu is held across steps exactly while a caller awaits   *)
(* a response, so commands are sent one by one; responses then travel      *)
(* from the commands QEMU has not answered through the socket and respCh   *)
(* without ever overtaking each other.                                     *)
(***************************************************************************)
EXTENDS QMPMachine, TLAPS

-----------------------------------------------------------------------------
(* Who changes what.                                                       *)

LEMMA ListenFrame ==
    ASSUME [Next]_vars
    PROVE  \/ \E c \in Clients : Subscribe(c) \/ WaitEvent(c) \/ Unsubscribe(c)
           \/ DispatchEvent \/ CloseListeners
           \/ UNCHANGED listenVars
<1>1. ASSUME NEW c \in Clients,
             \/ ExecuteWrite(c) \/ ExecuteWriteError(c) \/ ExecuteResponse(c)
             \/ ExecuteGiveUp(c) \/ WaitGiveUp(c) \/ ExitSeen(c)
             \/ ExitCancelled(c) \/ Kill(c) \/ GuestCommand(c) \/ Expire(c)
      PROVE  UNCHANGED listenVars
  BY <1>1 DEF ExecuteWrite, ExecuteWriteError, ExecuteResponse,
              ExecuteGiveUp, WaitGiveUp, ExitSeen, ExitCancelled, Kill,
              GuestCommand, Expire
<1>2. LoopRead => UNCHANGED listenVars
  BY DEF LoopRead, LoopReadResponse, LoopReadEvent, LoopReadGarbled,
         LoopReadError
<1>3. MonitorExit \/ Qemu => UNCHANGED listenVars
  BY DEF MonitorExit, Qemu, QemuAnswer, QemuFollowUp, QemuSpeak, QemuCrash,
         QemuExit
<1>4. AllEnded \/ UNCHANGED vars => UNCHANGED listenVars
  BY DEF AllEnded, vars
<1>5. QED
  BY <1>1, <1>2, <1>3, <1>4 DEF Next, Client, Locking, Waiting, Loop

LEMMA QueueFrame ==
    ASSUME [Next]_vars
    PROVE  \/ \E c \in Clients : ExecuteWrite(c) \/ ExecuteResponse(c)
           \/ LoopReadResponse \/ LoopReadEvent \/ LoopReadGarbled
           \/ QemuAnswer \/ QemuFollowUp \/ QemuSpeak \/ QemuExit
           \/ UNCHANGED <<pending, wire, respCh, sent, last>>
<1> USE DEF qemuVars, ghostVars
<1>1. ASSUME NEW c \in Clients,
             \/ ExecuteWriteError(c) \/ ExecuteGiveUp(c) \/ Subscribe(c)
             \/ WaitEvent(c) \/ WaitGiveUp(c) \/ Unsubscribe(c) \/ ExitSeen(c)
             \/ ExitCancelled(c) \/ Kill(c) \/ GuestCommand(c) \/ Expire(c)
      PROVE  UNCHANGED <<pending, wire, respCh, sent, last>>
  BY <1>1 DEF ExecuteWriteError, ExecuteGiveUp, Subscribe, WaitEvent,
              WaitGiveUp, Unsubscribe, ExitSeen, ExitCancelled, Kill,
              GuestCommand, Expire
<1>2. LoopReadError \/ DispatchEvent \/ CloseListeners
          => UNCHANGED <<pending, wire, respCh, sent, last>>
  BY DEF LoopReadError, DispatchEvent, CloseListeners
<1>3. MonitorExit \/ QemuCrash => UNCHANGED <<pending, wire, respCh, sent, last>>
  BY DEF MonitorExit, QemuCrash
<1>4. AllEnded \/ UNCHANGED vars => UNCHANGED <<pending, wire, respCh, sent, last>>
  BY DEF AllEnded, vars
<1>5. QED
  BY <1>1, <1>2, <1>3, <1>4
     DEF Next, Client, Locking, Waiting, Loop, LoopRead, Qemu

-----------------------------------------------------------------------------
(* Listener channels: unsubscribe, the end of the event loop and a new     *)
(* subscription all keep "registered" and "open" together.                 *)

ClosesTypeOK == closes \in [Clients -> Nat]

LEMMA NextListeners ==
    ASSUME ClosesTypeOK, ListenersOpen, [Next]_vars
    PROVE  (ClosesTypeOK /\ ListenersOpen)'
<1> USE DEF ClosesTypeOK, ListenersOpen, listenVars
<1>1. ASSUME NEW c \in Clients, Subscribe(c)
      PROVE  (ClosesTypeOK /\ ListenersOpen)'
  BY <1>1 DEF Subscribe
<1>2. ASSUME NEW c \in Clients, Unsubscribe(c)
      PROVE  (ClosesTypeOK /\ ListenersOpen)'
  BY <1>2 DEF Unsubscribe
<1>3. CASE CloseListeners BY <1>3 DEF CloseListeners
<1>4. ASSUME NEW c \in Clients, WaitEvent(c)
      PROVE  (ClosesTypeOK /\ ListenersOpen)'
  BY <1>4 DEF WaitEvent
<1>5. CASE DispatchEvent BY <1>5 DEF DispatchEvent
<1>6. CASE UNCHANGED listenVars BY <1>6
<1>7. QED BY <1>1, <1>2, <1>3, <1>4, <1>5, <1>6, ListenFrame

(* The program never closes a listener channel twice and never sends on a  *)
(* closed one, whoever unsubscribes while the event loop ends.             *)
THEOREM ListenersCorrect == Spec => []ListenersOpen
<1>1. Init => ClosesTypeOK /\ ListenersOpen
  BY DEF Init, ClosesTypeOK, ListenersOpen
<1>2. QED BY <1>1, NextListeners, PTL DEF Spec

-----------------------------------------------------------------------------
(* Types.                                                                  *)

LEMMA CallType ==
    ASSUME CallTypeOK, NEW c \in Clients PROVE Call(c) \in Calls
BY ClientsAssumption DEF Call, CallTypeOK

LEMMA EntryType ==
    ASSUME NEW call \in Calls
    PROVE  Entry(call) \in {"lock", "subscribe", "exit", "kill", "guest"}
<1>1. call.kind \in Kinds
  BY DEF Calls
<1>2. CASE call.kind = "execute" BY <1>2 DEF Entry
<1>3. CASE call.kind = "wait" BY <1>3 DEF Entry
<1>4. CASE call.kind \in {"exit", "kill", "guest"} BY <1>4 DEF Entry
<1>5. QED BY <1>1, <1>2, <1>3, <1>4 DEF Kinds

LEMMA ReturnType ==
    ASSUME CallTypeOK, NEW c \in Clients, NEW r \in Outcomes, Return(c, r),
           mu' \in Clients \cup {Nobody}
    PROVE  /\ CallTypeOK'
           /\ pc'[c] # "await"
           /\ \A d \in Clients \ {c} : pc'[d] = pc[d]
<1> USE DEF CallTypeOK
<1>1. ip[c] \in 1 .. Len(Script[c]) /\ Script[c] \in Seq(Calls)
  BY ClientsAssumption
<1>2. outcome' \in [Clients -> Outcomes] /\ verdict' \in [Clients -> Outcomes]
  BY DEF Return
<1>3. CASE ip[c] < Len(Script[c]) /\ (r = "ok" \/ Call(c).lenient)
  <2>1. Script[c][ip[c] + 1] \in Calls
    BY <1>1, <1>3
  <2>2. Entry(Script[c][ip[c] + 1])
            \in {"lock", "subscribe", "exit", "kill", "guest"}
    BY <2>1, EntryType
  <2>3. /\ ip' = [ip EXCEPT ![c] = @ + 1]
        /\ pc' = [pc EXCEPT ![c] = Entry(Script[c][ip[c] + 1])]
    BY <1>3 DEF Return
  <2>4. ip' \in [Clients -> Nat] /\ \A d \in Clients : ip'[d] \in 1 .. Len(Script[d])
    BY <1>1, <1>3, <2>3
  <2>5. QED BY <1>2, <2>2, <2>3, <2>4
<1>4. CASE ~(ip[c] < Len(Script[c]) /\ (r = "ok" \/ Call(c).lenient))
  BY <1>2, <1>4 DEF Return
<1>5. QED BY <1>3, <1>4

LEMMA GoToType ==
    ASSUME CallTypeOK, NEW c \in Clients,
           NEW l \in {"await", "wait", "unsubscribe"}, GoTo(c, l),
           mu' \in Clients \cup {Nobody}, verdict' \in [Clients -> Outcomes]
    PROVE  /\ CallTypeOK'
           /\ pc'[c] = l
           /\ \A d \in Clients \ {c} : pc'[d] = pc[d]
BY DEF CallTypeOK, GoTo

(* m.mu is held across steps by the caller that awaits a response, and by  *)
(* nobody else.                                                            *)
LockInv == \A c \in Clients : pc[c] = "await" <=> mu = c

LEMMA NextCall ==
    ASSUME CallTypeOK, LockInv, [Next]_vars PROVE (CallTypeOK /\ LockInv)'
<1> USE ClientsAssumption DEF LockInv
<1>0. /\ mu \in Clients \cup {Nobody} /\ verdict \in [Clients -> Outcomes]
      /\ pc \in [Clients -> {"lock", "await", "subscribe", "wait",
                             "unsubscribe", "exit", "kill", "guest", "ended"}]
  BY DEF CallTypeOK
<1>1. ASSUME NEW c \in Clients, NEW r \in Outcomes, Return(c, r), mu' = Nobody,
             mu \in {c, Nobody}
      PROVE  (CallTypeOK /\ LockInv)'
  BY <1>0, <1>1, ReturnType
<1>2. ASSUME NEW c \in Clients, NEW r \in Outcomes, Return(c, r), mu' = mu,
             pc[c] # "await"
      PROVE  (CallTypeOK /\ LockInv)'
  BY <1>0, <1>2, ReturnType
<1>3. ASSUME NEW c \in Clients, NEW l \in {"wait", "unsubscribe"}, GoTo(c, l),
             mu' = mu, pc[c] # "await", verdict' \in [Clients -> Outcomes]
      PROVE  (CallTypeOK /\ LockInv)'
  BY <1>0, <1>3, GoToType
<1>4. ASSUME NEW c \in Clients, ExecuteWrite(c) PROVE (CallTypeOK /\ LockInv)'
  <2>1. mu = Nobody /\ mu' = c /\ GoTo(c, "await") /\ UNCHANGED verdict
    BY <1>4 DEF ExecuteWrite
  <2>2. QED BY <1>0, <2>1, GoToType
<1>5. ASSUME NEW c \in Clients, ExecuteWriteError(c)
      PROVE  (CallTypeOK /\ LockInv)'
  BY <1>2, <1>5 DEF ExecuteWriteError, Outcomes
<1>6. ASSUME NEW c \in Clients, ExecuteResponse(c)
      PROVE  (CallTypeOK /\ LockInv)'
  <2>1. /\ pc[c] = "await" /\ mu' = Nobody
        /\ Return(c, "ok") \/ Return(c, "failed")
    BY <1>6 DEF ExecuteResponse
  <2>2. QED BY <1>1, <2>1 DEF Outcomes
<1>7. ASSUME NEW c \in Clients, ExecuteGiveUp(c) PROVE (CallTypeOK /\ LockInv)'
  <2>1. /\ pc[c] = "await" /\ mu' = Nobody
        /\ Return(c, "cancelled") \/ Return(c, "stopped")
    BY <1>7 DEF ExecuteGiveUp
  <2>2. QED BY <1>1, <2>1 DEF Outcomes
<1>8. ASSUME NEW c \in Clients, Subscribe(c) PROVE (CallTypeOK /\ LockInv)'
  BY <1>0, <1>3, <1>8 DEF Subscribe
<1>9. ASSUME UNCHANGED <<pc, ip, verdict, outcome, mu>>
      PROVE  (CallTypeOK /\ LockInv)'
  BY <1>9 DEF CallTypeOK
<1>10. ASSUME NEW c \in Clients, WaitEvent(c) PROVE (CallTypeOK /\ LockInv)'
  <2>1. CASE UNCHANGED clientVars
    BY <1>9, <1>10, <2>1 DEF WaitEvent, clientVars
  <2>2. CASE ~UNCHANGED clientVars
    <3>1. /\ pc[c] = "wait" /\ GoTo(c, "unsubscribe") /\ mu' = mu
          /\ \/ verdict' = [verdict EXCEPT ![c] = "ok"]
             \/ verdict' = [verdict EXCEPT ![c] = "failed"]
      BY <1>10, <2>2 DEF WaitEvent
    <3>2. verdict' \in [Clients -> Outcomes]
      BY <1>0, <3>1 DEF Outcomes
    <3>3. QED BY <1>3, <3>1, <3>2
  <2>3. QED BY <2>1, <2>2
<1>11. ASSUME NEW c \in Clients, WaitGiveUp(c) PROVE (CallTypeOK /\ LockInv)'
  <2>1. /\ pc[c] = "wait" /\ GoTo(c, "unsubscribe") /\ mu' = mu
        /\ \/ verdict' = [verdict EXCEPT ![c] = "cancelled"]
           \/ verdict' = [verdict EXCEPT ![c] = "stopped"]
    BY <1>11 DEF WaitGiveUp
  <2>2. verdict' \in [Clients -> Outcomes]
    BY <1>0, <2>1 DEF Outcomes
  <2>3. QED BY <1>3, <2>1, <2>2
<1>12. ASSUME NEW c \in Clients, Unsubscribe(c) PROVE (CallTypeOK /\ LockInv)'
  <2>1. verdict[c] \in Outcomes
    BY <1>0
  <2>2. QED BY <1>2, <1>12, <2>1 DEF Unsubscribe
<1>13. ASSUME NEW c \in Clients, Kill(c) \/ ExitSeen(c) \/ GuestCommand(c)
       PROVE  (CallTypeOK /\ LockInv)'
  <2>1. pc[c] # "await" /\ mu' = mu /\ Return(c, "ok")
    BY <1>13 DEF Kill, ExitSeen, GuestCommand
  <2>2. QED BY <1>2, <2>1 DEF Outcomes
<1>14. ASSUME NEW c \in Clients, ExitCancelled(c) PROVE (CallTypeOK /\ LockInv)'
  <2>1. /\ pc[c] # "await" /\ mu' = mu
        /\ Return(c, "ok") \/ Return(c, "cancelled")
    BY <1>14 DEF ExitCancelled
  <2>2. QED BY <1>2, <2>1 DEF Outcomes
<1>15. ASSUME NEW c \in Clients, Expire(c) PROVE (CallTypeOK /\ LockInv)'
  BY <1>9, <1>15 DEF Expire
<1>16. CASE Loop
  BY <1>9, <1>16
     DEF Loop, LoopRead, LoopReadResponse, LoopReadEvent, LoopReadGarbled,
         LoopReadError, DispatchEvent, CloseListeners, clientVars
<1>17. CASE MonitorExit \/ Qemu
  BY <1>9, <1>17
     DEF MonitorExit, Qemu, QemuAnswer, QemuFollowUp, QemuSpeak, QemuCrash,
         QemuExit, clientVars
<1>18. CASE AllEnded \/ UNCHANGED vars
  BY <1>9, <1>18 DEF AllEnded, vars, clientVars
<1>19. QED
  BY <1>4, <1>5, <1>6, <1>7, <1>8, <1>10, <1>11, <1>12, <1>13, <1>14, <1>15,
     <1>16, <1>17, <1>18
     DEF Next, Client, Locking, Waiting

-----------------------------------------------------------------------------
(* The order of responses.  A command's id is its place in the order of    *)
(* writing; the ids that are under way grow from respCh through the socket *)
(* to the commands QEMU has not answered, and none has been returned yet.  *)

QueueTypeOK ==
    /\ pending \in Seq(Requests)
    /\ wire \in Seq(Messages) /\ respCh \in Seq(ResponseMsgs)
    /\ sent \in Nat /\ last \in Nat

Responses(s) == {i \in 1 .. Len(s) : s[i].kind = "response"}

RespOrder ==
    \A i \in 1 .. Len(respCh) :
        /\ last < respCh[i].id /\ respCh[i].id <= sent
        /\ \A j \in 1 .. i - 1 : respCh[j].id < respCh[i].id

WireOrder ==
    \A i \in Responses(wire) :
        /\ last < wire[i].id /\ wire[i].id <= sent
        /\ \A j \in Responses(wire) : j < i => wire[j].id < wire[i].id
        /\ \A j \in 1 .. Len(respCh) : respCh[j].id < wire[i].id

PendingOrder ==
    \A i \in 1 .. Len(pending) :
        /\ last < pending[i].id /\ pending[i].id <= sent
        /\ \A j \in 1 .. i - 1 : pending[j].id < pending[i].id
        /\ \A j \in Responses(wire) : wire[j].id < pending[i].id
        /\ \A j \in 1 .. Len(respCh) : respCh[j].id < pending[i].id

OrderInv == RespOrder /\ WireOrder /\ PendingOrder

LEMMA RequestType ==
    \A r \in Requests : r.id \in Nat /\ r.call \in Calls /\ r.call.arms \subseteq Events
BY DEF Requests, Calls

LEMMA MessageType ==
    /\ \A m \in ResponseMsgs : m \in Messages /\ m.kind = "response" /\ m.id \in Nat
    /\ \A m \in EventMsgs \cup {Garbled} : m \in Messages /\ m.kind # "response"
    /\ \A m \in Messages : m.kind = "response" => m \in ResponseMsgs
BY DEF Messages, ResponseMsgs, EventMsgs, Garbled

(* The socket loses its first message, which is not a response or goes     *)
(* nowhere else.                                                           *)
LEMMA WireShrinks ==
    ASSUME QueueTypeOK, OrderInv, wire # << >>, wire' = Tail(wire),
           UNCHANGED <<pending, respCh, sent, last>>
    PROVE  (QueueTypeOK /\ OrderInv)'
<1> USE DEF QueueTypeOK, OrderInv
<1>1. /\ Len(wire') = Len(wire) - 1 /\ Len(wire) \in Nat
      /\ \A i \in 1 .. Len(wire') : wire'[i] = wire[i + 1]
      /\ wire' \in Seq(Messages)
  OBVIOUS
<1>2. \A i \in Responses(wire)' : i + 1 \in Responses(wire) /\ i \in Nat
  BY <1>1 DEF Responses
<1>3. \A i \in Responses(wire)' : wire'[i] = wire[i + 1]
  BY <1>1 DEF Responses
<1>4. WireOrder'
  <2>1. SUFFICES ASSUME NEW i \in Responses(wire)'
                 PROVE  /\ last < wire'[i].id /\ wire'[i].id <= sent
                        /\ \A j \in Responses(wire)' :
                              j < i => wire'[j].id < wire'[i].id
                        /\ \A j \in 1 .. Len(respCh) :
                              respCh[j].id < wire'[i].id
    BY DEF WireOrder
  <2>2. \A j \in Responses(wire)' : j < i => j + 1 < i + 1
    BY <1>2
  <2>3. QED BY <1>2, <1>3, <2>2 DEF WireOrder
<1>5. PendingOrder'
  BY <1>2, <1>3 DEF PendingOrder
<1>6. QED BY <1>1, <1>4, <1>5 DEF RespOrder

(* A message that is no response joins the socket.                         *)
LEMMA EventJoins ==
    ASSUME QueueTypeOK, OrderInv, NEW m \in EventMsgs \cup {Garbled},
           wire' = Append(wire, m), UNCHANGED <<pending, respCh, sent, last>>
    PROVE  (QueueTypeOK /\ OrderInv)'
<1> USE DEF QueueTypeOK, OrderInv
<1>1. m \in Messages /\ m.kind # "response"
  BY MessageType
<1>2. /\ Len(wire') = Len(wire) + 1 /\ Len(wire) \in Nat
      /\ \A i \in 1 .. Len(wire) : wire'[i] = wire[i]
      /\ wire'[Len(wire) + 1] = m
      /\ wire' \in Seq(Messages)
  BY <1>1
<1>3. \A i \in Responses(wire)' : i \in Responses(wire) /\ wire'[i] = wire[i]
  BY <1>1, <1>2 DEF Responses
<1>4. WireOrder'
  BY <1>3 DEF WireOrder
<1>5. PendingOrder'
  BY <1>3 DEF PendingOrder
<1>6. QED BY <1>2, <1>4, <1>5 DEF RespOrder

(* The response to the oldest command joins the socket, alone or behind an *)
(* event.                                                                  *)
LEMMA ResponseJoins ==
    ASSUME QueueTypeOK, OrderInv, NEW m \in ResponseMsgs, NEW n \in Nat,
           pending # << >>, m.id = Head(pending).id, pending' = Tail(pending),
           wire' \in Seq(Messages), Len(wire') = n, Len(wire) < n,
           wire'[n] = m, \A i \in 1 .. Len(wire) : wire'[i] = wire[i],
           \A i \in 1 .. n - 1 : i > Len(wire) => wire'[i].kind # "response",
           UNCHANGED <<respCh, sent, last>>
    PROVE  (QueueTypeOK /\ OrderInv)'
<1> USE DEF QueueTypeOK, OrderInv
<1>1. m \in Messages /\ m.kind = "response"
  BY MessageType
<1>2. Len(wire) \in Nat
  OBVIOUS
<1>3. /\ Len(pending') = Len(pending) - 1 /\ Len(pending) \in Nat \ {0}
      /\ \A i \in 1 .. Len(pending') : pending'[i] = pending[i + 1]
      /\ pending' \in Seq(Requests)
      /\ m.id = pending[1].id
  OBVIOUS
<1>4. \A i \in Responses(wire)' :
          \/ i \in Responses(wire) /\ wire'[i] = wire[i] /\ i < n
          \/ i = n /\ wire'[i] = m
  BY <1>1, <1>2 DEF Responses
<1>5. /\ last < m.id /\ m.id <= sent
      /\ \A j \in Responses(wire) : wire[j].id < m.id
      /\ \A j \in 1 .. Len(respCh) : respCh[j].id < m.id
      /\ \A i \in 1 .. Len(pending') : m.id < pending'[i].id
  BY <1>3 DEF PendingOrder
<1>6. WireOrder'
  <2>1. ASSUME NEW i \in Responses(wire)', NEW j \in Responses(wire)', j < i
        PROVE  wire'[j].id < wire'[i].id
    <3>1. j \in Responses(wire) /\ wire'[j] = wire[j]
      BY <1>2, <1>4, <2>1 DEF Responses
    <3>2. QED BY <1>4, <1>5, <2>1, <3>1 DEF WireOrder
  <2>2. ASSUME NEW i \in Responses(wire)'
        PROVE  /\ last < wire'[i].id /\ wire'[i].id <= sent
               /\ \A j \in 1 .. Len(respCh) : respCh[j].id < wire'[i].id
    BY <1>4, <1>5 DEF WireOrder
  <2>3. QED BY <2>1, <2>2 DEF WireOrder
<1>7. PendingOrder'
  <2>1. ASSUME NEW i \in 1 .. Len(pending'), NEW j \in Responses(wire)'
        PROVE  wire'[j].id < pending'[i].id
    <3>1. pending'[i] = pending[i + 1] /\ i + 1 \in 1 .. Len(pending)
      BY <1>3
    <3>2. CASE j \in Responses(wire) /\ wire'[j] = wire[j]
      BY <3>1, <3>2 DEF PendingOrder
    <3>3. CASE wire'[j] = m
      BY <1>5, <3>3
    <3>4. QED BY <1>4, <3>2, <3>3
  <2>2. ASSUME NEW i \in 1 .. Len(pending')
        PROVE  /\ last < pending'[i].id /\ pending'[i].id <= sent
               /\ \A j \in 1 .. i - 1 : pending'[j].id < pending'[i].id
               /\ \A j \in 1 .. Len(respCh) : respCh[j].id < pending'[i].id
    <3>1. pending'[i] = pending[i + 1] /\ i + 1 \in 1 .. Len(pending)
      BY <1>3
    <3>2. \A j \in 1 .. i - 1 : /\ pending'[j] = pending[j + 1]
                                /\ j + 1 \in 1 .. (i + 1) - 1
      BY <1>3
    <3>3. QED BY <3>1, <3>2 DEF PendingOrder
  <2>3. QED BY <2>1, <2>2 DEF PendingOrder
<1>8. QED BY <1>2, <1>3, <1>6, <1>7 DEF RespOrder

(* A response leaves the socket for respCh, or is dropped: respCh is full. *)
LEMMA NextResponse ==
    ASSUME QueueTypeOK, OrderInv, LoopReadResponse
    PROVE  (QueueTypeOK /\ OrderInv)'
<1> USE DEF QueueTypeOK, OrderInv
<1>1. /\ wire # << >> /\ wire' = Tail(wire) /\ Head(wire).kind = "response"
      /\ UNCHANGED <<pending, sent, last>>
  BY DEF LoopReadResponse, ghostVars
<1>2. CASE respCh' = respCh
  BY <1>1, <1>2, WireShrinks
<1>3. CASE respCh' = Append(respCh, Head(wire))
  <2> DEFINE m == wire[1]
  <2>1. m \in ResponseMsgs /\ Head(wire) = m /\ m \in Messages
    BY <1>1, MessageType
  <2>2. /\ Len(respCh') = Len(respCh) + 1 /\ Len(respCh) \in Nat
        /\ \A i \in 1 .. Len(respCh) : respCh'[i] = respCh[i]
        /\ respCh'[Len(respCh) + 1] = m
        /\ respCh' \in Seq(ResponseMsgs)
    BY <1>3, <2>1
  <2>3. /\ Len(wire') = Len(wire) - 1 /\ Len(wire) \in Nat \ {0}
        /\ \A i \in 1 .. Len(wire') : wire'[i] = wire[i + 1]
        /\ wire' \in Seq(Messages)
    BY <1>1
  <2>4. 1 \in Responses(wire)
    BY <1>1, <2>1, <2>3 DEF Responses
  <2>5. \A i \in Responses(wire)' :
            /\ i \in Nat \ {0} /\ i + 1 \in Responses(wire)
            /\ wire'[i] = wire[i + 1]
    BY <2>3 DEF Responses
  <2>6. /\ last < m.id /\ m.id <= sent
        /\ \A j \in 1 .. Len(respCh) : respCh[j].id < m.id
        /\ \A i \in Responses(wire)' : m.id < wire'[i].id
        /\ \A i \in 1 .. Len(pending) : m.id < pending[i].id
    <3>1. \A i \in Responses(wire)' : m.id < wire[i + 1].id
      BY <2>4, <2>5 DEF WireOrder
    <3>2. QED BY <2>4, <2>5, <3>1 DEF WireOrder, PendingOrder
  <2> HIDE DEF m
  <2>7. \A j \in 1 .. Len(respCh') :
            \/ j \in 1 .. Len(respCh) /\ respCh'[j] = respCh[j]
            \/ j = Len(respCh) + 1 /\ respCh'[j] = m
    BY <2>2
  <2>8. RespOrder'
    <3>1. ASSUME NEW i \in 1 .. Len(respCh')
          PROVE  /\ last < respCh'[i].id /\ respCh'[i].id <= sent
                 /\ \A j \in 1 .. i - 1 : respCh'[j].id < respCh'[i].id
      <4>1. CASE i \in 1 .. Len(respCh)
        <5>1. \A j \in 1 .. i - 1 : respCh'[j] = respCh[j]
          BY <2>2, <4>1
        <5>2. QED BY <2>2, <4>1, <5>1 DEF RespOrder
      <4>2. CASE i = Len(respCh) + 1
        <5>1. \A j \in 1 .. i - 1 : j \in 1 .. Len(respCh)
          BY <2>2, <4>2
        <5>2. QED BY <2>2, <2>6, <4>2, <5>1
      <4>3. QED BY <2>7, <4>1, <4>2
    <3>2. QED BY <1>1, <3>1 DEF RespOrder
  <2>9. WireOrder'
    <3>1. ASSUME NEW i \in Responses(wire)', NEW j \in Responses(wire)', j < i
          PROVE  wire'[j].id < wire'[i].id
      <4>1. j + 1 < i + 1
        BY <2>5, <3>1
      <4>2. QED BY <2>5, <3>1, <4>1 DEF WireOrder
    <3>2. ASSUME NEW i \in Responses(wire)', NEW j \in 1 .. Len(respCh')
          PROVE  respCh'[j].id < wire'[i].id
      <4>1. CASE respCh'[j] = m
        BY <2>6, <4>1
      <4>2. CASE j \in 1 .. Len(respCh) /\ respCh'[j] = respCh[j]
        BY <2>5, <4>2 DEF WireOrder
      <4>3. QED BY <2>7, <4>1, <4>2
    <3>3. \A i \in Responses(wire)' : last < wire'[i].id /\ wire'[i].id <= sent
      BY <2>5 DEF WireOrder
    <3>4. QED BY <1>1, <3>1, <3>2, <3>3 DEF WireOrder
  <2>10. PendingOrder'
    <3>1. ASSUME NEW i \in 1 .. Len(pending), NEW j \in 1 .. Len(respCh')
          PROVE  respCh'[j].id < pending[i].id
      <4>1. CASE respCh'[j] = m
        BY <2>6, <4>1
      <4>2. CASE j \in 1 .. Len(respCh) /\ respCh'[j] = respCh[j]
        BY <4>2 DEF PendingOrder
      <4>3. QED BY <2>7, <4>1, <4>2
    <3>2. ASSUME NEW i \in 1 .. Len(pending), NEW j \in Responses(wire)'
          PROVE  wire'[j].id < pending[i].id
      BY <2>5 DEF PendingOrder
    <3>3. QED BY <1>1, <3>1, <3>2 DEF PendingOrder
  <2>11. QED BY <1>1, <2>2, <2>3, <2>8, <2>9, <2>10
<1>4. QED BY <1>2, <1>3 DEF LoopReadResponse

(* A caller takes the first response: it is newer than the last one taken  *)
(* and older than all that are under way.                                  *)
LEMMA TakeResponse ==
    ASSUME QueueTypeOK, OrderInv, NEW c \in Clients, ExecuteResponse(c)
    PROVE  /\ (QueueTypeOK /\ OrderInv)'
           /\ last < last' /\ last' <= sent /\ sent' = sent
           /\ Head(respCh).id = last'
<1> USE DEF QueueTypeOK, OrderInv
<1>1. /\ respCh # << >> /\ respCh' = Tail(respCh) /\ last' = respCh[1].id
      /\ UNCHANGED <<pending, wire, sent>> /\ Head(respCh).id = last'
  BY DEF ExecuteResponse, qemuVars
<1>2. /\ Len(respCh') = Len(respCh) - 1 /\ Len(respCh) \in Nat \ {0}
      /\ \A i \in 1 .. Len(respCh') : respCh'[i] = respCh[i + 1]
      /\ respCh' \in Seq(ResponseMsgs) /\ respCh[1] \in ResponseMsgs
  BY <1>1
<1>3. last < last' /\ last' <= sent /\ last' \in Nat
  BY <1>1, <1>2, MessageType DEF RespOrder
<1>4. RespOrder'
  <2>1. ASSUME NEW i \in 1 .. Len(respCh')
        PROVE  /\ last' < respCh'[i].id /\ respCh'[i].id <= sent
               /\ \A j \in 1 .. i - 1 : respCh'[j].id < respCh'[i].id
    <3>1. i + 1 \in 1 .. Len(respCh) /\ 1 \in 1 .. (i + 1) - 1
      BY <1>2
    <3>2. ASSUME NEW j \in 1 .. i - 1
          PROVE  respCh'[j].id < respCh'[i].id
      <4>1. j \in 1 .. Len(respCh') /\ j + 1 \in 1 .. (i + 1) - 1
        BY <1>2
      <4>2. QED BY <1>2, <3>1, <4>1 DEF RespOrder
    <3>3. QED BY <1>1, <1>2, <3>1, <3>2 DEF RespOrder
  <2>2. QED BY <1>1, <2>1 DEF RespOrder
<1>5. WireOrder'
  <2>1. ASSUME NEW i \in Responses(wire)
        PROVE  last' < wire[i].id
    BY <1>1, <1>2 DEF WireOrder
  <2>2. ASSUME NEW i \in Responses(wire), NEW j \in 1 .. Len(respCh')
        PROVE  respCh'[j].id < wire[i].id
    <3>1. respCh'[j] = respCh[j + 1] /\ j + 1 \in 1 .. Len(respCh)
      BY <1>2
    <3>2. QED BY <3>1 DEF WireOrder
  <2>3. QED BY <1>1, <2>1, <2>2 DEF WireOrder, Responses
<1>6. PendingOrder'
  <2>1. ASSUME NEW i \in 1 .. Len(pending)
        PROVE  last' < pending[i].id
    BY <1>1, <1>2 DEF PendingOrder
  <2>2. ASSUME NEW i \in 1 .. Len(pending), NEW j \in 1 .. Len(respCh')
        PROVE  respCh'[j].id < pending[i].id
    <3>1. respCh'[j] = respCh[j + 1] /\ j + 1 \in 1 .. Len(respCh)
      BY <1>2
    <3>2. QED BY <3>1 DEF PendingOrder
  <2>3. QED BY <1>1, <2>1, <2>2 DEF PendingOrder, Responses
<1>7. QED BY <1>1, <1>2, <1>3, <1>4, <1>5, <1>6

(* A new command is younger than all that are under way.                   *)
LEMMA SendCommand ==
    ASSUME QueueTypeOK, OrderInv, last <= sent, CallTypeOK,
           NEW c \in Clients, ExecuteWrite(c)
    PROVE  (QueueTypeOK /\ OrderInv)'
<1> USE DEF QueueTypeOK, OrderInv
<1> DEFINE p == [id |-> sent + 1, call |-> Call(c)]
<1>1. sent' = sent + 1 /\ UNCHANGED <<wire, respCh, last>>
  BY DEF ExecuteWrite
<1>2. p \in Requests /\ p.id = sent + 1
  BY CallType DEF Requests
<1>3. RespOrder' /\ WireOrder'
  <2>1. \A i \in Responses(wire) : wire[i].id \in Nat
    BY MessageType DEF Responses
  <2>2. \A i \in 1 .. Len(respCh) : respCh[i].id \in Nat
    BY MessageType
  <2>3. RespOrder'
    BY <1>1, <2>2 DEF RespOrder
  <2>4. \A i \in Responses(wire) : wire[i].id <= sent + 1
    BY <2>1 DEF WireOrder
  <2>5. WireOrder'
    BY <1>1, <2>4 DEF WireOrder, Responses
  <2>6. QED BY <2>3, <2>5
<1>4. CASE pending' = pending
  <2>1. \A i \in 1 .. Len(pending) : pending[i] \in Requests
    OBVIOUS
  <2>2. \A i \in 1 .. Len(pending) : pending[i].id \in Nat
    BY <2>1, RequestType
  <2>3. \A i \in 1 .. Len(pending) : pending[i].id <= sent + 1
    BY <2>2 DEF PendingOrder
  <2>4. PendingOrder'
    BY <1>1, <1>4, <2>3 DEF PendingOrder, Responses
  <2>5. QED BY <1>1, <1>3, <1>4, <2>4
<1>5. CASE pending' = Append(pending, p)
  <2> HIDE DEF p
  <2>1. /\ Len(pending') = Len(pending) + 1 /\ Len(pending) \in Nat
        /\ \A i \in 1 .. Len(pending) : pending'[i] = pending[i]
        /\ pending'[Len(pending) + 1] = p
        /\ pending' \in Seq(Requests)
    BY <1>2, <1>5
  <2>2. ASSUME NEW i \in 1 .. Len(pending')
        PROVE  /\ last < pending'[i].id /\ pending'[i].id <= sent'
               /\ \A j \in 1 .. i - 1 : pending'[j].id < pending'[i].id
               /\ \A j \in Responses(wire) : wire[j].id < pending'[i].id
               /\ \A j \in 1 .. Len(respCh) : respCh[j].id < pending'[i].id
    <3>1. CASE i \in 1 .. Len(pending)
      <4>1. \A j \in 1 .. i - 1 : pending'[j] = pending[j]
        BY <2>1, <3>1
      <4>2. pending'[i] = pending[i] /\ pending[i].id \in Nat
        <5>1. pending'[i] = pending[i] /\ pending[i] \in Requests
          BY <2>1, <3>1
        <5>2. QED BY <5>1, RequestType
      <4>3. pending[i].id <= sent'
        BY <1>1, <3>1, <4>2 DEF PendingOrder
      <4>4. QED BY <1>1, <3>1, <4>1, <4>2, <4>3 DEF PendingOrder
    <3>2. CASE i = Len(pending) + 1
      <4>1. pending'[i] = p
        BY <2>1, <3>2
      <4>2. last < sent + 1 /\ sent + 1 <= sent'
        BY <1>1
      <4>3. \A j \in 1 .. i - 1 : pending'[j].id < sent + 1
        <5>1. ASSUME NEW j \in 1 .. i - 1 PROVE pending'[j].id < sent + 1
          <6>1. j \in 1 .. Len(pending)
            BY <2>1, <3>2
          <6>2. pending'[j] = pending[j] /\ pending[j] \in Requests
            BY <2>1, <6>1
          <6>3. pending[j].id \in Nat
            BY <6>2, RequestType
          <6>4. QED BY <6>1, <6>2, <6>3 DEF PendingOrder
        <5>2. QED BY <5>1
      <4>4. \A j \in Responses(wire) : wire[j].id < sent + 1
        <5>1. \A j \in Responses(wire) : wire[j].id \in Nat
          BY MessageType DEF Responses
        <5>2. QED BY <5>1 DEF WireOrder
      <4>5. \A j \in 1 .. Len(respCh) : respCh[j].id < sent + 1
        <5>1. \A j \in 1 .. Len(respCh) : respCh[j].id \in Nat
          BY MessageType
        <5>2. QED BY <5>1 DEF RespOrder
      <4>6. pending'[i].id = sent + 1
        BY <1>2, <4>1
      <4>7. last < pending'[i].id /\ pending'[i].id <= sent'
        BY <4>2, <4>6
      <4>8. \A j \in 1 .. i - 1 : pending'[j].id < pending'[i].id
        BY <4>3, <4>6
      <4>9. \A j \in Responses(wire) : wire[j].id < pending'[i].id
        BY <4>4, <4>6
      <4>10. \A j \in 1 .. Len(respCh) : respCh[j].id < pending'[i].id
        BY <4>5, <4>6
      <4>11. QED BY <4>7, <4>8, <4>9, <4>10
    <3>3. i \in 1 .. Len(pending) \/ i = Len(pending) + 1
      BY <2>1
    <3>4. QED BY <3>1, <3>2, <3>3, Zenon
  <2>3. Responses(wire)' = Responses(wire)
    BY <1>1 DEF Responses
  <2>4. wire' = wire /\ respCh' = respCh /\ last' = last
    BY <1>1
  <2>5. PendingOrder'
    BY ONLY <2>2, <2>3, <2>4 DEF PendingOrder
  <2>6. QueueTypeOK'
    BY <1>1, <2>1
  <2>7. QED BY <1>3, <2>5, <2>6 DEF OrderInv
<1>6. QED BY <1>4, <1>5 DEF ExecuteWrite

(* QEMU answers the oldest command, before or after an event.              *)
LEMMA AnswerCommand ==
    ASSUME QueueTypeOK, OrderInv, QemuAnswer, QemuTypeOK
    PROVE  (QueueTypeOK /\ OrderInv)'
<1> DEFINE reply(a) == [kind |-> "response", id |-> Head(pending).id,
                        answer |-> a]
<1>1. /\ pending # << >> /\ pending' = Tail(pending)
      /\ UNCHANGED <<respCh, sent, last>>
  BY DEF QemuAnswer, ghostVars
<1>2. \A a \in {"return", "error"} :
          reply(a) \in ResponseMsgs /\ reply(a).id = Head(pending).id
  <2>1. Head(pending) \in Requests
    BY <1>1 DEF QueueTypeOK
  <2>2. Head(pending).id \in Nat
    BY <2>1, RequestType
  <2>3. QED BY <2>2 DEF ResponseMsgs
<1>3. \/ \E a \in {"return", "error"} : wire' = Append(wire, reply(a))
      \/ \E e \in Events : wire' = wire \o <<Event(e), reply("return")>>
  <2>0. Head(pending) \in Requests
    BY <1>1 DEF QueueTypeOK
  <2>1. Head(pending).call.arms \subseteq Events
    BY <2>0, RequestType
  <2>2. QED BY <2>1 DEF QemuAnswer
<1> HIDE DEF reply
<1>4. ASSUME NEW a \in {"return", "error"}, wire' = Append(wire, reply(a))
      PROVE  (QueueTypeOK /\ OrderInv)'
  <2>1. reply(a) \in Messages /\ Len(wire) \in Nat
    BY <1>2, MessageType DEF QueueTypeOK
  <2>2. /\ wire' \in Seq(Messages) /\ Len(wire') = Len(wire) + 1
        /\ wire'[Len(wire) + 1] = reply(a)
        /\ \A i \in 1 .. Len(wire) : wire'[i] = wire[i]
    BY <1>4, <2>1 DEF QueueTypeOK
  <2>3. QED BY <1>1, <1>2, <2>1, <2>2, ResponseJoins
<1>5. ASSUME NEW e \in Events, wire' = wire \o <<Event(e), reply("return")>>
      PROVE  (QueueTypeOK /\ OrderInv)'
  <2>1. Event(e) \in EventMsgs
    BY DEF Event, EventMsgs
  <2>2. /\ Event(e) \in Messages /\ reply("return") \in Messages
        /\ Len(wire) \in Nat /\ Event(e).kind # "response"
    BY <1>2, <2>1, MessageType DEF QueueTypeOK
  <2>3. /\ wire' \in Seq(Messages) /\ Len(wire') = Len(wire) + 2
        /\ wire'[Len(wire) + 1] = Event(e)
        /\ wire'[Len(wire) + 2] = reply("return")
        /\ \A i \in 1 .. Len(wire) : wire'[i] = wire[i]
    BY <1>5, <2>2 DEF QueueTypeOK
  <2>4. reply("return") \in ResponseMsgs
        /\ reply("return").id = Head(pending).id
    BY <1>2
  <2>5. \A i \in 1 .. Len(wire) + 2 - 1 :
            i > Len(wire) => wire'[i].kind # "response"
    BY <2>2, <2>3
  <2>6. Len(wire) + 2 \in Nat /\ Len(wire) < Len(wire) + 2
    BY <2>2
  <2>7. QED BY <1>1, <2>3, <2>4, <2>5, <2>6, ResponseJoins
<1>6. QED BY <1>3, <1>4, <1>5

LEMMA NextOrder ==
    ASSUME QueueTypeOK, OrderInv, last <= sent, CallTypeOK, QemuTypeOK,
           LoopTypeOK, [Next]_vars
    PROVE  (QueueTypeOK /\ OrderInv)'
<1>1. ASSUME NEW c \in Clients, ExecuteWrite(c) \/ ExecuteResponse(c)
      PROVE  (QueueTypeOK /\ OrderInv)'
  BY <1>1, SendCommand, TakeResponse
<1>2. CASE LoopReadResponse BY <1>2, NextResponse
<1>3. CASE LoopReadEvent \/ LoopReadGarbled
  BY <1>3, WireShrinks DEF LoopReadEvent, LoopReadGarbled, ghostVars
<1>4. CASE QemuAnswer BY <1>4, AnswerCommand
<1>5. CASE QemuFollowUp
  <2>1. PICK e \in armed : wire' = Append(wire, Event(e))
    BY <1>5 DEF QemuFollowUp
  <2>2. Event(e) \in EventMsgs
    BY <2>1 DEF Event, EventMsgs, QemuTypeOK
  <2>3. QED BY <1>5, <2>1, <2>2, EventJoins DEF QemuFollowUp, ghostVars
<1>6. CASE QemuSpeak
  <2>1. PICK m \in {Event(e) : e \in Spontaneous} \cup {Garbled} :
            wire' = Append(wire, m)
    BY <1>6 DEF QemuSpeak
  <2>2. m \in EventMsgs \cup {Garbled}
    BY <2>1, QemuAssumption DEF Event, EventMsgs
  <2>3. QED BY <1>6, <2>1, <2>2, EventJoins DEF QemuSpeak, ghostVars
<1>7. CASE QemuExit
  <2>1. pending' = << >> /\ UNCHANGED <<wire, respCh, sent, last>>
    BY <1>7 DEF QemuExit, ghostVars
  <2>2. QED
    BY <2>1 DEF QueueTypeOK, OrderInv, RespOrder, WireOrder, PendingOrder,
                Responses
<1>8. CASE UNCHANGED <<pending, wire, respCh, sent, last>>
  BY <1>8 DEF QueueTypeOK, OrderInv, RespOrder, WireOrder, PendingOrder,
              Responses
<1>9. QED
  BY <1>1, <1>2, <1>3, <1>4, <1>5, <1>6, <1>7, <1>8, QueueFrame

-----------------------------------------------------------------------------
(* How far responses lag behind commands.                                  *)

LagInv ==
    /\ last <= sent
    /\ sent <= last + abandoned + (IF mu = Nobody THEN 0 ELSE 1)
    /\ \A c \in Clients : mu = c => mine[c] = sent
    /\ LagBound

LEMMA GhostFrame ==
    ASSUME [Next]_vars
    PROVE  \/ \E c \in Clients : \/ ExecuteWrite(c) \/ ExecuteResponse(c)
                               \/ ExecuteGiveUp(c)
           \/ UNCHANGED <<mu, ghostVars>>
<1>1. ASSUME NEW c \in Clients,
             \/ ExecuteWriteError(c) \/ Subscribe(c) \/ WaitEvent(c)
             \/ WaitGiveUp(c) \/ Unsubscribe(c) \/ ExitSeen(c)
             \/ ExitCancelled(c) \/ Kill(c) \/ GuestCommand(c) \/ Expire(c)
      PROVE  UNCHANGED <<mu, ghostVars>>
  BY <1>1 DEF ExecuteWriteError, Subscribe, WaitEvent, WaitGiveUp,
              Unsubscribe, ExitSeen, ExitCancelled, Kill, GuestCommand, Expire
<1>2. Loop => UNCHANGED <<mu, ghostVars>>
  BY DEF Loop, LoopRead, LoopReadResponse, LoopReadEvent, LoopReadGarbled,
         LoopReadError, DispatchEvent, CloseListeners
<1>3. MonitorExit \/ Qemu => UNCHANGED <<mu, ghostVars>>
  BY DEF MonitorExit, Qemu, QemuAnswer, QemuFollowUp, QemuSpeak, QemuCrash,
         QemuExit
<1>4. AllEnded \/ UNCHANGED vars => UNCHANGED <<mu, ghostVars>>
  BY DEF AllEnded, vars
<1>5. QED
  BY <1>1, <1>2, <1>3, <1>4 DEF Next, Client, Locking, Waiting

LEMMA OneFewer ==
    \A s, l, k, a \in Nat : s <= l + a + 1 /\ l < k => s <= k + a
OBVIOUS

LEMMA NextLag ==
    ASSUME GhostTypeOK, QueueTypeOK, OrderInv, LockInv, LagInv, [Next]_vars
    PROVE  (GhostTypeOK /\ LagInv)'
<1> USE ClientsAssumption DEF GhostTypeOK, LagInv, LagBound
<1>1. ASSUME NEW c \in Clients, ExecuteWrite(c) PROVE (GhostTypeOK /\ LagInv)'
  <2>1. /\ mu = Nobody /\ mu' = c /\ sent' = sent + 1
        /\ mine' = [mine EXCEPT ![c] = sent + 1]
        /\ got' = [got EXCEPT ![c] = 0]
        /\ UNCHANGED <<last, abandoned>>
    BY <1>1 DEF ExecuteWrite
  <2>2. QED BY <2>1
<1>2. ASSUME NEW c \in Clients, ExecuteResponse(c)
      PROVE  (GhostTypeOK /\ LagInv)'
  <2>1. /\ mu = c /\ mu' = Nobody
        /\ got' = [got EXCEPT ![c] = Head(respCh).id]
        /\ UNCHANGED <<sent, mine, abandoned>>
    BY <1>2 DEF ExecuteResponse, LockInv
  <2>2. last < last' /\ last' <= sent /\ Head(respCh).id = last' /\ last' \in Nat
    BY <1>2, TakeResponse DEF QueueTypeOK
  <2>3. mine[c] = sent /\ sent <= last + abandoned + 1
    BY <2>1
  <2>4. sent <= last' + abandoned
    <3>1. sent \in Nat /\ last \in Nat /\ last' \in Nat /\ abandoned \in Nat
      BY <2>2
    <3>2. QED BY <2>2, <2>3, <3>1, OneFewer
  <2>5. got' = [got EXCEPT ![c] = last']
    BY <2>1, <2>2
  <2>6. LagBound'
    <3>1. ASSUME NEW d \in Clients, got'[d] # 0
          PROVE  got'[d] <= mine[d] /\ mine[d] <= got'[d] + abandoned
      <4>1. CASE d = c BY <2>2, <2>3, <2>4, <2>5, <4>1
      <4>2. CASE d # c BY <2>5, <3>1, <4>2
      <4>3. QED BY <4>1, <4>2
    <3>2. QED BY <2>1, <3>1
  <2>7. GhostTypeOK'
    BY <2>1, <2>2, <2>5
  <2>8. sent' <= last' + abandoned' + 0 /\ last' <= sent'
    <3>1. sent' = sent /\ abandoned' = abandoned
      BY <2>1
    <3>2. last' + abandoned + 0 = last' + abandoned
      BY <2>2
    <3>3. QED BY <2>2, <2>4, <3>1, <3>2
  <2>9. \A d \in Clients : mu' # d
    BY <2>1
  <2>10. QED BY <2>1, <2>6, <2>7, <2>8, <2>9
<1>3. ASSUME NEW c \in Clients, ExecuteGiveUp(c)
      PROVE  (GhostTypeOK /\ LagInv)'
  <2>1. /\ mu = c /\ mu' = Nobody /\ abandoned' = abandoned + 1
        /\ UNCHANGED <<sent, mine, got, last>>
    BY <1>3 DEF ExecuteGiveUp, LockInv
  <2>2. QED BY <2>1
<1>4. CASE UNCHANGED <<mu, ghostVars>>
  BY <1>4 DEF ghostVars
<1>5. QED BY <1>1, <1>2, <1>3, <1>4, GhostFrame

-----------------------------------------------------------------------------
(* The other types.                                                        *)

LEMMA NextQemuType ==
    ASSUME QemuTypeOK, CallTypeOK, QueueTypeOK', [Next]_vars
    PROVE  QemuTypeOK'
<1> USE DEF QemuTypeOK, QueueTypeOK, KillProcess
<1>1. ASSUME NEW c \in Clients, GuestCommand(c) PROVE QemuTypeOK'
  <2>1. Call(c).arms \subseteq Events
    BY CallType DEF Calls
  <2>2. QED BY <1>1, <2>1 DEF GuestCommand
<1>2. ASSUME NEW c \in Clients, Kill(c) \/ ExitCancelled(c) PROVE QemuTypeOK'
  BY <1>2 DEF Kill, ExitCancelled
<1>3. ASSUME NEW c \in Clients,
             \/ ExecuteWrite(c) \/ ExecuteWriteError(c) \/ ExecuteResponse(c)
             \/ ExecuteGiveUp(c) \/ Subscribe(c) \/ WaitEvent(c)
             \/ WaitGiveUp(c) \/ Unsubscribe(c) \/ ExitSeen(c) \/ Expire(c)
      PROVE  QemuTypeOK'
  BY <1>3 DEF ExecuteWrite, ExecuteWriteError, ExecuteResponse,
              ExecuteGiveUp, Subscribe, WaitEvent, WaitGiveUp, Unsubscribe,
              ExitSeen, Expire, qemuVars
<1>4. CASE Loop
  BY <1>4 DEF Loop, LoopRead, LoopReadResponse, LoopReadEvent,
              LoopReadGarbled, LoopReadError, DispatchEvent, CloseListeners,
              qemuVars
<1>5. CASE QemuAnswer
  <2>1. Head(pending).call.arms \subseteq Events
    <3>1. Head(pending) \in Requests
      BY <1>5 DEF QemuAnswer
    <3>2. QED BY <3>1, RequestType
  <2>2. armed' \subseteq Events
    BY <1>5, <2>1 DEF QemuAnswer
  <2>3. qemu' \in {"running", "dying", "exited"} /\ budget' = budget
    BY <1>5 DEF QemuAnswer
  <2>4. QED BY <2>2, <2>3
<1>6. CASE QemuFollowUp \/ QemuSpeak \/ QemuCrash \/ QemuExit
  BY <1>6 DEF QemuFollowUp, QemuSpeak, QemuCrash, QemuExit
<1>7. CASE MonitorExit \/ AllEnded \/ UNCHANGED vars
  BY <1>7 DEF MonitorExit, AllEnded, vars, qemuVars
<1>8. QED
  BY <1>1, <1>2, <1>3, <1>4, <1>5, <1>6, <1>7
     DEF Next, Client, Locking, Waiting, Qemu

LEMMA NextLoopType ==
    ASSUME LoopTypeOK, QemuTypeOK, QueueTypeOK', [Next]_vars
    PROVE  LoopTypeOK'
<1> USE QemuAssumption DEF LoopTypeOK, QueueTypeOK, loopVars
<1>1. CASE LoopReadResponse
  <2>1. Len(respCh') <= RespCap
    BY <1>1 DEF LoopReadResponse
  <2>2. QED BY <1>1, <2>1 DEF LoopReadResponse
<1>2. CASE LoopReadEvent
  <2>1. Head(wire) \in Messages /\ Head(wire).kind = "event"
    BY <1>2 DEF LoopReadEvent, QemuTypeOK
  <2>2. Head(wire) \in EventMsgs
    BY <2>1 DEF Messages, ResponseMsgs, Garbled
  <2>3. QED BY <1>2, <2>2 DEF LoopReadEvent
<1>3. CASE LoopReadGarbled \/ LoopReadError \/ DispatchEvent \/ CloseListeners
  BY <1>3 DEF LoopReadGarbled, LoopReadError, DispatchEvent, CloseListeners
<1>4. ASSUME NEW c \in Clients, ExecuteResponse(c) PROVE LoopTypeOK'
  <2>1. Len(respCh') = Len(respCh) - 1 /\ Len(respCh) \in Nat
    BY <1>4 DEF ExecuteResponse
  <2>2. Len(respCh') <= RespCap
    BY <2>1
  <2>3. QED BY <1>4, <2>2 DEF ExecuteResponse
<1>5. ASSUME NEW c \in Clients,
             \/ ExecuteWrite(c) \/ ExecuteWriteError(c) \/ ExecuteGiveUp(c)
             \/ Subscribe(c) \/ WaitEvent(c) \/ WaitGiveUp(c)
             \/ Unsubscribe(c) \/ ExitSeen(c) \/ ExitCancelled(c)
             \/ Kill(c) \/ GuestCommand(c) \/ Expire(c)
      PROVE  LoopTypeOK'
  BY <1>5 DEF ExecuteWrite, ExecuteWriteError, ExecuteGiveUp, Subscribe,
              WaitEvent, WaitGiveUp, Unsubscribe, ExitSeen, ExitCancelled,
              Kill, GuestCommand, Expire
<1>6. CASE MonitorExit \/ Qemu
  BY <1>6 DEF MonitorExit, Qemu, QemuAnswer, QemuFollowUp, QemuSpeak,
              QemuCrash, QemuExit
<1>7. CASE AllEnded \/ UNCHANGED vars
  BY <1>7 DEF AllEnded, vars
<1>8. QED
  BY <1>1, <1>2, <1>3, <1>4, <1>5, <1>6, <1>7
     DEF Next, Client, Locking, Waiting, Loop, LoopRead

LEMMA NextListenType ==
    ASSUME ListenTypeOK, LoopTypeOK, ClosesTypeOK', [Next]_vars
    PROVE  ListenTypeOK'
<1> USE DEF ListenTypeOK, ClosesTypeOK
<1>1. ASSUME NEW c \in Clients, Subscribe(c) PROVE ListenTypeOK'
  BY <1>1 DEF Subscribe
<1>2. ASSUME NEW c \in Clients, WaitEvent(c) PROVE ListenTypeOK'
  <2>1. /\ chan[c] # << >> /\ chan' = [chan EXCEPT ![c] = Tail(@)]
        /\ UNCHANGED listeners
    BY <1>2 DEF WaitEvent
  <2>2. Tail(chan[c]) \in Seq(Events) /\ Len(Tail(chan[c])) <= 1
    BY <2>1
  <2>3. QED BY <2>1, <2>2
<1>3. ASSUME NEW c \in Clients, Unsubscribe(c) PROVE ListenTypeOK'
  BY <1>3 DEF Unsubscribe
<1>4. CASE DispatchEvent
  <2>1. hand.name \in Events
    BY <1>4 DEF DispatchEvent, LoopTypeOK, EventMsgs
  <2>2. \A c \in Clients : Len(chan[c]) < 1 =>
            /\ Append(chan[c], hand.name) \in Seq(Events)
            /\ Len(Append(chan[c], hand.name)) <= 1
    BY <2>1
  <2>3. QED BY <1>4, <2>2 DEF DispatchEvent
<1>5. CASE CloseListeners BY <1>5 DEF CloseListeners
<1>6. CASE UNCHANGED listenVars BY <1>6 DEF listenVars
<1>7. QED BY <1>1, <1>2, <1>3, <1>4, <1>5, <1>6, ListenFrame

LEMMA NextFlagType == ASSUME FlagTypeOK, [Next]_vars PROVE FlagTypeOK'
<1> USE DEF FlagTypeOK, KillProcess, Return, GoTo, clientVars
<1>1. ASSUME NEW c \in Clients, Locking(c) PROVE FlagTypeOK'
  BY <1>1 DEF Locking, ExecuteWrite, ExecuteWriteError, Subscribe,
              Unsubscribe
<1>2. ASSUME NEW c \in Clients, Waiting(c) PROVE FlagTypeOK'
  BY <1>2 DEF Waiting, ExecuteResponse, ExecuteGiveUp, WaitEvent, WaitGiveUp,
              ExitSeen, ExitCancelled
<1>3. ASSUME NEW c \in Clients, Kill(c) \/ GuestCommand(c) \/ Expire(c)
      PROVE  FlagTypeOK'
  BY <1>3 DEF Kill, GuestCommand, Expire
<1>4. CASE Loop
  BY <1>4 DEF Loop, LoopRead, LoopReadResponse, LoopReadEvent,
              LoopReadGarbled, LoopReadError, DispatchEvent, CloseListeners
<1>5. CASE MonitorExit \/ Qemu
  BY <1>5 DEF MonitorExit, Qemu, QemuAnswer, QemuFollowUp, QemuSpeak,
              QemuCrash, QemuExit
<1>6. CASE AllEnded \/ UNCHANGED vars BY <1>6 DEF AllEnded, vars
<1>7. QED
  BY <1>1, <1>2, <1>3, <1>4, <1>5, <1>6 DEF Next, Client

-----------------------------------------------------------------------------
(* The inductive invariant.                                                *)

IInv == TypeOK /\ LockInv /\ OrderInv /\ LagInv

LEMMA InitIInv == Init => IInv
<1> SUFFICES ASSUME Init PROVE IInv
  OBVIOUS
<1> USE ClientsAssumption, QemuAssumption DEF Init
<1>1. QemuTypeOK
  BY DEF QemuTypeOK
<1>2. LoopTypeOK
  BY DEF LoopTypeOK, Garbled
<1>3. ListenTypeOK
  BY DEF ListenTypeOK
<1>4. \A c \in Clients : /\ Script[c][1] \in Calls /\ 1 \in 1 .. Len(Script[c])
                         /\ Entry(Script[c][1]) \in
                               {"lock", "subscribe", "exit", "kill", "guest"}
  <2>1. ASSUME NEW c \in Clients
        PROVE  Script[c][1] \in Calls /\ 1 \in 1 .. Len(Script[c])
    <3>1. Script[c] \in Seq(Calls) /\ Script[c] # << >>
      OBVIOUS
    <3>2. QED BY <3>1
  <2>2. QED BY <2>1, EntryType
<1>5. CallTypeOK
  BY <1>4 DEF CallTypeOK, Outcomes
<1>6. FlagTypeOK /\ GhostTypeOK
  BY DEF FlagTypeOK, GhostTypeOK
<1>7. LockInv
  BY <1>4 DEF LockInv
<1>8. OrderInv
  BY DEF OrderInv, RespOrder, WireOrder, PendingOrder, Responses
<1>9. LagInv
  BY DEF LagInv, LagBound
<1>10. QED
  BY <1>1, <1>2, <1>3, <1>5, <1>6, <1>7, <1>8, <1>9 DEF IInv, TypeOK

LEMMA NextIInv == ASSUME IInv, [Next]_vars PROVE IInv'
<1>1. QueueTypeOK /\ ClosesTypeOK /\ last <= sent
  BY DEF IInv, TypeOK, QemuTypeOK, LoopTypeOK, ListenTypeOK, GhostTypeOK,
         QueueTypeOK, ClosesTypeOK, LagInv
<1>2. CallTypeOK' /\ LockInv'
  BY NextCall DEF IInv, TypeOK
<1>3. QueueTypeOK' /\ OrderInv'
  BY <1>1, NextOrder DEF IInv, TypeOK
<1>4. GhostTypeOK' /\ LagInv'
  BY <1>1, NextLag DEF IInv, TypeOK
<1>5. QemuTypeOK' /\ LoopTypeOK' /\ FlagTypeOK'
  BY <1>3, NextQemuType, NextLoopType, NextFlagType DEF IInv, TypeOK
<1>6. ListenTypeOK'
  <2>1. ClosesTypeOK'
    <3> USE DEF ClosesTypeOK, listenVars
    <3>1. ASSUME NEW c \in Clients, Subscribe(c) \/ WaitEvent(c) \/ Unsubscribe(c)
          PROVE  ClosesTypeOK'
      BY <1>1, <3>1 DEF Subscribe, WaitEvent, Unsubscribe
    <3>2. CASE DispatchEvent \/ CloseListeners \/ UNCHANGED listenVars
      BY <1>1, <3>2 DEF DispatchEvent, CloseListeners
    <3>3. QED BY <3>1, <3>2, ListenFrame
  <2>2. QED BY <2>1, NextListenType DEF IInv, TypeOK
<1>7. QED BY <1>2, <1>3, <1>4, <1>5, <1>6 DEF IInv, TypeOK

LEMMA Invariance == Spec => []IInv
BY InitIInv, NextIInv, PTL DEF Spec

(* The state of the machine and of every caller keeps its type: in         *)
(* particular no listener channel holds more than its one event, respCh    *)
(* stays within its capacity, and a caller is always in a call it has.     *)
THEOREM TypeCorrect == Spec => []TypeOK
BY Invariance, PTL DEF IInv

(* For any number of callers and commands: the response an Execute returns *)
(* is not newer than its command, and older by at most the number of       *)
(* Execute calls that gave up before.                                      *)
THEOREM LagCorrect == Spec => []LagBound
<1>1. IInv => LagBound
  BY DEF IInv, LagInv
<1>2. QED BY <1>1, Invariance, PTL

(* No response is returned twice and none out of order.                    *)
THEOREM OrderCorrect == Spec => ResponsesInOrder
<1> DEFINE A == \A c \in Clients : got'[c] \in {0, got[c]} \/ got'[c] > last
<1>1. ASSUME IInv, [Next]_vars PROVE [A]_vars
  <2>1. QueueTypeOK /\ OrderInv
    BY <1>1 DEF IInv, TypeOK, QemuTypeOK, LoopTypeOK, GhostTypeOK, QueueTypeOK
  <2>2. got \in [Clients -> Nat]
    BY <1>1 DEF IInv, TypeOK, GhostTypeOK
  <2>3. ASSUME NEW c \in Clients, ExecuteResponse(c) PROVE A
    <3>1. /\ last < last' /\ last \in Nat /\ last' \in Nat
          /\ Head(respCh).id = last'
      BY <2>1, <2>3, TakeResponse DEF QueueTypeOK
    <3>2. got' = [got EXCEPT ![c] = last']
      BY <2>3, <3>1 DEF ExecuteResponse
    <3>3. QED BY <2>2, <3>1, <3>2
  <2>4. ASSUME NEW c \in Clients, ExecuteWrite(c) PROVE A
    BY <2>2, <2>4 DEF ExecuteWrite
  <2>5. ASSUME NEW c \in Clients, ExecuteGiveUp(c) PROVE A
    BY <2>5 DEF ExecuteGiveUp
  <2>6. CASE UNCHANGED <<mu, ghostVars>>
    BY <2>6 DEF ghostVars
  <2>7. QED BY <1>1, <2>3, <2>4, <2>5, <2>6, GhostFrame
<1>2. QED BY <1>1, Invariance, PTL DEF Spec, ResponsesInOrder

(* A caller that nobody's timeout disturbs gets its own response: as long  *)
(* as no Execute gave up, every response belongs to its command.           *)
THEOREM OwnResponseUntilGiveUp == Spec => [](abandoned = 0 => OwnResponse)
<1>1. IInv => (abandoned = 0 => OwnResponse)
  BY DEF IInv, TypeOK, GhostTypeOK, LagInv, LagBound, OwnResponse
<1>2. QED BY <1>1, Invariance, PTL
=============================================================================
