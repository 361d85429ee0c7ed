----------------------------- MODULE QMPMachine -----------------------------
(***************************************************************************)
(* The QMP client of test-foundry: internal/qemu/machine.go and the        *)
(* blocking calls made on it by the actions, the panic handler and the     *)
(* IPC server.  One goroutine reads the QMP socket (eventLoop); any number *)
(* of goroutines send commands (Execute), subscribe to events              *)
(* (SubscribeEvents and the WaitFor... loops), wait for the exit of the    *)
(* process, or kill it.  All of them share the mutex m.mu, the response    *)
(* channel and the map of listener channels.                               *)
(*                                                                         *)
(* A client is a goroutine that runs a fixed sequence of these calls, its  *)
(* Script.  QEMU itself is external: it answers commands in order and may  *)
(* write an event between any two messages.                                *)
(***************************************************************************)
EXTENDS Naturals, Sequences

CONSTANTS
    Clients,      \* goroutines that call into the machine
    Script,       \* Script[c]: the calls client c makes, in order
    Deadline,     \* clients whose context has a timeout or can be cancelled
    Events,       \* names of the QMP events
    Spontaneous,  \* events QEMU may write at any time, on its own
    Answers,      \* how QEMU may answer a command
    RespCap,      \* capacity of respCh (16 in the code)
    MaxEvents,    \* bound on spontaneous events in a behaviour
    Nobody        \* m.mu is free

Kinds == {"execute", "wait", "exit", "kill", "guest"}

(* A call.  lenient: its error does not end the script.  arms: events QEMU *)
(* writes because of the call, before or after it answers.  quits: it makes QEMU   *)
(* exit.  wants, fails: events that end a wait with success or failure.    *)
(* kills: the call kills QEMU when its context ends first.  timed: the     *)
(* call has a timeout of its own.                                          *)
Calls == [kind : Kinds, lenient : BOOLEAN, arms : SUBSET Events,
          quits : BOOLEAN, wants : SUBSET Events, fails : SUBSET Events,
          kills : BOOLEAN, timed : BOOLEAN]

ASSUME ClientsAssumption ==
    /\ Script \in [Clients -> Seq(Calls)]
    /\ \A c \in Clients : Script[c] # << >>
    /\ Deadline \subseteq Clients
    /\ Nobody \notin Clients

ASSUME QemuAssumption ==
    /\ Spontaneous \subseteq Events
    /\ Answers \subseteq {"return", "error"}
    /\ RespCap \in Nat \ {0}
    /\ MaxEvents \in Nat

VARIABLES
    qemu,       \* the QEMU process: "running", "dying" or "exited"
    pending,    \* commands written to QEMU and not answered yet
    armed,      \* events QEMU has yet to write because of an earlier call
    budget,     \* spontaneous events left
    wire,       \* messages from QEMU the event loop has not read
    connOpen,   \* qmpConn not closed by Kill
    loop,       \* where eventLoop is: "read", "dispatch", "closing", "ended"
    hand,       \* the event eventLoop is about to dispatch, if any
    respCh,     \* the buffered response channel
    mu,         \* holder of m.mu across steps, or Nobody
    done,       \* m.done is closed
    listeners,  \* clients whose listener channel is in m.listeners
    chan,       \* content of each client's listener channel (capacity 1)
    closes,     \* how often each client's listener channel was closed
    pc,         \* where each client is in its current call
    ip,         \* index of the current call in the script
    cancelled,  \* the client's context is done
    verdict,    \* what the call will return after its deferred unsubscribe
    outcome,    \* what the client's last finished call returned
    sent,       \* number of commands written so far; also the last one's id
    mine,       \* id of the client's last command
    got,        \* id of the response its last Execute returned, 0 if none
    last,       \* id of the last response any Execute returned
    abandoned   \* number of Execute calls that returned without a response

qemuVars   == <<qemu, pending, armed, budget, wire>>
loopVars   == <<loop, hand>>
listenVars == <<listeners, chan, closes>>
clientVars == <<pc, ip, cancelled, verdict, outcome>>
ghostVars  == <<sent, mine, got, last, abandoned>>
vars == <<qemuVars, connOpen, loopVars, respCh, mu, done, listenVars,
          clientVars, ghostVars>>

Outcomes == {"none", "ok", "cancelled", "stopped", "failed"}

Requests     == [id : Nat, call : Calls]
ResponseMsgs == [kind : {"response"}, id : Nat, answer : {"return", "error"}]
EventMsgs    == [kind : {"event"}, name : Events]
Garbled      == [kind |-> "garbled"]
Messages     == ResponseMsgs \cup EventMsgs \cup {Garbled}

Event(e) == [kind |-> "event", name |-> e]

Entry(call) ==   \* where a call starts
    CASE call.kind = "execute" -> "lock"
      [] call.kind = "wait"    -> "subscribe"
      [] OTHER                 -> call.kind

Call(c) == Script[c][ip[c]]

Init ==
    /\ qemu = "running" /\ pending = << >> /\ armed = {}
    /\ budget = MaxEvents /\ wire = << >>
    /\ connOpen = TRUE /\ loop = "read" /\ hand = Garbled
    /\ respCh = << >> /\ mu = Nobody /\ done = FALSE
    /\ listeners = {}
    /\ chan = [c \in Clients |-> << >>]
    /\ closes = [c \in Clients |-> 0]
    /\ pc = [c \in Clients |-> Entry(Script[c][1])]
    /\ ip = [c \in Clients |-> 1]
    /\ cancelled = [c \in Clients |-> FALSE]
    /\ verdict = [c \in Clients |-> "none"]
    /\ outcome = [c \in Clients |-> "none"]
    /\ sent = 0 /\ last = 0 /\ abandoned = 0
    /\ mine = [c \in Clients |-> 0]
    /\ got = [c \in Clients |-> 0]

-----------------------------------------------------------------------------
(* The calls of a client.                                                  *)

(* The current call of c returns r: the caller goes on to its next call,   *)
(* or gives up on an error it does not tolerate.  A timeout of the call's  *)
(* own ends with it.                                                       *)
Return(c, r) ==
    /\ outcome' = [outcome EXCEPT ![c] = r]
    /\ IF ip[c] < Len(Script[c]) /\ (r = "ok" \/ Call(c).lenient)
       THEN /\ ip' = [ip EXCEPT ![c] = @ + 1]
            /\ pc' = [pc EXCEPT ![c] = Entry(Script[c][ip[c] + 1])]
       ELSE /\ pc' = [pc EXCEPT ![c] = "ended"]
            /\ UNCHANGED ip
    /\ cancelled' = [cancelled EXCEPT ![c] = @ /\ c \in Deadline]
    /\ UNCHANGED verdict

GoTo(c, l) ==
    /\ pc' = [pc EXCEPT ![c] = l]
    /\ UNCHANGED <<ip, cancelled, outcome>>

(* A faulty variant: m.mu is released once the command is written.         *)
ExecuteWriteUnlocked(c) ==
    /\ pc[c] = "lock" /\ mu = Nobody
    /\ connOpen
    /\ sent' = sent + 1
    /\ mine' = [mine EXCEPT ![c] = sent + 1]
    /\ got' = [got EXCEPT ![c] = 0]
    /\ pending' = IF qemu = "exited" THEN pending
                  ELSE Append(pending, [id |-> sent + 1, call |-> Call(c)])
    /\ GoTo(c, "await")
    /\ UNCHANGED <<qemu, armed, budget, wire, connOpen, loopVars, respCh, mu,
                   done, listenVars, verdict, last, abandoned>>

(* Execute: take m.mu, write the command, keep m.mu while waiting.  The    *)
(* context is not looked at before the wait.                               *)
ExecuteWrite(c) ==
    /\ pc[c] = "lock" /\ mu = Nobody
    /\ connOpen
    /\ mu' = c
    /\ sent' = sent + 1
    /\ mine' = [mine EXCEPT ![c] = sent + 1]
    /\ got' = [got EXCEPT ![c] = 0]
    /\ pending' = IF qemu = "exited" THEN pending
                  ELSE Append(pending, [id |-> sent + 1, call |-> Call(c)])
    /\ GoTo(c, "await")
    /\ UNCHANGED <<qemu, armed, budget, wire, connOpen, loopVars, respCh,
                   done, listenVars, verdict, last, abandoned>>

(* The write fails: Kill closed the connection, or the peer is gone.       *)
ExecuteWriteError(c) ==
    /\ pc[c] = "lock" /\ mu = Nobody
    /\ ~connOpen \/ qemu = "exited"
    /\ Return(c, "failed")
    /\ UNCHANGED <<qemuVars, connOpen, loopVars, respCh, mu, done,
                   listenVars, ghostVars>>

(* A faulty variant: the response stays in respCh.                         *)
ExecutePeek(c) ==
    /\ pc[c] = "await" /\ respCh # << >>
    /\ got' = [got EXCEPT ![c] = Head(respCh).id]
    /\ last' = Head(respCh).id
    /\ mu' = Nobody
    /\ Return(c, IF Head(respCh).answer = "return" THEN "ok" ELSE "failed")
    /\ UNCHANGED <<qemuVars, connOpen, loopVars, respCh, done, listenVars,
                   sent, mine, abandoned>>

(* Execute takes whatever response is first in respCh.                     *)
ExecuteResponse(c) ==
    /\ pc[c] = "await" /\ respCh # << >>
    /\ respCh' = Tail(respCh)
    /\ got' = [got EXCEPT ![c] = Head(respCh).id]
    /\ last' = Head(respCh).id
    /\ mu' = Nobody
    /\ Return(c, IF Head(respCh).answer = "return" THEN "ok" ELSE "failed")
    /\ UNCHANGED <<qemuVars, connOpen, loopVars, done, listenVars, sent,
                   mine, abandoned>>

(* A faulty variant: Execute does not look at its context.                 *)
ExecuteIgnoresContext(c) ==
    /\ pc[c] = "await" /\ done
    /\ Return(c, "stopped")
    /\ mu' = Nobody
    /\ abandoned' = abandoned + 1
    /\ UNCHANGED <<qemuVars, connOpen, loopVars, respCh, done, listenVars,
                   sent, mine, got, last>>

ExecuteGiveUp(c) ==
    /\ pc[c] = "await"
    /\ \/ cancelled[c] /\ Return(c, "cancelled")
       \/ done /\ Return(c, "stopped")
    /\ mu' = Nobody
    /\ abandoned' = abandoned + 1
    /\ UNCHANGED <<qemuVars, connOpen, loopVars, respCh, done, listenVars,
                   sent, mine, got, last>>

(* SubscribeEvents at the start of a WaitFor... call.                      *)
Subscribe(c) ==
    /\ pc[c] = "subscribe" /\ mu = Nobody
    /\ listeners' = listeners \cup {c}
    /\ chan' = [chan EXCEPT ![c] = << >>]
    /\ closes' = [closes EXCEPT ![c] = 0]
    /\ GoTo(c, "wait")
    /\ UNCHANGED <<qemuVars, connOpen, loopVars, respCh, mu, done, verdict,
                   ghostVars>>

(* The wait loop picks an event; one it does not want is dropped.          *)
WaitEvent(c) ==
    /\ pc[c] = "wait" /\ chan[c] # << >>
    /\ chan' = [chan EXCEPT ![c] = Tail(@)]
    /\ LET e == Head(chan[c]) IN
       \/ /\ e \in Call(c).wants
          /\ verdict' = [verdict EXCEPT ![c] = "ok"]
          /\ GoTo(c, "unsubscribe")
       \/ /\ e \in Call(c).fails \ Call(c).wants
          /\ verdict' = [verdict EXCEPT ![c] = "failed"]
          /\ GoTo(c, "unsubscribe")
       \/ /\ e \notin Call(c).wants \cup Call(c).fails
          /\ UNCHANGED clientVars
    /\ UNCHANGED <<qemuVars, connOpen, loopVars, respCh, mu, done, listeners,
                   closes, ghostVars>>

(* A faulty variant: the loop looks at its context only.                   *)
WaitIgnoresExit(c) ==
    /\ pc[c] = "wait" /\ cancelled[c]
    /\ verdict' = [verdict EXCEPT ![c] = "cancelled"]
    /\ GoTo(c, "unsubscribe")
    /\ UNCHANGED <<qemuVars, connOpen, loopVars, respCh, mu, done,
                   listenVars, ghostVars>>

(* The other branches of the loop's select: context, closed channel, done. *)
WaitGiveUp(c) ==
    /\ pc[c] = "wait"
    /\ \/ /\ cancelled[c]
          /\ verdict' = [verdict EXCEPT ![c] = "cancelled"]
       \/ /\ done \/ (closes[c] > 0 /\ chan[c] = << >>)
          /\ verdict' = [verdict EXCEPT ![c] = "stopped"]
    /\ GoTo(c, "unsubscribe")
    /\ UNCHANGED <<qemuVars, connOpen, loopVars, respCh, mu, done,
                   listenVars, ghostVars>>

(* A faulty variant: unsubscribe closes the channel unconditionally.       *)
UnsubscribeUnchecked(c) ==
    /\ pc[c] = "unsubscribe" /\ mu = Nobody
    /\ listeners' = listeners \ {c}
    /\ closes' = [closes EXCEPT ![c] = @ + 1]
    /\ Return(c, verdict[c])
    /\ UNCHANGED <<qemuVars, connOpen, loopVars, respCh, mu, done, chan,
                   ghostVars>>

(* The deferred unsubscribe: close the channel if it is still registered.  *)
Unsubscribe(c) ==
    /\ pc[c] = "unsubscribe" /\ mu = Nobody
    /\ IF c \in listeners
       THEN /\ listeners' = listeners \ {c}
            /\ closes' = [closes EXCEPT ![c] = @ + 1]
       ELSE UNCHANGED <<listeners, closes>>
    /\ Return(c, verdict[c])
    /\ UNCHANGED <<qemuVars, connOpen, loopVars, respCh, mu, done, chan,
                   ghostVars>>

(* What Kill does: close qmpConn and signal the process; no waiting.       *)
KillProcess ==
    /\ connOpen' = FALSE
    /\ qemu' = IF qemu = "exited" THEN qemu ELSE "dying"

Kill(c) ==
    /\ pc[c] = "kill"
    /\ KillProcess
    /\ Return(c, "ok")
    /\ UNCHANGED <<pending, armed, budget, wire, loopVars, respCh, mu, done,
                   listenVars, ghostVars>>

(* Waiting for m.done or the context.                                      *)
ExitSeen(c) ==
    /\ pc[c] = "exit" /\ done
    /\ Return(c, "ok")
    /\ UNCHANGED <<qemuVars, connOpen, loopVars, respCh, mu, done,
                   listenVars, ghostVars>>

ExitCancelled(c) ==
    /\ pc[c] = "exit" /\ cancelled[c]
    /\ IF Call(c).kills
       THEN KillProcess /\ Return(c, "ok")
       ELSE UNCHANGED <<connOpen, qemu>> /\ Return(c, "cancelled")
    /\ UNCHANGED <<pending, armed, budget, wire, loopVars, respCh, mu, done,
                   listenVars, ghostVars>>

(* A command run inside the guest: a reboot or a shutdown, say.            *)
GuestCommand(c) ==
    /\ pc[c] = "guest"
    /\ armed' = armed \cup Call(c).arms
    /\ qemu' = IF Call(c).quits /\ qemu = "running" THEN "dying" ELSE qemu
    /\ Return(c, "ok")
    /\ UNCHANGED <<pending, budget, wire, connOpen, loopVars, respCh, mu,
                   done, listenVars, ghostVars>>

(* The context of a client, or the timeout of its call, ends.              *)
Expire(c) ==
    /\ c \in Deadline \/ Call(c).timed
    /\ ~cancelled[c] /\ pc[c] # "ended"
    /\ cancelled' = [cancelled EXCEPT ![c] = TRUE]
    /\ UNCHANGED <<qemuVars, connOpen, loopVars, respCh, mu, done,
                   listenVars, pc, ip, verdict, outcome, ghostVars>>

-----------------------------------------------------------------------------
(* eventLoop.                                                              *)

(* A faulty variant: the response is kept even if respCh is full.          *)
LoopReadUnbounded ==
    /\ loop = "read" /\ wire # << >> /\ Head(wire).kind = "response"
    /\ wire' = Tail(wire)
    /\ respCh' = Append(respCh, Head(wire))
    /\ UNCHANGED <<qemu, pending, armed, budget, connOpen, loopVars, mu,
                   done, listenVars, clientVars, ghostVars>>

LoopReadResponse ==
    /\ loop = "read" /\ wire # << >> /\ Head(wire).kind = "response"
    /\ wire' = Tail(wire)
    /\ respCh' = IF Len(respCh) < RespCap THEN Append(respCh, Head(wire))
                 ELSE respCh
    /\ UNCHANGED <<qemu, pending, armed, budget, connOpen, loopVars, mu,
                   done, listenVars, clientVars, ghostVars>>

LoopReadEvent ==
    /\ loop = "read" /\ wire # << >> /\ Head(wire).kind = "event"
    /\ wire' = Tail(wire)
    /\ loop' = "dispatch" /\ hand' = Head(wire)
    /\ UNCHANGED <<qemu, pending, armed, budget, connOpen, respCh, mu, done,
                   listenVars, clientVars, ghostVars>>

LoopReadGarbled ==
    /\ loop = "read" /\ wire # << >> /\ Head(wire).kind = "garbled"
    /\ wire' = Tail(wire)
    /\ UNCHANGED <<qemu, pending, armed, budget, connOpen, loopVars, respCh,
                   mu, done, listenVars, clientVars, ghostVars>>

LoopReadError ==
    /\ loop = "read"
    /\ ~connOpen \/ (qemu = "exited" /\ wire = << >>)
    /\ loop' = "closing"
    /\ UNCHANGED <<qemuVars, connOpen, hand, respCh, mu, done, listenVars,
                   clientVars, ghostVars>>

(* A faulty variant: dispatchEvent gives up when m.mu is taken.            *)
DispatchTryLock ==
    /\ loop = "dispatch"
    /\ chan' = [c \in Clients |->
                  IF mu = Nobody /\ c \in listeners /\ Len(chan[c]) < 1
                  THEN Append(chan[c], hand.name) ELSE chan[c]]
    /\ loop' = "read" /\ hand' = Garbled
    /\ UNCHANGED <<qemuVars, connOpen, respCh, mu, done, listeners, closes,
                   clientVars, ghostVars>>

(* dispatchEvent needs m.mu; a listener whose slot is taken misses it.     *)
DispatchEvent ==
    /\ loop = "dispatch" /\ mu = Nobody
    /\ chan' = [c \in Clients |->
                  IF c \in listeners /\ Len(chan[c]) < 1
                  THEN Append(chan[c], hand.name) ELSE chan[c]]
    /\ loop' = "read" /\ hand' = Garbled
    /\ UNCHANGED <<qemuVars, connOpen, respCh, mu, done, listeners, closes,
                   clientVars, ghostVars>>

CloseListeners ==
    /\ loop = "closing" /\ mu = Nobody
    /\ closes' = [c \in Clients |->
                    IF c \in listeners THEN closes[c] + 1 ELSE closes[c]]
    /\ listeners' = {}
    /\ loop' = "ended"
    /\ UNCHANGED <<qemuVars, connOpen, hand, respCh, mu, done, chan,
                   clientVars, ghostVars>>

-----------------------------------------------------------------------------
(* The goroutine that waits for the process, and the QEMU process.         *)

MonitorExit ==
    /\ qemu = "exited" /\ ~done
    /\ done' = TRUE
    /\ UNCHANGED <<qemuVars, connOpen, loopVars, respCh, mu, listenVars,
                   clientVars, ghostVars>>

QemuAnswer ==
    /\ qemu = "running" /\ pending # << >>
    /\ pending' = Tail(pending)
    /\ LET call == Head(pending).call
           reply(a) == [kind |-> "response", id |-> Head(pending).id,
                        answer |-> a]
       IN \/ /\ "error" \in Answers
             /\ wire' = Append(wire, reply("error"))
             /\ UNCHANGED <<armed, qemu>>
          \/ /\ "return" \in Answers
             /\ qemu' = IF call.quits THEN "dying" ELSE qemu
             /\ \/ /\ wire' = Append(wire, reply("return"))
                   /\ armed' = armed \cup call.arms
                \/ \E e \in call.arms :      \* the event comes first
                      /\ wire' = wire \o <<Event(e), reply("return")>>
                      /\ armed' = armed \cup (call.arms \ {e})
    /\ UNCHANGED <<budget, connOpen, loopVars, respCh, mu, done, listenVars,
                   clientVars, ghostVars>>

(* The event a past call leads to: DUMP_COMPLETED, RESET, ...              *)
QemuFollowUp ==
    /\ qemu # "exited"
    /\ \E e \in armed :
          /\ armed' = armed \ {e}
          /\ wire' = Append(wire, Event(e))
    /\ UNCHANGED <<qemu, pending, budget, connOpen, loopVars, respCh, mu,
                   done, listenVars, clientVars, ghostVars>>

(* An event nobody asked for, or a line that is not JSON.                  *)
QemuSpeak ==
    /\ qemu # "exited" /\ budget > 0
    /\ budget' = budget - 1
    /\ \E m \in {Event(e) : e \in Spontaneous} \cup {Garbled} :
          wire' = Append(wire, m)
    /\ UNCHANGED <<qemu, pending, armed, connOpen, loopVars, respCh, mu,
                   done, listenVars, clientVars, ghostVars>>

(* QEMU crashes, is killed from outside, or the guest powers off.          *)
QemuCrash ==
    /\ qemu = "running"
    /\ qemu' = "dying"
    /\ UNCHANGED <<pending, armed, budget, wire, connOpen, loopVars, respCh,
                   mu, done, listenVars, clientVars, ghostVars>>

QemuExit ==
    /\ qemu = "dying"
    /\ qemu' = "exited"
    /\ pending' = << >> /\ armed' = {}
    /\ UNCHANGED <<budget, wire, connOpen, loopVars, respCh, mu, done,
                   listenVars, clientVars, ghostVars>>

-----------------------------------------------------------------------------
Locking(c) == ExecuteWrite(c) \/ ExecuteWriteError(c) \/ Subscribe(c)
              \/ Unsubscribe(c)

Waiting(c) == ExecuteResponse(c) \/ ExecuteGiveUp(c) \/ WaitEvent(c)
              \/ WaitGiveUp(c) \/ ExitSeen(c) \/ ExitCancelled(c)

Client(c) == Locking(c) \/ Waiting(c) \/ Kill(c) \/ GuestCommand(c)

LoopRead == LoopReadResponse \/ LoopReadEvent \/ LoopReadGarbled
            \/ LoopReadError

Loop == LoopRead \/ DispatchEvent \/ CloseListeners

Qemu == QemuAnswer \/ QemuFollowUp \/ QemuSpeak \/ QemuCrash \/ QemuExit

(* Every client returned: the program has no further use of the machine.   *)
AllEnded == (\A c \in Clients : pc[c] = "ended") /\ UNCHANGED vars

Next ==
    \/ \E c \in Clients : Client(c) \/ Expire(c)
    \/ Loop
    \/ MonitorExit
    \/ Qemu
    \/ AllEnded

Spec == Init /\ [][Next]_vars

(* Goroutines are scheduled; sync.Mutex does not starve a waiter; QEMU     *)
(* answers, writes the follow-up events, and exits once told to; a         *)
(* deadline passes.  Nothing obliges QEMU to crash or to speak up.         *)
Fairness ==
    /\ \A c \in Clients : /\ WF_vars(Waiting(c) \/ Kill(c) \/ GuestCommand(c))
                          /\ SF_vars(Locking(c))
                          /\ WF_vars(Expire(c))
    /\ WF_vars(LoopRead) /\ SF_vars(DispatchEvent) /\ SF_vars(CloseListeners)
    /\ WF_vars(MonitorExit)
    /\ WF_vars(QemuAnswer) /\ WF_vars(QemuFollowUp) /\ WF_vars(QemuExit)

FairSpec == Spec /\ Fairness

-----------------------------------------------------------------------------
(* Properties.                                                             *)

QemuTypeOK ==
    /\ qemu \in {"running", "dying", "exited"}
    /\ pending \in Seq(Requests)
    /\ armed \subseteq Events /\ budget \in Nat
    /\ wire \in Seq(Messages)

LoopTypeOK ==
    /\ loop \in {"read", "dispatch", "closing", "ended"}
    /\ hand \in EventMsgs \cup {Garbled}
    /\ loop = "dispatch" => hand \in EventMsgs
    /\ respCh \in Seq(ResponseMsgs) /\ Len(respCh) <= RespCap

ListenTypeOK ==
    /\ listeners \subseteq Clients
    /\ chan \in [Clients -> Seq(Events)]
    /\ \A c \in Clients : Len(chan[c]) <= 1
    /\ closes \in [Clients -> Nat]

CallTypeOK ==
    /\ mu \in Clients \cup {Nobody}
    /\ pc \in [Clients -> {"lock", "await", "subscribe", "wait",
                           "unsubscribe", "exit", "kill", "guest", "ended"}]
    /\ ip \in [Clients -> Nat]
    /\ \A c \in Clients : ip[c] \in 1 .. Len(Script[c])
    /\ verdict \in [Clients -> Outcomes] /\ outcome \in [Clients -> Outcomes]

FlagTypeOK ==
    /\ connOpen \in BOOLEAN /\ done \in BOOLEAN
    /\ cancelled \in [Clients -> BOOLEAN]

GhostTypeOK ==
    /\ sent \in Nat /\ last \in Nat /\ abandoned \in Nat
    /\ mine \in [Clients -> Nat] /\ got \in [Clients -> Nat]

(* The type invariant of the machine and of its clients.                   *)
TypeOK == QemuTypeOK /\ LoopTypeOK /\ ListenTypeOK /\ CallTypeOK
          /\ FlagTypeOK /\ GhostTypeOK

(* No goroutine closes a listener channel twice and none sends on a closed *)
(* one (either is a run-time panic of the whole program), although         *)
(* unsubscribe and the end of the event loop both close them: what is      *)
(* still in m.listeners is open.                                           *)
ListenersOpen ==
    \A c \in Clients : /\ closes[c] <= 1
                       /\ c \in listeners => closes[c] = 0

(* QMP responses carry no id on the way back: Execute returns the first    *)
(* one in respCh.  It is never the response to a later command, and it is  *)
(* as many commands too old as there were Execute calls that gave up.      *)
LagBound ==
    \A c \in Clients : got[c] # 0 => /\ got[c] <= mine[c]
                                     /\ mine[c] <= got[c] + abandoned

(* No response is returned twice, and none out of order, whichever clients *)
(* take them.                                                              *)
ResponsesInOrder ==
    [][\A c \in Clients : got'[c] \in {0, got[c]} \/ got'[c] > last]_vars

(* Execute's comment: it "sends a QMP command and waits for the response". *)
(* What it returns is the response to the command it sent.                 *)
OwnResponse == \A c \in Clients : got[c] # 0 => got[c] = mine[c]

(* If every Execute has a deadline, of its caller or of its own, a caller  *)
(* with a deadline ends, whatever QEMU does and although it needs m.mu,    *)
(* which others hold while they wait for QEMU, to get away.                *)
DeadlinesHold == \A c \in Deadline : <>(pc[c] = "ended")

(* Once QEMU has exited every call returns, also those without a deadline. *)
ExitReleasesEveryone == (qemu = "exited") ~> (\A c \in Clients : pc[c] = "ended")

(* Execute returns what a running QEMU answers, if nobody's context ends   *)
(* and QEMU stays up.                                                      *)
ExecuteReturns ==
    \A c \in Clients : pc[c] = "await" ~> (pc[c] # "await" \/ qemu # "running")

(* An event a wait under way wants ends the wait, unless QEMU stops, if it *)
(* is the next event and the listener's slot is free; the event loop may   *)
(* have to wait for m.mu before it can hand it over.  (If another event    *)
(* takes the slot, the wanted one is dropped and the wait goes on.)        *)
ComesNext(c) ==
    /\ pc[c] = "wait" /\ chan[c] = << >> /\ loop = "read"
    /\ \E i \in 1 .. Len(wire) :
          /\ wire[i].kind = "event" /\ wire[i].name \in Call(c).wants
          /\ \A j \in 1 .. i - 1 : wire[j].kind # "event"

WaitSeesEvent ==
    \A c \in Clients :
        ComesNext(c) ~> (pc[c] # "wait" \/ qemu # "running")

(* A caller that carried something out and then waits for the event it     *)
(* leads to sees that event and returns, unless QEMU stops.                *)
FollowUpSeen ==
    \A c \in Clients :
        (pc[c] = "subscribe" /\ outcome[c] = "ok" /\ qemu = "running")
            ~> (pc[c] = "ended" \/ qemu # "running")
=============================================================================
