--------------------------- MODULE DurableDelivery ---------------------------
(***************************************************************************)
(* A message from one OpenCode process to another, end to end: the broker  *)
(* of IntercomBroker, the connections to it, and each process's broker     *)
(* client (src/broker/client.ts), durable outbox (src/outbound-outbox.ts), *)
(* runtime (src/opencode/runtime.ts) and durable inbound store             *)
(* (src/opencode/inbound-store.ts).                                        *)
(*                                                                         *)
(* A connection is two queues.  Each party handles one message at a time;  *)
(* any of them may be killed between two of them, and what is on disk      *)
(* survives.                                                               *)
(***************************************************************************)
EXTENDS IntercomBroker, SequencesExt

CONSTANTS
  Identity,   \* the name every session registers with
  MaxLedger,  \* MAX_DELIVERED_IDS: how many finished messages a store remembers
  MaxFaults   \* bound: kills, dropped connections and shutdowns

\* A message id is a UUID: it stands for one message of one sender.
ASSUME MessagesAssumption ==
  /\ \A x, y \in Sends : x.msg.id = y.msg.id => x = y
  /\ Identity \in Names /\ MaxLedger \in Nat \ {0} /\ MaxFaults \in Nat
ASSUME SocketsAssumption == None \notin Sockets

Sendable == {x.msg.id : x \in Sends}
SendOf(id) == CHOOSE x \in Sends : x.msg.id = id
Payload(id) == SendOf(id).msg

VARIABLES
  phase,     \* how far each process's runtime has got with its connection
  link,      \* the socket its broker client holds
  outbox,    \* the messages in its outbox file
  sending,   \* pendingSends: the messages whose send() has not returned
  waiting,   \* replyWaiters: the asks whose ask() waits for a reply
  store,     \* the record its inbound state file has of each message
  ledger,    \* delivered, in the same file: the place of each finished message,
             \* from the latest one on; 0: none
  toBroker,  \* written to each connection, not yet read by the broker
  toClient,  \* written by the broker, not yet read by the client
  verdict,   \* history: how each message left its sender's outbox
  handed,    \* history: how often each process handed a message on as a new one
  forgot,    \* history: how often it dropped a message from its ledger
  gaveUp,    \* what each ask() gave up on, if it did
  faults

clients == <<phase, link, outbox, sending, waiting, store, ledger>>
wires == <<toBroker, toClient>>
history == <<verdict, handed, forgot, gaveUp>>
allVars == <<vars, clients, wires, history, faults>>

\* stopped: no process.  idle: the reconnect timer is armed.  alone: no attempt
\* is due unless a tool makes one.  preparing, connecting: an attempt that nobody
\* repeats, before and after register is written; reconnecting: the timer's.
\* registered: the client has its answer.  ready: connectOnce has resumed and
\* the runtime uses the client.
Offline == {"stopped", "idle", "alone", "preparing"}
Attempt == {"connecting", "reconnecting"}
Phase == Offline \cup Attempt \cup {"registered", "ready"}
Kept == {"absent", "pending", "injected"}

\* What the two ends of a connection write to each other.
Request ==
  [type : {"register"}, id : SessionIds]
  \cup [type : {"send"}, id : Sendable]
  \cup [type : {"defer_ask", "cancel_ask"}, id : MessageIds]
  \cup [type : {"message_received"}, id : Deliveries]
  \cup [type : {"unregister"}, id : {None}]
Response == Write \cup [type : {"registered"}, id : SessionIds]

DeliveryTypeOK ==
  /\ phase \in [SessionIds -> Phase]
  /\ link \in [SessionIds -> Sockets \cup {None}]
  /\ outbox \in [SessionIds -> SUBSET Sendable]
  /\ sending \in [SessionIds -> SUBSET MessageIds]
  /\ waiting \in [SessionIds -> SUBSET MessageIds]
  /\ \A s \in SessionIds : /\ sending[s] \subseteq outbox[s]
                           /\ link[s] = None <=> phase[s] \in Offline
  /\ toBroker \in [Sockets -> Seq(Request)] /\ toClient \in [Sockets -> Seq(Response)]
  /\ store \in [SessionIds -> [MessageIds -> Kept]]
  /\ ledger \in [SessionIds -> [MessageIds -> 0..MaxLedger]]
  /\ verdict \in [MessageIds -> {"open", "delivered", "failed", "discarded"}]
  /\ handed \in [SessionIds -> [MessageIds -> Nat]]
  /\ forgot \in [SessionIds -> [MessageIds -> Nat]]
  /\ gaveUp \in [MessageIds -> {"nothing", "sending", "waiting"}]
  /\ faults \in 0..MaxFaults

-----------------------------------------------------------------------------
(* The connections.                                                        *)

Frame(type, id) == <<[type |-> type, id |-> id]>>
Linked(k) == \E s \in SessionIds : link[s] = k

\* What the broker writes to k in this step, as far as a client acts on it.
Batch(k) ==
  SetToSeq({w \in writes' : w.socket = k /\ w.type \in {"message", "delivered", "delivery_failed"}})
Written ==
  toClient' = [k \in Sockets |-> IF conn[k] = "open" THEN toClient[k] \o Batch(k)
                                 ELSE toClient[k]]

\* The ids of deliveries are UUIDs: none is reused while a frame names it.
FreshDelivery ==
  \A p \in pending' \ pending, k \in Sockets :
    /\ \A i \in DOMAIN toBroker[k] : toBroker[k][i].id # p.delivery
    /\ \A i \in DOMAIN toClient[k] :
         toClient[k][i].type = "message" => toClient[k][i].detail # p.delivery

\* s's client writes to its socket, whose other end may be gone.
Say(s, frames) ==
  toBroker' = IF conn[link[s]] = "free" THEN toBroker
              ELSE [toBroker EXCEPT ![link[s]] = @ \o frames]
Hears(s, type) ==
  link[s] # None /\ toClient[link[s]] # <<>> /\ Head(toClient[link[s]]).type = type
Consume(s) == toClient' = [toClient EXCEPT ![link[s]] = Tail(@)]

\* The broker reads a frame from k.
Asks(k, type) == Reads(k) /\ toBroker[k] # <<>> /\ Head(toBroker[k]).type = type
Handled(k) == toBroker' = [toBroker EXCEPT ![k] = Tail(@)]
Subject(k) == Head(toBroker[k]).id

-----------------------------------------------------------------------------
(* The broker at the end of those connections.                             *)

BrokerRegisters(k) ==
  /\ Asks(k, "register") /\ Register(k, Subject(k), Identity)
  /\ toClient' = [j \in Sockets |->
       (IF conn[j] = "open" THEN toClient[j] \o Batch(j) ELSE toClient[j])
         \o (IF j = k /\ conn[k] = "open" THEN Frame("registered", Subject(k)) ELSE <<>>)]
  /\ Handled(k)
  /\ UNCHANGED <<clients, history, faults>>

BrokerSends(k) ==
  /\ Asks(k, "send") /\ SendMessage(k, SendOf(Subject(k)))
  /\ FreshDelivery
  /\ Handled(k) /\ Written
  /\ UNCHANGED <<clients, history, faults>>

\* A handler of k for the subject of the frame.
BrokerControls(k) ==
  /\ \/ /\ Asks(k, "message_received")
        /\ \E p \in pending : p.delivery = Subject(k) /\ MessageReceived(k, p)
     \/ Asks(k, "defer_ask") /\ \E e \in asks : e.id = Subject(k) /\ DeferAsk(k, e)
     \/ Asks(k, "cancel_ask") /\ \E e \in asks : e.id = Subject(k) /\ CancelAsk(k, e)
     \/ Asks(k, "unregister") /\ Unregister(k, FALSE)
  /\ Handled(k) /\ Written
  /\ UNCHANGED <<clients, history, faults>>

\* The subject is gone, or is not k's to settle: nothing is done or written.
BrokerIgnores(k) ==
  /\ Handles(k)
  /\ \/ /\ Asks(k, "message_received")
        /\ \A p \in pending : p.delivery = Subject(k) =>
             ~(p.to = bound[k] /\ p.recipientSocket = k)
     \/ /\ Asks(k, "defer_ask")
        /\ \A e \in asks : e.id = Subject(k) => e.from # bound[k] \/ e.state = "deferred"
     \/ /\ Asks(k, "cancel_ask")
        /\ \A e \in asks : e.id = Subject(k) => e.from # bound[k] \/ ~Holds(k)
  /\ Handled(k)
  /\ UNCHANGED <<vars, toClient, clients, history, faults>>

\* The broker learns that a connection is over: its client has gone, or it
\* ended the connection itself.
BrokerCloses(k) ==
  /\ SocketClose(k)
  /\ ~Linked(k) \/ conn[k] # "open"
  /\ toBroker' = [toBroker EXCEPT ![k] = <<>>]
  /\ Written
  /\ UNCHANGED <<clients, history, faults>>

BrokerTimers ==
  /\ \/ \E p \in pending : DeliveryTimeout(p)
     \/ \E e \in asks : AskExpires(e)
  /\ Written
  /\ UNCHANGED <<clients, toBroker, history, faults>>

\* As a fault, so long a pause that what the broker remembers lapses.
TimePasses ==
  /\ faults < MaxFaults /\ faults' = faults + 1
  /\ (\E e \in askFile : AskLapses(e)) \/ (\E r \in recent : RecentLapses(r))
  /\ UNCHANGED <<clients, wires, history>>

\* The process ends by itself or, as a fault, is killed; a client that needs it
\* starts the next one.
BrokerStops ==
  /\ \/ ShutdownCheck /\ UNCHANGED faults
     \/ faults < MaxFaults /\ Crash /\ faults' = faults + 1
  /\ toBroker' = IF up' THEN toBroker ELSE [k \in Sockets |-> <<>>]
  /\ UNCHANGED <<clients, toClient, history>>

BrokerStarts ==
  /\ Start
  /\ \E s \in SessionIds : phase[s] \in {"idle", "preparing"}
  /\ UNCHANGED <<clients, wires, history, faults>>

\* As a fault, the broker gives a connection up.
BrokerCondemns(k) ==
  /\ faults < MaxFaults /\ faults' = faults + 1
  /\ Linked(k) /\ (Condemn(k) \/ RegistrationTimeout(k))
  /\ UNCHANGED <<clients, wires, history>>

-----------------------------------------------------------------------------
(* A process: connecting.                                                  *)

\* connectOnce, up to the register message it writes.
ClientConnects(s, k) ==
  /\ phase[s] \in {"idle", "preparing"} /\ ~Linked(k)
  /\ Connect(k)
  /\ phase' = [phase EXCEPT ![s] = IF @ = "idle" THEN "reconnecting" ELSE "connecting"]
  /\ link' = [link EXCEPT ![s] = k]
  /\ toBroker' = [toBroker EXCEPT ![k] = Frame("register", s)]
  /\ toClient' = [toClient EXCEPT ![k] = <<>>]
  /\ UNCHANGED <<outbox, sending, waiting, store, ledger, history, faults>>

\* Every tool connects first, which disarms the timer.
ToolConnects(s) ==
  /\ phase[s] \in {"idle", "alone"}
  /\ phase' = [phase EXCEPT ![s] = "preparing"]
  /\ UNCHANGED <<vars, link, outbox, sending, waiting, store, ledger, wires, history, faults>>

\* Mutant of AfterLoss: the timer does not repeat its attempt.
AfterLossOnce(s) == IF phase[s] \in Attempt THEN "alone" ELSE "idle"

\* A connection that had been established and an attempt of the timer arm the
\* timer; nobody repeats any other attempt.
AfterLoss(s) == IF phase[s] = "connecting" THEN "alone" ELSE "idle"

\* As a fault, an attempt fails: no broker comes up in time, or it does not
\* answer within ten seconds.
ConnectFails(s) ==
  /\ faults < MaxFaults /\ faults' = faults + 1
  /\ \/ ~up /\ phase[s] = "preparing" /\ phase' = [phase EXCEPT ![s] = "alone"]
     \/ phase[s] \in Attempt /\ phase' = [phase EXCEPT ![s] = AfterLoss(s)]
  /\ link' = [link EXCEPT ![s] = None]
  /\ toClient' = IF link[s] = None THEN toClient
                 ELSE [toClient EXCEPT ![link[s]] = <<>>]
  /\ UNCHANGED <<vars, outbox, sending, waiting, store, ledger, toBroker, history>>

\* Mutant of ClientRegistered: the outbox is not replayed.
ClientRegisteredOnly(s) ==
  /\ Hears(s, "registered") /\ phase[s] \in Attempt
  /\ phase' = [phase EXCEPT ![s] = "registered"]
  /\ Consume(s)
  /\ UNCHANGED <<vars, link, outbox, sending, waiting, store, ledger, toBroker, history, faults>>

\* registered: the outbox is opened and replayed.  A new client has no send of
\* its own yet, so that none of its messages is passed over.
ClientRegistered(s) ==
  /\ Hears(s, "registered") /\ phase[s] \in Attempt
  /\ phase' = [phase EXCEPT ![s] = "registered"]
  /\ LET replayed == SetToSeq(outbox[s])
     IN Say(s, [i \in DOMAIN replayed |-> [type |-> "send", id |-> replayed[i]]])
  /\ Consume(s)
  /\ UNCHANGED <<vars, link, outbox, sending, waiting, store, ledger, history, faults>>

\* connectOnce resumes after its await: only now can the runtime answer.
ClientReady(s) ==
  /\ phase[s] = "registered"
  /\ phase' = [phase EXCEPT ![s] = "ready"]
  /\ UNCHANGED <<vars, link, outbox, sending, waiting, store, ledger, wires, history, faults>>

\* The connection is lost: onClose fails what send() and ask() wait for.
ClientDisconnected(s) ==
  /\ link[s] # None /\ conn[link[s]] # "open"
  /\ phase' = [phase EXCEPT ![s] = AfterLoss(s)]
  /\ link' = [link EXCEPT ![s] = None]
  /\ sending' = [sending EXCEPT ![s] = {}]
  /\ waiting' = [waiting EXCEPT ![s] = {}]
  /\ toClient' = [toClient EXCEPT ![link[s]] = <<>>]
  /\ UNCHANGED <<vars, outbox, store, ledger, toBroker, history, faults>>

\* The process is killed: its two files remain.
ClientKilled(s) ==
  /\ faults < MaxFaults /\ faults' = faults + 1
  /\ phase[s] # "stopped"
  /\ phase' = [phase EXCEPT ![s] = "stopped"]
  /\ link' = [link EXCEPT ![s] = None]
  /\ sending' = [sending EXCEPT ![s] = {}]
  /\ waiting' = [waiting EXCEPT ![s] = {}]
  /\ toClient' = IF link[s] = None THEN toClient
                 ELSE [toClient EXCEPT ![link[s]] = <<>>]
  /\ UNCHANGED <<vars, outbox, store, ledger, toBroker, history>>

\* Mutant of ClientDisposed: what send() waits for is not failed.
ClientDisposedSilently(s) ==
  /\ faults < MaxFaults /\ faults' = faults + 1
  /\ phase[s] = "ready"
  /\ phase' = [phase EXCEPT ![s] = "stopped"]
  /\ link' = [link EXCEPT ![s] = None]
  /\ outbox' = [outbox EXCEPT ![s] = {}]
  /\ verdict' = [id \in MessageIds |-> IF id \in outbox[s] THEN "discarded" ELSE verdict[id]]
  /\ Say(s, Frame("unregister", None))
  /\ toClient' = [toClient EXCEPT ![link[s]] = <<>>]
  /\ UNCHANGED <<vars, sending, waiting, store, ledger, handed, forgot, gaveUp>>

\* disconnect: the process ends in order, unregisters and clears its outbox.
ClientDisposed(s) ==
  /\ faults < MaxFaults /\ faults' = faults + 1
  /\ phase[s] = "ready"
  /\ phase' = [phase EXCEPT ![s] = "stopped"]
  /\ link' = [link EXCEPT ![s] = None]
  /\ outbox' = [outbox EXCEPT ![s] = {}]
  /\ verdict' = [id \in MessageIds |-> IF id \in outbox[s] THEN "discarded" ELSE verdict[id]]
  /\ sending' = [sending EXCEPT ![s] = {}]
  /\ waiting' = [waiting EXCEPT ![s] = {}]
  /\ Say(s, Frame("unregister", None))
  /\ toClient' = [toClient EXCEPT ![link[s]] = <<>>]
  /\ UNCHANGED <<vars, store, ledger, handed, forgot, gaveUp>>

ClientStarts(s) ==
  /\ phase[s] = "stopped"
  /\ phase' = [phase EXCEPT ![s] = "preparing"]
  /\ UNCHANGED <<vars, link, outbox, sending, waiting, store, ledger, wires, history, faults>>

-----------------------------------------------------------------------------
(* A process: sending, receiving, waiting.                                 *)

\* s has handed id to its outbox, now or before.
Posted == {id \in MessageIds : verdict[id] # "open" \/ \E s \in SessionIds : id \in outbox[s]}

\* send, ask or reply, which answers an ask that the store still holds: the
\* message is in the outbox file before it is written to the socket.
ClientSends(s, x) ==
  LET id == x.msg.id
  IN
  /\ phase[s] = "ready" /\ x.from = s /\ id \notin Posted
  /\ x.msg.replyTo # None => store[s][x.msg.replyTo] \in {"pending", "injected"}
  /\ outbox' = [outbox EXCEPT ![s] = @ \cup {id}]
  /\ sending' = [sending EXCEPT ![s] = @ \cup {id}]
  /\ waiting' = [waiting EXCEPT ![s] = IF x.msg.expectsReply THEN @ \cup {id} ELSE @]
  /\ Say(s, Frame("send", id))
  /\ UNCHANGED <<vars, phase, link, store, ledger, toClient, history, faults>>

Finished(s, id) == ledger[s][id] # 0

\* rememberDelivered: id comes last in the ledger; if that makes one too many,
\* the first goes.
Remembering(s, id) ==
  LET Moves(x) == Finished(s, x) /\ (Finished(s, id) => ledger[s][x] < ledger[s][id])
  IN [x \in MessageIds |->
       IF x = id THEN 1
       ELSE IF ~Moves(x) THEN ledger[s][x]
       ELSE IF ledger[s][x] < MaxLedger THEN ledger[s][x] + 1 ELSE 0]

\* s is done with id: the record becomes an entry of the ledger.
Finishes(s, id) ==
  /\ store' = [store EXCEPT ![s][id] = "absent"]
  /\ ledger' = [ledger EXCEPT ![s] = Remembering(s, id)]
  /\ forgot' = [forgot EXCEPT ![s] = [x \in MessageIds |->
       IF Finished(s, x) /\ Remembering(s, id)[x] = 0 THEN @[x] + 1 ELSE @[x]]]

\* Mutant of Repeated: only the ledger of finished messages is consulted.
RepeatedIfFinished(s, id) == Finished(s, id)

\* The store has the message: as a record or, once done with, in its ledger.
Repeated(s, id) == Finished(s, id) \/ store[s][id] # "absent"

\* handleIncomingMessage: a reply goes to the ask that waits for it; any other
\* message is in the store before it is acknowledged and handed on.
ClientMessage(s) ==
  LET w == Head(toClient[link[s]])
      answers == Payload(w.id).replyTo \in waiting[s]
      new == answers \/ ~Repeated(s, w.id)
  IN
  /\ Hears(s, "message")
  /\ waiting' = [waiting EXCEPT ![s] = @ \ {Payload(w.id).replyTo}]
  /\ store' = IF answers \/ ~new THEN store
              ELSE [store EXCEPT ![s][w.id] = "pending"]
  /\ handed' = IF new THEN [handed EXCEPT ![s][w.id] = @ + 1] ELSE handed
  /\ IF phase[s] = "ready" THEN Say(s, Frame("message_received", w.detail))
     ELSE UNCHANGED toBroker
  /\ Consume(s)
  /\ UNCHANGED <<vars, phase, link, outbox, sending, ledger, verdict, forgot, gaveUp, faults>>

\* s's client learns how id was settled.  Without a send() to return to, as
\* after a replay, the outbox is all that changes.
Outcome(s, id, outcome) ==
  /\ outbox' = [outbox EXCEPT ![s] = @ \ {id}]
  /\ verdict' = IF id \in outbox[s] THEN [verdict EXCEPT ![id] = outcome] ELSE verdict
  /\ sending' = [sending EXCEPT ![s] = @ \ {id}]

\* delivered: a reply's send() returns and resolves the ask in the store; an
\* ask() that has timed out meanwhile cancels.
ClientDelivered(s) ==
  LET id == Head(toClient[link[s]]).id
      returns == id \in sending[s]
  IN
  /\ Hears(s, "delivered")
  /\ Outcome(s, id, "delivered")
  /\ IF returns /\ Payload(id).replyTo # None THEN Finishes(s, Payload(id).replyTo)
     ELSE UNCHANGED <<store, ledger, forgot>>
  /\ IF returns /\ gaveUp[id] = "waiting" THEN Say(s, Frame("cancel_ask", id))
     ELSE UNCHANGED toBroker
  /\ Consume(s)
  /\ UNCHANGED <<vars, phase, link, waiting, handed, gaveUp, faults>>

\* Mutant of ClientFailed: the result of a reply's send() is not looked at.
ClientFailedUnchecked(s) ==
  LET id == Head(toClient[link[s]]).id
      returns == id \in sending[s]
      ends == returns /\ Payload(id).expectsReply
  IN
  /\ Hears(s, "delivery_failed")
  /\ Outcome(s, id, "failed")
  /\ IF returns /\ Payload(id).replyTo # None THEN Finishes(s, Payload(id).replyTo)
     ELSE UNCHANGED <<store, ledger, forgot>>
  /\ waiting' = IF ends THEN [waiting EXCEPT ![s] = @ \ {id}] ELSE waiting
  /\ IF ends THEN Say(s, Frame("cancel_ask", id)) ELSE UNCHANGED toBroker
  /\ Consume(s)
  /\ UNCHANGED <<vars, phase, link, handed, gaveUp, faults>>

\* delivery_failed: an ask() returns and cancels.
ClientFailed(s) ==
  LET id == Head(toClient[link[s]]).id
      ends == id \in sending[s] /\ Payload(id).expectsReply
  IN
  /\ Hears(s, "delivery_failed")
  /\ Outcome(s, id, "failed")
  /\ waiting' = IF ends THEN [waiting EXCEPT ![s] = @ \ {id}] ELSE waiting
  /\ IF ends THEN Say(s, Frame("cancel_ask", id)) ELSE UNCHANGED toBroker
  /\ Consume(s)
  /\ UNCHANGED <<vars, phase, link, store, ledger, handed, forgot, gaveUp, faults>>

\* As a fault, no answer comes within send()'s ten seconds: the outbox keeps the
\* message, an ask() gives up and cancels while its waiter stays.
SendTimeout(s, id) ==
  /\ faults < MaxFaults /\ faults' = faults + 1
  /\ phase[s] = "ready" /\ id \in sending[s]
  /\ sending' = [sending EXCEPT ![s] = @ \ {id}]
  /\ gaveUp' = [gaveUp EXCEPT ![id] = IF @ = "nothing" THEN "sending" ELSE @]
  /\ IF Payload(id).expectsReply THEN Say(s, Frame("cancel_ask", id))
     ELSE UNCHANGED toBroker
  /\ UNCHANGED <<vars, phase, link, outbox, waiting, store, ledger, toClient, verdict,
                 handed, forgot>>

\* waitForReply's time is over: the ask is deferred; an ask() whose send() has
\* returned catches the rejection and cancels it.
AskTimeout(s, id) ==
  /\ phase[s] = "ready" /\ id \in waiting[s]
  /\ waiting' = [waiting EXCEPT ![s] = @ \ {id}]
  /\ gaveUp' = [gaveUp EXCEPT ![id] = IF @ = "nothing" THEN "waiting" ELSE @]
  /\ Say(s, Frame("defer_ask", id) \o
            IF id \in sending[s] \/ gaveUp[id] # "nothing" THEN <<>>
            ELSE Frame("cancel_ask", id))
  /\ UNCHANGED <<vars, phase, link, outbox, sending, store, ledger, toClient, verdict,
                 handed, forgot, faults>>

\* markInjected: OpenCode has the message; a plain one is done with.
Injected(s, id) ==
  /\ phase[s] # "stopped" /\ store[s][id] = "pending"
  /\ IF Payload(id).expectsReply
     THEN store' = [store EXCEPT ![s][id] = "injected"] /\ UNCHANGED <<ledger, forgot>>
     ELSE Finishes(s, id)
  /\ UNCHANGED <<vars, phase, link, outbox, sending, waiting, wires, verdict, handed,
                 gaveUp, faults>>

-----------------------------------------------------------------------------
DeliveryInit ==
  /\ Init
  /\ phase = [s \in SessionIds |-> "stopped"]
  /\ link = [s \in SessionIds |-> None]
  /\ outbox = [s \in SessionIds |-> {}]
  /\ sending = [s \in SessionIds |-> {}]
  /\ waiting = [s \in SessionIds |-> {}]
  /\ store = [s \in SessionIds |-> [id \in MessageIds |-> "absent"]]
  /\ ledger = [s \in SessionIds |-> [id \in MessageIds |-> 0]]
  /\ toBroker = [k \in Sockets |-> <<>>] /\ toClient = [k \in Sockets |-> <<>>]
  /\ verdict = [id \in MessageIds |-> "open"]
  /\ handed = [s \in SessionIds |-> [id \in MessageIds |-> 0]] /\ forgot = handed
  /\ gaveUp = [id \in MessageIds |-> "nothing"] /\ faults = 0

BrokerReads(k) ==
  BrokerRegisters(k) \/ BrokerSends(k) \/ BrokerControls(k) \/ BrokerIgnores(k)
BrokerSteps ==
  \/ \E k \in Sockets : BrokerReads(k) \/ BrokerCloses(k) \/ BrokerCondemns(k)
  \/ BrokerTimers \/ TimePasses \/ BrokerStops \/ BrokerStarts

ClientReads(s) == ClientRegistered(s) \/ ClientMessage(s) \/ ClientDelivered(s) \/ ClientFailed(s)
ClientSteps(s) ==
  \/ ClientReads(s) \/ ClientReady(s) \/ ClientDisconnected(s)
  \/ ClientKilled(s) \/ ClientDisposed(s) \/ ClientStarts(s) \/ ConnectFails(s)
  \/ ToolConnects(s) \/ \E k \in Sockets : ClientConnects(s, k)
  \/ \E x \in Sends : ClientSends(s, x)
  \/ \E id \in MessageIds : SendTimeout(s, id) \/ AskTimeout(s, id) \/ Injected(s, id)

DeliveryNext == BrokerSteps \/ \E s \in SessionIds : ClientSteps(s)

DeliverySpec == DeliveryInit /\ [][DeliveryNext]_allVars

\* Whoever has a message to read, a process to start or by itself a connection
\* to make does so, and a receiver's time to acknowledge runs out.  Nobody need
\* call a tool.
DeliveryFairness ==
  /\ \A k \in Sockets : WF_allVars(BrokerReads(k)) /\ WF_allVars(BrokerCloses(k))
  /\ WF_allVars(BrokerStarts)
  /\ WF_allVars(\E p \in pending : DeliveryTimeout(p) /\ BrokerTimers)
  /\ \A s \in SessionIds :
       /\ WF_allVars(ClientReads(s)) /\ WF_allVars(ClientReady(s))
       /\ WF_allVars(ClientDisconnected(s)) /\ WF_allVars(ClientStarts(s))
       /\ WF_allVars(\E k \in Sockets : ClientConnects(s, k))

DeliveryLiveSpec == DeliverySpec /\ DeliveryFairness

-----------------------------------------------------------------------------
(* What is promised.                                                       *)

\* Nothing in the outbox of a connected sender is forgotten: it is on its way
\* to the broker, the broker waits for its acknowledgement on behalf of this
\* very connection, or the answer is on its way back.
OutboxIsInFlight ==
  \A s \in SessionIds : \A id \in outbox[s] :
    phase[s] \in {"registered", "ready"} /\ conn[link[s]] = "open" =>
      \/ \E i \in DOMAIN toBroker[link[s]] :
           toBroker[link[s]][i] = [type |-> "send", id |-> id]
      \/ \E p \in pending : p.from = s /\ p.msg.id = id /\ p.senderSocket = link[s]
      \/ \E i \in DOMAIN toClient[link[s]] :
           /\ toClient[link[s]][i].type \in {"delivered", "delivery_failed"}
           /\ toClient[link[s]][i].id = id

\* However often its sender and the broker repeat a message that is no reply, no
\* process hands it on a second time before its ledger has dropped it, for so many
\* others that were finished later (inbound-store.ts:83), and then only once for
\* each time it did.
HandedOnOnce ==
  \A s \in SessionIds, x \in Sends :
    x.msg.replyTo = None => handed[s][x.msg.id] <= 1 + forgot[s][x.msg.id]

Taken == {id \in MessageIds : \E s \in SessionIds : handed[s][id] > 0}

\* A process crosses an ask off, in its file too, only when a reply of its own was
\* reported as delivered and has been taken at the other end: through kills,
\* replays and answers that come late, no ask is dropped unanswered
\* (runtime.ts:466).
ResolvedAskIsAnswered ==
  \A s \in SessionIds, ask \in Sends :
    ask.msg.expectsReply /\ Finished(s, ask.msg.id) =>
      \E x \in Sends :
        /\ x.from = s /\ x.msg.replyTo = ask.msg.id
        /\ verdict[x.msg.id] = "delivered" /\ x.msg.id \in Taken

\* Seen from both ends, the whole system is a mail service.
M == INSTANCE Mail WITH posted <- Posted,
                        taken <- Taken,
                        told <- verdict
ImplementsMail == M!Spec

\* What has been posted leaves the outbox with an outcome, or else its process
\* has come to wait for a tool to connect it.
Settles ==
  \A s \in SessionIds, id \in MessageIds :
    id \in outbox[s] ~> id \notin outbox[s] \/ phase[s] = "alone"

\* The runtime connects again by itself whenever its connection was lost, unless
\* a tool takes the attempt over.
TimerReconnects ==
  \A s \in SessionIds :
    phase[s] = "idle" ~> phase[s] \in {"registered", "preparing", "stopped"}

-----------------------------------------------------------------------------
(* What the documents say.                                                 *)

\* A durable send replays with the same id: the replay of an ask is not refused
\* for the edge the ask itself has left.
ReplayedAskIsNotRefused ==
  [][\A w \in writes' : w.type = "delivery_failed" /\ w.detail = "ASK_ALREADY_PENDING" =>
       \A e \in asks : ~(e.from = w.from /\ e.id = w.id)]_allVars

\* A delivered ask that timed out remains late-replyable: it may expire or be
\* answered, but its process does not cancel it.
TimedOutAskStaysReplyable ==
  [][\A w \in writes' : w.type = "ask_cancelled" /\ gaveUp[w.id] = "waiting"
                             /\ verdict[w.id] = "delivered" =>
       w.detail # "cancelled"]_allVars

\* The runtime automatically reconnects after a broker restart.
ReconnectsByItself ==
  \A s \in SessionIds : phase[s] = "idle" ~> phase[s] \in {"ready", "stopped"}
=============================================================================
