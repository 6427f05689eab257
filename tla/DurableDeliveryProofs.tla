------------------------ MODULE DurableDeliveryProofs ------------------------
(***************************************************************************)
(* The delivery path, proved for any number of processes, connections,     *)
(* messages and faults: what the broker's invariants are worth to its      *)
(* clients, and that the whole is a mail service.                          *)
(***************************************************************************)
EXTENDS DurableDelivery, IntercomBrokerAnswers, SequenceTheorems

-----------------------------------------------------------------------------
(* Connections: what is under way on a queue is the range of it.           *)

LEMMA QueueHead ==
  ASSUME NEW T, NEW q \in Seq(T), q # <<>>
  PROVE  /\ Tail(q) \in Seq(T)
         /\ Head(q) \in Range(q)
         /\ Range(q) = {Head(q)} \cup Range(Tail(q))
<1>1. /\ Len(q) \in Nat \ {0} /\ DOMAIN q = 1..Len(q) /\ Head(q) = q[1]
  BY EmptySeq, LenProperties, HeadTailProperties
<1>2. /\ Tail(q) \in Seq(T) /\ Len(Tail(q)) = Len(q) - 1
      /\ DOMAIN Tail(q) = 1..Len(q) - 1
      /\ \A i \in 1..Len(Tail(q)) : Tail(q)[i] = q[i + 1]
  BY HeadTailProperties, LenProperties
<1>3. Head(q) \in Range(q)
  BY <1>1 DEF Range
<1>4. Range(Tail(q)) \subseteq Range(q)
  BY <1>1, <1>2 DEF Range
<1>5. ASSUME NEW x \in Range(q), x # Head(q)
      PROVE  x \in Range(Tail(q))
  <2>1. PICK i \in 1..Len(q) : x = q[i]
    BY <1>1 DEF Range
  <2>2. i # 1 /\ i - 1 \in 1..Len(q) - 1
    BY <1>1, <1>5, <2>1
  <2>3. Tail(q)[i - 1] = q[i]
    BY <1>1, <1>2, <2>2
  <2> QED
    BY <1>2, <2>1, <2>2, <2>3 DEF Range
<1> QED
  BY <1>2, <1>3, <1>4, <1>5

LEMMA QueueFrame ==
  ASSUME NEW type, NEW id
  PROVE  /\ \A T : [type |-> type, id |-> id] \in T => Frame(type, id) \in Seq(T)
         /\ Range(Frame(type, id)) = {[type |-> type, id |-> id]}
BY DEF Frame, Range

LEMMA QueueEmpty == \A T : <<>> \in Seq(T) /\ Range(<<>>) = {}
BY DEF Range

\* A set in some order.
LEMMA QueueOfSet ==
  ASSUME NEW S, IsFiniteSet(S)
  PROVE  /\ SetToSeq(S) \in Seq(S)
         /\ Range(SetToSeq(S)) = S
<1> DEFINE n == Cardinality(S)
           Order(f) == f \in [1..n -> S] /\ IsInjective(f)
<1>1. n \in Nat /\ ExistsBijection(1..n, S)
  BY FS_CardinalityType
<1>2. PICK g \in Bijection(1..n, S) : TRUE
  BY <1>1 DEF ExistsBijection
<1>3. Order(g)
  BY <1>2 DEF Bijection, Injection, IsInjective
<1> DEFINE q == SetToSeq(S)
<1>4. Order(q)
  BY <1>3 DEF SetToSeq
<1>5. q \in Seq(S)
  BY <1>1, <1>4, SeqDef
<1>6. q \in Injection(1..n, S)
  BY <1>4 DEF Injection, IsInjective
<1>7. IsFiniteSet(1..n) /\ Cardinality(1..n) = n
  BY <1>1, FS_Interval
<1>8. q \in Surjection(1..n, S)
  BY <1>6, <1>7, FS_Injection
<1> QED
  BY <1>4, <1>5, <1>8 DEF Surjection, Range

LEMMA QueueConcat ==
  ASSUME NEW T, NEW q \in Seq(T), NEW r \in Seq(T)
  PROVE  q \o r \in Seq(T) /\ Range(q \o r) = Range(q) \cup Range(r)
BY ConcatProperties, RangeConcatenation

-----------------------------------------------------------------------------
(* Types.                                                                  *)

ClientsOK ==
  /\ phase \in [SessionIds -> Phase]
  /\ link \in [SessionIds -> Sockets \cup {None}]
  /\ outbox \in [SessionIds -> SUBSET Sendable]
  /\ sending \in [SessionIds -> SUBSET MessageIds]
  /\ waiting \in [SessionIds -> SUBSET MessageIds]
  /\ \A s \in SessionIds : /\ sending[s] \subseteq outbox[s]
                           /\ link[s] = None <=> phase[s] \in Offline
HistoryOK ==
  /\ store \in [SessionIds -> [MessageIds -> Kept]]
  /\ ledger \in [SessionIds -> [MessageIds -> 0..MaxLedger]]
  /\ verdict \in [MessageIds -> {"open", "delivered", "failed", "discarded"}]
  /\ handed \in [SessionIds -> [MessageIds -> Nat]]
  /\ forgot \in [SessionIds -> [MessageIds -> Nat]]
  /\ gaveUp \in [MessageIds -> {"nothing", "sending", "waiting"}]
  /\ faults \in 0..MaxFaults
WiresOK ==
  toBroker \in [Sockets -> Seq(Request)] /\ toClient \in [Sockets -> Seq(Response)]

LEMMA TypeParts == DeliveryTypeOK <=> ClientsOK /\ HistoryOK /\ WiresOK
BY DEF DeliveryTypeOK, ClientsOK, HistoryOK, WiresOK

LEMMA SendableIds == Sendable \subseteq MessageIds
BY SendsAssumption DEF Sendable, Message

LEMMA SendOfSendable ==
  ASSUME NEW id \in Sendable
  PROVE  SendOf(id) \in Sends /\ SendOf(id).msg.id = id
BY DEF SendOf, Sendable

\* What a client of s writes and reads.
LEMMA SayWires ==
  ASSUME WiresOK, NEW s \in SessionIds, link[s] \in Sockets,
         NEW frames \in Seq(Request), Say(s, frames)
  PROVE  /\ toBroker' \in [Sockets -> Seq(Request)]
         /\ \A k \in Sockets :
              /\ k # link[s] => toBroker'[k] = toBroker[k]
              /\ Range(toBroker[k]) \subseteq Range(toBroker'[k])
              /\ Range(toBroker'[k]) \subseteq Range(toBroker[k]) \cup Range(frames)
         /\ conn[link[s]] # "free" =>
              Range(toBroker'[link[s]]) = Range(toBroker[link[s]]) \cup Range(frames)
<1> DEFINE k == link[s]
<1>1. /\ toBroker[k] \o frames \in Seq(Request)
      /\ Range(toBroker[k] \o frames) = Range(toBroker[k]) \cup Range(frames)
  BY QueueConcat DEF WiresOK
<1>2. CASE conn[k] = "free"
  BY <1>2 DEF Say, WiresOK
<1>3. CASE conn[k] # "free"
  <2>1. toBroker' = [toBroker EXCEPT ![k] = toBroker[k] \o frames]
    BY <1>3 DEF Say
  <2> QED
    BY <1>1, <1>3, <2>1 DEF WiresOK
<1> QED
  BY <1>2, <1>3

LEMMA HeardFrame ==
  ASSUME WiresOK, ClientsOK, NEW s \in SessionIds, NEW type, Hears(s, type)
  PROVE  /\ link[s] \in Sockets
         /\ Head(toClient[link[s]]) \in Response
         /\ Head(toClient[link[s]]) \in Range(toClient[link[s]])
         /\ Head(toClient[link[s]]).type = type
<1>1. link[s] \in Sockets /\ toClient[link[s]] \in Seq(Response)
  BY DEF Hears, WiresOK, ClientsOK
<1>2. Head(toClient[link[s]]) \in Range(toClient[link[s]])
  BY <1>1, QueueHead DEF Hears
<1>3. Range(toClient[link[s]]) \subseteq Response
  BY <1>1, RangeOfSeq
<1> QED
  BY <1>1, <1>2, <1>3 DEF Hears

LEMMA ConsumeWires ==
  ASSUME WiresOK, ClientsOK, NEW s \in SessionIds, NEW type, Hears(s, type), Consume(s)
  PROVE  /\ toClient' \in [Sockets -> Seq(Response)]
         /\ \A k \in Sockets :
              /\ k # link[s] => toClient'[k] = toClient[k]
              /\ Range(toClient'[k]) \subseteq Range(toClient[k])
         /\ Range(toClient[link[s]])
              = {Head(toClient[link[s]])} \cup Range(toClient'[link[s]])
<1> DEFINE k == link[s]
<1>1. k \in Sockets /\ toClient[k] \in Seq(Response) /\ toClient[k] # <<>>
  BY DEF Hears, WiresOK, ClientsOK
<1>2. /\ Tail(toClient[k]) \in Seq(Response)
      /\ Range(toClient[k]) = {Head(toClient[k])} \cup Range(Tail(toClient[k]))
  BY <1>1, QueueHead
<1>3. toClient' = [toClient EXCEPT ![k] = Tail(toClient[k])]
  BY DEF Consume
<1> QED
  BY <1>1, <1>2, <1>3 DEF WiresOK

\* What the broker reads and writes.
LEMMA AskedFrame ==
  ASSUME WiresOK, NEW k \in Sockets, NEW type, Asks(k, type)
  PROVE  /\ Head(toBroker[k]) \in Request
         /\ Head(toBroker[k]) \in Range(toBroker[k])
         /\ Head(toBroker[k]).type = type
<1>1. toBroker[k] \in Seq(Request)
  BY DEF WiresOK
<1>2. Head(toBroker[k]) \in Range(toBroker[k])
  BY <1>1, QueueHead DEF Asks
<1>3. Range(toBroker[k]) \subseteq Request
  BY <1>1, RangeOfSeq
<1> QED
  BY <1>1, <1>2, <1>3 DEF Asks

LEMMA HandledWires ==
  ASSUME WiresOK, NEW k \in Sockets, NEW type, Asks(k, type), Handled(k)
  PROVE  /\ toBroker' \in [Sockets -> Seq(Request)]
         /\ \A j \in Sockets :
              /\ j # k => toBroker'[j] = toBroker[j]
              /\ Range(toBroker'[j]) \subseteq Range(toBroker[j])
         /\ Range(toBroker[k]) = {Head(toBroker[k])} \cup Range(toBroker'[k])
<1>1. toBroker[k] \in Seq(Request) /\ toBroker[k] # <<>>
  BY DEF Asks, WiresOK
<1>2. /\ Tail(toBroker[k]) \in Seq(Request)
      /\ Range(toBroker[k]) = {Head(toBroker[k])} \cup Range(Tail(toBroker[k]))
  BY <1>1, QueueHead
<1>3. toBroker' = [toBroker EXCEPT ![k] = Tail(toBroker[k])]
  BY DEF Handled
<1> QED
  BY <1>1, <1>2, <1>3 DEF WiresOK

ForClient(w) == w.type \in {"message", "delivered", "delivery_failed"}
OfBatch(k) == {w \in writes' : w.socket = k /\ ForClient(w)}

LEMMA FiniteRecords ==
  ASSUME NEW k, NEW S, NEW W, IsFiniteSet(S),
         \A w \in W : w \in [socket : {k}, type : {"message", "delivered", "delivery_failed"},
                             from : SessionIds, id : MessageIds, detail : S]
  PROVE  IsFiniteSet(W)
<1> DEFINE Types == {"message", "delivered", "delivery_failed"}
           Tuples == (Types \X SessionIds) \X (MessageIds \X S)
           f == [w \in W |-> <<<<w.type, w.from>>, <<w.id, w.detail>>>>]
<1>1. IsFiniteSet(Types)
  <2>1. IsFiniteSet({"message"}) /\ IsFiniteSet({"delivered"}) /\ IsFiniteSet({"delivery_failed"})
    BY FS_Singleton
  <2>2. IsFiniteSet({"message"} \cup {"delivered"})
    BY <2>1, FS_Union
  <2>3. IsFiniteSet(({"message"} \cup {"delivered"}) \cup {"delivery_failed"})
    BY <2>1, <2>2, FS_Union
  <2>4. Types = ({"message"} \cup {"delivered"}) \cup {"delivery_failed"}
    OBVIOUS
  <2> QED
    BY <2>3, <2>4
<1>2. IsFiniteSet(Types \X SessionIds) /\ IsFiniteSet(MessageIds \X S)
  BY <1>1, FS_Product, FiniteAssumption
<1>3. IsFiniteSet(Tuples)
  BY <1>2, FS_Product
<1>4. f \in [W -> Tuples]
  OBVIOUS
<1>5. ASSUME NEW v \in W, NEW w \in W, f[v] = f[w]
      PROVE  v = w
  <2>1. v.type = w.type /\ v.from = w.from /\ v.id = w.id /\ v.detail = w.detail
    BY <1>5
  <2>2. v.socket = w.socket
    OBVIOUS
  <2> QED
    BY <2>1, <2>2
<1>6. f \in Injection(W, Tuples)
  BY <1>4, <1>5 DEF Injection, IsInjective
<1> QED
  BY <1>3, <1>6, FS_Injection

LEMMA BatchQueue ==
  ASSUME TypeOK', NEW k \in Sockets
  PROVE  Batch(k) \in Seq(Response) /\ Range(Batch(k)) = OfBatch(k)
<1> DEFINE A == {w \in OfBatch(k) : w.type # "delivery_failed"}
           B == {w \in OfBatch(k) : w.type = "delivery_failed"}
<1>1. writes' \subseteq Write
  BY DEF TypeOK
<1>2. IsFiniteSet(Deliveries)
  BY FiniteAssumption
<1>3. IsFiniteSet(Code)
  <2> DEFINE One == {"DUPLICATE_MESSAGE_ID"} \cup {"TOO_MANY_PENDING_DELIVERIES"}
             Two == {"SENDER_NOT_FOUND"} \cup {"SESSION_NOT_FOUND"}
             Three == {"AMBIGUOUS_TARGET"} \cup {"INVALID_REPLY_TARGET"}
             Four == {"ASK_ALREADY_PENDING"} \cup {"MUTUAL_ASK"}
             Five == {"TOO_MANY_PENDING_ASKS"} \cup {"DISCONNECTED"}
             Six == {"DELIVERY_TIMEOUT"} \cup {"CONFLICTING_MESSAGE_ID"}
  <2>1. /\ IsFiniteSet(One) /\ IsFiniteSet(Two) /\ IsFiniteSet(Three)
        /\ IsFiniteSet(Four) /\ IsFiniteSet(Five) /\ IsFiniteSet(Six)
    BY FS_Singleton, FS_Union
  <2>2. Code = ((One \cup Two) \cup (Three \cup Four)) \cup (Five \cup Six)
    BY DEF Code
  <2> HIDE DEF One, Two, Three, Four, Five, Six
  <2>3. /\ IsFiniteSet(One \cup Two) /\ IsFiniteSet(Three \cup Four)
        /\ IsFiniteSet(Five \cup Six)
    BY <2>1, FS_Union
  <2>4. IsFiniteSet((One \cup Two) \cup (Three \cup Four))
    BY <2>3, FS_Union
  <2> QED
    BY <2>2, <2>3, <2>4, FS_Union
<1>4. IsFiniteSet(A)
  <2>1. \A w \in A : w \in [socket : {k}, type : {"message", "delivered", "delivery_failed"},
                            from : SessionIds, id : MessageIds, detail : Deliveries]
    BY <1>1 DEF Write, OfBatch, ForClient
  <2> HIDE DEF A
  <2> QED
    BY <1>2, <2>1, FiniteRecords
<1>5. IsFiniteSet(B)
  <2>1. \A w \in B : w \in [socket : {k}, type : {"message", "delivered", "delivery_failed"},
                            from : SessionIds, id : MessageIds, detail : Code]
    BY <1>1 DEF Write, OfBatch, ForClient
  <2> HIDE DEF B
  <2> QED
    BY <1>3, <2>1, FiniteRecords
<1>6. OfBatch(k) = A \cup B
  OBVIOUS
<1>7. IsFiniteSet(OfBatch(k))
  <2> HIDE DEF A, B
  <2> QED
    BY <1>4, <1>5, <1>6, FS_Union
<1>8. Batch(k) = SetToSeq(OfBatch(k))
  BY DEF Batch, OfBatch, ForClient
<1>9. Batch(k) \in Seq(OfBatch(k)) /\ Range(Batch(k)) = OfBatch(k)
  BY <1>7, <1>8, QueueOfSet
<1>10. OfBatch(k) \subseteq Response
  BY <1>1 DEF OfBatch, Response
<1> QED
  BY <1>9, <1>10, SeqMonotonic

LEMMA WrittenWires ==
  ASSUME TypeOK', WiresOK, Written
  PROVE  /\ toClient' \in [Sockets -> Seq(Response)]
         /\ \A k \in Sockets :
              Range(toClient'[k]) = Range(toClient[k]) \cup
                (IF conn[k] = "open" THEN OfBatch(k) ELSE {})
<1>1. ASSUME NEW k \in Sockets
      PROVE  /\ toClient[k] \in Seq(Response) /\ toClient[k] \o Batch(k) \in Seq(Response)
             /\ Range(toClient[k] \o Batch(k)) = Range(toClient[k]) \cup OfBatch(k)
  <2>1. toClient[k] \in Seq(Response)
    BY DEF WiresOK
  <2> QED
    BY <2>1, BatchQueue, QueueConcat
<1> QED
  BY <1>1 DEF Written

-----------------------------------------------------------------------------
(* What a step of a client does to the connections.                        *)

\* It reads what is there.
Listens(s) ==
  /\ toClient' \in [Sockets -> Seq(Response)]
  /\ \A k \in Sockets : Range(toClient'[k]) \subseteq Range(toClient[k])
  /\ \A k \in Sockets \ {link[s], link'[s]} : toClient'[k] = toClient[k]

\* It writes what its step gives it cause to.
NewRequest(s, f) ==
  \/ f = [type |-> "register", id |-> s] /\ link[s] = None
  \/ f.type = "send" /\ f.id \in outbox'[s]
  \/ /\ f.type = "message_received" /\ ClientMessage(s)
     /\ f.id = Head(toClient[link[s]]).detail
  \/ f.type \in {"defer_ask", "cancel_ask"}
  \/ f.type = "unregister" /\ link'[s] = None
Speaks(s) ==
  /\ toBroker' \in [Sockets -> Seq(Request)]
  /\ \A k \in Sockets : \A f \in Range(toBroker'[k]) :
       f \in Range(toBroker[k]) \/ (NewRequest(s, f) /\ k \in {link[s], link'[s]})
  /\ \A k \in Sockets \ {link[s], link'[s]} : toBroker'[k] = toBroker[k]
  /\ link[s] # None => \A k \in Sockets : Range(toBroker[k]) \subseteq Range(toBroker'[k])

LEMMA SilentWires ==
  ASSUME WiresOK
  PROVE  \A s \in SessionIds :
           /\ UNCHANGED toClient => Listens(s)
           /\ \A k \in Sockets \cap {link[s], link'[s]} :
                toClient' = [toClient EXCEPT ![k] = <<>>] => Listens(s)
           /\ UNCHANGED toBroker => Speaks(s)
BY QueueEmpty DEF Listens, Speaks, WiresOK

LEMMA SpokenWires ==
  ASSUME WiresOK, NEW s \in SessionIds, link[s] \in Sockets,
         NEW frames \in Seq(Request), Say(s, frames), \A f \in Range(frames) : NewRequest(s, f)
  PROVE  Speaks(s)
BY SayWires DEF Speaks

LEMMA FrameCause ==
  ASSUME NEW s, NEW type, NEW id,
         \/ type = "send" /\ id \in outbox'[s]
         \/ type \in {"defer_ask", "cancel_ask"}
         \/ type = "unregister" /\ link'[s] = None
  PROVE  \A f \in Range(Frame(type, id)) : NewRequest(s, f)
<1> SUFFICES ASSUME NEW f \in Range(Frame(type, id))
             PROVE  NewRequest(s, f)
  OBVIOUS
<1>1. f = [type |-> type, id |-> id]
  BY QueueFrame
<1>2. f.type = type /\ f.id = id
  BY <1>1
<1> QED
  BY <1>2 DEF NewRequest

LEMMA RequestFrames ==
  /\ \A id \in Sendable : Frame("send", id) \in Seq(Request)
  /\ \A id \in MessageIds : Frame("defer_ask", id) \in Seq(Request)
                            /\ Frame("cancel_ask", id) \in Seq(Request)
  /\ \A id \in Deliveries : Frame("message_received", id) \in Seq(Request)
  /\ \A s \in SessionIds : Frame("register", s) \in Seq(Request)
  /\ Frame("unregister", None) \in Seq(Request)
<1> USE DEF Request
<1>1. ASSUME NEW id \in Sendable
      PROVE  Frame("send", id) \in Seq(Request)
  <2>1. [type |-> "send", id |-> id] \in Request
    OBVIOUS
  <2> QED
    BY <2>1, QueueFrame
<1>2. ASSUME NEW id \in MessageIds, NEW type \in {"defer_ask", "cancel_ask"}
      PROVE  Frame(type, id) \in Seq(Request)
  <2>1. [type |-> type, id |-> id] \in Request
    OBVIOUS
  <2> QED
    BY <2>1, QueueFrame
<1>3. ASSUME NEW id \in Deliveries
      PROVE  Frame("message_received", id) \in Seq(Request)
  <2>1. [type |-> "message_received", id |-> id] \in Request
    OBVIOUS
  <2> QED
    BY <2>1, QueueFrame
<1>4. ASSUME NEW s \in SessionIds
      PROVE  Frame("register", s) \in Seq(Request)
  <2>1. [type |-> "register", id |-> s] \in Request
    OBVIOUS
  <2> QED
    BY <2>1, QueueFrame
<1>5. Frame("unregister", None) \in Seq(Request)
  <2>1. [type |-> "unregister", id |-> None] \in Request
    OBVIOUS
  <2> QED
    BY <2>1, QueueFrame
<1> QED
  BY <1>1, <1>2, <1>3, <1>4, <1>5

\* The replay of an outbox.
LEMMA ReplayQueue ==
  ASSUME NEW S \in SUBSET Sendable
  PROVE  LET q == SetToSeq(S)
             replay == [i \in DOMAIN q |-> [type |-> "send", id |-> q[i]]]
         IN /\ replay \in Seq(Request)
            /\ Range(replay) = {[type |-> "send", id |-> id] : id \in S}
<1> DEFINE q == SetToSeq(S)
           replay == [i \in DOMAIN q |-> [type |-> "send", id |-> q[i]]]
<1>1. IsFiniteSet(S)
  BY SendableIds, FiniteAssumption, FS_Subset
<1>2. q \in Seq(S) /\ Range(q) = S
  BY <1>1, QueueOfSet
<1> HIDE DEF q
<1>3. Len(q) \in Nat /\ DOMAIN q = 1..Len(q) /\ q \in [1..Len(q) -> S]
  BY <1>2, LenProperties
<1>4. replay \in [1..Len(q) -> Request]
  BY <1>3 DEF Request
<1>5. replay \in Seq(Request)
  BY <1>3, <1>4, SeqDef
<1>6. Range(replay) = {[type |-> "send", id |-> id] : id \in S}
  BY <1>2, <1>3 DEF Range
<1> QED
  BY <1>5, <1>6 DEF q

LEMMA ReadsWires ==
  ASSUME WiresOK, ClientsOK, NEW s \in SessionIds, ClientReads(s)
  PROVE  Listens(s) /\ Speaks(s)
<1>1. ASSUME NEW type, Hears(s, type), Consume(s)
      PROVE  Listens(s)
  BY <1>1, ConsumeWires DEF Listens
<1>2. CASE ClientRegistered(s)
  <2> DEFINE q == SetToSeq(outbox[s])
             replay == [i \in DOMAIN q |-> [type |-> "send", id |-> q[i]]]
  <2>1. Say(s, replay) /\ Hears(s, "registered") /\ Consume(s) /\ UNCHANGED outbox
    BY <1>2 DEF ClientRegistered
  <2>2. outbox[s] \in SUBSET Sendable
    BY DEF ClientsOK
  <2>3. /\ replay \in Seq(Request)
        /\ Range(replay) = {[type |-> "send", id |-> id] : id \in outbox[s]}
    BY <2>2, ReplayQueue
  <2> HIDE DEF replay
  <2>4. \A f \in Range(replay) : NewRequest(s, f)
    BY <2>1, <2>3 DEF NewRequest
  <2> QED
    BY <1>1, <2>1, <2>3, <2>4, HeardFrame, SpokenWires
<1>3. CASE ClientMessage(s)
  <2> DEFINE w == Head(toClient[link[s]])
             frames == Frame("message_received", w.detail)
  <2>1. Hears(s, "message") /\ Consume(s) /\ (Say(s, frames) \/ UNCHANGED toBroker)
    BY <1>3 DEF ClientMessage
  <2>2. link[s] \in Sockets /\ w \in Response /\ w.type = "message"
    BY <2>1, HeardFrame
  <2>3. w.detail \in Deliveries
    BY <2>2 DEF Response, Write
  <2>4. frames \in Seq(Request)
    BY <2>3, RequestFrames
  <2>5. Range(frames) = {[type |-> "message_received", id |-> w.detail]}
    BY QueueFrame
  <2>6. \A f \in Range(frames) : NewRequest(s, f)
    BY <1>3, <2>5 DEF NewRequest
  <2> HIDE DEF frames
  <2> QED
    BY <1>1, <2>1, <2>2, <2>4, <2>6, SpokenWires, SilentWires
<1>4. CASE ClientDelivered(s) \/ ClientFailed(s)
  <2> DEFINE id == Head(toClient[link[s]]).id
             frames == Frame("cancel_ask", id)
  <2>1. PICK type \in {"delivered", "delivery_failed"} :
          Hears(s, type) /\ Consume(s) /\ (Say(s, frames) \/ UNCHANGED toBroker)
    BY <1>4 DEF ClientDelivered, ClientFailed
  <2>2. link[s] \in Sockets /\ Head(toClient[link[s]]) \in Response
        /\ Head(toClient[link[s]]).type \in {"delivered", "delivery_failed"}
    BY <2>1, HeardFrame
  <2>3. id \in MessageIds
    BY <2>2 DEF Response, Write
  <2>4. frames \in Seq(Request)
    BY <2>3, RequestFrames
  <2>5. \A f \in Range(frames) : NewRequest(s, f)
    BY FrameCause
  <2> HIDE DEF frames
  <2> QED
    BY <1>1, <2>1, <2>2, <2>4, <2>5, SpokenWires, SilentWires
<1> QED
  BY <1>2, <1>3, <1>4 DEF ClientReads

LEMMA ClientWires ==
  ASSUME WiresOK, ClientsOK, NEW s \in SessionIds, ClientSteps(s)
  PROVE  Listens(s) /\ Speaks(s)
<1>1. CASE ClientReads(s)
  BY <1>1, ReadsWires
<1>2. CASE ClientReady(s) \/ ClientStarts(s) \/ ToolConnects(s)
           \/ \E id \in MessageIds : Injected(s, id)
  BY <1>2, SilentWires
  DEF ClientReady, ClientStarts, ToolConnects, Injected, wires
<1>3. link[s] = None \/ link[s] \in Sockets
  BY DEF ClientsOK
<1>4. CASE ClientDisconnected(s) \/ ClientKilled(s) \/ ConnectFails(s)
  BY <1>3, <1>4, SilentWires DEF ClientDisconnected, ClientKilled, ConnectFails
<1>5. ASSUME NEW frames, Say(s, frames), UNCHANGED toClient \/
               toClient' = [toClient EXCEPT ![link[s]] = <<>>],
             frames \in Seq(Request), \A f \in Range(frames) : NewRequest(s, f),
             phase[s] = "ready"
      PROVE  Listens(s) /\ Speaks(s)
  <2>1. link[s] \in Sockets
    BY <1>5 DEF ClientsOK, Offline
  <2> QED
    BY <1>5, <2>1, SilentWires, SpokenWires
<1>6. CASE ClientDisposed(s)
  <2>1. /\ Say(s, Frame("unregister", None)) /\ link'[s] = None /\ phase[s] = "ready"
        /\ toClient' = [toClient EXCEPT ![link[s]] = <<>>]
    BY <1>6 DEF ClientDisposed, ClientsOK
  <2>2. \A f \in Range(Frame("unregister", None)) : NewRequest(s, f)
    BY <2>1, FrameCause
  <2> QED
    BY <1>5, <2>1, <2>2, RequestFrames
<1>7. ASSUME NEW x \in Sends, ClientSends(s, x)
      PROVE  Listens(s) /\ Speaks(s)
  <2>1. /\ Say(s, Frame("send", x.msg.id)) /\ x.msg.id \in outbox'[s] /\ phase[s] = "ready"
        /\ UNCHANGED toClient
    BY <1>7 DEF ClientSends, ClientsOK
  <2>2. \A f \in Range(Frame("send", x.msg.id)) : NewRequest(s, f)
    BY <2>1, FrameCause
  <2>3. x.msg.id \in Sendable
    BY DEF Sendable
  <2> QED
    BY <1>5, <2>1, <2>2, <2>3, RequestFrames
<1>8. ASSUME NEW id \in MessageIds, SendTimeout(s, id)
      PROVE  Listens(s) /\ Speaks(s)
  <2>1. /\ Say(s, Frame("cancel_ask", id)) \/ UNCHANGED toBroker
        /\ phase[s] = "ready" /\ UNCHANGED toClient
    BY <1>8 DEF SendTimeout
  <2>2. \A f \in Range(Frame("cancel_ask", id)) : NewRequest(s, f)
    BY FrameCause
  <2> QED
    BY <1>5, <2>1, <2>2, RequestFrames, SilentWires
<1>9. ASSUME NEW id \in MessageIds, AskTimeout(s, id)
      PROVE  Listens(s) /\ Speaks(s)
  <2> DEFINE one == Frame("defer_ask", id)
             two == IF id \in sending[s] \/ gaveUp[id] # "nothing" THEN <<>>
                    ELSE Frame("cancel_ask", id)
  <2>1. Say(s, one \o two) /\ phase[s] = "ready" /\ UNCHANGED toClient
    BY <1>9 DEF AskTimeout
  <2>2. /\ one \in Seq(Request) /\ two \in Seq(Request)
        /\ \A f \in Range(one) \cup Range(two) : NewRequest(s, f)
    BY FrameCause, QueueEmpty, RequestFrames
  <2> HIDE DEF one, two
  <2>3. one \o two \in Seq(Request) /\ Range(one \o two) = Range(one) \cup Range(two)
    BY <2>2, QueueConcat
  <2> QED
    BY <1>5, <2>1, <2>2, <2>3
<1>10. ASSUME NEW k \in Sockets, ClientConnects(s, k)
       PROVE  Listens(s) /\ Speaks(s)
  <2>1. /\ toBroker' = [toBroker EXCEPT ![k] = Frame("register", s)]
        /\ toClient' = [toClient EXCEPT ![k] = <<>>] /\ link'[s] = k /\ link[s] = None
    BY <1>10 DEF ClientConnects, ClientsOK, Offline
  <2>2. /\ Frame("register", s) \in Seq(Request)
        /\ Range(Frame("register", s)) = {[type |-> "register", id |-> s]}
    BY RequestFrames, QueueFrame
  <2> QED
    BY <2>1, <2>2, SilentWires DEF Speaks, NewRequest, WiresOK
<1> QED
  BY <1>1, <1>2, <1>4, <1>6, <1>7, <1>8, <1>9, <1>10 DEF ClientSteps

-----------------------------------------------------------------------------
(* What a step of the broker does to the connections.                      *)

Hearkens ==
  /\ toBroker' \in [Sockets -> Seq(Request)]
  /\ \A k \in Sockets : Range(toBroker'[k]) \subseteq Range(toBroker[k])
Replies ==
  /\ toClient' \in [Sockets -> Seq(Response)]
  /\ \A k \in Sockets : \A w \in Range(toClient'[k]) :
       w \in Range(toClient[k]) \/ w \in OfBatch(k) \/ w.type = "registered"

\* Every step of the whole system is one of the broker, or leaves it be.
LEMMA BrokerBelow ==
  ASSUME WiresOK, [DeliveryNext]_allVars
  PROVE  [Next]_vars
<1>1. ASSUME NEW k \in Sockets, BrokerReads(k)
      PROVE  [Next]_vars
  <2>1. CASE BrokerRegisters(k)
    <3>1. Subject(k) \in SessionIds
      BY <2>1, AskedFrame DEF BrokerRegisters, Request, Subject
    <3> QED
      BY <2>1, <3>1, MessagesAssumption DEF BrokerRegisters, Next, Connections
  <2>2. CASE BrokerSends(k)
    <3>1. Subject(k) \in Sendable
      BY <2>2, AskedFrame DEF BrokerSends, Request, Subject
    <3> QED
      BY <2>2, <3>1, SendOfSendable DEF BrokerSends, Next, Exchanges, Send
  <2>3. CASE BrokerControls(k)
    BY <2>3 DEF BrokerControls, Next, Exchanges, Connections
  <2>4. CASE BrokerIgnores(k)
    BY <2>4 DEF BrokerIgnores
  <2> QED
    BY <1>1, <2>1, <2>2, <2>3, <2>4 DEF BrokerReads
<1>2. ASSUME NEW k \in Sockets, BrokerCloses(k) \/ BrokerCondemns(k)
      PROVE  [Next]_vars
  BY <1>2 DEF BrokerCloses, BrokerCondemns, Next, Connections
<1>3. CASE BrokerTimers \/ TimePasses
  BY <1>3 DEF BrokerTimers, TimePasses, Next, Exchanges
<1>4. CASE BrokerStops \/ BrokerStarts
  BY <1>4 DEF BrokerStops, BrokerStarts, Next
<1>5. ASSUME NEW s \in SessionIds, ClientSteps(s)
      PROVE  [Next]_vars
  <2>1. CASE \E k \in Sockets : ClientConnects(s, k)
    BY <2>1 DEF ClientConnects, Next, Connections
  <2>2. CASE ~\E k \in Sockets : ClientConnects(s, k)
    <3>1. UNCHANGED vars
      BY <1>5, <2>2
      DEF ClientSteps, ClientReads, ClientRegistered, ClientMessage, ClientDelivered,
          ClientFailed, ClientReady, ClientDisconnected, ClientKilled, ClientDisposed,
          ClientStarts, ConnectFails, ToolConnects, ClientSends, SendTimeout, AskTimeout,
          Injected
    <3> QED
      BY <3>1
  <2> QED
    BY <2>1, <2>2
<1>6. CASE UNCHANGED allVars
  BY <1>6 DEF allVars
<1> QED
  BY <1>1, <1>2, <1>3, <1>4, <1>5, <1>6 DEF DeliveryNext, BrokerSteps

LEMMA RegisteredWires ==
  ASSUME WiresOK, TypeOK', NEW k \in Sockets, BrokerRegisters(k), NEW j \in Sockets
  PROVE  /\ toClient'[j] \in Seq(Response)
         /\ \A w \in Range(toClient'[j]) :
              w \in Range(toClient[j]) \/ w \in OfBatch(j) \/ w.type = "registered"
         /\ Range(toClient[j]) \subseteq Range(toClient'[j])
         /\ conn[j] = "open" => OfBatch(j) \subseteq Range(toClient'[j])
<1> DEFINE one == IF conn[j] = "open" THEN toClient[j] \o Batch(j) ELSE toClient[j]
           two == IF j = k /\ conn[k] = "open" THEN Frame("registered", Subject(k))
                  ELSE <<>>
<1>1. toClient'[j] = one \o two
  BY DEF BrokerRegisters
<1>2. toClient[j] \in Seq(Response)
  BY DEF WiresOK
<1>3. /\ one \in Seq(Response)
      /\ Range(one) = Range(toClient[j]) \cup (IF conn[j] = "open" THEN OfBatch(j) ELSE {})
  <2>1. Batch(j) \in Seq(Response) /\ Range(Batch(j)) = OfBatch(j)
    BY BatchQueue
  <2>2. toClient[j] \o Batch(j) \in Seq(Response)
        /\ Range(toClient[j] \o Batch(j)) = Range(toClient[j]) \cup OfBatch(j)
    BY <1>2, <2>1, QueueConcat
  <2> QED
    BY <1>2, <2>2
<1>4. two \in Seq(Response) /\ \A w \in Range(two) : w.type = "registered"
  <2>1. Subject(k) \in SessionIds
    BY AskedFrame DEF BrokerRegisters, Request, Subject
  <2>2. [type |-> "registered", id |-> Subject(k)] \in Response
    BY <2>1 DEF Response
  <2>3. Frame("registered", Subject(k)) \in Seq(Response)
        /\ Range(Frame("registered", Subject(k))) = {[type |-> "registered", id |-> Subject(k)]}
    BY <2>2, QueueFrame
  <2>4. [type |-> "registered", id |-> Subject(k)].type = "registered"
    OBVIOUS
  <2> QED
    BY <2>3, <2>4, QueueEmpty
<1> HIDE DEF one, two
<1>5. one \o two \in Seq(Response) /\ Range(one \o two) = Range(one) \cup Range(two)
  BY <1>3, <1>4, QueueConcat
<1> QED
  BY <1>1, <1>3, <1>4, <1>5

LEMMA BrokerWires ==
  ASSUME WiresOK, TypeOK', BrokerSteps
  PROVE  UNCHANGED <<clients, history>> /\ Hearkens /\ Replies
<1>1. /\ UNCHANGED toBroker => Hearkens
      /\ UNCHANGED toClient => Replies
      /\ Written => Replies
      /\ \A type : \A k \in Sockets : Asks(k, type) /\ Handled(k) => Hearkens
      /\ \A K : toBroker' = [k \in Sockets |-> IF k \in K THEN <<>> ELSE toBroker[k]] => Hearkens
  BY WrittenWires, HandledWires, QueueEmpty DEF WiresOK, Hearkens, Replies
<1>2. ASSUME NEW k \in Sockets, BrokerRegisters(k)
      PROVE  UNCHANGED <<clients, history>> /\ Hearkens /\ Replies
  <2>1. Asks(k, "register") /\ Handled(k) /\ UNCHANGED <<clients, history>>
    BY <1>2 DEF BrokerRegisters
  <2>3. ASSUME NEW j \in Sockets
        PROVE  /\ toClient'[j] \in Seq(Response)
               /\ \A w \in Range(toClient'[j]) :
                    w \in Range(toClient[j]) \/ w \in OfBatch(j) \/ w.type = "registered"
    BY <1>2, RegisteredWires
  <2>4. toClient' \in [Sockets -> Seq(Response)]
    <3>1. toClient' = [j \in Sockets |-> toClient'[j]]
      BY <1>2 DEF BrokerRegisters
    <3> QED
      BY <2>3, <3>1
  <2> QED
    BY <1>1, <2>1, <2>3, <2>4 DEF Replies
<1>3. ASSUME NEW k \in Sockets, BrokerSends(k) \/ BrokerControls(k)
      PROVE  UNCHANGED <<clients, history>> /\ Hearkens /\ Replies
  <2>1. Handled(k) /\ Written /\ UNCHANGED <<clients, history>> /\ \E type : Asks(k, type)
    BY <1>3 DEF BrokerSends, BrokerControls
  <2> QED
    BY <1>1, <2>1
<1>7. ASSUME NEW k \in Sockets, BrokerIgnores(k)
      PROVE  UNCHANGED <<clients, history>> /\ Hearkens /\ Replies
  BY <1>1, <1>7 DEF BrokerIgnores
<1>4. ASSUME NEW k \in Sockets, BrokerCloses(k)
      PROVE  UNCHANGED <<clients, history>> /\ Hearkens /\ Replies
  <2>1. toBroker' = [toBroker EXCEPT ![k] = <<>>] /\ Written /\ UNCHANGED <<clients, history>>
    BY <1>4 DEF BrokerCloses
  <2>2. toBroker' = [j \in Sockets |-> IF j \in {k} THEN <<>> ELSE toBroker[j]]
    BY <2>1 DEF WiresOK
  <2> QED
    BY <1>1, <2>1, <2>2
<1>5. CASE BrokerStops
  <2>1. toBroker' = [j \in Sockets |-> IF j \in (IF up' THEN {} ELSE Sockets) THEN <<>> ELSE toBroker[j]]
    BY <1>5 DEF BrokerStops, WiresOK
  <2> QED
    BY <1>1, <1>5, <2>1 DEF BrokerStops
<1>6. CASE BrokerTimers \/ TimePasses \/ BrokerStarts \/ \E k \in Sockets : BrokerCondemns(k)
  BY <1>1, <1>6 DEF BrokerTimers, TimePasses, BrokerStarts, BrokerCondemns, wires
<1> QED
  BY <1>2, <1>3, <1>4, <1>5, <1>6, <1>7 DEF BrokerSteps, BrokerReads

-----------------------------------------------------------------------------
(* Types: they carry the broker's own types along.                         *)

LEMMA TableExcept ==
  ASSUME NEW S, NEW T, NEW V, NEW f \in [S -> [T -> V]], NEW s \in S, NEW t, NEW v \in V
  PROVE  /\ [f EXCEPT ![s][t] = v] \in [S -> [T -> V]]
         /\ \A x \in S, y \in T :
              [f EXCEPT ![s][t] = v][x][y] = IF x = s /\ y = t THEN v ELSE f[x][y]
<1> DEFINE h == [f[s] EXCEPT ![t] = v]
<1>1. h \in [T -> V] /\ \A y \in T : h[y] = IF y = t THEN v ELSE f[s][y]
  OBVIOUS
<1>2. [f EXCEPT ![s][t] = v] = [f EXCEPT ![s] = h]
  OBVIOUS
<1> HIDE DEF h
<1> QED
  BY <1>1, <1>2

\* What a ledger remembers, and what it forgets, when s is done with one more.
LEMMA LedgerRemembers ==
  ASSUME HistoryOK, NEW s \in SessionIds, NEW id \in MessageIds
  PROVE  /\ Remembering(s, id) \in [MessageIds -> 0..MaxLedger]
         /\ Remembering(s, id)[id] # 0
         /\ \A x \in MessageIds : x # id /\ Remembering(s, id)[x] # 0 => Finished(s, x)
<1>1. ledger[s] \in [MessageIds -> 0..MaxLedger] /\ MaxLedger \in Nat \ {0}
  BY MessagesAssumption DEF HistoryOK
<1> QED
  BY <1>1 DEF Remembering, Finished

LEMMA FinishesBooks ==
  ASSUME HistoryOK, NEW s \in SessionIds, NEW id \in MessageIds, Finishes(s, id)
  PROVE  /\ store' \in [SessionIds -> [MessageIds -> Kept]]
         /\ ledger' \in [SessionIds -> [MessageIds -> 0..MaxLedger]]
         /\ forgot' \in [SessionIds -> [MessageIds -> Nat]]
         /\ Finished(s, id)'
         /\ \A t \in SessionIds, x \in MessageIds :
              /\ ~(t = s /\ x = id) => store'[t][x] = store[t][x]
              /\ Finished(t, x)' => Finished(t, x) \/ (t = s /\ x = id)
              /\ forgot'[t][x] >= forgot[t][x]
              /\ Finished(t, x) /\ ~Finished(t, x)' => forgot'[t][x] = forgot[t][x] + 1
<1> DEFINE R == Remembering(s, id)
           F == [x \in MessageIds |->
                  IF Finished(s, x) /\ R[x] = 0 THEN forgot[s][x] + 1 ELSE forgot[s][x]]
<1>1. /\ R \in [MessageIds -> 0..MaxLedger] /\ R[id] # 0
      /\ \A x \in MessageIds : x # id /\ R[x] # 0 => Finished(s, x)
  BY LedgerRemembers
<1>2. \A t \in SessionIds, x \in MessageIds : forgot[t][x] \in Nat
  BY DEF HistoryOK
<1>3. /\ F \in [MessageIds -> Nat]
      /\ \A x \in MessageIds :
           F[x] = IF Finished(s, x) /\ R[x] = 0 THEN forgot[s][x] + 1 ELSE forgot[s][x]
  BY <1>2
<1>4. store' = [store EXCEPT ![s][id] = "absent"]
      /\ ledger' = [ledger EXCEPT ![s] = R] /\ forgot' = [forgot EXCEPT ![s] = F]
  BY DEF Finishes
<1>5. /\ store' \in [SessionIds -> [MessageIds -> Kept]]
      /\ \A t \in SessionIds, x \in MessageIds : ~(t = s /\ x = id) => store'[t][x] = store[t][x]
  <2>1. store \in [SessionIds -> [MessageIds -> Kept]] /\ "absent" \in Kept
    BY DEF HistoryOK, Kept
  <2> QED
    BY <1>4, <2>1, TableExcept
<1> HIDE DEF R, F
<1>6. /\ ledger' \in [SessionIds -> [MessageIds -> 0..MaxLedger]]
      /\ \A t \in SessionIds : ledger'[t] = IF t = s THEN R ELSE ledger[t]
  BY <1>1, <1>4 DEF HistoryOK
<1>7. /\ forgot' \in [SessionIds -> [MessageIds -> Nat]]
      /\ \A t \in SessionIds : forgot'[t] = IF t = s THEN F ELSE forgot[t]
  BY <1>3, <1>4 DEF HistoryOK
<1>8. ASSUME NEW t \in SessionIds, NEW x \in MessageIds
      PROVE  /\ Finished(t, x)' => Finished(t, x) \/ (t = s /\ x = id)
             /\ forgot'[t][x] >= forgot[t][x]
             /\ Finished(t, x) /\ ~Finished(t, x)' => forgot'[t][x] = forgot[t][x] + 1
  <2>1. CASE t = s
    <3>1. Finished(t, x)' <=> R[x] # 0
      BY <1>6, <2>1 DEF Finished
    <3>2. forgot'[t][x] = IF Finished(s, x) /\ R[x] = 0 THEN forgot[s][x] + 1 ELSE forgot[s][x]
      BY <1>3, <1>7, <2>1
    <3> QED
      BY <1>1, <1>2, <2>1, <3>1, <3>2
  <2>2. CASE t # s
    BY <1>2, <1>6, <1>7, <2>2 DEF Finished
  <2> QED
    BY <2>1, <2>2
<1>9. Finished(s, id)'
  BY <1>1, <1>6 DEF Finished
<1> QED
  BY <1>5, <1>6, <1>7, <1>8, <1>9

\* An ask that a reply answers is a message.
LEMMA ReplyIsToMessage ==
  ASSUME NEW id \in Sendable
  PROVE  Payload(id).replyTo \in MessageIds \cup {None}
<1>1. SendOf(id) \in Sends
  BY SendOfSendable
<1> QED
  BY <1>1, SendsAssumption DEF Payload, Message

LEMMA ReadsTypes ==
  ASSUME ClientsOK, HistoryOK, WiresOK, NEW s \in SessionIds, ClientReads(s)
  PROVE  ClientsOK' /\ HistoryOK'
<1>1. CASE ClientRegistered(s)
  BY <1>1 DEF ClientRegistered, ClientsOK, HistoryOK, Phase, Attempt, Offline, history
<1>2. CASE ClientMessage(s)
  <2> DEFINE w == Head(toClient[link[s]])
  <2>1. w \in Response /\ w.type = "message"
    BY <1>2, HeardFrame DEF ClientMessage
  <2>2. w.id \in MessageIds
    BY <2>1 DEF Response, Write
  <2> HIDE DEF w
  <2>3. ClientsOK'
    BY <1>2 DEF ClientMessage, ClientsOK
  <2>4. /\ store' = store \/ store' = [store EXCEPT ![s][w.id] = "pending"]
        /\ handed' = handed \/ handed' = [handed EXCEPT ![s][w.id] = @ + 1]
        /\ UNCHANGED <<verdict, ledger, forgot, gaveUp, faults>>
    BY <1>2 DEF ClientMessage, w
  <2>5. store' \in [SessionIds -> [MessageIds -> Kept]]
    <3>1. store \in [SessionIds -> [MessageIds -> Kept]] /\ "pending" \in Kept
      BY DEF HistoryOK, Kept
    <3>2. [store EXCEPT ![s][w.id] = "pending"] \in [SessionIds -> [MessageIds -> Kept]]
      BY <3>1, TableExcept
    <3> QED
      BY <2>4, <3>1, <3>2
  <2>6. handed' \in [SessionIds -> [MessageIds -> Nat]]
    <3> DEFINE n == handed[s][w.id] + 1
    <3>1. handed \in [SessionIds -> [MessageIds -> Nat]] /\ n \in Nat
      BY <2>2 DEF HistoryOK
    <3>2. handed' = handed \/ handed' = [handed EXCEPT ![s][w.id] = n]
      BY <2>4
    <3> HIDE DEF n
    <3>3. [handed EXCEPT ![s][w.id] = n] \in [SessionIds -> [MessageIds -> Nat]]
      BY <3>1, TableExcept
    <3> QED
      BY <3>1, <3>2, <3>3
  <2> QED
    BY <2>3, <2>4, <2>5, <2>6 DEF HistoryOK
<1>3. CASE ClientDelivered(s) \/ ClientFailed(s)
  <2> DEFINE id == Head(toClient[link[s]]).id
             r == Payload(id).replyTo
  <2>1. /\ outbox' = [outbox EXCEPT ![s] = @ \ {id}]
        /\ sending' = [sending EXCEPT ![s] = @ \ {id}]
        /\ UNCHANGED <<phase, link, handed, gaveUp, faults>>
        /\ waiting' = waiting \/ waiting' = [waiting EXCEPT ![s] = @ \ {id}]
        /\ verdict' = verdict \/ \E outcome \in {"delivered", "failed"} :
                                   verdict' = [verdict EXCEPT ![id] = outcome]
        /\ \/ UNCHANGED <<store, ledger, forgot>>
           \/ id \in sending[s] /\ r # None /\ Finishes(s, r)
    BY <1>3 DEF ClientDelivered, ClientFailed, Outcome
  <2>2. id \in sending[s] /\ r # None => r \in MessageIds
    BY ReplyIsToMessage DEF ClientsOK
  <2> HIDE DEF id, r
  <2>3. ClientsOK'
    BY <2>1 DEF ClientsOK
  <2>4. /\ store' \in [SessionIds -> [MessageIds -> Kept]]
        /\ ledger' \in [SessionIds -> [MessageIds -> 0..MaxLedger]]
        /\ forgot' \in [SessionIds -> [MessageIds -> Nat]]
    <3>1. CASE UNCHANGED <<store, ledger, forgot>>
      BY <3>1 DEF HistoryOK
    <3>2. CASE r \in MessageIds /\ Finishes(s, r)
      BY <3>2, FinishesBooks
    <3> QED
      BY <2>1, <2>2, <3>1, <3>2
  <2> QED
    BY <2>1, <2>3, <2>4 DEF HistoryOK
<1> QED
  BY <1>1, <1>2, <1>3 DEF ClientReads

LEMMA ClientTypes ==
  ASSUME ClientsOK, HistoryOK, WiresOK, NEW s \in SessionIds, ClientSteps(s)
  PROVE  ClientsOK' /\ HistoryOK'
<1> USE DEF Phase, Attempt, Offline
<1>1. CASE ClientReads(s)
  BY <1>1, ReadsTypes
<1>2. CASE ClientReady(s) \/ ClientStarts(s) \/ ToolConnects(s)
  <2>1. ClientsOK'
    BY <1>2 DEF ClientReady, ClientStarts, ToolConnects, ClientsOK
  <2>2. UNCHANGED <<store, ledger, history, faults>>
    BY <1>2 DEF ClientReady, ClientStarts, ToolConnects
  <2> QED
    BY <2>1, <2>2 DEF HistoryOK, history
<1>3. ASSUME NEW id \in MessageIds, Injected(s, id)
      PROVE  ClientsOK' /\ HistoryOK'
  <2>1. CASE store' = [store EXCEPT ![s][id] = "injected"] /\ UNCHANGED <<ledger, forgot>>
    <3>1. store \in [SessionIds -> [MessageIds -> Kept]] /\ "injected" \in Kept
      BY DEF HistoryOK, Kept
    <3>2. store' \in [SessionIds -> [MessageIds -> Kept]]
      BY <2>1, <3>1, TableExcept
    <3> QED
      BY <1>3, <2>1, <3>2 DEF Injected, ClientsOK, HistoryOK
  <2>2. CASE Finishes(s, id)
    <3>1. /\ store' \in [SessionIds -> [MessageIds -> Kept]]
          /\ ledger' \in [SessionIds -> [MessageIds -> 0..MaxLedger]]
          /\ forgot' \in [SessionIds -> [MessageIds -> Nat]]
      BY <2>2, FinishesBooks
    <3> QED
      BY <1>3, <3>1 DEF Injected, ClientsOK, HistoryOK
  <2> QED
    BY <1>3, <2>1, <2>2 DEF Injected
<1>4. CASE ClientDisconnected(s)
  BY <1>4 DEF ClientDisconnected, AfterLoss, ClientsOK, HistoryOK, history
<1>5. ASSUME faults < MaxFaults, faults' = faults + 1
      PROVE  faults' \in 0..MaxFaults
  BY <1>5, MessagesAssumption DEF HistoryOK
<1>6. CASE ClientKilled(s)
  BY <1>5, <1>6 DEF ClientKilled, ClientsOK, HistoryOK, history
<1>7. CASE ConnectFails(s)
  BY <1>5, <1>7 DEF ConnectFails, AfterLoss, ClientsOK, HistoryOK, history
<1>8. CASE ClientDisposed(s)
  BY <1>5, <1>8 DEF ClientDisposed, ClientsOK, HistoryOK
<1>9. ASSUME NEW x \in Sends, ClientSends(s, x)
      PROVE  ClientsOK' /\ HistoryOK'
  <2>1. x.msg.id \in Sendable /\ x.msg.id \in MessageIds
    BY SendableIds DEF Sendable
  <2> QED
    BY <1>9, <2>1 DEF ClientSends, ClientsOK, HistoryOK, history
<1>10. ASSUME NEW id \in MessageIds, SendTimeout(s, id)
       PROVE  ClientsOK' /\ HistoryOK'
  BY <1>5, <1>10 DEF SendTimeout, ClientsOK, HistoryOK
<1>11. ASSUME NEW id \in MessageIds, AskTimeout(s, id)
       PROVE  ClientsOK' /\ HistoryOK'
  BY <1>11 DEF AskTimeout, ClientsOK, HistoryOK
<1>12. ASSUME NEW k \in Sockets, ClientConnects(s, k)
       PROVE  ClientsOK' /\ HistoryOK'
  BY <1>12, SocketsAssumption DEF ClientConnects, ClientsOK, HistoryOK, history
<1> QED
  BY <1>1, <1>2, <1>3, <1>4, <1>6, <1>7, <1>8, <1>9, <1>10, <1>11, <1>12 DEF ClientSteps

LEMMA DeliveryTypeStep ==
  ASSUME TypeOK, DeliveryTypeOK, [DeliveryNext]_allVars
  PROVE  TypeOK' /\ DeliveryTypeOK'
<1>1. ClientsOK /\ HistoryOK /\ WiresOK
  BY TypeParts
<1>2. [Next]_vars
  BY <1>1, BrokerBelow
<1>3. TypeOK'
  <2>1. ASSUME UNCHANGED vars
        PROVE  TypeOK'
    BY <2>1 DEF vars, table, TypeOK
  <2> QED
    BY <1>2, <2>1, ConnectionsType, ExchangesType, AccessType, ProcessType DEF Next
<1>4. CASE BrokerSteps
  <2>1. UNCHANGED <<clients, history>> /\ Hearkens /\ Replies
    BY <1>1, <1>3, <1>4, BrokerWires
  <2>2. faults' = faults \/ (faults < MaxFaults /\ faults' = faults + 1)
    BY <1>4 DEF BrokerSteps, BrokerReads, BrokerRegisters, BrokerSends, BrokerControls,
                BrokerIgnores, BrokerCloses, BrokerTimers, TimePasses, BrokerStops, BrokerStarts,
                BrokerCondemns
  <2>3. faults' \in 0..MaxFaults
    BY <1>1, <2>2, MessagesAssumption DEF HistoryOK
  <2>4. ClientsOK' /\ HistoryOK'
    BY <1>1, <2>1, <2>3 DEF ClientsOK, HistoryOK, clients, history
  <2> QED
    BY <1>3, <2>1, <2>4 DEF Hearkens, Replies, WiresOK, DeliveryTypeOK, ClientsOK, HistoryOK
<1>5. ASSUME NEW s \in SessionIds, ClientSteps(s)
      PROVE  TypeOK' /\ DeliveryTypeOK'
  <2>1. Listens(s) /\ Speaks(s) /\ ClientsOK' /\ HistoryOK'
    BY <1>1, <1>5, ClientWires, ClientTypes
  <2> QED
    BY <1>3, <2>1 DEF Listens, Speaks, WiresOK, DeliveryTypeOK, ClientsOK, HistoryOK
<1>6. CASE UNCHANGED allVars
  BY <1>1, <1>3, <1>6
  DEF allVars, clients, wires, history, WiresOK, DeliveryTypeOK, ClientsOK, HistoryOK
<1> QED
  BY <1>4, <1>5, <1>6 DEF DeliveryNext

LEMMA DeliveryTypeInit == DeliveryInit => TypeOK /\ DeliveryTypeOK
<1>1. ASSUME Init
      PROVE  TypeOK
  <2>1. \A r \in Remote :
          [parent |-> RemoteParent[r], gen |-> 1, state |-> "active"] \in Principal
    BY IdentityAssumption DEF Principal
  <2> QED
    BY <1>1, <2>1 DEF Init, TypeOK, ConnState
<1>2. ASSUME DeliveryInit
      PROVE  DeliveryTypeOK
  BY <1>2, QueueEmpty, MessagesAssumption
  DEF DeliveryInit, DeliveryTypeOK, Phase, Offline, Kept
<1> QED
  BY <1>1, <1>2 DEF DeliveryInit

\* Outboxes, stores and connections hold what their readers expect; a message whose
\* send() has not returned is in the outbox, and a process has a connection
\* exactly in the phases that use one, for any number of processes and faults.
THEOREM DeliveryTypeCorrect == DeliverySpec => []DeliveryTypeOK
<1>1. DeliveryInit => TypeOK /\ DeliveryTypeOK
  BY DeliveryTypeInit
<1>2. TypeOK /\ DeliveryTypeOK /\ [DeliveryNext]_allVars => TypeOK' /\ DeliveryTypeOK'
  BY DeliveryTypeStep
<1> QED
  BY <1>1, <1>2, PTL DEF DeliverySpec

\* The broker at the end of the connections is the broker of IntercomBroker: with
\* clients that register, send, acknowledge and withdraw as these do, every
\* theorem about it holds.
THEOREM BrokerIsImplemented == DeliverySpec => Spec
<1>1. DeliveryInit => Init
  BY DEF DeliveryInit
<1>2. DeliveryTypeOK /\ [DeliveryNext]_allVars => [Next]_vars
  BY BrokerBelow, TypeParts
<1> QED
  BY <1>1, <1>2, DeliveryTypeCorrect, PTL DEF DeliverySpec, Spec

BrokerInv ==
  /\ TypeOK /\ DownIsEmpty /\ PendingIndexed
  /\ PendingIsConnected /\ ConnectionsInv

LEMMA BrokerCorrect == DeliverySpec => []BrokerInv
<1>1. Init => DownIsEmpty /\ ConnectionsInv
  BY DEF Init, DownIsEmpty, ConnectionsInv, FreeIsUnbound, SessionsMatchConnections, LiveIds,
         Live
<1>2. DownIsEmpty /\ [Next]_vars => DownIsEmpty'
  BY EmptyStep
<1>3. TypeOK /\ ConnectionsInv /\ [Next]_vars => ConnectionsInv'
  BY MatchStep
<1>4. TypeOK /\ DownIsEmpty /\ PendingIndexed /\ PendingIsConnected /\ ConnectionsInv
        => BrokerInv
  BY DEF BrokerInv
<1> QED
  BY <1>1, <1>2, <1>3, <1>4, BrokerIsImplemented, TypeCorrect, IndexCorrect, ConnectedCorrect,
     PTL DEF Spec

-----------------------------------------------------------------------------
(* What the steps of a client do to outboxes, stores and history.          *)

Books == <<outbox, verdict, store, ledger, handed, forgot>>

LEMMA ClientKinds ==
  ASSUME NEW s \in SessionIds, ClientSteps(s)
  PROVE  /\ UNCHANGED <<pending, recent>>
         /\ \/ UNCHANGED Books
            \/ \E x \in Sends : ClientSends(s, x)
            \/ ClientMessage(s) \/ ClientDelivered(s) \/ ClientFailed(s)
            \/ ClientDisposed(s)
            \/ \E id \in MessageIds : Injected(s, id)
<1> USE DEF vars, table, history, Books
<1>1. CASE ClientReads(s)
  BY <1>1 DEF ClientReads, ClientRegistered, ClientMessage, ClientDelivered, ClientFailed
<1>2. CASE ClientReady(s) \/ ClientDisconnected(s) \/ ClientKilled(s) \/ ClientDisposed(s)
           \/ ClientStarts(s) \/ ConnectFails(s) \/ ToolConnects(s)
  BY <1>2 DEF ClientReady, ClientDisconnected, ClientKilled, ClientDisposed, ClientStarts,
              ConnectFails, ToolConnects
<1>3. CASE \E k \in Sockets : ClientConnects(s, k)
  BY <1>3 DEF ClientConnects, Connect, Untouched
<1>4. CASE \E x \in Sends : ClientSends(s, x)
  BY <1>4 DEF ClientSends
<1>5. CASE \E id \in MessageIds : SendTimeout(s, id) \/ AskTimeout(s, id) \/ Injected(s, id)
  BY <1>5 DEF SendTimeout, AskTimeout, Injected
<1> QED
  BY <1>1, <1>2, <1>3, <1>4, <1>5 DEF ClientSteps

\* What each of those does, entry by entry.
Posts(s, id) ==
  /\ id \in Sendable /\ id \notin Posted /\ SendOf(id).from = s
  /\ Payload(id).replyTo # None => store[s][Payload(id).replyTo] \in {"pending", "injected"}
  /\ outbox' = [outbox EXCEPT ![s] = @ \cup {id}]
  /\ UNCHANGED <<verdict, store, ledger, handed, forgot>>
Takes(s, id) ==
  /\ \E w \in Range(toClient[link[s]]) : w.type = "message" /\ w.id = id
  /\ link[s] \in Sockets /\ id \in MessageIds
  /\ \/ /\ Payload(id).replyTo \in waiting[s] /\ UNCHANGED store
        /\ handed' = [handed EXCEPT ![s][id] = handed[s][id] + 1]
     \/ /\ Payload(id).replyTo \notin waiting[s] /\ ~Repeated(s, id)
        /\ store' = [store EXCEPT ![s][id] = "pending"]
        /\ handed' = [handed EXCEPT ![s][id] = handed[s][id] + 1]
     \/ Repeated(s, id) /\ UNCHANGED <<store, handed>>
  /\ UNCHANGED <<outbox, verdict, ledger, forgot>>
Learns(s, id, outcome) ==
  /\ id \in MessageIds
  /\ outcome = "delivered" =>
       link[s] \in Sockets /\ \E w \in Range(toClient[link[s]]) : w.type = "delivered" /\ w.id = id
  /\ Outcome(s, id, outcome)
  /\ \/ UNCHANGED <<store, ledger, forgot>>
     \/ /\ outcome = "delivered" /\ id \in outbox[s] /\ Payload(id).replyTo # None
        /\ Finishes(s, Payload(id).replyTo)
  /\ UNCHANGED handed
Discards(s) ==
  /\ outbox' = [outbox EXCEPT ![s] = {}]
  /\ verdict' = [id \in MessageIds |-> IF id \in outbox[s] THEN "discarded" ELSE verdict[id]]
  /\ UNCHANGED <<store, ledger, handed, forgot>>
Injects(s, id) ==
  /\ store[s][id] = "pending"
  /\ \/ /\ store' = [store EXCEPT ![s][id] = "injected"]
        /\ UNCHANGED <<ledger, forgot>>
     \/ ~Payload(id).expectsReply /\ Finishes(s, id)
  /\ UNCHANGED <<outbox, verdict, handed>>

LEMMA SendOfSend ==
  ASSUME NEW x \in Sends
  PROVE  x.msg.id \in Sendable /\ SendOf(x.msg.id) = x /\ Payload(x.msg.id) = x.msg
<1>1. x.msg.id \in Sendable
  BY DEF Sendable
<1>2. SendOf(x.msg.id) = x
  BY <1>1, SendOfSendable, MessagesAssumption
<1> QED
  BY <1>1, <1>2 DEF Payload

LEMMA MessageTakes ==
  ASSUME DeliveryTypeOK, NEW s \in SessionIds, ClientMessage(s)
  PROVE  /\ Head(toClient[link[s]]).id \in MessageIds
         /\ Takes(s, Head(toClient[link[s]]).id)
<1>0. ClientsOK /\ WiresOK
  BY TypeParts
<1> DEFINE w == Head(toClient[link[s]])
<1>1. Hears(s, "message")
  BY DEF ClientMessage
<1>2. /\ link[s] \in Sockets /\ w \in Response /\ w.type = "message"
      /\ w \in Range(toClient[link[s]])
  BY <1>0, <1>1, HeardFrame
<1>3. w.id \in MessageIds
  BY <1>2 DEF Response, Write
<1> DEFINE answers == Payload(w.id).replyTo \in waiting[s]
           new == answers \/ ~Repeated(s, w.id)
<1>4. /\ store' = IF answers \/ ~new THEN store ELSE [store EXCEPT ![s][w.id] = "pending"]
      /\ handed' = IF new THEN [handed EXCEPT ![s][w.id] = handed[s][w.id] + 1] ELSE handed
      /\ UNCHANGED <<outbox, verdict, ledger, forgot>>
  BY DEF ClientMessage
<1> HIDE DEF w
<1>5. Takes(s, w.id)
  BY <1>2, <1>3, <1>4 DEF Takes
<1> QED
  BY <1>3, <1>5 DEF w

LEMMA ClientBooks ==
  ASSUME DeliveryTypeOK, NEW s \in SessionIds, ClientSteps(s)
  PROVE  /\ UNCHANGED <<pending, recent>>
         /\ \/ UNCHANGED Books
            \/ \E id \in MessageIds :
                 \/ Posts(s, id) \/ Takes(s, id) \/ Injects(s, id)
                 \/ \E outcome \in {"delivered", "failed"} : Learns(s, id, outcome)
            \/ Discards(s)
<1>0. ClientsOK /\ HistoryOK /\ WiresOK
  BY TypeParts
<1>1. ASSUME NEW x \in Sends, ClientSends(s, x)
      PROVE  \E id \in MessageIds : Posts(s, id)
  <2>1. /\ x.msg.id \in MessageIds /\ x.msg.id \in Sendable
        /\ SendOf(x.msg.id) = x /\ Payload(x.msg.id) = x.msg
    BY SendOfSend, SendableIds
  <2>2. Posts(s, x.msg.id)
    BY <1>1, <2>1 DEF ClientSends, Posts, history
  <2> QED
    BY <2>1, <2>2
<1>2. CASE ClientMessage(s)
  BY <1>2, MessageTakes, ClientKinds
<1>3. CASE ClientDelivered(s) \/ ClientFailed(s)
  <2> DEFINE w == Head(toClient[link[s]])
  <2>1. PICK outcome \in {"delivered", "failed"} :
          /\ outcome = "delivered" => Hears(s, "delivered")
          /\ Outcome(s, w.id, outcome)
          /\ \/ UNCHANGED <<store, ledger, forgot>>
             \/ /\ outcome = "delivered" /\ w.id \in sending[s] /\ Payload(w.id).replyTo # None
                /\ Finishes(s, Payload(w.id).replyTo)
          /\ UNCHANGED handed
    BY <1>3 DEF ClientDelivered, ClientFailed
  <2>2. \E type \in {"delivered", "delivery_failed"} : Hears(s, type)
    BY <1>3 DEF ClientDelivered, ClientFailed
  <2>3. /\ w \in Response /\ w.type \in {"delivered", "delivery_failed"}
        /\ outcome = "delivered" => link[s] \in Sockets /\ w.type = "delivered"
                                      /\ w \in Range(toClient[link[s]])
    BY <1>0, <2>1, <2>2, HeardFrame
  <2>4. w.id \in MessageIds
    BY <2>3 DEF Response, Write
  <2> HIDE DEF w
  <2>5. sending[s] \subseteq outbox[s]
    BY <1>0 DEF ClientsOK
  <2>6. Learns(s, w.id, outcome)
    BY <2>1, <2>3, <2>4, <2>5 DEF Learns
  <2> QED
    BY <1>3, <2>4, <2>6, ClientKinds
<1>4. CASE ClientDisposed(s)
  BY <1>4, ClientKinds DEF ClientDisposed, Discards
<1>5. ASSUME NEW id \in MessageIds, Injected(s, id)
      PROVE  Injects(s, id)
  BY <1>5 DEF Injected, Injects
<1> QED
  BY <1>1, <1>2, <1>3, <1>4, <1>5, ClientKinds

-----------------------------------------------------------------------------
(* Outboxes and stores.                                                    *)

\* What is in an outbox is its process's own and has had no outcome.
OwnOutbox ==
  \A s \in SessionIds : \A id \in outbox[s] : SendOf(id).from = s /\ verdict[id] = "open"

\* A store knows a message only if it was handed on.
StoredIsTaken ==
  \A s \in SessionIds, id \in MessageIds : Repeated(s, id) => handed[s][id] > 0

\* What is no reply is handed on only when the store does not know it: at first,
\* and once for each time the ledger dropped it.
StoredOnce ==
  \A s \in SessionIds, id \in MessageIds :
    Payload(id).replyTo = None =>
      /\ handed[s][id] <= 1 + forgot[s][id]
      /\ ~Repeated(s, id) => handed[s][id] <= forgot[s][id]

\* A reply is under way only for an ask that its process was handed.
RepliesAreHeld ==
  \A s \in SessionIds : \A id \in outbox[s] :
    Payload(id).replyTo # None => handed[s][Payload(id).replyTo] > 0

BooksInv == OwnOutbox /\ StoredIsTaken /\ StoredOnce /\ RepliesAreHeld

\* How the tables of all processes change when one of s does.
LEMMA OutboxExcept ==
  ASSUME DeliveryTypeOK, NEW s \in SessionIds, NEW ids
  PROVE  \A t \in SessionIds :
           [outbox EXCEPT ![s] = ids][t] = IF t = s THEN ids ELSE outbox[t]
BY DEF DeliveryTypeOK

LEMMA StoreExcept ==
  ASSUME DeliveryTypeOK, NEW s \in SessionIds, NEW id, NEW kept \in Kept
  PROVE  \A t \in SessionIds, x \in MessageIds :
           [store EXCEPT ![s][id] = kept][t][x] = IF t = s /\ x = id THEN kept ELSE store[t][x]
<1>1. store \in [SessionIds -> [MessageIds -> Kept]]
  BY DEF DeliveryTypeOK
<1> QED
  BY <1>1, TableExcept

LEMMA HandedExcept ==
  ASSUME DeliveryTypeOK, NEW s \in SessionIds, NEW id \in MessageIds
  PROVE  \A t \in SessionIds, x \in MessageIds :
           [handed EXCEPT ![s][id] = handed[s][id] + 1][t][x]
             = IF t = s /\ x = id THEN handed[t][x] + 1 ELSE handed[t][x]
<1> DEFINE n == handed[s][id] + 1
<1>1. handed \in [SessionIds -> [MessageIds -> Nat]] /\ n \in Nat
  BY DEF DeliveryTypeOK
<1>2. \A t \in SessionIds, x \in MessageIds :
        [handed EXCEPT ![s][id] = n][t][x] = IF t = s /\ x = id THEN n ELSE handed[t][x]
  <2> HIDE DEF n
  <2> QED
    BY <1>1, TableExcept
<1> QED
  BY <1>2

LEMMA OutcomeBooks ==
  ASSUME DeliveryTypeOK, NEW s \in SessionIds, NEW id \in MessageIds, NEW outcome,
         Outcome(s, id, outcome)
  PROVE  /\ \A t \in SessionIds : outbox'[t] = IF t = s THEN outbox[s] \ {id} ELSE outbox[t]
         /\ \A x \in MessageIds :
              verdict'[x] = IF x = id /\ id \in outbox[s] THEN outcome ELSE verdict[x]
         /\ id \notin outbox[s] => UNCHANGED <<outbox, verdict>>
BY DEF Outcome, DeliveryTypeOK

\* Being done with a message, a process still knows it.
LEMMA FinishesKnown ==
  ASSUME DeliveryTypeOK, BooksInv, NEW s \in SessionIds, NEW id \in MessageIds,
         handed[s][id] > 0, Finishes(s, id), UNCHANGED handed
  PROVE  StoredIsTaken' /\ StoredOnce'
<1>1. HistoryOK
  BY TypeParts
<1>2. \A t \in SessionIds, x \in MessageIds :
        handed[t][x] \in Nat /\ forgot[t][x] \in Nat /\ forgot'[t][x] \in Nat
  BY <1>1, FinishesBooks DEF HistoryOK
<1>3. ASSUME NEW t \in SessionIds, NEW x \in MessageIds
      PROVE  /\ Repeated(t, x)' => Repeated(t, x) \/ (t = s /\ x = id)
             /\ t = s /\ x = id => Repeated(t, x)'
             /\ forgot'[t][x] >= forgot[t][x]
             /\ Repeated(t, x) /\ ~Repeated(t, x)' => forgot'[t][x] = forgot[t][x] + 1
  BY <1>1, FinishesBooks DEF Repeated
<1>4. StoredIsTaken'
  BY <1>3 DEF BooksInv, StoredIsTaken
<1>5. ASSUME NEW t \in SessionIds, NEW x \in MessageIds, Payload(x).replyTo = None
      PROVE  /\ handed[t][x] <= 1 + forgot'[t][x]
             /\ ~Repeated(t, x)' => handed[t][x] <= forgot'[t][x]
  <2>1. /\ handed[t][x] <= 1 + forgot[t][x]
        /\ ~Repeated(t, x) => handed[t][x] <= forgot[t][x]
    BY <1>5 DEF BooksInv, StoredOnce
  <2> QED
    BY <1>2, <1>3, <2>1
<1> QED
  BY <1>4, <1>5 DEF StoredOnce

LEMMA TakesBooks ==
  ASSUME DeliveryTypeOK, NEW s \in SessionIds, NEW id \in MessageIds, Takes(s, id)
  PROVE  /\ UNCHANGED <<outbox, verdict, ledger, forgot>>
         /\ \A t \in SessionIds, x \in MessageIds :
              /\ ~(t = s /\ x = id) => store'[t][x] = store[t][x] /\ handed'[t][x] = handed[t][x]
              /\ Repeated(t, x) => Repeated(t, x)'
              /\ handed'[t][x] >= handed[t][x]
         /\ \/ /\ Payload(id).replyTo # None /\ handed'[s][id] = handed[s][id] + 1
               /\ store'[s][id] = store[s][id]
            \/ /\ ~Repeated(s, id) /\ Repeated(s, id)'
               /\ handed'[s][id] = handed[s][id] + 1
            \/ Repeated(s, id) /\ UNCHANGED <<store, handed>>
<1>1. \A t \in SessionIds, x \in MessageIds : handed[t][x] \in Nat
  BY DEF DeliveryTypeOK
<1>2. "pending" \in Kept /\ "pending" # "absent"
  BY DEF Kept
<1>3. Payload(id).replyTo \in waiting[s] => Payload(id).replyTo # None
  BY IdentityAssumption DEF DeliveryTypeOK
<1>4. \A t \in SessionIds, x \in MessageIds :
        /\ [handed EXCEPT ![s][id] = handed[s][id] + 1][t][x]
             = IF t = s /\ x = id THEN handed[t][x] + 1 ELSE handed[t][x]
        /\ [store EXCEPT ![s][id] = "pending"][t][x]
             = IF t = s /\ x = id THEN "pending" ELSE store[t][x]
  BY <1>2, StoreExcept, HandedExcept
<1> DEFINE H == [handed EXCEPT ![s][id] = handed[s][id] + 1]
           S == [store EXCEPT ![s][id] = "pending"]
<1>5. \/ Payload(id).replyTo # None /\ store' = store /\ handed' = H
      \/ ~Repeated(s, id) /\ store' = S /\ handed' = H
      \/ Repeated(s, id) /\ store' = store /\ handed' = handed
  BY <1>3 DEF Takes
<1>6. UNCHANGED <<outbox, verdict, ledger, forgot>>
  BY DEF Takes
<1>7. /\ \A t \in SessionIds, x \in MessageIds :
           /\ H[t][x] = IF t = s /\ x = id THEN handed[t][x] + 1 ELSE handed[t][x]
           /\ S[t][x] = IF t = s /\ x = id THEN "pending" ELSE store[t][x]
      /\ H[s][id] = handed[s][id] + 1 /\ S[s][id] = "pending"
  BY <1>4
<1>8. \A t \in SessionIds, x \in MessageIds :
        Repeated(t, x)' <=> Finished(t, x) \/ store'[t][x] # "absent"
  BY <1>6 DEF Repeated, Finished
<1>9. \A t \in SessionIds, x \in MessageIds :
        Repeated(t, x) <=> Finished(t, x) \/ store[t][x] # "absent"
  BY DEF Repeated
<1> HIDE DEF H, S
<1> QED
  BY <1>1, <1>2, <1>5, <1>6, <1>7, <1>8, <1>9

LEMMA BooksStep ==
  ASSUME DeliveryTypeOK, BooksInv, NEW s \in SessionIds, ClientSteps(s)
  PROVE  BooksInv'
<1>1. \A t \in SessionIds, x \in MessageIds : handed[t][x] \in Nat /\ forgot[t][x] \in Nat
  BY DEF DeliveryTypeOK
<1>2. \A t \in SessionIds : outbox[t] \subseteq Sendable /\ outbox[t] \subseteq MessageIds
  BY SendableIds DEF DeliveryTypeOK
<1>3. CASE UNCHANGED Books
  BY <1>3 DEF BooksInv, OwnOutbox, StoredIsTaken, StoredOnce, RepliesAreHeld, Books,
              Repeated, Finished
<1>4. ASSUME NEW id \in MessageIds, Posts(s, id)
      PROVE  BooksInv'
  <2>1. \A t \in SessionIds : outbox'[t] = IF t = s THEN outbox[s] \cup {id} ELSE outbox[t]
    BY <1>4, OutboxExcept DEF Posts
  <2>2. SendOf(id).from = s /\ verdict[id] = "open"
    BY <1>4 DEF Posts, Posted
  <2>3. OwnOutbox'
    BY <1>4, <2>1, <2>2 DEF BooksInv, OwnOutbox, Posts
  <2>4. RepliesAreHeld'
    <3>1. Payload(id).replyTo # None => handed[s][Payload(id).replyTo] > 0
      BY <1>4, ReplyIsToMessage DEF Posts, BooksInv, StoredIsTaken, Repeated
    <3> QED
      BY <1>4, <2>1, <3>1 DEF BooksInv, RepliesAreHeld, Posts
  <2> QED
    BY <1>4, <2>3, <2>4
    DEF BooksInv, StoredIsTaken, StoredOnce, Posts, Repeated, Finished
<1>5. ASSUME NEW id \in MessageIds, Takes(s, id)
      PROVE  BooksInv'
  <2>1. UNCHANGED <<outbox, verdict, ledger, forgot>>
    BY <1>5, TakesBooks
  <2>2. \A t \in SessionIds, x \in MessageIds :
          ~(t = s /\ x = id) => (Repeated(t, x)' <=> Repeated(t, x))
    BY <1>5, <2>1, TakesBooks DEF Repeated, Finished
  <2>3. OwnOutbox'
    BY <2>1 DEF BooksInv, OwnOutbox
  <2>4. StoredIsTaken'
    BY <1>1, <1>5, <2>2, TakesBooks DEF BooksInv, StoredIsTaken
  <2>5. StoredOnce'
    BY <1>1, <1>5, <2>1, <2>2, TakesBooks DEF BooksInv, StoredOnce
  <2>6. RepliesAreHeld'
    <3>1. \A t \in SessionIds, x \in MessageIds : handed[t][x] > 0 => handed'[t][x] > 0
      BY <1>1, <1>5, TakesBooks
    <3> QED
      BY <1>2, <2>1, <3>1, ReplyIsToMessage DEF BooksInv, RepliesAreHeld
  <2> QED
    BY <2>3, <2>4, <2>5, <2>6 DEF BooksInv
<1>6. ASSUME NEW id \in MessageIds, NEW outcome, Learns(s, id, outcome)
      PROVE  BooksInv'
  <2>1. /\ \A t \in SessionIds : outbox'[t] = IF t = s THEN outbox[s] \ {id} ELSE outbox[t]
        /\ \A x \in MessageIds :
              verdict'[x] = IF x = id /\ id \in outbox[s] THEN outcome ELSE verdict[x]
        /\ UNCHANGED handed
    BY <1>6, OutcomeBooks DEF Learns
  <2>2. OwnOutbox'
    BY <1>2, <2>1 DEF BooksInv, OwnOutbox
  <2>3. StoredIsTaken' /\ StoredOnce'
    <3>1. CASE UNCHANGED <<store, ledger, forgot>>
      BY <2>1, <3>1 DEF BooksInv, StoredIsTaken, StoredOnce, Repeated, Finished
    <3>2. CASE ~UNCHANGED <<store, ledger, forgot>>
      <4> DEFINE r == Payload(id).replyTo
      <4>1. id \in outbox[s] /\ r # None /\ Finishes(s, r)
        BY <1>6, <3>2 DEF Learns
      <4>2. r \in MessageIds /\ handed[s][r] > 0
        BY <1>2, <4>1, ReplyIsToMessage DEF BooksInv, RepliesAreHeld
      <4> HIDE DEF r
      <4> QED
        BY <2>1, <4>1, <4>2, FinishesKnown
    <3> QED
      BY <3>1, <3>2
  <2>4. RepliesAreHeld'
    BY <2>1 DEF BooksInv, RepliesAreHeld
  <2> QED
    BY <2>2, <2>3, <2>4 DEF BooksInv
<1>7. CASE Discards(s)
  <2>1. /\ \A t \in SessionIds : outbox'[t] = IF t = s THEN {} ELSE outbox[t]
        /\ \A x \in MessageIds : x \notin outbox[s] => verdict'[x] = verdict[x]
    BY <1>7, OutboxExcept DEF Discards
  <2>2. OwnOutbox'
    BY <1>2, <2>1 DEF BooksInv, OwnOutbox
  <2>3. RepliesAreHeld'
    BY <1>7, <2>1 DEF BooksInv, RepliesAreHeld, Discards
  <2> QED
    BY <1>7, <2>2, <2>3
    DEF BooksInv, StoredIsTaken, StoredOnce, Discards, Repeated, Finished
<1>8. ASSUME NEW id \in MessageIds, Injects(s, id)
      PROVE  BooksInv'
  <2>1. UNCHANGED <<outbox, verdict, handed>> /\ store[s][id] = "pending"
    BY <1>8 DEF Injects
  <2>2. StoredIsTaken' /\ StoredOnce'
    <3>1. CASE store' = [store EXCEPT ![s][id] = "injected"] /\ UNCHANGED <<ledger, forgot>>
      <4>1. "injected" \in Kept /\ "injected" # "absent"
        BY DEF Kept
      <4>2. \A t \in SessionIds, x \in MessageIds :
              store'[t][x] # "absent" <=> store[t][x] # "absent"
        BY <2>1, <3>1, <4>1, StoreExcept
      <4>3. \A t \in SessionIds, x \in MessageIds : Repeated(t, x)' <=> Repeated(t, x)
        BY <3>1, <4>2 DEF Repeated, Finished
      <4> QED
        BY <2>1, <3>1, <4>3 DEF BooksInv, StoredIsTaken, StoredOnce
    <3>2. CASE Finishes(s, id)
      <4>1. handed[s][id] > 0
        BY <2>1 DEF BooksInv, StoredIsTaken, Repeated
      <4> QED
        BY <2>1, <3>2, <4>1, FinishesKnown
    <3> QED
      BY <1>8, <3>1, <3>2 DEF Injects
  <2>3. OwnOutbox' /\ RepliesAreHeld'
    BY <2>1 DEF BooksInv, OwnOutbox, RepliesAreHeld
  <2> QED
    BY <2>2, <2>3 DEF BooksInv
<1> QED
  BY <1>3, <1>4, <1>5, <1>6, <1>7, <1>8, ClientBooks

\* The broker has no part in any of that.
LEMMA BrokerBooks ==
  ASSUME [DeliveryNext]_allVars, ~\E s \in SessionIds : ClientSteps(s)
  PROVE  UNCHANGED <<clients, history>> /\ UNCHANGED Books
BY DEF DeliveryNext, BrokerSteps, BrokerReads, BrokerRegisters, BrokerSends, BrokerControls,
       BrokerIgnores, BrokerCloses, BrokerTimers, TimePasses, BrokerStops, BrokerStarts, BrokerCondemns,
       allVars, clients, history, Books

LEMMA BooksCorrect == DeliverySpec => []BooksInv
<1>1. DeliveryInit => BooksInv
  BY DEF DeliveryInit, BooksInv, OwnOutbox, StoredIsTaken, StoredOnce, RepliesAreHeld,
         Repeated, Finished
<1>2. DeliveryTypeOK /\ BooksInv /\ [DeliveryNext]_allVars => BooksInv'
  <2>1. ASSUME BooksInv, UNCHANGED Books
        PROVE  BooksInv'
    BY <2>1 DEF BooksInv, OwnOutbox, StoredIsTaken, StoredOnce, RepliesAreHeld, Books,
                Repeated, Finished
  <2> QED
    BY <2>1, BooksStep, BrokerBooks
<1> QED
  BY <1>1, <1>2, DeliveryTypeCorrect, PTL DEF DeliverySpec

\* However often its sender and the broker repeat a message, through kills of
\* either end between any two steps, no process hands it on more than once, and once
\* more for each time its ledger of MaxLedger ids dropped it.
THEOREM MessagesAreHandedOnOnce == DeliverySpec => []HandedOnOnce
<1>1. BooksInv => HandedOnOnce
  <2> SUFFICES ASSUME BooksInv, NEW s \in SessionIds, NEW x \in Sends, x.msg.replyTo = None
               PROVE  handed[s][x.msg.id] <= 1 + forgot[s][x.msg.id]
    BY DEF HandedOnOnce
  <2>1. x.msg.id \in MessageIds /\ Payload(x.msg.id) = x.msg
    BY SendOfSend, SendableIds
  <2> QED
    BY <2>1 DEF BooksInv, StoredOnce
<1> QED
  BY <1>1, BooksCorrect, PTL

-----------------------------------------------------------------------------
(* What is on its way.                                                     *)

\* Whatever travels was posted first.
TravelsPosted ==
  /\ \A k \in Sockets : \A f \in Range(toBroker[k]) : f.type = "send" => f.id \in Posted
  /\ \A p \in pending : p.msg.id \in Posted
  /\ \A k \in Sockets : \A w \in Range(toClient[k]) : w.type = "message" => w.id \in Posted

\* A delivery is acknowledged, remembered and reported only when its message was
\* taken in; the message passed on under its id is the one it is about.
ReportsTaken ==
  /\ \A k \in Sockets : \A f \in Range(toBroker[k]), p \in pending :
       f.type = "message_received" /\ p.delivery = f.id => p.msg.id \in Taken
  /\ \A k \in Sockets : \A w \in Range(toClient[k]), p \in pending :
       w.type = "message" /\ p.delivery = w.detail => p.msg.id = w.id
  /\ \A r \in recent : ~r.retryable => r.msg.id \in Taken
  /\ \A k \in Sockets : \A w \in Range(toClient[k]) : w.type = "delivered" => w.id \in Taken

TravelInv == TravelsPosted /\ ReportsTaken

\* What a step of the broker does to deliveries, and what that rests on.
NoneNew == pending' \subseteq pending
Answers(k) ==
  /\ Asks(k, "send") /\ FreshDelivery /\ (Quiet \/ Replays(k))
  /\ \A p \in pending' \ pending : p.msg.id = Subject(k)
Accepted(k, p) == Asks(k, "message_received") /\ p.delivery = Subject(k) /\ Delivers(p)

LEMMA DetachedNone == \A s, k, known : Detach(s, k, known) => NoneNew
BY DEF Detach, Drop, NoneNew

\* The one delivery that a send adds is of its message.
LEMMA AcceptedAdds ==
  ASSUME NEW k, NEW s, NEW m, NEW d, SendAccepted(k, s, m, d)
  PROVE  \E new : /\ pending' = (pending \ OutOfDate(s, m)) \cup {new}
                  /\ new.msg = m /\ new.from = s /\ new.senderSocket = k
<1>1. PICK t \in Recipients(s, m) :
        pending' = (pending \ OutOfDate(s, m)) \cup
          {[delivery |-> d, from |-> s, to |-> t, msg |-> m,
            senderSocket |-> k, recipientSocket |-> sessions[t].socket,
            fromGen |-> sessions[s].gen, toGen |-> sessions[t].gen]}
  BY DEF SendAccepted
<1> DEFINE new == [delivery |-> d, from |-> s, to |-> t, msg |-> m,
                   senderSocket |-> k, recipientSocket |-> sessions[t].socket,
                   fromGen |-> sessions[s].gen, toGen |-> sessions[t].gen]
<1>2. new.msg = m /\ new.from = s /\ new.senderSocket = k
  OBVIOUS
<1>3. pending' = (pending \ OutOfDate(s, m)) \cup {new}
  BY <1>1
<1> HIDE DEF new
<1> QED
  BY <1>2, <1>3

LEMMA SendAddsItsOwn ==
  ASSUME NEW k, NEW x, SendMessage(k, x), NEW p \in pending' \ pending
  PROVE  p.msg = x.msg
<1>1. CASE UNCHANGED pending
  BY <1>1
<1>2. CASE SendRefused(k, x.from, x.msg)
  <2>1. pending' \subseteq pending
    BY <1>2 DEF SendRefused, Drop
  <2> QED
    BY <2>1
<1>3. ASSUME NEW d, SendAccepted(k, x.from, x.msg, d)
      PROVE  p.msg = x.msg
  <2>1. PICK new : pending' = (pending \ OutOfDate(x.from, x.msg)) \cup {new} /\ new.msg = x.msg
    BY <1>3, AcceptedAdds
  <2> QED
    BY <2>1
<1> QED
  BY <1>1, <1>2, <1>3 DEF SendMessage, SendDuplicate, SendReplayed, SendPending

LEMMA BrokerOutcome ==
  ASSUME BrokerInv, WiresOK, BrokerSteps
  PROVE  \/ UNCHANGED <<pending, recent, toClient>>
         \/ Quiet /\ NoneNew
         \/ \E k \in Sockets : Answers(k)
         \/ \E k \in Sockets, p \in pending : Accepted(k, p)
         \/ NoneNew /\ writes' = {} /\ recent' = {}
<1>0. TypeOK /\ DownIsEmpty
  BY DEF BrokerInv
<1>1. ASSUME NEW k \in Sockets, BrokerRegisters(k)
      PROVE  Quiet /\ NoneNew
  <2>1. Register(k, Subject(k), Identity) /\ Subject(k) \in SessionIds
    BY <1>1, AskedFrame DEF BrokerRegisters, Request, Subject
  <2>2. Connections
    BY <2>1, MessagesAssumption DEF Connections
  <2>3. NoneNew
    BY <2>1, DetachedNone DEF Register, Untouched, table, NoneNew
  <2> QED
    BY <1>0, <2>2, <2>3, ConnectionsQuiet
<1>2. ASSUME NEW k \in Sockets, BrokerSends(k)
      PROVE  Answers(k)
  <2>1. Asks(k, "send") /\ FreshDelivery /\ SendMessage(k, SendOf(Subject(k)))
    BY <1>2 DEF BrokerSends
  <2>2. Subject(k) \in Sendable
    BY <2>1, AskedFrame DEF Request, Subject
  <2>3. SendOf(Subject(k)) \in Sends /\ SendOf(Subject(k)).msg.id = Subject(k)
    BY <2>2, SendOfSendable
  <2>4. Quiet \/ Replays(k)
    BY <1>0, <2>1, <2>3, SendOutcome DEF Send
  <2>5. ASSUME NEW p \in pending' \ pending
        PROVE  p.msg = SendOf(Subject(k)).msg
    BY <2>1, <2>5, SendAddsItsOwn
  <2> QED
    BY <2>1, <2>3, <2>4, <2>5 DEF Answers
<1>3. ASSUME NEW k \in Sockets, BrokerControls(k)
      PROVE  (Quiet /\ NoneNew) \/ \E p \in pending : Accepted(k, p)
  <2>1. ASSUME NEW p \in pending, MessageReceived(k, p), p.delivery = Subject(k),
               Asks(k, "message_received")
        PROVE  (Quiet /\ NoneNew) \/ Accepted(k, p)
    <3>1. CASE StillValid(p)
      BY <2>1, <3>1 DEF Accepted, Delivers
    <3>2. CASE ~StillValid(p)
      BY <1>0, <2>1, <3>2, ExchangeQuiet DEF MessageReceived, Fail, Drop, NoneNew
    <3> QED
      BY <3>1, <3>2
  <2>2. ASSUME NEW e \in asks, DeferAsk(k, e) \/ CancelAsk(k, e)
        PROVE  Quiet /\ NoneNew
    BY <1>0, <2>2, ExchangeQuiet DEF DeferAsk, CancelAsk, NoneNew
  <2>3. ASSUME Unregister(k, FALSE)
        PROVE  Quiet /\ NoneNew
    <3>1. Connections
      BY <2>3 DEF Connections
    <3>2. NoneNew
      BY <2>3, DetachedNone DEF Unregister, Untouched, table, NoneNew, Drop
    <3> QED
      BY <1>0, <3>1, <3>2, ConnectionsQuiet
  <2> QED
    BY <1>3, <2>1, <2>2, <2>3 DEF BrokerControls
<1>4. ASSUME NEW k \in Sockets, BrokerCloses(k)
      PROVE  Quiet /\ NoneNew
  <2>1. SocketClose(k) /\ Connections
    BY <1>4 DEF BrokerCloses, Connections
  <2>2. NoneNew
    BY <2>1, DetachedNone DEF SocketClose, Untouched, table, NoneNew
  <2> QED
    BY <1>0, <2>1, <2>2, ConnectionsQuiet
<1>5. CASE BrokerTimers \/ TimePasses
  <2>1. ASSUME \/ \E p \in pending : DeliveryTimeout(p)
               \/ \E e \in asks : AskExpires(e)
               \/ \E e \in askFile : AskLapses(e)
               \/ \E r \in recent : RecentLapses(r)
        PROVE  Quiet /\ NoneNew
    <3>1. NoneNew
      BY <2>1 DEF DeliveryTimeout, AskExpires, AskLapses, RecentLapses, Fail, Drop, NoneNew
    <3>2. Quiet
      BY <1>0, <2>1, ExchangeQuiet
    <3> QED
      BY <3>1, <3>2
  <2> QED
    BY <1>5, <2>1 DEF BrokerTimers, TimePasses
<1>6. CASE BrokerStops
  BY <1>6 DEF BrokerStops, ShutdownCheck, Crash, Stop, Untouched, table, NoneNew
<1>7. CASE BrokerStarts
  BY <1>7 DEF BrokerStarts, Start, wires
<1>8. ASSUME NEW k \in Sockets, BrokerCondemns(k) \/ BrokerIgnores(k)
      PROVE  UNCHANGED <<pending, recent, toClient>>
  BY <1>8 DEF BrokerCondemns, BrokerIgnores, Condemn, RegistrationTimeout, Untouched, table,
              wires, vars
<1> QED
  BY <1>1, <1>2, <1>3, <1>4, <1>5, <1>6, <1>7, <1>8 DEF BrokerSteps, BrokerReads

\* What is newly written to k.
NewWrite(k, w) == w \in Range(toClient'[k]) /\ w \notin Range(toClient[k])

LEMMA BrokerTravels ==
  ASSUME BrokerInv, BrokerInv', WiresOK, TravelInv, BrokerSteps
  PROVE  TravelInv'
<1>1. UNCHANGED <<clients, history>> /\ Hearkens /\ Replies
  BY BrokerWires DEF BrokerInv
<1>2. UNCHANGED Posted /\ UNCHANGED Taken
  BY <1>1 DEF clients, history, Posted, Taken
<1>3. ASSUME NEW k \in Sockets, NEW f \in Range(toBroker'[k])
      PROVE  f \in Range(toBroker[k])
  BY <1>1 DEF Hearkens
<1>4. ASSUME NEW k \in Sockets, NEW w, NewWrite(k, w), w.type \in {"message", "delivered"}
      PROVE  w \in writes'
  BY <1>1, <1>4 DEF NewWrite, Replies, OfBatch
<1>5. ASSUME NEW f, NEW k \in Sockets, f \in Range(toBroker'[k]), f.type = "send"
      PROVE  f.id \in Posted'
  BY <1>2, <1>3, <1>5 DEF TravelInv, TravelsPosted
\* It is enough to look at what is new.
<1> DEFINE PendingNew ==
             \A p \in pending' \ pending :
               /\ p.msg.id \in Posted
               /\ \A k \in Sockets : \A f \in Range(toBroker[k]) :
                    f.type = "message_received" => p.delivery # f.id
               /\ \A k \in Sockets : \A w \in Range(toClient[k]) :
                    w.type = "message" => p.delivery # w.detail
           WritesNew ==
             \A w : \A k \in Sockets : NewWrite(k, w) =>
               /\ w.type = "delivered" => w.id \in Taken
               /\ w.type = "message" => \E p \in pending' \ pending :
                                          p.msg.id = w.id /\ p.delivery = w.detail
           RecentNew == \A r \in recent' : ~r.retryable => r.msg.id \in Taken
<1>6. ASSUME PendingNew, WritesNew, RecentNew
      PROVE  TravelInv'
  <2>1. \A p \in pending' : p.msg.id \in Posted
    BY <1>6 DEF TravelInv, TravelsPosted
  <2>2. ASSUME NEW k \in Sockets, NEW w \in Range(toClient'[k]), w.type = "message"
        PROVE  w.id \in Posted
    BY <1>6, <2>1, <2>2 DEF TravelInv, TravelsPosted, NewWrite
  <2>3. TravelsPosted'
    BY <1>2, <1>5, <2>1, <2>2 DEF TravelsPosted
  <2>4. ASSUME NEW k \in Sockets, NEW f \in Range(toBroker'[k]), NEW p \in pending',
               f.type = "message_received", p.delivery = f.id
        PROVE  p.msg.id \in Taken
    BY <1>3, <1>6, <2>4 DEF TravelInv, ReportsTaken
  <2>5. ASSUME NEW k \in Sockets, NEW w \in Range(toClient'[k]), NEW p \in pending',
               w.type = "message", p.delivery = w.detail
        PROVE  p.msg.id = w.id
    <3>1. CASE NewWrite(k, w)
      <4>1. PICK q \in pending' : q.msg.id = w.id /\ q.delivery = w.detail
        BY <1>6, <2>5, <3>1
      <4>2. p = q
        BY <2>5, <4>1 DEF BrokerInv, PendingIndexed
      <4> QED
        BY <4>1, <4>2
    <3>2. CASE ~NewWrite(k, w)
      BY <1>6, <2>5, <3>2 DEF TravelInv, ReportsTaken, NewWrite
    <3> QED
      BY <3>1, <3>2
  <2>6. ASSUME NEW k \in Sockets, NEW w \in Range(toClient'[k]), w.type = "delivered"
        PROVE  w.id \in Taken
    BY <1>6, <2>6 DEF TravelInv, ReportsTaken, NewWrite
  <2>7. ReportsTaken'
    BY <1>2, <1>6, <2>4, <2>5, <2>6 DEF ReportsTaken
  <2> QED
    BY <2>3, <2>7 DEF TravelInv
<1>7. NoneNew => PendingNew
  BY DEF NoneNew
<1>8. ASSUME Quiet
      PROVE  WritesNew /\ RecentNew
  <2>1. Undelivered(writes') /\ NoneRemembered
    BY <1>8 DEF Quiet, Fails
  <2>2. WritesNew
    BY <1>4, <2>1 DEF Undelivered
  <2>3. RecentNew
    BY <2>1 DEF NoneRemembered, SameKey, TravelInv, ReportsTaken
  <2> QED
    BY <2>2, <2>3
<1>9. CASE UNCHANGED <<pending, recent, toClient>>
  BY <1>6, <1>9 DEF NewWrite, TravelInv, ReportsTaken
<1>10. CASE Quiet /\ NoneNew
  BY <1>6, <1>7, <1>8, <1>10
<1>11. ASSUME NEW k \in Sockets, Answers(k)
       PROVE  TravelInv'
  <2>1. Subject(k) \in Posted
    BY <1>11, AskedFrame DEF Answers, Subject, TravelInv, TravelsPosted
  <2>2. PendingNew
    BY <1>11, <2>1 DEF Answers, FreshDelivery, Range
  <2>3. CASE Replays(k)
    <3>1. PICK x \in Sends : SendReplayed(k, x.from, x.msg)
      BY <2>3 DEF Replays
    <3>2. PICK r \in Answer(x.from, x.msg) :
            writes' = ToSocket(k, "delivery_accepted", x.from, x.msg, r.delivery)
                        \cup ToSocket(k, "delivered", x.from, x.msg, r.delivery)
      BY <3>1 DEF SendReplayed
    <3>3. r \in recent /\ r.msg = x.msg /\ ~r.retryable
      BY DEF Answer, RecentOf, Fresh
    <3>4. x.msg.id \in Taken
      BY <3>3 DEF TravelInv, ReportsTaken
    <3>5. \A w \in writes' : w.type # "message" /\ w.id = x.msg.id
      BY <3>2 DEF ToSocket
    <3>6. WritesNew
      BY <1>4, <3>4, <3>5
    <3>7. recent' \subseteq recent
      BY <3>1 DEF SendReplayed, Remembered, Fresh
    <3>8. RecentNew
      BY <3>7 DEF TravelInv, ReportsTaken
    <3> QED
      BY <1>6, <2>2, <3>6, <3>8
  <2> QED
    BY <1>6, <1>8, <1>11, <2>2, <2>3 DEF Answers
<1>12. ASSUME NEW k \in Sockets, NEW p \in pending, Accepted(k, p)
       PROVE  TravelInv'
  <2>1. p.msg.id \in Taken
    BY <1>12, AskedFrame DEF Accepted, Subject, TravelInv, ReportsTaken
  <2>2. /\ pending' = pending \ {p}
        /\ recent' = RecentWith(recent, {p}, FALSE)
        /\ writes' = Answered(p, sessions, "delivered", p.delivery)
    BY <1>12 DEF Accepted, Delivers, MessageReceived
  <2>3. \A w \in writes' : w.type # "message" /\ w.id = p.msg.id
    BY <2>2 DEF Answered
  <2>4. WritesNew
    BY <1>4, <2>1, <2>3
  <2>5. Settle(p, FALSE).msg = p.msg
    BY DEF Settle
  <2>6. RecentNew
    BY <2>1, <2>2, <2>5 DEF RecentWith, TravelInv, ReportsTaken
  <2> QED
    BY <1>6, <2>2, <2>4, <2>6
<1>13. CASE NoneNew /\ writes' = {} /\ recent' = {}
  BY <1>4, <1>6, <1>7, <1>13
<1> QED
  BY <1>9, <1>10, <1>11, <1>12, <1>13, BrokerOutcome

-----------------------------------------------------------------------------
(* What a step of a client does to what is posted, taken in and told.      *)

LEMMA MailSame ==
  /\ UNCHANGED <<outbox, verdict>> => UNCHANGED Posted
  /\ UNCHANGED handed => UNCHANGED Taken
BY DEF Posted, Taken

LEMMA PostsMail ==
  ASSUME DeliveryTypeOK, NEW s \in SessionIds, NEW id \in MessageIds, Posts(s, id)
  PROVE  Posted' = Posted \cup {id} /\ UNCHANGED <<Taken, verdict>>
<1>1. \A t \in SessionIds : outbox'[t] = IF t = s THEN outbox[s] \cup {id} ELSE outbox[t]
  BY OutboxExcept DEF Posts
<1>2. UNCHANGED <<verdict, handed>>
  BY DEF Posts
<1> QED
  BY <1>1, <1>2, MailSame DEF Posted

LEMMA TakesMail ==
  ASSUME DeliveryTypeOK, BooksInv, NEW s \in SessionIds, NEW id \in MessageIds, Takes(s, id)
  PROVE  Taken' = Taken \cup {id} /\ UNCHANGED <<Posted, verdict>>
<1>1. \A t \in SessionIds, x \in MessageIds : handed[t][x] \in Nat
  BY DEF DeliveryTypeOK
<1>2. UNCHANGED <<Posted, verdict>>
  BY TakesBooks, MailSame
<1>3. /\ \A t \in SessionIds, x \in MessageIds : ~(t = s /\ x = id) => handed'[t][x] = handed[t][x]
      /\ handed'[s][id] = handed[s][id] + 1 \/ UNCHANGED <<store, handed>>
      /\ handed'[s][id] = handed[s][id] + 1 \/ Repeated(s, id)
  BY TakesBooks
<1>4. CASE handed'[s][id] = handed[s][id] + 1
  <2>1. \A x \in MessageIds : x # id =>
          ((\E t \in SessionIds : handed'[t][x] > 0) <=> (\E t \in SessionIds : handed[t][x] > 0))
    BY <1>3
  <2>2. handed'[s][id] > 0
    BY <1>1, <1>4
  <2> QED
    BY <1>2, <2>1, <2>2 DEF Taken
<1>5. CASE handed'[s][id] # handed[s][id] + 1
  <2>1. UNCHANGED handed /\ handed[s][id] > 0
    BY <1>3, <1>5 DEF BooksInv, StoredIsTaken
  <2> QED
    BY <1>2, <2>1 DEF Taken
<1> QED
  BY <1>4, <1>5

LEMMA LearnsMail ==
  ASSUME DeliveryTypeOK, NEW s \in SessionIds, NEW id \in MessageIds,
         NEW outcome \in {"delivered", "failed"}, Learns(s, id, outcome)
  PROVE  /\ UNCHANGED <<Posted, Taken>>
         /\ \/ id \in outbox[s] /\ verdict' = [verdict EXCEPT ![id] = outcome]
            \/ id \notin outbox[s] /\ UNCHANGED verdict
<1>1. Outcome(s, id, outcome) /\ UNCHANGED handed
  BY DEF Learns
<1>2. /\ \A t \in SessionIds : outbox'[t] = IF t = s THEN outbox[s] \ {id} ELSE outbox[t]
      /\ \A x \in MessageIds :
              verdict'[x] = IF x = id /\ id \in outbox[s] THEN outcome ELSE verdict[x]
      /\ id \notin outbox[s] => UNCHANGED <<outbox, verdict>>
  BY <1>1, OutcomeBooks
<1>3. UNCHANGED Taken
  BY <1>1, MailSame
<1>4. CASE id \in outbox[s]
  <2>1. \A x \in MessageIds : x \in Posted' <=> x \in Posted
    <3>1. id \in Posted /\ id \in Posted'
      BY <1>2, <1>4 DEF Posted
    <3>2. ASSUME NEW x \in MessageIds, x # id
          PROVE  x \in Posted' <=> x \in Posted
      <4>1. verdict'[x] = verdict[x] /\ \A t \in SessionIds : x \in outbox'[t] <=> x \in outbox[t]
        BY <1>2, <3>2
      <4> QED
        BY <4>1 DEF Posted
    <3> QED
      BY <3>1, <3>2
  <2>2. Posted' = Posted
    BY <2>1 DEF Posted
  <2>3. verdict' = [verdict EXCEPT ![id] = outcome]
    BY <1>1, <1>4 DEF Outcome
  <2> QED
    BY <1>3, <1>4, <2>2, <2>3
<1>5. CASE id \notin outbox[s]
  BY <1>2, <1>3, <1>5, MailSame
<1> QED
  BY <1>4, <1>5

LEMMA DiscardsMail ==
  ASSUME DeliveryTypeOK, NEW s \in SessionIds, Discards(s)
  PROVE  UNCHANGED <<Posted, Taken>>
<1>1. /\ \A t \in SessionIds : outbox'[t] = IF t = s THEN {} ELSE outbox[t]
      /\ \A x \in MessageIds : verdict'[x] = IF x \in outbox[s] THEN "discarded" ELSE verdict[x]
      /\ UNCHANGED handed
  BY OutboxExcept DEF Discards
<1>2. ASSUME NEW x \in MessageIds
      PROVE  x \in Posted' <=> x \in Posted
  <2>1. CASE x \in outbox[s]
    BY <1>1, <2>1 DEF Posted
  <2>2. CASE x \notin outbox[s]
    <3>1. verdict'[x] = verdict[x] /\ \A t \in SessionIds : x \in outbox'[t] <=> x \in outbox[t]
      BY <1>1, <2>2
    <3> QED
      BY <3>1 DEF Posted
  <2> QED
    BY <2>1, <2>2
<1>3. Posted' = Posted
  BY <1>2 DEF Posted
<1> QED
  BY <1>1, <1>3, MailSame

\* What is posted stays posted, what is taken in stays taken in.
LEMMA MailGrows ==
  ASSUME DeliveryTypeOK, BooksInv, NEW s \in SessionIds, ClientSteps(s)
  PROVE  Posted \subseteq Posted' /\ Taken \subseteq Taken'
<1>1. CASE UNCHANGED Books
  BY <1>1, MailSame DEF Books
<1>2. ASSUME NEW id \in MessageIds, Injects(s, id)
      PROVE  UNCHANGED <<Posted, Taken>>
  BY <1>2, MailSame DEF Injects
<1> QED
  BY <1>1, <1>2, ClientBooks, PostsMail, TakesMail, LearnsMail, DiscardsMail

LEMMA ClientTravels ==
  ASSUME DeliveryTypeOK, DeliveryTypeOK', BooksInv, TravelInv, NEW s \in SessionIds, ClientSteps(s)
  PROVE  TravelInv'
<1>1. Listens(s) /\ Speaks(s) /\ UNCHANGED <<pending, recent>>
  BY TypeParts, ClientWires, ClientBooks
<1>2. Posted \subseteq Posted' /\ Taken \subseteq Taken'
  BY MailGrows
<1>3. \A id \in outbox'[s] : id \in Posted'
  BY SendableIds DEF DeliveryTypeOK, Posted
<1>4. ASSUME NEW k \in Sockets, NEW w \in Range(toClient'[k])
      PROVE  w \in Range(toClient[k])
  BY <1>1 DEF Listens
<1>5. ASSUME NEW k \in Sockets, NEW f \in Range(toBroker'[k])
      PROVE  f \in Range(toBroker[k]) \/ NewRequest(s, f)
  BY <1>1 DEF Speaks
<1>6. TravelsPosted'
  <2>1. ASSUME NEW k \in Sockets, NEW f \in Range(toBroker'[k]), f.type = "send"
        PROVE  f.id \in Posted'
    <3>1. CASE f \in Range(toBroker[k])
      BY <1>2, <2>1, <3>1 DEF TravelInv, TravelsPosted
    <3>2. CASE NewRequest(s, f)
      <4>1. f # [type |-> "register", id |-> s]
        BY <2>1
      <4> QED
        BY <1>3, <2>1, <3>2, <4>1 DEF NewRequest
    <3> QED
      BY <1>5, <3>1, <3>2
  <2> QED
    BY <1>1, <1>2, <1>4, <2>1 DEF TravelInv, TravelsPosted
<1>7. ReportsTaken'
  <2>1. ASSUME NEW k \in Sockets, NEW f \in Range(toBroker'[k]), NEW p \in pending,
               f.type = "message_received", p.delivery = f.id
        PROVE  p.msg.id \in Taken'
    <3>1. CASE f \in Range(toBroker[k])
      BY <1>2, <2>1, <3>1 DEF TravelInv, ReportsTaken
    <3>2. CASE NewRequest(s, f)
      <4> DEFINE w == Head(toClient[link[s]])
      <4>1. f # [type |-> "register", id |-> s]
        BY <2>1
      <4>2. ClientMessage(s) /\ f.id = w.detail
        BY <2>1, <3>2, <4>1 DEF NewRequest
      <4>3. Hears(s, "message")
        BY <4>2 DEF ClientMessage
      <4>4. link[s] \in Sockets /\ w \in Range(toClient[link[s]]) /\ w.type = "message"
        BY <4>3, HeardFrame, TypeParts
      <4>5. w \in Response
        BY <4>3, HeardFrame, TypeParts
      <4>6. w.id \in MessageIds
        BY <4>4, <4>5 DEF Response, Write
      <4>7. p.msg.id = w.id
        BY <2>1, <4>2, <4>4 DEF TravelInv, ReportsTaken
      <4>8. Takes(s, w.id)
        BY <4>2, MessageTakes
      <4> QED
        BY <4>6, <4>7, <4>8, TakesMail
    <3> QED
      BY <1>5, <3>1, <3>2
  <2> QED
    BY <1>1, <1>2, <1>4, <2>1 DEF TravelInv, ReportsTaken
<1> QED
  BY <1>6, <1>7 DEF TravelInv

LEMMA TravelCorrect == DeliverySpec => []TravelInv
<1>1. DeliveryInit => TravelInv
  BY QueueEmpty DEF DeliveryInit, Init, TravelInv, TravelsPosted, ReportsTaken
<1>2. ASSUME DeliveryTypeOK, DeliveryTypeOK', BooksInv, BrokerInv, BrokerInv', TravelInv,
             [DeliveryNext]_allVars
      PROVE  TravelInv'
  <2>1. CASE \E s \in SessionIds : ClientSteps(s)
    BY <1>2, <2>1, ClientTravels
  <2>2. CASE BrokerSteps
    BY <1>2, <2>2, BrokerTravels, TypeParts
  <2>3. CASE UNCHANGED allVars
    BY <1>2, <2>3 DEF allVars, vars, table, clients, wires, history, TravelInv, TravelsPosted,
                      ReportsTaken, Posted, Taken
  <2> QED
    BY <1>2, <2>1, <2>2, <2>3 DEF DeliveryNext
<1> QED
  BY <1>1, <1>2, DeliveryTypeCorrect, BooksCorrect, BrokerCorrect, PTL DEF DeliverySpec

-----------------------------------------------------------------------------
(* A mail service.                                                         *)

LEMMA MailInit == DeliveryInit => M!Init
BY DEF DeliveryInit, M!Init, Posted, Taken

LEMMA MailStep ==
  ASSUME DeliveryTypeOK, BooksInv, TravelInv, [DeliveryNext]_allVars
  PROVE  [M!Next]_<<Posted, Taken, verdict>>
<1>1. CASE UNCHANGED Books
  BY <1>1, MailSame DEF Books
<1>2. ASSUME NEW s \in SessionIds, NEW id \in MessageIds, Posts(s, id)
      PROVE  M!Next
  <2>1. M!Post(id)
    BY <1>2, PostsMail DEF M!Post, Posts
  <2> QED
    BY <2>1 DEF M!Next
<1>3. ASSUME NEW s \in SessionIds, NEW id \in MessageIds, Takes(s, id)
      PROVE  M!Next
  <2>1. id \in Posted
    BY <1>3 DEF Takes, TravelInv, TravelsPosted
  <2>2. M!Take(id)
    BY <1>3, <2>1, TakesMail DEF M!Take
  <2> QED
    BY <2>2 DEF M!Next
<1>4. ASSUME NEW s \in SessionIds, NEW id \in MessageIds, NEW outcome \in {"delivered", "failed"},
             Learns(s, id, outcome)
      PROVE  [M!Next]_<<Posted, Taken, verdict>>
  <2>1. CASE id \in outbox[s]
    <3>1. verdict' = [verdict EXCEPT ![id] = outcome] /\ UNCHANGED <<Posted, Taken>>
      BY <1>4, <2>1, LearnsMail
    <3>2. id \in Posted /\ verdict[id] = "open"
      BY <2>1 DEF Posted, BooksInv, OwnOutbox
    <3>3. outcome = "delivered" => id \in Taken
      BY <1>4 DEF Learns, TravelInv, ReportsTaken
    <3>4. outcome \in M!Outcome
      BY DEF M!Outcome
    <3>5. M!Tell(id)
      BY <3>1, <3>2, <3>3, <3>4 DEF M!Tell
    <3> QED
      BY <3>5 DEF M!Next
  <2>2. CASE id \notin outbox[s]
    BY <1>4, <2>2, LearnsMail
  <2> QED
    BY <2>1, <2>2
<1>5. ASSUME NEW s \in SessionIds, Discards(s)
      PROVE  M!Next
  <2>1. outbox[s] \in SUBSET MessageIds
    BY SendableIds DEF DeliveryTypeOK
  <2>2. \A id \in MessageIds : id \in outbox[s] <=> id \in outbox[s] \cap Posted /\ verdict[id] = "open"
    BY <2>1 DEF Posted, BooksInv, OwnOutbox
  <2>3. verdict' = [id \in MessageIds |-> IF id \in outbox[s] THEN "discarded" ELSE verdict[id]]
    BY <1>5 DEF Discards
  <2>4. M!Discard(outbox[s])
    BY <1>5, <2>2, <2>3, DiscardsMail DEF M!Discard
  <2> QED
    BY <2>1, <2>4 DEF M!Next
<1>6. ASSUME NEW s \in SessionIds, NEW id \in MessageIds, Injects(s, id)
      PROVE  UNCHANGED <<Posted, Taken, verdict>>
  BY <1>6, MailSame DEF Injects
<1>7. CASE \E s \in SessionIds : ClientSteps(s)
  BY <1>1, <1>2, <1>3, <1>4, <1>5, <1>6, <1>7, ClientBooks
<1> QED
  BY <1>1, <1>7, BrokerBooks

\* Seen from both ends, the system is the mail service of Mail, through every kill,
\* lost connection, restart, replay and timeout of any number of processes: nothing
\* is taken in that was not posted, a sender learns one outcome at most, and
\* learns of a delivery only when the message was taken in.
THEOREM MailIsImplemented == DeliverySpec => ImplementsMail
<1>1. DeliveryInit => M!Init
  BY MailInit
<1>2. DeliveryTypeOK /\ BooksInv /\ TravelInv /\ [DeliveryNext]_allVars
        => [M!Next]_<<Posted, Taken, verdict>>
  BY MailStep
<1> QED
  BY <1>1, <1>2, DeliveryTypeCorrect, BooksCorrect, TravelCorrect, PTL
  DEF DeliverySpec, ImplementsMail, M!Spec

-----------------------------------------------------------------------------
(* Answers.                                                                *)

\* No step takes a verdict back.
LEMMA VerdictsStay ==
  ASSUME DeliveryTypeOK, BooksInv, NEW s \in SessionIds, ClientSteps(s), NEW id \in MessageIds,
         verdict[id] = "delivered"
  PROVE  verdict'[id] = "delivered"
<1>1. \A t \in SessionIds : id \notin outbox[t]
  BY DEF BooksInv, OwnOutbox
<1>2. ASSUME NEW x \in MessageIds, NEW outcome, Learns(s, x, outcome)
      PROVE  verdict'[id] = verdict[id]
  <2>1. \A y \in MessageIds :
          verdict'[y] = IF y = x /\ x \in outbox[s] THEN outcome ELSE verdict[y]
    BY <1>2, OutcomeBooks DEF Learns
  <2> QED
    BY <1>1, <2>1
<1>3. CASE Discards(s)
  BY <1>1, <1>3 DEF Discards
<1>4. CASE \E x \in MessageIds : Posts(s, x) \/ Takes(s, x) \/ Injects(s, x)
  BY <1>4, TakesBooks DEF Posts, Injects
<1>5. CASE UNCHANGED Books
  BY <1>5 DEF Books
<1> QED
  BY <1>2, <1>3, <1>4, <1>5, ClientBooks

LEMMA ResolvedStep ==
  ASSUME DeliveryTypeOK, BooksInv, TravelInv, ResolvedAskIsAnswered,
         NEW s \in SessionIds, ClientSteps(s)
  PROVE  ResolvedAskIsAnswered'
<1> SUFFICES ASSUME NEW t \in SessionIds, NEW ask \in Sends,
                    ask.msg.expectsReply, Finished(t, ask.msg.id)'
             PROVE  \E x \in Sends : /\ x.from = t /\ x.msg.replyTo = ask.msg.id
                                     /\ verdict'[x.msg.id] = "delivered" /\ x.msg.id \in Taken'
  BY DEF ResolvedAskIsAnswered
<1> DEFINE a == ask.msg.id
<1>1. a \in MessageIds /\ Payload(a) = ask.msg
  BY SendOfSend, SendableIds
<1>2. Taken \subseteq Taken'
  BY MailGrows
<1>3. CASE Finished(t, a)
  <2>1. PICK x \in Sends : /\ x.from = t /\ x.msg.replyTo = a
                           /\ verdict[x.msg.id] = "delivered" /\ x.msg.id \in Taken
    BY <1>3 DEF ResolvedAskIsAnswered
  <2>2. x.msg.id \in MessageIds
    BY SendOfSend, SendableIds
  <2> QED
    BY <1>2, <2>1, <2>2, VerdictsStay
<1>4. CASE ~Finished(t, a)
  <2>1. ~UNCHANGED ledger
    BY <1>4 DEF Finished
  <2>2. ASSUME NEW id \in MessageIds, Finishes(s, id)
        PROVE  t = s /\ a = id
    <3>1. HistoryOK
      BY TypeParts
    <3>2. Finished(t, a)' => Finished(t, a) \/ (t = s /\ a = id)
      <4> HIDE DEF a
      <4> QED
        BY <1>1, <2>2, <3>1, FinishesBooks
    <3> QED
      BY <1>4, <3>2
  <2>3. ASSUME NEW id \in MessageIds, Injects(s, id)
        PROVE  FALSE
    <3>1. Finishes(s, id) /\ ~Payload(id).expectsReply
      BY <2>1, <2>3 DEF Injects
    <3> QED
      BY <1>1, <2>2, <3>1
  <2>4. ASSUME NEW id \in MessageIds, NEW outcome \in {"delivered", "failed"},
               Learns(s, id, outcome)
        PROVE  \E x \in Sends : /\ x.from = t /\ x.msg.replyTo = a
                                /\ verdict'[x.msg.id] = "delivered" /\ x.msg.id \in Taken'
    <3> DEFINE r == Payload(id).replyTo
    <3>1. /\ outcome = "delivered" /\ id \in outbox[s] /\ r # None
          /\ Finishes(s, r)
      BY <2>1, <2>4 DEF Learns
    <3>2. r \in MessageIds
      BY <3>1, ReplyIsToMessage DEF DeliveryTypeOK
    <3>3. t = s /\ a = r
      BY <2>2, <3>1, <3>2
    <3>4. id \in Sendable
      BY <3>1 DEF DeliveryTypeOK
    <3>5. SendOf(id) \in Sends /\ SendOf(id).msg.id = id
      BY <3>4, SendOfSendable
    <3>6. SendOf(id).from = s
      BY <3>1 DEF BooksInv, OwnOutbox
    <3>7. verdict'[id] = "delivered"
      BY <2>4, <3>1, LearnsMail DEF DeliveryTypeOK
    <3>8. id \in Taken'
      BY <1>2, <2>4, <3>1 DEF Learns, TravelInv, ReportsTaken
    <3>9. SendOf(id).msg.replyTo = a
      BY <3>3 DEF Payload
    <3> QED
      BY <3>3, <3>5, <3>6, <3>7, <3>8, <3>9
  <2>5. UNCHANGED Books \/ Discards(s) \/ (\E id \in MessageIds : Posts(s, id) \/ Takes(s, id))
          => UNCHANGED ledger
    BY DEF Books, Discards, Posts, Takes
  <2> QED
    BY <2>1, <2>3, <2>4, <2>5, ClientBooks
<1> QED
  BY <1>3, <1>4

\* A process crosses an ask off only when a reply of its own was reported as
\* delivered and had been taken in at the other end: no kill, replay or answer that
\* comes late makes it drop an ask that nobody answered.
THEOREM ResolvedAsksAreAnswered == DeliverySpec => []ResolvedAskIsAnswered
<1>1. DeliveryInit => ResolvedAskIsAnswered
  <2> SUFFICES ASSUME DeliveryInit, NEW s \in SessionIds, NEW ask \in Sends
               PROVE  ~Finished(s, ask.msg.id)
    BY DEF ResolvedAskIsAnswered
  <2>1. ask.msg.id \in MessageIds
    BY SendOfSend, SendableIds
  <2> QED
    BY <2>1 DEF DeliveryInit, Finished
<1>2. ASSUME DeliveryTypeOK, BooksInv, TravelInv, ResolvedAskIsAnswered, [DeliveryNext]_allVars
      PROVE  ResolvedAskIsAnswered'
  <2>1. CASE UNCHANGED Books
    BY <1>2, <2>1, MailSame DEF ResolvedAskIsAnswered, Books, Finished
  <2> QED
    BY <1>2, <2>1, ResolvedStep, BrokerBooks
<1> QED
  BY <1>1, <1>2, DeliveryTypeCorrect, BooksCorrect, TravelCorrect, PTL DEF DeliverySpec

-----------------------------------------------------------------------------
(* What becomes of an outbox.                                              *)

\* The answer to s's message id is on its way back over k.
Answering(k, id) ==
  \E w \in Range(toClient[k]) : w.type \in {"delivered", "delivery_failed"} /\ w.id = id
InFlight(s, id) ==
  \/ [type |-> "send", id |-> id] \in Range(toBroker[link[s]])
  \/ \E p \in pending : p.from = s /\ p.msg.id = id /\ p.senderSocket = link[s]
  \/ Answering(link[s], id)
Online == {"registered", "ready"}

\* No two processes hold the same connection, and a client that has said goodbye
\* is gone.
LinksApart == \A s, t \in SessionIds : link[s] # None /\ link[s] = link[t] => s = t
GoodbyeIsLast ==
  \A k \in Sockets : \A f \in Range(toBroker[k]) : f.type = "unregister" => ~Linked(k)
FlightInv == LinksApart /\ GoodbyeIsLast /\ OutboxIsInFlight

LEMMA FlightByRange ==
  OutboxIsInFlight <=>
    \A s \in SessionIds : \A id \in outbox[s] :
      phase[s] \in Online /\ conn[link[s]] = "open" => InFlight(s, id)
BY DEF OutboxIsInFlight, InFlight, Answering, Online, Range

LEMMA FlightByRangeNext ==
  OutboxIsInFlight' <=>
    \A s \in SessionIds : \A id \in outbox'[s] :
      phase'[s] \in Online /\ conn'[link'[s]] = "open" => InFlight(s, id)'
BY DEF OutboxIsInFlight, InFlight, Answering, Online, Range

LEMMA OnlineLinked ==
  ASSUME DeliveryTypeOK, NEW s \in SessionIds, phase[s] \in Online
  PROVE  link[s] \in Sockets /\ Linked(link[s])
BY DEF DeliveryTypeOK, Online, Offline, Linked

\* What the broker does to a connection that stays open: it reads at most the
\* first request, forgets nothing it has written, and writes what it settles.
Preserves(k) ==
  /\ conn[k] = "open"
  /\ Range(toClient[k]) \subseteq Range(toClient'[k])
  /\ pending \subseteq pending' \/ (up' /\ OfBatch(k) \subseteq Range(toClient'[k]))
  /\ \A f \in Range(toBroker[k]) :
       f \in Range(toBroker'[k]) \/ (f = Head(toBroker[k]) /\ \E type : Asks(k, type))

LEMMA HandledPreserves ==
  ASSUME TypeOK', WiresOK, NEW j \in Sockets, NEW type, Asks(j, type), Handled(j),
         Written \/ UNCHANGED <<pending, toClient>>, up' = up, conn' = conn,
         NEW k \in Sockets, conn[k] = "open"
  PROVE  Preserves(k)
<1>1. up'
  BY DEF Asks, Reads
<1>2. /\ Range(toClient[k]) \subseteq Range(toClient'[k])
      /\ pending \subseteq pending' \/ OfBatch(k) \subseteq Range(toClient'[k])
  BY WrittenWires
<1>3. \A f \in Range(toBroker[k]) :
        f \in Range(toBroker'[k]) \/ (f = Head(toBroker[k]) /\ Asks(k, type))
  BY HandledWires
<1> QED
  BY <1>1, <1>2, <1>3 DEF Preserves

LEMMA BrokerPreserves ==
  ASSUME TypeOK, TypeOK', WiresOK, BrokerSteps, NEW k \in Sockets, Linked(k), conn'[k] = "open"
  PROVE  Preserves(k)
<1>0. conn \in [Sockets -> ConnState]
  BY DEF TypeOK
<1>1. ASSUME NEW j \in Sockets, BrokerRegisters(j)
      PROVE  Preserves(k)
  <2>1. Asks(j, "register") /\ Handled(j) /\ Register(j, Subject(j), Identity)
    BY <1>1 DEF BrokerRegisters
  <2>2. conn[k] = "open"
    BY <1>0, <2>1 DEF Register
  <2>3. up'
    BY <2>1 DEF Register, Reads
  <2>4. \A f \in Range(toBroker[k]) :
          f \in Range(toBroker'[k]) \/ (f = Head(toBroker[k]) /\ Asks(k, "register"))
    BY <2>1, HandledWires
  <2> QED
    BY <1>1, <2>2, <2>3, <2>4, RegisteredWires DEF Preserves
<1>2. ASSUME NEW j \in Sockets, BrokerSends(j)
      PROVE  Preserves(k)
  BY <1>2, HandledPreserves DEF BrokerSends, SendMessage
<1>3. ASSUME NEW j \in Sockets, BrokerControls(j)
      PROVE  Preserves(k)
  <2>1. Handled(j) /\ Written /\ (\E type : Asks(j, type))
    BY <1>3 DEF BrokerControls
  <2>2. up' = up /\ conn' = conn
    BY <1>3 DEF BrokerControls, MessageReceived, DeferAsk, CancelAsk, Unregister
  <2> QED
    BY <2>1, <2>2, HandledPreserves
<1>4. ASSUME NEW j \in Sockets, BrokerIgnores(j)
      PROVE  Preserves(k)
  <2>1. Handled(j) /\ (\E type : Asks(j, type))
    BY <1>4 DEF BrokerIgnores
  <2>2. UNCHANGED <<pending, toClient, up, conn>>
    BY <1>4 DEF BrokerIgnores, vars, table
  <2> QED
    BY <2>1, <2>2, HandledPreserves
<1>5. ASSUME NEW j \in Sockets, BrokerCloses(j)
      PROVE  Preserves(k)
  <2>1. k # j /\ conn[k] = "open" /\ up'
    BY <1>0, <1>5 DEF BrokerCloses, SocketClose
  <2>2. toBroker'[k] = toBroker[k]
    BY <1>5, <2>1 DEF BrokerCloses, WiresOK
  <2> QED
    BY <1>5, <2>1, <2>2, WrittenWires DEF BrokerCloses, Preserves
<1>6. ASSUME NEW j \in Sockets, BrokerCondemns(j)
      PROVE  Preserves(k)
  BY <1>0, <1>6 DEF BrokerCondemns, Condemn, RegistrationTimeout, Untouched, table, wires, Preserves
<1>7. CASE BrokerTimers
  <2>1. up' /\ conn' = conn /\ Written /\ UNCHANGED toBroker
    <3>1. CASE \E p \in pending : DeliveryTimeout(p)
      BY <1>7, <3>1 DEF BrokerTimers, DeliveryTimeout
    <3>2. CASE \E e \in asks : AskExpires(e)
      BY <1>7, <3>2 DEF BrokerTimers, AskExpires
    <3> QED
      BY <1>7, <3>1, <3>2 DEF BrokerTimers
  <2> QED
    BY <2>1, WrittenWires DEF Preserves
<1>8. CASE TimePasses \/ BrokerStarts
  BY <1>8 DEF TimePasses, AskLapses, RecentLapses, BrokerStarts, Start, wires, Preserves
<1>9. CASE BrokerStops
  BY <1>9 DEF BrokerStops, ShutdownCheck, Crash, Stop, Untouched, table, Preserves
<1> QED
  BY <1>1, <1>2, <1>3, <1>4, <1>5, <1>6, <1>7, <1>8, <1>9 DEF BrokerSteps, BrokerReads

\* A request to send is answered, or its message now waits to be acknowledged.
LEMMA SendKeepsInFlight ==
  ASSUME BrokerInv, BrokerInv', WiresOK, NEW s \in SessionIds, NEW k \in Sockets,
         link[s] = k, UNCHANGED link, BrokerSends(k), conn[k] = "open",
         NEW id \in Sendable, id = Subject(k), SendOf(id).from = s
  PROVE  InFlight(s, id)'
<1> DEFINE x == SendOf(id)
           m == x.msg
<1>1. SendMessage(k, x) /\ Written
  BY DEF BrokerSends
<1>2. m.id = id /\ x.from = s
  BY SendOfSendable
<1>3. bound[k] = s
  BY <1>1, <1>2 DEF SendMessage
<1>4. OfBatch(k) \subseteq Range(toClient'[k])
  BY <1>1, WrittenWires DEF BrokerInv
<1>5. ASSUME NEW w \in writes', w.socket = k, w.type \in {"delivered", "delivery_failed"}, w.id = id
      PROVE  Answering(k, id)'
  <2>1. w \in OfBatch(k)
    BY <1>5 DEF OfBatch, ForClient
  <2> QED
    BY <1>4, <1>5, <2>1 DEF Answering
<1>6. ASSUME NEW code, ToSocket(k, "delivery_failed", s, m, code) \subseteq writes'
      PROVE  Answering(k, id)'
  <2> DEFINE w == [socket |-> k, type |-> "delivery_failed", from |-> s, id |-> m.id, detail |-> code]
  <2>1. w \in writes'
    BY <1>6 DEF ToSocket
  <2>2. w.socket = k /\ w.type = "delivery_failed" /\ w.id = id
    BY <1>2
  <2> HIDE DEF w
  <2> QED
    BY <1>5, <2>1, <2>2
<1>7. CASE SendDuplicate(k, s, m) \/ SendRefused(k, s, m)
  <2>1. \E code : ToSocket(k, "delivery_failed", s, m, code) \subseteq writes'
    BY <1>7 DEF SendDuplicate, SendRefused
  <2> QED
    BY <1>6, <2>1 DEF InFlight
<1>8. CASE SendReplayed(k, s, m)
  <2>1. PICK d : ToSocket(k, "delivered", s, m, d) \subseteq writes'
    BY <1>8 DEF SendReplayed
  <2> DEFINE w == [socket |-> k, type |-> "delivered", from |-> s, id |-> m.id, detail |-> d]
  <2>2. w \in writes'
    BY <2>1 DEF ToSocket
  <2>3. w.socket = k /\ w.type = "delivered" /\ w.id = id
    BY <1>2
  <2> HIDE DEF w
  <2>4. Answering(k, id)'
    BY <1>5, <2>2, <2>3
  <2> QED
    BY <2>4 DEF InFlight
<1>9. CASE SendPending(k, s, m)
  <2>1. PICK p \in PendingOf(s, m) : TRUE
    BY <1>9 DEF SendPending
  <2>2. p \in pending /\ p.from = s /\ p.msg.id = m.id
    BY DEF PendingOf, KeysOf, BrokerInv, PendingIndexed
  <2>3. p.senderSocket = k
    <3>1. sessions[s].socket = p.senderSocket
      BY <2>2 DEF BrokerInv, PendingIsConnected
    <3>2. Holds(k)
      BY <1>3, MessagesAssumption, IdentityAssumption
      DEF BrokerInv, ConnectionsInv, SessionsMatchConnections
    <3> QED
      BY <1>3, <3>1, <3>2 DEF Holds
  <2>4. pending' = pending
    BY <1>9 DEF SendPending
  <2> QED
    BY <1>2, <2>2, <2>3, <2>4 DEF InFlight
<1>10. ASSUME NEW d, SendAccepted(k, s, m, d)
       PROVE  InFlight(s, id)'
  <2>1. PICK new : pending' = (pending \ OutOfDate(s, m)) \cup {new} /\ new.msg = m
                   /\ new.from = s /\ new.senderSocket = k
    BY <1>10, AcceptedAdds
  <2> QED
    BY <1>2, <2>1 DEF InFlight
<1> QED
  BY <1>1, <1>2, <1>7, <1>8, <1>9, <1>10 DEF SendMessage

\* Only a handler takes a request to send from a connection that stays open.
LEMMA OnlySendsAnswerSends ==
  ASSUME TypeOK, WiresOK, BrokerSteps, NEW k \in Sockets, Linked(k), conn'[k] = "open",
         Asks(k, "send"), toBroker'[k] # toBroker[k]
  PROVE  BrokerSends(k)
<1>1. ASSUME NEW j \in Sockets, Handled(j), j # k
      PROVE  FALSE
  BY <1>1 DEF Handled, WiresOK
<1>2. ASSUME NEW j \in Sockets, BrokerReads(j)
      PROVE  BrokerSends(k)
  <2>1. Handled(j)
    BY <1>2 DEF BrokerReads, BrokerRegisters, BrokerSends, BrokerControls, BrokerIgnores
  <2>2. j = k
    BY <1>1, <2>1
  <2> QED
    BY <1>2, <2>2 DEF BrokerReads, BrokerRegisters, BrokerControls, BrokerIgnores, Asks
<1>3. ASSUME NEW j \in Sockets, BrokerCloses(j)
      PROVE  FALSE
  <2>1. j # k
    BY <1>3 DEF BrokerCloses, SocketClose, TypeOK
  <2> QED
    BY <1>3, <2>1 DEF BrokerCloses, WiresOK
<1>4. ASSUME NEW j \in Sockets, BrokerCondemns(j)
      PROVE  FALSE
  BY <1>4 DEF BrokerCondemns, wires
<1>5. CASE BrokerTimers \/ TimePasses \/ BrokerStarts
  BY <1>5 DEF BrokerTimers, TimePasses, BrokerStarts, wires
<1>6. CASE BrokerStops
  <2>1. CASE up'
    BY <1>6, <2>1 DEF BrokerStops
  <2>2. CASE ~up'
    BY <1>6, <2>2 DEF BrokerStops, ShutdownCheck, Crash, Stop, Asks, Reads
  <2> QED
    BY <2>1, <2>2
<1> QED
  BY <1>2, <1>3, <1>4, <1>5, <1>6 DEF BrokerSteps

\* A client that stays keeps its registration.
LEMMA BoundStays ==
  ASSUME TypeOK, WiresOK, GoodbyeIsLast, BrokerSteps, NEW k \in Sockets, Linked(k),
         bound[k] \in SessionIds, conn'[k] = "open"
  PROVE  bound'[k] = bound[k]
<1>0. bound \in [Sockets -> SessionIds \cup {None}] /\ conn \in [Sockets -> ConnState]
      /\ None \notin SessionIds
  BY IdentityAssumption DEF TypeOK
<1>1. ASSUME NEW j \in Sockets, BrokerRegisters(j)
      PROVE  bound'[k] = bound[k]
  BY <1>0, <1>1 DEF BrokerRegisters, Register
<1>2. ASSUME NEW j \in Sockets, BrokerSends(j) \/ BrokerIgnores(j) \/ BrokerCondemns(j)
      PROVE  bound'[k] = bound[k]
  BY <1>2 DEF BrokerSends, SendMessage, BrokerIgnores, BrokerCondemns, Condemn,
              RegistrationTimeout, vars
<1>3. ASSUME NEW j \in Sockets, BrokerControls(j)
      PROVE  bound'[k] = bound[k]
  <2>1. CASE Asks(j, "unregister") /\ Unregister(j, FALSE)
    <3>1. Head(toBroker[j]) \in Range(toBroker[j]) /\ Head(toBroker[j]).type = "unregister"
      BY <2>1, AskedFrame
    <3>2. j # k
      BY <3>1 DEF GoodbyeIsLast
    <3> QED
      BY <1>0, <2>1, <3>2 DEF Unregister
  <2>2. CASE ~(Asks(j, "unregister") /\ Unregister(j, FALSE))
    BY <1>3, <2>2 DEF BrokerControls, MessageReceived, DeferAsk, CancelAsk
  <2> QED
    BY <2>1, <2>2
<1>4. ASSUME NEW j \in Sockets, BrokerCloses(j)
      PROVE  bound'[k] = bound[k]
  BY <1>0, <1>4 DEF BrokerCloses, SocketClose
<1>5. CASE BrokerTimers \/ TimePasses \/ BrokerStarts
  BY <1>5 DEF BrokerTimers, DeliveryTimeout, AskExpires, TimePasses, AskLapses, RecentLapses,
              BrokerStarts, Start
<1>6. CASE BrokerStops
  BY <1>6 DEF BrokerStops, ShutdownCheck, Crash, Stop
<1> QED
  BY <1>1, <1>2, <1>3, <1>4, <1>5, <1>6 DEF BrokerSteps, BrokerReads

LEMMA BrokerFlight ==
  ASSUME BrokerInv, BrokerInv', DeliveryTypeOK, BooksInv, FlightInv, BrokerSteps
  PROVE  FlightInv'
<1>0. TypeOK /\ TypeOK' /\ WiresOK
  BY TypeParts DEF BrokerInv
<1>1. UNCHANGED <<clients, history>> /\ Hearkens
  BY <1>0, BrokerWires
<1>2. UNCHANGED <<phase, link, outbox>> /\ \A k \in Sockets : Linked(k)' <=> Linked(k)
  BY <1>1 DEF clients, Linked
<1>3. LinksApart' /\ GoodbyeIsLast'
  BY <1>1, <1>2 DEF FlightInv, LinksApart, GoodbyeIsLast, Hearkens
<1>4. ASSUME NEW s \in SessionIds, NEW id \in outbox[s], NEW k, k = link[s],
             phase[s] \in Online, conn'[k] = "open"
      PROVE  InFlight(s, id)'
  <2>1. k \in Sockets /\ Linked(k)
    BY <1>4, OnlineLinked
  <2>2. Preserves(k)
    BY <1>0, <1>4, <2>1, BrokerPreserves
  <2>3. InFlight(s, id)
    BY <1>4, <2>2, FlightByRange DEF FlightInv, Preserves
  <2>4. id \in Sendable /\ SendOf(id).from = s
    BY DEF DeliveryTypeOK, BooksInv, OwnOutbox
  <2>5. CASE [type |-> "send", id |-> id] \in Range(toBroker[k])
    <3> DEFINE f == [type |-> "send", id |-> id]
    <3>1. f.type = "send" /\ f.id = id
      OBVIOUS
    <3>2. CASE f \in Range(toBroker'[k])
      BY <1>2, <1>4, <3>2 DEF InFlight
    <3>3. CASE f \notin Range(toBroker'[k])
      <4>1. f = Head(toBroker[k]) /\ \E type : Asks(k, type)
        BY <2>2, <2>5, <3>3 DEF Preserves
      <4>2. Asks(k, "send") /\ Subject(k) = id
        BY <3>1, <4>1 DEF Asks, Subject
      <4>3. BrokerSends(k)
        BY <1>0, <1>4, <2>1, <2>2, <2>5, <3>3, <4>2, OnlySendsAnswerSends
      <4> QED
        BY <1>0, <1>2, <1>4, <2>1, <2>2, <2>4, <4>2, <4>3, SendKeepsInFlight DEF Preserves
    <3> QED
      BY <3>2, <3>3
  <2>6. ASSUME NEW p \in pending, p.from = s, p.msg.id = id, p.senderSocket = k
        PROVE  InFlight(s, id)'
    <3>1. CASE p \in pending'
      BY <1>2, <1>4, <2>6, <3>1 DEF InFlight
    <3>2. CASE p \notin pending'
      <4>1. up' /\ OfBatch(k) \subseteq Range(toClient'[k])
        BY <2>2, <3>2 DEF Preserves
      <4>2. Live(s) /\ sessions[s].socket = k
        BY <2>6 DEF BrokerInv, PendingIsConnected
      <4>3. bound[k] = s
        BY <4>2 DEF BrokerInv, ConnectionsInv, SessionsMatchConnections, LiveIds
      <4>4. Next
        <5>1. [Next]_vars
          BY <1>0, BrokerBelow DEF DeliveryNext
        <5> QED
          BY <3>2, <5>1 DEF vars, table
      <4>5. bound'[k] = s
        BY <1>0, <1>4, <2>1, <4>3, BoundStays DEF FlightInv
      <4>6. Stays(s)
        BY <1>4, <2>1, <4>2, <4>5, IdentityAssumption
        DEF Stays, BrokerInv, ConnectionsInv, SessionsMatchConnections, Holds, Live
      <4>7. \/ Heard(s, {"delivered"}, id)
            \/ Heard(s, {"delivery_failed"}, id)
        BY <2>6, <3>2, <4>1, <4>4, <4>6, AnswerHolds DEF BrokerInv
      <4>8. PICK w \in writes' :
              w.socket = k /\ w.type \in {"delivered", "delivery_failed"} /\ w.id = id
        BY <4>2, <4>7 DEF Heard
      <4>9. w \in Range(toClient'[k])
        BY <4>1, <4>8 DEF OfBatch, ForClient
      <4> QED
        BY <1>2, <1>4, <4>8, <4>9 DEF InFlight, Answering
    <3> QED
      BY <3>1, <3>2
  <2>7. CASE Answering(k, id)
    BY <1>2, <1>4, <2>2, <2>7 DEF InFlight, Answering, Preserves
  <2> QED
    BY <1>4, <2>3, <2>5, <2>6, <2>7 DEF InFlight
<1>5. \A s \in SessionIds : \A id \in outbox'[s] :
        phase'[s] \in Online /\ conn'[link'[s]] = "open" => InFlight(s, id)'
  BY <1>2, <1>4
<1>6. OutboxIsInFlight'
  BY <1>5, FlightByRangeNext
<1> QED
  BY <1>3, <1>6 DEF FlightInv

\* A client is at the end of at most one connection, moves no other and shares
\* none.
LEMMA ClientMoves ==
  ASSUME TypeOK, DeliveryTypeOK, NEW s \in SessionIds, ClientSteps(s)
  PROVE  /\ UNCHANGED pending
         /\ \A t \in SessionIds \ {s} :
              phase'[t] = phase[t] /\ link'[t] = link[t] /\ outbox'[t] = outbox[t]
         /\ \/ link'[s] \in {link[s], None} /\ UNCHANGED conn
            \/ \E k \in Sockets :
                 /\ link[s] = None /\ link'[s] = k /\ ~Linked(k)
                 /\ \A j \in Sockets \ {k} : conn'[j] = conn[j]
                 /\ Range(toBroker'[k]) = {[type |-> "register", id |-> s]}
<1>1. CASE ClientReads(s)
  BY <1>1 DEF ClientReads, ClientRegistered, ClientMessage, ClientDelivered, ClientFailed,
              Outcome, DeliveryTypeOK, vars, table
<1>2. CASE ClientReady(s) \/ ClientDisconnected(s) \/ ClientKilled(s) \/ ClientDisposed(s)
           \/ ClientStarts(s) \/ ConnectFails(s) \/ ToolConnects(s)
  BY <1>2 DEF ClientReady, ClientDisconnected, ClientKilled, ClientDisposed, ClientStarts,
              ConnectFails, ToolConnects, DeliveryTypeOK, vars, table
<1>3. CASE \E x \in Sends : ClientSends(s, x)
  BY <1>3 DEF ClientSends, DeliveryTypeOK, vars, table
<1>4. CASE \E id \in MessageIds : SendTimeout(s, id) \/ AskTimeout(s, id) \/ Injected(s, id)
  BY <1>4 DEF SendTimeout, AskTimeout, Injected, DeliveryTypeOK, vars, table
<1>5. ASSUME NEW k \in Sockets, ClientConnects(s, k)
      PROVE  /\ UNCHANGED pending
             /\ \A t \in SessionIds \ {s} :
                  phase'[t] = phase[t] /\ link'[t] = link[t] /\ outbox'[t] = outbox[t]
             /\ link[s] = None /\ link'[s] = k /\ ~Linked(k)
             /\ \A j \in Sockets \ {k} : conn'[j] = conn[j]
             /\ Range(toBroker'[k]) = {[type |-> "register", id |-> s]}
  <2>1. toBroker'[k] = Frame("register", s)
    BY <1>5 DEF ClientConnects, DeliveryTypeOK
  <2>2. Range(toBroker'[k]) = {[type |-> "register", id |-> s]}
    BY <2>1, QueueFrame
  <2> QED
    BY <1>5, <2>2 DEF ClientConnects, Connect, Untouched, table, DeliveryTypeOK, TypeOK, Offline
<1> QED
  BY <1>1, <1>2, <1>3, <1>4, <1>5 DEF ClientSteps

LEMMA ClientLinks ==
  ASSUME TypeOK, DeliveryTypeOK, LinksApart, GoodbyeIsLast, NEW s \in SessionIds, ClientSteps(s)
  PROVE  LinksApart' /\ GoodbyeIsLast'
<1>1. Speaks(s)
  BY TypeParts, ClientWires
<1>2. /\ \A t \in SessionIds \ {s} : link'[t] = link[t]
      /\ \/ link'[s] \in {link[s], None}
         \/ /\ link[s] = None /\ link'[s] \in Sockets /\ ~Linked(link'[s])
            /\ Range(toBroker'[link'[s]]) = {[type |-> "register", id |-> s]}
  BY ClientMoves
<1>3. LinksApart'
  BY <1>2 DEF LinksApart, Linked
<1>4. ASSUME NEW k \in Sockets, NEW f \in Range(toBroker'[k]), f.type = "unregister",
             NEW t \in SessionIds, link'[t] = k
      PROVE  FALSE
  <2>0. f # [type |-> "register", id |-> s]
    BY <1>4
  <2>1. link[t] = k
    BY <1>2, <1>4, <2>0, SocketsAssumption
  <2>2. f \notin Range(toBroker[k])
    BY <1>4, <2>1 DEF GoodbyeIsLast, Linked
  <2>3. NewRequest(s, f) /\ k \in {link[s], link'[s]}
    BY <1>1, <1>4, <2>2 DEF Speaks
  <2>4. link'[s] = None
    BY <1>4, <2>0, <2>3 DEF NewRequest
  <2>5. link[s] = k /\ s # t
    BY <1>4, <2>3, <2>4, SocketsAssumption
  <2> QED
    BY <2>1, <2>5, SocketsAssumption DEF LinksApart
<1> QED
  BY <1>3, <1>4 DEF GoodbyeIsLast, Linked

\* What a client that is online did to get there, or to stay there.
LEMMA OnlineSteps ==
  ASSUME DeliveryTypeOK, NEW s \in SessionIds, ClientSteps(s), phase'[s] \in Online
  PROVE  \/ ClientRegistered(s)
         \/ /\ phase[s] \in Online /\ UNCHANGED <<conn, link>>
            /\ \/ UNCHANGED <<outbox, toClient>>
               \/ UNCHANGED toClient /\ \E x \in Sends : ClientSends(s, x)
               \/ ClientMessage(s) \/ ClientDelivered(s) \/ ClientFailed(s)
<1> USE DEF Online
<1>1. CASE ClientReads(s)
  BY <1>1 DEF ClientReads, ClientMessage, ClientDelivered, ClientFailed, vars
<1>2. CASE ClientReady(s)
  BY <1>2 DEF ClientReady, vars, wires
<1>3. CASE ClientDisconnected(s) \/ ClientKilled(s) \/ ClientDisposed(s)
           \/ ClientStarts(s) \/ ConnectFails(s) \/ ToolConnects(s)
  BY <1>3 DEF ClientDisconnected, ClientKilled, ClientDisposed, ClientStarts, ConnectFails,
              ToolConnects, AfterLoss, DeliveryTypeOK
<1>4. CASE \E x \in Sends : ClientSends(s, x)
  BY <1>4 DEF ClientSends, vars
<1>5. CASE \E id \in MessageIds : SendTimeout(s, id) \/ AskTimeout(s, id) \/ Injected(s, id)
  BY <1>5 DEF SendTimeout, AskTimeout, Injected, vars, wires
<1>6. CASE \E k \in Sockets : ClientConnects(s, k)
  BY <1>6 DEF ClientConnects, DeliveryTypeOK
<1> QED
  BY <1>1, <1>2, <1>3, <1>4, <1>5, <1>6 DEF ClientSteps

LEMMA RegisteredFlight ==
  ASSUME DeliveryTypeOK, NEW s \in SessionIds, ClientRegistered(s), NEW id \in outbox[s],
         conn[link[s]] = "open"
  PROVE  InFlight(s, id)'
<1> DEFINE q == SetToSeq(outbox[s])
           replay == [i \in DOMAIN q |-> [type |-> "send", id |-> q[i]]]
<1>1. Say(s, replay) /\ Hears(s, "registered") /\ UNCHANGED link
  BY DEF ClientRegistered
<1>2. link[s] \in Sockets /\ WiresOK
  BY <1>1, HeardFrame, TypeParts
<1>3. replay \in Seq(Request) /\ Range(replay) = {[type |-> "send", id |-> x] : x \in outbox[s]}
  BY ReplayQueue DEF DeliveryTypeOK
<1> HIDE DEF replay
<1>4. Range(toBroker'[link[s]]) = Range(toBroker[link[s]]) \cup Range(replay)
  BY <1>1, <1>2, <1>3, SayWires
<1> QED
  BY <1>1, <1>3, <1>4 DEF InFlight

LEMMA SentFlight ==
  ASSUME DeliveryTypeOK, NEW s \in SessionIds, NEW x \in Sends, ClientSends(s, x),
         conn[link[s]] = "open"
  PROVE  InFlight(s, x.msg.id)'
<1> DEFINE frames == Frame("send", x.msg.id)
<1>1. Say(s, frames) /\ phase[s] = "ready" /\ UNCHANGED link
  BY DEF ClientSends
<1>2. link[s] \in Sockets /\ WiresOK
  BY <1>1, OnlineLinked, TypeParts DEF Online
<1>3. frames \in Seq(Request) /\ Range(frames) = {[type |-> "send", id |-> x.msg.id]}
  BY SendOfSend, RequestFrames, QueueFrame
<1> HIDE DEF frames
<1>4. Range(toBroker'[link[s]]) = Range(toBroker[link[s]]) \cup Range(frames)
  BY <1>1, <1>2, <1>3, SayWires
<1> QED
  BY <1>1, <1>3, <1>4 DEF InFlight

\* An answer is taken from the connection only with the message it is about.
LEMMA HeardFlight ==
  ASSUME DeliveryTypeOK, NEW s \in SessionIds, NEW id \in outbox'[s], Answering(link[s], id),
         UNCHANGED link, ClientMessage(s) \/ ClientDelivered(s) \/ ClientFailed(s)
  PROVE  Answering(link[s], id)'
<1> DEFINE h == Head(toClient[link[s]])
<1>1. PICK type : Hears(s, type) /\ Consume(s) /\ type \in {"message", "delivered", "delivery_failed"}
  BY DEF ClientMessage, ClientDelivered, ClientFailed
<1>2. /\ link[s] \in Sockets /\ h.type = type
      /\ Range(toClient[link[s]]) = {h} \cup Range(toClient'[link[s]])
  BY <1>1, HeardFrame, ConsumeWires, TypeParts
<1>3. type # "message" => h.id # id
  <2>1. type # "message" => outbox' = [outbox EXCEPT ![s] = outbox[s] \ {h.id}]
    BY <1>1, <1>2 DEF ClientMessage, ClientDelivered, ClientFailed, Outcome, Hears
  <2> QED
    BY <2>1 DEF DeliveryTypeOK
<1>4. PICK w \in Range(toClient[link[s]]) :
        w.type \in {"delivered", "delivery_failed"} /\ w.id = id
  BY DEF Answering
<1>5. w # h
  BY <1>2, <1>3, <1>4
<1> QED
  BY <1>2, <1>4, <1>5 DEF Answering

LEMMA ClientFlight ==
  ASSUME TypeOK, DeliveryTypeOK, FlightInv, NEW s \in SessionIds, ClientSteps(s)
  PROVE  FlightInv'
<1>1. LinksApart' /\ GoodbyeIsLast'
  BY ClientLinks DEF FlightInv
<1>2. Listens(s) /\ Speaks(s)
  BY TypeParts, ClientWires
<1>3. UNCHANGED pending
  BY ClientMoves
<1>4. ASSUME NEW t \in SessionIds \ {s}, NEW id \in outbox'[t],
             phase'[t] \in Online, conn'[link'[t]] = "open"
      PROVE  InFlight(t, id)'
  <2> DEFINE k == link[t]
  <2>1. phase[t] \in Online /\ link'[t] = k /\ id \in outbox[t]
    BY <1>4, ClientMoves
  <2>2. k \in Sockets /\ Linked(k)
    BY <2>1, OnlineLinked
  <2>3. k # link[s] /\ k # link'[s]
    BY <1>1, <2>1, <2>2, SocketsAssumption DEF FlightInv, LinksApart
  <2>4. toBroker'[k] = toBroker[k] /\ toClient'[k] = toClient[k]
    BY <1>2, <2>2, <2>3 DEF Listens, Speaks
  <2>5. conn'[k] = conn[k]
    BY <2>2, <2>3, ClientMoves
  <2>6. InFlight(t, id)
    BY <1>4, <2>1, <2>5, FlightByRange DEF FlightInv
  <2> QED
    BY <1>3, <2>1, <2>4, <2>6 DEF InFlight, Answering
<1>5. ASSUME NEW id \in outbox'[s], phase'[s] \in Online, conn'[link'[s]] = "open"
      PROVE  InFlight(s, id)'
  <2>1. CASE ClientRegistered(s)
    BY <1>5, <2>1, RegisteredFlight DEF ClientRegistered, vars
  <2>2. CASE ~ClientRegistered(s)
    <3>1. /\ phase[s] \in Online /\ UNCHANGED <<conn, link>>
          /\ \/ UNCHANGED <<outbox, toClient>>
             \/ UNCHANGED toClient /\ \E x \in Sends : ClientSends(s, x)
             \/ ClientMessage(s) \/ ClientDelivered(s) \/ ClientFailed(s)
      BY <1>5, <2>2, OnlineSteps
    <3>2. link[s] \in Sockets /\ conn[link[s]] = "open"
      BY <1>5, <3>1, OnlineLinked
    <3>3. CASE id \in outbox[s]
      <4>1. InFlight(s, id)
        BY <3>1, <3>2, <3>3, FlightByRange DEF FlightInv
      <4>2. Range(toBroker[link[s]]) \subseteq Range(toBroker'[link[s]])
        BY <1>2, <3>2, SocketsAssumption DEF Speaks
      <4>3. Answering(link[s], id) => Answering(link[s], id)'
        BY <1>5, <3>1, HeardFlight DEF Answering
      <4> QED
        BY <1>3, <3>1, <4>1, <4>2, <4>3 DEF InFlight
    <3>4. CASE id \notin outbox[s]
      <4>0. ASSUME ClientMessage(s) \/ ClientDelivered(s) \/ ClientFailed(s)
            PROVE  outbox'[s] \subseteq outbox[s]
        <5>1. UNCHANGED outbox \/ \E settled : outbox' = [outbox EXCEPT ![s] = outbox[s] \ {settled}]
          BY <4>0 DEF ClientMessage, ClientDelivered, ClientFailed, Outcome
        <5> QED
          BY <5>1 DEF DeliveryTypeOK
      <4>1. PICK x \in Sends : ClientSends(s, x)
        BY <1>5, <3>1, <3>4, <4>0
      <4>2. id = x.msg.id
        BY <1>5, <3>4, <4>1 DEF ClientSends, DeliveryTypeOK
      <4> QED
        BY <3>2, <4>1, <4>2, SentFlight
    <3> QED
      BY <3>3, <3>4
  <2> QED
    BY <2>1, <2>2
<1>6. OutboxIsInFlight'
  BY <1>4, <1>5, FlightByRangeNext
<1> QED
  BY <1>1, <1>6 DEF FlightInv

\* Whatever the broker does to a connection and its session - a takeover, a
\* revocation, a refusal, a timer, the replay of an earlier answer - no message in
\* the outbox of a connected sender is forgotten: something is under way that will
\* settle it.
THEOREM OutboxesAreInFlight == DeliverySpec => []OutboxIsInFlight
<1>1. DeliveryInit => FlightInv
  BY QueueEmpty DEF DeliveryInit, FlightInv, LinksApart, GoodbyeIsLast, OutboxIsInFlight
<1>2. ASSUME DeliveryTypeOK, BooksInv, BrokerInv, BrokerInv', FlightInv, [DeliveryNext]_allVars
      PROVE  FlightInv'
  <2>1. CASE \E s \in SessionIds : ClientSteps(s)
    BY <1>2, <2>1, ClientFlight DEF BrokerInv
  <2>2. CASE BrokerSteps
    BY <1>2, <2>2, BrokerFlight
  <2>3. CASE UNCHANGED allVars
    BY <1>2, <2>3 DEF allVars, vars, table, clients, wires, FlightInv, LinksApart, GoodbyeIsLast,
                      OutboxIsInFlight, Linked
  <2> QED
    BY <1>2, <2>1, <2>2, <2>3 DEF DeliveryNext
<1>3. FlightInv => OutboxIsInFlight
  BY DEF FlightInv
<1> QED
  BY <1>1, <1>2, <1>3, DeliveryTypeCorrect, BooksCorrect, BrokerCorrect, PTL DEF DeliverySpec
=============================================================================
