------------------------ MODULE IntercomBrokerProofs ------------------------
(***************************************************************************)
(* The broker's invariants, proved for any number of sessions, sockets and *)
(* messages, any limits and any tree of remote principals.                 *)
(***************************************************************************)
EXTENDS IntercomBroker, FiniteSetTheorems, TLAPS

SessionMap == [SessionIds -> Session \cup {None}]
TablesOK ==
  /\ pending \subseteq Delivery /\ pendingKeys \subseteq DeliveryKey
  /\ recent \subseteq Settled
  /\ asks \subseteq AskEdge /\ askFile \subseteq AskEdge
  /\ writes \subseteq Write

-----------------------------------------------------------------------------
(* What the helpers return.                                                *)

LEMMA ToldType ==
  ASSUME NEW known \in SessionMap, NEW s \in SessionIds,
         NEW from \in SessionIds, NEW id \in MessageIds
  PROVE  /\ Told(known, s, "ask_deferred", from, id, None) \subseteq Write
         /\ \A reason \in Reason :
              Told(known, s, "ask_cancelled", from, id, reason) \subseteq Write
BY NoneAssumption DEF Told, SessionMap, Session, Write

LEMMA CancelNoticesType ==
  ASSUME NEW known \in SessionMap, NEW E \in SUBSET AskEdge, NEW reason \in Reason
  PROVE  CancelNotices(E, known, reason) \subseteq Write
BY ToldType DEF CancelNotices, AskEdge

LEMMA ClearNoticesType ==
  ASSUME NEW known \in SessionMap, NEW E \in SUBSET AskEdge, NEW reason \in Reason,
         NEW gone
  PROVE  ClearNotices(E, gone, known, reason) \subseteq Write
BY ToldType DEF ClearNotices, AskEdge

LEMMA DeferNoticesType ==
  ASSUME NEW known \in SessionMap, NEW E \in SUBSET AskEdge, NEW s \in SessionIds
  PROVE  DeferNotices(E, s, known) \subseteq Write
BY ToldType DEF DeferNotices, AskEdge

LEMMA DeferType ==
  ASSUME NEW E \in SUBSET AskEdge, NEW s \in SessionIds
  PROVE  Defer(E, s) \subseteq AskEdge
BY DEF Defer, AskEdge

LEMMA FailureWritesType ==
  ASSUME TypeOK, NEW known \in SessionMap, NEW D \in SUBSET pending, NEW code \in Code
  PROVE  FailureWrites(D, known, code) \subseteq Write
<1>1. ASSUME NEW p \in D
      PROVE  Answered(p, known, "delivery_failed", code) \subseteq Write
  BY <1>1 DEF TypeOK, Answered, Delivery, Message, Write
<1>2. asks \ AsksWithout(D) \in SUBSET AskEdge /\ "delivery_failed" \in Reason
  BY DEF TypeOK, Reason
<1>3. CancelNotices(asks \ AsksWithout(D), known, "delivery_failed") \subseteq Write
  BY <1>2, CancelNoticesType
<1> QED BY <1>1, <1>3 DEF FailureWrites

LEMMA DropType ==
  ASSUME TypeOK, NEW D \in SUBSET pending, NEW R \in SUBSET Settled, Drop(D, R)
  PROVE  /\ pending' \subseteq Delivery
         /\ pendingKeys' \subseteq DeliveryKey
         /\ recent' \subseteq Settled
<1>1. pending' \subseteq Delivery /\ pendingKeys' \subseteq DeliveryKey
  BY DEF TypeOK, Drop, KeysWithout
<1>2. \A p \in D : Settle(p, TRUE) \in Settled
  BY DEF TypeOK, Settle, Delivery, Settled
<1>3. recent' \subseteq Settled
  BY <1>2 DEF Drop, RecentWith
<1> QED BY <1>1, <1>3

LEMMA UntouchedType ==
  ASSUME TypeOK, Untouched
  PROVE  TablesOK'
BY DEF TypeOK, Untouched, TablesOK, table

LEMMA FailType ==
  ASSUME TypeOK, NEW D \in SUBSET pending, NEW code \in Code, Fail(D, code)
  PROVE  TablesOK'
<1>1. Drop(D, recent) /\ recent \in SUBSET Settled
  BY DEF Fail, TypeOK
<1>2. asks' \subseteq AskEdge /\ askFile' \subseteq AskEdge
  BY DEF Fail, TypeOK, AsksWithout, Persist
<1>3. writes' \subseteq Write
  BY FailureWritesType DEF Fail, TypeOK, SessionMap
<1> QED BY <1>1, <1>2, <1>3, DropType DEF TablesOK

LEMMA DetachType ==
  ASSUME TypeOK, NEW s \in SessionIds, NEW k, NEW known \in SessionMap,
         Detach(s, k, known)
  PROVE  TablesOK'
<1> DEFINE D == OverSocket(s, k)
<1>1. D \in SUBSET pending
  BY DEF OverSocket
<1>2. Drop(D, recent) /\ recent \in SUBSET Settled
  BY DEF Detach, TypeOK
<1>3. AsksWithout(D) \in SUBSET AskEdge
  BY DEF TypeOK, AsksWithout
<1>4. asks' \subseteq AskEdge /\ askFile' \subseteq AskEdge
  BY <1>3, DeferType DEF Detach, Persist
<1>5. "DISCONNECTED" \in Code
  BY DEF Code
<1>6. FailureWrites(D, known, "DISCONNECTED") \subseteq Write
  BY <1>1, <1>5, FailureWritesType
<1>7. writes' \subseteq Write
  BY <1>3, <1>6, DeferNoticesType DEF Detach
<1> QED BY <1>1, <1>2, <1>4, <1>7, DropType DEF TablesOK

LEMMA DisconnectType ==
  ASSUME TypeOK, NEW changed \in SUBSET Remote, Disconnect(changed)
  PROVE  /\ TablesOK'
         /\ sessions' \in SessionMap
         /\ conn' \in [Sockets -> ConnState]
         /\ shutdownTimer' \in BOOLEAN
<1> DEFINE gone == {s \in changed : Live(s)}
           D == UNION {OverSocket(s, sessions[s].socket) : s \in gone}
<1>1. D \in SUBSET pending
  BY DEF OverSocket
<1>2. sessions \in SessionMap
  BY DEF TypeOK, SessionMap
<1>3. AsksWithout(D) \in SUBSET AskEdge /\ Clear(AsksWithout(D), gone) \in SUBSET AskEdge
  BY DEF TypeOK, AsksWithout, Clear
<1>4. asks' \subseteq AskEdge /\ askFile' \subseteq AskEdge
  BY <1>3 DEF Disconnect, Persist
<1>5. "DISCONNECTED" \in Code /\ "authorization_revoked" \in Reason
  BY DEF Code, Reason
<1>6. FailureWrites(D, sessions, "DISCONNECTED") \subseteq Write
  BY <1>1, <1>2, <1>5, FailureWritesType
<1>7. ClearNotices(AsksWithout(D), gone, sessions, "authorization_revoked") \subseteq Write
  BY <1>2, <1>3, <1>5, ClearNoticesType
<1>8. writes' \subseteq Write
  BY <1>6, <1>7 DEF Disconnect
<1>9. pending' \subseteq Delivery /\ pendingKeys' \subseteq DeliveryKey
  BY <1>1 DEF Disconnect, TypeOK, KeysWithout
<1>10. \A p \in D : Settle(p, TRUE) \in Settled
  BY <1>1 DEF TypeOK, Settle, Delivery, Settled
<1>11. recent' \subseteq Settled
  BY <1>10 DEF Disconnect, RecentWith, TypeOK
<1>12. sessions' \in SessionMap
  BY <1>2 DEF Disconnect, SessionMap
<1>13. conn' \in [Sockets -> ConnState] /\ shutdownTimer' \in BOOLEAN
  BY DEF Disconnect, TypeOK, ConnState, ArmShutdown
<1> QED BY <1>4, <1>8, <1>9, <1>11, <1>12, <1>13 DEF TablesOK

LEMMA SendType ==
  ASSUME TypeOK, NEW k \in Sockets, Send(k)
  PROVE  TypeOK'
<1>1. PICK x \in Sends :
        /\ Handles(k) /\ x.from = bound[k]
        /\ \/ SendDuplicate(k, x.from, x.msg)
           \/ SendReplayed(k, x.from, x.msg)
           \/ SendPending(k, x.from, x.msg)
           \/ SendRefused(k, x.from, x.msg)
           \/ \E d \in Deliveries : SendAccepted(k, x.from, x.msg, d)
        /\ UNCHANGED <<up, conn, bound, sessions, shutdownTimer, principals>>
  BY DEF Send, SendMessage
<1> DEFINE s == x.from
           m == x.msg
           D == OutOfDate(s, m)
<1>2. s \in SessionIds /\ m \in Message /\ m.id \in MessageIds
      /\ m.expectsReply \in BOOLEAN
  BY SendsAssumption DEF Message
<1>3. sessions \in SessionMap /\ Live(s) /\ sessions[s] \in Session
  BY <1>1, <1>2 DEF Handles, Current, Live, TypeOK, SessionMap
<1>4. D \in SUBSET pending
  BY DEF OutOfDate, PendingOf
<1>5. Remembered(s, m) \in SUBSET Settled
  BY DEF Remembered, Fresh, TypeOK
<1>6. ASSUME NEW type \in {"delivery_accepted", "delivered", "message"},
             NEW d \in Deliveries, NEW j \in Sockets
      PROVE  ToSocket(j, type, s, m, d) \subseteq Write
  BY <1>2 DEF ToSocket, Write
<1>7. ASSUME NEW code \in Code
      PROVE  ToSocket(k, "delivery_failed", s, m, code) \subseteq Write
  BY <1>2 DEF ToSocket, Write
<1>8. "SESSION_NOT_FOUND" \in Code /\ "DUPLICATE_MESSAGE_ID" \in Code
  BY DEF Code
<1>9. FailureWrites(D, sessions, "SESSION_NOT_FOUND") \subseteq Write
  BY <1>3, <1>4, <1>8, FailureWritesType
<1>10. AsksWithout(D) \subseteq AskEdge
  BY DEF AsksWithout, TypeOK
<1>11. SUFFICES TablesOK'
  BY <1>1 DEF TypeOK, TablesOK
<1>12. CASE SendDuplicate(k, s, m)
  BY <1>5, <1>7, <1>8, <1>12 DEF SendDuplicate, TypeOK, TablesOK
<1>13. CASE SendReplayed(k, s, m)
  <2>1. PICK r \in Answer(s, m) :
          writes' = ToSocket(k, "delivery_accepted", s, m, r.delivery)
                      \cup ToSocket(k, "delivered", s, m, r.delivery)
    BY <1>13 DEF SendReplayed
  <2>2. r.delivery \in Deliveries
    BY DEF Answer, RecentOf, Fresh, TypeOK, Settled
  <2>3. writes' \subseteq Write
    BY <2>1, <2>2, <1>6
  <2> QED BY <1>5, <1>13, <2>3 DEF SendReplayed, TypeOK, TablesOK
<1>14. CASE SendPending(k, s, m)
  <2>1. PICK p \in PendingOf(s, m) :
          writes' = ToSocket(k, "delivery_accepted", s, m, p.delivery)
    BY <1>14 DEF SendPending
  <2>2. p.delivery \in Deliveries
    BY DEF PendingOf, TypeOK, Delivery
  <2>3. writes' \subseteq Write
    BY <2>1, <2>2, <1>6
  <2> QED BY <1>5, <1>14, <2>3 DEF SendPending, TypeOK, TablesOK
<1>15. CASE SendRefused(k, s, m)
  <2>1. Refusal(k, s, m) \in Code \cup {None}
    BY DEF Refusal, Objection, Code
  <2>2. ToSocket(k, "delivery_failed", s, m, Refusal(k, s, m)) \subseteq Write
    BY <1>7, <1>15, <2>1 DEF SendRefused
  <2>3. Drop(D, Remembered(s, m))
    BY <1>15 DEF SendRefused
  <2>4. writes' \subseteq Write /\ asks' \subseteq AskEdge /\ askFile' \subseteq AskEdge
    BY <1>9, <1>10, <1>15, <2>2 DEF SendRefused, Persist
  <2> QED BY <1>4, <1>5, <2>3, <2>4, DropType DEF TablesOK
<1>16. CASE \E d \in Deliveries : SendAccepted(k, s, m, d)
  <2>1. PICK d \in Deliveries : SendAccepted(k, s, m, d)
    BY <1>16
  <2>2. PICK t \in Recipients(s, m) :
         LET new == [delivery |-> d, from |-> s, to |-> t, msg |-> m,
                     senderSocket |-> k, recipientSocket |-> sessions[t].socket,
                     fromGen |-> sessions[s].gen, toGen |-> sessions[t].gen]
         IN /\ pending' = (pending \ D) \cup {new}
            /\ pendingKeys' = KeysWithout(D)
                 \cup {[from |-> s, id |-> m.id, delivery |-> d]}
            /\ asks' = WithAsk(AsksWithout(D), s, t, m)
            /\ writes' = FailureWrites(D, sessions, "SESSION_NOT_FOUND")
                 \cup ToSocket(k, "delivery_accepted", s, m, d)
                 \cup ToSocket(sessions[t].socket, "message", s, m, d)
    BY <2>1 DEF SendAccepted
  <2>3. t \in SessionIds /\ sessions[t] \in Session
    BY DEF Recipients, Candidates, LiveIds, Authorized, Current, Live, TypeOK
  <2>4. sessions[t].socket \in Sockets /\ sessions[t].gen \in Nat
        /\ sessions[s].gen \in Nat
    BY <1>3, <2>3 DEF Session
  <2>5. pending' \subseteq Delivery
    BY <1>2, <2>2, <2>3, <2>4 DEF TypeOK, Delivery
  <2>6. pendingKeys' \subseteq DeliveryKey
    BY <1>2, <2>2 DEF TypeOK, KeysWithout, DeliveryKey
  <2>7. asks' \subseteq AskEdge /\ askFile' \subseteq AskEdge
    <3>1. [from |-> s, to |-> t, id |-> m.id, state |-> "blocking", due |-> FALSE]
            \in AskEdge
      BY <1>2, <2>3 DEF AskEdge
    <3>2. asks' \subseteq AskEdge
      BY <1>10, <2>2, <3>1 DEF WithAsk
    <3> QED BY <2>1, <3>2 DEF SendAccepted, Persist
  <2>8. writes' \subseteq Write
    BY <1>6, <1>9, <2>2, <2>4
  <2>9. \A p \in D : Settle(p, TRUE) \in Settled
    BY <1>4 DEF TypeOK, Settle, Delivery, Settled
  <2>10. recent' \subseteq Settled
    BY <1>5, <2>1, <2>9 DEF SendAccepted, RecentWith
  <2> QED BY <2>5, <2>6, <2>7, <2>8, <2>10 DEF TablesOK
<1> QED BY <1>1, <1>12, <1>13, <1>14, <1>15, <1>16

LEMMA ConnectionsType ==
  ASSUME TypeOK, Connections
  PROVE  TypeOK'
<1>1. PICK k \in Sockets :
        \/ Connect(k) \/ RegistrationTimeout(k) \/ Condemn(k) \/ SocketClose(k)
        \/ \E s \in SessionIds, name \in Names : Register(k, s, name)
        \/ \E preserveAsks \in BOOLEAN : Unregister(k, preserveAsks)
        \/ \E name \in Names : Rename(k, name)
  BY DEF Connections
<1>2. CASE Connect(k) \/ RegistrationTimeout(k) \/ Condemn(k)
  <2>1. TablesOK'
    BY <1>2, UntouchedType DEF Connect, RegistrationTimeout, Condemn
  <2>2. conn' \in [Sockets -> ConnState]
    BY <1>2 DEF Connect, RegistrationTimeout, Condemn, TypeOK, ConnState
  <2> QED
    BY <1>2, <2>1, <2>2 DEF Connect, RegistrationTimeout, Condemn, TypeOK, TablesOK
<1>3. CASE SocketClose(k)
  <2>1. conn' \in [Sockets -> ConnState] /\ bound' \in [Sockets -> SessionIds \cup {None}]
    BY <1>3 DEF SocketClose, TypeOK, ConnState
  <2>2. CASE Holds(k)
    <3>1. bound[k] \in SessionIds
      BY <2>2 DEF Holds, TypeOK
    <3>2. sessions' \in SessionMap
      BY <1>3, <2>2 DEF SocketClose, TypeOK, SessionMap
    <3>3. TablesOK'
      BY <1>3, <2>2, <3>1, <3>2, DetachType DEF SocketClose
    <3> QED
      BY <1>3, <2>1, <2>2, <3>2, <3>3
      DEF SocketClose, TypeOK, TablesOK, SessionMap, ArmShutdown
  <2>3. CASE ~Holds(k)
    <3>1. TablesOK'
      BY <1>3, <2>3, UntouchedType DEF SocketClose
    <3> QED BY <1>3, <2>1, <2>3, <3>1 DEF SocketClose, TypeOK, TablesOK
  <2> QED BY <2>2, <2>3
<1>4. CASE \E s \in SessionIds, name \in Names : Register(k, s, name)
  <2>1. PICK s \in SessionIds, name \in Names : Register(k, s, name)
    BY <1>4
  <2>2. TablesOK'
    <3>1. CASE Live(s)
      BY <2>1, <3>1, DetachType DEF Register, TypeOK, SessionMap
    <3>2. CASE ~Live(s)
      BY <2>1, <3>2, UntouchedType DEF Register
    <3> QED BY <3>1, <3>2
  <2>3. [socket |-> k, name |-> name,
         gen |-> IF s \in Remote THEN principals[s].gen ELSE 1,
         parent |-> IF s \in Remote THEN principals[s].parent ELSE None] \in Session
    BY DEF TypeOK, Principal, Session
  <2>4. sessions' \in SessionMap
    BY <2>1, <2>3 DEF Register, TypeOK, SessionMap
  <2>5. conn' \in [Sockets -> ConnState]
    BY <2>1 DEF Register, TypeOK, ConnState
  <2>6. bound' \in [Sockets -> SessionIds \cup {None}]
    BY <2>1 DEF Register, TypeOK
  <2> QED
    BY <2>1, <2>2, <2>4, <2>5, <2>6 DEF Register, TypeOK, TablesOK, SessionMap
<1>5. CASE \E preserveAsks \in BOOLEAN : Unregister(k, preserveAsks)
  <2>1. PICK preserveAsks \in BOOLEAN : Unregister(k, preserveAsks)
    BY <1>5
  <2> DEFINE s == bound[k]
             D == OverSocket(s, k)
  <2>2. s \in SessionIds
    BY <2>1 DEF Unregister, Handles, TypeOK
  <2>3. bound' \in [Sockets -> SessionIds \cup {None}]
    BY <2>1 DEF Unregister, TypeOK
  <2>4. sessions' \in SessionMap /\ shutdownTimer' \in BOOLEAN
    BY <2>1 DEF Unregister, TypeOK, SessionMap, ArmShutdown
  <2>5. TablesOK'
    <3>1. CASE Holds(k) /\ preserveAsks
      BY <2>1, <2>2, <2>4, <3>1, DetachType DEF Unregister
    <3>2. CASE Holds(k) /\ ~preserveAsks
      <4>1. D \in SUBSET pending /\ Drop(D, recent) /\ recent \in SUBSET Settled
        BY <2>1, <3>2 DEF OverSocket, Unregister, TypeOK
      <4>2. AsksWithout(D) \in SUBSET AskEdge /\ Clear(AsksWithout(D), {s}) \subseteq AskEdge
        BY DEF AsksWithout, TypeOK, Clear
      <4>3. asks' \subseteq AskEdge /\ askFile' \subseteq AskEdge
        BY <2>1, <3>2, <4>2 DEF Unregister, Persist
      <4>4. "DISCONNECTED" \in Code /\ "session_disconnected" \in Reason
        BY DEF Code, Reason
      <4>5. FailureWrites(D, sessions', "DISCONNECTED") \subseteq Write
        BY <2>4, <4>1, <4>4, FailureWritesType
      <4>6. ClearNotices(AsksWithout(D), {s}, sessions', "session_disconnected")
              \subseteq Write
        BY <2>4, <4>2, <4>4, ClearNoticesType
      <4>7. writes' \subseteq Write
        BY <2>1, <3>2, <4>5, <4>6 DEF Unregister
      <4> QED BY <4>1, <4>3, <4>7, DropType DEF TablesOK
    <3>3. CASE ~Holds(k)
      BY <2>1, <3>3, UntouchedType DEF Unregister
    <3> QED BY <3>1, <3>2, <3>3
  <2> QED BY <2>1, <2>3, <2>4, <2>5 DEF Unregister, TypeOK, TablesOK, SessionMap
<1>6. CASE \E name \in Names : Rename(k, name)
  <2>1. PICK name \in Names : Rename(k, name)
    BY <1>6
  <2>2. bound[k] \in SessionIds /\ sessions[bound[k]] \in Session
    BY <2>1 DEF Rename, Handles, Current, Live, TypeOK
  <2>3. [sessions[bound[k]] EXCEPT !.name = name] \in Session
    BY <2>2 DEF Session
  <2>4. sessions' \in SessionMap
    BY <2>1, <2>2, <2>3 DEF Rename, TypeOK, SessionMap
  <2>5. TablesOK'
    BY <2>1, UntouchedType DEF Rename
  <2> QED BY <2>1, <2>4, <2>5 DEF Rename, TypeOK, TablesOK, SessionMap
<1> QED BY <1>1, <1>2, <1>3, <1>4, <1>5, <1>6

LEMMA ExchangesType ==
  ASSUME TypeOK, Exchanges
  PROVE  TypeOK'
<1>1. ASSUME NEW k \in Sockets, NEW p \in pending, MessageReceived(k, p)
      PROVE  TypeOK'
  <2>1. CASE StillValid(p)
    <3>1. pending' \subseteq Delivery /\ pendingKeys' \subseteq DeliveryKey
      BY <1>1, <2>1 DEF MessageReceived, TypeOK, KeysWithout
    <3>2. asks' \subseteq AskEdge /\ askFile' \subseteq AskEdge
      BY <1>1, <2>1 DEF MessageReceived, TypeOK, Persist
    <3>3. \A q \in {p} : Settle(q, FALSE) \in Settled
      BY DEF TypeOK, Settle, Delivery, Settled
    <3>4. recent' = RecentWith(recent, {p}, FALSE)
      BY <1>1, <2>1 DEF MessageReceived
    <3>5. recent' \subseteq Settled
      BY <3>3, <3>4 DEF TypeOK, RecentWith
    <3>6. writes' \subseteq Write
      BY <1>1, <2>1 DEF MessageReceived, TypeOK, Answered, Delivery, Message, Write
    <3> QED BY <1>1, <3>1, <3>2, <3>5, <3>6 DEF MessageReceived, TypeOK
  <2>2. CASE ~StillValid(p)
    <3>1. "SESSION_NOT_FOUND" \in Code
      BY DEF Code
    <3>2. Fail({p}, "SESSION_NOT_FOUND")
      BY <1>1, <2>2 DEF MessageReceived
    <3>3. TablesOK'
      BY <3>1, <3>2, FailType
    <3> QED BY <1>1, <3>3 DEF MessageReceived, TypeOK, TablesOK
  <2> QED BY <2>1, <2>2
<1>2. ASSUME NEW k \in Sockets, NEW p \in pending, MessageRejected(k, p)
      PROVE  TypeOK'
  <2>1. "CONFLICTING_MESSAGE_ID" \in Code
    BY DEF Code
  <2>2. TablesOK'
    BY <1>2, <2>1, FailType DEF MessageRejected
  <2> QED BY <1>2, <2>2 DEF MessageRejected, TypeOK, TablesOK
<1>3. ASSUME NEW p \in pending, DeliveryTimeout(p)
      PROVE  TypeOK'
  <2>1. "DELIVERY_TIMEOUT" \in Code
    BY DEF Code
  <2>2. TablesOK'
    BY <1>3, <2>1, FailType DEF DeliveryTimeout
  <2> QED BY <1>3, <2>2 DEF DeliveryTimeout, TypeOK, TablesOK
<1>4. \A e \in asks \cup askFile :
        /\ e \in AskEdge /\ e.to \in SessionIds /\ e.from \in SessionIds
        /\ e.id \in MessageIds
        /\ [e EXCEPT !.state = "deferred"] \in AskEdge
        /\ [e EXCEPT !.due = TRUE] \in AskEdge
  BY DEF TypeOK, AskEdge
<1>5. sessions \in SessionMap
  BY DEF TypeOK, SessionMap
<1>6. ASSUME NEW k \in Sockets, NEW e \in asks, DeferAsk(k, e)
      PROVE  TypeOK'
  <2>1. writes' \subseteq Write
    BY <1>4, <1>5, <1>6, ToldType DEF DeferAsk
  <2> QED BY <1>4, <1>6, <2>1 DEF DeferAsk, TypeOK, Persist
<1>7. ASSUME NEW k \in Sockets, NEW e \in asks, CancelAsk(k, e)
      PROVE  TypeOK'
  <2>1. writes' \subseteq Write
    BY <1>4, <1>5, <1>7, CancelNoticesType DEF CancelAsk, Reason
  <2> QED BY <1>4, <1>7, <2>1 DEF CancelAsk, TypeOK, Persist
<1>8. ASSUME NEW e \in asks, AskExpires(e)
      PROVE  TypeOK'
  <2>1. writes' \subseteq Write
    BY <1>4, <1>5, <1>8, CancelNoticesType DEF AskExpires, Reason
  <2> QED BY <1>4, <1>8, <2>1 DEF AskExpires, TypeOK, Persist
<1>9. ASSUME NEW e \in askFile, AskLapses(e)
      PROVE  TypeOK'
  <2>1. asks' \subseteq AskEdge /\ askFile' \subseteq AskEdge
    BY <1>4, <1>9 DEF AskLapses, TypeOK
  <2> QED BY <1>9, <2>1 DEF AskLapses, TypeOK
<1>10. ASSUME NEW r \in recent, RecentLapses(r)
       PROVE  TypeOK'
  <2>1. [r EXCEPT !.lapsed = TRUE] \in Settled
    BY DEF TypeOK, Settled
  <2> QED BY <1>10, <2>1 DEF RecentLapses, TypeOK
<1> QED
  BY <1>1, <1>2, <1>3, <1>6, <1>7, <1>8, <1>9, <1>10, SendType DEF Exchanges

LEMMA AccessType ==
  ASSUME TypeOK, Access
  PROVE  TypeOK'
<1>1. ASSUME NEW changed \in SUBSET Remote, Disconnect(changed),
             principals' \in [Remote -> Principal]
      PROVE  TypeOK'
  BY <1>1, DisconnectType DEF Disconnect, TypeOK, TablesOK, SessionMap
<1>2. \A r \in Remote : principals[r] \in Principal
  BY DEF TypeOK
<1>3. \A changed : Revoked(changed) \in [Remote -> Principal]
  <2>1. \A r \in Remote :
          [parent |-> principals[r].parent, gen |-> principals[r].gen + 1,
           state |-> "revoked"] \in Principal
    BY <1>2 DEF Principal
  <2> QED BY <1>2, <2>1 DEF Revoked
<1>4. ASSUME NEW r \in Remote, PrincipalLapses(r)
      PROVE  TypeOK'
  BY <1>2, <1>4 DEF PrincipalLapses, TypeOK, Principal, table
<1>5. ASSUME NEW r \in Remote, RevokeSubtree(r)
      PROVE  TypeOK'
  BY <1>1, <1>3, <1>5 DEF RevokeSubtree, Subtree
<1>6. ASSUME NEW r \in Remote, NEW newParent \in SessionIds, AdoptSubtree(r, newParent)
      PROVE  TypeOK'
  <2>1. principals' \in [Remote -> Principal]
    <3>1. \A x \in Remote :
            [parent |-> IF x = r THEN newParent ELSE principals[x].parent,
             gen |-> principals[x].gen + 1, state |-> principals[x].state]
              \in Principal
      BY <1>2 DEF Principal
    <3> QED BY <1>2, <1>6, <3>1 DEF AdoptSubtree
  <2> QED BY <1>1, <1>6, <2>1 DEF AdoptSubtree, Subtree
<1>7. ASSUME Sweep
      PROVE  TypeOK'
  BY <1>1, <1>3, <1>7 DEF Sweep, Subtree
<1> QED BY <1>4, <1>5, <1>6, <1>7 DEF Access

LEMMA ProcessType ==
  ASSUME TypeOK, Crash \/ ShutdownCheck \/ Start
  PROVE  TypeOK'
<1>1. CASE Stop
  BY <1>1 DEF Stop, TypeOK, ConnState
<1>2. CASE ShutdownCheck /\ LiveIds # {}
  <2>1. TablesOK'
    BY <1>2, UntouchedType DEF ShutdownCheck
  <2> QED BY <1>2, <2>1 DEF ShutdownCheck, TypeOK, TablesOK
<1>3. CASE Start
  <2>1. Loaded(askFile) \subseteq AskEdge
    BY DEF Loaded, TypeOK, AskEdge
  <2> QED BY <1>3, <2>1 DEF Start, TypeOK, Persist
<1> QED BY <1>1, <1>2, <1>3 DEF Crash, ShutdownCheck

\* The broker's tables hold what their types say, whatever its clients, its
\* clock and its operator do.
THEOREM TypeCorrect == Spec => []TypeOK
<1>1. Init => TypeOK
  <2>1. \A r \in Remote :
          [parent |-> RemoteParent[r], gen |-> 1, state |-> "active"] \in Principal
    BY IdentityAssumption DEF Principal
  <2> QED BY <2>1 DEF Init, TypeOK, ConnState
<1>2. TypeOK /\ [Next]_vars => TypeOK'
  <2>1. ASSUME TypeOK, UNCHANGED vars
        PROVE  TypeOK'
    BY <2>1 DEF vars, table, TypeOK
  <2> QED BY <2>1, ConnectionsType, ExchangesType, AccessType, ProcessType DEF Next
<1> QED BY <1>1, <1>2, PTL DEF Spec

=============================================================================
