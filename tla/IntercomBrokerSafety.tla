------------------------ MODULE IntercomBrokerSafety ------------------------
(***************************************************************************)
(* The broker's safety invariants, each from the types and the invariants  *)
(* before it.  What a step may do to the delivery tables and to the ask    *)
(* edges is stated once, as a lemma over all the actions.                  *)
(***************************************************************************)
EXTENDS IntercomBrokerProofs

-----------------------------------------------------------------------------
(* The delivery tables.                                                    *)

\* The deliveries of D, and nothing else, leave the two indexes.
Dropped(D) ==
  D \subseteq pending /\ pending' = pending \ D /\ pendingKeys' = KeysWithout(D)

\* A message s sent over k is now awaited under d, in place of the out of date
\* deliveries of the same key.
Admitted(k, s, t, m, d) ==
  LET D == OutOfDate(s, m)
      new == [delivery |-> d, from |-> s, to |-> t, msg |-> m,
              senderSocket |-> k, recipientSocket |-> sessions[t].socket,
              fromGen |-> sessions[s].gen, toGen |-> sessions[t].gen]
  IN /\ pending' = (pending \ D) \cup {new}
     /\ pendingKeys' = KeysWithout(D)
          \cup {[from |-> s, id |-> m.id, delivery |-> d]}
     /\ \A p \in pending : p.delivery # d

LEMMA DetachDrops ==
  ASSUME NEW s, NEW k, NEW known, Detach(s, k, known)
  PROVE  Dropped(OverSocket(s, k))
BY DEF Detach, Drop, Dropped, OverSocket

LEMMA ConnectionsTables ==
  ASSUME Connections
  PROVE  \/ UNCHANGED <<pending, pendingKeys>>
         \/ \E D : Dropped(D)
<1>1. PICK k \in Sockets :
        \/ Connect(k) \/ RegistrationTimeout(k) \/ Condemn(k) \/ SocketClose(k)
        \/ \E s \in SessionIds, name \in Names : Register(k, s, name)
        \/ \E preserveAsks \in BOOLEAN : Unregister(k, preserveAsks)
        \/ \E name \in Names : Rename(k, name)
  BY DEF Connections
<1>2. Untouched => UNCHANGED <<pending, pendingKeys>>
  BY DEF Untouched, table
<1>3. CASE Connect(k) \/ RegistrationTimeout(k) \/ Condemn(k)
           \/ \E name \in Names : Rename(k, name)
  BY <1>2, <1>3 DEF Connect, RegistrationTimeout, Condemn, Rename
<1>4. CASE SocketClose(k)
  BY <1>2, <1>4, DetachDrops DEF SocketClose
<1>5. CASE \E s \in SessionIds, name \in Names : Register(k, s, name)
  BY <1>2, <1>5, DetachDrops DEF Register
<1>6. CASE \E preserveAsks \in BOOLEAN : Unregister(k, preserveAsks)
  <2>1. PICK preserveAsks \in BOOLEAN : Unregister(k, preserveAsks)
    BY <1>6
  <2>2. CASE Holds(k) /\ ~preserveAsks
    <3>1. Dropped(OverSocket(bound[k], k))
      BY <2>1, <2>2 DEF Unregister, Drop, Dropped, OverSocket
    <3> QED BY <3>1
  <2>3. CASE ~(Holds(k) /\ ~preserveAsks)
    BY <1>2, <2>1, <2>3, DetachDrops DEF Unregister
  <2> QED BY <2>2, <2>3
<1> QED BY <1>1, <1>3, <1>4, <1>5, <1>6

LEMMA SendTables ==
  ASSUME TypeOK, NEW k \in Sockets, Send(k)
  PROVE  \/ UNCHANGED <<pending, pendingKeys>>
         \/ \E D : Dropped(D)
         \/ \E s \in SessionIds, t \in SessionIds, m \in Message, d \in Deliveries :
              /\ Admitted(k, s, t, m, d)
              /\ Live(s) /\ Live(t) /\ sessions[s].socket = k
<1>1. PICK x \in Sends :
        /\ Handles(k) /\ x.from = bound[k]
        /\ \/ SendDuplicate(k, x.from, x.msg)
           \/ SendReplayed(k, x.from, x.msg)
           \/ SendPending(k, x.from, x.msg)
           \/ SendRefused(k, x.from, x.msg)
           \/ \E d \in Deliveries : SendAccepted(k, x.from, x.msg, d)
  BY DEF Send, SendMessage
<1> DEFINE s == x.from
           m == x.msg
<1>2. s \in SessionIds /\ m \in Message /\ Live(s)
  BY <1>1, SendsAssumption DEF Handles, Current
<1>3. CASE SendDuplicate(k, s, m) \/ SendReplayed(k, s, m) \/ SendPending(k, s, m)
  BY <1>3 DEF SendDuplicate, SendReplayed, SendPending
<1>4. CASE SendRefused(k, s, m)
  <2>1. Dropped(OutOfDate(s, m))
    BY <1>4 DEF SendRefused, Drop, Dropped, OutOfDate, PendingOf
  <2> QED BY <2>1
<1>5. CASE \E d \in Deliveries : SendAccepted(k, s, m, d)
  <2>1. PICK d \in Deliveries : SendAccepted(k, s, m, d)
    BY <1>5
  <2>2. PICK t \in Recipients(s, m) : Admitted(k, s, t, m, d)
    BY <2>1 DEF SendAccepted, Admitted
  <2>3. t \in SessionIds /\ Live(t)
    BY DEF Recipients, Candidates, LiveIds, Authorized, Current
  <2>4. sessions[s].socket = k
    BY <2>1, NoneAssumption DEF SendAccepted, Refusal, Objection, Code
  <2> QED BY <1>2, <2>2, <2>3, <2>4
<1> QED BY <1>1, <1>3, <1>4, <1>5

LEMMA ExchangesTables ==
  ASSUME TypeOK, Exchanges
  PROVE  \/ UNCHANGED <<pending, pendingKeys>>
         \/ \E D : Dropped(D)
         \/ \E k \in Sockets : Send(k)
<1>1. ASSUME NEW p \in pending, NEW code, Fail({p}, code)
      PROVE  Dropped({p})
  BY <1>1 DEF Fail, Drop, Dropped
<1>2. ASSUME NEW k \in Sockets, NEW p \in pending, MessageReceived(k, p)
      PROVE  Dropped({p})
  BY <1>1, <1>2 DEF MessageReceived, Dropped
<1>3. ASSUME NEW k \in Sockets, NEW p \in pending, MessageRejected(k, p)
      PROVE  Dropped({p})
  BY <1>1, <1>3 DEF MessageRejected
<1>4. ASSUME NEW p \in pending, DeliveryTimeout(p)
      PROVE  Dropped({p})
  BY <1>1, <1>4 DEF DeliveryTimeout
<1> QED
  BY <1>2, <1>3, <1>4 DEF Exchanges, DeferAsk, CancelAsk, AskExpires, AskLapses, RecentLapses

LEMMA AccessTables ==
  ASSUME Access
  PROVE  \/ UNCHANGED <<pending, pendingKeys, sessions>>
         \/ \E changed \in SUBSET Remote : Disconnect(changed)
BY DEF Access, PrincipalLapses, RevokeSubtree, AdoptSubtree, Sweep, Subtree, table

LEMMA DisconnectDrops ==
  ASSUME NEW changed, Disconnect(changed)
  PROVE  \E D : Dropped(D)
<1> DEFINE D == UNION {OverSocket(s, sessions[s].socket) : s \in {x \in changed : Live(x)}}
<1>1. Dropped(D)
  BY DEF Disconnect, Dropped, OverSocket
<1> QED BY <1>1

\* Every step of the broker leaves the two indexes alone, drops deliveries from
\* both, admits one to both, or ends the process.
LEMMA StepTables ==
  ASSUME TypeOK, [Next]_vars
  PROVE  \/ UNCHANGED <<pending, pendingKeys>>
         \/ \E D : Dropped(D)
         \/ \E k \in Sockets, s \in SessionIds, t \in SessionIds, m \in Message,
               d \in Deliveries : Admitted(k, s, t, m, d)
         \/ pending' = {} /\ pendingKeys' = {}
<1>1. CASE Crash \/ ShutdownCheck \/ Start
  BY <1>1 DEF Crash, ShutdownCheck, Start, Stop, Untouched, table
<1>2. CASE UNCHANGED vars
  BY <1>2 DEF vars, table
<1>3. CASE Exchanges
  BY <1>3, ExchangesTables, SendTables
<1>4. CASE Access
  BY <1>4, AccessTables, DisconnectDrops
<1>5. CASE Connections
  BY <1>5, ConnectionsTables
<1> QED BY <1>1, <1>2, <1>3, <1>4, <1>5 DEF Next

LEMMA IndexStep ==
  ASSUME TypeOK, PendingIndexed, [Next]_vars
  PROVE  PendingIndexed'
<1>1. CASE UNCHANGED <<pending, pendingKeys>>
  BY <1>1 DEF PendingIndexed, SameKey
<1>2. CASE \E D : Dropped(D)
  <2>1. PICK D : Dropped(D)
    BY <1>2
  <2>2. ASSUME NEW p \in pending'
        PROVE  [from |-> p.from, id |-> p.msg.id, delivery |-> p.delivery] \in pendingKeys'
    BY <2>1 DEF Dropped, KeysWithout, PendingIndexed, SameKey
  <2>3. ASSUME NEW x \in pendingKeys'
        PROVE  \E p \in pending' :
                 p.from = x.from /\ p.msg.id = x.id /\ p.delivery = x.delivery
    BY <2>1 DEF Dropped, KeysWithout, PendingIndexed
  <2>4. \A p, q \in pending' : p.delivery = q.delivery \/ SameKey(p, q) => p = q
    BY <2>1 DEF Dropped, PendingIndexed
  <2> QED BY <2>2, <2>3, <2>4 DEF PendingIndexed, SameKey
<1>3. CASE \E k \in Sockets, s \in SessionIds, t \in SessionIds, m \in Message,
              d \in Deliveries : Admitted(k, s, t, m, d)
  <2>1. PICK k \in Sockets, s \in SessionIds, t \in SessionIds, m \in Message,
             d \in Deliveries : Admitted(k, s, t, m, d)
    BY <1>3
  <2> DEFINE D == OutOfDate(s, m)
             new == [delivery |-> d, from |-> s, to |-> t, msg |-> m,
                     senderSocket |-> k, recipientSocket |-> sessions[t].socket,
                     fromGen |-> sessions[s].gen, toGen |-> sessions[t].gen]
             key == [from |-> s, id |-> m.id, delivery |-> d]
  <2>2. /\ pending' = (pending \ D) \cup {new}
        /\ pendingKeys' = KeysWithout(D) \cup {key}
        /\ \A p \in pending : p.delivery # d
    BY <2>1 DEF Admitted
  <2>3. ASSUME NEW p \in pending, SameKey(p, new)
        PROVE  p \in D
    <3> DEFINE x == [from |-> p.from, id |-> p.msg.id, delivery |-> p.delivery]
    <3>1. x \in KeysOf(s, m)
      BY <2>3 DEF SameKey, KeysOf, PendingIndexed
    <3> QED BY <3>1 DEF OutOfDate, PendingOf
  <2>4. \A p \in D : p \in pending /\ SameKey(p, new)
    BY DEF SameKey, OutOfDate, PendingOf, KeysOf, PendingIndexed
  <2>5. ASSUME NEW p \in pending \ D
        PROVE  [from |-> p.from, id |-> p.msg.id, delivery |-> p.delivery] \in KeysWithout(D)
    BY <2>4 DEF KeysWithout, PendingIndexed, SameKey
  <2>6. ASSUME NEW x \in KeysWithout(D)
        PROVE  \E p \in pending \ D :
                 p.from = x.from /\ p.msg.id = x.id /\ p.delivery = x.delivery
    BY DEF KeysWithout, PendingIndexed
  <2>7. \A p, q \in pending' : p.delivery = q.delivery \/ SameKey(p, q) => p = q
    <3>1. ASSUME NEW p \in pending \ D
          PROVE  p.delivery # new.delivery /\ ~SameKey(p, new) /\ ~SameKey(new, p)
      BY <2>2, <2>3 DEF SameKey
    <3> QED BY <2>2, <3>1 DEF PendingIndexed
  <2>8. \A p \in pending' :
          [from |-> p.from, id |-> p.msg.id, delivery |-> p.delivery] \in pendingKeys'
    <3>1. ASSUME NEW p \in pending'
          PROVE  [from |-> p.from, id |-> p.msg.id, delivery |-> p.delivery] \in pendingKeys'
      <4>1. CASE p = new
        <5>1. p.from = s /\ p.msg = m /\ p.delivery = d
          BY <4>1
        <5> QED BY <2>2, <5>1
      <4>2. CASE p \in pending \ D
        BY <2>2, <2>5, <4>2
      <4> QED BY <2>2, <4>1, <4>2
    <3> QED BY <3>1
  <2>9. \A x \in pendingKeys' : \E p \in pending' :
          p.from = x.from /\ p.msg.id = x.id /\ p.delivery = x.delivery
    <3>1. new \in pending' /\ new.from = s /\ new.msg.id = m.id /\ new.delivery = d
      BY <2>2
    <3>2. ASSUME NEW x \in pendingKeys'
          PROVE  \E p \in pending' :
                   p.from = x.from /\ p.msg.id = x.id /\ p.delivery = x.delivery
      <4>1. CASE x = key
        BY <3>1, <4>1
      <4>2. CASE x \in KeysWithout(D)
        BY <2>2, <2>6, <4>2
      <4> QED BY <2>2, <4>1, <4>2
    <3> QED BY <3>2
  <2> QED BY <2>7, <2>8, <2>9 DEF PendingIndexed, SameKey
<1>4. CASE pending' = {} /\ pendingKeys' = {}
  BY <1>4 DEF PendingIndexed
<1> QED BY <1>1, <1>2, <1>3, <1>4, StepTables

\* Pending deliveries and their key index never part: through refusals,
\* timeouts, takeovers, revocations and restarts each delivery has one key, and
\* each key one delivery.
THEOREM IndexCorrect == Spec => []PendingIndexed
<1>1. Init => PendingIndexed
  BY DEF Init, PendingIndexed
<1> QED BY <1>1, IndexStep, TypeCorrect, PTL DEF Spec

-----------------------------------------------------------------------------
(* Deliveries and sessions.                                                *)

\* The deliveries that stay pending keep the sessions they were made for.
KeepsConnected ==
  \A p \in pending \cap pending' : \A s \in {p.from, p.to} :
    /\ sessions'[s] # None
    /\ sessions'[s].socket = sessions[s].socket
    /\ sessions'[s].gen = sessions[s].gen

LEMMA SessionLost ==
  ASSUME TypeOK, PendingIsConnected, NEW s \in SessionIds, NEW k \in Sockets,
         Live(s), sessions[s].socket = k,
         pending' = pending \ OverSocket(s, k),
         \A x \in SessionIds \ {s} : sessions'[x] = sessions[x]
  PROVE  KeepsConnected
<1> SUFFICES ASSUME NEW p \in pending \cap pending', NEW x \in {p.from, p.to}
             PROVE  x \in SessionIds \ {s} /\ sessions[x] # None
  BY DEF KeepsConnected
<1> QED BY DEF PendingIsConnected, OverSocket, TypeOK, Delivery, Live

LEMMA ConnectionsKeep ==
  ASSUME TypeOK, PendingIsConnected, Connections
  PROVE  KeepsConnected
<1>1. PICK k \in Sockets :
        \/ Connect(k) \/ RegistrationTimeout(k) \/ Condemn(k) \/ SocketClose(k)
        \/ \E s \in SessionIds, name \in Names : Register(k, s, name)
        \/ \E preserveAsks \in BOOLEAN : Unregister(k, preserveAsks)
        \/ \E name \in Names : Rename(k, name)
  BY DEF Connections
<1>2. ASSUME UNCHANGED sessions
      PROVE  KeepsConnected
  BY <1>2 DEF KeepsConnected, PendingIsConnected, Live
<1>3. CASE Connect(k) \/ RegistrationTimeout(k) \/ Condemn(k)
  BY <1>2, <1>3 DEF Connect, RegistrationTimeout, Condemn
<1>4. CASE SocketClose(k)
  <2>1. CASE Holds(k)
    <3>1. bound[k] \in SessionIds /\ Live(bound[k]) /\ sessions[bound[k]].socket = k
      BY <2>1 DEF Holds, TypeOK
    <3>2. pending' = pending \ OverSocket(bound[k], k)
      BY <1>4, <2>1, DetachDrops DEF SocketClose, Dropped
    <3>3. \A x \in SessionIds \ {bound[k]} : sessions'[x] = sessions[x]
      BY <1>4, <2>1 DEF SocketClose, TypeOK
    <3> QED BY <3>1, <3>2, <3>3, SessionLost
  <2>2. CASE ~Holds(k)
    BY <1>2, <1>4, <2>2 DEF SocketClose
  <2> QED BY <2>1, <2>2
<1>5. CASE \E s \in SessionIds, name \in Names : Register(k, s, name)
  <2>1. PICK s \in SessionIds, name \in Names : Register(k, s, name)
    BY <1>5
  <2>2. \A x \in SessionIds \ {s} : sessions'[x] = sessions[x]
    BY <2>1 DEF Register, TypeOK
  <2>3. CASE Live(s)
    <3>1. sessions[s].socket \in Sockets
      BY <2>3 DEF Live, TypeOK, Session
    <3>2. pending' = pending \ OverSocket(s, sessions[s].socket)
      BY <2>1, <2>3, DetachDrops DEF Register, Dropped
    <3> QED BY <2>2, <2>3, <3>1, <3>2, SessionLost
  <2>4. CASE ~Live(s)
    <3>1. \A p \in pending : p.from # s /\ p.to # s
      BY <2>4 DEF PendingIsConnected
    <3> QED
      BY <2>2, <3>1 DEF KeepsConnected, PendingIsConnected, Live, TypeOK, Delivery
  <2> QED BY <2>3, <2>4
<1>6. CASE \E preserveAsks \in BOOLEAN : Unregister(k, preserveAsks)
  <2>1. PICK preserveAsks \in BOOLEAN : Unregister(k, preserveAsks)
    BY <1>6
  <2>2. CASE Holds(k)
    <3>1. bound[k] \in SessionIds /\ Live(bound[k]) /\ sessions[bound[k]].socket = k
      BY <2>2 DEF Holds, TypeOK
    <3>2. pending' = pending \ OverSocket(bound[k], k)
      BY <2>1, <2>2, DetachDrops DEF Unregister, Dropped, Drop
    <3>3. \A x \in SessionIds \ {bound[k]} : sessions'[x] = sessions[x]
      BY <2>1, <2>2 DEF Unregister, TypeOK
    <3> QED BY <3>1, <3>2, <3>3, SessionLost
  <2>3. CASE ~Holds(k)
    BY <1>2, <2>1, <2>3 DEF Unregister
  <2> QED BY <2>2, <2>3
<1>7. CASE \E name \in Names : Rename(k, name)
  <2>1. PICK name \in Names : Rename(k, name)
    BY <1>7
  <2>2. bound[k] \in SessionIds /\ sessions[bound[k]] \in Session
    BY <2>1 DEF Rename, Handles, Current, Live, TypeOK
  <2>3. [sessions[bound[k]] EXCEPT !.name = name] \in Session
    BY <2>2 DEF Session
  <2>4. \A x \in SessionIds : sessions[x] # None =>
          /\ sessions'[x] # None
          /\ sessions'[x].socket = sessions[x].socket
          /\ sessions'[x].gen = sessions[x].gen
    BY <2>1, <2>2, <2>3, NoneAssumption DEF Rename, TypeOK, Session
  <2> QED BY <2>4 DEF KeepsConnected, PendingIsConnected, Live, TypeOK, Delivery
<1> QED BY <1>1, <1>3, <1>4, <1>5, <1>6, <1>7

LEMMA DisconnectKeeps ==
  ASSUME TypeOK, PendingIsConnected, NEW changed \in SUBSET Remote, Disconnect(changed)
  PROVE  KeepsConnected
<1> DEFINE gone == {s \in changed : Live(s)}
           D == UNION {OverSocket(s, sessions[s].socket) : s \in gone}
<1>1. pending' = pending \ D
  BY DEF Disconnect
<1>2. \A x \in SessionIds \ gone : sessions'[x] = sessions[x]
  BY DEF Disconnect
<1>3. ASSUME NEW p \in pending \ D, NEW x \in {p.from, p.to}
      PROVE  x \in SessionIds \ gone /\ Live(x)
  <2>1. x \in SessionIds /\ Live(x) /\ p \in pending
    BY <1>3 DEF PendingIsConnected, TypeOK, Delivery
  <2>2. p \in OverSocket(x, sessions[x].socket)
    BY <2>1, <1>3 DEF PendingIsConnected, OverSocket
  <2> QED BY <1>3, <2>1, <2>2
<1> QED BY <1>1, <1>2, <1>3 DEF KeepsConnected, Live

LEMMA ConnectedStep ==
  ASSUME TypeOK, PendingIsConnected, [Next]_vars
  PROVE  PendingIsConnected'
<1>1. ASSUME KeepsConnected, pending' \subseteq pending
      PROVE  PendingIsConnected'
  BY <1>1 DEF KeepsConnected, PendingIsConnected, Live, TypeOK, Delivery
<1>2. UNCHANGED sessions => KeepsConnected
  BY DEF KeepsConnected, PendingIsConnected, Live
<1>3. CASE Connections
  BY <1>1, <1>3, ConnectionsKeep, ConnectionsTables DEF Dropped
<1>4. CASE Exchanges
  <2>1. UNCHANGED sessions
    BY <1>4 DEF Exchanges, Send, SendMessage, MessageReceived, MessageRejected, DeferAsk, CancelAsk,
                DeliveryTimeout, AskExpires, AskLapses, RecentLapses
  <2>2. CASE UNCHANGED <<pending, pendingKeys>> \/ \E D : Dropped(D)
    BY <1>1, <1>2, <2>1, <2>2 DEF Dropped
  <2>3. CASE \E k \in Sockets, s \in SessionIds, t \in SessionIds, m \in Message,
                d \in Deliveries :
               /\ Admitted(k, s, t, m, d)
               /\ Live(s) /\ Live(t) /\ sessions[s].socket = k
    <3>1. PICK k \in Sockets, s \in SessionIds, t \in SessionIds, m \in Message,
               d \in Deliveries :
                 /\ Admitted(k, s, t, m, d)
                 /\ Live(s) /\ Live(t) /\ sessions[s].socket = k
      BY <2>3
    <3> DEFINE new == [delivery |-> d, from |-> s, to |-> t, msg |-> m,
                       senderSocket |-> k, recipientSocket |-> sessions[t].socket,
                       fromGen |-> sessions[s].gen, toGen |-> sessions[t].gen]
    <3>2. \A p \in pending' : p \in pending \/ p = new
      BY <3>1 DEF Admitted
    <3>3. /\ Live(new.from) /\ Live(new.to)
          /\ sessions[new.from].socket = new.senderSocket
          /\ sessions[new.to].socket = new.recipientSocket
          /\ sessions[new.from].gen = new.fromGen
          /\ sessions[new.to].gen = new.toGen
      BY <3>1
    <3> QED BY <2>1, <3>2, <3>3 DEF PendingIsConnected, Live
  <2> QED BY <1>4, <2>2, <2>3, ExchangesTables, SendTables
<1>5. CASE Access
  <2>1. KeepsConnected
    BY <1>2, <1>5, AccessTables, DisconnectKeeps
  <2>2. pending' \subseteq pending
    BY <1>5, AccessTables, DisconnectDrops DEF Dropped
  <2> QED BY <1>1, <2>1, <2>2
<1>6. CASE Stop
  BY <1>6 DEF Stop, PendingIsConnected
<1>7. CASE (ShutdownCheck /\ LiveIds # {}) \/ Start \/ UNCHANGED vars
  BY <1>1, <1>2, <1>7 DEF ShutdownCheck, Start, vars, table, Untouched
<1> QED BY <1>3, <1>4, <1>5, <1>6, <1>7 DEF Next, Crash, ShutdownCheck

\* No delivery outlives the registration of either of its ends, so that no
\* stale connection can acknowledge or fail one.
THEOREM ConnectedCorrect == Spec => []PendingIsConnected
<1>1. Init => PendingIsConnected
  BY DEF Init, PendingIsConnected
<1> QED BY <1>1, ConnectedStep, TypeCorrect, PTL DEF Spec

-----------------------------------------------------------------------------
(* Sessions and connections.                                               *)

\* A connection that is forgotten holds no session.
FreeIsUnbound == \A k \in Sockets : conn[k] = "free" => bound[k] = None
ConnectionsInv == FreeIsUnbound /\ SessionsMatchConnections

LEMMA MatchStep ==
  ASSUME TypeOK, ConnectionsInv, [Next]_vars
  PROVE  ConnectionsInv'
<1> USE DEF ConnectionsInv, FreeIsUnbound, SessionsMatchConnections, LiveIds, Live, Holds
<1>1. CASE UNCHANGED <<conn, bound, sessions>>
  BY <1>1
<1>2. ASSUME NEW k \in Sockets, Connect(k) \/ RegistrationTimeout(k) \/ Condemn(k)
      PROVE  ConnectionsInv'
  <2>1. /\ UNCHANGED <<bound, sessions>>
        /\ \A j \in Sockets : /\ j # k => conn'[j] = conn[j]
                              /\ conn'[j] # "free"  \/ conn'[j] = conn[j]
        /\ conn'[k] = "open" => bound[k] = None
    BY <1>2 DEF Connect, RegistrationTimeout, Condemn, Reads, TypeOK
  <2> QED BY <2>1 DEF TypeOK, Session
<1>3. ASSUME NEW k \in Sockets, SocketClose(k)
      PROVE  ConnectionsInv'
  <2>1. /\ conn' = [conn EXCEPT ![k] = "free"]
        /\ bound' = [bound EXCEPT ![k] = None]
        /\ sessions' = IF Holds(k) THEN [sessions EXCEPT ![bound[k]] = None] ELSE sessions
    BY <1>3 DEF SocketClose
  <2>2. FreeIsUnbound'
    BY <2>1 DEF TypeOK
  <2>3. ASSUME NEW j \in Sockets, conn'[j] = "open", bound'[j] # None
        PROVE  Holds(j)'
    <3>1. j # k /\ Holds(j) /\ bound'[j] = bound[j]
      BY <2>1, <2>3 DEF TypeOK
    <3>2. sessions'[bound[j]] = sessions[bound[j]]
      BY <2>1, <3>1 DEF TypeOK
    <3> QED BY <3>1, <3>2
  <2>4. ASSUME NEW x \in SessionIds, sessions'[x] # None
        PROVE  /\ bound'[sessions'[x].socket] = x
               /\ conn'[sessions'[x].socket] # "free"
    <3>1. sessions'[x] = sessions[x]
      BY <2>1, <2>4 DEF TypeOK
    <3>2. sessions[x].socket \in Sockets /\ bound[sessions[x].socket] = x
      BY <2>4, <3>1 DEF TypeOK, Session
    <3>3. sessions[x].socket # k
      <4>1. SUFFICES ASSUME sessions[x].socket = k
                     PROVE  FALSE
        OBVIOUS
      <4>2. Holds(k) /\ bound[k] = x
        BY <2>4, <3>1, <3>2, <4>1, IdentityAssumption
      <4> QED BY <2>1, <2>4, <4>2 DEF TypeOK
    <3> QED BY <2>1, <2>4, <3>1, <3>2, <3>3 DEF TypeOK
  <2> QED BY <2>2, <2>3, <2>4
<1>4. ASSUME NEW k \in Sockets, NEW s \in SessionIds, NEW name \in Names,
             Register(k, s, name)
      PROVE  ConnectionsInv'
  <2> DEFINE old == sessions[s].socket
             new == sessions'[s]
  <2>1. /\ conn[k] \in {"open", "ending"} /\ bound[k] = None
        /\ bound' = [bound EXCEPT ![k] = s]
        /\ \A x \in SessionIds \ {s} : sessions'[x] = sessions[x]
        /\ new.socket = k /\ s # None
    BY <1>4, IdentityAssumption DEF Register, Reads, TypeOK
  <2>2. /\ Live(s) => /\ old # k /\ old \in Sockets
                      /\ conn' = [conn EXCEPT ![old] = IF @ = "open" THEN "ending" ELSE @]
        /\ ~Live(s) => conn' = conn
    BY <1>4, <2>1, IdentityAssumption DEF Register, TypeOK, Session
  <2>3. \A j \in Sockets : conn'[j] = "free" <=> conn[j] = "free"
    BY <2>2 DEF TypeOK
  <2>4. FreeIsUnbound'
    BY <2>1, <2>3 DEF TypeOK
  <2>5. ASSUME NEW j \in Sockets, conn'[j] = "open", bound'[j] # None
        PROVE  Holds(j)'
    <3>1. CASE j = k
      <4>1. [socket |-> k, name |-> name,
             gen |-> IF s \in Remote THEN principals[s].gen ELSE 1,
             parent |-> IF s \in Remote THEN principals[s].parent ELSE None] \in Session
        BY DEF TypeOK, Principal, Session
      <4>2. new # None
        BY <1>4, <4>1, NoneAssumption DEF Register, TypeOK
      <4> QED BY <2>1, <3>1, <4>2 DEF TypeOK
    <3>2. CASE j # k
      <4>1. bound'[j] = bound[j] /\ conn[j] = "open" /\ bound[j] \in SessionIds
        BY <2>1, <2>2, <2>5, <3>2 DEF TypeOK
      <4>2. Holds(j)
        BY <2>5, <4>1
      <4>3. bound[j] # s
        BY <2>2, <2>5, <4>1, <4>2 DEF TypeOK
      <4>4. sessions'[bound[j]] = sessions[bound[j]]
        BY <2>1, <4>1, <4>3
      <4> QED BY <4>1, <4>2, <4>4
    <3> QED BY <3>1, <3>2
  <2>6. ASSUME NEW x \in SessionIds, sessions'[x] # None
        PROVE  /\ bound'[sessions'[x].socket] = x
               /\ conn'[sessions'[x].socket] # "free"
    <3>1. CASE x = s
      BY <2>1, <2>3, <3>1 DEF TypeOK
    <3>2. CASE x # s
      <4>1. /\ sessions'[x] = sessions[x] /\ bound[sessions[x].socket] = x
            /\ conn[sessions[x].socket] # "free" /\ sessions[x].socket \in Sockets
        BY <2>1, <2>6, <3>2 DEF TypeOK, Session
      <4>2. sessions[x].socket # k
        BY <2>1, <4>1, IdentityAssumption
      <4> QED BY <2>1, <2>3, <4>1, <4>2 DEF TypeOK
    <3> QED BY <3>1, <3>2
  <2> QED BY <2>4, <2>5, <2>6
<1>5. ASSUME NEW k \in Sockets, NEW preserveAsks \in BOOLEAN, Unregister(k, preserveAsks)
      PROVE  ConnectionsInv'
  BY <1>5 DEF Unregister, TypeOK
<1>6. ASSUME NEW k \in Sockets, NEW name \in Names, Rename(k, name)
      PROVE  ConnectionsInv'
  <2>1. bound[k] \in SessionIds /\ sessions[bound[k]] \in Session
    BY <1>6 DEF Rename, Handles, Current, TypeOK
  <2>2. [sessions[bound[k]] EXCEPT !.name = name] \in Session
    BY <2>1 DEF Session
  <2>3. \A x \in SessionIds : /\ sessions'[x] = None <=> sessions[x] = None
                              /\ sessions'[x].socket = sessions[x].socket
    BY <1>6, <2>1, <2>2, NoneAssumption DEF Rename, TypeOK, Session
  <2>4. UNCHANGED <<conn, bound>>
    BY <1>6 DEF Rename
  <2> QED BY <2>3, <2>4 DEF TypeOK
<1>7. ASSUME NEW changed \in SUBSET Remote, Disconnect(changed)
      PROVE  ConnectionsInv'
  <2> DEFINE gone == {s \in changed : Live(s)}
  <2>1. UNCHANGED bound
    BY <1>7 DEF Disconnect
  <2>2. \A x \in SessionIds :
          sessions'[x] = IF x \in gone THEN None ELSE sessions[x]
    BY <1>7 DEF Disconnect
  <2>3. \A k \in Sockets : conn'[k] = IF \E s \in gone : sessions[s].socket = k
                                      THEN "destroyed" ELSE conn[k]
    BY <1>7 DEF Disconnect
  <2>4. ASSUME NEW k \in Sockets, conn'[k] = "open", bound'[k] # None
        PROVE  Holds(k)'
    <3>1. conn[k] = "open" /\ bound[k] \in SessionIds
          /\ \A s \in gone : sessions[s].socket # k
      BY <2>1, <2>3, <2>4 DEF TypeOK
    <3>2. Holds(k) /\ bound[k] \notin gone
      BY <2>1, <2>4, <3>1
    <3> QED BY <2>1, <2>2, <3>1, <3>2
  <2>5. ASSUME NEW x \in SessionIds, sessions'[x] # None
        PROVE  /\ bound'[sessions'[x].socket] = x
               /\ conn'[sessions'[x].socket] # "free"
    <3>1. sessions'[x] = sessions[x] /\ sessions[x].socket \in Sockets
      BY <2>2, <2>5 DEF TypeOK, Session
    <3> QED BY <2>1, <2>3, <2>5, <3>1
  <2>6. FreeIsUnbound'
    BY <2>1, <2>3
  <2> QED BY <2>4, <2>5, <2>6
<1>8. CASE Connections
  BY <1>2, <1>3, <1>4, <1>5, <1>6, <1>8 DEF Connections
<1>9. CASE Exchanges
  BY <1>1, <1>9 DEF Exchanges, Send, SendMessage, MessageReceived, MessageRejected, DeferAsk,
     CancelAsk, DeliveryTimeout, AskExpires, AskLapses, RecentLapses
<1>10. CASE Access
  BY <1>1, <1>7, <1>10 DEF Access, PrincipalLapses, RevokeSubtree, AdoptSubtree, Sweep,
     Subtree
<1>11. CASE Stop
  BY <1>11 DEF Stop
<1>12. CASE (ShutdownCheck /\ LiveIds # {}) \/ Start \/ UNCHANGED vars
  BY <1>1, <1>12 DEF ShutdownCheck, Start, vars
<1> QED BY <1>8, <1>9, <1>10, <1>11, <1>12 DEF Next, Crash, ShutdownCheck

\* The connection a client believes itself registered over is the one its
\* session is reached by, and a session's connection knows whose close to report.
THEOREM MatchCorrect == Spec => []SessionsMatchConnections
<1>1. Init => ConnectionsInv
  BY DEF Init, ConnectionsInv, FreeIsUnbound, SessionsMatchConnections, LiveIds, Live
<1>2. ConnectionsInv => SessionsMatchConnections
  BY DEF ConnectionsInv
<1> QED BY <1>1, <1>2, MatchStep, TypeCorrect, PTL DEF Spec

-----------------------------------------------------------------------------
(* Ask edges.                                                              *)

OnePer(E) ==
  \A e, f \in E : SameAsk(e, f) \/ (e.from = f.from /\ e.to = f.to) => e = f

AsksInv == AskFileIsCurrent /\ OnePer(asks) /\ OnePer(askFile)

\* No edge is new; some may have gone, and those of one session be deferred.
Narrowed ==
  \/ asks' \subseteq asks
  \/ \E E \in SUBSET asks, s \in SessionIds : asks' = Defer(E, s)

LEMMA OnePerDefer ==
  ASSUME NEW E \in SUBSET AskEdge, NEW s \in SessionIds, OnePer(E)
  PROVE  OnePer(Defer(E, s))
<1>1. \A e \in E :
        LET d == IF Touches(e, s) THEN [e EXCEPT !.state = "deferred"] ELSE e
        IN d.from = e.from /\ d.to = e.to /\ d.id = e.id
  BY DEF AskEdge
<1>2. ASSUME NEW c \in Defer(E, s), NEW d \in Defer(E, s),
             SameAsk(c, d) \/ (c.from = d.from /\ c.to = d.to)
      PROVE  c = d
  <2>1. PICK e \in E : c = IF Touches(e, s) THEN [e EXCEPT !.state = "deferred"] ELSE e
    BY DEF Defer
  <2>2. PICK f \in E : d = IF Touches(f, s) THEN [f EXCEPT !.state = "deferred"] ELSE f
    BY DEF Defer
  <2>3. SameAsk(e, f) \/ (e.from = f.from /\ e.to = f.to)
    BY <1>1, <1>2, <2>1, <2>2 DEF SameAsk
  <2>4. e = f
    BY <2>3 DEF OnePer
  <2> QED BY <2>1, <2>2, <2>4
<1> QED BY <1>2 DEF OnePer

LEMMA DetachAsks ==
  ASSUME NEW s \in SessionIds, NEW k, NEW known, Detach(s, k, known)
  PROVE  Narrowed /\ Persist
BY DEF Detach, Narrowed, AsksWithout

LEMMA DisconnectAsks ==
  ASSUME NEW changed, Disconnect(changed)
  PROVE  Narrowed /\ Persist
BY DEF Disconnect, Narrowed, AsksWithout, Clear

LEMMA ConnectionsAsks ==
  ASSUME TypeOK, Connections
  PROVE  UNCHANGED <<asks, askFile>> \/ (Narrowed /\ Persist)
<1>1. ASSUME Untouched
      PROVE  UNCHANGED <<asks, askFile>>
  BY <1>1 DEF Untouched, table
<1>2. ASSUME NEW k \in Sockets, SocketClose(k)
      PROVE  UNCHANGED <<asks, askFile>> \/ (Narrowed /\ Persist)
  BY <1>1, <1>2, DetachAsks DEF SocketClose, Holds, TypeOK
<1>3. ASSUME NEW k \in Sockets, NEW s \in SessionIds, NEW name \in Names,
             Register(k, s, name)
      PROVE  UNCHANGED <<asks, askFile>> \/ (Narrowed /\ Persist)
  BY <1>1, <1>3, DetachAsks DEF Register
<1>4. ASSUME NEW k \in Sockets, NEW preserveAsks \in BOOLEAN, Unregister(k, preserveAsks)
      PROVE  UNCHANGED <<asks, askFile>> \/ (Narrowed /\ Persist)
  <2>1. CASE Holds(k) /\ ~preserveAsks
    <3>1. asks' \subseteq asks /\ Persist
      BY <1>4, <2>1 DEF Unregister, AsksWithout, Clear
    <3> QED BY <3>1 DEF Narrowed
  <2>2. CASE ~(Holds(k) /\ ~preserveAsks)
    BY <1>1, <1>4, <2>2, DetachAsks DEF Unregister, Holds, TypeOK
  <2> QED BY <2>1, <2>2
<1> QED
  BY <1>1, <1>2, <1>3, <1>4 DEF Connections, Connect, RegistrationTimeout, Condemn, Rename

\* An ask that is let through is the only one of its id, and the only one
\* between its two sessions.
LEMMA SendAsks ==
  ASSUME TypeOK, OnePer(asks), NEW k \in Sockets, Send(k)
  PROVE  \/ UNCHANGED <<asks, askFile>>
         \/ /\ Persist
            /\ \/ asks' \subseteq asks
               \/ \E new \in AskEdge :
                    /\ asks' \subseteq asks \cup {new}
                    /\ new.state = "blocking" /\ Live(new.from) /\ Live(new.to)
                    /\ \A e \in asks' : ~(SameAsk(e, new) \/ (e.from = new.from /\ e.to = new.to))
                                          \/ e = new
<1>1. PICK x \in Sends :
        /\ Handles(k) /\ x.from = bound[k]
        /\ \/ SendDuplicate(k, x.from, x.msg)
           \/ SendReplayed(k, x.from, x.msg)
           \/ SendPending(k, x.from, x.msg)
           \/ SendRefused(k, x.from, x.msg)
           \/ \E d \in Deliveries : SendAccepted(k, x.from, x.msg, d)
  BY DEF Send, SendMessage
<1> DEFINE s == x.from
           m == x.msg
           A == AsksWithout(OutOfDate(s, m))
<1>2. s \in SessionIds /\ m \in Message /\ m.id \in MessageIds /\ Live(s)
  BY <1>1, SendsAssumption DEF Handles, Current, Message
<1>3. A \subseteq asks
  BY DEF AsksWithout
<1>4. CASE SendDuplicate(k, s, m) \/ SendReplayed(k, s, m) \/ SendPending(k, s, m)
  BY <1>4 DEF SendDuplicate, SendReplayed, SendPending
<1>5. CASE SendRefused(k, s, m)
  BY <1>3, <1>5 DEF SendRefused
<1>6. CASE \E d \in Deliveries : SendAccepted(k, s, m, d)
  <2>1. PICK d \in Deliveries : SendAccepted(k, s, m, d)
    BY <1>6
  <2>2. Refusal(k, s, m) = None /\ Persist
    BY <2>1 DEF SendAccepted
  <2>3. PICK t \in Recipients(s, m) : asks' = WithAsk(A, s, t, m)
    BY <2>1 DEF SendAccepted
  <2>4. t \in SessionIds /\ Live(t)
    BY DEF Recipients, Candidates, LiveIds, Authorized, Current
  <2>5. CASE ~m.expectsReply
    BY <1>3, <2>2, <2>3, <2>5 DEF WithAsk
  <2>6. CASE m.expectsReply
    <3> DEFINE new == [from |-> s, to |-> t, id |-> m.id, state |-> "blocking",
                       due |-> FALSE]
               R == Recipients(s, m)
    <3>1. asks' = {e \in A : ~SameAsk(e, new)} \cup {new}
      BY <2>3, <2>6 DEF WithAsk
    <3>2. new \in AskEdge
      BY <1>2, <2>4 DEF AskEdge
    <3>3. R \subseteq SessionIds
      BY DEF Recipients, Candidates, LiveIds
    <3>4. IsFiniteSet(R) /\ Cardinality(R) \in Nat
      BY <3>3, FiniteAssumption, FS_Subset, FS_CardinalityType
    <3>5. ~(Cardinality(R) > 1)
      BY <2>2, NoneAssumption DEF Refusal, Code
    <3>6. R = {t}
      <4>1. Cardinality(R) # 0
        BY <2>3, <3>4, FS_EmptySet
      <4>2. Cardinality(R) = 1
        BY <3>4, <3>5, <4>1
      <4> QED BY <2>3, <3>4, <4>2, FS_Singleton
    <3>7. (CHOOSE u \in R : TRUE) = t
      BY <3>6
    <3>8. Objection(k, s, t, m) = None
      <4>1. Refusal(k, s, m) =
              IF Crowded(s, pending \ OutOfDate(s, m)) THEN "TOO_MANY_PENDING_DELIVERIES"
              ELSE IF R = {} THEN "SESSION_NOT_FOUND"
              ELSE IF Cardinality(R) > 1 THEN "AMBIGUOUS_TARGET"
              ELSE Objection(k, s, CHOOSE u \in R : TRUE, m)
        BY DEF Refusal
      <4>2. None \notin {"TOO_MANY_PENDING_DELIVERIES", "SESSION_NOT_FOUND",
                        "AMBIGUOUS_TARGET"}
        BY NoneAssumption DEF Code
      <4>3. Refusal(k, s, m) = Objection(k, s, CHOOSE u \in R : TRUE, m)
        BY <2>2, <4>1, <4>2
      <4> HIDE DEF R
      <4> QED BY <2>2, <3>7, <4>3
    <3>9. \A e \in A : ~(e.from = s /\ e.to = t)
      BY <2>6, <3>8, NoneAssumption DEF Objection, Code
    <3>10. \A e \in asks' : ~(SameAsk(e, new) \/ (e.from = new.from /\ e.to = new.to))
                              \/ e = new
      BY <3>1, <3>9
    <3>11. asks' \subseteq asks \cup {new}
      BY <1>3, <3>1
    <3>12. new.state = "blocking" /\ Live(new.from) /\ Live(new.to)
      BY <1>2, <2>4
    <3> QED BY <2>2, <3>2, <3>10, <3>11, <3>12
  <2> QED BY <2>5, <2>6
<1> QED BY <1>1, <1>4, <1>5, <1>6

LEMMA AsksStep ==
  ASSUME TypeOK, AsksInv, [Next]_vars
  PROVE  AsksInv'
<1>1. ASSUME UNCHANGED <<asks, askFile>>, up' => up
      PROVE  AsksInv'
  BY <1>1 DEF AsksInv, AskFileIsCurrent, OnePer, SameAsk
<1>2. ASSUME Persist, OnePer(asks')
      PROVE  AsksInv'
  BY <1>2 DEF AsksInv, AskFileIsCurrent, Persist, OnePer, SameAsk
<1>3. ASSUME Persist, Narrowed
      PROVE  AsksInv'
  <2>1. CASE asks' \subseteq asks
    BY <1>2, <1>3, <2>1 DEF AsksInv, OnePer
  <2>2. CASE \E E \in SUBSET asks, s \in SessionIds : asks' = Defer(E, s)
    <3>1. PICK E \in SUBSET asks, s \in SessionIds : asks' = Defer(E, s)
      BY <2>2
    <3>2. E \in SUBSET AskEdge /\ OnePer(E)
      BY DEF TypeOK, AsksInv, OnePer
    <3> QED BY <1>2, <1>3, <3>1, <3>2, OnePerDefer
  <2> QED BY <1>3, <2>1, <2>2 DEF Narrowed
<1>4. CASE Connections
  <2>1. up' => up
    BY <1>4 DEF Connections, Connect, RegistrationTimeout, Condemn, SocketClose, Register,
                Unregister, Rename
  <2> QED BY <1>1, <1>3, <1>4, <2>1, ConnectionsAsks
<1>5. ASSUME NEW k \in Sockets, Send(k)
      PROVE  AsksInv'
  <2>1. OnePer(asks) /\ UNCHANGED up
    BY <1>5 DEF AsksInv, Send, SendMessage
  <2>2. ASSUME Persist, asks' \subseteq asks
        PROVE  AsksInv'
    BY <1>3, <2>2 DEF Narrowed
  <2>3. ASSUME Persist, NEW new \in AskEdge, asks' \subseteq asks \cup {new},
               \A e \in asks' : ~(SameAsk(e, new) \/ (e.from = new.from /\ e.to = new.to))
                                  \/ e = new
        PROVE  AsksInv'
    <3>1. OnePer(asks')
      BY <2>1, <2>3 DEF OnePer, SameAsk
    <3> QED BY <1>2, <2>3, <3>1
  <2> QED BY <1>1, <1>5, <2>1, <2>2, <2>3, SendAsks
<1>6. ASSUME NEW p, NEW code, Fail({p}, code)
      PROVE  AsksInv'
  BY <1>3, <1>6 DEF Fail, Narrowed, AsksWithout
<1>7. ASSUME NEW k \in Sockets, NEW p \in pending,
             MessageReceived(k, p) \/ MessageRejected(k, p)
      PROVE  AsksInv'
  <2>1. CASE StillValid(p) /\ MessageReceived(k, p)
    <3>1. Persist /\ asks' \subseteq asks
      BY <2>1 DEF MessageReceived
    <3> QED BY <1>3, <3>1 DEF Narrowed
  <2> QED BY <1>6, <1>7, <2>1 DEF MessageReceived, MessageRejected
<1>8. ASSUME NEW k \in Sockets, NEW e \in asks, DeferAsk(k, e)
      PROVE  AsksInv'
  <2>1. LET d == [e EXCEPT !.state = "deferred"]
        IN d.from = e.from /\ d.to = e.to /\ d.id = e.id
    BY DEF TypeOK, AskEdge
  <2>2. Persist /\ asks' = (asks \ {e}) \cup {[e EXCEPT !.state = "deferred"]}
    BY <1>8 DEF DeferAsk
  <2>3. OnePer(asks')
    <3> DEFINE d == [e EXCEPT !.state = "deferred"]
    <3>1. asks' = (asks \ {e}) \cup {d} /\ d.from = e.from /\ d.to = e.to /\ d.id = e.id
      BY <2>1, <2>2
    <3> HIDE DEF d
    <3> QED BY <3>1 DEF AsksInv, OnePer, SameAsk
  <2> QED BY <1>2, <2>2, <2>3
<1>9. ASSUME NEW e \in asks, AskExpires(e) \/ \E k \in Sockets : CancelAsk(k, e)
      PROVE  AsksInv'
  <2>1. Persist /\ asks' \subseteq asks
    BY <1>9 DEF CancelAsk, AskExpires
  <2> QED BY <1>3, <2>1 DEF Narrowed
<1>10. ASSUME NEW e \in askFile, AskLapses(e)
       PROVE  AsksInv'
  <2> DEFINE lapse(E) == {IF SameAsk(x, e) THEN [x EXCEPT !.due = TRUE] ELSE x : x \in E}
  <2>1. asks' = lapse(asks) /\ askFile' = lapse(askFile) /\ UNCHANGED up
    BY <1>10 DEF AskLapses
  <2>2. \A x \in AskEdge :
          LET y == IF SameAsk(x, e) THEN [x EXCEPT !.due = TRUE] ELSE x
          IN y.from = x.from /\ y.to = x.to /\ y.id = x.id
    BY DEF AskEdge
  <2>3. ASSUME NEW E \in SUBSET AskEdge, OnePer(E)
        PROVE  OnePer(lapse(E))
    <3>1. SUFFICES ASSUME NEW x \in E, NEW y \in E,
                          NEW c, c = IF SameAsk(x, e) THEN [x EXCEPT !.due = TRUE] ELSE x,
                          NEW d, d = IF SameAsk(y, e) THEN [y EXCEPT !.due = TRUE] ELSE y,
                          SameAsk(c, d) \/ (c.from = d.from /\ c.to = d.to)
                   PROVE  c = d
      BY DEF OnePer
    <3>2. SameAsk(x, y) \/ (x.from = y.from /\ x.to = y.to)
      BY <2>2, <3>1 DEF SameAsk
    <3>3. x = y
      BY <2>3, <3>2 DEF OnePer
    <3> QED BY <3>1, <3>3
  <2>4. OnePer(asks') /\ OnePer(askFile')
    BY <2>1, <2>3 DEF TypeOK, AsksInv
  <2>5. AskFileIsCurrent'
    BY <2>1 DEF AsksInv, AskFileIsCurrent
  <2> QED BY <2>4, <2>5 DEF AsksInv, OnePer, SameAsk
<1>11. CASE Exchanges
  <2>1. CASE \E r \in recent : RecentLapses(r)
    BY <1>1, <2>1 DEF RecentLapses
  <2>2. CASE \E p \in pending : DeliveryTimeout(p)
    BY <1>6, <2>2 DEF DeliveryTimeout
  <2> QED BY <1>5, <1>7, <1>8, <1>9, <1>10, <1>11, <2>1, <2>2 DEF Exchanges
<1>12. CASE Access
  <2>1. CASE \E r \in Remote : PrincipalLapses(r)
    BY <1>1, <2>1 DEF PrincipalLapses, table
  <2>2. CASE \E changed : Disconnect(changed)
    BY <1>3, <2>2, DisconnectAsks
  <2> QED BY <1>12, <2>1, <2>2 DEF Access, RevokeSubtree, AdoptSubtree, Sweep
<1>13. CASE Stop
  BY <1>13 DEF Stop, AsksInv, AskFileIsCurrent, OnePer, SameAsk
<1>14. CASE Start
  <2>1. OnePer(Loaded(askFile))
    <3>1. SUFFICES ASSUME NEW x \in askFile, NEW y \in askFile,
                          NEW c, c = [x EXCEPT !.state = "deferred"],
                          NEW d, d = [y EXCEPT !.state = "deferred"],
                          SameAsk(c, d) \/ (c.from = d.from /\ c.to = d.to)
                   PROVE  c = d
      BY DEF OnePer, Loaded
    <3>2. \A z \in askFile : LET w == [z EXCEPT !.state = "deferred"]
                             IN w.from = z.from /\ w.to = z.to /\ w.id = z.id
      BY DEF TypeOK, AskEdge
    <3>3. SameAsk(x, y) \/ (x.from = y.from /\ x.to = y.to)
      BY <3>1, <3>2 DEF SameAsk
    <3> QED BY <3>1, <3>3 DEF AsksInv, OnePer
  <2> QED BY <1>2, <1>14, <2>1 DEF Start
<1>15. CASE (ShutdownCheck /\ LiveIds # {}) \/ UNCHANGED vars
  BY <1>1, <1>15 DEF ShutdownCheck, Untouched, table, vars
<1> QED
  BY <1>4, <1>11, <1>12, <1>13, <1>14, <1>15 DEF Next, Crash, ShutdownCheck

\* One ask edge per message and per pair of sessions, in memory: a restart
\* brings none back beside a newer one, because the file never holds two.
THEOREM OneAskCorrect == Spec => []OneAskPerPair
<1>1. Init => AsksInv
  BY DEF Init, AsksInv, AskFileIsCurrent, OnePer
<1>2. AsksInv => OneAskPerPair
  BY DEF AsksInv, OnePer, OneAskPerPair
<1> QED BY <1>1, <1>2, AsksStep, TypeCorrect, PTL DEF Spec

\* Between any two handlers the ask file holds what the memory holds, so that a
\* kill at any moment loses no ask and revives none.
THEOREM AskFileCorrect == Spec => []AskFileIsCurrent
<1>1. Init => AsksInv
  BY DEF Init, AsksInv, AskFileIsCurrent, OnePer
<1>2. AsksInv => AskFileIsCurrent
  BY DEF AsksInv
<1> QED BY <1>1, <1>2, AsksStep, TypeCorrect, PTL DEF Spec

-----------------------------------------------------------------------------
(* Blocking asks and live sessions.                                        *)

\* The blocking asks after the step were blocking before it.
NoneBlocksAnew == \A e \in asks' : e.state = "blocking" => e \in asks

LEMMA DeferBlocks ==
  ASSUME NEW E \in SUBSET AskEdge, NEW s \in SessionIds,
         NEW e \in Defer(E, s), e.state = "blocking"
  PROVE  e \in E /\ ~Touches(e, s)
<1>1. PICK x \in E : e = IF Touches(x, s) THEN [x EXCEPT !.state = "deferred"] ELSE x
  BY DEF Defer
<1>2. ~Touches(x, s)
  BY <1>1 DEF AskEdge
<1> QED BY <1>1, <1>2

LEMMA SessionDetached ==
  ASSUME TypeOK, NEW s \in SessionIds, NEW k, NEW known, Detach(s, k, known),
         NEW e \in asks', e.state = "blocking"
  PROVE  e \in asks /\ e.from # s /\ e.to # s
<1>1. AsksWithout(OverSocket(s, k)) \in SUBSET AskEdge /\ AsksWithout(OverSocket(s, k)) \subseteq asks
  BY DEF AsksWithout, TypeOK
<1> QED BY <1>1, DeferBlocks DEF Detach, Touches

LEMMA BlockingStep ==
  ASSUME TypeOK, TypeOK', OnePer(asks), BlockingAskIsLive, [Next]_vars
  PROVE  BlockingAskIsLive'
<1> USE DEF BlockingAskIsLive, Live
<1>1. \A e \in asks : e.from \in SessionIds /\ e.to \in SessionIds
  BY DEF TypeOK, AskEdge
<1>2. ASSUME NoneBlocksAnew, UNCHANGED sessions
      PROVE  BlockingAskIsLive'
  BY <1>2 DEF NoneBlocksAnew
<1>3. ASSUME UNCHANGED <<asks, sessions>>
      PROVE  BlockingAskIsLive'
  BY <1>3
<1>4. ASSUME NEW s \in SessionIds,
             \A e \in asks' : e.state = "blocking" => e \in asks /\ e.from # s /\ e.to # s,
             \A x \in SessionIds \ {s} : sessions'[x] = sessions[x]
      PROVE  BlockingAskIsLive'
  BY <1>1, <1>4
<1>5. ASSUME NEW k \in Sockets, SocketClose(k)
      PROVE  BlockingAskIsLive'
  <2>1. CASE Holds(k)
    <3>1. bound[k] \in SessionIds /\ Detach(bound[k], k, sessions')
          /\ sessions' = [sessions EXCEPT ![bound[k]] = None]
      BY <1>5, <2>1 DEF SocketClose, Holds, TypeOK
    <3>2. \A x \in SessionIds \ {bound[k]} : sessions'[x] = sessions[x]
      BY <3>1 DEF TypeOK
    <3> QED BY <1>4, <3>1, <3>2, SessionDetached
  <2>2. CASE ~Holds(k)
    BY <1>3, <1>5, <2>2 DEF SocketClose, Untouched, table
  <2> QED BY <2>1, <2>2
<1>6. ASSUME NEW k \in Sockets, NEW s \in SessionIds, NEW name \in Names,
             Register(k, s, name)
      PROVE  BlockingAskIsLive'
  <2>1. \A x \in SessionIds \ {s} : sessions'[x] = sessions[x]
    BY <1>6 DEF Register, TypeOK
  <2>2. CASE Live(s)
    <3>1. Detach(s, sessions[s].socket, sessions)
      BY <1>6, <2>2 DEF Register
    <3> QED BY <1>4, <2>1, <3>1, SessionDetached
  <2>3. CASE ~Live(s)
    <3>1. UNCHANGED asks
      BY <1>6, <2>3 DEF Register, Untouched, table
    <3>2. \A e \in asks : e.state = "blocking" => e.from # s /\ e.to # s
      BY <2>3
    <3> QED BY <1>4, <2>1, <3>1, <3>2
  <2> QED BY <2>2, <2>3
<1>7. ASSUME NEW k \in Sockets, NEW preserveAsks \in BOOLEAN, Unregister(k, preserveAsks)
      PROVE  BlockingAskIsLive'
  <2>1. CASE Holds(k)
    <3> DEFINE s == bound[k]
    <3>1. s \in SessionIds /\ sessions' = [sessions EXCEPT ![s] = None]
      BY <1>7, <2>1 DEF Unregister, Holds, TypeOK
    <3>2. \A x \in SessionIds \ {s} : sessions'[x] = sessions[x]
      BY <3>1 DEF TypeOK
    <3>3. CASE preserveAsks
      BY <1>4, <1>7, <2>1, <3>1, <3>2, <3>3, SessionDetached DEF Unregister
    <3>4. CASE ~preserveAsks
      <4>1. asks' = Clear(AsksWithout(OverSocket(s, k)), {s})
        BY <1>7, <2>1, <3>4 DEF Unregister
      <4>2. \A e \in asks' : e \in asks /\ e.from # s /\ e.to # s
        BY <4>1 DEF Clear, AsksWithout
      <4> QED BY <1>4, <3>1, <3>2, <4>2
    <3> QED BY <3>3, <3>4
  <2>2. CASE ~Holds(k)
    BY <1>3, <1>7, <2>2 DEF Unregister, Untouched, table
  <2> QED BY <2>1, <2>2
<1>8. ASSUME NEW k \in Sockets, NEW name \in Names, Rename(k, name)
      PROVE  BlockingAskIsLive'
  <2>1. bound[k] \in SessionIds /\ sessions[bound[k]] \in Session
    BY <1>8 DEF Rename, Handles, Current, TypeOK
  <2>2. [sessions[bound[k]] EXCEPT !.name = name] \in Session
    BY <2>1 DEF Session
  <2>3. \A x \in SessionIds : sessions[x] # None => sessions'[x] # None
    BY <1>8, <2>1, <2>2, NoneAssumption DEF Rename, TypeOK
  <2>4. UNCHANGED asks
    BY <1>8 DEF Rename, Untouched, table
  <2> QED BY <1>1, <2>3, <2>4
<1>9. CASE Connections
  <2>1. CASE \E k \in Sockets : Connect(k) \/ RegistrationTimeout(k) \/ Condemn(k)
    BY <1>3, <2>1 DEF Connect, RegistrationTimeout, Condemn, Untouched, table
  <2> QED BY <1>5, <1>6, <1>7, <1>8, <1>9, <2>1 DEF Connections
<1>10. ASSUME NEW changed \in SUBSET Remote, Disconnect(changed)
       PROVE  BlockingAskIsLive'
  <2> DEFINE gone == {s \in changed : Live(s)}
             D == UNION {OverSocket(s, sessions[s].socket) : s \in gone}
  <2>1. asks' = Clear(AsksWithout(D), gone)
    BY <1>10 DEF Disconnect
  <2>2. \A e \in asks' : e \in asks /\ e.from \notin gone /\ e.to \notin gone
    BY <2>1 DEF Clear, AsksWithout
  <2>3. \A x \in SessionIds \ gone : sessions'[x] = sessions[x]
    BY <1>10 DEF Disconnect
  <2> QED BY <1>1, <2>2, <2>3
<1>11. CASE Access
  <2>1. CASE \E r \in Remote : PrincipalLapses(r)
    BY <1>3, <2>1 DEF PrincipalLapses, table
  <2> QED BY <1>10, <1>11, <2>1 DEF Access, RevokeSubtree, AdoptSubtree, Sweep, Subtree
<1>12. ASSUME NEW k \in Sockets, Send(k)
       PROVE  BlockingAskIsLive'
  <2>1. UNCHANGED sessions
    BY <1>12 DEF Send, SendMessage
  <2>2. CASE asks' \subseteq asks
    BY <1>2, <2>1, <2>2 DEF NoneBlocksAnew
  <2>3. CASE \E new \in AskEdge : /\ asks' \subseteq asks \cup {new}
                                  /\ Live(new.from) /\ Live(new.to)
    BY <2>1, <2>3
  <2> QED BY <1>12, <2>2, <2>3, SendAsks
<1>13. CASE Exchanges
  <2>1. ASSUME NEW e \in AskEdge
        PROVE  /\ [e EXCEPT !.state = "deferred"].state = "deferred"
               /\ LET d == [e EXCEPT !.due = TRUE]
                  IN d.from = e.from /\ d.to = e.to /\ d.state = e.state
    BY DEF AskEdge
  <2>2. ASSUME NEW k \in Sockets, NEW e \in asks, DeferAsk(k, e)
        PROVE  BlockingAskIsLive'
    <3>1. e \in AskEdge
      BY DEF TypeOK
    <3>2. NoneBlocksAnew /\ UNCHANGED sessions
      BY <2>1, <2>2, <3>1 DEF DeferAsk, NoneBlocksAnew
    <3> QED BY <1>2, <3>2
  <2>3. ASSUME NEW e \in askFile, AskLapses(e)
        PROVE  BlockingAskIsLive'
    <3>1. UNCHANGED sessions /\ asks \subseteq AskEdge
      BY <2>3 DEF AskLapses, TypeOK
    <3>2. ASSUME NEW d \in asks'
          PROVE  \E x \in asks : d.from = x.from /\ d.to = x.to /\ d.state = x.state
      <4>1. PICK x \in asks : d = IF SameAsk(x, e) THEN [x EXCEPT !.due = TRUE] ELSE x
        BY <2>3 DEF AskLapses
      <4> QED BY <2>1, <3>1, <4>1
    <3> QED BY <3>1, <3>2
  <2>4. CASE \/ \E k \in Sockets : \/ \E p \in pending : MessageReceived(k, p) \/ MessageRejected(k, p)
                                   \/ \E e \in asks : CancelAsk(k, e)
             \/ \E p \in pending : DeliveryTimeout(p)
             \/ \E e \in asks : AskExpires(e)
             \/ \E r \in recent : RecentLapses(r)
    <3>1. asks' \subseteq asks /\ UNCHANGED sessions
      BY <2>4 DEF MessageReceived, MessageRejected, DeliveryTimeout, Fail, AsksWithout,
                  CancelAsk, AskExpires, RecentLapses
    <3> QED BY <1>2, <3>1 DEF NoneBlocksAnew
  <2> QED BY <1>12, <1>13, <2>2, <2>3, <2>4 DEF Exchanges
<1>14. CASE Stop
  BY <1>14 DEF Stop
<1>15. CASE Start
  <2>1. ASSUME NEW e \in Loaded(askFile)
        PROVE  e.state = "deferred"
    BY DEF Loaded, TypeOK, AskEdge
  <2> QED BY <1>15, <2>1 DEF Start
<1>16. CASE (ShutdownCheck /\ LiveIds # {}) \/ UNCHANGED vars
  BY <1>3, <1>16 DEF ShutdownCheck, Untouched, table, vars
<1> QED
  BY <1>9, <1>11, <1>13, <1>14, <1>15, <1>16 DEF Next, Crash, ShutdownCheck

\* A blocking ask always has two registered ends: nobody is kept waiting by a
\* session that is gone, whichever way it went.
THEOREM BlockingCorrect == Spec => []BlockingAskIsLive
<1>1. Init => AsksInv /\ BlockingAskIsLive
  BY DEF Init, AsksInv, AskFileIsCurrent, OnePer, BlockingAskIsLive
<1>2. AsksInv => OnePer(asks)
  BY DEF AsksInv
<1> QED BY <1>1, <1>2, AsksStep, BlockingStep, TypeCorrect, PTL DEF Spec

-----------------------------------------------------------------------------
(* What is remembered and what is pending.                                 *)

\* A settled delivery in the memory was there before, or failed, or has just
\* left the pending ones.
RememberedRightly ==
  \A r \in recent' :
    \/ r.retryable
    \/ \E q \in recent : SameKey(q, r) /\ q.retryable = r.retryable
    \/ \E p \in pending \ pending' : SameKey(r, p)

LEMMA FailuresRemembered ==
  ASSUME NEW D, NEW R \in SUBSET recent, recent' \subseteq RecentWith(R, D, TRUE)
  PROVE  /\ RememberedRightly
         /\ \A r \in recent' : r \in R \/ r.retryable
<1>1. \A r \in recent' : r \in R \/ r.retryable
  BY DEF RecentWith, Settle
<1> QED BY <1>1 DEF RememberedRightly, SameKey

LEMMA DetachRemembers ==
  ASSUME NEW s, NEW k, NEW known, Detach(s, k, known)
  PROVE  RememberedRightly
BY FailuresRemembered DEF Detach, Drop

LEMMA ConnectionsRemember ==
  ASSUME Connections
  PROVE  RememberedRightly
<1>1. ASSUME UNCHANGED recent
      PROVE  RememberedRightly
  BY <1>1 DEF RememberedRightly, SameKey
<1>2. ASSUME NEW k \in Sockets, NEW preserveAsks \in BOOLEAN, Unregister(k, preserveAsks)
      PROVE  RememberedRightly
  <2>1. CASE Holds(k) /\ ~preserveAsks
    <3>1. recent' = RecentWith(recent, OverSocket(bound[k], k), TRUE)
      BY <1>2, <2>1 DEF Unregister, Drop
    <3> QED BY <3>1, FailuresRemembered
  <2>2. CASE ~(Holds(k) /\ ~preserveAsks)
    BY <1>1, <1>2, <2>2, DetachRemembers DEF Unregister, Untouched, table
  <2> QED BY <2>1, <2>2
<1> QED
  BY <1>1, <1>2, DetachRemembers DEF Connections, Connect, RegistrationTimeout, Condemn,
     SocketClose, Register, Rename, Untouched, table

LEMMA ExchangesRemember ==
  ASSUME TypeOK, Exchanges, ~\E k \in Sockets : Send(k)
  PROVE  RememberedRightly
<1>1. ASSUME UNCHANGED recent
      PROVE  RememberedRightly
  BY <1>1 DEF RememberedRightly, SameKey
<1>2. ASSUME NEW p, NEW code, Fail({p}, code)
      PROVE  RememberedRightly
  <2>1. recent' = RecentWith(recent, {p}, TRUE)
    BY <1>2 DEF Fail, Drop
  <2> QED BY <2>1, FailuresRemembered
<1>3. ASSUME NEW k \in Sockets, NEW p \in pending, MessageReceived(k, p)
      PROVE  RememberedRightly
  <2>1. CASE StillValid(p)
    <3>1. recent' = RecentWith(recent, {p}, FALSE) /\ p \in pending \ pending'
      BY <1>3, <2>1 DEF MessageReceived
    <3>2. \A r \in recent' : r \in recent \/ SameKey(r, p)
      BY <3>1 DEF RecentWith, Settle, SameKey
    <3> QED BY <3>1, <3>2 DEF RememberedRightly, SameKey
  <2>2. CASE ~StillValid(p)
    BY <1>2, <1>3, <2>2 DEF MessageReceived
  <2> QED BY <2>1, <2>2
<1>4. ASSUME NEW q \in recent, RecentLapses(q)
      PROVE  RememberedRightly
  <2> DEFINE lapsed == [q EXCEPT !.lapsed = TRUE]
  <2>1. lapsed.from = q.from /\ lapsed.msg = q.msg /\ lapsed.retryable = q.retryable
    BY DEF TypeOK, Settled
  <2>2. recent' = (recent \ {q}) \cup {lapsed}
    BY <1>4 DEF RecentLapses
  <2>3. SameKey(q, lapsed)
    BY <2>1 DEF SameKey
  <2> HIDE DEF lapsed
  <2>4. \A r \in recent : SameKey(r, r)
    BY DEF SameKey
  <2> QED BY <2>1, <2>2, <2>3, <2>4 DEF RememberedRightly
<1>5. CASE \/ \E p \in pending : DeliveryTimeout(p)
           \/ \E k \in Sockets, p \in pending : MessageRejected(k, p)
  BY <1>2, <1>5 DEF DeliveryTimeout, MessageRejected
<1>6. CASE \/ \E e \in asks : AskExpires(e) \/ \E k \in Sockets : DeferAsk(k, e) \/ CancelAsk(k, e)
           \/ \E e \in askFile : AskLapses(e)
  BY <1>1, <1>6 DEF AskExpires, DeferAsk, CancelAsk, AskLapses
<1> QED BY <1>3, <1>4, <1>5, <1>6 DEF Exchanges

LEMMA AccessRemembers ==
  ASSUME Access
  PROVE  RememberedRightly
<1>1. ASSUME NEW changed, Disconnect(changed)
      PROVE  RememberedRightly
  <2> DEFINE D == UNION {OverSocket(s, sessions[s].socket) : s \in {x \in changed : Live(x)}}
  <2>1. recent' \subseteq RecentWith(recent, D, TRUE)
    BY <1>1 DEF Disconnect
  <2> QED BY <2>1, FailuresRemembered
<1>2. UNCHANGED recent => RememberedRightly
  BY DEF RememberedRightly, SameKey
<1> QED
  BY <1>1, <1>2 DEF Access, PrincipalLapses, RevokeSubtree, AdoptSubtree, Sweep, table

LEMMA DeliveredStep ==
  ASSUME TypeOK, PendingIndexed, DeliveredIsNotPending, [Next]_vars
  PROVE  DeliveredIsNotPending'
<1>1. ASSUME RememberedRightly, pending' \subseteq pending
      PROVE  DeliveredIsNotPending'
  <2> SUFFICES ASSUME NEW r \in recent', NEW p \in pending', SameKey(r, p), ~r.retryable
               PROVE  FALSE
    BY DEF DeliveredIsNotPending, SameKey
  <2>1. CASE \E q \in recent : SameKey(q, r) /\ q.retryable = r.retryable
    BY <1>1, <2>1 DEF DeliveredIsNotPending, SameKey
  <2>2. CASE \E q \in pending \ pending' : SameKey(r, q)
    <3>1. PICK q \in pending \ pending' : SameKey(r, q)
      BY <2>2
    <3>2. p \in pending /\ SameKey(p, q)
      BY <1>1, <3>1 DEF SameKey
    <3> QED BY <3>1, <3>2 DEF PendingIndexed
  <2>3. \/ r.retryable
        \/ \E q \in recent : SameKey(q, r) /\ q.retryable = r.retryable
        \/ \E q \in pending \ pending' : SameKey(r, q)
    BY <1>1 DEF RememberedRightly
  <2>4. ~r.retryable
    OBVIOUS
  <2> QED BY <2>1, <2>2, <2>3, <2>4
<1>2. UNCHANGED recent => RememberedRightly
  BY DEF RememberedRightly, SameKey
<1>3. CASE Connections
  BY <1>1, <1>3, ConnectionsRemember, ConnectionsTables DEF Dropped
<1>4. CASE Access
  BY <1>1, <1>4, AccessRemembers, AccessTables, DisconnectDrops DEF Dropped
<1>5. CASE Exchanges /\ ~\E k \in Sockets : Send(k)
  BY <1>1, <1>5, ExchangesRemember, ExchangesTables DEF Dropped
<1>6. ASSUME NEW k \in Sockets, Send(k)
      PROVE  DeliveredIsNotPending'
  <2>1. PICK x \in Sends :
          \/ SendDuplicate(k, x.from, x.msg)
          \/ SendReplayed(k, x.from, x.msg)
          \/ SendPending(k, x.from, x.msg)
          \/ SendRefused(k, x.from, x.msg)
          \/ \E d \in Deliveries : SendAccepted(k, x.from, x.msg, d)
    BY <1>6 DEF Send, SendMessage
  <2> DEFINE s == x.from
             m == x.msg
             D == OutOfDate(s, m)
  <2>2. Remembered(s, m) \subseteq recent
    BY DEF Remembered, Fresh
  <2>3. CASE SendDuplicate(k, s, m) \/ SendReplayed(k, s, m) \/ SendPending(k, s, m)
    <3>1. recent' \subseteq recent /\ UNCHANGED pending
      BY <2>2, <2>3 DEF SendDuplicate, SendReplayed, SendPending
    <3> QED BY <1>1, <3>1 DEF RememberedRightly, SameKey
  <2>4. CASE SendRefused(k, s, m)
    <3>1. recent' = RecentWith(Remembered(s, m), D, TRUE) /\ pending' \subseteq pending
      BY <2>4 DEF SendRefused, Drop
    <3> QED BY <1>1, <2>2, <3>1, FailuresRemembered
  <2>5. CASE \E d \in Deliveries : SendAccepted(k, s, m, d)
    <3>1. PICK d \in Deliveries : SendAccepted(k, s, m, d)
      BY <2>5
    <3>2. recent' = RecentWith(Remembered(s, m), D, TRUE)
      BY <3>1 DEF SendAccepted
    <3>3. ASSUME NEW r \in recent', ~r.retryable
          PROVE  r \in recent /\ ~(r.from = s /\ r.msg.id = m.id)
      <4>1. r \in Remembered(s, m)
        BY <2>2, <3>2, <3>3, FailuresRemembered
      <4>2. Remembered(s, m) = Fresh \ RecentOf(s, m)
        BY <3>1 DEF SendAccepted, IsNew, Remembered
      <4> QED BY <4>1, <4>2 DEF Fresh, RecentOf
    <3>4. PICK t : Admitted(k, s, t, m, d)
      BY <3>1 DEF SendAccepted, Admitted
    <3>5. \A p \in pending' : p \in pending \/ (p.from = s /\ p.msg = m)
      BY <3>4 DEF Admitted
    <3> QED BY <3>3, <3>5 DEF DeliveredIsNotPending, SameKey
  <2> QED BY <2>1, <2>3, <2>4, <2>5
<1>7. CASE Stop
  BY <1>7 DEF Stop, DeliveredIsNotPending
<1>8. CASE (ShutdownCheck /\ LiveIds # {}) \/ Start \/ UNCHANGED vars
  BY <1>1, <1>2, <1>8 DEF ShutdownCheck, Start, Untouched, table, vars
<1> QED
  BY <1>3, <1>4, <1>5, <1>6, <1>7, <1>8 DEF Next, Crash, ShutdownCheck

\* A message the broker remembers as delivered is not on its way again: its
\* replay is answered from memory, or made after the memory of it has gone.
THEOREM DeliveredCorrect == Spec => []DeliveredIsNotPending
<1>1. Init => DeliveredIsNotPending /\ PendingIndexed
  BY DEF Init, DeliveredIsNotPending, PendingIndexed
<1> QED BY <1>1, IndexStep, DeliveredStep, TypeCorrect, PTL DEF Spec
=============================================================================
