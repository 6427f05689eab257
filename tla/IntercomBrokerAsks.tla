------------------------- MODULE IntercomBrokerAsks -------------------------
(***************************************************************************)
(* What becomes of asks and of deliveries: nobody waits in a circle, a     *)
(* failed ask is closed, the tables keep their limits, and whoever is      *)
(* concerned is told.                                                      *)
(***************************************************************************)
EXTENDS IntercomBrokerSafety

-----------------------------------------------------------------------------
(* What a step does to the deliveries, the asks and the memory together.   *)

\* Without a process there is nothing in memory.
DownIsEmpty == ~up => pending = {} /\ recent = {} /\ asks = {}

\* Every edge after the step was there before it, none of a delivery of D, and
\* none that was deferred blocks.
EdgesFrom(D) ==
  \A e \in asks' : \E x \in AsksWithout(D) :
    /\ x.from = e.from /\ x.to = e.to /\ x.id = e.id
    /\ e.state = "blocking" => x.state = "blocking"

\* What it remembers as failed, and has not forgotten, it did before, or is of D.
FailuresFrom(D) ==
  \A r \in recent' : r.retryable /\ ~r.lapsed =>
    \/ \E p \in D : r.from = p.from /\ r.msg = p.msg
    \/ r \in recent /\ \A p \in D : ~SameKey(r, p)

\* The deliveries of D fail.
Withdraws(D) ==
  D \subseteq pending /\ pending' = pending \ D /\ EdgesFrom(D) /\ FailuresFrom(D)

\* One is acknowledged.
Receives(p) ==
  /\ p \in pending /\ pending' = pending \ {p}
  /\ asks' = {e \in asks : ~(e.from = p.to /\ e.id = p.msg.replyTo)}
  /\ \A r \in recent' : r.retryable => r \in recent /\ ~SameKey(r, p)

\* One is admitted.
Accepts(k, s, t, m, d) ==
  /\ Admitted(k, s, t, m, d)
  /\ asks' = WithAsk(AsksWithout(OutOfDate(s, m)), s, t, m)
  /\ FailuresFrom(OutOfDate(s, m))
  /\ ~Crowded(s, pending \ OutOfDate(s, m))
  /\ Objection(k, s, t, m) = None

\* The process ends or begins.
Restarts ==
  /\ pending' = {} /\ recent' = {}
  /\ \A e \in asks' : e.state = "deferred" /\ \E x \in askFile : SameAsk(x, e)

LEMMA NothingWithdrawn ==
  ASSUME UNCHANGED pending, recent' \subseteq recent, asks' \subseteq asks
  PROVE  Withdraws({})
BY DEF Withdraws, EdgesFrom, FailuresFrom, AsksWithout

LEMMA FailuresOf ==
  ASSUME NEW D, NEW R \in SUBSET recent, recent' \subseteq RecentWith(R, D, TRUE)
  PROVE  FailuresFrom(D)
BY DEF FailuresFrom, RecentWith, Settle

LEMMA DeferredEdges ==
  ASSUME TypeOK, NEW D, NEW s, asks' = Defer(AsksWithout(D), s)
  PROVE  EdgesFrom(D)
<1> SUFFICES ASSUME NEW e \in asks'
             PROVE  \E x \in AsksWithout(D) :
                      /\ x.from = e.from /\ x.to = e.to /\ x.id = e.id
                      /\ e.state = "blocking" => x.state = "blocking"
  BY DEF EdgesFrom
<1>1. PICK x \in AsksWithout(D) :
        e = IF Touches(x, s) THEN [x EXCEPT !.state = "deferred"] ELSE x
  BY DEF Defer
<1>2. x \in AskEdge
  BY DEF AsksWithout, TypeOK
<1>3. x.from = e.from /\ x.to = e.to /\ x.id = e.id
  BY <1>1, <1>2 DEF AskEdge
<1>4. e.state = "blocking" => x.state = "blocking"
  BY <1>1, <1>2 DEF AskEdge
<1> QED
  BY <1>3, <1>4

LEMMA DetachWithdraws ==
  ASSUME TypeOK, NEW s, NEW k, NEW known, Detach(s, k, known)
  PROVE  Withdraws(OverSocket(s, k))
<1> DEFINE D == OverSocket(s, k)
<1>1. EdgesFrom(D)
  BY DeferredEdges DEF Detach
<1>2. FailuresFrom(D)
  BY FailuresOf DEF Detach, Drop
<1> QED
  BY <1>1, <1>2 DEF Detach, Drop, Withdraws, OverSocket

LEMMA FewerEdges ==
  ASSUME NEW D, asks' \subseteq AsksWithout(D)
  PROVE  EdgesFrom(D)
BY DEF EdgesFrom

LEMMA FailWithdraws ==
  ASSUME NEW D \in SUBSET pending, NEW code, Fail(D, code)
  PROVE  Withdraws(D)
BY FewerEdges, FailuresOf DEF Fail, Drop, Withdraws

LEMMA DisconnectWithdraws ==
  ASSUME NEW changed, Disconnect(changed)
  PROVE  \E D : Withdraws(D)
<1> DEFINE gone == {s \in changed : Live(s)}
           D == UNION {OverSocket(s, sessions[s].socket) : s \in gone}
<1>1. D \subseteq pending /\ pending' = pending \ D
  BY DEF Disconnect, OverSocket
<1>2. asks' \subseteq AsksWithout(D)
  BY DEF Disconnect, Clear
<1>3. recent' \subseteq RecentWith(recent, D, TRUE)
  BY DEF Disconnect
<1> QED
  BY <1>1, <1>2, <1>3, FewerEdges, FailuresOf DEF Withdraws

LEMMA ConnectionsWithdraw ==
  ASSUME TypeOK, Connections
  PROVE  \E D : Withdraws(D)
<1>1. Untouched => Withdraws({})
  BY NothingWithdrawn DEF Untouched, table
<1>2. ASSUME NEW k \in Sockets, NEW preserveAsks \in BOOLEAN, Unregister(k, preserveAsks)
      PROVE  \E D : Withdraws(D)
  <2>1. CASE Holds(k) /\ ~preserveAsks
    <3> DEFINE D == OverSocket(bound[k], k)
    <3>1. Drop(D, recent) /\ asks' \subseteq AsksWithout(D)
      BY <1>2, <2>1 DEF Unregister, Clear
    <3>2. Withdraws(D)
      BY <3>1, FewerEdges, FailuresOf DEF Withdraws, Drop, OverSocket
    <3> QED
      BY <3>2
  <2>2. CASE ~(Holds(k) /\ ~preserveAsks)
    BY <1>1, <1>2, <2>2, DetachWithdraws DEF Unregister
  <2> QED
    BY <2>1, <2>2
<1> QED
  BY <1>1, <1>2, DetachWithdraws
  DEF Connections, Connect, RegistrationTimeout, Condemn, SocketClose, Register, Rename

\* Nothing stands against a message that is let through.
LEMMA LetThrough ==
  ASSUME NEW k, NEW s, NEW m, NEW t \in Recipients(s, m), Refusal(k, s, m) = None
  PROVE  ~Crowded(s, pending \ OutOfDate(s, m)) /\ Objection(k, s, t, m) = None
<1> DEFINE R == Recipients(s, m)
<1>1. Refusal(k, s, m) =
        IF Crowded(s, pending \ OutOfDate(s, m)) THEN "TOO_MANY_PENDING_DELIVERIES"
        ELSE IF R = {} THEN "SESSION_NOT_FOUND"
        ELSE IF Cardinality(R) > 1 THEN "AMBIGUOUS_TARGET"
        ELSE Objection(k, s, CHOOSE u \in R : TRUE, m)
  BY DEF Refusal
<1>2. None \notin {"TOO_MANY_PENDING_DELIVERIES", "SESSION_NOT_FOUND", "AMBIGUOUS_TARGET"}
  BY NoneAssumption DEF Code
<1>3. t \in R
  OBVIOUS
<1>4. IsFiniteSet(R) /\ Cardinality(R) \in Nat
  <2>1. R \subseteq SessionIds
    BY DEF Recipients, Candidates, LiveIds
  <2> QED
    BY <2>1, FiniteAssumption, FS_Subset, FS_CardinalityType
<1> HIDE DEF R
<1>5. /\ ~Crowded(s, pending \ OutOfDate(s, m)) /\ ~(Cardinality(R) > 1)
      /\ Objection(k, s, CHOOSE u \in R : TRUE, m) = None
  BY <1>1, <1>2, <1>3
<1>6. R = {t}
  <2>1. Cardinality(R) # 0
    BY <1>3, <1>4, FS_EmptySet
  <2>2. Cardinality(R) = 1
    BY <1>4, <1>5, <2>1
  <2> QED
    BY <1>3, <1>4, <2>2, FS_Singleton
<1>7. (CHOOSE u \in R : TRUE) = t
  BY <1>6
<1> QED
  BY <1>5, <1>7

LEMMA SendStep ==
  ASSUME TypeOK, NEW k \in Sockets, Send(k)
  PROVE  \/ \E D : Withdraws(D)
         \/ \E s \in SessionIds, t \in SessionIds, m \in Message, d \in Deliveries :
              Accepts(k, s, t, m, d)
<1>1. PICK x \in Sends :
        \/ SendDuplicate(k, x.from, x.msg)
        \/ SendReplayed(k, x.from, x.msg)
        \/ SendPending(k, x.from, x.msg)
        \/ SendRefused(k, x.from, x.msg)
        \/ \E d \in Deliveries : SendAccepted(k, x.from, x.msg, d)
  BY DEF Send, SendMessage
<1> DEFINE s == x.from
           m == x.msg
           D == OutOfDate(s, m)
<1>2. s \in SessionIds /\ m \in Message /\ D \subseteq pending
  BY SendsAssumption DEF OutOfDate, PendingOf
<1>3. Remembered(s, m) \subseteq recent
  BY DEF Remembered, Fresh
<1>4. CASE SendDuplicate(k, s, m) \/ SendReplayed(k, s, m) \/ SendPending(k, s, m)
  <2>1. Withdraws({})
    BY <1>3, <1>4, NothingWithdrawn DEF SendDuplicate, SendReplayed, SendPending
  <2> QED
    BY <2>1
<1>5. CASE SendRefused(k, s, m)
  <2>1. Withdraws(D)
    BY <1>2, <1>3, <1>5, FewerEdges, FailuresOf DEF SendRefused, Drop, Withdraws
  <2> QED
    BY <2>1
<1>6. CASE \E d \in Deliveries : SendAccepted(k, s, m, d)
  <2>1. PICK d \in Deliveries : SendAccepted(k, s, m, d)
    BY <1>6
  <2>2. PICK t \in Recipients(s, m) :
          Admitted(k, s, t, m, d) /\ asks' = WithAsk(AsksWithout(D), s, t, m)
    BY <2>1 DEF SendAccepted, Admitted
  <2>3. t \in SessionIds
    BY DEF Recipients, Candidates, LiveIds
  <2>4. FailuresFrom(D)
    BY <1>3, <2>1, FailuresOf DEF SendAccepted
  <2>5. Accepts(k, s, t, m, d)
    BY <2>1, <2>2, <2>4, LetThrough DEF Accepts, SendAccepted
  <2> QED
    BY <1>2, <2>3, <2>5
<1> QED
  BY <1>1, <1>4, <1>5, <1>6

LEMMA ExchangesStep ==
  ASSUME TypeOK, Exchanges, ~\E k \in Sockets : Send(k)
  PROVE  (\E D : Withdraws(D)) \/ \E p : Receives(p)
<1>1. ASSUME NEW p \in pending, NEW code, Fail({p}, code)
      PROVE  \E D : Withdraws(D)
  BY <1>1, FailWithdraws
<1>2. ASSUME NEW k \in Sockets, NEW p \in pending, MessageReceived(k, p)
      PROVE  (\E D : Withdraws(D)) \/ Receives(p)
  <2>1. CASE StillValid(p)
    BY <1>2, <2>1 DEF MessageReceived, Receives, RecentWith, Settle
  <2>2. CASE ~StillValid(p)
    BY <1>1, <1>2, <2>2 DEF MessageReceived
  <2> QED
    BY <2>1, <2>2
<1>3. CASE \/ \E p \in pending : DeliveryTimeout(p)
           \/ \E k \in Sockets, p \in pending : MessageRejected(k, p)
  BY <1>1, <1>3 DEF DeliveryTimeout, MessageRejected
<1>4. \A e \in AskEdge :
        /\ LET x == [e EXCEPT !.state = "deferred"]
           IN x.from = e.from /\ x.to = e.to /\ x.id = e.id /\ x.state = "deferred"
        /\ LET x == [e EXCEPT !.due = TRUE]
           IN x.from = e.from /\ x.to = e.to /\ x.id = e.id /\ x.state = e.state
  BY DEF AskEdge
<1>5. asks \subseteq AskEdge /\ AsksWithout({}) = asks
  BY DEF TypeOK, AsksWithout
<1>6. ASSUME UNCHANGED <<pending, recent>>, EdgesFrom({})
      PROVE  \E D : Withdraws(D)
  <2>1. Withdraws({})
    BY <1>6 DEF Withdraws, FailuresFrom
  <2> QED
    BY <2>1
<1>7. ASSUME NEW k \in Sockets, NEW e \in asks, DeferAsk(k, e)
      PROVE  \E D : Withdraws(D)
  <2> DEFINE d == [e EXCEPT !.state = "deferred"]
  <2>1. asks' = (asks \ {e}) \cup {d} /\ d.from = e.from /\ d.to = e.to /\ d.id = e.id
        /\ d.state = "deferred"
    BY <1>4, <1>5, <1>7 DEF DeferAsk
  <2> HIDE DEF d
  <2>2. EdgesFrom({})
    BY <1>5, <2>1 DEF EdgesFrom
  <2> QED
    BY <1>6, <1>7, <2>2 DEF DeferAsk
<1>8. ASSUME NEW e \in asks, AskExpires(e) \/ \E k \in Sockets : CancelAsk(k, e)
      PROVE  \E D : Withdraws(D)
  BY <1>5, <1>6, <1>8, FewerEdges DEF AskExpires, CancelAsk
<1>9. ASSUME NEW e \in askFile, AskLapses(e)
      PROVE  \E D : Withdraws(D)
  <2>1. ASSUME NEW d \in asks'
        PROVE  \E x \in asks :
                 x.from = d.from /\ x.to = d.to /\ x.id = d.id /\ x.state = d.state
    <3>1. PICK x \in asks : d = IF SameAsk(x, e) THEN [x EXCEPT !.due = TRUE] ELSE x
      BY <1>9 DEF AskLapses
    <3> QED
      BY <1>4, <1>5, <3>1
  <2>2. EdgesFrom({})
    BY <1>5, <2>1 DEF EdgesFrom
  <2> QED
    BY <1>6, <1>9, <2>2 DEF AskLapses
<1>10. ASSUME NEW r \in recent, RecentLapses(r)
       PROVE  \E D : Withdraws(D)
  <2>1. [r EXCEPT !.lapsed = TRUE].lapsed
    BY DEF TypeOK, Settled
  <2>2. FailuresFrom({})
    BY <1>10, <2>1 DEF RecentLapses, FailuresFrom
  <2>3. Withdraws({})
    BY <1>5, <1>10, <2>2, FewerEdges DEF RecentLapses, Withdraws
  <2> QED
    BY <2>3
<1> QED
  BY <1>2, <1>3, <1>7, <1>8, <1>9, <1>10 DEF Exchanges

LEMMA TalkStep ==
  ASSUME TypeOK, DownIsEmpty, [Next]_vars
  PROVE  \/ \E D : Withdraws(D)
         \/ \E p : Receives(p)
         \/ \E k \in Sockets, s \in SessionIds, t \in SessionIds, m \in Message,
               d \in Deliveries : Accepts(k, s, t, m, d)
         \/ Restarts
<1>1. CASE Connections
  BY <1>1, ConnectionsWithdraw
<1>2. CASE Exchanges
  BY <1>2, SendStep, ExchangesStep
<1>3. CASE Access
  <2>1. CASE \E r \in Remote : PrincipalLapses(r)
    <3>1. Withdraws({})
      BY <2>1, NothingWithdrawn DEF PrincipalLapses, table
    <3> QED
      BY <3>1
  <2> QED
    BY <1>3, <2>1, DisconnectWithdraws DEF Access, RevokeSubtree, AdoptSubtree, Sweep
<1>4. CASE Stop
  BY <1>4 DEF Stop, Restarts
<1>5. CASE Start
  <2>1. \A e \in Loaded(askFile) :
          e.state = "deferred" /\ \E x \in askFile : SameAsk(x, e)
    BY DEF Loaded, TypeOK, AskEdge, SameAsk
  <2> QED
    BY <1>5, <2>1 DEF Start, DownIsEmpty, Restarts
<1>6. CASE (ShutdownCheck /\ LiveIds # {}) \/ UNCHANGED vars
  <2>1. Withdraws({})
    BY <1>6, NothingWithdrawn DEF ShutdownCheck, Untouched, table, vars
  <2> QED
    BY <2>1
<1> QED
  BY <1>1, <1>2, <1>3, <1>4, <1>5, <1>6 DEF Next, Crash, ShutdownCheck

LEMMA EmptyStep ==
  ASSUME DownIsEmpty, [Next]_vars
  PROVE  DownIsEmpty'
<1>1. ASSUME up, UNCHANGED up
      PROVE  DownIsEmpty'
  BY <1>1 DEF DownIsEmpty
<1>2. CASE Connections
  BY <1>1, <1>2 DEF Connections, Connect, RegistrationTimeout, Condemn, SocketClose, Register,
                    Unregister, Rename, Handles, Reads
<1>3. ASSUME NEW k \in Sockets, Send(k)
      PROVE  DownIsEmpty'
  BY <1>1, <1>3 DEF Send, SendMessage, Handles, Reads
<1>4. CASE \E e \in askFile : AskLapses(e)
  BY <1>4 DEF AskLapses, DownIsEmpty
<1>5. CASE \E r \in recent : RecentLapses(r)
  BY <1>5 DEF RecentLapses, DownIsEmpty
<1>6. CASE Exchanges
  BY <1>1, <1>3, <1>4, <1>5, <1>6
  DEF Exchanges, MessageReceived, MessageRejected, DeferAsk, CancelAsk, DeliveryTimeout,
      AskExpires, Handles, Reads
<1>7. CASE \E r \in Remote : PrincipalLapses(r)
  BY <1>7 DEF PrincipalLapses, DownIsEmpty, table
<1>8. CASE Access
  BY <1>1, <1>7, <1>8 DEF Access, RevokeSubtree, AdoptSubtree, Sweep, Disconnect
<1>9. CASE Stop \/ UNCHANGED vars
  BY <1>9 DEF Stop, vars, table, DownIsEmpty
<1>10. CASE Start
  BY <1>10 DEF Start, DownIsEmpty
<1>11. CASE ShutdownCheck
  BY <1>1, <1>9, <1>11 DEF ShutdownCheck
<1> QED
  BY <1>2, <1>6, <1>8, <1>9, <1>10, <1>11 DEF Next, Crash

\* The deliveries a message puts out of date are those of its own key.
LEMMA OutOfDateKey ==
  ASSUME PendingIndexed, NEW s, NEW m, NEW p \in pending
  PROVE  p \in OutOfDate(s, m) <=> p.from = s /\ p.msg.id = m.id
<1>1. ASSUME p.from = s, p.msg.id = m.id
      PROVE  p \in OutOfDate(s, m)
  <2>1. [from |-> p.from, id |-> p.msg.id, delivery |-> p.delivery] \in KeysOf(s, m)
    BY <1>1 DEF PendingIndexed, KeysOf
  <2> QED
    BY <2>1 DEF OutOfDate, PendingOf
<1>2. ASSUME p \in OutOfDate(s, m)
      PROVE  p.from = s /\ p.msg.id = m.id
  BY <1>2 DEF OutOfDate, PendingOf, KeysOf, PendingIndexed, SameKey
<1> QED
  BY <1>1, <1>2

\* What an accepted message adds: one delivery and, for an ask, one edge.
LEMMA AcceptAdds ==
  ASSUME PendingIndexed, NEW k, NEW s, NEW t, NEW m, NEW d, Accepts(k, s, t, m, d)
  PROVE  /\ \A p \in pending' \ (pending \ OutOfDate(s, m)) :
              p.from = s /\ p.msg = m /\ p.to = t
         /\ \A p \in pending' \cap (pending \ OutOfDate(s, m)) :
              ~(p.from = s /\ p.msg.id = m.id)
         /\ \E p \in pending' : p.from = s /\ p.msg = m /\ p.to = t
         /\ pending \ OutOfDate(s, m) \subseteq pending'
         /\ \A e \in asks' \ AsksWithout(OutOfDate(s, m)) :
              m.expectsReply /\ e.from = s /\ e.to = t /\ e.id = m.id
         /\ \A e \in asks' \cap AsksWithout(OutOfDate(s, m)) :
              \/ ~m.expectsReply
              \/ ~(e.from = s /\ e.id = m.id)
              \/ e.from = s /\ e.to = t /\ e.id = m.id
<1> DEFINE D == OutOfDate(s, m)
           new == [delivery |-> d, from |-> s, to |-> t, msg |-> m,
                   senderSocket |-> k, recipientSocket |-> sessions[t].socket,
                   fromGen |-> sessions[s].gen, toGen |-> sessions[t].gen]
           edge == [from |-> s, to |-> t, id |-> m.id, state |-> "blocking", due |-> FALSE]
<1>1. pending' = (pending \ D) \cup {new}
  BY DEF Accepts, Admitted
<1>2. new.from = s /\ new.msg = m /\ new.to = t
  OBVIOUS
<1>3. asks' = WithAsk(AsksWithout(D), s, t, m)
  BY DEF Accepts
<1>4. edge.from = s /\ edge.to = t /\ edge.id = m.id
  OBVIOUS
<1>5. IF m.expectsReply
      THEN asks' = {e \in AsksWithout(D) : ~SameAsk(e, edge)} \cup {edge}
      ELSE asks' = AsksWithout(D)
  BY <1>3 DEF WithAsk
<1>6. \A p \in pending \ D : ~(p.from = s /\ p.msg.id = m.id)
  BY OutOfDateKey
<1> HIDE DEF new, edge, D
<1>7. \A e \in asks' \ AsksWithout(D) : m.expectsReply /\ e = edge
  BY <1>5
<1>8. \A e \in asks' : ~m.expectsReply \/ ~SameAsk(e, edge) \/ e = edge
  BY <1>5
<1> QED
  BY <1>1, <1>2, <1>4, <1>6, <1>7, <1>8 DEF D, SameAsk

-----------------------------------------------------------------------------
(* Nobody waits in a circle.                                               *)

\* An ask waits for whoever its delivery is on its way to.
AskGoesToItsTarget ==
  \A p \in pending, e \in asks :
    e.state = "blocking" /\ p.msg.expectsReply /\ e.from = p.from /\ e.id = p.msg.id
      => e.to = p.to

LEMMA TargetStep ==
  ASSUME TypeOK, DownIsEmpty, PendingIndexed, AskGoesToItsTarget, [Next]_vars
  PROVE  AskGoesToItsTarget'
<1> SUFFICES ASSUME NEW p \in pending', NEW e \in asks', e.state = "blocking",
                    p.msg.expectsReply, e.from = p.from, e.id = p.msg.id
             PROVE  e.to = p.to
  BY DEF AskGoesToItsTarget
<1>1. ASSUME NEW D, Withdraws(D)
      PROVE  e.to = p.to
  <2>1. PICK x \in AsksWithout(D) :
          x.from = e.from /\ x.to = e.to /\ x.id = e.id /\ x.state = "blocking"
    BY <1>1 DEF Withdraws, EdgesFrom
  <2> QED
    BY <1>1, <2>1 DEF Withdraws, AsksWithout, AskGoesToItsTarget
<1>2. ASSUME NEW q, Receives(q)
      PROVE  e.to = p.to
  BY <1>2 DEF Receives, AskGoesToItsTarget
<1>3. ASSUME NEW k, NEW s, NEW t, NEW m, NEW d, Accepts(k, s, t, m, d)
      PROVE  e.to = p.to
  <2> DEFINE D == OutOfDate(s, m)
  <2>1. CASE p \in pending \ D
    <3>1. e \in AsksWithout(D)
      BY <1>3, <2>1, AcceptAdds
    <3> QED
      BY <2>1, <3>1 DEF AsksWithout, AskGoesToItsTarget
  <2>2. CASE p \notin pending \ D
    BY <1>3, <2>2, AcceptAdds
  <2> QED
    BY <2>1, <2>2
<1>4. ~Restarts
  BY DEF Restarts
<1> QED
  BY <1>1, <1>2, <1>3, <1>4, TalkStep

LEMMA Unopposed ==
  ASSUME NEW k, NEW s, NEW t, NEW m, Objection(k, s, t, m) = None, m.expectsReply
  PROVE  /\ ~Opposed(AsksWithout(OutOfDate(s, m)), s, t, m)
         /\ ~(Cardinality({e \in AsksWithout(OutOfDate(s, m)) : e.from = s})
                >= MaxAsksPerSession)
<1>1. None \notin {"SENDER_NOT_FOUND", "INVALID_REPLY_TARGET", "ASK_ALREADY_PENDING",
                   "MUTUAL_ASK", "TOO_MANY_PENDING_ASKS"}
  BY NoneAssumption DEF Code
<1> QED
  BY <1>1 DEF Objection

\* The reply that excuses two asks to wait for each other.
Excused(e, f) ==
  \E p \in pending :
    p.msg.expectsReply /\ p.from = e.from /\ p.msg.id = e.id /\ p.msg.replyTo = f.id
Mutual(e, f) ==
  e.state = "blocking" /\ f.state = "blocking" /\ e.from = f.to /\ e.to = f.from

LEMMA MutualForm ==
  NoMutualWait <=> \A e, f \in asks : Mutual(e, f) => e = f \/ Excused(e, f) \/ Excused(f, e)
BY DEF NoMutualWait, Mutual, Excused

\* A reply that excuses an ask which stays is not among the deliveries that fail.
LEMMA ExcuseStays ==
  ASSUME NEW D, NEW x \in AsksWithout(D), NEW y, Excused(x, y), pending \ D \subseteq pending',
         NEW e, NEW f, e.from = x.from, e.id = x.id, f.id = y.id
  PROVE  \E p \in pending' :
           p.msg.expectsReply /\ p.from = e.from /\ p.msg.id = e.id /\ p.msg.replyTo = f.id
BY DEF Excused, AsksWithout

LEMMA MutualStep ==
  ASSUME TypeOK, DownIsEmpty, PendingIndexed, AskGoesToItsTarget, OnePer(asks)', NoMutualWait,
         [Next]_vars
  PROVE  NoMutualWait'
<1> DEFINE Excuse(e, f) ==
      \E p \in pending' :
        p.msg.expectsReply /\ p.from = e.from /\ p.msg.id = e.id /\ p.msg.replyTo = f.id
<1> SUFFICES ASSUME NEW e \in asks', NEW f \in asks', Mutual(e, f)
             PROVE  e = f \/ Excuse(e, f) \/ Excuse(f, e)
  BY DEF NoMutualWait, Mutual
<1>1. ASSUME NEW x \in asks, NEW y \in asks, Mutual(x, y), x # y
      PROVE  Excused(x, y) \/ Excused(y, x)
  BY <1>1, MutualForm
<1>2. ASSUME NEW D, Withdraws(D)
      PROVE  e = f \/ Excuse(e, f) \/ Excuse(f, e)
  <2>1. PICK x \in AsksWithout(D) :
          x.from = e.from /\ x.to = e.to /\ x.id = e.id /\ x.state = "blocking"
    BY <1>2 DEF Withdraws, EdgesFrom, Mutual
  <2>2. PICK y \in AsksWithout(D) :
          y.from = f.from /\ y.to = f.to /\ y.id = f.id /\ y.state = "blocking"
    BY <1>2 DEF Withdraws, EdgesFrom, Mutual
  <2>3. x \in asks /\ y \in asks /\ Mutual(x, y)
    BY <2>1, <2>2 DEF AsksWithout, Mutual
  <2>4. pending \ D \subseteq pending'
    BY <1>2 DEF Withdraws
  <2>5. CASE x = y
    BY <2>1, <2>2, <2>5 DEF OnePer, SameAsk
  <2>6. CASE Excused(x, y)
    BY <2>1, <2>2, <2>4, <2>6, ExcuseStays
  <2>7. CASE Excused(y, x)
    BY <2>1, <2>2, <2>4, <2>7, ExcuseStays
  <2> QED
    BY <1>1, <2>3, <2>5, <2>6, <2>7
<1>3. ASSUME NEW q, Receives(q)
      PROVE  e = f \/ Excuse(e, f) \/ Excuse(f, e)
  <2>1. ASSUME NEW x \in asks', NEW y \in asks', Mutual(x, y), Excused(x, y)
        PROVE  Excuse(x, y)
    <3>1. PICK p \in pending :
            p.msg.expectsReply /\ p.from = x.from /\ p.msg.id = x.id /\ p.msg.replyTo = y.id
      BY <2>1 DEF Excused
    <3>2. x \in asks /\ y \in asks /\ ~(y.from = q.to /\ y.id = q.msg.replyTo)
      BY <1>3, <2>1 DEF Receives
    <3>3. y.from = p.to
      BY <2>1, <3>1, <3>2 DEF AskGoesToItsTarget, Mutual
    <3>4. p \in pending'
      BY <1>3, <3>1, <3>2, <3>3 DEF Receives
    <3> QED
      BY <3>1, <3>4
  <2>2. e \in asks /\ f \in asks /\ Mutual(f, e)
    BY <1>3 DEF Receives, Mutual
  <2> QED
    BY <1>1, <2>1, <2>2
<1>4. ASSUME NEW k, NEW s, NEW t, NEW m, NEW d, Accepts(k, s, t, m, d)
      PROVE  e = f \/ Excuse(e, f) \/ Excuse(f, e)
  <2> DEFINE A == AsksWithout(OutOfDate(s, m))
  <2>1. ASSUME NEW x \in asks', NEW y \in A, x \notin A, Mutual(x, y)
        PROVE  Excuse(x, y)
    <3>1. m.expectsReply /\ x.from = s /\ x.to = t /\ x.id = m.id
      BY <1>4, <2>1, AcceptAdds
    <3>2. ~Opposed(A, s, t, m)
      BY <1>4, <3>1, Unopposed DEF Accepts
    <3>3. m.replyTo = y.id
      BY <2>1, <3>1, <3>2 DEF Opposed, Mutual
    <3>4. PICK p \in pending' : p.from = s /\ p.msg = m
      BY <1>4, AcceptAdds
    <3> QED
      BY <3>1, <3>3, <3>4
  <2>2. ASSUME NEW x \in A, NEW y \in A, Excused(x, y)
        PROVE  Excuse(x, y)
    <3>1. pending \ OutOfDate(s, m) \subseteq pending'
      BY <1>4, AcceptAdds
    <3> QED
      BY <2>2, <3>1, ExcuseStays
  <2>3. CASE e \in A /\ f \in A
    BY <1>1, <2>2, <2>3 DEF AsksWithout
  <2>4. CASE e \notin A /\ f \notin A
    <3>1. SameAsk(e, f)
      BY <1>4, <2>4, AcceptAdds DEF SameAsk
    <3> QED
      BY <3>1 DEF OnePer, SameAsk
  <2>5. Mutual(f, e)
    BY DEF Mutual
  <2> QED
    BY <2>1, <2>3, <2>4, <2>5
<1>5. ~Restarts
  BY DEF Restarts, Mutual
<1> QED
  BY <1>2, <1>3, <1>4, <1>5, TalkStep

\* What is proved together of the asks and the deliveries they were put with.
TalkInv == AsksInv /\ DownIsEmpty /\ PendingIndexed /\ AskGoesToItsTarget

LEMMA TalkInitially == Init => TalkInv
BY DEF Init, TalkInv, AsksInv, AskFileIsCurrent, OnePer, DownIsEmpty, PendingIndexed,
       AskGoesToItsTarget

LEMMA TalkPreserved ==
  ASSUME TypeOK, TalkInv, [Next]_vars
  PROVE  TalkInv' /\ OnePer(asks)'
<1>1. AsksInv'
  BY AsksStep DEF TalkInv
<1>2. DownIsEmpty' /\ PendingIndexed' /\ AskGoesToItsTarget'
  BY EmptyStep, IndexStep, TargetStep DEF TalkInv
<1> QED
  BY <1>1, <1>2 DEF TalkInv, AsksInv

\* No deadlock of two sessions that wait for each other, whatever the order of
\* their asks, replies, failures and replays: a second ask in the opposite
\* direction is only let through as the reply to the first.
THEOREM NobodyWaitsInACircle == Spec => []NoMutualWait
<1>1. Init => NoMutualWait
  BY DEF Init, NoMutualWait
<1>2. TypeOK /\ TalkInv /\ NoMutualWait /\ [Next]_vars => TalkInv' /\ NoMutualWait'
  BY TalkPreserved, MutualStep DEF TalkInv
<1> QED
  BY <1>1, <1>2, TalkInitially, TypeCorrect, PTL DEF Spec

-----------------------------------------------------------------------------
(* A failed ask is closed.                                                 *)

LEMMA ClosedStep ==
  ASSUME TypeOK, DownIsEmpty, PendingIndexed, FailedAskIsClosed, [Next]_vars
  PROVE  FailedAskIsClosed'
<1> SUFFICES ASSUME NEW r \in recent', r.msg.expectsReply, r.retryable, ~r.lapsed,
                    NEW e \in asks', e.from = r.from, e.id = r.msg.id
             PROVE  \E p \in pending' : SameKey(r, p)
  BY DEF FailedAskIsClosed, SameKey
<1>1. ASSUME r \in recent, NEW x \in asks, x.from = e.from, x.id = e.id
      PROVE  \E p \in pending : SameKey(r, p)
  BY <1>1 DEF FailedAskIsClosed
<1>2. ASSUME NEW D, Withdraws(D)
      PROVE  \E p \in pending' : SameKey(r, p)
  <2>1. PICK x \in AsksWithout(D) : x.from = e.from /\ x.id = e.id
    BY <1>2 DEF Withdraws, EdgesFrom
  <2>2. r \in recent /\ \A p \in D : ~SameKey(r, p)
    BY <1>2, <2>1 DEF Withdraws, FailuresFrom, AsksWithout
  <2> QED
    BY <1>1, <1>2, <2>1, <2>2 DEF Withdraws, AsksWithout
<1>3. ASSUME NEW q, Receives(q)
      PROVE  \E p \in pending' : SameKey(r, p)
  <2>1. r \in recent /\ ~SameKey(r, q) /\ e \in asks
    BY <1>3 DEF Receives
  <2> QED
    BY <1>1, <1>3, <2>1 DEF Receives
<1>4. ASSUME NEW k, NEW s, NEW t, NEW m, NEW d, Accepts(k, s, t, m, d)
      PROVE  \E p \in pending' : SameKey(r, p)
  <2> DEFINE D == OutOfDate(s, m)
  <2>1. CASE r.from = s /\ r.msg.id = m.id
    BY <1>4, <2>1, AcceptAdds DEF SameKey
  <2>2. CASE ~(r.from = s /\ r.msg.id = m.id)
    <3>1. e \in AsksWithout(D)
      BY <1>4, <2>2, AcceptAdds
    <3>2. \A p \in D : p \in pending /\ p.from = s /\ p.msg.id = m.id
      BY OutOfDateKey DEF OutOfDate, PendingOf
    <3>3. FailuresFrom(D)
      BY <1>4 DEF Accepts
    <3>4. r \in recent /\ \A p \in D : ~SameKey(r, p)
      BY <2>2, <3>2, <3>3 DEF FailuresFrom
    <3>5. PICK p \in pending : SameKey(r, p)
      BY <1>1, <3>1, <3>4 DEF AsksWithout
    <3> QED
      BY <1>4, <3>4, <3>5, AcceptAdds
  <2> QED
    BY <2>1, <2>2
<1>5. ~Restarts
  BY DEF Restarts
<1> QED
  BY <1>2, <1>3, <1>4, <1>5, TalkStep

\* An ask whose delivery failed has no edge left, unless the same message is on
\* its way again: through takeovers, timeouts, replays and restarts nobody is
\* held up by a message that the broker would send a second time.
THEOREM FailedAsksAreClosed == Spec => []FailedAskIsClosed
<1>1. Init => FailedAskIsClosed
  BY DEF Init, FailedAskIsClosed
<1>2. TypeOK /\ TalkInv /\ FailedAskIsClosed /\ [Next]_vars => TalkInv' /\ FailedAskIsClosed'
  BY TalkPreserved, ClosedStep DEF TalkInv
<1> QED
  BY <1>1, <1>2, TalkInitially, TypeCorrect, PTL DEF Spec

-----------------------------------------------------------------------------
(* The limits of the tables.                                               *)

Few(S, n) == IsFiniteSet(S) /\ Cardinality(S) <= n
Of(X, s) == {x \in X : x.from = s}

\* The limits of each table, that of the asks also on disk.
LimitsInv ==
  /\ Few(LiveIds, MaxSessions)
  /\ Few(pending, MaxPending)
  /\ \A s \in SessionIds : Few(Of(pending, s), MaxPendingPerSession)
  /\ \A s \in SessionIds : Few(Of(asks, s), MaxAsksPerSession)
  /\ \A s \in SessionIds : Few(Of(askFile, s), MaxAsksPerSession)

LEMMA FewLess ==
  ASSUME NEW S, NEW n \in Nat, Few(S, n), NEW T \in SUBSET S
  PROVE  Few(T, n)
<1>1. IsFiniteSet(T) /\ Cardinality(T) <= Cardinality(S)
  BY FS_Subset DEF Few
<1>2. Cardinality(T) \in Nat /\ Cardinality(S) \in Nat
  BY <1>1, FS_CardinalityType DEF Few
<1> QED
  BY <1>1, <1>2 DEF Few

LEMMA FewMore ==
  ASSUME NEW S, IsFiniteSet(S), NEW n \in Nat, ~(Cardinality(S) >= n), NEW x,
         NEW T \in SUBSET (S \cup {x})
  PROVE  Few(T, n)
<1>1. Cardinality(S) \in Nat
  BY FS_CardinalityType
<1>2. IsFiniteSet(S \cup {x}) /\ Cardinality(S \cup {x}) <= Cardinality(S) + 1
  BY <1>1, FS_AddElement
<1>3. Cardinality(S \cup {x}) \in Nat
  BY <1>2, FS_CardinalityType
<1>4. Few(S \cup {x}, n)
  BY <1>1, <1>2, <1>3 DEF Few
<1> QED
  BY <1>4, FewLess

LEMMA FewNone == \A n \in Nat : Few({}, n)
BY FS_EmptySet DEF Few

\* With one edge per ask, edges made from others are not more than those.
LEMMA FewEdges ==
  ASSUME NEW E, NEW F, OnePer(F), \A f \in F : \E e \in E : SameAsk(e, f),
         NEW n \in Nat, NEW s, Few(Of(E, s), n)
  PROVE  Few(Of(F, s), n)
<1> DEFINE S == Of(F, s)
           T == Of(E, s)
           origin == [f \in S |-> CHOOSE e \in T : SameAsk(e, f)]
<1>1. ASSUME NEW f \in S
      PROVE  origin[f] \in T /\ SameAsk(origin[f], f)
  <2>1. \E e \in T : SameAsk(e, f)
    BY DEF Of, SameAsk
  <2> QED
    BY <2>1
<1>2. \A f, g \in S : SameAsk(f, g) => f = g
  BY DEF OnePer, Of
<1> HIDE DEF origin
<1>3. origin \in [S -> T]
  BY <1>1 DEF origin
<1>4. ASSUME NEW f \in S, NEW g \in S, origin[f] = origin[g]
      PROVE  f = g
  BY <1>1, <1>2, <1>4 DEF SameAsk
<1>5. origin \in Injection(S, T)
  BY <1>3, <1>4 DEF Injection, IsInjective
<1>6. IsFiniteSet(S) /\ Cardinality(S) <= Cardinality(T)
  BY <1>5, FS_Injection DEF Few
<1>7. Cardinality(S) \in Nat /\ Cardinality(T) \in Nat
  BY <1>6, FS_CardinalityType DEF Few
<1> HIDE DEF S, T
<1>8. Cardinality(T) <= n
  BY DEF Few, T
<1>9. Few(S, n)
  BY <1>6, <1>7, <1>8 DEF Few
<1> QED
  BY <1>9 DEF S

\* A registration is the only step that adds a session.
LEMMA LiveStep ==
  ASSUME TypeOK, [Next]_vars
  PROVE  \/ LiveIds' \subseteq LiveIds
         \/ \E s : LiveIds' \subseteq LiveIds \cup {s} /\ ~(Cardinality(LiveIds) >= MaxSessions)
<1>1. ASSUME \A s \in SessionIds : Live(s)' => Live(s)
      PROVE  LiveIds' \subseteq LiveIds
  BY <1>1 DEF LiveIds
<1>2. UNCHANGED sessions => LiveIds' \subseteq LiveIds
  BY <1>1 DEF Live
<1>3. sessions \in [SessionIds -> Session \cup {None}]
  BY DEF TypeOK
<1>4. ASSUME NEW k \in Sockets, NEW s \in SessionIds, NEW name \in Names, Register(k, s, name)
      PROVE  \/ LiveIds' \subseteq LiveIds
             \/ LiveIds' \subseteq LiveIds \cup {s} /\ ~(Cardinality(LiveIds) >= MaxSessions)
  <2>1. \A x \in SessionIds : Live(x)' => Live(x) \/ x = s
    BY <1>3, <1>4 DEF Register, Live
  <2>2. Live(s) \/ Cardinality(LiveIds) < MaxSessions
    BY <1>4 DEF Register
  <2>3. Cardinality(LiveIds) \in Nat /\ MaxSessions \in Nat
    <3>1. LiveIds \subseteq SessionIds
      BY DEF LiveIds
    <3> QED
      BY <3>1, FiniteAssumption, FS_Subset, FS_CardinalityType, LimitsAssumption
  <2>4. CASE Live(s)
    BY <1>1, <2>1, <2>4
  <2>5. CASE Cardinality(LiveIds) < MaxSessions
    <3>1. ~(Cardinality(LiveIds) >= MaxSessions)
      BY <2>3, <2>5
    <3> QED
      BY <2>1, <3>1 DEF LiveIds
  <2> QED
    BY <2>2, <2>4, <2>5
<1>5. CASE Connections /\ ~\E k \in Sockets, s \in SessionIds, name \in Names : Register(k, s, name)
  <2>1. ASSUME NEW s, sessions' = [sessions EXCEPT ![s] = None]
        PROVE  LiveIds' \subseteq LiveIds
    BY <1>1, <1>3, <2>1 DEF Live
  <2>2. ASSUME NEW k \in Sockets, NEW name \in Names, Rename(k, name)
        PROVE  LiveIds' \subseteq LiveIds
    BY <1>1, <1>3, <2>2 DEF Rename, Holds, Live
  <2> QED
    BY <1>2, <1>5, <2>1, <2>2
    DEF Connections, Connect, RegistrationTimeout, Condemn, SocketClose, Unregister
<1>6. CASE Exchanges
  BY <1>2, <1>6 DEF Exchanges, Send, SendMessage, MessageReceived, MessageRejected, DeferAsk,
                    CancelAsk, DeliveryTimeout, AskExpires, AskLapses, RecentLapses
<1>7. CASE Access
  <2>1. ASSUME NEW changed, Disconnect(changed)
        PROVE  LiveIds' \subseteq LiveIds
    BY <1>1, <1>3, <2>1 DEF Disconnect, Live
  <2> QED
    BY <1>2, <1>7, <2>1 DEF Access, PrincipalLapses, RevokeSubtree, AdoptSubtree, Sweep
<1>8. CASE Crash \/ ShutdownCheck \/ Start \/ UNCHANGED vars
  BY <1>1, <1>2, <1>8 DEF Crash, ShutdownCheck, Stop, Start, vars, Live
<1> QED
  BY <1>4, <1>5, <1>6, <1>7, <1>8 DEF Next, Connections

\* What the ask file holds is what the memory holds, or, while no process runs,
\* what it held, some of it now past its time.
LEMMA FileStep ==
  ASSUME TypeOK, AskFileIsCurrent', [Next]_vars
  PROVE  askFile' = asks' \/ \A f \in askFile' : \E e \in askFile : SameAsk(e, f)
<1>1. up' => askFile' = asks'
  BY DEF AskFileIsCurrent
<1>2. UNCHANGED askFile => \A f \in askFile' : \E e \in askFile : SameAsk(e, f)
  BY DEF SameAsk
<1>3. ASSUME NEW e \in askFile, AskLapses(e)
      PROVE  \A f \in askFile' : \E x \in askFile : SameAsk(x, f)
  <2>1. askFile' = {IF SameAsk(x, e) THEN [x EXCEPT !.due = TRUE] ELSE x : x \in askFile}
    BY <1>3 DEF AskLapses
  <2>2. \A x \in askFile : SameAsk(x, [x EXCEPT !.due = TRUE]) /\ SameAsk(x, x)
    BY DEF TypeOK, AskEdge, SameAsk
  <2> QED
    BY <2>1, <2>2
<1>4. CASE Stop \/ UNCHANGED vars
  BY <1>2, <1>4 DEF Stop, vars, table
<1>5. CASE Access
  BY <1>1, <1>2, <1>5
  DEF Access, PrincipalLapses, RevokeSubtree, AdoptSubtree, Sweep, Disconnect, Persist, table
<1>6. CASE Exchanges
  <2>1. ASSUME NEW k \in Sockets, Send(k)
        PROVE  UNCHANGED up /\ up
    BY <2>1 DEF Send, SendMessage, Handles, Reads
  <2> QED
    BY <1>1, <1>2, <1>3, <1>6, <2>1
    DEF Exchanges, MessageReceived, MessageRejected, DeferAsk, CancelAsk, DeliveryTimeout,
        AskExpires, RecentLapses, Handles, Reads
<1>7. CASE Connections
  <2>1. UNCHANGED up /\ up
    BY <1>7 DEF Connections, Connect, RegistrationTimeout, Condemn, SocketClose, Register,
                Unregister, Rename, Handles, Reads
  <2> QED
    BY <1>1, <2>1
<1>8. CASE Start
  BY <1>8 DEF Start, Persist
<1>9. CASE ShutdownCheck
  BY <1>1, <1>4, <1>9 DEF ShutdownCheck
<1> QED
  BY <1>4, <1>5, <1>6, <1>7, <1>8, <1>9 DEF Next, Crash

LEMMA PendingWithin ==
  ASSUME TypeOK, DownIsEmpty, LimitsInv, [Next]_vars
  PROVE  /\ Few(pending, MaxPending)'
         /\ \A s \in SessionIds : Few(Of(pending, s), MaxPendingPerSession)'
<1>1. MaxPending \in Nat /\ MaxPendingPerSession \in Nat
  BY LimitsAssumption
<1>2. ASSUME pending' \subseteq pending
      PROVE  /\ Few(pending', MaxPending)
             /\ \A s \in SessionIds : Few(Of(pending', s), MaxPendingPerSession)
  <2>1. \A s \in SessionIds : Of(pending', s) \subseteq Of(pending, s)
    BY <1>2 DEF Of
  <2> QED
    BY <1>1, <1>2, <2>1, FewLess DEF LimitsInv
<1>3. ASSUME NEW k, NEW s, NEW t, NEW m, NEW d, Accepts(k, s, t, m, d)
      PROVE  /\ Few(pending', MaxPending)
             /\ \A x \in SessionIds : Few(Of(pending', x), MaxPendingPerSession)
  <2> DEFINE P == pending \ OutOfDate(s, m)
  <2>1. PICK new : pending' = P \cup {new} /\ new.from = s
    <3> DEFINE w == [delivery |-> d, from |-> s, to |-> t, msg |-> m,
                     senderSocket |-> k, recipientSocket |-> sessions[t].socket,
                     fromGen |-> sessions[s].gen, toGen |-> sessions[t].gen]
    <3>1. pending' = P \cup {w} /\ w.from = s
      BY <1>3 DEF Accepts, Admitted
    <3> QED
      BY <3>1
  <2>2. IsFiniteSet(P) /\ IsFiniteSet(Of(P, s))
    <3>1. P \subseteq pending /\ Of(P, s) \subseteq pending
      BY DEF Of
    <3> QED
      BY <3>1, FS_Subset DEF LimitsInv, Few
  <2>3. ~(Cardinality(P) >= MaxPending) /\ ~(Cardinality(Of(P, s)) >= MaxPendingPerSession)
    BY <1>3 DEF Accepts, Crowded, Of
  <2>4. Few(pending', MaxPending)
    BY <1>1, <2>1, <2>2, <2>3, FewMore
  <2>5. ASSUME NEW x \in SessionIds
        PROVE  Few(Of(pending', x), MaxPendingPerSession)
    <3>1. CASE x = s
      <4>1. Of(pending', s) \subseteq Of(P, s) \cup {new}
        BY <2>1 DEF Of
      <4> QED
        BY <1>1, <2>2, <2>3, <3>1, <4>1, FewMore
    <3>2. CASE x # s
      <4>1. Of(pending', x) \subseteq Of(pending, x)
        BY <2>1, <3>2 DEF Of
      <4> QED
        BY <1>1, <4>1, FewLess DEF LimitsInv
    <3> QED
      BY <3>1, <3>2
  <2> QED
    BY <2>4, <2>5
<1> QED
  BY <1>2, <1>3, TalkStep DEF Withdraws, Receives, Restarts, Few, Of

LEMMA AsksWithin ==
  ASSUME TypeOK, DownIsEmpty, PendingIndexed, AsksInv, OnePer(asks)', LimitsInv, [Next]_vars
  PROVE  \A s \in SessionIds : Few(Of(asks, s), MaxAsksPerSession)'
<1>1. MaxAsksPerSession \in Nat
  BY LimitsAssumption
<1>2. OnePer(asks')
  BY DEF OnePer, SameAsk
<1>3. ASSUME NEW E, \A e \in asks' : \E x \in E : SameAsk(x, e),
             \A s \in SessionIds : Few(Of(E, s), MaxAsksPerSession)
      PROVE  \A s \in SessionIds : Few(Of(asks', s), MaxAsksPerSession)
  BY <1>1, <1>2, <1>3, FewEdges
<1>4. ASSUME \A e \in asks' : \E x \in asks : SameAsk(x, e)
      PROVE  \A s \in SessionIds : Few(Of(asks', s), MaxAsksPerSession)
  BY <1>3, <1>4 DEF LimitsInv
<1>5. CASE \E D : Withdraws(D)
  BY <1>4, <1>5 DEF Withdraws, EdgesFrom, AsksWithout, SameAsk
<1>6. CASE \E q : Receives(q)
  BY <1>4, <1>6 DEF Receives, SameAsk
<1>7. CASE Restarts
  BY <1>3, <1>7 DEF Restarts, LimitsInv
<1>8. ASSUME NEW k, NEW s, NEW t, NEW m, NEW d, Accepts(k, s, t, m, d)
      PROVE  \A x \in SessionIds : Few(Of(asks', x), MaxAsksPerSession)
  <2> DEFINE A == AsksWithout(OutOfDate(s, m))
             edge == [from |-> s, to |-> t, id |-> m.id, state |-> "blocking", due |-> FALSE]
  <2>1. A \subseteq asks
    BY DEF AsksWithout
  <2>2. asks' = WithAsk(A, s, t, m)
    BY <1>8 DEF Accepts
  <2>3. CASE ~m.expectsReply
    BY <1>4, <2>1, <2>2, <2>3 DEF WithAsk, SameAsk
  <2>4. CASE m.expectsReply
    <3>1. asks' \subseteq A \cup {edge}
      BY <2>2, <2>4 DEF WithAsk
    <3>2. edge.from = s
      OBVIOUS
    <3>3. ~(Cardinality(Of(A, s)) >= MaxAsksPerSession)
      BY <1>8, <2>4, Unopposed DEF Accepts, Of
    <3> HIDE DEF edge
    <3>4. ASSUME NEW x \in SessionIds
          PROVE  Few(Of(asks', x), MaxAsksPerSession)
      <4>1. CASE x = s
        <5>1. Of(asks', s) \subseteq Of(A, s) \cup {edge}
          BY <3>1 DEF Of
        <5>2. Of(A, s) \subseteq Of(asks, s) /\ IsFiniteSet(Of(asks, s))
          BY <2>1, <4>1 DEF Of, LimitsInv, Few
        <5>3. IsFiniteSet(Of(A, s))
          BY <5>2, FS_Subset
        <5> QED
          BY <1>1, <3>3, <4>1, <5>1, <5>3, FewMore
      <4>2. CASE x # s
        <5>1. Of(asks', x) \subseteq Of(asks, x)
          BY <2>1, <3>1, <3>2, <4>2 DEF Of
        <5> QED
          BY <1>1, <5>1, FewLess DEF LimitsInv
      <4> QED
        BY <4>1, <4>2
    <3> QED
      BY <3>4
  <2> QED
    BY <2>3, <2>4
<1>9. \A s \in SessionIds : Few(Of(asks', s), MaxAsksPerSession)
  BY <1>5, <1>6, <1>7, <1>8, TalkStep
<1> QED
  BY <1>9 DEF Few, Of

LEMMA LimitsStep ==
  ASSUME TypeOK, DownIsEmpty, PendingIndexed, AsksInv, AsksInv', LimitsInv, [Next]_vars
  PROVE  LimitsInv'
<1>1. MaxSessions \in Nat /\ MaxAsksPerSession \in Nat
  BY LimitsAssumption
<1>2. Few(LiveIds, MaxSessions)'
  <2>1. Few(LiveIds', MaxSessions)
    BY <1>1, LiveStep, FewLess, FewMore DEF LimitsInv, Few
  <2> QED
    BY <2>1 DEF Few
<1>3. \A s \in SessionIds : Few(Of(asks, s), MaxAsksPerSession)'
  BY AsksWithin DEF AsksInv
<1>4. \A s \in SessionIds : Few(Of(askFile, s), MaxAsksPerSession)'
  <2>1. OnePer(askFile')
    BY DEF AsksInv, OnePer, SameAsk
  <2>2. AskFileIsCurrent'
    BY DEF AsksInv
  <2>3. CASE askFile' = asks'
    BY <1>3, <2>3 DEF Few, Of
  <2>4. CASE \A f \in askFile' : \E e \in askFile : SameAsk(e, f)
    <3>1. \A s \in SessionIds : Few(Of(askFile', s), MaxAsksPerSession)
      BY <1>1, <2>1, <2>4, FewEdges DEF LimitsInv
    <3> QED
      BY <3>1 DEF Few, Of
  <2> QED
    BY <2>2, <2>3, <2>4, FileStep
<1> QED
  BY <1>2, <1>3, <1>4, PendingWithin DEF LimitsInv

\* No table outgrows its limit: the sessions, the deliveries in all and of one
\* sender, and the asks of one sender, also those a restart brings back.
THEOREM TablesStayWithinLimits == Spec => []WithinLimits
<1>1. Init => LimitsInv
  <2> SUFFICES ASSUME Init PROVE LimitsInv
    OBVIOUS
  <2>1. LiveIds = {} /\ pending = {} /\ asks = {} /\ askFile = {}
    BY DEF Init, LiveIds, Live
  <2>2. \A s : Of({}, s) = {}
    BY DEF Of
  <2> QED
    BY <2>1, <2>2, FewNone, LimitsAssumption DEF LimitsInv
<1>2. TypeOK /\ TalkInv /\ LimitsInv /\ [Next]_vars => TalkInv' /\ LimitsInv'
  <2> SUFFICES ASSUME TypeOK, TalkInv, LimitsInv, [Next]_vars
               PROVE  TalkInv' /\ LimitsInv'
    OBVIOUS
  <2>1. TalkInv' /\ AsksInv'
    BY TalkPreserved DEF TalkInv
  <2> QED
    BY <2>1, LimitsStep DEF TalkInv
<1>3. LimitsInv => WithinLimits
  BY DEF LimitsInv, WithinLimits, Few, Of
<1> QED
  BY <1>1, <1>2, <1>3, TalkInitially, TypeCorrect, PTL DEF Spec
=============================================================================
