------------------------ MODULE IntercomBrokerAnswers ------------------------
(***************************************************************************)
(* What the broker tells its clients: a sender, how its delivery ended,    *)
(* truthfully and with the authority of that moment; the two ends of an    *)
(* ask, that it is over.                                                   *)
(***************************************************************************)
EXTENDS IntercomBrokerAsks

-----------------------------------------------------------------------------
(* What is written.                                                        *)

\* Nothing in W claims a delivery, and what it passes on is newly pending.
Undelivered(W) ==
  \A w \in W : /\ w.type # "delivered"
               /\ w.type = "message" => \E p \in pending' \ pending :
                                          p.msg.id = w.id /\ p.delivery = w.detail

LEMMA BothUndelivered ==
  ASSUME NEW V, NEW W, Undelivered(V), Undelivered(W)
  PROVE  Undelivered(V \cup W)
BY DEF Undelivered

LEMMA NoticesUndelivered ==
  ASSUME NEW E, NEW s, NEW gone, NEW known, NEW reason
  PROVE  /\ Undelivered(CancelNotices(E, known, reason))
         /\ Undelivered(DeferNotices(E, s, known))
         /\ Undelivered(ClearNotices(E, gone, known, reason))
<1>1. \A t, type, from, id, detail : \A w \in Told(known, t, type, from, id, detail) :
        w.type = type
  BY DEF Told
<1>2. Undelivered(CancelNotices(E, known, reason))
  <2>1. ASSUME NEW w \in CancelNotices(E, known, reason)
        PROVE  w.type = "ask_cancelled"
    <3>1. PICK e \in E : w \in Told(known, e.to, "ask_cancelled", e.from, e.id, reason)
      BY DEF CancelNotices
    <3> QED
      BY <1>1, <3>1
  <2> QED
    BY <2>1 DEF Undelivered
<1>3. Undelivered(DeferNotices(E, s, known))
  <2>1. ASSUME NEW w \in DeferNotices(E, s, known)
        PROVE  w.type = "ask_deferred"
    <3>1. PICK e \in E : w \in Told(known, e.to, "ask_deferred", e.from, e.id, None)
      BY DEF DeferNotices
    <3> QED
      BY <1>1, <3>1
  <2> QED
    BY <2>1 DEF Undelivered
<1>4. Undelivered(ClearNotices(E, gone, known, reason))
  <2>1. ASSUME NEW w \in ClearNotices(E, gone, known, reason)
        PROVE  w.type = "ask_cancelled"
    <3>1. PICK e \in E : \/ w \in Told(known, e.to, "ask_cancelled", e.from, e.id, reason)
                         \/ w \in Told(known, e.from, "ask_cancelled", e.to, e.id, reason)
      BY DEF ClearNotices
    <3> QED
      BY <1>1, <3>1
  <2> QED
    BY <2>1 DEF Undelivered
<1> QED
  BY <1>2, <1>3, <1>4

LEMMA FailureUndelivered ==
  ASSUME NEW D, NEW known, NEW code
  PROVE  Undelivered(FailureWrites(D, known, code))
<1> DEFINE A == UNION {Answered(p, known, "delivery_failed", code) : p \in D}
<1>1. ASSUME NEW w \in A
      PROVE  w.type = "delivery_failed"
  <2>1. PICK p \in D : w \in Answered(p, known, "delivery_failed", code)
    OBVIOUS
  <2> QED
    BY <2>1 DEF Answered
<1>2. Undelivered(A)
  BY <1>1 DEF Undelivered
<1> QED
  BY <1>2, NoticesUndelivered, BothUndelivered DEF FailureWrites

\* A session that keeps its connection hears what it is told, whether it is
\* looked up before the step or after it.
LEMMA ToldHeard ==
  ASSUME NEW known, known \in {sessions, sessions'}, NEW s, Stays(s), NEW type, NEW types,
         type \in types, NEW from, NEW id, NEW detail,
         Told(known, s, type, from, id, detail) \subseteq writes'
  PROVE  Heard(s, types, id)
<1> DEFINE w == [socket |-> known[s].socket, type |-> type, from |-> from, id |-> id,
                 detail |-> detail]
<1>1. known[s] # None /\ known[s].socket = sessions[s].socket
  BY DEF Stays, Live
<1>2. w \in writes'
  BY <1>1 DEF Told
<1>3. w.socket = sessions[s].socket /\ w.type = type /\ w.id = id
  BY <1>1
<1> QED
  BY <1>2, <1>3 DEF Heard

LEMMA AnsweredHeard ==
  ASSUME PendingIsConnected, NEW p \in pending, Stays(p.from),
         NEW known, known \in {sessions, sessions'}, NEW type, NEW types, type \in types,
         NEW detail, Answered(p, known, type, detail) \subseteq writes'
  PROVE  Heard(p.from, types, p.msg.id)
<1> DEFINE w == [socket |-> p.senderSocket, type |-> type, from |-> p.from,
                 id |-> p.msg.id, detail |-> detail]
<1>1. /\ sessions[p.from].socket = p.senderSocket
      /\ known[p.from] # None /\ known[p.from].socket = p.senderSocket
  BY DEF Stays, Live, PendingIsConnected
<1>2. w \in writes'
  BY <1>1 DEF Answered
<1>3. w.socket = sessions[p.from].socket /\ w.type = type /\ w.id = p.msg.id
  BY <1>1
<1> QED
  BY <1>2, <1>3 DEF Heard

-----------------------------------------------------------------------------
(* What a step settles and ends, and whom it tells.                        *)

\* The end of e is announced, or one of the two that its asker hears nothing of.
Announced(e) ==
  /\ Stays(e.to) => Heard(e.to, {"ask_cancelled"}, e.id)
  /\ \/ Stays(e.to) \/ Withdrawn(e) \/ ExpiresUnheard(e)
     \/ Stays(e.from) => Heard(e.from, {"ask_cancelled", "delivery_failed"}, e.id)

\* What it remembers as delivered, it did before.
NoneRemembered ==
  \A r \in recent' : r.retryable \/ \E q \in recent : SameKey(q, r) /\ ~q.retryable

\* The deliveries of D fail with their asks; any other ask stays or is announced.
Fails(D, known, code) ==
  /\ D \subseteq pending /\ pending \ D \subseteq pending'
  /\ \A p \in D : Settle(p, FALSE) \notin recent'
  /\ NoneRemembered
  /\ known \in {sessions, sessions'}
  /\ FailureWrites(D, known, code) \subseteq writes'
  /\ Undelivered(writes')
  /\ \A e \in AsksWithout(D) : (\E f \in asks' : SameAsk(e, f)) \/ Announced(e)

Quiet == \E D, known, code : Fails(D, known, code)

\* k's client hears again what became of a message that was delivered before.
Replays(k) ==
  \E x \in Sends : SendReplayed(k, x.from, x.msg) /\ UNCHANGED sessions

\* The acknowledgement of p is accepted.
Delivers(p) == \E k \in Sockets : MessageReceived(k, p) /\ StillValid(p)

LEMMA NotSettled ==
  ASSUME NEW D, NEW R \in SUBSET recent, recent' \subseteq RecentWith(R, D, TRUE)
  PROVE  (\A p \in D : Settle(p, FALSE) \notin recent') /\ NoneRemembered
<1>0. NoneRemembered
  BY FailuresRemembered DEF NoneRemembered, SameKey
<1> SUFFICES ASSUME NEW p \in D, Settle(p, FALSE) \in RecentWith(R, D, TRUE)
             PROVE  FALSE
  BY <1>0
<1>1. Settle(p, FALSE).from = p.from /\ Settle(p, FALSE).msg = p.msg
  BY DEF Settle
<1>2. SameKey(Settle(p, FALSE), p)
  BY <1>1 DEF SameKey
<1>3. PICK q \in D : Settle(p, FALSE) = Settle(q, TRUE)
  BY <1>2 DEF RecentWith
<1>4. ~Settle(p, FALSE).retryable
  BY DEF Settle
<1>5. Settle(q, TRUE).retryable
  BY DEF Settle
<1> QED
  BY <1>3, <1>4, <1>5

LEMMA RecallsSubset ==
  ASSUME recent' \subseteq recent
  PROVE  NoneRemembered
BY DEF NoneRemembered, SameKey

\* A step that fails nothing and leaves every ask standing.
LEMMA QuietStep ==
  ASSUME pending \subseteq pending', NoneRemembered, Undelivered(writes'),
         \A e \in asks : (\E f \in asks' : SameAsk(e, f)) \/ Announced(e)
  PROVE  Quiet
<1>1. AsksWithout({}) = asks
  BY DEF AsksWithout
<1>2. FailureWrites({}, sessions, None) = {}
  BY <1>1 DEF FailureWrites, CancelNotices
<1>3. Fails({}, sessions, None)
  BY <1>1, <1>2 DEF Fails
<1> QED
  BY <1>3 DEF Quiet

LEMMA UntouchedQuiet ==
  ASSUME Untouched
  PROVE  Quiet
<1>1. \A e \in asks : SameAsk(e, e)
  BY DEF SameAsk
<1>2. NoneRemembered
  BY RecallsSubset DEF Untouched, table
<1> QED
  BY <1>1, <1>2, QuietStep DEF Untouched, table, Undelivered

LEMMA DetachFails ==
  ASSUME TypeOK, NEW s, NEW k, NEW known, known \in {sessions, sessions'}, Detach(s, k, known)
  PROVE  Quiet
<1> DEFINE D == OverSocket(s, k)
<1>1. D \subseteq pending /\ pending \ D \subseteq pending'
  BY DEF Detach, Drop, OverSocket
<1>2. (\A p \in D : Settle(p, FALSE) \notin recent') /\ NoneRemembered
  BY NotSettled DEF Detach, Drop
<1>3. /\ FailureWrites(D, known, "DISCONNECTED") \subseteq writes'
      /\ Undelivered(writes')
  BY FailureUndelivered, NoticesUndelivered DEF Detach, Undelivered
<1>4. ASSUME NEW e \in AsksWithout(D)
      PROVE  \E f \in asks' : SameAsk(e, f)
  <2> DEFINE f == IF Touches(e, s) THEN [e EXCEPT !.state = "deferred"] ELSE e
  <2>1. e \in AskEdge
    BY DEF AsksWithout, TypeOK
  <2>2. SameAsk(e, f)
    BY <2>1 DEF SameAsk, AskEdge
  <2>3. f \in asks'
    BY DEF Detach, Defer
  <2> QED
    BY <2>2, <2>3
<1>5. Fails(D, known, "DISCONNECTED")
  BY <1>1, <1>2, <1>3, <1>4 DEF Fails
<1> QED
  BY <1>5 DEF Quiet

LEMMA FailFails ==
  ASSUME NEW D \in SUBSET pending, NEW code, Fail(D, code)
  PROVE  Quiet
<1>1. pending \ D \subseteq pending'
  BY DEF Fail, Drop
<1>2. (\A p \in D : Settle(p, FALSE) \notin recent') /\ NoneRemembered
  BY NotSettled DEF Fail, Drop
<1>3. /\ FailureWrites(D, sessions, code) \subseteq writes'
      /\ Undelivered(writes')
  BY FailureUndelivered DEF Fail
<1>4. \A e \in AsksWithout(D) : e \in asks' /\ SameAsk(e, e)
  BY DEF Fail, SameAsk
<1>5. Fails(D, sessions, code)
  BY <1>1, <1>2, <1>3, <1>4 DEF Fails
<1> QED
  BY <1>5 DEF Quiet

\* The asks of the sessions in gone end with those.
LEMMA ClearAnnounces ==
  ASSUME NEW D, NEW gone, NEW known, NEW reason, known \in {sessions, sessions'},
         asks' = Clear(AsksWithout(D), gone),
         ClearNotices(AsksWithout(D), gone, known, reason) \subseteq writes',
         \A s \in gone : sessions'[s] = None,
         NEW e \in AsksWithout(D)
  PROVE  (\E f \in asks' : SameAsk(e, f)) \/ Announced(e)
<1> DEFINE A == AsksWithout(D)
<1>1. CASE e \in asks'
  BY <1>1 DEF SameAsk
<1>2. CASE e \notin asks'
  <2>1. e \in A \ Clear(A, gone) /\ (e.from \in gone \/ e.to \in gone)
    BY <1>2 DEF Clear
  <2>2. CASE e.from \in gone
    <3>1. Told(known, e.to, "ask_cancelled", e.from, e.id, reason) \subseteq writes'
      BY <2>1, <2>2 DEF ClearNotices
    <3>2. ~Stays(e.from)
      BY <2>2 DEF Stays
    <3>3. Stays(e.to) => Heard(e.to, {"ask_cancelled"}, e.id)
      BY <3>1, ToldHeard
    <3> QED
      BY <3>2, <3>3 DEF Announced
  <2>3. CASE e.from \notin gone
    <3>1. Told(known, e.from, "ask_cancelled", e.to, e.id, reason) \subseteq writes'
      BY <2>1, <2>3 DEF ClearNotices
    <3>2. ~Stays(e.to)
      BY <2>1, <2>3 DEF Stays
    <3>3. Stays(e.from) => Heard(e.from, {"ask_cancelled", "delivery_failed"}, e.id)
      BY <3>1, ToldHeard
    <3> QED
      BY <3>2, <3>3 DEF Announced
  <2> QED
    BY <2>2, <2>3
<1> QED
  BY <1>1, <1>2

LEMMA ConnectionsQuiet ==
  ASSUME TypeOK, Connections
  PROVE  Quiet
<1>1. ASSUME NEW k \in Sockets, SocketClose(k)
      PROVE  Quiet
  BY <1>1, DetachFails, UntouchedQuiet DEF SocketClose
<1>2. ASSUME NEW k \in Sockets, NEW s \in SessionIds, NEW name \in Names, Register(k, s, name)
      PROVE  Quiet
  BY <1>2, DetachFails, UntouchedQuiet DEF Register
<1>3. ASSUME NEW k \in Sockets, NEW preserveAsks \in BOOLEAN, Unregister(k, preserveAsks)
      PROVE  Quiet
  <2>1. CASE Holds(k) /\ ~preserveAsks
    <3> DEFINE s == bound[k]
               D == OverSocket(s, k)
               known == sessions'
    <3>1. /\ Drop(D, recent)
          /\ asks' = Clear(AsksWithout(D), {s})
          /\ writes' = FailureWrites(D, known, "DISCONNECTED")
               \cup ClearNotices(AsksWithout(D), {s}, known, "session_disconnected")
          /\ sessions' = [sessions EXCEPT ![s] = None]
      BY <1>3, <2>1 DEF Unregister
    <3>2. s \in SessionIds /\ sessions \in [SessionIds -> Session \cup {None}]
      BY <2>1 DEF Holds, TypeOK
    <3>3. \A x \in {s} : sessions'[x] = None
      BY <3>1, <3>2
    <3>4. \A e \in AsksWithout(D) : (\E f \in asks' : SameAsk(e, f)) \/ Announced(e)
      <4>1. known \in {sessions, sessions'}
        OBVIOUS
      <4>2. ClearNotices(AsksWithout(D), {s}, known, "session_disconnected") \subseteq writes'
        BY <3>1
      <4> HIDE DEF known, D, s
      <4> QED
        BY <3>1, <3>3, <4>1, <4>2, ClearAnnounces
    <3>5. D \subseteq pending /\ pending \ D \subseteq pending'
      BY <3>1 DEF Drop, OverSocket
    <3>6. (\A p \in D : Settle(p, FALSE) \notin recent') /\ NoneRemembered
      BY <3>1, NotSettled DEF Drop
    <3>7. Undelivered(writes')
      BY <3>1, FailureUndelivered, NoticesUndelivered, BothUndelivered
    <3>8. Fails(D, known, "DISCONNECTED")
      BY <3>1, <3>4, <3>5, <3>6, <3>7 DEF Fails
    <3> QED
      BY <3>8 DEF Quiet
  <2>2. CASE ~(Holds(k) /\ ~preserveAsks)
    BY <1>3, <2>2, DetachFails, UntouchedQuiet DEF Unregister
  <2> QED
    BY <2>1, <2>2
<1> QED
  BY <1>1, <1>2, <1>3, UntouchedQuiet
  DEF Connections, Connect, RegistrationTimeout, Condemn, Rename

LEMMA DisconnectQuiet ==
  ASSUME TypeOK, NEW changed \in SUBSET SessionIds, Disconnect(changed)
  PROVE  Quiet
<1> DEFINE gone == {s \in changed : Live(s)}
           D == UNION {OverSocket(s, sessions[s].socket) : s \in gone}
<1>1. /\ pending' = pending \ D
      /\ asks' = Clear(AsksWithout(D), gone)
      /\ recent' \subseteq RecentWith(recent, D, TRUE)
      /\ writes' = FailureWrites(D, sessions, "DISCONNECTED")
           \cup ClearNotices(AsksWithout(D), gone, sessions, "authorization_revoked")
      /\ sessions' = [s \in SessionIds |-> IF s \in gone THEN None ELSE sessions[s]]
  BY DEF Disconnect
<1>2. \A s \in gone : sessions'[s] = None
  BY <1>1
<1>3. D \subseteq pending
  BY DEF OverSocket
<1> HIDE DEF D, gone
<1>4. \A e \in AsksWithout(D) : (\E f \in asks' : SameAsk(e, f)) \/ Announced(e)
  BY <1>1, <1>2, ClearAnnounces
<1>5. (\A p \in D : Settle(p, FALSE) \notin recent') /\ NoneRemembered
  BY <1>1, NotSettled
<1>6. Undelivered(writes')
  BY <1>1, FailureUndelivered, NoticesUndelivered DEF Undelivered
<1>7. Fails(D, sessions, "DISCONNECTED")
  BY <1>1, <1>3, <1>4, <1>5, <1>6 DEF Fails
<1> QED
  BY <1>7 DEF Quiet

LEMMA AccessQuiet ==
  ASSUME TypeOK, Access
  PROVE  Quiet
<1>1. CASE \E r \in Remote : PrincipalLapses(r)
  BY <1>1, UntouchedQuiet DEF PrincipalLapses, Untouched
<1>2. CASE \E changed \in SUBSET Remote : Disconnect(changed)
  BY <1>2, DisconnectQuiet, IdentityAssumption
<1> QED
  BY <1>1, <1>2 DEF Access, RevokeSubtree, AdoptSubtree, Sweep, Subtree

LEMMA SendOutcome ==
  ASSUME TypeOK, NEW k \in Sockets, Send(k)
  PROVE  Quiet \/ Replays(k)
<1>1. PICK x \in Sends : SendMessage(k, x)
  BY DEF Send
<1> DEFINE s == x.from
           m == x.msg
           D == OutOfDate(s, m)
<1>2. D \subseteq pending
  BY DEF OutOfDate, PendingOf
<1>3. \A type, t, n, detail :
        type \notin {"delivered", "message"} => Undelivered(ToSocket(t, type, s, n, detail))
  BY DEF Undelivered, ToSocket
<1>4. \A e : SameAsk(e, e)
  BY DEF SameAsk
<1>10. Remembered(s, m) \subseteq recent
  BY DEF Remembered, Fresh
<1>5. CASE SendDuplicate(k, s, m) \/ SendPending(k, s, m)
  BY <1>3, <1>4, <1>5, <1>10, RecallsSubset, QuietStep DEF SendDuplicate, SendPending
<1>6. CASE SendReplayed(k, s, m)
  BY <1>1, <1>6 DEF SendMessage, Replays
<1>7. ASSUME recent' \subseteq RecentWith(Remembered(s, m), D, TRUE),
             pending \ D \subseteq pending',
             FailureWrites(D, sessions, "SESSION_NOT_FOUND") \subseteq writes',
             Undelivered(writes'),
             \A e \in AsksWithout(D) : \E f \in asks' : SameAsk(e, f)
      PROVE  Quiet
  <2>1. (\A p \in D : Settle(p, FALSE) \notin recent') /\ NoneRemembered
    BY <1>7, <1>10, NotSettled
  <2>2. Fails(D, sessions, "SESSION_NOT_FOUND")
    BY <1>2, <1>7, <2>1 DEF Fails
  <2> QED
    BY <2>2 DEF Quiet
<1>8. CASE SendRefused(k, s, m)
  <2>1. Undelivered(writes')
    BY <1>3, <1>8, FailureUndelivered DEF SendRefused, Undelivered
  <2> QED
    BY <1>4, <1>7, <1>8, <2>1 DEF SendRefused, Drop
<1>9. CASE \E d \in Deliveries : SendAccepted(k, s, m, d)
  <2>1. PICK d \in Deliveries : SendAccepted(k, s, m, d)
    BY <1>9
  <2>2. PICK t \in Recipients(s, m) :
          /\ pending' = (pending \ D) \cup
               {[delivery |-> d, from |-> s, to |-> t, msg |-> m,
                 senderSocket |-> k, recipientSocket |-> sessions[t].socket,
                 fromGen |-> sessions[s].gen, toGen |-> sessions[t].gen]}
          /\ asks' = WithAsk(AsksWithout(D), s, t, m)
          /\ writes' = FailureWrites(D, sessions, "SESSION_NOT_FOUND")
               \cup ToSocket(k, "delivery_accepted", s, m, d)
               \cup ToSocket(sessions[t].socket, "message", s, m, d)
    BY <2>1 DEF SendAccepted
  <2>5. Undelivered(ToSocket(sessions[t].socket, "message", s, m, d))
    <3> DEFINE new == [delivery |-> d, from |-> s, to |-> t, msg |-> m,
                       senderSocket |-> k, recipientSocket |-> sessions[t].socket,
                       fromGen |-> sessions[s].gen, toGen |-> sessions[t].gen]
    <3>1. new \in pending' /\ \A p \in pending : p.delivery # d
      BY <2>1, <2>2 DEF SendAccepted
    <3>2. new.msg.id = m.id /\ new.delivery = d
      OBVIOUS
    <3> QED
      BY <3>1, <3>2 DEF Undelivered, ToSocket
  <2>3. Undelivered(writes')
    BY <1>3, <2>2, <2>5, FailureUndelivered DEF Undelivered
  <2>4. \A e \in AsksWithout(D) : \E f \in asks' : SameAsk(e, f)
    BY <1>4, <2>2 DEF WithAsk
  <2> QED
    BY <1>7, <2>1, <2>2, <2>3, <2>4 DEF SendAccepted
<1> QED
  BY <1>1, <1>5, <1>6, <1>8, <1>9 DEF SendMessage

\* An exchange that neither answers a send nor accepts an acknowledgement.
LEMMA ExchangeQuiet ==
  ASSUME TypeOK,
         \/ \E k \in Sockets, p \in pending :
              MessageRejected(k, p) \/ (MessageReceived(k, p) /\ ~StillValid(p))
         \/ \E k \in Sockets, e \in asks : DeferAsk(k, e) \/ CancelAsk(k, e)
         \/ \E p \in pending : DeliveryTimeout(p)
         \/ \E e \in asks : AskExpires(e)
         \/ \E e \in askFile : AskLapses(e)
         \/ \E r \in recent : RecentLapses(r)
  PROVE  Quiet
<1>1. ASSUME NEW k \in Sockets, NEW p \in pending, MessageReceived(k, p), ~StillValid(p)
      PROVE  Quiet
  BY <1>1, FailFails DEF MessageReceived
<1>2. ASSUME NEW k \in Sockets, NEW p \in pending, MessageRejected(k, p)
      PROVE  Quiet
  BY <1>2, FailFails DEF MessageRejected
<1>3. ASSUME NEW p \in pending, DeliveryTimeout(p)
      PROVE  Quiet
  BY <1>3, FailFails DEF DeliveryTimeout
<1>4. asks \subseteq AskEdge
  BY DEF TypeOK
<1>5. \A e \in AskEdge : /\ SameAsk(e, e)
                         /\ SameAsk(e, [e EXCEPT !.state = "deferred"])
                         /\ SameAsk(e, [e EXCEPT !.due = TRUE])
  BY DEF AskEdge, SameAsk
<1>6. ASSUME NEW k \in Sockets, NEW e \in asks, DeferAsk(k, e)
      PROVE  Quiet
  <2>1. Undelivered(writes')
    BY <1>6 DEF DeferAsk, Told, Undelivered
  <2>2. \A x \in asks : \E f \in asks' : SameAsk(x, f)
    BY <1>4, <1>5, <1>6 DEF DeferAsk
  <2> QED
    BY <1>6, <2>1, <2>2, RecallsSubset, QuietStep DEF DeferAsk
<1>7. ASSUME NEW e \in asks, AskExpires(e) \/ \E k \in Sockets : CancelAsk(k, e)
      PROVE  Quiet
  <2>1. /\ asks' = asks \ {e} /\ UNCHANGED <<pending, recent, sessions>>
        /\ \E reason : writes' = CancelNotices({e}, sessions, reason)
    BY <1>7 DEF AskExpires, CancelAsk
  <2>2. PICK reason : writes' = CancelNotices({e}, sessions, reason)
    BY <2>1
  <2>3. Told(sessions, e.to, "ask_cancelled", e.from, e.id, reason) \subseteq writes'
    BY <2>2 DEF CancelNotices
  <2>4. Stays(e.to) => Heard(e.to, {"ask_cancelled"}, e.id)
    BY <2>3, ToldHeard
  <2>5. Stays(e.to) \/ Withdrawn(e) \/ ExpiresUnheard(e)
    <3>1. CASE Live(e.to)
      BY <2>1, <3>1 DEF Stays, Live
    <3>2. CASE ~Live(e.to)
      BY <1>7, <3>2 DEF Withdrawn, ExpiresUnheard
    <3> QED
      BY <3>1, <3>2
  <2>6. Announced(e)
    BY <2>4, <2>5 DEF Announced
  <2>7. \A x \in asks : (\E f \in asks' : SameAsk(x, f)) \/ Announced(x)
    BY <1>4, <1>5, <2>1, <2>6
  <2>8. Undelivered(writes') /\ NoneRemembered
    BY <2>1, <2>2, NoticesUndelivered, RecallsSubset
  <2> QED
    BY <2>1, <2>7, <2>8, QuietStep
<1>8. ASSUME NEW e \in askFile, AskLapses(e)
      PROVE  Quiet
  <2>1. \A x \in asks : \E f \in asks' : SameAsk(x, f)
    BY <1>4, <1>5, <1>8 DEF AskLapses
  <2> QED
    BY <1>8, <2>1, RecallsSubset, QuietStep DEF AskLapses, Undelivered
<1>9. ASSUME NEW r \in recent, RecentLapses(r)
       PROVE  Quiet
  <2> DEFINE l == [r EXCEPT !.lapsed = TRUE]
  <2>1. SameKey(r, l) /\ l.retryable = r.retryable
    BY DEF TypeOK, Settled, SameKey
  <2> HIDE DEF l
  <2>2. recent' = (recent \ {r}) \cup {l}
    BY <1>9 DEF RecentLapses, l
  <2>3. NoneRemembered
    BY <2>1, <2>2 DEF NoneRemembered, SameKey
  <2> QED
    BY <1>4, <1>5, <1>9, <2>3, QuietStep DEF RecentLapses, Undelivered
<1> QED
  BY <1>1, <1>2, <1>3, <1>6, <1>7, <1>8, <1>9

LEMMA ExchangesOutcome ==
  ASSUME TypeOK, Exchanges
  PROVE  Quiet \/ (\E k \in Sockets : Replays(k)) \/ (\E p \in pending : Delivers(p))
BY SendOutcome, ExchangeQuiet DEF Exchanges, Delivers

\* Every step fails deliveries and ends asks with notice, replays an answer,
\* accepts an acknowledgement, or ends the process.
LEMMA StepOutcome ==
  ASSUME TypeOK, DownIsEmpty, Next
  PROVE  \/ Quiet
         \/ \E k \in Sockets : Replays(k)
         \/ \E p \in pending : Delivers(p)
         \/ ~up' /\ writes' = {}
<1>1. CASE Start
  BY <1>1, RecallsSubset, QuietStep DEF Start, DownIsEmpty, Undelivered
<1>2. CASE ShutdownCheck /\ LiveIds # {}
  BY <1>2, UntouchedQuiet DEF ShutdownCheck
<1>3. CASE Stop
  BY <1>3 DEF Stop
<1> QED
  BY <1>1, <1>2, <1>3, ConnectionsQuiet, ExchangesOutcome, AccessQuiet
  DEF Next, Crash, ShutdownCheck

-----------------------------------------------------------------------------
(* The broker's promises to its clients.                                   *)

LEMMA AnswerHolds ==
  ASSUME TypeOK, DownIsEmpty, PendingIsConnected, Next,
         up', NEW p \in pending \ pending', Stays(p.from)
  PROVE  \/ /\ Heard(p.from, {"delivered"}, p.msg.id)
            /\ Settle(p, FALSE) \in recent'
         \/ /\ Heard(p.from, {"delivery_failed"}, p.msg.id)
            /\ ~Heard(p.from, {"delivered"}, p.msg.id)
            /\ Settle(p, FALSE) \notin recent'
<1>1. CASE Quiet
  <2>1. PICK D, known, code : Fails(D, known, code)
    BY <1>1 DEF Quiet
  <2>2. p \in D
    BY <2>1 DEF Fails
  <2>3. Answered(p, known, "delivery_failed", code) \subseteq writes'
    BY <2>1, <2>2 DEF Fails, FailureWrites
  <2>4. known \in {sessions, sessions'}
    BY <2>1 DEF Fails
  <2>5. Heard(p.from, {"delivery_failed"}, p.msg.id)
    BY <2>3, <2>4, AnsweredHeard
  <2>6. ~Heard(p.from, {"delivered"}, p.msg.id)
    BY <2>1 DEF Fails, Undelivered, Heard
  <2>7. Settle(p, FALSE) \notin recent'
    BY <2>1, <2>2 DEF Fails
  <2> QED
    BY <2>5, <2>6, <2>7
<1>2. CASE \E k \in Sockets : Replays(k)
  BY <1>2 DEF Replays, SendReplayed
<1>3. CASE \E q \in pending : Delivers(q)
  <2>1. PICK q \in pending : Delivers(q)
    BY <1>3
  <2>2. p = q
    BY <2>1 DEF Delivers, MessageReceived
  <2>3. Answered(p, sessions, "delivered", p.delivery) \subseteq writes'
    BY <2>1, <2>2 DEF Delivers, MessageReceived
  <2>4. Heard(p.from, {"delivered"}, p.msg.id)
    BY <2>3, AnsweredHeard
  <2>5. Settle(p, FALSE) \in recent'
    BY <2>1, <2>2 DEF Delivers, MessageReceived, RecentWith
  <2> QED
    BY <2>4, <2>5
<1> QED
  BY <1>1, <1>2, <1>3, StepOutcome

\* Through timeouts, takeovers, revocations and replays, a sender that keeps its
\* connection is told how each of its deliveries ended, and that as the broker
\* will remember it.
THEOREM SettlementsAreAnswered == Spec => SettlementIsAnswered
<1>1. Init => DownIsEmpty
  BY DEF Init, DownIsEmpty
<1>2. TypeOK /\ DownIsEmpty /\ [Next]_vars => DownIsEmpty'
  BY EmptyStep
<1>3. TypeOK /\ DownIsEmpty /\ PendingIsConnected /\ [Next]_vars =>
        [up' => \A p \in pending \ pending' : Stays(p.from) =>
           \/ /\ Heard(p.from, {"delivered"}, p.msg.id)
              /\ Settle(p, FALSE) \in recent'
           \/ /\ Heard(p.from, {"delivery_failed"}, p.msg.id)
              /\ ~Heard(p.from, {"delivered"}, p.msg.id)
              /\ Settle(p, FALSE) \notin recent'
        ]_vars
  BY AnswerHolds
<1> QED
  BY <1>1, <1>2, <1>3, TypeCorrect, ConnectedCorrect, PTL DEF Spec, SettlementIsAnswered

LEMMA EndHolds ==
  ASSUME TypeOK, DownIsEmpty, PendingIsConnected, Next, up', NEW e \in asks,
         \A f \in asks' : ~SameAsk(e, f), ~AnsweredNow(e)
  PROVE  Announced(e)
<1>1. CASE Quiet
  <2>1. PICK D, known, code : Fails(D, known, code)
    BY <1>1 DEF Quiet
  <2>2. CASE e \in AsksWithout(D)
    BY <2>1, <2>2 DEF Fails
  <2>3. CASE e \notin AsksWithout(D)
    <3>1. PICK p \in D : e.from = p.from /\ e.id = p.msg.id
      BY <2>3 DEF AsksWithout
    <3>2. p \in pending /\ known \in {sessions, sessions'}
      BY <2>1 DEF Fails
    <3>3. FailureWrites(D, known, code) \subseteq writes'
      BY <2>1 DEF Fails
    <3>4. Answered(p, known, "delivery_failed", code) \subseteq writes'
      BY <3>3 DEF FailureWrites
    <3>5. Told(known, e.to, "ask_cancelled", e.from, e.id, "delivery_failed") \subseteq writes'
      BY <2>3, <3>3 DEF FailureWrites, CancelNotices
    <3>6. Stays(e.to) => Heard(e.to, {"ask_cancelled"}, e.id)
      BY <3>2, <3>5, ToldHeard
    <3>7. Stays(e.from) => Heard(e.from, {"ask_cancelled", "delivery_failed"}, e.id)
      BY <3>1, <3>2, <3>4, AnsweredHeard
    <3> QED
      BY <3>6, <3>7 DEF Announced
  <2> QED
    BY <2>2, <2>3
<1>2. CASE \E k \in Sockets : Replays(k)
  BY <1>2 DEF Replays, SendReplayed, SameAsk
<1>3. CASE \E q \in pending : Delivers(q)
  <2>1. PICK q \in pending : Delivers(q)
    BY <1>3
  <2>2. /\ pending' = pending \ {q}
        /\ asks' = {x \in asks : ~(x.from = q.to /\ x.id = q.msg.replyTo)}
        /\ recent' = RecentWith(recent, {q}, FALSE)
    BY <2>1 DEF Delivers, MessageReceived
  <2>3. e \notin asks'
    BY DEF SameAsk
  <2>4. q.to = e.from /\ q.msg.replyTo = e.id
    BY <2>2, <2>3
  <2>5. Settle(q, FALSE) \in recent'
    BY <2>2 DEF RecentWith
  <2>6. AnsweredNow(e)
    BY <2>2, <2>4, <2>5 DEF AnsweredNow
  <2> QED
    BY <2>6
<1> QED
  BY <1>1, <1>2, <1>3, StepOutcome

\* Whatever ends an ask other than its reply - a failed delivery, an expiry, a
\* cancellation, a session that leaves or is revoked - is announced to the session
\* asked, if that stays connected, and otherwise to the asker, unless it withdrew
\* the ask itself or the ask expired while the session asked was offline.
THEOREM AskEndsAreAnnounced == Spec => AskEndIsAnnounced
<1>1. Init => DownIsEmpty
  BY DEF Init, DownIsEmpty
<1>2. TypeOK /\ DownIsEmpty /\ [Next]_vars => DownIsEmpty'
  BY EmptyStep
<1>3. TypeOK /\ DownIsEmpty /\ PendingIsConnected /\ [Next]_vars =>
        [up' => \A e \in asks :
           (\A f \in asks' : ~SameAsk(e, f)) /\ ~AnsweredNow(e) =>
             /\ Stays(e.to) => Heard(e.to, {"ask_cancelled"}, e.id)
             /\ \/ Stays(e.to) \/ Withdrawn(e) \/ ExpiresUnheard(e)
                \/ Stays(e.from) => Heard(e.from, {"ask_cancelled", "delivery_failed"}, e.id)
        ]_vars
  BY EndHolds DEF Announced
<1> QED
  BY <1>1, <1>2, <1>3, TypeCorrect, ConnectedCorrect, PTL DEF Spec, AskEndIsAnnounced

\* The generations and the authority of a delivery depend on what it keeps of
\* the message alone.
LEMMA SettledValid ==
  ASSUME NEW p, NEW b
  PROVE  StillValid(Settle(p, b)) <=> StillValid(p)
<1>1. /\ Settle(p, b).from = p.from /\ Settle(p, b).to = p.to
      /\ Settle(p, b).fromGen = p.fromGen /\ Settle(p, b).toGen = p.toGen
  BY DEF Settle
<1> QED
  BY <1>1 DEF StillValid

LEMMA AuthorityHolds ==
  ASSUME TypeOK, DownIsEmpty, Next, NEW w \in writes', w.type = "delivered"
  PROVE  \E r \in recent' : r.from = w.from /\ r.msg.id = w.id /\ StillValid(r)
<1>1. ~Quiet
  BY DEF Quiet, Fails, Undelivered
<1>2. ASSUME NEW k \in Sockets, Replays(k)
      PROVE  \E r \in recent' : r.from = w.from /\ r.msg.id = w.id /\ StillValid(r)
  <2>1. PICK x \in Sends : SendReplayed(k, x.from, x.msg)
    BY <1>2 DEF Replays
  <2>2. PICK r \in Answer(x.from, x.msg) :
          writes' = ToSocket(k, "delivery_accepted", x.from, x.msg, r.delivery)
                      \cup ToSocket(k, "delivered", x.from, x.msg, r.delivery)
    BY <2>1 DEF SendReplayed
  <2>3. w.from = x.from /\ w.id = x.msg.id
    BY <2>2 DEF ToSocket
  <2>4. r \in Fresh /\ r.from = x.from /\ r.msg = x.msg /\ StillValid(r)
    BY DEF Answer, RecentOf
  <2>5. r \in recent'
    BY <2>1, <2>4 DEF SendReplayed, Remembered
  <2> QED
    BY <2>3, <2>4, <2>5
<1>3. ASSUME NEW p \in pending, Delivers(p)
      PROVE  \E r \in recent' : r.from = w.from /\ r.msg.id = w.id /\ StillValid(r)
  <2>1. writes' = Answered(p, sessions, "delivered", p.delivery)
    BY <1>3 DEF Delivers, MessageReceived
  <2>2. w.from = p.from /\ w.id = p.msg.id
    BY <2>1 DEF Answered
  <2>3. Settle(p, FALSE) \in recent'
    BY <1>3 DEF Delivers, MessageReceived, RecentWith
  <2>4. StillValid(Settle(p, FALSE))
    BY <1>3, SettledValid DEF Delivers
  <2>5. Settle(p, FALSE).from = p.from /\ Settle(p, FALSE).msg = p.msg
    BY DEF Settle
  <2> QED
    BY <2>2, <2>3, <2>4, <2>5
<1> QED
  BY <1>1, <1>2, <1>3, StepOutcome

\* No session learns that its message was delivered, at first or on a replay,
\* when it and the receiver may not talk, or are not those it was sent between:
\* a revocation or a takeover in between leaves the claim unmade.
THEOREM DeliveriesHaveAuthority == Spec => DeliveredWithAuthority
<1>1. Init => DownIsEmpty
  BY DEF Init, DownIsEmpty
<1>2. TypeOK /\ DownIsEmpty /\ [Next]_vars => DownIsEmpty'
  BY EmptyStep
<1>3. TypeOK /\ DownIsEmpty /\ [Next]_vars =>
        [\A w \in writes' : w.type = "delivered" =>
           \E r \in recent' : /\ r.from = w.from /\ r.msg.id = w.id
                              /\ StillValid(r)]_vars
  BY AuthorityHolds
<1> QED
  BY <1>1, <1>2, <1>3, TypeCorrect, PTL DEF Spec, DeliveredWithAuthority
=============================================================================
