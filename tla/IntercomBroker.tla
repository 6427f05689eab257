--------------------------- MODULE IntercomBroker ---------------------------
(***************************************************************************)
(* The message broker (src/broker/broker.ts): the sessions registered over *)
(* its sockets, the deliveries waiting for a receiver's acknowledgement,   *)
(* the recently settled deliveries it can answer a replay from, and the    *)
(* ask edges it keeps in memory and in ask-edges.json.                     *)
(*                                                                         *)
(* The broker is one event loop, so a handler is one action.  What differs *)
(* between two runs is the order in which sockets, timers and the operator *)
(* get their turn, and where the process is killed.                        *)
(***************************************************************************)
EXTENDS Naturals, FiniteSets

CONSTANTS
  None,             \* undefined / null
  SessionIds,       \* session identities, local and remote
  Remote,           \* those that belong to enrolled remote principals
  RemoteParent,     \* the parent each remote principal was enrolled under
  RemoteName,       \* the name fixed by each principal's enrollment
  Names,            \* the names a session can go by, up to case
  Abbreviations,    \* pairs <<text, id>>: text is a proper prefix of id
  Sockets,          \* connections, an identity being reused once forgotten
  MessageIds,       \* the ids clients give their messages
  Deliveries,       \* the ids the broker gives delivery attempts
  Sends,            \* what each session may send: [from, msg]
  MaxSessions,           \* MAX_SESSIONS
  MaxPending,            \* MAX_PENDING_DELIVERIES
  MaxPendingPerSession,  \* MAX_PENDING_DELIVERIES_PER_SESSION
  MaxAsksPerSession,     \* MAX_PENDING_ASKS_PER_SESSION
  MaxGeneration          \* bound: transitions of one principal

Local == SessionIds \ Remote
Targets == SessionIds \cup Names \cup {pair[1] : pair \in Abbreviations}

\* What the broker reads of a message; two payloads differ in one of these.
Message == [id : MessageIds, to : Targets,
            replyTo : MessageIds \cup {None}, expectsReply : BOOLEAN]

ASSUME IdentityAssumption ==
  /\ Remote \subseteq SessionIds
  /\ RemoteParent \in [Remote -> SessionIds]
  /\ RemoteName \in [Remote -> Names]
  /\ None \notin SessionIds \cup MessageIds
ASSUME SendsAssumption == Sends \subseteq [from : SessionIds, msg : Message]
ASSUME LimitsAssumption ==
  /\ {MaxSessions, MaxPending, MaxPendingPerSession, MaxAsksPerSession} \subseteq Nat \ {0}
  /\ MaxGeneration \in Nat
ASSUME FiniteAssumption ==
  IsFiniteSet(SessionIds) /\ IsFiniteSet(Deliveries) /\ IsFiniteSet(MessageIds)

VARIABLES
  up,             \* the broker process runs
  conn,           \* what has become of each connection
  bound,          \* the session id each connection's handler holds
  sessions,       \* sessions: id |-> where and as what it is registered
  pending,        \* pendingDeliveries
  pendingKeys,    \* pendingDeliveryKeys: (sender, message id) |-> delivery id
  recent,         \* recentDeliveries
  asks,           \* askEdges
  askFile,        \* the edges ask-edges.json holds
  shutdownTimer,  \* the idle shutdown timer is armed
  principals,     \* the remote access registry's records
  writes          \* what the last handler wrote to its clients' sockets

table == <<pending, pendingKeys, recent, asks, askFile>>
vars == <<up, conn, bound, sessions, table, shutdownTimer, principals, writes>>

ConnState == {"free", "open", "ending", "destroyed"}
Session == [socket : Sockets, name : Names, gen : Nat,
            parent : SessionIds \cup {None}]
Delivery == [delivery : Deliveries, from : SessionIds, to : SessionIds,
             msg : Message, senderSocket : Sockets, recipientSocket : Sockets,
             fromGen : Nat, toGen : Nat]
DeliveryKey == [from : SessionIds, id : MessageIds, delivery : Deliveries]
Settled == [delivery : Deliveries, from : SessionIds, to : SessionIds,
            msg : Message, fromGen : Nat, toGen : Nat,
            retryable : BOOLEAN, lapsed : BOOLEAN]
AskEdge == [from : SessionIds, to : SessionIds, id : MessageIds,
            state : {"blocking", "deferred"}, due : BOOLEAN]
Principal == [parent : SessionIds, gen : Nat,
              state : {"active", "lapsed", "revoked"}]
Code == {"DUPLICATE_MESSAGE_ID", "TOO_MANY_PENDING_DELIVERIES",
         "SENDER_NOT_FOUND", "SESSION_NOT_FOUND", "AMBIGUOUS_TARGET",
         "INVALID_REPLY_TARGET", "ASK_ALREADY_PENDING", "MUTUAL_ASK",
         "TOO_MANY_PENDING_ASKS", "DISCONNECTED", "DELIVERY_TIMEOUT",
         "CONFLICTING_MESSAGE_ID"}
Reason == {"cancelled", "expired", "session_disconnected",
           "authorization_revoked", "delivery_failed"}
Write == [socket : Sockets, type : {"delivery_accepted", "delivered", "message"},
          from : SessionIds, id : MessageIds, detail : Deliveries]
  \cup [socket : Sockets, type : {"delivery_failed"},
        from : SessionIds, id : MessageIds, detail : Code]
  \cup [socket : Sockets, type : {"ask_deferred"},
        from : SessionIds, id : MessageIds, detail : {None}]
  \cup [socket : Sockets, type : {"ask_cancelled"},
        from : SessionIds, id : MessageIds, detail : Reason]

ASSUME NoneAssumption == None \notin Session \cup Code

TypeOK ==
  /\ up \in BOOLEAN /\ shutdownTimer \in BOOLEAN
  /\ conn \in [Sockets -> ConnState]
  /\ bound \in [Sockets -> SessionIds \cup {None}]
  /\ sessions \in [SessionIds -> Session \cup {None}]
  /\ pending \subseteq Delivery
  /\ pendingKeys \subseteq DeliveryKey
  /\ recent \subseteq Settled
  /\ asks \subseteq AskEdge /\ askFile \subseteq AskEdge
  /\ principals \in [Remote -> Principal]
  /\ writes \subseteq Write

-----------------------------------------------------------------------------
(* Sessions, principals and who may talk to whom.                          *)

Live(s) == sessions[s] # None
LiveIds == {s \in SessionIds : Live(s)}

\* isCurrentPrincipal: a registered session whose principal, if it is a
\* remote one, is active, unexpired and of the generation it registered with.
Current(s) ==
  /\ Live(s)
  /\ s \in Remote => /\ principals[s].state = "active"
                     /\ principals[s].gen = sessions[s].gen

\* isAncestor over the live sessions: a is in every set that holds d's parent
\* and, with a live session, that session's parent.
Ancestors(d) ==
  {a \in SessionIds \ {d} :
    /\ sessions[d].parent # None
    /\ \A S \in SUBSET SessionIds :
         (/\ sessions[d].parent \in S
          /\ \A x \in S : Live(x) /\ sessions[x].parent # None
                            => sessions[x].parent \in S)
         => a \in S}

\* isAuthorized for discover, send, ask and reply, which policy treats alike.
Authorized(a, t) ==
  /\ Current(a) /\ Current(t)
  /\ \/ a = t
     \/ a \in Local /\ t \in Local
     \/ a \in Ancestors(t)
     \/ t \in Ancestors(a)

\* authorizationStillValid: the two sessions of a delivery are registered in
\* the generations it was made for and may still talk.
StillValid(x) ==
  /\ Live(x.from) /\ Live(x.to)
  /\ sessions[x.from].gen = x.fromGen
  /\ sessions[x.to].gen = x.toGen
  /\ Authorized(x.from, x.to)

\* findSessions: by id, else by name, else by a prefix of the id.
Candidates(t) ==
  LET named == {s \in LiveIds : sessions[s].name = t}
      abbreviated == {s \in LiveIds : <<t, s>> \in Abbreviations}
  IN IF t \in LiveIds THEN {t} ELSE IF named # {} THEN named ELSE abbreviated

Reads(k) == up /\ conn[k] \in {"open", "ending"}
\* A registered client's message reaches its handler (the check at 537 passed).
Handles(k) == Reads(k) /\ bound[k] # None /\ Current(bound[k])

\* Mutant of Holds: the close handler looks its session up by id alone.
HoldsById(k) == bound[k] # None /\ Live(bound[k])

\* The session of k's handler is registered over k itself.
Holds(k) ==
  bound[k] # None /\ Live(bound[k]) /\ sessions[bound[k]].socket = k

-----------------------------------------------------------------------------
(* Asks.  An edge says that `from` waits for `to` to reply to `id`.        *)

SameAsk(e, x) == e.from = x.from /\ e.id = x.id
Touches(e, s) == e.from = s \/ e.to = s

\* Mutant of Persist: the edges are changed in memory only.
PersistNothing == UNCHANGED askFile

\* persistAskEdges: every change of the edges is on disk when it returns.
Persist == askFile' = asks'

\* Who hears of an edge's end or deferral is looked up in the sessions the
\* broker holds at that point, `known`.
Told(known, s, type, from, id, detail) ==
  IF known[s] = None THEN {}
  ELSE {[socket |-> known[s].socket, type |-> type, from |-> from, id |-> id,
         detail |-> detail]}

\* Mutant of CancelNotices: the notice goes to the session that asked.
CancelNoticesToAsker(E, known, reason) ==
  UNION {Told(known, e.from, "ask_cancelled", e.from, e.id, reason) : e \in E}

\* notifyAskCancelled, for each edge of E, to the session waited for.
CancelNotices(E, known, reason) ==
  UNION {Told(known, e.to, "ask_cancelled", e.from, e.id, reason) : e \in E}

\* Mutant of Defer: only the asks the session made are deferred.
DeferOwn(E, s) ==
  {IF e.from = s THEN [e EXCEPT !.state = "deferred"] ELSE e : e \in E}

\* deferAskEdgesForSession, over the edges E: the waiting session's partner is
\* told; the other direction is silent.
Defer(E, s) ==
  {IF Touches(e, s) THEN [e EXCEPT !.state = "deferred"] ELSE e : e \in E}
DeferNotices(E, s, known) ==
  UNION {Told(known, e.to, "ask_deferred", e.from, e.id, None) :
           e \in {x \in E : x.from = s /\ x.state = "blocking"}}

\* clearAskEdgesForSession, over the edges E, for every session of gone.
Clear(E, gone) == {e \in E : e.from \notin gone /\ e.to \notin gone}
ClearNotices(E, gone, known, reason) ==
  UNION {IF e.from \in gone
         THEN Told(known, e.to, "ask_cancelled", e.from, e.id, reason)
         ELSE Told(known, e.from, "ask_cancelled", e.to, e.id, reason) :
           e \in E \ Clear(E, gone)}

-----------------------------------------------------------------------------
(* Deliveries.  failPendingDelivery, for every delivery of D: the tables   *)
(* after it and what it writes.                                            *)

SameKey(x, p) == x.from = p.from /\ x.msg.id = p.msg.id

\* Mutant of KeysWithout: the key index keeps what the deliveries lost.
KeysKept(D) == pendingKeys
\* Mutant of AsksWithout: a failed ask leaves its edge.
AsksKept(D) == asks
\* Mutant of Settle: the entry is stored without an expiry.
SettleForGood(p, retryable) ==
  [delivery |-> p.delivery, from |-> p.from, to |-> p.to, msg |-> p.msg,
   fromGen |-> p.fromGen, toGen |-> p.toGen, retryable |-> retryable]

KeysWithout(D) ==
  {x \in pendingKeys : \A p \in D : ~(x.from = p.from /\ x.id = p.msg.id)}
AsksWithout(D) ==
  {e \in asks : \A p \in D :
     p.msg.expectsReply => ~(e.from = p.from /\ e.id = p.msg.id)}
Settle(p, retryable) ==
  [delivery |-> p.delivery, from |-> p.from, to |-> p.to, msg |-> p.msg,
   fromGen |-> p.fromGen, toGen |-> p.toGen, retryable |-> retryable,
   lapsed |-> FALSE]
\* Mutant of RecentWith: a failure is remembered as a delivery.
RecentWithDelivered(R, D, retryable) ==
  {r \in R : \A p \in D : ~SameKey(r, p)} \cup {Settle(p, FALSE) : p \in D}

RecentWith(R, D, retryable) ==
  {r \in R : \A p \in D : ~SameKey(r, p)} \cup {Settle(p, retryable) : p \in D}

\* The answer to a delivery goes to its sender's socket while that is current.
Answered(p, known, type, detail) ==
  IF known[p.from] # None /\ known[p.from].socket = p.senderSocket
  THEN {[socket |-> p.senderSocket, type |-> type, from |-> p.from,
         id |-> p.msg.id, detail |-> detail]}
  ELSE {}
FailureWrites(D, known, code) ==
  (UNION {Answered(p, known, "delivery_failed", code) : p \in D})
  \cup CancelNotices(asks \ AsksWithout(D), known, "delivery_failed")

\* The deliveries of D leave the tables; R is what is remembered besides.
Drop(D, R) ==
  /\ pending' = pending \ D
  /\ pendingKeys' = KeysWithout(D)
  /\ recent' = RecentWith(R, D, TRUE)

\* failPendingDelivery alone.
Fail(D, code) ==
  /\ Drop(D, recent)
  /\ asks' = AsksWithout(D)
  /\ writes' = FailureWrites(D, sessions, code)
  /\ Persist

\* Mutant of OverSocket: only what the session was to receive.
ToReceiveOver(s, k) == {p \in pending : p.to = s /\ p.recipientSocket = k}

\* clearPendingDeliveriesForSession: the deliveries to or from s over k.
OverSocket(s, k) ==
  {p \in pending : \/ p.to = s /\ p.recipientSocket = k
                   \/ p.from = s /\ p.senderSocket = k}

\* A session loses its socket k: its deliveries fail, its asks are deferred.
Detach(s, k, known) ==
  LET D == OverSocket(s, k)
  IN /\ Drop(D, recent)
     /\ asks' = Defer(AsksWithout(D), s)
     /\ writes' = FailureWrites(D, known, "DISCONNECTED")
                    \cup DeferNotices(AsksWithout(D), s, known)
     /\ Persist

Untouched == UNCHANGED table /\ writes' = {}

\* Mutant of ArmShutdown: armed if no session was left before this step.
ArmShutdownEarly == shutdownTimer' = (LiveIds = {})

\* scheduleShutdownCheck.
ArmShutdown == shutdownTimer' = TRUE

-----------------------------------------------------------------------------
(* Connections and sessions.                                               *)

\* handleConnection.  A socket object that a delivery still refers to is not
\* the one a new connection gets.
Connect(k) ==
  /\ up /\ conn[k] = "free"
  /\ \A p \in pending : k \notin {p.senderSocket, p.recipientSocket}
  /\ \A s \in LiveIds : sessions[s].socket # k
  /\ conn' = [conn EXCEPT ![k] = "open"]
  /\ Untouched
  /\ UNCHANGED <<up, bound, sessions, shutdownTimer, principals>>

\* A connection that has not registered is destroyed: its registration time
\* is over, newer ones displaced it, or it asked for more than MAX_SESSIONS.
RegistrationTimeout(k) ==
  /\ Reads(k) /\ bound[k] = None
  /\ conn' = [conn EXCEPT ![k] = "destroyed"]
  /\ Untouched
  /\ UNCHANGED <<up, bound, sessions, shutdownTimer, principals>>

\* The broker gives a connection up without touching what it registered: it
\* ends it on a malformed request, destroys it on a framing error, a used up
\* rate limit or a message of a principal that is no longer current.
Condemn(k) ==
  /\ Reads(k)
  /\ \E after \in {"ending", "destroyed"} : conn' = [conn EXCEPT ![k] = after]
  /\ conn' # conn
  /\ Untouched
  /\ UNCHANGED <<up, bound, sessions, shutdownTimer, principals>>

\* register.  A local client names the identity it resumes and takes it over
\* from the connection that holds it; a remote one may not while it is held.
Register(k, s, name) ==
  LET old == sessions[s].socket
  IN
  /\ Reads(k) /\ bound[k] = None
  /\ Live(s) \/ Cardinality(LiveIds) < MaxSessions
  /\ s \in Remote => /\ ~Live(s)
                     /\ principals[s].state = "active"
                     /\ name = RemoteName[s]
  /\ IF Live(s)
     THEN /\ Detach(s, old, sessions)
          /\ conn' = [conn EXCEPT ![old] = IF @ = "open" THEN "ending" ELSE @]
     ELSE Untouched /\ UNCHANGED conn
  /\ bound' = [bound EXCEPT ![k] = s]
  /\ sessions' = [sessions EXCEPT ![s] =
       [socket |-> k, name |-> name,
        gen |-> IF s \in Remote THEN principals[s].gen ELSE 1,
        parent |-> IF s \in Remote THEN principals[s].parent ELSE None]]
  /\ shutdownTimer' = FALSE
  /\ UNCHANGED <<up, principals>>

\* unregister: only the connection that holds the session ends it.
Unregister(k, preserveAsks) ==
  LET s == bound[k]
      D == OverSocket(s, k)
  IN
  /\ Handles(k)
  /\ bound' = [bound EXCEPT ![k] = None]
  /\ IF Holds(k)
     THEN /\ sessions' = [sessions EXCEPT ![s] = None]
          /\ ArmShutdown
          /\ IF preserveAsks
             THEN Detach(s, k, sessions')
             ELSE /\ Drop(D, recent)
                  /\ asks' = Clear(AsksWithout(D), {s})
                  /\ writes' = FailureWrites(D, sessions', "DISCONNECTED")
                       \cup ClearNotices(AsksWithout(D), {s}, sessions',
                                         "session_disconnected")
                  /\ Persist
     ELSE Untouched /\ UNCHANGED <<sessions, shutdownTimer>>
  /\ UNCHANGED <<up, conn, principals>>

\* The close handler of a connection, whoever closed it.
SocketClose(k) ==
  LET s == bound[k]
  IN
  /\ up /\ conn[k] # "free"
  /\ conn' = [conn EXCEPT ![k] = "free"]
  /\ bound' = [bound EXCEPT ![k] = None]
  /\ IF Holds(k)
     THEN /\ sessions' = [sessions EXCEPT ![s] = None]
          /\ Detach(s, k, sessions')
          /\ ArmShutdown
     ELSE Untouched /\ UNCHANGED <<sessions, shutdownTimer>>
  /\ UNCHANGED <<up, principals>>

\* presence: a local session changes its name.
Rename(k, name) ==
  LET s == bound[k]
  IN
  /\ Handles(k) /\ Holds(k)
  /\ s \in Local /\ name # sessions[s].name
  /\ sessions' = [sessions EXCEPT ![s].name = name]
  /\ Untouched
  /\ UNCHANGED <<up, conn, bound, shutdownTimer, principals>>

-----------------------------------------------------------------------------
(* send.                                                                   *)

\* What pruneRecentDeliveries leaves.
Fresh == {r \in recent : ~r.lapsed}
RecentOf(s, m) == {r \in Fresh : r.from = s /\ r.msg.id = m.id}
KeysOf(s, m) == {x \in pendingKeys : x.from = s /\ x.id = m.id}
PendingOf(s, m) ==
  {p \in pending : \E x \in KeysOf(s, m) : x.delivery = p.delivery}

\* Mutant of Answer: a delivered response is replayed whoever may talk now.
AnswerAnyone(s, m) == {r \in RecentOf(s, m) : r.msg = m /\ ~r.retryable}
\* A settled delivery answers a replay only if it was delivered and its two
\* sessions may still talk; otherwise the replay forgets it and starts over.
Answer(s, m) ==
  {r \in RecentOf(s, m) : r.msg = m /\ ~r.retryable /\ StillValid(r)}
RecentClash(s, m) == \E r \in RecentOf(s, m) : r.msg # m
PendingClash(s, m) ==
  KeysOf(s, m) # {} /\ \A p \in PendingOf(s, m) : p.msg # m
\* Mutant of Remembered: what no longer answers a replay is kept.
RememberedAll(s, m) == Fresh

Remembered(s, m) ==
  IF RecentClash(s, m) THEN Fresh ELSE Fresh \ (RecentOf(s, m) \ Answer(s, m))

ToSocket(k, type, s, m, detail) ==
  {[socket |-> k, type |-> type, from |-> s, id |-> m.id, detail |-> detail]}

\* Message ID was already used, or is already pending, with another payload.
SendDuplicate(k, s, m) ==
  /\ \/ RecentClash(s, m)
     \/ Answer(s, m) = {} /\ PendingClash(s, m)
  /\ recent' = Remembered(s, m)
  /\ writes' = ToSocket(k, "delivery_failed", s, m, "DUPLICATE_MESSAGE_ID")
  /\ UNCHANGED <<pending, pendingKeys, asks, askFile>>

\* The replay of a delivered message gets the delivered response again.
SendReplayed(k, s, m) ==
  /\ ~RecentClash(s, m)
  /\ \E r \in Answer(s, m) :
       writes' = ToSocket(k, "delivery_accepted", s, m, r.delivery)
                   \cup ToSocket(k, "delivered", s, m, r.delivery)
  /\ recent' = Remembered(s, m)
  /\ UNCHANGED <<pending, pendingKeys, asks, askFile>>

\* The replay of a pending message is told that it is pending.
SendPending(k, s, m) ==
  /\ ~RecentClash(s, m) /\ Answer(s, m) = {} /\ ~PendingClash(s, m)
  /\ \E p \in PendingOf(s, m) :
       /\ StillValid(p)
       /\ writes' = ToSocket(k, "delivery_accepted", s, m, p.delivery)
  /\ recent' = Remembered(s, m)
  /\ UNCHANGED <<pending, pendingKeys, asks, askFile>>

\* Neither: the message is a new one, or one whose pending delivery lost its
\* authorization, which fails first.
IsNew(s, m) ==
  /\ ~RecentClash(s, m) /\ Answer(s, m) = {} /\ ~PendingClash(s, m)
  /\ \A p \in PendingOf(s, m) : ~StillValid(p)
OutOfDate(s, m) == PendingOf(s, m)

Recipients(s, m) == {t \in Candidates(m.to) : Authorized(s, t)}

\* The edge a reply from s to t answers.
ReplyEdges(s, t, m) ==
  {e \in AsksWithout(OutOfDate(s, m)) : e.from = t /\ e.id = m.replyTo}

\* Mutant of Opposed: the edge is looked for in the wrong direction.
OpposedBackwards(A, s, t, m) ==
  \E e \in A : /\ e.state = "blocking"
               /\ ~(m.replyTo = e.id /\ t = e.from)
               /\ e.from = s /\ e.to = t

\* t already blocks on s, in another ask than the one m replies to.
Opposed(A, s, t, m) ==
  \E e \in A : /\ e.state = "blocking"
               /\ ~(m.replyTo = e.id /\ t = e.from)
               /\ e.from = t /\ e.to = s

\* Why s's message m, read from k, may not be delivered to t.
Objection(k, s, t, m) ==
  LET A == AsksWithout(OutOfDate(s, m))
  IN IF sessions[s].socket # k THEN "SENDER_NOT_FOUND"
     ELSE IF m.replyTo # None /\ \A e \in ReplyEdges(s, t, m) : e.to # s
     THEN "INVALID_REPLY_TARGET"
     ELSE IF ~m.expectsReply THEN None
     ELSE IF \E e \in A : e.from = s /\ e.to = t THEN "ASK_ALREADY_PENDING"
     ELSE IF Opposed(A, s, t, m) THEN "MUTUAL_ASK"
     ELSE IF Cardinality({e \in A : e.from = s}) >= MaxAsksPerSession
     THEN "TOO_MANY_PENDING_ASKS"
     ELSE None

\* Mutant of Crowded: off by one.
CrowdedLate(s, P) ==
  \/ Cardinality(P) > MaxPending
  \/ Cardinality({p \in P : p.from = s}) > MaxPendingPerSession

\* Too many messages wait for an acknowledgement.
Crowded(s, P) ==
  \/ Cardinality(P) >= MaxPending
  \/ Cardinality({p \in P : p.from = s}) >= MaxPendingPerSession

\* Why it may not be delivered at all.
Refusal(k, s, m) ==
  LET R == Recipients(s, m)
  IN IF Crowded(s, pending \ OutOfDate(s, m)) THEN "TOO_MANY_PENDING_DELIVERIES"
     ELSE IF R = {} THEN "SESSION_NOT_FOUND"
     ELSE IF Cardinality(R) > 1 THEN "AMBIGUOUS_TARGET"
     ELSE Objection(k, s, CHOOSE t \in R : TRUE, m)

SendRefused(k, s, m) ==
  LET D == OutOfDate(s, m)
      code == Refusal(k, s, m)
  IN
  /\ IsNew(s, m) /\ code # None
  /\ Drop(D, Remembered(s, m))
  /\ asks' = AsksWithout(D)
  /\ writes' = FailureWrites(D, sessions, "SESSION_NOT_FOUND")
                 \cup ToSocket(k, "delivery_failed", s, m, code)
  /\ Persist

\* Mutant of WithAsk: a reused id leaves its earlier edge.
WithAskBeside(A, s, t, m) ==
  IF ~m.expectsReply THEN A
  ELSE A \cup {[from |-> s, to |-> t, id |-> m.id, state |-> "blocking",
                due |-> FALSE]}

\* addAskEdge: the edge of an ask replaces one of the same sender and id.
WithAsk(A, s, t, m) ==
  IF ~m.expectsReply THEN A
  ELSE LET new == [from |-> s, to |-> t, id |-> m.id, state |-> "blocking",
                   due |-> FALSE]
       IN {e \in A : ~SameAsk(e, new)} \cup {new}

\* The message is passed on to the only recipient, whose acknowledgement is
\* awaited under the fresh id d.
SendAccepted(k, s, m, d) ==
  LET D == OutOfDate(s, m)
  IN
  /\ IsNew(s, m) /\ Refusal(k, s, m) = None
  /\ \A p \in pending : p.delivery # d
  /\ \E t \in Recipients(s, m) :
       LET new == [delivery |-> d, from |-> s, to |-> t, msg |-> m,
                   senderSocket |-> k, recipientSocket |-> sessions[t].socket,
                   fromGen |-> sessions[s].gen, toGen |-> sessions[t].gen]
       IN /\ pending' = (pending \ D) \cup {new}
          /\ pendingKeys' = KeysWithout(D)
               \cup {[from |-> s, id |-> m.id, delivery |-> d]}
          /\ asks' = WithAsk(AsksWithout(D), s, t, m)
          /\ writes' = FailureWrites(D, sessions, "SESSION_NOT_FOUND")
               \cup ToSocket(k, "delivery_accepted", s, m, d)
               \cup ToSocket(sessions[t].socket, "message", s, m, d)
  /\ recent' = RecentWith(Remembered(s, m), D, TRUE)
  /\ Persist

SendMessage(k, x) ==
  /\ Handles(k) /\ x.from = bound[k]
  /\ \/ SendDuplicate(k, x.from, x.msg)
     \/ SendReplayed(k, x.from, x.msg)
     \/ SendPending(k, x.from, x.msg)
     \/ SendRefused(k, x.from, x.msg)
     \/ \E d \in Deliveries : SendAccepted(k, x.from, x.msg, d)
  /\ UNCHANGED <<up, conn, bound, sessions, shutdownTimer, principals>>

Send(k) == \E x \in Sends : SendMessage(k, x)

-----------------------------------------------------------------------------
(* What the receiver, the asker and the clock do next.                     *)

\* acknowledgePendingDelivery: the delivery is settled as delivered, and a
\* reply takes the ask it answers with it.
MessageReceived(k, p) ==
  /\ Handles(k) /\ p.to = bound[k] /\ p.recipientSocket = k
  /\ IF StillValid(p)
     THEN /\ pending' = pending \ {p}
          /\ pendingKeys' = KeysWithout({p})
          /\ asks' = {e \in asks : ~(e.from = p.to /\ e.id = p.msg.replyTo)}
          /\ recent' = RecentWith(recent, {p}, FALSE)
          /\ writes' = Answered(p, sessions, "delivered", p.delivery)
          /\ Persist
     ELSE Fail({p}, "SESSION_NOT_FOUND")
  /\ UNCHANGED <<up, conn, bound, sessions, shutdownTimer, principals>>

\* message_rejected: the receiver already holds another message of that id.
MessageRejected(k, p) ==
  /\ Handles(k) /\ p.to = bound[k] /\ p.recipientSocket = k
  /\ Fail({p}, "CONFLICTING_MESSAGE_ID")
  /\ UNCHANGED <<up, conn, bound, sessions, shutdownTimer, principals>>

\* The eight seconds a receiver has to acknowledge are over.
DeliveryTimeout(p) ==
  /\ up
  /\ Fail({p}, "DELIVERY_TIMEOUT")
  /\ UNCHANGED <<up, conn, bound, sessions, shutdownTimer, principals>>

\* defer_ask, of an edge that blocks.  Any connection that holds the
\* session's id may send it, a replaced one included.
DeferAsk(k, e) ==
  /\ Handles(k) /\ e.from = bound[k] /\ e.state = "blocking"
  /\ asks' = (asks \ {e}) \cup {[e EXCEPT !.state = "deferred"]}
  /\ writes' = Told(sessions, e.to, "ask_deferred", e.from, e.id, None)
  /\ Persist
  /\ UNCHANGED <<up, conn, bound, sessions, pending, pendingKeys, recent,
                 shutdownTimer, principals>>

\* cancel_ask: only the connection that holds the session.
CancelAsk(k, e) ==
  /\ Handles(k) /\ e.from = bound[k] /\ Holds(k)
  /\ asks' = asks \ {e}
  /\ writes' = CancelNotices({e}, sessions, "cancelled")
  /\ Persist
  /\ UNCHANGED <<up, conn, bound, sessions, pending, pendingKeys, recent,
                 shutdownTimer, principals>>

\* The clock passes an edge's expiresAt, in memory and on disk, whether or not
\* the broker runs.
AskLapses(e) ==
  LET lapse(E) == {IF SameAsk(x, e) THEN [x EXCEPT !.due = TRUE] ELSE x : x \in E}
  IN
  /\ ~e.due
  /\ asks' = lapse(asks) /\ askFile' = lapse(askFile)
  /\ writes' = {}
  /\ UNCHANGED <<up, conn, bound, sessions, pending, pendingKeys, recent,
                 shutdownTimer, principals>>

\* scheduleAskExpiry's timer, once expiresAt has passed.
AskExpires(e) ==
  /\ up /\ e.due
  /\ asks' = asks \ {e}
  /\ writes' = CancelNotices({e}, sessions, "expired")
  /\ Persist
  /\ UNCHANGED <<up, conn, bound, sessions, pending, pendingKeys, recent,
                 shutdownTimer, principals>>

\* The clock passes a settled delivery's expiresAt: the next send prunes it.
\* RECENT_DELIVERY_TTL_MS, ten minutes, is longer than MAX_ASK_TIMEOUT_MS, two:
\* the ask of that message has passed its own expiresAt before.
RecentLapses(r) ==
  /\ ~r.lapsed
  /\ \A e \in asks : e.from = r.from /\ e.id = r.msg.id => e.due
  /\ recent' = (recent \ {r}) \cup {[r EXCEPT !.lapsed = TRUE]}
  /\ writes' = {}
  /\ UNCHANGED <<up, conn, bound, sessions, pending, pendingKeys, asks, askFile,
                 shutdownTimer, principals>>

-----------------------------------------------------------------------------
(* Remote principals.  The registry changes their records; the broker then *)
(* disconnects those it finds registered.                                  *)

\* revoke and subtreePrincipalIds: r and every principal below it.
Subtree(r) ==
  {x \in Remote :
    \A S \in SUBSET Remote :
      (r \in S /\ \A y \in Remote : principals[y].parent \in S => y \in S)
      => x \in S}

\* disconnectTransitionedPrincipals.
Disconnect(changed) ==
  LET gone == {s \in changed : Live(s)}
      D == UNION {OverSocket(s, sessions[s].socket) : s \in gone}
  IN
  /\ pending' = pending \ D
  /\ pendingKeys' = KeysWithout(D)
  /\ asks' = Clear(AsksWithout(D), gone)
  /\ recent' = {r \in RecentWith(recent, D, TRUE) : {r.from, r.to} \cap gone = {}}
  /\ writes' = FailureWrites(D, sessions, "DISCONNECTED")
       \cup ClearNotices(AsksWithout(D), gone, sessions, "authorization_revoked")
  /\ Persist
  /\ sessions' = [s \in SessionIds |-> IF s \in gone THEN None ELSE sessions[s]]
  /\ conn' = [k \in Sockets |-> IF \E s \in gone : sessions[s].socket = k
                                THEN "destroyed" ELSE conn[k]]
  /\ ArmShutdown
  /\ UNCHANGED <<up, bound>>

Revoked(changed) ==
  [r \in Remote |-> IF r \in changed
                    THEN [parent |-> principals[r].parent,
                          gen |-> principals[r].gen + 1, state |-> "revoked"]
                    ELSE principals[r]]

\* The clock passes a principal's expiresAt.
PrincipalLapses(r) ==
  /\ principals[r].state = "active"
  /\ principals' = [principals EXCEPT ![r].state = "lapsed"]
  /\ writes' = {}
  /\ UNCHANGED <<up, conn, bound, sessions, table, shutdownTimer>>

\* Mutant of Expired: the sweep passes over connected principals.
ExpiredOffline == {r \in Remote : principals[r].state = "lapsed" /\ ~Live(r)}

\* expirePrincipals: the principals past their expiry that are not revoked.
Expired == {r \in Remote : principals[r].state = "lapsed"}

\* reconcileExpiredPrincipals: the periodic sweep revokes them.
Sweep ==
  LET changed == UNION {Subtree(r) : r \in Expired}
  IN
  /\ up /\ changed # {}
  /\ principals' = Revoked(changed)
  /\ Disconnect(changed)

\* access_control revoke_subtree.
RevokeSubtree(r) ==
  /\ up /\ principals[r].gen < MaxGeneration
  /\ principals' = Revoked(Subtree(r))
  /\ Disconnect(Subtree(r))

\* access_control adopt_subtree: r's subtree moves below another session.
AdoptSubtree(r, newParent) ==
  /\ up /\ principals[r].gen < MaxGeneration
  /\ newParent \notin Subtree(r)
  /\ \/ newParent \in Local /\ Live(newParent)
     \/ newParent \in Remote /\ principals[newParent].state # "revoked"
  /\ principals' = [x \in Remote |->
       IF x \notin Subtree(r) THEN principals[x]
       ELSE [parent |-> IF x = r THEN newParent ELSE principals[x].parent,
             gen |-> principals[x].gen + 1, state |-> principals[x].state]]
  /\ Disconnect(Subtree(r))

-----------------------------------------------------------------------------
(* The process.                                                            *)

\* The end of the process takes its memory and its connections with it; what
\* shutdown() clears before it exits is not written to the ask file.
Stop ==
  /\ up' = FALSE
  /\ conn' = [k \in Sockets |-> "free"]
  /\ bound' = [k \in Sockets |-> None]
  /\ sessions' = [s \in SessionIds |-> None]
  /\ pending' = {} /\ pendingKeys' = {} /\ recent' = {} /\ asks' = {}
  /\ shutdownTimer' = FALSE
  /\ writes' = {}
  /\ UNCHANGED <<askFile, principals>>

\* A kill, a crash or SIGTERM.
Crash == up /\ Stop

\* scheduleShutdownCheck's timer fires.
ShutdownCheck ==
  /\ up /\ shutdownTimer
  /\ IF LiveIds = {}
     THEN Stop
     ELSE /\ shutdownTimer' = FALSE
          /\ Untouched
          /\ UNCHANGED <<up, conn, bound, sessions, principals>>

\* Mutant of Loaded: a restart grants every edge a new expiry.
LoadedAnew(E) == {[e EXCEPT !.state = "deferred", !.due = FALSE] : e \in E}

\* loadAskEdges: the edges of the file that have not expired, deferred.
Loaded(E) == {[e EXCEPT !.state = "deferred"] : e \in {x \in E : ~x.due}}

\* A new process.
Start ==
  /\ ~up /\ up' = TRUE
  /\ asks' = Loaded(askFile)
  /\ Persist
  /\ writes' = {}
  /\ UNCHANGED <<conn, bound, sessions, pending, pendingKeys, recent,
                 shutdownTimer, principals>>

-----------------------------------------------------------------------------
Init ==
  /\ up = TRUE
  /\ conn = [k \in Sockets |-> "free"]
  /\ bound = [k \in Sockets |-> None]
  /\ sessions = [s \in SessionIds |-> None]
  /\ pending = {} /\ pendingKeys = {} /\ recent = {}
  /\ asks = {} /\ askFile = {}
  /\ shutdownTimer = FALSE
  /\ principals = [r \in Remote |->
       [parent |-> RemoteParent[r], gen |-> 1, state |-> "active"]]
  /\ writes = {}

Connections ==
  \E k \in Sockets :
    \/ Connect(k) \/ RegistrationTimeout(k) \/ Condemn(k) \/ SocketClose(k)
    \/ \E s \in SessionIds, name \in Names : Register(k, s, name)
    \/ \E preserveAsks \in BOOLEAN : Unregister(k, preserveAsks)
    \/ \E name \in Names : Rename(k, name)

Exchanges ==
  \/ \E k \in Sockets :
       \/ Send(k)
       \/ \E p \in pending : MessageReceived(k, p) \/ MessageRejected(k, p)
       \/ \E e \in asks : DeferAsk(k, e) \/ CancelAsk(k, e)
  \/ \E p \in pending : DeliveryTimeout(p)
  \/ \E e \in asks : AskExpires(e)
  \/ \E e \in askFile : AskLapses(e)
  \/ \E r \in recent : RecentLapses(r)

Access ==
  \/ \E r \in Remote : PrincipalLapses(r) \/ RevokeSubtree(r)
  \/ \E r \in Remote, newParent \in SessionIds : AdoptSubtree(r, newParent)
  \/ Sweep

Next == Connections \/ Exchanges \/ Access \/ Crash \/ ShutdownCheck \/ Start

Spec == Init /\ [][Next]_vars

-----------------------------------------------------------------------------
(* Safety.                                                                 *)

\* pendingDeliveries and pendingDeliveryKeys stay one index: each delivery is
\* found by exactly one key, and each key finds a delivery.  A takeover, an
\* acknowledgement and the timer all remove from both.
PendingIndexed ==
  /\ \A p \in pending :
       [from |-> p.from, id |-> p.msg.id, delivery |-> p.delivery] \in pendingKeys
  /\ \A x \in pendingKeys : \E p \in pending :
       p.from = x.from /\ p.msg.id = x.id /\ p.delivery = x.delivery
  /\ \A p, q \in pending : p.delivery = q.delivery \/ SameKey(p, q) => p = q

\* A delivery waits only while both its ends are registered over the very
\* sockets, and in the generations, it was made for: no takeover, close,
\* unregistration or revocation leaves one behind for a stale socket to settle.
PendingIsConnected ==
  \A p \in pending :
    /\ Live(p.from) /\ Live(p.to)
    /\ sessions[p.from].socket = p.senderSocket
    /\ sessions[p.to].socket = p.recipientSocket
    /\ sessions[p.from].gen = p.fromGen
    /\ sessions[p.to].gen = p.toGen

\* A connection that the broker neither ended nor destroyed is the one its
\* session is registered over: a late close or unregister of a replaced
\* connection never removes its successor, and no client believes itself
\* registered when it is not.  And a registered session's connection still
\* knows it by its id, so that its close will be noticed.
SessionsMatchConnections ==
  /\ \A k \in Sockets : conn[k] = "open" /\ bound[k] # None => Holds(k)
  /\ \A s \in LiveIds : /\ bound[sessions[s].socket] = s
                        /\ conn[sessions[s].socket] # "free"

\* One ask from one session to another at a time, and one edge per ask, also
\* through restarts and replays.
OneAskPerPair ==
  \A e, f \in asks :
    SameAsk(e, f) \/ (e.from = f.from /\ e.to = f.to) => e = f

\* Only an ask between two registered sessions blocks: whatever ends a
\* session, or the broker, turns its asks into late-replyable ones.
BlockingAskIsLive ==
  \A e \in asks : e.state = "blocking" => Live(e.from) /\ Live(e.to)

\* Two sessions never wait for each other, except while the delivery of an
\* ask that itself replies to the other one is pending: its acknowledgement
\* takes the answered ask away, its failure takes the new one.
NoMutualWait ==
  \A e, f \in asks :
    e.state = "blocking" /\ f.state = "blocking" /\ e.from = f.to /\ e.to = f.from
      => \/ e = f
         \/ \E p \in pending :
              /\ p.msg.expectsReply
              /\ \/ p.from = e.from /\ p.msg.id = e.id /\ p.msg.replyTo = f.id
                 \/ p.from = f.from /\ p.msg.id = f.id /\ p.msg.replyTo = e.id

\* An ask whose delivery failed blocks nobody: no edge stands for a message
\* the broker would answer a replay of by delivering it again.
FailedAskIsClosed ==
  \A r \in recent :
    r.msg.expectsReply /\ r.retryable /\ ~r.lapsed /\ (\A p \in pending : ~SameKey(r, p)) =>
      \A e \in asks : ~(e.from = r.from /\ e.id = r.msg.id)

\* What was delivered is not on its way a second time while the broker
\* remembers it.
DeliveredIsNotPending ==
  \A r \in recent, p \in pending : SameKey(r, p) => r.retryable

\* The ask file is never behind: killing the broker between any two handlers
\* loses no edge and brings none back.
AskFileIsCurrent == up => askFile = asks

\* The tables stay within their limits.
WithinLimits ==
  /\ Cardinality(LiveIds) <= MaxSessions
  /\ Cardinality(pending) <= MaxPending
  /\ \A s \in SessionIds :
       /\ Cardinality({p \in pending : p.from = s}) <= MaxPendingPerSession
       /\ Cardinality({e \in asks : e.from = s}) <= MaxAsksPerSession

-----------------------------------------------------------------------------
(* What no step does.                                                      *)

Stays(s) == /\ Live(s) /\ sessions'[s] # None
            /\ sessions'[s].socket = sessions[s].socket
Heard(s, types, id) ==
  \E w \in writes' : w.socket = sessions[s].socket /\ w.type \in types /\ w.id = id

\* The reply to e is settled as delivered in this step.
AnsweredNow(e) ==
  \E p \in pending \ pending' :
    p.to = e.from /\ p.msg.replyTo = e.id /\ Settle(p, FALSE) \in recent'

\* The two ends of an ask that its asker hears nothing of: it withdraws e itself,
\* or e expires while the session asked is offline, when the broker has nobody to
\* tell (broker.ts:1597) and the asker has only its own timeout to go by.
Withdrawn(e) == \E k \in Sockets : CancelAsk(k, e)
ExpiresUnheard(e) == ~Live(e.to) /\ AskExpires(e)

\* Unless its reply arrived, the end of an ask is announced to the session it was
\* put to if that stays connected, and otherwise to the one that asked if that
\* does, but for the two ends above.
AskEndIsAnnounced ==
  [][up' => \A e \in asks :
       (\A f \in asks' : ~SameAsk(e, f)) /\ ~AnsweredNow(e) =>
         /\ Stays(e.to) => Heard(e.to, {"ask_cancelled"}, e.id)
         /\ \/ Stays(e.to) \/ Withdrawn(e) \/ ExpiresUnheard(e)
            \/ Stays(e.from) => Heard(e.from, {"ask_cancelled", "delivery_failed"}, e.id)
    ]_vars

\* A sender that stays connected is told how each of its deliveries ended, and
\* what it is told is what the broker will answer a replay with.
SettlementIsAnswered ==
  [][up' => \A p \in pending \ pending' : Stays(p.from) =>
       \/ /\ Heard(p.from, {"delivered"}, p.msg.id)
          /\ Settle(p, FALSE) \in recent'
       \/ /\ Heard(p.from, {"delivery_failed"}, p.msg.id)
          /\ ~Heard(p.from, {"delivered"}, p.msg.id)
          /\ Settle(p, FALSE) \notin recent'
    ]_vars

\* No sender is told of a delivery, the first time or on a replay, unless it
\* and the receiver may talk at that moment and are of the generations the
\* message travelled between.
DeliveredWithAuthority ==
  [][\A w \in writes' : w.type = "delivered" =>
       \E r \in recent' : /\ r.from = w.from /\ r.msg.id = w.id
                          /\ StillValid(r)]_vars

-----------------------------------------------------------------------------
(* Liveness, under timers that fire and a sweep that runs.                 *)

Fairness ==
  /\ WF_vars(Start)
  /\ WF_vars(ShutdownCheck)
  /\ WF_vars(Sweep)
  /\ WF_vars(\E p \in pending : DeliveryTimeout(p))
  /\ \A s, t \in SessionIds, id \in MessageIds :
       LET this == {e \in asks \cup askFile : e.from = s /\ e.to = t /\ e.id = id}
       IN /\ WF_vars(\E e \in this : AskLapses(e))
          /\ WF_vars(up /\ \E e \in asks \cap this : AskExpires(e))

LiveSpec == Spec /\ Fairness

Waits(s, t, id) == \E e \in askFile : e.from = s /\ e.to = t /\ e.id = id

\* Every ask ends, however often the broker is killed: a restart resumes the
\* expiry of the edges it loads instead of granting them a new one.
AskEnds ==
  \A s, t \in SessionIds, id \in MessageIds : Waits(s, t, id) ~> ~Waits(s, t, id)

\* A broker that has had a session does not stay up without any for ever.
IdleBrokerStops == [](LiveIds # {} /\ []up => []<>(LiveIds # {}))

\* A principal that expires while it is connected is disconnected.
LapsedPrincipalLeaves ==
  \A r \in Remote : Live(r) /\ principals[r].state = "lapsed" ~> ~Live(r)

=============================================================================
