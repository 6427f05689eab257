# opencode-intercom in TLA+

Specifications, model-checking runs and machine-checked proofs for
opencode-intercom: a broker on one machine through which OpenCode and Pi
sessions send each other messages and blocking questions ("asks"), with durable
state on both ends. Paths below are relative to the repository (`src/`).

## The system

| part | source | state | operations | talks to |
|---|---|---|---|---|
| broker | `broker/broker.ts`, `broker/authorization.ts` | sessions, pending deliveries and their key index, recently settled deliveries, ask edges (also in `ask-edges.json`), idle timer | connect, register, take over, unregister, close, rename, send, acknowledge, reject, defer, cancel, timers, revoke, adopt, expire, restart | clients over sockets, the access registry by call |
| access registry, policy | `broker/access-registry.ts`, policy package | principals with parent, generation and expiry, enrollments (on disk) | issue, consume, authenticate, adopt, expire, revoke | the broker |
| broker client | `broker/client.ts` | socket, session id, pending sends, lists and controls | connect, send, replay, acknowledge, controls, disconnect | broker, outbox, runtime by events |
| durable outbox | `outbound-outbox.ts` | queued messages (on disk) | enqueue, remove, clear, load | client |
| runtime | `opencode/runtime.ts` | client, reply waiters, unresolved asks, reconnect timer | connect, send, ask, reply, handle a message | client, inbound store, plugin by callback |
| inbound store | `opencode/inbound-store.ts` | records (pending or injected) and a ledger of finished ids (on disk) | enqueue, markInjected, markReplied | runtime |
| plugin | `opencode/plugin.ts`, `opencode/tui.ts` | injection queue, delivered ids, active session | inject, flush, events, dispose | runtime, OpenCode, health, control |
| health | `opencode/health.ts` | one record on disk | update | plugin |
| spawning, ownership | `broker/spawn.ts`, `broker/ownership.ts` | spawn lock, owner file, pid file | spawn if needed, acquire, release | every process on the machine |
| control bridge | `opencode/control.ts` | request and response files | request, serve | TUI and server plugin |
| framing | `broker/framing.ts` | bytes of an incomplete frame | read a chunk | sockets |
| audit, paths, config, fleet, team, contact | several | none that is read back | append, format | |

What is hard: one broker event loop serves many sockets, so that closes,
takeovers, acknowledgements and timers come in any order; each process may be
killed between two handlers and comes back with its files only; a message whose
answer is lost is sent again; several processes share lock files; and remote
principals lose their authority while messages are under way. `PROJECT.json`
lists each hazard at its line.

## Modules

**`IntercomBroker`** is the broker. One handler is one action, because the
broker is one event loop and every handler runs to its end; all nondeterminism
is the order of handlers, and where the process is killed. `sessions`,
`pending`, `pendingKeys`, `recent` and `asks` are the broker's maps, `askFile`
is `ask-edges.json`, `bound[k]` is the session id the handler closure of
connection k holds, and `conn[k]` is what became of the connection: "ending"
(half closed: buffered messages are still handled), "destroyed", or "free" once
its close handler has run. `writes` is what the last handler wrote to its
clients' sockets; nothing reads it in this module but the properties. The
handlers share the helpers the code shares: `Fail` is `failPendingDelivery`,
`OverSocket` and `Detach` are `clearPendingDeliveriesForSession` followed by
`deferAskEdgesForSession`, `Clear` is `clearAskEdgesForSession`, `Persist` is
`persistAskEdges`, `Loaded` is `loadAskEdges`. `send` is the disjunction of its
answers: duplicate, replayed, pending, refused (with its code, in the order of
the code's checks) and accepted. Time is abstract: an ask edge gets `due`, a
settled delivery `lapsed`, a principal "lapsed" when the clock passes it, and
the timer or sweep acts at any later point. A revoked, expired or adopted
principal takes its subtree along (`Subtree`, `Revoked`, `Disconnect`).

**`DurableDelivery`** composes that broker with its clients: each process's
connection (`phase`, `link`), outbox, pending sends, reply waiters and inbound
store, and each connection as two queues. The broker's handlers are the actions
of `IntercomBroker`, fed from the head of a queue, and what they write is
appended to the queues of the clients. The client's handlers are actions of
their own: `ClientRegistered` replays the outbox; `ClientReady` is the later
moment at which `connectOnce` resumes, before which an incoming message cannot
be acknowledged; `ClientMessage` hands a reply to its waiter or stores, then
acknowledges; `ClientDisconnected` fails what `send` and `ask` wait for. The
phases tell apart who repeats an attempt to connect: the timer's own attempts
are repeated, a first attempt and those of tools (`ToolConnects`) are not. A
process may be killed (files stay), disposed of in order (it unregisters and
clears its outbox), fail to connect, or time out in `send` or `ask`.
A request whose subject is gone, or is not the connection's own, changes nothing
(`BrokerIgnores`). `handed[s][id]` is history: how often process s has handed
message id on. It is counted per process, because a target may be a name: when the
session of that name has gone, a replay reaches whoever bears the name by then
(`findSessions`), and being taken once by each of two processes is what the code
means to do. `ledger[s]` is the list of finished ids in the inbound store's file, as
the place of each id counted from the latest; it holds `MaxLedger` ids (1000 in the
code), and `Remembering` drops the oldest, which `forgot` counts. A message that comes
again after that is new to its receiver: `HandedOnOnce` says that this, and nothing
else, hands a message on a second time, which is all that the capped ledger
(`README.md:194`) can give. The records of messages not yet finished have no bound.

**`Mail`** is what this adds up to for a sender and a receiver: a message is
taken only if it was posted, and its sender hears of one outcome at most, and of
delivery only if it was taken. `DurableDelivery` implements it with
`posted <- Posted`, `taken <- Taken` (handed on at least once, by anybody),
`told <- verdict`. It
says deliberately that a message reported as failed may have been taken: the
eight second timer may beat an acknowledgement.

**`InjectQueue`** is the plugin between the inbound store and OpenCode. Its
functions are asynchronous: `task[t]` is one of them under way, with the message
it works on and the await it is in, and what a function does between two awaits
is one action. `BeginInjecting` is `injectInbound` up to its first await, and is
part of the action that calls it (`Receives`, `Connects`); `AfterToast`, `Appends`,
`Submits`, `AfterSubmit`, `InjectionResolves`, `InjectionLooks`, `Prompted` and
`InjectionPrompted` are the rest of it, and the `Flush...` actions are
`flushPendingInjectQueue`, begun by `SessionIdle`. `queue`, `delivered`,
`flushing`, `status` and `active` are the plugin's shared variables. OpenCode is
`host`, `box` (its terminal's prompt) and `turns`, how often a message has become
a turn of the session: it acts when it handles a request, the plugin goes on when
it has the answer, and a kill may come between.

**`BrokerOwnership`** is how processes come to have one broker. `lock`, `owner`,
`path` and `pidFile` are the four files they share; each operation on one is an
action, and opening a file and writing it are two. `starter[s].at` is where a
process is in `spawnBrokerIfNeeded`, `broker[b].at` where a broker is in
`acquireBrokerOwnership`, the rest of its start, and `shutdown`. A broker process
runs once, so that a pid is never used again. `broker[b].alone` is history: no
other broker has been starting while it did, and at its start nobody was left of
an earlier race. Without the second half two brokers of such a race may both hold
the owner file for their own, and one of them, leaving, removes the file of a
third that has started alone since; it takes four brokers to see that, and the
proof found it.

**`AccessRegistry`** is the registry of remote principals with the handlers that
change it. A call is one action, as each is on disk before it returns.
`principals` and `enrollments` are its two maps, `Subtree` is the set that
`subtreePrincipalIds` collects (defined as the least closed set, so that it can be
proved about), `Charged` what a delegation limit counts, `Sweep`
`expirePrincipals`. `IntercomBroker` has the other half: what a transition does
to live sessions. Of the registry it needs only the states of principals, which
is why the two are checked apart.

Eight modules hold the theorems. **`IntercomBrokerProofs`** (types, and what each
helper returns), **`IntercomBrokerSafety`** (the tables), **`IntercomBrokerAsks`**
(who waits for whom, and the limits) and **`IntercomBrokerAnswers`** (what clients
are told) extend one another in this order. **`DurableDeliveryProofs`** extends
their end by composition, and **`InjectQueueProofs`**,
**`BrokerOwnershipProofs`** and **`AccessRegistryProofs`** stand alone.
`MC*` modules and configurations instantiate all this for TLC. An operator
introduced by "Mutant of X" is a deliberately wrong variant of X; it is used
nowhere, and each shows that a property would notice that bug.

## Runs

| run | instance | shows |
|---|---|---|
| `broker` | 2 local sessions, 3 connections, 2 message ids, 2 delivery ids; an ask each way and a reply that asks | table consistency, no stale registration, no mutual wait, no lost or resurrected edge, ends announced but for an asker's withdrawal and an expiry beside an offline recipient |
| `broker_remote` | a local session and a remote one below it, 2 connections, a message addressed by a name both may have; one transition of the principal | authority at the moment of each answer, one ask per pair, limits |
| `broker_live` | the same pair, one ask | asks end, an idle broker stops, an expired principal leaves |
| `delivery` | 2 processes, 3 connections, an ask and its reply, or two plain messages one way; a ledger of one id, one fault | durable replay, no message handed on again before the ledger has dropped it, no ask crossed off unanswered, the mail service |
| `delivery_live` | 2 processes, 3 connections, one message, one fault | the outbox empties, a lost connection is made again |
| `inject` | with and without a terminal, an ask and a message, 2 functions under way, one fault | nothing acknowledged is forgotten, nothing is called delivered that is not, the queue loses nothing to overlapping flushes, everything is injected in the end |
| `ownership` | 2 starting processes, 3 brokers of which one of another version, two faults | brokers that do not start at once are exclusive, start over any leftovers, and keep their socket |
| `access` | 2 local sessions, 3 principals, 2 tokens out at once | ownership stays a forest under one root each, limits hold down the tree, transitions take whole subtrees |
| `replayed_ask`, `timed_out_ask` | as `delivery` | two of the disagreements below |
| `reconnects_by_itself` | 1 process, 2 connections, no message, four faults | the third |
| `inject_twice` | as `inject`, without faults | the fourth |

*Bounds.* Three connections for two sessions is the least at which a session is
registered over one, being replaced on a second, while the other side has its
own; two deliveries let an old and a new attempt of one message overlap. The
limits are one or two so that they are reached. `MaxGeneration` bounds the
operator's transitions of a principal. `MaxFaults` bounds, in
`DurableDelivery`, kills, disposals, connections the broker gives up, attempts
to connect that fail, `send` timeouts and pauses so long that what the broker remembers lapses; the delivery
timeout, the ask timeout, the idle shutdown and every interleaving are free.
One fault is enough for each of the recovery paths (each of them starts from a
single loss); combinations of two are out of reach with both messages. In `delivery` the
ledger holds one id (`MaxLedger`), so that the second plain message, once finished, drives
the first one out, and a broker that is killed before it has reported the first makes its
sender replay it: the second handing-on is reached. The constraint `MCOneConversation`
keeps a behaviour to the ask and its reply or to the two plain messages, for the sake of
the size (750,377 states; two to three minutes with two workers). Those two may be posted in either order; what
is replayed together is replayed in one fixed order, where the code has the order of
posting. Socket
and delivery identities are interchangeable, hence the symmetry. The view
leaves `writes` out: only action properties look at its new value, and they are
evaluated on each step. In the runs of `DurableDelivery` deadlock is not an
error: once every message is settled and the faults are used up, nothing need
happen.

In `inject`, two functions under way at once are any two that can disturb each
other: two injections, an injection and a flush, two flushes. One that would be a third waits
for a place (`MaxTasks`), a turn is counted up to two (`MaxTurns`), enough to
see a second one, and the fault is a kill, a lost connection or a request that
fails. In `ownership`, two attempts on the spawn lock instead of five
(`LockTries`) are what a process needs to break a lock and lose it again; three
brokers let two start while one leaves; the faults are kills, health answers that
come too late and a lock that grows old. The view forgets what no step looks at
any more (how a call ended, which broker it was about). In `access`, a depth of
four and one child each let an enrolled principal enroll and be adopted below
another; the two requests differ in depth and expiry, so that each of the limits
is once the one that refuses. `MaxGeneration` bounds transitions of one principal: with
two generations each principal is adopted or fenced once, in any order among them, while
adopting the same one twice is left to the theorem `ForestCorrect` (three generations are
too many for TLC). `MaxClock` bounds the time. These runs stop when their bounds are used up, or when
nobody has anything left to do: deadlock is not an error there either.

*Fairness.* `IntercomBroker`: a timer that is armed fires (ask expiry,
delivery timeout, idle check), the periodic sweep runs, somebody starts a
broker again (`connect` does). Nothing is assumed of clients. `DurableDelivery`:
a broker or client with something to read reads it, a close is noticed, a
started process makes its first attempt and the reconnect timer fires
(`plugin.ts:390`, `scheduleReconnect`), a killed process is started again, and
a receiver's time to acknowledge runs out. No fairness is assumed of sending,
injecting, ask timeouts or tool calls; so `Settles` excepts a process whose
first or tool's attempt has failed, and which nothing but a tool connects.
`InjectQueue`: requests to OpenCode are answered, a killed process is started
again and one that is not connected connects. Nothing is assumed of OpenCode's
user or session; `EventuallyInjected` is about sessions that go idle again and
again. Nothing is assumed in `BrokerOwnership` and `AccessRegistry`, which state
no liveness.

*Disagreements with the documents.* `README.md:47` promises that sends survive
in the outbox and replay with the same id. An ask accepted before a kill of the
broker leaves its edge in the ask file; its replay is refused by that very edge
(`broker.ts:902`) and leaves the outbox as failed. `README.md:49` promises that
timed-out asks remain late-replyable. The timeout defers the edge, and the
`catch` of `ask()` cancels it right after (`runtime.ts:384`, `:493`).
`README.md:174` promises that the runtime reconnects automatically. A tool call
disarms the reconnect timer (`runtime.ts:233`), and when its own attempt fails
nothing arms it again. So does `setSummary`, which the plugin calls when the
session goes idle or changes status (`plugin.ts:597`). `README.md:42` promises exactly-once inbound
delivery in headless run mode. A message that comes while the session is busy is
queued and its injection goes on; the flush at `session.idle` and the injection
both look for it before either has prompted (`plugin.ts:215`, `:336`), and the
session gets it twice.

*What the models show besides*. A kill between `submitPrompt` and the mark injects
again at the next start, as this path does not look for the message first. That is at
odds with `README.md:192`, which says of injection as a whole that "before replay", recent
session messages are inspected "so a crash after accepted submission does not duplicate
the turn"; the code looks before `promptAsync` only, and no run states it. Of the rest below no document says otherwise. An ask
that expires while the session asked is offline ends in silence: `removeAskEdge` tells the
recipient only (`broker.ts:1597`), so that a connected asker has nothing to go by but its
own timeout. `AskEndIsAnnounced` names this end (`ExpiresUnheard`), beside the withdrawal
by the asker itself; without the exception TLC refutes it in the `broker` run. A submit into a session that became busy meanwhile is
called delivered (`busy` is read at the start, `plugin.ts:307`): with a terminal
`MarkedHasTurn` would not hold, and is stated without one. An ask answered while
still queued is prompted all the same. `ownership.test.ts:8` "rejects a second
live owner" is true of starts one after the other; of two that overlap, each may
find the owner file empty or remove the other's (`ownership.ts:35`), which is why
`AloneIsExclusive` and `AloneStarts` are about brokers that start alone, and the
spawn lock, when it has not gone stale, is what makes them. A broker on its way
out removes the socket path by name in its very last step, after it has given up
the owner file, and may cut off its successor: that step, and no other of that broker,
is the exception in `OwnerKeepsPath`. So the properties of ownership say nothing of
overlapping starts, of two processes that break one stale lock, or of a path lost to a predecessor's
close: these are hazards that the code is exposed to and that `PROJECT.json` lists without a property.
A reply whose `delivered` comes after a reconnect leaves its ask unresolved
(`client.ts:475`): `ResolvedAskIsAnswered` is the direction that holds.

## Proofs

Every invariant, every safety action property and the refinement that a passing
run checks is also a theorem, checked by TLAPS for every value of the constants:
any number of sessions, sockets, messages, functions under way, starters, brokers
and faults, any limits and any size of the ledger. Each rests on an inductive invariant that is stronger
than the property; what makes it stronger is said below, as it is the reason why
the code works.

*Assumptions.* `IntercomBroker`: identities are finite, None is none of them,
remote sessions have a parent and a name, sends are well-typed, limits are
positive. `DurableDelivery` adds that a message id stands for one message of one
sender (ids are UUIDs), that a ledger holds at least one id, and that None is no socket. `InjectQueue`: finitely many
messages, room for one function, and a turn can be counted twice.
`BrokerOwnership`: the identities are disjoint, and the lock is tried at least
once. `AccessRegistry`: finite ids and tokens, all disjoint, and well-typed
requests. TLC evaluates all of them in the runs.

### The broker

- `TypeCorrect`: the type invariant, one step per action. It is the basis of
  everything else.
- `IndexCorrect`: `pending` and `pendingKeys` are one index, inductive as it
  stands over `TypeOK`. Every action that takes deliveries from one table takes
  their keys from the other, and an accepted send has found no key of its own.
- `ConnectedCorrect` and `MatchCorrect`: the first is inductive with `TypeOK`
  alone, as every way to lose a session goes through `OverSocket` with the
  socket of the session lost. The second needs `FreeIsUnbound`: a connection
  that is free holds no id, or else a new connection would inherit one.
- `OneAskCorrect` and `AskFileCorrect` share an invariant: while the broker runs
  the file equals the edges, and the file has one edge per ask and per ordered
  pair also while no broker runs; a restart relies on the second half.
- `BlockingCorrect`: only an ask between registered sessions blocks. It needs
  nothing of the file, as a load defers.
- `DeliveredCorrect`: a delivery that succeeded is not pending while remembered;
  it rests on `PendingIndexed`.
- `NobodyWaitsInACircle`: the code looks for an opposed ask when it accepts one,
  but it excepts the ask that the new message answers, whose edge goes only when
  the answer is delivered. That a delivery and the edge accepted with it lead to
  the same session (`AskGoesToItsTarget`, part of `TalkInv`) is what allows the
  exception: whenever two edges oppose each other, the reply that removes one of
  them is pending.
- `FailedAsksAreClosed`: all the ways in which a delivery fails retract the edge
  before they remember the failure. A replay may put the edge back, but only with a
  pending delivery of the same key, and when that one fails the edge goes with it;
  `PendingIndexed` is what makes it the same key. A restart, which brings edges
  back too, begins with nothing remembered (`DownIsEmpty`).
- `TablesStayWithinLimits`: `LimitsInv` states the limits of the asks also of the
  file, since `loadAskEdges` enforces none.
- `SettlementsAreAnswered`, `AskEndsAreAnnounced` and `DeliveriesHaveAuthority` are
  about single steps. Every step takes one of three forms (`StepOutcome`): it
  claims no delivery, and whatever leaves `pending` fails and is announced
  (`Quiet`), it repeats an answer that is remembered (`Replays`), or it delivers
  one message (`Delivers`), unless the process ends; each theorem is a case for each. An answer goes to
  the session that an id names at that moment; that it reaches the connection
  that asked is `PendingIsConnected`. `AskEndsAreAnnounced` does not say that every
  end is: when the recipient does not stay connected, the asker hears of a failed delivery
  and of a recipient that leaves or is fenced, but neither of its own withdrawal nor of an
  expiry while the recipient is offline.

### The composition

- `BrokerIsImplemented`: `DeliverySpec => Spec`. Each action of the composition
  is a step of the broker or leaves it as it is, so that every theorem above
  holds of the broker when it is fed by these clients. This is how the rest
  comes by `BrokerInv`.
- `DeliveryTypeCorrect`: types of clients and of what travels, with two relations
  that are no types: what `send()` waits for is in the outbox, and a client
  holds a socket exactly in the phases that use one.
- `MessagesAreHandedOnOnce` rests on `BooksInv`: an outbox holds its own process's
  undecided messages (`OwnOutbox`), the store knows only what was handed on, as a record
  or in its ledger (`StoredIsTaken`), and what is no reply was handed on at most as often as
  the ledger has dropped it, and once more if the file knows it now, as a record or in
  the ledger (`StoredOnce`). So a kill between storing and acknowledging does no harm, and each
  second handing-on is paid for by an eviction. `LedgerRemembers` says what finishing one
  message leaves in the ledger, `FinishesBooks` what it does to this account, which leaves out the
  replies: those that a waiter takes are never stored.
- `MailIsImplemented`: the refinement, as two facts for each step, that it posts,
  takes or tells as `Mail` allows or changes none of these. It rests on
  `TravelInv`. Whatever travels was posted (`TravelsPosted`); and `ReportsTaken`
  follows a delivery back: an acknowledgement under way, a remembered success
  and a `delivered` under way are each about a message that was taken. Delivery
  ids are fresh (`FreshDelivery`), so that an acknowledgement that comes late is
  about its own message or nobody's.
- `ResolvedAsksAreAnswered` adds `RepliesAreHeld`: a reply leaves only for an ask
  that its process was handed, so that crossing that ask off later is about the same ask.
- `OutboxesAreInFlight` needs `FlightInv`: no two processes hold one connection
  (`LinksApart`), and a client that has said goodbye is gone (`GoodbyeIsLast`),
  or its own unregistering would take its delivery away from a sender that
  still waits. The proof then follows one message: each handler of the broker
  leaves it pending over the same socket or writes its answer there
  (`SettlementIsAnswered`, step by step), and a client takes an answer off only
  with the entry of its outbox.

  The proof found the model wrong in one point: requests that concern nobody were
  handled by a step that could write the answers of the step before once more.
  They are `BrokerIgnores` now and write nothing.

### The plugin

`InjectInv` says what a function holds while it waits (`TasksShaped`), that the
queue has no message twice and none that is done with (`QueueShaped`), that the
store knows every message in the plugin's hands (`StoreKnows`), and that a function
which has its answer from OpenCode has made a turn (`AnswersHaveTurns`). With it
`InjectTypeCorrect`, `StoredAreAttended`, `MarkedHaveTurns` and `QueueDropsOnlyDone`
hold for any number of overlapping functions; that there is nothing between a look
and a prompt does not harm them, only `OneTurnHeadless`.

### Ownership

`OwnershipInv` relates the owner file to where the brokers are. The file of a
broker that started alone is its own and has its text (`FileNamesOwner`), beside
it nobody has a file or is about to remove one (`FileIsRespected`), a broker
starts alone only among brokers that have done so (`StartsApart`), and its second
attempt at the file and its only one at the path find the way free
(`AttemptsSuffice`). `AloneOwns`, `AloneGetsThrough` and `OwnerIsReachable` follow. The
spawn lock has no part in the argument, since it may go stale: it only makes
brokers start alone.

### The registry

- `RegistryTypeCorrect`: types, and that no link leads to somebody who was never
  enrolled. The lemmas say of each helper what it returns.
- `RootCorrect` needs of a subtree that it is closed and that all but its top have
  their parents in it (`ParentInSubtree`: without such a member it would still be
  closed). So an adoption changes roots of whole families, and the tokens of the
  moved ones, which still name the old root, are cancelled in the same step. Without
  that, a token used later would be the counterexample.
- `ForestCorrect`: a set without an outside parent after an adoption would have to
  contain the adopted principal and its new parent; what of it lies in the
  subtree would then be such a set before, or the new parent is in the subtree,
  which is refused.
- `FencingCorrect`: every transition goes by subtrees, and a child of a member is
  a member; for the sweep, whoever fences the parent fences the child.
- `LimitsCorrect`: limits never change once given and an adopted principal is
  excepted for good, so that only issuing and using a token can break it.
- `DelegationCorrect`: the set that a limit counts shrinks, or grows by the token
  that the limit was checked for, or exchanges a token for the principal it
  becomes. The invariant is about what has never been adopted, as adoption does
  not ask for room.

### Only model-checked

The liveness properties `AskEnds`, `IdleBrokerStops`, `LapsedPrincipalLeaves`, `Settles`,
`TimerReconnects` and `EventuallyInjected`: they need fairness and ENABLED, which are
outside the prover's reach. The four disagreements are counterexamples of TLC.

## Abstractions

- Payloads are message ids with the fields the broker branches on; two payloads
  under one id differ in one of these.
- The rate limiter, malformed requests and framing errors are one action,
  `Condemn`, which may take any connection at any time. The eviction of the
  oldest unregistered connection and a full session table are
  `RegistrationTimeout`.
- Writes that change no delivery or ask (roster changes, lists, health, errors,
  `ask_control_result`) are left out. SENDER_DISCONNECTED and
  RECIPIENT_DISCONNECTED are one code.
- Whom of two sessions lost in one transition hears of their common ask is not
  told apart: both connections are destroyed in that step.
- A kill comes between two handlers; the ask file is written atomically
  (`durable-json.ts`). Corrupt files, file errors and failing audit writes are
  not modelled.
- A local client names its identity; identities of local sessions and of
  principals are disjoint (random ids on either side).
- Enrollment is complete at the start: a remote session registers with its
  credential. A second revocation counts as another generation.
- `DurableDelivery` has local sessions only; a client resolves its target
  before it sends; a send on a client that has just lost its connection fails
  before it reaches the outbox and is left out, as is cancelling an ask by
  signal, which no caller uses.
- `InjectQueue` has one OpenCode session: that choosing among several may pick
  another is left out, as are disposal, fleet calls and the outcome of a toast. A
  list of sessions is whether there is one. Looking for a message in the session
  finds it if it is there, or fails as a fault.
- `BrokerOwnership` has the local socket only, not the remote one or TCP
  endpoints; a file operation never fails but by what the file is.
- In `AccessRegistry` local sessions are there throughout; secrets, hashes, names
  and hosts are left out, and a token that is presented is a valid one. Using a
  token does not look at its issuer's state, in the code as here.

Not modelled: see the components in `PROJECT.json`, each with its reason.

## Plan

Done: `IntercomBroker`, `Mail`, `DurableDelivery`, `InjectQueue`,
`BrokerOwnership` and `AccessRegistry`, and the proofs of every invariant, action
property and refinement their runs check. Left, in this order:

1. Proofs: what the composition adds to the properties of its parts, and the next
   components as they come.
2. `RuntimeConnection` (`runtime.ts`, `health.ts`): successive clients whose
   events overlap, and what health reports between two connections.
3. `ControlBridge` (`control.ts`): requests that time out while they are executed,
   two servers that know one session.
4. `Framing` (`framing.ts`), as pure operators against a reference over bounded
   inputs.
