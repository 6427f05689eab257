----------------------------- MODULE InjectQueue -----------------------------
(***************************************************************************)
(* How the plugin (src/opencode/plugin.ts) turns the messages of its       *)
(* durable inbound store (src/opencode/inbound-store.ts) into turns of the *)
(* OpenCode session next to it.                                            *)
(*                                                                         *)
(* Injections and flushes are asynchronous functions: what one does between*)
(* two awaits is one step here, and those of several interleave.  OpenCode *)
(* acts when it handles a request, the plugin goes on when it has the      *)
(* answer, and the process may be killed in between.                       *)
(***************************************************************************)
EXTENDS FiniteSets, Naturals, Sequences

CONSTANTS
  Messages,   \* what may arrive
  Asks,       \* those that expect a reply
  MaxTasks,   \* bound: asynchronous functions under way at once
  MaxTurns,   \* bound: turns counted per message
  MaxFaults   \* bound: kills, lost connections and failing requests

ASSUME InjectAssumption ==
  /\ IsFiniteSet(Messages) /\ Asks \subseteq Messages
  /\ MaxTasks \in Nat \ {0} /\ MaxTurns \in Nat \ {0, 1} /\ MaxFaults \in Nat

VARIABLES
  tui,        \* canUseTuiInjection: the process has a terminal
  store,      \* what the inbound state file says of each message
  live,       \* the process: stopped, started, or connected to the broker
  status,     \* activeSessionStatus
  active,     \* activeSessionID is known
  queue,      \* pendingInjectQueue
  delivered,  \* deliveredMessageIDs
  flushing,   \* flushingInjectQueue
  task,       \* the asynchronous functions under way
  host,       \* OpenCode's session: none, idle or busy
  box,        \* the messages in the prompt of its terminal
  turns,      \* how often each message has become a turn of the session
  stranded,   \* history: messages whose last injection found no session
  faults

plugin == <<status, active, queue, delivered, flushing>>
openCode == <<host, box, turns>>
vars == <<tui, store, live, plugin, task, openCode, stranded, faults>>

Tasks == 1..MaxTasks
Free == [kind |-> "free", msg |-> {}, busy |-> FALSE, at |-> "end"]

\* An injection has its message; a flush has the head of the queue it works on.
\* busy is what the injection saw when it began.  at is the await it is in.
Injecting(m, busy) == [kind |-> "inject", msg |-> {m}, busy |-> busy, at |-> "toast"]
Flush == [kind |-> "flush", msg |-> {}, busy |-> FALSE, at |-> "summary"]

InjectTypeOK ==
  /\ tui \in BOOLEAN /\ active \in BOOLEAN /\ flushing \in BOOLEAN
  /\ store \in [Messages -> {"absent", "pending", "injected", "delivered"}]
  /\ live \in {"stopped", "started", "connected"}
  /\ status \in {"idle", "busy"} /\ host \in {"none", "idle", "busy"}
  /\ queue \in UNION {[1..n -> Messages \ delivered] : n \in 0..Cardinality(Messages)}
  /\ \A i, j \in DOMAIN queue : queue[i] = queue[j] => i = j
  /\ delivered \subseteq Messages /\ box \subseteq Messages /\ stranded \subseteq Messages
  /\ turns \in [Messages -> 0..MaxTurns] /\ faults \in 0..MaxFaults
  /\ DOMAIN task = Tasks
  /\ \A t \in Tasks :
       /\ task[t] = Free <=> task[t].kind = "free"
       /\ task[t].kind = "inject" => task[t].msg \in {{m} : m \in Messages}
       /\ task[t].kind # "free" => live # "stopped"

-----------------------------------------------------------------------------
(* Helpers.                                                                *)

Idle == {t \in Tasks : task[t] = Free}
Fault == faults < MaxFaults /\ faults' = faults + 1

\* Begin the tasks of S, each on a free place, in the order of the places.
Begin(S) ==
  \E f \in [S -> Idle] :
    /\ \A x, y \in S : f[x] = f[y] => x = y
    /\ \A x \in S, t \in Idle : t < f[x] => \E y \in S : f[y] = t
    /\ task' = [t \in Tasks |-> IF \E x \in S : f[x] = t
                                THEN CHOOSE x \in S : f[x] = t ELSE task[t]]

On(t, kind, at) == task[t].kind = kind /\ task[t].at = at
GoesTo(t, at) == task' = [task EXCEPT ![t].at = at]
Ends(t) == task' = [task EXCEPT ![t] = Free]

\* enqueuePendingInject, on the queue q.
Enqueued(q, m) ==
  IF m \in delivered \/ \E i \in DOMAIN q : q[i] = m THEN q ELSE Append(q, m)

\* Mutant of Without: the flush takes the head off, as it does elsewhere.
WithoutHead(m) == IF queue = <<>> THEN queue ELSE Tail(queue)

\* markDelivered takes the message out by its id, wherever it is by now.
Place(m) == CHOOSE i \in DOMAIN queue : queue[i] = m
Without(m) ==
  IF \E i \in DOMAIN queue : queue[i] = m
  THEN SubSeq(queue, 1, Place(m) - 1) \o SubSeq(queue, Place(m) + 1, Len(queue))
  ELSE queue

\* markInjected: a record that a reply has already resolved is gone.
Marked(m) ==
  [store EXCEPT ![m] = IF @ \in {"absent", "delivered"} THEN @
                       ELSE IF m \in Asks THEN "injected" ELSE "delivered"]

\* markDelivered.
MarkDelivered(m) ==
  /\ delivered' = delivered \cup {m}
  /\ store' = Marked(m)
  /\ queue' = Without(m)

\* A turn is counted up to the bound.
Taken(S) == [m \in Messages |-> IF m \in S /\ turns[m] < MaxTurns
                                THEN turns[m] + 1 ELSE turns[m]]

\* injectInbound up to its first await, for the messages of S, in any order:
\* one already delivered is left alone; with the session busy, it is queued too.
BeginInjecting(S) ==
  LET fresh == S \ delivered
      late == {m \in fresh : \A i \in DOMAIN queue : queue[i] # m}
      busy == status # "idle"
  IN
  /\ Begin({Injecting(m, busy) : m \in fresh})
  /\ IF busy
     THEN \E order \in [1..Cardinality(late) -> late] :
            /\ \A m \in late : \E i \in DOMAIN order : order[i] = m
            /\ queue' = queue \o order
     ELSE UNCHANGED queue
  /\ stranded' = stranded \ fresh

-----------------------------------------------------------------------------
(* The process and its connection.                                         *)

StartProcess ==
  /\ live = "stopped" /\ live' = "started"
  /\ status' = "idle" /\ active' \in {FALSE, host # "none"}
  /\ UNCHANGED <<tui, store, queue, delivered, flushing, task, openCode, stranded, faults>>

\* Mutant of Replayed: a new connection hands nothing on.
ReplayedNever == {}

\* connectOnce hands on what the store has not seen injected, at every
\* connection, whether an injection of it is under way or not.
Replayed == {m \in Messages : store[m] = "pending"}
Connects ==
  /\ live = "started" /\ live' = "connected"
  /\ BeginInjecting(Replayed)
  /\ UNCHANGED <<tui, store, status, active, delivered, flushing, openCode, faults>>

Disconnects ==
  /\ live = "connected" /\ live' = "started" /\ Fault
  /\ UNCHANGED <<tui, store, plugin, task, openCode, stranded>>

\* The process is killed: the state file and OpenCode's session remain.  The
\* terminal is the process's own.
Killed ==
  /\ live # "stopped" /\ live' = "stopped" /\ Fault
  /\ queue' = <<>> /\ delivered' = {} /\ flushing' = FALSE
  /\ status' = "idle" /\ active' = FALSE
  /\ task' = [t \in Tasks |-> Free]
  /\ box' = {} /\ host' = IF host = "busy" THEN "idle" ELSE host
  /\ UNCHANGED <<tui, store, turns, stranded>>

\* handleIncomingMessage, of a message that the store has not seen.
Receives(m) ==
  /\ live = "connected" /\ store[m] = "absent"
  /\ store' = [store EXCEPT ![m] = "pending"]
  /\ BeginInjecting({m})
  /\ UNCHANGED <<tui, live, status, active, delivered, flushing, openCode, faults>>

\* intercom_reply: the ask is resolved in the store, injected or not; the queue
\* and the injections do not hear of it.
Replies(m) ==
  /\ live = "connected" /\ m \in Asks /\ store[m] \in {"pending", "injected"}
  /\ store' = [store EXCEPT ![m] = "delivered"]
  /\ UNCHANGED <<tui, live, plugin, task, openCode, stranded, faults>>

-----------------------------------------------------------------------------
(* OpenCode's session and its events.                                      *)

\* A session is created, or its user prompts.
SessionWorks ==
  /\ live # "stopped" /\ host \in {"none", "idle"}
  /\ host' = IF host = "none" THEN "idle" ELSE "busy"
  /\ UNCHANGED <<tui, store, live, plugin, task, box, turns, stranded, faults>>

\* Any event of the session, of which session.status tells what it does.
SessionEvent ==
  /\ live # "stopped" /\ host # "none"
  /\ active' = TRUE
  /\ status' \in {status, host}
  /\ UNCHANGED <<tui, store, live, queue, delivered, flushing, task, openCode, stranded, faults>>

\* session.idle: the handler first publishes the status.
SessionIdle ==
  /\ live # "stopped" /\ host = "busy"
  /\ host' = "idle" /\ status' = "idle" /\ active' = TRUE
  /\ Begin({Flush})
  /\ UNCHANGED <<tui, store, live, queue, delivered, flushing, box, turns, stranded, faults>>

-----------------------------------------------------------------------------
(* injectInbound after its first await, the toast.                         *)

AfterToast(t) ==
  /\ On(t, "inject", "toast")
  /\ GoesTo(t, IF tui THEN "append" ELSE "resolve")
  /\ UNCHANGED <<tui, store, live, plugin, openCode, stranded, faults>>

\* appendPrompt; as a fault it fails, and so does submitPrompt.
Appends(t) ==
  /\ On(t, "inject", "append")
  /\ \/ GoesTo(t, "submit") /\ box' = box \cup task[t].msg /\ UNCHANGED faults
     \/ GoesTo(t, "resolve") /\ Fault /\ UNCHANGED box
  /\ UNCHANGED <<tui, store, live, plugin, host, turns, stranded>>

\* submitPrompt: all that is in the prompt becomes a turn, or, of a session
\* that is busy, perhaps nothing.
Submits(t) ==
  /\ On(t, "inject", "submit")
  /\ \/ /\ GoesTo(t, "submitted") /\ UNCHANGED faults
        /\ \/ turns' = Taken(box) /\ host' = IF box = {} THEN host ELSE "busy"
           \/ host = "busy" /\ UNCHANGED <<turns, host>>
        /\ box' = {}
     \/ GoesTo(t, "resolve") /\ Fault /\ UNCHANGED openCode
  /\ UNCHANGED <<tui, store, live, plugin, stranded>>

\* The answer to submitPrompt counts if the session was idle at the start.
AfterSubmit(t) ==
  /\ On(t, "inject", "submitted")
  /\ IF task[t].busy
     THEN GoesTo(t, "resolve") /\ UNCHANGED <<store, queue, delivered>>
     ELSE (\E m \in task[t].msg : MarkDelivered(m)) /\ Ends(t)
  /\ UNCHANGED <<tui, live, status, active, flushing, openCode, stranded, faults>>

\* resolveActiveSessionID: the session an event named, or one that is listed.
Resolves == active \/ host # "none"

InjectionResolves(t) ==
  /\ On(t, "inject", "resolve") /\ Resolves
  /\ active' = TRUE
  /\ GoesTo(t, "look")
  /\ UNCHANGED <<tui, store, live, status, queue, delivered, flushing, openCode, stranded, faults>>

\* No session, or as a fault no list of them: nothing is queued.
InjectionStrands(t) ==
  /\ On(t, "inject", "resolve") /\ ~active
  /\ \/ host = "none" /\ UNCHANGED faults
     \/ host # "none" /\ Fault
  /\ stranded' = stranded \cup task[t].msg
  /\ Ends(t)
  /\ UNCHANGED <<tui, store, live, plugin, openCode>>

\* sessionAlreadyContainsMessage and what follows.
InjectionLooks(t) ==
  /\ On(t, "inject", "look")
  /\ \E m \in task[t].msg :
       \/ turns[m] > 0 /\ MarkDelivered(m) /\ Ends(t) /\ UNCHANGED faults
       \/ /\ IF turns[m] = 0 THEN UNCHANGED faults ELSE Fault
          /\ GoesTo(t, "prompt") /\ UNCHANGED <<store, queue, delivered>>
  /\ UNCHANGED <<tui, live, status, active, flushing, openCode, stranded>>

\* OpenCode takes a prompt of either kind of function.
Prompted(t) ==
  /\ task[t].at = "prompt"
  /\ turns' = Taken(task[t].msg) /\ host' = "busy"
  /\ GoesTo(t, "prompted")
  /\ UNCHANGED <<tui, store, live, plugin, box, stranded, faults>>

InjectionPrompted(t) ==
  /\ On(t, "inject", "prompted")
  /\ \E m \in task[t].msg : MarkDelivered(m)
  /\ Ends(t)
  /\ UNCHANGED <<tui, live, status, active, flushing, openCode, stranded, faults>>

\* Mutant of InjectionRejected: the answer is not looked at.
InjectionUnchecked(t) ==
  /\ On(t, "inject", "prompt") /\ Fault
  /\ \E m \in task[t].msg : MarkDelivered(m)
  /\ Ends(t)
  /\ UNCHANGED <<tui, live, status, active, flushing, openCode, stranded>>

\* As a fault, OpenCode refuses the prompt: the next flush tries again.
InjectionRejected(t) ==
  /\ On(t, "inject", "prompt") /\ Fault
  /\ \E m \in task[t].msg : queue' = Enqueued(queue, m)
  /\ Ends(t)
  /\ UNCHANGED <<tui, store, live, status, active, delivered, flushing, openCode, stranded>>

-----------------------------------------------------------------------------
(* flushPendingInjectQueue.                                                *)

\* setSummary, which needs the broker.  As a fault it cannot be reached, and the
\* event handler ends there.
FlushCalled(t) ==
  /\ On(t, "flush", "summary")
  /\ \/ live = "connected" /\ UNCHANGED faults
        /\ IF flushing \/ queue = <<>> THEN Ends(t) ELSE GoesTo(t, "resolve")
     \/ live = "started" /\ Fault /\ Ends(t)
  /\ UNCHANGED <<tui, store, live, plugin, openCode, stranded>>

\* The loop looks at the head of q, or ends.
Continues(t, q) ==
  IF q = <<>> THEN Ends(t) /\ flushing' = FALSE
  ELSE task' = [task EXCEPT ![t].at = "look", ![t].msg = {Head(q)}] /\ flushing' = TRUE

\* The flag is set only now; the queue may have been emptied meanwhile.  An
\* event has named the session, so that there is one.
FlushBegins(t) ==
  /\ On(t, "flush", "resolve")
  /\ Continues(t, queue)
  /\ UNCHANGED <<tui, store, live, status, active, queue, delivered, openCode, stranded, faults>>

FlushLooks(t) ==
  /\ On(t, "flush", "look")
  /\ \E m \in task[t].msg :
       \/ /\ turns[m] > 0 /\ UNCHANGED faults
          /\ MarkDelivered(m) /\ Continues(t, Without(m))
       \/ /\ IF turns[m] = 0 THEN UNCHANGED faults ELSE Fault
          /\ GoesTo(t, "prompt") /\ UNCHANGED <<store, queue, delivered, flushing>>
  /\ UNCHANGED <<tui, live, status, active, openCode, stranded>>

\* Mutant of FlushPrompted: the loop ends without lowering the flag.
FlushPromptedOnce(t) ==
  /\ On(t, "flush", "prompted")
  /\ \E m \in task[t].msg : MarkDelivered(m)
  /\ Ends(t)
  /\ UNCHANGED <<tui, live, status, active, flushing, openCode, stranded, faults>>

FlushPrompted(t) ==
  /\ On(t, "flush", "prompted")
  /\ \E m \in task[t].msg : MarkDelivered(m) /\ Continues(t, Without(m))
  /\ UNCHANGED <<tui, live, status, active, openCode, stranded, faults>>

\* As a fault, OpenCode refuses the prompt: the loop ends, the queue stays.
FlushRejected(t) ==
  /\ On(t, "flush", "prompt") /\ Fault
  /\ Ends(t) /\ flushing' = FALSE
  /\ UNCHANGED <<tui, store, live, status, active, queue, delivered, openCode, stranded>>

-----------------------------------------------------------------------------
InjectInit ==
  /\ tui \in BOOLEAN
  /\ store = [m \in Messages |-> "absent"]
  /\ live = "stopped" /\ status = "idle" /\ active = FALSE
  /\ queue = <<>> /\ delivered = {} /\ flushing = FALSE
  /\ task = [t \in Tasks |-> Free]
  /\ host \in {"none", "idle"} /\ box = {} /\ turns = [m \in Messages |-> 0]
  /\ stranded = {} /\ faults = 0

\* What a function under way does when its answer comes.
Proceeds(t) ==
  \/ AfterToast(t) \/ Appends(t) \/ Submits(t) \/ AfterSubmit(t)
  \/ InjectionResolves(t) \/ InjectionStrands(t) \/ InjectionLooks(t)
  \/ Prompted(t) \/ InjectionPrompted(t) \/ InjectionRejected(t)
  \/ FlushCalled(t) \/ FlushBegins(t) \/ FlushLooks(t) \/ FlushPrompted(t) \/ FlushRejected(t)

InjectNext ==
  \/ StartProcess \/ Connects \/ Disconnects \/ Killed
  \/ \E m \in Messages : Receives(m) \/ Replies(m)
  \/ SessionWorks \/ SessionEvent \/ SessionIdle
  \/ \E t \in Tasks : Proceeds(t)

\* Requests are answered, a killed process is started again, and a process that
\* is not connected connects (scheduleReconnect).
InjectFairness ==
  /\ WF_vars(StartProcess) /\ WF_vars(Connects)
  /\ \A t \in Tasks : WF_vars(Proceeds(t))

InjectSpec == InjectInit /\ [][InjectNext]_vars /\ InjectFairness

-----------------------------------------------------------------------------
(* What is promised.                                                       *)

Queued(m) == \E i \in DOMAIN queue : queue[i] = m
UnderWay(m) == \E t \in Tasks : task[t].kind = "inject" /\ m \in task[t].msg

\* While the process is connected, a message it has acknowledged and not yet
\* shown to OpenCode is never forgotten: an injection or the queue has it, or its
\* last injection found no session at all (plugin.ts:324).
StoredIsAttended ==
  live = "connected" =>
    \A m \in Messages : store[m] = "pending" => UnderWay(m) \/ Queued(m) \/ m \in stranded

\* Without a terminal, the plugin says of a message that it has been delivered
\* only when the session has a turn for it, whatever overlaps and whatever is
\* killed; so nothing that the store or the queue drops is lost.
MarkedHasTurn ==
  ~tui => /\ \A m \in delivered : turns[m] > 0
          /\ \A m \in Asks : store[m] = "injected" => turns[m] > 0
          /\ \A m \in Messages \ Asks : store[m] = "delivered" => turns[m] > 0

\* A message leaves the queue of a living process only when the store knows that
\* it is done with: two flushes, or a flush and an injection, that are at the
\* same message never take one another's off (plugin.ts:167).
QueueDropsDone ==
  [][live' # "stopped" =>
       \A m \in Messages : Queued(m) /\ ~Queued(m)' => store'[m] \in {"injected", "delivered"}]_vars

\* If the session goes idle again and again, every message that was acknowledged
\* is injected, answered, or found no session: overlapping flushes, the flag that
\* they share, refused prompts and kills delay it but do not lose it.
EventuallyInjected ==
  []<><<SessionIdle>>_vars =>
    \A m \in Messages : (store[m] = "pending") ~> (store[m] # "pending" \/ m \in stranded)

\* README.md:42 "verified exactly-once inbound delivery in headless run mode".
OneTurnHeadless == ~tui => \A m \in Messages : turns[m] <= 1
=============================================================================
