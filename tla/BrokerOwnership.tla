--------------------------- MODULE BrokerOwnership ---------------------------
(***************************************************************************)
(* How processes start the one broker of a machine (src/broker/spawn.ts),  *)
(* and how a broker takes and gives back what says that it is the one      *)
(* (src/broker/ownership.ts, and the start and shutdown of broker.ts).     *)
(*                                                                         *)
(* They share four files and nothing else: the spawn lock, the owner file, *)
(* the socket path and the pid file.  An operation on one of them is one   *)
(* step, and the steps of different processes interleave; opening a file   *)
(* and writing it are two.                                                 *)
(***************************************************************************)
EXTENDS Integers

CONSTANTS
  Starters,      \* processes that call spawnBrokerIfNeeded
  Brokers,       \* broker processes; each runs once
  Incompatible,  \* those of another version
  None,
  LockTries,     \* maxRetries of acquireSpawnLock
  MaxFaults      \* bound: kills, slow answers and a lock growing old

\* What the two files that are written say.
LockFile == [by : Starters, written : BOOLEAN, old : BOOLEAN]
OwnerFile == [by : Brokers, written : BOOLEAN]

ASSUME OwnershipAssumption ==
  /\ Incompatible \subseteq Brokers
  /\ None \notin Starters \cup Brokers \cup LockFile \cup OwnerFile
  /\ LockTries \in Nat \ {0} /\ MaxFaults \in Nat

VARIABLES
  lock,     \* the spawn lock: who made it, whether it has its text, is it old
  owner,    \* the owner file: who made it, whether it has its text
  path,     \* the broker whose listener the socket path names
  pidFile,  \* the broker that the pid file names
  starter,  \* where each starter is, with its attempts on the lock, the
            \* broker it stops or has spawned, and whether it will succeed
  broker,   \* where each broker is, with its attempts on the owner file, and,
            \* as history, whether it started alone: no other did meanwhile, and
            \* none that did not was still there
  faults

files == <<lock, owner, path, pidFile>>
vars == <<files, starter, broker, faults>>

\* The steps of a broker: it takes the owner file, gets ready to listen, serves,
\* and leaves.
Taking == {"open", "write", "read", "unlink"}
Starting == Taking \cup {"clear", "bind"}
Serving == {"announce", "up"}
Leaving == {"unpath", "unpid", "reread", "unown", "close"}
Alive(b) == broker[b].at \notin {"unborn", "dead"}
Owning(b) == broker[b].at \in {"clear", "bind"} \cup Serving

Locking == {"probe", "lock", "stamp", "judge", "break"}
Holding == {"recheck", "stop", "stopping", "spawn", "await", "release"}
Ended == {"done", "failed"}

OwnershipTypeOK ==
  /\ lock \in LockFile \cup {None} /\ owner \in OwnerFile \cup {None}
  /\ path \in Brokers \cup {None} /\ pidFile \in Brokers \cup {None}
  /\ \A s \in Starters :
       /\ starter[s].at \in Locking \cup Holding \cup Ended \cup {"follow", "dead"}
       /\ starter[s].tries \in 0..LockTries /\ starter[s].ok \in BOOLEAN
       /\ starter[s].broker \in Brokers \cup {None}
       /\ starter[s].at \in {"stopping", "await"} => starter[s].broker # None
  /\ \A b \in Brokers :
       /\ broker[b].at \in {"unborn", "dead"} \cup Starting \cup Serving \cup Leaving
       /\ broker[b].tries \in 0..1 /\ broker[b].alone \in BOOLEAN
  /\ faults \in 0..MaxFaults
  \* What names a socket has been bound to it, and a pid file says who serves.
  /\ path # None => broker[path].at \notin {"unborn"} \cup Starting

-----------------------------------------------------------------------------
(* Helpers.                                                                *)

Fault == faults < MaxFaults /\ faults' = faults + 1
Is(s, at) == starter[s].at = at
Goes(s, at) == starter' = [starter EXCEPT ![s].at = at]
Stands(b, at) == broker[b].at = at
Moves(b, at) == broker' = [broker EXCEPT ![b].at = at]
Exits(b) == broker' = [broker EXCEPT ![b] = [at |-> "dead", tries |-> 0, alone |-> FALSE]]
Returns(s, at) ==
  starter' = [starter EXCEPT ![s] = [at |-> at, tries |-> 0, broker |-> None, ok |-> FALSE]]

\* checkBrokerHealth: who answers at the socket path.
Answers(b) == path = b /\ broker[b].at \in Serving
Compatible == \E b \in Brokers \ Incompatible : Answers(b)
Outdated == \E b \in Incompatible : Answers(b)

\* As a fault, an answer takes longer than its time.
Sees(health) == health /\ UNCHANGED faults
Misses(health) == IF health THEN Fault ELSE UNCHANGED faults

-----------------------------------------------------------------------------
(* spawnBrokerIfNeeded.                                                    *)

\* Each call starts afresh.
Calls(s) ==
  /\ starter[s].at \in Ended
  /\ Returns(s, "probe")
  /\ UNCHANGED <<files, broker, faults>>

Probes(s) ==
  /\ Is(s, "probe")
  /\ \/ Sees(Compatible) /\ Returns(s, "done")
     \/ Misses(Compatible) /\ Goes(s, "lock")
  /\ UNCHANGED <<files, broker>>

\* acquireSpawnLock: the file is made, and only then written.
OpensLock(s) ==
  /\ Is(s, "lock")
  /\ IF lock = None
     THEN lock' = [by |-> s, written |-> FALSE, old |-> FALSE] /\ Goes(s, "stamp")
     ELSE Goes(s, "judge") /\ UNCHANGED lock
  /\ UNCHANGED <<owner, path, pidFile, broker, faults>>

\* What is written goes to the file that was opened, if it still has its name.
StampsLock(s) ==
  /\ Is(s, "stamp")
  /\ lock' = IF lock # None /\ lock.by = s THEN [lock EXCEPT !.written = TRUE] ELSE lock
  /\ Goes(s, "recheck")
  /\ UNCHANGED <<owner, path, pidFile, broker, faults>>

\* isSpawnLockStale: a lock that is gone is not stale; one without text is taken
\* for one made at the beginning of time.
LockIsStale ==
  /\ lock # None
  /\ ~lock.written \/ lock.old \/ Is(lock.by, "dead")
JudgesLock(s) ==
  /\ Is(s, "judge")
  /\ Goes(s, IF LockIsStale THEN "break" ELSE "follow")
  /\ UNCHANGED <<files, broker, faults>>

\* The file that has the name by now is removed.
BreaksLock(s) ==
  /\ Is(s, "break")
  /\ lock' = None
  /\ starter' = [starter EXCEPT ![s].tries = @ + 1,
                   ![s].at = IF starter[s].tries + 1 < LockTries THEN "lock" ELSE "follow"]
  /\ UNCHANGED <<owner, path, pidFile, broker, faults>>

\* With the lock: is one running by now, and is it one to be replaced?
Rechecks(s) ==
  /\ Is(s, "recheck")
  /\ \/ Sees(Compatible) /\ starter' = [starter EXCEPT ![s].at = "release", ![s].ok = TRUE]
     \/ ~Compatible /\ Sees(Outdated) /\ Goes(s, "stop")
     \/ Misses(Compatible \/ Outdated) /\ Goes(s, "spawn")
  /\ UNCHANGED <<files, broker>>

\* stopBrokerProcess: SIGTERM to the process that the pid file names, whoever
\* answered.  It begins to leave, or is gone already.
Stops(s) ==
  /\ Is(s, "stop")
  /\ IF pidFile = None \/ (pidFile # None /\ ~Alive(pidFile))
     THEN Goes(s, "spawn") /\ UNCHANGED broker
     ELSE /\ starter' = [starter EXCEPT ![s].at = "stopping", ![s].broker = pidFile]
          /\ broker' = [broker EXCEPT ![pidFile].at =
               IF @ # "up" THEN @
               ELSE IF owner # None /\ owner.by = pidFile THEN "unpath" ELSE "close"]
  /\ UNCHANGED <<files, faults>>

\* As a fault, three seconds are not enough.
HasStopped(s) ==
  /\ Is(s, "stopping")
  /\ \/ ~Alive(starter[s].broker) /\ Goes(s, "spawn") /\ UNCHANGED faults
     \/ Alive(starter[s].broker) /\ Goes(s, "release") /\ Fault
  /\ UNCHANGED <<files, broker>>

\* Of brokers that start at once, none does so alone, and while one of them is
\* left, no later one does.
Begins(b) ==
  LET others == {c \in Brokers : broker[c].at \in Starting}
      raced == {c \in Brokers : Alive(c) /\ ~broker[c].alone}
  IN broker' = [c \in Brokers |->
       CASE c = b -> [at |-> "open", tries |-> 0, alone |-> others \cup raced = {}]
         [] c \in others -> [broker[c] EXCEPT !.alone = FALSE]
         [] OTHER -> broker[c]]

\* A broker process begins; without one left (a bound), spawn itself fails.
Spawns(s) ==
  /\ Is(s, "spawn")
  /\ \/ \E b \in Brokers \ Incompatible :
          /\ Stands(b, "unborn") /\ Begins(b)
          /\ starter' = [starter EXCEPT ![s].at = "await", ![s].broker = b]
     \/ /\ \A b \in Brokers \ Incompatible : ~Stands(b, "unborn")
        /\ Goes(s, "release") /\ UNCHANGED broker
  /\ UNCHANGED <<files, faults>>

\* A broker answers, the child exits, or as a fault five seconds pass.
Awaits(s) ==
  /\ Is(s, "await")
  /\ \/ Compatible /\ starter' = [starter EXCEPT ![s].at = "release", ![s].ok = TRUE]
        /\ UNCHANGED faults
     \/ ~Alive(starter[s].broker) /\ Goes(s, "release") /\ UNCHANGED faults
     \/ Alive(starter[s].broker) /\ Goes(s, "release") /\ Fault
  /\ UNCHANGED <<files, broker>>

\* releaseSpawnLock, in every case: whatever has the name is removed.
ReleasesLock(s) ==
  /\ Is(s, "release")
  /\ lock' = None
  /\ Returns(s, IF starter[s].ok THEN "done" ELSE "failed")
  /\ UNCHANGED <<owner, path, pidFile, broker, faults>>

\* Without the lock: wait for the broker of the process that has it.
Follows(s) ==
  /\ Is(s, "follow")
  /\ Returns(s, IF Compatible THEN "done" ELSE "failed")
  /\ UNCHANGED <<files, broker, faults>>

StarterDies(s) ==
  /\ ~Is(s, "dead") /\ Returns(s, "dead") /\ Fault
  /\ UNCHANGED <<files, broker>>

\* More than ten seconds go by under one lock.
LockAges ==
  /\ lock # None /\ ~lock.old /\ Fault
  /\ lock' = [lock EXCEPT !.old = TRUE]
  /\ UNCHANGED <<owner, path, pidFile, starter, broker>>

-----------------------------------------------------------------------------
(* A broker: acquireBrokerOwnership, the rest of its constructor, start.   *)

\* Mutant of OpensOwner: the sockets of a former broker are removed first.
OpensOwnerCleared(b) ==
  /\ Stands(b, "open")
  /\ path' = None
  /\ IF owner = None
     THEN owner' = [by |-> b, written |-> FALSE] /\ Moves(b, "write")
     ELSE Moves(b, "read") /\ UNCHANGED owner
  /\ UNCHANGED <<lock, pidFile, starter, faults>>

OpensOwner(b) ==
  /\ Stands(b, "open")
  /\ IF owner = None
     THEN owner' = [by |-> b, written |-> FALSE] /\ Moves(b, "write")
     ELSE Moves(b, "read") /\ UNCHANGED owner
  /\ UNCHANGED <<lock, path, pidFile, starter, faults>>

\* What is written goes to the file that was opened, if it still has its name.
WritesOwner(b) ==
  /\ Stands(b, "write")
  /\ owner' = IF owner # None /\ owner.by = b THEN [owner EXCEPT !.written = TRUE] ELSE owner
  /\ Moves(b, "clear")
  /\ UNCHANGED <<lock, path, pidFile, starter, faults>>

\* Mutant of OwnedByLive: a broker on its way out does not count.
OwnedByServing(b) == owner # None /\ owner.written /\ broker[owner.by].at \in Serving

\* The file names a process, and it is alive.
OwnedByLive(b) == owner # None /\ owner.written /\ Alive(owner.by)

ReadsOwner(b) ==
  /\ Stands(b, "read")
  /\ IF OwnedByLive(b) THEN Exits(b) ELSE Moves(b, "unlink")
  /\ UNCHANGED <<files, starter, faults>>

\* Mutant of UnlinksOwner: the attempts have no end.
UnlinksOwnerAgain(b) ==
  /\ Stands(b, "unlink")
  /\ owner' = None
  /\ broker' = [broker EXCEPT ![b].tries = @ + 1, ![b].at = "open"]
  /\ UNCHANGED <<lock, path, pidFile, starter, faults>>

\* The file that has the name by now is removed; two attempts are made.
UnlinksOwner(b) ==
  /\ Stands(b, "unlink")
  /\ owner' = None
  /\ IF broker[b].tries = 0
     THEN broker' = [broker EXCEPT ![b].tries = 1, ![b].at = "open"]
     ELSE Exits(b)
  /\ UNCHANGED <<lock, path, pidFile, starter, faults>>

\* Mutant of ClearsPath: what a killed broker has left stays.
ClearsPathNever(b) ==
  /\ Stands(b, "clear")
  /\ Moves(b, "bind")
  /\ UNCHANGED <<files, starter, faults>>

\* The constructor removes the path of a former broker.
ClearsPath(b) ==
  /\ Stands(b, "clear")
  /\ path' = None
  /\ Moves(b, "bind")
  /\ UNCHANGED <<lock, owner, pidFile, starter, faults>>

\* listen: an address in use is an error that nobody handles.
Binds(b) ==
  /\ Stands(b, "bind")
  /\ IF path = None THEN path' = b /\ Moves(b, "announce")
     ELSE Exits(b) /\ UNCHANGED path
  /\ UNCHANGED <<lock, owner, pidFile, starter, faults>>

Announces(b) ==
  /\ Stands(b, "announce")
  /\ pidFile' = b
  /\ Moves(b, "up")
  /\ UNCHANGED <<lock, owner, path, starter, faults>>

-----------------------------------------------------------------------------
(* A broker: shutdown, which only its owner file lets remove the files.    *)

ShutsDown(b) ==
  /\ Stands(b, "up")
  /\ Moves(b, IF owner # None /\ owner.by = b THEN "unpath" ELSE "close")
  /\ UNCHANGED <<files, starter, faults>>

UnlinksPath(b) ==
  /\ Stands(b, "unpath") /\ path' = None /\ Moves(b, "unpid")
  /\ UNCHANGED <<lock, owner, pidFile, starter, faults>>

UnlinksPid(b) ==
  /\ Stands(b, "unpid") /\ pidFile' = None /\ Moves(b, "reread")
  /\ UNCHANGED <<lock, owner, path, starter, faults>>

\* releaseBrokerOwnership reads the file once more.
RereadsOwner(b) ==
  /\ Stands(b, "reread")
  /\ Moves(b, IF owner # None /\ owner.written /\ owner.by = b THEN "unown" ELSE "close")
  /\ UNCHANGED <<files, starter, faults>>

ReleasesOwner(b) ==
  /\ Stands(b, "unown") /\ owner' = None /\ Moves(b, "close")
  /\ UNCHANGED <<lock, path, pidFile, starter, faults>>

\* Closing a listener removes its path by name (libuv); the process exits.
Closes(b) ==
  /\ Stands(b, "close") /\ path' = None /\ Exits(b)
  /\ UNCHANGED <<lock, owner, pidFile, starter, faults>>

\* Killed, a broker leaves its files.
BrokerDies(b) ==
  /\ Alive(b) /\ Exits(b) /\ Fault
  /\ UNCHANGED <<files, starter>>

-----------------------------------------------------------------------------
\* At the start no broker runs, or one does.
OwnershipInit ==
  /\ lock = None
  /\ \E first \in Brokers \cup {None} :
       /\ owner = IF first = None THEN None ELSE [by |-> first, written |-> TRUE]
       /\ path = first /\ pidFile = first
       /\ broker = [b \in Brokers |-> [at |-> IF b = first THEN "up" ELSE "unborn",
                                        tries |-> 0, alone |-> b = first]]
  /\ starter = [s \in Starters |-> [at |-> "failed", tries |-> 0, broker |-> None, ok |-> FALSE]]
  /\ faults = 0

StarterSteps(s) ==
  \/ Probes(s) \/ OpensLock(s) \/ StampsLock(s) \/ JudgesLock(s) \/ BreaksLock(s)
  \/ Rechecks(s) \/ Stops(s) \/ HasStopped(s) \/ Spawns(s) \/ Awaits(s)
  \/ ReleasesLock(s) \/ Follows(s)

BrokerStarts(b) ==
  \/ OpensOwner(b) \/ WritesOwner(b) \/ ReadsOwner(b) \/ UnlinksOwner(b)
  \/ ClearsPath(b) \/ Binds(b) \/ Announces(b)

BrokerLeaves(b) ==
  \/ UnlinksPath(b) \/ UnlinksPid(b) \/ RereadsOwner(b) \/ ReleasesOwner(b) \/ Closes(b)

OwnershipNext ==
  \/ \E s \in Starters : Calls(s) \/ StarterSteps(s) \/ StarterDies(s)
  \/ \E b \in Brokers : BrokerStarts(b) \/ ShutsDown(b) \/ BrokerLeaves(b) \/ BrokerDies(b)
  \/ LockAges

OwnershipSpec == OwnershipInit /\ [][OwnershipNext]_vars

-----------------------------------------------------------------------------
(* What is promised.                                                       *)

\* Beside a broker that started alone no other owns the machine, whatever was
\* killed before and whatever leftovers it found: only a race of two starts
\* (ownership.ts:35-40), one of which is still there, can break "rejects a second
\* live owner".
AloneIsExclusive ==
  \A b, c \in Brokers : broker[b].alone /\ Owning(b) /\ Owning(c) => b = c

\* A broker that starts alone gives up only because a live one owns the machine:
\* leftovers of killed ones, in any combination, do not stop it.
AloneStarts ==
  [][\A b \in Brokers :
       broker[b].alone /\ broker[b].at \in Starting /\ broker'[b].at = "dead" /\ faults' = faults
         => OwnedByLive(b) /\ owner.by # b]_vars

\* Of a broker that started alone and owns the machine, only its own shutdown
\* removes the socket path, or a former broker that takes the last step of its own
\* (which closes by name); so no process that is refused cuts it off.
OwnerKeepsPath ==
  [][\A b \in Brokers :
       path = b /\ broker[b].at \in Serving /\ broker[b].alone
       => \/ path' = b \/ broker'[b].at \notin Serving
          \/ \E c \in Brokers \ {b} : Stands(c, "close") /\ broker'[c].at = "dead"]_vars
=============================================================================
