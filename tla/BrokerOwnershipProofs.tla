------------------------ MODULE BrokerOwnershipProofs ------------------------
(***************************************************************************)
(* Proofs about BrokerOwnership, for any processes, any brokers that they  *)
(* may start, any number of attempts, and any number of faults.            *)
(***************************************************************************)
EXTENDS BrokerOwnership, TLAPS

-----------------------------------------------------------------------------
(* The inductive invariant.                                                *)

StarterAt == Locking \cup Holding \cup Ended \cup {"follow", "dead"}
BrokerAt == {"unborn", "dead"} \cup Starting \cup Serving \cup Leaving
StarterState == [at : StarterAt, tries : 0..LockTries, broker : Brokers \cup {None}, ok : BOOLEAN]
BrokerState == [at : BrokerAt, tries : 0..1, alone : BOOLEAN]

\* An attempt on the lock is left as long as one is made.
StartersTyped ==
  /\ starter \in [Starters -> StarterState]
  /\ \A s \in Starters : /\ starter[s].at \in Locking => starter[s].tries < LockTries
                         /\ starter[s].at \in {"stopping", "await"} => starter[s].broker # None

FilesTyped ==
  /\ lock \in LockFile \cup {None} /\ owner \in OwnerFile \cup {None}
  /\ path \in Brokers \cup {None} /\ pidFile \in Brokers \cup {None}
  /\ path # None => broker[path].at \notin {"unborn"} \cup Starting
  /\ faults \in 0..MaxFaults

BrokersTyped == broker \in [Brokers -> BrokerState]

\* From its file to its removal a broker has the owner file.
HasFile(b) == Owning(b) \/ broker[b].at \in {"unpath", "unpid", "reread", "unown"}

\* A broker starts alone only where nobody else starts and everybody who is there
\* has done the same.
StartsApart ==
  \A b, c \in Brokers :
    broker[b].alone /\ broker[b].at \in Starting =>
      /\ broker[c].at \in Starting => b = c
      /\ Alive(c) => broker[c].alone

\* The owner file of one that started alone is its own; nobody has a file before
\* it makes one.
FileNamesOwner ==
  \A b \in Brokers :
    /\ broker[b].alone /\ HasFile(b) => owner = [by |-> b, written |-> TRUE]
    /\ broker[b].alone /\ broker[b].at = "write" => owner = [by |-> b, written |-> FALSE]
    /\ broker[b].at \in {"unborn", "open", "read", "unlink"} => owner = None \/ owner.by # b

\* Beside it nobody has a file, or is about to remove one.
FileIsRespected ==
  \A b, c \in Brokers :
    /\ broker[b].alone /\ (HasFile(b) \/ broker[b].at = "write")
    /\ HasFile(c) \/ broker[c].at \in {"write", "unlink"}
    => b = c

\* To one that starts alone, the second attempt at the owner file and the first
\* at the path find the way free.
AttemptsSuffice ==
  \A b \in Brokers : broker[b].alone =>
    /\ broker[b].at \in {"read", "unlink"} => broker[b].tries = 0
    /\ broker[b].at = "open" /\ broker[b].tries = 1 => owner = None
    /\ broker[b].at = "bind" => path = None

OwnershipInv ==
  /\ StartersTyped /\ FilesTyped /\ BrokersTyped
  /\ StartsApart /\ FileNamesOwner /\ FileIsRespected /\ AttemptsSuffice

-----------------------------------------------------------------------------
(* What the helpers do.                                                    *)

LEMMA MovesShape ==
  ASSUME BrokersTyped, NEW b \in Brokers, NEW at \in BrokerAt, Moves(b, at)
  PROVE  /\ BrokersTyped'
         /\ \A c \in Brokers \ {b} : broker'[c] = broker[c]
         /\ broker'[b].at = at /\ broker'[b].tries = broker[b].tries
         /\ broker'[b].alone = broker[b].alone
  BY DEF BrokersTyped, Moves, BrokerState

LEMMA ExitsShape ==
  ASSUME BrokersTyped, NEW b \in Brokers, Exits(b)
  PROVE  /\ BrokersTyped'
         /\ \A c \in Brokers \ {b} : broker'[c] = broker[c]
         /\ broker'[b].at = "dead" /\ broker'[b].alone = FALSE
  BY DEF BrokersTyped, Exits, BrokerState, BrokerAt

LEMMA BeginsShape ==
  ASSUME BrokersTyped, NEW b \in Brokers, Begins(b), Stands(b, "unborn")
  PROVE  /\ BrokersTyped'
         /\ \A c \in Brokers \ {b} :
              /\ broker'[c].at = broker[c].at /\ broker'[c].tries = broker[c].tries
              /\ broker'[c].alone <=> broker[c].alone /\ broker[c].at \notin Starting
         /\ broker'[b].at = "open" /\ broker'[b].tries = 0
         /\ broker'[b].alone <=>
              \A c \in Brokers : /\ broker[c].at \notin Starting
                                 /\ Alive(c) => broker[c].alone
<1> DEFINE others == {c \in Brokers : broker[c].at \in Starting}
           raced == {c \in Brokers : Alive(c) /\ ~broker[c].alone}
           first == others \cup raced = {}
<1>1. /\ broker' = [c \in Brokers |->
             CASE c = b -> [at |-> "open", tries |-> 0, alone |-> first]
               [] c \in others -> [broker[c] EXCEPT !.alone = FALSE]
               [] OTHER -> broker[c]]
      /\ b \notin others
  BY DEF Begins, Stands, Starting, Taking
<1>2. first \in BOOLEAN
  OBVIOUS
<1>3. first <=> \A c \in Brokers : /\ broker[c].at \notin Starting
                                   /\ Alive(c) => broker[c].alone
  OBVIOUS
<1> HIDE DEF first
<1>4. \A c \in Brokers : broker[c] \in BrokerState
  BY DEF BrokersTyped
<1>5. /\ broker'[b] = [at |-> "open", tries |-> 0, alone |-> first]
      /\ broker'[b] \in BrokerState
  BY <1>1, <1>2 DEF BrokerState, BrokerAt, Starting, Taking
<1>6. ASSUME NEW c \in Brokers \ {b}
      PROVE  /\ broker'[c].at = broker[c].at /\ broker'[c].tries = broker[c].tries
             /\ broker'[c].alone <=> broker[c].alone /\ broker[c].at \notin Starting
             /\ broker'[c] \in BrokerState
  <2>1. CASE c \in others
    <3>1. broker'[c] = [broker[c] EXCEPT !.alone = FALSE]
      BY <1>1, <2>1
    <3>2. /\ broker'[c].at = broker[c].at /\ broker'[c].tries = broker[c].tries
          /\ broker'[c].alone = FALSE /\ broker'[c] \in BrokerState
      BY <1>4, <3>1 DEF BrokerState
    <3> QED
      BY <2>1, <3>2
  <2>2. CASE c \notin others
    <3>1. broker'[c] = broker[c]
      BY <1>1, <2>2
    <3> QED
      BY <1>4, <2>2, <3>1
  <2> QED
    BY <2>1, <2>2
<1>7. BrokersTyped'
  BY <1>1, <1>5, <1>6 DEF BrokersTyped
<1> QED
  BY <1>3, <1>5, <1>6, <1>7

-----------------------------------------------------------------------------
(* The start.                                                              *)

LEMMA InitInv == OwnershipInit => OwnershipInv
<1> SUFFICES ASSUME OwnershipInit PROVE OwnershipInv
  OBVIOUS
<1>1. PICK first \in Brokers \cup {None} :
       /\ owner = IF first = None THEN None ELSE [by |-> first, written |-> TRUE]
       /\ path = first /\ pidFile = first
       /\ broker = [b \in Brokers |-> [at |-> IF b = first THEN "up" ELSE "unborn",
                                        tries |-> 0, alone |-> b = first]]
  BY DEF OwnershipInit
<1>2. \A b \in Brokers : /\ broker[b].at = (IF b = first THEN "up" ELSE "unborn")
                         /\ broker[b].alone <=> b = first
                         /\ broker[b].tries = 0
  BY <1>1
<1>3. BrokersTyped
  <2>1. \A b \in Brokers : (b = first) \in BOOLEAN
    OBVIOUS
  <2> QED
    BY <1>1, <2>1 DEF BrokersTyped, BrokerState, BrokerAt, Serving
<1>4. StartersTyped
  BY OwnershipAssumption DEF OwnershipInit, StartersTyped, StarterState, StarterAt, Ended, Locking
<1>5. FilesTyped
  <2>1. owner \in OwnerFile \cup {None}
    BY <1>1 DEF OwnerFile
  <2>2. path # None => broker[path].at \notin {"unborn"} \cup Starting
    BY <1>1, <1>2 DEF Starting, Taking
  <2>3. lock = None /\ faults = 0 /\ MaxFaults \in Nat
    BY OwnershipAssumption DEF OwnershipInit
  <2> QED
    BY <1>1, <2>1, <2>2, <2>3 DEF FilesTyped
<1>6. StartsApart
  BY <1>2 DEF StartsApart, Starting, Taking
<1>7. FileNamesOwner /\ FileIsRespected /\ AttemptsSuffice
  BY <1>1, <1>2, OwnershipAssumption
  DEF FileNamesOwner, FileIsRespected, AttemptsSuffice, HasFile, Owning, Serving
<1> QED
  BY <1>3, <1>4, <1>5, <1>6, <1>7 DEF OwnershipInv

-----------------------------------------------------------------------------
(* What one broker's step leaves true, by where the step takes it.         *)

\* A step of b to at: the others stay where they are, and it becomes no more
\* alone than it was.
StepTo(b, at) ==
  /\ BrokersTyped'
  /\ \A c \in Brokers \ {b} : broker'[c] = broker[c]
  /\ broker'[b].at = at
  /\ broker'[b].alone => broker[b].alone

LEMMA FileShape ==
  ASSUME NEW b \in Brokers, NEW w \in BOOLEAN
  PROVE  [by |-> b, written |-> w] \in OwnerFile /\ [by |-> b, written |-> w] # None
<1>1. [by |-> b, written |-> w] \in OwnerFile
  BY DEF OwnerFile
<1> QED
  BY <1>1, OwnershipAssumption

LEMMA FilesKept ==
  ASSUME FilesTyped, NEW b \in Brokers, NEW at, StepTo(b, at),
         at \in {"unborn"} \cup Starting => broker[b].at \in {"unborn"} \cup Starting,
         path' = path \/ path' = None,
         pidFile' \in Brokers \cup {None}, owner' \in OwnerFile \cup {None},
         lock' = lock, faults' \in 0..MaxFaults
  PROVE  FilesTyped'
<1>1. ASSUME path' # None
      PROVE  broker'[path'].at \notin {"unborn"} \cup Starting
  <2>1. path' = path /\ path \in Brokers /\ broker[path].at \notin {"unborn"} \cup Starting
    BY <1>1 DEF FilesTyped
  <2>2. CASE path = b
    BY <2>1, <2>2 DEF StepTo
  <2>3. CASE path # b
    BY <2>1, <2>3 DEF StepTo
  <2> QED
    BY <2>2, <2>3
<1>2. /\ lock' \in LockFile \cup {None} /\ owner' \in OwnerFile \cup {None}
      /\ path' \in Brokers \cup {None} /\ pidFile' \in Brokers \cup {None}
      /\ faults' \in 0..MaxFaults
  BY DEF FilesTyped
<1> QED
  BY <1>1, <1>2 DEF FilesTyped

LEMMA StartsApartKept ==
  ASSUME StartsApart, NEW b \in Brokers, NEW at, StepTo(b, at),
         at \in Starting => broker[b].at \in Starting,
         at \notin {"unborn", "dead"} => Alive(b) /\ broker'[b].alone = broker[b].alone
  PROVE  StartsApart'
<1> SUFFICES ASSUME NEW c \in Brokers, NEW d \in Brokers,
                    broker'[c].alone, broker'[c].at \in Starting
             PROVE  /\ broker'[d].at \in Starting => c = d
                    /\ broker'[d].at \notin {"unborn", "dead"} => broker'[d].alone
  BY DEF StartsApart, Alive
<1>1. broker[c].alone /\ broker[c].at \in Starting
  BY DEF StepTo
<1>2. broker'[d].at \in Starting => broker[d].at \in Starting
  BY DEF StepTo
<1>3. /\ broker[d].at \in Starting => c = d
      /\ Alive(d) => broker[d].alone
  BY <1>1 DEF StartsApart
<1>4. ASSUME broker'[d].at \notin {"unborn", "dead"}
      PROVE  broker'[d].alone
  BY <1>3, <1>4 DEF StepTo, Alive
<1> QED
  BY <1>2, <1>3, <1>4

\* As long as the owner file is left alone.
LEMMA NamedKept ==
  ASSUME FileNamesOwner, NEW b \in Brokers, NEW at, StepTo(b, at), owner' = owner,
         HasFile(b)' => HasFile(b), at # "write",
         at \in {"unborn", "open", "read", "unlink"}
           => broker[b].at \in {"unborn", "open", "read", "unlink"}
  PROVE  FileNamesOwner'
<1> SUFFICES ASSUME NEW c \in Brokers
             PROVE  /\ broker'[c].alone /\ HasFile(c)' => owner = [by |-> c, written |-> TRUE]
                    /\ broker'[c].alone /\ broker'[c].at = "write"
                         => owner = [by |-> c, written |-> FALSE]
                    /\ broker'[c].at \in {"unborn", "open", "read", "unlink"}
                         => owner = None \/ owner.by # c
  BY DEF FileNamesOwner
<1>1. CASE c = b
  BY <1>1 DEF FileNamesOwner, StepTo
<1>2. CASE c # b
  <2>1. broker'[c] = broker[c] /\ (HasFile(c)' <=> HasFile(c))
    BY <1>2 DEF StepTo, HasFile, Owning
  <2> QED
    BY <2>1 DEF FileNamesOwner
<1> QED
  BY <1>1, <1>2

\* When the owner file is removed, by one that has it or has judged it.
LEMMA NamedRemoved ==
  ASSUME FileNamesOwner, FileIsRespected, NEW b \in Brokers, NEW at, StepTo(b, at),
         owner' = None, HasFile(b) \/ broker[b].at = "unlink",
         ~HasFile(b)', at # "write"
  PROVE  FileNamesOwner'
<1> SUFFICES ASSUME NEW c \in Brokers, broker'[c].alone
             PROVE  ~HasFile(c)' /\ broker'[c].at # "write"
  BY DEF FileNamesOwner
<1>1. CASE c = b
  BY <1>1 DEF StepTo
<1>2. CASE c # b
  <2>1. broker'[c] = broker[c] /\ (HasFile(c)' <=> HasFile(c))
    BY <1>2 DEF StepTo, HasFile, Owning
  <2> QED
    BY <1>2, <2>1 DEF FileIsRespected
<1> QED
  BY <1>1, <1>2

LEMMA RespectKept ==
  ASSUME FileIsRespected, NEW b \in Brokers, NEW at, StepTo(b, at),
         HasFile(b)' \/ at = "write" => HasFile(b) \/ broker[b].at = "write",
         at = "unlink" => broker[b].at = "unlink"
  PROVE  FileIsRespected'
<1> SUFFICES ASSUME NEW c \in Brokers, NEW d \in Brokers, c # d,
                    broker'[c].alone, HasFile(c)' \/ broker'[c].at = "write",
                    HasFile(d)' \/ broker'[d].at \in {"write", "unlink"}
             PROVE  FALSE
  BY DEF FileIsRespected
<1>1. broker[c].alone /\ (HasFile(c) \/ broker[c].at = "write")
  <2>1. CASE c = b
    BY <2>1 DEF StepTo
  <2>2. CASE c # b
    BY <2>2 DEF StepTo, HasFile, Owning
  <2> QED
    BY <2>1, <2>2
<1>2. HasFile(d) \/ broker[d].at \in {"write", "unlink"}
  <2>1. CASE d = b
    BY <2>1 DEF StepTo
  <2>2. CASE d # b
    BY <2>2 DEF StepTo, HasFile, Owning
  <2> QED
    BY <2>1, <2>2
<1> QED
  BY <1>1, <1>2 DEF FileIsRespected

\* A step of one that does not start helps those that do.
LEMMA AttemptsKept ==
  ASSUME AttemptsSuffice, NEW b \in Brokers, NEW at, StepTo(b, at), at \notin Starting,
         owner' = owner \/ owner' = None, path' = path \/ path' = None
  PROVE  AttemptsSuffice'
<1> SUFFICES ASSUME NEW c \in Brokers, broker'[c].alone
             PROVE  /\ broker'[c].at \in {"read", "unlink"} => broker'[c].tries = 0
                    /\ broker'[c].at = "open" /\ broker'[c].tries = 1 => owner' = None
                    /\ broker'[c].at = "bind" => path' = None
  BY DEF AttemptsSuffice
<1>1. CASE c = b
  BY <1>1 DEF StepTo, Starting, Taking
<1>2. CASE c # b
  BY <1>2 DEF StepTo, AttemptsSuffice
<1> QED
  BY <1>1, <1>2

\* While one starts, the others that do are not alone.
LEMMA AttemptsOwn ==
  ASSUME StartsApart, NEW b \in Brokers, NEW at, StepTo(b, at), broker[b].at \in Starting,
         broker'[b].alone =>
           /\ at \in {"read", "unlink"} => broker'[b].tries = 0
           /\ at = "open" /\ broker'[b].tries = 1 => owner' = None
           /\ at = "bind" => path' = None
  PROVE  AttemptsSuffice'
<1> SUFFICES ASSUME NEW c \in Brokers, broker'[c].alone
             PROVE  /\ broker'[c].at \in {"read", "unlink"} => broker'[c].tries = 0
                    /\ broker'[c].at = "open" /\ broker'[c].tries = 1 => owner' = None
                    /\ broker'[c].at = "bind" => path' = None
  BY DEF AttemptsSuffice
<1>1. CASE c = b
  BY <1>1 DEF StepTo
<1>2. CASE c # b
  <2>1. broker'[c] = broker[c]
    BY <1>2 DEF StepTo
  <2>2. broker[c].at \notin Starting
    BY <1>2, <2>1 DEF StartsApart
  <2> QED
    BY <2>1, <2>2 DEF Starting, Taking
<1> QED
  BY <1>1, <1>2

-----------------------------------------------------------------------------
(* The steps of a broker, one by one.                                      *)

LEMMA OpensOwnerInv ==
  ASSUME OwnershipInv, NEW b \in Brokers, OpensOwner(b)
  PROVE  OwnershipInv'
<1> USE DEF OwnershipInv
<1>1. broker[b].at = "open" /\ UNCHANGED <<lock, path, pidFile, starter, faults>>
  BY DEF OpensOwner, Stands
<1>2. CASE owner = None
  <2>1. owner' = [by |-> b, written |-> FALSE] /\ Moves(b, "write")
    BY <1>2 DEF OpensOwner
  <2>2. StepTo(b, "write") /\ broker'[b].alone = broker[b].alone
    BY <2>1, MovesShape DEF BrokerAt, Starting, Taking, StepTo
  <2>3. owner' \in OwnerFile
    BY <2>1, FileShape
  <2>4. FilesTyped'
    BY <1>1, <2>2, <2>3, FilesKept DEF FilesTyped, Starting, Taking
  <2>5. StartsApart' /\ AttemptsSuffice'
    <3>1. StartsApart'
      BY <1>1, <2>2, StartsApartKept DEF Starting, Taking, Alive
    <3> QED
      BY <1>1, <2>2, <3>1, AttemptsOwn DEF Starting, Taking
  <2>6. \A c \in Brokers : broker[c].alone => ~HasFile(c) /\ broker[c].at # "write"
    BY <1>2, FileShape DEF FileNamesOwner
  <2>7. \A c \in Brokers \ {b} : broker'[c] = broker[c] /\ (HasFile(c)' <=> HasFile(c))
    BY <2>2 DEF StepTo, HasFile, Owning
  <2>8. ~HasFile(b)'
    BY <2>2 DEF StepTo, HasFile, Owning, Serving
  <2>9. FileNamesOwner'
    BY <2>1, <2>2, <2>6, <2>7, <2>8 DEF FileNamesOwner, StepTo
  <2>10. FileIsRespected'
    <3> SUFFICES ASSUME NEW c \in Brokers, NEW d \in Brokers, c # d,
                        broker'[c].alone, HasFile(c)' \/ broker'[c].at = "write",
                        HasFile(d)' \/ broker'[d].at \in {"write", "unlink"}
                 PROVE  FALSE
      BY DEF FileIsRespected
    <3>1. c = b
      BY <2>6, <2>7
    <3>2. broker[b].alone /\ (HasFile(d) \/ broker[d].at \in {"write", "unlink"})
      BY <2>2, <2>7, <3>1 DEF StepTo
    <3>3. broker[d].at \notin Starting /\ (Alive(d) => broker[d].alone)
      BY <1>1, <3>1, <3>2 DEF StartsApart, Starting, Taking
    <3>4. HasFile(d) /\ Alive(d)
      BY <3>2, <3>3 DEF Starting, Taking, HasFile, Owning, Serving, Alive
    <3> QED
      BY <2>6, <3>3, <3>4
  <2>11. StartersTyped'
    BY <1>1 DEF StartersTyped
  <2> QED
    BY <2>2, <2>4, <2>5, <2>9, <2>10, <2>11 DEF StepTo
<1>3. CASE owner # None
  <2>1. owner' = owner /\ Moves(b, "read")
    BY <1>3 DEF OpensOwner
  <2>2. /\ StepTo(b, "read") /\ broker'[b].alone = broker[b].alone
        /\ broker'[b].tries = broker[b].tries
    BY <2>1, MovesShape DEF BrokerAt, Starting, Taking, StepTo
  <2>3. FilesTyped'
    BY <1>1, <2>1, <2>2, FilesKept DEF FilesTyped, Starting, Taking
  <2>4. StartsApart'
    BY <1>1, <2>2, StartsApartKept DEF Starting, Taking, Alive
  <2>5. ~HasFile(b)'
    BY <2>2 DEF StepTo, HasFile, Owning, Serving
  <2>6. FileNamesOwner' /\ FileIsRespected'
    BY <1>1, <2>1, <2>2, <2>5, NamedKept, RespectKept
  <2>7. broker[b].alone => broker[b].tries = 0
    <3>1. broker[b].tries \in 0..1
      BY DEF BrokersTyped, BrokerState
    <3> QED
      BY <1>1, <1>3, <3>1 DEF AttemptsSuffice
  <2>8. AttemptsSuffice'
    BY <1>1, <2>2, <2>7, AttemptsOwn DEF Starting, Taking
  <2>9. StartersTyped'
    BY <1>1 DEF StartersTyped
  <2> QED
    BY <2>2, <2>3, <2>4, <2>6, <2>8, <2>9 DEF StepTo
<1> QED
  BY <1>2, <1>3

LEMMA WritesOwnerInv ==
  ASSUME OwnershipInv, NEW b \in Brokers, WritesOwner(b)
  PROVE  OwnershipInv'
<1> USE DEF OwnershipInv
<1>1. /\ broker[b].at = "write" /\ UNCHANGED <<lock, path, pidFile, starter, faults>>
      /\ owner' = (IF owner # None /\ owner.by = b THEN [owner EXCEPT !.written = TRUE] ELSE owner)
  BY DEF WritesOwner, Stands
<1>2. StepTo(b, "clear") /\ broker'[b].alone = broker[b].alone
  BY MovesShape DEF WritesOwner, BrokerAt, Starting, Taking, StepTo
<1>3. \/ owner' = [by |-> b, written |-> TRUE]
      \/ owner' = owner /\ ~(owner # None /\ owner.by = b)
  BY <1>1 DEF FilesTyped, OwnerFile
<1>4. owner' \in OwnerFile \cup {None}
  BY <1>3, FileShape DEF FilesTyped
<1>5. FilesTyped'
  BY <1>1, <1>2, <1>4, FilesKept DEF FilesTyped, Starting, Taking
<1>6. StartsApart'
  BY <1>1, <1>2, StartsApartKept DEF Starting, Taking, Alive
<1>7. AttemptsSuffice'
  BY <1>1, <1>2, AttemptsOwn DEF Starting, Taking
<1>8. FileIsRespected'
  BY <1>1, <1>2, RespectKept
<1>9. \A c \in Brokers \ {b} :
        broker[c].alone => ~HasFile(c) /\ broker[c].at # "write"
  BY <1>1 DEF FileIsRespected
<1>10. broker[b].alone => owner' = [by |-> b, written |-> TRUE]
  <2>1. ASSUME broker[b].alone PROVE owner # None /\ owner.by = b
    <3>1. owner = [by |-> b, written |-> FALSE]
      BY <1>1, <2>1 DEF FileNamesOwner
    <3>2. owner # None
      BY <3>1, FileShape
    <3> QED
      BY <3>1, <3>2
  <2> QED
    BY <1>3, <2>1
<1>11. FileNamesOwner'
  <2>1. \A c \in Brokers \ {b} : broker'[c] = broker[c] /\ (HasFile(c)' <=> HasFile(c))
    BY <1>2 DEF StepTo, HasFile, Owning
  <2>2. \A c \in Brokers \ {b} :
          broker[c].at \in {"unborn", "open", "read", "unlink"} => owner' = None \/ owner'.by # c
    BY <1>3 DEF FileNamesOwner
  <2> QED
    BY <1>2, <1>9, <1>10, <2>1, <2>2 DEF FileNamesOwner, StepTo
<1>12. StartersTyped'
  BY <1>1 DEF StartersTyped
<1> QED
  BY <1>2, <1>5, <1>6, <1>7, <1>8, <1>11, <1>12 DEF StepTo

LEMMA ReadsOwnerInv ==
  ASSUME OwnershipInv, NEW b \in Brokers, ReadsOwner(b)
  PROVE  OwnershipInv'
<1> USE DEF OwnershipInv
<1>1. broker[b].at = "read" /\ UNCHANGED <<files, starter, faults>>
  BY DEF ReadsOwner, Stands
<1>2. UNCHANGED <<lock, owner, path, pidFile, starter, faults>>
  BY <1>1 DEF files
<1>3. StartersTyped'
  BY <1>2 DEF StartersTyped
<1>4. CASE OwnedByLive(b)
  <2>1. StepTo(b, "dead")
    BY <1>4, ExitsShape DEF ReadsOwner, StepTo
  <2>2. ~HasFile(b)'
    BY <2>1 DEF StepTo, HasFile, Owning, Serving
  <2>3. FilesTyped'
    BY <1>2, <2>1, FilesKept DEF FilesTyped, Starting, Taking
  <2>4. StartsApart' /\ AttemptsSuffice'
    BY <1>2, <2>1, StartsApartKept, AttemptsKept DEF Starting, Taking
  <2>5. FileNamesOwner' /\ FileIsRespected'
    BY <1>2, <2>1, <2>2, NamedKept, RespectKept
  <2> QED
    BY <1>3, <2>1, <2>3, <2>4, <2>5 DEF StepTo
<1>5. CASE ~OwnedByLive(b)
  <2>1. /\ StepTo(b, "unlink") /\ broker'[b].alone = broker[b].alone
        /\ broker'[b].tries = broker[b].tries
    BY <1>5, MovesShape DEF ReadsOwner, BrokerAt, Starting, Taking, StepTo
  <2>2. ~HasFile(b)'
    BY <2>1 DEF StepTo, HasFile, Owning, Serving
  <2>3. FilesTyped'
    BY <1>1, <1>2, <2>1, FilesKept DEF FilesTyped, Starting, Taking
  <2>4. StartsApart'
    BY <1>1, <2>1, StartsApartKept DEF Starting, Taking, Alive
  <2>5. AttemptsSuffice'
    BY <1>1, <2>1, AttemptsOwn DEF Starting, Taking, AttemptsSuffice
  <2>6. FileNamesOwner'
    BY <1>1, <1>2, <2>1, <2>2, NamedKept
  <2>7. \A c \in Brokers : broker[c].alone => ~HasFile(c)
    <3> SUFFICES ASSUME NEW c \in Brokers, broker[c].alone, HasFile(c) PROVE FALSE
      OBVIOUS
    <3>1. owner = [by |-> c, written |-> TRUE] /\ Alive(c)
      BY DEF FileNamesOwner, HasFile, Owning, Serving, Alive
    <3> QED
      BY <1>5, <3>1, FileShape DEF OwnedByLive
  <2>8. FileIsRespected'
    <3> SUFFICES ASSUME NEW c \in Brokers, NEW d \in Brokers, c # d,
                        broker'[c].alone, HasFile(c)' \/ broker'[c].at = "write",
                        HasFile(d)' \/ broker'[d].at \in {"write", "unlink"}
                 PROVE  FALSE
      BY DEF FileIsRespected
    <3>1. \A e \in Brokers \ {b} : broker'[e] = broker[e] /\ (HasFile(e)' <=> HasFile(e))
      BY <2>1 DEF StepTo, HasFile, Owning
    <3>2. c # b
      BY <2>1, <2>2 DEF StepTo
    <3>3. broker[c].alone /\ broker[c].at = "write"
      BY <2>7, <3>1, <3>2
    <3>4. b = c
      BY <1>1, <3>3 DEF StartsApart, Starting, Taking
    <3> QED
      BY <3>2, <3>4
  <2> QED
    BY <1>3, <2>1, <2>3, <2>4, <2>5, <2>6, <2>8 DEF StepTo
<1> QED
  BY <1>4, <1>5

LEMMA UnlinksOwnerInv ==
  ASSUME OwnershipInv, NEW b \in Brokers, UnlinksOwner(b)
  PROVE  OwnershipInv'
<1> USE DEF OwnershipInv
<1>1. /\ broker[b].at = "unlink" /\ owner' = None
      /\ UNCHANGED <<lock, path, pidFile, starter, faults>>
  BY DEF UnlinksOwner, Stands
<1>2. PICK at \in {"open", "dead"} :
        /\ StepTo(b, at)
        /\ at = "open" => broker'[b].alone = broker[b].alone
  <2>1. CASE broker[b].tries = 0
    <3>1. broker' = [broker EXCEPT ![b].tries = 1, ![b].at = "open"]
      BY <2>1 DEF UnlinksOwner
    <3>2. /\ \A c \in Brokers \ {b} : broker'[c] = broker[c]
          /\ broker'[b] = [at |-> "open", tries |-> 1, alone |-> broker[b].alone]
      BY <3>1 DEF BrokersTyped, BrokerState
    <3>3. BrokersTyped'
      BY <3>1, <3>2 DEF BrokersTyped, BrokerState, BrokerAt, Starting, Taking
    <3> QED
      BY <3>2, <3>3 DEF StepTo
  <2>2. CASE broker[b].tries # 0
    BY <2>2, ExitsShape DEF UnlinksOwner, StepTo
  <2> QED
    BY <2>1, <2>2
<1>3. ~HasFile(b)'
  BY <1>2 DEF StepTo, HasFile, Owning, Serving
<1>4. FilesTyped'
  BY <1>1, <1>2, FilesKept DEF FilesTyped, Starting, Taking
<1>5. StartsApart'
  BY <1>1, <1>2, StartsApartKept DEF Starting, Taking, Alive
<1>6. AttemptsSuffice'
  BY <1>1, <1>2, AttemptsOwn DEF Starting, Taking
<1>7. FileNamesOwner'
  BY <1>1, <1>2, <1>3, NamedRemoved
<1>8. FileIsRespected'
  BY <1>1, <1>2, <1>3, RespectKept
<1>9. StartersTyped'
  BY <1>1 DEF StartersTyped
<1> QED
  BY <1>2, <1>4, <1>5, <1>6, <1>7, <1>8, <1>9 DEF StepTo

LEMMA ClearsPathInv ==
  ASSUME OwnershipInv, NEW b \in Brokers, ClearsPath(b)
  PROVE  OwnershipInv'
<1> USE DEF OwnershipInv
<1>1. /\ broker[b].at = "clear" /\ path' = None
      /\ UNCHANGED <<lock, owner, pidFile, starter, faults>>
  BY DEF ClearsPath, Stands
<1>2. StepTo(b, "bind") /\ broker'[b].alone = broker[b].alone
  BY MovesShape DEF ClearsPath, BrokerAt, Starting, StepTo
<1>3. HasFile(b)
  BY <1>1 DEF HasFile, Owning
<1>4. FilesTyped'
  BY <1>1, <1>2, FilesKept DEF FilesTyped, Starting
<1>5. StartsApart'
  BY <1>1, <1>2, StartsApartKept DEF Starting, Alive
<1>6. AttemptsSuffice'
  BY <1>1, <1>2, AttemptsOwn DEF Starting
<1>7. FileNamesOwner' /\ FileIsRespected'
  BY <1>1, <1>2, <1>3, NamedKept, RespectKept
<1>8. StartersTyped'
  BY <1>1 DEF StartersTyped
<1> QED
  BY <1>2, <1>4, <1>5, <1>6, <1>7, <1>8 DEF StepTo

LEMMA BindsInv ==
  ASSUME OwnershipInv, NEW b \in Brokers, Binds(b)
  PROVE  OwnershipInv'
<1> USE DEF OwnershipInv
<1>1. broker[b].at = "bind" /\ UNCHANGED <<lock, owner, pidFile, starter, faults>>
  BY DEF Binds, Stands
<1>2. HasFile(b)
  BY <1>1 DEF HasFile, Owning
<1>3. StartersTyped'
  BY <1>1 DEF StartersTyped
<1>4. CASE path = None
  <2>1. path' = b /\ Moves(b, "announce")
    BY <1>4 DEF Binds
  <2>2. StepTo(b, "announce") /\ broker'[b].alone = broker[b].alone
    BY <2>1, MovesShape DEF BrokerAt, Serving, StepTo
  <2>3. FilesTyped'
    BY <1>1, <2>1, <2>2 DEF FilesTyped, StepTo, Starting, Taking
  <2>4. StartsApart'
    BY <1>1, <2>2, StartsApartKept DEF Starting, Taking, Alive
  <2>5. AttemptsSuffice'
    BY <1>1, <2>2, AttemptsOwn DEF Starting
  <2>6. FileNamesOwner' /\ FileIsRespected'
    BY <1>1, <1>2, <2>2, NamedKept, RespectKept
  <2> QED
    BY <1>3, <2>2, <2>3, <2>4, <2>5, <2>6 DEF StepTo
<1>5. CASE path # None
  <2>1. path' = path /\ StepTo(b, "dead")
    BY <1>5, ExitsShape DEF Binds, StepTo
  <2>2. FilesTyped'
    BY <1>1, <2>1, FilesKept DEF FilesTyped, Starting, Taking
  <2>3. StartsApart' /\ AttemptsSuffice'
    BY <1>1, <2>1, StartsApartKept, AttemptsKept DEF Starting, Taking
  <2>4. FileNamesOwner' /\ FileIsRespected'
    BY <1>1, <1>2, <2>1, NamedKept, RespectKept
  <2> QED
    BY <1>3, <2>1, <2>2, <2>3, <2>4 DEF StepTo
<1> QED
  BY <1>4, <1>5

\* From where it serves to its end a broker neither starts nor takes the file.
LEMMA LaterInv ==
  ASSUME OwnershipInv, NEW b \in Brokers, NEW at \in Serving \cup Leaving, StepTo(b, at),
         broker'[b].alone = broker[b].alone,
         broker[b].at \in (Serving \cup Leaving) \ {"close"},
         owner' = owner \/ (owner' = None /\ at = "close"),
         path' = path \/ path' = None, pidFile' \in Brokers \cup {None},
         UNCHANGED lock, UNCHANGED starter, UNCHANGED faults
  PROVE  OwnershipInv'
<1> USE DEF OwnershipInv
<1>1. /\ at \notin Starting \cup {"unborn", "dead"}
      /\ broker[b].at \notin Starting \cup {"unborn", "dead"}
  BY DEF Serving, Leaving, Starting, Taking
<1>2. owner' \in OwnerFile \cup {None} /\ faults' \in 0..MaxFaults
  BY DEF FilesTyped
<1>3. FilesTyped'
  BY <1>1, <1>2, FilesKept
<1>4. StartsApart' /\ AttemptsSuffice'
  BY <1>1, StartsApartKept, AttemptsKept DEF Alive
<1>5. at # "write" /\ at \notin {"unborn", "open", "read", "unlink"}
  BY <1>1 DEF Starting, Taking
<1>6. HasFile(b) /\ (at = "close" => ~HasFile(b)')
  BY DEF HasFile, Owning, Serving, Leaving, StepTo
<1>9. FileNamesOwner'
  BY <1>5, <1>6, NamedKept, NamedRemoved
<1>7. FileIsRespected'
  BY <1>5, <1>6, RespectKept
<1>8. StartersTyped'
  BY DEF StartersTyped
<1> QED
  BY <1>3, <1>4, <1>7, <1>8, <1>9 DEF StepTo

LEMMA ServesAndLeavesInv ==
  ASSUME OwnershipInv, NEW b \in Brokers,
         \/ Announces(b) \/ ShutsDown(b) \/ UnlinksPath(b) \/ UnlinksPid(b)
         \/ RereadsOwner(b) \/ ReleasesOwner(b)
  PROVE  OwnershipInv'
<1>1. ASSUME NEW at \in Serving \cup Leaving, Moves(b, at)
      PROVE  StepTo(b, at) /\ broker'[b].alone = broker[b].alone
  BY <1>1, MovesShape DEF OwnershipInv, BrokerAt, StepTo
<1>2. /\ path \in Brokers \cup {None} /\ pidFile \in Brokers \cup {None}
      /\ UNCHANGED files <=> UNCHANGED <<lock, owner, path, pidFile>>
  BY DEF OwnershipInv, FilesTyped, files
<1>3. CASE Announces(b)
  <2>1. /\ StepTo(b, "up") /\ broker'[b].alone = broker[b].alone
        /\ broker[b].at = "announce" /\ "up" \in Serving \cup Leaving
    BY <1>1, <1>3 DEF Announces, Stands, Serving, Leaving
  <2>2. broker[b].at \in (Serving \cup Leaving) \ {"close"}
    BY <2>1 DEF Serving, Leaving
  <2> QED
    BY <1>2, <1>3, <2>1, <2>2, LaterInv DEF Announces
<1>4. CASE UnlinksPath(b)
  <2>1. /\ StepTo(b, "unpid") /\ broker'[b].alone = broker[b].alone
        /\ broker[b].at = "unpath" /\ "unpid" \in Serving \cup Leaving
    BY <1>1, <1>4 DEF UnlinksPath, Stands, Serving, Leaving
  <2>2. broker[b].at \in (Serving \cup Leaving) \ {"close"}
    BY <2>1 DEF Serving, Leaving
  <2> QED
    BY <1>2, <1>4, <2>1, <2>2, LaterInv DEF UnlinksPath
<1>5. CASE UnlinksPid(b)
  <2>1. /\ StepTo(b, "reread") /\ broker'[b].alone = broker[b].alone
        /\ broker[b].at = "unpid" /\ "reread" \in Serving \cup Leaving
    BY <1>1, <1>5 DEF UnlinksPid, Stands, Serving, Leaving
  <2>2. broker[b].at \in (Serving \cup Leaving) \ {"close"}
    BY <2>1 DEF Serving, Leaving
  <2> QED
    BY <1>2, <1>5, <2>1, <2>2, LaterInv DEF UnlinksPid
<1>6. CASE ReleasesOwner(b)
  <2>1. /\ StepTo(b, "close") /\ broker'[b].alone = broker[b].alone
        /\ broker[b].at = "unown" /\ "close" \in Serving \cup Leaving
    BY <1>1, <1>6 DEF ReleasesOwner, Stands, Serving, Leaving
  <2>2. broker[b].at \in (Serving \cup Leaving) \ {"close"}
    BY <2>1 DEF Serving, Leaving
  <2> QED
    BY <1>2, <1>6, <2>1, <2>2, LaterInv DEF ReleasesOwner
<1>7. CASE ShutsDown(b)
  <2>1. PICK at \in {"unpath", "close"} : StepTo(b, at) /\ broker'[b].alone = broker[b].alone
    BY <1>1, <1>7 DEF ShutsDown, Leaving
  <2>2. broker[b].at = "up" /\ at \in Serving \cup Leaving
    BY <1>7, <2>1 DEF ShutsDown, Stands, Serving, Leaving
  <2>3. broker[b].at \in (Serving \cup Leaving) \ {"close"}
    BY <2>2 DEF Serving, Leaving
  <2> QED
    BY <1>2, <1>7, <2>1, <2>2, <2>3, LaterInv DEF ShutsDown
<1>8. CASE RereadsOwner(b)
  <2>1. PICK at \in {"unown", "close"} : StepTo(b, at) /\ broker'[b].alone = broker[b].alone
    BY <1>1, <1>8 DEF RereadsOwner, Leaving
  <2>2. broker[b].at = "reread" /\ at \in Serving \cup Leaving
    BY <1>8, <2>1 DEF RereadsOwner, Stands, Serving, Leaving
  <2>3. broker[b].at \in (Serving \cup Leaving) \ {"close"}
    BY <2>2 DEF Serving, Leaving
  <2> QED
    BY <1>2, <1>8, <2>1, <2>2, <2>3, LaterInv DEF RereadsOwner
<1> QED
  BY <1>3, <1>4, <1>5, <1>6, <1>7, <1>8

\* The end of a broker.
LEMMA EndInv ==
  ASSUME OwnershipInv, NEW b \in Brokers, Exits(b), path' = path \/ path' = None,
         UNCHANGED <<lock, owner, pidFile, starter>>, faults' \in 0..MaxFaults
  PROVE  OwnershipInv'
<1> USE DEF OwnershipInv
<1>1. StepTo(b, "dead")
  BY ExitsShape DEF StepTo
<1>2. ~HasFile(b)'
  BY <1>1 DEF StepTo, HasFile, Owning, Serving
<1>3. FilesTyped'
  BY <1>1, FilesKept DEF FilesTyped, Starting, Taking
<1>4. StartsApart' /\ AttemptsSuffice'
  BY <1>1, StartsApartKept, AttemptsKept DEF Starting, Taking
<1>5. FileNamesOwner' /\ FileIsRespected'
  BY <1>1, <1>2, NamedKept, RespectKept
<1>6. StartersTyped'
  BY DEF StartersTyped
<1> QED
  BY <1>1, <1>3, <1>4, <1>5, <1>6 DEF StepTo

LEMMA FaultCounts ==
  ASSUME faults \in 0..MaxFaults, UNCHANGED faults \/ Fault
  PROVE  faults' \in 0..MaxFaults
BY OwnershipAssumption DEF Fault

LEMMA EndsInv ==
  ASSUME OwnershipInv, NEW b \in Brokers, Closes(b) \/ BrokerDies(b)
  PROVE  OwnershipInv'
<1>1. faults' \in 0..MaxFaults
  BY FaultCounts DEF OwnershipInv, FilesTyped, Closes, BrokerDies
<1> QED
  BY <1>1, EndInv DEF Closes, BrokerDies, files

-----------------------------------------------------------------------------
(* The steps of a starter.                                                 *)

\* A step of a starter that leaves the brokers and the owner's files alone.
LEMMA AsideInv ==
  ASSUME OwnershipInv, StartersTyped', lock' \in LockFile \cup {None},
         faults' \in 0..MaxFaults, UNCHANGED <<owner, path, pidFile, broker>>
  PROVE  OwnershipInv'
<1>1. FilesTyped' /\ BrokersTyped'
  BY DEF OwnershipInv, FilesTyped, BrokersTyped
<1>2. StartsApart' /\ FileIsRespected'
  BY DEF OwnershipInv, StartsApart, FileIsRespected, Alive, HasFile, Owning
<1>3. FileNamesOwner' /\ AttemptsSuffice'
  BY DEF OwnershipInv, FileNamesOwner, AttemptsSuffice, HasFile, Owning
<1> QED
  BY <1>1, <1>2, <1>3 DEF OwnershipInv

\* What a starter's record may become.
LEMMA StarterShape ==
  ASSUME StartersTyped, NEW s \in Starters, NEW r \in StarterState,
         r.at \in Locking => r.tries < LockTries,
         r.at \in {"stopping", "await"} => r.broker # None,
         starter' = [starter EXCEPT ![s] = r]
  PROVE  StartersTyped'
BY DEF StartersTyped

LEMMA GoesShape ==
  ASSUME StartersTyped, NEW s \in Starters, NEW at \in StarterAt, Goes(s, at),
         at \in Locking => starter[s].at \in Locking,
         at \notin {"stopping", "await"}
  PROVE  StartersTyped'
<1> DEFINE r == [at |-> at, tries |-> starter[s].tries,
                 broker |-> starter[s].broker, ok |-> starter[s].ok]
<1>1. r \in StarterState /\ starter[s] \in StarterState
  BY DEF StartersTyped, StarterState
<1>2. /\ starter' \in [Starters -> StarterState]
      /\ starter'[s] = r /\ \A t \in Starters \ {s} : starter'[t] = starter[t]
  BY <1>1 DEF Goes, StartersTyped, StarterState
<1> QED
  BY <1>2 DEF StartersTyped

LEMMA ReturnsShape ==
  ASSUME StartersTyped, NEW s \in Starters, NEW at \in StarterAt, Returns(s, at),
         at \notin {"stopping", "await"}
  PROVE  StartersTyped'
<1> DEFINE r == [at |-> at, tries |-> 0, broker |-> None, ok |-> FALSE]
<1>1. r \in StarterState /\ 0 < LockTries
  BY OwnershipAssumption DEF StarterState
<1> QED
  BY <1>1, StarterShape DEF Returns

\* The lock's own states are of the shape of one.
LEMMA LockShape ==
  ASSUME lock \in LockFile \cup {None}
  PROVE  /\ \A s \in Starters : [by |-> s, written |-> FALSE, old |-> FALSE] \in LockFile
         /\ lock # None => /\ [lock EXCEPT !.written = TRUE] \in LockFile
                           /\ [lock EXCEPT !.old = TRUE] \in LockFile
BY DEF LockFile

LEMMA LockingInv ==
  ASSUME OwnershipInv, NEW s \in Starters,
         \/ Calls(s) \/ Probes(s) \/ OpensLock(s) \/ StampsLock(s) \/ JudgesLock(s)
         \/ BreaksLock(s) \/ Follows(s) \/ ReleasesLock(s) \/ StarterDies(s)
  PROVE  OwnershipInv'
<1>1. StartersTyped /\ FilesTyped
  BY DEF OwnershipInv
<1>2. /\ lock \in LockFile \cup {None} /\ faults \in 0..MaxFaults
      /\ UNCHANGED files => UNCHANGED lock /\ UNCHANGED owner /\ UNCHANGED path /\ UNCHANGED pidFile
  BY <1>1 DEF FilesTyped, files
<1>3. faults' \in 0..MaxFaults
  BY <1>2, FaultCounts
  DEF Calls, Probes, OpensLock, StampsLock, JudgesLock, BreaksLock, Follows, ReleasesLock,
      StarterDies, Sees, Misses
<1>4. UNCHANGED <<owner, path, pidFile, broker>>
  BY <1>2
  DEF Calls, Probes, OpensLock, StampsLock, JudgesLock, BreaksLock, Follows, ReleasesLock, StarterDies
<1>5. lock' \in LockFile \cup {None}
  BY <1>2, LockShape
  DEF Calls, Probes, OpensLock, StampsLock, JudgesLock, BreaksLock, Follows, ReleasesLock, StarterDies
<1>6. {"done", "failed", "probe", "dead", "lock", "stamp", "judge", "recheck", "break", "follow"}
        \subseteq StarterAt \ {"stopping", "await"}
  BY DEF StarterAt, Locking, Holding, Ended
<1>7. ASSUME NEW at \in {"done", "failed", "probe", "dead"}, Returns(s, at)
      PROVE  StartersTyped'
  BY <1>1, <1>6, <1>7, ReturnsShape
<1>8. ASSUME NEW at \in {"lock", "stamp", "judge", "recheck", "break", "follow"}, Goes(s, at),
             starter[s].at \in Locking
      PROVE  StartersTyped'
  BY <1>1, <1>6, <1>8, GoesShape
<1>9. StartersTyped'
  <2>1. CASE Calls(s) \/ Follows(s) \/ ReleasesLock(s) \/ StarterDies(s)
    BY <1>7, <2>1 DEF Calls, Follows, ReleasesLock, StarterDies
  <2>2. CASE Probes(s) \/ OpensLock(s) \/ StampsLock(s) \/ JudgesLock(s)
    BY <1>7, <1>8, <2>2 DEF Probes, OpensLock, StampsLock, JudgesLock, Is, Locking
  <2>3. CASE BreaksLock(s)
    <3>1. starter[s].tries \in 0..LockTries /\ starter[s].tries < LockTries /\ LockTries \in Nat
      BY <1>1, <2>3, OwnershipAssumption DEF StartersTyped, StarterState, BreaksLock, Is, Locking
    <3> DEFINE at == IF starter[s].tries + 1 < LockTries THEN "lock" ELSE "follow"
               r == [at |-> at, tries |-> starter[s].tries + 1,
                     broker |-> starter[s].broker, ok |-> starter[s].ok]
    <3>2. r \in StarterState /\ (at = "lock" => r.tries < LockTries) /\ at \in {"lock", "follow"}
      BY <1>1, <1>6, <3>1 DEF StartersTyped, StarterState
    <3>3. /\ starter'[s] = r /\ \A t \in Starters \ {s} : starter'[t] = starter[t]
          /\ starter' \in [Starters -> StarterState]
      BY <1>1, <2>3, <3>2 DEF BreaksLock, StartersTyped, StarterState
    <3> QED
      BY <1>1, <3>2, <3>3 DEF StartersTyped, Locking
  <2> QED
    BY <2>1, <2>2, <2>3
<1> QED
  BY <1>3, <1>4, <1>5, <1>9, AsideInv

\* The starts of brokers.
LEMMA BeginsInv ==
  ASSUME OwnershipInv, NEW b \in Brokers, Stands(b, "unborn"), Begins(b), StartersTyped',
         UNCHANGED files, UNCHANGED faults
  PROVE  OwnershipInv'
<1> USE DEF OwnershipInv
<1>1. /\ BrokersTyped'
      /\ \A c \in Brokers \ {b} :
           /\ broker'[c].at = broker[c].at /\ broker'[c].tries = broker[c].tries
           /\ broker'[c].alone <=> broker[c].alone /\ broker[c].at \notin Starting
      /\ broker'[b].at = "open" /\ broker'[b].tries = 0
      /\ broker'[b].alone <=>
           \A c \in Brokers : /\ broker[c].at \notin Starting
                              /\ Alive(c) => broker[c].alone
  BY BeginsShape
<1>2. broker[b].at = "unborn"
  BY DEF Stands
<1>3. UNCHANGED lock /\ UNCHANGED owner /\ UNCHANGED path /\ UNCHANGED pidFile
  BY DEF files
<1>4. \A c \in Brokers \ {b} : HasFile(c)' <=> HasFile(c)
  BY <1>1 DEF HasFile, Owning
<1>5. ~HasFile(b)'
  BY <1>1 DEF HasFile, Owning, Serving
<1>6. FilesTyped'
  <2>1. path # None => path # b
    BY <1>2 DEF FilesTyped
  <2> QED
    BY <1>1, <1>3, <2>1 DEF FilesTyped
<1>7. \A c \in Brokers : broker'[c].alone /\ broker'[c].at \in Starting => c = b
  BY <1>1
<1>8. StartsApart'
  <2> SUFFICES ASSUME NEW d \in Brokers, broker'[b].alone
               PROVE  /\ broker'[d].at \in Starting => b = d
                      /\ broker'[d].at \notin {"unborn", "dead"} => broker'[d].alone
    BY <1>7 DEF StartsApart, Alive
  <2> QED
    BY <1>1 DEF Alive
<1>9. FileNamesOwner'
  BY <1>1, <1>2, <1>3, <1>4, <1>5 DEF FileNamesOwner
<1>10. FileIsRespected'
  BY <1>1, <1>4, <1>5 DEF FileIsRespected
<1>11. AttemptsSuffice'
  BY <1>1, <1>7 DEF AttemptsSuffice, Starting, Taking
<1> QED
  BY <1>1, <1>6, <1>8, <1>9, <1>10, <1>11

LEMMA SpawnsInv ==
  ASSUME OwnershipInv, NEW s \in Starters, Spawns(s)
  PROVE  OwnershipInv'
<1>1. StartersTyped /\ FilesTyped
  BY DEF OwnershipInv
<1>2. CASE \E b \in Brokers \ Incompatible :
             /\ Stands(b, "unborn") /\ Begins(b)
             /\ starter' = [starter EXCEPT ![s].at = "await", ![s].broker = b]
  <2>1. PICK b \in Brokers :
          /\ Stands(b, "unborn") /\ Begins(b)
          /\ starter' = [starter EXCEPT ![s].at = "await", ![s].broker = b]
    BY <1>2
  <2> DEFINE r == [at |-> "await", tries |-> starter[s].tries, broker |-> b, ok |-> starter[s].ok]
  <2>2. r \in StarterState /\ b # None
    BY <1>1, OwnershipAssumption DEF StartersTyped, StarterState, StarterAt, Holding
  <2>3. /\ starter'[s] = r /\ \A t \in Starters \ {s} : starter'[t] = starter[t]
        /\ starter' \in [Starters -> StarterState]
    BY <1>1, <2>1, <2>2 DEF StartersTyped, StarterState
  <2>4. StartersTyped'
    BY <1>1, <2>2, <2>3 DEF StartersTyped, Locking
  <2>5. UNCHANGED files /\ UNCHANGED faults
    BY DEF Spawns
  <2> QED
    BY <2>1, <2>4, <2>5, BeginsInv
<1>3. CASE Goes(s, "release") /\ UNCHANGED broker
  <2>1. "release" \in StarterAt
    BY DEF StarterAt, Holding
  <2>2. StartersTyped'
    BY <1>1, <1>3, <2>1, GoesShape DEF Locking
  <2>3. /\ UNCHANGED <<owner, path, pidFile, broker>>
        /\ lock' \in LockFile \cup {None} /\ faults' \in 0..MaxFaults
    BY <1>1, <1>3 DEF Spawns, files, FilesTyped
  <2> QED
    BY <2>2, <2>3, AsideInv
<1> QED
  BY <1>2, <1>3 DEF Spawns

LEMMA StopsInv ==
  ASSUME OwnershipInv, NEW s \in Starters, Stops(s)
  PROVE  OwnershipInv'
<1>1. StartersTyped /\ FilesTyped /\ BrokersTyped
  BY DEF OwnershipInv
<1>2. UNCHANGED <<lock, owner, path, pidFile, faults>> /\ starter[s].at = "stop"
  BY DEF Stops, files, Is
<1>3. lock' \in LockFile \cup {None} /\ faults' \in 0..MaxFaults
  BY <1>1, <1>2 DEF FilesTyped
<1>4. CASE pidFile = None \/ (pidFile # None /\ ~Alive(pidFile))
  <2>1. Goes(s, "spawn") /\ UNCHANGED broker
    BY <1>4 DEF Stops
  <2>2. "spawn" \in StarterAt
    BY DEF StarterAt, Holding
  <2>3. StartersTyped'
    BY <1>1, <2>1, <2>2, GoesShape DEF Locking
  <2> QED
    BY <1>2, <1>3, <2>1, <2>3, AsideInv
<1>5. CASE ~(pidFile = None \/ (pidFile # None /\ ~Alive(pidFile)))
  <2> DEFINE b == pidFile
             at == IF broker[b].at # "up" THEN broker[b].at
                   ELSE IF owner # None /\ owner.by = b THEN "unpath" ELSE "close"
             r == [at |-> "stopping", tries |-> starter[s].tries,
                   broker |-> b, ok |-> starter[s].ok]
  <2>1. /\ starter' = [starter EXCEPT ![s].at = "stopping", ![s].broker = b]
        /\ broker' = [broker EXCEPT ![b].at = at]
        /\ b \in Brokers /\ b # None
    BY <1>1, <1>5 DEF Stops, FilesTyped
  <2>2. r \in StarterState
    BY <1>1, <2>1 DEF StartersTyped, StarterState, StarterAt, Holding
  <2>3. /\ starter'[s] = r /\ \A t \in Starters \ {s} : starter'[t] = starter[t]
        /\ starter' \in [Starters -> StarterState]
    BY <1>1, <2>1, <2>2 DEF StartersTyped, StarterState
  <2>4. StartersTyped'
    BY <1>1, <2>1, <2>2, <2>3 DEF StartersTyped, Locking
  <2>5. CASE broker[b].at # "up"
    <3>1. broker' = broker
      <4>1. broker' = [broker EXCEPT ![b].at = broker[b].at]
        BY <2>1, <2>5
      <4> QED
        BY <1>1, <2>1, <4>1 DEF BrokersTyped, BrokerState
    <3> QED
      BY <1>2, <1>3, <2>4, <3>1, AsideInv
  <2>6. CASE broker[b].at = "up"
    <3>1. PICK to \in {"unpath", "close"} : Moves(b, to)
      BY <2>1, <2>6 DEF Moves
    <3>2. StepTo(b, to) /\ broker'[b].alone = broker[b].alone
      BY <1>1, <2>1, <3>1, MovesShape DEF BrokerAt, Leaving, StepTo
    <3>3. /\ to \in Serving \cup Leaving
          /\ broker[b].at \in (Serving \cup Leaving) \ {"close"}
      BY <2>6 DEF Serving, Leaving
    <3>4. FilesTyped'
      BY <1>1, <1>2, <1>3, <2>1, <3>2, <3>3, FilesKept
      DEF FilesTyped, Starting, Taking, Serving, Leaving
    <3>5. StartsApart'
      BY <2>1, <2>6, <3>2, StartsApartKept DEF OwnershipInv, Starting, Taking, Alive
    <3>6. HasFile(b) /\ to # "write" /\ to \notin {"unborn", "open", "read", "unlink"}
      BY <2>6 DEF HasFile, Owning, Serving
    <3>7. FileNamesOwner' /\ FileIsRespected'
      BY <1>2, <2>1, <3>2, <3>6, NamedKept, RespectKept DEF OwnershipInv
    <3>8. AttemptsSuffice'
      BY <1>2, <2>1, <3>2, AttemptsKept DEF OwnershipInv, Starting, Taking
    <3> QED
      BY <2>4, <3>2, <3>4, <3>5, <3>7, <3>8 DEF OwnershipInv, StepTo
  <2> QED
    BY <2>5, <2>6
<1> QED
  BY <1>4, <1>5

LEMMA HoldingInv ==
  ASSUME OwnershipInv, NEW s \in Starters, Rechecks(s) \/ HasStopped(s) \/ Awaits(s)
  PROVE  OwnershipInv'
<1>1. StartersTyped /\ FilesTyped
  BY DEF OwnershipInv
<1>2. faults' \in 0..MaxFaults
  BY <1>1, FaultCounts DEF FilesTyped, Rechecks, HasStopped, Awaits, Sees, Misses
<1>3. UNCHANGED <<owner, path, pidFile, broker>> /\ lock' \in LockFile \cup {None}
  BY <1>1 DEF Rechecks, HasStopped, Awaits, files, FilesTyped
<1>4. /\ \/ \E at \in {"stop", "spawn", "release"} : Goes(s, at)
         \/ starter' = [starter EXCEPT ![s].at = "release", ![s].ok = TRUE]
  BY DEF Rechecks, HasStopped, Awaits
<1>5. {"stop", "spawn", "release"} \subseteq StarterAt \ (Locking \cup {"stopping", "await"})
  BY DEF StarterAt, Holding, Locking
<1>6. CASE \E at \in {"stop", "spawn", "release"} : Goes(s, at)
  <2>1. StartersTyped'
    BY <1>1, <1>5, <1>6, GoesShape
  <2> QED
    BY <1>2, <1>3, <2>1, AsideInv
<1>7. CASE starter' = [starter EXCEPT ![s].at = "release", ![s].ok = TRUE]
  <2> DEFINE r == [at |-> "release", tries |-> starter[s].tries,
                   broker |-> starter[s].broker, ok |-> TRUE]
  <2>1. r \in StarterState
    BY <1>1, <1>5 DEF StartersTyped, StarterState
  <2>2. /\ starter'[s] = r /\ \A t \in Starters \ {s} : starter'[t] = starter[t]
        /\ starter' \in [Starters -> StarterState]
    BY <1>1, <1>7, <2>1 DEF StartersTyped, StarterState
  <2>3. StartersTyped'
    BY <1>1, <2>2 DEF StartersTyped, Locking
  <2> QED
    BY <1>2, <1>3, <2>3, AsideInv
<1> QED
  BY <1>4, <1>6, <1>7

LEMMA LockAgesInv ==
  ASSUME OwnershipInv, LockAges
  PROVE  OwnershipInv'
<1>1. lock' \in LockFile \cup {None}
  BY LockShape DEF OwnershipInv, FilesTyped, LockAges
<1>2. faults' \in 0..MaxFaults
  BY FaultCounts DEF OwnershipInv, FilesTyped, LockAges
<1>3. StartersTyped' /\ UNCHANGED <<owner, path, pidFile, broker>>
  BY DEF OwnershipInv, StartersTyped, LockAges
<1> QED
  BY <1>1, <1>2, <1>3, AsideInv

-----------------------------------------------------------------------------
(* The theorems.                                                           *)

LEMMA InvStep == OwnershipInv /\ [OwnershipNext]_vars => OwnershipInv'
<1> SUFFICES ASSUME OwnershipInv, [OwnershipNext]_vars PROVE OwnershipInv'
  OBVIOUS
<1>1. ASSUME NEW s \in Starters, Calls(s) \/ StarterSteps(s) \/ StarterDies(s)
      PROVE  OwnershipInv'
  BY <1>1, LockingInv, HoldingInv, SpawnsInv, StopsInv DEF StarterSteps
<1>2. ASSUME NEW b \in Brokers,
             BrokerStarts(b) \/ ShutsDown(b) \/ BrokerLeaves(b) \/ BrokerDies(b)
      PROVE  OwnershipInv'
  BY <1>2, OpensOwnerInv, WritesOwnerInv, ReadsOwnerInv, UnlinksOwnerInv, ClearsPathInv,
     BindsInv, ServesAndLeavesInv, EndsInv
  DEF BrokerStarts, BrokerLeaves
<1>3. CASE LockAges
  BY <1>3, LockAgesInv
<1>4. CASE UNCHANGED vars
  <2>1. /\ UNCHANGED <<owner, path, pidFile, broker>> /\ StartersTyped'
        /\ lock' \in LockFile \cup {None} /\ faults' \in 0..MaxFaults
    BY <1>4 DEF vars, files, OwnershipInv, StartersTyped, FilesTyped
  <2> QED
    BY <2>1, AsideInv
<1> QED
  BY <1>1, <1>2, <1>3, <1>4 DEF OwnershipNext

LEMMA InvHolds == OwnershipSpec => []OwnershipInv
BY InitInv, InvStep, PTL DEF OwnershipSpec

\* Every file says what a file may, every process is where one may be, and what
\* the socket path names has been bound to it.
THEOREM OwnershipTypeCorrect == OwnershipSpec => []OwnershipTypeOK
<1>1. OwnershipInv => OwnershipTypeOK
  BY DEF OwnershipInv, StartersTyped, FilesTyped, BrokersTyped, OwnershipTypeOK,
         StarterState, StarterAt, BrokerState, BrokerAt
<1> QED
  BY <1>1, InvHolds, PTL

\* Beside a broker that started alone no other owns the machine.
THEOREM AloneOwns == OwnershipSpec => []AloneIsExclusive
<1>1. OwnershipInv => AloneIsExclusive
  BY DEF OwnershipInv, FileIsRespected, HasFile, AloneIsExclusive
<1> QED
  BY <1>1, InvHolds, PTL

\* A broker's end is a step of its own.
LEMMA EndIsOwn ==
  ASSUME OwnershipInv, OwnershipNext, NEW b \in Brokers,
         broker[b].at # "dead", broker'[b].at = "dead"
  PROVE  \/ ReadsOwner(b) /\ OwnedByLive(b)
         \/ UnlinksOwner(b) /\ broker[b].tries # 0
         \/ Binds(b) /\ path # None
         \/ Closes(b) \/ BrokerDies(b)
<1>1. BrokersTyped /\ (pidFile \in Brokers \cup {None})
  BY DEF OwnershipInv, FilesTyped
<1>2. ASSUME NEW s \in Starters, Calls(s) \/ StarterSteps(s) \/ StarterDies(s)
      PROVE  FALSE
  <2>1. broker' # broker
    OBVIOUS
  <2>2. CASE \E c \in Brokers : Stands(c, "unborn") /\ Begins(c)
    <3>1. PICK c \in Brokers : Stands(c, "unborn") /\ Begins(c)
      BY <2>2
    <3> QED
      BY <1>1, <3>1, BeginsShape
  <2>3. CASE Stops(s)
    <3>1. /\ pidFile \in Brokers
          /\ broker' = [broker EXCEPT ![pidFile].at =
               IF @ # "up" THEN @
               ELSE IF owner # None /\ owner.by = pidFile THEN "unpath" ELSE "close"]
      BY <1>1, <2>1, <2>3 DEF Stops
    <3>2. broker'[b].at \in {broker[b].at, "unpath", "close"}
      BY <1>1, <3>1 DEF BrokersTyped, BrokerState
    <3> QED
      BY <3>2
  <2> QED
    BY <1>2, <2>1, <2>2, <2>3
    DEF StarterSteps, Calls, Probes, OpensLock, StampsLock, JudgesLock, BreaksLock, Rechecks,
        HasStopped, Spawns, Awaits, ReleasesLock, Follows, StarterDies
<1>3. PICK c \in Brokers : BrokerStarts(c) \/ ShutsDown(c) \/ BrokerLeaves(c) \/ BrokerDies(c)
  <2>1. ~LockAges
    BY DEF LockAges
  <2> QED
    BY <1>2, <2>1 DEF OwnershipNext
<1>4. ASSUME NEW at \in BrokerAt \ {"dead"}, Moves(c, at) PROVE FALSE
  <2>1. \A d \in Brokers \ {c} : broker'[d] = broker[d]
    BY <1>1, <1>4, MovesShape
  <2>2. broker'[c].at = at
    BY <1>1, <1>4, MovesShape
  <2> QED
    BY <2>1, <2>2
<1>5. {"write", "read", "unlink", "clear", "bind", "announce", "up", "unpath", "unpid", "reread",
       "unown", "close"} \subseteq BrokerAt \ {"dead"}
  BY DEF BrokerAt, Starting, Taking, Serving, Leaving
<1>6. ~ShutsDown(c) /\ ~OpensOwner(c) /\ ~WritesOwner(c) /\ ~ClearsPath(c) /\ ~Announces(c)
  BY <1>4, <1>5 DEF ShutsDown, OpensOwner, WritesOwner, ClearsPath, Announces
<1>7. ~UnlinksPath(c) /\ ~UnlinksPid(c) /\ ~RereadsOwner(c) /\ ~ReleasesOwner(c)
  BY <1>4, <1>5 DEF UnlinksPath, UnlinksPid, RereadsOwner, ReleasesOwner
<1>8. \/ ReadsOwner(c) /\ OwnedByLive(c)
      \/ UnlinksOwner(c) /\ broker[c].tries # 0
      \/ Binds(c) /\ path # None
      \/ Closes(c) \/ BrokerDies(c)
  <2>1. ReadsOwner(c) => OwnedByLive(c)
    BY <1>4, <1>5 DEF ReadsOwner
  <2>2. Binds(c) => path # None
    BY <1>4, <1>5 DEF Binds
  <2>3. UnlinksOwner(c) => broker[c].tries # 0
    <3> SUFFICES ASSUME UnlinksOwner(c), broker[c].tries = 0 PROVE FALSE
      OBVIOUS
    <3>1. broker' = [broker EXCEPT ![c].tries = 1, ![c].at = "open"]
      BY DEF UnlinksOwner
    <3>2. \A d \in Brokers : broker'[d].at \in {broker[d].at, "open"}
      BY <1>1, <3>1 DEF BrokersTyped, BrokerState
    <3> QED
      BY <3>2
  <2> QED
    BY <1>3, <1>6, <1>7, <2>1, <2>2, <2>3 DEF BrokerStarts, BrokerLeaves
<1>9. Exits(c)
  BY <1>8 DEF ReadsOwner, UnlinksOwner, Binds, Closes, BrokerDies
<1>10. c = b
  BY <1>1, <1>9, ExitsShape
<1> QED
  BY <1>8, <1>10

\* A broker that starts alone gives up only because a live one owns the machine.
THEOREM AloneGetsThrough == OwnershipSpec => AloneStarts
<1>1. ASSUME OwnershipInv, [OwnershipNext]_vars
      PROVE  [\A b \in Brokers :
                broker[b].alone /\ broker[b].at \in Starting /\ broker'[b].at = "dead"
                  /\ faults' = faults
                => OwnedByLive(b) /\ owner.by # b]_vars
  <2> SUFFICES ASSUME OwnershipNext, NEW b \in Brokers, broker[b].alone,
                      broker[b].at \in Starting, broker'[b].at = "dead", faults' = faults
               PROVE  OwnedByLive(b) /\ owner.by # b
    BY <1>1
  <2>1. broker[b].at # "dead"
    BY DEF Starting, Taking
  <2>2. ~BrokerDies(b)
    <3>1. faults \in Nat
      BY <1>1, OwnershipAssumption DEF OwnershipInv, FilesTyped
    <3> QED
      BY <3>1 DEF BrokerDies, Fault
  <2>3. ~Closes(b)
    BY DEF Closes, Stands, Starting, Taking
  <2>4. ~(UnlinksOwner(b) /\ broker[b].tries # 0)
    BY <1>1 DEF UnlinksOwner, Stands, OwnershipInv, AttemptsSuffice
  <2>5. ~(Binds(b) /\ path # None)
    BY <1>1 DEF Binds, Stands, OwnershipInv, AttemptsSuffice
  <2>6. ReadsOwner(b) /\ OwnedByLive(b)
    BY <1>1, <2>1, <2>2, <2>3, <2>4, <2>5, EndIsOwn
  <2> QED
    BY <1>1, <2>6 DEF ReadsOwner, Stands, OwnedByLive, OwnershipInv, FileNamesOwner
<1> QED
  BY <1>1, InvHolds, PTL DEF OwnershipSpec, AloneStarts

\* Who may remove the socket path of another.
LEMMA PathIsTaken ==
  ASSUME OwnershipNext, path # None, path' # path
  PROVE  \E c \in Brokers : ClearsPath(c) \/ UnlinksPath(c) \/ Closes(c)
<1>1. ASSUME NEW s \in Starters, Calls(s) \/ StarterSteps(s) \/ StarterDies(s)
      PROVE  FALSE
  BY <1>1
  DEF StarterSteps, Calls, Probes, OpensLock, StampsLock, JudgesLock, BreaksLock, Rechecks, Stops,
      HasStopped, Spawns, Awaits, ReleasesLock, Follows, StarterDies, files
<1>2. ~LockAges
  BY DEF LockAges
<1>3. PICK c \in Brokers : BrokerStarts(c) \/ ShutsDown(c) \/ BrokerLeaves(c) \/ BrokerDies(c)
  BY <1>1, <1>2 DEF OwnershipNext
<1> QED
  BY <1>3
  DEF BrokerStarts, BrokerLeaves, OpensOwner, WritesOwner, ReadsOwner, UnlinksOwner, Binds,
      Announces, ShutsDown, UnlinksPid, RereadsOwner, ReleasesOwner, BrokerDies, files

\* Of an owner that started alone, nobody who is refused removes the socket path.
THEOREM OwnerIsReachable == OwnershipSpec => OwnerKeepsPath
<1>1. ASSUME OwnershipInv, [OwnershipNext]_vars
      PROVE  [\A b \in Brokers :
                path = b /\ broker[b].at \in Serving /\ broker[b].alone
                => \/ path' = b \/ broker'[b].at \notin Serving
                   \/ \E c \in Brokers \ {b} : Stands(c, "close") /\ broker'[c].at = "dead"]_vars
  <2> SUFFICES ASSUME OwnershipNext, NEW b \in Brokers, path = b, broker[b].at \in Serving,
                      broker[b].alone, path' # path
               PROVE  \E c \in Brokers \ {b} : Stands(c, "close") /\ broker'[c].at = "dead"
    BY <1>1
  <2>1. path # None
    BY OwnershipAssumption
  <2>2. PICK c \in Brokers : ClearsPath(c) \/ UnlinksPath(c) \/ Closes(c)
    BY <2>1, PathIsTaken
  <2>3. HasFile(b)
    BY DEF HasFile, Owning
  <2>4. ASSUME HasFile(c) PROVE b = c
    BY <1>1, <2>3, <2>4 DEF OwnershipInv, FileIsRespected
  <2>5. ~ClearsPath(c) /\ ~UnlinksPath(c)
    BY <2>4 DEF ClearsPath, UnlinksPath, Stands, HasFile, Owning, Serving
  <2>6. Closes(c) /\ c # b
    BY <2>2, <2>5 DEF Closes, Stands, Serving
  <2>7. broker'[c].at = "dead"
    BY <1>1, <2>6 DEF Closes, Exits, OwnershipInv, BrokersTyped
  <2> QED
    BY <2>6, <2>7 DEF Closes
<1> QED
  BY <1>1, InvHolds, PTL DEF OwnershipSpec, OwnerKeepsPath
=============================================================================
