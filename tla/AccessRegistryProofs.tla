------------------------ MODULE AccessRegistryProofs ------------------------
(***************************************************************************)
(* The ownership forest of the access registry, proved for any number of   *)
(* principals, tokens, requests and limits, and any number of transitions. *)
(***************************************************************************)
EXTENDS AccessRegistry, FiniteSetTheorems, TLAPS

Parents == Ids \cup Locals \cup {None}

-----------------------------------------------------------------------------
(* Subtrees.                                                               *)

LEMMA SubtreeIsClosed ==
  ASSUME NEW p \in Known
  PROVE  /\ Subtree(p) \subseteq Known /\ p \in Subtree(p)
         /\ ClosedBelow(Subtree(p))
BY DEF Subtree, ClosedBelow, Known

\* Whoever is in a subtree, but for its top, has its parent there: without it,
\* the subtree would still be closed.
LEMMA ParentInSubtree ==
  ASSUME NEW p \in Known, NEW c \in Subtree(p), c # p
  PROVE  principals[c].parent \in Subtree(p)
<1> DEFINE S == Subtree(p) \ {c}
<1> SUFFICES ASSUME principals[c].parent \notin Subtree(p) PROVE FALSE
  OBVIOUS
<1>1. S \in SUBSET Known /\ p \in S
  BY SubtreeIsClosed
<1>2. ClosedBelow(S)
  BY SubtreeIsClosed DEF ClosedBelow
<1>3. c \in S
  BY <1>1, <1>2 DEF Subtree
<1> QED BY <1>3

\* Whatever has its parent in a subtree is in it.
LEMMA ChildInSubtree ==
  ASSUME NEW p \in Known, NEW c \in Known, principals[c].parent \in Subtree(p)
  PROVE  c \in Subtree(p)
BY SubtreeIsClosed DEF ClosedBelow

-----------------------------------------------------------------------------
(* Type correctness.                                                         *)

Record == [state : {"none", "active", "revoked"}, gen : Nat,
         parent : Parents, root : Locals \cup {None}, limits : Limits]
PrincipalsOK == principals \in [Ids -> Record]
EnrollmentsOK ==
  enrollments \in [Tokens -> [parent : Parents, root : Locals \cup {None},
                              limits : Limits, until : Nat]]
LinksOK ==
  /\ \A p \in Ids : /\ principals[p].state = "none" <=> principals[p].parent = None
                    /\ principals[p].state = "none" => p \notin adopted
                    /\ principals[p].parent \in Ids => principals[principals[p].parent].state # "none"
  /\ \A t \in Tokens : enrollments[t].parent \in Ids =>
                         principals[enrollments[t].parent].state # "none"

LEMMA TypeParts ==
  RegistryTypeOK <=> /\ PrincipalsOK /\ EnrollmentsOK /\ LinksOK
                     /\ now \in 0..MaxClock /\ adopted \subseteq Ids
BY DEF RegistryTypeOK, PrincipalsOK, EnrollmentsOK, LinksOK, Parents, Record

LEMMA TypePartsNext ==
  /\ PrincipalsOK' /\ EnrollmentsOK' /\ LinksOK'
  /\ now' \in 0..MaxClock /\ adopted' \subseteq Ids
  => RegistryTypeOK'
BY DEF RegistryTypeOK, PrincipalsOK, EnrollmentsOK, LinksOK, Parents, Record

LEMMA NoLimitsType == NoLimits \in Limits
BY RegistryAssumption DEF NoLimits, Limits

LEMMA IssueType ==
  ASSUME RegistryTypeOK, NEW parent \in Locals \cup Known, NEW root \in Locals \cup {None},
         NEW l, NEW until \in Nat, Issue(parent, root, l, until)
  PROVE  RegistryTypeOK'
<1>1. PrincipalsOK /\ EnrollmentsOK /\ LinksOK /\ now \in 0..MaxClock /\ adopted \subseteq Ids
  BY TypeParts
<1>2. UNCHANGED <<principals, now, adopted>>
  BY DEF Issue
<1>3. parent \in Parents /\ (parent \in Ids => principals[parent].state # "none")
  BY RegistryAssumption DEF Known, Parents
<1>4. l \in Limits
  BY DEF Issue
<1>5. EnrollmentsOK'
  BY <1>1, <1>3, <1>4, NoLimitsType DEF Issue, EnrollmentsOK, NoEnrollment, Parents
<1>6. \A t \in Tokens : enrollments'[t].parent \in {parent, None, enrollments[t].parent}
  BY DEF Issue, NoEnrollment
<1>7. LinksOK'
  BY <1>1, <1>2, <1>3, <1>6, RegistryAssumption DEF LinksOK
<1>8. PrincipalsOK'
  BY <1>1, <1>2 DEF PrincipalsOK
<1> QED BY <1>1, <1>2, <1>5, <1>7, <1>8, TypePartsNext

LEMMA ConsumeType ==
  ASSUME RegistryTypeOK, NEW t \in Tokens, Consume(t)
  PROVE  RegistryTypeOK'
<1>1. PrincipalsOK /\ EnrollmentsOK /\ LinksOK /\ now \in 0..MaxClock /\ adopted \subseteq Ids
  BY TypeParts
<1>2. EnrollmentsOK'
  BY <1>1, NoLimitsType DEF Consume, EnrollmentsOK, NoEnrollment, Parents
<1>3. NewId \in Ids /\ principals[NewId].state = "none"
  BY DEF Consume, NewId, Known
<1>4. PrincipalsOK'
  BY <1>1, <1>3 DEF Consume, PrincipalsOK, Record, EnrollmentsOK
<1>5. LinksOK'
  <2>1. \A p \in Ids : principals[p].state # "none" => principals'[p].state # "none"
    BY <1>1, <1>3 DEF Consume, PrincipalsOK, Record
  <2>2. \A x \in Tokens : enrollments'[x].parent \in {None, enrollments[x].parent}
    BY <1>1 DEF Consume, EnrollmentsOK, NoEnrollment
  <2>3. \A p \in Ids : \/ principals'[p] = principals[p]
                        \/ /\ principals'[p].parent = enrollments[t].parent
                           /\ principals'[p].state = "active"
    BY <1>1, <1>3 DEF Consume, PrincipalsOK, Record
  <2>4. adopted' = adopted /\ enrollments[t].parent # None
    BY DEF Consume
  <2> QED BY <1>1, <2>1, <2>2, <2>3, <2>4, RegistryAssumption DEF LinksOK
<1> QED BY <1>1, <1>2, <1>4, <1>5, TypePartsNext DEF Consume

\* What an adoption makes of a principal.
LEMMA AdoptedPrincipal ==
  ASSUME RegistryTypeOK, NEW p \in Ids, NEW q \in Ids \cup Locals, Adopt(p, q)
  PROVE  \A c \in Ids :
           /\ c \notin Subtree(p) => principals'[c] = principals[c]
           /\ c \in Subtree(p) => /\ principals'[c].state = principals[c].state
                                  /\ principals'[c].gen = principals[c].gen + 1
                                  /\ principals'[c].root = RootOf(q)
                                  /\ principals'[c].parent = IF c = p THEN q ELSE principals[c].parent
                                  /\ principals'[c].limits = principals[c].limits
<1>1. PrincipalsOK
  BY TypeParts
<1> QED BY <1>1 DEF Adopt, PrincipalsOK, Record

LEMMA AdoptType ==
  ASSUME RegistryTypeOK, NEW p \in Ids, NEW q \in Ids \cup Locals, Adopt(p, q)
  PROVE  RegistryTypeOK'
<1>1. PrincipalsOK /\ EnrollmentsOK /\ LinksOK /\ now \in 0..MaxClock /\ adopted \subseteq Ids
  BY TypeParts
<1>2. RootOf(q) \in Locals \cup {None} /\ q \in Parents
  BY <1>1 DEF RootOf, PrincipalsOK, Record, Parents
<1>3. PrincipalsOK'
  <2> DEFINE Moved(c) == [principals[c] EXCEPT !.gen = @ + 1, !.root = RootOf(q),
                                               !.parent = IF c = p THEN q ELSE @]
  <2>1. ASSUME NEW c \in Ids PROVE principals[c] \in Record /\ Moved(c) \in Record
    <3>1. principals[c] \in Record
      BY <1>1 DEF PrincipalsOK
    <3>2. principals[c].gen + 1 \in Nat
      BY <3>1 DEF Record
    <3>3. Moved(c) = [principals[c] EXCEPT !.gen = principals[c].gen + 1, !.root = RootOf(q),
                                           !.parent = IF c = p THEN q ELSE principals[c].parent]
      OBVIOUS
    <3>4. (IF c = p THEN q ELSE principals[c].parent) \in Parents
      BY <3>1, <1>2 DEF Record
    <3> QED BY <3>1, <3>2, <3>3, <3>4, <1>2 DEF Record
  <2>2. principals' = [c \in Ids |-> IF c \notin Subtree(p) THEN principals[c] ELSE Moved(c)]
    BY DEF Adopt
  <2> HIDE DEF Moved
  <2>3. principals' \in [Ids -> Record]
    BY <2>1, <2>2
  <2> QED BY <2>3 DEF PrincipalsOK
<1>4. EnrollmentsOK'
  BY <1>1, NoLimitsType DEF Adopt, Cancelled, EnrollmentsOK, NoEnrollment, Parents
<1>5. LinksOK'
  <2>1. \A c \in Ids : /\ principals'[c].state = principals[c].state
                       /\ principals'[c].parent \in {principals[c].parent, IF c = p THEN q ELSE principals[c].parent}
    BY AdoptedPrincipal
  <2>2. principals[p].state # "none" /\ q # None
        /\ (q \in Ids => principals[q].state # "none")
    BY RegistryAssumption DEF Adopt, CanAdopt, Known
  <2>3. \A x \in Tokens : enrollments'[x].parent \in {None, enrollments[x].parent}
    BY <1>1 DEF Adopt, Cancelled, EnrollmentsOK, NoEnrollment
  <2>4. adopted' = adopted \cup {p}
    BY DEF Adopt
  <2> QED BY <1>1, <2>1, <2>2, <2>3, <2>4, RegistryAssumption DEF LinksOK
<1>6. now' \in 0..MaxClock /\ adopted' \subseteq Ids
  BY <1>1 DEF Adopt
<1> QED BY <1>3, <1>4, <1>5, <1>6, TypePartsNext

\* What a revocation makes of a principal.
LEMMA RevokedPrincipal ==
  ASSUME RegistryTypeOK, NEW times \in [Ids -> Nat], principals' = Revoked(times)
  PROVE  /\ PrincipalsOK'
         /\ \A c \in Ids :
              /\ principals'[c].parent = principals[c].parent
              /\ principals'[c].root = principals[c].root
              /\ principals'[c].gen = principals[c].gen + times[c]
              /\ times[c] = 0 => principals'[c] = principals[c]
              /\ times[c] # 0 => principals'[c].state = "revoked"
<1> DEFINE Out(c) == [principals[c] EXCEPT !.state = "revoked", !.gen = @ + times[c]]
<1>1. ASSUME NEW c \in Ids PROVE principals[c] \in Record
  BY TypeParts DEF PrincipalsOK
<1>2. ASSUME NEW c \in Ids
      PROVE  /\ Out(c) \in Record /\ Out(c).state = "revoked"
             /\ Out(c).gen = principals[c].gen + times[c]
             /\ Out(c).parent = principals[c].parent /\ Out(c).root = principals[c].root
  <2>1. principals[c].gen + times[c] \in Nat
    BY <1>1 DEF Record
  <2>2. Out(c) = [principals[c] EXCEPT !.state = "revoked", !.gen = principals[c].gen + times[c]]
    OBVIOUS
  <2> QED BY <1>1, <2>1, <2>2 DEF Record
<1>3. principals' = [c \in Ids |-> IF times[c] = 0 THEN principals[c] ELSE Out(c)]
  BY DEF Revoked
<1>4. \A c \in Ids : principals[c].gen + 0 = principals[c].gen
  BY <1>1 DEF Record
<1> HIDE DEF Out
<1>5. principals' \in [Ids -> Record]
  BY <1>1, <1>2, <1>3
<1>6. PrincipalsOK'
  BY <1>5 DEF PrincipalsOK
<1> QED BY <1>2, <1>3, <1>4, <1>6

LEMMA RevokedType ==
  ASSUME RegistryTypeOK, NEW times \in [Ids -> Nat], principals' = Revoked(times),
         \A c \in Ids : times[c] # 0 => c \in Known,
         UNCHANGED <<enrollments, now, adopted>>
  PROVE  RegistryTypeOK'
<1>1. PrincipalsOK /\ EnrollmentsOK /\ LinksOK /\ now \in 0..MaxClock /\ adopted \subseteq Ids
  BY TypeParts
<1>2. \A c \in Ids : /\ principals'[c].parent = principals[c].parent
                     /\ (principals'[c].state = "none") <=> (principals[c].state = "none")
  BY RevokedPrincipal DEF Known
<1>3. LinksOK'
  BY <1>1, <1>2 DEF LinksOK
<1>4. EnrollmentsOK'
  BY <1>1 DEF EnrollmentsOK
<1> QED BY <1>1, <1>3, <1>4, RevokedPrincipal, TypePartsNext

\* How often a sweep revokes a principal: once with each of R that it is below.
Times(R) == [c \in Ids |-> Cardinality({r \in R : c \in Subtree(r)})]

LEMMA SweepTimes ==
  ASSUME RegistryTypeOK, NEW R \in SUBSET Expired
  PROVE  /\ Times(R) \in [Ids -> Nat]
         /\ \A c \in Ids : Times(R)[c] # 0 <=> \E r \in R : c \in Subtree(r)
         /\ \A c \in Ids : Times(R)[c] # 0 => c \in Known
<1>1. IsFiniteSet(R) /\ R \subseteq Known
  BY FS_Subset, RegistryAssumption DEF Expired, Known
<1>2. ASSUME NEW c \in Ids
      PROVE  /\ Cardinality({r \in R : c \in Subtree(r)}) \in Nat
             /\ Cardinality({r \in R : c \in Subtree(r)}) # 0
                  <=> \E r \in R : c \in Subtree(r)
  <2> DEFINE over == {r \in R : c \in Subtree(r)}
  <2>1. IsFiniteSet(over)
    BY <1>1, FS_Subset
  <2>2. Cardinality(over) \in Nat /\ (Cardinality(over) = 0 <=> over = {})
    BY <2>1, FS_CardinalityType, FS_EmptySet
  <2> QED BY <2>2
<1>3. \A c \in Ids : (\E r \in R : c \in Subtree(r)) => c \in Known
  BY <1>1, SubtreeIsClosed
<1> QED BY <1>2, <1>3 DEF Times

\* Every reachable registry is well-typed, every link of it leads somewhere, and
\* nobody who was never enrolled has been adopted.
THEOREM RegistryTypeCorrect == RegistrySpec => []RegistryTypeOK
<1>1. RegistryInit => RegistryTypeOK
  BY NoLimitsType, RegistryAssumption
     DEF RegistryInit, RegistryTypeOK, NoPrincipal, NoEnrollment
<1>2. RegistryTypeOK /\ [RegistryNext]_vars => RegistryTypeOK'
  <2> SUFFICES ASSUME RegistryTypeOK, [RegistryNext]_vars PROVE RegistryTypeOK'
    OBVIOUS
  <2>1. ASSUME NEW r \in Requests, NEW parent \in Locals, IssueRoot(parent, r)
        PROVE  RegistryTypeOK'
    <3>1. r.until \in Nat
      BY RegistryAssumption
    <3> QED BY <2>1, <3>1, IssueType DEF IssueRoot
  <2>2. ASSUME NEW r \in Requests, NEW q \in Ids, IssueChild(q, r)
        PROVE  RegistryTypeOK'
    <3>1. r.until \in Nat
      BY RegistryAssumption
    <3>2. q \in Known /\ principals[q].root \in Locals \cup {None}
      BY <2>2 DEF IssueChild, Valid, Known, RegistryTypeOK
    <3> QED BY <2>2, <3>1, <3>2, IssueType DEF IssueChild
  <2>3. ASSUME NEW t \in Tokens, Consume(t) PROVE RegistryTypeOK'
    BY <2>3, ConsumeType
  <2>4. ASSUME NEW p \in Ids, NEW q \in Ids \cup Locals, Adopt(p, q) PROVE RegistryTypeOK'
    BY <2>4, AdoptType
  <2>5. ASSUME NEW p \in Ids, Revoke(p) PROVE RegistryTypeOK'
    <3> DEFINE times == [c \in Ids |-> IF c \in Subtree(p) THEN 1 ELSE 0]
    <3>1. times \in [Ids -> Nat] /\ \A c \in Ids : times[c] # 0 => c \in Known
      BY <2>5, SubtreeIsClosed DEF Revoke
    <3> QED BY <2>5, <3>1, RevokedType DEF Revoke
  <2>6. CASE Sweep
    <3> PICK R \in SUBSET Expired :
          principals' = Revoked(Times(R)) /\ UNCHANGED <<enrollments, now, adopted>>
      BY <2>6 DEF Sweep, Times
    <3> QED BY SweepTimes, RevokedType
  <2>7. CASE Tick
    BY <2>7, RegistryAssumption DEF Tick, RegistryTypeOK
  <2>8. CASE UNCHANGED vars
    BY <2>8 DEF vars, RegistryTypeOK
  <2> QED BY <2>1, <2>2, <2>3, <2>4, <2>5, <2>6, <2>7, <2>8 DEF RegistryNext
<1> QED BY <1>1, <1>2, PTL DEF RegistrySpec

-----------------------------------------------------------------------------
(* Roots.                                                                  *)

\* Nothing changes who is below whom but an enrollment's use and an adoption: a
\* step that leaves links and roots alone keeps both invariants of the forest.
SameForest ==
  \A c \in Ids : /\ principals'[c].parent = principals[c].parent
                 /\ principals'[c].root = principals[c].root
                 /\ principals'[c].state = "none" <=> principals[c].state = "none"

LEMMA StillForest ==
  ASSUME RegistryTypeOK, SameForest
  PROVE  /\ Known' = Known
         /\ \A q \in Locals \cup Ids : RootOf(q)' = RootOf(q)
         /\ NoOwnershipCycle => NoOwnershipCycle'
BY DEF SameForest, Known, RootOf, NoOwnershipCycle

\* Links lead to roots or to principals that have been enrolled.
LEMMA LinksLead ==
  ASSUME RegistryTypeOK
  PROVE  /\ \A p \in Known : principals[p].parent \in Locals \cup Known
         /\ \A t \in Tokens : enrollments[t].parent # None =>
                               enrollments[t].parent \in Locals \cup Known
<1>1. PrincipalsOK /\ EnrollmentsOK /\ LinksOK
  BY TypeParts
<1>2. \A p \in Ids : principals[p].parent \in Parents
  BY <1>1 DEF PrincipalsOK, Record
<1>3. \A t \in Tokens : enrollments[t].parent \in Parents
  BY <1>1 DEF EnrollmentsOK
<1> QED BY <1>1, <1>2, <1>3 DEF LinksOK, Known, Parents

LEMMA IssueKeeps ==
  ASSUME RegistryTypeOK, NEW parent \in Locals \cup Known, NEW l, NEW until,
         Issue(parent, RootOf(parent), l, until), RootIsShared
  PROVE  RootIsShared' /\ SameForest
<1>1. SameForest
  BY DEF Issue, SameForest
<1>2. \A t \in Tokens : \/ enrollments'[t].parent = None
                        \/ enrollments'[t] = enrollments[t]
                        \/ /\ enrollments'[t].parent = parent
                           /\ enrollments'[t].root = RootOf(parent)
  BY DEF Issue, NoEnrollment
<1> QED BY <1>1, <1>2, StillForest, LinksLead, RegistryAssumption
        DEF RootIsShared, SameForest, Known

\* A new principal is nobody's parent yet, and comes where its token says.
LEMMA ConsumeKeeps ==
  ASSUME RegistryTypeOK, NEW t \in Tokens, Consume(t)
  PROVE  /\ RootIsShared => RootIsShared'
         /\ NoOwnershipCycle => NoOwnershipCycle'
<1>1. PrincipalsOK /\ EnrollmentsOK /\ LinksOK
  BY TypeParts
<1>2. NewId \in Ids /\ NewId \notin Known
  BY DEF Consume, NewId, Known
<1>3. \A x \in Tokens : enrollments'[x].parent = None \/ enrollments'[x] = enrollments[x]
  BY <1>1 DEF Consume, EnrollmentsOK, NoEnrollment
<1>4. CASE principals' = principals
  BY <1>3, <1>4 DEF RootIsShared, NoOwnershipCycle, Known, RootOf
<1>5. CASE principals' = [principals EXCEPT ![NewId] =
              [state |-> "active", gen |-> 1, parent |-> enrollments[t].parent,
               root |-> enrollments[t].root, limits |-> enrollments[t].limits]]
  <2>1. /\ Known' = Known \cup {NewId}
        /\ \A p \in Known : principals'[p] = principals[p]
        /\ principals'[NewId].parent = enrollments[t].parent
        /\ principals'[NewId].root = enrollments[t].root
    BY <1>1, <1>2, <1>5 DEF Known, PrincipalsOK
  <2>2. /\ enrollments[t].parent \in Locals \cup Known
        /\ \A p \in Known : principals[p].parent \in Locals \cup Known
        /\ \A x \in Tokens : enrollments[x].parent # None =>
                              enrollments[x].parent \in Locals \cup Known
    BY LinksLead DEF Consume
  <2>3. \A q \in Locals \cup Known : RootOf(q)' = RootOf(q)
    BY <2>1 DEF RootOf
  <2>4. RootIsShared => RootIsShared'
    <3> SUFFICES ASSUME RootIsShared PROVE RootIsShared'
      OBVIOUS
    <3>1. ASSUME NEW p \in Known'
          PROVE  principals'[p].root = RootOf(principals[p].parent)'
      <4>1. CASE p = NewId
        <5>1. enrollments[t].root = RootOf(enrollments[t].parent)
          BY DEF Consume, RootIsShared
        <5> QED BY <4>1, <5>1, <2>1, <2>2, <2>3
      <4>2. CASE p \in Known
        BY <4>2, <2>1, <2>2, <2>3 DEF RootIsShared
      <4> QED BY <4>1, <4>2, <2>1
    <3>2. ASSUME NEW x \in Tokens, enrollments'[x].parent # None
          PROVE  enrollments'[x].root = RootOf(enrollments[x].parent)'
      BY <3>2, <1>3, <2>2, <2>3 DEF RootIsShared
    <3> QED BY <3>1, <3>2 DEF RootIsShared
  <2>5. NoOwnershipCycle => NoOwnershipCycle'
    <3> SUFFICES ASSUME NoOwnershipCycle, NEW C \in SUBSET Known', C # {},
                        \A p \in C : principals'[p].parent \in C
                 PROVE  FALSE
      BY DEF NoOwnershipCycle
    <3>1. \A p \in C : principals'[p].parent # NewId
      BY <1>2, <2>1, <2>2, RegistryAssumption
    <3>2. C \ {NewId} \in SUBSET Known /\ C \ {NewId} # {}
      BY <2>1, <3>1
    <3>3. \A p \in C \ {NewId} : principals[p].parent \in C \ {NewId}
      BY <2>1, <3>1, <3>2
    <3> QED BY <3>2, <3>3 DEF NoOwnershipCycle
  <2> QED BY <2>4, <2>5
<1> QED BY <1>4, <1>5 DEF Consume

\* An adoption takes the whole subtree to the new root, with nobody left behind
\* below it and no token still naming the old one.
LEMMA AdoptKeepsRoots ==
  ASSUME RegistryTypeOK, RootIsShared,
         NEW p \in Ids, NEW q \in Ids \cup Locals, Adopt(p, q)
  PROVE  RootIsShared'
<1> DEFINE below == Subtree(p)
<1>1. /\ p \in Known /\ q \notin below /\ q \in Locals \cup Known
  BY DEF Adopt, WouldCycle, CanAdopt
<1>2. below \subseteq Known /\ p \in below
  BY <1>1, SubtreeIsClosed
<1>3. /\ \A p1 \in Known : principals[p1].parent \in Locals \cup Known
      /\ \A t \in Tokens : enrollments[t].parent # None =>
                            enrollments[t].parent \in Locals \cup Known
  BY LinksLead
<1>4. Known' = Known
  BY AdoptedPrincipal DEF Known
<1>5. \A r \in Locals \cup Known : r \notin below => RootOf(r)' = RootOf(r)
  BY <1>2, AdoptedPrincipal DEF RootOf, Known
<1>6. \A r \in below : RootOf(r)' = RootOf(q)
  BY <1>2, AdoptedPrincipal, RegistryAssumption DEF RootOf, Known
<1>7. ASSUME NEW c \in Known
      PROVE  principals'[c].root = RootOf(principals[c].parent)'
  <2>1. CASE c \notin below
    <3>1. principals[c].parent \notin below
      BY <1>1, <2>1, ChildInSubtree
    <3>2. principals'[c] = principals[c]
      BY <2>1, AdoptedPrincipal DEF Known
    <3> QED BY <3>1, <3>2, <1>3, <1>5 DEF RootIsShared
  <2>2. CASE c = p
    <3>1. principals'[c].root = RootOf(q) /\ principals'[c].parent = q
      BY <1>2, <2>2, AdoptedPrincipal
    <3> QED BY <3>1, <1>1, <1>5
  <2>3. CASE c \in below /\ c # p
    <3>1. principals[c].parent \in below
      BY <1>1, <2>3, ParentInSubtree
    <3>2. principals'[c].root = RootOf(q) /\ principals'[c].parent = principals[c].parent
      BY <2>3, AdoptedPrincipal DEF Known
    <3> QED BY <3>1, <3>2, <1>6
  <2> QED BY <2>1, <2>2, <2>3
<1>8. ASSUME NEW t \in Tokens, enrollments'[t].parent # None
      PROVE  enrollments'[t].root = RootOf(enrollments[t].parent)'
  <2>1. enrollments[t].parent \notin below /\ enrollments'[t] = enrollments[t]
    BY <1>8 DEF Adopt, Cancelled, NoEnrollment
  <2> QED BY <1>8, <2>1, <1>3, <1>5 DEF RootIsShared
<1> QED BY <1>4, <1>7, <1>8 DEF RootIsShared

\* A cycle after an adoption would go through the new link, and so through q;
\* what of it is outside of the subtree was a cycle before.
LEMMA AdoptKeepsForest ==
  ASSUME RegistryTypeOK, NoOwnershipCycle,
         NEW p \in Ids, NEW q \in Ids \cup Locals, Adopt(p, q)
  PROVE  NoOwnershipCycle'
<1>1. p \in Known /\ q \notin Subtree(p)
  BY DEF Adopt, WouldCycle
<1>2. Known' = Known
  BY AdoptedPrincipal DEF Known
<1> SUFFICES ASSUME NEW C \in SUBSET Known, C # {},
                    \A c \in C : principals'[c].parent \in C
             PROVE  FALSE
  BY <1>2 DEF NoOwnershipCycle
<1>3. \A c \in Known \ {p} : principals'[c].parent = principals[c].parent
  BY AdoptedPrincipal DEF Known
<1>4. p \in C
  BY <1>3 DEF NoOwnershipCycle
<1>5. q \in C
  <2>1. principals'[p].parent = q
    BY <1>1, SubtreeIsClosed, AdoptedPrincipal
  <2> QED BY <1>4, <2>1
<1> DEFINE D == C \ Subtree(p)
<1>6. D \in SUBSET Known /\ D # {} /\ p \notin D
  BY <1>1, <1>5, SubtreeIsClosed
<1>7. ASSUME NEW c \in D PROVE principals[c].parent \in D
  BY <1>1, <1>3, <1>6, ChildInSubtree
<1> QED BY <1>6, <1>7 DEF NoOwnershipCycle

\* A revocation, or a sweep: some principals are revoked, once or more often, and
\* with each of them all its children.
Fences(times) ==
  /\ principals' = Revoked(times) /\ UNCHANGED <<enrollments, now, adopted>>
  /\ \A c \in Ids : times[c] # 0 => c \in Known
  /\ \A c, d \in Known : principals[d].parent = c /\ times[c] # 0 => times[d] # 0

\* A step of the registry, by what it may do to the forest.
LEMMA StepCases ==
  ASSUME RegistryTypeOK, [RegistryNext]_vars
  PROVE  \/ \E parent \in Locals \cup Known, r \in Requests, depth \in Nat :
              /\ Issue(parent, RootOf(parent), Granted(r, depth), r.until)
              /\ \/ parent \in Locals
                 \/ parent \in Known /\ IssueChild(parent, r)
         \/ \E t \in Tokens : Consume(t)
         \/ \E p \in Ids, q \in Ids \cup Locals : Adopt(p, q)
         \/ \E times \in [Ids -> Nat] : Fences(times)
         \/ principals' = principals /\ enrollments' = enrollments /\ adopted' = adopted
            /\ now' \in Nat /\ now' >= now
<1>1. ASSUME NEW r \in Requests, NEW parent \in Locals, IssueRoot(parent, r)
      PROVE  Issue(parent, RootOf(parent), Granted(r, 1), r.until)
  BY <1>1 DEF IssueRoot, RootOf
<1>2. ASSUME NEW r \in Requests, NEW q \in Ids, IssueChild(q, r)
      PROVE  /\ q \in Known /\ principals[q].limits.depth + 1 \in Nat
             /\ Issue(q, RootOf(q), Granted(r, principals[q].limits.depth + 1), r.until)
  <2>1. principals[q].limits.depth \in Nat
    BY RegistryAssumption DEF RegistryTypeOK, Limits
  <2>2. q \in Known /\ q \notin Locals
    BY <1>2, RegistryAssumption DEF IssueChild, Valid, Known
  <2> QED BY <1>2, <2>1, <2>2 DEF IssueChild, RootOf
<1>3. ASSUME NEW p \in Ids, Revoke(p)
      PROVE  \E times \in [Ids -> Nat] : Fences(times)
  <2> DEFINE times == [c \in Ids |-> IF c \in Subtree(p) THEN 1 ELSE 0]
  <2>1. p \in Known
    BY <1>3 DEF Revoke
  <2>2. \A c, d \in Known : principals[d].parent = c /\ times[c] # 0 => times[d] # 0
    BY <2>1, ChildInSubtree DEF Known
  <2>3. \A c \in Ids : times[c] # 0 => c \in Known
    BY <2>1, SubtreeIsClosed
  <2>4. principals' = Revoked(times) /\ UNCHANGED <<enrollments, now, adopted>>
    BY <1>3 DEF Revoke
  <2>5. Fences(times)
    BY <2>2, <2>3, <2>4 DEF Fences
  <2> QED BY <2>5
<1>4. ASSUME Sweep
      PROVE  \E times \in [Ids -> Nat] : Fences(times)
  <2>1. PICK R \in SUBSET Expired :
          principals' = Revoked(Times(R)) /\ UNCHANGED <<enrollments, now, adopted>>
    BY <1>4 DEF Sweep, Times
  <2>2. ASSUME NEW c \in Known, NEW d \in Known, principals[d].parent = c, Times(R)[c] # 0
        PROVE  Times(R)[d] # 0
    <3>1. PICK r \in R : c \in Subtree(r)
      BY <2>2, SweepTimes DEF Known
    <3>2. d \in Subtree(r)
      BY <2>2, <3>1, ChildInSubtree DEF Expired
    <3> QED BY <3>2, SweepTimes DEF Known
  <2>3. Times(R) \in [Ids -> Nat] /\ \A c \in Ids : Times(R)[c] # 0 => c \in Known
    BY SweepTimes
  <2>4. Fences(Times(R))
    BY <2>1, <2>2, <2>3 DEF Fences
  <2> QED BY <2>3, <2>4
<1>5. ASSUME Tick \/ UNCHANGED vars
      PROVE  principals' = principals /\ enrollments' = enrollments /\ adopted' = adopted
             /\ now' \in Nat /\ now' >= now
  BY <1>5 DEF Tick, vars, RegistryTypeOK
<1> QED BY <1>1, <1>2, <1>3, <1>4, <1>5 DEF RegistryNext

LEMMA FencesKeep ==
  ASSUME RegistryTypeOK, NEW times \in [Ids -> Nat], Fences(times)
  PROVE  SameForest
<1>1. \A c \in Ids : principals[c].state # "none" <=> c \in Known
  BY DEF Known
<1> QED BY <1>1, RevokedPrincipal DEF Fences, SameForest

\* A root once given stays the root of the tree, through every use of a token
\* and every adoption, for any number of principals.
THEOREM RootCorrect == RegistrySpec => []RootIsShared
<1>1. RegistryInit => RootIsShared
  BY DEF RegistryInit, RootIsShared, Known, NoPrincipal, NoEnrollment
<1>2. RegistryTypeOK /\ RootIsShared /\ [RegistryNext]_vars => RootIsShared'
  <2> SUFFICES ASSUME RegistryTypeOK, RootIsShared, [RegistryNext]_vars PROVE RootIsShared'
    OBVIOUS
  <2>1. ASSUME NEW parent \in Locals \cup Known, NEW l, NEW until,
               Issue(parent, RootOf(parent), l, until)
        PROVE  RootIsShared'
    BY <2>1, IssueKeeps
  <2>2. ASSUME NEW times \in [Ids -> Nat], Fences(times) PROVE RootIsShared'
    <3>1. SameForest /\ enrollments' = enrollments
      BY <2>2, FencesKeep DEF Fences
    <3> QED BY <3>1, StillForest, LinksLead DEF RootIsShared, SameForest, Known
  <2>3. ASSUME principals' = principals, enrollments' = enrollments PROVE RootIsShared'
    BY <2>3 DEF RootIsShared, Known, RootOf
  <2> QED BY <2>1, <2>2, <2>3, ConsumeKeeps, AdoptKeepsRoots, StepCases
<1> QED BY <1>1, <1>2, RegistryTypeCorrect, PTL DEF RegistrySpec

-----------------------------------------------------------------------------
(* The forest, and fencing.                                                *)

\* No sequence of adoptions closes a cycle, for any number of principals.
THEOREM ForestCorrect == RegistrySpec => []NoOwnershipCycle
<1>1. RegistryInit => NoOwnershipCycle
  BY DEF RegistryInit, NoOwnershipCycle, Known, NoPrincipal
<1>2. RegistryTypeOK /\ NoOwnershipCycle /\ [RegistryNext]_vars => NoOwnershipCycle'
  <2> SUFFICES ASSUME RegistryTypeOK, NoOwnershipCycle, [RegistryNext]_vars
               PROVE  NoOwnershipCycle'
    OBVIOUS
  <2>1. ASSUME NEW parent, NEW root, NEW l, NEW until, Issue(parent, root, l, until)
        PROVE  NoOwnershipCycle'
    BY <2>1, StillForest DEF Issue, SameForest
  <2>2. ASSUME NEW times \in [Ids -> Nat], Fences(times) PROVE NoOwnershipCycle'
    BY <2>2, FencesKeep, StillForest
  <2>3. ASSUME principals' = principals PROVE NoOwnershipCycle'
    BY <2>3, StillForest DEF SameForest
  <2> QED BY <2>1, <2>2, <2>3, ConsumeKeeps, AdoptKeepsForest, StepCases
<1> QED BY <1>1, <1>2, RegistryTypeCorrect, PTL DEF RegistrySpec

\* No transition, by whatever handler or order of a sweep, fences a principal and
\* leaves one of its children with its generation.
THEOREM FencingCorrect == RegistrySpec => FencingIsWhole
<1> DEFINE Whole == \A p \in Known : principals'[p].gen # principals[p].gen =>
                      \A c \in Known : c # p /\ principals[c].parent = p =>
                        principals'[c].gen > principals[c].gen
<1>1. RegistryTypeOK /\ [RegistryNext]_vars => [Whole]_vars
  <2> SUFFICES ASSUME RegistryTypeOK, [RegistryNext]_vars,
                      NEW p \in Known, principals'[p].gen # principals[p].gen,
                      NEW c \in Known, c # p, principals[c].parent = p
               PROVE  principals'[c].gen > principals[c].gen
    OBVIOUS
  <2>1. principals[c].gen \in Nat /\ p \in Ids /\ c \in Ids
    BY DEF RegistryTypeOK, Known
  <2>2. ~(principals' = principals)
    OBVIOUS
  <2>3. ASSUME NEW t \in Tokens, Consume(t) PROVE FALSE
    BY <2>3 DEF Consume, NewId, Known, RegistryTypeOK
  <2>4. ASSUME NEW x \in Ids, NEW q \in Ids \cup Locals, Adopt(x, q)
        PROVE  principals'[c].gen > principals[c].gen
    <3>1. x \in Known
      BY <2>4 DEF Adopt
    <3>2. p \in Subtree(x)
      BY <2>1, <2>4, AdoptedPrincipal
    <3>3. c \in Subtree(x)
      BY <3>1, <3>2, ChildInSubtree
    <3> QED BY <2>1, <2>4, <3>3, AdoptedPrincipal
  <2>5. ASSUME NEW times \in [Ids -> Nat], Fences(times)
        PROVE  principals'[c].gen > principals[c].gen
    <3>1. principals'[p].gen = principals[p].gen + times[p] /\ principals[p].gen \in Nat
          /\ principals'[c].gen = principals[c].gen + times[c]
      BY <2>1, <2>5, RevokedPrincipal DEF Fences, RegistryTypeOK
    <3>2. times[p] # 0
      BY <2>1, <3>1
    <3>3. times[c] # 0 /\ times[c] \in Nat
      BY <2>1, <2>5, <3>2 DEF Fences
    <3> QED BY <2>1, <3>1, <3>3
  <2>6. ASSUME NEW parent, NEW root, NEW l, NEW until, Issue(parent, root, l, until)
        PROVE  FALSE
    BY <2>2, <2>6 DEF Issue
  <2> QED BY <2>2, <2>3, <2>4, <2>5, <2>6, StepCases
<1> QED BY <1>1, RegistryTypeCorrect, PTL DEF RegistrySpec, FencingIsWhole

-----------------------------------------------------------------------------
(* Limits.                                                                 *)

Narrow(l, q) ==
  /\ WithinCode(l, q) /\ l.depth = principals[q].limits.depth + 1
  /\ l.depth <= l.maxDepth /\ l.maxDepth <= principals[q].limits.maxDepth
  /\ l.maxChildren <= principals[q].limits.maxChildren
  /\ l.expires <= principals[q].limits.expires
TreeNarrows ==
  /\ \A p \in Known \ adopted : principals[p].parent \in Ids =>
                                 Narrow(principals[p].limits, principals[p].parent)
  /\ \A t \in Tokens : enrollments[t].parent \in Ids =>
                        Narrow(enrollments[t].limits, enrollments[t].parent)

\* The limits of a principal never change; nor does a principal become unknown.
LEMMA LimitsStay ==
  ASSUME RegistryTypeOK, [RegistryNext]_vars
  PROVE  \A p \in Known : p \in Known' /\ principals'[p].limits = principals[p].limits
<1>1. PrincipalsOK
  BY TypeParts
<1>2. ASSUME NEW t \in Tokens, Consume(t)
      PROVE  \A p \in Known : principals'[p] = principals[p]
  BY <1>1, <1>2 DEF Consume, NewId, Known, PrincipalsOK
<1>3. ASSUME NEW x \in Ids, NEW q \in Ids \cup Locals, Adopt(x, q)
      PROVE  \A p \in Known : p \in Known' /\ principals'[p].limits = principals[p].limits
  BY <1>3, AdoptedPrincipal DEF Known
<1>4. ASSUME NEW times \in [Ids -> Nat], Fences(times)
      PROVE  \A p \in Known : p \in Known' /\ principals'[p].limits = principals[p].limits
  <2>1. \A p \in Ids : principals'[p].limits = principals[p].limits
    BY <1>1, <1>4 DEF Fences, Revoked, PrincipalsOK, Record
  <2> QED BY <1>4, <2>1, FencesKeep DEF SameForest, Known
<1> QED BY <1>2, <1>3, <1>4, StepCases DEF Issue, Known

\* Whatever happens, nobody has wider limits than whom it was enrolled by, and no
\* token in circulation offers them.
THEOREM LimitsCorrect == RegistrySpec => []LimitsNarrow
<1>1. RegistryInit => TreeNarrows
  BY RegistryAssumption DEF RegistryInit, TreeNarrows, Known, NoPrincipal, NoEnrollment
<1>2. RegistryTypeOK /\ TreeNarrows /\ [RegistryNext]_vars => TreeNarrows'
  <2> SUFFICES ASSUME RegistryTypeOK, TreeNarrows, [RegistryNext]_vars PROVE TreeNarrows'
    OBVIOUS
  <2>1. \A p \in Known : p \in Known' /\ principals'[p].limits = principals[p].limits
    BY LimitsStay
  <2>2. \A q \in Known : \A l : Narrow(l, q) => Narrow(l, q)'
    BY <2>1 DEF Narrow, WithinCode
  <2>3. /\ \A p \in Known : principals[p].parent \in Ids => principals[p].parent \in Known
        /\ \A t \in Tokens : enrollments[t].parent \in Ids => enrollments[t].parent \in Known
    BY LinksLead, RegistryAssumption
  <2>4. ASSUME NEW parent \in Locals \cup Known, NEW r \in Requests, NEW depth \in Nat,
               Issue(parent, RootOf(parent), Granted(r, depth), r.until),
               parent \in Locals \/ (parent \in Known /\ IssueChild(parent, r))
        PROVE  TreeNarrows'
    <3>1. parent \in Ids => Narrow(enrollments'[NewToken].limits, parent)
      <4> SUFFICES ASSUME parent \in Ids PROVE Narrow(enrollments'[NewToken].limits, parent)
        OBVIOUS
      <4> DEFINE l == Granted(r, principals[parent].limits.depth + 1)
      <4>1. IssueChild(parent, r)
        BY <2>4, RegistryAssumption
      <4>2. l \in Limits /\ l.maxDepth >= l.depth /\ WithinParent(l, parent)
            /\ enrollments'[NewToken].limits = l
        BY <4>1 DEF IssueChild, Issue, Unused, NewToken
      <4>3. l.depth = principals[parent].limits.depth + 1
        BY DEF Granted
      <4>4. l.depth \in Nat /\ l.maxDepth \in Nat /\ l.maxDepth <= DepthLimit
            /\ l.maxChildren \in Nat /\ l.maxChildren <= ChildLimit
        BY <4>2, RegistryAssumption DEF Limits
      <4> HIDE DEF l
      <4> QED BY <4>2, <4>3, <4>4 DEF Narrow, WithinCode, WithinParent
    <3>2. \A t \in Tokens : \/ enrollments'[t].parent = None
                            \/ enrollments'[t] = enrollments[t]
                            \/ t = NewToken /\ enrollments'[t].parent = parent
      BY <2>4 DEF Issue, NoEnrollment
    <3>3. principals' = principals /\ adopted' = adopted
      BY <2>4 DEF Issue
    <3> QED BY <2>1, <2>2, <2>3, <3>1, <3>2, <3>3, RegistryAssumption DEF TreeNarrows, Known
  <2>5. ASSUME NEW t \in Tokens, Consume(t) PROVE TreeNarrows'
    <3>1. \A x \in Tokens : enrollments'[x].parent = None \/ enrollments'[x] = enrollments[x]
      BY <2>5 DEF Consume, NoEnrollment, RegistryTypeOK
    <3>2. \A p \in Known' : \/ p \in Known /\ principals'[p] = principals[p]
                            \/ /\ principals'[p].parent = enrollments[t].parent
                               /\ principals'[p].limits = enrollments[t].limits
      BY <2>5 DEF Consume, NewId, Known, RegistryTypeOK
    <3>3. adopted' = adopted
      BY <2>5 DEF Consume
    <3> QED BY <2>2, <2>3, <3>1, <3>2, <3>3, RegistryAssumption DEF TreeNarrows
  <2>6. ASSUME NEW x \in Ids, NEW q \in Ids \cup Locals, Adopt(x, q) PROVE TreeNarrows'
    <3>1. \A t \in Tokens : enrollments'[t].parent = None \/ enrollments'[t] = enrollments[t]
      BY <2>6 DEF Adopt, Cancelled, NoEnrollment
    <3>2. adopted' = adopted \cup {x} /\ Known' = Known
      <4>1. adopted' = adopted \cup {x}
        BY <2>6 DEF Adopt
      <4>2. Known' = Known
        BY <2>6, AdoptedPrincipal DEF Known
      <4> QED BY <4>1, <4>2
    <3>3. \A p \in Known \ {x} : principals'[p].parent = principals[p].parent
      BY <2>6, AdoptedPrincipal DEF Known
    <3> QED BY <2>1, <2>2, <2>3, <3>1, <3>2, <3>3, RegistryAssumption DEF TreeNarrows
  <2>7. ASSUME SameForest, adopted' = adopted, enrollments' = enrollments PROVE TreeNarrows'
    BY <2>1, <2>2, <2>3, <2>7, StillForest DEF TreeNarrows, SameForest, Known
  <2>8. ASSUME NEW times \in [Ids -> Nat], Fences(times) PROVE TreeNarrows'
    BY <2>7, <2>8, FencesKeep DEF Fences
  <2>9. ASSUME principals' = principals PROVE SameForest
    BY <2>9 DEF SameForest
  <2> QED BY <2>4, <2>5, <2>6, <2>7, <2>8, <2>9, StepCases
<1>3. TreeNarrows => LimitsNarrow
  BY DEF TreeNarrows, LimitsNarrow, Narrow
<1> QED BY <1>1, <1>2, <1>3, RegistryTypeCorrect, PTL DEF RegistrySpec

-----------------------------------------------------------------------------
(* What has been delegated.                                                *)

Delegated(q) == Charged(q) \ adopted

LEMMA ChargedIsFinite ==
  ASSUME NEW q
  PROVE  /\ IsFiniteSet(Charged(q)) /\ IsFiniteSet(Delegated(q))
         /\ Cardinality(Charged(q)) \in Nat /\ Cardinality(Delegated(q)) \in Nat
         /\ Cardinality(Delegated(q)) <= Cardinality(Charged(q))
<1>1. IsFiniteSet(Ids \cup Tokens)
  BY FS_Union, RegistryAssumption
<1>2. Charged(q) \subseteq Ids \cup Tokens /\ Delegated(q) \subseteq Charged(q)
  BY DEF Charged, Delegated
<1>3. IsFiniteSet(Charged(q))
  BY <1>1, <1>2, FS_Subset
<1> QED BY <1>2, <1>3, FS_Subset, FS_CardinalityType

LEMMA SmallerStays ==
  ASSUME NEW D, IsFiniteSet(D), NEW E \in SUBSET D, NEW n \in Nat, Cardinality(D) <= n
  PROVE  Cardinality(E) <= n
<1>1. IsFiniteSet(E) /\ Cardinality(E) <= Cardinality(D)
  BY FS_Subset
<1>2. Cardinality(E) \in Nat /\ Cardinality(D) \in Nat
  BY <1>1, FS_CardinalityType
<1> QED BY <1>1, <1>2

LEMMA AddOne ==
  ASSUME NEW D, IsFiniteSet(D), NEW x
  PROVE  /\ IsFiniteSet(D \cup {x})
         /\ Cardinality(D) \in Nat /\ Cardinality(D \cup {x}) \in Nat
         /\ Cardinality(D \cup {x}) <= Cardinality(D) + 1
<1>1. /\ IsFiniteSet(D \cup {x})
      /\ Cardinality(D \cup {x}) = IF x \in D THEN Cardinality(D) ELSE Cardinality(D) + 1
  BY FS_AddElement
<1>2. Cardinality(D) \in Nat
  BY FS_CardinalityType
<1> QED BY <1>1, <1>2

\* Of a step that neither issues a token below q nor uses one, nothing counts for
\* q that did not before.
LEMMA DelegatedShrinks ==
  ASSUME RegistryTypeOK, NEW q \in Known,
         \A c \in Ids : principals'[c].parent = q /\ Valid(c)' /\ c \notin adopted' =>
                        principals[c].parent = q /\ Valid(c) /\ c \notin adopted,
         \A t \in Tokens : enrollments'[t].parent = q => enrollments'[t] = enrollments[t],
         now' \in Nat, now' >= now, adopted \subseteq adopted'
  PROVE  Delegated(q)' \subseteq Delegated(q)
<1>1. \A t \in Tokens : enrollments[t].until \in Nat
  BY DEF RegistryTypeOK
<1>2. now \in Nat
  BY DEF RegistryTypeOK
<1> QED BY <1>1, <1>2 DEF Delegated, Charged

\* A principal has never delegated more than it may, in whatever order tokens
\* are issued, used, expire and are cancelled, and principals expire and move.
THEOREM DelegationCorrect == RegistrySpec => []DelegatedWithinLimit
<1> DEFINE Inv == \A q \in Known : Cardinality(Delegated(q)) <= principals[q].limits.maxChildren
<1>1. RegistryInit => Inv
  BY DEF RegistryInit, Known, NoPrincipal
<1>2. RegistryTypeOK /\ Inv /\ [RegistryNext]_vars => Inv'
  <2> SUFFICES ASSUME RegistryTypeOK, Inv, [RegistryNext]_vars PROVE Inv'
    OBVIOUS
  <2>1. \A q \in Known : q \in Known' /\ principals'[q].limits = principals[q].limits
                         /\ principals[q].limits.maxChildren \in Nat
    BY LimitsStay, RegistryAssumption DEF RegistryTypeOK, Limits, Known
  <2>2. ASSUME NEW q \in Known, Delegated(q)' \subseteq Delegated(q)
        PROVE  Cardinality(Delegated(q)') <= principals'[q].limits.maxChildren
    BY <2>1, <2>2, ChargedIsFinite, SmallerStays
  <2>3. now \in Nat /\ adopted \subseteq Ids
    BY DEF RegistryTypeOK
  <2>4. ASSUME NEW parent \in Locals \cup Known, NEW r \in Requests, NEW depth \in Nat,
               Issue(parent, RootOf(parent), Granted(r, depth), r.until),
               parent \in Locals \/ (parent \in Known /\ IssueChild(parent, r))
        PROVE  Inv'
    <3>1. principals' = principals /\ adopted' = adopted /\ now' = now
      BY <2>4 DEF Issue
    <3>2. \A t \in Tokens : \/ enrollments'[t].parent = None
                            \/ enrollments'[t] = enrollments[t]
                            \/ t = NewToken /\ enrollments'[t].parent = parent
      BY <2>4 DEF Issue, NoEnrollment
    <3>3. ASSUME NEW q \in Known
          PROVE  Cardinality(Delegated(q)') <= principals'[q].limits.maxChildren
      <4>1. CASE q # parent
        <5>1. \A t \in Tokens : enrollments'[t].parent = q => enrollments'[t] = enrollments[t]
          BY <3>2, <4>1, RegistryAssumption DEF Known
        <5>2. \A c \in Ids : principals'[c].parent = q /\ Valid(c)' /\ c \notin adopted' =>
                             principals[c].parent = q /\ Valid(c) /\ c \notin adopted
          BY <3>1 DEF Valid
        <5>3. Delegated(q)' \subseteq Delegated(q)
          BY <2>3, <3>1, <5>1, <5>2, DelegatedShrinks
        <5> QED BY <5>3, <2>2
      <4>2. CASE q = parent
        <5>1. /\ Cardinality(Charged(q)) < principals[q].limits.maxChildren
          BY <2>4, <4>2, RegistryAssumption DEF IssueChild, Known
        <5>2. Delegated(q)' \subseteq Delegated(q) \cup {NewToken}
          BY <3>1, <3>2, RegistryAssumption DEF Delegated, Charged, Valid, Known
        <5>3. /\ IsFiniteSet(Delegated(q) \cup {NewToken})
              /\ Cardinality(Delegated(q) \cup {NewToken}) <= Cardinality(Delegated(q)) + 1
          BY ChargedIsFinite, AddOne
        <5>4. Cardinality(Delegated(q) \cup {NewToken}) <= principals[q].limits.maxChildren
          <6>1. Cardinality(Delegated(q) \cup {NewToken}) \in Nat
            BY ChargedIsFinite, AddOne
          <6> QED BY <2>1, <5>1, <5>3, <6>1, ChargedIsFinite
        <5> QED BY <2>1, <5>2, <5>3, <5>4, SmallerStays
      <4> QED BY <4>1, <4>2
    <3> QED BY <3>1, <3>3 DEF Known
  <2>5. ASSUME NEW t \in Tokens, Consume(t) PROVE Inv'
    <3>1. /\ adopted' = adopted /\ now' = now
          /\ NewId \in Ids /\ NewId \notin Known
          /\ enrollments'[t].parent = None
          /\ \A x \in Tokens \ {t} : enrollments'[x] = enrollments[x]
      BY <2>5 DEF Consume, NewId, Known, NoEnrollment, RegistryTypeOK
    <3>2. None \notin Ids /\ t \notin Ids
      BY RegistryAssumption
    <3>3. CASE enrollments[t].until <= now
      <4>1. principals' = principals
        BY <2>5, <3>3 DEF Consume
      <4>2. ASSUME NEW q \in Known
            PROVE  Delegated(q)' \subseteq Delegated(q)
        BY <2>3, <3>1, <3>2, <4>1, DelegatedShrinks DEF Valid, Known
      <4> QED BY <2>2, <4>1, <4>2 DEF Known
    <3>4. CASE ~(enrollments[t].until <= now)
      <4>1. /\ \A c \in Ids \ {NewId} : principals'[c] = principals[c]
            /\ principals'[NewId].parent = enrollments[t].parent
            /\ principals'[NewId].limits = enrollments[t].limits
            /\ Known' \subseteq Known \cup {NewId}
        BY <2>5, <3>1, <3>4 DEF Consume, Known, RegistryTypeOK
      <4>2. ASSUME NEW q \in Known, q # enrollments[t].parent
            PROVE  Cardinality(Delegated(q)') <= principals'[q].limits.maxChildren
        <5>1. Delegated(q)' \subseteq Delegated(q)
          BY <2>3, <3>1, <3>2, <4>1, <4>2, DelegatedShrinks DEF Valid, Known
        <5> QED BY <2>2, <5>1
      <4>3. ASSUME NEW q \in Known, q = enrollments[t].parent
            PROVE  Cardinality(Delegated(q)') <= principals'[q].limits.maxChildren
        <5> DEFINE D == Delegated(q) \ {t}
        <5>1. t \in Delegated(q)
          <6>1. enrollments[t].until > now
            BY <2>3, <3>4 DEF RegistryTypeOK
          <6> QED BY <2>3, <3>2, <4>3, <6>1 DEF Delegated, Charged
        <5>2. Delegated(q)' \subseteq D \cup {NewId}
          BY <3>1, <3>2, <4>1 DEF Delegated, Charged, Valid, Known
        <5>3. IsFiniteSet(D) /\ Cardinality(D) = Cardinality(Delegated(q)) - 1
          BY <5>1, ChargedIsFinite, FS_RemoveElement
        <5>4. /\ IsFiniteSet(D \cup {NewId})
              /\ Cardinality(D \cup {NewId}) <= Cardinality(D) + 1
          BY <5>3, AddOne
        <5>5. Cardinality(D \cup {NewId}) <= principals[q].limits.maxChildren
          <6>1. Cardinality(D \cup {NewId}) \in Nat
            BY <5>3, AddOne
          <6> QED BY <2>1, <5>3, <5>4, <6>1, ChargedIsFinite
        <5> QED BY <2>1, <5>2, <5>4, <5>5, SmallerStays
      <4>4. ASSUME NEW q \in Ids, q = NewId
            PROVE  Cardinality(Delegated(q)') <= principals'[q].limits.maxChildren
        <5>1. /\ \A c \in Ids : principals[c].parent # q
              /\ \A x \in Tokens : enrollments[x].parent # q
          BY <3>1, <3>2, <4>4 DEF RegistryTypeOK, Known
        <5>2. /\ \A c \in Ids : principals'[c].parent # q
              /\ \A x \in Tokens : enrollments'[x].parent # q
          <6>1. enrollments[t].parent # q
            BY <5>1
          <6> QED BY <3>1, <3>2, <4>1, <4>4, <5>1, <6>1
        <5>3. Delegated(q)' = {}
          BY <5>2 DEF Delegated, Charged
        <5>4. enrollments[t].limits.maxChildren \in Nat
          BY RegistryAssumption DEF RegistryTypeOK, Limits
        <5>5. Cardinality(Delegated(q)') = 0
          BY <5>3, FS_EmptySet
        <5> QED BY <4>1, <4>4, <5>4, <5>5
      <4>5. ASSUME NEW q \in Known'
            PROVE  Cardinality(Delegated(q)') <= principals'[q].limits.maxChildren
        <5>1. q \in Known \/ q = NewId
          BY <4>1 DEF Known
        <5> QED BY <3>1, <4>2, <4>3, <4>4, <5>1
      <4> QED BY <4>5
    <3> QED BY <3>3, <3>4
  <2>6. ASSUME NEW x \in Ids, NEW y \in Ids \cup Locals, Adopt(x, y) PROVE Inv'
    <3>1. /\ adopted' = adopted \cup {x} /\ now' = now
          /\ \A t \in Tokens : enrollments'[t].parent = None \/ enrollments'[t] = enrollments[t]
      BY <2>6 DEF Adopt, Cancelled, NoEnrollment
    <3>2. \A c \in Ids : /\ principals'[c].state = principals[c].state
                         /\ principals'[c].limits = principals[c].limits
                         /\ c # x => principals'[c].parent = principals[c].parent
      BY <2>6, AdoptedPrincipal
    <3>3. ASSUME NEW q \in Known PROVE Delegated(q)' \subseteq Delegated(q)
      BY <2>3, <3>1, <3>2, DelegatedShrinks, RegistryAssumption DEF Valid, Known
    <3>4. Known' = Known
      BY <3>2 DEF Known
    <3> QED BY <2>2, <3>3, <3>4
  <2>7. ASSUME NEW times \in [Ids -> Nat], Fences(times) PROVE Inv'
    <3>1. \A c \in Ids : /\ principals'[c].parent = principals[c].parent
                         /\ principals'[c].state = "active" => principals'[c] = principals[c]
      BY <2>7, RevokedPrincipal DEF Fences
    <3>2. ASSUME NEW q \in Known PROVE Delegated(q)' \subseteq Delegated(q)
      BY <2>3, <2>7, <3>1, DelegatedShrinks DEF Valid, Fences
    <3>3. Known' = Known
      BY <2>7, FencesKeep DEF SameForest, Known
    <3> QED BY <2>2, <3>2, <3>3
  <2>8. ASSUME principals' = principals, enrollments' = enrollments, adopted' = adopted,
               now' \in Nat, now' >= now
        PROVE  Inv'
    <3>1. ASSUME NEW q \in Known PROVE Delegated(q)' \subseteq Delegated(q)
      <4>1. \A c \in Ids : Valid(c)' => Valid(c)
        BY <2>3, <2>8, RegistryAssumption DEF Valid, RegistryTypeOK, Limits
      <4> QED BY <2>8, <4>1, DelegatedShrinks
    <3> QED BY <2>2, <2>8, <3>1 DEF Known
  <2> QED BY <2>4, <2>5, <2>6, <2>7, <2>8, StepCases
<1>3. Inv => DelegatedWithinLimit
  BY DEF DelegatedWithinLimit, Delegated
<1> QED BY <1>1, <1>2, <1>3, RegistryTypeCorrect, PTL DEF RegistrySpec
=============================================================================
