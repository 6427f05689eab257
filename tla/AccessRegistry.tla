---------------------------- MODULE AccessRegistry ----------------------------
(***************************************************************************)
(* The remote principals of a broker and the enrollments that make them    *)
(* (src/broker/access-registry.ts), with the handlers of broker.ts that    *)
(* change them.  Principals form trees below local sessions.  Every change *)
(* is one call, and is on disk before the call returns.                    *)
(***************************************************************************)
EXTENDS FiniteSets, Integers

CONSTANTS
  Locals,       \* local sessions: the roots of the trees
  Ids,          \* the identities of principals, each given once
  Tokens,       \* enrollment tokens
  None,
  Requests,     \* what an enrollment may be asked for, with its own last moment
  DepthLimit,   \* 32 in the code
  ChildLimit,   \* 128 in the code
  MaxClock,     \* bound: the last moment
  MaxGeneration \* bound: transitions of a principal

ASSUME RegistryAssumption ==
  /\ IsFiniteSet(Ids) /\ IsFiniteSet(Tokens)
  /\ Locals \cap Ids = {} /\ Tokens \cap (Locals \cup Ids) = {}
  /\ None \notin Locals \cup Ids
  /\ Requests \subseteq [canDelegate : BOOLEAN, maxDepth : Nat, maxChildren : Nat,
                          expires : Nat, until : Nat]
  /\ DepthLimit \in Nat \ {0} /\ ChildLimit \in Nat
  /\ MaxClock \in Nat /\ MaxGeneration \in Nat \ {0}

VARIABLES
  principals,   \* state "none" until an enrollment is consumed for the id
  enrollments,  \* what each token stands for; without a parent, for nothing
  now,
  adopted       \* history: the principals that have ever been adopted

vars == <<principals, enrollments, now, adopted>>

\* What an enrollment gives to its principal.
Limits == [canDelegate : BOOLEAN, depth : 1..DepthLimit, maxDepth : 1..DepthLimit,
           maxChildren : 0..ChildLimit, expires : Nat]
NoLimits == [canDelegate |-> FALSE, depth |-> 1, maxDepth |-> 1, maxChildren |-> 0, expires |-> 0]

NoPrincipal == [state |-> "none", gen |-> 0, parent |-> None, root |-> None, limits |-> NoLimits]
NoEnrollment == [parent |-> None, root |-> None, limits |-> NoLimits, until |-> 0]

RegistryTypeOK ==
  /\ principals \in [Ids -> [state : {"none", "active", "revoked"}, gen : Nat,
                             parent : Ids \cup Locals \cup {None},
                             root : Locals \cup {None}, limits : Limits]]
  /\ enrollments \in [Tokens -> [parent : Ids \cup Locals \cup {None},
                                 root : Locals \cup {None}, limits : Limits,
                                 until : Nat]]
  /\ now \in 0..MaxClock /\ adopted \subseteq Ids
  /\ \A p \in Ids : /\ principals[p].state = "none" <=> principals[p].parent = None
                    /\ principals[p].state = "none" => p \notin adopted
                    /\ principals[p].parent \in Ids => principals[principals[p].parent].state # "none"
  /\ \A t \in Tokens : enrollments[t].parent \in Ids =>
                         principals[enrollments[t].parent].state # "none"

-----------------------------------------------------------------------------
(* Helpers.                                                                *)

Known == {p \in Ids : principals[p].state # "none"}

\* A set that has the children of its members; the subtree of p is the least
\* with p in it.
ClosedBelow(S) == \A c \in Known : principals[c].parent \in S => c \in S

\* Mutant of Subtree: only children, not theirs.
Children(p) == {c \in Known : c = p \/ principals[c].parent = p}

\* subtreePrincipalIds.
Subtree(p) == {c \in Known : \A S \in SUBSET Known : p \in S /\ ClosedBelow(S) => c \in S}

\* Mutant of WouldCycle: only the principal itself is refused.
IsItself(p, q) == p = q

\* The walk from the new parent upwards meets the principal.
WouldCycle(p, q) == q \in Subtree(p)

\* Mutant of RootOf: whoever adopts is the root.
RootItself(q) == q

\* The root of a local session is itself, that of a principal is recorded.
RootOf(q) == IF q \in Locals THEN q ELSE principals[q].root

\* validatePrincipal, with the current generation.
Valid(p) == principals[p].state = "active" /\ principals[p].limits.expires > now

\* Mutant of Charged: tokens that nobody has used yet cost nothing.
ChargedUsed(q) == {p \in Ids : principals[p].parent = q /\ Valid(p)}

\* The children of q that its limit counts: principals and unused tokens.
Charged(q) ==
  {p \in Ids : principals[p].parent = q /\ Valid(p)}
    \cup {t \in Tokens : enrollments[t].parent = q /\ enrollments[t].until > now}

\* What a request gets at a depth.
Granted(r, depth) ==
  [canDelegate |-> r.canDelegate, depth |-> depth, maxDepth |-> r.maxDepth,
   maxChildren |-> r.maxChildren, expires |-> r.expires]

\* Secrets and identities are random: a new one is one that nobody has.
Unused == {t \in Tokens : enrollments[t].parent = None}
NewToken == CHOOSE t \in Unused : TRUE
NewId == CHOOSE p \in Ids \ Known : TRUE

\* issueEnrollment: the expired enrollments go, and a new token is made.  Who is
\* to delegate needs room for it.
Issue(parent, root, l, until) ==
  /\ Unused # {}
  /\ l \in Limits /\ l.maxDepth >= l.depth /\ l.expires > now /\ until > now
  /\ l.canDelegate => l.maxDepth > l.depth /\ l.maxChildren > 0
  /\ enrollments' = [x \in Tokens |->
       IF x = NewToken THEN [parent |-> parent, root |-> root, limits |-> l, until |-> until]
       ELSE IF enrollments[x].until <= now THEN NoEnrollment ELSE enrollments[x]]
  /\ UNCHANGED <<principals, now, adopted>>

\* One generation on for each time that a principal is revoked.
Revoked(times) ==
  [p \in Ids |-> IF times[p] = 0 THEN principals[p]
                 ELSE [principals[p] EXCEPT !.state = "revoked", !.gen = @ + times[p]]]

-----------------------------------------------------------------------------
\* handleAccessControl, issue_enrollment: below a local session.
IssueRoot(parent, r) == Issue(parent, parent, Granted(r, 1), r.until)

\* Mutant of WithinParent: the limits of the code, not of the parent.
WithinCode(l, q) == l.maxDepth <= DepthLimit /\ l.maxChildren <= ChildLimit

\* No limit of a child is above its parent's, its depth included.
WithinParent(l, q) ==
  /\ l.maxDepth <= principals[q].limits.maxDepth
  /\ l.maxChildren <= principals[q].limits.maxChildren
  /\ l.expires <= principals[q].limits.expires

\* handleRemoteAccessControl, issue_child_enrollment: below a principal that
\* proves itself and has room.
IssueChild(q, r) ==
  LET l == Granted(r, principals[q].limits.depth + 1)
  IN
  /\ Valid(q) /\ principals[q].limits.canDelegate
  /\ Cardinality(Charged(q)) < principals[q].limits.maxChildren
  /\ WithinParent(l, q)
  /\ Issue(q, principals[q].root, l, r.until)

\* consumeEnrollment: a token serves once.  One that has expired is gone and
\* serves nobody; the parent is not looked at again.
Consume(t) ==
  /\ enrollments[t].parent # None /\ Known # Ids
  /\ enrollments' = [enrollments EXCEPT ![t] = NoEnrollment]
  /\ principals' = IF enrollments[t].until <= now THEN principals
       ELSE [principals EXCEPT ![NewId] =
              [state |-> "active", gen |-> 1, parent |-> enrollments[t].parent,
               root |-> enrollments[t].root, limits |-> enrollments[t].limits]]
  /\ UNCHANGED <<now, adopted>>

\* adopt_subtree: the new parent is local, or a principal not revoked.
CanAdopt(q) == q \in Locals \/ (q \in Known /\ principals[q].state = "active")

\* Mutant of Cancelled: the tokens of the subtree stay good.
CancelledNone(below) == enrollments

\* The tokens that the subtree has issued are cancelled.
Cancelled(below) ==
  [t \in Tokens |-> IF enrollments[t].parent \in below THEN NoEnrollment ELSE enrollments[t]]

Adopt(p, q) ==
  LET below == Subtree(p)
  IN
  /\ p \in Known /\ CanAdopt(q) /\ ~WouldCycle(p, q)
  /\ \A c \in below : principals[c].gen < MaxGeneration
  /\ principals' = [c \in Ids |->
       IF c \notin below THEN principals[c]
       ELSE [principals[c] EXCEPT !.gen = @ + 1, !.root = RootOf(q),
                                  !.parent = IF c = p THEN q ELSE @]]
  /\ enrollments' = Cancelled(below)
  /\ adopted' = adopted \cup {p}
  /\ UNCHANGED now

\* revoke_subtree.
Revoke(p) ==
  LET below == Subtree(p)
  IN
  /\ p \in Known
  /\ \A c \in below : principals[c].gen < MaxGeneration
  /\ principals' = Revoked([c \in Ids |-> IF c \in below THEN 1 ELSE 0])
  /\ UNCHANGED <<enrollments, now, adopted>>

\* expirePrincipals goes through the expired ones by depth, and passes over what
\* it has revoked already.  Adoption does not change depths: one may come before
\* its own ancestor, and is then revoked once more with it.
Expired == {p \in Known : principals[p].state = "active" /\ principals[p].limits.expires <= now}
Processed(R) ==
  LET Depth(p) == principals[p].limits.depth
  IN /\ \A r, x \in R : r # x /\ r \in Subtree(x) => Depth(r) <= Depth(x)
     /\ \A p \in Expired \ R : \E r \in R : p \in Subtree(r) /\ Depth(r) <= Depth(p)
Sweep ==
  \E R \in SUBSET Expired :
    /\ R # {} /\ Processed(R)
    /\ principals' = Revoked([c \in Ids |-> Cardinality({r \in R : c \in Subtree(r)})])
    /\ UNCHANGED <<enrollments, now, adopted>>

Tick ==
  /\ now < MaxClock /\ now' = now + 1
  /\ UNCHANGED <<principals, enrollments, adopted>>

-----------------------------------------------------------------------------
RegistryInit ==
  /\ principals = [p \in Ids |-> NoPrincipal]
  /\ enrollments = [t \in Tokens |-> NoEnrollment]
  /\ now = 0 /\ adopted = {}

RegistryNext ==
  \/ \E r \in Requests : \/ \E parent \in Locals : IssueRoot(parent, r)
                         \/ \E q \in Ids : IssueChild(q, r)
  \/ \E t \in Tokens : Consume(t)
  \/ \E p \in Ids, q \in Ids \cup Locals : Adopt(p, q)
  \/ \E p \in Ids : Revoke(p)
  \/ Sweep \/ Tick

RegistrySpec == RegistryInit /\ [][RegistryNext]_vars

-----------------------------------------------------------------------------
(* What is promised.                                                       *)

\* Whoever is below somebody, or holds a token to be, is in the same tree: the
\* root it was given is the root its parent has now, although a token is used
\* long after it was made and its parent may have been moved meanwhile.
RootIsShared ==
  /\ \A p \in Known : principals[p].root = RootOf(principals[p].parent)
  /\ \A t \in Tokens : enrollments[t].parent # None =>
                         enrollments[t].root = RootOf(enrollments[t].parent)

\* No adoptions, in any order, make principals each other's owners: of any
\* principals, one has its parent outside.
NoOwnershipCycle ==
  \A S \in SUBSET Known : S # {} => \E p \in S : principals[p].parent \notin S

\* A principal has never issued more than it may have: with the tokens that are
\* still out, its own children are within its limit, so that no order of issuing,
\* using and expiring gets past it.  What an adoption brought is not counted.
DelegatedWithinLimit ==
  \A q \in Known :
    Cardinality(Charged(q) \ adopted) <= principals[q].limits.maxChildren

\* Nobody below a principal has wider limits than it, down the tree, in tokens
\* already out too ("cannot widen parent limits", access-registry.test.ts:140).
LimitsNarrow ==
  LET Narrow(l, q) ==
        /\ WithinCode(l, q) /\ l.depth = principals[q].limits.depth + 1
        /\ l.depth <= l.maxDepth /\ l.maxDepth <= principals[q].limits.maxDepth
        /\ l.maxChildren <= principals[q].limits.maxChildren
        /\ l.expires <= principals[q].limits.expires
  IN /\ \A p \in Known \ adopted : principals[p].parent \in Ids =>
                                     Narrow(principals[p].limits, principals[p].parent)
     /\ \A t \in Tokens : enrollments[t].parent \in Ids =>
                            Narrow(enrollments[t].limits, enrollments[t].parent)

\* When a credential stops being good because its generation is over, those of
\* everybody below stop too, however the transition came about.
FencingIsWhole ==
  [][\A p \in Known : principals'[p].gen # principals[p].gen =>
       \A c \in Known : c # p /\ principals[c].parent = p =>
         principals'[c].gen > principals[c].gen]_vars
=============================================================================
