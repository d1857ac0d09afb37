--------------------------- MODULE Scopes_proofs ----------------------------
(***************************************************************************)
(* Theorems about Scopes, for all paths: overlapping scopes are those that *)
(* claim a path together, and what expanding a lock does to the items      *)
(* outside it.  RunLoop and HumanDecisions take the overlap of items and   *)
(* the conflict of locks as relations; here is what those relations are.   *)
(***************************************************************************)
EXTENDS Scopes, TLAPS

ItemsOver(Names) == [path : Seq(Names), dir : BOOLEAN]

\* An item claims itself and, when it is a directory, what is below it.
Claims(item, x) == x = item \/ (item.dir /\ IsStrictPrefix(item.path, x.path))

\* A lock with no in-scope item claims everything.
ScopeClaims(scope, x) == scope = {} \/ \E item \in scope : Claims(item, x)

-----------------------------------------------------------------------------
(***************************************************************************)
(* Prefixes.                                                               *)
(***************************************************************************)
LEMMA PrefixAgrees ==
  ASSUME NEW Names, NEW s \in Seq(Names), NEW t \in Seq(Names)
  PROVE  IsPrefix(s, t) <=> Len(s) <= Len(t) /\ \A i \in 1 .. Len(s) : s[i] = t[i]
<1>1. CASE Len(s) <= Len(t)
  <2>1. SubSeq(s, 1, Len(s)) = [i \in 1 .. Len(s) |-> s[i]]
    OBVIOUS
  <2>2. SubSeq(t, 1, Len(s)) = [i \in 1 .. Len(s) |-> t[i]]
    OBVIOUS
  <2>3. QED
    BY <1>1, <2>1, <2>2 DEF IsPrefix
<1>2. CASE ~(Len(s) <= Len(t))
  BY <1>2 DEF IsPrefix
<1>3. QED
  BY <1>1, <1>2

\* Of two prefixes of one path, one is a prefix of the other.
LEMMA PrefixesNest ==
  ASSUME NEW Names, NEW s \in Seq(Names), NEW t \in Seq(Names), NEW u \in Seq(Names),
         IsStrictPrefix(s, u), IsStrictPrefix(t, u)
  PROVE  s = t \/ IsStrictPrefix(s, t) \/ IsStrictPrefix(t, s)
<1>1. /\ Len(s) <= Len(u) /\ \A i \in 1 .. Len(s) : s[i] = u[i]
      /\ Len(t) <= Len(u) /\ \A i \in 1 .. Len(t) : t[i] = u[i]
  BY PrefixAgrees DEF IsStrictPrefix
<1>2. CASE Len(s) <= Len(t)
  <2>1. \A i \in 1 .. Len(s) : s[i] = t[i]
    BY <1>1, <1>2
  <2>2. QED
    BY <1>2, <2>1, PrefixAgrees DEF IsStrictPrefix
<1>3. CASE Len(t) <= Len(s)
  <2>1. \A i \in 1 .. Len(t) : t[i] = s[i]
    BY <1>1, <1>3
  <2>2. QED
    BY <1>3, <2>1, PrefixAgrees DEF IsStrictPrefix
<1>4. QED
  BY <1>2, <1>3

-----------------------------------------------------------------------------
(***************************************************************************)
(* Overlap.                                                                *)
(***************************************************************************)
LEMMA OverlapIsShared ==
  ASSUME NEW Names, NEW a \in ItemsOver(Names), NEW b \in ItemsOver(Names)
  PROVE  ItemsOverlap(a, b) <=> \E x \in ItemsOver(Names) : Claims(a, x) /\ Claims(b, x)
<1>1. ASSUME ItemsOverlap(a, b) PROVE \E x \in ItemsOver(Names) : Claims(a, x) /\ Claims(b, x)
  BY <1>1 DEF ItemsOverlap, Claims
<1>2. ASSUME NEW x \in ItemsOver(Names), Claims(a, x), Claims(b, x) PROVE ItemsOverlap(a, b)
  <2>1. CASE x = a \/ x = b
    BY <1>2, <2>1 DEF Claims, ItemsOverlap
  <2>2. CASE x # a /\ x # b
    <3>1. /\ a.dir /\ IsStrictPrefix(a.path, x.path)
          /\ b.dir /\ IsStrictPrefix(b.path, x.path)
      BY <1>2, <2>2 DEF Claims
    <3>2. /\ a.path \in Seq(Names) /\ b.path \in Seq(Names) /\ x.path \in Seq(Names)
          /\ a.dir \in BOOLEAN /\ b.dir \in BOOLEAN
          /\ a = [path |-> a.path, dir |-> a.dir] /\ b = [path |-> b.path, dir |-> b.dir]
      BY DEF ItemsOver
    <3>3. \/ a.path = b.path \/ IsStrictPrefix(a.path, b.path) \/ IsStrictPrefix(b.path, a.path)
      BY <3>1, <3>2, PrefixesNest
    <3>4. QED
      BY <3>1, <3>2, <3>3 DEF ItemsOverlap
  <2>3. QED
    BY <2>1, <2>2
<1>3. QED
  BY <1>1, <1>2

\* Two locks overlap exactly if some path is claimed by both of them: the check
\* neither misses shared work nor blocks runs that share none.
THEOREM ScopesOverlapWhenShared ==
  ASSUME NEW Names, NEW left \in SUBSET ItemsOver(Names), NEW right \in SUBSET ItemsOver(Names)
  PROVE  ScopesOverlap(left, right)
           <=> \E x \in ItemsOver(Names) : ScopeClaims(left, x) /\ ScopeClaims(right, x)
<1>1. CASE left # {} /\ right # {}
  BY <1>1, OverlapIsShared DEF ScopesOverlap, ScopeClaims
<1>2. CASE left = {} \/ right = {}
  <2>1. \E x \in ItemsOver(Names) : ScopeClaims(left, x) /\ ScopeClaims(right, x)
    <3>1. \A item \in ItemsOver(Names) : Claims(item, item)
      BY DEF Claims
    <3>2. CASE left = {} /\ right = {}
      <4>1. Blank \in ItemsOver(Names)
        BY DEF Blank, Item, ItemsOver
      <4>2. QED
        BY <3>2, <4>1 DEF ScopeClaims
    <3>3. CASE left # {} \/ right # {}
      <4>1. PICK x \in left \cup right : TRUE
        BY <3>3
      <4>2. QED
        BY <1>2, <3>1, <4>1 DEF ScopeClaims
    <3>4. QED
      BY <3>2, <3>3
  <2>2. QED
    BY <1>2, <2>1 DEF ScopesOverlap
<1>3. QED
  BY <1>1, <1>2

\* The conflicts of any tasks, whatever locks they have, meet what RunLoop
\* assumes of them: the later of two contenders sees the earlier one, whichever
\* that is.
THEOREM ConflictsAreMutual ==
  ASSUME NEW Tasks, NEW lockOf
  PROVE  LET conflicts == {p \in Tasks \X Tasks :
                             p[1] # p[2] /\ LocksConflict(lockOf[p[1]], lockOf[p[2]])}
         IN  /\ \A a, b \in Tasks : <<a, b>> \in conflicts => <<b, a>> \in conflicts
             /\ \A a \in Tasks : <<a, a>> \notin conflicts
<1>1. ASSUME NEW a, NEW b, ItemsOverlap(a, b) PROVE ItemsOverlap(b, a)
  BY <1>1 DEF ItemsOverlap
<1>2. ASSUME NEW a, NEW b, LocksConflict(a, b) PROVE LocksConflict(b, a)
  BY <1>1, <1>2 DEF LocksConflict, ScopesOverlap
<1>3. QED
  BY <1>2

-----------------------------------------------------------------------------
(***************************************************************************)
(* Expanding a lock, as _expanded_intent_lock does: the items a request    *)
(* names are added to in_scope, and out_of_scope stays.                    *)
(***************************************************************************)
ExpandedBy(lock, added) == [lock EXCEPT !.inScope = lock.inScope \cup added]

LockTypes(Names) ==
  [inScope : SUBSET ItemsOver(Names), outOfScope : SUBSET ItemsOver(Names)]

\* A lock that names an in_scope only widens by expansion, and comes to allow
\* what it was expanded by unless its out_of_scope forbids that.
THEOREM ExpandingWidens ==
  ASSUME NEW Names, NEW lock \in LockTypes(Names), lock.inScope # {},
         NEW added \in SUBSET ItemsOver(Names), NEW found \in SUBSET ItemsOver(Names)
  PROVE  /\ OutsideScope(ExpandedBy(lock, added), found) \subseteq OutsideScope(lock, found)
         /\ \A item \in added \cap OutsideScope(ExpandedBy(lock, added), found) :
              \E o \in lock.outOfScope : ItemsOverlap(item, o)
<1>1. /\ ExpandedBy(lock, added).inScope = lock.inScope \cup added
      /\ ExpandedBy(lock, added).outOfScope = lock.outOfScope
  BY DEF ExpandedBy, LockTypes
<1>2. QED
  BY <1>1 DEF OutsideScope, ItemsOverlap

\* A lock without in_scope allows everything its out_of_scope does not touch;
\* expanding it gives it an in_scope, and from then on it allows only that.
\* Expanding such a lock narrows it.
THEOREM ExpandingNarrowsTheUnscoped ==
  ASSUME NEW Names, NEW lock \in LockTypes(Names), lock.inScope = {},
         NEW added \in SUBSET ItemsOver(Names), added # {},
         NEW found \in SUBSET ItemsOver(Names)
  PROVE  /\ OutsideScope(lock, found) \subseteq OutsideScope(ExpandedBy(lock, added), found)
         /\ \A item \in found \ {Blank} :
              (\A a \in added : ~ItemsOverlap(item, a))
                => item \in OutsideScope(ExpandedBy(lock, added), found)
<1>1. /\ ExpandedBy(lock, added).inScope = added
      /\ ExpandedBy(lock, added).outOfScope = lock.outOfScope
  BY DEF ExpandedBy, LockTypes
<1>2. QED
  BY <1>1 DEF OutsideScope
=============================================================================
