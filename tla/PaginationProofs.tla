--------------------------- MODULE PaginationProofs ---------------------------
(***************************************************************************)
(* Proofs about Pagination, for any number of items and any page sizes.    *)
(***************************************************************************)
EXTENDS Pagination, FiniteSetTheorems, WellFoundedInduction, TLAPS

------------------------------------------------------------------------------
(* Finite sets of numbers.                                                 *)

(* A set of natural numbers that is not empty has a least element.         *)
LEMMA HasLeast ==
  ASSUME NEW S \in SUBSET Nat, S # {}
  PROVE  \E x \in S : \A y \in S : x <= y
<1> DEFINE Below == {ss \in Nat \X Nat : ss[1] < ss[2]}
<1>1. IsWellFoundedOn(Below, Nat)
  BY NatLessThanWellFounded DEF OpToRel
<1> HIDE DEF Below
<1>2. PICK x \in S : \A y \in S : <<y, x>> \notin Below
  BY <1>1, WFMin
<1>3. ASSUME NEW y \in S PROVE x <= y
  <2>1. ~(y < x)
    BY <1>2 DEF Below
  <2> QED BY <2>1
<1> QED BY <1>3

(* A bounded set of numbers that is not empty has a greatest element.      *)
LEMMA HasGreatest ==
  ASSUME NEW n \in Nat, NEW S \in SUBSET (0 .. n), S # {}
  PROVE  \E x \in S : \A y \in S : x >= y
<1> DEFINE T == {n - x : x \in S}
<1>1. T \in SUBSET Nat /\ T # {}
  <2>1. \A x \in S : n - x \in Nat
    OBVIOUS
  <2> QED BY <2>1
<1>2. PICK z \in T : \A y \in T : z <= y
  <2> HIDE DEF T
  <2> QED BY <1>1, HasLeast
<1>3. PICK x \in S : z = n - x
  BY <1>2
<1>4. ASSUME NEW y \in S PROVE x >= y
  <2>1. n - y \in T /\ z <= n - y
    BY <1>2
  <2> QED BY <1>3, <2>1
<1> QED BY <1>4

(* Max and Min of the community modules.                                   *)
LEMMA MaxIsMax ==
  ASSUME NEW n \in Nat, NEW S \in SUBSET (0 .. n), S # {}
  PROVE  Max(S) \in S /\ \A y \in S : y <= Max(S)
<1>1. \E x \in S : \A y \in S : x >= y
  BY HasGreatest
<1>2. Max(S) \in S /\ \A y \in S : Max(S) >= y
  BY <1>1 DEF Max
<1> QED BY <1>2

(* The smaller of two numbers, as the community modules define it.         *)
LEMMA MinOfTwo ==
  ASSUME NEW a \in Nat, NEW b \in Nat
  PROVE  Min({a, b}) = IF a <= b THEN a ELSE b
<1>1. Min({a, b}) \in {a, b} /\ \A y \in {a, b} : Min({a, b}) <= y
  <2>1. \E x \in {a, b} : \A y \in {a, b} : x <= y
    BY HasLeast
  <2> QED BY <2>1 DEF Min
<1> QED BY <1>1

------------------------------------------------------------------------------
(* The lowest n items of a set (the LIMIT clause of the query, and the     *)
(* loop over the names).                                                   *)

(* Listings are finite.                                                    *)
LEMMA ItemsFinite ==
  ASSUME NEW S \in SUBSET Items
  PROVE  IsFiniteSet(S) /\ Cardinality(S) \in Nat /\ S \in SUBSET Nat /\ S \in SUBSET (0 .. LastItem)
<1>n. LastItem \in Nat
  BY PaginationAssumption
<1>0. ASSUME NEW x \in S PROVE x \in Nat /\ x <= LastItem /\ x \in 0 .. LastItem
  <2>1. x \in 1 .. LastItem
    BY DEF Items
  <2> QED BY <1>n, <2>1
<1>1. S \in SUBSET Nat /\ S \in SUBSET (0 .. LastItem) /\ \A x \in S : x <= LastItem
  BY <1>0
<1>2. IsFiniteSet(S)
  BY <1>1, <1>n, FS_BoundedSetOfNaturals
<1>3. Cardinality(S) \in Nat
  BY <1>2, FS_CardinalityType
<1> QED BY <1>1, <1>2, <1>3

(* They are items of the set, and everything below one of them is, too.    *)
LEMMA LowestIsInitial ==
  ASSUME NEW S \in SUBSET Items, NEW n \in Nat
  PROVE  /\ Lowest(S, n) \in SUBSET S /\ Lowest(S, n) \in SUBSET Items
         /\ \A x \in Lowest(S, n), y \in S : y <= x => y \in Lowest(S, n)
<1>1. Lowest(S, n) \in SUBSET S /\ Lowest(S, n) \in SUBSET Items
  BY DEF Lowest
<1>2. ASSUME NEW x \in Lowest(S, n), NEW y \in S, y <= x
      PROVE  y \in Lowest(S, n)
  <2> DEFINE X == {z \in S : z <= x}
             Y == {z \in S : z <= y}
  <2>1. S \in SUBSET Nat /\ x \in Nat /\ y \in Nat
    BY <1>1, ItemsFinite
  <2>2. Y \in SUBSET X /\ X \in SUBSET Items /\ Y \in SUBSET Items
    <3>1. \A z \in Nat : z <= y => z <= x
      BY <1>2, <2>1
    <3> QED BY <2>1, <3>1
  <2>3. IsFiniteSet(X) /\ Cardinality(X) \in Nat /\ Cardinality(Y) \in Nat
    BY <2>2, ItemsFinite
  <2>4. Cardinality(Y) <= Cardinality(X)
    BY <2>2, <2>3, FS_Subset
  <2>5. Cardinality(X) <= n
    BY DEF Lowest
  <2>6. Cardinality(Y) <= n
    <3> HIDE DEF X, Y
    <3> QED BY <2>3, <2>4, <2>5
  <2> QED BY <2>6 DEF Lowest
<1> QED BY <1>1, <1>2

(* There are at most n of them.                                            *)
LEMMA LowestIsShort ==
  ASSUME NEW S \in SUBSET Items, NEW n \in Nat
  PROVE  Cardinality(Lowest(S, n)) \in Nat /\ Cardinality(Lowest(S, n)) <= n
<1>1. Lowest(S, n) \in SUBSET Items /\ Lowest(S, n) \in SUBSET S
  BY LowestIsInitial
<1>2. Cardinality(Lowest(S, n)) \in Nat
  BY <1>1, ItemsFinite
<1>3. CASE Lowest(S, n) = {}
  BY <1>3, FS_EmptySet
<1>4. CASE Lowest(S, n) # {}
  <2>1. PICK m \in Lowest(S, n) : \A y \in Lowest(S, n) : m >= y
    <3>1. LastItem \in Nat
      BY PaginationAssumption
    <3>2. Lowest(S, n) \in SUBSET (0 .. LastItem)
      BY <1>1, ItemsFinite
    <3> QED BY <1>4, <3>1, <3>2, HasGreatest
  <2>2. Lowest(S, n) = {y \in S : y <= m}
    <3>1. ASSUME NEW y \in Lowest(S, n) PROVE y \in S /\ y <= m
      BY <1>1, <2>1, ItemsFinite
    <3>2. ASSUME NEW y \in S, y <= m PROVE y \in Lowest(S, n)
      BY <3>2, LowestIsInitial
    <3> QED BY <3>1, <3>2
  <2>3. Cardinality({y \in S : y <= m}) <= n
    BY DEF Lowest
  <2> QED BY <1>2, <2>2, <2>3
<1> QED BY <1>2, <1>3, <1>4

(* If there are fewer than n, or the set has no more, they are all.        *)
LEMMA LowestIsAll ==
  ASSUME NEW S \in SUBSET Items, NEW n \in Nat,
         Cardinality(Lowest(S, n)) < n \/ Cardinality(S) <= n
  PROVE  Lowest(S, n) = S
<1> SUFFICES ASSUME Lowest(S, n) # S PROVE FALSE
  OBVIOUS
<1> DEFINE L == Lowest(S, n)
<1>0. /\ L \in SUBSET S /\ S \in SUBSET Nat /\ IsFiniteSet(L) /\ Cardinality(L) \in Nat
      /\ IsFiniteSet(S) /\ Cardinality(S) \in Nat
  BY LowestIsInitial, ItemsFinite
<1>1. S \ L \in SUBSET Nat /\ S \ L # {}
  BY <1>0
<1>2. PICK x \in S \ L : \A y \in S \ L : x <= y
  BY <1>1, HasLeast
<1> DEFINE X == {y \in S : y <= x}
<1>3. X \in SUBSET (L \cup {x}) /\ X \in SUBSET S
  <2>1. ASSUME NEW y \in X, y \notin L PROVE y = x
    BY <1>0, <1>2, <2>1
  <2> QED BY <2>1
<1>4. IsFiniteSet(L \cup {x}) /\ Cardinality(L \cup {x}) = Cardinality(L) + 1
  BY <1>0, <1>2, FS_AddElement
<1>5. Cardinality(X) \in Nat /\ Cardinality(X) <= Cardinality(L) + 1 /\ Cardinality(X) <= Cardinality(S)
  <2>1. Cardinality(X) <= Cardinality(L \cup {x}) /\ Cardinality(X) <= Cardinality(S) /\ IsFiniteSet(X)
    BY <1>0, <1>3, <1>4, FS_Subset
  <2> QED BY <1>4, <2>1, FS_CardinalityType
<1>6. ~(Cardinality(X) <= n)
  BY <1>2 DEF Lowest
<1> HIDE DEF X, L
<1> QED BY <1>0, <1>5, <1>6 DEF L

------------------------------------------------------------------------------
(* One page.                                                               *)

(* The number of items that a page may have.                               *)
LEMMA LimitRange ==
  ASSUME NEW want \in PageSizes \cup {NULL}
  PROVE  /\ limit(want) \in Nat /\ limit(want) <= Largest
         /\ 0 \notin PageSizes => limit(want) >= 1
<1>n. /\ Default \in Nat /\ Largest \in Nat /\ Default >= 1 /\ Largest >= 1 /\ Default <= Largest
      /\ PageSizes \subseteq Nat
  <2>1. Default \in Nat \ {0} /\ Largest \in Nat \ {0} /\ Default <= Largest /\ PageSizes \subseteq Nat
    BY PaginationAssumption
  <2> QED BY <2>1
<1>1. CASE want = NULL
  BY <1>1, <1>n DEF limit
<1>2. CASE want # NULL
  <2>1. want \in Nat /\ limit(want) = Min({want, Largest})
    BY <1>2, <1>n DEF limit
  <2>2. limit(want) = IF want <= Largest THEN want ELSE Largest
    BY <1>n, <2>1, MinOfTwo
  <2> QED BY <1>2, <1>n, <2>1, <2>2
<1> QED BY <1>1, <1>2

Tokens == [magic : {"id", "string"}, last : Nat]

(* What a page says: the token names its last item and the page has all    *)
(* that remains up to there, or there is no token and the page has all     *)
(* that remains.                                                           *)
GoodPage(out, next) ==
  IF next = NULL
  THEN out = Remaining
  ELSE /\ next \in Tokens
       /\ next.last \in out
       /\ \A x \in out : x <= next.last
       /\ \A x \in Remaining : x <= next.last => x \in out

(* What is left of a listing beyond the token.                             *)
LEMMA RemainingType ==
  ASSUME TypeOK
  PROVE  /\ Remaining \in SUBSET Items /\ Remaining \in SUBSET items /\ lastSeen \in Nat
         /\ \A x \in Remaining : x \in Nat /\ x > lastSeen
<1>1. Remaining \in SUBSET Items /\ Remaining \in SUBSET items
  BY DEF Remaining, TypeOK
<1>2. lastSeen \in Nat
  <2>1. token \in Tokens \cup {NULL}
    BY DEF TypeOK, Tokens
  <2> QED BY <2>1 DEF lastSeen, Tokens
<1>3. \A x \in Remaining : x \in Nat
  BY <1>1, ItemsFinite
<1> QED BY <1>1, <1>2, <1>3 DEF Remaining

(* The page of a table, with one row read beyond it (list.go, ListPtr).    *)
LEMMA TablePage ==
  ASSUME TypeOK, NEW want \in PageSizes \cup {NULL}, ListPtr(want)
  PROVE  \E out \in SUBSET Items, next \in Tokens \cup {NULL} :
           /\ Receive(out, next) /\ out \in SUBSET Remaining /\ Cardinality(out) <= Largest
           /\ 0 \notin PageSizes => GoodPage(out, next)
<1> DEFINE n == limit(want)
           rows == Lowest(Remaining, n + 1)
           out == Lowest(rows, n)
           next == IF Cardinality(rows) > n THEN fromLastSeenId(Max(out \cup {0})) ELSE NULL
<1>n. /\ n \in Nat /\ n + 1 \in Nat /\ n <= Largest /\ Largest \in Nat
      /\ 0 \notin PageSizes => n >= 1
  <2>1. n \in Nat /\ n <= Largest /\ (0 \notin PageSizes => n >= 1)
    BY LimitRange
  <2>2. Largest \in Nat \ {0}
    BY PaginationAssumption
  <2> HIDE DEF n
  <2> QED BY <2>1, <2>2
<1>1. Remaining \in SUBSET Items
  BY RemainingType
<1>h. Receive(out, next)
  BY DEF ListPtr
<1> HIDE DEF n
<1>2. rows \in SUBSET Remaining /\ rows \in SUBSET Items /\ Cardinality(rows) \in Nat
  BY <1>n, <1>1, LowestIsInitial, LowestIsShort
<1>3. out \in SUBSET rows /\ out \in SUBSET Items /\ Cardinality(out) \in Nat /\ Cardinality(out) <= n
  BY <1>n, <1>2, LowestIsInitial, LowestIsShort
<1>m. /\ Max(out \cup {0}) \in out \cup {0} /\ Max(out \cup {0}) \in Nat
      /\ \A y \in out \cup {0} : y <= Max(out \cup {0})
  <2>1. LastItem \in Nat /\ out \cup {0} # {}
    BY PaginationAssumption
  <2>2. out \cup {0} \in SUBSET (0 .. LastItem)
    BY <1>3, <2>1, ItemsFinite
  <2>3. /\ Max(out \cup {0}) \in out \cup {0}
        /\ \A y \in out \cup {0} : y <= Max(out \cup {0})
    BY <2>1, <2>2, MaxIsMax
  <2>4. out \in SUBSET Nat
    BY <1>3, ItemsFinite
  <2> DEFINE m == Max(out \cup {0})
  <2> HIDE DEF out, m
  <2>5. m \in out \cup {0} /\ \A y \in out \cup {0} : y <= m
    BY <2>3 DEF m
  <2>6. m \in Nat
    BY <2>4, <2>5
  <2> QED BY <2>5, <2>6 DEF m
<1>4. next \in Tokens \cup {NULL}
  BY <1>m DEF fromLastSeenId, Tokens
<1>5. ASSUME 0 \notin PageSizes PROVE GoodPage(out, next)
  <2>1. CASE Cardinality(rows) > n
    <3>1. out # {}
      <4>1. CASE Cardinality(out) < n
        <5>1. out = rows
          BY <1>n, <1>2, <4>1, LowestIsAll
        <5> QED BY <1>2, <1>3, <1>n, <2>1, <4>1, <5>1
      <4>2. CASE Cardinality(out) >= n
        <5>1. Cardinality(out) # 0
          BY <1>n, <1>3, <1>5, <4>2
        <5> QED BY <5>1, FS_EmptySet
      <4> QED BY <1>n, <1>3, <4>1, <4>2
    <3>2. next # NULL /\ next \in Tokens /\ next.last = Max(out \cup {0})
      BY <1>m, <2>1, TokenAssumption DEF fromLastSeenId, Tokens
    <3>3. next.last \in out /\ \A x \in out : x <= next.last
      <4>1. PICK y \in out : TRUE
        BY <3>1
      <4>2. y \in Nat /\ y # 0
        <5>1. y \in 1 .. LastItem /\ LastItem \in Nat
          BY <1>3, PaginationAssumption DEF Items
        <5> QED BY <5>1
      <4>3. y <= next.last
        BY <1>m, <3>2
      <4> QED BY <1>m, <3>2, <4>2, <4>3
    <3>4. ASSUME NEW x \in Remaining, x <= next.last PROVE x \in out
      <4>1. next.last \in rows
        BY <1>3, <3>3
      <4>2. x \in rows
        BY <1>n, <1>1, <3>4, <4>1, LowestIsInitial
      <4> QED BY <1>n, <1>2, <3>3, <3>4, <4>2, LowestIsInitial
    <3> HIDE DEF out, next
    <3> QED BY <3>2, <3>3, <3>4 DEF GoodPage
  <2>2. CASE ~(Cardinality(rows) > n)
    <3>1. rows = Remaining
      BY <1>n, <1>1, <1>2, <2>2, LowestIsAll
    <3>2. out = rows
      BY <1>n, <1>2, <2>2, LowestIsAll
    <3>3. next = NULL
      BY <2>2
    <3> HIDE DEF out, next
    <3> QED BY <3>1, <3>2, <3>3 DEF GoodPage
  <2> QED BY <2>1, <2>2
<1>6. out \in SUBSET Remaining /\ Cardinality(out) <= Largest
  <2>1. Cardinality(out) <= Largest
    <3> HIDE DEF out
    <3> QED BY <1>n, <1>3
  <2> QED BY <1>2, <1>3, <2>1
<1> HIDE DEF out, next
<1> QED BY <1>h, <1>3, <1>4, <1>5, <1>6

(* The page of a directory (list.go, ListFromStrings).                     *)
LEMMA DirectoryPage ==
  ASSUME TypeOK, NEW want \in PageSizes \cup {NULL}, ListFromStrings(want)
  PROVE  \E out \in SUBSET Items, next \in Tokens \cup {NULL} :
           /\ Receive(out, next) /\ out \in SUBSET Remaining /\ Cardinality(out) <= Largest
           /\ 0 \notin PageSizes => GoodPage(out, next)
<1> DEFINE n == limit(want)
           k == Max({n, 1})
           out == Lowest(Remaining, k)
           next == IF Cardinality(out) = n /\ out # {}
                   THEN fromLastSeenString(Max(out)) ELSE NULL
<1>n. /\ n \in Nat /\ n <= Largest /\ Largest \in Nat /\ Largest >= 1
      /\ 0 \notin PageSizes => n >= 1
  <2>1. n \in Nat /\ n <= Largest /\ (0 \notin PageSizes => n >= 1)
    BY LimitRange
  <2>2. Largest \in Nat \ {0}
    BY PaginationAssumption
  <2> HIDE DEF n
  <2> QED BY <2>1, <2>2
<1>1. Remaining \in SUBSET Items
  BY RemainingType
<1>h. Receive(out, next)
  BY DEF ListFromStrings
<1> HIDE DEF n
<1>k. k = IF n >= 1 THEN n ELSE 1
  <2>1. \E x \in {n, 1} : \A y \in {n, 1} : x >= y
    BY <1>n
  <2>2. k \in {n, 1} /\ \A y \in {n, 1} : k >= y
    BY <2>1 DEF Max
  <2> QED BY <1>n, <2>2
<1> HIDE DEF k
<1>2. k \in Nat /\ k <= Largest /\ (0 \notin PageSizes => k = n)
  BY <1>n, <1>k
<1>3. /\ out \in SUBSET Remaining /\ out \in SUBSET Items
      /\ Cardinality(out) \in Nat /\ Cardinality(out) <= k
  BY <1>1, <1>2, LowestIsInitial, LowestIsShort
<1>m. ASSUME out # {}
      PROVE  Max(out) \in out /\ Max(out) \in Nat /\ \A y \in out : y <= Max(out)
  <2>1. LastItem \in Nat /\ out \in SUBSET (0 .. LastItem) /\ out \in SUBSET Nat
    BY <1>3, ItemsFinite, PaginationAssumption
  <2>2. Max(out) \in out /\ \A y \in out : y <= Max(out)
    BY <1>m, <2>1, MaxIsMax
  <2> QED BY <2>1, <2>2
<1>4. next \in Tokens \cup {NULL}
  BY <1>m DEF fromLastSeenString, Tokens
<1>5. ASSUME 0 \notin PageSizes PROVE GoodPage(out, next)
  <2>1. CASE Cardinality(out) = n /\ out # {}
    <3>2. next # NULL /\ next \in Tokens /\ next.last = Max(out)
      BY <1>m, <2>1, TokenAssumption DEF fromLastSeenString, Tokens
    <3>3. next.last \in out /\ \A x \in out : x <= next.last
      BY <1>m, <2>1, <3>2
    <3>4. ASSUME NEW x \in Remaining, x <= next.last PROVE x \in out
      BY <1>1, <1>2, <3>3, <3>4, LowestIsInitial
    <3> HIDE DEF out, next
    <3> QED BY <3>2, <3>3, <3>4 DEF GoodPage
  <2>2. CASE ~(Cardinality(out) = n /\ out # {})
    <3>1. Cardinality(out) < k
      <4>1. CASE out = {}
        <5>1. Cardinality(out) = 0
          BY <4>1, FS_EmptySet
        <5> QED BY <1>n, <1>2, <1>5, <5>1
      <4>2. CASE out # {}
        <5>1. Cardinality(out) # n
          BY <2>2, <4>2
        <5> HIDE DEF out
        <5> QED BY <1>n, <1>2, <1>3, <1>5, <5>1
      <4> QED BY <4>1, <4>2
    <3>2. out = Remaining
      BY <1>1, <1>2, <3>1, LowestIsAll
    <3>3. next = NULL
      BY <2>2
    <3> HIDE DEF out, next
    <3> QED BY <3>2, <3>3 DEF GoodPage
  <2> QED BY <2>1, <2>2
<1>6. Cardinality(out) <= Largest
  <2> HIDE DEF out
  <2> QED BY <1>n, <1>2, <1>3
<1> HIDE DEF out, next
<1> QED BY <1>h, <1>3, <1>4, <1>5, <1>6

------------------------------------------------------------------------------
(* The walk.                                                               *)

(* Every page that a request returns is one of the two.                    *)
LEMMA PageOfRequest ==
  ASSUME TypeOK, Request
  PROVE  \E out \in SUBSET Items, next \in Tokens \cup {NULL} :
           /\ Receive(out, next) /\ out \in SUBSET Remaining /\ Cardinality(out) <= Largest
           /\ 0 \notin PageSizes => GoodPage(out, next)
<1>1. PICK want \in PageSizes \cup {NULL} : ListPtr(want) \/ ListFromStrings(want)
  BY DEF Request, ListCards, ListMovieEditionKinds, ListMedia, ListMediaSets, ListInboxDVDs
<1>2. CASE ListPtr(want)
  BY <1>2, TablePage
<1>3. CASE ListFromStrings(want)
  BY <1>3, DirectoryPage
<1> QED BY <1>1, <1>2, <1>3

(* The types hold initially.                                               *)
LEMMA TypeInit == Init => TypeOK
<1> SUFFICES ASSUME Init PROVE TypeOK
  OBVIOUS
<1>1. Cardinality({}) <= Largest
  <2>1. Largest \in Nat /\ Cardinality({}) = 0
    BY FS_EmptySet, PaginationAssumption
  <2> QED BY <2>1
<1> QED BY <1>1 DEF Init, TypeOK

(* Every step keeps the types.                                             *)
LEMMA TypeNext == TypeOK /\ [Next]_vars => TypeOK'
<1> SUFFICES ASSUME TypeOK, [Next]_vars PROVE TypeOK'
  OBVIOUS
<1>1. CASE UNCHANGED vars
  BY <1>1 DEF vars, walkVars, TypeOK
<1>2. CASE Request
  <2>1. PICK out \in SUBSET Items, next \in Tokens \cup {NULL} :
          Receive(out, next) /\ Cardinality(out) <= Largest
    BY <1>2, PageOfRequest
  <2> QED BY <2>1 DEF Receive, TypeOK, Tokens
<1>3. ASSUME NEW x \in Items, Insert(x) PROVE TypeOK'
  BY <1>3 DEF Insert, TypeOK, walkVars
<1>4. ASSUME NEW x \in Items, Delete(x) PROVE TypeOK'
  BY <1>4 DEF Delete, TypeOK, walkVars
<1> QED BY <1>1, <1>2, <1>3, <1>4 DEF Next

(* Types, for every page size, zero too; a page is never longer than the   *)
(* largest page size (list.go, limit).                                     *)
THEOREM PagesTypeCorrect == Spec => []TypeOK
BY TypeInit, TypeNext, PTL DEF Spec

(* Before the first answer nothing has been shown; after it and before the *)
(* last one the token says how far the walk has come: nothing beyond it    *)
(* has been shown, and everything up to it that was there all the time.    *)
WalkOK ==
  /\ ended => token = NULL
  /\ token = NULL /\ ~ended => before \cup page = {}
  /\ token # NULL => /\ \A x \in before \cup page : x <= token.last
                     /\ \A x \in stayed : x <= token.last => x \in before \cup page
  /\ NothingTwice
  /\ NothingMissed

(* An answer with a good page keeps the invariant of the walk.             *)
LEMMA WalkStep ==
  ASSUME TypeOK, WalkOK, NEW out \in SUBSET Items, NEW next \in Tokens \cup {NULL},
         Receive(out, next), out \in SUBSET Remaining, GoodPage(out, next)
  PROVE  WalkOK'
<1>1. /\ ~ended /\ page' = out /\ before' = before \cup page /\ token' = next
      /\ ended' = (next = NULL) /\ stayed' = stayed
  BY DEF Receive
<1>2. /\ lastSeen \in Nat /\ \A x \in Remaining : x \in Nat /\ x > lastSeen
      /\ \A x \in items : x > lastSeen => x \in Remaining
  BY RemainingType DEF Remaining
<1>3. /\ before' \in SUBSET Nat /\ stayed \in SUBSET Nat /\ stayed \in SUBSET items
      /\ \A x \in stayed : x > 0
  <2>1. before' \in SUBSET Items /\ stayed \in SUBSET Items /\ stayed \in SUBSET items
    BY <1>1 DEF TypeOK
  <2>2. before' \in SUBSET Nat /\ stayed \in SUBSET Nat
    BY <2>1, ItemsFinite
  <2>3. ASSUME NEW x \in stayed PROVE x > 0
    <3>1. x \in 1 .. LastItem /\ LastItem \in Nat
      BY <2>1, PaginationAssumption DEF Items
    <3> QED BY <3>1
  <2> QED BY <2>1, <2>2, <2>3
<1>4. ASSUME NEW x \in before' PROVE x <= lastSeen
  <2>1. token # NULL
    BY <1>1, <1>4 DEF WalkOK
  <2> QED BY <1>1, <2>1 DEF WalkOK, lastSeen
<1>5. ASSUME NEW x \in stayed, x <= lastSeen PROVE x \in before'
  <2>1. CASE token = NULL
    BY <1>3, <1>5, <2>1 DEF lastSeen
  <2>2. CASE token # NULL
    BY <1>1, <1>5, <2>2 DEF WalkOK, lastSeen
  <2> QED BY <2>1, <2>2
<1>6. ASSUME NEW x \in stayed, x \notin before' PROVE x \in Remaining
  BY <1>2, <1>3, <1>5, <1>6
<1>7. NothingTwice'
  <2>1. ASSUME NEW x \in before', NEW y \in out PROVE x < y
    <3>1. x \in Nat /\ y \in Nat /\ x <= lastSeen /\ y > lastSeen
      BY <1>2, <1>3, <1>4
    <3> QED BY <1>2, <3>1
  <2> QED BY <1>1, <2>1 DEF NothingTwice
<1>8. CASE next = NULL
  <2>1. out = Remaining
    BY <1>8 DEF GoodPage
  <2>2. stayed' \subseteq before' \cup page'
    BY <1>1, <1>6, <2>1
  <2> QED BY <1>1, <1>7, <1>8, <2>2 DEF WalkOK, NothingMissed
<1>9. CASE next # NULL
  <2>1. /\ next.last \in out /\ next.last \in Nat
        /\ \A x \in out : x <= next.last
        /\ \A x \in Remaining : x <= next.last => x \in out
    BY <1>9 DEF GoodPage, Tokens
  <2>2. ASSUME NEW x \in before' PROVE x <= next.last
    <3>1. x \in Nat /\ x <= lastSeen /\ next.last > lastSeen
      BY <1>2, <1>3, <1>4, <2>1
    <3> QED BY <1>2, <2>1, <3>1
  <2>3. ASSUME NEW x \in stayed, x <= next.last PROVE x \in before' \cup page'
    BY <1>1, <1>6, <2>1, <2>3
  <2> QED BY <1>1, <1>7, <1>9, <2>1, <2>2, <2>3 DEF WalkOK, NothingMissed
<1> QED BY <1>8, <1>9

(* The invariant of the walk holds in every state.                         *)
LEMMA WalkAlways ==
  ASSUME 0 \notin PageSizes
  PROVE  Spec => []WalkOK
<1>1. Init => WalkOK
  BY DEF Init, WalkOK, NothingTwice, NothingMissed
<1>2. TypeOK /\ WalkOK /\ [Next]_vars => WalkOK'
  <2> SUFFICES ASSUME TypeOK, WalkOK, [Next]_vars PROVE WalkOK'
    OBVIOUS
  <2>1. CASE UNCHANGED vars
    BY <2>1 DEF vars, walkVars, WalkOK, NothingTwice, NothingMissed
  <2>2. CASE Request
    BY <2>2, PageOfRequest, WalkStep
  <2>3. ASSUME NEW x \in Items, Insert(x) \/ Delete(x) PROVE WalkOK'
    <3>1. stayed' \subseteq stayed /\ UNCHANGED <<token, ended, page, before>>
      BY <2>3 DEF Insert, Delete, walkVars
    <3> QED BY <3>1 DEF WalkOK, NothingTwice, NothingMissed
  <2> QED BY <2>1, <2>2, <2>3 DEF Next
<1> QED BY <1>1, <1>2, PagesTypeCorrect, PTL DEF Spec

(* No item is on two pages and the pages are in order, whatever is         *)
(* inserted or deleted between two requests and whatever page sizes but    *)
(* zero the client mixes (list.go, ListPtr and ListFromStrings).           *)
THEOREM NothingShownTwice ==
  ASSUME 0 \notin PageSizes
  PROVE  Spec => []NothingTwice
<1>1. WalkOK => NothingTwice
  BY DEF WalkOK
<1> QED BY <1>1, WalkAlways, PTL

(* A walk that has ended has shown everything that was there all the time  *)
(* (list.go, ListPtr and ListFromStrings).                                 *)
THEOREM NothingIsMissed ==
  ASSUME 0 \notin PageSizes
  PROVE  Spec => []NothingMissed
<1>1. WalkOK => NothingMissed
  BY DEF WalkOK
<1> QED BY <1>1, WalkAlways, PTL
=============================================================================
