---------------------------- MODULE CommandsProofs ----------------------------
(***************************************************************************)
(* Proofs for any metadata, any names, platforms and versions:             *)
(* isVersionHigherThan is an order; the loop of PackageList::package ends  *)
(* with the highest package that fits; the reverse calculation finds all   *)
(* dependents, although its loop passes over some; and a remove command    *)
(* leaves none of them installed.                                          *)
(*                                                                         *)
(* The provers know no induction rule that takes a predicate; Induction    *)
(* states it for sets, from the theorem that a well-founded relation has a *)
(* minimal element in each set.                                            *)
(***************************************************************************)
EXTENDS Commands, WellFoundedInduction, SequenceTheorems, FiniteSetTheorems, TLAPS

Below == {ss \in Nat \X Nat : ss[1] < ss[2]}

(* Each set of natural numbers has a least element. *)
LEMMA Least ==
    ASSUME NEW T, T \subseteq Nat, T # {}
    PROVE  \E x \in T : \A y \in T : x <= y
<1>1. IsWellFoundedOn(Below, Nat)
  BY NatLessThanWellFounded DEF OpToRel, Below
<1>2. PICK x \in T : \A y \in T : <<y, x>> \notin Below
  BY <1>1, WFMin
<1>3. \A y \in T : ~(y < x)
  BY <1>2 DEF Below
<1> QED
  BY <1>2, <1>3

(* Induction over the natural numbers, for a set. *)
LEMMA Induction ==
    ASSUME NEW S, 0 \in S, \A n \in Nat : n \in S => n + 1 \in S
    PROVE  Nat \subseteq S
<1> DEFINE T == {n \in Nat : n \notin S}
<1>1. SUFFICES ASSUME T # {} PROVE FALSE
  OBVIOUS
<1>2. PICK x \in T : \A y \in T : x <= y
  BY <1>1, Least
<1>3. x # 0 /\ x - 1 \in Nat /\ x - 1 \notin T
  BY <1>2
<1> QED
  BY <1>2, <1>3

-----------------------------------------------------------------------------
LEMMA CapturedType ==
    ASSUME NEW v \in Version, NEW i \in 1..4
    PROVE  Captured(v, i) \in Nat
<1>1. \A k \in DOMAIN v.numbers : v.numbers[k] \in Nat
  BY DEF Version
<1>2. \A k \in DOMAIN v.numbers : v.numbers[k] % 10 \in Nat
  BY <1>1
<1> QED
  BY <1>1, <1>2 DEF Captured

LEMMA HigherIsNumbers ==
    ASSUME NEW u, NEW v
    PROVE  Higher(u, v) <=> NumbersHigher(u, v)
BY DEF Higher, IsVersionHigherThan

(* No version is higher than itself. *)
LEMMA HigherIrreflexive ==
    ASSUME NEW v \in Version
    PROVE  ~Higher(v, v)
BY CapturedType, HigherIsNumbers DEF NumbersHigher

LEMMA HigherTransitive ==
    ASSUME NEW u \in Version, NEW v \in Version, NEW w \in Version,
           Higher(u, v), Higher(v, w)
    PROVE  Higher(u, w)
<1> DEFINE a == [i \in 1..4 |-> Captured(u, i)]
           b == [i \in 1..4 |-> Captured(v, i)]
           c == [i \in 1..4 |-> Captured(w, i)]
<1>1. a \in [1..4 -> Nat] /\ b \in [1..4 -> Nat] /\ c \in [1..4 -> Nat]
  BY CapturedType
<1>2. PICK i \in 1..4 : a[i] > b[i] /\ \A j \in 1..4 : j < i => a[j] = b[j]
  BY HigherIsNumbers DEF NumbersHigher
<1>3. PICK k \in 1..4 : b[k] > c[k] /\ \A j \in 1..4 : j < k => b[j] = c[j]
  BY HigherIsNumbers DEF NumbersHigher
<1> HIDE DEF a, b, c
<1>4. \E m \in 1..4 : a[m] > c[m] /\ \A j \in 1..4 : j < m => a[j] = c[j]
  <2>1. CASE i <= k
    <3>1. a[i] > c[i] /\ \A j \in 1..4 : j < i => a[j] = c[j]
      BY <1>1, <1>2, <1>3, <2>1
    <3> QED
      BY <3>1
  <2>2. CASE k < i
    <3>1. a[k] > c[k] /\ \A j \in 1..4 : j < k => a[j] = c[j]
      BY <1>1, <1>2, <1>3, <2>2
    <3> QED
      BY <3>1
  <2> QED
    BY <2>1, <2>2
<1> QED
  BY <1>4, HigherIsNumbers DEF NumbersHigher, a, c

(* Versions neither of which is higher are the same in all four places. *)
LEMMA NotHigherIsEqual ==
    ASSUME NEW u \in Version, NEW v \in Version
    PROVE  ~Higher(u, v) /\ ~Higher(v, u) <=> NumbersEqual(u, v)
<1> DEFINE a == [i \in 1..4 |-> Captured(u, i)]
           b == [i \in 1..4 |-> Captured(v, i)]
<1>1. a \in [1..4 -> Nat] /\ b \in [1..4 -> Nat]
  BY CapturedType
<1>2. Higher(u, v) <=> \E i \in 1..4 : a[i] > b[i] /\ \A j \in 1..4 : j < i => a[j] = b[j]
  BY HigherIsNumbers DEF NumbersHigher
<1>3. Higher(v, u) <=> \E i \in 1..4 : b[i] > a[i] /\ \A j \in 1..4 : j < i => b[j] = a[j]
  BY HigherIsNumbers DEF NumbersHigher
<1>4. NumbersEqual(u, v) <=> \A i \in 1..4 : a[i] = b[i]
  BY DEF NumbersEqual
<1> HIDE DEF a, b
<1>5. CASE \A i \in 1..4 : a[i] = b[i]
  BY <1>1, <1>2, <1>3, <1>4, <1>5
<1>6. CASE \E i \in 1..4 : a[i] # b[i]
  <2> DEFINE T == {i \in 1..4 : a[i] # b[i]}
  <2>1. PICK i \in T : \A y \in T : i <= y
    <3>1. T \subseteq Nat /\ T # {}
      BY <1>6
    <3> QED
      BY <3>1, Least
  <2>2. \A j \in 1..4 : j < i => a[j] = b[j] /\ b[j] = a[j]
    BY <2>1
  <2>3. a[i] > b[i] \/ b[i] > a[i]
    BY <1>1, <2>1
  <2> QED
    BY <1>2, <1>3, <1>4, <1>6, <2>1, <2>2, <2>3
<1> QED
  BY <1>5, <1>6

(* isVersionHigherThan, as the program uses it, is a strict weak order: it *)
(* is irreflexive and transitive, and versions neither of which is higher  *)
(* are equal in all places, which is an equivalence.                       *)
THEOREM VersionOrder ==
    \A u, v, w \in Version :
        /\ ~Higher(u, u)
        /\ Higher(u, v) => ~Higher(v, u)
        /\ Higher(u, v) /\ Higher(v, w) => Higher(u, w)
        /\ ~Higher(u, v) /\ ~Higher(v, w) => ~Higher(u, w)
<1> SUFFICES ASSUME NEW u \in Version, NEW v \in Version, NEW w \in Version
             PROVE  /\ ~Higher(u, u)
                    /\ Higher(u, v) => ~Higher(v, u)
                    /\ Higher(u, v) /\ Higher(v, w) => Higher(u, w)
                    /\ ~Higher(u, v) /\ ~Higher(v, w) => ~Higher(u, w)
  OBVIOUS
<1>1. ~Higher(u, u)
  BY HigherIrreflexive
<1>2. Higher(u, v) => ~Higher(v, u)
  BY <1>1, HigherTransitive
<1>3. Higher(u, v) /\ Higher(v, w) => Higher(u, w)
  BY HigherTransitive
<1>4. ASSUME ~Higher(u, v), ~Higher(v, w), Higher(u, w) PROVE FALSE
  <2>1. CASE Higher(v, u)
    BY <1>4, <2>1, HigherTransitive
  <2>2. CASE ~Higher(v, u)
    <3>1. NumbersEqual(u, v)
      BY <1>4, <2>2, NotHigherIsEqual
    <3>2. Higher(v, w)
      BY <1>4, <3>1, HigherIsNumbers DEF NumbersEqual, NumbersHigher
    <3> QED
      BY <1>4, <3>2
  <2> QED
    BY <2>1, <2>2
<1> QED
  BY <1>1, <1>2, <1>3, <1>4

-----------------------------------------------------------------------------
(* The first n packages, as a dependency sees them: those that fit, and    *)
(* those that have the very version that is asked for.                     *)
Fits(list, r, i) ==
    \/ r = AnyVersion
    \/ r.plus /\ Higher(list[i].version, r.version)

Fit(list, id, r, host, target, n) ==
    {i \in 1..n : Matches(list[i], id, host, target) /\ Fits(list, r, i)}

Exact(list, id, r, host, target, n) ==
    {i \in 1..n : /\ Matches(list[i], id, host, target)
                  /\ r # AnyVersion
                  /\ list[i].version = r.version}

(* The invariant of the loop. *)
Scanned(list, id, r, host, target, n, found) ==
    LET fit == Fit(list, id, r, host, target, n)
        exact == Exact(list, id, r, host, target, n)
    IN  /\ found \in [result : 0..n, returned : BOOLEAN]
        /\ found.returned => found.result \in exact
        /\ ~found.returned =>
               /\ exact = {}
               /\ found.result = None => fit = {}
               /\ found.result # None =>
                      /\ found.result \in fit
                      /\ \A i \in fit : ~Higher(list[i].version, list[found.result].version)

LEMMA ScannedStep ==
    ASSUME NEW list \in Seq(Package), NEW id, NEW r \in Request, NEW host, NEW target,
           NEW n \in 1..Len(list), NEW found,
           Scanned(list, id, r, host, target, n - 1, found)
    PROVE  Scanned(list, id, r, host, target, n,
                   Considered(list, id, r, host, target, found, n))
<1> DEFINE next == Considered(list, id, r, host, target, found, n)
           fit0 == Fit(list, id, r, host, target, n - 1)
           exact0 == Exact(list, id, r, host, target, n - 1)
           fit == Fit(list, id, r, host, target, n)
           exact == Exact(list, id, r, host, target, n)
           matches == Matches(list[n], id, host, target)
           fits == Fits(list, r, n)
           H(i, j) == Higher(list[i].version, list[j].version)
<1>1. n \in Nat /\ n >= 1 /\ n - 1 \in Nat /\ 1..n = 1..(n - 1) \cup {n} /\ n \notin 1..(n - 1)
  OBVIOUS
<1>2. /\ found \in [result : 0..(n - 1), returned : BOOLEAN]
      /\ found.returned => found.result \in exact0
      /\ ~found.returned =>
             /\ exact0 = {}
             /\ found.result = None => fit0 = {}
             /\ found.result # None =>
                    found.result \in fit0 /\ \A i \in fit0 : ~H(i, found.result)
  BY DEF Scanned
<1>3. fit = fit0 \cup (IF matches /\ fits THEN {n} ELSE {})
  BY <1>1 DEF Fit
<1>4. exact = exact0 \cup (IF matches /\ r # AnyVersion /\ list[n].version = r.version
                           THEN {n} ELSE {})
  BY <1>1 DEF Exact
<1>5. fit0 \subseteq 1..(n - 1) /\ exact0 \subseteq 1..(n - 1)
  BY DEF Fit, Exact
<1>6. \A i \in 1..n : list[i].version \in Version
  <2>1. \A i \in 1..n : list[i] \in Package
    OBVIOUS
  <2> QED
    BY <2>1 DEF Package
<1>7. fits => ~(r # AnyVersion /\ list[n].version = r.version)
  BY <1>6, HigherIrreflexive DEF Fits
<1>8. next = IF found.returned \/ ~matches THEN found
             ELSE IF fits
             THEN IF Better(list, n, found.result) THEN [found EXCEPT !.result = n] ELSE found
             ELSE IF list[n].version = r.version THEN [result |-> n, returned |-> TRUE]
             ELSE found
  BY DEF Considered, Fits
<1>9. \A i, j, k \in 1..n : H(i, j) /\ H(j, k) => H(i, k)
  BY <1>6, HigherTransitive
<1>10. \A i \in 1..n : ~H(i, i)
  BY <1>6, HigherIrreflexive
<1>11. \A j \in 1..n : Better(list, n, j) <=>
           j = None \/ list[n].version = list[j].version \/ H(n, j)
  BY DEF Better
<1>12. Better(list, n, None)
  BY DEF Better
<1>13. SUFFICES /\ next \in [result : 0..n, returned : BOOLEAN]
                /\ next.returned => next.result \in exact
                /\ ~next.returned =>
                       /\ exact = {}
                       /\ next.result = None => fit = {}
                       /\ next.result # None =>
                              next.result \in fit /\ \A i \in fit : ~H(i, next.result)
  BY DEF Scanned
<1>14. \A j \in 1..n, i \in 1..n : list[n].version = list[j].version => (H(i, n) <=> H(i, j))
  OBVIOUS
<1> HIDE DEF next, fit0, exact0, fit, exact, matches, fits, H
<1>20. CASE found.returned
  BY <1>1, <1>2, <1>4, <1>8, <1>20
<1>21. CASE ~found.returned /\ ~matches
  BY <1>1, <1>2, <1>3, <1>4, <1>8, <1>21
<1>22. CASE ~found.returned /\ matches /\ fits
  <2>1. exact = {}
    BY <1>2, <1>4, <1>7, <1>22
  <2>2. fit = fit0 \cup {n}
    BY <1>3, <1>22
  <2>3. CASE Better(list, n, found.result)
    <3>1. next = [found EXCEPT !.result = n]
      BY <1>8, <1>22, <2>3
    <3>2. next.result = n /\ next.returned = found.returned
             /\ next \in [result : 0..n, returned : BOOLEAN]
      BY <1>1, <1>2, <3>1
    <3>3. \A i \in fit0 : ~H(i, n)
      <4>1. SUFFICES ASSUME NEW i \in fit0, H(i, n) PROVE FALSE
        OBVIOUS
      <4>2. found.result # None /\ found.result \in fit0 /\ ~H(i, found.result)
        BY <1>2, <1>22, <4>1
      <4>3. found.result \in 1..n /\ i \in 1..n /\ n \in 1..n
        BY <1>1, <1>5, <4>1, <4>2
      <4> QED
        BY <1>9, <1>11, <1>14, <2>3, <4>1, <4>2, <4>3
    <3>4. n \in 1..n /\ ~H(n, n) /\ n # None
      BY <1>1, <1>10 DEF None
    <3> QED
      BY <1>22, <2>1, <2>2, <3>2, <3>3, <3>4
  <2>4. CASE ~Better(list, n, found.result)
    <3>1. next = found
      BY <1>8, <1>22, <2>4
    <3>2. found.result # None
      BY <1>12, <2>4
    <3>3. found.result \in fit0 /\ \A i \in fit0 : ~H(i, found.result)
      BY <1>2, <1>22, <3>2
    <3>4. ~H(n, found.result)
      BY <1>1, <1>5, <1>11, <2>4, <3>3
    <3>5. found \in [result : 0..n, returned : BOOLEAN]
      BY <1>1, <1>2
    <3> QED
      BY <1>22, <2>1, <2>2, <3>1, <3>2, <3>3, <3>4, <3>5
  <2> QED
    BY <2>3, <2>4
<1>23. CASE ~found.returned /\ matches /\ ~fits /\ list[n].version = r.version
  <2>1. next = [result |-> n, returned |-> TRUE]
    BY <1>8, <1>23
  <2>2. r # AnyVersion
    BY <1>23 DEF fits, Fits
  <2> QED
    BY <1>1, <1>4, <1>23, <2>1, <2>2
<1>24. CASE ~found.returned /\ matches /\ ~fits /\ list[n].version # r.version
  <2>1. next = found /\ fit = fit0 /\ exact = exact0
    BY <1>3, <1>4, <1>8, <1>24
  <2>2. found \in [result : 0..n, returned : BOOLEAN]
    BY <1>1, <1>2
  <2> QED
    BY <1>2, <1>24, <2>1, <2>2
<1> QED
  BY <1>20, <1>21, <1>22, <1>23, <1>24

(* What the loop has found after each package of the list. *)
IsLoopOf(list, id, r, host, target, found) ==
    /\ found[0] = [result |-> None, returned |-> FALSE]
    /\ \A n \in 1..Len(list) :
           found[n] = Considered(list, id, r, host, target, found[n - 1], n)

LEMMA FindPackageLoop ==
    ASSUME NEW list \in Seq(Package), NEW id, NEW r, NEW host, NEW target
    PROVE  \E found :
               /\ IsLoopOf(list, id, r, host, target, found)
               /\ FindPackage(list, id, r, host, target) = found[Len(list)].result
<1> DEFINE start == [result |-> None, returned |-> FALSE]
           IsLoop(f, n) ==
               f = [m \in 0..n |->
                       IF m = 0 THEN start
                       ELSE Considered(list, id, r, host, target, f[m - 1], m)]
           S == {n \in Nat : \E f : IsLoop(f, n)}
<1>1. Nat \subseteq S
  <2>1. 0 \in S
    <3>1. IsLoop([m \in 0..0 |-> start], 0)
      OBVIOUS
    <3> QED
      BY <3>1
  <2>2. ASSUME NEW n \in Nat, n \in S PROVE n + 1 \in S
    <3>1. PICK f : IsLoop(f, n)
      BY <2>2
    <3> DEFINE g == [m \in 0..(n + 1) |->
                        IF m = n + 1 THEN Considered(list, id, r, host, target, f[n], n + 1)
                        ELSE f[m]]
    <3>2. \A m \in 0..n : g[m] = f[m]
      OBVIOUS
    <3>3. g[n + 1] = Considered(list, id, r, host, target, f[n], n + 1)
      OBVIOUS
    <3>4. \A m \in 0..n : f[m] = IF m = 0 THEN start
                          ELSE Considered(list, id, r, host, target, f[m - 1], m)
      BY <3>1
    <3>5. \A m \in 0..(n + 1) : g[m] = IF m = 0 THEN start
                                ELSE Considered(list, id, r, host, target, g[m - 1], m)
      <4>1. TAKE m \in 0..(n + 1)
      <4>2. CASE m = 0
        <5> HIDE DEF start, g, IsLoop
        <5> QED
          BY <3>2, <3>4, <4>2
      <4>3. CASE m \in 1..n
        <5>1. m - 1 \in 0..n /\ m \in 0..n /\ m # 0
          BY <4>3
        <5>2. g[m] = f[m] /\ g[m - 1] = f[m - 1]
          BY <3>2, <5>1
        <5> HIDE DEF g
        <5> QED
          BY <3>4, <5>1, <5>2
      <4>4. CASE m = n + 1
        <5>1. g[m - 1] = f[n] /\ m # 0
          BY <3>2, <4>4
        <5>2. g[m] = Considered(list, id, r, host, target, f[n], m)
          BY <3>3, <4>4
        <5> HIDE DEF g
        <5> QED
          BY <5>1, <5>2
      <4> QED
        BY <4>2, <4>3, <4>4
    <3>6. DOMAIN g = 0..(n + 1) /\ g = [m \in 0..(n + 1) |-> g[m]]
      OBVIOUS
    <3> HIDE DEF g
    <3>7. IsLoop(g, n + 1)
      BY <3>5, <3>6
    <3> HIDE DEF IsLoop
    <3> QED
      BY <3>7
  <2> HIDE DEF S
  <2> QED
    BY <2>1, <2>2, Induction
<1>2. Len(list) \in Nat
  OBVIOUS
<1>3. \E f : IsLoop(f, Len(list))
  <2> HIDE DEF IsLoop
  <2> QED
    BY <1>1, <1>2
<1>4. \E f : IsLoop(f, Len(list)) /\ FindPackage(list, id, r, host, target) = f[Len(list)].result
  BY <1>3 DEF FindPackage
<1>5. PICK f : IsLoop(f, Len(list)) /\ FindPackage(list, id, r, host, target) = f[Len(list)].result
  BY <1>4
<1>6. \A m \in 0..Len(list) : f[m] = IF m = 0 THEN start
                                  ELSE Considered(list, id, r, host, target, f[m - 1], m)
  BY <1>5
<1>7. f[0] = start
  <2> HIDE DEF start, IsLoop
  <2> QED
    BY <1>2, <1>6
<1>8. \A n \in 1..Len(list) : f[n] = Considered(list, id, r, host, target, f[n - 1], n)
  <2>1. \A n \in 1..Len(list) : n \in 0..Len(list) /\ n # 0
    BY <1>2
  <2> QED
    BY <1>6, <2>1
<1>9. FindPackage(list, id, r, host, target) = f[Len(list)].result
  BY <1>5
<1> QED
  <2>1. IsLoopOf(list, id, r, host, target, f)
    BY <1>7, <1>8 DEF IsLoopOf
  <2> QED
    BY <1>9, <2>1

(* PackageList::package, for any list and whatever it is asked for. *)
LEMMA FindPackageScans ==
    ASSUME NEW list \in Seq(Package), NEW id, NEW r \in Request, NEW host, NEW target
    PROVE  \E found : /\ FindPackage(list, id, r, host, target) = found.result
                      /\ Scanned(list, id, r, host, target, Len(list), found)
<1>1. PICK found :
          /\ IsLoopOf(list, id, r, host, target, found)
          /\ FindPackage(list, id, r, host, target) = found[Len(list)].result
  BY FindPackageLoop
<1> DEFINE P(n) == Scanned(list, id, r, host, target, n, found[n])
           S == {n \in Nat : n <= Len(list) => P(n)}
<1>2. 0 \in S
  <2>1. Fit(list, id, r, host, target, 0) = {} /\ Exact(list, id, r, host, target, 0) = {}
    BY DEF Fit, Exact
  <2>2. P(0)
    BY <1>1, <2>1 DEF Scanned, None, IsLoopOf
  <2> QED
    BY <2>2
<1>3. ASSUME NEW n \in Nat, n \in S PROVE n + 1 \in S
  <2>1. CASE n + 1 <= Len(list)
    <3>1. n + 1 \in 1..Len(list) /\ (n + 1) - 1 = n /\ P(n)
      BY <1>3, <2>1
    <3>2. P(n + 1)
      BY <1>1, <3>1, ScannedStep DEF IsLoopOf
    <3> QED
      BY <3>2
  <2>2. CASE ~(n + 1 <= Len(list))
    BY <2>2
  <2> QED
    BY <2>1, <2>2
<1>4. Nat \subseteq S
  <2> HIDE DEF S
  <2> QED
    BY <1>2, <1>3, Induction
<1>5. P(Len(list))
  BY <1>4
<1> QED
  BY <1>1, <1>5

-----------------------------------------------------------------------------
(* The metadata are always one of the lists that the repositories may hold. *)
LEMMA MetadataKept == Spec => [](metadata \in MetadataLists)
<1>1. Init => metadata \in MetadataLists
  BY DEF Init
<1>2. metadata \in MetadataLists /\ [Next]_vars => (metadata \in MetadataLists)'
  BY DEF Next, vars, InstallCommand, InstallCrashes, RemoveCommand, RemoveRefused,
         RemoveCrashes, MetadataChanges
<1> QED
  BY <1>1, <1>2, PTL DEF Spec

(* PackageList::package returns the package with the very version that is  *)
(* asked for, or else a highest one of those that fit, or else the null    *)
(* pointer, for any metadata.                                              *)
THEOREM Highest == Spec => []PackageIsHighest
<1>1. ASSUME metadata \in MetadataLists PROVE PackageIsHighest
  <2> SUFFICES ASSUME NEW e \in ToSet(metadata),
                      NEW d \in ToSet(e.dependencies) \cup [id : Id, request : {AnyVersion}]
               PROVE  LET r == d.request
                          matching == {i \in Entities : Matches(metadata[i], d.id, e.host, e.target)}
                          exact == {i \in matching : r # AnyVersion /\ metadata[i].version = r.version}
                          fit == {i \in matching :
                                      \/ r = AnyVersion
                                      \/ r.plus /\ Higher(metadata[i].version, r.version)}
                          found == FindPackage(metadata, d.id, r, e.host, e.target)
                      IN  \/ found \in exact
                          \/ /\ exact = {}
                             /\ found \in fit
                             /\ \A i \in fit : ~Higher(metadata[i].version, metadata[found].version)
                          \/ exact \cup fit = {} /\ found = None
    BY DEF PackageIsHighest
  <2>1. metadata \in Seq(Package)
    BY <1>1, CommandsAssumption
  <2>2. e \in Package
    BY <2>1 DEF ToSet
  <2>3. d.request \in Request
    <3>1. NoVersion \in Version
      <4>1. <<>> \in Seq(Nat)
        OBVIOUS
      <4> QED
        BY <4>1 DEF NoVersion, Version, Title
    <3>2. AnyVersion \in Request
      BY <3>1 DEF AnyVersion, Request
    <3>3. e.dependencies \in Seq(Dependency)
      BY <2>2 DEF Package
    <3>4. CASE d \in ToSet(e.dependencies)
      <4>1. PICK k \in DOMAIN e.dependencies : d = e.dependencies[k]
        BY <3>4 DEF ToSet
      <4>2. d \in Dependency
        BY <3>3, <4>1
      <4> QED
        BY <4>2 DEF Dependency
    <3>5. CASE d \in [id : Id, request : {AnyVersion}]
      BY <3>2, <3>5
    <3> QED
      BY <3>4, <3>5
  <2> DEFINE L == Len(metadata)
             fit == Fit(metadata, d.id, d.request, e.host, e.target, L)
             exact == Exact(metadata, d.id, d.request, e.host, e.target, L)
             result == FindPackage(metadata, d.id, d.request, e.host, e.target)
  <2>4. PICK found : result = found.result
                     /\ Scanned(metadata, d.id, d.request, e.host, e.target, L, found)
    BY <2>1, <2>3, FindPackageScans
  <2>5. \/ result \in exact
        \/ /\ exact = {}
           /\ result \in fit
           /\ \A i \in fit : ~Higher(metadata[i].version, metadata[result].version)
        \/ exact \cup fit = {} /\ result = None
    BY <2>4 DEF Scanned
  <2>6. Entities = 1..L
    BY <2>1 DEF Entities
  <2>7. /\ fit = {i \in {j \in Entities : Matches(metadata[j], d.id, e.host, e.target)} :
                      \/ d.request = AnyVersion
                      \/ d.request.plus /\ Higher(metadata[i].version, d.request.version)}
        /\ exact = {i \in {j \in Entities : Matches(metadata[j], d.id, e.host, e.target)} :
                        d.request # AnyVersion /\ metadata[i].version = d.request.version}
    BY <2>6 DEF Fit, Fits, Exact
  <2> HIDE DEF fit, exact, result
  <2> QED
    BY <2>5, <2>7 DEF result
<1> QED
  BY <1>1, MetadataKept, PTL

-----------------------------------------------------------------------------
(* Induction and recursion up to the length of a list. *)
LEMMA UpTo ==
    ASSUME NEW L \in Nat, NEW P, 0 \in P, \A n \in 1..L : n - 1 \in P => n \in P
    PROVE  \A n \in 0..L : n \in P
<1> DEFINE S == {n \in Nat : n <= L => n \in P}
<1>1. 0 \in S
  OBVIOUS
<1>2. ASSUME NEW n \in Nat, n \in S PROVE n + 1 \in S
  <2>1. CASE n + 1 <= L
    <3>1. n + 1 \in 1..L /\ (n + 1) - 1 = n /\ n \in P
      BY <1>2, <2>1
    <3> QED
      BY <3>1
  <2>2. CASE ~(n + 1 <= L)
    BY <2>2
  <2> QED
    BY <2>1, <2>2
<1>3. Nat \subseteq S
  <2> HIDE DEF S
  <2> QED
    BY <1>1, <1>2, Induction
<1> QED
  BY <1>3

IsRecursion(f, L, V, base, step) ==
    /\ f \in [0..L -> V]
    /\ f[0] = base
    /\ \A n \in 1..L : f[n] = step[<<n, f[n - 1]>>]

LEMMA RecursionExists ==
    ASSUME NEW L \in Nat, NEW V, NEW base \in V, NEW step \in [(1..L) \X V -> V]
    PROVE  \E f : IsRecursion(f, L, V, base, step)
<1> DEFINE IsUpTo(f, n) == f[0] = base /\ \A m \in 1..n : f[m] = step[<<m, f[m - 1]>>]
           P == {n \in 0..L : \E f \in [0..n -> V] : IsUpTo(f, n)}
<1>1. 0 \in P
  <2> DEFINE f == [m \in 0..0 |-> base]
  <2>1. f \in [0..0 -> V] /\ IsUpTo(f, 0)
    OBVIOUS
  <2> HIDE DEF f, IsUpTo
  <2> QED
    BY <2>1
<1>2. ASSUME NEW n \in 1..L, n - 1 \in P PROVE n \in P
  <2>1. PICK f \in [0..(n - 1) -> V] : IsUpTo(f, n - 1)
    BY <1>2
  <2>2. n - 1 \in 0..(n - 1) /\ f[n - 1] \in V
    OBVIOUS
  <2>3. step[<<n, f[n - 1]>>] \in V
    BY <2>2
  <2> DEFINE new == step[<<n, f[n - 1]>>]
             g == [m \in 0..n |-> IF m = n THEN new ELSE f[m]]
  <2> HIDE DEF new
  <2>4. g \in [0..n -> V]
    <3>1. \A m \in 0..n : m # n => m \in 0..(n - 1)
      OBVIOUS
    <3>2. \A m \in 0..n : m # n => f[m] \in V
      BY <3>1
    <3> QED
      BY <2>3, <3>2 DEF new
  <2>5. g[n] = new /\ \A m \in 0..(n - 1) : g[m] = f[m]
    OBVIOUS
  <2> HIDE DEF g
  <2>6. g[0] = base
    BY <2>1, <2>5
  <2>7. \A m \in 1..n : g[m] = step[<<m, g[m - 1]>>]
    <3>1. TAKE m \in 1..n
    <3>2. CASE m = n
      BY <2>2, <2>5, <3>2 DEF new
    <3>3. CASE m # n
      <4>1. m \in 1..(n - 1) /\ m \in 0..(n - 1) /\ m - 1 \in 0..(n - 1)
        BY <3>3
      <4> QED
        BY <2>1, <2>5, <4>1
    <3> QED
      BY <3>2, <3>3
  <2>8. IsUpTo(g, n)
    BY <2>6, <2>7
  <2> HIDE DEF IsUpTo
  <2> QED
    BY <2>4, <2>8
<1>3. \A n \in 0..L : n \in P
  <2> HIDE DEF P
  <2> QED
    BY <1>1, <1>2, UpTo
<1>4. PICK f \in [0..L -> V] : IsUpTo(f, L)
  <2>1. L \in P
    BY <1>3
  <2> HIDE DEF IsUpTo
  <2> QED
    BY <2>1
<1> QED
  BY <1>4 DEF IsRecursion

(* What concatenating and appending do to the elements of a sequence. *)
LEMMA ConcatElements ==
    ASSUME NEW T, NEW p \in Seq(T), NEW q \in Seq(T)
    PROVE  p \o q \in Seq(T) /\ ToSet(p \o q) = ToSet(p) \cup ToSet(q)
<1>1. /\ p \o q \in Seq(T)
      /\ Len(p \o q) = Len(p) + Len(q)
      /\ \A i \in 1..(Len(p) + Len(q)) :
             (p \o q)[i] = IF i <= Len(p) THEN p[i] ELSE q[i - Len(p)]
  BY ConcatProperties
<1>2. /\ DOMAIN p = 1..Len(p) /\ DOMAIN q = 1..Len(q) /\ Len(p) \in Nat /\ Len(q) \in Nat
      /\ DOMAIN (p \o q) = 1..(Len(p) + Len(q))
  BY <1>1
<1> DEFINE pq == p \o q
<1> HIDE DEF pq
<1>3. \A x \in ToSet(pq) : x \in ToSet(p) \cup ToSet(q)
  <2>1. TAKE x \in ToSet(pq)
  <2>2. PICK i \in 1..(Len(p) + Len(q)) : x = pq[i]
    BY <1>2 DEF ToSet, pq
  <2>3. CASE i <= Len(p)
    BY <1>1, <1>2, <2>2, <2>3 DEF ToSet, pq
  <2>4. CASE ~(i <= Len(p))
    <3>1. i - Len(p) \in 1..Len(q) /\ x = q[i - Len(p)]
      BY <1>1, <1>2, <2>2, <2>4 DEF pq
    <3> QED
      BY <1>2, <3>1 DEF ToSet
  <2> QED
    BY <2>3, <2>4
<1>4. \A x \in ToSet(p) : x \in ToSet(pq)
  <2>1. TAKE x \in ToSet(p)
  <2>2. PICK i \in 1..Len(p) : x = p[i]
    BY <1>2 DEF ToSet
  <2>3. i \in 1..(Len(p) + Len(q)) /\ pq[i] = x
    BY <1>1, <1>2, <2>2 DEF pq
  <2> QED
    BY <1>2, <2>3 DEF ToSet, pq
<1>5. \A x \in ToSet(q) : x \in ToSet(pq)
  <2>1. TAKE x \in ToSet(q)
  <2>2. PICK i \in 1..Len(q) : x = q[i]
    BY <1>2 DEF ToSet
  <2>3. /\ i + Len(p) \in 1..(Len(p) + Len(q)) /\ ~(i + Len(p) <= Len(p))
        /\ (i + Len(p)) - Len(p) = i
    BY <1>2
  <2>4. pq[i + Len(p)] = x
    BY <1>1, <2>2, <2>3 DEF pq
  <2> QED
    BY <1>2, <2>3, <2>4 DEF ToSet, pq
<1> QED
  BY <1>1, <1>3, <1>4, <1>5 DEF pq

LEMMA AppendElements ==
    ASSUME NEW T, NEW p \in Seq(T), NEW x \in T
    PROVE  Append(p, x) \in Seq(T) /\ ToSet(Append(p, x)) = ToSet(p) \cup {x}
<1> DEFINE one == <<x>>
<1>1. one \in Seq(T) /\ ToSet(one) = {x}
  BY DEF ToSet
<1>2. Append(p, x) = p \o one
  OBVIOUS
<1> HIDE DEF one
<1> QED
  BY <1>1, <1>2, ConcatElements

LEMMA NoElements == ASSUME NEW T PROVE <<>> \in Seq(T) /\ ToSet(<<>>) = {}
BY DEF ToSet

(* Picked is a sequence of the elements at these places. *)
LEMMA PickedElements ==
    ASSUME NEW T, NEW s \in Seq(T), NEW places
    PROVE  /\ Picked(s, places) \in Seq(T)
           /\ ToSet(Picked(s, places)) = {s[n] : n \in DOMAIN s \cap places}
<1> DEFINE L == Len(s)
           V == Seq(T)
           step == [x \in (1..L) \X V |->
                       IF x[1] \in places THEN Append(x[2], s[x[1]]) ELSE x[2]]
           IsPicked(f) == f = [n \in 0..L |->
                                  IF n = 0 THEN <<>>
                                  ELSE IF n \in places THEN Append(f[n - 1], s[n])
                                  ELSE f[n - 1]]
<1>1. L \in Nat /\ DOMAIN s = 1..L /\ \A n \in 1..L : s[n] \in T
  OBVIOUS
<1>2. step \in [(1..L) \X V -> V]
  <2>1. ASSUME NEW n \in 1..L, NEW p \in V PROVE Append(p, s[n]) \in V
    BY <1>1, AppendElements
  <2> QED
    BY <2>1
<1>3. <<>> \in V
  BY NoElements
<1> HIDE DEF L, V
<1>4. PICK f : IsRecursion(f, L, V, <<>>, step)
  <2> HIDE DEF step
  <2> QED
    BY <1>1, <1>2, <1>3, RecursionExists
<1>5. \A n \in 1..L : f[n] = IF n \in places THEN Append(f[n - 1], s[n]) ELSE f[n - 1]
  <2>1. TAKE n \in 1..L
  <2>2. n - 1 \in 0..L /\ f[n - 1] \in V
    BY <1>1, <1>4 DEF IsRecursion
  <2> QED
    BY <1>4, <2>2 DEF IsRecursion
<1>6. IsPicked(f)
  <2>1. \A n \in 0..L : f[n] = IF n = 0 THEN <<>>
                               ELSE IF n \in places THEN Append(f[n - 1], s[n])
                               ELSE f[n - 1]
    <3>1. \A n \in 0..L : n # 0 => n \in 1..L
      BY <1>1
    <3> HIDE DEF step
    <3> QED
      BY <1>4, <1>5, <3>1 DEF IsRecursion
  <2>2. f = [n \in 0..L |-> f[n]]
    BY <1>4 DEF IsRecursion
  <2> HIDE DEF step
  <2> QED
    BY <2>1, <2>2
<1>7. PICK h : IsPicked(h) /\ Picked(s, places) = h[L]
  <2>1. \E h : IsPicked(h)
    BY <1>6
  <2>2. \E h : IsPicked(h) /\ Picked(s, places) = h[L]
    BY <2>1 DEF Picked, L
  <2> QED
    BY <2>2
<1>8. h[0] = <<>> /\ \A n \in 1..L : h[n] = IF n \in places THEN Append(h[n - 1], s[n]) ELSE h[n - 1]
  <2>1. \A n \in 0..L : h[n] = IF n = 0 THEN <<>>
                               ELSE IF n \in places THEN Append(h[n - 1], s[n])
                               ELSE h[n - 1]
    BY <1>7
  <2>2. 0 \in 0..L /\ \A n \in 1..L : n \in 0..L /\ n # 0
    BY <1>1
  <2> HIDE DEF IsPicked
  <2> QED
    BY <2>1, <2>2
<1> DEFINE At(n) == {s[k] : k \in (1..n) \cap places}
           P == {n \in 0..L : h[n] \in V /\ ToSet(h[n]) = At(n)}
<1>9. 0 \in P
  <2>1. At(0) = {}
    OBVIOUS
  <2> HIDE DEF IsPicked, At
  <2>2. h[0] \in V /\ ToSet(h[0]) = {}
    BY <1>8, NoElements DEF V
  <2>3. h[0] \in V /\ ToSet(h[0]) = At(0) /\ 0 \in 0..L
    BY <1>1, <2>1, <2>2
  <2> QED
    BY <2>3
<1>10. ASSUME NEW n \in 1..L, n - 1 \in P PROVE n \in P
  <2>1. h[n - 1] \in V /\ ToSet(h[n - 1]) = At(n - 1) /\ s[n] \in T /\ n \in 0..L
    BY <1>1, <1>10
  <2>2. At(n) = At(n - 1) \cup (IF n \in places THEN {s[n]} ELSE {})
    <3>1. 1..n = 1..(n - 1) \cup {n}
      BY <1>1
    <3> QED
      BY <3>1
  <2>3. CASE n \in places
    <3>1. h[n] = Append(h[n - 1], s[n])
      BY <1>8, <2>3
    <3> HIDE DEF At, IsPicked
    <3>2. h[n] \in V /\ ToSet(h[n]) = ToSet(h[n - 1]) \cup {s[n]}
      BY <2>1, <3>1, AppendElements DEF V
    <3> QED
      BY <2>1, <2>2, <2>3, <3>2
  <2>4. CASE n \notin places
    <3>1. h[n] = h[n - 1]
      BY <1>8, <2>4
    <3> HIDE DEF At, IsPicked
    <3> QED
      BY <2>1, <2>2, <2>4, <3>1
  <2> QED
    BY <2>3, <2>4
<1>11. L \in P
  <2> HIDE DEF P
  <2>1. \A n \in 0..L : n \in P
    BY <1>1, <1>9, <1>10, UpTo
  <2> QED
    BY <1>1, <2>1
<1> HIDE DEF IsPicked
<1> QED
  BY <1>1, <1>7, <1>11 DEF V

-----------------------------------------------------------------------------
(* What depends on one of a set, and the sets that have all of it. *)
Grown(list, B) ==
    B \cup {j \in DOMAIN list : \E k \in B : DependsExactly(list, j, k)}

IsClosed(list, B) ==
    \A k \in B : \A j \in DOMAIN list : DependsExactly(list, j, k) => j \in B

IsLevels(list, i, h) ==
    /\ h[0] = {i}
    /\ \A n \in 1..Len(list) : h[n] = Grown(list, h[n - 1])

LEMMA DependentsLevels ==
    ASSUME NEW T, NEW list \in Seq(T), NEW i \in DOMAIN list
    PROVE  \E h : IsLevels(list, i, h) /\ Dependents(list, i) = h[Len(list)]
<1> DEFINE L == Len(list)
           V == SUBSET DOMAIN list
           step == [x \in (1..L) \X V |-> Grown(list, x[2])]
           IsReached(f) == f = [n \in 0..L |->
                                   IF n = 0 THEN {i}
                                   ELSE f[n - 1] \cup
                                        {j \in DOMAIN list : \E k \in f[n - 1] : DependsExactly(list, j, k)}]
<1>1. L \in Nat /\ DOMAIN list = 1..L
  OBVIOUS
<1>2. step \in [(1..L) \X V -> V] /\ {i} \in V
  BY DEF Grown
<1> HIDE DEF L, V
<1>3. PICK f : IsRecursion(f, L, V, {i}, step)
  <2> HIDE DEF step
  <2> QED
    BY <1>1, <1>2, RecursionExists
<1>4. \A n \in 1..L : f[n] = Grown(list, f[n - 1])
  <2>1. TAKE n \in 1..L
  <2>2. n - 1 \in 0..L /\ f[n - 1] \in V
    BY <1>1, <1>3 DEF IsRecursion
  <2> QED
    BY <1>3, <2>2 DEF IsRecursion
<1>5. IsReached(f)
  <2>1. \A n \in 0..L : f[n] = IF n = 0 THEN {i}
                               ELSE f[n - 1] \cup
                                    {j \in DOMAIN list : \E k \in f[n - 1] : DependsExactly(list, j, k)}
    <3>1. \A n \in 0..L : n # 0 => n \in 1..L
      BY <1>1
    <3> HIDE DEF step
    <3> QED
      BY <1>3, <1>4, <3>1 DEF IsRecursion, Grown
  <2>2. f = [n \in 0..L |-> f[n]]
    BY <1>3 DEF IsRecursion
  <2> HIDE DEF step
  <2> QED
    BY <2>1, <2>2
<1>6. PICK h : IsReached(h) /\ Dependents(list, i) = h[L]
  <2>1. \E h : IsReached(h)
    BY <1>5
  <2>2. \E h : IsReached(h) /\ Dependents(list, i) = h[L]
    BY <2>1 DEF Dependents, L
  <2> QED
    BY <2>2
<1>7. h[0] = {i} /\ \A n \in 1..L : h[n] = Grown(list, h[n - 1])
  <2>1. \A n \in 0..L : h[n] = IF n = 0 THEN {i} ELSE Grown(list, h[n - 1])
    BY <1>6 DEF Grown
  <2>2. 0 \in 0..L /\ \A n \in 1..L : n \in 0..L /\ n # 0
    BY <1>1
  <2> HIDE DEF IsReached
  <2> QED
    BY <2>1, <2>2
<1> HIDE DEF IsReached
<1> QED
  BY <1>6, <1>7 DEF IsLevels, L

(* Dependents is the least set that has the package and all that depends   *)
(* on one of the set.                                                      *)
LEMMA DependentsClosed ==
    ASSUME NEW T, NEW list \in Seq(T), NEW i \in DOMAIN list
    PROVE  /\ i \in Dependents(list, i)
           /\ Dependents(list, i) \subseteq DOMAIN list
           /\ IsClosed(list, Dependents(list, i))
<1>1. PICK h : IsLevels(list, i, h) /\ Dependents(list, i) = h[Len(list)]
  BY DependentsLevels
<1> DEFINE L == Len(list)
           D == DOMAIN list
<1>2. L \in Nat /\ D = 1..L
  OBVIOUS
<1> HIDE DEF L, D
<1>3. IsFiniteSet(D) /\ Cardinality(D) = L
  <2>1. 1 \in Int /\ L \in Int
    BY <1>2
  <2>2. IsFiniteSet(1..L) /\ Cardinality(1..L) = IF 1 > L THEN 0 ELSE L - 1 + 1
    BY <2>1, FS_Interval
  <2> QED
    BY <1>2, <2>2
<1> DEFINE P == {n \in 0..L : /\ i \in h[n] /\ h[n] \subseteq D
                              /\ IsClosed(list, h[n]) \/ Cardinality(h[n]) >= n + 1}
<1>4. 0 \in P
  <2>1. h[0] = {i}
    BY <1>1 DEF IsLevels
  <2>2. Cardinality({i}) = 1
    BY FS_Singleton
  <2>3. {i} \subseteq D /\ 0 \in 0..L
    BY <1>2 DEF D
  <2>4. i \in h[0] /\ h[0] \subseteq D /\ Cardinality(h[0]) >= 0 + 1
    BY <2>1, <2>2, <2>3
  <2> QED
    BY <2>3, <2>4
<1>5. ASSUME NEW n \in 1..L, n - 1 \in P PROVE n \in P
  <2> DEFINE B == h[n - 1]
             C == h[n]
  <2>1. C = Grown(list, B)
    BY <1>1, <1>5 DEF IsLevels, L
  <2>2. i \in B /\ B \subseteq D /\ (IsClosed(list, B) \/ Cardinality(B) >= n)
    BY <1>2, <1>5
  <2> HIDE DEF B, C
  <2>3. i \in C /\ C \subseteq D /\ B \subseteq C
    BY <2>1, <2>2 DEF Grown, D
  <2>4. CASE IsClosed(list, B)
    <3>1. C = B
      BY <2>1, <2>4 DEF Grown, IsClosed
    <3> QED
      BY <1>2, <2>3, <2>4, <3>1 DEF C
  <2>5. CASE ~IsClosed(list, B)
    <3>1. PICK x \in C : x \notin B
      BY <2>1, <2>5 DEF Grown, IsClosed
    <3>2. IsFiniteSet(C) /\ IsFiniteSet(B)
      BY <1>3, <2>2, <2>3, FS_Subset
    <3>3. IsFiniteSet(B \cup {x}) /\ Cardinality(B \cup {x}) = Cardinality(B) + 1
      BY <3>1, <3>2, FS_AddElement
    <3>4. B \cup {x} \subseteq C
      BY <2>3, <3>1
    <3>5. Cardinality(B \cup {x}) <= Cardinality(C)
      BY <3>2, <3>4, FS_Subset
    <3>6. Cardinality(B) \in Nat /\ Cardinality(C) \in Nat
      BY <3>2, FS_CardinalityType
    <3>7. Cardinality(C) >= n + 1
      BY <1>2, <2>2, <2>5, <3>3, <3>5, <3>6
    <3> QED
      BY <1>2, <2>3, <3>7 DEF C
  <2> QED
    BY <2>4, <2>5
<1>6. L \in P
  <2> HIDE DEF P
  <2>1. \A n \in 0..L : n \in P
    BY <1>2, <1>4, <1>5, UpTo
  <2> QED
    BY <1>2, <2>1
<1>7. ~(Cardinality(h[L]) >= L + 1)
  <2>1. Cardinality(h[L]) <= L /\ Cardinality(h[L]) \in Nat
    BY <1>3, <1>6, FS_Subset, FS_CardinalityType
  <2> QED
    BY <1>2, <2>1
<1> QED
  BY <1>1, <1>6, <1>7 DEF L, D

LEMMA DependentsLeast ==
    ASSUME NEW T, NEW list \in Seq(T), NEW i \in DOMAIN list,
           NEW S, i \in S, IsClosed(list, S)
    PROVE  Dependents(list, i) \subseteq S
<1>1. PICK h : IsLevels(list, i, h) /\ Dependents(list, i) = h[Len(list)]
  BY DependentsLevels
<1> DEFINE L == Len(list)
           P == {n \in 0..L : h[n] \subseteq S}
<1>2. L \in Nat
  OBVIOUS
<1>3. 0 \in P
  BY <1>1, <1>2 DEF IsLevels
<1>4. ASSUME NEW n \in 1..L, n - 1 \in P PROVE n \in P
  <2>1. h[n] = Grown(list, h[n - 1]) /\ h[n - 1] \subseteq S /\ n \in 0..L
    BY <1>1, <1>2, <1>4 DEF IsLevels
  <2>2. Grown(list, h[n - 1]) \subseteq S
    BY <2>1 DEF Grown, IsClosed
  <2> QED
    BY <2>1, <2>2
<1>5. \A n \in 0..L : n \in P
  <2> HIDE DEF P, L
  <2> QED
    BY <1>2, <1>3, <1>4, UpTo
<1> QED
  BY <1>1, <1>2, <1>5

(* A package's dependents are those of the packages that depend on it.     *)
LEMMA DependentsNested ==
    ASSUME NEW T, NEW list \in Seq(T), NEW i \in DOMAIN list, NEW j \in Dependents(list, i)
    PROVE  j \in DOMAIN list /\ Dependents(list, j) \subseteq Dependents(list, i)
<1>1. j \in DOMAIN list
  BY DependentsClosed
<1> QED
  BY <1>1, DependentsClosed, DependentsLeast

LEMMA DependentsUnfold ==
    ASSUME NEW T, NEW list \in Seq(T), NEW i \in DOMAIN list,
           NEW S, i \in S,
           \A k \in DOMAIN list : DependsExactly(list, k, i) /\ k # i => Dependents(list, k) \subseteq S,
           NEW x \in Dependents(list, i)
    PROVE  x \in S
<1> DEFINE B == {y \in S : y = i \/ \E k \in DOMAIN list :
                                       /\ DependsExactly(list, k, i) /\ k # i
                                       /\ y \in Dependents(list, k)}
<1>1. i \in B
  OBVIOUS
<1>2. ASSUME NEW y \in B, NEW z \in DOMAIN list, DependsExactly(list, z, y) PROVE z \in B
  <2>1. CASE y = i /\ z # i
    BY <1>2, <2>1, DependentsClosed
  <2>2. CASE z = i
    BY <1>1, <2>2
  <2>3. CASE y # i
    <3>1. PICK k \in DOMAIN list : DependsExactly(list, k, i) /\ k # i /\ y \in Dependents(list, k)
      BY <2>3
    <3>2. IsClosed(list, Dependents(list, k))
      BY DependentsClosed
    <3>3. z \in Dependents(list, k)
      BY <1>2, <3>1, <3>2 DEF IsClosed
    <3> QED
      BY <3>1, <3>3
  <2> QED
    BY <2>1, <2>2, <2>3
<1> HIDE DEF B
<1>3. Dependents(list, i) \subseteq B
  BY <1>1, <1>2, DependentsLeast DEF IsClosed
<1> QED
  BY <1>3 DEF B

-----------------------------------------------------------------------------
(* The loop of calculateDependenciesReverse, over what the recursion gives. *)
IsFollowing(list, i, f, h) ==
    /\ h[0] = <<i>>
    /\ \A n \in 1..Len(list) : h[n] = Followed(list, i, f, h[n - 1], n)

(* The recursion gives lists of packages for all that depend on this one. *)
GivesLists(list, i, f) ==
    \A k \in DOMAIN list : DependsExactly(list, k, i) /\ k # i => f[k] \in Seq(DOMAIN list)

ListsWith(list, i) == {q \in Seq(DOMAIN list) : i \in ToSet(q)}

LEMMA FollowedType ==
    ASSUME NEW T, NEW list \in Seq(T), NEW i \in DOMAIN list, NEW f, GivesLists(list, i, f),
           NEW q \in ListsWith(list, i), NEW n \in DOMAIN list
    PROVE  Followed(list, i, f, q, n) \in ListsWith(list, i)
<1>1. CASE n \notin ToSet(q) /\ DependsExactly(list, n, i)
  <2>1. n # i /\ q \in Seq(DOMAIN list) /\ i \in ToSet(q)
    BY <1>1 DEF ListsWith
  <2>2. f[n] \in Seq(DOMAIN list)
    BY <1>1, <2>1 DEF GivesLists
  <2>3. Followed(list, i, f, q, n) = q \o f[n]
    BY <1>1 DEF Followed
  <2> QED
    BY <2>1, <2>2, <2>3, ConcatElements DEF ListsWith
<1>2. CASE ~(n \notin ToSet(q) /\ DependsExactly(list, n, i))
  BY <1>2 DEF Followed
<1> QED
  BY <1>1, <1>2

LEMMA FollowingType ==
    ASSUME NEW T, NEW list \in Seq(T), NEW i \in DOMAIN list, NEW f, GivesLists(list, i, f),
           NEW h, IsFollowing(list, i, f, h)
    PROVE  \A n \in 0..Len(list) : h[n] \in ListsWith(list, i)
<1> DEFINE L == Len(list)
           P == {n \in 0..L : h[n] \in ListsWith(list, i)}
<1>1. L \in Nat /\ DOMAIN list = 1..L
  OBVIOUS
<1>2. 0 \in P
  <2>1. <<i>> \in ListsWith(list, i)
    BY DEF ListsWith, ToSet
  <2>2. h[0] = <<i>>
    BY DEF IsFollowing
  <2> QED
    BY <1>1, <2>1, <2>2
<1>3. ASSUME NEW n \in 1..L, n - 1 \in P PROVE n \in P
  <2>1. h[n] = Followed(list, i, f, h[n - 1], n)
    BY <1>3 DEF IsFollowing
  <2>2. h[n - 1] \in ListsWith(list, i) /\ n \in 0..L /\ n \in DOMAIN list
    BY <1>1, <1>3
  <2>3. h[n] \in ListsWith(list, i)
    BY <2>1, <2>2, FollowedType
  <2> QED
    BY <2>2, <2>3
<1>4. \A n \in 0..L : n \in P
  <2> HIDE DEF P, L
  <2> QED
    BY <1>1, <1>2, <1>3, UpTo
<1> QED
  BY <1>4

LEMMA FollowingExists ==
    ASSUME NEW T, NEW list \in Seq(T), NEW i \in DOMAIN list, NEW f, GivesLists(list, i, f)
    PROVE  \E h : IsFollowing(list, i, f, h) /\ WithFollowers(list, i, f) = h[Len(list)]
<1> DEFINE L == Len(list)
           V == ListsWith(list, i)
           step == [x \in (1..L) \X V |-> Followed(list, i, f, x[2], x[1])]
           one == <<i>>
           IsOut(h) == h = [n \in 0..L |->
                               IF n = 0 THEN one ELSE Followed(list, i, f, h[n - 1], n)]
<1>1. L \in Nat /\ DOMAIN list = 1..L
  OBVIOUS
<1>2. one \in V
  BY DEF ListsWith, ToSet
<1> HIDE DEF L, V, one
<1>3. step \in [(1..L) \X V -> V]
  <2>1. \A n \in 1..L, q \in V : Followed(list, i, f, q, n) \in V
    BY <1>1, FollowedType DEF V
  <2> QED
    BY <2>1
<1>4. PICK g : IsRecursion(g, L, V, one, step)
  <2> HIDE DEF step
  <2> QED
    BY <1>1, <1>2, <1>3, RecursionExists
<1>5. \A n \in 1..L : g[n] = Followed(list, i, f, g[n - 1], n)
  <2>1. TAKE n \in 1..L
  <2>2. n - 1 \in 0..L /\ g[n - 1] \in V
    BY <1>1, <1>4 DEF IsRecursion
  <2> QED
    BY <1>4, <2>2 DEF IsRecursion
<1>6. IsOut(g)
  <2>1. \A n \in 0..L : g[n] = IF n = 0 THEN one ELSE Followed(list, i, f, g[n - 1], n)
    <3>1. \A n \in 0..L : n # 0 => n \in 1..L
      BY <1>1
    <3> HIDE DEF step
    <3> QED
      BY <1>4, <1>5, <3>1 DEF IsRecursion
  <2>2. g = [n \in 0..L |-> g[n]]
    BY <1>4 DEF IsRecursion
  <2> HIDE DEF step
  <2> QED
    BY <2>1, <2>2
<1>7. PICK h : IsOut(h) /\ WithFollowers(list, i, f) = h[L]
  <2>1. \E h : IsOut(h)
    BY <1>6
  <2>2. \E h : IsOut(h) /\ WithFollowers(list, i, f) = h[L]
    BY <2>1 DEF WithFollowers, L, one
  <2> QED
    BY <2>2
<1>8. h[0] = one /\ \A n \in 1..L : h[n] = Followed(list, i, f, h[n - 1], n)
  <2>1. \A n \in 0..L : h[n] = IF n = 0 THEN one ELSE Followed(list, i, f, h[n - 1], n)
    BY <1>7
  <2>2. 0 \in 0..L /\ \A n \in 1..L : n \in 0..L /\ n # 0
    BY <1>1
  <2> HIDE DEF IsOut
  <2> QED
    BY <2>1, <2>2
<1> HIDE DEF IsOut
<1> QED
  BY <1>7, <1>8 DEF IsFollowing, L, one

(* The loop looks at nothing but the lists of what depends on the package. *)
LEMMA FollowingLocal ==
    ASSUME NEW T, NEW list \in Seq(T), NEW i \in DOMAIN list, NEW f, NEW g,
           GivesLists(list, i, f),
           \A k \in DOMAIN list : DependsExactly(list, k, i) /\ k # i => g[k] = f[k]
    PROVE  WithFollowers(list, i, f) = WithFollowers(list, i, g)
<1>1. GivesLists(list, i, g)
  BY DEF GivesLists
<1>2. PICK h : IsFollowing(list, i, f, h) /\ WithFollowers(list, i, f) = h[Len(list)]
  BY FollowingExists
<1>3. PICK o : IsFollowing(list, i, g, o) /\ WithFollowers(list, i, g) = o[Len(list)]
  BY <1>1, FollowingExists
<1> DEFINE L == Len(list)
           P == {n \in 0..L : h[n] = o[n]}
<1>4. L \in Nat /\ DOMAIN list = 1..L
  OBVIOUS
<1>5. 0 \in P
  BY <1>2, <1>3, <1>4 DEF IsFollowing
<1>6. ASSUME NEW n \in 1..L, n - 1 \in P PROVE n \in P
  <2>1. h[n] = Followed(list, i, f, h[n - 1], n) /\ o[n] = Followed(list, i, g, o[n - 1], n)
    BY <1>2, <1>3, <1>6 DEF IsFollowing
  <2>2. h[n - 1] = o[n - 1] /\ n \in DOMAIN list /\ n \in 0..L /\ n - 1 \in 0..L
    BY <1>4, <1>6
  <2>3. i \in ToSet(h[n - 1])
    BY <1>2, <2>2, FollowingType DEF ListsWith
  <2>4. Followed(list, i, f, h[n - 1], n) = Followed(list, i, g, h[n - 1], n)
    <3>1. CASE n \notin ToSet(h[n - 1]) /\ DependsExactly(list, n, i)
      <4>1. g[n] = f[n]
        BY <2>2, <2>3, <3>1
      <4> QED
        BY <4>1 DEF Followed
    <3>2. CASE ~(n \notin ToSet(h[n - 1]) /\ DependsExactly(list, n, i))
      BY <3>2 DEF Followed
    <3> QED
      BY <3>1, <3>2
  <2> QED
    BY <2>1, <2>2, <2>4
<1>7. \A n \in 0..L : n \in P
  <2> HIDE DEF P, L
  <2> QED
    BY <1>4, <1>5, <1>6, UpTo
<1> QED
  BY <1>2, <1>3, <1>4, <1>7

(* If the lists of what depends on a package have all that depends on      *)
(* those, then its own has, although the loop passes over some.            *)
LEMMA FollowingFindsAll ==
    ASSUME NEW T, NEW list \in Seq(T), NEW i \in DOMAIN list, NEW f,
           \A k \in DOMAIN list : DependsExactly(list, k, i) /\ k # i =>
               f[k] \in Seq(DOMAIN list) /\ ToSet(f[k]) = Dependents(list, k)
    PROVE  /\ WithFollowers(list, i, f) \in Seq(DOMAIN list)
           /\ ToSet(WithFollowers(list, i, f)) = Dependents(list, i)
<1>1. GivesLists(list, i, f)
  BY DEF GivesLists
<1>2. PICK h : IsFollowing(list, i, f, h) /\ WithFollowers(list, i, f) = h[Len(list)]
  BY <1>1, FollowingExists
<1> DEFINE L == Len(list)
           All(n) == \A k \in 1..n : DependsExactly(list, k, i) /\ k # i =>
                         Dependents(list, k) \subseteq ToSet(h[n])
           Only(n) == ToSet(h[n]) \subseteq Dependents(list, i)
           Full(n) == \A q \in ToSet(h[n]) : q # i => Dependents(list, q) \subseteq ToSet(h[n])
           P == {n \in 0..L : All(n) /\ Only(n) /\ Full(n)}
<1>3. L \in Nat /\ DOMAIN list = 1..L
  OBVIOUS
<1>4. \A n \in 0..L : h[n] \in Seq(DOMAIN list) /\ i \in ToSet(h[n])
  BY <1>1, <1>2, FollowingType DEF ListsWith
<1>5. 0 \in P
  <2>1. ToSet(h[0]) = {i}
    <3>1. h[0] = <<i>>
      BY <1>2 DEF IsFollowing
    <3>2. ToSet(<<i>>) = {i}
      BY DEF ToSet
    <3> QED
      BY <3>1, <3>2
  <2>2. i \in Dependents(list, i)
    BY DependentsClosed
  <2>3. All(0)
    OBVIOUS
  <2>4. Only(0) /\ Full(0)
    BY <2>1, <2>2
  <2> HIDE DEF All, Only, Full
  <2> QED
    BY <1>3, <2>3, <2>4
<1>6. ASSUME NEW n \in 1..L, n - 1 \in P PROVE n \in P
  <2> DEFINE p == h[n - 1]
             D == Dependents(list, n)
  <2>1. h[n] = Followed(list, i, f, p, n)
    BY <1>2, <1>6 DEF IsFollowing
  <2>2. n \in DOMAIN list /\ n \in 0..L /\ n - 1 \in 0..L /\ 1..n = 1..(n - 1) \cup {n}
    BY <1>3
  <2>3. p \in Seq(DOMAIN list) /\ i \in ToSet(p)
    BY <1>4, <2>2
  <2>4. All(n - 1) /\ Only(n - 1) /\ Full(n - 1)
    BY <1>6
  <2>5. CASE n \notin ToSet(p) /\ DependsExactly(list, n, i)
    <3>1. n # i
      BY <2>3, <2>5
    <3>2. f[n] \in Seq(DOMAIN list) /\ ToSet(f[n]) = D
      BY <2>2, <2>5, <3>1
    <3>3. h[n] = p \o f[n]
      BY <2>1, <2>5 DEF Followed
    <3> HIDE DEF p, D
    <3>4. ToSet(h[n]) = ToSet(p) \cup D
      BY <2>3, <3>2, <3>3, ConcatElements
    <3>5. All(n)
      <4>1. TAKE k \in 1..n
      <4>2. CASE k = n
        BY <3>4, <4>2 DEF D
      <4>3. CASE k \in 1..(n - 1)
        BY <2>4, <3>4, <4>3 DEF p
      <4> QED
        BY <2>2, <4>2, <4>3
    <3>6. n \in Dependents(list, i)
      BY <2>2, <2>5, DependentsClosed DEF IsClosed
    <3>7. D \subseteq Dependents(list, i)
      BY <3>6, DependentsNested DEF D
    <3>8. Only(n)
      BY <2>4, <3>4, <3>7 DEF p
    <3>9. \A q \in D : Dependents(list, q) \subseteq D
      BY <2>2, DependentsNested DEF D
    <3>10. Full(n)
      <4>1. TAKE q \in ToSet(h[n])
      <4>2. CASE q \in ToSet(p)
        BY <2>4, <3>4, <4>2 DEF p
      <4>3. CASE q \in D
        BY <3>4, <3>9, <4>3
      <4> QED
        BY <3>4, <4>2, <4>3
    <3> HIDE DEF All, Only, Full
    <3> QED
      BY <2>2, <3>5, <3>8, <3>10
  <2>6. CASE ~(n \notin ToSet(p) /\ DependsExactly(list, n, i))
    <3>1. h[n] = p
      BY <2>1, <2>6 DEF Followed
    <3>2. Only(n) /\ Full(n)
      BY <2>4, <3>1
    <3>3. All(n)
      <4>1. TAKE k \in 1..n
      <4>2. CASE k = n
        <5>1. HAVE DependsExactly(list, k, i) /\ k # i
        <5>2. n \in ToSet(p)
          BY <2>6, <4>2, <5>1
        <5> QED
          BY <2>4, <3>1, <4>2, <5>1, <5>2
      <4>3. CASE k \in 1..(n - 1)
        BY <2>4, <3>1, <4>3
      <4> QED
        BY <2>2, <4>2, <4>3
    <3> HIDE DEF All, Only, Full
    <3> QED
      BY <2>2, <3>2, <3>3
  <2> QED
    BY <2>5, <2>6
<1>7. L \in P
  <2> HIDE DEF P, L
  <2>1. \A n \in 0..L : n \in P
    BY <1>3, <1>5, <1>6, UpTo
  <2> QED
    BY <1>3, <2>1
<1>8. All(L) /\ Only(L) /\ i \in ToSet(h[L]) /\ h[L] \in Seq(DOMAIN list)
  BY <1>3, <1>4, <1>7
<1>9. Dependents(list, i) \subseteq ToSet(h[L])
  BY <1>3, <1>8, DependentsUnfold
<1> QED
  BY <1>2, <1>8, <1>9

-----------------------------------------------------------------------------
(* Where no packages depend on each other in a circle, the recursion goes  *)
(* from each package to ones with fewer dependents: it gives one list per  *)
(* package, and that list has all dependents.                              *)
RankOf(list, i) == Cardinality(Dependents(list, i))

Right(list, i, q) == q \in Seq(DOMAIN list) /\ ToSet(q) = Dependents(list, i)

LEMMA RankType ==
    ASSUME NEW T, NEW list \in Seq(T), NEW i \in DOMAIN list
    PROVE  RankOf(list, i) \in 1..Len(list) /\ IsFiniteSet(Dependents(list, i))
<1> DEFINE D == DOMAIN list
           L == Len(list)
           B == Dependents(list, i)
<1>1. L \in Nat /\ D = 1..L
  OBVIOUS
<1>2. i \in B /\ B \subseteq D
  BY DependentsClosed
<1> HIDE DEF D, L, B
<1>3. IsFiniteSet(D) /\ Cardinality(D) = L
  <2>1. 1 \in Int /\ L \in Int
    BY <1>1
  <2>2. IsFiniteSet(1..L) /\ Cardinality(1..L) = IF 1 > L THEN 0 ELSE L - 1 + 1
    BY <2>1, FS_Interval
  <2> QED
    BY <1>1, <2>2
<1>4. IsFiniteSet(B) /\ Cardinality(B) <= L
  BY <1>2, <1>3, FS_Subset
<1>5. Cardinality(B) \in Nat /\ Cardinality(B) # 0
  BY <1>2, <1>4, FS_CardinalityType, FS_EmptySet
<1> QED
  BY <1>1, <1>4, <1>5 DEF RankOf, B, L

LEMMA RankFalls ==
    ASSUME NEW T, NEW list \in Seq(T), NEW s \in DOMAIN list, ~Endless(list, s),
           NEW i \in Dependents(list, s),
           NEW k \in DOMAIN list, DependsExactly(list, k, i), k # i
    PROVE  k \in Dependents(list, s) /\ RankOf(list, k) < RankOf(list, i)
<1>1. i \in DOMAIN list /\ k \in Dependents(list, s)
  BY DependentsClosed DEF IsClosed
<1>2. i \notin Dependents(list, k)
  BY DEF Endless
<1>3. i \in Dependents(list, i) /\ k \in Dependents(list, i)
  BY <1>1, DependentsClosed DEF IsClosed
<1>4. Dependents(list, k) \subseteq Dependents(list, i)
  BY <1>1, <1>3, DependentsNested
<1>5. IsFiniteSet(Dependents(list, i)) /\ Dependents(list, k) # Dependents(list, i)
  BY <1>1, <1>2, <1>3, RankType
<1>6. /\ Cardinality(Dependents(list, k)) <= Cardinality(Dependents(list, i))
      /\ Cardinality(Dependents(list, k)) = Cardinality(Dependents(list, i)) =>
             Dependents(list, k) = Dependents(list, i)
  BY <1>4, <1>5, FS_Subset
<1>7. RankOf(list, k) \in Nat /\ RankOf(list, i) \in Nat
  BY <1>1, RankType
<1> QED
  BY <1>1, <1>5, <1>6, <1>7 DEF RankOf

LEMMA ReverseExists ==
    ASSUME NEW T, NEW list \in Seq(T), NEW s \in DOMAIN list, ~Endless(list, s)
    PROVE  \E f : f = [i \in Dependents(list, s) |-> WithFollowers(list, i, f)]
<1> DEFINE D == Dependents(list, s)
           IsUpTo(f, r) == \A i \in D : RankOf(list, i) <= r =>
                               Right(list, i, f[i]) /\ f[i] = WithFollowers(list, i, f)
           S == {r \in Nat : \E f : IsUpTo(f, r)}
<1>1. \A i \in D : i \in DOMAIN list /\ RankOf(list, i) \in 1..Len(list)
  BY DependentsClosed, RankType
<1>2. Len(list) \in Nat
  OBVIOUS
<1> HIDE DEF D
<1>3. 0 \in S
  <2>1. \A i \in D : ~(RankOf(list, i) <= 0)
    BY <1>1, <1>2
  <2>2. IsUpTo(<<>>, 0)
    BY <2>1
  <2> HIDE DEF IsUpTo
  <2> QED
    BY <2>2
<1>4. ASSUME NEW r \in Nat, r \in S PROVE r + 1 \in S
  <2>1. PICK f : IsUpTo(f, r)
    <3> HIDE DEF IsUpTo
    <3> QED
      BY <1>4
  <2> DEFINE g == [i \in D |-> IF RankOf(list, i) <= r THEN f[i] ELSE WithFollowers(list, i, f)]
  <2>2. ASSUME NEW i \in D, RankOf(list, i) <= r + 1
        PROVE  Right(list, i, g[i]) /\ g[i] = WithFollowers(list, i, g)
    <3>1. i \in DOMAIN list
      BY <1>1
    <3>2. \A k \in DOMAIN list : DependsExactly(list, k, i) /\ k # i =>
              /\ g[k] = f[k]
              /\ Right(list, k, f[k])
      <4>1. TAKE k \in DOMAIN list
      <4>2. HAVE DependsExactly(list, k, i) /\ k # i
      <4>3. k \in D /\ RankOf(list, k) < RankOf(list, i)
        BY <4>2, RankFalls DEF D
      <4>4. RankOf(list, k) <= r
        BY <1>1, <1>2, <2>2, <4>3
      <4> QED
        BY <2>1, <4>3, <4>4
    <3>3. g[i] = WithFollowers(list, i, f)
      BY <2>1
    <3> HIDE DEF g, IsUpTo
    <3>4. Right(list, i, WithFollowers(list, i, f))
      BY <3>1, <3>2, FollowingFindsAll DEF Right
    <3>5. WithFollowers(list, i, f) = WithFollowers(list, i, g)
      <4>1. GivesLists(list, i, f)
        BY <3>2 DEF GivesLists, Right
      <4>2. \A k \in DOMAIN list : DependsExactly(list, k, i) /\ k # i => g[k] = f[k]
        BY <3>2
      <4> QED
        BY <3>1, <4>1, <4>2, FollowingLocal
    <3> QED
      BY <3>3, <3>4, <3>5
  <2> HIDE DEF g
  <2>3. IsUpTo(g, r + 1)
    BY <2>2
  <2> HIDE DEF IsUpTo
  <2> QED
    BY <2>3
<1>5. Nat \subseteq S
  <2> HIDE DEF S
  <2> QED
    BY <1>3, <1>4, Induction
<1>6. PICK f : IsUpTo(f, Len(list))
  <2> HIDE DEF IsUpTo
  <2> QED
    BY <1>2, <1>5
<1>7. \A i \in D : Right(list, i, f[i]) /\ f[i] = WithFollowers(list, i, f)
  BY <1>1, <1>2, <1>6
<1> DEFINE g == [i \in D |-> f[i]]
<1>8. \A i \in D : g[i] = WithFollowers(list, i, g)
  <2>1. TAKE i \in D
  <2>2. \A k \in DOMAIN list : DependsExactly(list, k, i) /\ k # i =>
            g[k] = f[k] /\ Right(list, k, f[k])
    <3>1. TAKE k \in DOMAIN list
    <3>2. HAVE DependsExactly(list, k, i) /\ k # i
    <3>3. k \in D
      BY <3>2, RankFalls DEF D
    <3> QED
      BY <1>7, <3>3
  <2>3. g[i] = f[i]
    OBVIOUS
  <2> HIDE DEF g, IsUpTo
  <2>4. GivesLists(list, i, f)
    BY <2>2 DEF GivesLists, Right
  <2>5. WithFollowers(list, i, f) = WithFollowers(list, i, g)
    BY <1>1, <2>2, <2>4, FollowingLocal
  <2> QED
    BY <1>7, <2>3, <2>5
<1>9. g = [i \in D |-> WithFollowers(list, i, g)]
  <2>1. g = [i \in D |-> g[i]]
    OBVIOUS
  <2> HIDE DEF g, IsUpTo
  <2> QED
    BY <1>8, <2>1
<1> HIDE DEF g
<1> QED
  BY <1>9 DEF D

LEMMA ReverseRight ==
    ASSUME NEW T, NEW list \in Seq(T), NEW s \in DOMAIN list, ~Endless(list, s)
    PROVE  Right(list, s, CalculateDependenciesReverse(list, s))
<1> DEFINE D == Dependents(list, s)
           IsReverse(f) == f = [i \in D |-> WithFollowers(list, i, f)]
<1>1. PICK f : IsReverse(f) /\ CalculateDependenciesReverse(list, s) = f[s]
  <2>1. \E f : IsReverse(f)
    BY ReverseExists
  <2>2. \E f : IsReverse(f) /\ CalculateDependenciesReverse(list, s) = f[s]
    BY <2>1 DEF CalculateDependenciesReverse
  <2> QED
    BY <2>2
<1> DEFINE S == {r \in Nat : \A i \in D : RankOf(list, i) <= r => Right(list, i, f[i])}
<1>2. \A i \in D : i \in DOMAIN list /\ RankOf(list, i) \in 1..Len(list)
  BY DependentsClosed, RankType
<1>3. Len(list) \in Nat /\ s \in D
  BY DependentsClosed
<1>4. \A i \in D : f[i] = WithFollowers(list, i, f)
  BY <1>1
<1> HIDE DEF D, IsReverse
<1>5. 0 \in S
  BY <1>2, <1>3
<1>6. ASSUME NEW r \in Nat, r \in S PROVE r + 1 \in S
  <2>1. ASSUME NEW i \in D, RankOf(list, i) <= r + 1 PROVE Right(list, i, f[i])
    <3>1. \A k \in DOMAIN list : DependsExactly(list, k, i) /\ k # i => Right(list, k, f[k])
      <4>1. TAKE k \in DOMAIN list
      <4>2. HAVE DependsExactly(list, k, i) /\ k # i
      <4>3. k \in D /\ RankOf(list, k) < RankOf(list, i)
        BY <4>2, RankFalls DEF D
      <4>4. RankOf(list, k) <= r
        BY <1>2, <1>3, <2>1, <4>3
      <4> QED
        BY <1>6, <4>3, <4>4
    <3> HIDE DEF S
    <3>2. Right(list, i, WithFollowers(list, i, f))
      BY <1>2, <3>1, FollowingFindsAll DEF Right
    <3> QED
      BY <1>4, <3>2
  <2> QED
    BY <2>1
<1>7. Nat \subseteq S
  <2> HIDE DEF S
  <2> QED
    BY <1>5, <1>6, Induction
<1>8. RankOf(list, s) \in Nat /\ RankOf(list, s) \in S /\ RankOf(list, s) <= RankOf(list, s)
  BY <1>2, <1>3, <1>7
<1> QED
  BY <1>1, <1>3, <1>8

-----------------------------------------------------------------------------
(* The list of a remove command is that of all installed packages that     *)
(* depend, through whatever others, on one the argument names.             *)
LEMMA DuplicatesRemoved ==
    ASSUME NEW T, NEW s \in Seq(T)
    PROVE  RemoveDuplicates(s) \in Seq(T) /\ ToSet(RemoveDuplicates(s)) = ToSet(s)
<1> DEFINE firsts == {n \in DOMAIN s : \A m \in DOMAIN s : m < n => s[m] # s[n]}
<1>1. RemoveDuplicates(s) = Picked(s, firsts)
  BY DEF RemoveDuplicates
<1>2. ASSUME NEW x \in ToSet(s) PROVE \E n \in firsts : s[n] = x
  <2> DEFINE places == {n \in DOMAIN s : s[n] = x}
  <2>1. places \subseteq Nat /\ places # {}
    BY DEF ToSet
  <2>2. PICK n \in places : \A m \in places : n <= m
    <3> HIDE DEF places
    <3> QED
      BY <2>1, Least
  <2>3. n \in firsts
    BY <2>2
  <2> QED
    BY <2>2, <2>3
<1>3. {s[n] : n \in DOMAIN s \cap firsts} = ToSet(s)
  <2>1. firsts \subseteq DOMAIN s
    OBVIOUS
  <2> HIDE DEF firsts
  <2> QED
    BY <1>2, <2>1 DEF ToSet
<1> HIDE DEF firsts
<1>4. /\ Picked(s, firsts) \in Seq(T)
      /\ ToSet(Picked(s, firsts)) = {s[n] : n \in DOMAIN s \cap firsts}
  BY PickedElements
<1> QED
  BY <1>1, <1>3, <1>4

LEMMA NamedElements ==
    ASSUME metadata \in Seq(Package), NEW a, NEW noPlatform, NEW noVersion
    PROVE  /\ NamedPackages(a, noPlatform, noVersion) \in Seq(Entities)
           /\ \A i \in ToSet(NamedPackages(a, noPlatform, noVersion)) : i \in Entities
<1> DEFINE s == [i \in Entities |-> i]
           places == {i \in Entities : Named(a, i, noPlatform, noVersion)}
<1>1. s \in Seq(Entities)
  <2>1. Entities = 1..Len(metadata) /\ Len(metadata) \in Nat
    BY DEF Entities
  <2> QED
    BY <2>1, SeqDef
<1>2. \A i \in DOMAIN s : s[i] \in Entities
  OBVIOUS
<1>3. NamedPackages(a, noPlatform, noVersion) = Picked(s, places)
  BY DEF NamedPackages
<1> HIDE DEF s, places
<1>4. /\ Picked(s, places) \in Seq(Entities)
      /\ ToSet(Picked(s, places)) = {s[n] : n \in DOMAIN s \cap places}
  BY <1>1, PickedElements
<1> QED
  BY <1>2, <1>3, <1>4

LEMMA WithDependentsElements ==
    ASSUME metadata \in Seq(Package),
           NEW pkgs \in Seq(Entities), \A i \in ToSet(pkgs) : ~Endless(metadata, i)
    PROVE  /\ WithDependents(pkgs) \in Seq(Entities)
           /\ ToSet(WithDependents(pkgs)) =
                  {j \in Entities : /\ IsPackageInstalled(j)
                                    /\ \E i \in ToSet(pkgs) : j \in Dependents(metadata, i)}
<1> DEFINE L == Len(pkgs)
           V == Seq(Entities)
           Reverse1(n) == CalculateDependenciesReverse(metadata, pkgs[n])
           step == [x \in (1..L) \X V |-> x[2] \o Reverse1(x[1])]
           IsAll(f) == f = [n \in 0..L |-> IF n = 0 THEN <<>> ELSE f[n - 1] \o Reverse1(n)]
<1>1. L \in Nat /\ DOMAIN pkgs = 1..L /\ \A n \in 1..L : pkgs[n] \in Entities
  OBVIOUS
<1>2. \A n \in 1..L : Reverse1(n) \in V /\ ToSet(Reverse1(n)) = Dependents(metadata, pkgs[n])
  <2>1. TAKE n \in 1..L
  <2>2. pkgs[n] \in DOMAIN metadata /\ pkgs[n] \in ToSet(pkgs)
    BY <1>1 DEF Entities, ToSet
  <2>3. Right(metadata, pkgs[n], CalculateDependenciesReverse(metadata, pkgs[n]))
    BY <2>2, ReverseRight
  <2> QED
    BY <2>3 DEF Right, Entities
<1>3. <<>> \in V /\ ToSet(<<>>) = {}
  BY NoElements
<1> HIDE DEF L, V, Reverse1
<1>4. step \in [(1..L) \X V -> V]
  <2>1. \A n \in 1..L, q \in V : q \o Reverse1(n) \in V
    BY <1>2, ConcatElements DEF V
  <2> QED
    BY <2>1
<1>5. PICK g : IsRecursion(g, L, V, <<>>, step)
  <2> HIDE DEF step
  <2> QED
    BY <1>1, <1>3, <1>4, RecursionExists
<1>6. IsAll(g)
  <2>1. \A n \in 1..L : g[n] = g[n - 1] \o Reverse1(n)
    <3>1. TAKE n \in 1..L
    <3>2. n - 1 \in 0..L /\ g[n - 1] \in V
      BY <1>1, <1>5 DEF IsRecursion
    <3> QED
      BY <1>5, <3>2 DEF IsRecursion
  <2>2. \A n \in 0..L : g[n] = IF n = 0 THEN <<>> ELSE g[n - 1] \o Reverse1(n)
    <3>1. \A n \in 0..L : n # 0 => n \in 1..L
      BY <1>1
    <3> HIDE DEF step
    <3> QED
      BY <1>5, <2>1, <3>1 DEF IsRecursion
  <2>3. g = [n \in 0..L |-> g[n]]
    BY <1>5 DEF IsRecursion
  <2> HIDE DEF step
  <2> QED
    BY <2>2, <2>3
<1> DEFINE list(h) == RemoveDuplicates(h[L])
<1>7. PICK h : /\ IsAll(h)
               /\ WithDependents(pkgs) =
                      Picked(list(h), {n \in DOMAIN list(h) : IsPackageInstalled(list(h)[n])})
  <2>1. \E h : IsAll(h)
    BY <1>6
  <2>2. \E h : /\ IsAll(h)
               /\ WithDependents(pkgs) =
                      Picked(list(h), {n \in DOMAIN list(h) : IsPackageInstalled(list(h)[n])})
    BY <2>1 DEF WithDependents, L, Reverse1
  <2> QED
    BY <2>2
<1>8. h[0] = <<>> /\ \A n \in 1..L : h[n] = h[n - 1] \o Reverse1(n)
  <2>1. \A n \in 0..L : h[n] = IF n = 0 THEN <<>> ELSE h[n - 1] \o Reverse1(n)
    BY <1>7
  <2>2. 0 \in 0..L /\ \A n \in 1..L : n \in 0..L /\ n # 0
    BY <1>1
  <2> HIDE DEF IsAll, list
  <2> QED
    BY <2>1, <2>2
<1> DEFINE Of(n) == UNION {Dependents(metadata, pkgs[m]) : m \in 1..n}
           P == {n \in 0..L : h[n] \in V /\ ToSet(h[n]) = Of(n)}
<1> HIDE DEF IsAll, step
<1>9. 0 \in P
  <2>1. Of(0) = {}
    OBVIOUS
  <2> HIDE DEF Of
  <2>2. h[0] \in V
    BY <1>3, <1>8
  <2>3. ToSet(h[0]) = Of(0)
    BY <1>3, <1>8, <2>1
  <2>4. 0 \in 0..L
    BY <1>1
  <2> QED
    BY <2>2, <2>3, <2>4
<1>10. ASSUME NEW n \in 1..L, n - 1 \in P PROVE n \in P
  <2>1. /\ h[n - 1] \in V /\ ToSet(h[n - 1]) = Of(n - 1) /\ n \in 0..L
        /\ h[n] = h[n - 1] \o Reverse1(n)
    BY <1>1, <1>8, <1>10
  <2>2. Of(n) = Of(n - 1) \cup Dependents(metadata, pkgs[n])
    <3>1. 1..n = 1..(n - 1) \cup {n}
      BY <1>1
    <3> QED
      BY <3>1
  <2> HIDE DEF Of
  <2>3. h[n] \in V /\ ToSet(h[n]) = ToSet(h[n - 1]) \cup ToSet(Reverse1(n))
    BY <1>2, <2>1, ConcatElements DEF V
  <2> QED
    BY <1>2, <2>1, <2>2, <2>3
<1>11. h[L] \in V /\ ToSet(h[L]) = Of(L)
  <2> HIDE DEF P
  <2>1. \A n \in 0..L : n \in P
    BY <1>1, <1>9, <1>10, UpTo
  <2>2. L \in P
    BY <1>1, <2>1
  <2> QED
    BY <2>2 DEF P
<1> DEFINE found == list(h)
           places == {n \in DOMAIN found : IsPackageInstalled(found[n])}
<1>12. found \in Seq(Entities) /\ ToSet(found) = Of(L)
  BY <1>11, DuplicatesRemoved DEF V
<1>13. WithDependents(pkgs) = Picked(found, places)
  BY <1>7
<1> HIDE DEF found, list
<1>14. /\ Picked(found, places) \in Seq(Entities)
       /\ ToSet(Picked(found, places)) = {found[n] : n \in DOMAIN found \cap places}
  <2> HIDE DEF places
  <2> QED
    BY <1>12, PickedElements
<1>15. {found[n] : n \in DOMAIN found \cap places} =
           {j \in ToSet(found) : IsPackageInstalled(j)}
  BY DEF ToSet
<1>16. \A n \in DOMAIN found : found[n] \in Entities
  BY <1>12
<1>17. ToSet(found) = {j \in Entities : \E i \in ToSet(pkgs) : j \in Dependents(metadata, i)}
  <2>1. ToSet(pkgs) = {pkgs[m] : m \in 1..L}
    BY <1>1 DEF ToSet
  <2>2. Of(L) = UNION {Dependents(metadata, i) : i \in ToSet(pkgs)}
    BY <2>1
  <2>3. ToSet(found) \subseteq Entities
    BY <1>16 DEF ToSet
  <2> HIDE DEF Of
  <2> QED
    BY <1>12, <2>2, <2>3
<1> HIDE DEF places
<1> QED
  BY <1>13, <1>14, <1>15, <1>17

(* The reverse calculation finds every package that depends on the first,  *)
(* for any metadata in which none of those depend on each other in a       *)
(* circle.                                                                 *)
THEOREM ReverseAll == Spec => []ReverseFindsAll
<1>1. ASSUME metadata \in MetadataLists PROVE ReverseFindsAll
  <2>1. metadata \in Seq(Package)
    BY <1>1, CommandsAssumption
  <2> QED
    BY <2>1, ReverseRight DEF ReverseFindsAll, Right, Entities
<1> QED
  BY <1>1, MetadataKept, PTL

LEMMA RemovesDependents ==
    ASSUME metadata \in Seq(Package), NEW a, NEW noPlatform, NEW noVersion,
           RemoveCommand(a, noPlatform, noVersion), outcome' = "success",
           NEW i \in Entities, NEW j \in Entities,
           KeyAt(i) \in installed \ installed', DependsExactly(metadata, j, i)
    PROVE  KeyAt(j) \notin installed'
<1> DEFINE pkgs == NamedPackages(a, noPlatform, noVersion)
           list == WithDependents(pkgs)
<1>1. \A p \in ToSet(pkgs) : ~Endless(metadata, p)
  BY DEF RemoveCommand
<1>2. PICK n \in 0..Len(list) : /\ installed' = installed \ KeysOf(list, n)
                                /\ outcome' = IF n = Len(list) THEN "success" ELSE "failure"
  BY DEF RemoveCommand, SetPackageUninstalled
<1>3. installed' = installed \ KeysOf(list, Len(list))
  BY <1>2
<1>4. pkgs \in Seq(Entities) /\ \A p \in ToSet(pkgs) : p \in Entities
  BY NamedElements
<1> HIDE DEF pkgs
<1>5. /\ list \in Seq(Entities)
      /\ ToSet(list) = {q \in Entities : /\ IsPackageInstalled(q)
                                         /\ \E p \in ToSet(pkgs) : q \in Dependents(metadata, p)}
  BY <1>1, <1>4, WithDependentsElements
<1> HIDE DEF list
<1>6. KeysOf(list, Len(list)) = {KeyAt(q) : q \in ToSet(list)}
  BY <1>5 DEF KeysOf, ToSet
<1>7. PICK q \in ToSet(list) : KeyAt(i) = KeyAt(q)
  BY <1>3, <1>6
<1>8. PICK p \in ToSet(pkgs) : q \in Dependents(metadata, p)
  BY <1>5
<1>9. DependsExactly(metadata, j, q)
  BY <1>7 DEF DependsExactly, KeyAt, GenerateKey
<1>10. p \in DOMAIN metadata /\ j \in DOMAIN metadata
  BY <1>4 DEF Entities
<1>11. j \in Dependents(metadata, p)
  BY <1>8, <1>9, <1>10, DependentsClosed DEF IsClosed
<1>12. IsPackageInstalled(j) => j \in ToSet(list)
  BY <1>5, <1>11
<1> QED
  BY <1>3, <1>6, <1>12 DEF IsPackageInstalled

(* A remove command that succeeds leaves no package that depends on one it *)
(* removed, for any metadata and whatever else is installed.               *)
THEOREM Removes == Spec => RemoveCloses
<1> DEFINE Closes == outcome' = "success" =>
                         \A i, j \in Entities :
                             /\ KeyAt(i) \in installed \ installed'
                             /\ DependsExactly(metadata, j, i)
                             => KeyAt(j) \notin installed'
<1>1. ASSUME metadata \in MetadataLists, [Next]_vars PROVE [Closes]_vars
  <2>1. metadata \in Seq(Package)
    BY <1>1, CommandsAssumption
  <2>2. CASE UNCHANGED vars
    BY <2>2
  <2>3. ASSUME NEW arguments \in CommandLines, InstallCommand(arguments) PROVE Closes
    BY <2>3 DEF InstallCommand, SetPackageInstalled
  <2>4. ASSUME NEW arguments \in CommandLines, InstallCrashes(arguments) PROVE Closes
    BY <2>4 DEF InstallCrashes
  <2>5. ASSUME NEW a \in Arguments, NEW noPlatform \in {"host", "abort"},
               NEW noVersion \in {"abort", "clean", "all"},
               RemoveCommand(a, noPlatform, noVersion)
        PROVE  Closes
    BY <2>1, <2>5, RemovesDependents
  <2>6. ASSUME NEW a \in Arguments, NEW noPlatform \in {"host", "abort"},
               NEW noVersion \in {"abort", "clean", "all"},
               RemoveRefused(a, noPlatform, noVersion)
        PROVE  Closes
    BY <2>6 DEF RemoveRefused
  <2>7. ASSUME NEW a \in Arguments, NEW noPlatform \in {"host", "abort"},
               NEW noVersion \in {"abort", "clean", "all"},
               RemoveCrashes(a, noPlatform, noVersion)
        PROVE  Closes
    BY <2>7 DEF RemoveCrashes
  <2>8. CASE MetadataChanges
    BY <2>8 DEF MetadataChanges
  <2> HIDE DEF Closes
  <2> QED
    BY <1>1, <2>2, <2>3, <2>4, <2>5, <2>6, <2>7, <2>8 DEF Next
<1> QED
  BY <1>1, MetadataKept, PTL DEF Spec, RemoveCloses
===============================================================================
