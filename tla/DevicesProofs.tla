----------------------------- MODULE DevicesProofs -----------------------------
(***************************************************************************)
(* Proofs about a compressed file, for any data and any files there may be *)
(* before, any size of the buffers, of the writes and of the reads, any    *)
(* number of sessions, and a disk that fills and empties whenever it may:  *)
(* KArchive saves all of what a writer has written or nothing, and a       *)
(* reader is given the data of the file, in order, and all of it when it   *)
(* is told that there is no more.                                          *)
(*                                                                         *)
(* The loops of writeData and readData are recursive functions; what they  *)
(* do is proved by what each turn keeps, with a measure for the turns that *)
(* are left.                                                               *)
(***************************************************************************)
EXTENDS Devices, WellFoundedInduction, SequenceTheorems, TLAPS

Below == {ss \in Nat \X Nat : ss[1] < ss[2]}

(* Each set of natural numbers has a least element. *)
LEMMA Least ==
    ASSUME NEW T, T \subseteq Nat, T # {}
    PROVE  \E x \in T : \A y \in T : x <= y
<1>1. IsWellFoundedOn(Below, Nat)
  BY NatLessThanWellFounded DEF OpToRel, Below
<1>2. PICK x \in T : \A y \in T : <<y, x>> \notin Below
  BY <1>1, WFMin
<1>3. \A y \in T : ~(y < x)
  BY <1>2 DEF Below
<1> QED
  BY <1>2, <1>3

(* Induction up to a number, for a set. *)
LEMMA UpTo ==
    ASSUME NEW L \in Nat, NEW P, 0 \in P, \A n \in 1..L : n - 1 \in P => n \in P
    PROVE  \A n \in 0..L : n \in P
<1> DEFINE T == {n \in 0..L : n \notin P}
<1>1. SUFFICES ASSUME T # {} PROVE FALSE
  OBVIOUS
<1>2. PICK x \in T : \A y \in T : x <= y
  <2>1. T \subseteq Nat
    OBVIOUS
  <2> QED
    BY <1>1, <2>1, Least
<1>3. x \in 1..L /\ x - 1 \in 0..L /\ x - 1 \notin T
  BY <1>2
<1> QED
  BY <1>2, <1>3

-----------------------------------------------------------------------------
(* Loops.  A recursive function is a CHOOSE: before it equals its equation *)
(* a function that does must be shown to exist.                            *)
Turn(g, y) == IF y.stop THEN y ELSE g[y]

IsLoop(f, L, V, x, g) ==
    /\ f \in [0..L -> V]
    /\ f[0] = x
    /\ \A n \in 1..L : f[n] = Turn(g, f[n - 1])

LEMMA LoopExists ==
    ASSUME NEW L \in Nat, NEW V, NEW x \in V, NEW g \in [V -> V]
    PROVE  \E f : IsLoop(f, L, V, x, g)
<1> DEFINE P == {n \in 0..L : \E f : IsLoop(f, n, V, x, g)}
<1>1. 0 \in P
  <2> DEFINE f == [m \in 0..0 |-> x]
  <2>1. IsLoop(f, 0, V, x, g)
    BY DEF IsLoop
  <2> HIDE DEF f
  <2> QED
    BY <2>1
<1>2. ASSUME NEW n \in 1..L, n - 1 \in P PROVE n \in P
  <2>1. PICK f : IsLoop(f, n - 1, V, x, g)
    BY <1>2
  <2>2. f \in [0..(n - 1) -> V] /\ f[0] = x /\ \A m \in 1..(n - 1) : f[m] = Turn(g, f[m - 1])
    BY <2>1 DEF IsLoop
  <2> DEFINE new == Turn(g, f[n - 1])
             h == [m \in 0..n |-> IF m = n THEN new ELSE f[m]]
  <2>3. new \in V
    <3>1. f[n - 1] \in V
      BY <2>2
    <3> QED
      BY <3>1 DEF Turn
  <2> HIDE DEF new
  <2>4. h[n] = new /\ \A m \in 0..(n - 1) : h[m] = f[m]
    OBVIOUS
  <2>5. h \in [0..n -> V]
    <3>1. \A m \in 0..n : m # n => m \in 0..(n - 1)
      OBVIOUS
    <3>2. \A m \in 0..n : m # n => f[m] \in V
      BY <2>2, <3>1
    <3> QED
      BY <2>3, <3>2
  <2> HIDE DEF h
  <2>6. h[0] = x
    BY <2>2, <2>4
  <2>7. \A m \in 1..n : h[m] = Turn(g, h[m - 1])
    <3>1. TAKE m \in 1..n
    <3>2. CASE m = n
      <4>1. n - 1 \in 0..(n - 1)
        OBVIOUS
      <4> QED
        BY <2>4, <3>2, <4>1 DEF new
    <3>3. CASE m # n
      <4>1. m \in 1..(n - 1) /\ m \in 0..(n - 1) /\ m - 1 \in 0..(n - 1)
        BY <3>3
      <4> QED
        BY <2>2, <2>4, <4>1
    <3> QED
      BY <3>2, <3>3
  <2>8. IsLoop(h, n, V, x, g)
    BY <2>5, <2>6, <2>7 DEF IsLoop
  <2> QED
    BY <2>8
<1>3. \A n \in 0..L : n \in P
  <2> HIDE DEF P
  <2> QED
    BY <1>1, <1>2, UpTo
<1> QED
  BY <1>3

(* A loop that comes closer to its end by each turn that does not end it   *)
(* has ended when it has had enough turns.                                 *)
LEMMA LoopEnds ==
    ASSUME NEW L \in Nat, NEW V, NEW x \in V, NEW g \in [V -> V], NEW mu \in [V -> Nat],
           \A y \in V : ~y.stop => g[y].stop \/ mu[g[y]] < mu[y],
           mu[x] < L,
           NEW f, IsLoop(f, L, V, x, g)
    PROVE  f[L].stop
<1> DEFINE P == {n \in 0..L : f[n].stop \/ mu[f[n]] + n <= mu[x]}
<1>1. f \in [0..L -> V] /\ f[0] = x /\ \A n \in 1..L : f[n] = Turn(g, f[n - 1])
  BY DEF IsLoop
<1>2. 0 \in P
  <2>1. mu[f[0]] + 0 <= mu[x]
    BY <1>1
  <2> QED
    BY <2>1
<1>3. ASSUME NEW n \in 1..L, n - 1 \in P PROVE n \in P
  <2> DEFINE y == f[n - 1]
  <2>1. y \in V /\ f[n] = Turn(g, y) /\ n \in 0..L
    BY <1>1
  <2>2. y.stop \/ mu[y] + (n - 1) <= mu[x]
    BY <1>3
  <2> HIDE DEF y
  <2>3. CASE y.stop
    BY <2>1, <2>3 DEF Turn
  <2>4. CASE ~y.stop
    <3>1. f[n] = g[y] /\ g[y] \in V
      BY <2>1, <2>4 DEF Turn
    <3>2. CASE g[y].stop
      BY <2>1, <3>1, <3>2
    <3>3. CASE ~g[y].stop
      <4>1. mu[g[y]] < mu[y] /\ mu[y] + (n - 1) <= mu[x]
        BY <2>1, <2>2, <2>4, <3>3
      <4>2. mu[g[y]] \in Nat /\ mu[y] \in Nat /\ mu[x] \in Nat
        BY <2>1, <3>1
      <4>3. mu[g[y]] + n <= mu[x]
        BY <4>1, <4>2
      <4> QED
        BY <2>1, <3>1, <4>3
    <3> QED
      BY <3>2, <3>3
  <2> QED
    BY <2>3, <2>4
<1>4. \A n \in 0..L : n \in P
  <2> HIDE DEF P
  <2> QED
    BY <1>2, <1>3, UpTo
<1>5. f[L].stop \/ mu[f[L]] + L <= mu[x]
  BY <1>4
<1>6. f[L] \in V
  BY <1>1
<1>7. mu[f[L]] \in Nat /\ mu[x] \in Nat
  BY <1>6
<1> QED
  BY <1>5, <1>7

(* The loop of writeData. *)
LEMMA WriteLoop ==
    ASSUME NEW L \in Nat, NEW V, NEW x \in V, \A y \in V : ~y.stop => WritePass(y) \in V
    PROVE  \E f : /\ IsLoop(f, L, V, x, [y \in V |-> IF y.stop THEN y ELSE WritePass(y)])
                  /\ Iterate(WritePass, x, L) = f[L]
<1> DEFINE g == [y \in V |-> IF y.stop THEN y ELSE WritePass(y)]
           Is(f) == f = [k \in 0..L |->
                            IF k = 0 THEN x
                            ELSE IF f[k - 1].stop THEN f[k - 1] ELSE WritePass(f[k - 1])]
<1>1. g \in [V -> V]
  OBVIOUS
<1>2. PICK f0 : IsLoop(f0, L, V, x, g)
  <2> HIDE DEF g
  <2> QED
    BY <1>1, LoopExists
<1>3. f0 \in [0..L -> V] /\ f0[0] = x /\ \A n \in 1..L : f0[n] = Turn(g, f0[n - 1])
  BY <1>2 DEF IsLoop
<1>4. Is(f0)
  <2>1. f0 = [k \in 0..L |-> f0[k]]
    BY <1>3
  <2>2. \A k \in 0..L : f0[k] = IF k = 0 THEN x
                                ELSE IF f0[k - 1].stop THEN f0[k - 1] ELSE WritePass(f0[k - 1])
    <3>1. TAKE k \in 0..L
    <3>2. CASE k = 0
      BY <1>3, <3>2
    <3>3. CASE k # 0
      <4>1. k \in 1..L /\ f0[k - 1] \in V
        BY <1>3, <3>3
      <4> QED
        BY <1>3, <3>3, <4>1 DEF Turn
    <3> QED
      BY <3>2, <3>3
  <2> QED
    BY <2>1, <2>2
<1>5. \E f : Is(f) /\ Iterate(WritePass, x, L) = f[L]
  <2> DEFINE f == CHOOSE f : Is(f)
  <2>1. Iterate(WritePass, x, L) = f[L]
    BY DEF Iterate
  <2> QED
    BY <1>4, <2>1
<1>6. PICK f : Is(f) /\ Iterate(WritePass, x, L) = f[L]
  BY <1>5
<1>7. \A k \in 0..L : f[k] = f0[k]
  <2> DEFINE P == {k \in 0..L : f[k] = f0[k]}
  <2>1. f[0] = x /\ \A k \in 1..L :
            f[k] = IF f[k - 1].stop THEN f[k - 1] ELSE WritePass(f[k - 1])
    BY <1>6
  <2>2. 0 \in P
    BY <1>3, <2>1
  <2>3. ASSUME NEW n \in 1..L, n - 1 \in P PROVE n \in P
    <3>1. f[n - 1] = f0[n - 1] /\ f0[n - 1] \in V
      BY <1>3, <2>3
    <3>2. f0[n] = IF f0[n - 1].stop THEN f0[n - 1] ELSE WritePass(f0[n - 1])
      BY <1>3, <3>1 DEF Turn
    <3>3. f[n] = IF f[n - 1].stop THEN f[n - 1] ELSE WritePass(f[n - 1])
      BY <2>1
    <3>4. n \in 0..L
      OBVIOUS
    <3> HIDE DEF g, Is
    <3> QED
      BY <3>1, <3>2, <3>3, <3>4
  <2> HIDE DEF P
  <2>4. \A n \in 0..L : n \in P
    BY <2>2, <2>3, UpTo
  <2> QED
    BY <2>4 DEF P
<1>8. L \in 0..L
  OBVIOUS
<1>9. IsLoop(f0, L, V, x, g) /\ Iterate(WritePass, x, L) = f0[L]
  <2> HIDE DEF g, Is
  <2> QED
    BY <1>2, <1>6, <1>7, <1>8
<1> QED
  BY <1>9

LEMMA WriteLoopEnds ==
    ASSUME NEW L \in Nat, NEW V, NEW x \in V, \A y \in V : ~y.stop => WritePass(y) \in V,
           NEW mu \in [V -> Nat], mu[x] < L,
           \A y \in V : ~y.stop => WritePass(y).stop \/ mu[WritePass(y)] < mu[y]
    PROVE  Iterate(WritePass, x, L).stop
<1> DEFINE g == [y \in V |-> IF y.stop THEN y ELSE WritePass(y)]
<1>1. PICK f : IsLoop(f, L, V, x, g) /\ Iterate(WritePass, x, L) = f[L]
  BY WriteLoop
<1>2. g \in [V -> V]
  OBVIOUS
<1>3. \A y \in V : ~y.stop => g[y].stop \/ mu[g[y]] < mu[y]
  OBVIOUS
<1> HIDE DEF g
<1> QED
  BY <1>1, <1>2, <1>3, LoopEnds

LEMMA WriteLoopStays ==
    ASSUME NEW L \in Nat, NEW V, NEW x \in V, \A y \in V : ~y.stop => WritePass(y) \in V
    PROVE  Iterate(WritePass, x, L) \in V
<1>1. PICK f : /\ IsLoop(f, L, V, x, [y \in V |-> IF y.stop THEN y ELSE WritePass(y)])
               /\ Iterate(WritePass, x, L) = f[L]
  BY WriteLoop
<1> QED
  BY <1>1 DEF IsLoop

(* The loop of a library over its input. *)
LEMMA InflateLoop ==
    ASSUME NEW L \in Nat, NEW V, NEW x \in V, \A y \in V : ~y.stop => Inflate(y) \in V
    PROVE  \E f : /\ IsLoop(f, L, V, x, [y \in V |-> IF y.stop THEN y ELSE Inflate(y)])
                  /\ Iterate(Inflate, x, L) = f[L]
<1> DEFINE g == [y \in V |-> IF y.stop THEN y ELSE Inflate(y)]
           Is(f) == f = [k \in 0..L |->
                            IF k = 0 THEN x
                            ELSE IF f[k - 1].stop THEN f[k - 1] ELSE Inflate(f[k - 1])]
<1>1. g \in [V -> V]
  OBVIOUS
<1>2. PICK f0 : IsLoop(f0, L, V, x, g)
  <2> HIDE DEF g
  <2> QED
    BY <1>1, LoopExists
<1>3. f0 \in [0..L -> V] /\ f0[0] = x /\ \A n \in 1..L : f0[n] = Turn(g, f0[n - 1])
  BY <1>2 DEF IsLoop
<1>4. Is(f0)
  <2>1. f0 = [k \in 0..L |-> f0[k]]
    BY <1>3
  <2>2. \A k \in 0..L : f0[k] = IF k = 0 THEN x
                                ELSE IF f0[k - 1].stop THEN f0[k - 1] ELSE Inflate(f0[k - 1])
    <3>1. TAKE k \in 0..L
    <3>2. CASE k = 0
      BY <1>3, <3>2
    <3>3. CASE k # 0
      <4>1. k \in 1..L /\ f0[k - 1] \in V
        BY <1>3, <3>3
      <4> QED
        BY <1>3, <3>3, <4>1 DEF Turn
    <3> QED
      BY <3>2, <3>3
  <2> QED
    BY <2>1, <2>2
<1>5. \E f : Is(f) /\ Iterate(Inflate, x, L) = f[L]
  <2> DEFINE f == CHOOSE f : Is(f)
  <2>1. Iterate(Inflate, x, L) = f[L]
    BY DEF Iterate
  <2> QED
    BY <1>4, <2>1
<1>6. PICK f : Is(f) /\ Iterate(Inflate, x, L) = f[L]
  BY <1>5
<1>7. \A k \in 0..L : f[k] = f0[k]
  <2> DEFINE P == {k \in 0..L : f[k] = f0[k]}
  <2>1. f[0] = x /\ \A k \in 1..L :
            f[k] = IF f[k - 1].stop THEN f[k - 1] ELSE Inflate(f[k - 1])
    BY <1>6
  <2>2. 0 \in P
    BY <1>3, <2>1
  <2>3. ASSUME NEW n \in 1..L, n - 1 \in P PROVE n \in P
    <3>1. f[n - 1] = f0[n - 1] /\ f0[n - 1] \in V
      BY <1>3, <2>3
    <3>2. f0[n] = IF f0[n - 1].stop THEN f0[n - 1] ELSE Inflate(f0[n - 1])
      BY <1>3, <3>1 DEF Turn
    <3>3. f[n] = IF f[n - 1].stop THEN f[n - 1] ELSE Inflate(f[n - 1])
      BY <2>1
    <3>4. n \in 0..L
      OBVIOUS
    <3> HIDE DEF g, Is
    <3> QED
      BY <3>1, <3>2, <3>3, <3>4
  <2> HIDE DEF P
  <2>4. \A n \in 0..L : n \in P
    BY <2>2, <2>3, UpTo
  <2> QED
    BY <2>4 DEF P
<1>8. L \in 0..L
  OBVIOUS
<1>9. IsLoop(f0, L, V, x, g) /\ Iterate(Inflate, x, L) = f0[L]
  <2> HIDE DEF g, Is
  <2> QED
    BY <1>2, <1>6, <1>7, <1>8
<1> QED
  BY <1>9

LEMMA InflateLoopEnds ==
    ASSUME NEW L \in Nat, NEW V, NEW x \in V, \A y \in V : ~y.stop => Inflate(y) \in V,
           NEW mu \in [V -> Nat], mu[x] < L,
           \A y \in V : ~y.stop => Inflate(y).stop \/ mu[Inflate(y)] < mu[y]
    PROVE  Iterate(Inflate, x, L).stop
<1> DEFINE g == [y \in V |-> IF y.stop THEN y ELSE Inflate(y)]
<1>1. PICK f : IsLoop(f, L, V, x, g) /\ Iterate(Inflate, x, L) = f[L]
  BY InflateLoop
<1>2. g \in [V -> V]
  OBVIOUS
<1>3. \A y \in V : ~y.stop => g[y].stop \/ mu[g[y]] < mu[y]
  OBVIOUS
<1> HIDE DEF g
<1> QED
  BY <1>1, <1>2, <1>3, LoopEnds

LEMMA InflateLoopStays ==
    ASSUME NEW L \in Nat, NEW V, NEW x \in V, \A y \in V : ~y.stop => Inflate(y) \in V
    PROVE  Iterate(Inflate, x, L) \in V
<1>1. PICK f : /\ IsLoop(f, L, V, x, [y \in V |-> IF y.stop THEN y ELSE Inflate(y)])
               /\ Iterate(Inflate, x, L) = f[L]
  BY InflateLoop
<1> QED
  BY <1>1 DEF IsLoop

(* The loop of readData. *)
LEMMA ReadLoop ==
    ASSUME NEW L \in Nat, NEW V, NEW x \in V, \A y \in V : ~y.stop => ReadPass(y) \in V
    PROVE  \E f : /\ IsLoop(f, L, V, x, [y \in V |-> IF y.stop THEN y ELSE ReadPass(y)])
                  /\ Iterate(ReadPass, x, L) = f[L]
<1> DEFINE g == [y \in V |-> IF y.stop THEN y ELSE ReadPass(y)]
           Is(f) == f = [k \in 0..L |->
                            IF k = 0 THEN x
                            ELSE IF f[k - 1].stop THEN f[k - 1] ELSE ReadPass(f[k - 1])]
<1>1. g \in [V -> V]
  OBVIOUS
<1>2. PICK f0 : IsLoop(f0, L, V, x, g)
  <2> HIDE DEF g
  <2> QED
    BY <1>1, LoopExists
<1>3. f0 \in [0..L -> V] /\ f0[0] = x /\ \A n \in 1..L : f0[n] = Turn(g, f0[n - 1])
  BY <1>2 DEF IsLoop
<1>4. Is(f0)
  <2>1. f0 = [k \in 0..L |-> f0[k]]
    BY <1>3
  <2>2. \A k \in 0..L : f0[k] = IF k = 0 THEN x
                                ELSE IF f0[k - 1].stop THEN f0[k - 1] ELSE ReadPass(f0[k - 1])
    <3>1. TAKE k \in 0..L
    <3>2. CASE k = 0
      BY <1>3, <3>2
    <3>3. CASE k # 0
      <4>1. k \in 1..L /\ f0[k - 1] \in V
        BY <1>3, <3>3
      <4> QED
        BY <1>3, <3>3, <4>1 DEF Turn
    <3> QED
      BY <3>2, <3>3
  <2> QED
    BY <2>1, <2>2
<1>5. \E f : Is(f) /\ Iterate(ReadPass, x, L) = f[L]
  <2> DEFINE f == CHOOSE f : Is(f)
  <2>1. Iterate(ReadPass, x, L) = f[L]
    BY DEF Iterate
  <2> QED
    BY <1>4, <2>1
<1>6. PICK f : Is(f) /\ Iterate(ReadPass, x, L) = f[L]
  BY <1>5
<1>7. \A k \in 0..L : f[k] = f0[k]
  <2> DEFINE P == {k \in 0..L : f[k] = f0[k]}
  <2>1. f[0] = x /\ \A k \in 1..L :
            f[k] = IF f[k - 1].stop THEN f[k - 1] ELSE ReadPass(f[k - 1])
    BY <1>6
  <2>2. 0 \in P
    BY <1>3, <2>1
  <2>3. ASSUME NEW n \in 1..L, n - 1 \in P PROVE n \in P
    <3>1. f[n - 1] = f0[n - 1] /\ f0[n - 1] \in V
      BY <1>3, <2>3
    <3>2. f0[n] = IF f0[n - 1].stop THEN f0[n - 1] ELSE ReadPass(f0[n - 1])
      BY <1>3, <3>1 DEF Turn
    <3>3. f[n] = IF f[n - 1].stop THEN f[n - 1] ELSE ReadPass(f[n - 1])
      BY <2>1
    <3>4. n \in 0..L
      OBVIOUS
    <3> HIDE DEF g, Is
    <3> QED
      BY <3>1, <3>2, <3>3, <3>4
  <2> HIDE DEF P
  <2>4. \A n \in 0..L : n \in P
    BY <2>2, <2>3, UpTo
  <2> QED
    BY <2>4 DEF P
<1>8. L \in 0..L
  OBVIOUS
<1>9. IsLoop(f0, L, V, x, g) /\ Iterate(ReadPass, x, L) = f0[L]
  <2> HIDE DEF g, Is
  <2> QED
    BY <1>2, <1>6, <1>7, <1>8
<1> QED
  BY <1>9

LEMMA ReadLoopEnds ==
    ASSUME NEW L \in Nat, NEW V, NEW x \in V, \A y \in V : ~y.stop => ReadPass(y) \in V,
           NEW mu \in [V -> Nat], mu[x] < L,
           \A y \in V : ~y.stop => ReadPass(y).stop \/ mu[ReadPass(y)] < mu[y]
    PROVE  Iterate(ReadPass, x, L).stop
<1> DEFINE g == [y \in V |-> IF y.stop THEN y ELSE ReadPass(y)]
<1>1. PICK f : IsLoop(f, L, V, x, g) /\ Iterate(ReadPass, x, L) = f[L]
  BY ReadLoop
<1>2. g \in [V -> V]
  OBVIOUS
<1>3. \A y \in V : ~y.stop => g[y].stop \/ mu[g[y]] < mu[y]
  OBVIOUS
<1> HIDE DEF g
<1> QED
  BY <1>1, <1>2, <1>3, LoopEnds

LEMMA ReadLoopStays ==
    ASSUME NEW L \in Nat, NEW V, NEW x \in V, \A y \in V : ~y.stop => ReadPass(y) \in V
    PROVE  Iterate(ReadPass, x, L) \in V
<1>1. PICK f : /\ IsLoop(f, L, V, x, [y \in V |-> IF y.stop THEN y ELSE ReadPass(y)])
               /\ Iterate(ReadPass, x, L) = f[L]
  BY ReadLoop
<1> QED
  BY <1>1 DEF IsLoop

-----------------------------------------------------------------------------
(* The cells that there may be in a file. *)
Cell == ToSet(Cells) \cup Mark \cup UNION {ToSet(f) : f \in InitialFile}

LEMMA MinOfTwo ==
    ASSUME NEW a \in Int, NEW b \in Int
    PROVE  Min({a, b}) = IF a <= b THEN a ELSE b
BY DEF Min

LEMMA Constants ==
    /\ Cap \in Nat /\ Cap >= 3 /\ QCap \in Nat /\ QCap >= Cap /\ Held \in Nat
    /\ Cells \in Seq(Cell) /\ \A i \in 1..Len(Cells) : Cells[i] \in Cell \ Mark
    /\ \A f \in InitialFile : f \in Seq(Cell)
    /\ Mark \subseteq Cell
    /\ WriteKind \subseteq Kind \ {"none"} /\ ReadKind \subseteq Kind
    /\ DiskRoom \subseteq Nat /\ WriteSize \subseteq Nat \ {0}
    /\ ReadSize \subseteq Nat \ {0} /\ SeekPos \subseteq Nat
<1>1. Cells \in Seq(ToSet(Cells)) /\ \A f \in InitialFile : f \in Seq(ToSet(f))
  BY DevicesAssumption
<1>2. ToSet(Cells) \subseteq Cell /\ \A f \in InitialFile : ToSet(f) \subseteq Cell
  BY DEF Cell
<1>3. Cells \in Seq(Cell) /\ \A f \in InitialFile : f \in Seq(Cell)
  BY <1>1, <1>2, SeqMonotonic
<1>4. \A i \in 1..Len(Cells) : Cells[i] \in ToSet(Cells)
  BY <1>1
<1>5. \A i \in 1..Len(Cells) : Cells[i] \in Cell \ Mark
  BY <1>2, <1>4, DevicesAssumption
<1>6. Mark \subseteq Cell
  BY DEF Cell
<1>7. /\ DiskRoom \subseteq Nat /\ WriteSize \subseteq Nat \ {0}
      /\ ReadSize \subseteq Nat \ {0} /\ SeekPos \subseteq Nat
  BY DevicesAssumption
<1> QED
  BY <1>3, <1>5, <1>6, <1>7, DevicesAssumption, CompressionDeviceAssumption, SaveFileAssumption

LEMMA NoCells == <<>> \in Seq(Cell) /\ Len(<<>>) = 0
OBVIOUS

-----------------------------------------------------------------------------
(* What the loop over the first n cells has picked. *)
IsPicked(p, f, n) ==
    /\ p \in [0..n -> Seq(Cell)]
    /\ p[0] = <<>>
    /\ \A m \in 1..n : p[m] = IF f[m] \in Mark THEN p[m - 1] ELSE Append(p[m - 1], f[m])

LEMMA PickedExists ==
    ASSUME NEW f \in Seq(Cell)
    PROVE  \E p : IsPicked(p, f, Len(f))
<1> DEFINE P == {n \in 0..Len(f) : \E p : IsPicked(p, f, n)}
<1>1. 0 \in P
  <2> DEFINE p == [m \in 0..0 |-> <<>>]
  <2>1. IsPicked(p, f, 0)
    BY NoCells DEF IsPicked
  <2> HIDE DEF p
  <2> QED
    BY <2>1
<1>2. ASSUME NEW n \in 1..Len(f), n - 1 \in P PROVE n \in P
  <2>1. PICK p : IsPicked(p, f, n - 1)
    BY <1>2
  <2>2. /\ p \in [0..(n - 1) -> Seq(Cell)] /\ p[0] = <<>>
        /\ \A m \in 1..(n - 1) : p[m] = IF f[m] \in Mark THEN p[m - 1] ELSE Append(p[m - 1], f[m])
    BY <2>1 DEF IsPicked
  <2> DEFINE new == IF f[n] \in Mark THEN p[n - 1] ELSE Append(p[n - 1], f[n])
             h == [m \in 0..n |-> IF m = n THEN new ELSE p[m]]
  <2>3. new \in Seq(Cell)
    <3>1. p[n - 1] \in Seq(Cell) /\ f[n] \in Cell
      BY <2>2
    <3> QED
      BY <3>1
  <2> HIDE DEF new
  <2>4. h[n] = new /\ \A m \in 0..(n - 1) : h[m] = p[m]
    OBVIOUS
  <2>5. h \in [0..n -> Seq(Cell)]
    <3>1. \A m \in 0..n : m # n => m \in 0..(n - 1)
      OBVIOUS
    <3>2. \A m \in 0..n : m # n => p[m] \in Seq(Cell)
      BY <2>2, <3>1
    <3> QED
      BY <2>3, <3>2
  <2> HIDE DEF h
  <2>6. h[0] = <<>>
    BY <2>2, <2>4
  <2>7. \A m \in 1..n : h[m] = IF f[m] \in Mark THEN h[m - 1] ELSE Append(h[m - 1], f[m])
    <3>1. TAKE m \in 1..n
    <3>2. CASE m = n
      <4>1. n - 1 \in 0..(n - 1)
        OBVIOUS
      <4> QED
        BY <2>4, <3>2, <4>1 DEF new
    <3>3. CASE m # n
      <4>1. m \in 1..(n - 1) /\ m \in 0..(n - 1) /\ m - 1 \in 0..(n - 1)
        BY <3>3
      <4> QED
        BY <2>2, <2>4, <4>1
    <3> QED
      BY <3>2, <3>3
  <2>8. IsPicked(h, f, n)
    BY <2>5, <2>6, <2>7 DEF IsPicked
  <2> QED
    BY <2>8
<1>3. \A n \in 0..Len(f) : n \in P
  <2>1. Len(f) \in Nat
    OBVIOUS
  <2> HIDE DEF P
  <2> QED
    BY <1>1, <1>2, <2>1, UpTo
<1> QED
  BY <1>3

LEMMA CellsArePicked ==
    ASSUME NEW f \in Seq(Cell)
    PROVE  \E p : IsPicked(p, f, Len(f)) /\ CellsOf(f) = p[Len(f)]
<1> DEFINE Is(p) == p = [n \in 0..Len(f) |->
                            IF n = 0 THEN <<>>
                            ELSE IF f[n] \in Mark THEN p[n - 1] ELSE Append(p[n - 1], f[n])]
<1>1. PICK q : IsPicked(q, f, Len(f))
  BY PickedExists
<1>2. /\ q \in [0..Len(f) -> Seq(Cell)] /\ q[0] = <<>>
      /\ \A m \in 1..Len(f) : q[m] = IF f[m] \in Mark THEN q[m - 1] ELSE Append(q[m - 1], f[m])
  BY <1>1 DEF IsPicked
<1>3. Is(q)
  <2>1. q = [n \in 0..Len(f) |-> q[n]]
    BY <1>2
  <2>2. \A n \in 0..Len(f) : n = 0 \/ n \in 1..Len(f)
    OBVIOUS
  <2>3. \A n \in 0..Len(f) : q[n] = IF n = 0 THEN <<>>
                                    ELSE IF f[n] \in Mark THEN q[n - 1] ELSE Append(q[n - 1], f[n])
    <3> HIDE DEF Is
    <3> QED
      BY <1>2, <2>2
  <2> QED
    BY <2>1, <2>3
<1>4. \E p : Is(p) /\ CellsOf(f) = p[Len(f)]
  <2> DEFINE p == CHOOSE p : Is(p)
  <2>1. CellsOf(f) = p[Len(f)]
    BY DEF CellsOf
  <2> QED
    BY <1>3, <2>1
<1>5. PICK p : Is(p) /\ CellsOf(f) = p[Len(f)]
  BY <1>4
<1>6. p[0] = <<>> /\ \A m \in 1..Len(f) :
          p[m] = IF f[m] \in Mark THEN p[m - 1] ELSE Append(p[m - 1], f[m])
  <2>1. \A n \in 0..Len(f) : p[n] = IF n = 0 THEN <<>>
                                    ELSE IF f[n] \in Mark THEN p[n - 1] ELSE Append(p[n - 1], f[n])
    BY <1>5
  <2>2. 0 \in 0..Len(f) /\ \A n \in 1..Len(f) : n # 0 /\ n \in 0..Len(f)
    OBVIOUS
  <2> HIDE DEF Is
  <2> QED
    BY <2>1, <2>2
<1>7. \A n \in 0..Len(f) : p[n] = q[n]
  <2> DEFINE P == {n \in 0..Len(f) : p[n] = q[n]}
  <2>1. 0 \in P
    BY <1>2, <1>6
  <2>2. ASSUME NEW n \in 1..Len(f), n - 1 \in P PROVE n \in P
    <3>1. p[n - 1] = q[n - 1] /\ n \in 0..Len(f)
      BY <2>2
    <3> HIDE DEF Is
    <3> QED
      BY <1>2, <1>6, <3>1
  <2>3. Len(f) \in Nat
    OBVIOUS
  <2> HIDE DEF P
  <2>4. \A n \in 0..Len(f) : n \in P
    BY <2>1, <2>2, <2>3, UpTo
  <2> QED
    BY <2>4 DEF P
<1>8. Len(f) \in 0..Len(f)
  OBVIOUS
<1> QED
  BY <1>1, <1>5, <1>7, <1>8

LEMMA NoneOfNone == CellsOf(<<>>) = <<>>
<1>1. PICK p : IsPicked(p, <<>>, Len(<<>>)) /\ CellsOf(<<>>) = p[Len(<<>>)]
  BY NoCells, CellsArePicked
<1> QED
  BY <1>1, NoCells DEF IsPicked

LEMMA CellsOfType ==
    ASSUME NEW f \in Seq(Cell)
    PROVE  CellsOf(f) \in Seq(Cell)
<1>1. PICK p : IsPicked(p, f, Len(f)) /\ CellsOf(f) = p[Len(f)]
  BY CellsArePicked
<1>2. Len(f) \in 0..Len(f)
  OBVIOUS
<1> QED
  BY <1>1, <1>2 DEF IsPicked

LEMMA CellsOfAppend ==
    ASSUME NEW f \in Seq(Cell), NEW c \in Cell
    PROVE  CellsOf(Append(f, c)) = IF c \in Mark THEN CellsOf(f) ELSE Append(CellsOf(f), c)
<1> DEFINE g == Append(f, c)
<1>1. /\ g \in Seq(Cell) /\ Len(g) = Len(f) + 1 /\ g[Len(g)] = c
      /\ \A i \in 1..Len(f) : g[i] = f[i]
  BY AppendProperties
<1> HIDE DEF g
<1>2. PICK p : IsPicked(p, f, Len(f)) /\ CellsOf(f) = p[Len(f)]
  BY CellsArePicked
<1>3. PICK q : IsPicked(q, g, Len(g)) /\ CellsOf(g) = q[Len(g)]
  BY <1>1, CellsArePicked
<1>4. /\ p[0] = <<>>
      /\ \A m \in 1..Len(f) : p[m] = IF f[m] \in Mark THEN p[m - 1] ELSE Append(p[m - 1], f[m])
  BY <1>2 DEF IsPicked
<1>5. /\ q[0] = <<>>
      /\ \A m \in 1..Len(g) : q[m] = IF g[m] \in Mark THEN q[m - 1] ELSE Append(q[m - 1], g[m])
  BY <1>3 DEF IsPicked
<1>6. \A n \in 0..Len(f) : p[n] = q[n]
  <2> DEFINE P == {n \in 0..Len(f) : p[n] = q[n]}
  <2>1. 0 \in P
    BY <1>4, <1>5
  <2>2. ASSUME NEW n \in 1..Len(f), n - 1 \in P PROVE n \in P
    <3>1. p[n - 1] = q[n - 1] /\ n \in 0..Len(f) /\ n \in 1..Len(g) /\ f[n] = g[n]
      BY <1>1, <2>2
    <3> QED
      BY <1>4, <1>5, <3>1
  <2>3. Len(f) \in Nat
    OBVIOUS
  <2> HIDE DEF P
  <2>4. \A n \in 0..Len(f) : n \in P
    BY <2>1, <2>2, <2>3, UpTo
  <2> QED
    BY <2>4 DEF P
<1>7. Len(f) \in 0..Len(f) /\ Len(g) \in 1..Len(g) /\ Len(g) - 1 = Len(f)
  BY <1>1
<1>8. CellsOf(g) = IF c \in Mark THEN p[Len(f)] ELSE Append(p[Len(f)], c)
  BY <1>1, <1>3, <1>5, <1>6, <1>7
<1> QED
  BY <1>2, <1>8 DEF g

(* What is picked of two parts is what is picked of each of them. *)
LEMMA CellsOfConcat ==
    ASSUME NEW f \in Seq(Cell), NEW g \in Seq(Cell)
    PROVE  CellsOf(f \o g) = CellsOf(f) \o CellsOf(g)
<1> DEFINE G(n) == SubSeq(g, 1, n)
           P == {n \in 0..Len(g) : CellsOf(f \o G(n)) = CellsOf(f) \o CellsOf(G(n))}
<1>1. \A n \in 0..Len(g) : G(n) \in Seq(Cell)
  OBVIOUS
<1>2. 0 \in P
  <2>1. G(0) = <<>> /\ f \o <<>> = f /\ CellsOf(f) \o <<>> = CellsOf(f)
    BY CellsOfType
  <2>2. 0 \in 0..Len(g)
    OBVIOUS
  <2> HIDE DEF G
  <2> QED
    BY <2>1, <2>2, NoneOfNone
<1>3. ASSUME NEW n \in 1..Len(g), n - 1 \in P PROVE n \in P
  <2>1. g[n] \in Cell /\ G(n - 1) \in Seq(Cell) /\ n \in 0..Len(g)
    OBVIOUS
  <2>2. G(n) = Append(G(n - 1), g[n])
    <3>1. SubSeq(g, 1, n) = SubSeq(g, 1, n - 1) \o <<g[n]>>
      BY SubSeqRecursiveSecond
    <3>2. Append(G(n - 1), g[n]) = G(n - 1) \o <<g[n]>>
      BY <2>1, AppendIsConcat
    <3> QED
      BY <3>1, <3>2
  <2>3. CellsOf(f \o G(n - 1)) = CellsOf(f) \o CellsOf(G(n - 1))
    BY <1>3
  <2> HIDE DEF G
  <2>4. f \o Append(G(n - 1), g[n]) = Append(f \o G(n - 1), g[n])
    BY <2>1
  <2>5. f \o G(n - 1) \in Seq(Cell) /\ CellsOf(f) \in Seq(Cell) /\ CellsOf(G(n - 1)) \in Seq(Cell)
    BY <2>1, CellsOfType
  <2>6. CellsOf(f \o G(n)) = IF g[n] \in Mark THEN CellsOf(f \o G(n - 1))
                             ELSE Append(CellsOf(f \o G(n - 1)), g[n])
    <3> DEFINE a == f \o G(n - 1)
    <3>1. f \o G(n) = Append(a, g[n]) /\ a \in Seq(Cell)
      BY <2>2, <2>4, <2>5
    <3> HIDE DEF a
    <3>2. CellsOf(Append(a, g[n])) = IF g[n] \in Mark THEN CellsOf(a) ELSE Append(CellsOf(a), g[n])
      BY <2>1, <3>1, CellsOfAppend
    <3> QED
      BY <3>1, <3>2 DEF a
  <2>7. CellsOf(G(n)) = IF g[n] \in Mark THEN CellsOf(G(n - 1))
                        ELSE Append(CellsOf(G(n - 1)), g[n])
    BY <2>1, <2>2, CellsOfAppend
  <2>8. CellsOf(f) \o Append(CellsOf(G(n - 1)), g[n]) = Append(CellsOf(f) \o CellsOf(G(n - 1)), g[n])
    BY <2>1, <2>5
  <2> QED
    BY <2>1, <2>3, <2>6, <2>7, <2>8
<1>4. \A n \in 0..Len(g) : n \in P
  <2>1. Len(g) \in Nat
    OBVIOUS
  <2> HIDE DEF P
  <2> QED
    BY <1>2, <1>3, <2>1, UpTo
<1>5. Len(g) \in 0..Len(g) /\ G(Len(g)) = g
  BY SubSeqFull
<1>6. Len(g) \in P
  BY <1>4, <1>5
<1> QED
  BY <1>5, <1>6

(* Marks are not picked, and everything else is. *)
LEMMA CellsOfMarks ==
    ASSUME NEW f \in Seq(Cell), \A i \in 1..Len(f) : f[i] \in Mark
    PROVE  CellsOf(f) = <<>>
<1>1. PICK p : IsPicked(p, f, Len(f)) /\ CellsOf(f) = p[Len(f)]
  BY CellsArePicked
<1> DEFINE P == {n \in 0..Len(f) : p[n] = <<>>}
<1>2. 0 \in P
  BY <1>1 DEF IsPicked
<1>3. ASSUME NEW n \in 1..Len(f), n - 1 \in P PROVE n \in P
  BY <1>1, <1>3 DEF IsPicked
<1>4. \A n \in 0..Len(f) : n \in P
  <2>1. Len(f) \in Nat
    OBVIOUS
  <2> HIDE DEF P
  <2> QED
    BY <1>2, <1>3, <2>1, UpTo
<1>5. Len(f) \in 0..Len(f)
  OBVIOUS
<1> QED
  BY <1>1, <1>4, <1>5

LEMMA CellsOfData ==
    ASSUME NEW f \in Seq(Cell), \A i \in 1..Len(f) : f[i] \notin Mark
    PROVE  CellsOf(f) = f
<1>1. PICK p : IsPicked(p, f, Len(f)) /\ CellsOf(f) = p[Len(f)]
  BY CellsArePicked
<1> DEFINE P == {n \in 0..Len(f) : p[n] = SubSeq(f, 1, n)}
<1>2. 0 \in P
  BY <1>1 DEF IsPicked
<1>3. ASSUME NEW n \in 1..Len(f), n - 1 \in P PROVE n \in P
  <2>1. p[n] = Append(SubSeq(f, 1, n - 1), f[n])
    BY <1>1, <1>3 DEF IsPicked
  <2>2. SubSeq(f, 1, n) = SubSeq(f, 1, n - 1) \o <<f[n]>>
    BY SubSeqRecursiveSecond
  <2>3. SubSeq(f, 1, n - 1) \in Seq(Cell) /\ f[n] \in Cell /\ n \in 0..Len(f)
    OBVIOUS
  <2>4. Append(SubSeq(f, 1, n - 1), f[n]) = SubSeq(f, 1, n - 1) \o <<f[n]>>
    BY <2>3, AppendIsConcat
  <2> QED
    BY <2>1, <2>2, <2>3, <2>4
<1>4. \A n \in 0..Len(f) : n \in P
  <2>1. Len(f) \in Nat
    OBVIOUS
  <2> HIDE DEF P
  <2> QED
    BY <1>2, <1>3, <2>1, UpTo
<1>5. Len(f) \in 0..Len(f) /\ SubSeq(f, 1, Len(f)) = f
  BY SubSeqFull
<1> QED
  BY <1>1, <1>4, <1>5

LEMMA Associative ==
    ASSUME NEW a \in Seq(Cell), NEW b \in Seq(Cell), NEW c \in Seq(Cell)
    PROVE  a \o (b \o c) = (a \o b) \o c
<1>1. (a \o b) \o c = a \o (b \o c)
  BY ConcatAssociative
<1> QED
  BY <1>1

(* Two ways to cut what is behind a sequence. *)
SameAll(a, b, c, s, t) == (a \o b) \o c = (a \o s) \o t

LEMMA Regroup ==
    ASSUME NEW a \in Seq(Cell), NEW b \in Seq(Cell), NEW c \in Seq(Cell),
           NEW s \in Seq(Cell), NEW t \in Seq(Cell), b \o c = s \o t
    PROVE  SameAll(a, b, c, s, t)
<1>1. a \o (b \o c) = (a \o b) \o c
  BY Associative
<1>2. a \o (s \o t) = (a \o s) \o t
  BY Associative
<1> QED
  BY <1>1, <1>2 DEF SameAll

LEMMA LenOfConcat ==
    ASSUME NEW a \in Seq(Cell), NEW b \in Seq(Cell)
    PROVE  Len(a \o b) = Len(a) + Len(b) /\ a \o b \in Seq(Cell)
BY ConcatProperties

-----------------------------------------------------------------------------
(* The save file. *)
SaveFiles == [file : Seq(Cell), held : Seq(Cell), room : Nat, error : BOOLEAN]

Sent(s) == s.file \o s.held

LEMMA StoreOK ==
    ASSUME NEW s \in SaveFiles, NEW data \in Seq(Cell)
    PROVE  /\ Store(s, data) \in SaveFiles
           /\ Store(s, data).held = s.held /\ Store(s, data).error = s.error
           /\ Len(data) <= s.room => Store(s, data).file = s.file \o data
           /\ Len(data) <= s.room <=> Len(Store(s, data).file) - Len(s.file) = Len(data)
           /\ \E n \in 0..Len(data) : Store(s, data).file = s.file \o SubSeq(data, 1, n)
<1> DEFINE n == IF Len(data) <= s.room THEN Len(data) ELSE s.room
           part == SubSeq(data, 1, n)
<1>1. s.file \in Seq(Cell) /\ s.held \in Seq(Cell) /\ s.room \in Nat /\ s.error \in BOOLEAN
  BY DEF SaveFiles
<1>2. Len(data) \in Nat
  OBVIOUS
<1>3. n \in 0..Len(data) /\ s.room - n \in Nat /\ (n = Len(data) <=> Len(data) <= s.room)
  BY <1>1, <1>2
<1>4. Store(s, data) = [s EXCEPT !.file = @ \o part, !.room = @ - n]
  BY DEF Store
<1> HIDE DEF n
<1>5. part \in Seq(Cell) /\ Len(part) = n
  BY <1>3
<1>6. n = Len(data) => part = data
  BY SubSeqFull
<1>7. s.file \o part \in Seq(Cell) /\ Len(s.file \o part) = Len(s.file) + n
  BY <1>1, <1>5
<1>8. \E k \in 0..Len(data) : s.file \o part = s.file \o SubSeq(data, 1, k)
  BY <1>3
<1> HIDE DEF part
<1>9. /\ Store(s, data).file = s.file \o part /\ Store(s, data).room = s.room - n
      /\ Store(s, data).held = s.held /\ Store(s, data).error = s.error
      /\ Store(s, data) \in SaveFiles
  BY <1>1, <1>3, <1>4, <1>7 DEF SaveFiles
<1>10. Len(s.file) \in Nat
  BY <1>1
<1>11. Len(Store(s, data).file) - Len(s.file) = n
  BY <1>3, <1>7, <1>9, <1>10
<1> QED
  BY <1>3, <1>6, <1>8, <1>9, <1>11

LEMMA FlushOK ==
    ASSUME NEW s \in SaveFiles
    PROVE  /\ Flush(s) \in SaveFiles /\ Flush(s).held = <<>> /\ Flush(s).error = s.error
           /\ Len(s.held) <= s.room => Flush(s).file = Sent(s)
           /\ \E n \in 0..Len(s.held) : Flush(s).file = s.file \o SubSeq(s.held, 1, n)
<1>1. s.held \in Seq(Cell)
  BY DEF SaveFiles
<1> DEFINE x == Store(s, s.held)
<1>2. /\ x \in SaveFiles /\ x.error = s.error
      /\ Len(s.held) <= s.room => x.file = s.file \o s.held
      /\ \E n \in 0..Len(s.held) : x.file = s.file \o SubSeq(s.held, 1, n)
  BY <1>1, StoreOK
<1>3. Flush(s) = [x EXCEPT !.held = <<>>]
  BY DEF Flush
<1> HIDE DEF x
<1>4. Flush(s).file = x.file /\ Flush(s).held = <<>> /\ Flush(s).error = x.error
        /\ Flush(s) \in SaveFiles
  BY <1>2, <1>3, NoCells DEF SaveFiles
<1> QED
  BY <1>2, <1>4 DEF Sent

LEMMA SaveWriteOK ==
    ASSUME NEW s \in SaveFiles, NEW data \in Seq(Cell)
    PROVE  /\ SaveWrite(s, data).save \in SaveFiles
           /\ s.error => SaveWrite(s, data).save.error
           /\ SaveWrite(s, data).save.error <=> s.error \/ SaveWrite(s, data).written # Len(data)
           /\ ~SaveWrite(s, data).save.error =>
                  Sent(SaveWrite(s, data).save) = Sent(s) \o data
<1> DEFINE flushed == Flush(s)
           stored == Store(flushed, data)
           t == TempWrite(s, data)
<1>1. /\ s.file \in Seq(Cell) /\ s.held \in Seq(Cell) /\ s.room \in Nat /\ s.error \in BOOLEAN
      /\ Len(data) \in Nat /\ Len(s.held) \in Nat
  BY DEF SaveFiles
<1>2. /\ flushed \in SaveFiles /\ flushed.held = <<>> /\ flushed.error = s.error
      /\ Len(s.held) <= s.room => flushed.file = s.file \o s.held
  BY FlushOK DEF Sent
<1>3. /\ stored \in SaveFiles /\ stored.held = <<>> /\ stored.error = s.error
      /\ Len(data) <= flushed.room => stored.file = flushed.file \o data
      /\ Len(data) <= flushed.room <=> Len(stored.file) - Len(flushed.file) = Len(data)
  BY <1>2, StoreOK
<1>4. t = IF Len(s.held) + Len(data) <= Held
          THEN [save |-> [s EXCEPT !.held = @ \o data], written |-> Len(data)]
          ELSE IF Len(s.held) > s.room THEN [save |-> flushed, written |-> -1]
          ELSE IF Len(data) <= Held
          THEN [save |-> [flushed EXCEPT !.held = data], written |-> Len(data)]
          ELSE [save |-> stored, written |-> Len(stored.file) - Len(flushed.file)]
  BY DEF TempWrite
<1> HIDE DEF flushed, stored, t
<1>5. /\ DOMAIN t = {"save", "written"} /\ t.save \in SaveFiles /\ t.save.error = s.error
      /\ t.written = Len(data) => Sent(t.save) = Sent(s) \o data
  <2>1. CASE Len(s.held) + Len(data) <= Held
    <3> DEFINE u == [s EXCEPT !.held = @ \o data]
    <3>1. s.held \o data \in Seq(Cell)
      BY <1>1
    <3>2. u.file = s.file /\ u.held = s.held \o data /\ u.error = s.error /\ u \in SaveFiles
      BY <3>1 DEF SaveFiles
    <3>3. t = [save |-> u, written |-> Len(data)]
      BY <1>4, <2>1
    <3> HIDE DEF u
    <3>4. s.file \o (s.held \o data) = (s.file \o s.held) \o data
      BY <1>1, Associative
    <3>5. Sent(u) = Sent(s) \o data
      BY <3>2, <3>4 DEF Sent
    <3> QED
      BY <3>2, <3>3, <3>5
  <2>2. CASE ~(Len(s.held) + Len(data) <= Held) /\ Len(s.held) > s.room
    BY <1>1, <1>2, <1>4, <2>2
  <2>3. CASE ~(Len(s.held) + Len(data) <= Held) /\ ~(Len(s.held) > s.room) /\ Len(data) <= Held
    <3> DEFINE u == [flushed EXCEPT !.held = data]
    <3>1. u.file = flushed.file /\ u.held = data /\ u.error = s.error /\ u \in SaveFiles
      BY <1>2 DEF SaveFiles
    <3>2. t = [save |-> u, written |-> Len(data)]
      BY <1>4, <2>3
    <3>3. flushed.file = s.file \o s.held
      <4>1. Len(s.held) <= s.room
        BY <1>1, <2>3
      <4> QED
        BY <1>2, <4>1
    <3> HIDE DEF u
    <3>4. Sent(u) = Sent(s) \o data
      BY <1>1, <3>1, <3>3 DEF Sent
    <3> QED
      BY <3>1, <3>2, <3>4
  <2>4. CASE ~(Len(s.held) + Len(data) <= Held) /\ ~(Len(s.held) > s.room) /\ ~(Len(data) <= Held)
    <3>1. t = [save |-> stored, written |-> Len(stored.file) - Len(flushed.file)]
      BY <1>4, <2>4
    <3>2. flushed.file = s.file \o s.held
      <4>1. Len(s.held) <= s.room
        BY <1>1, <2>4
      <4> QED
        BY <1>2, <4>1
    <3>3. t.written = Len(data) => stored.file = (s.file \o s.held) \o data
      BY <1>3, <3>1, <3>2
    <3>4. stored.file \in Seq(Cell) /\ stored.file \o <<>> = stored.file
      BY <1>3 DEF SaveFiles
    <3>5. Sent(stored) = stored.file
      BY <1>3, <3>4 DEF Sent
    <3> QED
      BY <1>3, <3>1, <3>3, <3>5 DEF Sent
  <2> QED
    BY <2>1, <2>2, <2>3, <2>4
<1> DEFINE x == SaveWrite(s, data)
<1>6. x = [t EXCEPT !.save.error = @ \/ t.written # Len(data)]
  BY DEF SaveWrite, t
<1>7. x.written = t.written /\ x.save = [t.save EXCEPT !.error = @ \/ t.written # Len(data)]
  BY <1>5, <1>6
<1> HIDE DEF x
<1>8. /\ x.save \in SaveFiles /\ x.save.file = t.save.file /\ x.save.held = t.save.held
      /\ x.save.error = (s.error \/ t.written # Len(data))
  BY <1>1, <1>5, <1>7 DEF SaveFiles
<1>9. Sent(x.save) = Sent(t.save)
  BY <1>8 DEF Sent
<1> QED
  BY <1>5, <1>7, <1>8, <1>9 DEF x

LEMMA Split ==
    ASSUME NEW s \in Seq(Cell), NEW n \in 0..Len(s)
    PROVE  /\ SubSeq(s, 1, n) \in Seq(Cell) /\ Len(SubSeq(s, 1, n)) = n
           /\ SubSeq(s, n + 1, Len(s)) \in Seq(Cell) /\ Len(SubSeq(s, n + 1, Len(s))) = Len(s) - n
           /\ SubSeq(s, 1, n) \o SubSeq(s, n + 1, Len(s)) = s
<1>1. 1 \in 1..(Len(s) + 1) /\ n \in (1 - 1)..Len(s) /\ Len(s) \in n..Len(s)
  OBVIOUS
<1>2. SubSeq(s, 1, n) \o SubSeq(s, n + 1, Len(s)) = SubSeq(s, 1, Len(s))
  BY <1>1, ConcatAdjacentSubSeq
<1>3. SubSeq(s, 1, Len(s)) = s
  BY SubSeqFull
<1>4. SubSeq(s, 1, n) \in Seq(Cell) /\ Len(SubSeq(s, 1, n)) = n
  OBVIOUS
<1>5. SubSeq(s, n + 1, Len(s)) \in Seq(Cell) /\ Len(SubSeq(s, n + 1, Len(s))) = Len(s) - n
  OBVIOUS
<1> QED
  BY <1>2, <1>3, <1>4, <1>5

(* What is behind the first elements of a sequence. *)
LEMMA Behind ==
    ASSUME NEW s \in Seq(Cell), NEW n \in 0..Len(s)
    PROVE  /\ SubSeq(s, n + 1, Len(s)) \in Seq(Cell)
           /\ Len(SubSeq(s, n + 1, Len(s))) = Len(s) - n
           /\ \A i \in 1..(Len(s) - n) : SubSeq(s, n + 1, Len(s))[i] = s[n + i]
<1> DEFINE l == Len(s)
           b == SubSeq(s, n + 1, l)
<1>1. l \in Nat /\ n \in Nat /\ n <= l
  OBVIOUS
<1>2. b \in Seq(Cell) /\ Len(b) = l - n
  BY Split
<1>3. \A i \in 1..(l - n) : b[i] = s[n + i]
  <2>1. TAKE i \in 1..(l - n)
  <2>2. i \in 1..Len(b)
    BY <1>2
  <2> QED
    BY <2>2
<1> HIDE DEF b
<1> QED
  BY <1>2, <1>3 DEF b

(* What two sequences are, one behind the other. *)
IsConcat(c, a, b) ==
    /\ c \in Seq(Cell) /\ Len(c) = Len(a) + Len(b)
    /\ \A i \in 1..(Len(a) + Len(b)) : c[i] = IF i <= Len(a) THEN a[i] ELSE b[i - Len(a)]

LEMMA ConcatOK ==
    ASSUME NEW a \in Seq(Cell), NEW b \in Seq(Cell)
    PROVE  IsConcat(a \o b, a, b)
BY ConcatProperties DEF IsConcat

(* The last of the second of two parts, taken away, are put behind again. *)
LEMMA PutBack ==
    ASSUME NEW p \in Seq(Cell), NEW q \in Seq(Cell), NEW n \in 0..Len(p \o q),
           NEW k \in 0..Len(q), k <= Len(p \o q) - n
    PROVE  LET left == SubSeq(p \o q, n + 1, Len(p \o q))
               kept == SubSeq(left, 1, Len(left) - k)
               back == SubSeq(q, Len(q) - k + 1, Len(q))
           IN  /\ kept \in Seq(Cell) /\ Len(kept) = Len(p) + Len(q) - n - k
               /\ back \in Seq(Cell) /\ Len(back) = k
               /\ kept \o back = left
<1> DEFINE all == p \o q
           left == SubSeq(all, n + 1, Len(all))
           kept == SubSeq(left, 1, Len(left) - k)
           back == SubSeq(q, Len(q) - k + 1, Len(q))
<1>1. /\ all \in Seq(Cell) /\ Len(all) = Len(p) + Len(q)
      /\ \A i \in 1..(Len(p) + Len(q)) : all[i] = IF i <= Len(p) THEN p[i] ELSE q[i - Len(p)]
  BY ConcatProperties
<1>2. Len(p) \in Nat /\ Len(q) \in Nat /\ n \in Nat /\ k \in Nat /\ n + k <= Len(p) + Len(q)
        /\ k <= Len(q)
  BY <1>1
<1> HIDE DEF all
<1>3. /\ left \in Seq(Cell) /\ Len(left) = Len(p) + Len(q) - n
      /\ \A i \in 1..(Len(p) + Len(q) - n) : left[i] = all[n + i]
  <2>1. all \in Seq(Cell) /\ n \in 0..Len(all)
    BY <1>1, <1>2
  <2>2. /\ left \in Seq(Cell) /\ Len(left) = Len(all) - n
        /\ \A i \in 1..(Len(all) - n) : left[i] = all[n + i]
    BY <2>1, Behind
  <2> HIDE DEF left
  <2> QED
    BY <1>1, <2>2
<1> HIDE DEF left
<1>4. /\ kept \in Seq(Cell) /\ Len(kept) = Len(p) + Len(q) - n - k
      /\ \A i \in 1..(Len(p) + Len(q) - n - k) : kept[i] = left[i]
  <2> DEFINE m == Len(left) - k
  <2>1. m \in 0..Len(left) /\ m = Len(p) + Len(q) - n - k
    BY <1>2, <1>3
  <2> HIDE DEF m
  <2>2. /\ SubSeq(left, 1, m) \in Seq(Cell) /\ Len(SubSeq(left, 1, m)) = m
        /\ \A i \in 1..m : SubSeq(left, 1, m)[i] = left[i]
    BY <1>3, <2>1
  <2>3. kept = SubSeq(left, 1, m)
    BY DEF m
  <2> HIDE DEF kept
  <2> QED
    BY <2>1, <2>2, <2>3
<1>5. /\ back \in Seq(Cell) /\ Len(back) = k
      /\ \A i \in 1..k : back[i] = q[Len(q) - k + i]
  BY <1>2
<1> HIDE DEF kept, back
<1>6. /\ kept \o back \in Seq(Cell) /\ Len(kept \o back) = Len(p) + Len(q) - n
      /\ \A i \in 1..(Len(p) + Len(q) - n) :
            (kept \o back)[i] = IF i <= Len(kept) THEN kept[i] ELSE back[i - Len(kept)]
  <2>1. /\ kept \o back \in Seq(Cell) /\ Len(kept \o back) = Len(kept) + Len(back)
        /\ \A i \in 1..(Len(kept) + Len(back)) :
              (kept \o back)[i] = IF i <= Len(kept) THEN kept[i] ELSE back[i - Len(kept)]
    <3>1. kept \in Seq(Cell) /\ back \in Seq(Cell)
      BY <1>4, <1>5
    <3>2. IsConcat(kept \o back, kept, back)
      BY <3>1, ConcatOK
    <3> QED
      BY <3>2 DEF IsConcat
  <2>2. Len(kept) + Len(back) = Len(p) + Len(q) - n
    BY <1>2, <1>4, <1>5
  <2> QED
    BY <2>1, <2>2
<1>7. \A i \in 1..(Len(p) + Len(q) - n) : (kept \o back)[i] = left[i]
  <2>1. TAKE i \in 1..(Len(p) + Len(q) - n)
  <2>2. CASE i <= Len(kept)
    BY <1>2, <1>4, <1>6, <2>2
  <2>3. CASE ~(i <= Len(kept))
    <3> DEFINE j == i - Len(kept)
    <3>1. j \in 1..k /\ (kept \o back)[i] = back[j]
      <4>1. (kept \o back)[i] = back[i - Len(kept)]
        BY <1>6, <2>3
      <4>2. Len(kept) = Len(p) + Len(q) - n - k
        BY <1>4
      <4> DEFINE m == Len(p) + Len(q)
      <4>3. m \in Nat /\ Len(kept) = m - n - k /\ i \in 1..(m - n)
        BY <1>2, <4>2
      <4> HIDE DEF m
      <4>4. j \in 1..k
        BY <1>2, <2>3, <4>3
      <4> QED
        BY <4>1, <4>4
    <3>2. back[j] = q[Len(q) - k + j]
      BY <1>5, <3>1
    <3>3. Len(q) - k + j = n + i - Len(p)
      BY <1>2, <1>4
    <3>4. n + i \in 1..(Len(p) + Len(q)) /\ ~(n + i <= Len(p))
      BY <1>2, <1>4, <3>1, <3>3
    <3>5. left[i] = all[n + i]
      BY <1>3
    <3>6. all[n + i] = q[n + i - Len(p)]
      BY <1>1, <3>4
    <3> QED
      BY <3>1, <3>2, <3>3, <3>5, <3>6
  <2> QED
    BY <2>2, <2>3
<1>8. kept \o back = left
  BY <1>3, <1>6, <1>7, SeqEqual
<1> QED
  BY <1>4, <1>5, <1>8 DEF kept, back, left, all

-----------------------------------------------------------------------------
(* The filters that compress. *)
Filters ==
    [kind : Kind \ {"none"}, lazy : BOOLEAN, result : {"Ok", "End", "Error"},
     needHeader : BOOLEAN, headerWritten : BOOLEAN, footerWritten : BOOLEAN,
     stuck : BOOLEAN, ended : BOOLEAN, pending : Seq(Cell), buffer : Seq(Cell)]

Ending(v, finish) == IF finish /\ ~v.ended THEN <<"end">> ELSE <<>>

(* What a library has been given, it gives or keeps or leaves. *)
Deflated(v, in, finish, d) ==
    LET all == (v.pending \o in) \o Ending(v, finish)
    IN  /\ d.w \in Filters /\ Len(d.w.buffer) <= Cap /\ d.in \in Seq(Cell)
        /\ DOMAIN d = {"w", "in", "status"}
        /\ d.status \in {"NoProgress", "StreamEnd", "Ok"}
        /\ d.w.ended = finish /\ d.w.headerWritten = v.headerWritten
        /\ d.w.footerWritten = v.footerWritten /\ d.w.kind = v.kind
        /\ d.w.needHeader = v.needHeader
        /\ (d.w.buffer \o d.w.pending) \o d.in = v.buffer \o all
        /\ Len(d.in) <= Len(in)
        /\ finish => d.in = <<>>
        /\ Len(v.buffer) = Cap <=> d.status = "NoProgress"
        /\ d.status = "StreamEnd" => finish /\ d.w.pending = <<>>
        /\ d.status = "Ok" /\ finish => d.w.pending # <<>>
        /\ \/ Len(d.w.buffer) = Cap
           \/ Len(d.w.buffer) = Len(v.buffer) + Len(all)
           \/ v.lazy /\ ~finish /\ d.w.buffer = v.buffer /\ d.in = <<>>
        /\ Len(d.w.buffer) = Len(v.buffer) + Len(all) => d.in = <<>> /\ d.w.pending = <<>>

LEMMA DeflateOK ==
    ASSUME NEW v \in Filters, Len(v.buffer) <= Cap, NEW in \in Seq(Cell),
           NEW finish \in BOOLEAN, finish => in = <<>>
    PROVE  Deflated(v, in, finish, Deflate(v, in, finish))
<1> DEFINE e == Ending(v, finish)
           all == (v.pending \o in) \o e
           n == IF v.lazy /\ ~finish THEN 0 ELSE Min({Len(all), Room(v)})
           left == SubSeq(all, n + 1, Len(all))
           untaken == IF finish \/ v.lazy THEN 0 ELSE Min({Len(in), Len(left)})
           kept == SubSeq(left, 1, Len(left) - untaken)
           back == SubSeq(in, Len(in) - untaken + 1, Len(in))
           given == SubSeq(all, 1, n)
           d == Deflate(v, in, finish)
<1>1. /\ v.pending \in Seq(Cell) /\ v.buffer \in Seq(Cell) /\ v.lazy \in BOOLEAN /\ v.ended \in BOOLEAN
      /\ Len(v.pending) \in Nat /\ Len(v.buffer) \in Nat /\ Len(in) \in Nat
  BY DEF Filters
<1>2. e \in Seq(Cell) /\ (~finish => e = <<>>)
  <2>1. "end" \in Cell
    BY Constants DEF Mark
  <2> QED
    BY <2>1, NoCells DEF Ending
<1>3. all \in Seq(Cell) /\ Len(all) \in Nat /\ (~finish => all = v.pending \o in)
  <2> DEFINE p == v.pending \o in
  <2>1. p \in Seq(Cell)
    BY <1>1
  <2> HIDE DEF e, p
  <2>2. p \o e \in Seq(Cell) /\ Len(p \o e) \in Nat
    BY <1>2, <2>1
  <2>3. ~finish => p \o e = p
    BY <1>2, <2>1
  <2>4. all = p \o e
    BY DEF p
  <2> HIDE DEF all
  <2> QED
    BY <2>2, <2>3, <2>4 DEF p
<1>4. d = [w |-> [v EXCEPT !.buffer = @ \o given, !.pending = kept, !.ended = finish],
           in |-> back,
           status |-> IF Room(v) = 0 THEN "NoProgress"
                      ELSE IF finish /\ left = <<>> THEN "StreamEnd" ELSE "Ok"]
  <2>1. all = v.pending \o in \o IF finish /\ ~v.ended THEN <<"end">> ELSE <<>>
    BY DEF Ending
  <2> QED
    BY <2>1 DEF Deflate
<1> HIDE DEF e, all, d
<1>5. Room(v) \in Nat /\ Len(v.buffer) + Room(v) = Cap
  BY <1>1, Constants DEF Room
<1>6. n \in 0..Len(all) /\ n <= Room(v)
        /\ (n = Len(all) \/ n = Room(v) \/ (v.lazy /\ ~finish /\ n = 0))
  <2> DEFINE l == Len(all)
             room == Room(v)
  <2>1. l \in Nat /\ room \in Nat
    BY <1>3, <1>5
  <2>2. Min({l, room}) = IF l <= room THEN l ELSE room
    BY <2>1, MinOfTwo
  <2>3. n = IF v.lazy /\ ~finish THEN 0 ELSE IF l <= room THEN l ELSE room
    BY <2>2
  <2> HIDE DEF l, room, n
  <2>4. n \in 0..l /\ n <= room /\ (n = l \/ n = room \/ (v.lazy /\ ~finish /\ n = 0))
    BY <2>1, <2>3
  <2> QED
    BY <2>4 DEF l, room
<1> HIDE DEF n
<1>7. /\ given \in Seq(Cell) /\ Len(given) = n /\ left \in Seq(Cell) /\ Len(left) = Len(all) - n
      /\ given \o left = all
  BY <1>3, <1>6, Split
<1> HIDE DEF given
<1>8. /\ untaken \in 0..Len(in) /\ untaken <= Len(left)
      /\ (finish \/ v.lazy => untaken = 0)
  <2> HIDE DEF left
  <2>1. Len(left) \in Nat
    BY <1>7
  <2>2. Min({Len(in), Len(left)}) = IF Len(in) <= Len(left) THEN Len(in) ELSE Len(left)
    BY <1>1, <2>1, MinOfTwo
  <2> DEFINE l == Len(left)
             i == Len(in)
  <2>3. i \in Nat /\ l \in Nat /\ untaken = IF finish \/ v.lazy THEN 0 ELSE IF i <= l THEN i ELSE l
    BY <1>1, <2>1, <2>2
  <2> HIDE DEF l, i, untaken
  <2>4. untaken \in 0..i /\ untaken <= l /\ (finish \/ v.lazy => untaken = 0)
    BY <2>3
  <2> QED
    BY <2>4 DEF l, i
<1>9. /\ kept \in Seq(Cell) /\ back \in Seq(Cell) /\ Len(back) = untaken /\ kept \o back = left
      /\ Len(kept) = Len(left) - untaken
  <2> HIDE DEF untaken
  <2>1. CASE finish
    <3>1. untaken = 0 /\ in = <<>>
      BY <1>8, <2>1
    <3> HIDE DEF left
    <3>2. back = <<>> /\ back \in Seq(Cell) /\ Len(back) = 0
      BY <3>1
    <3>3. Len(left) \in Nat /\ Len(left) - 0 = Len(left)
      BY <1>7
    <3>4. kept = SubSeq(left, 1, Len(left))
      BY <3>1, <3>3
    <3>5. kept = left
      BY <1>7, <3>4, SubSeqFull
    <3>6. left \o <<>> = left
      BY <1>7
    <3> HIDE DEF kept, back
    <3> QED
      BY <1>7, <3>1, <3>2, <3>3, <3>5, <3>6
  <2>2. CASE ~finish
    <3>1. all = v.pending \o in
      BY <1>3, <2>2
    <3>2. n \in 0..Len(v.pending \o in) /\ untaken <= Len(v.pending \o in) - n
            /\ left = SubSeq(v.pending \o in, n + 1, Len(v.pending \o in))
      BY <1>6, <1>7, <1>8, <3>1
    <3>3. Len(v.pending \o in) = Len(v.pending) + Len(in)
      BY <1>1
    <3> DEFINE l == SubSeq(v.pending \o in, n + 1, Len(v.pending \o in))
               k == SubSeq(l, 1, Len(l) - untaken)
    <3>4. /\ k \in Seq(Cell) /\ Len(k) = Len(v.pending) + Len(in) - n - untaken
          /\ back \in Seq(Cell) /\ Len(back) = untaken
          /\ k \o back = l
      <4> HIDE DEF n
      <4> QED
        BY <1>1, <1>8, <3>2, PutBack
    <3>5. l = left /\ k = kept
      BY <3>2
    <3> DEFINE pn == Len(v.pending)
               i == Len(in)
    <3>6. pn \in Nat /\ i \in Nat /\ n \in Nat /\ untaken \in Nat
      BY <1>1, <1>6, <1>8
    <3> HIDE DEF left, kept, back, l, k, n
    <3>7. Len(left) = (pn + i) - n
      BY <1>7, <3>1, <3>3
    <3>8. kept \in Seq(Cell) /\ Len(kept) = pn + i - n - untaken /\ kept \o back = left
      BY <3>4, <3>5
    <3> HIDE DEF pn, i
    <3>9. Len(kept) = Len(left) - untaken
      BY <3>6, <3>7, <3>8
    <3> QED
      BY <3>4, <3>8, <3>9
  <2> QED
    BY <2>1, <2>2
<1> HIDE DEF left, untaken, kept, back
<1>10. /\ d.w.buffer = v.buffer \o given /\ d.w.pending = kept /\ d.w.ended = finish
       /\ d.w.headerWritten = v.headerWritten /\ d.w.footerWritten = v.footerWritten
       /\ d.w.kind = v.kind /\ d.w.needHeader = v.needHeader /\ d.in = back /\ DOMAIN d = {"w", "in", "status"}
       /\ d.status = IF Room(v) = 0 THEN "NoProgress"
                     ELSE IF finish /\ left = <<>> THEN "StreamEnd" ELSE "Ok"
       /\ d.w \in Filters
  <2>1. v.buffer \o given \in Seq(Cell)
    BY <1>1, <1>7
  <2> QED
    BY <1>4, <1>9, <2>1 DEF Filters
<1> DEFINE b == v.buffer
<1>b. b \in Seq(Cell) /\ b = v.buffer
  BY <1>1
<1> HIDE DEF b
<1>11. Len(b \o given) = Len(b) + n
  <2>1. given \in Seq(Cell) /\ Len(given) = n
    BY <1>7
  <2> QED
    BY <1>b, <2>1, ConcatProperties
<1>12. (d.w.buffer \o d.w.pending) \o d.in = v.buffer \o all
  <2> DEFINE c == b \o given
  <2>0. c \in Seq(Cell)
    BY <1>b, <1>7
  <2> HIDE DEF c
  <2>1. c \o (kept \o back) = (c \o kept) \o back
    BY <1>9, <2>0, Associative
  <2>2. b \o (given \o left) = (b \o given) \o left
    BY <1>b, <1>7, Associative
  <2> USE DEF c
  <2> QED
    BY <1>b, <1>7, <1>9, <1>10, <2>1, <2>2
<1>13. left = <<>> <=> n = Len(all)
  BY <1>3, <1>6, <1>7
<1>14. finish => kept = left /\ back = <<>>
  <2> SUFFICES ASSUME finish PROVE kept = left /\ back = <<>>
    OBVIOUS
  <2>1. Len(back) = 0
    BY <1>8, <1>9
  <2>2. back = <<>>
    BY <1>9, <2>1
  <2>3. kept \o <<>> = kept
    BY <1>9
  <2> QED
    BY <1>9, <2>2, <2>3
<1>15. n = Len(all) => back = <<>> /\ kept = <<>>
  <2> SUFFICES ASSUME n = Len(all) PROVE back = <<>> /\ kept = <<>>
    OBVIOUS
  <2>1. left = <<>> /\ Len(left) = 0
    BY <1>13, NoCells
  <2>2. Len(back) = 0 /\ Len(kept) = 0
    BY <1>8, <1>9, <2>1
  <2> QED
    BY <1>9, <2>2
<1>16. v.lazy /\ ~finish /\ n = 0 => d.w.buffer = v.buffer /\ d.in = <<>>
  <2> SUFFICES ASSUME v.lazy, ~finish, n = 0 PROVE d.w.buffer = v.buffer /\ d.in = <<>>
    OBVIOUS
  <2>1. Len(given) = 0 /\ Len(back) = 0
    BY <1>7, <1>8, <1>9
  <2>2. given = <<>> /\ back = <<>>
    BY <1>7, <1>9, <2>1
  <2>3. v.buffer \o <<>> = v.buffer
    BY <1>1
  <2> QED
    BY <1>10, <2>2, <2>3
<1> DEFINE Goal1 == d.w \in Filters /\ Len(d.w.buffer) <= Cap /\ d.in \in Seq(Cell)
           Goal2 == /\ d.status \in {"NoProgress", "StreamEnd", "Ok"}
                    /\ Len(d.in) <= Len(in)
                    /\ finish => d.in = <<>>
                    /\ Len(v.buffer) = Cap <=> d.status = "NoProgress"
                    /\ d.status = "StreamEnd" => finish /\ d.w.pending = <<>>
                    /\ d.status = "Ok" /\ finish => d.w.pending # <<>>
           Goal3 == \/ Len(d.w.buffer) = Cap
                    \/ Len(d.w.buffer) = Len(v.buffer) + Len(all)
                    \/ v.lazy /\ ~finish /\ d.w.buffer = v.buffer /\ d.in = <<>>
           Goal4 == Len(d.w.buffer) = Len(v.buffer) + Len(all) => d.in = <<>> /\ d.w.pending = <<>>
<1>17. Goal1
  BY <1>1, <1>b, <1>5, <1>6, <1>9, <1>10, <1>11, Constants
<1>18. Goal2
  BY <1>1, <1>5, <1>8, <1>9, <1>10, <1>14
<1>19. Goal3
  BY <1>1, <1>b, <1>5, <1>6, <1>10, <1>11, <1>16
<1>20. Goal4
  BY <1>1, <1>b, <1>3, <1>6, <1>10, <1>11, <1>15
<1> HIDE DEF Goal1, Goal2, Goal3, Goal4
<1> QED
  <2>1. Goal1 /\ Goal2 /\ Goal3 /\ Goal4
    BY <1>17, <1>18, <1>19, <1>20
  <2>2. (d.w.buffer \o d.w.pending) \o d.in = v.buffer \o all
    BY <1>b, <1>12
  <2>3. Deflated(v, in, finish, d)
    <3> USE DEF Goal1, Goal2, Goal3, Goal4, all, e
    <3> QED
      BY <1>10, <2>1, <2>2 DEF Deflated
  <2> QED
    BY <2>3 DEF d

(* How much a library still has to give when it is told to finish. *)
Unfinished(v) == Len(v.pending) + IF v.ended THEN 0 ELSE 1

Carried(v, in) == (CellsOf(v.buffer) \o CellsOf(v.pending)) \o CellsOf(in)

LEMMA CarriedOf ==
    ASSUME NEW v \in Filters, NEW in \in Seq(Cell)
    PROVE  /\ CellsOf((v.buffer \o v.pending) \o in) = Carried(v, in)
           /\ CellsOf(v.buffer \o (v.pending \o in)) = Carried(v, in)
<1>1. v.buffer \in Seq(Cell) /\ v.pending \in Seq(Cell)
  BY DEF Filters
<1> DEFINE b == v.buffer
           p == v.pending
<1>2. b \in Seq(Cell) /\ p \in Seq(Cell) /\ Carried(v, in) = (CellsOf(b) \o CellsOf(p)) \o CellsOf(in)
  BY <1>1 DEF Carried
<1> HIDE DEF b, p
<1>3. CellsOf(b \o p) = CellsOf(b) \o CellsOf(p) /\ b \o p \in Seq(Cell)
  BY <1>2, CellsOfConcat
<1>4. CellsOf((b \o p) \o in) = CellsOf(b \o p) \o CellsOf(in)
  BY <1>3, CellsOfConcat
<1>5. b \o (p \o in) = (b \o p) \o in
  BY <1>2, Associative
<1> QED
  BY <1>2, <1>3, <1>4, <1>5 DEF b, p

More(v, finish) == IF finish /\ ~v.ended THEN 1 ELSE 0

DeflateKept(v, in, finish, d) ==
    /\ Carried(d.w, d.in) = Carried(v, in)
    /\ Len(d.w.buffer) + Len(d.w.pending) + Len(d.in)
          = Len(v.buffer) + Len(v.pending) + Len(in) + More(v, finish)

LEMMA DeflateKeeps ==
    ASSUME NEW v \in Filters, Len(v.buffer) <= Cap, NEW in \in Seq(Cell),
           NEW finish \in BOOLEAN, finish => in = <<>>
    PROVE  DeflateKept(v, in, finish, Deflate(v, in, finish))
<1> DEFINE d == Deflate(v, in, finish)
           e == Ending(v, finish)
           x == v.pending \o in
<1>0. Deflated(v, in, finish, d)
  BY DeflateOK
<1> HIDE DEF d
<1>1. /\ d.w \in Filters /\ d.in \in Seq(Cell)
      /\ (d.w.buffer \o d.w.pending) \o d.in = v.buffer \o (x \o e)
  BY <1>0 DEF Deflated
<1>2. v.pending \in Seq(Cell) /\ v.buffer \in Seq(Cell) /\ d.w.buffer \in Seq(Cell) /\ d.w.pending \in Seq(Cell)
  BY <1>1 DEF Filters
<1>3. x \in Seq(Cell) /\ Len(x) = Len(v.pending) + Len(in)
  BY <1>2, ConcatProperties
<1>4. e \in Seq(Cell) /\ CellsOf(e) = <<>> /\ Len(e) = More(v, finish)
  <2>1. CASE finish /\ ~v.ended
    <3>1. e = <<"end">> /\ "end" \in Cell /\ "end" \in Mark
      BY <2>1, Constants DEF Ending, Mark
    <3>2. e \in Seq(Cell) /\ Len(e) = 1 /\ \A i \in 1..Len(e) : e[i] \in Mark
      BY <3>1
    <3> HIDE DEF e
    <3> QED
      BY <2>1, <3>2, CellsOfMarks DEF More
  <2>2. CASE ~(finish /\ ~v.ended)
    BY <2>2, NoCells, NoneOfNone DEF Ending, More
  <2> QED
    BY <2>1, <2>2
<1> HIDE DEF e
<1>5. CellsOf(x \o e) = CellsOf(x)
  <2>1. CellsOf(x \o e) = CellsOf(x) \o <<>> /\ CellsOf(x) \in Seq(Cell)
    BY <1>3, <1>4, CellsOfConcat, CellsOfType
  <2> QED
    BY <2>1
<1>6. x \o e \in Seq(Cell) /\ Len(x \o e) = Len(x) + Len(e)
  BY <1>3, <1>4, ConcatProperties
<1>7. CellsOf(v.buffer \o (x \o e)) = CellsOf(v.buffer \o x)
  <2> DEFINE y == x \o e
  <2>1. y \in Seq(Cell) /\ CellsOf(y) = CellsOf(x)
    BY <1>5, <1>6
  <2> HIDE DEF y, x
  <2>2. CellsOf(v.buffer \o y) = CellsOf(v.buffer) \o CellsOf(y)
    BY <1>2, <2>1, CellsOfConcat
  <2>3. CellsOf(v.buffer \o x) = CellsOf(v.buffer) \o CellsOf(x)
    BY <1>2, <1>3, CellsOfConcat
  <2> QED
    BY <2>1, <2>2, <2>3 DEF y
<1>8. Carried(d.w, d.in) = Carried(v, in)
  BY <1>1, <1>7, CarriedOf
<1>9. Len(d.w.buffer) + Len(d.w.pending) + Len(d.in) = Len((d.w.buffer \o d.w.pending) \o d.in)
  <2> DEFINE y == d.w.buffer \o d.w.pending
  <2>1. y \in Seq(Cell) /\ Len(y) = Len(d.w.buffer) + Len(d.w.pending)
    BY <1>2, ConcatProperties
  <2> HIDE DEF y
  <2>2. Len(y \o d.in) = Len(y) + Len(d.in)
    BY <1>1, <2>1, ConcatProperties
  <2> QED
    BY <2>1, <2>2 DEF y
<1>10. Len(v.buffer \o (x \o e)) = Len(v.buffer) + Len(v.pending) + Len(in) + Len(e)
  <2> DEFINE y == x \o e
  <2>1. y \in Seq(Cell) /\ Len(y) = Len(v.pending) + Len(in) + Len(e)
    BY <1>3, <1>6
  <2> HIDE DEF y, x
  <2>2. Len(v.buffer \o y) = Len(v.buffer) + Len(y)
    BY <1>2, <2>1, ConcatProperties
  <2>3. Len(v.buffer) \in Nat /\ Len(v.pending) \in Nat /\ Len(in) \in Nat /\ Len(e) \in Nat
    BY <1>2, <1>4
  <2> QED
    <3>1. Len(v.buffer \o y) = Len(v.buffer) + (Len(v.pending) + Len(in) + Len(e))
      BY <2>1, <2>2
    <3> DEFINE l == Len(v.buffer \o y)
               b == Len(v.buffer)
               p == Len(v.pending)
               i == Len(in)
               k == Len(e)
    <3>2. l = b + (p + i + k) /\ b \in Nat /\ p \in Nat /\ i \in Nat /\ k \in Nat
      BY <2>3, <3>1
    <3>3. l = b + p + i + k
      <4> HIDE DEF l, b, p, i, k
      <4> QED
        BY <3>2
    <3> HIDE DEF y
    <3>4. Len(v.buffer \o y) = Len(v.buffer) + Len(v.pending) + Len(in) + Len(e)
      BY <3>3
    <3> QED
      BY <3>4 DEF y
<1>11. Len(d.w.buffer) + Len(d.w.pending) + Len(d.in)
         = Len(v.buffer) + Len(v.pending) + Len(in) + Len(e)
  BY <1>1, <1>9, <1>10
<1>12. DeflateKept(v, in, finish, d)
  BY <1>4, <1>8, <1>11 DEF DeflateKept
<1> QED
  BY <1>12 DEF d

-----------------------------------------------------------------------------
(* A pass of compress, with what is written behind the data. *)
Compressed(v, in, finish, c) ==
    /\ c.w \in Filters /\ Len(c.w.buffer) <= Cap /\ c.in \in Seq(Cell)
    /\ c.w.needHeader = v.needHeader /\ c.w.ended = finish
    /\ Len(c.in) <= Len(in)

LEMMA CompressTypes ==
    ASSUME NEW v \in Filters, Len(v.buffer) <= Cap, NEW in \in Seq(Cell),
           NEW finish \in BOOLEAN, finish => in = <<>>
    PROVE  Compressed(v, in, finish, Compress(v, in, finish))
<1> DEFINE d == Deflate(v, in, finish)
           result == CASE d.status = "Ok" -> "Ok"
                       [] d.status = "StreamEnd" -> "End"
                       [] d.status = "NoProgress" -> NoProgress(v)
           now == [d.w EXCEPT !.result = result, !.stuck = d.status = "NoProgress"]
           footer == d.status = "StreamEnd" /\ v.headerWritten /\ ~v.footerWritten
           footed == IF ~footer THEN now
                     ELSE IF FooterFits(now)
                     THEN [now EXCEPT !.buffer = @ \o Footer, !.footerWritten = TRUE]
                     ELSE [now EXCEPT !.result = "Ok"]
           c == Compress(v, in, finish)
<1>0. Deflated(v, in, finish, d)
  BY DeflateOK
<1>2. c = [w |-> footed, in |-> d.in]
  BY DEF Compress, AddFooter
<1> HIDE DEF d, c
<1>1. /\ d.w \in Filters /\ Len(d.w.buffer) <= Cap /\ d.in \in Seq(Cell)
      /\ d.w.ended = finish /\ d.w.needHeader = v.needHeader
      /\ d.status \in {"NoProgress", "StreamEnd", "Ok"} /\ Len(d.in) <= Len(in)
  BY <1>0 DEF Deflated
<1>3. NoProgress(v) \in {"Ok", "End", "Error"}
  BY DEF NoProgress, Filters, Kind
<1>4. result \in {"Ok", "End", "Error"}
  BY <1>1, <1>3
<1> HIDE DEF result
<1>5. /\ now \in Filters /\ now.buffer = d.w.buffer /\ now.needHeader = d.w.needHeader
      /\ now.ended = d.w.ended /\ now.result = result
  BY <1>1, <1>4 DEF Filters
<1> HIDE DEF now
<1>6. FooterFits(now) => Len(now.buffer \o Footer) <= Cap
  <2>1. Footer \in Seq(Cell) /\ Len(Footer) = 2
    <3>1. "crc" \in Cell /\ "length" \in Cell
      BY Constants DEF Mark
    <3> QED
      BY <3>1 DEF Footer
  <2>2. now.buffer \in Seq(Cell) /\ Len(now.buffer) \in Nat
    BY <1>5 DEF Filters
  <2>3. Len(now.buffer \o Footer) = Len(now.buffer) + 2
    <3> HIDE DEF footed, footer
    <3> QED
      BY <2>1, <2>2, LenOfConcat
  <2> QED
    BY <2>1, <2>2, <2>3, Constants DEF FooterFits, Room
<1>7. now.buffer \o Footer \in Seq(Cell)
  <2>1. Footer \in Seq(Cell)
    <3>1. "crc" \in Cell /\ "length" \in Cell
      BY Constants DEF Mark
    <3> QED
      BY <3>1 DEF Footer
  <2>2. now.buffer \in Seq(Cell)
    BY <1>5 DEF Filters
  <2> QED
    BY <2>1, <2>2
<1>8. /\ footed \in Filters /\ Len(footed.buffer) <= Cap
      /\ footed.needHeader = v.needHeader /\ footed.ended = finish
  <2>1. CASE ~footer
    BY <1>1, <1>5, <2>1
  <2>2. CASE footer /\ FooterFits(now)
    BY <1>1, <1>5, <1>6, <1>7, <2>2 DEF Filters
  <2>3. CASE footer /\ ~FooterFits(now)
    BY <1>1, <1>5, <2>3 DEF Filters
  <2> QED
    BY <2>1, <2>2, <2>3
<1> HIDE DEF footed
<1>9. Compressed(v, in, finish, c)
  BY <1>1, <1>2, <1>8 DEF Compressed
<1> QED
  BY <1>9 DEF c

(* With room in the buffer it does not fail, loses nothing and gets on. *)
GetsOn(v, in, finish, c) ==
    /\ Carried(c.w, c.in) = Carried(v, in)
    /\ c.w.result # "Error"
    /\ ~finish => /\ c.w.result = "Ok"
                  /\ c.in # <<>> =>
                       /\ Len(c.w.buffer) = Cap
                       /\ Len(c.w.pending) + Len(c.in) < Len(v.pending) + Len(in)
    /\ finish => /\ c.in = <<>>
                 /\ c.w.result = "End" => c.w.pending = <<>>
                 /\ c.w.result = "Ok" /\ (v.ended => v.buffer = <<>>) =>
                       Unfinished(c.w) < Unfinished(v)

LEMMA CompressOK ==
    ASSUME NEW v \in Filters, Len(v.buffer) < Cap, NEW in \in Seq(Cell),
           NEW finish \in BOOLEAN, finish => in = <<>>
    PROVE  GetsOn(v, in, finish, Compress(v, in, finish))
<1> DEFINE d == Deflate(v, in, finish)
           result == IF d.status = "Ok" THEN "Ok" ELSE "End"
           now == [d.w EXCEPT !.result = result, !.stuck = FALSE]
           footer == d.status = "StreamEnd" /\ v.headerWritten /\ ~v.footerWritten
           footed == IF ~footer THEN now
                     ELSE IF FooterFits(now)
                     THEN [now EXCEPT !.buffer = @ \o Footer, !.footerWritten = TRUE]
                     ELSE [now EXCEPT !.result = "Ok"]
           c == Compress(v, in, finish)
<1>0. /\ v.buffer \in Seq(Cell) /\ v.pending \in Seq(Cell) /\ v.ended \in BOOLEAN
      /\ Len(v.buffer) \in Nat /\ Len(v.pending) \in Nat /\ Len(in) \in Nat /\ Len(v.buffer) <= Cap
  BY Constants DEF Filters
<1>d. Deflated(v, in, finish, d)
  BY <1>0, DeflateOK
<1>k. DeflateKept(v, in, finish, d)
  BY <1>0, DeflateKeeps
<1>1. /\ d.w \in Filters /\ Len(d.w.buffer) <= Cap /\ d.in \in Seq(Cell) /\ d.w.ended = finish
      /\ d.status \in {"StreamEnd", "Ok"}
      /\ finish => d.in = <<>>
      /\ d.status = "StreamEnd" => finish /\ d.w.pending = <<>>
      /\ d.status = "Ok" /\ finish => d.w.pending # <<>>
  <2> HIDE DEF d
  <2>1. Len(v.buffer) # Cap
    BY <1>0, Constants
  <2> QED
    BY <1>d, <2>1 DEF Deflated
<1>2. /\ d.in # <<>> => Len(d.w.buffer) = Cap
      /\ d.status = "Ok" /\ finish => Len(d.w.buffer) = Cap
  <2> DEFINE all == (v.pending \o in) \o Ending(v, finish)
  <2>1. /\ \/ Len(d.w.buffer) = Cap
           \/ Len(d.w.buffer) = Len(v.buffer) + Len(all)
           \/ v.lazy /\ ~finish /\ d.w.buffer = v.buffer /\ d.in = <<>>
        /\ Len(d.w.buffer) = Len(v.buffer) + Len(all) => d.in = <<>> /\ d.w.pending = <<>>
    <3> HIDE DEF d
    <3> QED
      BY <1>d DEF Deflated
  <2> HIDE DEF d, all
  <2> QED
    BY <1>1, <2>1
<1>3. /\ Carried(d.w, d.in) = Carried(v, in)
      /\ Len(d.w.buffer) + Len(d.w.pending) + Len(d.in)
           = Len(v.buffer) + Len(v.pending) + Len(in) + More(v, finish)
  <2> HIDE DEF d
  <2> QED
    BY <1>k DEF DeflateKept
<1>4. c = [w |-> footed, in |-> d.in]
  <2>1. d.status # "NoProgress"
    BY <1>1
  <2>2. (CASE d.status = "Ok" -> "Ok"
           [] d.status = "StreamEnd" -> "End"
           [] d.status = "NoProgress" -> NoProgress(v)) = result /\ (d.status = "NoProgress") = FALSE
    BY <1>1, <2>1
  <2> QED
    BY <2>2 DEF Compress, AddFooter
<1> HIDE DEF d, c
<1>5. /\ now.buffer = d.w.buffer /\ now.pending = d.w.pending
      /\ now.ended = d.w.ended /\ now.result = result /\ now \in Filters
      /\ now.buffer \in Seq(Cell) /\ now.pending \in Seq(Cell)
  <2>1. result \in {"Ok", "End"}
    OBVIOUS
  <2> HIDE DEF result
  <2> QED
    BY <1>1, <2>1 DEF Filters
<1> HIDE DEF now
<1>6. Len(now.buffer) \in Nat /\ Len(now.pending) \in Nat /\ Len(d.in) \in Nat
  BY <1>1, <1>5
<1>n. /\ Len(v.buffer) \in Nat /\ Len(v.pending) \in Nat /\ Len(in) \in Nat /\ Len(v.buffer) < Cap
      /\ Len(now.buffer) \in Nat /\ Len(now.pending) \in Nat /\ Len(d.in) \in Nat /\ Cap \in Nat
  BY <1>0, <1>6, Constants
<1> DEFINE vb == Len(v.buffer)
           vp == Len(v.pending)
           vi == Len(in)
           nb == Len(now.buffer)
           np == Len(now.pending)
           ni == Len(d.in)
           more == More(v, finish)
<1>l. /\ vb \in Nat /\ vp \in Nat /\ vi \in Nat /\ vb < Cap /\ Cap \in Nat
      /\ nb \in Nat /\ np \in Nat /\ ni \in Nat /\ more \in Nat
      /\ nb + np + ni = vb + vp + vi + more
  BY <1>n, <1>3, <1>5 DEF More
<1> HIDE DEF vb, vp, vi, nb, np, ni, more
<1>7. Carried(now, d.in) = Carried(v, in)
  BY <1>3, <1>5 DEF Carried
<1>8. CASE ~footer
  <2>1. c.w = now /\ c.in = d.in
    BY <1>4, <1>8
  <2>2. ~finish => result = "Ok"
    BY <1>1
  <2>3. ~finish /\ d.in # <<>> => Len(now.pending) + Len(d.in) < Len(v.pending) + Len(in)
    <3> SUFFICES ASSUME ~finish, d.in # <<>>
                 PROVE  Len(now.pending) + Len(d.in) < Len(v.pending) + Len(in)
      OBVIOUS
    <3>1. nb = Cap /\ more = 0
      BY <1>2, <1>5 DEF More, nb, more
    <3>2. np + ni < vp + vi
      BY <1>l, <3>1
    <3> QED
      BY <3>2 DEF np, ni, vp, vi
  <2>4. finish /\ result = "Ok" => Unfinished(now) < Unfinished(v)
    <3> SUFFICES ASSUME finish, result = "Ok" PROVE Unfinished(now) < Unfinished(v)
      OBVIOUS
    <3>1. Len(now.buffer) = Cap /\ now.ended /\ Len(d.in) = 0 /\ Len(in) = 0
      BY <1>1, <1>2, <1>5
    <3>2. Unfinished(v) = vp + more
      BY DEF Unfinished, More, vp, more
    <3>3. nb = Cap /\ ni = 0 /\ vi = 0
      BY <3>1 DEF nb, ni, vi
    <3>4. Unfinished(now) = np
      BY <1>6, <3>1 DEF Unfinished, np
    <3>5. np < vp + more
      BY <1>l, <3>3
    <3> QED
      BY <3>2, <3>4, <3>5
  <2>5. finish /\ result = "End" => now.pending = <<>>
    BY <1>1, <1>5
  <2>6. result # "Error" /\ result = now.result
    BY <1>5
  <2> HIDE DEF result, footer, footed
  <2> QED
    BY <1>1, <1>2, <1>5, <1>7, <2>1, <2>2, <2>3, <2>4, <2>5, <2>6 DEF c, GetsOn
<1>9. CASE footer
  <2>1. finish /\ now.pending = <<>> /\ d.in = <<>> /\ in = <<>>
    BY <1>1, <1>5, <1>9
  <2>2. Len(now.buffer) = Len(v.buffer) + Unfinished(v)
    <3>1. Len(now.pending) = 0 /\ Len(d.in) = 0 /\ Len(in) = 0
      BY <2>1
    <3>2. Unfinished(v) = vp + more
      BY <2>1 DEF Unfinished, More, vp, more
    <3>3. np = 0 /\ ni = 0 /\ vi = 0
      BY <3>1 DEF np, ni, vi
    <3>4. nb = vb + (vp + more)
      BY <1>l, <3>3
    <3> QED
      BY <3>2, <3>4 DEF nb, vb
  <2>3. CASE FooterFits(now)
    <3> DEFINE foot == [now EXCEPT !.buffer = @ \o Footer, !.footerWritten = TRUE]
    <3>1. c.w = foot /\ c.in = d.in
      BY <1>4, <1>9, <2>3
    <3>2. foot.buffer = now.buffer \o Footer /\ foot.pending = now.pending /\ foot.result = "End"
      BY <1>5, <1>9 DEF Filters
    <3>3. CellsOf(now.buffer \o Footer) = CellsOf(now.buffer)
      <4>1. Footer \in Seq(Cell) /\ \A i \in 1..Len(Footer) : Footer[i] \in Mark
        <5>1. "crc" \in Cell /\ "length" \in Cell /\ "crc" \in Mark /\ "length" \in Mark
          BY Constants DEF Mark
        <5> QED
          BY <5>1 DEF Footer
      <4>2. CellsOf(Footer) = <<>>
        BY <4>1, CellsOfMarks
      <4>3. CellsOf(now.buffer \o Footer) = CellsOf(now.buffer) \o <<>> /\ CellsOf(now.buffer) \in Seq(Cell)
        <5> DEFINE nowBuffer == now.buffer
        <5>1. nowBuffer \in Seq(Cell)
          BY <1>5 DEF Filters
        <5> HIDE DEF nowBuffer
        <5>2. CellsOf(nowBuffer \o Footer) = CellsOf(nowBuffer) \o CellsOf(Footer)
          BY <4>1, <5>1, CellsOfConcat
        <5>3. CellsOf(nowBuffer) \in Seq(Cell)
          BY <5>1, CellsOfType
        <5> QED
          BY <4>2, <5>2, <5>3 DEF nowBuffer
      <4> QED
        BY <4>3
    <3>4. Carried(foot, d.in) = Carried(now, d.in)
      BY <3>2, <3>3 DEF Carried
    <3> HIDE DEF foot, footer, footed
    <3> QED
      BY <1>7, <2>1, <3>1, <3>2, <3>4 DEF c, GetsOn
  <2>4. CASE ~FooterFits(now)
    <3> DEFINE foot == [now EXCEPT !.result = "Ok"]
    <3>1. c.w = foot /\ c.in = d.in
      BY <1>4, <1>9, <2>4
    <3>2. foot.buffer = now.buffer /\ foot.pending = now.pending /\ foot.result = "Ok" /\ foot.ended
      BY <1>1, <1>5, <2>1 DEF Filters
    <3>3. Carried(foot, d.in) = Carried(now, d.in)
      BY <3>2 DEF Carried
    <3>4. Len(now.buffer) > Cap - 2
      BY <1>6, <2>4, Constants DEF FooterFits, Room, Footer
    <3>5. (v.ended => v.buffer = <<>>) => Unfinished(foot) < Unfinished(v)
      <4> SUFFICES ASSUME v.ended => v.buffer = <<>> PROVE Unfinished(foot) < Unfinished(v)
        OBVIOUS
      <4>1. Unfinished(foot) = 0
        BY <2>1, <3>2, NoCells DEF Unfinished
      <4>2. CASE v.ended
        <5>1. Len(v.buffer) = 0
          BY <4>2, NoCells
        <5>2. Unfinished(v) = Len(v.pending)
          BY <1>0, <4>2 DEF Unfinished
        <5> QED
          BY <1>0, <2>2, <3>4, <4>1, <5>1, <5>2, Constants
      <4>3. CASE ~v.ended
        <5>1. Unfinished(v) = Len(v.pending) + 1
          BY <4>3 DEF Unfinished
        <5> QED
          BY <1>0, <4>1, <5>1
      <4> QED
        BY <4>2, <4>3
    <3> HIDE DEF foot, footer, footed
    <3> QED
      BY <1>7, <2>1, <3>1, <3>2, <3>3, <3>5 DEF c, GetsOn
  <2> QED
    BY <2>3, <2>4
<1> QED
  BY <1>8, <1>9

-----------------------------------------------------------------------------
(* The loop of writeData. *)
WriteTurn == [w : Filters, save : SaveFiles, in : Seq(Cell), size : Nat, written : Nat,
              finish : BOOLEAN, stop : BOOLEAN]

WriteTyped(x) ==
    /\ x \in WriteTurn
    /\ Len(x.w.buffer) <= Cap /\ Len(x.in) <= x.size /\ (x.finish => x.in = <<>>)

WroteTyped(x, y) ==
    /\ WriteTyped(y)
    /\ y.finish = x.finish /\ y.size = x.size /\ y.w.needHeader = x.w.needHeader
    /\ x.save.error => y.save.error

(* All that the loop has had: sent to the save file, or with the device.   *)
Had(x) == CellsOf(Sent(x.save)) \o Carried(x.w, x.in)

Wrote(x, y) ==
    /\ y.save.error => y.stop
    /\ ~y.save.error => Had(y) = Had(x) /\ Len(y.w.buffer) < Cap
    /\ ~x.finish /\ ~y.save.error =>
          /\ y.w.result = "Ok" /\ ~y.w.ended
          /\ y.stop => y.in = <<>>
          /\ ~y.stop => y.written = 0 /\ Len(y.w.pending) + Len(y.in) < Len(x.w.pending) + Len(x.in)
    /\ x.finish /\ ~y.save.error =>
          /\ y.w.buffer = <<>>
          /\ y.stop => y.w.pending = <<>>
          /\ ~y.stop => y.w.result = "Ok" /\ Unfinished(y.w) < Unfinished(x.w)

LEMMA WritePassTypes ==
    ASSUME NEW x, WriteTyped(x)
    PROVE  WroteTyped(x, WritePass(x))
<1> DEFINE step == Compress(x.w, x.in, x.finish)
           result == step.w.result
           wrote == IF step.in = <<>> \/ result = "End" THEN x.size - Len(step.in) ELSE x.written
           stopped == result = "End" \/ (wrote = x.size /\ ~x.finish)
           next == [x EXCEPT !.w = step.w, !.in = step.in, !.written = wrote, !.stop = stopped]
           flush == Room(step.w) = 0 \/ result = "End" \/ x.finish
           write == SaveWrite(x.save, step.w.buffer)
           failed == [x EXCEPT !.w = step.w, !.stop = TRUE]
           short == [next EXCEPT !.save = write.save, !.written = 0, !.stop = TRUE]
           sent == [next EXCEPT !.save = write.save, !.w.buffer = <<>>]
<1>1. /\ x \in WriteTurn /\ x.w \in Filters /\ x.save \in SaveFiles /\ x.in \in Seq(Cell)
      /\ x.size \in Nat /\ x.written \in Nat /\ x.finish \in BOOLEAN /\ x.stop \in BOOLEAN
      /\ Len(x.w.buffer) <= Cap /\ Len(x.in) <= x.size /\ (x.finish => x.in = <<>>)
  BY DEF WriteTyped, WriteTurn
<1>2. Compressed(x.w, x.in, x.finish, step)
  BY <1>1, CompressTypes
<1> HIDE DEF step
<1>3. /\ step.w \in Filters /\ Len(step.w.buffer) <= Cap /\ step.in \in Seq(Cell)
      /\ step.w.needHeader = x.w.needHeader /\ Len(step.in) <= Len(x.in)
      /\ step.w.buffer \in Seq(Cell)
  BY <1>2 DEF Compressed, Filters
<1>4. write.save \in SaveFiles /\ (x.save.error => write.save.error)
  BY <1>1, <1>3, SaveWriteOK
<1> HIDE DEF write
<1>5. WritePass(x) = IF result = "Error" THEN failed
                     ELSE IF ~flush THEN next
                     ELSE IF write.written # Len(step.w.buffer) THEN short ELSE sent
  BY DEF WritePass, AfterCompress, step, write
<1>6. Len(step.in) \in Nat /\ Len(x.in) \in Nat
  BY <1>1, <1>3
<1>7. wrote \in Nat
  BY <1>1, <1>3, <1>6
<1>8. x.finish => step.in = <<>>
  <2> SUFFICES ASSUME x.finish PROVE step.in = <<>>
    OBVIOUS
  <2>1. Len(x.in) = 0
    BY <1>1, NoCells
  <2>2. Len(step.in) = 0
    BY <1>3, <1>6, <2>1
  <2> QED
    BY <1>3, <2>2
<1>9. Len(step.in) <= x.size
  BY <1>1, <1>3, <1>6
<1>10. stopped \in BOOLEAN
  OBVIOUS
<1> HIDE DEF wrote, stopped
<1>11. next \in WriteTurn /\ WriteTyped(next)
        /\ next.finish = x.finish /\ next.size = x.size /\ next.w = step.w
        /\ next.save = x.save /\ next.in = step.in
  BY <1>1, <1>3, <1>7, <1>8, <1>9, <1>10 DEF WriteTurn, WriteTyped
<1>12. WroteTyped(x, failed)
  <2>1. failed \in WriteTurn /\ failed.w = step.w /\ failed.in = x.in
          /\ failed.finish = x.finish /\ failed.size = x.size /\ failed.save = x.save
    BY <1>1, <1>3 DEF WriteTurn
  <2> HIDE DEF failed
  <2> QED
    BY <1>1, <1>3, <2>1 DEF WroteTyped, WriteTyped
<1>13. WroteTyped(x, next)
  <2> HIDE DEF next
  <2> QED
    BY <1>3, <1>11 DEF WroteTyped
<1>14. WroteTyped(x, short)
  <2>1. short \in WriteTurn /\ short.w = next.w /\ short.in = next.in /\ short.save = write.save
          /\ short.finish = next.finish /\ short.size = next.size
    <3> HIDE DEF next
    <3> QED
      BY <1>4, <1>11 DEF WriteTurn
  <2> HIDE DEF short, next
  <2> QED
    BY <1>3, <1>4, <1>11, <2>1 DEF WroteTyped, WriteTyped
<1>15. WroteTyped(x, sent)
  <2> DEFINE clear == [next.w EXCEPT !.buffer = <<>>]
  <2>1. clear \in Filters /\ clear.buffer = <<>> /\ clear.needHeader = next.w.needHeader
    <3> HIDE DEF next
    <3> QED
      BY <1>3, <1>11, NoCells DEF Filters
  <2>2. sent = [next EXCEPT !.save = write.save, !.w = clear]
    <3> HIDE DEF next
    <3> QED
      BY <1>11 DEF WriteTurn
  <2> HIDE DEF clear, sent
  <2>3. sent \in WriteTurn /\ sent.w = clear /\ sent.in = next.in /\ sent.save = write.save
          /\ sent.finish = next.finish /\ sent.size = next.size
    <3> HIDE DEF next
    <3> QED
      BY <1>4, <1>11, <2>1, <2>2 DEF WriteTurn
  <2> HIDE DEF next
  <2>4. Len(sent.w.buffer) <= Cap
    BY <2>1, <2>3, NoCells, Constants
  <2> QED
    BY <1>3, <1>4, <1>11, <2>1, <2>3, <2>4 DEF WroteTyped, WriteTyped
<1> HIDE DEF failed, next, short, sent
<1> QED
  BY <1>5, <1>12, <1>13, <1>14, <1>15

LEMMA WritePassOK ==
    ASSUME NEW x, WriteTyped(x), ~x.stop, ~x.save.error, Len(x.w.buffer) < Cap,
           ~x.finish => x.written = 0 /\ x.size # 0,
           x.finish => (x.w.ended => x.w.buffer = <<>>)
    PROVE  Wrote(x, WritePass(x))
<1> DEFINE step == Compress(x.w, x.in, x.finish)
           result == step.w.result
           wrote == IF step.in = <<>> \/ result = "End" THEN x.size - Len(step.in) ELSE x.written
           stopped == result = "End" \/ (wrote = x.size /\ ~x.finish)
           next == [x EXCEPT !.w = step.w, !.in = step.in, !.written = wrote, !.stop = stopped]
           flush == Room(step.w) = 0 \/ result = "End" \/ x.finish
           write == SaveWrite(x.save, step.w.buffer)
           short == [next EXCEPT !.save = write.save, !.written = 0, !.stop = TRUE]
           sent == [next EXCEPT !.save = write.save, !.w.buffer = <<>>]
<1>1. /\ x \in WriteTurn /\ x.w \in Filters /\ x.save \in SaveFiles /\ x.in \in Seq(Cell)
      /\ x.size \in Nat /\ x.written \in Nat /\ x.finish \in BOOLEAN /\ x.stop \in BOOLEAN
      /\ Len(x.in) <= x.size /\ (x.finish => x.in = <<>>) /\ Len(x.w.buffer) <= Cap
  BY DEF WriteTyped, WriteTurn
<1>2. Compressed(x.w, x.in, x.finish, step)
  BY <1>1, CompressTypes
<1>3. GetsOn(x.w, x.in, x.finish, step)
  BY <1>1, CompressOK
<1> HIDE DEF step
<1>4. /\ step.w \in Filters /\ Len(step.w.buffer) <= Cap /\ step.in \in Seq(Cell)
      /\ step.w.ended = x.finish /\ step.w.buffer \in Seq(Cell)
      /\ step.w.pending \in Seq(Cell) /\ step.w.result \in {"Ok", "End", "Error"}
  BY <1>2 DEF Compressed, Filters
<1>5. /\ write.save \in SaveFiles /\ x.save.error \in BOOLEAN
      /\ write.save.error <=> x.save.error \/ write.written # Len(step.w.buffer)
      /\ ~write.save.error => Sent(write.save) = Sent(x.save) \o step.w.buffer
  BY <1>1, <1>4, SaveWriteOK DEF SaveFiles
<1> HIDE DEF write
<1>6. result # "Error"
  BY <1>3 DEF GetsOn
<1>7. WritePass(x) = IF ~flush THEN next
                     ELSE IF write.written # Len(step.w.buffer) THEN short ELSE sent
  BY <1>6 DEF WritePass, AfterCompress, step, write
<1>8. Len(step.in) \in Nat /\ Len(x.in) \in Nat
  BY <1>1, <1>4
<1>9. ~x.finish => /\ result = "Ok"
                   /\ stopped <=> step.in = <<>>
                   /\ ~stopped => wrote = 0
  <2> SUFFICES ASSUME ~x.finish
               PROVE  result = "Ok" /\ (stopped <=> step.in = <<>>) /\ (~stopped => wrote = 0)
    OBVIOUS
  <2>1. result = "Ok"
    BY <1>3 DEF GetsOn
  <2>2. CASE step.in = <<>>
    <3>1. wrote = x.size - 0
      BY <2>2, NoCells
    <3> QED
      BY <1>1, <2>1, <2>2, <3>1
  <2>3. CASE step.in # <<>>
    <3>1. wrote = x.written
      BY <2>1, <2>3
    <3> QED
      BY <1>1, <2>1, <2>3, <3>1
  <2> QED
    BY <2>1, <2>2, <2>3
<1>10. x.finish => (stopped <=> result = "End")
  OBVIOUS
<1>11. /\ next \in [w : Filters, save : SaveFiles, in : Seq(Cell), size : {next.size}, written : {wrote},
                    finish : BOOLEAN, stop : BOOLEAN]
       /\ next.w = step.w /\ next.in = step.in /\ next.save = x.save /\ next.finish = x.finish
       /\ next.written = wrote /\ next.stop = stopped
  <2>1. stopped \in BOOLEAN
    OBVIOUS
  <2> HIDE DEF wrote, stopped
  <2> QED
    BY <1>1, <1>4, <2>1 DEF WriteTurn
<1> HIDE DEF wrote, stopped
<1>12. CASE ~flush
  <2>1. /\ ~x.finish /\ Room(step.w) # 0 /\ Len(step.w.buffer) < Cap
        /\ WritePass(x) = next
    <3>1. ~x.finish /\ Room(step.w) # 0
      BY <1>12
    <3>2. Len(step.w.buffer) \in Nat /\ Len(step.w.buffer) # Cap
      BY <1>4, <3>1, Constants DEF Room
    <3> HIDE DEF next, flush
    <3> QED
      BY <1>4, <1>7, <1>12, <3>1, <3>2, Constants
  <2>2. step.in = <<>>
    <3>1. Len(step.w.buffer) # Cap
      BY <1>4, <2>1, Constants
    <3> QED
      BY <1>3, <2>1, <3>1 DEF GetsOn
  <2>3. next.stop /\ ~next.save.error
    BY <1>9, <1>11, <2>1, <2>2
  <2>4. Had(next) = Had(x)
    BY <1>3, <1>11 DEF GetsOn, Had
  <2> HIDE DEF next, flush
  <2>5. Wrote(x, next)
    BY <1>4, <1>9, <1>11, <2>1, <2>2, <2>3, <2>4 DEF Wrote
  <2> QED
    BY <2>1, <2>5
<1>13. CASE flush /\ write.written # Len(step.w.buffer)
  <2>1. WritePass(x) = short
    BY <1>7, <1>13
  <2>2. short.stop /\ short.save.error
    <3> HIDE DEF next
    <3> QED
      BY <1>5, <1>11, <1>13
  <2> HIDE DEF short, next, flush
  <2> QED
    BY <2>1, <2>2 DEF Wrote
<1>14. CASE flush /\ write.written = Len(step.w.buffer)
  <2> DEFINE clear == [step.w EXCEPT !.buffer = <<>>]
  <2>1. /\ clear \in Filters /\ clear.buffer = <<>> /\ clear.pending = step.w.pending
        /\ clear.result = step.w.result /\ clear.ended = step.w.ended
    BY <1>4, NoCells DEF Filters
  <2>2. sent = [next EXCEPT !.save = write.save, !.w = clear]
    <3> HIDE DEF next
    <3> QED
      BY <1>11
  <2> HIDE DEF clear, sent
  <2>3. sent.w = clear /\ sent.in = step.in /\ sent.save = write.save
          /\ sent.finish = x.finish /\ sent.stop = stopped /\ sent.written = wrote
    <3> HIDE DEF next
    <3> QED
      BY <1>11, <2>2
  <2>4. WritePass(x) = sent
    <3> HIDE DEF next, flush, short
    <3> QED
      BY <1>7, <1>14
  <2> HIDE DEF next, flush, short
  <2>5. ~write.save.error => Had(sent) = Had(x)
    <3> SUFFICES ASSUME ~write.save.error PROVE Had(sent) = Had(x)
      OBVIOUS
    <3> DEFINE S == CellsOf(Sent(x.save))
               B == CellsOf(step.w.buffer)
               P == CellsOf(step.w.pending)
               I == CellsOf(step.in)
    <3>1. Sent(x.save) \in Seq(Cell)
      BY <1>1 DEF Sent, SaveFiles
    <3>2. S \in Seq(Cell) /\ B \in Seq(Cell) /\ P \in Seq(Cell) /\ I \in Seq(Cell)
      BY <1>4, <3>1, CellsOfType
    <3>3. CellsOf(Sent(sent.save)) = S \o B
      <4>1. CellsOf(Sent(x.save) \o step.w.buffer) = CellsOf(Sent(x.save)) \o CellsOf(step.w.buffer)
        BY <1>4, <3>1, CellsOfConcat
      <4> QED
        BY <1>5, <2>3, <4>1
    <3>4. Carried(sent.w, sent.in) = (<<>> \o P) \o I
      BY <2>1, <2>3, NoneOfNone DEF Carried
    <3>5. Had(x) = S \o ((B \o P) \o I)
      BY <1>3 DEF GetsOn, Had, Carried
    <3> HIDE DEF S, B, P, I
    <3>6. <<>> \o P = P
      BY <3>2
    <3>7. S \o ((B \o P) \o I) = (S \o B) \o (P \o I)
      <4>1. (B \o P) \o I = B \o (P \o I)
        BY <3>2, Associative
      <4> DEFINE J == P \o I
      <4>2. J \in Seq(Cell)
        BY <3>2
      <4> HIDE DEF J
      <4>3. S \o (B \o J) = (S \o B) \o J
        BY <3>2, <4>2, Associative
      <4> QED
        BY <4>1, <4>3 DEF J
    <3> QED
      BY <3>3, <3>4, <3>5, <3>6, <3>7 DEF Had
  <2>6. Len(sent.w.buffer) < Cap
    BY <2>1, <2>3, NoCells, Constants
  <2>7. write.save.error \in BOOLEAN
    BY <1>5 DEF SaveFiles
  <2>9. ~write.save.error
    BY <1>5, <1>14
  <2>10. ~x.finish => /\ sent.w.result = "Ok" /\ ~sent.w.ended
                      /\ sent.stop => sent.in = <<>>
                      /\ ~sent.stop => sent.written = 0
                            /\ Len(sent.w.pending) + Len(sent.in) < Len(x.w.pending) + Len(x.in)
    BY <1>3, <1>4, <1>9, <2>1, <2>3 DEF GetsOn
  <2>11. x.finish => /\ sent.w.buffer = <<>>
                     /\ sent.stop => sent.w.pending = <<>>
                     /\ ~sent.stop => sent.w.result = "Ok" /\ Unfinished(sent.w) < Unfinished(x.w)
    <3> SUFFICES ASSUME x.finish
                 PROVE  /\ sent.w.buffer = <<>>
                        /\ sent.stop => sent.w.pending = <<>>
                        /\ ~sent.stop => sent.w.result = "Ok" /\ Unfinished(sent.w) < Unfinished(x.w)
      OBVIOUS
    <3>1. sent.stop <=> result = "End"
      BY <1>10, <2>3
    <3>2. result = "End" => step.w.pending = <<>>
      BY <1>3 DEF GetsOn
    <3>3. result # "End" => result = "Ok" /\ Unfinished(step.w) < Unfinished(x.w)
      BY <1>3, <1>4, <1>6 DEF GetsOn
    <3>4. Unfinished(sent.w) = Unfinished(step.w)
      BY <2>1, <2>3 DEF Unfinished
    <3> QED
      BY <2>1, <2>3, <3>1, <3>2, <3>3, <3>4
  <2> QED
    BY <2>3, <2>4, <2>5, <2>6, <2>9, <2>10, <2>11 DEF Wrote
<1> QED
  BY <1>12, <1>13, <1>14

Headed(v, finish) ==
    IF finish \/ ~v.needHeader THEN v
    ELSE [v EXCEPT !.needHeader = FALSE,
                   !.headerWritten = v.kind = "gzip",
                   !.buffer = IF v.kind = "gzip" THEN @ \o <<"header">> ELSE @]

LEMMA HeadedOK ==
    ASSUME NEW v \in Filters, Len(v.buffer) <= Cap, NEW finish \in BOOLEAN,
           ~finish => (v.needHeader => v.buffer = <<>>)
    PROVE  /\ Headed(v, finish) \in Filters /\ Len(Headed(v, finish).buffer) <= Cap
           /\ CellsOf(Headed(v, finish).buffer) = CellsOf(v.buffer)
           /\ Headed(v, finish).pending = v.pending /\ Headed(v, finish).ended = v.ended
           /\ Headed(v, finish).result = v.result
           /\ ~finish => ~Headed(v, finish).needHeader
           /\ Len(v.buffer) < Cap => Len(Headed(v, finish).buffer) < Cap
<1>1. CASE finish \/ ~v.needHeader
  BY <1>1 DEF Headed
<1>2. CASE ~finish /\ v.needHeader
  <2> DEFINE b == IF v.kind = "gzip" THEN v.buffer \o <<"header">> ELSE v.buffer
             h == [v EXCEPT !.needHeader = FALSE, !.headerWritten = v.kind = "gzip", !.buffer = b]
  <2>1. v.buffer = <<>>
    BY <1>2
  <2>2. "header" \in Cell /\ "header" \in Mark
    BY Constants DEF Mark
  <2>3. b = IF v.kind = "gzip" THEN <<"header">> ELSE <<>>
    BY <2>1, <2>2
  <2> HIDE DEF b
  <2>4. b \in Seq(Cell) /\ Len(b) <= 1 /\ Len(b) \in Nat /\ \A i \in 1..Len(b) : b[i] \in Mark
    BY <2>2, <2>3
  <2>5. CellsOf(b) = <<>> /\ CellsOf(v.buffer) = <<>>
    BY <2>1, <2>4, CellsOfMarks, NoneOfNone
  <2>6. /\ h \in Filters /\ h.buffer = b /\ h.pending = v.pending /\ h.ended = v.ended
        /\ h.result = v.result /\ h.needHeader = FALSE
    BY <2>4 DEF Filters
  <2>7. Headed(v, finish) = h
    BY <1>2 DEF Headed, b
  <2> HIDE DEF h
  <2> QED
    BY <2>4, <2>5, <2>6, <2>7, Constants
<1> QED
  BY <1>1, <1>2

LEMMA LeftIsNat ==
    ASSUME NEW v \in Filters, NEW in \in Seq(Cell)
    PROVE  Unfinished(v) \in Nat /\ Len(v.pending) + Len(in) \in Nat
<1> DEFINE p == Len(v.pending)
           i == Len(in)
<1>1. p \in Nat /\ i \in Nat
  BY DEF Filters
<1>2. Unfinished(v) = p + IF v.ended THEN 0 ELSE 1
  BY DEF Unfinished
<1> HIDE DEF p, i
<1>3. Unfinished(v) \in Nat /\ p + i \in Nat
  BY <1>1, <1>2
<1> QED
  BY <1>3 DEF p, i

WroteData(v, s, data, finish, e) ==
    /\ e.w \in Filters /\ Len(e.w.buffer) <= Cap
    /\ e.save \in SaveFiles /\ (s.error => e.save.error)
    /\ ~finish => (e.w.needHeader => e.w.buffer = <<>>)
    /\ v.result = "Ok" /\ ~v.ended /\ Len(v.buffer) < Cap /\ ~e.save.error =>
          /\ ~finish => /\ e.w.result = "Ok" /\ ~e.w.ended /\ Len(e.w.buffer) < Cap
                        /\ CellsOf(Sent(e.save)) \o Carried(e.w, <<>>)
                             = CellsOf(Sent(s)) \o Carried(v, data)
          /\ finish => CellsOf(Sent(e.save)) = CellsOf(Sent(s)) \o Carried(v, <<>>)

LEMMA WriteDataOK ==
    ASSUME NEW v \in Filters, Len(v.buffer) <= Cap, NEW s \in SaveFiles,
           NEW data \in Seq(Cell), NEW finish \in BOOLEAN,
           finish => data = <<>>, ~finish => data # <<>> /\ (v.needHeader => v.buffer = <<>>)
    PROVE  WroteData(v, s, data, finish, WriteData(v, s, data, finish))
<1> DEFINE h == Headed(v, finish)
           start == [w |-> h, save |-> s, in |-> data, size |-> Len(data), written |-> 0,
                     finish |-> finish, stop |-> FALSE]
           L == Len(data) + Len(v.pending) + Cap + 4
           e == WriteData(v, s, data, finish)
<1>1. /\ h \in Filters /\ Len(h.buffer) <= Cap /\ CellsOf(h.buffer) = CellsOf(v.buffer)
      /\ h.pending = v.pending /\ h.ended = v.ended /\ h.result = v.result
      /\ ~finish => ~h.needHeader
      /\ Len(v.buffer) < Cap => Len(h.buffer) < Cap
  BY HeadedOK
<1>2. e = IF v.result # "Ok" THEN [start EXCEPT !.w = v] ELSE Iterate(WritePass, start, L)
  BY DEF WriteData, Headed
<1> HIDE DEF h, e
<1>3. /\ start \in WriteTurn /\ start.w = h /\ start.save = s /\ start.in = data
      /\ start.size = Len(data) /\ start.written = 0 /\ start.finish = finish /\ start.stop = FALSE
  BY <1>1 DEF WriteTurn
<1>4. CASE v.result # "Ok"
  <2> DEFINE t == [start EXCEPT !.w = v]
  <2>1. t.w = v /\ t.save = s
    OBVIOUS
  <2>2. e = t
    BY <1>2, <1>4
  <2> HIDE DEF t, start
  <2> QED
    BY <1>4, <2>1, <2>2 DEF WroteData, e
<1> HIDE DEF start
<1>5. CASE v.result = "Ok"
  <2> DEFINE V1 == {x \in WriteTurn : /\ WriteTyped(x) /\ x.finish = finish
                                      /\ x.w.needHeader = h.needHeader
                                      /\ s.error => x.save.error}
  <2>1. e = Iterate(WritePass, start, L)
    BY <1>2, <1>5
  <2>2. Len(data) \in Nat /\ Len(v.pending) \in Nat /\ Cap \in Nat
    BY Constants DEF Filters
  <2>3. L \in Nat /\ Len(data) + Len(v.pending) < L /\ Len(v.pending) + 1 < L
    BY <2>2
  <2> HIDE DEF L
  <2>4. start \in V1
    BY <1>1, <1>3, <2>2 DEF WriteTyped
  <2>5. \A x \in V1 : WritePass(x) \in V1 /\ WroteTyped(x, WritePass(x))
    <3>1. TAKE x \in V1
    <3>2. WriteTyped(x)
      OBVIOUS
    <3>3. WroteTyped(x, WritePass(x))
      BY <3>2, WritePassTypes
    <3>4. WritePass(x) \in WriteTurn
      BY <3>3 DEF WroteTyped, WriteTyped
    <3> QED
      BY <3>3, <3>4 DEF WroteTyped
  <2>6. Iterate(WritePass, start, L) \in V1
    <3>1. \A x \in V1 : ~x.stop => WritePass(x) \in V1
      BY <2>5
    <3> HIDE DEF V1
    <3> QED
      BY <2>3, <2>4, <3>1, WriteLoopStays
  <2>7. /\ e.w \in Filters /\ Len(e.w.buffer) <= Cap /\ e.save \in SaveFiles
        /\ s.error => e.save.error
        /\ ~finish => (e.w.needHeader => e.w.buffer = <<>>)
    BY <1>1, <2>1, <2>6 DEF WriteTyped, WriteTurn
  <2>8. ASSUME ~v.ended, Len(v.buffer) < Cap, ~e.save.error
        PROVE  /\ ~finish => /\ e.w.result = "Ok" /\ ~e.w.ended /\ Len(e.w.buffer) < Cap
                             /\ CellsOf(Sent(e.save)) \o Carried(e.w, <<>>)
                                  = CellsOf(Sent(s)) \o Carried(v, data)
               /\ finish => CellsOf(Sent(e.save)) = CellsOf(Sent(s)) \o Carried(v, <<>>)
    <3> DEFINE goal == CellsOf(Sent(s)) \o Carried(v, data)
               Sound(x) ==
                   /\ x.save.error => x.stop
                   /\ ~x.save.error =>
                        /\ Had(x) = goal /\ Len(x.w.buffer) < Cap
                        /\ ~finish => /\ x.w.result = "Ok" /\ ~x.w.ended
                                      /\ x.stop => x.in = <<>>
                                      /\ ~x.stop => x.written = 0
                        /\ finish => /\ x.w.ended => x.w.buffer = <<>>
                                     /\ x.stop => x.w.buffer = <<>> /\ x.w.pending = <<>>
               V2 == {x \in V1 : x.size = Len(data) /\ Sound(x)}
               left(x) == IF finish THEN Unfinished(x.w) ELSE Len(x.w.pending) + Len(x.in)
               mu == [x \in V2 |-> left(x)]
    <3>1. ~s.error
      BY <2>7, <2>8
    <3>2. start \in V2
      <4>1. Had(start) = goal
        BY <1>1, <1>3 DEF Had, Carried
      <4> HIDE DEF goal, V1
      <4>2. Sound(start)
        BY <1>1, <1>3, <1>5, <2>8, <3>1, <4>1
      <4> HIDE DEF Sound
      <4> QED
        BY <1>3, <2>4, <4>2
    <3>3. \A x \in V2 : ~x.stop => /\ WritePass(x) \in V2
                                   /\ WritePass(x).stop \/ left(WritePass(x)) < left(x)
      <4> SUFFICES ASSUME NEW x \in V2, ~x.stop
                   PROVE  /\ WritePass(x) \in V2
                          /\ WritePass(x).stop \/ left(WritePass(x)) < left(x)
        OBVIOUS
      <4> DEFINE y == WritePass(x)
      <4>1. x \in V1 /\ x.size = Len(data) /\ Sound(x)
        OBVIOUS
      <4>2. WroteTyped(x, y) /\ y \in V1
        BY <2>5, <4>1
      <4>3. x.finish = finish /\ WriteTyped(x)
        BY <4>1
      <4>4. ~finish => x.size # 0
        <5>1. ~finish => Len(data) # 0
          OBVIOUS
        <5> HIDE DEF V1, Sound
        <5> QED
          BY <4>1, <5>1
      <4> HIDE DEF V1, V2, goal
      <4>5. Wrote(x, y)
        <5>1. ~x.save.error
          BY <4>1
        <5>2. /\ Had(x) = goal /\ Len(x.w.buffer) < Cap
              /\ ~finish => x.written = 0
              /\ finish => (x.w.ended => x.w.buffer = <<>>)
          BY <4>1, <5>1
        <5> HIDE DEF Sound, left, mu, y
        <5> QED
          BY <4>3, <4>4, <5>1, <5>2, WritePassOK DEF y
      <4>6. Had(x) = goal
        BY <4>1
      <4> HIDE DEF y
      <4>7. Sound(y)
        BY <4>3, <4>5, <4>6 DEF Wrote
      <4>8. y.size = Len(data)
        BY <4>1, <4>2 DEF WroteTyped
      <4>9. y \in V2
        <5> HIDE DEF Sound
        <5> QED
          BY <4>2, <4>7, <4>8 DEF V2
      <4>10. y.stop \/ left(y) < left(x)
        BY <4>3, <4>5, <4>7 DEF Wrote
      <4> QED
        BY <4>9, <4>10 DEF y
    <3>4. mu \in [V2 -> Nat]
      <4>1. \A x \in V2 : left(x) \in Nat
        <5>1. TAKE x \in V2
        <5>4. Unfinished(x.w) \in Nat /\ Len(x.w.pending) + Len(x.in) \in Nat
          <6>1. x.w \in Filters /\ x.in \in Seq(Cell)
            BY DEF WriteTurn
          <6> HIDE DEF V2, left
          <6> QED
            BY <6>1, LeftIsNat
        <5> HIDE DEF V2
        <5> QED
          BY <5>4
      <4> HIDE DEF left, V2
      <4> QED
        BY <4>1
    <3>5. mu[start] < L
      <4>1. left(start) < L
        <5> HIDE DEF V1, V2, Sound, goal, mu
        <5>1. Unfinished(start.w) = Len(v.pending) + 1
          BY <1>1, <1>3, <2>8 DEF Unfinished
        <5>2. Len(start.w.pending) + Len(start.in) = Len(v.pending) + Len(data)
          BY <1>1, <1>3
        <5>3. Len(v.pending) + Len(data) = Len(data) + Len(v.pending)
          BY <2>2
        <5> QED
          BY <2>3, <5>1, <5>2, <5>3
      <4> HIDE DEF left, V2
      <4> QED
        BY <3>2, <4>1
    <3>6. \A x \in V2 : ~x.stop => WritePass(x).stop \/ mu[WritePass(x)] < mu[x]
      <4> HIDE DEF left, V2
      <4> QED
        BY <3>3
    <3>7. \A x \in V2 : ~x.stop => WritePass(x) \in V2
      BY <3>3
    <3>8. e.stop /\ e \in V2
      <4> HIDE DEF mu, V2
      <4>1. Iterate(WritePass, start, L).stop
        BY <2>3, <3>2, <3>4, <3>5, <3>6, <3>7, WriteLoopEnds
      <4>2. Iterate(WritePass, start, L) \in V2
        BY <2>3, <3>2, <3>7, WriteLoopStays
      <4> QED
        BY <2>1, <4>1, <4>2
    <3>9. Sound(e) /\ Had(e) = goal
      BY <2>8, <3>8
    <3>10. CASE ~finish
      <4>1. e.in = <<>> /\ e.w.result = "Ok" /\ ~e.w.ended /\ Len(e.w.buffer) < Cap
        BY <2>8, <3>8, <3>9, <3>10
      <4> HIDE DEF Sound, V1, V2, mu, left
      <4> QED
        BY <3>9, <3>10, <4>1 DEF Had
    <3>11. CASE finish
      <4>1. e.w.buffer = <<>> /\ e.w.pending = <<>>
        BY <2>8, <3>8, <3>9, <3>11
      <4>2. e.in = <<>>
        BY <3>8, <3>11 DEF WriteTyped
      <4>3. data = <<>>
        BY <3>11
      <4> HIDE DEF Sound, V1, V2, mu, left
      <4>4. CellsOf(Sent(e.save)) \in Seq(Cell)
        <5>1. Sent(e.save) \in Seq(Cell)
          BY <2>7 DEF Sent, SaveFiles
        <5> QED
          BY <5>1, CellsOfType
      <4>5. Carried(e.w, e.in) = <<>>
        BY <4>1, <4>2, NoneOfNone, NoCells DEF Carried
      <4>6. Had(e) = CellsOf(Sent(e.save))
        BY <4>4, <4>5 DEF Had
      <4> QED
        BY <3>9, <3>11, <4>3, <4>6
    <3> QED
      BY <3>10, <3>11
  <2> HIDE DEF V1
  <2> QED
    BY <2>7, <2>8 DEF WroteData, e
<1> QED
  BY <1>4, <1>5

-----------------------------------------------------------------------------
(* A writer: what has been written is in the save file or with the device, *)
(* unless the save file has failed.                                        *)
Writing ==
    /\ w \in Filters /\ Len(w.buffer) <= Cap
    /\ w.needHeader => w.buffer = <<>>
    /\ \/ save.error
       \/ /\ w.result = "Ok" /\ ~w.ended /\ Len(w.buffer) < Cap
          /\ CellsOf(Sent(save)) \o Carried(w, <<>>) = written

WriterInv ==
    /\ phase \in {"none", "writing", "closing", "reading"}
    /\ file \in Seq(Cell) /\ save \in SaveFiles
    /\ written = SubSeq(Cells, 1, Len(written)) /\ Len(written) \in 0..Len(Cells)
    /\ phase = "writing" => Writing
    /\ phase = "closing" => save.error \/ CellsOf(Sent(save)) = written

LEMMA NothingWritten == <<>> = SubSeq(Cells, 1, Len(<<>>)) /\ Len(<<>>) \in 0..Len(Cells)
<1>1. Cells \in Seq(Cell) /\ Len(<<>>) = 0
  BY Constants
<1>2. SubSeq(Cells, 1, 0) = <<>>
  BY <1>1
<1> QED
  BY <1>1, <1>2

LEMMA NewSave ==
    ASSUME NEW room \in Nat
    PROVE  OpenSave(room) \in SaveFiles /\ Sent(OpenSave(room)) = <<>> /\ OpenSave(room).error = FALSE
<1>1. <<>> \in Seq(Cell) /\ <<>> \o <<>> = <<>>
  OBVIOUS
<1> QED
  BY <1>1 DEF OpenSave, SaveFiles, Sent

LEMMA NewFilter ==
    ASSUME NEW kind \in Kind \ {"none"}, NEW lazy \in BOOLEAN
    PROVE  /\ OpenFilter(kind, lazy) \in Filters /\ OpenFilter(kind, lazy).buffer = <<>>
           /\ OpenFilter(kind, lazy).result = "Ok" /\ OpenFilter(kind, lazy).ended = FALSE
           /\ Carried(OpenFilter(kind, lazy), <<>>) = <<>>
<1> DEFINE p == IF kind \in {"xz", "bzip2"} THEN <<"magic">> ELSE <<>>
           f == OpenFilter(kind, lazy)
<1>1. p \in Seq(Cell) /\ \A i \in 1..Len(p) : p[i] \in Mark
  <2>1. "magic" \in Cell /\ "magic" \in Mark
    BY Constants DEF Mark
  <2> QED
    BY <2>1
<1>2. f = [kind |-> kind, lazy |-> lazy, result |-> "Ok", needHeader |-> kind # "raw",
           headerWritten |-> FALSE, footerWritten |-> FALSE, stuck |-> FALSE, ended |-> FALSE,
           pending |-> p, buffer |-> <<>>]
  BY DEF OpenFilter
<1> HIDE DEF p, f
<1>3. CellsOf(p) = <<>>
  BY <1>1, CellsOfMarks
<1>4. f \in Filters /\ f.buffer = <<>> /\ f.result = "Ok" /\ f.ended = FALSE /\ f.pending = p
  BY <1>1, <1>2, NoCells DEF Filters
<1>5. Carried(f, <<>>) = <<>>
  BY <1>3, <1>4, NoneOfNone, NoCells DEF Carried
<1> QED
  BY <1>4, <1>5 DEF f

(* What is written next. *)
LEMMA NextCells ==
    ASSUME NEW k \in Nat, NEW n \in Nat \ {0}, k + n <= Len(Cells)
    PROVE  LET data == SubSeq(Cells, k + 1, k + n)
           IN  /\ data \in Seq(Cell) /\ data # <<>> /\ CellsOf(data) = data
               /\ SubSeq(Cells, 1, k) \o data = SubSeq(Cells, 1, k + n)
               /\ Len(SubSeq(Cells, 1, k + n)) = k + n /\ Len(SubSeq(Cells, 1, k)) = k
<1> DEFINE data == SubSeq(Cells, k + 1, k + n)
<1>1. Cells \in Seq(Cell) /\ Len(Cells) \in Nat /\ \A i \in 1..Len(Cells) : Cells[i] \in Cell \ Mark
  BY Constants
<1>2. /\ data \in Seq(Cell) /\ Len(data) = n
      /\ \A i \in 1..n : data[i] = Cells[k + i]
  BY <1>1
<1>3. data # <<>>
  BY <1>2, NoCells
<1>4. \A i \in 1..n : data[i] \notin Mark
  BY <1>1, <1>2
<1>5. SubSeq(Cells, 1, k) \o data = SubSeq(Cells, 1, k + n)
  <2>1. 1 \in 1..(Len(Cells) + 1) /\ k \in (1 - 1)..Len(Cells) /\ k + n \in k..Len(Cells)
    BY <1>1
  <2> QED
    BY <1>1, <2>1, ConcatAdjacentSubSeq
<1>6. Len(SubSeq(Cells, 1, k + n)) = k + n /\ Len(SubSeq(Cells, 1, k)) = k
  BY <1>1
<1> HIDE DEF data
<1>7. CellsOf(data) = data
  BY <1>2, <1>4, CellsOfData
<1> QED
  BY <1>2, <1>3, <1>5, <1>6, <1>7 DEF data

LEMMA WriterInit == Init => WriterInv
<1> SUFFICES ASSUME Init PROVE WriterInv
  OBVIOUS
<1>1. file \in Seq(Cell)
  BY Constants DEF Init
<1>2. save \in SaveFiles /\ written = <<>> /\ phase = "none"
  BY NewSave DEF Init, NoSave
<1> QED
  BY <1>1, <1>2, NothingWritten DEF WriterInv

LEMMA WriterGoneOK ==
    ASSUME WriterGone, file' \in Seq(Cell)
    PROVE  WriterInv'
<1>1. save' \in SaveFiles /\ written' = <<>> /\ phase' = "none"
  BY NewSave DEF WriterGone, NoSave
<1> QED
  BY <1>1, NothingWritten DEF WriterInv

LEMMA WriteOK ==
    ASSUME WriterInv, NEW n \in WriteSize, Write(n, FALSE)
    PROVE  /\ WriterInv'
           /\ phase = "writing" /\ phase' = "writing" /\ file' = file
           /\ Len(written') = Len(written) + n /\ SubSeq(written', 1, Len(written)) = written
<1> DEFINE k == Len(written)
           data == SubSeq(Cells, k + 1, k + n)
           e == WriteData(w, save, data, FALSE)
<1>1. /\ phase = "writing" /\ k + n <= Len(Cells) /\ phase' = phase /\ file' = file
      /\ w' = e.w /\ save' = e.save /\ written' = written \o data
  BY DEF Write
<1>2. /\ written = SubSeq(Cells, 1, k) /\ k \in Nat /\ n \in Nat \ {0} /\ Writing
      /\ file \in Seq(Cell) /\ save \in SaveFiles
  BY <1>1, Constants DEF WriterInv
<1>3. /\ data \in Seq(Cell) /\ data # <<>> /\ CellsOf(data) = data
      /\ SubSeq(Cells, 1, k) \o data = SubSeq(Cells, 1, k + n)
      /\ Len(SubSeq(Cells, 1, k + n)) = k + n /\ Len(SubSeq(Cells, 1, k)) = k
  BY <1>1, <1>2, NextCells
<1> HIDE DEF data
<1>4. WroteData(w, save, data, FALSE, e)
  BY <1>2, <1>3, WriteDataOK DEF Writing
<1> HIDE DEF e
<1>5. written' = SubSeq(Cells, 1, k + n) /\ Len(written') = k + n
  BY <1>1, <1>2, <1>3
<1>6. SubSeq(written', 1, k) = written
  <2>1. Cells \in Seq(Cell) /\ k \in 0..Len(Cells) /\ k + n \in 0..Len(Cells) /\ k <= k + n
    BY <1>1, <1>2, Constants
  <2>2. SubSeq(SubSeq(Cells, 1, k + n), 1, k) = SubSeq(Cells, 1, k)
    <3> DEFINE a == SubSeq(Cells, 1, k + n)
               b == SubSeq(Cells, 1, k)
               c == SubSeq(a, 1, k)
    <3>1. a \in Seq(Cell) /\ Len(a) = k + n /\ \A i \in 1..(k + n) : a[i] = Cells[i]
      BY <1>2, <2>1
    <3>2. b \in Seq(Cell) /\ Len(b) = k /\ \A i \in 1..k : b[i] = Cells[i]
      BY <1>2, <2>1
    <3> HIDE DEF a, b
    <3>3. c \in Seq(Cell) /\ Len(c) = k /\ \A i \in 1..k : c[i] = a[i]
      BY <1>2, <3>1
    <3>4. \A i \in 1..k : i \in 1..(k + n)
      BY <1>2
    <3>5. \A i \in 1..k : c[i] = b[i]
      BY <3>1, <3>2, <3>3, <3>4
    <3> HIDE DEF c
    <3>6. c = b
      BY <3>2, <3>3, <3>5, SeqEqual
    <3> QED
      BY <3>6 DEF a, b, c
  <2> QED
    BY <1>2, <1>5, <2>2
<1>7. ASSUME ~save'.error
      PROVE  CellsOf(Sent(save')) \o Carried(w', <<>>) = written'
                /\ w'.result = "Ok" /\ ~w'.ended /\ Len(w'.buffer) < Cap
  <2>1. ~save.error
    BY <1>1, <1>4, <1>7 DEF WroteData
  <2>2. /\ w.result = "Ok" /\ ~w.ended /\ Len(w.buffer) < Cap /\ w \in Filters
        /\ CellsOf(Sent(save)) \o Carried(w, <<>>) = written
    BY <1>2, <2>1 DEF Writing
  <2>3. /\ w'.result = "Ok" /\ ~w'.ended /\ Len(w'.buffer) < Cap
        /\ CellsOf(Sent(save')) \o Carried(w', <<>>) = CellsOf(Sent(save)) \o Carried(w, data)
    BY <1>1, <1>4, <1>7, <2>2 DEF WroteData
  <2> DEFINE S == CellsOf(Sent(save))
             C == CellsOf(w.buffer) \o CellsOf(w.pending)
  <2>4. S \in Seq(Cell) /\ C \in Seq(Cell)
    <3>1. Sent(save) \in Seq(Cell) /\ w.buffer \in Seq(Cell) /\ w.pending \in Seq(Cell)
      BY <1>2, <2>2 DEF Sent, SaveFiles, Filters
    <3>2. CellsOf(Sent(save)) \in Seq(Cell) /\ CellsOf(w.buffer) \in Seq(Cell) /\ CellsOf(w.pending) \in Seq(Cell)
      BY <3>1, CellsOfType
    <3> QED
      BY <3>2, LenOfConcat
  <2>5. Carried(w, data) = C \o data /\ Carried(w, <<>>) = C \o <<>>
    BY <1>3, NoneOfNone DEF Carried
  <2> HIDE DEF S, C
  <2>6. C \o <<>> = C
    BY <2>4
  <2>7. S \o (C \o data) = (S \o C) \o data
    BY <1>3, <2>4, Associative
  <2>8. S \o C = written
    BY <2>2, <2>5, <2>6 DEF S
  <2> QED
    BY <1>1, <2>3, <2>5, <2>7, <2>8 DEF S
<1>8. w' \in Filters /\ Len(w'.buffer) <= Cap /\ (w'.needHeader => w'.buffer = <<>>) /\ save' \in SaveFiles
  BY <1>1, <1>4 DEF WroteData
<1>9. Writing'
  BY <1>7, <1>8 DEF Writing
<1>10. k + n \in 0..Len(Cells)
  BY <1>1, <1>2
<1>11. WriterInv'
  BY <1>1, <1>2, <1>5, <1>8, <1>9, <1>10 DEF WriterInv
<1> QED
  BY <1>1, <1>5, <1>6, <1>11

LEMMA CloseOK ==
    ASSUME WriterInv, CloseDevice
    PROVE  WriterInv'
<1> DEFINE e == WriteData(w, save, <<>>, TRUE)
<1>1. /\ phase = "writing" /\ phase' = "closing" /\ w' = e.w /\ save' = e.save
      /\ written' = written /\ file' = file
  BY DEF CloseDevice
<1>2. /\ written = SubSeq(Cells, 1, Len(written)) /\ Len(written) \in 0..Len(Cells) /\ Writing
      /\ file \in Seq(Cell) /\ save \in SaveFiles
  BY <1>1 DEF WriterInv
<1>3. WroteData(w, save, <<>>, TRUE, e)
  BY <1>2, NoCells, WriteDataOK DEF Writing
<1> HIDE DEF e
<1>4. save' \in SaveFiles /\ (save.error => save'.error)
  BY <1>1, <1>3 DEF WroteData
<1>5. ~save'.error => CellsOf(Sent(save')) = written
  BY <1>1, <1>2, <1>3, <1>4 DEF WroteData, Writing
<1> QED
  BY <1>1, <1>2, <1>4, <1>5 DEF WriterInv

LEMMA CommitOK ==
    ASSUME WriterInv, NEW renamed \in BOOLEAN, CommitSave(renamed)
    PROVE  WriterInv'
<1>1. save \in SaveFiles /\ file \in Seq(Cell)
  BY DEF WriterInv
<1>2. Flush(save).file \in Seq(Cell)
  BY <1>1, FlushOK DEF SaveFiles
<1>3. file' \in Seq(Cell)
  BY <1>1, <1>2 DEF CommitSave, Commit
<1> QED
  BY <1>3, WriterGoneOK DEF CommitSave

LEMMA WriterStep == WriterInv /\ [Next]_vars => WriterInv'
<1> SUFFICES ASSUME WriterInv, [Next]_vars PROVE WriterInv'
  OBVIOUS
<1>0. file \in Seq(Cell) /\ save \in SaveFiles
  BY DEF WriterInv
<1>1. ASSUME NEW kind \in WriteKind, NEW lazy \in BOOLEAN, NEW room \in DiskRoom,
             OpenToWrite(kind, lazy, room)
      PROVE  WriterInv'
  <2>1. kind \in Kind \ {"none"} /\ room \in Nat
    BY Constants
  <2>2. /\ phase' = "writing" /\ w' = OpenFilter(kind, lazy) /\ save' = OpenSave(room)
        /\ written' = <<>> /\ file' = file
    BY <1>1 DEF OpenToWrite
  <2>3. save' \in SaveFiles /\ Sent(save') = <<>> /\ ~save'.error
    BY <2>1, <2>2, NewSave
  <2>4. /\ w' \in Filters /\ w'.buffer = <<>> /\ w'.result = "Ok" /\ ~w'.ended
        /\ Carried(w', <<>>) = <<>>
    BY <2>1, <2>2, NewFilter
  <2>5. CellsOf(Sent(save')) \o Carried(w', <<>>) = written'
    <3>1. <<>> \o <<>> = <<>>
      OBVIOUS
    <3> QED
      BY <2>2, <2>3, <2>4, <3>1, NoneOfNone
  <2>6. Writing'
    BY <2>4, <2>5, NoCells, Constants DEF Writing
  <2> QED
    BY <1>0, <2>2, <2>3, <2>6, NothingWritten DEF WriterInv
<1>2. ASSUME NEW n \in WriteSize, NEW givesUp \in BOOLEAN, Write(n, givesUp) PROVE WriterInv'
  <2>1. CASE givesUp
    BY <1>0, <1>2, <2>1, WriterGoneOK DEF Write
  <2>2. CASE ~givesUp
    <3>1. Write(n, FALSE)
      BY <1>2, <2>2 DEF Write
    <3> QED
      BY <3>1, WriteOK
  <2> QED
    BY <2>1, <2>2
<1>3. CASE CloseDevice
  BY <1>3, CloseOK
<1>4. ASSUME NEW renamed \in BOOLEAN, CommitSave(renamed) PROVE WriterInv'
  BY <1>4, CommitOK
<1>5. CASE DiskFreed
  <2>1. save' \in SaveFiles /\ save'.file = save.file /\ save'.held = save.held /\ save'.error = save.error
    <3>1. Len(Cells) + Cap \in Nat
      BY Constants
    <3> QED
      BY <1>0, <1>5, <3>1 DEF DiskFreed, SaveFiles
  <2>2. Sent(save') = Sent(save)
    BY <2>1 DEF Sent
  <2>3. phase' = phase /\ file' = file /\ w' = w /\ written' = written
    BY <1>5 DEF DiskFreed
  <2> QED
    BY <2>1, <2>2, <2>3 DEF WriterInv, Writing
<1>6. CASE Crash
  BY <1>0, <1>6, WriterGoneOK DEF Crash
<1>7. ASSUME UNCHANGED <<file, writerVars>>, phase' = "reading" \/ phase' = "none" PROVE WriterInv'
  BY <1>7 DEF WriterInv, writerVars
<1>8. ASSUME NEW kind \in ReadKind, OpenToRead(kind) PROVE WriterInv'
  BY <1>7, <1>8 DEF OpenToRead
<1>9. ASSUME NEW n \in ReadSize, Read(n) PROVE WriterInv'
  BY <1>7, <1>9 DEF Read
<1>10. CASE ReadAgain
  BY <1>7, <1>10 DEF ReadAgain
<1>11. ASSUME NEW pos \in SeekPos, SeekTo(pos) PROVE WriterInv'
  BY <1>7, <1>11 DEF SeekTo
<1>12. CASE CloseReader
  BY <1>7, <1>12 DEF CloseReader
<1>13. CASE UNCHANGED vars
  BY <1>13 DEF vars, WriterInv, Writing
<1> QED
  BY <1>1, <1>2, <1>3, <1>4, <1>5, <1>6, <1>8, <1>9, <1>10, <1>11, <1>12, <1>13 DEF Next

-----------------------------------------------------------------------------
(* The writer, however it is told to go on and whatever the disk takes:    *)
(* what is in the save file, in the buffers and in the library together is *)
(* the data that was given to write(), or an error is known.               *)
THEOREM WriterKeeps == Spec => []WriterInv
<1>1. Init => WriterInv
  BY WriterInit
<1>2. WriterInv /\ [Next]_vars => WriterInv'
  BY WriterStep
<1> QED
  BY <1>1, <1>2, PTL DEF Spec

Draft == IF phase \in {"writing", "closing"} THEN <<written>> ELSE <<>>

LEMMA PartOf ==
    ASSUME NEW a \in Seq(Cell), NEW b \in Seq(Cell)
    PROVE  a = SubSeq(a \o b, 1, Len(a)) /\ Len(a) \in 0..Len(a \o b)
<1> DEFINE c == a \o b
<1>1. /\ c \in Seq(Cell) /\ Len(c) = Len(a) + Len(b)
      /\ \A i \in 1..(Len(a) + Len(b)) : c[i] = IF i <= Len(a) THEN a[i] ELSE b[i - Len(a)]
  BY ConcatProperties
<1> HIDE DEF c
<1>2. Len(a) \in Nat /\ Len(b) \in Nat
  OBVIOUS
<1> DEFINE s == SubSeq(c, 1, Len(a))
<1>3. s \in Seq(Cell) /\ Len(s) = Len(a) /\ \A i \in 1..Len(a) : s[i] = c[i]
  BY <1>1, <1>2
<1>4. \A i \in 1..Len(a) : c[i] = a[i]
  BY <1>1, <1>2
<1> HIDE DEF s
<1>5. s = a
  BY <1>3, <1>4, SeqEqual
<1> QED
  BY <1>1, <1>2, <1>5 DEF s, c

LEMMA CommitSaves ==
    ASSUME WriterInv, NEW renamed \in BOOLEAN, CommitSave(renamed)
    PROVE  Saved!Replace \/ Saved!Tear \/ Saved!Discard
<1>1. /\ phase = "closing" /\ phase' = "none" /\ save \in SaveFiles
      /\ file' = Commit(save, file, renamed).file
  BY DEF CommitSave, WriterGone, WriterInv
<1>2. Draft = <<written>> /\ Draft' = <<>>
  BY <1>1 DEF Draft
<1>3. CASE save.error \/ ~renamed
  <2>1. file' = file
    BY <1>1, <1>3 DEF Commit
  <2> QED
    BY <1>2, <2>1 DEF Saved!Discard, Saved!None, Draft
<1>4. CASE ~(save.error \/ ~renamed)
  <2>1. file' = Flush(save).file /\ CellsOf(Sent(save)) = written
    BY <1>1, <1>4 DEF Commit, WriterInv
  <2>2. CASE Len(save.held) <= save.room
    <3>1. CellsOf(file') = written
      BY <1>1, <2>1, <2>2, FlushOK
    <3> QED
      BY <1>2, <2>2, <3>1 DEF Saved!Replace, Saved!None, Draft
  <2>3. CASE ~(Len(save.held) <= save.room)
    <3>1. save.file \in Seq(Cell) /\ save.held \in Seq(Cell)
      BY <1>1 DEF SaveFiles
    <3>2. PICK n \in 0..Len(save.held) : file' = save.file \o SubSeq(save.held, 1, n)
      BY <1>1, <2>1, FlushOK
    <3> DEFINE a == SubSeq(save.held, 1, n)
               b == SubSeq(save.held, n + 1, Len(save.held))
    <3>3. a \in Seq(Cell) /\ b \in Seq(Cell) /\ a \o b = save.held
      BY <3>1, Split
    <3> HIDE DEF a, b
    <3>4. file' \in Seq(Cell) /\ file' = save.file \o a
      BY <3>1, <3>2, <3>3 DEF a
    <3>5. Sent(save) = file' \o b
      <4>1. save.file \o (a \o b) = (save.file \o a) \o b
        BY <3>1, <3>3, Associative
      <4> QED
        BY <3>3, <3>4, <4>1 DEF Sent
    <3> DEFINE f == CellsOf(file')
               g == CellsOf(b)
    <3>6. f \in Seq(Cell) /\ g \in Seq(Cell) /\ written = f \o g
      <4>1. CellsOf(file' \o b) = CellsOf(file') \o CellsOf(b)
        BY <3>3, <3>4, CellsOfConcat
      <4> QED
        BY <2>1, <3>3, <3>4, <3>5, <4>1, CellsOfType
    <3> HIDE DEF f, g
    <3>7. f = SubSeq(written, 1, Len(f)) /\ Len(f) \in 0..Len(written)
      BY <3>6, PartOf
    <3>8. \E k \in 0..Len(written) : CellsOf(file') = SubSeq(written, 1, k)
      BY <3>7 DEF f
    <3> QED
      BY <1>2, <2>3, <3>8 DEF Saved!Tear, Saved!None, Draft
  <2> QED
    BY <2>2, <2>3
<1> QED
  BY <1>3, <1>4

LEMMA SavesStep ==
    WriterInv /\ [Next]_vars => [Saved!AtomicNext]_<<CellsOf(file), Draft>>
<1> SUFFICES ASSUME WriterInv, [Next]_vars PROVE [Saved!AtomicNext]_<<CellsOf(file), Draft>>
  OBVIOUS
<1>1. ASSUME NEW kind \in WriteKind, NEW lazy \in BOOLEAN, NEW room \in DiskRoom,
             OpenToWrite(kind, lazy, room)
      PROVE  Saved!Begin
  BY <1>1 DEF OpenToWrite, Saved!Begin, Saved!None
<1>2. ASSUME NEW n \in WriteSize, Write(n, FALSE) PROVE Saved!Extend
  <2>1. /\ WriterInv'
        /\ phase = "writing" /\ phase' = "writing" /\ file' = file
        /\ Len(written') = Len(written) + n /\ SubSeq(written', 1, Len(written)) = written
    BY <1>2, WriteOK
  <2>2. written' \in {SubSeq(Cells, 1, k) : k \in 0..Len(Cells)}
    BY <2>1 DEF WriterInv
  <2>3. Len(written') > Len(written)
    <3>1. n \in Nat \ {0} /\ Len(written) \in Nat
      BY Constants DEF WriterInv
    <3> QED
      BY <2>1, <3>1
  <2>4. Draft = <<written>> /\ Draft' = <<written'>> /\ Draft # <<>> /\ Draft[1] = written
    BY <2>1 DEF Draft
  <2> QED
    BY <2>1, <2>2, <2>3, <2>4 DEF Saved!Extend, Saved!None, Draft
<1>3. ASSUME NEW n \in WriteSize, Write(n, TRUE) PROVE Saved!Discard
  BY <1>3 DEF Write, WriterGone, Saved!Discard, Saved!None
<1>4. ASSUME NEW n \in WriteSize, NEW givesUp \in BOOLEAN, Write(n, givesUp)
      PROVE  Saved!Extend \/ Saved!Discard
  <2>1. Write(n, FALSE) \/ Write(n, TRUE)
    BY <1>4
  <2> QED
    BY <1>2, <1>3, <2>1
<1>5. CASE CloseDevice
  BY <1>5 DEF CloseDevice, Draft
<1>6. ASSUME NEW renamed \in BOOLEAN, CommitSave(renamed)
      PROVE  Saved!Replace \/ Saved!Tear \/ Saved!Discard
  BY <1>6, CommitSaves
<1>7. CASE DiskFreed
  BY <1>7 DEF DiskFreed, Draft
<1>8. CASE Crash
  BY <1>8 DEF Crash, WriterGone, Saved!Discard, Saved!None, Saved!AtomicNext
<1>9. ASSUME file' = file, written' = written, phase \in {"none", "reading"}, phase' \in {"none", "reading"}
      PROVE  UNCHANGED <<CellsOf(file), Draft>>
  BY <1>9 DEF Draft
<1>10. ASSUME NEW kind \in ReadKind, OpenToRead(kind) PROVE UNCHANGED <<CellsOf(file), Draft>>
  BY <1>9, <1>10 DEF OpenToRead, writerVars
<1>11. ASSUME NEW n \in ReadSize, Read(n) PROVE UNCHANGED <<CellsOf(file), Draft>>
  BY <1>9, <1>11 DEF Read, writerVars
<1>12. CASE ReadAgain
  BY <1>9, <1>12 DEF ReadAgain, writerVars
<1>13. ASSUME NEW pos \in SeekPos, SeekTo(pos) PROVE UNCHANGED <<CellsOf(file), Draft>>
  BY <1>9, <1>13 DEF SeekTo, writerVars
<1>14. CASE CloseReader
  BY <1>9, <1>14 DEF CloseReader, writerVars
<1>15. CASE UNCHANGED vars
  BY <1>15 DEF vars, Draft
<1> QED
  BY <1>1, <1>4, <1>5, <1>6, <1>7, <1>8, <1>10, <1>11, <1>12, <1>13, <1>14, <1>15
     DEF Next, Saved!AtomicNext

(* KArchive's save file: the file has all of what a writer has written, or *)
(* stays as it was, as the specification of an atomic file says.           *)
THEOREM Saves == Spec => SavesAtomically
<1>1. Init => Saved!AtomicInit
  BY DEF Init, Saved!AtomicInit, Saved!None
<1>2. WriterInv /\ [Next]_vars => [Saved!AtomicNext]_<<CellsOf(file), Draft>>
  BY SavesStep
<1> QED
  BY <1>1, <1>2, WriterKeeps, PTL DEF Spec, SavesAtomically, Saved!AtomicSpec, Draft

-----------------------------------------------------------------------------
(* The reader.  A file has its data behind the mark that opens it, if the  *)
(* format has one; what is not of the format is given as it is.            *)
Readers ==
    [kind : Kind, at : Nat, in : Seq(Cell), result : {"Ok", "End", "Error"},
     needHeader : BOOLEAN, compressed : BOOLEAN,
     stage : {"head", "body", "crc", "length"}, pos : Nat, qbuffer : Seq(Cell)]

Opening(kind) == IF kind = "gzip" THEN "header" ELSE "magic"

Plain(kind, f) == kind = "none" \/ (kind = "gzip" /\ (f = <<>> \/ f[1] # "header"))

(* How much of the file is in front of the data. *)
Shift(kind, f) == IF kind = "raw" \/ Plain(kind, f) THEN 0 ELSE 1

Opened(kind, f) == Shift(kind, f) = 1 => f # <<>> /\ f[1] = Opening(kind)

(* The file has data of a length, or more. *)
HasData(kind, f, q) ==
    /\ q \in Nat
    /\ q > 0 => /\ Shift(kind, f) + q <= Len(f)
                /\ ~Plain(kind, f) => Opened(kind, f)
    /\ ~Plain(kind, f) => \A i \in 1..q : f[Shift(kind, f) + i] \notin Mark

EndLength(kind) == IF kind = "gzip" THEN 3 ELSE 1

(* The file is whole, with data of a length. *)
Complete(kind, f, q) ==
    /\ ~Plain(kind, f)
    /\ HasData(kind, f, q) /\ Opened(kind, f)
    /\ Shift(kind, f) + q + EndLength(kind) <= Len(f)
    /\ f[Shift(kind, f) + q + 1] = "end"
    /\ kind = "gzip" => f[Shift(kind, f) + q + 2] = "crc" /\ f[Shift(kind, f) + q + 3] = "length"

Incomplete(kind, f) == \A n \in 0..Len(f) : ~Complete(kind, f, n)

(* How much of the file a reader is done with. *)
Taken(x) == x.at - Len(x.in)

(* What the file holds where the reader is that has given so much of it. *)
AtStage(x, f, q) ==
    LET s == Shift(x.kind, f)
        m == Taken(x)
    IN  /\ x.stage = "head" => m = 0 /\ q = 0 /\ s = 1
        /\ x.stage # "head" => Opened(x.kind, f) /\ ~x.needHeader
        /\ x.stage = "body" => m = s + q
        /\ x.stage \in {"crc", "length"} => x.kind = "gzip" /\ f[s + q + 1] = "end"
        /\ x.stage = "crc" => m = s + q + 1
        /\ x.stage = "length" => m = s + q + 2 /\ f[s + q + 2] = "crc"

Reader(x, f) ==
    /\ x \in Readers
    /\ x.at <= Len(f) /\ Len(x.in) <= x.at
    /\ x.kind # "gzip" => x.compressed
    /\ x.kind = "raw" => ~x.needHeader

InPlace(x, f) == \A i \in 1..Len(x.in) : x.in[i] = f[Taken(x) + i]

Located(x, f, q) ==
    /\ HasData(x.kind, f, q)
    /\ InPlace(x, f)
    /\ x.needHeader => Taken(x) = 0 /\ x.result = "Ok"
    /\ Plain(x.kind, f) =>
          /\ Taken(x) = q
          /\ x.result # "Error"
          /\ x.kind = "gzip" => x.result = "Ok" /\ (~x.needHeader => ~x.compressed)
          /\ x.kind = "none" /\ x.result = "Ok" => q = 0
    /\ ~Plain(x.kind, f) =>
          /\ ~x.needHeader => x.compressed
          /\ x.result = "Ok" => AtStage(x, f, q)
          /\ x.result = "End" => Complete(x.kind, f, q)
          /\ x.result = "Error" => Incomplete(x.kind, f)

Decoded(x, f, q) == Located(x, f, q) /\ (x.kind = "none" => x.in = <<>>)

-----------------------------------------------------------------------------
LEMMA ShiftIsNat ==
    ASSUME NEW kind \in Kind, NEW f
    PROVE  /\ Shift(kind, f) \in {0, 1} /\ Shift(kind, f) \in Nat
           /\ Plain(kind, f) => Shift(kind, f) = 0
           /\ ~Plain(kind, f) => kind # "none"
BY DEF Shift, Plain

(* The end of the data is where the first mark behind it is. *)
LEMMA EndOfData ==
    ASSUME NEW kind \in Kind, NEW f \in Seq(Cell), NEW q, HasData(kind, f, q), ~Plain(kind, f),
           Shift(kind, f) + q + 1 <= Len(f), f[Shift(kind, f) + q + 1] \in Mark,
           NEW n, Complete(kind, f, n)
    PROVE  n = q
<1> DEFINE s == Shift(kind, f)
<1>1. s \in Nat
  BY ShiftIsNat
<1>2. q \in Nat /\ \A i \in 1..q : f[s + i] \notin Mark
  BY DEF HasData
<1>3. n \in Nat /\ (\A i \in 1..n : f[s + i] \notin Mark) /\ f[s + n + 1] = "end"
  BY DEF HasData, Complete
<1>4. "end" \in Mark
  BY DEF Mark
<1> HIDE DEF s
<1>5. ~(q < n)
  <2> SUFFICES ASSUME q < n PROVE FALSE
    OBVIOUS
  <2>1. q + 1 \in 1..n /\ s + (q + 1) = s + q + 1
    BY <1>1, <1>2, <1>3
  <2> QED
    BY <1>3, <2>1 DEF s
<1>6. ~(n < q)
  <2> SUFFICES ASSUME n < q PROVE FALSE
    OBVIOUS
  <2>1. n + 1 \in 1..q /\ s + (n + 1) = s + n + 1
    BY <1>1, <1>2, <1>3
  <2> QED
    BY <1>2, <1>3, <1>4, <2>1
<1> QED
  BY <1>2, <1>3, <1>5, <1>6

LEMMA CompleteOnce ==
    ASSUME NEW kind \in Kind, NEW f \in Seq(Cell), NEW q, Complete(kind, f, q),
           NEW n, Complete(kind, f, n)
    PROVE  n = q
<1>1. /\ HasData(kind, f, q) /\ ~Plain(kind, f) /\ f[Shift(kind, f) + q + 1] \in Mark
      /\ Shift(kind, f) + q + EndLength(kind) <= Len(f) /\ q \in Nat
  BY DEF Complete, HasData, Mark
<1>2. Shift(kind, f) + q + 1 <= Len(f)
  <2>1. Shift(kind, f) \in Nat /\ Len(f) \in Nat
    BY ShiftIsNat
  <2> QED
    BY <1>1, <2>1 DEF EndLength
<1> QED
  BY <1>1, <1>2, EndOfData

(* A file that is at its end where its data might go on is not whole. *)
LEMMA NoEnd ==
    ASSUME NEW x \in Readers, NEW f \in Seq(Cell), Reader(x, f), NEW q, Located(x, f, q),
           x.result = "Ok", Taken(x) = Len(f)
    PROVE  Incomplete(x.kind, f)
<1> DEFINE s == Shift(x.kind, f)
<1>1. s \in {0, 1} /\ x.kind \in Kind /\ Len(f) \in Nat
  BY ShiftIsNat DEF Readers
<1>2. SUFFICES ASSUME NEW n \in 0..Len(f), Complete(x.kind, f, n) PROVE FALSE
  BY DEF Incomplete
<1>3. /\ ~Plain(x.kind, f) /\ n \in Nat /\ s + n + EndLength(x.kind) <= Len(f)
      /\ (\A i \in 1..n : f[s + i] \notin Mark) /\ f[s + n + 1] = "end"
      /\ x.kind = "gzip" => f[s + n + 2] = "crc" /\ f[s + n + 3] = "length"
  BY <1>2 DEF Complete, HasData
<1>4. AtStage(x, f, q) /\ HasData(x.kind, f, q) /\ q \in Nat
        /\ \A i \in 1..q : f[s + i] \notin Mark
  BY <1>3 DEF Located, HasData
<1>5. "end" \in Mark
  BY DEF Mark
<1>6. x.stage \in {"head", "body", "crc", "length"}
  BY DEF Readers
<1> HIDE DEF s
<1>7. CASE x.stage = "head"
  <2>1. Len(f) = 0
    BY <1>4, <1>7 DEF AtStage, s
  <2> QED
    BY <1>1, <1>3, <2>1 DEF EndLength
<1>8. CASE x.stage = "body"
  <2>1. Len(f) = s + q
    BY <1>4, <1>8 DEF AtStage, s
  <2>2. n + 1 \in 1..q /\ s + (n + 1) = s + n + 1
    BY <1>1, <1>3, <1>4, <2>1 DEF EndLength
  <2> QED
    BY <1>3, <1>4, <1>5, <2>2
<1>9. CASE x.stage \in {"crc", "length"}
  <2>1. x.kind = "gzip" /\ f[s + q + 1] = "end" /\ Len(f) <= s + q + 2 /\ s + q + 1 <= Len(f)
    BY <1>1, <1>4, <1>9 DEF AtStage, s
  <2>2. n = q
    BY <1>1, <1>2, <1>3, <1>4, <1>5, <2>1, EndOfData DEF s
  <2> QED
    BY <1>1, <1>3, <2>1, <2>2 DEF EndLength
<1> QED
  BY <1>6, <1>7, <1>8, <1>9

-----------------------------------------------------------------------------
(* The buffer is filled from the file. *)
Same(x, y) ==
    /\ y.kind = x.kind /\ y.result = x.result /\ y.needHeader = x.needHeader
    /\ y.compressed = x.compressed /\ y.stage = x.stage /\ y.pos = x.pos /\ y.qbuffer = x.qbuffer

LEMMA PartOfFile ==
    ASSUME NEW f \in Seq(Cell), NEW a \in Nat, NEW n \in Nat, a + n <= Len(f)
    PROVE  /\ SubSeq(f, a + 1, a + n) \in Seq(Cell) /\ Len(SubSeq(f, a + 1, a + n)) = n
           /\ \A i \in 1..n : SubSeq(f, a + 1, a + n)[i] = f[a + i]
OBVIOUS

LEMMA FillOK ==
    ASSUME NEW x, NEW f \in Seq(Cell), Reader(x, f), NEW q, Decoded(x, f, q)
    PROVE  /\ Reader(Fill(x, f), f) /\ Located(Fill(x, f), f, q) /\ Same(x, Fill(x, f))
           /\ Taken(Fill(x, f)) = Taken(x)
           /\ Fill(x, f).in = <<>> => Fill(x, f) = x /\ Taken(x) = Len(f)
<1> DEFINE size == Min({Cap, Len(f) - x.at})
           y == [x EXCEPT !.in = SubSeq(f, x.at + 1, x.at + size), !.at = @ + size]
<1>1. /\ x \in Readers /\ x.at \in Nat /\ x.in \in Seq(Cell) /\ x.at <= Len(f) /\ Len(x.in) <= x.at
      /\ Located(x, f, q)
  BY DEF Reader, Readers, Decoded
<1>2. CASE x.in # <<>>
  <2>1. Fill(x, f) = x
    BY <1>2 DEF Fill
  <2> QED
    BY <1>1, <1>2, <2>1 DEF Same
<1>3. CASE x.in = <<>>
  <2>1. Fill(x, f) = y
    BY <1>3 DEF Fill
  <2>2. size \in Nat /\ x.at + size \in Nat /\ x.at + size <= Len(f) /\ (size = 0 => x.at = Len(f))
    <3>1. Len(f) - x.at \in Nat /\ Cap \in Nat /\ Cap # 0 /\ Len(f) \in Nat
      BY <1>1, Constants
    <3>2. size = IF Cap <= Len(f) - x.at THEN Cap ELSE Len(f) - x.at
      BY <3>1, MinOfTwo
    <3> HIDE DEF size
    <3> QED
      BY <1>1, <3>1, <3>2
  <2> HIDE DEF size
  <2> DEFINE d == SubSeq(f, x.at + 1, x.at + size)
  <2>3. d \in Seq(Cell) /\ Len(d) = size /\ \A i \in 1..size : d[i] = f[x.at + i]
    BY <1>1, <2>2, PartOfFile
  <2> HIDE DEF d
  <2>4. y \in Readers /\ y.in = d /\ y.at = x.at + size /\ Same(x, y)
    BY <1>1, <2>2, <2>3 DEF Readers, Same, d
  <2> HIDE DEF y
  <2>5. Taken(y) = x.at /\ Taken(x) = x.at
    <3>1. Len(x.in) = 0
      BY <1>3, NoCells
    <3>2. Len(y.in) = size /\ y.at = x.at + size /\ size \in Nat /\ x.at \in Nat
      BY <1>1, <2>2, <2>3, <2>4
    <3>3. Taken(y) = (x.at + size) - size /\ Taken(x) = x.at - 0
      BY <3>1, <3>2 DEF Taken
    <3> QED
      BY <3>2, <3>3
  <2>6. Reader(y, f)
    <3>1. Len(y.in) <= y.at
      BY <1>1, <2>2, <2>3, <2>4
    <3> QED
      BY <2>2, <2>4, <3>1 DEF Reader, Same
  <2>7. InPlace(y, f)
    BY <2>3, <2>4, <2>5 DEF InPlace
  <2>8. AtStage(x, f, q) => AtStage(y, f, q)
    BY <2>4, <2>5 DEF AtStage, Same
  <2>9. Located(y, f, q)
    BY <1>1, <2>4, <2>5, <2>7, <2>8 DEF Located, Same
  <2>10. y.in = <<>> => Fill(x, f) = x /\ Taken(x) = Len(f)
    <3> SUFFICES ASSUME y.in = <<>> PROVE Fill(x, f) = x /\ Taken(x) = Len(f)
      OBVIOUS
    <3>1. size = 0 /\ d = <<>>
      BY <2>3, <2>4, NoCells
    <3>2. x.at + 0 = x.at
      BY <1>1
    <3>3. y = x
      BY <1>1, <1>3, <3>1, <3>2 DEF y, d, Readers
    <3> QED
      BY <2>1, <2>2, <2>5, <3>1, <3>3
  <2> QED
    BY <2>1, <2>4, <2>5, <2>6, <2>9, <2>10
<1> QED
  BY <1>2, <1>3

(* The first buffer shows what the file is. *)
LEMMA ReadHeaderOK ==
    ASSUME NEW x, NEW f \in Seq(Cell), Reader(x, f), NEW q, Located(x, f, q), x.result = "Ok",
           x.in # <<>>
    PROVE  LET y == ReadHeader(x)
           IN  /\ Reader(y, f) /\ Located(y, f, q) /\ ~y.needHeader
               /\ y.kind = x.kind /\ y.at = x.at /\ y.in = x.in /\ y.result = "Ok"
               /\ y.pos = x.pos /\ y.qbuffer = x.qbuffer /\ Taken(y) = Taken(x)
<1> DEFINE y == [x EXCEPT !.needHeader = FALSE, !.compressed = LooksCompressed(x)]
<1>1. x \in Readers /\ x.at \in Nat /\ x.in \in Seq(Cell) /\ x.kind \in Kind
  BY DEF Reader, Readers
<1>2. CASE ~x.needHeader
  BY <1>2 DEF ReadHeader
<1>3. CASE x.needHeader
  <2>1. ReadHeader(x) = y
    BY <1>3 DEF ReadHeader
  <2>2. LooksCompressed(x) \in BOOLEAN
    BY DEF LooksCompressed
  <2>3. /\ y \in Readers /\ ~y.needHeader /\ y.compressed = LooksCompressed(x)
        /\ y.kind = x.kind /\ y.at = x.at /\ y.in = x.in /\ y.result = x.result
        /\ y.pos = x.pos /\ y.qbuffer = x.qbuffer /\ y.stage = x.stage
    BY <1>1, <2>2 DEF Readers
  <2> HIDE DEF y
  <2>4. Taken(y) = Taken(x) /\ Taken(x) = 0
    BY <1>3, <2>3 DEF Taken, Located
  <2>5. x.in[1] = f[1] /\ f # <<>>
    <3>1. Len(x.in) \in Nat /\ Len(x.in) # 0
      BY <1>1
    <3>2. 1 \in 1..Len(x.in)
      BY <3>1
    <3>3. x.in[1] = f[0 + 1]
      BY <2>4, <3>2 DEF Located, InPlace
    <3>4. Len(f) \in Nat /\ Len(f) # 0
      BY <1>1, <3>1 DEF Reader
    <3> QED
      BY <3>3, <3>4, NoCells
  <2>6. /\ x.kind # "gzip" => y.compressed
        /\ x.kind = "gzip" => (y.compressed <=> ~Plain(x.kind, f))
    BY <2>3, <2>5 DEF LooksCompressed, Plain
  <2>7. Reader(y, f)
    BY <2>3, <2>6 DEF Reader
  <2>8. AtStage(x, f, q) => AtStage(y, f, q)
    BY <1>3, <2>3, <2>4 DEF AtStage
  <2>9. InPlace(y, f)
    BY <2>3, <2>4 DEF Located, InPlace
  <2>10. Located(y, f, q)
    BY <2>3, <2>4, <2>6, <2>8, <2>9 DEF Located, Plain
  <2> QED
    BY <2>1, <2>3, <2>4, <2>7, <2>10
<1> QED
  BY <1>2, <1>3

-----------------------------------------------------------------------------
(* A library takes the next cell of its input. *)
Next1(x, z) ==
    /\ z \in Readers
    /\ z.in = Tail(x.in) /\ z.kind = x.kind /\ z.at = x.at /\ z.needHeader = x.needHeader
    /\ z.compressed = x.compressed /\ z.pos = x.pos /\ z.qbuffer = x.qbuffer

LEMMA TakeOne ==
    ASSUME NEW x, NEW f \in Seq(Cell), Reader(x, f), InPlace(x, f), x.in # <<>>,
           NEW z, Next1(x, z)
    PROVE  /\ Reader(z, f) /\ InPlace(z, f) /\ Taken(x) \in Nat /\ Taken(z) = Taken(x) + 1
           /\ Taken(x) + 1 <= Len(f) /\ Len(z.in) < Len(x.in) /\ Len(z.in) \in Nat
           /\ Head(x.in) = f[Taken(x) + 1] /\ Head(x.in) \in Cell
<1> DEFINE in == x.in
           rest == z.in
<1>1. /\ x \in Readers /\ in \in Seq(Cell) /\ x.at \in Nat /\ x.at <= Len(f) /\ Len(in) <= x.at
      /\ in # <<>> /\ z \in Readers /\ rest = Tail(in) /\ z.at = x.at
  BY DEF Reader, Readers, Next1
<1>2. \A i \in 1..Len(in) : in[i] = f[Taken(x) + i]
  BY DEF InPlace
<1>3. Taken(x) = x.at - Len(in) /\ Taken(z) = x.at - Len(rest)
  BY <1>1 DEF Taken
<1> HIDE DEF in, rest
<1>4. /\ Len(in) \in Nat /\ Len(in) # 0
      /\ rest \in Seq(Cell) /\ Len(rest) = Len(in) - 1
      /\ \A i \in 1..Len(rest) : rest[i] = in[i + 1]
      /\ Head(in) = in[1] /\ Head(in) \in Cell
  BY <1>1
<1> DEFINE l == Len(in)
           k == Len(rest)
           m == Taken(x)
           n == Taken(z)
           F == Len(f)
<1>5. l \in Nat /\ l # 0 /\ k = l - 1 /\ m = x.at - l /\ n = x.at - k /\ l <= x.at /\ x.at <= F /\ F \in Nat
  BY <1>1, <1>3, <1>4
<1> HIDE DEF l, k, m, n, F
<1>6. m \in Nat /\ n = m + 1 /\ m + 1 <= F /\ k < l /\ k \in Nat /\ k <= x.at
  BY <1>1, <1>5
<1>7. Head(in) = f[m + 1]
  <2>1. 1 \in 1..Len(in)
    BY <1>4
  <2> QED
    BY <1>2, <1>4, <2>1 DEF m
<1>8. \A i \in 1..k : rest[i] = f[n + i]
  <2>1. TAKE i \in 1..k
  <2>2. rest[i] = in[i + 1] /\ i + 1 \in 1..l
    BY <1>4, <1>5, <1>6 DEF k
  <2>3. in[i + 1] = f[m + (i + 1)]
    BY <1>2, <2>2 DEF m, l
  <2>4. m + (i + 1) = n + i
    BY <1>6
  <2> QED
    BY <2>2, <2>3, <2>4
<1>9. Reader(z, f)
  BY <1>1, <1>5, <1>6 DEF Reader, Next1, rest, k, F
<1>10. InPlace(z, f)
  BY <1>8 DEF InPlace, k, n, rest
<1> QED
  BY <1>4, <1>6, <1>7, <1>9, <1>10 DEF in, rest, k, l, m, n, F

(* What the next cell is to each stage of a library. *)
Staged(x, z, f, q) ==
    LET cell == Head(x.in)
        s == Shift(x.kind, f)
        ends == \/ x.stage = "body" /\ cell = "end" /\ x.kind # "gzip"
                \/ x.stage = "length" /\ cell = "length"
        errs == \/ x.stage = "head" /\ cell # Opening(x.kind)
                \/ x.stage = "body" /\ cell \in Mark /\ cell # "end"
                \/ x.stage = "crc" /\ cell # "crc"
                \/ x.stage = "length" /\ cell # "length"
    IN  /\ x.stage = "head" /\ cell = Opening(x.kind) /\ z.stage = "body" /\ z.result = "Ok"
             => Located(z, f, q)
        /\ x.stage = "body" /\ cell \notin Mark /\ z.stage = "body" /\ z.result = "Ok"
             => Located(z, f, q + 1) /\ cell = f[s + q + 1]
        /\ x.stage = "body" /\ cell = "end" /\ x.kind = "gzip" /\ z.stage = "crc" /\ z.result = "Ok"
             => Located(z, f, q)
        /\ x.stage = "crc" /\ cell = "crc" /\ z.stage = "length" /\ z.result = "Ok"
             => Located(z, f, q)
        /\ ends /\ z.result = "End" => Located(z, f, q)
        /\ errs /\ z.result = "Error" => Located(z, f, q)

LEMMA NextStage ==
    ASSUME NEW x, NEW f \in Seq(Cell), Reader(x, f), NEW q, Located(x, f, q), x.result = "Ok",
           ~x.needHeader, ~Plain(x.kind, f), x.in # <<>>,
           NEW z, Next1(x, z)
    PROVE  Staged(x, z, f, q)
<1> DEFINE cell == Head(x.in)
           s == Shift(x.kind, f)
           m == Taken(x)
<1>1. /\ Reader(z, f) /\ InPlace(z, f) /\ m \in Nat /\ Taken(z) = m + 1 /\ m + 1 <= Len(f)
      /\ cell = f[m + 1]
  BY TakeOne DEF Located
<1>2. s \in {0, 1} /\ s \in Nat /\ x.kind \in Kind /\ Len(f) \in Nat /\ x.kind # "none"
  BY ShiftIsNat DEF Readers, Reader
<1>3. /\ HasData(x.kind, f, q) /\ AtStage(x, f, q) /\ x.compressed /\ q \in Nat
      /\ \A i \in 1..q : f[s + i] \notin Mark
  BY DEF Located, HasData
<1>4. z.kind = x.kind /\ ~z.needHeader /\ z.compressed
  BY <1>3 DEF Next1
<1> HIDE DEF cell, s, m
<1>5. ASSUME NEW p, HasData(x.kind, f, p),
             z.result = "Ok" => AtStage(z, f, p),
             z.result = "End" => Complete(x.kind, f, p),
             z.result = "Error" => Incomplete(x.kind, f)
      PROVE  Located(z, f, p)
  BY <1>1, <1>4, <1>5 DEF Located
<1>6. ASSUME x.stage = "head", cell = Opening(x.kind), z.stage = "body", z.result = "Ok"
      PROVE  Located(z, f, q)
  <2>1. m = 0 /\ q = 0 /\ s = 1
    BY <1>3, <1>6 DEF AtStage, s, m
  <2>2. Opened(x.kind, f)
    <3>1. cell = f[1] /\ Len(f) # 0
      BY <1>1, <1>2, <2>1
    <3>2. f # <<>>
      BY <3>1, NoCells
    <3> QED
      BY <1>6, <3>1, <3>2 DEF Opened
  <2>3. AtStage(z, f, q)
    BY <1>1, <1>4, <1>6, <2>1, <2>2 DEF AtStage, s
  <2> QED
    BY <1>3, <1>5, <1>6, <2>3
<1>7. ASSUME x.stage = "body", cell \notin Mark, z.stage = "body", z.result = "Ok"
      PROVE  Located(z, f, q + 1) /\ cell = f[s + q + 1]
  <2>1. m = s + q /\ Opened(x.kind, f)
    BY <1>3, <1>7 DEF AtStage, s, m
  <2>2. cell = f[s + q + 1]
    BY <1>1, <2>1
  <2>3. HasData(x.kind, f, q + 1)
    <3>1. \A i \in 1..(q + 1) : f[s + i] \notin Mark
      <4>1. TAKE i \in 1..(q + 1)
      <4>2. CASE i = q + 1
        <5>1. s + i = s + q + 1
          BY <1>2, <1>3, <4>2
        <5> QED
          BY <1>7, <2>2, <5>1
      <4>3. CASE i # q + 1
        <5>1. i \in 1..q
          BY <1>3, <4>3
        <5> QED
          BY <1>3, <5>1
      <4> QED
        BY <4>2, <4>3
    <3>2. q + 1 \in Nat /\ s + (q + 1) <= Len(f)
      BY <1>1, <1>2, <1>3, <2>1
    <3> QED
      BY <2>1, <3>1, <3>2 DEF HasData, s
  <2>4. AtStage(z, f, q + 1)
    <3>1. Taken(z) = s + (q + 1)
      BY <1>1, <1>2, <1>3, <2>1
    <3> QED
      BY <1>4, <1>7, <2>1, <3>1 DEF AtStage, s
  <2> QED
    BY <1>5, <1>7, <2>2, <2>3, <2>4
<1>8. ASSUME x.stage = "body", cell = "end", x.kind = "gzip", z.stage = "crc", z.result = "Ok"
      PROVE  Located(z, f, q)
  <2>1. m = s + q /\ Opened(x.kind, f) /\ f[s + q + 1] = "end" /\ Taken(z) = s + q + 1
    BY <1>1, <1>3, <1>8 DEF AtStage, s, m
  <2>2. AtStage(z, f, q)
    BY <1>4, <1>8, <2>1 DEF AtStage, s
  <2> QED
    BY <1>3, <1>5, <1>8, <2>2
<1>9. ASSUME x.stage = "crc", cell = "crc", z.stage = "length", z.result = "Ok"
      PROVE  Located(z, f, q)
  <2>1. /\ m = s + q + 1 /\ Opened(x.kind, f) /\ f[s + q + 1] = "end" /\ x.kind = "gzip"
    BY <1>3, <1>9 DEF AtStage, s, m
  <2>2. s + q + 1 + 1 = s + q + 2
    BY <1>2, <1>3
  <2>3. f[s + q + 2] = "crc" /\ Taken(z) = s + q + 2
    BY <1>1, <1>9, <2>1, <2>2
  <2>4. AtStage(z, f, q)
    BY <1>4, <1>9, <2>1, <2>3 DEF AtStage, s
  <2> QED
    BY <1>3, <1>5, <1>9, <2>4
<1>10. ASSUME \/ x.stage = "body" /\ cell = "end" /\ x.kind # "gzip"
              \/ x.stage = "length" /\ cell = "length",
              z.result = "End"
       PROVE  Located(z, f, q)
  <2>1. Complete(x.kind, f, q)
    <3>1. Opened(x.kind, f)
      BY <1>3, <1>10 DEF AtStage
    <3>2. CASE x.stage = "body" /\ cell = "end" /\ x.kind # "gzip"
      <4>1. m = s + q
        BY <1>3, <3>2 DEF AtStage, s, m
      <4> QED
        BY <1>1, <1>3, <3>1, <3>2, <4>1 DEF Complete, EndLength, s
    <3>3. CASE x.stage = "length" /\ cell = "length"
      <4>1. m = s + q + 2 /\ f[s + q + 1] = "end" /\ f[s + q + 2] = "crc" /\ x.kind = "gzip"
        BY <1>3, <3>3 DEF AtStage, s, m
      <4>2. s + q + 2 + 1 = s + q + 3
        BY <1>2, <1>3
      <4>3. f[s + q + 3] = "length" /\ s + q + 3 <= Len(f)
        BY <1>1, <3>3, <4>1, <4>2
      <4> QED
        BY <1>3, <3>1, <4>1, <4>3 DEF Complete, EndLength, s
    <3> QED
      BY <1>10, <3>2, <3>3
  <2> QED
    BY <1>3, <1>5, <1>10, <2>1
<1>11. ASSUME \/ x.stage = "head" /\ cell # Opening(x.kind)
              \/ x.stage = "body" /\ cell \in Mark /\ cell # "end"
              \/ x.stage = "crc" /\ cell # "crc"
              \/ x.stage = "length" /\ cell # "length",
              z.result = "Error"
       PROVE  Located(z, f, q)
  <2>1. ASSUME NEW n \in 0..Len(f), Complete(x.kind, f, n) PROVE FALSE
    <3>1. /\ n \in Nat /\ f[s + n + 1] = "end"
          /\ x.kind = "gzip" => f[s + n + 2] = "crc" /\ f[s + n + 3] = "length"
          /\ Opened(x.kind, f) /\ s + n + EndLength(x.kind) <= Len(f)
      BY <2>1 DEF Complete, s
    <3>2. CASE x.stage = "head" /\ cell # Opening(x.kind)
      <4>1. m = 0 /\ s = 1
        BY <1>3, <3>2 DEF AtStage, s, m
      <4> QED
        BY <1>1, <3>1, <3>2, <4>1 DEF Opened, s
    <3>3. CASE x.stage # "head"
      <4>1. /\ f[s + q + 1] \in Mark /\ s + q + 1 <= Len(f)
            /\ x.stage = "body" => f[s + q + 1] = cell /\ cell # "end"
            /\ x.stage = "crc" => f[s + q + 2] = cell /\ cell # "crc" /\ x.kind = "gzip"
            /\ x.stage = "length" => f[s + q + 3] = cell /\ cell # "length" /\ x.kind = "gzip"
        <5>1. CASE x.stage = "body"
          <6>1. m = s + q /\ cell \in Mark /\ cell # "end"
            BY <1>3, <1>11, <5>1 DEF AtStage, s, m
          <6> QED
            BY <1>1, <5>1, <6>1
        <5>2. CASE x.stage = "crc"
          <6>1. m = s + q + 1 /\ f[s + q + 1] = "end" /\ x.kind = "gzip" /\ cell # "crc"
            BY <1>3, <1>11, <5>2 DEF AtStage, s, m
          <6>2. s + q + 1 + 1 = s + q + 2 /\ "end" \in Mark /\ s + q + 1 <= Len(f)
            BY <1>1, <1>2, <1>3, <6>1 DEF Mark
          <6> QED
            BY <1>1, <5>2, <6>1, <6>2
        <5>3. CASE x.stage = "length"
          <6>1. m = s + q + 2 /\ f[s + q + 1] = "end" /\ x.kind = "gzip" /\ cell # "length"
            BY <1>3, <1>11, <5>3 DEF AtStage, s, m
          <6>2. s + q + 2 + 1 = s + q + 3 /\ "end" \in Mark /\ s + q + 1 <= Len(f)
            BY <1>1, <1>2, <1>3, <6>1 DEF Mark
          <6> QED
            BY <1>1, <5>3, <6>1, <6>2
        <5>4. x.stage \in {"head", "body", "crc", "length"}
          BY DEF Reader, Readers
        <5> QED
          BY <3>3, <5>1, <5>2, <5>3, <5>4
      <4>2. n = q
        BY <1>2, <1>3, <2>1, <4>1, EndOfData DEF s
      <4>3. x.stage \in {"body", "crc", "length"}
        BY <3>3 DEF Reader, Readers
      <4> QED
        BY <3>1, <4>1, <4>2, <4>3
    <3> QED
      BY <3>2, <3>3, <1>11
  <2>2. Incomplete(x.kind, f)
    BY <2>1 DEF Incomplete
  <2> QED
    BY <1>3, <1>5, <1>11, <2>2
<1> QED
  BY <1>6, <1>7, <1>8, <1>9, <1>10, <1>11 DEF cell, s, Staged

(* The loop over the input. *)
InflateTurn == [r : Readers, out : Seq(Cell), room : Nat, stop : BOOLEAN]

LEMMA TurnTakes ==
    ASSUME NEW x \in InflateTurn, x.r.in # <<>>
    PROVE  LET y == [x EXCEPT !.r.in = Tail(@)]
           IN  /\ y \in InflateTurn /\ y.r = [x.r EXCEPT !.in = Tail(@)]
               /\ y.out = x.out /\ y.room = x.room /\ y.stop = x.stop
<1>1. Tail(x.r.in) \in Seq(Cell) /\ x.r \in Readers
  BY DEF InflateTurn, Readers
<1>2. [x.r EXCEPT !.in = Tail(@)] \in Readers
  BY <1>1 DEF Readers
<1> QED
  BY <1>1, <1>2 DEF InflateTurn

LEMMA TurnGoesOn ==
    ASSUME NEW x \in InflateTurn, NEW stage \in {"head", "body", "crc", "length"}
    PROVE  LET y == [x EXCEPT !.r.stage = stage]
           IN  /\ y \in InflateTurn /\ y.r = [x.r EXCEPT !.stage = stage]
               /\ y.out = x.out /\ y.room = x.room /\ y.stop = x.stop
<1>1. x.r \in Readers
  BY DEF InflateTurn
<1>2. [x.r EXCEPT !.stage = stage] \in Readers
  BY <1>1 DEF Readers
<1> QED
  BY <1>1, <1>2 DEF InflateTurn

LEMMA TurnGives ==
    ASSUME NEW x \in InflateTurn, NEW cell \in Cell, x.room # 0
    PROVE  LET y == [x EXCEPT !.out = Append(@, cell), !.room = @ - 1]
           IN  /\ y \in InflateTurn /\ y.r = x.r
               /\ y.out = Append(x.out, cell) /\ y.room = x.room - 1 /\ y.stop = x.stop
<1>1. x.out \in Seq(Cell) /\ x.room \in Nat
  BY DEF InflateTurn
<1>2. Append(x.out, cell) \in Seq(Cell) /\ x.room - 1 \in Nat
  BY <1>1
<1> QED
  BY <1>1, <1>2 DEF InflateTurn

LEMMA TurnEnds ==
    ASSUME NEW x \in InflateTurn, NEW result \in {"Ok", "End", "Error"}
    PROVE  LET y == [x EXCEPT !.stop = TRUE, !.r.result = result]
           IN  /\ y \in InflateTurn /\ y.r = [x.r EXCEPT !.result = result]
               /\ y.out = x.out /\ y.room = x.room /\ y.stop
<1>1. x.r \in Readers
  BY DEF InflateTurn
<1>2. [x.r EXCEPT !.result = result] \in Readers
  BY <1>1 DEF Readers
<1> QED
  BY <1>1, <1>2 DEF InflateTurn

(* A turn stops, or takes a cell. *)
Halts(x) == x.r.in = <<>> \/ (x.r.stage = "body" /\ Head(x.r.in) \notin Mark /\ x.room = 0)

(* What comes of the cell that is taken. *)
Turned(x, y, z) ==
    LET a == x.r
        cell == Head(a.in)
        opens == a.stage = "head" /\ cell = Opening(a.kind)
        gives == a.stage = "body" /\ cell \notin Mark
        closes == a.stage = "body" /\ cell = "end" /\ a.kind = "gzip"
        checks == a.stage = "crc" /\ cell = "crc"
    IN  /\ y \in InflateTurn /\ y.r = z /\ Next1(a, z)
        /\ ~gives => y.out = x.out /\ y.room = x.room
        /\ gives => x.room # 0 /\ y.out = Append(x.out, cell) /\ y.room = x.room - 1
        /\ y.stop <=> ~(opens \/ gives \/ closes \/ checks)
        /\ ~y.stop => z.result = "Ok"
        /\ opens \/ gives => z.stage = "body"
        /\ closes => z.stage = "crc"
        /\ checks => z.stage = "length"
        /\ y.stop => \/ /\ z.result = "End"
                        /\ \/ a.stage = "body" /\ cell = "end" /\ a.kind # "gzip"
                           \/ a.stage = "length" /\ cell = "length"
                     \/ /\ z.result = "Error"
                        /\ \/ a.stage = "head" /\ cell # Opening(a.kind)
                           \/ a.stage = "body" /\ cell \in Mark /\ cell # "end"
                           \/ a.stage = "crc" /\ cell # "crc"
                           \/ a.stage = "length" /\ cell # "length"

LEMMA InflateTurns ==
    ASSUME NEW x \in InflateTurn, ~x.stop, x.r.result = "Ok", ~Halts(x)
    PROVE  Turned(x, Inflate(x), Inflate(x).r)
<1> DEFINE a == x.r
           cell == Head(a.in)
           y == Inflate(x)
           taken == [x EXCEPT !.r.in = Tail(@)]
           opens == a.stage = "head" /\ cell = Opening(a.kind)
           gives == a.stage = "body" /\ cell \notin Mark
           closes == a.stage = "body" /\ cell = "end" /\ a.kind = "gzip"
           checks == a.stage = "crc" /\ cell = "crc"
           final == IF \/ a.stage = "body" /\ cell = "end"
                       \/ a.stage = "length" /\ cell = "length"
                    THEN "End" ELSE "Error"
<1>1. /\ a \in Readers /\ a.in \in Seq(Cell) /\ a.in # <<>> /\ Tail(a.in) \in Seq(Cell) /\ cell \in Cell
      /\ a.stage \in {"head", "body", "crc", "length"} /\ x.stop = FALSE
      /\ gives => x.room # 0
  BY DEF InflateTurn, Readers, Halts
<1>2. y = IF opens THEN [taken EXCEPT !.r.stage = "body"]
          ELSE IF gives THEN [taken EXCEPT !.out = Append(@, cell), !.room = @ - 1]
          ELSE IF closes THEN [taken EXCEPT !.r.stage = "crc"]
          ELSE IF checks THEN [taken EXCEPT !.r.stage = "length"]
          ELSE [taken EXCEPT !.stop = TRUE, !.r.result = final]
  BY DEF Inflate, Opening, Halts
<1>3. /\ taken \in InflateTurn /\ taken.r = [a EXCEPT !.in = Tail(@)] /\ taken.out = x.out
      /\ taken.room = x.room /\ taken.stop = FALSE
  BY <1>1, TurnTakes
<1> HIDE DEF taken, y, cell
<1>4. /\ taken.r \in Readers /\ Next1(a, taken.r) /\ taken.r.stage = a.stage /\ taken.r.result = "Ok"
  BY <1>1, <1>3 DEF Readers, Next1
<1> DEFINE t == taken.r
<1>5. ASSUME NEW stage \in {"head", "body", "crc", "length"}
      PROVE  /\ Next1(a, [t EXCEPT !.stage = stage]) /\ [t EXCEPT !.stage = stage].result = "Ok"
             /\ [t EXCEPT !.stage = stage].stage = stage
  <2> HIDE DEF t, a
  <2> QED
    BY <1>4 DEF t, Readers, Next1
<1>6. ASSUME NEW result \in {"Ok", "End", "Error"}
      PROVE  /\ Next1(a, [t EXCEPT !.result = result]) /\ [t EXCEPT !.result = result].result = result
  <2> HIDE DEF t, a
  <2> QED
    BY <1>4 DEF t, Readers, Next1
<1>7. final \in {"Ok", "End", "Error"}
  OBVIOUS
<1> HIDE DEF t
<1>8. CASE opens
  <2>1. y = [taken EXCEPT !.r.stage = "body"]
    BY <1>2, <1>8
  <2>2. /\ y \in InflateTurn /\ y.r = [t EXCEPT !.stage = "body"] /\ y.out = x.out /\ y.room = x.room
        /\ y.stop = FALSE
    BY <1>3, <2>1, TurnGoesOn DEF t
  <2>3. Next1(a, y.r) /\ y.r.result = "Ok" /\ y.r.stage = "body"
    BY <1>5, <2>2
  <2>4. a.stage = "head"
    BY <1>8
  <2> QED
    BY <1>8, <2>2, <2>3, <2>4 DEF Turned, y, cell
<1>9. CASE gives
  <2>1. y = [taken EXCEPT !.out = Append(@, cell), !.room = @ - 1]
    BY <1>2, <1>9
  <2>2. /\ y \in InflateTurn /\ y.r = t /\ y.out = Append(x.out, cell) /\ y.room = x.room - 1
        /\ y.stop = FALSE
    <3>1. taken.room # 0 /\ cell \in Cell
      BY <1>1, <1>3, <1>9
    <3> HIDE DEF gives
    <3> DEFINE g == [taken EXCEPT !.out = Append(@, cell), !.room = @ - 1]
    <3>2. /\ g \in InflateTurn /\ g.r = taken.r /\ g.out = Append(taken.out, cell)
          /\ g.room = taken.room - 1 /\ g.stop = taken.stop
      BY <1>3, <3>1, TurnGives
    <3>3. y = g
      BY <2>1
    <3> HIDE DEF g
    <3> QED
      BY <1>3, <3>2, <3>3 DEF t
  <2>3. Next1(a, y.r) /\ y.r.result = "Ok" /\ y.r.stage = "body"
    BY <1>4, <1>9, <2>2 DEF t
  <2> QED
    BY <1>1, <1>9, <2>2, <2>3 DEF Turned, y, cell, Mark
<1>10. CASE closes
  <2>1. y = [taken EXCEPT !.r.stage = "crc"]
    BY <1>2, <1>10 DEF Mark
  <2>2. /\ y \in InflateTurn /\ y.r = [t EXCEPT !.stage = "crc"] /\ y.out = x.out /\ y.room = x.room
        /\ y.stop = FALSE
    BY <1>3, <2>1, TurnGoesOn DEF t
  <2>3. Next1(a, y.r) /\ y.r.result = "Ok" /\ y.r.stage = "crc"
    BY <1>5, <2>2
  <2>4. cell \in Mark
    BY <1>10 DEF Mark
  <2> QED
    BY <1>10, <2>2, <2>3, <2>4 DEF Turned, y, cell
<1>11. CASE checks
  <2>1. y = [taken EXCEPT !.r.stage = "length"]
    BY <1>2, <1>11
  <2>2. /\ y \in InflateTurn /\ y.r = [t EXCEPT !.stage = "length"] /\ y.out = x.out /\ y.room = x.room
        /\ y.stop = FALSE
    BY <1>3, <2>1, TurnGoesOn DEF t
  <2>3. Next1(a, y.r) /\ y.r.result = "Ok" /\ y.r.stage = "length"
    BY <1>5, <2>2
  <2> QED
    BY <1>11, <2>2, <2>3 DEF Turned, y, cell
<1>12. CASE ~opens /\ ~gives /\ ~closes /\ ~checks
  <2>1. y = [taken EXCEPT !.stop = TRUE, !.r.result = final]
    BY <1>2, <1>12
  <2>2. /\ y \in InflateTurn /\ y.r = [t EXCEPT !.result = final] /\ y.out = x.out /\ y.room = x.room
        /\ y.stop
    <3> HIDE DEF final
    <3> QED
      BY <1>3, <1>7, <2>1, TurnEnds DEF t
  <2>3. Next1(a, y.r) /\ y.r.result = final
    BY <1>6, <1>7, <2>2
  <2>4. \/ /\ final = "End"
           /\ \/ a.stage = "body" /\ cell = "end" /\ a.kind # "gzip"
              \/ a.stage = "length" /\ cell = "length"
        \/ /\ final = "Error"
           /\ \/ a.stage = "head" /\ cell # Opening(a.kind)
              \/ a.stage = "body" /\ cell \in Mark /\ cell # "end"
              \/ a.stage = "crc" /\ cell # "crc"
              \/ a.stage = "length" /\ cell # "length"
    <3> HIDE DEF a
    <3>1. CASE (a.stage = "body" /\ cell = "end") \/ (a.stage = "length" /\ cell = "length")
      <4>1. final = "End"
        BY <3>1
      <4> HIDE DEF final
      <4> QED
        BY <1>12, <3>1, <4>1
    <3>2. CASE ~((a.stage = "body" /\ cell = "end") \/ (a.stage = "length" /\ cell = "length"))
      <4>1. final = "Error"
        BY <3>2
      <4> HIDE DEF final
      <4> QED
        <5> DEFINE stage == a.stage
        <5>1. stage \in {"head", "body", "crc", "length"}
          BY <1>1
        <5>2. stage = "head" => cell # Opening(a.kind)
          BY <1>12
        <5>3. stage = "body" => cell \in Mark /\ cell # "end"
          BY <1>12, <3>2
        <5>4. stage = "crc" => cell # "crc"
          BY <1>12
        <5>5. stage = "length" => cell # "length"
          BY <3>2
        <5> HIDE DEF stage
        <5>6. \/ stage = "head" /\ cell # Opening(a.kind)
              \/ stage = "body" /\ cell \in Mark /\ cell # "end"
              \/ stage = "crc" /\ cell # "crc"
              \/ stage = "length" /\ cell # "length"
          BY <5>1, <5>2, <5>3, <5>4, <5>5
        <5> QED
          BY <4>1, <5>6 DEF stage
    <3> QED
      BY <3>1, <3>2
  <2> HIDE DEF final
  <2> QED
    BY <1>12, <2>2, <2>3, <2>4 DEF Turned, y, cell
<1> QED
  BY <1>8, <1>9, <1>10, <1>11, <1>12 DEF y

IsDataAt(kind, f, q, d) == \A i \in 1..Len(d) : d[i] = f[Shift(kind, f) + q + i]

LEMMA DataGoesOn ==
    ASSUME NEW kind \in Kind, NEW f, NEW q \in Nat, NEW d \in Seq(Cell), NEW cell \in Cell,
           IsDataAt(kind, f, q, d), cell = f[Shift(kind, f) + (q + Len(d)) + 1]
    PROVE  IsDataAt(kind, f, q, Append(d, cell)) /\ q + Len(Append(d, cell)) = (q + Len(d)) + 1
<1> DEFINE s == Shift(kind, f)
           l == Len(d)
           e == Append(d, cell)
<1>1. l \in Nat /\ e \in Seq(Cell) /\ Len(e) = l + 1 /\ e[l + 1] = cell /\ \A i \in 1..l : e[i] = d[i]
  OBVIOUS
<1>2. s \in Nat
  BY ShiftIsNat
<1>3. cell = f[s + (q + l) + 1] /\ \A i \in 1..l : d[i] = f[s + q + i]
  BY DEF IsDataAt
<1> HIDE DEF s, l, e
<1>4. s + (q + l) + 1 = s + q + (l + 1)
  BY <1>1, <1>2
<1>5. \A i \in 1..(l + 1) : e[i] = f[s + q + i]
  <2>1. TAKE i \in 1..(l + 1)
  <2>2. i = l + 1 \/ i \in 1..l
    BY <1>1
  <2> QED
    BY <1>1, <1>3, <1>4, <2>2
<1>6. \A i \in 1..Len(e) : e[i] = f[s + q + i]
  BY <1>1, <1>5
<1>7. q + Len(e) = (q + l) + 1
  BY <1>1
<1> QED
  BY <1>6, <1>7 DEF IsDataAt, s, l, e

Inflating(x, r0, f, q0, room0) ==
    /\ x \in InflateTurn /\ Reader(x.r, f) /\ ~x.r.needHeader
    /\ x.r.kind = r0.kind /\ x.r.at = r0.at /\ x.r.pos = r0.pos /\ x.r.qbuffer = r0.qbuffer
    /\ Located(x.r, f, q0 + Len(x.out)) /\ IsDataAt(r0.kind, f, q0, x.out)
    /\ Len(x.out) + x.room = room0
    /\ ~x.stop => x.r.result = "Ok"
    /\ \/ Len(x.r.in) < Len(r0.in)
       \/ ~x.stop /\ x.r.in = r0.in /\ x.room = room0

LEMMA InflateStep ==
    ASSUME NEW r0 \in Readers, NEW f \in Seq(Cell), NEW q0 \in Nat, NEW room0 \in Nat \ {0},
           ~Plain(r0.kind, f), r0.in # <<>>,
           NEW x, Inflating(x, r0, f, q0, room0), ~x.stop
    PROVE  /\ Inflating(Inflate(x), r0, f, q0, room0)
           /\ Inflate(x).stop \/ Len(Inflate(x).r.in) < Len(x.r.in)
<1> DEFINE a == x.r
           cell == Head(a.in)
           q == q0 + Len(x.out)
           s == Shift(a.kind, f)
           y == Inflate(x)
           z == y.r
<1>1. /\ x \in InflateTurn /\ a \in Readers /\ Reader(a, f) /\ ~a.needHeader /\ a.kind = r0.kind
      /\ a.at = r0.at /\ a.pos = r0.pos /\ a.qbuffer = r0.qbuffer
      /\ Located(a, f, q) /\ a.result = "Ok" /\ IsDataAt(r0.kind, f, q0, x.out)
      /\ x.out \in Seq(Cell) /\ x.room \in Nat /\ Len(x.out) + x.room = room0
      /\ a.in \in Seq(Cell) /\ Len(a.in) \in Nat /\ Len(r0.in) \in Nat /\ Len(x.out) \in Nat
      /\ r0.kind \in Kind
  BY DEF Inflating, InflateTurn, Readers
<1>2. Len(a.in) <= Len(r0.in)
  BY <1>1 DEF Inflating
<1>3. CASE Halts(x)
  <2>1. y = [x EXCEPT !.stop = TRUE]
    BY <1>3 DEF Inflate, Halts
  <2>2. /\ y \in InflateTurn /\ y.r = a /\ y.out = x.out /\ y.room = x.room /\ y.stop
    BY <1>1, <2>1 DEF InflateTurn
  <2>3. Len(a.in) < Len(r0.in)
    <3>1. a.in # r0.in \/ x.room # room0
      BY <1>3 DEF Halts
    <3> QED
      BY <3>1 DEF Inflating
  <2> HIDE DEF a, y
  <2>4. Inflating(y, r0, f, q0, room0)
    BY <1>1, <2>2, <2>3 DEF Inflating
  <2> QED
    BY <2>2, <2>4 DEF y
<1>4. CASE ~Halts(x)
  <2>1. Turned(x, y, z)
    BY <1>1, <1>4, InflateTurns
  <2>2. a.in # <<>> /\ cell \in Cell
    BY <1>1, <1>4 DEF Halts
  <2>3. y \in InflateTurn /\ Next1(a, z) /\ (~y.stop => z.result = "Ok")
    BY <2>1 DEF Turned
  <2>4. /\ Reader(z, f) /\ Len(z.in) < Len(a.in) /\ Len(z.in) \in Nat
    <3> HIDE DEF z, a
    <3> QED
      BY <1>1, <2>2, <2>3, TakeOne DEF Located
  <2>5. /\ z.kind = a.kind /\ z.at = a.at /\ z.needHeader = a.needHeader
        /\ z.pos = a.pos /\ z.qbuffer = a.qbuffer
    BY <2>3 DEF Next1
  <2> DEFINE opens == a.stage = "head" /\ cell = Opening(a.kind)
             gives == a.stage = "body" /\ cell \notin Mark
             closes == a.stage = "body" /\ cell = "end" /\ a.kind = "gzip"
             checks == a.stage = "crc" /\ cell = "crc"
             ends == \/ a.stage = "body" /\ cell = "end" /\ a.kind # "gzip"
                     \/ a.stage = "length" /\ cell = "length"
             errs == \/ a.stage = "head" /\ cell # Opening(a.kind)
                     \/ a.stage = "body" /\ cell \in Mark /\ cell # "end"
                     \/ a.stage = "crc" /\ cell # "crc"
                     \/ a.stage = "length" /\ cell # "length"
  <2>6. /\ opens /\ z.stage = "body" /\ z.result = "Ok" => Located(z, f, q)
        /\ gives /\ z.stage = "body" /\ z.result = "Ok"
             => Located(z, f, q + 1) /\ cell = f[s + q + 1]
        /\ closes /\ z.stage = "crc" /\ z.result = "Ok" => Located(z, f, q)
        /\ checks /\ z.stage = "length" /\ z.result = "Ok" => Located(z, f, q)
        /\ ends => (z.result = "End" => Located(z, f, q))
        /\ errs => (z.result = "Error" => Located(z, f, q))
    <3> DEFINE qq == q
    <3>1. Located(a, f, qq) /\ ~Plain(a.kind, f)
      BY <1>1
    <3> HIDE DEF qq, z
    <3>2. a.result = "Ok" /\ ~a.needHeader /\ Reader(a, f)
      BY <1>1
    <3> HIDE DEF a
    <3>3. Staged(a, z, f, qq)
      BY <2>2, <2>3, <3>1, <3>2, NextStage
    <3>4. Staged(a, z, f, q)
      BY <3>3 DEF qq
    <3> HIDE DEF q
    <3> QED
      BY <3>4 DEF Staged
  <2>7. /\ ~gives => y.out = x.out /\ y.room = x.room
        /\ gives => x.room # 0 /\ y.out = Append(x.out, cell) /\ y.room = x.room - 1
        /\ y.stop <=> ~(opens \/ gives \/ closes \/ checks)
        /\ opens \/ gives => z.stage = "body"
        /\ closes => z.stage = "crc"
        /\ checks => z.stage = "length"
        /\ y.stop => (z.result = "End" /\ ends) \/ (z.result = "Error" /\ errs)
    BY <2>1 DEF Turned
  <2> HIDE DEF a, cell, q, y, z, opens, gives, closes, checks, ends, errs
  <2>8. /\ Located(z, f, q0 + Len(y.out)) /\ IsDataAt(r0.kind, f, q0, y.out)
        /\ Len(y.out) + y.room = room0
    <3>1. CASE gives
      <4>1. Located(z, f, q + 1) /\ cell = f[s + q + 1]
        <5>1. ~y.stop
          BY <2>7, <3>1
        <5> QED
          BY <2>3, <2>6, <2>7, <3>1, <5>1
      <4>2. cell = f[Shift(r0.kind, f) + (q0 + Len(x.out)) + 1]
        BY <1>1, <4>1 DEF q
      <4> DEFINE out == Append(x.out, cell)
      <4>3. IsDataAt(r0.kind, f, q0, out) /\ q0 + Len(out) = q + 1
        <5> DEFINE d == x.out
                   kind == r0.kind
        <5>1. /\ d \in Seq(Cell) /\ kind \in Kind /\ IsDataAt(kind, f, q0, d)
              /\ cell = f[Shift(kind, f) + (q0 + Len(d)) + 1]
          BY <1>1, <4>2
        <5> HIDE DEF d, kind
        <5>2. IsDataAt(kind, f, q0, Append(d, cell)) /\ q0 + Len(Append(d, cell)) = (q0 + Len(d)) + 1
          BY <2>2, <5>1, DataGoesOn
        <5> QED
          BY <5>2 DEF q, d, kind
      <4>4. Len(out) = Len(x.out) + 1
        BY <1>1, <2>2
      <4> HIDE DEF out
      <4> DEFINE k == Len(out)
                 l == Len(x.out)
      <4>5. k = l + 1 /\ l \in Nat /\ l + x.room = room0 /\ x.room \in Nat /\ y.room = x.room - 1
        BY <1>1, <2>7, <3>1, <4>4
      <4> HIDE DEF k, l
      <4>6. k + y.room = room0
        BY <4>5
      <4>7. y.out = out
        BY <2>7, <3>1 DEF out
      <4> QED
        BY <4>1, <4>3, <4>6, <4>7 DEF k
    <3>2. CASE ~gives
      <4>1. y.out = x.out /\ y.room = x.room
        BY <2>7, <3>2
      <4>2. Located(z, f, q)
        BY <2>3, <2>6, <2>7, <3>2
      <4> QED
        BY <1>1, <4>1, <4>2 DEF q
    <3> QED
      BY <3>1, <3>2
  <2>9. Len(z.in) < Len(r0.in)
    BY <1>1, <1>2, <2>4
  <2>10. Inflating(y, r0, f, q0, room0)
    <3>1. z = y.r
      BY DEF z
    <3>2. /\ z.kind = r0.kind /\ z.at = r0.at /\ ~z.needHeader /\ z.pos = r0.pos /\ z.qbuffer = r0.qbuffer
      BY <1>1, <2>5
    <3> QED
      BY <2>3, <2>4, <2>8, <2>9, <3>1, <3>2 DEF Inflating
  <2> QED
    BY <2>4, <2>10 DEF y, z, a
<1> QED
  BY <1>3, <1>4

-----------------------------------------------------------------------------
(* The loop ends, where there is no room or nothing more to be done. *)
LEMMA InflateEnds ==
    ASSUME NEW x, NEW f \in Seq(Cell), Reader(x, f), NEW q \in Nat, Located(x, f, q),
           x.result = "Ok", ~x.needHeader, ~Plain(x.kind, f), x.in # <<>>, NEW room \in Nat \ {0},
           NEW start, start = [r |-> x, out |-> <<>>, room |-> room, stop |-> FALSE]
    PROVE  /\ Inflating(Iterate(Inflate, start, Len(x.in) + 1), x, f, q, room)
           /\ Iterate(Inflate, start, Len(x.in) + 1).stop
<1> DEFINE V == {y \in InflateTurn : Inflating(y, x, f, q, room)}
           mu == [y \in V |-> Len(y.r.in)]
           L == Len(x.in) + 1
<1>1. x \in Readers /\ x.in \in Seq(Cell) /\ Len(x.in) \in Nat /\ L \in Nat
  BY DEF Reader, Readers
<1>2. start \in V
  <2>1. /\ start \in InflateTurn /\ start.r = x /\ start.out = <<>> /\ start.room = room
        /\ ~start.stop
    BY <1>1, NoCells DEF InflateTurn
  <2>2. q + Len(<<>>) = q /\ Len(<<>>) + room = room
    OBVIOUS
  <2>3. IsDataAt(x.kind, f, q, <<>>)
    BY DEF IsDataAt
  <2>4. Inflating(start, x, f, q, room)
    BY <2>1, <2>2, <2>3 DEF Inflating
  <2> QED
    BY <2>1, <2>4
<1>3. \A y \in V : ~y.stop => Inflate(y) \in V
  <2>1. TAKE y \in V
  <2>2. HAVE ~y.stop
  <2>3. Inflating(y, x, f, q, room)
    BY <2>1
  <2>4. Inflating(Inflate(y), x, f, q, room)
    <3> HIDE DEF V
    <3> QED
      BY <1>1, <2>2, <2>3, InflateStep
  <2> QED
    BY <2>4 DEF Inflating
<1>4. mu \in [V -> Nat]
  <2>1. ASSUME NEW y \in V PROVE Len(y.r.in) \in Nat
    BY DEF InflateTurn, Readers
  <2> QED
    BY <2>1
<1>5. mu[start] < L
  <2>1. mu[start] = Len(x.in)
    BY <1>2
  <2> QED
    BY <1>1, <2>1
<1>6. \A y \in V : ~y.stop => Inflate(y).stop \/ mu[Inflate(y)] < mu[y]
  <2>1. TAKE y \in V
  <2>2. HAVE ~y.stop
  <2>3. Inflating(y, x, f, q, room) /\ Inflate(y) \in V
    BY <1>3, <2>2
  <2>4. Inflate(y).stop \/ Len(Inflate(y).r.in) < Len(y.r.in)
    <3> HIDE DEF V
    <3> QED
      BY <1>1, <2>2, <2>3, InflateStep
  <2> QED
    BY <2>3, <2>4
<1> HIDE DEF V, mu, L
<1>7. Iterate(Inflate, start, L) \in V
  BY <1>1, <1>2, <1>3, InflateLoopStays
<1>8. Iterate(Inflate, start, L).stop
  BY <1>1, <1>2, <1>3, <1>4, <1>5, <1>6, InflateLoopEnds
<1> QED
  BY <1>7, <1>8 DEF V, L

-----------------------------------------------------------------------------
(* What uncompress gives. *)
Unpacked(x, f, q, room, u) ==
    /\ Reader(u.r, f) /\ Decoded(u.r, f, q + Len(u.out)) /\ ~u.r.needHeader
    /\ u.r.kind = x.kind /\ u.r.at = x.at /\ u.r.pos = x.pos /\ u.r.qbuffer = x.qbuffer
    /\ u.out \in Seq(Cell) /\ IsDataAt(x.kind, f, q, u.out)
    /\ Len(u.r.in) < Len(x.in)
    /\ x.kind # "none" => Len(u.out) <= room
    /\ x.kind = "none" => u.r.result = "End"

LEMMA UncompressNoneOK ==
    ASSUME NEW x, NEW f \in Seq(Cell), Reader(x, f), NEW q \in Nat, Located(x, f, q),
           x.result = "Ok", ~x.needHeader, x.in # <<>>, NEW room \in Nat \ {0}, x.kind = "none"
    PROVE  Unpacked(x, f, q, room, Uncompress(x, room))
<1> DEFINE z == [x EXCEPT !.in = <<>>, !.result = "End"]
           d == x.in
           u == Uncompress(x, room)
<1>1. /\ x \in Readers /\ d \in Seq(Cell) /\ Len(d) \in Nat /\ Len(d) # 0 /\ x.at \in Nat
      /\ x.at <= Len(f) /\ Len(f) \in Nat /\ Len(d) <= x.at /\ x.compressed
  BY DEF Reader, Readers
<1>2. Plain(x.kind, f) /\ Shift(x.kind, f) = 0
  BY DEF Plain, Shift
<1>3. q = 0 /\ Taken(x) = 0 /\ InPlace(x, f)
  BY <1>2 DEF Located
<1>4. u.r = z /\ u.out = d
  BY DEF Uncompress, UncompressNone
<1>5. /\ z \in Readers /\ z.in = <<>> /\ z.at = x.at /\ z.kind = "none" /\ z.compressed /\ ~z.needHeader
      /\ z.result = "End" /\ z.pos = x.pos /\ z.qbuffer = x.qbuffer
  BY <1>1, NoCells DEF Readers
<1>6. Reader(z, f)
  <2>1. Len(z.in) = 0
    BY <1>5, NoCells
  <2> HIDE DEF z
  <2> QED
    BY <1>1, <1>5, <2>1 DEF Reader
<1> HIDE DEF z, u
<1>7. x.at = Len(d)
  <2> DEFINE l == Len(d)
  <2>1. x.at - l = 0 /\ l \in Nat
    BY <1>1, <1>3 DEF Taken
  <2> HIDE DEF l
  <2>2. x.at = l
    BY <1>1, <2>1
  <2> QED
    BY <2>2 DEF l
<1>8. Taken(z) = x.at
  <2>1. Taken(z) = x.at - 0
    BY <1>5, NoCells DEF Taken
  <2> QED
    BY <1>1, <2>1
<1>9. Located(z, f, Len(d))
  <2>1. HasData("none", f, Len(d))
    BY <1>1, <1>2, <1>7 DEF HasData
  <2>2. InPlace(z, f)
    BY <1>5 DEF InPlace
  <2> QED
    BY <1>2, <1>5, <1>7, <1>8, <2>1, <2>2 DEF Located
<1>10. q + Len(d) = Len(d)
  BY <1>1, <1>3
<1>11. IsDataAt(x.kind, f, q, d)
  <2>1. ASSUME NEW i \in 1..Len(d) PROVE d[i] = f[0 + 0 + i]
    <3>1. d[i] = f[Taken(x) + i]
      BY <1>3, <2>1 DEF InPlace
    <3> QED
      BY <1>3, <3>1
  <2> QED
    BY <1>2, <1>3, <2>1 DEF IsDataAt
<1>12. Len(z.in) < Len(x.in)
  BY <1>1, <1>5, NoCells
<1>13. Decoded(z, f, q + Len(d))
  BY <1>5, <1>9, <1>10 DEF Decoded
<1> QED
  BY <1>1, <1>4, <1>5, <1>6, <1>11, <1>12, <1>13 DEF Unpacked, u

LEMMA UncompressNoopOK ==
    ASSUME NEW x, NEW f \in Seq(Cell), Reader(x, f), NEW q \in Nat, Located(x, f, q),
           x.result = "Ok", ~x.needHeader, x.in # <<>>, NEW room \in Nat \ {0}, x.kind # "none",
           Plain(x.kind, f)
    PROVE  Unpacked(x, f, q, room, Uncompress(x, room))
<1> DEFINE n == Min({Len(x.in), room})
           rest == SubSeq(x.in, n + 1, Len(x.in))
           d == SubSeq(x.in, 1, n)
           z == [x EXCEPT !.in = rest]
           u == Uncompress(x, room)
<1>1. /\ x \in Readers /\ x.in \in Seq(Cell) /\ Len(x.in) \in Nat /\ Len(x.in) # 0 /\ x.at \in Nat
      /\ x.at <= Len(f) /\ Len(f) \in Nat /\ Len(x.in) <= x.at /\ x.kind = "gzip"
  BY DEF Reader, Readers, Plain
<1>2. Shift(x.kind, f) = 0 /\ ~x.compressed /\ Taken(x) = q /\ InPlace(x, f)
  BY <1>1 DEF Shift, Located
<1>3. u.r = z /\ u.out = d
  BY <1>1, <1>2 DEF Uncompress, UncompressNoop
<1>4. n \in Nat /\ n # 0 /\ n <= Len(x.in) /\ n <= room
  <2>1. n = IF Len(x.in) <= room THEN Len(x.in) ELSE room
    BY <1>1, MinOfTwo
  <2> HIDE DEF n
  <2> QED
    BY <1>1, <2>1
<1> HIDE DEF n
<1>5. d \in Seq(Cell) /\ Len(d) = n /\ \A i \in 1..n : d[i] = x.in[i]
  BY <1>1, <1>4
<1>6. /\ rest \in Seq(Cell) /\ Len(rest) = Len(x.in) - n
      /\ \A i \in 1..Len(rest) : rest[i] = x.in[n + i]
  <2> DEFINE in == x.in
  <2>0. in \in Seq(Cell) /\ n + 1 \in 1..(Len(in) + 1) /\ rest = SubSeq(in, n + 1, Len(in))
    BY <1>1, <1>4
  <2> HIDE DEF in
  <2>1. /\ rest \in Seq(Cell) /\ Len(rest) = Len(in) - n
        /\ \A i \in 1..(Len(in) - n) : rest[i] = in[n + i]
    <3>1. n \in 0..Len(in)
      BY <1>4, <2>0
    <3> QED
      BY <2>0, <3>1, Behind
  <2> QED
    BY <2>1 DEF in
<1> HIDE DEF d, rest
<1>7. /\ z \in Readers /\ z.in = rest /\ z.at = x.at /\ z.kind = "gzip" /\ ~z.compressed /\ ~z.needHeader
      /\ z.result = "Ok" /\ z.pos = x.pos /\ z.qbuffer = x.qbuffer
  BY <1>1, <1>2, <1>6 DEF Readers
<1> HIDE DEF z, u
<1> DEFINE l == Len(x.in)
           k == Len(rest)
<1>8. /\ k = l - n /\ l \in Nat /\ n <= l /\ l <= x.at /\ x.at - l = q /\ Taken(z) = x.at - k
      /\ x.at <= Len(f)
  BY <1>1, <1>2, <1>4, <1>6, <1>7 DEF Taken
<1> HIDE DEF l, k
<1>9. /\ k < l /\ k <= x.at /\ Taken(z) = q + n /\ q + n <= Len(f) /\ q + n \in Nat
  BY <1>1, <1>4, <1>8
<1>10. Reader(z, f)
  BY <1>1, <1>7, <1>9 DEF Reader, k
<1>11. InPlace(z, f)
  <2>1. ASSUME NEW i \in 1..k PROVE rest[i] = f[(q + n) + i]
    <3>1. rest[i] = x.in[n + i] /\ n + i \in 1..l
      BY <1>4, <1>6, <1>8, <2>1 DEF k
    <3>2. x.in[n + i] = f[q + (n + i)]
      BY <1>2, <3>1 DEF InPlace, l
    <3>3. q + (n + i) = (q + n) + i
      BY <1>4
    <3> QED
      BY <3>1, <3>2, <3>3
  <2> QED
    BY <1>7, <1>9, <2>1 DEF InPlace, k
<1>12. Located(z, f, q + n)
  <2>1. HasData("gzip", f, q + n)
    BY <1>1, <1>2, <1>9 DEF HasData
  <2> QED
    BY <1>1, <1>7, <1>9, <1>11, <2>1 DEF Located
<1>13. IsDataAt(x.kind, f, q, d)
  <2>1. ASSUME NEW i \in 1..n PROVE d[i] = f[0 + q + i]
    <3>1. d[i] = x.in[i] /\ i \in 1..l
      BY <1>4, <1>5, <1>8, <2>1
    <3>2. x.in[i] = f[q + i]
      BY <1>2, <3>1 DEF InPlace, l
    <3> QED
      BY <3>1, <3>2
  <2> QED
    BY <1>2, <1>5, <2>1 DEF IsDataAt
<1>14. Decoded(z, f, q + Len(d))
  BY <1>5, <1>7, <1>12 DEF Decoded
<1> QED
  BY <1>1, <1>3, <1>4, <1>5, <1>7, <1>9, <1>10, <1>13, <1>14 DEF Unpacked, u, k, l

LEMMA UncompressOK ==
    ASSUME NEW x, NEW f \in Seq(Cell), Reader(x, f), NEW q \in Nat, Located(x, f, q),
           x.result = "Ok", ~x.needHeader, x.in # <<>>, NEW room \in Nat \ {0}
    PROVE  Unpacked(x, f, q, room, Uncompress(x, room))
<1>1. CASE x.kind = "none"
  BY <1>1, UncompressNoneOK
<1>2. CASE x.kind # "none" /\ Plain(x.kind, f)
  BY <1>2, UncompressNoopOK
<1>3. CASE ~Plain(x.kind, f)
  <2> DEFINE start == [r |-> x, out |-> <<>>, room |-> room, stop |-> FALSE]
             e == Iterate(Inflate, start, Len(x.in) + 1)
  <2>1. x.kind # "none" /\ x.compressed
    BY <1>3 DEF Plain, Located
  <2>2. Uncompress(x, room) = e
    BY <2>1 DEF Uncompress
  <2>3. Inflating(e, x, f, q, room) /\ e.stop
    <3> HIDE DEF start
    <3>1. start = [r |-> x, out |-> <<>>, room |-> room, stop |-> FALSE]
      BY DEF start
    <3> QED
      BY <1>3, <3>1, InflateEnds
  <2> HIDE DEF e
  <2>4. /\ e.out \in Seq(Cell) /\ Len(e.out) \in Nat /\ e.room \in Nat
    BY <2>3 DEF Inflating, InflateTurn
  <2>5. Len(e.out) <= room
    <3> DEFINE k == Len(e.out)
    <3>1. k + e.room = room /\ k \in Nat
      BY <2>3, <2>4 DEF Inflating
    <3> HIDE DEF k
    <3>2. k <= room
      BY <2>4, <3>1
    <3> QED
      BY <3>2 DEF k
  <2>6. Decoded(e.r, f, q + Len(e.out))
    BY <2>1, <2>3 DEF Decoded, Inflating
  <2>7. Unpacked(x, f, q, room, e)
    BY <2>1, <2>3, <2>4, <2>5, <2>6 DEF Unpacked, Inflating
  <2> QED
    BY <2>2, <2>7
<1> QED
  BY <1>1, <1>2, <1>3

-----------------------------------------------------------------------------
(* The loop of readData. *)
ReadTurn ==
    [r : Readers, file : Seq(Cell), size : Nat, ignore : BOOLEAN, outSize : Nat, room : Int,
     received : Nat, data : Seq(Cell), stop : BOOLEAN]

(* What one pass of it makes of what uncompress has given. *)
Got(x, step, y) ==
    /\ y \in ReadTurn /\ y.r = step.r
    /\ y.file = x.file /\ y.size = x.size /\ y.ignore = x.ignore /\ y.outSize = x.outSize
    /\ step.r.result = "Error" => y.received = x.received /\ y.data = x.data /\ y.stop
    /\ step.r.result # "Error" =>
          /\ y.received = x.received + Len(step.out)
          /\ ~x.ignore => y.data = x.data \o step.out
          /\ y.room = IF ~x.ignore \/ x.size - y.received < x.outSize THEN x.size - y.received
                      ELSE x.room
          /\ y.stop <=> step.r.result = "End" \/ y.received = x.size

LEMMA AfterUncompressOK ==
    ASSUME NEW x \in ReadTurn, NEW step, step.r \in Readers, step.out \in Seq(Cell)
    PROVE  Got(x, step, AfterUncompress(x, step))
<1> DEFINE received == x.received + Len(step.out)
           data == IF x.ignore THEN step.out \o SubSeq(x.data, Len(step.out) + 1, Len(x.data))
                   ELSE x.data \o step.out
           room == IF ~x.ignore \/ x.size - received < x.outSize THEN x.size - received ELSE x.room
           stop == step.r.result = "End" \/ received = x.size
           failed == [x EXCEPT !.r = step.r, !.stop = TRUE]
           next == [x EXCEPT !.r = step.r, !.received = received, !.data = data, !.room = room,
                             !.stop = stop]
           y == AfterUncompress(x, step)
<1>1. /\ x.size \in Nat /\ x.outSize \in Nat /\ x.room \in Int /\ x.received \in Nat
      /\ x.data \in Seq(Cell) /\ Len(step.out) \in Nat /\ Len(x.data) \in Nat
  BY DEF ReadTurn
<1>2. received \in Nat
  BY <1>1
<1> HIDE DEF received
<1>3. room \in Int
  BY <1>1, <1>2
<1>4. data \in Seq(Cell)
  <2> DEFINE part == SubSeq(x.data, Len(step.out) + 1, Len(x.data))
  <2>1. part \in Seq(Cell)
    BY <1>1
  <2> HIDE DEF part
  <2>2. step.out \o part \in Seq(Cell) /\ x.data \o step.out \in Seq(Cell)
    BY <1>1, <2>1, LenOfConcat
  <2> QED
    BY <2>2 DEF part
<1>5. stop \in BOOLEAN
  OBVIOUS
<1>6. y = IF step.r.result = "Error" THEN failed ELSE next
  BY DEF AfterUncompress, received
<1>7. ~x.ignore => data = x.data \o step.out
  OBVIOUS
<1> DEFINE theRoom == room
           theStop == stop
<1>8. theRoom = room /\ theStop = stop
  OBVIOUS
<1> HIDE DEF data, room, stop, y
<1>9. CASE step.r.result = "Error"
  <2>1. y = failed
    BY <1>6, <1>9
  <2>2. /\ y \in ReadTurn /\ y.r = step.r /\ y.received = x.received /\ y.data = x.data /\ y.stop
        /\ y.file = x.file /\ y.size = x.size /\ y.ignore = x.ignore /\ y.outSize = x.outSize
    BY <2>1 DEF ReadTurn
  <2> QED
    BY <1>9, <2>2 DEF Got, y
<1>10. CASE step.r.result # "Error"
  <2>1. y = next
    BY <1>6, <1>10
  <2>2. /\ y \in ReadTurn /\ y.r = step.r /\ y.received = received /\ y.data = data
        /\ y.stop = stop /\ y.room = room
        /\ y.file = x.file /\ y.size = x.size /\ y.ignore = x.ignore /\ y.outSize = x.outSize
    BY <1>2, <1>3, <1>4, <1>5, <2>1 DEF ReadTurn
  <2> HIDE DEF next
  <2>3. y.room = IF ~x.ignore \/ x.size - y.received < x.outSize THEN x.size - y.received ELSE x.room
    BY <2>2 DEF room
  <2>4. y.stop <=> step.r.result = "End" \/ y.received = x.size
    BY <2>2 DEF stop
  <2>5. y.received = x.received + Len(step.out)
    BY <2>2 DEF received
  <2> QED
    BY <1>7, <1>10, <2>2, <2>3, <2>4, <2>5 DEF Got, y
<1> QED
  BY <1>9, <1>10

LEMMA DataConcat ==
    ASSUME NEW kind \in Kind, NEW f, NEW q \in Nat, NEW d \in Seq(Cell), NEW e \in Seq(Cell),
           IsDataAt(kind, f, q, d), IsDataAt(kind, f, q + Len(d), e)
    PROVE  IsDataAt(kind, f, q, d \o e)
<1> DEFINE s == Shift(kind, f)
           l == Len(d)
           k == Len(e)
           c == d \o e
<1>1. /\ l \in Nat /\ k \in Nat /\ Len(c) = l + k /\ \A i \in 1..l : c[i] = d[i]
      /\ \A i \in 1..k : c[l + i] = e[i]
  <2>1. /\ Len(c) = Len(d) + Len(e) /\ \A i \in 1..Len(d) : c[i] = d[i]
        /\ \A i \in 1..Len(e) : c[Len(d) + i] = e[i]
    OBVIOUS
  <2> QED
    BY <2>1
<1>2. s \in Nat
  BY ShiftIsNat
<1>3. (\A i \in 1..l : d[i] = f[s + q + i]) /\ \A i \in 1..k : e[i] = f[s + (q + l) + i]
  BY DEF IsDataAt
<1> HIDE DEF s, l, k, c
<1>4. ASSUME NEW i \in 1..(l + k) PROVE c[i] = f[s + q + i]
  <2>1. CASE i \in 1..l
    BY <1>1, <1>3, <2>1
  <2>2. CASE i \notin 1..l
    <3>1. i - l \in 1..k /\ l + (i - l) = i /\ s + (q + l) + (i - l) = s + q + i
      BY <1>1, <1>2, <2>2
    <3>2. c[l + (i - l)] = e[i - l] /\ e[i - l] = f[s + (q + l) + (i - l)]
      BY <1>1, <1>3, <3>1
    <3> QED
      BY <3>1, <3>2
  <2> QED
    BY <2>1, <2>2
<1>5. \A i \in 1..Len(c) : c[i] = f[s + q + i]
  BY <1>1, <1>4
<1> QED
  BY <1>5 DEF IsDataAt, s, c

(* What a reader that has failed has given. *)
LEMMA FailedAt ==
    ASSUME NEW x \in Readers, NEW f \in Seq(Cell), NEW q \in Nat, NEW n \in Nat,
           Decoded(x, f, q + n), x.result = "Error"
    PROVE  Decoded(x, f, q)
<1>1. Located(x, f, q + n) /\ ~Plain(x.kind, f)
  BY DEF Decoded, Located
<1>2. HasData(x.kind, f, q)
  <2> DEFINE s == Shift(x.kind, f)
  <2>1. s \in Nat /\ Len(f) \in Nat
    BY ShiftIsNat DEF Readers
  <2>2. /\ q + n > 0 => s + (q + n) <= Len(f) /\ Opened(x.kind, f)
        /\ \A i \in 1..(q + n) : f[s + i] \notin Mark
    BY <1>1 DEF Located, HasData
  <2> HIDE DEF s
  <2>3. q > 0 => q + n > 0 /\ s + q <= Len(f) /\ Opened(x.kind, f)
    BY <2>1, <2>2
  <2>4. \A i \in 1..q : f[s + i] \notin Mark
    BY <2>2
  <2> QED
    BY <2>3, <2>4 DEF HasData, s
<1> QED
  BY <1>1, <1>2 DEF Decoded, Located

-----------------------------------------------------------------------------
(* A loop of readData that has come so far from r0, where q0 was given. *)
Passing(x, r0, f, q0) ==
    /\ x \in ReadTurn /\ x.file = f /\ (~x.ignore => x.outSize = x.size)
    /\ Reader(x.r, f) /\ Decoded(x.r, f, q0 + x.received)
    /\ x.r.kind = r0.kind /\ x.r.pos = r0.pos /\ x.r.qbuffer = r0.qbuffer
    /\ ~x.ignore => Len(x.data) = x.received /\ IsDataAt(r0.kind, f, q0, x.data)
    /\ ~x.stop => /\ x.r.result = "Ok"
                  /\ x.room > 0 /\ x.room <= x.size - x.received /\ x.room <= x.outSize
    /\ x.stop => \/ x.r.result \in {"End", "Error"}
                 \/ x.received = x.size
                 \/ Taken(x.r) = Len(f)

LEMMA TakenIsNat ==
    ASSUME NEW x, NEW f \in Seq(Cell), Reader(x, f)
    PROVE  /\ Taken(x) \in Nat /\ Taken(x) <= Len(f) /\ Len(f) \in Nat
           /\ \A y : Reader(y, f) /\ y.at = x.at /\ Len(y.in) < Len(x.in) => Taken(x) < Taken(y)
<1>1. x.at \in Nat /\ Len(x.in) \in Nat /\ x.at <= Len(f) /\ Len(x.in) <= x.at /\ Len(f) \in Nat
  BY DEF Reader, Readers
<1>2. Taken(x) = x.at - Len(x.in)
  BY DEF Taken
<1>3. Taken(x) \in Nat /\ Taken(x) <= Len(f)
  <2> DEFINE l == Len(x.in)
             a == x.at
             t == Taken(x)
  <2>1. a \in Nat /\ l \in Nat /\ a <= Len(f) /\ l <= a /\ t = a - l
    BY <1>1, <1>2
  <2> HIDE DEF l, a, t
  <2>2. t \in Nat /\ t <= Len(f)
    BY <1>1, <2>1
  <2> QED
    BY <2>2 DEF t
<1>4. ASSUME NEW y, Reader(y, f), y.at = x.at, Len(y.in) < Len(x.in) PROVE Taken(x) < Taken(y)
  <2> DEFINE l == Len(x.in)
             k == Len(y.in)
             a == x.at
  <2>1. a \in Nat /\ l \in Nat /\ k \in Nat /\ k < l
    BY <1>1, <1>4 DEF Reader, Readers
  <2>2. Taken(x) = a - l /\ Taken(y) = a - k
    BY <1>2, <1>4 DEF Taken
  <2> HIDE DEF l, k, a
  <2> QED
    BY <2>1, <2>2
<1> QED
  BY <1>1, <1>3, <1>4

Passed(x, y, r0, f, q0) ==
    /\ Passing(y, r0, f, q0)
    /\ y.stop \/ Taken(x.r) < Taken(y.r)
    /\ y.size = x.size /\ y.ignore = x.ignore

LEMMA PassStep ==
    ASSUME NEW r0, NEW f \in Seq(Cell), NEW q0 \in Nat, NEW x, Passing(x, r0, f, q0), ~x.stop
    PROVE  Passed(x, ReadPass(x), r0, f, q0)
<1> DEFINE a == x.r
           q == q0 + x.received
           b == Fill(a, f)
           y == ReadPass(x)
<1>1. /\ x \in ReadTurn /\ x.file = f /\ Reader(a, f) /\ Decoded(a, f, q) /\ a.result = "Ok"
      /\ a.kind = r0.kind /\ a.pos = r0.pos /\ a.qbuffer = r0.qbuffer
      /\ x.room > 0 /\ x.room <= x.size - x.received /\ x.room <= x.outSize
      /\ ~x.ignore => Len(x.data) = x.received /\ IsDataAt(r0.kind, f, q0, x.data)
      /\ ~x.ignore => x.outSize = x.size
  BY DEF Passing
<1>2. /\ x.received \in Nat /\ x.size \in Nat /\ x.outSize \in Nat /\ x.room \in Int
      /\ x.data \in Seq(Cell) /\ a \in Readers /\ a.kind \in Kind
  BY <1>1 DEF ReadTurn, Readers
<1>3. q \in Nat /\ x.room \in Nat \ {0}
  BY <1>1, <1>2
<1>4. /\ Reader(b, f) /\ Located(b, f, q) /\ Same(a, b) /\ Taken(b) = Taken(a)
      /\ b.in = <<>> => b = a /\ Taken(a) = Len(f)
  <2> HIDE DEF a, q
  <2> QED
    BY <1>1, <1>3, FillOK
<1>5. y = Decode(x, b)
  BY <1>1 DEF ReadPass
<1>6. CASE b.in = <<>>
  <2>1. y = [x EXCEPT !.stop = TRUE]
    BY <1>5, <1>6 DEF Decode
  <2>2. /\ y \in ReadTurn /\ y.file = f /\ y.r = a /\ y.received = x.received /\ y.data = x.data /\ y.stop
        /\ y.size = x.size /\ y.ignore = x.ignore /\ y.outSize = x.outSize
    BY <1>1, <2>1 DEF ReadTurn
  <2>3. Taken(a) = Len(f)
    BY <1>4, <1>6
  <2> HIDE DEF a, b, y
  <2>4. Passing(y, r0, f, q0)
    BY <1>1, <2>2, <2>3 DEF Passing, q
  <2> QED
    BY <1>1, <2>2, <2>4 DEF y, Passed
<1>7. CASE b.in # <<>>
  <2> DEFINE c == ReadHeader(b)
             u == Uncompress(c, x.room)
  <2>1. b.result = "Ok" /\ b.kind = a.kind /\ b.pos = a.pos /\ b.qbuffer = a.qbuffer
    BY <1>1, <1>4 DEF Same
  <2>2. /\ Reader(c, f) /\ Located(c, f, q) /\ ~c.needHeader
        /\ c.kind = b.kind /\ c.in = b.in /\ c.result = "Ok"
        /\ c.pos = b.pos /\ c.qbuffer = b.qbuffer /\ Taken(c) = Taken(b)
    <3> HIDE DEF b, q
    <3> QED
      BY <1>3, <1>4, <1>7, <2>1, ReadHeaderOK
  <2>3. Unpacked(c, f, q, x.room, u)
    <3> HIDE DEF b, c, q
    <3> QED
      BY <1>3, <1>7, <2>2, UncompressOK
  <2>4. y = AfterUncompress(x, u)
    BY <1>5, <1>7 DEF Decode
  <2> HIDE DEF a, b, c, u, y, q
  <2>5. /\ Reader(u.r, f) /\ Decoded(u.r, f, q + Len(u.out)) /\ u.r.kind = r0.kind
        /\ u.r.pos = r0.pos /\ u.r.qbuffer = r0.qbuffer /\ u.out \in Seq(Cell)
        /\ IsDataAt(r0.kind, f, q, u.out) /\ u.r \in Readers
        /\ r0.kind # "none" => Len(u.out) <= x.room
        /\ r0.kind = "none" => u.r.result = "End"
        /\ Len(u.out) \in Nat
    BY <1>1, <2>1, <2>2, <2>3 DEF Unpacked, Reader
  <2>6. Taken(a) < Taken(u.r)
    <3>1. u.r.at = c.at /\ Len(u.r.in) < Len(c.in)
      BY <2>3 DEF Unpacked
    <3>2. Taken(c) < Taken(u.r)
      BY <2>2, <2>5, <3>1, TakenIsNat
    <3> QED
      BY <1>4, <2>2, <3>2
  <2>7. Got(x, u, y)
    BY <1>1, <2>4, <2>5, AfterUncompressOK
  <2>8. /\ y \in ReadTurn /\ y.r = u.r /\ y.file = f /\ y.size = x.size /\ y.ignore = x.ignore
        /\ y.outSize = x.outSize
    BY <1>1, <2>7 DEF Got
  <2>9. Passing(y, r0, f, q0)
    <3>1. CASE u.r.result = "Error"
      <4>1. y.received = x.received /\ y.data = x.data /\ y.stop
        BY <2>7, <3>1 DEF Got
      <4>2. Decoded(u.r, f, q)
        BY <1>3, <2>5, <3>1, FailedAt
      <4> QED
        BY <1>1, <2>5, <2>8, <3>1, <4>1, <4>2 DEF Passing, q
    <3>2. CASE u.r.result # "Error"
      <4> DEFINE k == Len(u.out)
      <4>1. /\ y.received = x.received + k
            /\ ~x.ignore => y.data = x.data \o u.out
            /\ y.room = IF ~x.ignore \/ x.size - y.received < x.outSize THEN x.size - y.received
                        ELSE x.room
            /\ y.stop <=> u.r.result = "End" \/ y.received = x.size
        BY <2>7, <3>2 DEF Got
      <4>2. k \in Nat
        BY <2>5
      <4>3. Decoded(u.r, f, q0 + y.received)
        <5>1. q0 + (x.received + k) = q + k
          BY <1>2, <4>2 DEF q
        <5> QED
          BY <2>5, <4>1, <5>1
      <4>4. ~x.ignore => Len(y.data) = y.received /\ IsDataAt(r0.kind, f, q0, y.data)
        <5> SUFFICES ASSUME ~x.ignore PROVE Len(y.data) = y.received /\ IsDataAt(r0.kind, f, q0, y.data)
          OBVIOUS
        <5>1. Len(x.data) = x.received /\ IsDataAt(r0.kind, f, q0, x.data) /\ r0.kind \in Kind
          BY <1>1, <1>2
        <5>2. IsDataAt(r0.kind, f, q0 + Len(x.data), u.out)
          BY <2>5, <5>1 DEF q
        <5>3. IsDataAt(r0.kind, f, q0, x.data \o u.out)
          BY <1>2, <2>5, <5>1, <5>2, DataConcat
        <5>4. Len(x.data \o u.out) = Len(x.data) + Len(u.out)
          BY <1>2, <2>5, LenOfConcat
        <5> QED
          BY <4>1, <5>1, <5>3, <5>4
      <4>5. ~y.stop => /\ u.r.result = "Ok"
                       /\ y.room > 0 /\ y.room <= x.size - y.received /\ y.room <= x.outSize
        <5> SUFFICES ASSUME ~y.stop
                     PROVE  /\ u.r.result = "Ok"
                            /\ y.room > 0 /\ y.room <= x.size - y.received /\ y.room <= x.outSize
          OBVIOUS
        <5>1. u.r.result = "Ok" /\ y.received # x.size
          BY <2>5, <3>2, <4>1 DEF Readers
        <5>2. k <= x.room
          BY <2>5, <5>1
        <5> HIDE DEF k
        <5>3. y.received <= x.size /\ y.received \in Nat
          BY <1>1, <1>2, <4>1, <4>2, <5>2
        <5>4. x.size - y.received > 0
          BY <1>2, <5>1, <5>3
        <5>5. CASE ~x.ignore \/ x.size - y.received < x.outSize
          <6>1. y.room = x.size - y.received
            BY <4>1, <5>5
          <6>2. y.room <= x.outSize
            <7>1. CASE x.ignore
              BY <1>2, <5>3, <5>5, <6>1, <7>1
            <7>2. CASE ~x.ignore
              <8>1. x.outSize = x.size
                BY <1>1, <7>2
              <8> QED
                BY <1>2, <5>3, <6>1, <8>1
            <7> QED
              BY <7>1, <7>2
          <6> QED
            BY <1>2, <5>1, <5>3, <5>4, <6>1, <6>2
        <5>6. CASE ~(~x.ignore \/ x.size - y.received < x.outSize)
          <6>1. y.room = x.room /\ x.size - y.received >= x.outSize
            BY <1>2, <4>1, <5>3, <5>6
          <6> QED
            BY <1>1, <1>2, <5>1, <5>3, <6>1
        <5> QED
          BY <5>5, <5>6
      <4>6. y.stop => u.r.result = "End" \/ y.received = x.size
        BY <4>1
      <4> QED
        BY <1>1, <2>5, <2>8, <4>3, <4>4, <4>5, <4>6 DEF Passing
    <3> QED
      BY <3>1, <3>2
  <2> QED
    BY <1>1, <2>6, <2>8, <2>9 DEF y, a, Passed
<1> QED
  BY <1>6, <1>7

-----------------------------------------------------------------------------
(* What readData answers to a reader that has given q cells. *)
ReadBack(x, f, q, ignore, a) ==
    /\ Reader(a.r, f) /\ a.r.kind = x.kind /\ a.r.pos = x.pos /\ a.r.qbuffer = x.qbuffer
    /\ a.data \in Seq(Cell)
    /\ \E m \in Nat : Decoded(a.r, f, q + m) /\ (~ignore => m = Len(a.data))
    /\ ~ignore => IsDataAt(x.kind, f, q, a.data)
    /\ \/ a.n = Len(a.data)
       \/ a.n = -1 /\ a.data = <<>> /\ a.r.result = "Error"
    /\ a.n = 0 => a.r.result \in {"End", "Error"} \/ Taken(a.r) = Len(f)

LEMMA PassesEnd ==
    ASSUME NEW x, NEW f \in Seq(Cell), Reader(x, f), NEW q \in Nat, Decoded(x, f, q),
           x.result = "Ok", NEW size \in Nat \ {0}, NEW ignore \in BOOLEAN,
           NEW outSize \in Nat \ {0}, outSize <= size, ~ignore => outSize = size,
           NEW start,
           start = [r |-> x, file |-> f, size |-> size, ignore |-> ignore, outSize |-> outSize,
                    room |-> outSize, received |-> 0, data |-> <<>>, stop |-> FALSE]
    PROVE  LET e == Iterate(ReadPass, start, Len(f) + 2)
           IN  Passing(e, x, f, q) /\ e.stop /\ e.size = size /\ e.ignore = ignore
<1> DEFINE V == {y \in ReadTurn : Passing(y, x, f, q) /\ y.size = size /\ y.ignore = ignore}
           mu == [y \in V |-> Len(f) - Taken(y.r)]
           L == Len(f) + 2
<1>1. x \in Readers /\ Len(f) \in Nat /\ L \in Nat
  BY DEF Reader
<1>2. start \in V
  <2>1. /\ start \in ReadTurn /\ start.r = x /\ start.file = f /\ start.size = size
        /\ start.ignore = ignore /\ start.outSize = outSize /\ start.room = outSize
        /\ start.received = 0 /\ start.data = <<>> /\ ~start.stop
    BY <1>1, NoCells DEF ReadTurn
  <2>2. q + 0 = q /\ outSize > 0 /\ outSize <= size - 0
    OBVIOUS
  <2>3. IsDataAt(x.kind, f, q, <<>>)
    BY DEF IsDataAt
  <2>4. Passing(start, x, f, q)
    BY <2>1, <2>2, <2>3, NoCells DEF Passing
  <2> QED
    BY <2>1, <2>4
<1>3. \A y \in V : ~y.stop => ReadPass(y) \in V
  <2>1. TAKE y \in V
  <2>2. HAVE ~y.stop
  <2>3. Passing(y, x, f, q) /\ y.size = size /\ y.ignore = ignore
    BY <2>1
  <2>4. /\ Passing(ReadPass(y), x, f, q) /\ ReadPass(y).size = y.size
        /\ ReadPass(y).ignore = y.ignore
    <3> HIDE DEF V
    <3>1. Passed(y, ReadPass(y), x, f, q)
      BY <2>2, <2>3, PassStep
    <3> QED
      BY <3>1 DEF Passed
  <2> QED
    BY <2>3, <2>4 DEF Passing
<1>4. \A y \in V : Len(f) - Taken(y.r) \in Nat /\ Taken(y.r) \in Nat /\ Taken(y.r) <= Len(f)
  <2>1. TAKE y \in V
  <2>2. Reader(y.r, f)
    BY <2>1 DEF Passing
  <2> DEFINE t == Taken(y.r)
             l == Len(f)
  <2>3. t \in Nat /\ t <= l /\ l \in Nat
    BY <2>2, TakenIsNat
  <2> HIDE DEF t, l
  <2>4. l - t \in Nat
    BY <2>3
  <2> QED
    BY <2>3, <2>4 DEF l, t
<1>5. mu \in [V -> Nat]
  BY <1>4
<1>6. mu[start] < L
  <2>1. mu[start] = Len(f) - Taken(start.r)
    BY <1>2
  <2> DEFINE t == Taken(start.r)
             l == Len(f)
  <2>2. t \in Nat /\ l \in Nat /\ mu[start] = l - t /\ L = l + 2
    BY <1>1, <1>2, <1>4, <2>1
  <2> HIDE DEF t, l, mu, L
  <2> QED
    BY <2>2
<1>7. \A y \in V : ~y.stop => ReadPass(y).stop \/ mu[ReadPass(y)] < mu[y]
  <2>1. TAKE y \in V
  <2>2. HAVE ~y.stop
  <2>3. Passing(y, x, f, q) /\ ReadPass(y) \in V
    BY <1>3, <2>2
  <2>4. ReadPass(y).stop \/ Taken(y.r) < Taken(ReadPass(y).r)
    <3> HIDE DEF V
    <3>1. Passed(y, ReadPass(y), x, f, q)
      BY <2>2, <2>3, PassStep
    <3> QED
      BY <3>1 DEF Passed
  <2> DEFINE t == Taken(y.r)
             n == Taken(ReadPass(y).r)
             l == Len(f)
  <2>5. /\ t \in Nat /\ n \in Nat /\ l \in Nat /\ mu[y] = l - t /\ mu[ReadPass(y)] = l - n
        /\ ReadPass(y).stop \/ t < n
    BY <1>1, <1>4, <2>3, <2>4
  <2> HIDE DEF t, n, l, mu, V
  <2> QED
    BY <2>5
<1> HIDE DEF V, mu, L
<1>8. Iterate(ReadPass, start, L) \in V
  BY <1>1, <1>2, <1>3, ReadLoopStays
<1>9. Iterate(ReadPass, start, L).stop
  BY <1>1, <1>2, <1>3, <1>5, <1>6, <1>7, ReadLoopEnds
<1> QED
  BY <1>8, <1>9 DEF V, L

LEMMA ReadDataOK ==
    ASSUME NEW x, NEW f \in Seq(Cell), Reader(x, f), NEW q \in Nat, Decoded(x, f, q),
           NEW size \in Nat \ {0}, NEW ignore \in BOOLEAN
    PROVE  ReadBack(x, f, q, ignore, ReadData(x, f, size, ignore))
<1> DEFINE a == ReadData(x, f, size, ignore)
<1>1. x \in Readers /\ q + 0 = q /\ x.result \in {"Ok", "End", "Error"}
  BY DEF Reader, Readers
<1>2. IsDataAt(x.kind, f, q, <<>>)
  BY DEF IsDataAt
<1>3. CASE x.result = "End"
  <2>1. a = [r |-> x, n |-> 0, data |-> <<>>]
    BY <1>3 DEF ReadData
  <2>2. a.r = x /\ a.n = 0 /\ a.data = <<>>
    BY <2>1
  <2> HIDE DEF a
  <2>3. \E m \in Nat : Decoded(a.r, f, q + m) /\ (~ignore => m = Len(a.data))
    BY <1>1, <2>2, NoCells
  <2> QED
    BY <1>2, <1>3, <2>2, <2>3, NoCells DEF ReadBack, a
<1>4. CASE x.result = "Error"
  <2>1. a = [r |-> x, n |-> -1, data |-> <<>>]
    BY <1>4 DEF ReadData
  <2>2. a.r = x /\ a.n = -1 /\ a.data = <<>>
    BY <2>1
  <2> HIDE DEF a
  <2>3. \E m \in Nat : Decoded(a.r, f, q + m) /\ (~ignore => m = Len(a.data))
    BY <1>1, <2>2, NoCells
  <2> QED
    BY <1>2, <1>4, <2>2, <2>3, NoCells DEF ReadBack, a
<1>5. CASE x.result = "Ok"
  <2> DEFINE outSize == IF ignore THEN Min({size, 3 * Cap}) ELSE size
             start == [r |-> x, file |-> f, size |-> size, ignore |-> ignore, outSize |-> outSize,
                       room |-> outSize, received |-> 0, data |-> <<>>, stop |-> FALSE]
             e == Iterate(ReadPass, start, Len(f) + 2)
             Given == [k \in 1..e.received |-> IF k <= Len(e.data) THEN e.data[k] ELSE "bad"]
  <2>1. a = [r |-> e.r, n |-> e.received, data |-> Given]
    BY <1>5 DEF ReadData
  <2>2. outSize \in Nat \ {0} /\ outSize <= size /\ (~ignore => outSize = size)
    <3>1. Cap \in Nat /\ Cap >= 3
      BY Constants
    <3>2. 3 * Cap \in Nat /\ 3 * Cap # 0
      BY <3>1
    <3>3. Min({size, 3 * Cap}) = IF size <= 3 * Cap THEN size ELSE 3 * Cap
      BY <3>2, MinOfTwo
    <3> DEFINE m == Min({size, 3 * Cap})
               t == 3 * Cap
    <3>4. m = (IF size <= t THEN size ELSE t) /\ t \in Nat /\ t # 0
      BY <3>2, <3>3
    <3>5. outSize = IF ignore THEN m ELSE size
      OBVIOUS
    <3> HIDE DEF m, t, outSize
    <3> QED
      BY <3>4, <3>5
  <2> HIDE DEF outSize
  <2>3. Passing(e, x, f, q) /\ e.stop /\ e.size = size /\ e.ignore = ignore
    <3>1. start = [r |-> x, file |-> f, size |-> size, ignore |-> ignore, outSize |-> outSize,
                       room |-> outSize, received |-> 0, data |-> <<>>, stop |-> FALSE]
      OBVIOUS
    <3> HIDE DEF start
    <3> QED
      BY <1>5, <2>2, <3>1, PassesEnd
  <2> HIDE DEF e
  <2>4. /\ e.received \in Nat /\ e.data \in Seq(Cell)
        /\ Reader(e.r, f) /\ Decoded(e.r, f, q + e.received)
        /\ e.r.kind = x.kind /\ e.r.pos = x.pos /\ e.r.qbuffer = x.qbuffer
        /\ ~ignore => Len(e.data) = e.received /\ IsDataAt(x.kind, f, q, e.data)
        /\ \/ e.r.result \in {"End", "Error"}
           \/ e.received = size
           \/ Taken(e.r) = Len(f)
    BY <2>3 DEF Passing, ReadTurn
  <2>5. Given \in Seq(Cell) /\ Len(Given) = e.received
    <3>1. "bad" \in Cell
      BY Constants DEF Mark
    <3>2. \A k \in 1..e.received : (IF k <= Len(e.data) THEN e.data[k] ELSE "bad") \in Cell
      <4>1. TAKE k \in 1..e.received
      <4>2. CASE k <= Len(e.data)
        <5>1. k \in 1..Len(e.data)
          BY <2>4, <4>2
        <5>2. e.data[k] \in Cell
          BY <2>4, <5>1
        <5> QED
          BY <4>2, <5>2
      <4> QED
        BY <3>1, <4>2
    <3>3. Given \in [1..e.received -> Cell]
      BY <3>2
    <3> HIDE DEF Given
    <3> QED
      BY <2>4, <3>3
  <2>6. ~ignore => Given = e.data
    <3> SUFFICES ASSUME ~ignore PROVE Given = e.data
      OBVIOUS
    <3>1. Len(e.data) = e.received
      BY <2>4
    <3>2. Len(Given) = Len(e.data) /\ \A k \in 1..Len(e.data) : Given[k] = e.data[k]
      BY <2>5, <3>1
    <3> HIDE DEF Given
    <3> QED
      BY <2>4, <2>5, <3>2
  <2> HIDE DEF Given
  <2>7. a.r = e.r /\ a.n = e.received /\ a.data = Given
    BY <2>1
  <2> HIDE DEF a
  <2>8. \E m \in Nat : Decoded(a.r, f, q + m) /\ (~ignore => m = Len(a.data))
    BY <2>4, <2>5, <2>7
  <2>9. ~ignore => IsDataAt(x.kind, f, q, a.data)
    BY <2>4, <2>6, <2>7
  <2>10. a.n = 0 => a.r.result \in {"End", "Error"} \/ Taken(a.r) = Len(f)
    BY <2>4, <2>7
  <2> QED
    BY <2>4, <2>5, <2>7, <2>8, <2>9, <2>10 DEF ReadBack, a
<1> QED
  BY <1>1, <1>3, <1>4, <1>5

-----------------------------------------------------------------------------
(* QIODevice's buffer and position are no part of where the reader is.      *)
Elsewhere(x, y) ==
    /\ y \in Readers
    /\ y.kind = x.kind /\ y.at = x.at /\ y.in = x.in /\ y.result = x.result
    /\ y.needHeader = x.needHeader /\ y.compressed = x.compressed /\ y.stage = x.stage

LEMMA ElsewhereOK ==
    ASSUME NEW x, NEW y, Elsewhere(x, y), NEW f
    PROVE  /\ Reader(x, f) => Reader(y, f)
           /\ \A q : Decoded(x, f, q) => Decoded(y, f, q)
           /\ Taken(y) = Taken(x)
<1>1. Taken(y) = Taken(x)
  BY DEF Elsewhere, Taken
<1>2. Reader(x, f) => Reader(y, f)
  BY DEF Elsewhere, Reader
<1>3. ASSUME NEW q, Decoded(x, f, q) PROVE Decoded(y, f, q)
  <2>1. AtStage(x, f, q) => AtStage(y, f, q)
    BY <1>1 DEF AtStage, Elsewhere
  <2>2. InPlace(y, f)
    BY <1>1, <1>3 DEF Decoded, Located, InPlace, Elsewhere
  <2>3. Located(y, f, q)
    BY <1>1, <1>3, <2>1, <2>2 DEF Decoded, Located, Elsewhere
  <2> QED
    BY <1>3, <2>3 DEF Decoded, Elsewhere
<1> QED
  BY <1>1, <1>2, <1>3

(* What is given of what is there. *)
GivenOf(x, queue, device, b) ==
    /\ Elsewhere(device.r, b.r)
    /\ b.data \in Seq(Cell) /\ b.r.qbuffer \in Seq(Cell) /\ b.data \o b.r.qbuffer = queue
    /\ b.r.pos = x.pos + Len(b.data)
    /\ b.n = IF b.data = <<>> /\ device.n < 0 THEN -1 ELSE Len(b.data)
    /\ b.data = <<>> => queue = <<>>

LEMMA SplitQueue ==
    ASSUME NEW queue \in Seq(Cell), NEW n \in Nat, n <= Len(queue)
    PROVE  /\ SubSeq(queue, 1, n) \in Seq(Cell) /\ Len(SubSeq(queue, 1, n)) = n
           /\ SubSeq(queue, n + 1, Len(queue)) \in Seq(Cell)
           /\ SubSeq(queue, 1, n) \o SubSeq(queue, n + 1, Len(queue)) = queue
<1> DEFINE l == Len(queue)
           a == SubSeq(queue, 1, n)
           b == SubSeq(queue, n + 1, l)
<1>1. a \in Seq(Cell) /\ Len(a) = n /\ \A i \in 1..n : a[i] = queue[i]
  OBVIOUS
<1>2. /\ b \in Seq(Cell) /\ Len(b) = l - n /\ \A i \in 1..(l - n) : b[i] = queue[n + i]
  <2>1. n + 1 \in 1..(l + 1) /\ l \in Nat
    OBVIOUS
  <2> QED
    BY <2>1
<1> HIDE DEF a, b
<1>3. a \o b \in Seq(Cell) /\ Len(a \o b) = l
  <2>1. Len(a \o b) = Len(a) + Len(b) /\ a \o b \in Seq(Cell)
    BY <1>1, <1>2, LenOfConcat
  <2>2. l \in Nat
    OBVIOUS
  <2> HIDE DEF l
  <2> QED
    BY <1>1, <1>2, <2>1, <2>2
<1> DEFINE c == a \o b
<1>4. /\ \A i \in 1..Len(a) : c[i] = a[i]
      /\ \A i \in 1..Len(b) : c[Len(a) + i] = b[i]
  BY <1>1, <1>2
<1>5. a \o b = queue
  <2>1. l \in Nat /\ c \in Seq(Cell) /\ Len(c) = l /\ Len(queue) = l
    BY <1>3
  <2> HIDE DEF c, l
  <2>2. ASSUME NEW i \in 1..l PROVE c[i] = queue[i]
    <3>1. CASE i <= n
      BY <1>1, <1>4, <3>1
    <3>2. CASE ~(i <= n)
      <4>1. i - n \in 1..(l - n) /\ n + (i - n) = i
        BY <2>1, <3>2
      <4> QED
        BY <1>1, <1>2, <1>4, <4>1
    <3> QED
      BY <3>1, <3>2
  <2>3. c = queue
    BY <2>1, <2>2
  <2> QED
    BY <2>3 DEF c
<1> QED
  BY <1>1, <1>2, <1>5 DEF a, b, l

LEMMA AnsweredOK ==
    ASSUME NEW x \in Readers, NEW size \in Nat \ {0}, NEW queue \in Seq(Cell),
           NEW device, device.r \in Readers
    PROVE  GivenOf(x, queue, device, Answered(x, size, queue, device))
<1> DEFINE n == Min({size, Len(queue)})
           given == SubSeq(queue, 1, n)
           left == SubSeq(queue, n + 1, Len(queue))
           y == [device.r EXCEPT !.qbuffer = left, !.pos = x.pos + n]
           b == Answered(x, size, queue, device)
<1>1. n \in Nat /\ n <= Len(queue) /\ (n = 0 <=> Len(queue) = 0)
  <2>1. n = IF size <= Len(queue) THEN size ELSE Len(queue)
    BY MinOfTwo
  <2> HIDE DEF n
  <2> QED
    BY <2>1
<1>2. b.r = y /\ b.n = (IF n = 0 /\ device.n < 0 THEN -1 ELSE n) /\ b.data = given
  BY DEF Answered
<1> HIDE DEF n
<1>3. /\ given \in Seq(Cell) /\ Len(given) = n /\ left \in Seq(Cell) /\ given \o left = queue
  BY <1>1, SplitQueue
<1> HIDE DEF given, left
<1>4. x.pos \in Nat
  BY DEF Readers
<1>5. x.pos + n \in Nat
  BY <1>1, <1>4
<1>6. Elsewhere(device.r, y) /\ y.qbuffer = left /\ y.pos = x.pos + n
  BY <1>3, <1>5 DEF Elsewhere, Readers
<1> HIDE DEF y, b
<1>7. given = <<>> <=> n = 0
  BY <1>1, <1>3
<1>8. given = <<>> => queue = <<>>
  BY <1>1, <1>7
<1> QED
  BY <1>2, <1>3, <1>6, <1>7, <1>8 DEF GivenOf, b

-----------------------------------------------------------------------------
(* What read answers to a reader that has given q cells, or has them in    *)
(* QIODevice's buffer.                                                     *)
Delivered(x, f, q, ignore, read) ==
    /\ Reader(read.r, f) /\ read.r.kind = x.kind
    /\ read.data \in Seq(Cell) /\ read.r.qbuffer \in Seq(Cell)
    /\ read.r.pos = x.pos + Len(read.data)
    /\ \/ read.n = Len(read.data)
       \/ read.n = -1 /\ read.data = <<>> /\ read.r.result = "Error"
    /\ \E m \in Nat : Decoded(read.r, f, q + m)
    /\ ~ignore => \E e \in Seq(Cell) : /\ read.data \o read.r.qbuffer = x.qbuffer \o e
                                       /\ IsDataAt(x.kind, f, q, e)
                                       /\ Decoded(read.r, f, q + Len(e))
    /\ read.n = 0 => /\ read.data = <<>> /\ read.r.qbuffer = <<>>
                     /\ read.r.result \in {"End", "Error"} \/ Taken(read.r) = Len(f)

LEMMA QReadOK ==
    ASSUME NEW x, NEW f \in Seq(Cell), Reader(x, f), NEW q \in Nat, Decoded(x, f, q),
           NEW size \in Nat \ {0}, NEW ignore \in BOOLEAN
    PROVE  Delivered(x, f, q, ignore, QRead(x, f, size, ignore))
<1> DEFINE kept == Min({size, Len(x.qbuffer)})
           rest == size - kept
           read == QRead(x, f, size, ignore)
<1>1. x \in Readers /\ x.qbuffer \in Seq(Cell) /\ Len(x.qbuffer) \in Nat /\ x.pos \in Nat
  BY DEF Reader, Readers
<1>2. kept = IF size <= Len(x.qbuffer) THEN size ELSE Len(x.qbuffer)
  BY <1>1, MinOfTwo
<1>3. CASE rest = 0
  <2> DEFINE device == [r |-> x, n |-> 0]
  <2>1. read = Answered(x, size, x.qbuffer, device)
    BY <1>3 DEF QRead
  <2>2. device.r = x /\ device.n = 0
    OBVIOUS
  <2> HIDE DEF device
  <2>3. GivenOf(x, x.qbuffer, device, read)
    BY <1>1, <2>1, <2>2, AnsweredOK
  <2>4. x.qbuffer # <<>>
    <3> HIDE DEF kept
    <3>1. kept = size
      <4>1. kept \in Int
        BY <1>1, <1>2
      <4> QED
        BY <1>3, <4>1
    <3>2. Len(x.qbuffer) # 0
      BY <1>1, <1>2, <3>1
    <3> QED
      BY <3>2, NoCells
  <2> HIDE DEF read, kept
  <2>5. /\ Elsewhere(x, read.r) /\ read.data \in Seq(Cell) /\ read.r.qbuffer \in Seq(Cell)
        /\ read.data \o read.r.qbuffer = x.qbuffer /\ read.r.pos = x.pos + Len(read.data)
        /\ read.data # <<>>
        /\ read.n = Len(read.data)
    BY <2>2, <2>3, <2>4 DEF GivenOf
  <2>6. /\ Reader(read.r, f) /\ Decoded(read.r, f, q) /\ read.r.kind = x.kind
    BY <2>5, ElsewhereOK DEF Elsewhere
  <2>7. q + 0 = q /\ Len(<<>>) = 0 /\ <<>> \in Seq(Cell) /\ x.qbuffer \o <<>> = x.qbuffer
    BY <1>1
  <2>8. IsDataAt(x.kind, f, q, <<>>)
    BY DEF IsDataAt
  <2>9. \E e \in Seq(Cell) : /\ read.data \o read.r.qbuffer = x.qbuffer \o e
                             /\ IsDataAt(x.kind, f, q, e)
                             /\ Decoded(read.r, f, q + Len(e))
    <3>1. /\ read.data \o read.r.qbuffer = x.qbuffer \o <<>>
          /\ Decoded(read.r, f, q + Len(<<>>))
      BY <2>5, <2>6, <2>7
    <3> QED
      BY <2>7, <2>8, <3>1
  <2>10. \E m \in Nat : Decoded(read.r, f, q + m)
    BY <2>6, <2>7
  <2>11. read.n # 0
    <3>1. Len(read.data) # 0
      BY <2>5
    <3> QED
      BY <2>5, <3>1
  <2> QED
    BY <2>5, <2>6, <2>9, <2>10, <2>11 DEF Delivered, read
<1>4. CASE rest # 0
  <2> DEFINE much == IF rest < QCap THEN QCap ELSE rest
             device == ReadData(x, f, much, ignore)
             queue == x.qbuffer \o device.data
  <2>1. kept = Len(x.qbuffer)
    <3> HIDE DEF kept
    <3>1. kept # size
      <4>1. kept \in Int
        BY <1>1, <1>2
      <4> QED
        BY <1>4, <4>1
    <3> QED
      BY <1>2, <3>1
  <2>2. much \in Nat \ {0}
    <3> HIDE DEF kept
    <3>1. rest \in Nat \ {0}
      <4>1. kept \in Nat /\ kept <= size
        BY <1>1, <1>2
      <4> QED
        BY <1>4, <4>1
    <3> HIDE DEF rest
    <3>2. QCap \in Nat /\ QCap # 0
      BY Constants
    <3> QED
      BY <3>1, <3>2
  <2>3. SubSeq(x.qbuffer, 1, kept) = x.qbuffer
    BY <1>1, <2>1
  <2>4. read = Answered(x, size, SubSeq(x.qbuffer, 1, kept) \o device.data, device)
    BY <1>4 DEF QRead
  <2> HIDE DEF kept, much, rest
  <2>5. ReadBack(x, f, q, ignore, device)
    BY <2>2, ReadDataOK
  <2> HIDE DEF device
  <2>6. device.r \in Readers /\ device.data \in Seq(Cell)
    BY <2>5 DEF ReadBack, Reader
  <2>7. queue \in Seq(Cell)
    BY <1>1, <2>6, LenOfConcat
  <2>8. GivenOf(x, queue, device, read)
    <3>1. read = Answered(x, size, queue, device)
      BY <2>3, <2>4
    <3> HIDE DEF queue
    <3> QED
      BY <1>1, <2>6, <2>7, <3>1, AnsweredOK
  <2> HIDE DEF read
  <2>9. /\ Elsewhere(device.r, read.r) /\ read.data \in Seq(Cell) /\ read.r.qbuffer \in Seq(Cell)
        /\ read.data \o read.r.qbuffer = x.qbuffer \o device.data
        /\ read.r.pos = x.pos + Len(read.data)
        /\ read.n = IF read.data = <<>> /\ device.n < 0 THEN -1 ELSE Len(read.data)
        /\ read.data = <<>> => x.qbuffer \o device.data = <<>>
    BY <2>8 DEF GivenOf
  <2>10. /\ Reader(read.r, f) /\ read.r.kind = x.kind /\ Taken(read.r) = Taken(device.r)
         /\ read.r.result = device.r.result
         /\ \A m : Decoded(device.r, f, m) => Decoded(read.r, f, m)
    <3>1. Reader(device.r, f) /\ device.r.kind = x.kind
      BY <2>5 DEF ReadBack
    <3> QED
      BY <2>9, <3>1, ElsewhereOK DEF Elsewhere
  <2>11. /\ \E m \in Nat : Decoded(device.r, f, q + m) /\ (~ignore => m = Len(device.data))
         /\ ~ignore => IsDataAt(x.kind, f, q, device.data)
         /\ \/ device.n = Len(device.data)
            \/ device.n = -1 /\ device.data = <<>> /\ device.r.result = "Error"
         /\ device.n = 0 => device.r.result \in {"End", "Error"} \/ Taken(device.r) = Len(f)
    BY <2>5 DEF ReadBack
  <2>12. \/ read.n = Len(read.data)
         \/ read.n = -1 /\ read.data = <<>> /\ read.r.result = "Error"
    <3>1. CASE read.data = <<>> /\ device.n < 0
      <4>1. device.n = -1 /\ device.r.result = "Error"
        <5>1. Len(device.data) \in Nat
          BY <2>6
        <5> QED
          BY <2>11, <3>1, <5>1
      <4> QED
        BY <2>9, <2>10, <3>1, <4>1
    <3>2. CASE ~(read.data = <<>> /\ device.n < 0)
      BY <2>9, <3>2
    <3> QED
      BY <3>1, <3>2
  <2>13. \E m \in Nat : Decoded(read.r, f, q + m)
    BY <2>10, <2>11
  <2>14. ~ignore => \E e \in Seq(Cell) : /\ read.data \o read.r.qbuffer = x.qbuffer \o e
                                         /\ IsDataAt(x.kind, f, q, e)
                                         /\ Decoded(read.r, f, q + Len(e))
    <3> SUFFICES ASSUME ~ignore
                 PROVE  \E e \in Seq(Cell) : /\ read.data \o read.r.qbuffer = x.qbuffer \o e
                                             /\ IsDataAt(x.kind, f, q, e)
                                             /\ Decoded(read.r, f, q + Len(e))
      OBVIOUS
    <3>1. IsDataAt(x.kind, f, q, device.data) /\ Decoded(read.r, f, q + Len(device.data))
      BY <2>10, <2>11
    <3> QED
      BY <2>6, <2>9, <3>1
  <2>15. read.n = 0 => /\ read.data = <<>> /\ read.r.qbuffer = <<>>
                       /\ read.r.result \in {"End", "Error"} \/ Taken(read.r) = Len(f)
    <3> SUFFICES ASSUME read.n = 0
                 PROVE  /\ read.data = <<>> /\ read.r.qbuffer = <<>>
                        /\ read.r.result \in {"End", "Error"} \/ Taken(read.r) = Len(f)
      OBVIOUS
    <3>1. read.data = <<>> /\ ~(device.n < 0)
      <4>1. CASE read.data = <<>> /\ device.n < 0
        BY <2>9, <4>1
      <4>2. CASE ~(read.data = <<>> /\ device.n < 0)
        <5>1. Len(read.data) = 0
          BY <2>9, <4>2
        <5>2. read.data = <<>>
          BY <2>9, <5>1
        <5> QED
          BY <4>2, <5>2
      <4> QED
        BY <4>1, <4>2
    <3>2. x.qbuffer \o device.data = <<>>
      BY <2>9, <3>1
    <3>3. Len(x.qbuffer) + Len(device.data) = 0
      BY <1>1, <2>6, <3>2, LenOfConcat, NoCells
    <3>4. Len(device.data) = 0
      <4>1. Len(device.data) \in Nat
        BY <2>6
      <4> DEFINE l == Len(x.qbuffer)
                 k == Len(device.data)
      <4>2. l \in Nat /\ k \in Nat /\ l + k = 0
        BY <1>1, <3>3, <4>1
      <4> HIDE DEF l, k
      <4>3. k = 0
        BY <4>2
      <4> QED
        BY <4>3 DEF k
    <3>5. device.n = 0
      BY <2>11, <3>1, <3>4
    <3>6. read.r.qbuffer = <<>>
      <4>1. <<>> \o read.r.qbuffer = <<>>
        BY <2>9, <3>1, <3>2
      <4>2. <<>> \o read.r.qbuffer = read.r.qbuffer
        BY <2>9
      <4> QED
        BY <4>1, <4>2
    <3> QED
      BY <2>10, <2>11, <3>1, <3>5, <3>6
  <2> QED
    BY <2>9, <2>10, <2>12, <2>13, <2>14, <2>15 DEF Delivered, read
<1> QED
  BY <1>3, <1>4

(* The start. *)
LEMMA StartOK ==
    ASSUME NEW f \in Seq(Cell), NEW y, y \in Readers,
           y.at = 0, y.in = <<>>, y.result = "Ok", y.needHeader <=> y.kind # "raw",
           y.stage = (IF y.kind = "raw" THEN "body" ELSE "head"),
           y.kind # "gzip" => y.compressed
    PROVE  Reader(y, f) /\ Decoded(y, f, 0)
<1>1. y.kind \in Kind /\ Len(f) \in Nat /\ Len(y.in) = 0
  BY DEF Readers
<1>2. Taken(y) = 0
  <2>1. Taken(y) = 0 - 0
    BY <1>1 DEF Taken
  <2> QED
    BY <2>1
<1>3. Reader(y, f)
  BY <1>1 DEF Reader
<1>4. HasData(y.kind, f, 0) /\ InPlace(y, f)
  BY <1>1 DEF HasData, InPlace
<1>5. ~Plain(y.kind, f) => AtStage(y, f, 0)
  <2> SUFFICES ASSUME ~Plain(y.kind, f) PROVE AtStage(y, f, 0)
    OBVIOUS
  <2>1. CASE y.kind = "raw"
    BY <1>2, <2>1 DEF AtStage, Shift, Opened
  <2>2. CASE y.kind # "raw"
    BY <1>2, <2>2 DEF AtStage, Shift
  <2> QED
    BY <2>1, <2>2
<1>6. ~Plain(y.kind, f) /\ ~y.needHeader => y.compressed
  BY <1>1
<1>7. Plain(y.kind, f) => y.kind \in {"none", "gzip"}
  BY DEF Plain
<1>8. Located(y, f, 0)
  BY <1>2, <1>4, <1>5, <1>6, <1>7 DEF Located
<1> QED
  BY <1>3, <1>8 DEF Decoded

-----------------------------------------------------------------------------
(* The reader of a session: where it is in the file, and, unless it has    *)
(* been elsewhere, that it has been given the data in front of that.       *)
OnlyData(x, f, q, d, how) ==
    /\ d \in Seq(Cell) /\ Len(d) = x.pos
    /\ d \o x.qbuffer \in Seq(Cell) /\ Len(d \o x.qbuffer) = q
    /\ IsDataAt(x.kind, f, 0, d \o x.qbuffer)
    /\ Decoded(x, f, q)
    /\ how = "failed" => Incomplete(x.kind, f)
    /\ how = "filled" => \A n \in Nat : Complete(x.kind, f, n) => n = Len(d)

ReaderInv ==
    phase = "reading" =>
        /\ Reader(r, file) /\ \E q \in Nat : Decoded(r, file, q)
        /\ ~strayed => OnlyData(r, file, Len(total \o r.qbuffer), total, outcome)

LEMMA IncompleteIsNone ==
    ASSUME NEW kind \in Kind, NEW f \in Seq(Cell), Incomplete(kind, f), NEW n \in Nat
    PROVE  ~Complete(kind, f, n)
<1> SUFFICES ASSUME Complete(kind, f, n) PROVE FALSE
  OBVIOUS
<1> DEFINE s == Shift(kind, f)
           l == Len(f)
<1>1. s \in Nat /\ l \in Nat /\ s + n + EndLength(kind) <= l
  BY ShiftIsNat DEF Complete
<1>2. EndLength(kind) \in Nat
  BY DEF EndLength
<1> HIDE DEF s, l
<1>3. n \in 0..l
  BY <1>1, <1>2
<1> QED
  BY <1>3 DEF Incomplete, l

(* A reader with nothing before it knows what the file is. *)
LEMMA EndIsKnown ==
    ASSUME NEW x, NEW f \in Seq(Cell), Reader(x, f), NEW q \in Nat, Decoded(x, f, q),
           x.result \in {"End", "Error"} \/ Taken(x) = Len(f)
    PROVE  \A n \in Nat : Complete(x.kind, f, n) => n = q
<1>1. x \in Readers /\ x.kind \in Kind /\ Located(x, f, q) /\ x.result \in {"Ok", "End", "Error"}
  BY DEF Reader, Readers, Decoded
<1> SUFFICES ASSUME NEW n \in Nat, Complete(x.kind, f, n) PROVE n = q
  OBVIOUS
<1>2. ~Plain(x.kind, f)
  BY DEF Complete
<1>3. CASE x.result = "Ok"
  <2>1. Incomplete(x.kind, f)
    BY <1>1, <1>3, NoEnd
  <2> QED
    BY <1>1, <2>1, IncompleteIsNone
<1>4. CASE x.result = "Error"
  <2>1. Incomplete(x.kind, f)
    BY <1>1, <1>2, <1>4 DEF Located
  <2> QED
    BY <1>1, <2>1, IncompleteIsNone
<1>5. CASE x.result = "End"
  <2>1. Complete(x.kind, f, q)
    BY <1>1, <1>2, <1>5 DEF Located
  <2> QED
    BY <1>1, <2>1, CompleteOnce
<1> QED
  BY <1>1, <1>3, <1>4, <1>5

LEMMA ErrorIsKnown ==
    ASSUME NEW x, NEW f \in Seq(Cell), NEW q, Decoded(x, f, q), x.result = "Error"
    PROVE  Incomplete(x.kind, f)
BY DEF Decoded, Located

(* A reader that starts has been given nothing. *)
LEMMA NewReader ==
    ASSUME NEW x, NEW f \in Seq(Cell), x \in Readers,
           x.at = 0, x.in = <<>>, x.result = "Ok", x.needHeader <=> x.kind # "raw",
           x.stage = (IF x.kind = "raw" THEN "body" ELSE "head"),
           x.kind # "gzip" => x.compressed, x.pos = 0, x.qbuffer = <<>>
    PROVE  /\ Reader(x, f) /\ \E q \in Nat : Decoded(x, f, q)
           /\ OnlyData(x, f, Len(<<>> \o x.qbuffer), <<>>, "none")
<1>1. Reader(x, f) /\ Decoded(x, f, 0)
  BY StartOK
<1>2. <<>> \o x.qbuffer = <<>> /\ Len(<<>>) = 0 /\ <<>> \in Seq(Cell)
  OBVIOUS
<1>3. IsDataAt(x.kind, f, 0, <<>>)
  BY DEF IsDataAt
<1>4. OnlyData(x, f, 0, <<>>, "none")
  BY <1>1, <1>2, <1>3 DEF OnlyData
<1> QED
  BY <1>1, <1>2, <1>4

LEMMA RewindOK ==
    ASSUME NEW x, NEW f \in Seq(Cell), Reader(x, f)
    PROVE  /\ Reader(Rewind(x), f) /\ Decoded(Rewind(x), f, 0) /\ Rewind(x).kind = x.kind
           /\ OnlyData(Rewind(x), f, Len(<<>> \o Rewind(x).qbuffer), <<>>, "none")
<1> DEFINE y == Rewind(x)
<1>1. x \in Readers /\ (x.kind # "gzip" => x.compressed)
  BY DEF Reader
<1>2. /\ y \in Readers /\ y.kind = x.kind /\ y.compressed = x.compressed /\ y.at = 0 /\ y.in = <<>>
      /\ y.result = "Ok" /\ (y.needHeader <=> y.kind # "raw")
      /\ y.stage = (IF y.kind = "raw" THEN "body" ELSE "head") /\ y.pos = 0 /\ y.qbuffer = <<>>
  BY <1>1, NoCells DEF Rewind, Readers
<1> HIDE DEF y
<1>3. /\ Reader(y, f) /\ OnlyData(y, f, Len(<<>> \o y.qbuffer), <<>>, "none")
  BY <1>1, <1>2, NewReader
<1>4. Decoded(y, f, 0)
  BY <1>1, <1>2, StartOK
<1> QED
  BY <1>2, <1>3, <1>4 DEF y

LEMMA SeekOK ==
    ASSUME NEW x, NEW f \in Seq(Cell), Reader(x, f), NEW q \in Nat, Decoded(x, f, q),
           NEW pos \in Nat, pos # x.pos
    PROVE  Reader(Seek(x, f, pos).r, f) /\ \E m \in Nat : Decoded(Seek(x, f, pos).r, f, m)
<1>1. x.pos \in Nat
  BY DEF Reader, Readers
<1>2. CASE pos = 0
  <2>1. Seek(x, f, pos).r = Rewind(x)
    <3>1. ~(x.pos < pos) /\ ~(x.pos = pos) /\ ~(x.pos > pos /\ pos # 0) /\ x.pos # pos /\ pos = 0
      BY <1>1, <1>2
    <3>2. Seek(x, f, pos) = [r |-> Rewind(x), ok |-> TRUE]
      BY <3>1 DEF Seek
    <3> QED
      BY <3>2
  <2> QED
    BY <2>1, RewindOK
<1>3. CASE pos # 0 /\ x.pos > pos
  <2>1. Seek(x, f, pos).r = x
    <3>1. ~(x.pos < pos) /\ ~(x.pos = pos)
      BY <1>1, <1>3
    <3>2. Seek(x, f, pos) = [r |-> x, ok |-> pos - x.pos = -1]
      BY <1>3, <3>1 DEF Seek
    <3> QED
      BY <3>2
  <2> QED
    BY <2>1
<1>4. CASE pos # 0 /\ x.pos < pos
  <2> DEFINE b == Rewind(x)
             skipped == QRead(b, f, pos, TRUE)
             y == [skipped.r EXCEPT !.pos = pos]
  <2>1. Seek(x, f, pos).r = y
    <3>1. ~(x.pos > pos) /\ ~(x.pos = pos)
      BY <1>1, <1>4
    <3>2. Seek(x, f, pos) = [r |-> y, ok |-> skipped.n = pos]
      BY <1>4, <3>1 DEF Seek
    <3> QED
      BY <3>2
  <2>2. Reader(b, f) /\ Decoded(b, f, 0)
    BY RewindOK
  <2> HIDE DEF b
  <2>3. Delivered(b, f, 0, TRUE, skipped)
    BY <1>4, <2>2, QReadOK
  <2> HIDE DEF skipped
  <2>4. Reader(skipped.r, f) /\ \E m \in Nat : Decoded(skipped.r, f, 0 + m)
    BY <2>3 DEF Delivered
  <2>5. Elsewhere(skipped.r, y)
    BY <2>4 DEF Elsewhere, Reader, Readers
  <2> HIDE DEF y
  <2>6. PICK m \in Nat : Decoded(skipped.r, f, 0 + m)
    BY <2>4
  <2>7. 0 + m = m
    OBVIOUS
  <2>8. Reader(y, f) /\ Decoded(y, f, m)
    BY <2>4, <2>5, <2>6, <2>7, ElsewhereOK
  <2> QED
    BY <2>1, <2>8
<1> QED
  BY <1>1, <1>2, <1>3, <1>4

-----------------------------------------------------------------------------
LEMMA OpenToReadOK ==
    ASSUME WriterInv, NEW kind \in ReadKind, OpenToRead(kind)
    PROVE  ReaderInv'
<1> DEFINE x == OpenReader(kind)
<1>1. file \in Seq(Cell) /\ file' = file /\ kind \in Kind
  BY Constants DEF WriterInv, OpenToRead
<1>2. r' = x /\ total' = <<>> /\ outcome' = "none"
  BY DEF OpenToRead
<1>3. /\ x \in Readers /\ x.at = 0 /\ x.in = <<>> /\ x.result = "Ok" /\ (x.needHeader <=> x.kind # "raw")
      /\ x.stage = (IF x.kind = "raw" THEN "body" ELSE "head")
      /\ x.compressed /\ x.pos = 0 /\ x.qbuffer = <<>>
  BY <1>1, NoCells DEF OpenReader, Readers
<1> HIDE DEF x
<1>4. /\ Reader(x, file) /\ \E q \in Nat : Decoded(x, file, q)
      /\ OnlyData(x, file, Len(<<>> \o x.qbuffer), <<>>, "none")
  BY <1>1, <1>3, NewReader
<1> QED
  BY <1>1, <1>2, <1>4 DEF ReaderInv

LEMMA ReadAgainOK ==
    ASSUME WriterInv, ReaderInv, ReadAgain
    PROVE  ReaderInv'
<1>1. file \in Seq(Cell) /\ file' = file /\ Reader(r, file)
  BY DEF WriterInv, ReaderInv, ReadAgain
<1>2. r' = Rewind(r) /\ total' = <<>> /\ outcome' = "none"
  <2>1. r.pos \in Nat /\ r.pos # 0
    BY <1>1 DEF ReadAgain, Reader, Readers
  <2>2. ~(r.pos < 0) /\ ~(r.pos = 0) /\ ~(r.pos > 0 /\ 0 # 0)
    BY <2>1
  <2>3. Seek(r, file, 0) = [r |-> Rewind(r), ok |-> TRUE]
    BY <2>2 DEF Seek
  <2> QED
    BY <2>3 DEF ReadAgain
<1> DEFINE x == Rewind(r)
<1>3. /\ Reader(x, file) /\ Decoded(x, file, 0)
      /\ OnlyData(x, file, Len(<<>> \o x.qbuffer), <<>>, "none")
  BY <1>1, RewindOK
<1> HIDE DEF x
<1>4. r' = x
  BY <1>2 DEF x
<1> QED
  BY <1>1, <1>2, <1>3, <1>4 DEF ReaderInv

LEMMA SeekToOK ==
    ASSUME WriterInv, ReaderInv, NEW pos \in SeekPos, SeekTo(pos)
    PROVE  ReaderInv'
<1>1. file \in Seq(Cell) /\ file' = file /\ Reader(r, file) /\ pos \in Nat /\ pos # r.pos
  BY Constants DEF WriterInv, ReaderInv, SeekTo
<1>2. PICK q \in Nat : Decoded(r, file, q)
  BY DEF ReaderInv, SeekTo
<1> DEFINE x == Seek(r, file, pos).r
<1>3. Reader(x, file) /\ \E m \in Nat : Decoded(x, file, m)
  BY <1>1, <1>2, SeekOK
<1>4. r' = x /\ strayed'
  BY DEF SeekTo
<1> HIDE DEF x
<1> QED
  BY <1>1, <1>3, <1>4 DEF ReaderInv

LEMMA ReadOn ==
    ASSUME NEW x, NEW f \in Seq(Cell), Reader(x, f), NEW q \in Nat, NEW d,
           OnlyData(x, f, q, d, "none"), NEW size \in Nat \ {0},
           NEW read, Delivered(x, f, q, FALSE, read),
           NEW how, how = CASE read.n < 0 -> "failed" [] read.n = 0 -> "filled" [] read.n > 0 -> "none"
    PROVE  OnlyData(read.r, f, Len((d \o read.data) \o read.r.qbuffer), d \o read.data, how)
<1> DEFINE qb == x.qbuffer
           b == read.r.qbuffer
           given == read.data
<1>1. /\ d \in Seq(Cell) /\ Len(d) = x.pos /\ Len(d \o qb) = q /\ IsDataAt(x.kind, f, 0, d \o qb)
      /\ Decoded(x, f, q) /\ x \in Readers /\ qb \in Seq(Cell) /\ x.kind \in Kind /\ d \o qb \in Seq(Cell)
  BY DEF OnlyData, Reader, Readers
<1>2. /\ Reader(read.r, f) /\ read.r.kind = x.kind /\ given \in Seq(Cell) /\ b \in Seq(Cell)
      /\ read.r.pos = x.pos + Len(given)
      /\ \/ read.n = Len(given)
         \/ read.n = -1 /\ given = <<>> /\ read.r.result = "Error"
      /\ read.n = 0 => /\ given = <<>> /\ b = <<>>
                       /\ read.r.result \in {"End", "Error"} \/ Taken(read.r) = Len(f)
      /\ \E e \in Seq(Cell) : /\ given \o b = qb \o e /\ IsDataAt(x.kind, f, q, e)
                              /\ Decoded(read.r, f, q + Len(e))
  BY DEF Delivered
<1> HIDE DEF qb, b, given
<1>3. PICK e \in Seq(Cell) : /\ given \o b = qb \o e /\ IsDataAt(x.kind, f, q, e)
                             /\ Decoded(read.r, f, q + Len(e))
  BY <1>2
<1> DEFINE all == (d \o qb) \o e
<1>4. (d \o given) \o b = all
  <2>0. d \in Seq(Cell) /\ given \in Seq(Cell) /\ b \in Seq(Cell) /\ qb \in Seq(Cell) /\ e \in Seq(Cell)
    BY <1>1, <1>2
  <2>1. given \o b = qb \o e
    BY <1>3
  <2>2. SameAll(d, given, b, qb, e)
    BY <2>0, <2>1, Regroup
  <2> QED
    BY <2>2 DEF SameAll
<1>5. all \in Seq(Cell) /\ Len(all) = q + Len(e)
  BY <1>1, LenOfConcat
<1>6. IsDataAt(x.kind, f, 0, all)
  <2> DEFINE c == d \o qb
  <2>1. 0 + Len(c) = q /\ c \in Seq(Cell) /\ IsDataAt(x.kind, f, 0, c)
    BY <1>1
  <2> HIDE DEF c
  <2>2. IsDataAt(x.kind, f, 0, c \o e)
    BY <1>1, <1>3, <2>1, DataConcat
  <2> QED
    BY <2>2 DEF c
<1> HIDE DEF all
<1>7. d \o given \in Seq(Cell) /\ Len(d \o given) = read.r.pos
  <2>1. Len(d \o given) = Len(d) + Len(given) /\ d \o given \in Seq(Cell)
    BY <1>1, <1>2, LenOfConcat
  <2> QED
    BY <1>1, <1>2, <2>1
<1>8. Decoded(read.r, f, Len(all))
  BY <1>3, <1>5
<1>9. how = "failed" => Incomplete(x.kind, f)
  <2> SUFFICES ASSUME how = "failed" PROVE Incomplete(x.kind, f)
    OBVIOUS
  <2>1. read.n < 0
    <3>1. Len(given) \in Nat
      BY <1>2
    <3>2. read.n \in Int
      BY <1>2, <3>1
    <3> QED
      BY <3>2
  <2>2. read.r.result = "Error"
    <3>1. Len(given) \in Nat
      BY <1>2
    <3> QED
      BY <1>2, <2>1, <3>1
  <2> QED
    BY <1>2, <1>8, <2>2, ErrorIsKnown
<1>10. how = "filled" => \A n \in Nat : Complete(x.kind, f, n) => n = Len(d \o given)
  <2> SUFFICES ASSUME how = "filled" PROVE \A n \in Nat : Complete(x.kind, f, n) => n = Len(d \o given)
    OBVIOUS
  <2>1. read.n = 0
    <3>1. Len(given) \in Nat
      BY <1>2
    <3>2. read.n \in Int
      BY <1>2, <3>1
    <3> QED
      BY <3>2
  <2>2. b = <<>> /\ (read.r.result \in {"End", "Error"} \/ Taken(read.r) = Len(f))
    BY <1>2, <2>1
  <2>3. all = d \o given
    <3>1. (d \o given) \o <<>> = d \o given
      BY <1>7
    <3> QED
      BY <1>4, <2>2, <3>1
  <2>4. Len(all) \in Nat
    BY <1>5
  <2>5. \A n \in Nat : Complete(read.r.kind, f, n) => n = Len(all)
    BY <1>2, <1>8, <2>2, <2>4, EndIsKnown
  <2> QED
    BY <1>2, <2>3, <2>5
<1>11. OnlyData(read.r, f, Len(all), d \o given, how)
  BY <1>2, <1>4, <1>5, <1>6, <1>7, <1>8, <1>9, <1>10 DEF OnlyData, b
<1> QED
  BY <1>4, <1>11 DEF given, b

-----------------------------------------------------------------------------
LEMMA ReadAtEndOK ==
    ASSUME WriterInv, ReaderInv, NEW n \in ReadSize, Read(n), AtEnd(r, file)
    PROVE  ReaderInv'
<1>1. /\ phase = "reading" /\ file' = file /\ r' = r /\ total' = total /\ outcome' = "filled"
      /\ strayed' = strayed /\ file \in Seq(Cell) /\ Reader(r, file) /\ phase' = phase
  BY DEF Read, ReaderInv, WriterInv
<1>2. r.result = "End" /\ r.qbuffer = <<>>
  BY DEF AtEnd
<1>3. \E q \in Nat : Decoded(r, file, q)
  BY <1>1 DEF ReaderInv
<1>4. ASSUME ~strayed PROVE OnlyData(r, file, Len(total \o r.qbuffer), total, "filled")
  <2>1. OnlyData(r, file, Len(total \o r.qbuffer), total, outcome)
    BY <1>1, <1>4 DEF ReaderInv
  <2>2. total \in Seq(Cell) /\ Decoded(r, file, Len(total \o r.qbuffer))
    BY <2>1 DEF OnlyData
  <2>3. total \o <<>> = total /\ Len(total) \in Nat
    BY <2>2
  <2>4. Decoded(r, file, Len(total))
    BY <1>2, <2>2, <2>3
  <2>5. \A m \in Nat : Complete(r.kind, file, m) => m = Len(total)
    BY <1>1, <1>2, <2>3, <2>4, EndIsKnown
  <2> QED
    BY <2>1, <2>5 DEF OnlyData
<1> QED
  BY <1>1, <1>3, <1>4 DEF ReaderInv

LEMMA ReadMoreOK ==
    ASSUME WriterInv, ReaderInv, NEW n \in ReadSize, Read(n), ~AtEnd(r, file)
    PROVE  ReaderInv'
<1> DEFINE read == QRead(r, file, n, FALSE)
           how == CASE read.n < 0 -> "failed" [] read.n = 0 -> "filled" [] read.n > 0 -> "none"
<1>1. /\ phase = "reading" /\ outcome = "none" /\ file' = file /\ r' = read.r
      /\ total' = total \o read.data /\ outcome' = how /\ strayed' = strayed
      /\ file \in Seq(Cell) /\ Reader(r, file) /\ n \in Nat \ {0}
  BY Constants DEF Read, ReaderInv, WriterInv
<1>2. ASSUME NEW q \in Nat, Decoded(r, file, q) PROVE Delivered(r, file, q, FALSE, read)
  BY <1>1, <1>2, QReadOK
<1> HIDE DEF read
<1>3. Reader(read.r, file) /\ \E q \in Nat : Decoded(read.r, file, q)
  <2>1. PICK q \in Nat : Decoded(r, file, q)
    BY <1>1 DEF ReaderInv
  <2>2. Delivered(r, file, q, FALSE, read)
    BY <1>2, <2>1
  <2>3. Reader(read.r, file) /\ \E m \in Nat : Decoded(read.r, file, q + m)
    BY <2>2 DEF Delivered
  <2>4. PICK m \in Nat : Decoded(read.r, file, q + m)
    BY <2>3
  <2>5. q + m \in Nat
    OBVIOUS
  <2> QED
    BY <2>3, <2>4, <2>5
<1>4. ASSUME ~strayed
      PROVE  OnlyData(read.r, file, Len((total \o read.data) \o read.r.qbuffer), total \o read.data, how)
  <2> DEFINE q == Len(total \o r.qbuffer)
  <2>1. OnlyData(r, file, q, total, "none")
    BY <1>1, <1>4 DEF ReaderInv
  <2>2. q \in Nat /\ Decoded(r, file, q)
    BY <2>1 DEF OnlyData
  <2> HIDE DEF q
  <2>3. Delivered(r, file, q, FALSE, read)
    BY <1>2, <2>2
  <2> DEFINE outcome1 == how
  <2>4. outcome1 = CASE read.n < 0 -> "failed" [] read.n = 0 -> "filled" [] read.n > 0 -> "none"
    OBVIOUS
  <2> HIDE DEF outcome1
  <2>5. OnlyData(read.r, file, Len((total \o read.data) \o read.r.qbuffer), total \o read.data, outcome1)
    BY <1>1, <2>1, <2>2, <2>3, <2>4, ReadOn
  <2> QED
    BY <2>5 DEF outcome1
<1> HIDE DEF how
<1> QED
  BY <1>1, <1>3, <1>4 DEF ReaderInv

LEMMA ReaderInit ==
    ASSUME Init
    PROVE  ReaderInv
BY DEF Init, ReaderInv

LEMMA ReaderStep ==
    ASSUME WriterInv, ReaderInv, [Next]_vars
    PROVE  ReaderInv'
<1>1. ASSUME NEW kind \in WriteKind, NEW lazy \in BOOLEAN, NEW room \in DiskRoom,
             OpenToWrite(kind, lazy, room)
      PROVE  ReaderInv'
  BY <1>1 DEF OpenToWrite, ReaderInv
<1>2. ASSUME NEW n \in WriteSize, NEW givesUp \in BOOLEAN, Write(n, givesUp) PROVE ReaderInv'
  <2>1. phase' # "reading"
    BY <1>2 DEF Write, WriterGone
  <2> QED
    BY <2>1 DEF ReaderInv
<1>3. ASSUME CloseDevice PROVE ReaderInv'
  BY <1>3 DEF CloseDevice, ReaderInv
<1>4. ASSUME NEW renamed \in BOOLEAN, CommitSave(renamed) PROVE ReaderInv'
  BY <1>4 DEF CommitSave, WriterGone, ReaderInv
<1>5. ASSUME DiskFreed PROVE ReaderInv'
  BY <1>5 DEF DiskFreed, ReaderInv
<1>6. ASSUME Crash PROVE ReaderInv'
  BY <1>6 DEF Crash, WriterGone, ReaderInv
<1>7. ASSUME NEW kind \in ReadKind, OpenToRead(kind) PROVE ReaderInv'
  BY <1>7, OpenToReadOK
<1>8. ASSUME NEW n \in ReadSize, Read(n) PROVE ReaderInv'
  BY <1>8, ReadAtEndOK, ReadMoreOK
<1>9. ASSUME ReadAgain PROVE ReaderInv'
  BY <1>9, ReadAgainOK
<1>10. ASSUME NEW pos \in SeekPos, SeekTo(pos) PROVE ReaderInv'
  BY <1>10, SeekToOK
<1>11. ASSUME CloseReader PROVE ReaderInv'
  BY <1>11 DEF CloseReader, ReaderInv
<1>12. ASSUME UNCHANGED vars PROVE ReaderInv'
  BY <1>12 DEF vars, readerVars, writerVars, ReaderInv
<1> QED
  BY <1>1, <1>2, <1>3, <1>4, <1>5, <1>6, <1>7, <1>8, <1>9, <1>10, <1>11, <1>12 DEF Next

(* The reader, in whatever it is told to do: where it is in the file, and  *)
(* that it has given what is in front of that.                             *)
THEOREM ReaderKeeps == Spec => []ReaderInv
<1>1. Init => ReaderInv
  BY ReaderInit
<1>2. WriterInv /\ ReaderInv /\ [Next]_vars => ReaderInv'
  BY ReaderStep
<1> QED
  BY <1>1, <1>2, WriterKeeps, PTL DEF Spec

-----------------------------------------------------------------------------
(* CellsOf leaves no mark. *)
LEMMA CellsOfNoMarks ==
    ASSUME NEW f \in Seq(Cell)
    PROVE  \A i \in 1..Len(CellsOf(f)) : CellsOf(f)[i] \notin Mark
<1>1. PICK p : IsPicked(p, f, Len(f)) /\ CellsOf(f) = p[Len(f)]
  BY CellsArePicked
<1>2. /\ p \in [0..Len(f) -> Seq(Cell)] /\ p[0] = <<>> /\ Len(f) \in Nat
      /\ \A m \in 1..Len(f) : p[m] = IF f[m] \in Mark THEN p[m - 1] ELSE Append(p[m - 1], f[m])
  BY <1>1 DEF IsPicked
<1> DEFINE Clean(d) == \A i \in 1..Len(d) : d[i] \notin Mark
           P == {n \in 0..Len(f) : Clean(p[n])}
<1>3. 0 \in P
  BY <1>2
<1>4. ASSUME NEW n \in 1..Len(f), n - 1 \in P PROVE n \in P
  <2> DEFINE d == p[n - 1]
             c == f[n]
  <2>1. d \in Seq(Cell) /\ Clean(d) /\ c \in Cell /\ p[n] = IF c \in Mark THEN d ELSE Append(d, c)
    <3>1. n - 1 \in 0..Len(f)
      BY <1>2
    <3> QED
      BY <1>2, <1>4, <3>1
  <2> HIDE DEF d, c
  <2>2. Clean(p[n])
    <3>1. CASE c \in Mark
      BY <2>1, <3>1
    <3>2. CASE c \notin Mark
      <4> DEFINE e == Append(d, c)
      <4>1. e \in Seq(Cell) /\ Len(e) = Len(d) + 1 /\ e[Len(d) + 1] = c /\ \A i \in 1..Len(d) : e[i] = d[i]
        BY <2>1
      <4>2. Len(d) \in Nat
        BY <2>1
      <4> HIDE DEF e
      <4>3. ASSUME NEW i \in 1..Len(e) PROVE e[i] \notin Mark
        <5>1. i = Len(d) + 1 \/ i \in 1..Len(d)
          BY <4>1, <4>2
        <5> QED
          BY <2>1, <3>2, <4>1, <5>1
      <4>4. p[n] = e
        BY <2>1, <3>2 DEF e
      <4> QED
        BY <4>3, <4>4
    <3> QED
      BY <3>1, <3>2
  <2>3. n \in 0..Len(f)
    BY <1>2
  <2> QED
    BY <2>2, <2>3
<1>5. \A n \in 0..Len(f) : n \in P
  <2> HIDE DEF P
  <2> QED
    BY <1>2, <1>3, <1>4, UpTo
<1>6. Len(f) \in 0..Len(f)
  BY <1>2
<1>7. Clean(p[Len(f)])
  BY <1>5, <1>6
<1> QED
  BY <1>1, <1>7

-----------------------------------------------------------------------------
(* The data of a file, in the part of it that has it. *)
LEMMA DataPart ==
    ASSUME NEW kind \in Kind, NEW f \in Seq(Cell), ~Plain(kind, f), Opened(kind, f),
           NEW d \in Seq(Cell), HasData(kind, f, Len(d)), IsDataAt(kind, f, 0, d),
           NEW m \in Nat, Shift(kind, f) + Len(d) <= m, m <= Len(f)
    PROVE  LET rest == SubSeq(f, Shift(kind, f) + Len(d) + 1, m)
           IN  rest \in Seq(Cell) /\ CellsOf(SubSeq(f, 1, m)) = d \o CellsOf(rest)
<1> DEFINE s == Shift(kind, f)
           l == Len(d)
           F == Len(f)
           n == s + l
           head == SubSeq(f, 1, s)
           data == SubSeq(f, s + 1, n)
           rest == SubSeq(f, n + 1, m)
<1>1. s \in {0, 1} /\ s \in Nat /\ l \in Nat /\ F \in Nat /\ n \in Nat
  BY ShiftIsNat
<1>2. n <= m /\ m <= F /\ s <= n
  BY <1>1
<1>3. /\ s = 1 => f[1] = Opening(kind)
      /\ \A i \in 1..l : d[i] = f[s + 0 + i] /\ f[s + i] \notin Mark
  BY <1>1 DEF Opened, HasData, IsDataAt
<1> HIDE DEF s, l, n
<1>4. SubSeq(f, 1, m) = (head \o data) \o rest
  <2>1. SubSeq(f, 1, s) \o SubSeq(f, s + 1, n) = SubSeq(f, 1, n)
    <3>1. 1 \in 1..(Len(f) + 1) /\ s \in (1 - 1)..Len(f) /\ n \in s..Len(f)
      BY <1>1, <1>2
    <3> QED
      BY <3>1, ConcatAdjacentSubSeq
  <2>2. SubSeq(f, 1, n) \o SubSeq(f, n + 1, m) = SubSeq(f, 1, m)
    <3>1. 1 \in 1..(Len(f) + 1) /\ n \in (1 - 1)..Len(f) /\ m \in n..Len(f)
      BY <1>1, <1>2
    <3> QED
      BY <3>1, ConcatAdjacentSubSeq
  <2> QED
    BY <2>1, <2>2
<1>5. head \in Seq(Cell) /\ Len(head) = s /\ \A i \in 1..s : head[i] = f[0 + i]
  <2>1. 0 + s <= Len(f) /\ 0 + 1 = 1 /\ 0 + s = s
    BY <1>1, <1>2
  <2>2. /\ SubSeq(f, 0 + 1, 0 + s) \in Seq(Cell) /\ Len(SubSeq(f, 0 + 1, 0 + s)) = s
        /\ \A i \in 1..s : SubSeq(f, 0 + 1, 0 + s)[i] = f[0 + i]
    BY <1>1, <2>1, PartOfFile
  <2> QED
    BY <2>1, <2>2
<1>6. data \in Seq(Cell) /\ Len(data) = l /\ \A i \in 1..l : data[i] = f[s + i]
  <2>1. s + l <= Len(f) /\ n = s + l
    BY <1>1, <1>2 DEF n
  <2>2. /\ SubSeq(f, s + 1, s + l) \in Seq(Cell) /\ Len(SubSeq(f, s + 1, s + l)) = l
        /\ \A i \in 1..l : SubSeq(f, s + 1, s + l)[i] = f[s + i]
    BY <1>1, <2>1, PartOfFile
  <2> QED
    BY <2>1, <2>2
<1>7. rest \in Seq(Cell)
  <2> DEFINE k == m - n
  <2>1. k \in Nat /\ n + k = m /\ n + k <= Len(f)
    BY <1>1, <1>2
  <2> HIDE DEF k
  <2>2. SubSeq(f, n + 1, n + k) \in Seq(Cell)
    BY <1>1, <2>1, PartOfFile
  <2> QED
    BY <2>1, <2>2
<1> HIDE DEF head, data, rest
<1>8. CellsOf(head) = <<>>
  <2>1. ASSUME NEW i \in 1..Len(head) PROVE head[i] \in Mark
    <3>1. i = 1 /\ s = 1
      BY <1>1, <1>5
    <3>2. head[i] = Opening(kind)
      BY <1>3, <1>5, <3>1
    <3> QED
      BY <3>2 DEF Opening, Mark
  <2> QED
    BY <1>5, <2>1, CellsOfMarks
<1>9. data = d
  <2>1. \A i \in 1..l : data[i] = d[i]
    <3>1. TAKE i \in 1..l
    <3>2. d[i] = f[s + 0 + i]
      BY <1>3
    <3>3. data[i] = f[s + i]
      BY <1>6
    <3>4. s + 0 + i = s + i
      BY <1>1
    <3> QED
      BY <3>2, <3>3, <3>4
  <2>2. Len(d) = l
    BY DEF l
  <2> QED
    BY <1>6, <2>1, <2>2
<1>10. CellsOf(d) = d
  <2>1. \A i \in 1..Len(d) : d[i] \notin Mark
    <3>1. TAKE i \in 1..Len(d)
    <3>2. d[i] = f[s + 0 + i] /\ s + 0 + i = s + i /\ f[s + i] \notin Mark
      BY <1>1, <1>3 DEF l
    <3> QED
      BY <3>2
  <2> QED
    BY <2>1, CellsOfData
<1>11. CellsOf((head \o d) \o rest) = d \o CellsOf(rest)
  <2>1. head \o d \in Seq(Cell)
    BY <1>5, LenOfConcat
  <2>2. CellsOf((head \o d) \o rest) = CellsOf(head \o d) \o CellsOf(rest)
    BY <1>7, <2>1, CellsOfConcat
  <2>3. CellsOf(head \o d) = CellsOf(head) \o CellsOf(d)
    BY <1>5, CellsOfConcat
  <2>4. <<>> \o d = d
    OBVIOUS
  <2> QED
    BY <1>8, <1>10, <2>2, <2>3, <2>4
<1> QED
  BY <1>4, <1>7, <1>9, <1>11 DEF rest, n, s, l

LEMMA PrefixOf ==
    ASSUME NEW a \in Seq(Cell), NEW b \in Seq(Cell)
    PROVE  IsPrefix(a, a \o b)
<1>1. a = SubSeq(a \o b, 1, Len(a)) /\ Len(a) \in 0..Len(a \o b)
  BY PartOf
<1>2. SubSeq(a, 1, Len(a)) = a
  BY SubSeqFull
<1>3. Len(a) <= Len(a \o b)
  BY <1>1
<1> QED
  BY <1>1, <1>2, <1>3 DEF IsPrefix

LEMMA PrefixOfAll ==
    ASSUME NEW a \in Seq(Cell), NEW f \in Seq(Cell), Len(a) <= Len(f),
           \A i \in 1..Len(a) : a[i] = f[i]
    PROVE  IsPrefix(a, f) /\ (Len(a) = Len(f) => a = f)
<1> DEFINE s == SubSeq(f, 1, Len(a))
<1>1. s \in Seq(Cell) /\ Len(s) = Len(a) /\ \A i \in 1..Len(a) : s[i] = f[i]
  OBVIOUS
<1> HIDE DEF s
<1>2. s = a
  BY <1>1
<1>3. SubSeq(a, 1, Len(a)) = a
  BY SubSeqFull
<1>4. Len(a) = Len(f) => a = f
  OBVIOUS
<1> QED
  BY <1>2, <1>3, <1>4 DEF IsPrefix, s

(* Where the mark is that ends a file of a kind. *)
LEMMA WholeLengthIs ==
    ASSUME NEW kind \in Kind, file \in Seq(Cell)
    PROVE  LET m == WholeLength(kind)
           IN  \/ m = 0 /\ \A n \in 1..Len(file) : file[n] # EndMark(kind)
               \/ /\ m \in 1..Len(file) /\ file[m] = EndMark(kind)
                  /\ \A n \in 1..Len(file) : file[n] = EndMark(kind) => m <= n
<1> DEFINE Ends == {n \in 1..Len(file) : file[n] = EndMark(kind)}
<1>1. WholeLength(kind) = IF Ends = {} THEN 0 ELSE Min(Ends)
  BY DEF WholeLength
<1>2. CASE Ends = {}
  BY <1>1, <1>2
<1>3. CASE Ends # {}
  <2>1. Ends \subseteq Nat
    OBVIOUS
  <2>2. \E x \in Ends : \A y \in Ends : x <= y
    <3> HIDE DEF Ends
    <3> QED
      BY <1>3, <2>1, Least
  <2>3. Min(Ends) \in Ends /\ \A y \in Ends : Min(Ends) <= y
    <3>1. Min(Ends) = CHOOSE x \in Ends : \A y \in Ends : x <= y
      BY DEF Min
    <3> HIDE DEF Ends
    <3> QED
      BY <2>2, <3>1
  <2> QED
    BY <1>1, <1>3, <2>3
<1> QED
  BY <1>2, <1>3

-----------------------------------------------------------------------------
(* Whole files, cell by cell. *)
HeadLength(kind) == IF kind = "raw" THEN 0 ELSE 1

Laid(kind, d, e) ==
    /\ e \in Seq(Cell) /\ Len(e) = HeadLength(kind) + Len(d) + EndLength(kind)
    /\ HeadLength(kind) = 1 => e[1] = Opening(kind)
    /\ \A i \in 1..Len(d) : e[HeadLength(kind) + i] = d[i]
    /\ e[HeadLength(kind) + Len(d) + 1] = "end"
    /\ kind = "gzip" => /\ e[HeadLength(kind) + Len(d) + 2] = "crc"
                        /\ e[HeadLength(kind) + Len(d) + 3] = "length"

LEMMA ConcatCells ==
    ASSUME NEW a \in Seq(Cell), NEW b \in Seq(Cell)
    PROVE  /\ a \o b \in Seq(Cell) /\ Len(a \o b) = Len(a) + Len(b)
           /\ \A i \in 1..Len(a) : (a \o b)[i] = a[i]
           /\ \A i \in 1..Len(b) : (a \o b)[Len(a) + i] = b[i]
OBVIOUS

(* A sequence that is another one between two more. *)
LEMMA Between ==
    ASSUME NEW a \in Seq(Cell), NEW d \in Seq(Cell), NEW b \in Seq(Cell)
    PROVE  LET e == (a \o d) \o b
           IN  /\ e \in Seq(Cell) /\ Len(e) = Len(a) + Len(d) + Len(b)
               /\ \A i \in 1..Len(a) : e[i] = a[i]
               /\ \A i \in 1..Len(d) : e[Len(a) + i] = d[i]
               /\ \A i \in 1..Len(b) : e[Len(a) + Len(d) + i] = b[i]
<1> DEFINE c == a \o d
           e == c \o b
           k == Len(a)
           l == Len(d)
           m == Len(b)
<1>1. /\ c \in Seq(Cell) /\ Len(c) = k + l /\ k \in Nat /\ l \in Nat /\ m \in Nat
      /\ \A i \in 1..k : c[i] = a[i]
      /\ \A i \in 1..l : c[k + i] = d[i]
  BY ConcatCells
<1> HIDE DEF c
<1>2. /\ e \in Seq(Cell) /\ Len(e) = Len(c) + m
      /\ \A i \in 1..Len(c) : e[i] = c[i]
      /\ \A i \in 1..m : e[Len(c) + i] = b[i]
  BY <1>1, ConcatCells
<1> HIDE DEF e, k, l, m
<1>3. \A i \in 1..k : e[i] = a[i]
  <2>1. TAKE i \in 1..k
  <2>2. i \in 1..Len(c)
    BY <1>1
  <2> QED
    BY <1>1, <1>2, <2>2
<1>4. \A i \in 1..l : e[k + i] = d[i]
  <2>1. TAKE i \in 1..l
  <2>2. k + i \in 1..Len(c)
    BY <1>1
  <2> QED
    BY <1>1, <1>2, <2>2
<1> QED
  BY <1>1, <1>2, <1>3, <1>4 DEF k, l, m, e, c

LEMMA EncodedIsLaid ==
    ASSUME NEW kind \in Kind \ {"none"}, NEW d \in Seq(Cell)
    PROVE  Laid(kind, d, Encoded(kind, d))
<1> DEFINE a == IF kind = "raw" THEN <<>> ELSE <<Opening(kind)>>
           b == IF kind = "gzip" THEN <<"end", "crc", "length">> ELSE <<"end">>
           e == (a \o d) \o b
<1>1. {"header", "magic", "end", "crc", "length"} \subseteq Cell
  BY Constants DEF Mark
<1>2. a \in Seq(Cell) /\ Len(a) = HeadLength(kind) /\ (HeadLength(kind) = 1 => a[1] = Opening(kind))
  <2>1. Opening(kind) \in Cell
    BY <1>1 DEF Opening
  <2>2. CASE kind = "raw"
    BY <2>2, NoCells DEF HeadLength
  <2>3. CASE kind # "raw"
    <3> DEFINE o == Opening(kind)
    <3>1. o \in Cell
      BY <2>1
    <3> HIDE DEF o
    <3>2. <<o>> \in Seq(Cell) /\ Len(<<o>>) = 1 /\ <<o>>[1] = o
      BY <3>1
    <3> QED
      BY <2>3, <3>2 DEF HeadLength, o
  <2> QED
    BY <2>2, <2>3
<1>3. /\ b \in Seq(Cell) /\ Len(b) = EndLength(kind) /\ b[1] = "end"
      /\ kind = "gzip" => b[2] = "crc" /\ b[3] = "length"
  <2>1. CASE kind = "gzip"
    <3>1. <<"end", "crc", "length">> \in Seq(Cell) /\ Len(<<"end", "crc", "length">>) = 3
      BY <1>1
    <3>2. b = <<"end", "crc", "length">>
      BY <2>1
    <3> QED
      BY <2>1, <3>1, <3>2 DEF EndLength
  <2>2. CASE kind # "gzip"
    <3>1. <<"end">> \in Seq(Cell) /\ Len(<<"end">>) = 1
      BY <1>1
    <3>2. b = <<"end">>
      BY <2>2
    <3> QED
      BY <2>2, <3>1, <3>2 DEF EndLength
  <2> QED
    BY <2>1, <2>2
<1>4. Encoded(kind, d) = e
  <2>1. <<>> \o d = d
    OBVIOUS
  <2>2. CASE kind = "gzip"
    <3>1. Encoded(kind, d) = ((<<"header">> \o d) \o <<"end">>) \o Footer
      BY <2>2 DEF Encoded
    <3>2. <<"end">> \o Footer = <<"end", "crc", "length">>
      <4> DEFINE x == <<"end">> \o Footer
                 y == <<"end", "crc", "length">>
      <4>1. /\ <<"end">> \in Seq(Cell) /\ Footer \in Seq(Cell) /\ y \in Seq(Cell) /\ Len(y) = 3
            /\ Len(<<"end">>) = 1 /\ Len(Footer) = 2 /\ Footer[1] = "crc" /\ Footer[2] = "length"
            /\ <<"end">>[1] = "end" /\ y[1] = "end" /\ y[2] = "crc" /\ y[3] = "length"
        BY <1>1 DEF Footer
      <4>2. /\ x \in Seq(Cell) /\ Len(x) = Len(<<"end">>) + Len(Footer)
            /\ \A i \in 1..Len(<<"end">>) : x[i] = <<"end">>[i]
            /\ \A i \in 1..Len(Footer) : x[Len(<<"end">>) + i] = Footer[i]
        BY <4>1, ConcatCells
      <4> HIDE DEF x, y
      <4>3. Len(x) = 3 /\ x[1] = "end" /\ x[1 + 1] = "crc" /\ x[1 + 2] = "length"
        <5>1. 1 \in 1..Len(<<"end">>) /\ 1 \in 1..Len(Footer) /\ 2 \in 1..Len(Footer)
          BY <4>1
        <5> QED
          BY <4>1, <4>2, <5>1
      <4>4. \A i \in 1..3 : x[i] = y[i]
        BY <4>1, <4>3
      <4>5. x = y
        BY <4>1, <4>2, <4>3, <4>4
      <4> QED
        BY <4>5 DEF x, y
    <3>3. <<"end">> \in Seq(Cell) /\ Footer \in Seq(Cell) /\ <<"header">> \o d \in Seq(Cell)
      <4>1. <<"header">> \in Seq(Cell) /\ <<"end">> \in Seq(Cell) /\ Footer \in Seq(Cell)
        BY <1>1 DEF Footer
      <4> QED
        BY <4>1, LenOfConcat
    <3>4. ((<<"header">> \o d) \o <<"end">>) \o Footer = (<<"header">> \o d) \o (<<"end">> \o Footer)
      BY <3>3, Associative
    <3>5. a = <<"header">> /\ b = <<"end", "crc", "length">>
      BY <2>2 DEF Opening
    <3> QED
      BY <3>1, <3>2, <3>4, <3>5
  <2>3. CASE kind = "raw"
    BY <2>1, <2>3 DEF Encoded
  <2>4. CASE kind \in {"xz", "bzip2"}
    BY <2>4 DEF Encoded, Opening
  <2> QED
    BY <2>2, <2>3, <2>4 DEF Kind
<1> HIDE DEF a, b
<1>5. /\ e \in Seq(Cell) /\ Len(e) = Len(a) + Len(d) + Len(b)
      /\ \A i \in 1..Len(a) : e[i] = a[i]
      /\ \A i \in 1..Len(d) : e[Len(a) + i] = d[i]
      /\ \A i \in 1..Len(b) : e[Len(a) + Len(d) + i] = b[i]
  BY <1>2, <1>3, Between
<1> HIDE DEF e
<1>6. HeadLength(kind) = 1 => e[1] = Opening(kind)
  BY <1>2, <1>5
<1>7. e[HeadLength(kind) + Len(d) + 1] = "end"
  <2>1. 1 \in 1..Len(b)
    BY <1>3 DEF EndLength
  <2> QED
    BY <1>2, <1>3, <1>5, <2>1
<1>8. kind = "gzip" => /\ e[HeadLength(kind) + Len(d) + 2] = "crc"
                       /\ e[HeadLength(kind) + Len(d) + 3] = "length"
  <2> SUFFICES ASSUME kind = "gzip" PROVE /\ e[HeadLength(kind) + Len(d) + 2] = "crc"
                                           /\ e[HeadLength(kind) + Len(d) + 3] = "length"
    OBVIOUS
  <2>1. 2 \in 1..Len(b) /\ 3 \in 1..Len(b)
    BY <1>3 DEF EndLength
  <2> QED
    BY <1>2, <1>3, <1>5, <2>1
<1>9. \A i \in 1..Len(d) : e[HeadLength(kind) + i] = d[i]
  BY <1>2, <1>5
<1>10. Len(e) = HeadLength(kind) + Len(d) + EndLength(kind)
  BY <1>2, <1>3, <1>5
<1> QED
  BY <1>4, <1>5, <1>6, <1>7, <1>8, <1>9, <1>10 DEF Laid

(* Which sequence it is. *)
LEMMA LaidIsOne ==
    ASSUME NEW kind \in Kind, NEW d \in Seq(Cell), NEW e, Laid(kind, d, e), NEW g, Laid(kind, d, g)
    PROVE  e = g
<1> DEFINE h == HeadLength(kind)
           l == Len(d)
           t == EndLength(kind)
<1>1. h \in {0, 1} /\ l \in Nat /\ t = (IF kind = "gzip" THEN 3 ELSE 1)
  BY DEF HeadLength, EndLength
<1>2. /\ e \in Seq(Cell) /\ Len(e) = h + l + t
      /\ h = 1 => e[1] = Opening(kind)
      /\ \A i \in 1..l : e[h + i] = d[i]
      /\ e[h + l + 1] = "end"
      /\ kind = "gzip" => e[h + l + 2] = "crc" /\ e[h + l + 3] = "length"
  BY DEF Laid
<1>3. /\ g \in Seq(Cell) /\ Len(g) = h + l + t
      /\ h = 1 => g[1] = Opening(kind)
      /\ \A i \in 1..l : g[h + i] = d[i]
      /\ g[h + l + 1] = "end"
      /\ kind = "gzip" => g[h + l + 2] = "crc" /\ g[h + l + 3] = "length"
  BY DEF Laid
<1> HIDE DEF h, l, t
<1>4. ASSUME NEW i \in 1..(h + l + t) PROVE e[i] = g[i]
  <2>1. \/ i = 1 /\ h = 1
        \/ i - h \in 1..l /\ h + (i - h) = i
        \/ i = h + l + 1
        \/ kind = "gzip" /\ (i = h + l + 2 \/ i = h + l + 3)
    BY <1>1
  <2>2. CASE i - h \in 1..l /\ h + (i - h) = i
    <3>1. e[h + (i - h)] = d[i - h] /\ g[h + (i - h)] = d[i - h]
      BY <1>2, <1>3, <2>2
    <3> QED
      BY <2>2, <3>1
  <2> QED
    BY <1>2, <1>3, <2>1, <2>2
<1> QED
  BY <1>2, <1>3, <1>4

-----------------------------------------------------------------------------
(* A whole file has its data where a reader finds it. *)
LEMMA WholeIsComplete ==
    ASSUME NEW kind \in Kind, file \in Seq(Cell), IsWhole(kind)
    PROVE  \E n \in Nat : Complete(kind, file, n)
<1> DEFINE W == WholeLength(kind)
           whole == SubSeq(file, 1, W)
           c == CellsOf(whole)
           l == Len(c)
           h == HeadLength(kind)
           F == Len(file)
<1>1. kind # "none" /\ whole # <<>> /\ whole = Encoded(kind, c) /\ F \in Nat
  BY DEF IsWhole
<1>2. W \in 0..F
  <2> DEFINE m == W
  <2>1. \/ m = 0 /\ \A n \in 1..Len(file) : file[n] # EndMark(kind)
        \/ /\ m \in 1..Len(file) /\ file[m] = EndMark(kind)
            /\ \A n \in 1..Len(file) : file[n] = EndMark(kind) => m <= n
    BY WholeLengthIs
  <2> HIDE DEF m
  <2>2. m \in 0..F
    BY <1>1, <2>1
  <2> QED
    BY <2>2 DEF m
<1> HIDE DEF W
<1>3. whole \in Seq(Cell) /\ Len(whole) = W /\ \A i \in 1..W : whole[i] = file[i]
  <2>1. /\ 0 + W <= Len(file) /\ W \in Nat /\ 0 + 1 = 1 /\ 0 + W = W
    BY <1>1, <1>2
  <2>2. /\ SubSeq(file, 0 + 1, 0 + W) \in Seq(Cell) /\ Len(SubSeq(file, 0 + 1, 0 + W)) = W
        /\ \A i \in 1..W : SubSeq(file, 0 + 1, 0 + W)[i] = file[0 + i]
    BY <2>1, PartOfFile
  <2> QED
    BY <2>1, <2>2
<1> HIDE DEF whole, F
<1>4. c \in Seq(Cell) /\ l \in Nat /\ \A i \in 1..l : c[i] \notin Mark
  BY <1>3, CellsOfType, CellsOfNoMarks
<1>5. Laid(kind, c, whole)
  <2> HIDE DEF c
  <2> QED
    BY <1>1, <1>4, EncodedIsLaid
<1> HIDE DEF c
<1>6. /\ W = h + l + EndLength(kind)
      /\ h = 1 => whole[1] = Opening(kind)
      /\ \A i \in 1..l : whole[h + i] = c[i]
      /\ whole[h + l + 1] = "end"
      /\ kind = "gzip" => whole[h + l + 2] = "crc" /\ whole[h + l + 3] = "length"
  BY <1>3, <1>5 DEF Laid
<1>7. h \in {0, 1} /\ h \in Nat /\ EndLength(kind) = (IF kind = "gzip" THEN 3 ELSE 1)
  BY DEF HeadLength, EndLength
<1>8. /\ h = 1 => file[1] = Opening(kind)
      /\ \A i \in 1..l : file[h + i] \notin Mark
      /\ file[h + l + 1] = "end"
      /\ kind = "gzip" => file[h + l + 2] = "crc" /\ file[h + l + 3] = "length"
  <2> HIDE DEF h, l
  <2>1. h = 1 => file[1] = Opening(kind)
    <3>1. h = 1 => 1 \in 1..W
      BY <1>4, <1>6, <1>7
    <3> QED
      BY <1>3, <1>6, <3>1
  <2>2. \A i \in 1..l : file[h + i] \notin Mark
    <3>1. TAKE i \in 1..l
    <3>2. h + i \in 1..W
      BY <1>4, <1>6, <1>7
    <3>3. file[h + i] = c[i]
      BY <1>3, <1>6, <3>2
    <3> QED
      BY <1>4, <3>3
  <2>3. file[h + l + 1] = "end"
    <3>1. h + l + 1 \in 1..W
      BY <1>4, <1>6, <1>7
    <3> QED
      BY <1>3, <1>6, <3>1
  <2>4. kind = "gzip" => file[h + l + 2] = "crc" /\ file[h + l + 3] = "length"
    <3>1. kind = "gzip" => h + l + 2 \in 1..W /\ h + l + 3 \in 1..W
      BY <1>4, <1>6, <1>7
    <3> QED
      BY <1>3, <1>6, <3>1
  <2> QED
    BY <2>1, <2>2, <2>3, <2>4
<1>9. ~Plain(kind, file)
  <2>1. F # 0
    BY <1>2, <1>4, <1>6, <1>7
  <2>2. file # <<>>
    BY <2>1, NoCells DEF F
  <2>3. kind = "gzip" => file[1] = "header"
    BY <1>8 DEF HeadLength, Opening
  <2> QED
    BY <1>1, <2>2, <2>3 DEF Plain
<1>10. Shift(kind, file) = h
  BY <1>9 DEF Shift, HeadLength
<1>11. Opened(kind, file)
  <2>1. F # 0
    BY <1>2, <1>4, <1>6, <1>7
  <2>2. file # <<>>
    BY <2>1, NoCells DEF F
  <2> QED
    BY <1>8, <1>10, <2>2 DEF Opened
<1> HIDE DEF h, l
<1>12. h + l + EndLength(kind) <= F /\ h + l <= F
  BY <1>1, <1>2, <1>4, <1>6, <1>7
<1>13. HasData(kind, file, l)
  BY <1>4, <1>8, <1>10, <1>11, <1>12 DEF HasData, F
<1>14. Complete(kind, file, l)
  BY <1>8, <1>9, <1>10, <1>11, <1>12, <1>13 DEF Complete, F
<1> QED
  BY <1>4, <1>14

LEMMA PlainIsNotWhole ==
    ASSUME NEW kind \in Kind, file \in Seq(Cell), Plain(kind, file)
    PROVE  ~IsWhole(kind)
BY WholeIsComplete DEF Complete

(* A reader has been given a part of what there is to be read. *)
LEMMA GivenIsReadable ==
    ASSUME NEW kind \in Kind, file \in Seq(Cell), NEW d \in Seq(Cell),
           HasData(kind, file, Len(d)), IsDataAt(kind, file, 0, d)
    PROVE  IsPrefix(d, Readable(kind))
<1> DEFINE s == Shift(kind, file)
           l == Len(d)
           W == WholeLength(kind)
<1>1. s \in {0, 1} /\ s \in Nat /\ l \in Nat /\ Len(file) \in Nat
  BY ShiftIsNat
<1>2. /\ l > 0 => s + l <= Len(file) /\ (~Plain(kind, file) => Opened(kind, file))
      /\ ~Plain(kind, file) => \A i \in 1..l : file[s + i] \notin Mark
      /\ \A i \in 1..l : d[i] = file[s + 0 + i]
  BY DEF HasData, IsDataAt
<1>3. CASE Plain(kind, file)
  <2>1. Readable(kind) = file
    <3>1. ~IsWhole(kind)
      BY <1>3, PlainIsNotWhole
    <3> QED
      BY <1>3, <3>1 DEF Readable, Plain
  <2>2. s = 0
    BY <1>3, ShiftIsNat
  <2> HIDE DEF s
  <2>3. \A i \in 1..l : d[i] = file[i]
    <3>1. TAKE i \in 1..l
    <3>2. d[i] = file[s + 0 + i]
      BY <1>2
    <3>3. s + 0 + i = i
      BY <2>2
    <3> QED
      BY <3>2, <3>3
  <2>4. l <= Len(file)
    BY <1>1, <1>2, <2>2
  <2>5. IsPrefix(d, file)
    BY <2>3, <2>4, PrefixOfAll
  <2> QED
    BY <2>1, <2>5
<1>4. CASE ~Plain(kind, file) /\ l = 0
  <2>1. Readable(kind) \in Seq(Cell)
    <3>1. CellsOf(file) \in Seq(Cell)
      BY CellsOfType
    <3>2. IsWhole(kind) => CellsOf(SubSeq(file, 1, W)) \in Seq(Cell)
      <4>1. W \in 0..Len(file)
        <5> DEFINE m == W
        <5>1. \/ m = 0 /\ \A n \in 1..Len(file) : file[n] # EndMark(kind)
              \/ /\ m \in 1..Len(file) /\ file[m] = EndMark(kind)
                  /\ \A n \in 1..Len(file) : file[n] = EndMark(kind) => m <= n
          BY WholeLengthIs
        <5> HIDE DEF m
        <5>2. m \in 0..Len(file)
          BY <1>1, <5>1
        <5> QED
          BY <5>2 DEF m
      <4> HIDE DEF W
      <4>2. SubSeq(file, 1, W) \in Seq(Cell)
        <5>1. /\ 0 + W <= Len(file) /\ W \in Nat /\ 0 + 1 = 1 /\ 0 + W = W
          BY <1>1, <4>1
        <5>2. SubSeq(file, 0 + 1, 0 + W) \in Seq(Cell)
          BY <5>1, PartOfFile
        <5> QED
          BY <5>1, <5>2
      <4> QED
        BY <4>2, CellsOfType
    <3>3. ~(kind = "none" \/ (kind = "gzip" /\ (file = <<>> \/ file[1] # "header")))
      BY <1>4 DEF Plain
    <3>4. Readable(kind) = IF IsWhole(kind) THEN CellsOf(SubSeq(file, 1, W)) ELSE CellsOf(file)
      BY <3>3 DEF Readable
    <3> HIDE DEF W
    <3> QED
      BY <3>1, <3>2, <3>4
  <2>2. d = <<>>
    BY <1>4
  <2> DEFINE e == Readable(kind)
  <2> HIDE DEF e
  <2>3. <<>> \o e = e /\ <<>> \in Seq(Cell)
    BY <2>1 DEF e
  <2>4. IsPrefix(<<>>, <<>> \o e)
    BY <2>1, <2>3, PrefixOf DEF e
  <2> QED
    BY <2>2, <2>3, <2>4 DEF e
<1>5. CASE ~Plain(kind, file) /\ l > 0
  <2>1. Opened(kind, file) /\ s + l <= Len(file) /\ \A i \in 1..l : file[s + i] \notin Mark
    BY <1>2, <1>5
  <2>2. ASSUME NEW m \in Nat, s + l <= m, m <= Len(file)
        PROVE  IsPrefix(d, CellsOf(SubSeq(file, 1, m)))
    <3> DEFINE rest == SubSeq(file, s + l + 1, m)
    <3>1. rest \in Seq(Cell) /\ CellsOf(SubSeq(file, 1, m)) = d \o CellsOf(rest)
      BY <1>5, <2>1, <2>2, DataPart
    <3> HIDE DEF rest
    <3>2. CellsOf(rest) \in Seq(Cell)
      BY <3>1, CellsOfType
    <3> DEFINE e == CellsOf(rest)
    <3> HIDE DEF e
    <3>3. IsPrefix(d, d \o e)
      BY <3>2, PrefixOf DEF e
    <3> QED
      BY <3>1, <3>3 DEF e
  <2>3. ~(kind = "none" \/ (kind = "gzip" /\ (file = <<>> \/ file[1] # "header")))
    BY <1>5 DEF Plain
  <2>4. CASE IsWhole(kind)
    <3>1. Readable(kind) = CellsOf(SubSeq(file, 1, W))
      BY <2>3, <2>4 DEF Readable
    <3>2. W # 0
      <4>1. SubSeq(file, 1, W) # <<>>
        BY <2>4 DEF IsWhole
      <4>2. SubSeq(file, 1, 0) = <<>>
        BY SubSeqEmpty
      <4> QED
        BY <4>1, <4>2
    <3>3. W \in 1..Len(file) /\ file[W] = EndMark(kind)
      <4> DEFINE m == W
      <4>1. \/ m = 0 /\ \A n \in 1..Len(file) : file[n] # EndMark(kind)
            \/ /\ m \in 1..Len(file) /\ file[m] = EndMark(kind)
                /\ \A n \in 1..Len(file) : file[n] = EndMark(kind) => m <= n
        BY WholeLengthIs
      <4>2. m # 0
        BY <3>2
      <4> HIDE DEF m
      <4>3. m \in 1..Len(file) /\ file[m] = EndMark(kind)
        BY <4>1, <4>2
      <4> QED
        BY <4>3 DEF m
    <3>4. EndMark(kind) \in Mark /\ EndMark(kind) # Opening(kind)
      BY DEF EndMark, Opening, Mark
    <3>5. s = 1 => file[1] = Opening(kind)
      BY <2>1 DEF Opened
    <3> HIDE DEF W, s, l
    <3>6. ~(W < s + l)
      <4> SUFFICES ASSUME W < s + l PROVE FALSE
        OBVIOUS
      <4>1. CASE W <= s
        <5>1. W = 1 /\ s = 1
          BY <1>1, <3>3, <4>1
        <5> QED
          BY <3>3, <3>4, <3>5, <5>1
      <4>2. CASE ~(W <= s)
        <5>1. W - s \in 1..l /\ s + (W - s) = W
          BY <1>1, <3>3, <4>2
        <5>2. file[s + (W - s)] \notin Mark
          BY <2>1, <5>1
        <5> QED
          BY <3>3, <3>4, <5>1, <5>2
      <4> QED
        BY <4>1, <4>2
    <3>7. W \in Nat /\ s + l <= W /\ W <= Len(file)
      BY <1>1, <3>3, <3>6
    <3> QED
      BY <2>2, <3>1, <3>7 DEF s, l
  <2>5. CASE ~IsWhole(kind)
    <3>1. Readable(kind) = CellsOf(file)
      BY <2>3, <2>5 DEF Readable
    <3>2. SubSeq(file, 1, Len(file)) = file
      BY SubSeqFull
    <3>3. IsPrefix(d, CellsOf(SubSeq(file, 1, Len(file))))
      <4>1. Len(file) <= Len(file)
        BY <1>1
      <4> QED
        BY <1>1, <2>1, <2>2, <4>1
    <3> QED
      BY <3>1, <3>2, <3>3
  <2> QED
    BY <2>4, <2>5
<1>6. l = 0 \/ l > 0
  BY <1>1
<1> QED
  BY <1>3, <1>4, <1>5, <1>6

-----------------------------------------------------------------------------
LEMMA HasLess ==
    ASSUME NEW kind \in Kind, NEW f \in Seq(Cell), NEW d \in Seq(Cell), NEW e \in Seq(Cell),
           HasData(kind, f, Len(d \o e)), IsDataAt(kind, f, 0, d \o e)
    PROVE  HasData(kind, f, Len(d)) /\ IsDataAt(kind, f, 0, d)
<1> DEFINE s == Shift(kind, f)
           c == d \o e
           l == Len(d)
           m == Len(c)
           F == Len(f)
<1>1. /\ m = Len(d) + Len(e) /\ Len(e) \in Nat /\ l \in Nat /\ s \in Nat /\ F \in Nat
      /\ \A i \in 1..l : c[i] = d[i]
  BY ConcatCells, ShiftIsNat
<1>2. /\ m > 0 => s + m <= F /\ (~Plain(kind, f) => Opened(kind, f))
      /\ ~Plain(kind, f) => \A i \in 1..m : f[s + i] \notin Mark
      /\ \A i \in 1..m : c[i] = f[s + 0 + i]
  BY DEF HasData, IsDataAt
<1> HIDE DEF s, c, m, F
<1>3. m = l + Len(e)
  BY <1>1
<1> HIDE DEF l
<1>4. l <= m /\ m \in Nat
  BY <1>1, <1>3
<1>5. l > 0 => s + l <= F /\ (~Plain(kind, f) => Opened(kind, f))
  BY <1>1, <1>2, <1>4
<1>6. \A i \in 1..l : i \in 1..m
  BY <1>1, <1>4
<1>7. ~Plain(kind, f) => \A i \in 1..l : f[s + i] \notin Mark
  BY <1>2, <1>6
<1>8. \A i \in 1..l : d[i] = f[s + 0 + i]
  BY <1>1, <1>2, <1>6
<1> QED
  BY <1>1, <1>5, <1>7, <1>8 DEF HasData, IsDataAt, s, l, F

(* The reader's invariant says that it reads in order. *)
LEMMA InOrderHere == WriterInv /\ ReaderInv => ReadsInOrder
<1> SUFFICES ASSUME WriterInv, ReaderInv, phase = "reading", ~strayed
             PROVE  Len(total) = r.pos /\ IsPrefix(total, Readable(r.kind))
  BY DEF ReadsInOrder
<1>1. file \in Seq(Cell) /\ r.kind \in Kind /\ r.qbuffer \in Seq(Cell)
  BY DEF WriterInv, ReaderInv, Reader, Readers
<1>2. /\ total \in Seq(Cell) /\ Len(total) = r.pos
      /\ IsDataAt(r.kind, file, 0, total \o r.qbuffer)
      /\ HasData(r.kind, file, Len(total \o r.qbuffer))
  BY DEF ReaderInv, OnlyData, Decoded, Located
<1>3. HasData(r.kind, file, Len(total)) /\ IsDataAt(r.kind, file, 0, total)
  BY <1>1, <1>2, HasLess
<1> QED
  BY <1>1, <1>2, <1>3, GivenIsReadable

(* What KCompressionDevice gives since it was at the start is what there   *)
(* is to be read, from its beginning, without a gap and without more.      *)
THEOREM InOrder == Spec => []ReadsInOrder
BY InOrderHere, WriterKeeps, ReaderKeeps, PTL

-----------------------------------------------------------------------------
(* The marks behind the data of a whole file. *)
LEMMA TailIsMarks ==
    ASSUME NEW kind \in Kind, NEW f \in Seq(Cell), NEW q \in Nat, Complete(kind, f, q),
           NEW i \in (Shift(kind, f) + q + 1)..(Shift(kind, f) + q + EndLength(kind))
    PROVE  /\ f[i] \in Mark
           /\ f[i] = EndMark(kind) <=> i = Shift(kind, f) + q + EndLength(kind)
<1> DEFINE n == Shift(kind, f) + q
<1>1. n \in Nat
  BY ShiftIsNat
<1>2. f[n + 1] = "end" /\ (kind = "gzip" => f[n + 2] = "crc" /\ f[n + 3] = "length")
  BY DEF Complete
<1>3. {"end", "crc", "length"} \subseteq Mark
  BY DEF Mark
<1> HIDE DEF n
<1>4. CASE kind = "gzip"
  <2>1. EndLength(kind) = 3 /\ EndMark(kind) = "length"
    BY <1>4 DEF EndLength, EndMark
  <2>2. i = n + 1 \/ i = n + 2 \/ i = n + 3
    BY <1>1, <2>1 DEF n
  <2>3. f[i] \in Mark /\ (f[i] = "length" <=> i = n + 3)
    BY <1>1, <1>2, <1>3, <1>4, <2>2
  <2> QED
    BY <2>1, <2>3 DEF n
<1>5. CASE kind # "gzip"
  <2>1. EndLength(kind) = 1 /\ EndMark(kind) = "end"
    BY <1>5 DEF EndLength, EndMark
  <2>2. i = n + 1
    BY <1>1, <2>1 DEF n
  <2> QED
    BY <1>2, <1>3, <2>1, <2>2 DEF n
<1> QED
  BY <1>4, <1>5

(* Where the data of a whole file ends. *)
LEMMA EndsAt ==
    ASSUME NEW kind \in Kind, file \in Seq(Cell), NEW q \in Nat, Complete(kind, file, q)
    PROVE  WholeLength(kind) = Shift(kind, file) + q + EndLength(kind)
<1> DEFINE s == Shift(kind, file)
           t == EndLength(kind)
           n == s + q
           k == n + t
           F == Len(file)
           m == WholeLength(kind)
<1>1. s \in {0, 1} /\ t \in {1, 3} /\ F \in Nat
  BY ShiftIsNat DEF EndLength
<1>2. k <= F
  BY DEF Complete
<1>3. EndMark(kind) \in Mark /\ EndMark(kind) # Opening(kind)
  BY DEF EndMark, Opening, Mark
<1>4. /\ s = 1 => file[1] = Opening(kind)
      /\ \A i \in 1..q : file[s + i] \notin Mark
  BY DEF Complete, Opened, HasData
<1>5. \A i \in (n + 1)..k : file[i] = EndMark(kind) <=> i = k
  BY TailIsMarks
<1>6. \/ m = 0 /\ \A i \in 1..F : file[i] # EndMark(kind)
      \/ /\ m \in 1..F /\ file[m] = EndMark(kind)
         /\ \A i \in 1..F : file[i] = EndMark(kind) => m <= i
  BY WholeLengthIs
<1> HIDE DEF F, m, s, t
<1>7. n \in Nat /\ k \in Nat /\ k \in (n + 1)..k /\ k \in 1..F
  BY <1>1, <1>2
<1>8. file[k] = EndMark(kind)
  BY <1>5, <1>7
<1>9. m \in 1..F /\ file[m] = EndMark(kind) /\ m <= k
  BY <1>6, <1>7, <1>8
<1>10. ~(m <= s)
  <2> SUFFICES ASSUME m <= s PROVE FALSE
    OBVIOUS
  <2>1. m = 1 /\ s = 1
    BY <1>1, <1>9
  <2> QED
    BY <1>3, <1>4, <1>9, <2>1
<1>11. ~(m <= n)
  <2> SUFFICES ASSUME m <= n PROVE FALSE
    OBVIOUS
  <2>1. m - s \in 1..q /\ s + (m - s) = m
    BY <1>1, <1>7, <1>9, <1>10
  <2>2. file[s + (m - s)] \notin Mark
    BY <1>4, <2>1
  <2> QED
    BY <1>3, <1>9, <2>1, <2>2
<1>12. m \in (n + 1)..k
  <2> HIDE DEF n, k
  <2> QED
    BY <1>1, <1>7, <1>9, <1>11
<1>13. m = k
  BY <1>5, <1>9, <1>12
<1> QED
  BY <1>13 DEF m, s, t

(* The data of a file that is whole is what there is to be read in it. *)
LEMMA CompleteIsWhole ==
    ASSUME NEW kind \in Kind, file \in Seq(Cell), NEW d \in Seq(Cell),
           Complete(kind, file, Len(d)), IsDataAt(kind, file, 0, d)
    PROVE  Readable(kind) = d
<1> DEFINE s == Shift(kind, file)
           l == Len(d)
           t == EndLength(kind)
           n == s + l
           m == n + t
           F == Len(file)
           whole == SubSeq(file, 1, m)
           rest == SubSeq(file, n + 1, m)
<1>1. s \in {0, 1} /\ t = (IF kind = "gzip" THEN 3 ELSE 1) /\ F \in Nat /\ l \in Nat
  BY ShiftIsNat DEF EndLength
<1>2. /\ m <= F /\ ~Plain(kind, file) /\ HasData(kind, file, l) /\ Opened(kind, file)
      /\ file[n + 1] = "end"
      /\ kind = "gzip" => file[n + 2] = "crc" /\ file[n + 3] = "length"
  BY DEF Complete
<1>3. WholeLength(kind) = m
  <2> HIDE DEF l
  <2>1. WholeLength(kind) = Shift(kind, file) + l + EndLength(kind)
    BY <1>1, EndsAt DEF l
  <2> QED
    BY <2>1
<1>4. s = HeadLength(kind) /\ kind # "none"
  BY <1>2 DEF Shift, HeadLength, Plain
<1>5. n \in Nat /\ m \in Nat /\ n <= m /\ t \in Nat /\ n + t = m
  <2> HIDE DEF s, l, t, F
  <2> QED
    BY <1>1
<1>6. whole \in Seq(Cell) /\ Len(whole) = m /\ \A i \in 1..m : whole[i] = file[i]
  <2> HIDE DEF n, m
  <2>1. 0 + m <= Len(file) /\ 0 + 1 = 1 /\ 0 + m = m
    BY <1>2, <1>5
  <2>2. /\ SubSeq(file, 0 + 1, 0 + m) \in Seq(Cell) /\ Len(SubSeq(file, 0 + 1, 0 + m)) = m
        /\ \A i \in 1..m : SubSeq(file, 0 + 1, 0 + m)[i] = file[0 + i]
    BY <1>5, <2>1, PartOfFile
  <2> QED
    BY <2>1, <2>2
<1>7. rest \in Seq(Cell) /\ CellsOf(whole) = d \o CellsOf(rest)
  <2>1. Shift(kind, file) + Len(d) <= m /\ m <= Len(file)
    BY <1>2, <1>5
  <2> HIDE DEF m
  <2> QED
    BY <1>2, <1>5, <2>1, DataPart
<1>8. CellsOf(rest) = <<>>
  <2>1. Len(rest) = t /\ \A i \in 1..t : rest[i] = file[n + i]
    <3> HIDE DEF n, m, t, F
    <3>1. n + t <= Len(file)
      BY <1>2, <1>5 DEF F
    <3>2. /\ Len(SubSeq(file, n + 1, n + t)) = t
          /\ \A i \in 1..t : SubSeq(file, n + 1, n + t)[i] = file[n + i]
      BY <1>5, <3>1, PartOfFile
    <3> QED
      BY <1>5, <3>2
  <2>2. ASSUME NEW i \in 1..t PROVE file[n + i] \in Mark
    <3> DEFINE j == n + i
    <3> HIDE DEF l
    <3>1. j \in (s + l + 1)..(s + l + t)
      <4> HIDE DEF s, t
      <4> QED
        BY <1>1, <1>5
    <3> HIDE DEF j
    <3>2. /\ Complete(kind, file, l)
          /\ j \in (Shift(kind, file) + l + 1)..(Shift(kind, file) + l + EndLength(kind))
      BY <3>1 DEF l
    <3>3. file[j] \in Mark
      BY <1>1, <3>2, TailIsMarks
    <3> QED
      BY <3>3 DEF j
  <2> HIDE DEF rest, t, n
  <2>3. \A i \in 1..Len(rest) : rest[i] \in Mark
    BY <2>1, <2>2
  <2> QED
    BY <1>7, <2>3, CellsOfMarks
<1>9. CellsOf(whole) = d
  <2> HIDE DEF whole, rest
  <2>1. d \o <<>> = d
    OBVIOUS
  <2> QED
    BY <1>7, <1>8, <2>1
<1>10. Laid(kind, d, whole)
  <2>1. Len(whole) = HeadLength(kind) + Len(d) + EndLength(kind)
    BY <1>4, <1>6
  <2>2. HeadLength(kind) = 1 => whole[1] = Opening(kind)
    <3>1. s = 1 => 1 \in 1..m
      <4> HIDE DEF s, l, t
      <4> QED
        BY <1>1
    <3>2. s = 1 => file[1] = Opening(kind)
      BY <1>2 DEF Opened
    <3> HIDE DEF whole, m
    <3> QED
      BY <1>4, <1>6, <3>1, <3>2
  <2>3. \A i \in 1..l : whole[s + i] = d[i]
    <3> SUFFICES ASSUME NEW i \in 1..l PROVE whole[s + i] = d[i]
      OBVIOUS
    <3>1. d[i] = file[s + 0 + i]
      BY DEF IsDataAt
    <3> HIDE DEF whole, s, l, t
    <3>2. s + i \in 1..m /\ s + 0 + i = s + i
      BY <1>1
    <3> HIDE DEF m
    <3> QED
      BY <1>6, <3>1, <3>2
  <2>4. /\ n + 1 \in 1..m
        /\ kind = "gzip" => n + 2 \in 1..m /\ n + 3 \in 1..m
    <3> HIDE DEF s, l, t
    <3> QED
      BY <1>1
  <2>5. whole[n + 1] = "end" /\ (kind = "gzip" => whole[n + 2] = "crc" /\ whole[n + 3] = "length")
    <3> HIDE DEF whole, m, n
    <3> QED
      BY <1>2, <1>6, <2>4
  <2> HIDE DEF whole
  <2> QED
    BY <1>4, <1>6, <2>1, <2>2, <2>3, <2>5 DEF Laid
<1> HIDE DEF whole, rest
<1>11. whole = Encoded(kind, d)
  <2>1. kind \in Kind \ {"none"}
    BY <1>4
  <2>2. Laid(kind, d, Encoded(kind, d))
    BY <2>1, EncodedIsLaid
  <2> QED
    BY <1>10, <2>2, LaidIsOne
<1>12. IsWhole(kind)
  <2>1. whole # <<>>
    <3>1. m # 0
      <4> HIDE DEF s, l, t
      <4> QED
        BY <1>1
    <3> QED
      BY <1>6, <3>1, NoCells
  <2> QED
    BY <1>3, <1>4, <1>9, <1>11, <2>1 DEF IsWhole, whole
<1> QED
  <2>1. ~(kind = "none" \/ (kind = "gzip" /\ (file = <<>> \/ file[1] # "header")))
    BY <1>2 DEF Plain
  <2>2. Readable(kind) = CellsOf(SubSeq(file, 1, WholeLength(kind)))
    BY <1>12, <2>1 DEF Readable
  <2> HIDE DEF m
  <2> QED
    BY <1>3, <1>9, <2>2 DEF whole

(* A reader that is at the end has been given all there is. *)
LEMMA AtEndHasAll ==
    ASSUME WriterInv, ReaderInv, phase = "reading", ~strayed, AtEnd(r, file)
    PROVE  total = Readable(r.kind)
<1>1. file \in Seq(Cell) /\ r \in Readers /\ r.kind \in Kind /\ total \in Seq(Cell)
  BY DEF WriterInv, ReaderInv, Reader, Readers, OnlyData
<1>2. r.result = "End" /\ r.qbuffer = <<>> /\ r.at = Len(file)
  BY DEF AtEnd
<1>3. total \o r.qbuffer = total
  BY <1>1, <1>2
<1>4. IsDataAt(r.kind, file, 0, total) /\ Decoded(r, file, Len(total))
  BY <1>3 DEF ReaderInv, OnlyData
<1>5. CASE Plain(r.kind, file)
  <2>1. r.kind = "none"
    BY <1>2, <1>4, <1>5 DEF Decoded, Located, Plain
  <2>2. r.in = <<>> /\ Taken(r) = Len(total)
    BY <1>4, <1>5, <2>1 DEF Decoded, Located
  <2>3. Len(total) = Len(file)
    BY <1>1, <1>2, <2>2 DEF Taken
  <2>4. \A i \in 1..Len(total) : total[i] = file[i]
    <3>1. Shift(r.kind, file) = 0
      BY <1>1, <1>5, ShiftIsNat
    <3>2. \A i \in 1..Len(total) : total[i] = file[0 + 0 + i]
      BY <1>4, <3>1 DEF IsDataAt
    <3>3. ASSUME NEW i \in 1..Len(total) PROVE 0 + 0 + i = i
      OBVIOUS
    <3> QED
      BY <3>2, <3>3
  <2>5. total = file
    <3>1. Len(total) <= Len(file)
      BY <1>1, <2>3
    <3> QED
      BY <1>1, <2>3, <2>4, <3>1, PrefixOfAll
  <2>6. ~IsWhole(r.kind)
    BY <2>1 DEF IsWhole
  <2>7. Readable(r.kind) = file
    BY <2>1, <2>6 DEF Readable
  <2> QED
    BY <2>5, <2>7
<1>6. CASE ~Plain(r.kind, file)
  <2>1. Complete(r.kind, file, Len(total))
    BY <1>2, <1>4, <1>6 DEF Decoded, Located
  <2> QED
    BY <1>1, <1>4, <2>1, CompleteIsWhole
<1> QED
  BY <1>5, <1>6

(* A reader of a whole file that is told that there is no more. *)
LEMMA FilledHasAll ==
    ASSUME WriterInv, ReaderInv, phase = "reading", ~strayed, IsWhole(r.kind)
    PROVE  /\ outcome = "filled" => total = Readable(r.kind)
           /\ outcome # "failed"
<1>1. /\ file \in Seq(Cell) /\ r.kind \in Kind /\ r.qbuffer \in Seq(Cell)
      /\ OnlyData(r, file, Len(total \o r.qbuffer), total, outcome)
  BY DEF WriterInv, ReaderInv, Reader, Readers
<1>2. PICK n \in Nat : Complete(r.kind, file, n)
  BY <1>1, WholeIsComplete
<1>3. outcome # "failed"
  <2>1. outcome = "failed" => Incomplete(r.kind, file)
    BY <1>1 DEF OnlyData
  <2> QED
    BY <1>1, <1>2, <2>1, IncompleteIsNone
<1>4. ASSUME outcome = "filled" PROVE total = Readable(r.kind)
  <2>1. /\ total \in Seq(Cell)
        /\ IsDataAt(r.kind, file, 0, total \o r.qbuffer)
        /\ HasData(r.kind, file, Len(total \o r.qbuffer))
    BY <1>1 DEF OnlyData, Decoded, Located
  <2>2. IsDataAt(r.kind, file, 0, total)
    BY <1>1, <2>1, HasLess
  <2>3. n = Len(total)
    BY <1>1, <1>2, <1>4 DEF OnlyData
  <2> QED
    BY <1>1, <1>2, <2>1, <2>2, <2>3, CompleteIsWhole
<1> QED
  BY <1>3, <1>4

(* KCompressionDevice says that it is at the end when all has been given,  *)
(* and a reader of a whole file gets all of it and no error.               *)
THEOREM EndsThere == Spec => []EndIsTheEnd
<1>1. WriterInv /\ ReaderInv => EndIsTheEnd
  BY AtEndHasAll, FilledHasAll DEF EndIsTheEnd
<1> QED
  BY <1>1, WriterKeeps, ReaderKeeps, PTL
===============================================================================
