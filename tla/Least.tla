------------------------------- MODULE Least -------------------------------
(***************************************************************************)
(* Every search of the kernel and of the window manager takes the first    *)
(* slot that fits, which the models write as the Min of a set of slots.    *)
(* A loop over a list is a FoldLeft, which takes the Max of a set of       *)
(* positions in each of its rounds.                                        *)
(***************************************************************************)
EXTENDS Integers, FiniteSetsExt, WellFoundedInduction, TLAPS

(***************************************************************************)
(* Min of a set of naturals is its least element: the slot at which a scan *)
(* from the first slot on stops.  No finiteness is needed, < on the        *)
(* naturals is well founded.                                               *)
(***************************************************************************)
LEMMA MinOfNat ==
  ASSUME NEW S \in SUBSET Nat, S # {}
  PROVE  Min(S) \in S /\ \A x \in S : Min(S) <= x
<1> DEFINE R == {ss \in Nat \X Nat : ss[1] < ss[2]}
<1>0. IsWellFoundedOn(R, Nat)
  BY NatLessThanWellFounded DEF OpToRel
<1>1. \E m \in S : \A x \in S : ~(<<x, m>> \in R)
  <2> HIDE DEF R
  <2>1. S \subseteq Nat
    OBVIOUS
  <2> QED BY <1>0, <2>1, WFMin, Zenon
<1>2. PICK m \in S : \A x \in S : ~(<<x, m>> \in R)
  BY <1>1
<1>3. ASSUME NEW x \in S
      PROVE  m <= x
  <2>1. x \in Nat /\ m \in Nat /\ ~(<<x, m>> \in R)
    BY <1>2
  <2>2. <<x, m>> \in Nat \X Nat /\ <<x, m>>[1] = x /\ <<x, m>>[2] = m
    BY <2>1
  <2>3. ~(x < m)
    BY <2>1, <2>2
  <2> QED BY <2>1, <2>3
<1> QED BY <1>3 DEF Min

(***************************************************************************)
(* Loops over a sequence are folds, and a fold is a recursive function on  *)
(* the sets of positions, the last position first.                         *)
(***************************************************************************)
LEMMA MaxIs ==
  ASSUME NEW T \in SUBSET Int, NEW m \in T, \A x \in T : x <= m
  PROVE  Max(T) = m
<1>1. \A x \in T : m >= x
  OBVIOUS
<1>2. \A y \in T : (\A x \in T : y >= x) => y = m
  OBVIOUS
<1> QED BY <1>1, <1>2 DEF Max

LEMMA LastIsMax ==
  ASSUME NEW n \in Nat, NEW T \in SUBSET (1..n), T # {}
  PROVE  Max(T) \in T /\ \A x \in T : x <= Max(T)
<1> DEFINE D == {n - x : x \in T}
<1>1. D \in SUBSET Nat /\ D # {}
  <2>1. \A x \in T : n - x \in Nat
    OBVIOUS
  <2> QED BY <2>1
<1>2. Min(D) \in D /\ \A y \in D : Min(D) <= y
  BY <1>1, MinOfNat
<1>3. PICK m \in T : Min(D) = n - m
  BY <1>2
<1>4. \A x \in T : x <= m
  <2> SUFFICES ASSUME NEW x \in T
               PROVE  x <= m
    OBVIOUS
  <2>1. n - x \in D /\ x \in Int /\ m \in Int
    OBVIOUS
  <2>2. n - m <= n - x
    BY <1>2, <1>3, <2>1
  <2> QED BY <2>1, <2>2
<1>5. T \in SUBSET Int
  OBVIOUS
<1>6. Max(T) = m
  BY <1>4, <1>5, MaxIs
<1> QED BY <1>4, <1>6

LEMMA MaxIn ==
  ASSUME NEW n \in Nat, NEW T \in SUBSET (1..n), T # {}
  PROVE  Max(T) \in T
BY LastIsMax

LEMMA LastPosition ==
  ASSUME NEW n \in Nat, NEW k \in 0 .. n - 1
  PROVE  /\ 1 .. k + 1 \in SUBSET (1..n) /\ 1 .. k + 1 # {}
         /\ Max(1 .. k + 1) = k + 1
         /\ (1 .. k + 1) \ {k + 1} = 1..k
<1>1. \A x \in 1 .. k + 1 : x \in 1..n
  OBVIOUS
<1>2. k + 1 \in 1 .. k + 1 /\ 1 .. k + 1 \in SUBSET Int /\ \A x \in 1 .. k + 1 : x <= k + 1
  OBVIOUS
<1>3. Max(1 .. k + 1) = k + 1
  BY <1>2, MaxIs
<1>4. (1 .. k + 1) \ {k + 1} = 1..k
  OBVIOUS
<1> QED BY <1>1, <1>2, <1>3, <1>4

(***************************************************************************)
(* What holds before a loop and is kept by every round holds after it.     *)
(* The induction theorems of the library cannot be applied, so this goes   *)
(* by the first round that would break it.                                 *)
(***************************************************************************)
LEMMA Rounds ==
  ASSUME NEW n \in Nat, NEW g, NEW Good, g[0] \in Good[0],
         \A k \in 0 .. n - 1 : g[k] \in Good[k] => g[k + 1] \in Good[k + 1]
  PROVE  g[n] \in Good[n]
<1> DEFINE Bad == {k \in 0..n : g[k] \notin Good[k]}
<1>1. ASSUME Bad # {}
      PROVE  FALSE
  <2> DEFINE m == Min(Bad)
  <2>1. m \in Bad /\ \A x \in Bad : m <= x
    <3>1. Bad \in SUBSET Nat
      OBVIOUS
    <3> HIDE DEF Bad
    <3> QED BY <1>1, <3>1, MinOfNat
  <2> HIDE DEF m
  <2>2. m \in 0..n /\ g[m] \notin Good[m] /\ m # 0
    BY <2>1
  <2>3. m - 1 \in 0 .. n - 1 /\ m - 1 \notin Bad /\ (m - 1) + 1 = m
    BY <2>1, <2>2
  <2>4. g[m - 1] \in Good[m - 1]
    BY <2>3
  <2>5. g[(m - 1) + 1] \in Good[(m - 1) + 1]
    BY <2>3, <2>4
  <2> QED BY <2>2, <2>3, <2>5
<1> QED BY <1>1

(***************************************************************************)
(* The recursive function of a fold exists when the body of the loop is a  *)
(* function on the set S.                                                  *)
(***************************************************************************)
IsFoldOf(f, S, G, b, n, s) ==
  /\ f \in [SUBSET (1..n) -> S]
  /\ \A T \in SUBSET (1..n) :
       f[T] = IF T = {} THEN b ELSE G[<<f[T \ {Max(T)}], s[Max(T)]>>]

LEMMA FoldExists ==
  ASSUME NEW S, NEW E, NEW G \in [S \X E -> S], NEW b \in S, NEW n \in Nat,
         NEW s, \A k \in 1..n : s[k] \in E
  PROVE  \E f : IsFoldOf(f, S, G, b, n, s)
<1> DEFINE Body(f, T) == IF T = {} THEN b ELSE G[<<f[T \ {Max(T)}], s[Max(T)]>>]
           Folds == [m \in 0..n |-> {f \in [SUBSET (1..m) -> S] :
                                      \A T \in SUBSET (1..m) : f[T] = Body(f, T)}]
           Done == [m \in 0..n |-> {1}]
           g == [m \in 0..n |-> IF Folds[m] # {} THEN 1 ELSE 0]
<1>1. g[0] \in Done[0]
  <2> DEFINE f == [T \in SUBSET (1..0) |-> b]
  <2>1. SUBSET (1..0) = {{}}
    OBVIOUS
  <2>2. f \in [SUBSET (1..0) -> S] /\ \A T \in SUBSET (1..0) : f[T] = Body(f, T)
    BY <2>1
  <2>3. f \in Folds[0]
    BY <2>2
  <2> HIDE DEF f, Folds
  <2> QED BY <2>3
<1>2. ASSUME NEW k \in 0 .. n - 1, g[k] \in Done[k]
      PROVE  g[k + 1] \in Done[k + 1]
  <2>1. k \in 0..n /\ k + 1 \in 0..n /\ k + 1 \in 1..n
    OBVIOUS
  <2>2. PICK f : f \in Folds[k]
    <3> HIDE DEF Folds
    <3> QED BY <1>2, <2>1
  <2>3. f \in [SUBSET (1..k) -> S] /\ \A T \in SUBSET (1..k) : f[T] = Body(f, T)
    BY <2>1, <2>2
  <2> DEFINE h == [T \in SUBSET (1 .. k + 1) |->
                     IF k + 1 \in T THEN G[<<f[T \ {k + 1}], s[k + 1]>>] ELSE f[T]]
  <2>4. ASSUME NEW T \in SUBSET (1 .. k + 1)
        PROVE  h[T] \in S /\ h[T] = Body(h, T)
    <3>1. CASE k + 1 \in T
      <4>1. Max(T) = k + 1
        <5>1. T \in SUBSET Int /\ \A x \in T : x <= k + 1
          OBVIOUS
        <5> QED BY <3>1, <5>1, MaxIs
      <4>2. T \ {k + 1} \in SUBSET (1..k) /\ T \ {k + 1} \in SUBSET (1 .. k + 1) /\ k + 1 \notin T \ {k + 1}
        OBVIOUS
      <4>3. h[T \ {k + 1}] = f[T \ {k + 1}] /\ h[T] = G[<<f[T \ {k + 1}], s[k + 1]>>]
        BY <3>1, <4>2
      <4>4. f[T \ {k + 1}] \in S /\ s[k + 1] \in E
        BY <2>1, <2>3, <4>2
      <4>5. G[<<f[T \ {k + 1}], s[k + 1]>>] \in S
        BY <4>4
      <4> HIDE DEF h
      <4> QED BY <3>1, <4>1, <4>3, <4>5
    <3>2. CASE k + 1 \notin T
      <4>1. T \in SUBSET (1..k)
        BY <3>2
      <4>2. f[T] = Body(f, T) /\ h[T] = f[T] /\ f[T] \in S
        BY <2>3, <3>2, <4>1
      <4>3. h[T \ {Max(T)}] = f[T \ {Max(T)}]
        BY <3>2
      <4> HIDE DEF h
      <4> QED BY <4>2, <4>3
    <3> QED BY <3>1, <3>2
  <2>5. h \in [SUBSET (1 .. k + 1) -> S] /\ \A T \in SUBSET (1 .. k + 1) : h[T] = Body(h, T)
    <3>1. h = [T \in SUBSET (1 .. k + 1) |-> h[T]]
      OBVIOUS
    <3> HIDE DEF h
    <3> QED BY <2>4, <3>1
  <2> HIDE DEF h
  <2>6. h \in Folds[k + 1]
    BY <2>1, <2>5
  <2> QED BY <2>1, <2>6
<1>3. g[n] \in Done[n]
  <2> HIDE DEF g, Done
  <2> QED BY <1>1, <1>2, Rounds
<1>4. Folds[n] # {} /\ n \in 0..n
  <2> HIDE DEF Folds
  <2> QED BY <1>3
<1>5. PICK f : f \in Folds[n]
  BY <1>4
<1>6. f \in [SUBSET (1..n) -> S] /\ \A T \in SUBSET (1..n) : f[T] = Body(f, T)
  BY <1>4, <1>5
<1> QED BY <1>6 DEF IsFoldOf

(***************************************************************************)
(* A loop whose body keeps the set S ends in S.                            *)
(***************************************************************************)
LEMMA FoldStaysIn ==
  ASSUME NEW S, NEW n \in Nat, NEW it, it[{}] \in S,
         \A k \in 0 .. n - 1 : it[1..k] \in S => it[1 .. k + 1] \in S
  PROVE  it[1..n] \in S
<1> DEFINE g == [k \in 0..n |-> it[1..k]]
           Good == [k \in 0..n |-> S]
<1>1. g[0] \in Good[0]
  <2>1. 1..0 = {}
    OBVIOUS
  <2> QED BY <2>1
<1>2. ASSUME NEW k \in 0 .. n - 1, g[k] \in Good[k]
      PROVE  g[k + 1] \in Good[k + 1]
  BY <1>2
<1>3. g[n] \in Good[n]
  <2> HIDE DEF g, Good
  <2> QED BY <1>1, <1>2, Rounds
<1> QED BY <1>3

-----------------------------------------------------------------------------
(***************************************************************************)
(* Division, for the pages of a table, the slots and the bytes of a        *)
(* cluster.                                                                *)
(***************************************************************************)
LEMMA DivMono ==
  ASSUME NEW a \in Nat, NEW b \in Nat, NEW w \in Nat \ {0}, a <= b
  PROVE  a \div w <= b \div w
<1> DEFINE x == a \div w
           y == b \div w
<1>1. x \in Nat /\ y \in Nat /\ a = w * x + (a % w) /\ b = w * y + (b % w) /\ a % w \in 0 .. w - 1 /\ b % w \in 0 .. w - 1
  OBVIOUS
<1>2. x >= y + 1 => w * x >= w * (y + 1)
  <2> HIDE DEF x, y
  <2> QED BY <1>1
<1>3. w * (y + 1) = w * y + w
  <2> HIDE DEF x, y
  <2> QED BY <1>1
<1> HIDE DEF x, y
<1>4. x <= y
  BY <1>1, <1>2, <1>3
<1> QED BY <1>4 DEF x, y

LEMMA DivBelow ==
  ASSUME NEW w \in Nat \ {0}, NEW c \in Nat, NEW a \in 0 .. c * w - 1
  PROVE  a \div w \in 0 .. c - 1
<1> DEFINE x == a \div w
<1>1. x \in Nat /\ a \in Nat /\ a = w * x + (a % w) /\ a % w \in 0 .. w - 1
  OBVIOUS
<1> HIDE DEF x
<1>2. x >= c => w * x >= w * c
  BY <1>1
<1>3. w * c = c * w /\ w * c \in Nat /\ a < c * w /\ w * x \in Nat
  BY <1>1
<1>4. ~(x >= c)
  BY <1>1, <1>2, <1>3
<1>5. x \in 0 .. c - 1
  BY <1>1, <1>4
<1> QED BY <1>5 DEF x

LEMMA DivMod ==
  ASSUME NEW w \in Nat \ {0}, NEW q \in Nat, NEW r \in 0 .. w - 1
  PROVE  (w * q + r) \div w = q /\ (w * q + r) % w = r
<1> DEFINE a == w * q + r
           x == a \div w
           y == a % w
<1>0. w * q \in Nat
  OBVIOUS
<1>1. a \in Nat
  BY <1>0
<1>2. x \in Nat /\ a = w * x + y /\ y \in 0 .. w - 1
  <2> HIDE DEF a
  <2> QED BY <1>1
<1> HIDE DEF x, y
<1>3. x >= q + 1 => w * x >= w * q + w
  <2>1. x >= q + 1 => w * x >= w * (q + 1)
    BY <1>2
  <2>2. w * (q + 1) = w * q + w
    OBVIOUS
  <2> QED BY <2>1, <2>2
<1>4. q >= x + 1 => w * q >= w * x + w
  <2>1. q >= x + 1 => w * q >= w * (x + 1)
    BY <1>2
  <2>2. w * (x + 1) = w * x + w
    BY <1>2
  <2> QED BY <2>1, <2>2
<1>5. x = q
  <2>1. w * x \in Nat
    BY <1>2
  <2>2. w * x + y = w * q + r
    BY <1>2
  <2> DEFINE wx == w * x
             wq == w * q
  <2> HIDE DEF wx, wq
  <2>3. wx \in Nat /\ wq \in Nat /\ wx + y = wq + r /\ (x >= q + 1 => wx >= wq + w) /\ (q >= x + 1 => wq >= wx + w)
    BY <1>0, <1>3, <1>4, <2>1, <2>2 DEF wx, wq
  <2> QED BY <1>2, <2>3
<1>6. y = r
  <2> DEFINE wq == w * q
  <2> HIDE DEF wq
  <2>1. wq \in Nat /\ wq + y = wq + r
    BY <1>0, <1>2, <1>5 DEF wq
  <2> QED BY <1>2, <2>1
<1> QED BY <1>5, <1>6 DEF x, y

=============================================================================
