------------------------------- MODULE Lemmas -------------------------------
(***************************************************************************)
(* Arithmetic modulo n, as used by the free-running ring indices of the    *)
(* vrings and by the overflowing 32-bit times, sequences of messages, as   *)
(* they grow and are used up, and sums of pulses, by induction.            *)
(***************************************************************************)
EXTENDS Integers, Sequences, WellFoundedInduction, TLAPS

(* A remainder lies in the range of the modulus.                           *)
LEMMA ModRange ==
  ASSUME NEW n \in Nat \ {0}, NEW a \in Int
  PROVE  a % n \in 0 .. n-1
  OBVIOUS

(* A number in the range of the modulus is its own remainder.              *)
LEMMA ModSmall ==
  ASSUME NEW n \in Nat \ {0}, NEW a \in 0 .. n-1
  PROVE  a % n = a
  OBVIOUS

(* Two positions less than n apart never share a slot of a ring of n.      *)
LEMMA ModDistinct ==
  ASSUME NEW n \in Nat \ {0}, NEW a \in Int, NEW b \in Int, a < b, b - a < n
  PROVE  (a % n) # (b % n)
<1> DEFINE qa == a \div n
           qb == b \div n
<1>1. qa \in Int /\ qb \in Int /\ a = n * qa + (a % n) /\ b = n * qb + (b % n)
  OBVIOUS
<1>2. SUFFICES ASSUME (a % n) = (b % n)
               PROVE  FALSE
  OBVIOUS
<1>3. b - a = n * (qb - qa)
  BY <1>1, <1>2
<1>4. CASE qb - qa <= 0
  BY <1>1, <1>3, <1>4
<1>5. CASE qb - qa >= 1
  BY <1>1, <1>3, <1>5
<1> QED
  BY <1>1, <1>4, <1>5

(* Adding a multiple of the modulus changes nothing.                       *)
LEMMA ModShift ==
  ASSUME NEW n \in Nat \ {0}, NEW a \in Int, NEW k \in Int
  PROVE  ((a + n * k) % n) = (a % n)
<1> DEFINE b  == a + n * k
           qa == a \div n
           qb == b \div n
<1>0. n * k \in Int /\ b \in Int
  OBVIOUS
<1>1. qa \in Int /\ a = n * qa + (a % n) /\ (a % n) \in 0 .. n-1
  OBVIOUS
<1>2. qb \in Int /\ b = n * qb + (b % n) /\ (b % n) \in 0 .. n-1
  BY <1>0
<1>b. b = a + n * k
  OBVIOUS
<1> HIDE DEF qa, qb, b
<1>d. n * (qa + k - qb) = n * qa + n * k - n * qb
  BY <1>1, <1>2
<1>3. (b % n) - (a % n) = n * (qa + k - qb)
  <2>1. PICK u \in Int, v \in Int, w \in Int, r \in Int, t \in Int :
          u = n * qa /\ v = n * qb /\ w = n * k /\ r = (a % n) /\ t = (b % n)
    BY <1>0, <1>1, <1>2
  <2>2. b = a + w /\ a = u + r /\ b = v + t
    BY <1>1, <1>2, <1>b, <2>1
  <2>3. t - r = u + w - v
    BY <2>2
  <2> QED
    BY <1>d, <2>1, <2>3
<1>4. CASE qa + k - qb <= -1
  BY <1>1, <1>2, <1>3, <1>4
<1>5. CASE qa + k - qb >= 1
  BY <1>1, <1>2, <1>3, <1>5
<1>6. CASE qa + k - qb = 0
  <2>1. n * (qa + k - qb) = 0
    BY <1>6
  <2>2. (b % n) \in Int /\ (a % n) \in Int
    BY <1>1, <1>2
  <2> QED
    BY <1>3, <2>1, <2>2, <1>b
<1> QED
  BY <1>1, <1>2, <1>4, <1>5, <1>6, <1>b

(* A reduction inside a sum can be left out.                               *)
LEMMA ModAdd ==
  ASSUME NEW n \in Nat \ {0}, NEW a \in Int, NEW b \in Int
  PROVE  (((a % n) + b) % n) = ((a + b) % n)
<1> DEFINE q == a \div n
<1>1. q \in Int /\ a = n * q + (a % n) /\ (a % n) \in Int
  OBVIOUS
<1> HIDE DEF q
<1>2. PICK x \in Int : x = (a % n) + b
  BY <1>1
<1>3. ((x + n * q) % n) = (x % n)
  BY <1>1, ModShift
<1>4. x + n * q = a + b
  BY <1>1, <1>2
<1> QED
  BY <1>2, <1>3, <1>4

(* So can one inside a difference.                                         *)
LEMMA ModSub ==
  ASSUME NEW n \in Nat \ {0}, NEW a \in Int, NEW b \in Int
  PROVE  ((b - (a % n)) % n) = ((b - a) % n)
<1> DEFINE q == a \div n
<1>1. q \in Int /\ a = n * q + (a % n) /\ (a % n) \in Int
  OBVIOUS
<1> HIDE DEF q
<1>2. PICK x \in Int : x = b - a
  BY <1>1
<1>3. ((x + n * q) % n) = (x % n)
  BY <1>1, ModShift
<1>4. x + n * q = b - (a % n)
  BY <1>1, <1>2
<1> QED
  BY <1>2, <1>3, <1>4

(* The top half of the range holds the negative differences.               *)
LEMMA SignBit ==
  ASSUME NEW h \in Nat \ {0}, NEW a \in -h .. h-1
  PROVE  ((a % (2 * h)) >= h) <=> a < 0
<1>1. 2 * h \in Nat \ {0} /\ a \in Int
  OBVIOUS
<1>m. PICK m \in Nat \ {0} : m = 2 * h
  BY <1>1
<1>2. CASE a >= 0
  <2>1. a \in 0 .. 2*h - 1
    BY <1>2
  <2>2. (a % (2 * h)) = a
    BY <1>1, <2>1, ModSmall
  <2> QED
    BY <1>2, <2>2
<1>3. CASE a < 0
  <2>1. a + m \in 0 .. m - 1 /\ a + m >= h
    BY <1>3, <1>m
  <2>2. ((a + m) % m) = a + m
    BY <2>1, ModSmall
  <2>0. PICK k \in Int : k = 1
    OBVIOUS
  <2>3. ((a + m * k) % m) = (a % m)
    BY <1>1, ModShift
  <2>4. a + m * k = a + m
    BY <2>0
  <2> QED
    BY <1>3, <1>m, <2>1, <2>2, <2>3, <2>4
<1> QED
  BY <1>1, <1>2, <1>3

----------------------------------------------------------------------------
(* The elements of a sequence, ...                                         *)
LEMMA Element ==
  ASSUME NEW S, NEW s \in Seq(S)
  PROVE  Len(s) \in Nat /\ DOMAIN s = 1 .. Len(s) /\ \A k \in 1 .. Len(s) : s[k] \in S
  OBVIOUS

(* ... one element more, ...                                               *)
LEMMA Appended ==
  ASSUME NEW S, NEW s \in Seq(S), NEW e \in S
  PROVE  /\ Append(s, e) \in Seq(S) /\ Len(Append(s, e)) = Len(s) + 1
         /\ DOMAIN Append(s, e) = 1 .. Len(s) + 1
         /\ \A k \in 1 .. Len(s) : Append(s, e)[k] = s[k]
         /\ Append(s, e)[Len(s) + 1] = e
  OBVIOUS

(* ... and one element less.                                               *)
LEMMA Popped ==
  ASSUME NEW S, NEW s \in Seq(S), s # <<>>
  PROVE  /\ Head(s) = s[1] /\ Head(s) \in S /\ Tail(s) \in Seq(S)
         /\ Len(Tail(s)) = Len(s) - 1 /\ DOMAIN Tail(s) = 1 .. Len(s) - 1 /\ 1 \in DOMAIN s
         /\ \A k \in 1 .. Len(s) - 1 : Tail(s)[k] = s[k + 1]
  OBVIOUS

(* The same for a window on numbered messages, which takes in the next ... *)
LEMMA WindowGrows ==
  ASSUME NEW S, NEW n \in Nat, NEW s \in [1 .. n -> S], NEW t \in [1 .. n+1 -> S],
         \A i \in 1 .. n : t[i] = s[i]
  PROVE  Len(s) = n /\ t = Append(s, t[n+1])
<1>1. s \in Seq(S) /\ Len(s) = n
  OBVIOUS
<1>2. t \in Seq(S) /\ Len(t) = n + 1 /\ t[n+1] \in S
  OBVIOUS
<1>3. /\ Append(s, t[n+1]) \in Seq(S) /\ Len(Append(s, t[n+1])) = n + 1
      /\ \A i \in 1 .. n+1 : Append(s, t[n+1])[i] = t[i]
  BY <1>1, <1>2, Appended
<1> QED
  BY <1>1, <1>2, <1>3

(* ... or leaves the oldest behind.                                        *)
LEMMA WindowShrinks ==
  ASSUME NEW S, NEW n \in Nat, NEW s \in [1 .. n+1 -> S], NEW t \in [1 .. n -> S],
         \A i \in 1 .. n : t[i] = s[i + 1]
  PROVE  s # <<>> /\ Head(s) = s[1] /\ t = Tail(s)
<1>1. s \in Seq(S) /\ Len(s) = n + 1 /\ t \in Seq(S) /\ Len(t) = n
  OBVIOUS
<1>2. s # <<>>
  BY <1>1
<1>3. /\ Head(s) = s[1] /\ Tail(s) \in Seq(S) /\ Len(Tail(s)) = n
      /\ \A i \in 1 .. n : Tail(s)[i] = t[i]
  BY <1>1, <1>2, Popped
<1> QED
  BY <1>1, <1>2, <1>3
----------------------------------------------------------------------------
(* Induction, as a fact about sets: every non-empty set of numbers has a   *)
(* least one, ...                                                          *)
LEMMA LeastNumber ==
  ASSUME NEW T \in SUBSET Nat, T # {}
  PROVE  \E x \in T : \A y \in T : x <= y
<1> DEFINE R == {p \in Nat \X Nat : p[1] < p[2]}
<1>1. IsWellFoundedOn(R, Nat)
  BY NatLessThanWellFounded, Zenon DEF OpToRel
<1>2. PICK x \in T : \A y \in T : ~(<<y, x>> \in R)
  BY <1>1, WFMin
<1>3. ASSUME NEW y \in T
      PROVE  x <= y
  <2>1. <<y, x>> \in Nat \X Nat /\ <<y, x>> \notin R
    BY <1>2
  <2> QED
    BY <2>1
<1> QED
  BY <1>3

(* ... so a set that has 0 and the successor of each of its numbers has    *)
(* them all.                                                               *)
LEMMA Induction ==
  ASSUME NEW S, 0 \in S, \A k \in Nat : k \in S => k + 1 \in S
  PROVE  \A k \in Nat : k \in S
<1> SUFFICES ASSUME Nat \ S # {}
             PROVE  FALSE
  OBVIOUS
<1>1. PICK x \in Nat \ S : \A y \in Nat \ S : x <= y
  BY LeastNumber
<1>2. x # 0 /\ x - 1 \in Nat /\ x - 1 \in S
  BY <1>1
<1> QED
  BY <1>1, <1>2

(* The partial sums of c and the numbers d, as a recursive function: there *)
(* is one, ...                                                             *)
IsPartialSums(f, c, d, m) ==
  f = [n \in 0 .. m |-> IF n = 0 THEN c ELSE f[n-1] + d[n-1]]

LEMMA PartialSumsExist ==
  ASSUME NEW c \in Nat, NEW m \in Nat, NEW d \in [0 .. m-1 -> Nat]
  PROVE  \E f \in [0 .. m -> Nat] : IsPartialSums(f, c, d, m)
<1> DEFINE UpTo(k) == \E f \in [0 .. k -> Nat] : IsPartialSums(f, c, d, k)
           S == {k \in Nat : k <= m => UpTo(k)}
<1>1. 0 \in S
  <2>1. [n \in 0 .. 0 |-> c] \in [0 .. 0 -> Nat]
    OBVIOUS
  <2>2. IsPartialSums([n \in 0 .. 0 |-> c], c, d, 0)
    BY DEF IsPartialSums
  <2> QED
    BY <2>1, <2>2
<1>2. ASSUME NEW k \in Nat, k \in S
      PROVE  k + 1 \in S
  <2> SUFFICES ASSUME k + 1 <= m
               PROVE  UpTo(k + 1)
    OBVIOUS
  <2>1. PICK f \in [0 .. k -> Nat] : IsPartialSums(f, c, d, k)
    BY <1>2
  <2> DEFINE g == [n \in 0 .. k+1 |-> IF n = k + 1 THEN f[k] + d[k] ELSE f[n]]
  <2>2. f[k] \in Nat /\ d[k] \in Nat
    OBVIOUS
  <2>3. g \in [0 .. k+1 -> Nat]
    BY <2>2
  <2>4. f[0] = c /\ \A n \in 1 .. k : f[n] = f[n-1] + d[n-1]
    BY <2>1 DEF IsPartialSums
  <2>5. ASSUME NEW n \in 0 .. k+1
        PROVE  g[n] = IF n = 0 THEN c ELSE g[n-1] + d[n-1]
    <3>1. CASE n = 0
      BY <2>4, <3>1
    <3>2. CASE n \in 1 .. k
      BY <2>4, <3>2
    <3>3. CASE n = k + 1
      BY <3>3
    <3> QED
      BY <3>1, <3>2, <3>3
  <2>6. IsPartialSums(g, c, d, k + 1)
    BY <2>5 DEF IsPartialSums
  <2> QED
    BY <2>3, <2>6
<1>3. m \in S
  BY <1>1, <1>2, Induction
<1> QED
  BY <1>3

(* ... and it grows.                                                       *)
LEMMA PartialSumsGrow ==
  ASSUME NEW c \in Nat, NEW m \in Nat, NEW d \in [0 .. m-1 -> Nat],
         NEW f, IsPartialSums(f, c, d, m)
  PROVE  /\ f \in [0 .. m -> Nat] /\ f[0] = c
         /\ \A n \in 0 .. m-1 : f[n+1] = f[n] + d[n]
         /\ \A i, j \in 0 .. m : i <= j => f[i] <= f[j]
<1>0. f = [n \in 0 .. m |-> IF n = 0 THEN c ELSE f[n-1] + d[n-1]]
  BY DEF IsPartialSums
<1>1. /\ f = [n \in 0 .. m |-> f[n]] /\ f[0] = c
      /\ \A n \in 1 .. m : f[n] = f[n-1] + d[n-1]
  <2>1. \A n \in 0 .. m : f[n] = IF n = 0 THEN c ELSE f[n-1] + d[n-1]
    BY <1>0
  <2>2. f = [n \in 0 .. m |-> f[n]]
    BY <1>0
  <2>3. f[0] = c
    BY <2>1
  <2>4. \A n \in 1 .. m : f[n] = f[n-1] + d[n-1]
    BY <2>1
  <2> QED
    BY <2>2, <2>3, <2>4
<1>2. \A n \in 0 .. m-1 : f[n+1] = f[n] + d[n]
  BY <1>1
<1> DEFINE S == {k \in Nat : k <= m => f[k] \in Nat}
<1>3. 0 \in S /\ \A k \in Nat : k \in S => k + 1 \in S
  <2>1. ASSUME NEW k \in Nat, k \in S, k + 1 <= m
        PROVE  f[k+1] \in Nat
    <3>1. f[k+1] = f[k] + d[k] /\ d[k] \in Nat /\ f[k] \in Nat
      BY <1>2, <2>1
    <3> QED
      BY <3>1
  <2>2. 0 \in S
    BY <1>1
  <2> QED
    BY <2>1, <2>2
<1>4. \A k \in Nat : k \in S
  BY <1>3, Induction
<1>5. \A k \in 0 .. m : f[k] \in Nat
  BY <1>4
<1> HIDE DEF S
<1>6. ASSUME NEW i \in 0 .. m
      PROVE  \A j \in 0 .. m : i <= j => f[i] <= f[j]
  <2> DEFINE U == {k \in Nat : k <= m /\ i <= k => f[i] <= f[k]}
  <2>1. 0 \in U
    BY <1>5
  <2>2. ASSUME NEW k \in Nat, k \in U
        PROVE  k + 1 \in U
    <3> SUFFICES ASSUME k + 1 <= m, i <= k
                 PROVE  f[i] <= f[k+1]
      BY <1>5
    <3>1. f[k+1] = f[k] + d[k] /\ d[k] \in Nat /\ f[k] \in Nat /\ f[i] \in Nat
      BY <1>2, <1>5
    <3>2. f[i] <= f[k]
      BY <2>2
    <3> QED
      BY <3>1, <3>2
  <2>3. \A k \in Nat : k \in U
    BY <2>1, <2>2, Induction
  <2> QED
    BY <2>3
<1> QED
  BY <1>1, <1>2, <1>5, <1>6
=============================================================================
