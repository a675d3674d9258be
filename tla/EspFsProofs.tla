----------------------------- MODULE EspFsProofs -----------------------------
(***************************************************************************)
(* Proofs about EspFs, for every file, every list of files and every width *)
(* of window and lookahead.                                                *)
(*                                                                         *)
(* The inductive invariant has three parts.                                *)
(*                                                                         *)
(*   ImageInv: the headers of the image follow one another, aligned, the   *)
(*   file is among them once, and espFsOpen stands at one of them and has  *)
(*   not gone past the one it looks for.                                   *)
(*                                                                         *)
(*   FileInv: the encoder's buffer is the file around the place it has     *)
(*   reached, and the bits it has put out are tokens that stand for the    *)
(*   file up to there.  That is said with a set of marks, pairs of a place *)
(*   in the bits and a place in the file: between two of them lies one     *)
(*   token.                                                                *)
(*                                                                         *)
(*   ServedInv: the decoder has used the bits up to some place, holds the  *)
(*   bits behind it, and is at a mark or inside the token of one; and the  *)
(*   bytes it has sent are the file up to there.                           *)
(*                                                                         *)
(* For templates there is no invariant of their own: what the calls make of*)
(* a file is a matter of the operators, and proved by induction over its   *)
(* bytes.                                                                  *)
(***************************************************************************)
EXTENDS EspFs, SequenceTheorems, WellFoundedInduction, TLAPS

-----------------------------------------------------------------------------
(***************************************************************************)
(* Natural numbers. The library's theorems on induction take an operator   *)
(* as a parameter, which the provers cannot instantiate; with sets for     *)
(* properties the same is said without one.                                *)
(***************************************************************************)

(* A set of natural numbers has a least element. *)
LEMMA LeastNatural ==
  ASSUME NEW T \in SUBSET Nat, T # {}
  PROVE  \E x \in T : \A y \in T : x <= y
<1> DEFINE R == {ss \in Nat \X Nat : ss[1] < ss[2]}
<1>1. IsWellFoundedOn(R, Nat)
  BY NatLessThanWellFounded DEF OpToRel
<1>2. \A x, y \in Nat : <<y, x>> \in R <=> y < x
  OBVIOUS
<1> HIDE DEF R
<1>3. PICK x \in T : \A y \in T : ~(<<y, x>> \in R)
  BY <1>1, WFMin
<1>4. \A y \in T : x \in Nat /\ y \in Nat /\ ~(y < x)
  BY <1>2, <1>3
<1>5. QED  BY <1>3, <1>4

(* Induction, on a set of natural numbers. *)
LEMMA Induction ==
  ASSUME NEW T, 0 \in T, \A n \in Nat : n \in T => n + 1 \in T
  PROVE  Nat \subseteq T
<1> SUFFICES ASSUME Nat \ T # {} PROVE FALSE
  OBVIOUS
<1>1. PICK x \in Nat \ T : \A y \in Nat \ T : x <= y
  BY LeastNatural
<1>2. x # 0
  OBVIOUS
<1>3. x - 1 \in Nat /\ x - 1 \in T
  BY <1>1, <1>2
<1>4. QED  BY <1>3

(* Induction up to n. *)
LEMMA InductionTo ==
  ASSUME NEW n \in Nat, NEW T, 0 \in T, \A i \in 1..n : i - 1 \in T => i \in T
  PROVE  0..n \subseteq T
<1> DEFINE U == {i \in Nat : i <= n => i \in T}
<1>1. \A i \in Nat : i \in U => i + 1 \in U
  <2> SUFFICES ASSUME NEW i \in Nat, i \in U, i + 1 <= n PROVE i + 1 \in T
    OBVIOUS
  <2>1. i \in T /\ i + 1 \in 1..n /\ (i + 1) - 1 = i
    OBVIOUS
  <2>2. QED  BY <2>1
<1>2. Nat \subseteq U
  BY <1>1, Induction
<1>3. QED  BY <1>2

(* A function on 0..n is defined by its first value and a step. *)
LEMMA Recursion ==
  ASSUME NEW S, NEW first \in S, NEW n \in Nat, NEW step \in [1..n -> [S -> S]]
  PROVE  \E f \in [0..n -> S] : f[0] = first /\ \A i \in 1..n : f[i] = step[i][f[i - 1]]
<1> DEFINE F(m, f) == f \in [0..m -> S] /\ f[0] = first /\ \A i \in 1..m : f[i] = step[i][f[i - 1]]
           T == {m \in Nat : m <= n => \E f : F(m, f)}
<1>1. 0 \in T
  <2>1. F(0, [i \in 0..0 |-> first])
    OBVIOUS
  <2>2. QED  BY <2>1
<1>2. ASSUME NEW m \in Nat, m \in T PROVE m + 1 \in T
  <2> SUFFICES ASSUME m + 1 <= n PROVE \E f : F(m + 1, f)
    OBVIOUS
  <2>1. PICK f : F(m, f)
    BY <1>2
  <2> DEFINE g == [i \in 0..(m + 1) |-> IF i = m + 1 THEN step[m + 1][f[m]] ELSE f[i]]
  <2>2. f[m] \in S /\ m + 1 \in 1..n
    BY <2>1
  <2>3. step[m + 1][f[m]] \in S
    BY <2>2
  <2>4. g \in [0..(m + 1) -> S]
    BY <2>1, <2>3
  <2>5. g[0] = first
    BY <2>1
  <2>6. ASSUME NEW i \in 1..(m + 1) PROVE g[i] = step[i][g[i - 1]]
    <3>1. CASE i = m + 1
      <4>1. g[m + 1] = step[m + 1][f[m]] /\ g[m] = f[m]
        OBVIOUS
      <4>2. QED  BY <3>1, <4>1
    <3>2. CASE i # m + 1
      <4>1. i \in 1..m /\ i \in 0..(m + 1) /\ i - 1 \in 0..(m + 1) /\ i - 1 # m + 1
        BY <3>2
      <4>2. QED  BY <2>1, <4>1
    <3>3. QED  BY <3>1, <3>2
  <2> HIDE DEF g
  <2>7. QED  BY <2>4, <2>5, <2>6
<1>3. Nat \subseteq T
  BY <1>1, <1>2, Induction
<1>4. QED  BY <1>3

-----------------------------------------------------------------------------
(* Powers of two. *)
LEMMA Pow2Def == Pow2 = [n \in Nat |-> IF n = 0 THEN 1 ELSE 2 * Pow2[n - 1]]
<1> DEFINE F(m, f) == f \in [0..m -> Nat] /\ f[0] = 1 /\ \A i \in 1..m : f[i] = 2 * f[i - 1]
<1>1. ASSUME NEW m \in Nat PROVE \E f : F(m, f)
  <2> DEFINE S == Nat
             step == [i \in 1..m |-> [x \in S |-> 2 * x]]
  <2>1. step \in [1..m -> [S -> S]] /\ 1 \in S
    OBVIOUS
  <2>0. S = Nat
    OBVIOUS
  <2>2. \A i \in 1..m, x \in S : step[i][x] = 2 * x
    OBVIOUS
  <2> HIDE DEF step, S
  <2>3. PICK f \in [0..m -> S] : f[0] = 1 /\ \A i \in 1..m : f[i] = step[i][f[i - 1]]
    BY <2>1, Recursion
  <2>4. ASSUME NEW i \in 1..m PROVE f[i] = 2 * f[i - 1]
    <3>1. i - 1 \in 0..m
      OBVIOUS
    <3>2. f[i - 1] \in S
      BY <3>1
    <3>3. QED  BY <2>2, <2>3, <3>2
  <2>5. F(m, f)
    BY <2>0, <2>3, <2>4
  <2>6. QED  BY <2>5
<1>2. ASSUME NEW m \in Nat, NEW k \in 0..m, NEW f, NEW g, F(m, f), F(k, g) PROVE f[k] = g[k]
  <2> DEFINE T == {i \in 0..k : f[i] = g[i]}
  <2>1. \A i \in 1..k : i - 1 \in T => i \in T
    BY <1>2
  <2>2. 0 \in T /\ k \in Nat
    BY <1>2
  <2>3. T \subseteq {i \in 0..k : f[i] = g[i]}
    OBVIOUS
  <2> HIDE DEF T
  <2>4. 0..k \subseteq T
    BY <2>1, <2>2, InductionTo
  <2>5. QED  BY <2>3, <2>4
<1> DEFINE G(m) == CHOOSE f : F(m, f)
           h == [m \in Nat |-> G(m)[m]]
<1>3. \A m \in Nat : F(m, G(m))
  BY <1>1
<1>a. \A n \in Nat : h[n] = G(n)[n]
  OBVIOUS
<1> HIDE DEF G
<1>4. h = [n \in Nat |-> IF n = 0 THEN 1 ELSE 2 * h[n - 1]]
  <2>1. ASSUME NEW n \in Nat PROVE h[n] = IF n = 0 THEN 1 ELSE 2 * h[n - 1]
    <3>1. CASE n = 0
      BY <1>a, <1>3, <3>1
    <3>2. CASE n # 0
      <4>1. n - 1 \in 0..n /\ n - 1 \in Nat /\ n \in 1..n
        BY <3>2
      <4>2. G(n)[n] = 2 * G(n)[n - 1]
        BY <1>3, <4>1
      <4>3. G(n)[n - 1] = G(n - 1)[n - 1]
        <5>1. F(n, G(n)) /\ F(n - 1, G(n - 1)) /\ n - 1 \in 0..n /\ n \in Nat
          BY <1>3, <4>1
        <5> HIDE DEF F
        <5>2. QED  BY <1>2, <5>1
      <4>4. QED  BY <1>a, <3>2, <4>1, <4>2, <4>3
    <3>3. QED  BY <3>1, <3>2
  <2>2. h = [n \in Nat |-> h[n]]
    OBVIOUS
  <2> HIDE DEF h
  <2>3. QED  BY <2>1, <2>2
<1>5. QED  BY <1>4, Zenon DEF Pow2

(* What is used of it. *)
LEMMA Pow2Facts ==
  /\ Pow2[0] = 1 /\ Pow2[1] = 2
  /\ \A n \in Nat : /\ Pow2[n] \in Nat /\ Pow2[n] > 0
                    /\ Pow2[n + 1] = 2 * Pow2[n]
<1>1. Pow2[0] = 1
  BY Pow2Def
<1>2. \A n \in Nat : Pow2[n + 1] = 2 * Pow2[n]
  BY Pow2Def
<1>a. Pow2[1] = 2
  BY Pow2Def
<1> DEFINE T == {n \in Nat : Pow2[n] \in Nat /\ Pow2[n] > 0}
<1>3. 0 \in T /\ \A n \in Nat : n \in T => n + 1 \in T
  BY <1>1, <1>2
<1>4. T \subseteq {n \in Nat : Pow2[n] \in Nat /\ Pow2[n] > 0}
  OBVIOUS
<1> HIDE DEF T
<1>5. Nat \subseteq T
  BY <1>3, Induction
<1>6. QED  BY <1>1, <1>2, <1>a, <1>4, <1>5

(* Division by powers of two. *)
LEMMA Divided ==
  ASSUME NEW n \in Nat, NEW p \in Nat, p > 0
  PROVE  /\ n \div p \in Nat /\ n % p \in Nat /\ n % p < p
         /\ n = (n \div p) * p + (n % p)
  OBVIOUS

(* A quotient and a remainder are known by their sum. *)
LEMMA DivisionIs ==
  ASSUME NEW q \in Nat, NEW r \in Nat, NEW p \in Nat, r < p
  PROVE  (q * p + r) \div p = q /\ (q * p + r) % p = r
  OBVIOUS

(* Exponents add up. *)
LEMMA Pow2Sum ==
  ASSUME NEW m \in Nat, NEW n \in Nat
  PROVE  Pow2[m + n] = Pow2[m] * Pow2[n]
<1> DEFINE T == {i \in Nat : Pow2[m + i] = Pow2[m] * Pow2[i]}
<1>1. 0 \in T
  BY Pow2Facts
<1>2. ASSUME NEW i \in Nat, i \in T PROVE i + 1 \in T
  <2>1. Pow2[m + (i + 1)] = 2 * Pow2[m + i]
    <3>1. m + i \in Nat /\ m + (i + 1) = (m + i) + 1
      OBVIOUS
    <3>2. QED  BY <3>1, Pow2Facts
  <2>2. Pow2[m] \in Nat /\ Pow2[i] \in Nat /\ Pow2[i + 1] = 2 * Pow2[i]
    BY Pow2Facts
  <2>3. Pow2[m + i] = Pow2[m] * Pow2[i]
    BY <1>2
  <2>4. QED  BY <2>1, <2>2, <2>3
<1>3. T \subseteq {i \in Nat : Pow2[m + i] = Pow2[m] * Pow2[i]}
  OBVIOUS
<1> HIDE DEF T
<1>4. Nat \subseteq T
  BY <1>1, <1>2, Induction
<1>5. QED  BY <1>3, <1>4

(* Shifting right twice is shifting right by the sum. *)
LEMMA DivideTwice ==
  ASSUME NEW n \in Nat, NEW a \in Nat, NEW b \in Nat
  PROVE  (n \div Pow2[a]) \div Pow2[b] = n \div Pow2[a + b]
<1> DEFINE A == Pow2[a]  B == Pow2[b]
           q == n \div A  r == n % A  p == q \div B  t == q % B
<1>1. A \in Nat /\ A > 0 /\ B \in Nat /\ B > 0 /\ Pow2[a + b] = A * B
  BY Pow2Facts, Pow2Sum
<1>2. q \in Nat /\ r \in Nat /\ r < A /\ n = q * A + r
  BY <1>1, Divided
<1>3. p \in Nat /\ t \in Nat /\ t < B /\ q = p * B + t
  BY <1>1, <1>2, Divided
<1> HIDE DEF A, B, q, r, p, t
<1>4. n = p * (A * B) + (t * A + r)
  <2>1. (p * B + t) * A = p * (A * B) + t * A
    BY <1>1, <1>3
  <2>2. QED  BY <1>1, <1>2, <1>3, <2>1
<1>5. t * A + r \in Nat /\ t * A + r < A * B /\ A * B \in Nat
  <2>1. t * A + A <= B * A
    <3>1. t + 1 <= B
      BY <1>1, <1>3
    <3>2. (t + 1) * A <= B * A
      BY <1>1, <1>3, <3>1
    <3>3. QED  BY <1>1, <1>3, <3>2
  <2>2. QED  BY <1>1, <1>2, <1>3, <2>1
<1>6. n \div (A * B) = p
  BY <1>3, <1>4, <1>5, DivisionIs
<1>7. QED  BY <1>1, <1>6 DEF p, q, A, B

(* The lower bits of a number are those of its remainder. *)
LEMMA LowBit ==
  ASSUME NEW n \in Nat, NEW b \in Nat, NEW j \in Nat, j < b
  PROVE  ((n % Pow2[b]) \div Pow2[j]) % 2 = (n \div Pow2[j]) % 2
<1> DEFINE J == Pow2[j]  D == Pow2[b - j - 1]  B == Pow2[b]
           q == n \div B  r == n % B  u == r \div J  v == r % J
<1>1. J \in Nat /\ J > 0 /\ D \in Nat /\ D > 0 /\ B \in Nat /\ B > 0 /\ B = J * (2 * D)
  <2>1. b - j - 1 \in Nat /\ b - j \in Nat /\ b = j + (b - j) /\ b - j = (b - j - 1) + 1
    OBVIOUS
  <2>a. Pow2[(b - j - 1) + 1] = 2 * D
    BY <2>1, Pow2Facts
  <2>b. Pow2[j + (b - j)] = J * Pow2[b - j]
    BY <2>1, Pow2Sum
  <2>2. B = J * Pow2[b - j] /\ Pow2[b - j] = 2 * D
    BY <2>1, <2>a, <2>b
  <2>3. QED  BY <2>1, <2>2, Pow2Facts
<1>2. q \in Nat /\ r \in Nat /\ r < B /\ n = q * B + r
  BY <1>1, Divided
<1>3. u \in Nat /\ v \in Nat /\ v < J /\ r = u * J + v
  BY <1>1, <1>2, Divided
<1> HIDE DEF J, D, B, q, r, u, v
<1>4. n = (2 * (q * D) + u) * J + v
  <2>1. q * (J * (2 * D)) = (2 * (q * D)) * J
    BY <1>1, <1>2
  <2>2. QED  BY <1>1, <1>2, <1>3, <2>1
<1>5. q * D \in Nat
  BY <1>1, <1>2
<1>6. n \div J = 2 * (q * D) + u
  <2>1. 2 * (q * D) + u \in Nat
    BY <1>5, <1>3
  <2>2. QED  BY <1>1, <1>3, <1>4, <2>1, DivisionIs
<1> DEFINE e == q * D
<1>7. (2 * e + u) % 2 = u % 2
  <2> HIDE DEF e
  <2>1. e \in Nat
    BY <1>5 DEF e
  <2>2. QED  BY <2>1, <1>3
<1>8. QED  BY <1>6, <1>7 DEF u, r, J, B

-----------------------------------------------------------------------------
(* Bits. *)
Bit == {0, 1}

(* The bits of a number. *)
LEMMA ToBitsType ==
  ASSUME NEW n \in Nat, NEW k \in Nat
  PROVE  /\ ToBits(n, k) \in Seq(Bit) /\ Len(ToBits(n, k)) = k
         /\ \A i \in 1..k : ToBits(n, k)[i] = (n \div Pow2[k - i]) % 2
<1>1. \A i \in 1..k : (n \div Pow2[k - i]) % 2 \in Bit
  <2> TAKE i \in 1..k
  <2>1. k - i \in Nat
    OBVIOUS
  <2>2. n \div Pow2[k - i] \in Nat
    BY <2>1, Pow2Facts, Divided
  <2>3. QED  BY <2>2 DEF Bit
<1>2. ToBits(n, k) \in [1..k -> Bit]
  BY <1>1 DEF ToBits
<1>3. QED  BY <1>2 DEF ToBits

(* The fold of FromBits, as a sequence of its intermediate values. *)
LEMMA FromBitsDef ==
  ASSUME NEW bits \in Seq(Bit)
  PROVE  \E v \in [0..Len(bits) -> Nat] :
           /\ v[0] = 0 /\ \A i \in 1..Len(bits) : v[i] = 2 * v[i - 1] + bits[i]
           /\ FromBits(bits) = v[Len(bits)]
<1> DEFINE len == Len(bits)
           S == Nat
           step == [i \in 1..len |-> [x \in S |-> 2 * x + bits[i]]]
           F(f) == f = [i \in 0..len |-> IF i = 0 THEN 0 ELSE 2 * f[i - 1] + bits[i]]
<1>1. len \in Nat /\ \A i \in 1..len : bits[i] \in Nat
  BY DEF Bit
<1>a. len \in Nat
  OBVIOUS
<1>2. step \in [1..len -> [S -> S]]
  BY <1>1
<1>3. S = Nat
  OBVIOUS
<1>4. \A i \in 1..len, x \in S : step[i][x] = 2 * x + bits[i]
  OBVIOUS
<1> HIDE DEF step, S, len
<1> DEFINE zero == 0
<1>z. zero \in S
  BY <1>3
<1> HIDE DEF zero
<1>b. \E g \in [0..len -> S] : g[0] = zero /\ \A i \in 1..len : g[i] = step[i][g[i - 1]]
  <2>1. ASSUME NEW m \in Nat, NEW st \in [1..m -> [S -> S]], NEW z \in S
        PROVE  \E g \in [0..m -> S] : g[0] = z /\ \A i \in 1..m : g[i] = st[i][g[i - 1]]
    BY Recursion
  <2>2. QED  BY <2>1, <1>a, <1>2, <1>z
<1>5. PICK g \in [0..len -> S] : g[0] = 0 /\ \A i \in 1..len : g[i] = step[i][g[i - 1]]
  BY <1>b DEF zero
<1>6. ASSUME NEW i \in 1..len PROVE g[i] = 2 * g[i - 1] + bits[i]
  <2>1. i - 1 \in 0..len
    BY <1>1
  <2>2. g[i - 1] \in S
    BY <2>1
  <2>3. QED  BY <1>4, <1>5, <2>2
<1>7. F(g)
  <2>1. \A i \in 0..len : i # 0 => i \in 1..len
    BY <1>1
  <2>2. \A i \in 0..len : g[i] = IF i = 0 THEN 0 ELSE 2 * g[i - 1] + bits[i]
    BY <1>5, <1>6, <2>1
  <2>3. g = [i \in 0..len |-> g[i]]
    OBVIOUS
  <2> HIDE DEF F
  <2>4. QED  BY <2>2, <2>3 DEF F
<1> DEFINE value == CHOOSE f : F(f)
<1>8. F(value)
  BY <1>7
<1>9. FromBits(bits) = value[len]
  BY Zenon DEF FromBits, len
<1> HIDE DEF value
<1>10. value \in [0..len -> Nat] /\ value[0] = 0 /\ \A i \in 1..len : value[i] = 2 * value[i - 1] + bits[i]
  <2>1. value[0] = 0 /\ \A i \in 1..len : value[i] = 2 * value[i - 1] + bits[i]
    BY <1>1, <1>8
  <2> DEFINE T == {i \in 0..len : value[i] \in Nat}
  <2>2. 0 \in T
    BY <1>1, <2>1
  <2>a. ASSUME NEW i \in 1..len, i - 1 \in T PROVE i \in T
    <3>1. value[i - 1] \in Nat /\ bits[i] \in Nat
      BY <1>1, <2>a
    <3>2. QED  BY <1>1, <2>1, <3>1
  <2>3. T \subseteq {i \in 0..len : value[i] \in Nat}
    OBVIOUS
  <2> HIDE DEF T
  <2>4. 0..len \subseteq T
    BY <1>a, <2>2, <2>a, InductionTo
  <2>5. \A i \in 0..len : value[i] \in Nat
    BY <2>3, <2>4
  <2>6. QED  BY <1>8, <2>1, <2>5
<1>11. QED  BY <1>9, <1>10 DEF len

(* The bits of a number, the highest first, are put together to it again. *)
LEMMA BitsMean ==
  ASSUME NEW bits \in Seq(Bit), NEW n \in Nat, n < Pow2[Len(bits)],
         \A i \in 1..Len(bits) : bits[i] = (n \div Pow2[Len(bits) - i]) % 2
  PROVE  FromBits(bits) = n
<1> DEFINE k == Len(bits)
<1>1. k \in Nat
  OBVIOUS
<1>2. PICK v \in [0..k -> Nat] :
         /\ v[0] = 0 /\ \A i \in 1..k : v[i] = 2 * v[i - 1] + bits[i]
         /\ FromBits(bits) = v[k]
  BY FromBitsDef
<1> DEFINE T == {i \in 0..k : v[i] = n \div Pow2[k - i]}
<1>3. 0 \in T
  <2>1. n \div Pow2[k] = 0
    <3>1. Pow2[k] \in Nat
      BY <1>1, Pow2Facts
    <3>2. \A p \in Nat : 0 * p + n = n
      OBVIOUS
    <3>3. QED  BY <3>1, <3>2, DivisionIs
  <2>2. QED  BY <1>1, <1>2, <2>1
<1>4. ASSUME NEW i \in 1..k, i - 1 \in T PROVE i \in T
  <2>1. k - i \in Nat /\ k - (i - 1) = (k - i) + 1
    OBVIOUS
  <2> DEFINE m == n \div Pow2[k - i]
  <2>2. m \in Nat
    BY <2>1, Pow2Facts, Divided
  <2>3. n \div Pow2[k - (i - 1)] = m \div 2
    <3>1. Pow2[1] = 2
      BY Pow2Facts
    <3>2. m \div Pow2[1] = n \div Pow2[(k - i) + 1]
      BY <2>1, DivideTwice
    <3>3. QED  BY <2>1, <3>1, <3>2
  <2>4. v[i] = 2 * (m \div 2) + (m % 2)
    BY <1>2, <1>4, <2>3
  <2> HIDE DEF m
  <2>5. v[i] = m
    BY <2>2, <2>4
  <2>6. QED  BY <2>5 DEF m
<1>5. T \subseteq {i \in 0..k : v[i] = n \div Pow2[k - i]}
  OBVIOUS
<1> HIDE DEF T
<1>6. 0..k \subseteq T
  BY <1>1, <1>3, <1>4, InductionTo
<1>7. v[k] = n \div Pow2[0]
  BY <1>1, <1>5, <1>6
<1>8. QED  BY <1>2, <1>7, Pow2Facts

(* A quotient is below what bounds it. *)
LEMMA QuotientSmall ==
  ASSUME NEW n \in Nat, NEW p \in Nat, NEW q \in Nat, p > 0, n < q * p
  PROVE  n \div p < q
<1>1. n \div p \in Nat /\ n = (n \div p) * p + (n % p) /\ n % p \in Nat
  BY Divided
<1> DEFINE d == n \div p
<1> SUFFICES ASSUME q <= d PROVE FALSE
  BY <1>1
<1>2. q * p <= d * p
  BY <1>1
<1>3. QED  BY <1>1, <1>2

(* What is read of a number's bits: all, the first, or the last of them.   *)
LEMMA AllBits ==
  ASSUME NEW k \in Nat, NEW n \in 0..(Pow2[k] - 1), NEW bits \in Seq(Bit), Len(bits) = k,
         \A i \in 1..k : bits[i] = ToBits(n, k)[i]
  PROVE  FromBits(bits) = n
<1>0. Pow2[k] \in Nat
  BY Pow2Facts
<1>1. n \in Nat /\ n < Pow2[k]
  BY <1>0
<1>2. \A i \in 1..k : bits[i] = (n \div Pow2[k - i]) % 2
  BY <1>1, ToBitsType
<1>3. QED  BY <1>1, <1>2, BitsMean

LEMMA FirstBits ==
  ASSUME NEW k \in Nat, NEW n \in 0..(Pow2[k] - 1), NEW b \in 0..k,
         NEW bits \in Seq(Bit), Len(bits) = k - b,
         \A i \in 1..(k - b) : bits[i] = ToBits(n, k)[i]
  PROVE  FromBits(bits) = n \div Pow2[b]
<1>0. Pow2[k] \in Nat
  BY Pow2Facts
<1>1. n \in Nat /\ n < Pow2[k] /\ b \in Nat /\ k - b \in Nat /\ (k - b) + b = k
  BY <1>0
<1> DEFINE m == n \div Pow2[b]
<1>2. m \in Nat
  BY <1>1, Pow2Facts, Divided
<1>3. m < Pow2[k - b]
  <2>1. Pow2[(k - b) + b] = Pow2[k - b] * Pow2[b]
    BY <1>1, Pow2Sum
  <2>2. Pow2[k - b] \in Nat /\ Pow2[b] \in Nat /\ Pow2[b] > 0
    BY <1>1, Pow2Facts
  <2>3. QED  BY <1>1, <2>1, <2>2, QuotientSmall
<1>4. ASSUME NEW i \in 1..(k - b) PROVE bits[i] = (m \div Pow2[(k - b) - i]) % 2
  <2>1. i \in 1..k /\ (k - b) - i \in Nat /\ b + ((k - b) - i) = k - i
    BY <1>1
  <2>2. m \div Pow2[(k - b) - i] = n \div Pow2[k - i]
    BY <1>1, <2>1, DivideTwice
  <2>3. ToBits(n, k)[i] = (n \div Pow2[k - i]) % 2
    BY <1>1, <2>1, ToBitsType
  <2>4. QED  BY <2>2, <2>3
<1> HIDE DEF m
<1>5. FromBits(bits) = m
  BY <1>2, <1>3, <1>4, BitsMean
<1>6. QED  BY <1>5 DEF m

LEMMA LastBits ==
  ASSUME NEW k \in Nat, NEW n \in Nat, NEW b \in 0..k,
         NEW bits \in Seq(Bit), Len(bits) = b,
         \A i \in 1..b : bits[i] = ToBits(n, k)[k - b + i]
  PROVE  FromBits(bits) = n % Pow2[b]
<1> DEFINE m == n % Pow2[b]
<1>0. b \in Nat /\ Pow2[b] \in Nat /\ Pow2[b] > 0
  BY Pow2Facts
<1>1. b \in Nat /\ m \in Nat /\ m < Pow2[b]
  BY <1>0, Divided
<1>2. ASSUME NEW i \in 1..b PROVE bits[i] = (m \div Pow2[b - i]) % 2
  <2>1. b - i \in Nat /\ b - i < b /\ k - b + i \in 1..k /\ k - (k - b + i) = b - i
    OBVIOUS
  <2>2. (m \div Pow2[b - i]) % 2 = (n \div Pow2[b - i]) % 2
    BY <1>1, <2>1, LowBit
  <2>3. ToBits(n, k)[k - b + i] = (n \div Pow2[k - (k - b + i)]) % 2
    BY <2>1, ToBitsType
  <2>4. QED  BY <2>1, <2>2, <2>3
<1> HIDE DEF m
<1>3. FromBits(bits) = m
  BY <1>1, <1>2, BitsMean
<1>4. QED  BY <1>3 DEF m

-----------------------------------------------------------------------------
(***************************************************************************)
(* The image: headers one after the other, aligned, "last" at the end, and *)
(* the file in it once.                                                    *)
(***************************************************************************)
Name == [name : STRING \ {"last"}, ext : STRING, nameLen : Nat \ {0}, comp : Nat]
Header == [name : STRING \cup {"last"}, at : Nat, nameLen : Nat, comp : Nat, gzip : BOOLEAN]

Phases == {"pack", "open", "serve", "done", "missing", "broken", "usage", "failed"}

ImageTypes ==
  /\ phase \in Phases
  /\ file \in Seq(ByteValue) /\ Deflate(file) \in Seq(ByteValue) \ {<<>>}
  /\ todo \in Seq(Name) /\ url \in STRING \ {"last"}
  /\ image \in Seq(Header) /\ pos \in Nat

Listed ==
  /\ \A i, j \in DOMAIN todo : todo[i].name = "file" /\ todo[j].name = "file" => i = j
  /\ url = "file" \/ \A i \in DOMAIN todo : todo[i].name # url

Linked ==
  /\ image # <<>> => image[1].at = 0
  /\ \A i \in DOMAIN image : image[i].at % 4 = 0 /\ image[i].nameLen % 4 = 0
  /\ \A i \in 1..(Len(image) - 1) : image[i + 1].at = Skipped(image[i].at, image[i])
  /\ \A i, j \in DOMAIN image : i < j => image[i].at < image[j].at

Handled == \E i \in DOMAIN image : image[i].name = "file"

Named ==
  /\ \A i, j \in DOMAIN image : image[i].name = "file" /\ image[j].name = "file" => i = j
  /\ url = "file" \/ \A i \in DOMAIN image : image[i].name # url
  /\ Handled => \A i \in DOMAIN todo : todo[i].name # "file"
  /\ \A i \in DOMAIN image : image[i].name = "last" =>
        i = Len(image) /\ phase \notin {"pack", "usage", "failed"}
  /\ phase \notin {"pack", "usage", "failed"} =>
        image # <<>> /\ image[Len(image)].name = "last"

Walking ==
  /\ phase \in {"pack", "usage", "failed"} => pos = 0
  /\ phase = "open" =>
       \E k \in DOMAIN image : /\ image[k].at = pos
                               /\ \A i \in 1..(k - 1) : image[i].name # url
  /\ phase = "missing" => \A i \in DOMAIN image : image[i].name # url
  /\ phase \in {"serve", "done"} => url = "file" /\ Handled

ImageInv == ImageTypes /\ Listed /\ Linked /\ Named /\ Walking

-----------------------------------------------------------------------------
(***************************************************************************)
(* The encoder: its buffer is the file around the position it has reached, *)
(* and what it has put out are the tokens up to there.                     *)
(***************************************************************************)
FileByte(k) == IF k \in 1..Len(file) THEN file[k] ELSE 0

Buffer ==
  /\ enc.buf \in [0..(2 * Window - 1) -> ByteValue]
  /\ \A i \in 0..(Window + enc.size - 1) :
       enc.buf[i] = FileByte(enc.given - enc.size + i - Window + 1)

EncoderTypes ==
  /\ enc \in [given : Nat, buf : [0..(2 * Window - 1) -> ByteValue], size : Nat, msi : Nat,
              backlog : {"none", "partial", "filled"}, full : BOOLEAN, finishing : BOOLEAN]
  /\ enc.given <= Len(file) /\ enc.size <= enc.given /\ enc.size <= Window /\ enc.msi <= enc.size
  /\ enc.finishing => enc.full /\ enc.given = Len(file)
  /\ enc.full /\ ~enc.finishing => enc.size = Window

(* A token lies between the bits a and a2 of out, and stands for the bytes *)
(* of the file behind t, up to t2.                                         *)
LiteralAt(a, t, a2, t2) ==
  /\ a2 = a + 1 + ByteBits /\ t2 = t + 1
  /\ \A i \in 1..(1 + ByteBits) : out[a + i] = Literal(file[t2])[i]
BackrefAt(a, t, a2, t2, d, n) ==
  /\ a2 = a + 1 + W + L /\ t2 = t + n
  /\ \A i \in 1..(1 + W + L) : out[a + i] = Backref(d, n)[i]
  /\ \A j \in 1..n : FileByte(t + j) = FileByte(t + j - d)
TokenAt(a, t, a2, t2) ==
  \/ LiteralAt(a, t, a2, t2)
  \/ \E d \in 1..Window, n \in 1..Ahead : BackrefAt(a, t, a2, t2, d, n)

(* The tokens end at the bit end, and stand for the first bytes: marks are *)
(* the places between them, in out and in the file.                        *)
Tokens(marks, end, bytes) ==
  /\ marks \subseteq (0..end) \X (0..bytes)
  /\ <<0, 0>> \in marks
  /\ \A m \in marks :
       m = <<end, bytes>> \/ \E m2 \in marks : TokenAt(m[1], m[2], m2[1], m2[2])

Encodes(bytes) ==
  /\ out \in Seq(Bit)
  /\ \E marks : Tokens(marks, Len(out), bytes)

EncoderInv ==
  /\ EncoderTypes /\ Buffer
  /\ Encodes(enc.given - enc.size + enc.msi)

-----------------------------------------------------------------------------
(* What is stored of the file. *)
Padded(end) == Len(out) % ByteBits = 0 /\ end \in 0..Len(out) /\ Len(out) - end < ByteBits
PackedWhole ==
  /\ EncoderAlloc
  /\ \E marks : \E end \in Nat : Padded(end) /\ Tokens(marks, end, Len(file))
StoredInv ==
  IF packed THEN PackedWhole /\ \A i \in DOMAIN image : image[i].name = "file" => ~image[i].gzip
  ELSE \A i \in DOMAIN image : image[i].name = "file" =>
         cdat = IF image[i].gzip THEN Deflate(file) ELSE file

FileInv ==
  /\ EncoderTypes /\ Buffer /\ out \in Seq(Bit)
  /\ packed \in BOOLEAN /\ cdat \in Seq(ByteValue) /\ Len(cdat) <= Len(file)
  /\ ~Handled => packed /\ Encodes(enc.given - enc.size + enc.msi)
  /\ Handled => StoredInv

-----------------------------------------------------------------------------
(***************************************************************************)
(* The decoder d has used the bits of out up to p: what comes next are the *)
(* bits it holds, and those of the bytes it holds.                         *)
(***************************************************************************)
DecoderRecord ==
  [st : {"empty", "input", "literal", "msb", "lsb", "count", "backref"},
   inp : Seq(Seq(Bit)), idx : Nat, cur : Seq(Bit), index : 0..Window, count : 0..Ahead]

Stream(d, p) ==
  /\ Len(d.cur) < ByteBits /\ Len(d.inp) <= InBuf /\ Len(d.inp) <= fed
  /\ d.idx <= Len(d.inp) /\ (d.inp = <<>> => d.idx = 0) /\ (d.inp # <<>> => d.idx < Len(d.inp))
  /\ p + Len(d.cur) + (Len(d.inp) - d.idx) * ByteBits = fed * ByteBits
  /\ \A i \in 1..Len(d.cur) : d.cur[i] = out[p + i]
  /\ \A j \in 1..Len(d.inp) : d.inp[j] = ByteAt(fed - Len(d.inp) + j)

(* The token it is in, if any, and how far, when n bytes were sent.        *)
InLiteral(d, n, p, m, m2) ==
  /\ d.st = "literal" /\ n = m[2] /\ p = m[1] + 1
  /\ LiteralAt(m[1], m[2], m2[1], m2[2])

InBackref(d, n, p, m, distance, length) ==
  \/ /\ d.st = "msb" /\ n = m[2] /\ p = m[1] + 1
     /\ W > ByteBits /\ d.index = 0
  \/ /\ d.st = "lsb" /\ n = m[2]
     /\ IF W > ByteBits
          THEN p = m[1] + 1 + (W - ByteBits)
               /\ d.index = ((distance - 1) \div Pow2[ByteBits]) * Pow2[ByteBits]
          ELSE p = m[1] + 1 /\ d.index = 0
  \/ /\ d.st = "count" /\ n = m[2] /\ p = m[1] + 1 + W /\ d.index = distance
  \/ /\ d.st = "backref" /\ p = m[1] + 1 + W + L /\ d.index = distance
     /\ d.count \in 1..length /\ n = m[2] + (length - d.count)

Between(d, n, p, m) ==
  d.st \in {"empty", "input"} /\ n = m[2] /\ p = m[1] /\ (d.st = "empty" <=> d.inp = <<>>)

At(d, n, p, marks) ==
  \E m \in marks :
    \/ Between(d, n, p, m)
    \/ \E m2 \in marks :
         \/ InLiteral(d, n, p, m, m2)
         \/ \E distance \in 1..Window, length \in 1..Ahead :
              BackrefAt(m[1], m[2], m2[1], m2[2], distance, length)
                /\ InBackref(d, n, p, m, distance, length)

Prefix(bytes) == Len(served) <= Len(bytes) /\ \A i \in 1..Len(served) : served[i] = bytes[i]

Decodes ==
  \E marks : \E end \in Nat : \E p \in Nat :
    /\ Padded(end) /\ Tokens(marks, end, Len(file))
    /\ Stream(dec, p) /\ At(dec, Len(served), p, marks)

Unpacking ==
  /\ served \in Seq(ByteValue) /\ Prefix(file)
  /\ read \in [got : 0..Chunk, feed : BOOLEAN, left : Nat]
  /\ dec \in DecoderRecord /\ fed \in 0..Bytes
  /\ Decodes
  /\ ~read.feed /\ read.left = 0 => fed = Bytes
  /\ phase = "done" => Len(served) = Len(file) /\ dec.st = "empty"

Unread ==
  /\ dec = Decoder /\ fed = 0
  /\ read = [got |-> 0, feed |-> TRUE, left |-> 0]
Copying ==
  /\ served \in Seq(ByteValue) /\ Prefix(cdat)
  /\ phase = "done" => Len(served) = Len(cdat)

ServedInv ==
  IF phase \notin {"serve", "done"} THEN Unread /\ served = <<>>
  ELSE IF packed THEN Unpacking ELSE Unread /\ Copying

-----------------------------------------------------------------------------
(***************************************************************************)
(* The widths, which decide how large everything is.                       *)
(***************************************************************************)

Widths ==
  /\ W \in Nat /\ L \in Nat /\ 0 < L /\ L < W /\ W < 16
  /\ W <= 2 * ByteBits /\ L <= ByteBits /\ 1 + W + L > ByteBits
  /\ ByteBits \in Nat /\ ByteBits > 0

LEMMA WidthsHold == Widths
<1>1. Level \in 1..9
  BY DEF Level
<1>2. (Level - 1) \div 2 + 1 \in 1..5
  BY <1>1
<1> DEFINE i == (Level - 1) \div 2 + 1
<1>3. /\ 0 < Lookaheads[i] /\ Lookaheads[i] < Windows[i] /\ Windows[i] < 16
      /\ Windows[i] <= 2 * ByteBits /\ Lookaheads[i] <= ByteBits
      /\ 1 + Windows[i] + Lookaheads[i] > ByteBits
  BY <1>2, EspFsAssumption
<1>4. Windows[i] \in Nat /\ Lookaheads[i] \in Nat /\ ByteBits \in Nat /\ ByteBits > 0
  <2> HIDE DEF i
  <2>1. Windows \in Seq(Nat) /\ Lookaheads \in Seq(Nat) /\ Len(Windows) = 5 /\ Len(Lookaheads) = 5
    BY EspFsAssumption
  <2>2. Windows[i] \in Nat /\ Lookaheads[i] \in Nat
    <3>1. ASSUME NEW s \in Seq(Nat), Len(s) = 5, NEW k \in 1..5 PROVE s[k] \in Nat
      BY <3>1, ElementOfSeq
    <3>2. i \in 1..5
      BY <1>2 DEF i
    <3>3. QED  BY <3>1, <3>2, <2>1
  <2>3. ByteBits \in Nat /\ ByteBits > 0
    BY EspFsAssumption
  <2>4. QED  BY <2>2, <2>3
<1>5. W = Windows[i] /\ L = Lookaheads[i]
  BY DEF W, L
<1>6. QED  BY <1>3, <1>4, <1>5 DEF Widths

(* The window and the lookahead of the encoder are powers of two. *)
LEMMA WindowType ==
  /\ Window \in Nat /\ Window > 1 /\ Ahead \in Nat /\ Ahead > 1 /\ Ahead < Window
  /\ Pow2[ByteBits] \in Nat /\ Pow2[ByteBits] > 1
<1>1. \A n \in Nat : n > 0 => Pow2[n] \in Nat /\ Pow2[n] > 1
  <2> SUFFICES ASSUME NEW n \in Nat, n > 0 PROVE Pow2[n] \in Nat /\ Pow2[n] > 1
    OBVIOUS
  <2>1. n - 1 \in Nat /\ Pow2[n - 1] \in Nat /\ Pow2[n - 1] > 0 /\ Pow2[n] = 2 * Pow2[n - 1]
    BY Pow2Facts
  <2>2. QED  BY <2>1
<1>2. Window = Pow2[L] * Pow2[W - L] /\ W - L \in Nat /\ W - L > 0
  <2>1. W - L \in Nat /\ L \in Nat /\ L + (W - L) = W /\ W - L > 0
    BY WidthsHold DEF Widths
  <2>2. QED  BY <2>1, Pow2Sum DEF Window
<1>3. Pow2[L] \in Nat /\ Pow2[L] > 1 /\ Pow2[W - L] \in Nat /\ Pow2[W - L] > 1 /\ Pow2[W] \in Nat /\ Pow2[W] > 1
  BY <1>1, <1>2, WidthsHold DEF Widths
<1>4. Pow2[L] * Pow2[W - L] >= Pow2[L] * 2
  BY <1>3
<1>5. QED  BY <1>1, <1>2, <1>3, <1>4, WidthsHold DEF Window, Ahead, Widths

(* The options, the file and the request do not change, nor the widths. *)
LEMMA Fixed ==
  ASSUME [Next]_vars
  PROVE  /\ options' = options /\ file' = file /\ url' = url
         /\ W' = W /\ L' = L /\ Window' = Window /\ Ahead' = Ahead
<1>1. options' = options /\ file' = file /\ url' = url
  BY DEF Next, HandleNone, HandleOther, HandlePlain, HandleGzip, Sink, Search, SaveBacklog,
         Packed, FinishArchive, EspFsOpen, Feed, Decode, Polled, ReadNothing, ReadPlain, Done, vars,
         layout, stored
<1>2. W' = W /\ L' = L
  BY <1>1 DEF W, L, Level
<1>3. QED  BY <1>1, <1>2 DEF Window, Ahead

(* The decoder reads from the byte of parameters what the encoder was      *)
(* given.                                                                  *)
LEMMA Allocates ==
  EncoderAlloc => DecoderAlloc /\ IndexBits = W /\ CountBits = L
<1>1. IndexBits = W /\ CountBits = L
  <2>1. (W * 16 + L) \div 16 = W /\ (W * 16 + L) % 16 = L
    BY WidthsHold DEF Widths
  <2>2. QED  BY <2>1, WidthsHold DEF IndexBits, CountBits, Parm, Widths
<1>2. QED  BY <1>1, EspFsAssumption DEF EncoderAlloc, DecoderAlloc

-----------------------------------------------------------------------------
(***************************************************************************)
(* The image that mkespfsimage writes, and how espFsOpen walks through     *)
(* it.                                                                     *)
(***************************************************************************)

(* Rounding up to a multiple of four. *)
LEMMA AlignedIs ==
  ASSUME NEW n \in Nat
  PROVE  /\ Aligned(n) \in Nat /\ Aligned(n) >= n /\ Aligned(n) % 4 = 0
         /\ \A a \in Nat : a % 4 = 0 => Aligned(a + n) = a + Aligned(n)
BY DEF Aligned, Align

LEMMA SumAligned ==
  ASSUME NEW a \in Nat, NEW b \in Nat, a % 4 = 0, b % 4 = 0
  PROVE  /\ a + b \in Nat /\ (a + b) % 4 = 0 /\ a + b >= a
         /\ a + 16 + b \in Nat /\ (a + 16 + b) % 4 = 0 /\ a + 16 + b > a
<1>1. (a + b) % 4 = 0 /\ (a + 16 + b) % 4 = 0
  OBVIOUS
<1>2. QED  BY <1>1

(* The parts of a header. *)
LEMMA HeaderIs ==
  ASSUME NEW i \in DOMAIN image, image \in Seq(Header)
  PROVE  /\ i \in 1..Len(image) /\ image[i] \in Header
         /\ image[i].at \in Nat /\ image[i].nameLen \in Nat /\ image[i].comp \in Nat
         /\ image[i].name \in STRING \cup {"last"} /\ image[i].gzip \in BOOLEAN
<1>1. i \in 1..Len(image)
  BY LenProperties
<1>2. image[i] \in Header
  BY <1>1, ElementOfSeq
<1>3. QED  BY <1>1, <1>2 DEF Header

(* A header that is appended goes on where the last one ended. *)
LEMMA AddHeader ==
  ASSUME image \in Seq(Header), Linked,
         NEW name \in STRING \cup {"last"}, NEW nameLen \in Nat, NEW comp \in Nat, NEW gzip \in BOOLEAN,
         image' = Append(image, Entry(name, nameLen, comp, gzip))
  PROVE  /\ image' \in Seq(Header) /\ Linked' /\ Len(image') = Len(image) + 1
         /\ DOMAIN image' = DOMAIN image \cup {Len(image')} /\ Len(image') \notin DOMAIN image
         /\ \A i \in DOMAIN image : image'[i] = image[i]
         /\ image'[Len(image')].name = name /\ image'[Len(image')].gzip = gzip
<1> DEFINE n == Len(image)
           e == Entry(name, nameLen, comp, gzip)
<1>1. n \in Nat /\ DOMAIN image = 1..n
  BY LenProperties
<1>2. image # <<>> => n > 0 /\ n \in DOMAIN image
  BY <1>1, EmptySeq
<1>3. image = <<>> => n = 0
  BY EmptySeq
<1>4. /\ ImageEnd \in Nat /\ ImageEnd % 4 = 0
      /\ image = <<>> => ImageEnd = 0
      /\ image # <<>> => ImageEnd > image[n].at /\ ImageEnd = Skipped(image[n].at, image[n])
  <2>1. CASE image = <<>>
    BY <2>1 DEF ImageEnd
  <2>2. CASE image # <<>>
    <3>1. /\ image[n].at \in Nat /\ image[n].nameLen \in Nat /\ image[n].comp \in Nat
          /\ image[n].at % 4 = 0 /\ image[n].nameLen % 4 = 0
      BY <2>2, <1>2, HeaderIs DEF Linked
    <3> DEFINE a == image[n].at + 16 + image[n].nameLen
    <3>2. a \in Nat /\ a % 4 = 0 /\ a > image[n].at
      BY <3>1, SumAligned
    <3>3. ImageEnd = a + Aligned(image[n].comp)
      BY <2>2 DEF ImageEnd, HeaderLen
    <3>4. Skipped(image[n].at, image[n]) = Aligned(a + image[n].comp)
      BY DEF Skipped, HeaderLen
    <3> HIDE DEF a
    <3>5. Aligned(image[n].comp) \in Nat /\ Aligned(image[n].comp) % 4 = 0
          /\ Aligned(a + image[n].comp) = a + Aligned(image[n].comp)
      BY <3>1, <3>2, AlignedIs
    <3> DEFINE c == Aligned(image[n].comp)
    <3> HIDE DEF c
    <3>6. c \in Nat /\ c % 4 = 0 /\ ImageEnd = a + c
      BY <3>3, <3>5 DEF c
    <3>7. (a + c) % 4 = 0 /\ a + c \in Nat /\ a + c > image[n].at
      <4>1. /\ (a + c) % 4 = 0 /\ a + c \in Nat /\ a + c >= a
        BY <3>2, <3>6, SumAligned
      <4> HIDE DEF a
      <4>2. \A x, y, z \in Nat : x >= y /\ y > z => x > z
        OBVIOUS
      <4>3. a + c > image[n].at
        BY <4>1, <4>2, <3>1, <3>2
      <4>4. QED  BY <4>1, <4>3
    <3>8. ImageEnd = Skipped(image[n].at, image[n])
      BY <3>3, <3>4, <3>5
    <3>9. QED  BY <2>2, <3>6, <3>7, <3>8
  <2>3. QED  BY <2>1, <2>2
<1>5. /\ e \in Header /\ e.name = name /\ e.gzip = gzip /\ e.at = ImageEnd
      /\ e.nameLen \in Nat /\ e.nameLen % 4 = 0
  BY <1>4, AlignedIs DEF Entry, Header
<1> HIDE DEF e
<1>6. /\ image' \in Seq(Header) /\ Len(image') = n + 1 /\ DOMAIN image' = 1..(n + 1)
      /\ \A i \in 1..n : image'[i] = image[i]
      /\ image'[n + 1] = e
  <2>1. image' = Append(image, e)
    BY DEF e
  <2>2. QED  BY <2>1, <1>5, AppendProperties, LenProperties
<1> HIDE DEF n
<1>7. image' # <<>> => image'[1].at = 0
  BY <1>1, <1>2, <1>3, <1>4, <1>5, <1>6 DEF Linked
<1>8. \A i \in DOMAIN image' : image'[i].at % 4 = 0 /\ image'[i].nameLen % 4 = 0
  BY <1>1, <1>4, <1>5, <1>6 DEF Linked
<1>9. ASSUME NEW i \in 1..(Len(image') - 1) PROVE image'[i + 1].at = Skipped(image'[i].at, image'[i])
  <2>1. CASE i = n
    BY <2>1, <1>1, <1>3, <1>4, <1>5, <1>6
  <2>2. CASE i # n
    <3>1. i \in 1..(n - 1) /\ i + 1 \in 1..n /\ i \in 1..n
      BY <2>2, <1>1, <1>6
    <3>2. image[i + 1].at = Skipped(image[i].at, image[i])
      BY <3>1 DEF Linked, n
    <3>3. QED  BY <3>1, <3>2, <1>6
  <2>3. QED  BY <2>1, <2>2
<1>10. ASSUME NEW i \in DOMAIN image', NEW j \in DOMAIN image', i < j PROVE image'[i].at < image'[j].at
  <2>1. i \in 1..n /\ j \in 1..(n + 1)
    BY <1>1, <1>6, <1>10
  <2>2. CASE j # n + 1
    BY <2>1, <2>2, <1>1, <1>6, <1>10 DEF Linked
  <2>3. CASE j = n + 1
    <3>1. n \in DOMAIN image /\ image # <<>> /\ image[n].at \in Nat /\ image[i].at \in Nat
      BY <2>1, <1>1, <1>2, <1>3, HeaderIs
    <3>2. image[i].at <= image[n].at
      <4>1. i \in DOMAIN image /\ i <= n
        BY <2>1, <1>1
      <4>2. i # n => image[i].at < image[n].at
        BY <4>1, <3>1, <2>1, <1>1 DEF Linked
      <4>3. QED  BY <4>1, <4>2, <3>1
    <3>3. QED  BY <2>1, <2>3, <3>1, <3>2, <1>4, <1>5, <1>6
  <2>4. QED  BY <2>2, <2>3
<1>11. Linked'
  BY <1>7, <1>8, <1>9, <1>10 DEF Linked, Skipped
<1>12. QED  BY <1>1, <1>5, <1>6, <1>11 DEF n

(* There is one header at an offset. *)
LEMMA OneHeader ==
  ASSUME Linked, image \in Seq(Header), NEW k \in DOMAIN image
  PROVE  HeaderAt(image[k].at) = {k}
<1>1. \A i \in DOMAIN image : image[i].at \in Nat /\ i \in Nat
  BY HeaderIs
<1>2. \A i \in DOMAIN image : image[i].at = image[k].at => i = k
  BY <1>1 DEF Linked
<1>3. QED  BY <1>2 DEF HeaderAt

(* What the assumption says of a build. *)
LEMMA BuildTypes ==
  ASSUME NEW b \in Build
  PROVE  /\ b.file \in Seq(ByteValue) /\ Deflate(b.file) \in Seq(ByteValue) \ {<<>>}
         /\ b.todo \in Seq(Name) /\ b.url \in STRING \ {"last"}
         /\ \A i, j \in DOMAIN b.todo : b.todo[i].name = "file" /\ b.todo[j].name = "file" => i = j
         /\ b.url = "file" \/ \A i \in DOMAIN b.todo : b.todo[i].name # b.url
BY Zenon, EspFsAssumption DEF Name

(* No header is written at first. *)
LEMMA ImageInit == ASSUME Init PROVE ImageInv /\ phase # "broken"
<1>1. PICK b \in Build : file = b.file /\ todo = b.todo /\ url = b.url /\ options = Options(b.args, b.gzip)
  BY DEF Init
<1>2. image = <<>> /\ pos = 0 /\ phase \in {"usage", "pack"}
  BY DEF Init
<1>3. ImageTypes /\ Listed
  BY <1>1, <1>2, BuildTypes DEF ImageTypes, Listed, Phases
<1>4. DOMAIN image = {} /\ Len(image) = 0
  BY <1>2, EmptySeq
<1>5. Linked /\ Named /\ Walking
  BY <1>2, <1>4 DEF Linked, Named, Walking, Handled
<1>6. QED  BY <1>2, <1>3, <1>5 DEF ImageInv

(* The name that is read next, and the names behind it. *)
LEMMA NameIs ==
  ASSUME todo \in Seq(Name), todo # <<>>
  PROVE  /\ 1 \in DOMAIN todo /\ Head(todo) = todo[1]
         /\ Head(todo).name \in STRING /\ Head(todo).name # "last"
         /\ Head(todo).nameLen \in Nat /\ Head(todo).comp \in Nat
         /\ Tail(todo) \in Seq(Name)
         /\ \A i \in DOMAIN Tail(todo) : i + 1 \in DOMAIN todo /\ Tail(todo)[i] = todo[i + 1] /\ i \in Nat /\ i > 0
<1>1. Head(todo) \in Name /\ Tail(todo) \in Seq(Name) /\ Len(Tail(todo)) = Len(todo) - 1
      /\ \A i \in 1..Len(Tail(todo)) : Tail(todo)[i] = todo[i + 1]
  BY HeadTailProperties
<1>2. Len(todo) \in Nat /\ Len(todo) > 0 /\ DOMAIN todo = 1..Len(todo)
      /\ DOMAIN Tail(todo) = 1..Len(Tail(todo))
  BY <1>1, LenProperties, EmptySeq
<1>3. Head(todo) = todo[1] /\ 1 \in DOMAIN todo
  BY <1>2
<1>4. \A i \in DOMAIN Tail(todo) : i + 1 \in DOMAIN todo /\ Tail(todo)[i] = todo[i + 1] /\ i \in Nat /\ i > 0
  BY <1>1, <1>2
<1>5. QED  BY <1>1, <1>3, <1>4 DEF Name

(* Steps that leave the image and the walk through it alone. *)
LEMMA Kept ==
  ASSUME ImageInv, UNCHANGED <<file, layout>>,
         \/ phase' = phase
         \/ phase = "pack" /\ phase' = "failed"
         \/ phase = "serve" /\ phase' = "done"
  PROVE  ImageInv'
<1>1. UNCHANGED <<file, todo, url, image, pos>>
  BY DEF layout
<1>2. ImageTypes' /\ Listed'
  BY <1>1 DEF ImageInv, ImageTypes, Listed, Phases
<1>3. Linked'
  BY <1>1 DEF ImageInv, Linked, Skipped
<1>4. Named'
  BY <1>1 DEF ImageInv, Named, Handled
<1>5. Walking'
  BY <1>1 DEF ImageInv, Walking, Handled
<1>6. QED  BY <1>2, <1>3, <1>4, <1>5 DEF ImageInv

(* A file of the list is put into the image.                               *)
LEMMA PutIntoImage ==
  ASSUME ImageInv, phase = "pack", todo # <<>>, NEW comp \in Nat, NEW gzip \in BOOLEAN,
         image' = Append(image, Entry(Head(todo).name, Head(todo).nameLen, comp, gzip)),
         todo' = Tail(todo), UNCHANGED <<phase, file, url, pos>>
  PROVE  /\ ImageInv'
         /\ Handled' <=> Handled \/ Head(todo).name = "file"
         /\ \A i \in DOMAIN image : i \in DOMAIN image' /\ image'[i] = image[i]
         /\ \A i \in DOMAIN image' : image'[i].name = "file" =>
              \/ i \in DOMAIN image /\ image[i].name = "file" /\ image'[i] = image[i]
              \/ Head(todo).name = "file" /\ image'[i].gzip = gzip
<1> USE DEF ImageInv
<1> DEFINE name == Head(todo).name
<1>1. /\ 1 \in DOMAIN todo /\ name = todo[1].name /\ name \in STRING /\ name # "last"
      /\ todo' \in Seq(Name)
      /\ \A i \in DOMAIN todo' : i + 1 \in DOMAIN todo /\ todo'[i] = todo[i + 1] /\ i \in Nat /\ i > 0
  BY NameIs DEF ImageTypes
<1>2. /\ image' \in Seq(Header) /\ Linked' /\ Len(image') = Len(image) + 1
      /\ DOMAIN image' = DOMAIN image \cup {Len(image')} /\ Len(image') \notin DOMAIN image
      /\ \A i \in DOMAIN image : image'[i] = image[i]
      /\ image'[Len(image')].name = name /\ image'[Len(image')].gzip = gzip
  <2>1. Head(todo).nameLen \in Nat
    BY NameIs DEF ImageTypes
  <2>2. QED  BY <1>1, <2>1, AddHeader DEF ImageTypes
<1> HIDE DEF name
<1>3. ImageTypes'
  BY <1>1, <1>2 DEF ImageTypes
<1>4. Listed'
  <2>1. ASSUME NEW i \in DOMAIN todo', NEW j \in DOMAIN todo', todo'[i].name = "file", todo'[j].name = "file"
        PROVE  i = j
    <3>1. i + 1 = j + 1 /\ i \in Nat /\ j \in Nat
      BY <2>1, <1>1 DEF Listed
    <3>2. QED  BY <3>1
  <2>2. url' = "file" \/ \A i \in DOMAIN todo' : todo'[i].name # url'
    BY <1>1 DEF Listed
  <2>3. QED  BY <2>1, <2>2 DEF Listed
<1>5. Handled' <=> Handled \/ name = "file"
  BY <1>2 DEF Handled
<1>6. Named'
  <2>1. Handled => name # "file"
    BY <1>1 DEF Named
  <2>2. \A i, j \in DOMAIN image' : image'[i].name = "file" /\ image'[j].name = "file" => i = j
    BY <1>2, <2>1 DEF Named, Handled
  <2>3. url' = "file" \/ \A i \in DOMAIN image' : image'[i].name # url'
    BY <1>1, <1>2 DEF Named, Listed
  <2>4. Handled' => \A i \in DOMAIN todo' : todo'[i].name # "file"
    <3> SUFFICES ASSUME Handled', NEW i \in DOMAIN todo', todo'[i].name = "file" PROVE FALSE
      OBVIOUS
    <3>1. i + 1 \in DOMAIN todo /\ todo[i + 1].name = "file" /\ i \in Nat /\ i > 0
      BY <1>1
    <3>2. ~Handled
      BY <3>1 DEF Named
    <3>3. todo[1].name = "file"
      BY <3>2, <1>1, <1>5
    <3>4. i + 1 = 1
      BY <3>1, <3>3, <1>1 DEF Listed
    <3>5. QED  BY <3>1, <3>4
  <2>5. \A i \in DOMAIN image' : image'[i].name # "last"
    BY <1>1, <1>2 DEF Named
  <2>6. QED  BY <2>2, <2>3, <2>4, <2>5 DEF Named
<1>7. Walking'
  BY DEF Walking
<1>8. QED  BY <1>2, <1>3, <1>4, <1>5, <1>6, <1>7 DEF name

(* finishArchive appends the header that ends the image. *)
LEMMA Finishing ==
  ASSUME ImageInv, FinishArchive
  PROVE  /\ ImageInv'
         /\ Handled' <=> Handled
         /\ \A i \in DOMAIN image : i \in DOMAIN image' /\ image'[i] = image[i]
         /\ \A i \in DOMAIN image' : image'[i].name = "file" => i \in DOMAIN image /\ image'[i] = image[i]
<1> USE DEF ImageInv, FinishArchive
<1>1. Len(image) \in Nat /\ (image' \in Seq(Header) => DOMAIN image' = 1..Len(image'))
  BY LenProperties DEF ImageTypes
<1>a. ASSUME NEW s, s = <<>> PROVE Len(s) = 0
  BY <1>a, EmptySeq
<1>2. /\ image' \in Seq(Header) /\ Linked' /\ Len(image') = Len(image) + 1
      /\ DOMAIN image' = DOMAIN image \cup {Len(image')} /\ Len(image') \notin DOMAIN image
      /\ \A i \in DOMAIN image : image'[i] = image[i]
      /\ image'[Len(image')].name = "last"
  <2>1. "last" \in STRING \cup {"last"} /\ 0 \in Nat /\ FALSE \in BOOLEAN
    OBVIOUS
  <2>2. image \in Seq(Header) /\ Linked /\ image' = Append(image, Entry("last", 0, 0, FALSE))
    BY DEF ImageTypes
  <2> HIDE DEF ImageInv, FinishArchive
  <2>3. QED  BY <2>1, <2>2, AddHeader
<1>3. Handled' <=> Handled
  BY <1>2 DEF Handled
<1>4. ImageTypes' /\ Listed'
  BY <1>2 DEF ImageTypes, Listed, Phases
<1>5. Named'
  <2>1. \A i, j \in DOMAIN image' : image'[i].name = "file" /\ image'[j].name = "file" => i = j
    <3>1. \A i, j \in DOMAIN image : image[i].name = "file" /\ image[j].name = "file" => i = j
      BY DEF Named
    <3>2. \A i \in DOMAIN image' :
            image'[i].name = "file" => i \in DOMAIN image /\ image[i].name = "file"
      BY <1>2
    <3>3. QED  BY <3>1, <3>2
  <2>2. url' = "file" \/ \A i \in DOMAIN image' : image'[i].name # url'
    BY <1>2 DEF Named, ImageTypes
  <2>3. \A i \in DOMAIN image' : image'[i].name = "last" => i = Len(image')
    BY <1>2 DEF Named
  <2>4. Handled' => \A i \in DOMAIN todo' : todo'[i].name # "file"
    BY <1>3 DEF Named
  <2>5. image' # <<>>
    <3>1. Len(image') # 0
      BY <1>1, <1>2
    <3>2. QED  BY Zenon, <3>1, <1>a
  <2>6. QED  BY <1>2, <2>1, <2>2, <2>3, <2>4, <2>5 DEF Named
<1>6. Walking'
  <2>1. pos' = 0 /\ image'[1].at = 0 /\ 1 \in DOMAIN image'
    <3>1. image' # <<>> /\ 1 \in DOMAIN image'
      <4>1. Len(image') # 0 /\ 1 \in DOMAIN image'
        BY <1>1, <1>2
      <4>2. QED  BY Zenon, <4>1, <1>a
    <3>2. QED  BY <3>1, <1>2 DEF Linked, Walking
  <2>a. \A i \in 1..(1 - 1) : image'[i].name # url'
    <3>1. \A i : i \notin 1..(1 - 1)
      OBVIOUS
    <3>2. QED  BY <3>1
  <2>2. image'[1].at = pos' /\ \A i \in 1..(1 - 1) : image'[i].name # url'
    BY <2>1, <2>a
  <2>3. QED  BY <2>1, <2>2 DEF Walking
<1>7. QED  BY <1>2, <1>3, <1>4, <1>5, <1>6

(* espFsOpen goes from a header to the next, and does not miss one.        *)
LEMMA Opening ==
  ASSUME ImageInv, EspFsOpen, packed /\ Handled => EncoderAlloc
  PROVE  ImageInv' /\ phase' # "broken"
<1> USE DEF ImageInv
<1>1. PICK k \in DOMAIN image : image[k].at = pos /\ \A i \in 1..(k - 1) : image[i].name # url
  BY DEF EspFsOpen, Walking
<1>2. HeaderAt(pos) = {k}
  BY <1>1, OneHeader DEF ImageTypes
<1>3. /\ phase = "open" /\ UNCHANGED <<file, todo, image, url, packed>>
      /\ CASE image[k].name = "last" -> phase' = "missing" /\ UNCHANGED pos
           [] image[k].name = url ->
                /\ phase' = IF packed => DecoderAlloc THEN "serve" ELSE "broken"
                /\ UNCHANGED pos
           [] OTHER -> pos' = Skipped(pos, image[k]) /\ UNCHANGED phase
  BY <1>2 DEF EspFsOpen, stored
<1>4. Len(image) \in Nat /\ DOMAIN image = 1..Len(image)
  BY LenProperties DEF ImageTypes
<1>5. Listed' /\ Linked' /\ Named' /\ phase' # "broken" /\ ImageTypes' /\ Walking'
  <2>1. CASE image[k].name = "last"
    <3>1. phase' = "missing" /\ UNCHANGED pos
      BY <1>3, <2>1 DEF ImageTypes
    <3>2. k = Len(image)
      BY <2>1 DEF Named
    <3>3. \A i \in DOMAIN image : image[i].name # url
      BY <1>1, <1>4, <2>1, <3>2 DEF ImageTypes
    <3>4. Walking'
      BY <3>1, <3>3, <1>3 DEF Walking
    <3>5. QED  BY <1>3, <3>1, <3>4 DEF Listed, Linked, Skipped, Named, ImageTypes, Phases, Handled
  <2>2. CASE image[k].name # "last" /\ image[k].name = url
    <3>1. UNCHANGED pos /\ phase' = IF packed => DecoderAlloc THEN "serve" ELSE "broken"
      BY <1>3, <2>2
    <3>2. url = "file" /\ Handled
      BY <2>2 DEF Named, Handled
    <3>3. phase' = "serve"
      BY <3>1, <3>2, Allocates
    <3>4. QED  BY <1>3, <3>1, <3>2, <3>3 DEF Listed, Linked, Skipped, Named, ImageTypes, Phases, Handled, Walking
  <2>3. CASE image[k].name # "last" /\ image[k].name # url
    <3>1. pos' = Skipped(pos, image[k]) /\ UNCHANGED phase
      BY <1>3, <2>3
    <3>2. k # Len(image)
      BY <1>3, <2>3 DEF Named
    <3>3. k \in 1..(Len(image) - 1) /\ k + 1 \in DOMAIN image
      BY <1>4, <3>2
    <3>4. image[k + 1].at = pos'
      BY <3>1, <3>3, <1>1 DEF Linked
    <3>5. \A i \in 1..((k + 1) - 1) : image[i].name # url
      BY <1>1, <2>3, <1>4
    <3>6. pos' \in Nat
      BY <3>3, <3>4, HeaderIs DEF ImageTypes
    <3>7. Walking'
      BY <1>3, <3>1, <3>3, <3>4, <3>5 DEF Walking
    <3>8. QED  BY <1>3, <3>1, <3>6, <3>7 DEF Listed, Linked, Skipped, Named, ImageTypes, Phases, Handled
  <2>4. QED  BY <2>1, <2>2, <2>3
<1>6. QED  BY <1>5

(* What the image has to do with the stored file.                          *)
Puts(comp, gzip) ==
  /\ phase = "pack" /\ todo # <<>> /\ comp \in Nat /\ gzip \in BOOLEAN
  /\ image' = Append(image, Entry(Head(todo).name, Head(todo).nameLen, comp, gzip))
  /\ todo' = Tail(todo) /\ UNCHANGED <<phase, file, url, pos>>

(* The four ways in which handleFile ends put one file into the image. *)
LEMMA Putting ==
  ASSUME ImageInv
  PROVE  /\ HandleOther => Puts(Head(todo).comp, FALSE) /\ Head(todo).name # "file"
         /\ HandleGzip => Puts(Len(cdat'), Len(Deflate(file)) <= Len(file)) /\ Head(todo).name = "file"
         /\ HandlePlain => Puts(Len(file), FALSE) /\ Head(todo).name = "file"
         /\ Packed /\ Len(out') \in Nat =>
              Puts(Least(1 + (Len(out') \div ByteBits), Len(file)), FALSE) /\ Head(todo).name = "file"
<1>1. Len(file) \in Nat /\ Len(Deflate(file)) \in Nat
  BY LenProperties DEF ImageInv, ImageTypes
<1>2. HandleOther => Puts(Head(todo).comp, FALSE) /\ Head(todo).name # "file"
  BY NameIs DEF HandleOther, Puts, ImageInv, ImageTypes
<1>3. HandleGzip => Puts(Len(cdat'), Len(Deflate(file)) <= Len(file)) /\ Head(todo).name = "file"
  BY <1>1 DEF HandleGzip, Handling, Puts, CompressGzip
<1>4. HandlePlain => Puts(Len(file), FALSE) /\ Head(todo).name = "file"
  BY <1>1 DEF HandlePlain, Handling, Puts
<1>5. Packed /\ Len(out') \in Nat =>
        Puts(Least(1 + (Len(out') \div ByteBits), Len(file)), FALSE) /\ Head(todo).name = "file"
  <2>1. ASSUME NEW n \in Nat PROVE Least(1 + (n \div ByteBits), Len(file)) \in Nat
    <3>1. n \div ByteBits \in Nat
      BY Divided, WidthsHold DEF Widths
    <3>2. QED  BY <3>1, <1>1 DEF Least
  <2>2. QED  BY <2>1 DEF Packed, Packing, Handling, Puts
<1>6. QED  BY <1>2, <1>3, <1>4, <1>5

(* Every step keeps what is said of the image. *)
LEMMA ImageStep ==
  ASSUME ImageInv, phase # "broken", packed /\ Handled => EncoderAlloc, Packed => Len(out') \in Nat,
         [Next]_vars
  PROVE  ImageInv' /\ phase' # "broken"
<1> USE DEF layout
<1>1. CASE HandleOther \/ HandleGzip \/ HandlePlain \/ Packed
  <2>1. PICK comp, gzip : Puts(comp, gzip)
    BY <1>1, Putting
  <2>2. QED  BY <2>1, PutIntoImage DEF Puts
<1>2. CASE HandleNone
  BY <1>2, Kept DEF HandleNone
<1>3. CASE Sink \/ Search \/ SaveBacklog
  <2>1. UNCHANGED <<phase, file, layout>>
    BY <1>3 DEF Sink, Search, SaveBacklog
  <2>2. QED  BY <2>1, Kept
<1>4. CASE FinishArchive
  BY <1>4, Finishing DEF FinishArchive
<1>5. CASE EspFsOpen
  BY <1>5, Opening
<1>6. CASE Feed \/ Decode \/ Polled \/ ReadNothing \/ ReadPlain
  <2>1. UNCHANGED <<file, layout>> /\ (phase' = phase \/ (phase = "serve" /\ phase' = "done"))
    <3>1. ASSUME Feed \/ Decode PROVE UNCHANGED <<phase, file, layout>>
      BY <3>1 DEF Feed, Decode
    <3>2. ASSUME Polled \/ ReadNothing \/ ReadPlain
          PROVE  phase = "serve" /\ UNCHANGED <<file, layout>> /\ (phase' = "done" \/ phase' = phase)
      BY <3>2 DEF Polled, ReadNothing, ReadPlain, EspFsClose
    <3>3. QED  BY <1>6, <3>1, <3>2
  <2>2. QED  BY <2>1, Kept
<1>7. CASE UNCHANGED vars
  <2>1. UNCHANGED <<phase, file, layout>>
    BY <1>7 DEF vars
  <2>2. QED  BY <2>1, Kept
<1>8. QED  BY <1>1, <1>2, <1>3, <1>4, <1>5, <1>6, <1>7 DEF Next, Done

-----------------------------------------------------------------------------
(***************************************************************************)
(* The encoder.                                                            *)
(***************************************************************************)

(* A bounded set of natural numbers has a greatest element. *)
LEMMA GreatestNatural ==
  ASSUME NEW m \in Nat, NEW T \in SUBSET (0..m), T # {}
  PROVE  \E x \in T : \A y \in T : y <= x
<1> DEFINE U == {m - y : y \in T}
<1>1. U \in SUBSET Nat /\ U # {}
  <2>1. \A y \in T : m - y \in Nat
    OBVIOUS
  <2>2. PICK y \in T : TRUE
    OBVIOUS
  <2>3. m - y \in U
    BY <2>2
  <2>4. QED  BY <2>1, <2>3
<1>2. PICK u \in U : \A v \in U : u <= v
  <2> HIDE DEF U
  <2>1. QED  BY <1>1, LeastNatural
<1>3. PICK x \in T : u = m - x
  BY <1>2
<1>4. ASSUME NEW y \in T PROVE y <= x
  <2>1. m - y \in U
    OBVIOUS
  <2>2. m - x <= m - y
    BY <1>2, <1>3, <2>1
  <2>3. x \in Int /\ y \in Int /\ m \in Int
    OBVIOUS
  <2>4. QED  BY <2>2, <2>3
<1>5. QED  BY <1>4

(* Index leads from a byte to the nearest earlier one that is the same. *)
LEMMA IndexIs ==
  ASSUME EncoderTypes, NEW i \in 0..(Window + enc.size - 1)
  PROVE  /\ Index[i] \in (-1)..(i - 1)
         /\ Index[i] = -1 => \A j \in 0..(i - 1) : enc.buf[j] # enc.buf[i]
         /\ Index[i] # -1 => /\ enc.buf[Index[i]] = enc.buf[i]
                             /\ \A j \in 0..(i - 1) : enc.buf[j] = enc.buf[i] => j <= Index[i]
<1> DEFINE same == {j \in 0..(i - 1) : enc.buf[j] = enc.buf[i]}
<1>1. Index[i] = IF same = {} THEN -1 ELSE CHOOSE j \in same : \A k \in same : k <= j
  BY DEF Index
<1>0. i \in Nat
  OBVIOUS
<1>2. CASE same = {}
  <2>1. Index[i] = -1
    BY <1>1, <1>2
  <2>2. \A j \in 0..(i - 1) : enc.buf[j] # enc.buf[i]
    BY <1>2
  <2>3. QED  BY <2>1, <2>2, <1>0
<1>3. CASE same # {}
  <2>0. i > 0
    BY <1>0, <1>3
  <2>1. same \in SUBSET (0..(i - 1)) /\ i - 1 \in Nat
    BY <2>0, <1>0
  <2>2. \E x \in same : \A y \in same : y <= x
    <3> HIDE DEF same
    <3>1. QED  BY <1>3, <2>1, GreatestNatural
  <2>3. Index[i] \in same /\ \A y \in same : y <= Index[i]
    <3> HIDE DEF same
    <3>1. QED  BY <1>1, <1>3, <2>2
  <2>4. QED  BY <2>3, <1>0
<1>4. QED  BY <1>2, <1>3

(* The chain of the index from a byte back to start is of all places that  *)
(* hold the same byte: it is the one solution of the recursion.            *)
LEMMA ScannedBefore ==
  ASSUME EncoderTypes, NEW end \in 0..(Window + enc.size - 1), ScanStart(end) \in Nat
  PROVE  \A p \in Scanned(end) : p \in Nat /\ ScanStart(end) <= p /\ p < end
<1> DEFINE start == ScanStart(end)
           index == Index
           D == (-1)..end
           F(f) == f = [i \in D |-> IF i < start THEN {} ELSE {i} \cup f[index[i]]]
           linked == CHOOSE f : F(f)
           G(i) == IF i < start THEN {} ELSE {j \in start..i : enc.buf[j] = enc.buf[i]}
           g == [i \in D |-> G(i)]
<1>0. end \in Nat /\ start \in Nat
  OBVIOUS
<1>1. Scanned(end) = linked[index[end]]
  BY Zenon DEF Scanned
<1>2. ASSUME NEW i \in 0..end PROVE i \in 0..(Window + enc.size - 1)
  BY WindowType DEF EncoderTypes
<1>3. ASSUME NEW i \in 0..end
      PROVE  /\ index[i] \in (-1)..(i - 1) /\ index[i] \in Int /\ index[i] \in D
             /\ index[i] = -1 => \A j \in 0..(i - 1) : enc.buf[j] # enc.buf[i]
             /\ index[i] # -1 => /\ enc.buf[index[i]] = enc.buf[i]
                                 /\ \A j \in 0..(i - 1) : enc.buf[j] = enc.buf[i] => j <= index[i]
  <2>1. index[i] \in (-1)..(i - 1)
    BY <1>2, IndexIs
  <2>2. index[i] \in Int /\ index[i] \in D
    BY <2>1
  <2>3. QED  BY <1>2, <2>1, <2>2, IndexIs
<1> HIDE DEF start, index
<1>4. ASSUME NEW i \in D, i >= start PROVE G(i) = {i} \cup g[index[i]]
  <2>1. i \in 0..end /\ i \in Nat
    BY <1>0, <1>4
  <2>2. g[index[i]] = G(index[i])
    BY <1>3, <2>1
  <2>3. ASSUME NEW j \in G(i), j # i PROVE j \in G(index[i])
    <3>1. j \in start..i /\ enc.buf[j] = enc.buf[i] /\ j \in 0..(i - 1)
      BY <2>1, <2>3, <1>0, <1>4
    <3>2. index[i] # -1 /\ j <= index[i] /\ enc.buf[index[i]] = enc.buf[i]
      BY <1>3, <2>1, <3>1
    <3>3. j \in start..index[i] /\ start <= index[i]
      BY <1>0, <1>3, <2>1, <3>1, <3>2
    <3>4. QED  BY <3>1, <3>2, <3>3, <1>3, <2>1, <1>0
  <2>4. ASSUME NEW j \in G(index[i]) PROVE j \in G(i)
    <3>1. index[i] \in Int /\ index[i] >= start
      BY <2>4, <1>3, <2>1, <1>0
    <3>2. index[i] # -1 /\ enc.buf[index[i]] = enc.buf[i] /\ index[i] <= i - 1
      BY <3>1, <1>3, <2>1, <1>0
    <3>3. j \in start..index[i] /\ enc.buf[j] = enc.buf[i]
      BY <2>4, <3>1, <3>2, <1>0
    <3>4. j \in start..i
      BY <3>1, <3>2, <3>3, <2>1, <1>0
    <3>5. QED  BY <3>3, <3>4, <1>4, <2>1, <1>0
  <2>5. i \in G(i)
    BY <2>1, <1>4, <1>0
  <2> HIDE DEF G, g
  <2>6. QED  BY <2>2, <2>3, <2>4, <2>5
<1>5. F(g)
  <2>1. \A i \in D : G(i) = IF i < start THEN {} ELSE {i} \cup g[index[i]]
    <3> SUFFICES ASSUME NEW i \in D PROVE G(i) = IF i < start THEN {} ELSE {i} \cup g[index[i]]
      OBVIOUS
    <3>1. CASE i < start
      BY <3>1
    <3>2. CASE ~(i < start)
      <4>1. i >= start
        BY <3>2, <1>0
      <4>2. G(i) = {i} \cup g[index[i]]
        BY <1>4, <4>1
      <4> HIDE DEF G, g
      <4>3. QED  BY <3>2, <4>2
    <3>3. QED  BY <3>1, <3>2
  <2>2. [i \in D |-> G(i)] = [i \in D |-> IF i < start THEN {} ELSE {i} \cup g[index[i]]]
    <3> HIDE DEF G, g, D
    <3>1. QED  BY <2>1
  <2>3. QED  BY <2>2
<1>6. F(linked)
  <2> HIDE DEF F, g
  <2>1. QED  BY <1>5
<1> HIDE DEF linked
<1>7. \A i \in D : linked[i] = IF i < start THEN {} ELSE {i} \cup linked[index[i]]
  BY <1>6
<1> HIDE DEF F
<1> DEFINE T == {n \in 0..end : \A i \in D : i <= n => linked[i] \subseteq {p \in Nat : start <= p /\ p <= i}}
<1>8. 0 \in T
  <2> SUFFICES ASSUME NEW i \in D, i <= 0 PROVE linked[i] \subseteq {p \in Nat : start <= p /\ p <= i}
    BY <1>0
  <2>1. CASE i < start
    BY <2>1, <1>7
  <2>2. CASE ~(i < start)
    <3>1. i = 0 /\ start = 0 /\ i \in 0..end
      BY <2>2, <1>0
    <3>2. index[i] = -1 /\ -1 \in D
      BY <3>1, <1>3, <1>0
    <3>a. -1 < start
      BY <3>1
    <3>b. linked[-1] = IF -1 < start THEN {} ELSE {-1} \cup linked[index[-1]]
      <4> HIDE DEF D
      <4>1. QED  BY <3>2, <1>7
    <3>3. linked[-1] = {}
      BY <3>a, <3>b
    <3>4. linked[i] = {i}
      BY <3>1, <3>2, <3>3, <1>7, <2>2
    <3>5. QED  BY <3>1, <3>4
  <2>3. QED  BY <2>1, <2>2
<1>9. ASSUME NEW n \in 1..end, n - 1 \in T PROVE n \in T
  <2> SUFFICES ASSUME NEW i \in D, i <= n PROVE linked[i] \subseteq {p \in Nat : start <= p /\ p <= i}
    BY <1>0
  <2>1. CASE i <= n - 1
    BY <2>1, <1>9
  <2>2. CASE i < start
    BY <2>2, <1>7
  <2>3. CASE i = n /\ ~(i < start)
    <3>1. i \in 0..end /\ i \in Nat /\ index[i] \in D /\ index[i] <= n - 1 /\ index[i] \in Int /\ index[i] <= i - 1
      BY <2>3, <1>3, <1>0
    <3>2. linked[index[i]] \subseteq {p \in Nat : start <= p /\ p <= index[i]}
      BY <3>1, <1>9
    <3>3. linked[i] = {i} \cup linked[index[i]]
      BY <2>3, <1>7
    <3>4. \A p \in linked[index[i]] : p \in Nat /\ start <= p /\ p <= i
      BY <3>1, <3>2
    <3>5. QED  BY <3>1, <3>3, <3>4, <2>3, <1>0
  <2>4. QED  BY <2>1, <2>2, <2>3, <1>0
<1>10. T \subseteq {n \in 0..end : \A i \in D : i <= n => linked[i] \subseteq {p \in Nat : start <= p /\ p <= i}}
  OBVIOUS
<1> HIDE DEF T
<1>11. 0..end \subseteq T
  BY <1>0, <1>8, <1>9, InductionTo
<1>12. end \in 0..end /\ index[end] \in D /\ index[end] <= end - 1 /\ index[end] \in Int /\ index[end] <= end
  BY <1>0, <1>3
<1>13. linked[index[end]] \subseteq {p \in Nat : start <= p /\ p <= index[end]}
  BY <1>10, <1>11, <1>12
<1>14. \A p \in Scanned(end) : p \in Nat /\ start <= p /\ p < end
  BY <1>0, <1>1, <1>12, <1>13
<1>15. QED  BY <1>14 DEF start

(* The length that find_longest_match counts is one that matches. *)
LEMMA LongestIs ==
  ASSUME NEW p \in Int, NEW end \in Int, NEW max \in Nat
  PROVE  Longest(p, end, max) \in 0..max /\ Matches(p, end, Longest(p, end, max))
<1> DEFINE T == {n \in 0..max : Matches(p, end, n)}
<1>1. 0 \in T
  BY DEF Matches
<1>2. PICK x \in T : \A y \in T : y <= x
  <2> HIDE DEF T
  <2>1. T \in SUBSET (0..max)
    BY DEF T
  <2>2. QED  BY <1>1, <2>1, GreatestNatural
<1>3. x \in 0..max /\ Matches(p, end, x)
  OBVIOUS
<1>4. x = max \/ ~Matches(p, end, x + 1)
  <2> SUFFICES ASSUME x # max, Matches(p, end, x + 1) PROVE FALSE
    OBVIOUS
  <2>1. x + 1 \in T
    BY <1>3
  <2>2. QED  BY <1>2, <1>3, <2>1
<1>5. \E n \in 0..max : Matches(p, end, n) /\ (n = max \/ ~Matches(p, end, n + 1))
  BY <1>3, <1>4
<1> DEFINE P(n) == Matches(p, end, n) /\ (n = max \/ ~Matches(p, end, n + 1))
           best == CHOOSE n \in 0..max : P(n)
<1>6. best \in 0..max /\ P(best)
  <2>1. \E n \in 0..max : P(n)
    BY <1>5
  <2> HIDE DEF P
  <2>2. QED  BY <2>1
<1>7. Longest(p, end, max) = best
  BY DEF Longest
<1>8. QED  BY <1>6, <1>7

(* Two sequences, one behind the other. *)
LEMMA Joined ==
  ASSUME NEW S, NEW s \in Seq(S), NEW t \in Seq(S)
  PROVE  /\ s \o t \in Seq(S) /\ Len(s \o t) = Len(s) + Len(t)
         /\ \A i \in 1..Len(s) : (s \o t)[i] = s[i]
         /\ \A i \in 1..Len(t) : (s \o t)[Len(s) + i] = t[i]
<1> DEFINE c == s \o t
           m == Len(s)
           n == Len(t)
<1>0. m \in Nat /\ n \in Nat
  BY LenProperties
<1>1. /\ c \in Seq(S) /\ Len(c) = m + n
      /\ \A i \in 1..(m + n) : c[i] = IF i <= m THEN s[i] ELSE t[i - m]
  BY ConcatProperties
<1> HIDE DEF c, m, n
<1>3. \A i \in 1..m : c[i] = s[i]
  BY <1>0, <1>1
<1>4. ASSUME NEW i \in 1..n PROVE c[m + i] = t[i]
  <2>1. m + i \in 1..(m + n) /\ ~(m + i <= m) /\ (m + i) - m = i
    BY <1>0
  <2>2. QED  BY <1>1, <2>1
<1>5. QED  BY <1>1, <1>3, <1>4 DEF c, m, n

LEMMA BitsJoined ==
  ASSUME NEW s \in Seq(Bit), NEW t \in Seq(Bit)
  PROVE  /\ s \o t \in Seq(Bit) /\ Len(s \o t) = Len(s) + Len(t)
         /\ \A i \in 1..Len(s) : (s \o t)[i] = s[i]
         /\ \A i \in 1..Len(t) : (s \o t)[Len(s) + i] = t[i]
BY Joined

(* The bits of a literal: a tag and a byte. *)
LEMMA LiteralType ==
  ASSUME NEW byte \in Nat
  PROVE  Literal(byte) \in Seq(Bit) /\ Len(Literal(byte)) = 1 + ByteBits /\ Literal(byte)[1] = 1
         /\ \A i \in 1..ByteBits : Literal(byte)[1 + i] = ToBits(byte, ByteBits)[i]
<1> DEFINE t == <<1>>
           b == ToBits(byte, ByteBits)
<1>0. ByteBits \in Nat
  BY WidthsHold DEF Widths
<1>1. b \in Seq(Bit) /\ Len(b) = ByteBits
  BY <1>0, ToBitsType
<1>2. t \in Seq(Bit) /\ Len(t) = 1 /\ t[1] = 1
  BY DEF Bit
<1> HIDE DEF t, b
<1>j3. /\ t \o b \in Seq(Bit) /\ Len(t \o b) = Len(t) + Len(b)
       /\ \A i \in 1..Len(t) : (t \o b)[i] = t[i]
       /\ \A i \in 1..Len(b) : (t \o b)[Len(t) + i] = b[i]
  BY <1>1, <1>2, BitsJoined
<1>3. /\ t \o b \in Seq(Bit) /\ Len(t \o b) = 1 + ByteBits
      /\ \A i \in 1..1 : (t \o b)[i] = t[i]
      /\ \A i \in 1..ByteBits : (t \o b)[1 + i] = b[i]
  BY <1>0, <1>1, <1>2, <1>j3
<1>4. (t \o b)[1] = 1
  BY <1>2, <1>3
<1>5. Literal(byte) = t \o b
  BY DEF Literal, AddTagBit, PushLiteralByte, t, b
<1>6. QED  BY <1>3, <1>4, <1>5 DEF b

(* The bits of a reference: a tag, a distance and a length. *)
LEMMA BackrefType ==
  ASSUME NEW d \in Nat, d >= 1, NEW n \in Nat, n >= 1
  PROVE  /\ Backref(d, n) \in Seq(Bit) /\ Len(Backref(d, n)) = 1 + W + L /\ Backref(d, n)[1] = 0
         /\ \A i \in 1..W : Backref(d, n)[1 + i] = ToBits(d - 1, W)[i]
         /\ \A i \in 1..L : Backref(d, n)[1 + W + i] = ToBits(n - 1, L)[i]
<1> DEFINE t == <<0>>
           a == ToBits(d - 1, W)
           b == ToBits(n - 1, L)
<1>0. W \in Nat /\ L \in Nat /\ d - 1 \in Nat /\ n - 1 \in Nat
  BY WidthsHold DEF Widths
<1>1. a \in Seq(Bit) /\ Len(a) = W /\ b \in Seq(Bit) /\ Len(b) = L
  BY <1>0, ToBitsType
<1>2. t \in Seq(Bit) /\ Len(t) = 1 /\ t[1] = 0
  BY DEF Bit
<1> HIDE DEF t, a, b
<1>j3. /\ t \o a \in Seq(Bit) /\ Len(t \o a) = Len(t) + Len(a)
       /\ \A i \in 1..Len(t) : (t \o a)[i] = t[i]
       /\ \A i \in 1..Len(a) : (t \o a)[Len(t) + i] = a[i]
  BY <1>1, <1>2, BitsJoined
<1>3. /\ t \o a \in Seq(Bit) /\ Len(t \o a) = 1 + W
      /\ \A i \in 1..1 : (t \o a)[i] = t[i]
      /\ \A i \in 1..W : (t \o a)[1 + i] = a[i]
  BY <1>0, <1>1, <1>2, <1>j3
<1> DEFINE c == t \o a
<1>b. 1 \in 1..1
  OBVIOUS
<1>4. c[1] = 0 /\ \A i \in 1..W : c[1 + i] = a[i]
  BY <1>2, <1>3, <1>b
<1>5. c \in Seq(Bit) /\ Len(c) = 1 + W
  BY <1>3
<1> HIDE DEF c
<1>a. 1 + W \in Nat
  BY <1>0
<1>j6. /\ c \o b \in Seq(Bit) /\ Len(c \o b) = Len(c) + Len(b)
       /\ \A i \in 1..Len(c) : (c \o b)[i] = c[i]
       /\ \A i \in 1..Len(b) : (c \o b)[Len(c) + i] = b[i]
  BY <1>1, <1>5, BitsJoined
<1>6. /\ c \o b \in Seq(Bit) /\ Len(c \o b) = 1 + W + L
      /\ \A i \in 1..(1 + W) : (c \o b)[i] = c[i]
      /\ \A i \in 1..L : (c \o b)[1 + W + i] = b[i]
  BY <1>0, <1>1, <1>5, <1>a, <1>j6
<1>7. /\ (c \o b)[1] = 0 /\ \A i \in 1..W : (c \o b)[1 + i] = a[i]
  <2>1. \A i \in 1..W : 1 + i \in 1..(1 + W)
    BY <1>0
  <2>2. 1 \in 1..(1 + W)
    BY <1>0
  <2>3. QED  BY <1>4, <1>6, <2>1, <2>2
<1>8. Backref(d, n) = c \o b
  BY DEF Backref, AddTagBit, t, a, b, c
<1>9. QED  BY <1>6, <1>7, <1>8 DEF a, b

(* Bits that are put behind a token do not change it.                      *)
LEMMA TokenStays ==
  ASSUME out \in Seq(Bit), NEW more \in Seq(Bit), out' = out \o more,
         file' = file, W' = W, L' = L, Window' = Window, Ahead' = Ahead,
         NEW a \in 0..Len(out), NEW t, NEW a2 \in 0..Len(out), NEW t2,
         TokenAt(a, t, a2, t2)
  PROVE  TokenAt(a, t, a2, t2)'
<1>1. \A i \in 1..Len(out) : out'[i] = out[i]
  BY ConcatProperties, LenProperties
<1>2. Len(out) \in Nat /\ ByteBits \in Nat /\ W \in Nat /\ L \in Nat
  BY LenProperties, WidthsHold DEF Widths
<1>3. \A i \in Int : FileByte(i)' = FileByte(i)
  BY DEF FileByte
<1>4. CASE LiteralAt(a, t, a2, t2)
  <2>1. a2 = a + 1 + ByteBits
    BY <1>4 DEF LiteralAt
  <2>2. \A i \in 1..(1 + ByteBits) : a + i \in 1..Len(out)
    BY <2>1, <1>2
  <2>3. \A i \in 1..(1 + ByteBits) : out'[a + i] = out[a + i]
    BY <1>1, <2>2
  <2>4. LiteralAt(a, t, a2, t2)'
    BY <1>4, <2>3 DEF LiteralAt, Literal, AddTagBit, PushLiteralByte
  <2>5. QED  BY <2>4 DEF TokenAt
<1>5. ASSUME NEW d \in 1..Window, NEW n \in 1..Ahead, BackrefAt(a, t, a2, t2, d, n)
      PROVE  BackrefAt(a, t, a2, t2, d, n)'
  <2>1. a2 = a + 1 + W + L
    BY <1>5 DEF BackrefAt
  <2>2. \A i \in 1..(1 + W + L) : a + i \in 1..Len(out)
    BY <2>1, <1>2
  <2>3. \A i \in 1..(1 + W + L) : out'[a + i] = out[a + i]
    BY <1>1, <2>2
  <2>4. Backref(d, n)' = Backref(d, n)
    BY DEF Backref, ToBits, AddTagBit
  <2>5. \A j \in 1..n : FileByte(t + j)' = FileByte(t + j) /\ FileByte(t + j - d)' = FileByte(t + j - d)
    BY DEF FileByte
  <2>6. QED  BY <1>5, <2>3, <2>4, <2>5 DEF BackrefAt
<1>6. QED  BY <1>4, <1>5 DEF TokenAt

LEMMA TokensStay ==
  ASSUME out \in Seq(Bit), NEW more \in Seq(Bit), out' = out \o more,
         file' = file, W' = W, L' = L, Window' = Window, Ahead' = Ahead,
         NEW marks, NEW end \in 0..Len(out), NEW bytes \in Nat, Tokens(marks, end, bytes)
  PROVE  Tokens(marks, end, bytes)'
<1>1. Len(out) \in Nat
  BY LenProperties
<1>2. \A m \in marks : m[1] \in 0..Len(out)
  BY <1>1 DEF Tokens
<1>3. ASSUME NEW m \in marks, NEW m2 \in marks, TokenAt(m[1], m[2], m2[1], m2[2])
      PROVE  TokenAt(m[1], m[2], m2[1], m2[2])'
  BY <1>2, <1>3, TokenStays
<1>4. QED  BY <1>3 DEF Tokens

(* A token that is put out makes the tokens longer. *)
LEMMA AddToken ==
  ASSUME out \in Seq(Bit), NEW token \in Seq(Bit), out' = out \o token,
         file' = file, W' = W, L' = L, Window' = Window, Ahead' = Ahead,
         NEW t \in Nat, NEW t2 \in Nat, t <= t2, Encodes(t),
         \A a, a2 \in Nat : a = Len(out) /\ a2 = Len(out) + Len(token) => TokenAt(a, t, a2, t2)'
  PROVE  Encodes(t2)'
<1>1. PICK marks : Tokens(marks, Len(out), t)
  BY DEF Encodes
<1>2. Len(out) \in Nat /\ Len(token) \in Nat /\ Len(out') = Len(out) + Len(token) /\ out' \in Seq(Bit)
  BY ConcatProperties, LenProperties
<1>3. PICK a \in Nat, a2 \in Nat : a = Len(out) /\ a2 = Len(out')
  BY <1>2
<1>4. Tokens(marks, a, t)
  BY <1>1, <1>3
<1>5. Tokens(marks, a, t)'
  BY <1>2, <1>3, <1>4, TokensStay
<1> DEFINE last == <<a2, t2>>
<1>6. TokenAt(a, t, a2, t2)'
  BY <1>2, <1>3
<1>7. a <= a2
  BY <1>2, <1>3
<1>8. Tokens(marks \cup {last}, a2, t2)'
  <2>1. marks \cup {last} \subseteq (0..a2) \X (0..t2)
    <3>1. (0..a) \X (0..t) \subseteq (0..a2) \X (0..t2)
      BY <1>7
    <3>2. last \in (0..a2) \X (0..t2)
      OBVIOUS
    <3>3. QED  BY <3>1, <3>2, <1>4 DEF Tokens
  <2>2. <<0, 0>> \in marks
    BY <1>4 DEF Tokens
  <2>3. ASSUME NEW m \in marks \cup {last}
        PROVE  (m = <<a2, t2>>) \/ \E m2 \in marks \cup {last} : TokenAt(m[1], m[2], m2[1], m2[2])'
    <3>1. CASE m = last
      BY <3>1
    <3>2. CASE m \in marks /\ m = <<a, t>>
      <4>1. TokenAt(m[1], m[2], last[1], last[2])'
        BY <1>6, <3>2
      <4>2. QED  BY <4>1
    <3>3. CASE m \in marks /\ m # <<a, t>>
      BY <3>3, <1>5 DEF Tokens
    <3>4. QED  BY <3>1, <3>2, <3>3
  <2>4. QED  BY <2>1, <2>2, <2>3 DEF Tokens
<1>9. \E new : Tokens(new, a2, t2)'
  BY <1>8
<1>10. QED  BY <1>2, <1>3, <1>9 DEF Encodes

Same == file' = file /\ W' = W /\ L' = L /\ Window' = Window /\ Ahead' = Ahead

(* Tokens are about out, the file and the widths only. *)
LEMMA TokensSame ==
  ASSUME out' = out, Same, NEW marks, NEW end, NEW bytes, Tokens(marks, end, bytes)
  PROVE  Tokens(marks, end, bytes)'
<1>1. ASSUME NEW a, NEW t, NEW a2, NEW t2, TokenAt(a, t, a2, t2) PROVE TokenAt(a, t, a2, t2)'
  <2>1. CASE LiteralAt(a, t, a2, t2)
    <3>1. LiteralAt(a, t, a2, t2)'
      BY <2>1 DEF Same, LiteralAt, Literal, AddTagBit, PushLiteralByte
    <3>2. QED  BY <3>1 DEF TokenAt
  <2>2. ASSUME NEW d \in 1..Window, NEW n \in 1..Ahead, BackrefAt(a, t, a2, t2, d, n)
        PROVE  BackrefAt(a, t, a2, t2, d, n)'
    BY <2>2 DEF Same, BackrefAt, Backref, ToBits, AddTagBit, FileByte
  <2>3. QED  BY <1>1, <2>1, <2>2 DEF TokenAt, Same
<1>2. QED  BY <1>1 DEF Tokens

LEMMA EncodesSame ==
  ASSUME out' = out, Same, NEW t, Encodes(t)
  PROVE  Encodes(t)'
<1>1. PICK marks, e : e = Len(out) /\ Tokens(marks, e, t)
  BY DEF Encodes
<1>2. Tokens(marks, e, t)'
  BY <1>1, TokensSame
<1>3. e = Len(out)'
  BY <1>1
<1>4. \E new : Tokens(new, e, t)'
  BY <1>2
<1>5. QED  BY <1>3, <1>4 DEF Encodes

Reached == enc.given - enc.size + enc.msi

(* The numbers of the encoder. *)
LEMMA EncoderFacts ==
  ASSUME EncoderTypes, file \in Seq(ByteValue)
  PROVE  /\ enc.given \in Nat /\ enc.size \in Nat /\ enc.msi \in Nat /\ Reached \in Nat
         /\ Len(file) \in Nat /\ Reached <= Len(file) /\ enc.given <= Len(file)
         /\ enc.size <= enc.given /\ enc.size <= Window /\ enc.msi <= enc.size
         /\ enc.buf \in [0..(2 * Window - 1) -> ByteValue] /\ DOMAIN enc.buf = 0..(2 * Window - 1)
         /\ Window \in Nat
         /\ Reached <= enc.given
<1>1. enc.given \in Nat /\ enc.size \in Nat /\ enc.msi \in Nat /\ Len(file) \in Nat /\ Window \in Nat
  BY LenProperties, WindowType DEF EncoderTypes
<1>2. enc.buf \in [0..(2 * Window - 1) -> ByteValue] /\ DOMAIN enc.buf = 0..(2 * Window - 1)
  BY DEF EncoderTypes
<1>3. enc.given <= Len(file) /\ enc.size <= enc.given /\ enc.size <= Window /\ enc.msi <= enc.size
  BY DEF EncoderTypes
<1>4. QED  BY <1>1, <1>2, <1>3 DEF Reached

(* Where a byte lies that is sunk. *)
LEMMA Offset ==
  ASSUME NEW f \in Nat, NEW g \in Nat, NEW n \in Nat, NEW s \in Nat, g + s <= n,
         NEW i \in f..(f + s - 1)
  PROVE  g + i - f + 1 \in 1..n
OBVIOUS

(* heatshrink_encoder_sink puts the next bytes of the file into the        *)
(* buffer.                                                                 *)
LEMMA SinkStep ==
  ASSUME EncoderInv, file \in Seq(ByteValue), Sink, Same
  PROVE  EncoderInv'
<1> DEFINE s == SunkSize
           from == Window + enc.size
<1>1. /\ enc.given \in Nat /\ enc.size \in Nat /\ enc.msi \in Nat /\ Window \in Nat /\ Len(file) \in Nat
      /\ enc.given <= Len(file) /\ enc.size <= enc.given /\ enc.size <= Window /\ enc.msi <= enc.size
      /\ DOMAIN enc.buf = 0..(2 * Window - 1) /\ enc.buf \in [0..(2 * Window - 1) -> ByteValue]
      /\ Reached \in Nat
  BY EncoderFacts DEF EncoderInv
<1>2. s \in Nat /\ enc.size + s <= Window /\ enc.given + s <= Len(file)
      /\ (enc.size + s = Window \/ enc.given + s = Len(file))
  <2>1. enc.given \in Nat /\ enc.size \in Nat /\ Window \in Nat /\ Len(file) \in Nat
        /\ enc.given <= Len(file) /\ enc.size <= Window
    BY <1>1
  <2>2. PICK w \in Nat, z \in Nat, f \in Nat, g \in Nat :
          w = Window /\ z = enc.size /\ f = Len(file) /\ g = enc.given
    BY <2>1
  <2>3. z <= w /\ g <= f
    BY <2>1, <2>2
  <2>4. PICK x : x = s
    OBVIOUS
  <2>5. x = IF w - z < f - g THEN w - z ELSE f - g
    BY <2>2, <2>4 DEF SunkSize, Least
  <2>6. x \in Nat /\ z + x <= w /\ g + x <= f /\ (z + x = w \/ g + x = f)
    BY <2>3, <2>5
  <2> HIDE DEF s
  <2>7. QED  BY <2>2, <2>4, <2>6
<1>3. ~enc.full /\ out' = out /\ enc' = IF EncoderSink.given = Len(file) THEN EncoderFinish(EncoderSink) ELSE EncoderSink
  BY DEF Sink
<1> HIDE DEF s
<1>4. /\ EncoderSink.given = enc.given + s /\ EncoderSink.size = enc.size + s /\ EncoderSink.msi = enc.msi
      /\ EncoderSink.buf = SunkBuffer /\ EncoderSink.full = (enc.size + s = Window)
      /\ EncoderSink.finishing = enc.finishing /\ EncoderSink.backlog = enc.backlog
      /\ DOMAIN EncoderSink = DOMAIN enc
  BY DEF EncoderSink, EncoderInv, EncoderTypes, s
<1>5. /\ SunkBuffer \in [0..(2 * Window - 1) -> ByteValue]
      /\ \A i \in 0..(2 * Window - 1) :
            SunkBuffer[i] = IF i \in from..(from + s - 1) THEN file[enc.given + i - from + 1] ELSE enc.buf[i]
  <2>1. \A i \in from..(from + s - 1) : file[enc.given + i - from + 1] \in ByteValue
    <3> SUFFICES ASSUME NEW i \in from..(from + s - 1) PROVE file[enc.given + i - from + 1] \in ByteValue
      OBVIOUS
    <3>1. enc.given + i - from + 1 \in 1..Len(file)
      <4>1. from \in Nat
        BY <1>1
      <4> HIDE DEF from
      <4>2. QED  BY <4>1, <1>1, <1>2, Offset
    <3>2. QED  BY <3>1, ElementOfSeq
  <2>2. SunkBuffer = [i \in 0..(2 * Window - 1) |->
           IF i \in from..(from + s - 1) THEN file[enc.given + i - from + 1] ELSE enc.buf[i]]
    BY <1>1 DEF SunkBuffer, s
  <2>3. QED  BY <1>1, <2>1, <2>2
<1>6. /\ enc'.given = enc.given + s /\ enc'.size = enc.size + s /\ enc'.msi = enc.msi
      /\ enc'.buf = SunkBuffer
      /\ enc'.backlog = enc.backlog
      /\ enc'.finishing => enc'.full /\ enc'.given = Len(file)
      /\ enc'.full /\ ~enc'.finishing => enc'.size = Window
  <2>1. ~enc.finishing
    BY <1>3 DEF EncoderInv, EncoderTypes
  <2>2. CASE EncoderSink.given = Len(file)
    BY <2>2, <1>3, <1>4 DEF EncoderFinish, EncoderSink, EncoderInv, EncoderTypes
  <2>3. CASE EncoderSink.given # Len(file)
    BY <2>1, <2>3, <1>3, <1>4
  <2>4. QED  BY <2>2, <2>3
<1>7. enc' \in [given : Nat, buf : [0..(2 * Window - 1) -> ByteValue], size : Nat, msi : Nat,
              backlog : {"none", "partial", "filled"}, full : BOOLEAN, finishing : BOOLEAN]
  <2>1. EncoderSink \in [given : Nat, buf : [0..(2 * Window - 1) -> ByteValue], size : Nat, msi : Nat,
              backlog : {"none", "partial", "filled"}, full : BOOLEAN, finishing : BOOLEAN]
    <3>1. enc.given + s \in Nat /\ enc.size + s \in Nat
      BY <1>1, <1>2
    <3>2. EncoderSink = [enc EXCEPT !.buf = SunkBuffer, !.given = enc.given + s, !.size = enc.size + s,
              !.full = (enc.size + s = Window)]
      BY DEF EncoderSink, s
    <3>3. QED  BY <3>1, <3>2, <1>5 DEF EncoderInv, EncoderTypes
  <2> HIDE DEF EncoderSink
  <2>2. EncoderFinish(EncoderSink) \in [given : Nat, buf : [0..(2 * Window - 1) -> ByteValue], size : Nat, msi : Nat,
              backlog : {"none", "partial", "filled"}, full : BOOLEAN, finishing : BOOLEAN]
    BY <2>1 DEF EncoderFinish
  <2>3. QED  BY <1>3, <2>1, <2>2
<1>8. EncoderTypes'
  <2>1. /\ enc.given \in Nat /\ enc.size \in Nat /\ enc.msi \in Nat /\ s \in Nat
        /\ enc.size <= enc.given /\ enc.msi <= enc.size
        /\ enc.size + s <= Window /\ enc.given + s <= Len(file)
    BY <1>1, <1>2
  <2>2. enc'.given = enc.given + s /\ enc'.size = enc.size + s /\ enc'.msi = enc.msi
    BY <1>6
  <2>3. /\ enc'.given <= Len(file) /\ enc'.size <= enc'.given
        /\ enc'.size <= Window /\ enc'.msi <= enc'.size
    BY <2>1, <2>2
  <2>4. /\ enc'.finishing => enc'.full /\ enc'.given = Len(file)
        /\ enc'.full /\ ~enc'.finishing => enc'.size = Window
    BY <1>6
  <2>5. QED  BY <2>3, <2>4, <1>7 DEF EncoderTypes, Same
<1>9. Buffer'
  <2>1. ASSUME NEW i \in 0..(Window + enc'.size - 1)
        PROVE  enc'.buf[i] = FileByte(enc'.given - enc'.size + i - Window + 1)
    <3>1. i \in 0..(2 * Window - 1) /\ i \in Int
      BY <1>1, <1>2, <1>6
    <3>2. CASE i \in from..(from + s - 1)
      <4>1. enc'.given - enc'.size + i - Window + 1 = enc.given + i - from + 1
        <5>1. ASSUME NEW g \in Int, NEW z \in Int, NEW n \in Int, NEW w \in Int, NEW k \in Int
              PROVE  (g + n) - (z + n) + k - w + 1 = g + k - (w + z) + 1
          OBVIOUS
        <5>2. enc.given \in Int /\ enc.size \in Int /\ s \in Int /\ Window \in Int
          BY <1>1, <1>2
        <5>3. enc'.given = enc.given + s /\ enc'.size = enc.size + s
          BY <1>6
        <5>4. (enc.given + s) - (enc.size + s) + i - Window + 1
                  = enc.given + i - (Window + enc.size) + 1
          BY <3>1, <5>1, <5>2
        <5>5. QED  BY <5>3, <5>4
      <4>2. enc.given + i - from + 1 \in 1..Len(file)
        <5>1. from \in Nat
          BY <1>1
        <5>2. enc.given \in Nat /\ s \in Nat /\ Len(file) \in Nat /\ enc.given + s <= Len(file)
          BY <1>1, <1>2
        <5> HIDE DEF from
        <5>3. PICK f \in Nat, g \in Nat, n \in Nat, z \in Nat :
                f = from /\ g = enc.given /\ n = Len(file) /\ z = s
          BY Zenon, <5>1, <5>2
        <5>4. g + z <= n /\ i \in f..(f + z - 1)
          BY <5>2, <5>3, <3>2
        <5>5. g + i - f + 1 \in 1..n
          BY <5>4
        <5>6. QED  BY <5>3, <5>5
      <4>3. QED  BY <1>5, <1>6, <3>1, <3>2, <4>1, <4>2 DEF FileByte
    <3>3. CASE i \notin from..(from + s - 1)
      <4>1. i \in 0..(Window + enc.size - 1)
        <5>1. i \in 0..(Window + (enc.size + s) - 1)
          BY <1>6
        <5>2. Window \in Nat /\ enc.size \in Nat /\ s \in Nat
          BY <1>1, <1>2
        <5>3. QED  BY <3>3, <5>1, <5>2
      <4>2. enc.buf[i] = FileByte(enc.given - enc.size + i - Window + 1)
        BY <4>1 DEF EncoderInv, Buffer
      <4>3. enc'.given - enc'.size + i - Window + 1 = enc.given - enc.size + i - Window + 1
        BY <1>1, <1>2, <1>6, <3>1
      <4>4. QED  BY <1>5, <1>6, <3>1, <3>3, <4>2, <4>3
    <3>4. QED  BY <3>2, <3>3
  <2>2. \A i \in Int : FileByte(i)' = FileByte(i)
    BY DEF FileByte, Same
  <2>3. QED  BY <2>1, <1>5, <1>6 DEF Buffer, FileByte, Same
<1>10. Encodes(Reached)'
  <2>1. PICK t : t = Reached
    OBVIOUS
  <2>2. t = Reached'
    BY <2>1, <1>1, <1>2, <1>6 DEF Reached
  <2>3. Encodes(t)'
    BY <2>1, <1>3, EncodesSame DEF EncoderInv, Reached
  <2>4. QED  BY <2>2, <2>3
<1>11. QED  BY <1>8, <1>9, <1>10 DEF EncoderInv, Reached

(* A place of the buffer whose end is moved to its beginning. *)
LEMMA Moved ==
  ASSUME NEW w \in Nat, NEW z \in Nat, NEW m \in Nat, m <= z, z <= w,
         NEW i \in 0..(w + (z - m) - 1)
  PROVE  i \in 0..(2 * w - 1) /\ i \in Int /\ i < w + (w - m) /\ i + m \in 0..(w + z - 1)
OBVIOUS

(* save_backlog moves the buffer, and with it where the file is in it. *)
LEMMA SaveBacklogStep ==
  ASSUME EncoderInv, file \in Seq(ByteValue), SaveBacklog, Same
  PROVE  EncoderInv'
<1> DEFINE m == enc.msi
           B == [i \in 0..(2 * Window - 1) |-> IF i < Window + (Window - m) THEN enc.buf[i + m] ELSE enc.buf[i]]
<1>1. /\ enc.given \in Nat /\ enc.size \in Nat /\ enc.msi \in Nat /\ Window \in Nat /\ Len(file) \in Nat
      /\ enc.given <= Len(file) /\ enc.size <= enc.given /\ enc.size <= Window /\ enc.msi <= enc.size
      /\ DOMAIN enc.buf = 0..(2 * Window - 1) /\ enc.buf \in [0..(2 * Window - 1) -> ByteValue]
      /\ Reached \in Nat
  BY EncoderFacts DEF EncoderInv
<1>2. enc.full /\ ~enc.finishing /\ out' = out /\ enc.size = Window
  BY DEF SaveBacklog, NotFull, EncoderInv, EncoderTypes
<1>3. Window - (Window - m) = m
  BY <1>1
<1>4. /\ enc'.given = enc.given /\ enc'.size = enc.size - m /\ enc'.msi = 0 /\ ~enc'.full /\ ~enc'.finishing
      /\ enc' \in [given : Nat, buf : [0..(2 * Window - 1) -> ByteValue], size : Nat, msi : Nat,
              backlog : {"none", "partial", "filled"}, full : BOOLEAN, finishing : BOOLEAN]
      /\ enc'.buf = B
  <2>1. [i \in DOMAIN enc.buf |-> IF i < Window + (Window - enc.msi)
           THEN enc.buf[i + Window - (Window - enc.msi)] ELSE enc.buf[i]] = B
    <3>1. \A i \in 0..(2 * Window - 1) : i + Window - (Window - m) = i + m
      BY <1>1
    <3>2. QED  BY <1>1, <3>1
  <2>2. B \in [0..(2 * Window - 1) -> ByteValue]
    <3>1. \A i \in 0..(2 * Window - 1) : i < Window + (Window - m) => i + m \in 0..(2 * Window - 1)
      BY <1>1
    <3>2. QED  BY <1>1, <3>1
  <2> HIDE DEF B
  <2>3. enc' = [enc EXCEPT !.buf = B, !.backlog = IF enc.backlog = "none" THEN "partial" ELSE "filled",
                           !.msi = 0, !.size = enc.size - m, !.full = FALSE]
    BY <2>1, <1>3 DEF SaveBacklog
  <2>4. enc.size - m \in Nat
    BY <1>1
  <2> HIDE DEF m
  <2>5. QED  BY <2>2, <2>3, <2>4, <1>2 DEF EncoderInv, EncoderTypes
<1>5. EncoderTypes'
  BY <1>1, <1>4 DEF EncoderTypes, Same
<1>6. Buffer'
  <2>1. ASSUME NEW i \in 0..(Window + enc'.size - 1)
        PROVE  enc'.buf[i] = FileByte(enc'.given - enc'.size + i - Window + 1)
    <3>1. i \in 0..(2 * Window - 1) /\ i \in Int /\ i < Window + (Window - m) /\ i + m \in 0..(Window + enc.size - 1)
      <4>1. m \in Nat /\ enc.size \in Nat /\ Window \in Nat /\ m <= enc.size /\ enc.size <= Window
        BY <1>1
      <4>2. i \in 0..(Window + (enc.size - m) - 1)
        BY <1>4
      <4>3. QED  BY <4>1, <4>2, Moved
    <3>2. enc'.buf[i] = enc.buf[i + m]
      BY <1>4, <3>1
    <3>3. enc.buf[i + m] = FileByte(enc.given - enc.size + (i + m) - Window + 1)
      BY <3>1 DEF EncoderInv, Buffer
    <3>4. enc'.given - enc'.size + i - Window + 1 = enc.given - enc.size + (i + m) - Window + 1
      <4>1. enc.given \in Int /\ enc.size \in Int /\ m \in Int /\ Window \in Int /\ i \in Int
        BY <1>1, <3>1
      <4>2. enc'.given = enc.given /\ enc'.size = enc.size - m
        BY <1>4
      <4> HIDE DEF m
      <4>3. QED  BY <4>1, <4>2
    <3>5. QED  BY <3>2, <3>3, <3>4
  <2>2. QED  BY <2>1, <1>4 DEF Buffer, FileByte, Same
<1>7. Encodes(Reached)'
  <2>1. PICK t : t = Reached
    OBVIOUS
  <2>2. t = Reached'
    BY <2>1, <1>1, <1>4 DEF Reached
  <2>3. Encodes(t)'
    BY <2>1, <1>2, EncodesSame DEF EncoderInv, Reached
  <2>4. QED  BY <2>2, <2>3
<1>8. QED  BY <1>5, <1>6, <1>7 DEF EncoderInv, Reached

(* The byte at a place of the buffer, counted in the file.                 *)
LEMMA BufferByte ==
  ASSUME EncoderInv, file \in Seq(ByteValue), NEW i \in 0..(Window + enc.size - 1)
  PROVE  enc.buf[i] = FileByte(Reached + (i - (Window + enc.msi)) + 1)
<1>1. /\ enc.given \in Nat /\ enc.size \in Nat /\ enc.msi \in Nat /\ Window \in Nat
  BY EncoderFacts DEF EncoderInv
<1>2. enc.buf[i] = FileByte(enc.given - enc.size + i - Window + 1)
  BY DEF EncoderInv, Buffer
<1>3. enc.given - enc.size + i - Window + 1 = Reached + (i - (Window + enc.msi)) + 1
  BY <1>1 DEF Reached
<1>4. QED  BY <1>2, <1>3

(* A match lies inside the buffer. *)
LEMMA Within ==
  ASSUME NEW w \in Nat, NEW m \in Nat, NEW z \in Nat, NEW n \in Nat, NEW p \in Nat, NEW j \in 1..n,
         m + n <= z, p < w + m
  PROVE  (w + m) + (j - 1) \in 0..(w + z - 1) /\ p + (j - 1) \in 0..(w + z - 1)
OBVIOUS

(* A step of the search puts out a token that stands for the next bytes. *)
LEMMA SearchStep ==
  ASSUME EncoderInv, file \in Seq(ByteValue), Search, Same
  PROVE  EncoderInv'
<1> DEFINE end == Window + enc.msi
           max == Least(Ahead, enc.size - enc.msi)
           T == Reached
<1>1. /\ enc.given \in Nat /\ enc.size \in Nat /\ enc.msi \in Nat /\ Window \in Nat /\ Len(file) \in Nat
      /\ enc.given <= Len(file) /\ enc.size <= enc.given /\ enc.size <= Window /\ enc.msi <= enc.size
      /\ T \in Nat /\ T <= enc.given /\ T + (enc.size - enc.msi) = enc.given
  <2>1. /\ enc.given \in Nat /\ enc.size \in Nat /\ enc.msi \in Nat /\ Window \in Nat /\ Len(file) \in Nat
        /\ enc.given <= Len(file) /\ enc.size <= enc.given /\ enc.size <= Window /\ enc.msi <= enc.size
        /\ T \in Nat /\ T <= enc.given
    BY EncoderFacts DEF EncoderInv
  <2>2. QED  BY <2>1 DEF Reached
<1>2. Ahead \in Nat /\ Ahead > 1 /\ Window \in Nat
  BY WindowType
<1>3. enc.msi < enc.size /\ enc.full
  <2>1. ~(enc.msi >= enc.size - (IF enc.finishing THEN 0 ELSE Ahead)) /\ enc.full
    BY DEF Search, Exhausted
  <2>2. QED  BY <2>1, <1>1, <1>2
<1>4. max \in Nat /\ max >= 1 /\ max <= Ahead /\ enc.msi + max <= enc.size
  BY <1>1, <1>2, <1>3 DEF Least
<1>5. end \in 0..(Window + enc.size - 1) /\ end \in Nat
  BY <1>1, <1>3
<1>6. enc.buf[end] = file[T + 1] /\ T + 1 \in 1..Len(file) /\ FileByte(T + 1) = file[T + 1]
  <2>1. T + 1 \in 1..Len(file)
    BY <1>1, <1>3
  <2>2. enc.buf[end] = FileByte(T + (end - (Window + enc.msi)) + 1)
    BY <1>5, BufferByte
  <2>3. T + (end - (Window + enc.msi)) + 1 = T + 1
    BY <1>1
  <2>4. QED  BY <2>1, <2>2, <2>3 DEF FileByte
<1>7. PICK t \in Nat : t = T
  BY <1>1
<1>8. out \in Seq(Bit) /\ Encodes(t)
  BY <1>7 DEF EncoderInv, Encodes, Reached
<1>9. ASSUME NEW n \in Nat, n >= 1, enc.msi + n <= enc.size, enc' = [enc EXCEPT !.msi = @ + n],
             Encodes(t + n)'
      PROVE  EncoderInv'
  <2>1. /\ enc'.given = enc.given /\ enc'.size = enc.size /\ enc'.buf = enc.buf /\ enc'.msi = enc.msi + n
        /\ enc'.backlog = enc.backlog /\ enc'.full = enc.full /\ enc'.finishing = enc.finishing
        /\ enc' \in [given : Nat, buf : [0..(2 * Window - 1) -> ByteValue], size : Nat, msi : Nat,
              backlog : {"none", "partial", "filled"}, full : BOOLEAN, finishing : BOOLEAN]
    <3>1. enc \in [given : Nat, buf : [0..(2 * Window - 1) -> ByteValue], size : Nat, msi : Nat,
              backlog : {"none", "partial", "filled"}, full : BOOLEAN, finishing : BOOLEAN]
      BY DEF EncoderInv, EncoderTypes
    <3>2. enc' = [enc EXCEPT !.msi = @ + n] /\ enc.msi + n \in Nat
      BY <1>1, <1>9
    <3>3. QED  BY <3>1, <3>2
  <2>2. EncoderTypes'
    BY <1>1, <1>9, <2>1 DEF EncoderInv, EncoderTypes, Same
  <2>3. Buffer'
    BY <2>1 DEF EncoderInv, Buffer, Same, FileByte
  <2>4. t + n = Reached'
    <3>1. Reached' = enc.given - enc.size + (enc.msi + n)
      BY <2>1 DEF Reached
    <3>2. t = enc.given - enc.size + enc.msi
      BY <1>7 DEF Reached
    <3>3. enc.given \in Nat /\ enc.size \in Nat /\ enc.msi \in Nat /\ n \in Nat
      BY <1>1, <1>9
    <3>4. QED  BY <3>1, <3>2, <3>3
  <2>5. Encodes(Reached)'
    BY <1>9, <2>4
  <2>6. QED  BY <2>2, <2>3, <2>5 DEF EncoderInv, Reached
<1>10. ASSUME out' = out \o Literal(enc.buf[end]), enc' = [enc EXCEPT !.msi = @ + 1]
       PROVE  EncoderInv'
  <2> DEFINE tok == Literal(file[t + 1])
  <2>0. file[t + 1] \in Nat
    <3>1. file[t + 1] \in ByteValue
      BY <1>6, <1>7, ElementOfSeq
    <3>2. QED  BY <3>1, WindowType DEF ByteValue
  <2>1. tok \in Seq(Bit) /\ Len(tok) = 1 + ByteBits
    BY <2>0, LiteralType
  <2>2. out' = out \o tok
    BY <1>6, <1>7, <1>10
  <2> HIDE DEF tok
  <2>3. Len(out) \in Nat /\ \A i \in 1..Len(tok) : out'[Len(out) + i] = tok[i]
    BY <1>8, <2>1, <2>2, BitsJoined, LenProperties
  <2>4. ASSUME NEW a \in Nat, NEW a2 \in Nat, a = Len(out), a2 = Len(out) + Len(tok)
        PROVE  TokenAt(a, t, a2, t + 1)'
    <3>1. a2 = a + 1 + ByteBits
      <4>1. ByteBits \in Nat
        BY WidthsHold DEF Widths
      <4>2. Len(tok) = 1 + ByteBits
        BY <2>1
      <4>3. QED  BY <4>1, <4>2, <2>4
    <3>2. \A i \in 1..(1 + ByteBits) : out'[a + i] = tok[i]
      BY <2>1, <2>3, <2>4
    <3>3. tok = Literal(file[t + 1])'
      BY DEF tok, Literal, AddTagBit, PushLiteralByte, Same
    <3>4. LiteralAt(a, t, a2, t + 1)'
      BY <3>1, <3>2, <3>3 DEF LiteralAt
    <3>5. QED  BY <3>4 DEF TokenAt
  <2>5. Encodes(t + 1)'
    <3>1. t + 1 \in Nat /\ t <= t + 1
      OBVIOUS
    <3>2. QED  BY <1>8, <2>1, <2>2, <2>4, <3>1, AddToken DEF Same
  <2>6. PICK k \in Nat : k = 1
    OBVIOUS
  <2>7. k >= 1 /\ enc.msi + k <= enc.size /\ enc' = [enc EXCEPT !.msi = @ + k]
    BY <1>1, <1>3, <1>10, <2>6
  <2>8. Encodes(t + k)'
    BY <2>5, <2>6
  <2>9. QED  BY <1>9, <2>7, <2>8
<1>11. ASSUME NEW p \in Best(end, max), Longest(p, end, max) >= BreakEven,
              out' = out \o Backref(end - p, Longest(p, end, max)),
              enc' = [enc EXCEPT !.msi = @ + Longest(p, end, max)]
       PROVE  EncoderInv'
  <2> DEFINE n == Longest(p, end, max)
             d == end - p
             tok == Backref(d, n)
  <2>1. p \in Nat /\ end - Window + 1 <= p /\ p < end
    <3>1. p \in Scanned(end)
      BY <1>11 DEF Best
    <3>2. ScanStart(end) \in Nat /\ end - Window + 1 <= ScanStart(end)
      <4>1. end - Window + 1 = enc.msi + 1 /\ enc.msi + 1 \in Nat /\ enc.msi + 1 <= Window
        BY <1>1, <1>3
      <4>2. enc.backlog \in {"none", "partial", "filled"}
        BY DEF EncoderInv, EncoderTypes
      <4> HIDE DEF end
      <4>3. ScanStart(end) = CASE enc.backlog = "filled"  -> enc.msi + 1
                               [] enc.backlog = "partial" -> IF enc.msi + 1 < Ahead THEN Ahead ELSE enc.msi + 1
                               [] enc.backlog = "none"    -> Window
        BY <4>1 DEF ScanStart
      <4>4. Ahead \in Nat /\ Window \in Nat
        BY <1>2
      <4>5. QED  BY <4>1, <4>2, <4>3, <4>4
    <3>3. p \in Nat /\ ScanStart(end) <= p /\ p < end
      <4> HIDE DEF end
      <4>1. QED  BY <1>5, <3>1, <3>2, ScannedBefore DEF EncoderInv
    <3>4. end \in Int /\ Window \in Int
      BY <1>1, <1>5
    <3> HIDE DEF end
    <3>5. QED  BY <3>2, <3>3, <3>4
  <2>2. n \in 0..max /\ Matches(p, end, n)
    <3> HIDE DEF end, max
    <3>1. p \in Int /\ end \in Int
      BY <1>5, <2>1
    <3>2. QED  BY <1>4, <3>1, LongestIs
  <2> HIDE DEF n
  <2>3. n \in Nat /\ n >= 1 /\ n <= Ahead /\ enc.msi + n <= enc.size /\ d \in Nat /\ d >= 1 /\ d <= Window
    <3>1. n >= 1 /\ n \in 0..max
      BY <1>4, <1>11, <2>2 DEF BreakEven, n
    <3> HIDE DEF end, max
    <3>2. d \in Nat /\ d >= 1 /\ d <= Window
      BY <1>1, <1>5, <2>1
    <3>3. n \in Nat /\ n <= Ahead /\ enc.msi + n <= enc.size
      BY <3>1, <1>1, <1>2, <1>4
    <3>4. QED  BY <3>1, <3>2, <3>3
  <2>4. \A j \in 1..n : FileByte(t + j) = FileByte(t + j - d)
    <3> SUFFICES ASSUME NEW j \in 1..n PROVE FileByte(t + j) = FileByte(t + j - d)
      OBVIOUS
    <3>1. j - 1 \in 0..(n - 1) /\ j \in Int
      BY <2>3
    <3>2. enc.buf[p + (j - 1)] = enc.buf[end + (j - 1)]
      BY <2>2, <3>1 DEF Matches
    <3>3. end + (j - 1) \in 0..(Window + enc.size - 1) /\ p + (j - 1) \in 0..(Window + enc.size - 1)
      <4>1. enc.size \in Nat /\ enc.msi \in Nat /\ Window \in Nat /\ n \in Nat /\ enc.msi + n <= enc.size
            /\ p \in Nat /\ p < end
        BY <1>1, <2>1, <2>3
      <4>2. QED  BY <4>1, Within
    <3>4. /\ enc.buf[end + (j - 1)] = FileByte(T + ((end + (j - 1)) - (Window + enc.msi)) + 1)
          /\ enc.buf[p + (j - 1)] = FileByte(T + ((p + (j - 1)) - (Window + enc.msi)) + 1)
      BY <3>3, BufferByte
    <3>5. /\ T + ((end + (j - 1)) - (Window + enc.msi)) + 1 = t + j
          /\ T + ((p + (j - 1)) - (Window + enc.msi)) + 1 = t + j - d
      <4>1. Window \in Int /\ enc.msi \in Int /\ t \in Int /\ p \in Int /\ j \in Int /\ T = t
        BY <1>1, <1>7, <2>1, <3>1
      <4>2. PICK w \in Int, s \in Int : w = Window /\ s = enc.msi
        BY <4>1
      <4>3. /\ t + (((w + s) + (j - 1)) - (w + s)) + 1 = t + j
            /\ t + ((p + (j - 1)) - (w + s)) + 1 = t + j - ((w + s) - p)
        BY <4>1
      <4>4. QED  BY <4>1, <4>2, <4>3
    <3>6. QED  BY <3>2, <3>4, <3>5
  <2>5. tok \in Seq(Bit) /\ Len(tok) = 1 + W + L
    <3> HIDE DEF d
    <3>1. QED  BY <2>3, BackrefType
  <2>6. out' = out \o tok
    BY <1>11 DEF n
  <2>b. tok = Backref(d, n)
    OBVIOUS
  <2> HIDE DEF tok, d
  <2>7. Len(out) \in Nat /\ \A i \in 1..Len(tok) : out'[Len(out) + i] = tok[i]
    BY <1>8, <2>5, <2>6, BitsJoined, LenProperties
  <2>9. PICK k \in Nat : k = n /\ k >= 1
    BY <2>3
  <2>8. ASSUME NEW a \in Nat, NEW a2 \in Nat, a = Len(out), a2 = Len(out) + Len(tok)
        PROVE  TokenAt(a, t, a2, t + k)'
    <3>0. PICK dd \in 1..Window, nn \in 1..Ahead : dd = d /\ nn = n
      BY <2>3, <1>2
    <3>1. a2 = a + 1 + W + L
      <4>1. W \in Nat /\ L \in Nat /\ Len(tok) = 1 + W + L /\ a2 = a + Len(tok)
        BY <2>5, <2>8, WidthsHold DEF Widths
      <4>2. QED  BY <4>1
    <3>2. \A i \in 1..(1 + W + L) : out'[a + i] = tok[i]
      BY <2>5, <2>7, <2>8
    <3>3. tok = Backref(dd, nn)'
      BY <3>0, <2>b DEF Backref, ToBits, AddTagBit, Same
    <3>4. \A j \in 1..nn : FileByte(t + j)' = FileByte(t + j - dd)'
      BY <2>4, <3>0 DEF FileByte, Same
    <3>5. BackrefAt(a, t, a2, t + nn, dd, nn)'
      BY <3>1, <3>2, <3>3, <3>4 DEF BackrefAt, Same
    <3>6. dd \in 1..Window' /\ nn \in 1..Ahead'
      BY <3>0 DEF Same
    <3>7. TokenAt(a, t, a2, t + nn)'
      BY <3>5, <3>6 DEF TokenAt
    <3>8. QED  BY <3>0, <3>7, <2>9
  <2>10. Encodes(t + k)'
    <3>1. t + k \in Nat /\ t <= t + k
      OBVIOUS
    <3>2. \A a, a2 \in Nat : a = Len(out) /\ a2 = Len(out) + Len(tok) => TokenAt(a, t, a2, t + k)'
      BY <2>8
    <3>3. QED  BY <1>8, <2>5, <2>6, <3>1, <3>2, AddToken DEF Same
  <2>11. QED  BY <1>9, <1>11, <2>3, <2>9, <2>10 DEF n
<1>12. QED  BY <1>10, <1>11 DEF Search

-----------------------------------------------------------------------------
(***************************************************************************)
(* The file that is stored.                                                *)
(***************************************************************************)

(* Steps that leave the stored file alone. *)
LEMMA FileSame ==
  ASSUME FileInv, UNCHANGED <<enc, out, packed, cdat>>, Same, Handled' <=> Handled,
         \A i \in DOMAIN image' : image'[i].name = "file" => i \in DOMAIN image /\ image'[i] = image[i]
  PROVE  FileInv'
<1>1. EncoderTypes' /\ Buffer' /\ (out \in Seq(Bit))' /\ (packed \in BOOLEAN)'
      /\ (cdat \in Seq(ByteValue))' /\ (Len(cdat) <= Len(file))'
  <2>1. EncoderTypes' /\ Buffer'
    BY DEF FileInv, EncoderTypes, Buffer, FileByte, Same
  <2>2. QED  BY <2>1 DEF FileInv, Same
<1>2. ASSUME ~Handled' PROVE packed' /\ Encodes(enc.given - enc.size + enc.msi)'
  <2>1. PICK t : t = Reached
    OBVIOUS
  <2>2. Encodes(t)'
    BY <1>2, <2>1, EncodesSame DEF FileInv, Reached
  <2>3. t = (enc.given - enc.size + enc.msi)'
    BY <2>1 DEF Reached
  <2>4. Encodes(enc.given - enc.size + enc.msi)'
    BY <2>2, <2>3
  <2>5. QED  BY <1>2, <2>4 DEF FileInv
<1>3. ASSUME Handled' PROVE StoredInv'
  <2>1. StoredInv
    BY <1>3 DEF FileInv
  <2>2. CASE packed
    <3>a. PICK marks : \E end \in Nat : Padded(end) /\ Tokens(marks, end, Len(file))
      BY <2>1, <2>2 DEF StoredInv, PackedWhole
    <3>1. PICK end \in Nat : Padded(end) /\ Tokens(marks, end, Len(file))
      BY <3>a
    <3>2. PICK bytes : bytes = Len(file)
      OBVIOUS
    <3>3. Tokens(marks, end, bytes)'
      BY <3>1, <3>2, TokensSame
    <3>4. bytes = Len(file)'
      BY <3>2 DEF Same
    <3>5. Padded(end)'
      BY <3>1 DEF Padded
    <3>6. Tokens(marks, end, Len(file))'
      BY <3>3, <3>4
    <3>7. EncoderAlloc'
      BY <2>1, <2>2 DEF StoredInv, PackedWhole, EncoderAlloc, Same
    <3>8. QED  BY <2>1, <2>2, <3>5, <3>6, <3>7 DEF StoredInv, PackedWhole
  <2>3. CASE ~packed
    BY <2>1, <2>3 DEF StoredInv, Same
  <2>4. QED  BY <2>2, <2>3
<1>4. QED  BY <1>1, <1>2, <1>3 DEF FileInv

(* flush_bit_buffer fills the last byte. *)
LEMMA PaddingIs ==
  ASSUME out \in Seq(Bit)
  PROVE  /\ Padding \in Seq(Bit) /\ Len(Padding) \in Nat /\ Len(Padding) < ByteBits
         /\ (Len(out) + Len(Padding)) % ByteBits = 0
<1> DEFINE n == Len(out)
           B == ByteBits
           q == n \div B
           r == n % B
<1>1. n \in Nat /\ B \in Nat /\ B > 0
  BY LenProperties, WidthsHold DEF Widths
<1>2. q \in Nat /\ r \in Nat /\ r < B /\ n = q * B + r
  BY <1>1, Divided
<1>3. Padding = IF r = 0 THEN <<>> ELSE [i \in 1..(B - r) |-> 0]
  BY DEF Padding
<1> HIDE DEF n, B, q, r
<1>4. CASE r = 0
  <2>1. Padding = <<>> /\ n % B = 0
    BY <1>3, <1>4 DEF r
  <2>2. <<>> \in Seq(Bit) /\ Len(<<>>) = 0
    BY EmptySeq
  <2>3. Padding \in Seq(Bit) /\ Len(Padding) = 0
    BY <2>1, <2>2
  <2>4. n + Len(Padding) = n
    BY <2>3, <1>1
  <2>5. QED  BY <1>1, <2>1, <2>3, <2>4 DEF n, B
<1>5. CASE r # 0
  <2>1. Padding = [i \in 1..(B - r) |-> 0] /\ B - r \in Nat
    BY <1>1, <1>2, <1>3, <1>5
  <2>2. Padding \in Seq(Bit) /\ Len(Padding) = B - r
    BY <2>1 DEF Bit
  <2>3. n + (B - r) = (q + 1) * B + 0
    BY <1>1, <1>2
  <2>4. ((q + 1) * B + 0) % B = 0
    <3>1. q + 1 \in Nat /\ 0 < B
      BY <1>1, <1>2
    <3>2. QED  BY <3>1, <1>1, DivisionIs
  <2>5. (n + (B - r)) % B = 0
    BY <2>3, <2>4
  <2>6. B - r \in Nat /\ B - r < B
    BY <1>1, <1>2, <1>5
  <2>7. QED  BY <2>2, <2>5, <2>6 DEF n, B
<1>6. QED  BY <1>4, <1>5

(* compressHeatshrink ends with tokens for the whole file. *)
LEMMA PackedStep ==
  ASSUME FileInv, ImageInv, Packed, Same
  PROVE  FileInv'
<1> DEFINE length == 1 + (Len(out') \div ByteBits)
<1>1. /\ Packing /\ todo # <<>> /\ Head(todo).name = "file" /\ EncoderAlloc
      /\ out' = out \o Padding /\ enc' = enc
      /\ packed' = (length <= Len(file)) /\ cdat' = IF packed' THEN <<>> ELSE file
      /\ (FlushBits \/ file = <<>>)
  <2>1. Packing => EncoderAlloc
    BY DEF Packing, Handling, Handles, CompressHeatshrink, CompressNone
  <2>2. QED  BY <2>1 DEF Packed, Packing, Handling
<1>2. ~Handled
  <2>1. 1 \in DOMAIN todo /\ todo[1].name = "file"
    BY <1>1, NameIs DEF ImageInv, ImageTypes
  <2>2. QED  BY <2>1 DEF ImageInv, Named
<1>3. /\ out \in Seq(Bit) /\ Padding \in Seq(Bit) /\ Len(Padding) \in Nat /\ Len(Padding) < ByteBits
      /\ (Len(out) + Len(Padding)) % ByteBits = 0 /\ Len(out) \in Nat
      /\ out' \in Seq(Bit) /\ Len(out') = Len(out) + Len(Padding)
  <2>1. out \in Seq(Bit)
    BY DEF FileInv
  <2>2. /\ Padding \in Seq(Bit) /\ Len(Padding) \in Nat /\ Len(Padding) < ByteBits
        /\ (Len(out) + Len(Padding)) % ByteBits = 0 /\ Len(out) \in Nat
    BY <2>1, PaddingIs, LenProperties
  <2>3. out' \in Seq(Bit) /\ Len(out') = Len(out) + Len(Padding)
    BY <1>1, <2>1, <2>2, BitsJoined
  <2>4. QED  BY <2>1, <2>2, <2>3
<1>4. Len(out') \in Nat
  BY <1>3
<1>5. Puts(Least(length, Len(file)), FALSE)
  BY <1>4, Putting
<1>6. /\ Handled'
      /\ \A i \in DOMAIN image' : image'[i].name = "file" => ~image'[i].gzip
  <2>1. PICK comp \in Nat : Puts(comp, FALSE)
    BY <1>5 DEF Puts
  <2>2. /\ Handled' <=> Handled \/ Head(todo).name = "file"
        /\ \A i \in DOMAIN image' : image'[i].name = "file" =>
             \/ i \in DOMAIN image /\ image[i].name = "file" /\ image'[i] = image[i]
             \/ Head(todo).name = "file" /\ image'[i].gzip = FALSE
    BY <2>1, PutIntoImage DEF Puts
  <2>3. QED  BY <1>1, <1>2, <2>2 DEF Handled
<1>7. file \in Seq(ByteValue) /\ Len(file) \in Nat
  BY LenProperties DEF ImageInv, ImageTypes
<1>8. EncoderTypes' /\ Buffer'
  BY <1>1 DEF FileInv, EncoderTypes, Buffer, FileByte, Same
<1>9. packed' \in BOOLEAN /\ cdat' \in Seq(ByteValue) /\ Len(cdat') <= Len(file')
  <2>1. <<>> \in Seq(ByteValue) /\ Len(<<>>) = 0
    BY EmptySeq
  <2>2. packed' \in BOOLEAN
    BY <1>1
  <2>3. CASE packed'
    BY <1>1, <1>7, <2>1, <2>2, <2>3 DEF Same
  <2>4. CASE ~packed'
    BY <1>1, <1>7, <2>2, <2>4 DEF Same
  <2>5. QED  BY <2>3, <2>4
<1>10. StoredInv'
  <2>1. CASE packed'
    <3>1. file # <<>>
      <4>1. Len(out') \div ByteBits \in Nat
        BY <1>4, Divided, WidthsHold DEF Widths
      <4>2. Len(file) >= 1
        <5>1. length <= Len(file)
          BY <1>1, <2>1
        <5>2. ASSUME NEW n \in Nat, NEW q \in Nat, 1 + q <= n PROVE n >= 1
          BY <5>2
        <5>3. QED  BY <1>7, <4>1, <5>1, <5>2
      <4>3. Len(<<>>) = 0
        BY EmptySeq
      <4>4. QED  BY <4>2, <4>3
    <3>2. FlushBits
      BY <1>1, <3>1
    <3>3. Reached = Len(file)
      <4>1. enc.full /\ enc.finishing /\ enc.msi >= enc.size - (IF enc.finishing THEN 0 ELSE Ahead)
        BY <3>2 DEF FlushBits, Exhausted
      <4>2. enc.given = Len(file) /\ enc.msi <= enc.size
        BY <4>1 DEF FileInv, EncoderTypes
      <4>3. enc.given \in Nat /\ enc.size \in Nat /\ enc.msi \in Nat
        BY <1>7, EncoderFacts DEF FileInv
      <4>4. enc.msi = enc.size
        BY <4>1, <4>2, <4>3
      <4>5. QED  BY <4>2, <4>3, <4>4 DEF Reached
    <3>4. PICK marks : Tokens(marks, Len(out), Len(file))
      BY <1>2, <3>3 DEF FileInv, Encodes, Reached
    <3>5. PICK end \in Nat, bytes \in Nat : end = Len(out) /\ bytes = Len(file)
      BY <1>3, <1>7
    <3>6. Tokens(marks, end, bytes)'
      <4>1. end \in 0..Len(out) /\ Tokens(marks, end, bytes)
        BY <3>4, <3>5
      <4>2. QED  BY <1>1, <1>3, <3>5, <4>1, TokensStay DEF Same
    <3>7. Tokens(marks, end, Len(file))'
      <4>1. bytes = Len(file)'
        BY <3>5 DEF Same
      <4>2. QED  BY <3>6, <4>1
    <3>8. Padded(end)'
      <4>1. /\ Len(out') % ByteBits = 0 /\ Len(out') = end + Len(Padding)
            /\ Len(Padding) \in Nat /\ Len(Padding) < ByteBits
        BY <1>3, <3>5
      <4>2. end \in 0..Len(out') /\ Len(out') - end < ByteBits
        <5>1. ASSUME NEW e \in Nat, NEW p \in Nat, NEW b \in Nat, NEW n, n = e + p, p < b
              PROVE  e \in 0..n /\ n - e < b
          BY <5>1
        <5>2. QED  BY <4>1, <5>1, WidthsHold DEF Widths
      <4>3. QED  BY <4>1, <4>2 DEF Padded
    <3>9. EncoderAlloc'
      BY <1>1 DEF EncoderAlloc, Same
    <3>10. PackedWhole'
      BY <3>7, <3>8, <3>9 DEF PackedWhole
    <3>11. QED  BY <1>6, <2>1, <3>10 DEF StoredInv
  <2>2. CASE ~packed'
    BY <1>1, <1>6, <2>2 DEF StoredInv, Same
  <2>3. QED  BY <2>1, <2>2
<1>11. QED  BY <1>3, <1>6, <1>8, <1>9, <1>10 DEF FileInv

(* At first nothing is put out, and the encoder's buffer is blank. *)
LEMMA FileInit ==
  ASSUME Init, ImageInv
  PROVE  FileInv
<1>1. enc = Encoder /\ out = <<>> /\ packed = TRUE /\ cdat = <<>> /\ image = <<>>
  BY DEF Init
<1>2. /\ enc.given = 0 /\ enc.size = 0 /\ enc.msi = 0 /\ enc.full = FALSE /\ enc.finishing = FALSE
      /\ enc.backlog = "none" /\ enc.buf = [i \in 0..(2 * Window - 1) |-> 0]
  BY <1>1 DEF Encoder
<1>3. 0 \in ByteValue /\ Window \in Nat /\ Len(file) \in Nat
  BY WindowType, LenProperties DEF ByteValue, ImageInv, ImageTypes
<1>4. EncoderTypes
  <2>1. [i \in 0..(2 * Window - 1) |-> 0] \in [0..(2 * Window - 1) -> ByteValue]
    BY <1>3
  <2>2. enc \in [given : Nat, buf : [0..(2 * Window - 1) -> ByteValue], size : Nat, msi : Nat,
              backlog : {"none", "partial", "filled"}, full : BOOLEAN, finishing : BOOLEAN]
    BY <1>1, <2>1 DEF Encoder
  <2>3. QED  BY <1>2, <1>3, <2>2 DEF EncoderTypes
<1>5. Buffer
  <2>1. ASSUME NEW i \in 0..(Window + 0 - 1)
        PROVE  enc.buf[i] = 0 /\ FileByte(0 - 0 + i - Window + 1) = 0
    <3>1. i \in 0..(2 * Window - 1) /\ 0 - 0 + i - Window + 1 \notin 1..Len(file)
      BY <1>3
    <3>2. QED  BY <1>2, <3>1 DEF FileByte
  <2>2. enc.buf \in [0..(2 * Window - 1) -> ByteValue]
    BY <1>4 DEF EncoderTypes
  <2>3. QED  BY <1>2, <2>1, <2>2 DEF Buffer
<1>6. out \in Seq(Bit) /\ Len(out) = 0 /\ cdat \in Seq(ByteValue) /\ Len(cdat) = 0
  BY <1>1, EmptySeq
<1>7. Encodes(0)
  <2>1. Tokens({<<0, 0>>}, 0, 0)
    BY DEF Tokens
  <2>2. QED  BY <1>6, <2>1 DEF Encodes
<1>8. ~Handled
  <2>1. DOMAIN image = {}
    BY <1>1
  <2>2. QED  BY <2>1 DEF Handled
<1>9. enc.given - enc.size + enc.msi = 0
  BY <1>2
<1>10. QED  BY <1>1, <1>3, <1>4, <1>5, <1>6, <1>7, <1>8, <1>9 DEF FileInv

(* A file that is not packed is stored as it is, or as zlib leaves it. *)
LEMMA StoredStep ==
  ASSUME FileInv, ImageInv, HandleGzip \/ HandlePlain, Same
  PROVE  FileInv'
<1>0. /\ file \in Seq(ByteValue) /\ Len(file) \in Nat
      /\ Deflate(file) \in Seq(ByteValue) /\ Len(Deflate(file)) \in Nat
  BY LenProperties DEF ImageInv, ImageTypes
<1>1. \E comp, gzip : /\ Puts(comp, gzip) /\ Head(todo).name = "file" /\ packed' = FALSE
                      /\ cdat' = IF gzip THEN Deflate(file) ELSE file
                      /\ Len(cdat') <= Len(file) /\ enc' = enc /\ out' = out
  <2>1. CASE HandleGzip
    <3>1. Puts(Len(cdat'), Len(Deflate(file)) <= Len(file)) /\ Head(todo).name = "file"
      BY <2>1, Putting
    <3>2. /\ packed' = FALSE /\ enc' = enc /\ out' = out
          /\ cdat' = IF Len(Deflate(file)) <= Len(file) THEN Deflate(file) ELSE file
      BY <2>1 DEF HandleGzip, CompressGzip
    <3>3. Len(cdat') <= Len(file)
      BY <1>0, <3>2
    <3>4. QED  BY <3>1, <3>2, <3>3
  <2>2. CASE HandlePlain
    <3>1. Puts(Len(file), FALSE) /\ Head(todo).name = "file"
      BY <2>2, Putting
    <3>2. packed' = FALSE /\ enc' = enc /\ out' = out /\ cdat' = file
      BY <2>2 DEF HandlePlain
    <3>3. cdat' = IF FALSE THEN Deflate(file) ELSE file
      BY <3>2
    <3>4. Len(cdat') <= Len(file)
      BY <1>0, <3>2
    <3>5. QED  BY <3>1, <3>2, <3>3, <3>4
  <2>3. QED  BY <2>1, <2>2
<1>2. PICK comp, gzip : /\ Puts(comp, gzip) /\ Head(todo).name = "file" /\ packed' = FALSE
                        /\ cdat' = IF gzip THEN Deflate(file) ELSE file
                        /\ Len(cdat') <= Len(file) /\ enc' = enc /\ out' = out
  BY <1>1
<1>3. ~Handled
  <2>1. todo # <<>>
    BY <1>2 DEF Puts
  <2>2. 1 \in DOMAIN todo /\ todo[1].name = "file"
    BY <1>2, <2>1, NameIs DEF ImageInv, ImageTypes
  <2>3. QED  BY <2>2 DEF ImageInv, Named
<1>4. /\ Handled'
      /\ \A i \in DOMAIN image' : image'[i].name = "file" => image'[i].gzip = gzip
  <2>2. /\ Handled' <=> Handled \/ Head(todo).name = "file"
        /\ \A i \in DOMAIN image' : image'[i].name = "file" =>
             \/ i \in DOMAIN image /\ image[i].name = "file" /\ image'[i] = image[i]
             \/ Head(todo).name = "file" /\ image'[i].gzip = gzip
    BY <1>2, PutIntoImage DEF Puts
  <2>3. QED  BY <1>2, <1>3, <2>2 DEF Handled
<1>5. EncoderTypes' /\ Buffer'
  BY <1>2 DEF FileInv, EncoderTypes, Buffer, FileByte, Same
<1>6. cdat' \in Seq(ByteValue) /\ out' \in Seq(Bit)
  BY <1>0, <1>2 DEF FileInv
<1>7. StoredInv'
  BY <1>2, <1>4 DEF StoredInv, Same
<1>8. packed' \in BOOLEAN /\ Len(cdat') <= Len(file')
  BY <1>2 DEF Same
<1>9. QED  BY <1>4, <1>5, <1>6, <1>7, <1>8 DEF FileInv

(* Every step keeps what is said of the stored file. *)
LEMMA FileStep ==
  ASSUME FileInv, ImageInv, [Next]_vars
  PROVE  FileInv' /\ (Packed => Len(out') \in Nat)
<1> USE DEF layout, stored
<1>1. Same
  BY Fixed DEF Same
<1>2. file \in Seq(ByteValue)
  BY DEF ImageInv, ImageTypes
<1>3. ASSUME Sink \/ Search \/ SaveBacklog PROVE FileInv'
  <2>1. /\ Packing /\ UNCHANGED <<image, packed, cdat>>
    BY <1>3 DEF Sink, Search, SaveBacklog
  <2>2. ~Handled
    <3>1. todo # <<>> /\ Head(todo).name = "file"
      BY <2>1 DEF Packing, Handling
    <3>2. 1 \in DOMAIN todo /\ todo[1].name = "file"
      BY <3>1, NameIs DEF ImageInv, ImageTypes
    <3>3. QED  BY <3>2 DEF ImageInv, Named
  <2>3. EncoderInv
    BY <2>2 DEF FileInv, EncoderInv
  <2>4. EncoderInv'
    BY <1>1, <1>2, <1>3, <2>3, SinkStep, SearchStep, SaveBacklogStep
  <2>5. ~Handled'
    BY <2>1, <2>2 DEF Handled
  <2>6. QED  BY <1>1, <2>1, <2>2, <2>4, <2>5 DEF FileInv, EncoderInv, Encodes, Same
<1>4. ASSUME HandleOther PROVE FileInv'
  <2>1. Puts(Head(todo).comp, FALSE) /\ Head(todo).name # "file"
    BY <1>4, Putting
  <2>2. PICK comp \in Nat : Puts(comp, FALSE)
    BY <2>1 DEF Puts
  <2>3. /\ Handled' <=> Handled
        /\ \A i \in DOMAIN image' : image'[i].name = "file" => i \in DOMAIN image /\ image'[i] = image[i]
    BY <2>1, <2>2, PutIntoImage DEF Puts
  <2>4. UNCHANGED <<enc, out, packed, cdat>>
    BY <1>4 DEF HandleOther
  <2>5. QED  BY <1>1, <2>3, <2>4, FileSame
<1>5. ASSUME FinishArchive PROVE FileInv'
  <2>1. UNCHANGED <<enc, out, packed, cdat>>
    BY <1>5 DEF FinishArchive
  <2>2. QED  BY <1>1, <1>5, <2>1, Finishing, FileSame
<1>6. ASSUME HandleNone \/ EspFsOpen \/ Feed \/ Decode \/ Polled \/ ReadNothing \/ ReadPlain \/ UNCHANGED vars
      PROVE  FileInv'
  <2>1. UNCHANGED <<image, enc, out, packed, cdat>>
    <3>1. ASSUME HandleNone \/ EspFsOpen \/ Feed \/ Decode PROVE UNCHANGED <<image, enc, out, packed, cdat>>
      BY <3>1 DEF HandleNone, EspFsOpen, Feed, Decode
    <3>2. ASSUME Polled \/ ReadNothing \/ ReadPlain \/ UNCHANGED vars PROVE UNCHANGED <<image, enc, out, packed, cdat>>
      BY <3>2 DEF Polled, ReadNothing, ReadPlain, vars
    <3>3. QED  BY <1>6, <3>1, <3>2
  <2>2. Handled' <=> Handled
    BY <2>1 DEF Handled
  <2>3. \A i \in DOMAIN image' : image'[i].name = "file" => i \in DOMAIN image /\ image'[i] = image[i]
    BY <2>1
  <2> HIDE DEF layout, stored
  <2>4. QED  BY <1>1, <2>1, <2>2, <2>3, FileSame
<1>7. ASSUME Packed PROVE FileInv' /\ Len(out') \in Nat
  <2>1. FileInv'
    BY <1>1, <1>7, PackedStep
  <2>2. out' \in Seq(Bit)
    BY <2>1 DEF FileInv
  <2>3. QED  BY <2>1, <2>2, LenProperties
<1>8. ASSUME HandleGzip \/ HandlePlain PROVE FileInv'
  BY <1>1, <1>8, StoredStep
<1>9. QED  BY <1>3, <1>4, <1>5, <1>6, <1>7, <1>8 DEF Next, Done

(* Names are found. *)
FoundInv == ImageInv /\ FileInv /\ phase # "broken"

(* FoundInv is inductive. *)
LEMMA FoundInductive ==
  /\ Init => FoundInv
  /\ FoundInv /\ [Next]_vars => FoundInv'
<1>1. ASSUME Init PROVE FoundInv
  BY <1>1, ImageInit, FileInit DEF FoundInv
<1>2. ASSUME FoundInv, [Next]_vars PROVE FoundInv'
  <2>1. FileInv' /\ (Packed => Len(out') \in Nat)
    BY <1>2, FileStep DEF FoundInv
  <2>2. packed /\ Handled => EncoderAlloc
    BY <1>2 DEF FoundInv, FileInv, StoredInv, PackedWhole
  <2>3. QED  BY <1>2, <2>1, <2>2, ImageStep DEF FoundInv
<1>3. QED  BY <1>1, <1>2

(***************************************************************************)
(* espFsOpen finds a file if and only if mkespfsimage has put it into the  *)
(* image, whatever files are listed and however they are stored: it        *)
(* leaves the chain of headers only at the name or at "last", and never    *)
(* reads a header that is none, so that it does not return NULL for a      *)
(* broken image.                                                           *)
(***************************************************************************)
THEOREM FileIsFound == Spec => []FindsFile
<1>1. FoundInv => FindsFile
  BY DEF FoundInv, ImageInv, Walking, FindsFile
<1>2. QED  BY <1>1, FoundInductive, PTL DEF Spec

-----------------------------------------------------------------------------
(***************************************************************************)
(* The decoder.                                                            *)
(***************************************************************************)

(* What was put out is a whole number of bytes, read one by one. *)
LEMMA BytesAre ==
  ASSUME out \in Seq(Bit), Len(out) % ByteBits = 0
  PROVE  /\ Bytes \in Nat /\ Bytes * ByteBits = Len(out) /\ Len(out) \in Nat
         /\ \A k \in 1..Bytes :
              /\ ByteAt(k) \in Seq(Bit) /\ Len(ByteAt(k)) = ByteBits
              /\ \A i \in 1..ByteBits : ByteAt(k)[i] = out[(k - 1) * ByteBits + i]
<1> DEFINE B == ByteBits
<1>1. Len(out) \in Nat /\ B \in Nat /\ B > 0 /\ \A i \in 1..Len(out) : out[i] \in Bit
  BY LenProperties, ElementOfSeq, WidthsHold DEF Widths
<1> HIDE DEF B
<1>2. Bytes \in Nat /\ Bytes * B = Len(out)
  <2>1. Bytes = Len(out) \div B
    BY DEF Bytes, B
  <2>2. /\ Len(out) \div B \in Nat
        /\ Len(out) = (Len(out) \div B) * B + (Len(out) % B)
    BY <1>1, Divided
  <2>3. Len(out) % B = 0
    BY DEF B
  <2>4. QED  BY <1>1, <2>1, <2>2, <2>3
<1>3. ASSUME NEW k \in 1..Bytes
      PROVE  /\ ByteAt(k) \in Seq(Bit) /\ Len(ByteAt(k)) = B
             /\ \A i \in 1..B : ByteAt(k)[i] = out[(k - 1) * B + i]
  <2> DEFINE x == (k - 1) * B
  <2>1. x \in Nat /\ k * B = x + B /\ x + B <= Len(out)
    <3>1. k * B <= Bytes * B
      BY <1>1, <1>2
    <3>2. (k - 1) * B \in Nat /\ k * B = (k - 1) * B + B
      BY <1>1, <1>2
    <3>3. QED  BY <1>2, <3>1, <3>2
  <2> HIDE DEF x
  <2>2. ByteAt(k) = SubSeq(out, x + 1, x + B)
    BY <2>1 DEF ByteAt, B, x
  <2>3. \A i \in (x + 1)..(x + B) : out[i] \in Bit
    BY <1>1, <2>1
  <2>4. x + 1 \in Int /\ x + B \in Int /\ (x + B) - (x + 1) + 1 = B /\ x + 1 <= x + B
    BY <1>1, <2>1
  <2>5. /\ SubSeq(out, x + 1, x + B) \in Seq(Bit)
        /\ Len(SubSeq(out, x + 1, x + B)) = IF x + 1 <= x + B THEN (x + B) - (x + 1) + 1 ELSE 0
        /\ \A i \in 1..((x + B) - (x + 1) + 1) : SubSeq(out, x + 1, x + B)[i] = out[(x + 1) + i - 1]
    BY <2>3, <2>4, SubSeqProperties
  <2>6. \A i \in 1..B : (x + 1) + i - 1 = x + i
    BY <1>1, <2>1
  <2>7. Len(SubSeq(out, x + 1, x + B)) = B
    BY <2>4, <2>5
  <2>8. \A i \in 1..B : SubSeq(out, x + 1, x + B)[i] = out[x + i]
    BY <2>4, <2>5, <2>6
  <2>9. /\ ByteAt(k) \in Seq(Bit) /\ Len(ByteAt(k)) = B
        /\ \A i \in 1..B : ByteAt(k)[i] = out[x + i]
    <3> HIDE DEF B
    <3>1. QED  BY <2>2, <2>5, <2>7, <2>8
  <2>10. QED  BY <2>9 DEF x
<1>4. QED  BY <1>1, <1>2, <1>3 DEF B

(* A part of a sequence. *)
LEMMA PartOf ==
  ASSUME NEW S, NEW s \in Seq(S), NEW a \in Nat, NEW n \in Nat, a + n <= Len(s)
  PROVE  /\ SubSeq(s, a + 1, a + n) \in Seq(S) /\ Len(SubSeq(s, a + 1, a + n)) = n
         /\ \A i \in 1..n : SubSeq(s, a + 1, a + n)[i] = s[a + i]
<1> DEFINE x == a + 1
           y == a + n
           t == SubSeq(s, x, y)
<1>1. /\ x \in Int /\ y \in Int /\ Len(s) \in Nat /\ \A i \in x..y : s[i] \in S
  BY LenProperties, ElementOfSeq
<1>2. /\ y - x + 1 = n /\ (x <= y <=> n >= 1) /\ \A i \in 1..n : x + i - 1 = a + i
  OBVIOUS
<1> HIDE DEF x, y
<1>3. /\ SubSeq(s, x, y) \in Seq(S)
      /\ Len(SubSeq(s, x, y)) = IF x <= y THEN y - x + 1 ELSE 0
      /\ \A i \in 1..(y - x + 1) : SubSeq(s, x, y)[i] = s[x + i - 1]
  BY <1>1, SubSeqProperties
<1>4. t \in Seq(S) /\ Len(t) = n /\ \A i \in 1..n : t[i] = s[a + i]
  BY <1>2, <1>3
<1>5. QED  BY <1>4 DEF x, y

LEMMA Part ==
  ASSUME NEW s \in Seq(Bit), NEW a \in Nat, NEW n \in Nat, a + n <= Len(s)
  PROVE  /\ SubSeq(s, a + 1, a + n) \in Seq(Bit) /\ Len(SubSeq(s, a + 1, a + n)) = n
         /\ \A i \in 1..n : SubSeq(s, a + 1, a + n)[i] = s[a + i]
BY PartOf

States == {"empty", "input", "literal", "msb", "lsb", "count", "backref"}

(* Bits that are held. *)
LEMMA TakeHeld ==
  ASSUME dec \in DecoderRecord, NEW p \in Nat, Stream(dec, p), fed \in Nat,
         NEW n \in 1..ByteBits, Len(dec.cur) >= n, NEW st \in States
  PROVE  /\ Bits(n) \in Seq(Bit) /\ Len(Bits(n)) = n /\ \A i \in 1..n : Bits(n)[i] = out[p + i]
         /\ Taken(n, st) \in DecoderRecord /\ Stream(Taken(n, st), p + n)
         /\ Taken(n, st).st = st /\ Taken(n, st).index = dec.index /\ Taken(n, st).count = dec.count
<1> DEFINE c == Len(dec.cur)
           t == SubSeq(dec.cur, n + 1, c)
<1>1. /\ dec.cur \in Seq(Bit) /\ c \in Nat /\ ByteBits \in Nat /\ n \in Nat /\ n > 0 /\ n <= c
      /\ Len(dec.inp) \in Nat /\ dec.idx \in Nat
  BY LenProperties, WidthsHold DEF Widths, DecoderRecord
<1>2. /\ c < ByteBits /\ Len(dec.inp) <= InBuf /\ Len(dec.inp) <= fed
      /\ dec.idx <= Len(dec.inp) /\ (dec.inp = <<>> => dec.idx = 0) /\ (dec.inp # <<>> => dec.idx < Len(dec.inp))
      /\ p + c + (Len(dec.inp) - dec.idx) * ByteBits = fed * ByteBits
      /\ \A i \in 1..c : dec.cur[i] = out[p + i]
      /\ \A j \in 1..Len(dec.inp) : dec.inp[j] = ByteAt(fed - Len(dec.inp) + j)
  BY DEF Stream
<1>3. /\ SubSeq(dec.cur, 0 + 1, 0 + n) \in Seq(Bit) /\ Len(SubSeq(dec.cur, 0 + 1, 0 + n)) = n
      /\ \A i \in 1..n : SubSeq(dec.cur, 0 + 1, 0 + n)[i] = dec.cur[0 + i]
  BY <1>1, Part
<1>4. 0 + 1 = 1 /\ 0 + n = n /\ \A i \in 1..n : 0 + i = i /\ i \in 1..c
  BY <1>1
<1>5. Bits(n) = SubSeq(dec.cur, 1, n)
  BY DEF Bits
<1>6. Bits(n) \in Seq(Bit) /\ Len(Bits(n)) = n /\ \A i \in 1..n : Bits(n)[i] = out[p + i]
  BY <1>2, <1>3, <1>4, <1>5
<1>7. /\ SubSeq(dec.cur, n + 1, n + (c - n)) \in Seq(Bit)
      /\ Len(SubSeq(dec.cur, n + 1, n + (c - n))) = c - n
      /\ \A i \in 1..(c - n) : SubSeq(dec.cur, n + 1, n + (c - n))[i] = dec.cur[n + i]
  <2>1. c - n \in Nat /\ n + (c - n) <= c
    BY <1>1
  <2> HIDE DEF c
  <2>2. QED  BY <1>1, <2>1, Part DEF c
<1>8. n + (c - n) = c
  BY <1>1
<1>9. t \in Seq(Bit) /\ Len(t) = c - n /\ \A i \in 1..(c - n) : t[i] = dec.cur[n + i]
  BY <1>7, <1>8
<1>10. \A i \in 1..(c - n) : n + i \in 1..c /\ p + (n + i) = p + n + i
  BY <1>1
<1> HIDE DEF t, c
<1>11. Taken(n, st) = [dec EXCEPT !.cur = t, !.st = st]
  BY DEF Taken, t, c
<1>12. /\ Taken(n, st) \in DecoderRecord
       /\ Taken(n, st).st = st /\ Taken(n, st).index = dec.index /\ Taken(n, st).count = dec.count
       /\ Taken(n, st).cur = t /\ Taken(n, st).inp = dec.inp /\ Taken(n, st).idx = dec.idx
  BY <1>9, <1>11 DEF DecoderRecord, States
<1>13. \A i \in 1..(c - n) : t[i] = out[p + n + i]
  BY <1>2, <1>9, <1>10
<1>14. c - n < ByteBits /\ p + n + (c - n) = p + c
  <2>1. c < ByteBits
    BY <1>2
  <2>2. QED  BY <1>1, <2>1
<1>15. p + n + (c - n) + (Len(dec.inp) - dec.idx) * ByteBits = fed * ByteBits
  BY <1>2, <1>14
<1>16. Stream(Taken(n, st), p + n)
  BY <1>2, <1>9, <1>12, <1>13, <1>14, <1>15 DEF Stream
<1>17. QED  BY <1>6, <1>12, <1>16

(* Bits of the next byte, too.                                             *)
LEMMA TakeNext ==
  ASSUME out \in Seq(Bit), Len(out) % ByteBits = 0,
         dec \in DecoderRecord, NEW p \in Nat, Stream(dec, p), fed \in 0..Bytes,
         NEW n \in 1..ByteBits, Len(dec.cur) < n, dec.inp # <<>>, NEW st \in States
  PROVE  /\ Bits(n) \in Seq(Bit) /\ Len(Bits(n)) = n /\ \A i \in 1..n : Bits(n)[i] = out[p + i]
         /\ Taken(n, st) \in DecoderRecord /\ Stream(Taken(n, st), p + n)
         /\ Taken(n, st).st = st /\ Taken(n, st).index = dec.index /\ Taken(n, st).count = dec.count
<1> DEFINE c == Len(dec.cur)
           m == Len(dec.inp)
           x == dec.idx
           B == ByteBits
           k == fed - m + x + 1
           byte == dec.inp[x + 1]
           a == n - c
           used == SubSeq(byte, 1, a)
           t == SubSeq(byte, a + 1, B)
<1>1. /\ dec.cur \in Seq(Bit) /\ c \in Nat /\ B \in Nat /\ n \in Nat /\ n > 0 /\ n <= B /\ c < n
      /\ m \in Nat /\ x \in Nat /\ fed \in Nat /\ fed <= Bytes /\ Bytes \in Nat
      /\ dec.inp \in Seq(Seq(Bit))
  <2>1. Bytes \in Nat
    BY BytesAre
  <2>2. dec.cur \in Seq(Bit) /\ dec.inp \in Seq(Seq(Bit)) /\ x \in Nat
    BY DEF DecoderRecord
  <2>3. B \in Nat /\ n \in Nat /\ n > 0 /\ n <= B /\ c < n
    BY WidthsHold DEF Widths
  <2>4. c \in Nat /\ m \in Nat
    BY <2>2, LenProperties
  <2>5. fed \in Nat /\ fed <= Bytes
    BY <2>1
  <2>6. QED  BY <2>1, <2>2, <2>3, <2>4, <2>5
<1>2. c < B /\ m <= InBuf /\ m <= fed /\ x < m
  BY DEF Stream
<1>e. p + c + (m - x) * B = fed * B
  BY DEF Stream
<1>f. /\ \A i \in 1..c : dec.cur[i] = out[p + i]
      /\ \A j \in 1..m : dec.inp[j] = ByteAt(fed - m + j)
  BY DEF Stream
<1> HIDE DEF c, m, x, B
<1>3. k \in 1..Bytes /\ x + 1 \in 1..m /\ k = fed - m + (x + 1)
  BY <1>1, <1>2
<1>4. (k - 1) * B = p + c
  <2>1. m - x \in Nat /\ (k - 1) = fed - (m - x) /\ p + c + (m - x) * B = fed * B
    BY <1>1, <1>2, <1>e
  <2>2. ASSUME NEW f \in Nat, NEW g \in Nat, NEW h \in Nat, NEW b \in Nat, h + g * b = f * b
        PROVE  (f - g) * b = h
    BY <2>2
  <2>3. p + c \in Nat
    BY <1>1
  <2>4. (fed - (m - x)) * B = p + c
    BY <1>1, <2>1, <2>2, <2>3
  <2> HIDE DEF k
  <2>5. QED  BY <2>1, <2>4
<1>5. byte \in Seq(Bit) /\ Len(byte) = B /\ \A i \in 1..B : byte[i] = out[p + c + i]
  <2>1. byte = ByteAt(k)
    BY <1>f, <1>3
  <2>2. /\ ByteAt(k) \in Seq(Bit) /\ Len(ByteAt(k)) = ByteBits
        /\ \A i \in 1..ByteBits : ByteAt(k)[i] = out[(k - 1) * ByteBits + i]
    BY <1>3, BytesAre
  <2> HIDE DEF k, byte
  <2>3. QED  BY <1>4, <2>1, <2>2 DEF B
<1> HIDE DEF k, byte
<1>6. a \in Nat /\ a > 0 /\ a <= B /\ n = c + a /\ B - a \in Nat /\ B - a < B /\ a + (B - a) = B
  BY <1>1
<1> HIDE DEF a
<1>7. used \in Seq(Bit) /\ Len(used) = a /\ \A i \in 1..a : used[i] = byte[i]
  <2>1. /\ SubSeq(byte, 0 + 1, 0 + a) \in Seq(Bit) /\ Len(SubSeq(byte, 0 + 1, 0 + a)) = a
        /\ \A i \in 1..a : SubSeq(byte, 0 + 1, 0 + a)[i] = byte[0 + i]
    BY <1>5, <1>6, Part
  <2>2. 0 + 1 = 1 /\ 0 + a = a /\ \A i \in 1..a : 0 + i = i
    BY <1>6
  <2>3. QED  BY <2>1, <2>2
<1>8. t \in Seq(Bit) /\ Len(t) = B - a /\ \A i \in 1..(B - a) : t[i] = byte[a + i]
  <2>1. /\ SubSeq(byte, a + 1, a + (B - a)) \in Seq(Bit) /\ Len(SubSeq(byte, a + 1, a + (B - a))) = B - a
        /\ \A i \in 1..(B - a) : SubSeq(byte, a + 1, a + (B - a))[i] = byte[a + i]
    BY <1>5, <1>6, Part
  <2>2. QED  BY <1>6, <2>1
<1> HIDE DEF used, t
<1>9. Bits(n) = dec.cur \o used
  <2>1. ~(Len(dec.cur) >= n)
    BY <1>1 DEF c
  <2>2. QED  BY <2>1 DEF Bits, c, x, a, byte, used
<1>10. /\ dec.cur \o used \in Seq(Bit) /\ Len(dec.cur \o used) = Len(dec.cur) + Len(used)
       /\ \A i \in 1..Len(dec.cur) : (dec.cur \o used)[i] = dec.cur[i]
       /\ \A i \in 1..Len(used) : (dec.cur \o used)[Len(dec.cur) + i] = used[i]
  BY <1>1, <1>7, BitsJoined
<1>11. Bits(n) \in Seq(Bit) /\ Len(Bits(n)) = n
  BY <1>6, <1>7, <1>9, <1>10 DEF c
<1>12. ASSUME NEW i \in 1..n PROVE Bits(n)[i] = out[p + i]
  <2>1. CASE i <= c
    <3>1. i \in 1..c
      BY <1>1, <2>1
    <3>2. QED  BY <1>f, <1>9, <1>10, <3>1 DEF c
  <2>2. CASE ~(i <= c)
    <3>1. i - c \in 1..a /\ c + (i - c) = i /\ i - c \in 1..B /\ p + c + (i - c) = p + i
      BY <1>1, <1>6, <2>2
    <3>2. (dec.cur \o used)[c + (i - c)] = used[i - c]
      BY <1>7, <1>10, <3>1 DEF c
    <3>3. used[i - c] = byte[i - c]
      BY <1>7, <3>1
    <3>4. byte[i - c] = out[p + c + (i - c)]
      BY <1>5, <3>1
    <3>5. QED  BY <1>9, <3>1, <3>2, <3>3, <3>4
  <2>3. QED  BY <2>1, <2>2
<1>13. Taken(n, st) = [dec EXCEPT !.cur = t, !.st = st,
                                  !.inp = IF x + 1 = m THEN <<>> ELSE dec.inp,
                                  !.idx = IF x + 1 = m THEN 0 ELSE x + 1]
  <2>1. ~(Len(dec.cur) >= n)
    BY <1>1 DEF c
  <2>2. QED  BY <2>1 DEF Taken, c, m, x, B, a, byte, t
<1>14. <<>> \in Seq(Seq(Bit)) /\ Len(<<>>) = 0
  BY EmptySeq
<1>15. /\ Taken(n, st) \in DecoderRecord
       /\ Taken(n, st).st = st /\ Taken(n, st).index = dec.index /\ Taken(n, st).count = dec.count
       /\ Taken(n, st).cur = t
       /\ Taken(n, st).inp = (IF x + 1 = m THEN <<>> ELSE dec.inp)
       /\ Taken(n, st).idx = (IF x + 1 = m THEN 0 ELSE x + 1)
  <2> DEFINE inp == IF x + 1 = m THEN <<>> ELSE dec.inp
             idx == IF x + 1 = m THEN 0 ELSE x + 1
  <2>1. inp \in Seq(Seq(Bit)) /\ idx \in Nat /\ t \in Seq(Bit)
    BY <1>1, <1>8, <1>14
  <2>2. Taken(n, st) = [dec EXCEPT !.cur = t, !.st = st, !.inp = inp, !.idx = idx]
    BY <1>13
  <2> HIDE DEF inp, idx
  <2>3. /\ Taken(n, st) \in DecoderRecord
        /\ Taken(n, st).st = st /\ Taken(n, st).index = dec.index /\ Taken(n, st).count = dec.count
        /\ Taken(n, st).cur = t /\ Taken(n, st).inp = inp /\ Taken(n, st).idx = idx
    BY <2>1, <2>2 DEF DecoderRecord, States
  <2>4. QED  BY <2>3 DEF inp, idx
<1>16. \A i \in 1..Len(t) : t[i] = out[p + n + i]
  <2>1. ASSUME NEW i \in 1..(B - a) PROVE t[i] = out[p + n + i]
    <3>1. a + i \in 1..B /\ p + c + (a + i) = p + n + i
      BY <1>1, <1>6
    <3>2. t[i] = byte[a + i]
      BY <1>8
    <3>3. QED  BY <1>5, <3>1, <3>2
  <2>2. QED  BY <1>8, <2>1
<1>17. Stream(Taken(n, st), p + n)
  <2>1. p + n + (B - a) + (m - (x + 1)) * B = fed * B
    <3>1. ASSUME NEW f \in Int, NEW g \in Nat, NEW h \in Nat PROVE h + B + (g - 1) * B = h + g * B
      BY <1>1
    <3>2. m - x \in Nat /\ p + c \in Nat /\ m - (x + 1) = (m - x) - 1 /\ p + n + (B - a) = (p + c) + B
      <4>1. m - x \in Nat /\ p + c \in Nat /\ m - (x + 1) = (m - x) - 1
        BY <1>1, <1>2
      <4>2. p + n + (B - a) = (p + c) + B
        BY <1>1, <1>6
      <4>3. QED  BY <4>1, <4>2
    <3>3. (p + c) + B + ((m - x) - 1) * B = (p + c) + (m - x) * B
      BY <3>1, <3>2
    <3>4. QED  BY <1>e, <3>2, <3>3
  <2>2. CASE x + 1 = m
    <3>1. Taken(n, st).inp = <<>> /\ Taken(n, st).idx = 0
      BY <1>15, <2>2
    <3>2. (0 - 0) * B = 0 /\ (m - (x + 1)) * B = 0 /\ 0 <= fed /\ 0 <= InBuf /\ 0 <= 0
      <4>1. m - (x + 1) = 0
        BY <1>1, <2>2
      <4>2. QED  BY <1>1, <4>1, EspFsAssumption
    <3>3. p + n + (B - a) + (0 - 0) * B = fed * B
      BY <1>1, <1>6, <2>1, <3>2
    <3>4. \A j \in 1..0 : FALSE
      OBVIOUS
    <3>5. QED  BY <1>8, <1>6, <1>14, <1>15, <1>16, <3>1, <3>2, <3>3, <3>4 DEF Stream, B
  <2>3. CASE x + 1 # m
    <3>1. Taken(n, st).inp = dec.inp /\ Taken(n, st).idx = x + 1
      BY <1>15, <2>3
    <3>2. x + 1 < m
      BY <1>1, <1>2, <2>3
    <3> DEFINE d == Taken(n, st)
    <3>3. Len(d.inp) = m /\ d.inp # <<>> /\ m > 0
      <4>1. m > 0
        BY <1>1, <1>2
      <4>2. QED  BY <1>14, <3>1, <4>1 DEF m
    <3>4. Len(d.cur) = B - a /\ d.idx = x + 1 /\ d.inp = dec.inp
      BY <1>8, <1>15, <3>1
    <3>5. \A i \in 1..Len(d.cur) : d.cur[i] = out[p + n + i]
      BY <1>15, <1>16
    <3> HIDE DEF d
    <3>6. /\ Len(d.cur) < B /\ Len(d.inp) <= InBuf /\ Len(d.inp) <= fed
          /\ d.idx <= Len(d.inp) /\ (d.inp = <<>> => d.idx = 0) /\ (d.inp # <<>> => d.idx < Len(d.inp))
      <4>1. B - a < B /\ x + 1 <= m
        BY <1>1, <1>6, <3>2
      <4>2. QED  BY <1>2, <3>2, <3>3, <3>4, <4>1
    <3>7. p + n + Len(d.cur) + (Len(d.inp) - d.idx) * B = fed * B
      BY <2>1, <3>3, <3>4
    <3>8. \A j \in 1..Len(d.inp) : d.inp[j] = ByteAt(fed - Len(d.inp) + j)
      BY <1>f, <3>3, <3>4
    <3>9. Stream(d, p + n)
      BY <3>5, <3>6, <3>7, <3>8 DEF Stream, B
    <3>10. QED  BY <3>9 DEF d
  <2>4. QED  BY <2>2, <2>3
<1>18. QED  BY <1>11, <1>12, <1>15, <1>17

(* get_bits gives the bits of out that come next, and uses them up. *)
LEMMA TakeBits ==
  ASSUME out \in Seq(Bit), Len(out) % ByteBits = 0,
         dec \in DecoderRecord, NEW p \in Nat, Stream(dec, p), fed \in 0..Bytes,
         NEW n \in 1..ByteBits, Enough(n), NEW st \in States
  PROVE  /\ Bits(n) \in Seq(Bit) /\ Len(Bits(n)) = n /\ \A i \in 1..n : Bits(n)[i] = out[p + i]
         /\ Taken(n, st) \in DecoderRecord /\ Stream(Taken(n, st), p + n)
         /\ Taken(n, st).st = st /\ Taken(n, st).index = dec.index /\ Taken(n, st).count = dec.count
<1>1. Len(dec.cur) \in Nat /\ n \in Nat /\ Bytes \in Nat
  BY LenProperties, BytesAre, WidthsHold DEF DecoderRecord, Widths
<1>2. CASE Len(dec.cur) >= n
  <2>1. fed \in Nat
    BY <1>1
  <2>2. QED  BY <2>1, <1>2, TakeHeld
<1>3. CASE ~(Len(dec.cur) >= n)
  <2>1. Len(dec.cur) < n /\ dec.inp # <<>>
    BY <1>1, <1>3 DEF Enough
  <2>2. QED  BY <2>1, TakeNext
<1>4. QED  BY <1>2, <1>3

(* What the steps of the decoder start from. *)
Supplied ==
  /\ out \in Seq(Bit) /\ Len(out) % ByteBits = 0 /\ file \in Seq(ByteValue)
  /\ dec \in DecoderRecord /\ fed \in 0..Bytes /\ EncoderAlloc

(* A mark is a pair of places. *)
LEMMA MarkIs ==
  ASSUME NEW end \in Nat, NEW bytes \in Nat, NEW marks, Tokens(marks, end, bytes), NEW m \in marks
  PROVE  m = <<m[1], m[2]>> /\ m[1] \in 0..end /\ m[2] \in 0..bytes /\ m[1] \in Nat /\ m[2] \in Nat
<1>1. m \in (0..end) \X (0..bytes)
  BY DEF Tokens
<1>2. QED  BY <1>1

(* A token was read: the decoder goes to its next one, if it holds a       *)
(* byte.                                                                   *)
LEMMA MoreIs ==
  ASSUME NEW d \in DecoderRecord, NEW p, Stream(d, p)
  PROVE  /\ More(d) \in DecoderRecord /\ Stream(More(d), p) /\ More(d).inp = d.inp
         /\ More(d).st \in {"empty", "input"} /\ (More(d).st = "empty" <=> d.inp = <<>>)
<1>1. /\ More(d) \in DecoderRecord /\ More(d).inp = d.inp /\ More(d).cur = d.cur /\ More(d).idx = d.idx
      /\ More(d).st \in {"empty", "input"} /\ (More(d).st = "empty" <=> d.inp = <<>>)
  BY DEF More, DecoderRecord
<1>2. Stream(More(d), p)
  BY <1>1 DEF Stream
<1>3. QED  BY <1>1, <1>2

(* Setting output_index, or output_count, does not touch the bits. *)
LEMMA Indexed ==
  ASSUME NEW t \in DecoderRecord, NEW i \in 0..Window, NEW p \in Nat, Stream(t, p)
  PROVE  \E d \in DecoderRecord :
           /\ d = [t EXCEPT !.index = i] /\ Stream(d, p)
           /\ d.st = t.st /\ d.index = i /\ d.count = t.count
<1> DEFINE d == [t EXCEPT !.index = i]
<1>1. /\ d \in DecoderRecord /\ d.st = t.st /\ d.index = i /\ d.count = t.count
      /\ d.cur = t.cur /\ d.inp = t.inp /\ d.idx = t.idx
  BY DEF DecoderRecord
<1>2. Stream(d, p)
  BY <1>1 DEF Stream
<1> HIDE DEF d
<1>3. QED  BY <1>1, <1>2 DEF d

LEMMA Counted ==
  ASSUME NEW t \in DecoderRecord, NEW i \in 0..Ahead, NEW p \in Nat, Stream(t, p)
  PROVE  \E d \in DecoderRecord :
           /\ d = [t EXCEPT !.count = i] /\ Stream(d, p)
           /\ d.st = t.st /\ d.index = t.index /\ d.count = i /\ d.inp = t.inp
<1> DEFINE d == [t EXCEPT !.count = i]
<1>1. /\ d \in DecoderRecord /\ d.st = t.st /\ d.index = t.index /\ d.count = i
      /\ d.cur = t.cur /\ d.inp = t.inp /\ d.idx = t.idx
  BY DEF DecoderRecord
<1>2. Stream(d, p)
  BY <1>1 DEF Stream
<1> HIDE DEF d
<1>3. QED  BY <1>1, <1>2 DEF d

(* A decoder that holds a byte is not at the end of the tokens: the        *)
(* padding does not fill a byte.                                           *)
LEMMA NextToken ==
  ASSUME Supplied, NEW marks, NEW end \in Nat, Padded(end), Tokens(marks, end, Len(file)),
         NEW p \in Nat, Stream(dec, p), dec.inp # <<>>, NEW m \in marks, p = m[1]
  PROVE  \E m2 \in marks : TokenAt(m[1], m[2], m2[1], m2[2])
<1>1. m # <<end, Len(file)>>
  <2>1. /\ Len(out) \in Nat /\ Bytes \in Nat /\ Bytes * ByteBits = Len(out)
        /\ ByteBits \in Nat /\ ByteBits > 0
    BY BytesAre, WidthsHold DEF Supplied, Widths
  <2>2. fed \in Nat /\ fed <= Bytes
    BY <2>1 DEF Supplied
  <2>3. Len(dec.inp) - dec.idx \in Nat /\ Len(dec.inp) - dec.idx >= 1 /\ Len(dec.cur) \in Nat
    <3>1. dec.inp \in Seq(Seq(Bit)) /\ dec.cur \in Seq(Bit) /\ dec.idx \in Nat
      BY DEF Supplied, DecoderRecord
    <3>2. Len(dec.inp) \in Nat /\ Len(dec.cur) \in Nat
      BY <3>1, LenProperties
    <3>3. dec.idx < Len(dec.inp)
      BY DEF Stream
    <3>4. QED  BY <3>1, <3>2, <3>3
  <2>4. p + Len(dec.cur) + (Len(dec.inp) - dec.idx) * ByteBits = fed * ByteBits
    BY DEF Stream
  <2>5. Len(out) - end < ByteBits /\ end <= Len(out)
    BY <2>1 DEF Padded
  <2>6. ASSUME NEW b \in Nat, NEW f \in Nat, NEW all \in Nat, NEW c \in Nat, NEW k \in Nat,
               f <= all, k >= 1, p + c + k * b = f * b
        PROVE  p + b <= all * b
    <3>1. f * b <= all * b
      BY <2>6
    <3>2. k * b >= b
      BY <2>6
    <3>3. f * b \in Nat /\ k * b \in Nat /\ all * b \in Nat
      BY <2>6
    <3>4. ASSUME NEW x \in Nat, NEW y \in Nat, NEW z \in Nat, x <= y, z >= b, p + c + z = x
          PROVE  p + b <= y
      BY <3>4
    <3>5. QED  BY <2>6, <3>1, <3>2, <3>3, <3>4
  <2>7. p + ByteBits <= Bytes * ByteBits
    BY <2>1, <2>2, <2>3, <2>4, <2>6
  <2>8. p # end
    BY <2>1, <2>5, <2>7
  <2>9. QED  BY <2>8
<1>2. QED  BY <1>1 DEF Tokens

(* The state that a tag leads to. *)
AfterTag ==
  CASE Bits(1) = <<1>> -> "literal"
    [] Bits(1) = <<0>> /\ IndexBits > ByteBits -> "msb"
    [] Bits(1) = <<0>> /\ IndexBits <= ByteBits -> "lsb"

(* The five states of the decoder, each reading its part of the token. *)
LEMMA DecodeTag ==
  ASSUME Supplied, NEW marks, NEW end \in Nat, Padded(end), Tokens(marks, end, Len(file)),
         NEW n \in Nat, NEW p \in Nat, Stream(dec, p), At(dec, n, p, marks),
         dec.st = "input", Enough(1),
         NEW d, d = [Taken(1, AfterTag) EXCEPT !.index = 0]
  PROVE  d \in DecoderRecord /\ \E p2 \in Nat : Stream(d, p2) /\ At(d, n, p2, marks)
<1>1. PICK m \in marks : Between(dec, n, p, m)
  BY DEF At, InLiteral, InBackref
<1>2. n = m[2] /\ p = m[1] /\ dec.inp # <<>>
  BY <1>1 DEF Between
<1>3. PICK m2 \in marks : TokenAt(m[1], m[2], m2[1], m2[2])
  BY <1>2, NextToken
<1>4. IndexBits = W /\ W \in Nat /\ ByteBits \in Nat /\ ByteBits > 0 /\ 1 \in 1..ByteBits /\ W > 0
      /\ L \in Nat /\ L > 0
  BY Allocates, WidthsHold DEF Supplied, Widths
<1>p. p + 1 \in Nat
  OBVIOUS
<1>l. Len(file) \in Nat
  BY LenProperties DEF Supplied
<1>m. m[1] \in Nat /\ m[2] \in Nat /\ m2[2] \in 0..Len(file)
  BY <1>l, MarkIs
<1>5. ASSUME NEW st \in States
      PROVE  /\ Bits(1) \in Seq(Bit) /\ Len(Bits(1)) = 1 /\ \A i \in 1..1 : Bits(1)[i] = out[p + i]
             /\ Taken(1, st) \in DecoderRecord /\ Stream(Taken(1, st), p + 1)
             /\ Taken(1, st).st = st
  <2>1. out \in Seq(Bit) /\ Len(out) % ByteBits = 0 /\ dec \in DecoderRecord /\ fed \in 0..Bytes
    BY DEF Supplied
  <2>2. Enough(1) /\ 1 \in 1..ByteBits
    BY <1>4
  <2>3. QED  BY Zenon, <2>1, <2>2, TakeBits
<1>6. Bits(1) = <<out[p + 1]>>
  <2>1. "input" \in States
    BY DEF States
  <2>2. Bits(1) \in Seq(Bit) /\ Len(Bits(1)) = 1 /\ Bits(1)[1] = out[p + 1]
    BY <1>5, <2>1
  <2>3. QED  BY <2>2
<1>7. ASSUME NEW st \in States, d = [Taken(1, st) EXCEPT !.index = 0]
      PROVE  /\ d \in DecoderRecord /\ Stream(d, p + 1) /\ d.st = st /\ d.index = 0
  <2>1. Taken(1, st) \in DecoderRecord /\ Stream(Taken(1, st), p + 1) /\ Taken(1, st).st = st
    BY <1>5
  <2>2. 0 \in 0..Window
    BY WindowType
  <2>3. \E e \in DecoderRecord : /\ e = [Taken(1, st) EXCEPT !.index = 0] /\ Stream(e, p + 1)
                                 /\ e.st = Taken(1, st).st /\ e.index = 0
    BY <1>p, <2>1, <2>2, Indexed
  <2>4. QED  BY <1>7, <2>1, <2>3
<1>8. CASE LiteralAt(m[1], m[2], m2[1], m2[2])
  <2>1. out[p + 1] = 1
    <3>1. m2[2] \in 1..Len(file)
      BY <1>8, <1>m, <1>l DEF LiteralAt
    <3>2. file[m2[2]] \in Nat
      <4>1. file[m2[2]] \in ByteValue
        BY <3>1, ElementOfSeq DEF Supplied
      <4>2. QED  BY <4>1 DEF ByteValue
    <3>3. Literal(file[m2[2]])[1] = 1
      BY <3>2, LiteralType
    <3>4. 1 \in 1..(1 + ByteBits)
      BY <1>4
    <3>5. QED  BY <1>2, <1>8, <3>3, <3>4 DEF LiteralAt
  <2>2. Bits(1) = <<1>>
    BY <1>6, <2>1
  <2>3. d = [Taken(1, "literal") EXCEPT !.index = 0]
    <3>1. ~(<<1>> = <<0>>)
      OBVIOUS
    <3>2. QED  BY <2>2, <3>1 DEF AfterTag
  <2>4. d \in DecoderRecord /\ Stream(d, p + 1) /\ d.st = "literal"
    BY <1>7, <2>3 DEF States
  <2>5. InLiteral(d, n, p + 1, m, m2)
    BY <1>2, <1>8, <2>4 DEF InLiteral
  <2>6. At(d, n, p + 1, marks)
    BY <2>5 DEF At
  <2>7. QED  BY <1>p, <2>4, <2>6
<1>9. ASSUME NEW distance \in 1..Window, NEW length \in 1..Ahead,
             BackrefAt(m[1], m[2], m2[1], m2[2], distance, length)
      PROVE  d \in DecoderRecord /\ \E p2 \in Nat : Stream(d, p2) /\ At(d, n, p2, marks)
  <2>1. out[p + 1] = 0
    <3>1. distance \in Nat /\ distance >= 1 /\ length \in Nat /\ length >= 1
      BY WindowType
    <3>2. Backref(distance, length)[1] = 0
      BY <3>1, BackrefType
    <3>3. 1 \in 1..(1 + W + L)
      BY <1>4
    <3>4. QED  BY <1>2, <1>9, <3>2, <3>3 DEF BackrefAt
  <2>2. Bits(1) = <<0>> /\ ~(<<0>> = <<1>>)
    BY <1>6, <2>1
  <2>3. CASE W > ByteBits
    <3>1. d = [Taken(1, "msb") EXCEPT !.index = 0]
      BY <1>4, <2>2, <2>3 DEF AfterTag
    <3>2. d \in DecoderRecord /\ Stream(d, p + 1) /\ d.st = "msb" /\ d.index = 0
      BY <1>7, <3>1 DEF States
    <3>3. InBackref(d, n, p + 1, m, distance, length)
      BY <1>2, <2>3, <3>2 DEF InBackref
    <3>4. At(d, n, p + 1, marks)
      BY <1>9, <3>3 DEF At
    <3>5. QED  BY <1>p, <3>2, <3>4
  <2>4. CASE ~(W > ByteBits)
    <3>1. d = [Taken(1, "lsb") EXCEPT !.index = 0]
      <4>1. IndexBits <= ByteBits /\ ~(IndexBits > ByteBits)
        BY <1>4, <2>4
      <4>2. QED  BY <2>2, <4>1 DEF AfterTag
    <3>2. d \in DecoderRecord /\ Stream(d, p + 1) /\ d.st = "lsb" /\ d.index = 0
      BY <1>7, <3>1 DEF States
    <3>3. InBackref(d, n, p + 1, m, distance, length)
      BY <1>2, <2>4, <3>2 DEF InBackref
    <3>4. At(d, n, p + 1, marks)
      BY <1>9, <3>3 DEF At
    <3>5. QED  BY <1>p, <3>2, <3>4
  <2>5. QED  BY <2>3, <2>4
<1>10. QED  BY <1>3, <1>8, <1>9 DEF TokenAt

LEMMA DecodeLiteral ==
  ASSUME Supplied, NEW marks, NEW end \in Nat, Tokens(marks, end, Len(file)),
         NEW n \in Nat, NEW p \in Nat, Stream(dec, p), At(dec, n, p, marks),
         dec.st = "literal", Enough(ByteBits)
  PROVE  /\ n + 1 \in 1..Len(file) /\ FromBits(Bits(ByteBits)) = file[n + 1]
         /\ More(Taken(ByteBits, "input")) \in DecoderRecord
         /\ \E p2 \in Nat : /\ Stream(More(Taken(ByteBits, "input")), p2)
                            /\ At(More(Taken(ByteBits, "input")), n + 1, p2, marks)
<1>0. /\ ByteBits \in Nat /\ ByteBits > 0 /\ ByteBits \in 1..ByteBits /\ Len(file) \in Nat
      /\ "input" \in States
  BY LenProperties, WidthsHold DEF Widths, Supplied, States
<1>1. PICK m \in marks, m2 \in marks : InLiteral(dec, n, p, m, m2)
  BY DEF At, Between, InBackref
<1>2. /\ n = m[2] /\ p = m[1] + 1 /\ m2[1] = m[1] + 1 + ByteBits /\ m2[2] = m[2] + 1
      /\ \A i \in 1..(1 + ByteBits) : out[m[1] + i] = Literal(file[m2[2]])[i]
  BY <1>1 DEF InLiteral, LiteralAt
<1>3. m[1] \in Nat /\ m[2] \in Nat /\ m2[2] \in 0..Len(file) /\ m2[1] \in Nat
  BY <1>0, MarkIs
<1>4. n + 1 = m2[2] /\ n + 1 \in 1..Len(file) /\ p + ByteBits = m2[1]
  BY <1>0, <1>2, <1>3
<1>5. file[n + 1] \in 0..(Pow2[ByteBits] - 1) /\ file[n + 1] \in Nat
  <2>1. file[n + 1] \in ByteValue
    BY <1>4, ElementOfSeq DEF Supplied
  <2>2. QED  BY <2>1 DEF ByteValue
<1> DEFINE t == Taken(ByteBits, "input")
<1>6. /\ Bits(ByteBits) \in Seq(Bit) /\ Len(Bits(ByteBits)) = ByteBits
      /\ \A i \in 1..ByteBits : Bits(ByteBits)[i] = out[p + i]
      /\ t \in DecoderRecord /\ Stream(t, p + ByteBits)
  BY <1>0, TakeBits DEF Supplied
<1>7. ASSUME NEW i \in 1..ByteBits PROVE Bits(ByteBits)[i] = ToBits(file[n + 1], ByteBits)[i]
  <2>0. i \in Nat /\ 1 + i \in 1..(1 + ByteBits)
    BY <1>0
  <2>1. 1 + i \in 1..(1 + ByteBits) /\ m[1] + (1 + i) = p + i
    <3>1. p = m[1] + 1
      BY <1>2
    <3>2. ASSUME NEW x \in Nat PROVE x + (1 + i) = (x + 1) + i
      BY <2>0
    <3>3. m[1] + (1 + i) = (m[1] + 1) + i
      BY <1>3, <3>2
    <3>4. QED  BY <2>0, <3>1, <3>3
  <2>2. out[p + i] = Literal(file[n + 1])[1 + i]
    BY <1>2, <1>4, <2>1
  <2>3. Literal(file[n + 1])[1 + i] = ToBits(file[n + 1], ByteBits)[i]
    BY <1>5, LiteralType
  <2>4. QED  BY <1>6, <2>2, <2>3
<1>8. FromBits(Bits(ByteBits)) = file[n + 1]
  BY <1>0, <1>5, <1>6, <1>7, AllBits
<1> HIDE DEF t
<1>9. /\ More(t) \in DecoderRecord /\ Stream(More(t), p + ByteBits) /\ More(t).inp = t.inp
      /\ More(t).st \in {"empty", "input"} /\ (More(t).st = "empty" <=> t.inp = <<>>)
  BY <1>6, MoreIs
<1>10. Between(More(t), n + 1, p + ByteBits, m2)
  BY <1>4, <1>9 DEF Between
<1>11. At(More(t), n + 1, p + ByteBits, marks)
  BY <1>10 DEF At
<1>12. p + ByteBits \in Nat
  BY <1>3, <1>4
<1>13. QED  BY <1>4, <1>8, <1>9, <1>11, <1>12 DEF t

(* The bits of a distance and a length.                                    *)
LEMMA TokenBits ==
  ASSUME NEW m, NEW m2, NEW distance \in 1..Window, NEW length \in 1..Ahead, m[1] \in Nat,
         BackrefAt(m[1], m[2], m2[1], m2[2], distance, length)
  PROVE  /\ distance - 1 \in 0..(Pow2[W] - 1) /\ length - 1 \in 0..(Pow2[L] - 1)
         /\ \A i \in 1..W : out[m[1] + 1 + i] = ToBits(distance - 1, W)[i]
         /\ \A i \in 1..L : out[m[1] + 1 + W + i] = ToBits(length - 1, L)[i]
<1>1. Pow2[W] \in Nat /\ Pow2[L] \in Nat /\ W \in Nat /\ L \in Nat
      /\ distance \in Nat /\ distance >= 1 /\ distance <= Pow2[W]
      /\ length \in Nat /\ length >= 1 /\ length <= Pow2[L]
  BY WindowType, WidthsHold DEF Window, Ahead, Widths
<1>2. /\ \A i \in 1..W : Backref(distance, length)[1 + i] = ToBits(distance - 1, W)[i]
      /\ \A i \in 1..L : Backref(distance, length)[1 + W + i] = ToBits(length - 1, L)[i]
  BY <1>1, BackrefType
<1>3. \A i \in 1..(1 + W + L) : out[m[1] + i] = Backref(distance, length)[i]
  BY DEF BackrefAt
<1>4. \A i \in 1..W : 1 + i \in 1..(1 + W + L) /\ m[1] + (1 + i) = m[1] + 1 + i
  BY <1>1
<1>5. \A i \in 1..L : 1 + W + i \in 1..(1 + W + L) /\ m[1] + (1 + W + i) = m[1] + 1 + W + i
  BY <1>1
<1>6. distance - 1 \in 0..(Pow2[W] - 1) /\ length - 1 \in 0..(Pow2[L] - 1)
  BY <1>1
<1>7. ASSUME NEW i \in 1..W PROVE out[m[1] + 1 + i] = ToBits(distance - 1, W)[i]
  BY <1>2, <1>3, <1>4
<1>8. ASSUME NEW i \in 1..L PROVE out[m[1] + 1 + W + i] = ToBits(length - 1, L)[i]
  BY <1>2, <1>3, <1>5
<1>9. QED  BY <1>6, <1>7, <1>8

LEMMA DecodeMsb ==
  ASSUME Supplied, NEW marks, NEW end \in Nat, Tokens(marks, end, Len(file)),
         NEW n \in Nat, NEW p \in Nat, Stream(dec, p), At(dec, n, p, marks),
         dec.st = "msb", Enough(IndexBits - ByteBits),
         NEW d, d = [Taken(IndexBits - ByteBits, "lsb")
                     EXCEPT !.index = FromBits(Bits(IndexBits - ByteBits)) * Pow2[ByteBits]]
  PROVE  d \in DecoderRecord /\ \E p2 \in Nat : Stream(d, p2) /\ At(d, n, p2, marks)
<1> DEFINE k == W - ByteBits
<1>1. PICK m \in marks, m2 \in marks, distance \in 1..Window, length \in 1..Ahead :
        BackrefAt(m[1], m[2], m2[1], m2[2], distance, length) /\ InBackref(dec, n, p, m, distance, length)
  BY DEF At, Between, InLiteral
<1>2. n = m[2] /\ p = m[1] + 1 /\ W > ByteBits
  BY <1>1 DEF InBackref
<1>3. Len(file) \in Nat /\ m[1] \in Nat
  <2>1. Len(file) \in Nat
    BY LenProperties DEF Supplied
  <2>2. QED  BY <2>1, MarkIs
<1>4. /\ W \in Nat /\ ByteBits \in Nat /\ ByteBits \in 0..W /\ k \in Nat /\ k \in 1..ByteBits
      /\ p + k \in Nat /\ p + k = m[1] + 1 + k
  <2>1. W \in Nat /\ ByteBits \in Nat /\ W > ByteBits /\ W <= 2 * ByteBits
    BY <1>2, WidthsHold DEF Widths
  <2>2. ByteBits \in 0..W /\ k \in Nat /\ k \in 1..ByteBits
    BY <2>1
  <2> HIDE DEF k
  <2>3. p + k \in Nat /\ p + k = m[1] + 1 + k
    BY <1>2, <1>3, <2>2
  <2>4. QED  BY <2>1, <2>2, <2>3
<1>5. IndexBits - ByteBits = k /\ "lsb" \in States
  BY Allocates DEF Supplied, States
<1> HIDE DEF k
<1>6. /\ Bits(k) \in Seq(Bit) /\ Len(Bits(k)) = k /\ \A i \in 1..k : Bits(k)[i] = out[p + i]
      /\ Taken(k, "lsb") \in DecoderRecord /\ Stream(Taken(k, "lsb"), p + k)
      /\ Taken(k, "lsb").st = "lsb"
  BY <1>4, <1>5, TakeBits DEF Supplied
<1>7. /\ distance - 1 \in 0..(Pow2[W] - 1)
      /\ \A i \in 1..W : out[m[1] + 1 + i] = ToBits(distance - 1, W)[i]
  BY <1>1, <1>3, TokenBits
<1>8. \A i \in 1..k : i \in 1..W
  BY <1>4 DEF k
<1>9. \A i \in 1..k : Bits(k)[i] = ToBits(distance - 1, W)[i]
  BY <1>2, <1>6, <1>7, <1>8
<1>10. FromBits(Bits(k)) = (distance - 1) \div Pow2[ByteBits]
  BY <1>4, <1>6, <1>7, <1>9, FirstBits DEF k
<1> DEFINE index == FromBits(Bits(k)) * Pow2[ByteBits]
<1>11. index \in 0..Window
  <2>1. distance - 1 \in Nat /\ distance - 1 <= Window /\ Window \in Nat
    BY WindowType
  <2>2. /\ (distance - 1) \div Pow2[ByteBits] \in Nat /\ (distance - 1) % Pow2[ByteBits] \in Nat
        /\ distance - 1 = ((distance - 1) \div Pow2[ByteBits]) * Pow2[ByteBits]
                            + ((distance - 1) % Pow2[ByteBits])
    <3>1. Pow2[ByteBits] \in Nat /\ Pow2[ByteBits] > 0
      BY WindowType
    <3>2. QED  BY <2>1, <3>1, Divided
  <2>3. ASSUME NEW q \in Nat, NEW r \in Nat, NEW b \in Nat, NEW e \in Nat, e = q * b + r,
               e <= Window
        PROVE  q * b \in 0..Window
    <3>1. q * b \in Nat
      BY <2>3
    <3>2. ASSUME NEW x \in Nat, e = x + r PROVE x \in 0..Window
      <4>1. Window \in Nat /\ e <= Window
        BY <2>1, <2>3
      <4>2. QED  BY <3>2, <4>1
    <3>3. QED  BY <2>3, <3>1, <3>2
  <2>4. ((distance - 1) \div Pow2[ByteBits]) * Pow2[ByteBits] \in 0..Window
    BY <2>1, <2>2, <2>3, WindowType
  <2>5. QED  BY <1>10, <2>4
<1> HIDE DEF index
<1>12. \E e \in DecoderRecord : /\ e = [Taken(k, "lsb") EXCEPT !.index = index] /\ Stream(e, p + k)
                                /\ e.st = Taken(k, "lsb").st /\ e.index = index
  BY <1>4, <1>6, <1>11, Indexed
<1>13. d = [Taken(k, "lsb") EXCEPT !.index = index]
  BY <1>5 DEF index
<1>14. d \in DecoderRecord /\ Stream(d, p + k) /\ d.st = "lsb" /\ d.index = index
  BY <1>6, <1>12, <1>13
<1>15. InBackref(d, n, p + k, m, distance, length)
  BY <1>2, <1>4, <1>10, <1>14 DEF InBackref, k, index
<1>16. At(d, n, p + k, marks)
  BY <1>1, <1>15 DEF At
<1>17. QED  BY <1>4, <1>14, <1>16

LEMMA DecodeLsb ==
  ASSUME Supplied, NEW marks, NEW end \in Nat, Tokens(marks, end, Len(file)),
         NEW n \in Nat, NEW p \in Nat, Stream(dec, p), At(dec, n, p, marks),
         dec.st = "lsb", Enough(Least(IndexBits, ByteBits)),
         NEW d, d = [Taken(Least(IndexBits, ByteBits), "count")
                     EXCEPT !.index = @ + FromBits(Bits(Least(IndexBits, ByteBits))) + 1]
  PROVE  d \in DecoderRecord /\ \E p2 \in Nat : Stream(d, p2) /\ At(d, n, p2, marks)
<1> DEFINE k == Least(W, ByteBits)
           b == Pow2[ByteBits]
<1>1. PICK m \in marks, m2 \in marks, distance \in 1..Window, length \in 1..Ahead :
        BackrefAt(m[1], m[2], m2[1], m2[2], distance, length) /\ InBackref(dec, n, p, m, distance, length)
  BY DEF At, Between, InLiteral
<1>2. /\ n = m[2]
      /\ IF W > ByteBits THEN p = m[1] + 1 + (W - ByteBits) /\ dec.index = ((distance - 1) \div b) * b
         ELSE p = m[1] + 1 /\ dec.index = 0
  BY <1>1 DEF InBackref
<1>3. Len(file) \in Nat /\ m[1] \in Nat
  <2>1. Len(file) \in Nat
    BY LenProperties DEF Supplied
  <2>2. QED  BY <2>1, MarkIs
<1>4. W \in Nat /\ ByteBits \in Nat /\ k \in 1..ByteBits /\ k <= W /\ W > 0
  BY WidthsHold DEF Least, Widths
<1>5. Least(IndexBits, ByteBits) = k /\ "count" \in States
  BY Allocates DEF Supplied, States
<1>6. /\ distance - 1 \in 0..(Pow2[W] - 1)
      /\ \A i \in 1..W : out[m[1] + 1 + i] = ToBits(distance - 1, W)[i]
  BY <1>1, <1>3, TokenBits
<1>a. distance - 1 \in Nat /\ distance \in 0..Window /\ distance \in Nat /\ distance >= 1 /\ b \in Nat /\ b > 0
  BY WindowType
<1> HIDE DEF k, b
<1>7. /\ Bits(k) \in Seq(Bit) /\ Len(Bits(k)) = k /\ \A i \in 1..k : Bits(k)[i] = out[p + i]
      /\ Taken(k, "count") \in DecoderRecord /\ Stream(Taken(k, "count"), p + k)
      /\ Taken(k, "count").st = "count" /\ Taken(k, "count").index = dec.index
  BY <1>4, <1>5, TakeBits DEF Supplied
<1>8. dec.index + FromBits(Bits(k)) + 1 = distance /\ p + k = m[1] + 1 + W
  <2>1. CASE W > ByteBits
    <3>1. k = ByteBits /\ k \in Nat /\ k \in 0..W
      BY <1>4, <2>1 DEF k, Least
    <3>2. p = m[1] + 1 + (W - k)
      BY <1>2, <2>1, <3>1
    <3>i. dec.index = ((distance - 1) \div b) * b
      BY <1>2, <2>1
    <3>3. ASSUME NEW i \in 1..k PROVE Bits(k)[i] = ToBits(distance - 1, W)[W - k + i]
      <4>1. W - k + i \in 1..W /\ i \in Nat /\ W - k \in Nat
        BY <1>4, <3>1
      <4>2. m[1] + 1 + (W - k + i) = p + i
        <5>1. PICK a \in Nat : a = m[1]
          BY <1>3
        <5>2. PICK w \in Nat : w = W
          BY <1>4
        <5>3. k \in Nat /\ i \in Nat
          BY <3>1, <4>1
        <5>4. a + 1 + (w - k + i) = (a + 1 + (w - k)) + i
          BY <5>3
        <5>5. QED  BY <3>2, <5>1, <5>2, <5>4
      <4>3. QED  BY <1>6, <1>7, <4>1, <4>2
    <3>4. FromBits(Bits(k)) = (distance - 1) % Pow2[k]
      BY <1>4, <1>7, <1>a, <3>1, <3>3, LastBits
    <3>5. /\ (distance - 1) \div b \in Nat /\ (distance - 1) % b \in Nat
          /\ distance - 1 = ((distance - 1) \div b) * b + ((distance - 1) % b)
      BY <1>a, Divided
    <3>6. dec.index + FromBits(Bits(k)) = distance - 1
      BY <3>1, <3>i, <3>4, <3>5 DEF b
    <3>7. p + k = m[1] + 1 + W
      BY <1>3, <1>4, <3>1, <3>2
    <3>8. ((distance - 1) - 0) + 1 = distance
      BY <1>a
    <3>9. QED  BY <3>6, <3>7, <3>8
  <2>2. CASE ~(W > ByteBits)
    <3>1. k = W
      BY <1>4, <2>2 DEF k, Least
    <3>2. p = m[1] + 1 /\ dec.index = 0
      BY <1>2, <2>2
    <3>3. \A i \in 1..W : Bits(W)[i] = ToBits(distance - 1, W)[i]
      BY <1>6, <1>7, <3>1, <3>2
    <3>4. FromBits(Bits(k)) = distance - 1
      BY <1>4, <1>6, <1>7, <3>1, <3>3, AllBits
    <3>5. QED  BY <1>a, <3>1, <3>2, <3>4
  <2>3. QED  BY <2>1, <2>2
<1>9. p + k \in Nat
  BY <1>4
<1>10. \E e \in DecoderRecord : /\ e = [Taken(k, "count") EXCEPT !.index = distance] /\ Stream(e, p + k)
                                 /\ e.st = Taken(k, "count").st /\ e.index = distance
  BY <1>7, <1>9, <1>a, Indexed
<1>11. d = [Taken(k, "count") EXCEPT !.index = distance]
  <2>1. d = [Taken(k, "count") EXCEPT !.index = Taken(k, "count").index + FromBits(Bits(k)) + 1]
    BY <1>5
  <2>2. QED  BY <1>7, <1>8, <2>1
<1>12. d \in DecoderRecord /\ Stream(d, p + k) /\ d.st = "count" /\ d.index = distance
  BY <1>7, <1>10, <1>11
<1>13. InBackref(d, n, p + k, m, distance, length)
  BY <1>2, <1>8, <1>12 DEF InBackref
<1>14. At(d, n, p + k, marks)
  BY <1>1, <1>13 DEF At
<1>15. QED  BY <1>9, <1>12, <1>14

LEMMA DecodeCount ==
  ASSUME Supplied, NEW marks, NEW end \in Nat, Tokens(marks, end, Len(file)),
         NEW n \in Nat, NEW p \in Nat, Stream(dec, p), At(dec, n, p, marks),
         dec.st = "count", Enough(CountBits),
         NEW d, d = [Taken(CountBits, "backref") EXCEPT !.count = FromBits(Bits(CountBits)) + 1]
  PROVE  d \in DecoderRecord /\ \E p2 \in Nat : Stream(d, p2) /\ At(d, n, p2, marks)
<1>1. PICK m \in marks, m2 \in marks, distance \in 1..Window, length \in 1..Ahead :
        BackrefAt(m[1], m[2], m2[1], m2[2], distance, length) /\ InBackref(dec, n, p, m, distance, length)
  BY DEF At, Between, InLiteral
<1>2. n = m[2] /\ p = m[1] + 1 + W /\ dec.index = distance
  BY <1>1 DEF InBackref
<1>3. Len(file) \in Nat /\ m[1] \in Nat /\ m[2] \in Nat
  <2>1. Len(file) \in Nat
    BY LenProperties DEF Supplied
  <2>2. QED  BY <2>1, MarkIs
<1>4. L \in Nat /\ W \in Nat /\ L \in 1..ByteBits /\ p + L \in Nat
  <2>1. L \in Nat /\ W \in Nat /\ L \in 1..ByteBits
    BY WidthsHold DEF Widths
  <2>2. QED  BY <2>1
<1>5. CountBits = L /\ "backref" \in States
  BY Allocates DEF Supplied, States
<1>6. /\ length - 1 \in 0..(Pow2[L] - 1)
      /\ \A i \in 1..L : out[m[1] + 1 + W + i] = ToBits(length - 1, L)[i]
  BY <1>1, <1>3, TokenBits
<1>7. /\ Bits(L) \in Seq(Bit) /\ Len(Bits(L)) = L /\ \A i \in 1..L : Bits(L)[i] = out[p + i]
      /\ Taken(L, "backref") \in DecoderRecord /\ Stream(Taken(L, "backref"), p + L)
      /\ Taken(L, "backref").st = "backref" /\ Taken(L, "backref").index = dec.index
  BY <1>4, <1>5, TakeBits DEF Supplied
<1>8. \A i \in 1..L : Bits(L)[i] = ToBits(length - 1, L)[i]
  BY <1>2, <1>6, <1>7
<1>9. FromBits(Bits(L)) = length - 1
  BY <1>4, <1>6, <1>7, <1>8, AllBits
<1>10. length \in 0..Ahead /\ length \in 1..length /\ length \in Nat /\ (length - 1) + 1 = length
       /\ n = m[2] + (length - length)
  <2>1. ASSUME NEW a \in Nat, NEW l \in 1..a
        PROVE  l \in 0..a /\ l \in 1..l /\ l \in Nat /\ (l - 1) + 1 = l /\ \A x \in Nat : x + (l - l) = x
    OBVIOUS
  <2>2. Ahead \in Nat
    BY WindowType
  <2>3. m[2] \in Nat /\ n = m[2]
    BY <1>2, <1>3
  <2>4. QED  BY <2>1, <2>2, <2>3
<1>11. \E e \in DecoderRecord : /\ e = [Taken(L, "backref") EXCEPT !.count = length] /\ Stream(e, p + L)
                                 /\ e.st = Taken(L, "backref").st /\ e.index = Taken(L, "backref").index
                                 /\ e.count = length
  BY <1>4, <1>7, <1>10, Counted
<1>12. d = [Taken(L, "backref") EXCEPT !.count = length]
  BY <1>5, <1>9, <1>10
<1>13. d \in DecoderRecord /\ Stream(d, p + L) /\ d.st = "backref" /\ d.index = distance /\ d.count = length
  BY <1>2, <1>7, <1>11, <1>12
<1>14. InBackref(d, n, p + L, m, distance, length)
  BY <1>2, <1>10, <1>13 DEF InBackref
<1>15. At(d, n, p + L, marks)
  BY <1>1, <1>14 DEF At
<1>16. QED  BY <1>4, <1>13, <1>15

(* How far a reference is copied. *)
LEMMA CopyPlace ==
  ASSUME NEW t \in Nat, NEW f \in Nat, NEW length \in Nat, NEW c \in 1..length, t + length <= f
  PROVE  \E j \in 1..length :
           /\ j = length - c + 1 /\ t + (length - c) + 1 = t + j /\ t + j \in 1..f
           /\ c = 1 => j = length
           /\ c # 1 => c - 1 \in 1..length /\ length - (c - 1) = j
<1>1. length - c + 1 \in 1..length /\ t + (length - c) + 1 = t + (length - c + 1)
      /\ t + (length - c + 1) \in 1..f
  OBVIOUS
<1>2. c # 1 => c - 1 \in 1..length /\ length - (c - 1) = length - c + 1
  OBVIOUS
<1>3. c = 1 => length - c + 1 = length
  OBVIOUS
<1> DEFINE j == length - c + 1
<1>4. /\ j \in 1..length /\ t + (length - c) + 1 = t + j /\ t + j \in 1..f /\ (c = 1 => j = length)
      /\ c # 1 => c - 1 \in 1..length /\ length - (c - 1) = j
  BY <1>1, <1>2, <1>3
<1>5. j = length - c + 1
  OBVIOUS
<1> HIDE DEF j
<1>6. QED  BY <1>4, <1>5

(* A byte of a reference is copied from what was sent, which is the file   *)
(* so far.                                                                 *)
LEMMA DecodeBackref ==
  ASSUME Supplied, NEW marks, NEW end \in Nat, Tokens(marks, end, Len(file)),
         served \in Seq(ByteValue), Prefix(file),
         NEW n \in Nat, n = Len(served), NEW p \in Nat, Stream(dec, p), At(dec, n, p, marks),
         dec.st = "backref",
         NEW d, d = IF dec.count = 1 THEN More([dec EXCEPT !.count = 0])
                    ELSE [dec EXCEPT !.count = @ - 1]
  PROVE  /\ n + 1 \in 1..Len(file) /\ Back(dec.index) = file[n + 1]
         /\ d \in DecoderRecord /\ \E p2 \in Nat : Stream(d, p2) /\ At(d, n + 1, p2, marks)
<1>1. PICK m \in marks, m2 \in marks, distance \in 1..Window, length \in 1..Ahead :
        BackrefAt(m[1], m[2], m2[1], m2[2], distance, length) /\ InBackref(dec, n, p, m, distance, length)
  BY DEF At, Between, InLiteral
<1>2. /\ p = m[1] + 1 + W + L /\ dec.index = distance
      /\ dec.count \in 1..length /\ n = m[2] + (length - dec.count)
  BY <1>1 DEF InBackref
<1>3. /\ m2[1] = m[1] + 1 + W + L /\ m2[2] = m[2] + length
      /\ \A j \in 1..length : FileByte(m[2] + j) = FileByte(m[2] + j - distance)
  BY <1>1 DEF BackrefAt
<1>l. Len(file) \in Nat
  BY LenProperties DEF Supplied
<1>4. /\ m[1] \in Nat /\ m[2] \in Nat /\ m2[2] \in Nat /\ m2[2] <= Len(file)
      /\ length \in Nat /\ distance \in Nat /\ distance >= 1 /\ dec.count \in Nat
  <2>1. length \in Nat /\ distance \in Nat /\ distance >= 1
    BY WindowType
  <2>2. dec.count \in Nat
    BY <1>2, <2>1
  <2>3. m[1] \in Nat /\ m[2] \in Nat /\ m2[2] \in 0..Len(file)
    BY <1>l, MarkIs
  <2>4. m2[2] \in Nat /\ m2[2] <= Len(file)
    BY <1>l, <2>3
  <2>5. QED  BY <2>1, <2>2, <2>3, <2>4
<1>j. \E i \in 1..length :
        /\ i = length - dec.count + 1 /\ m[2] + (length - dec.count) + 1 = m[2] + i
        /\ m[2] + i \in 1..Len(file) /\ (dec.count = 1 => i = length)
        /\ dec.count # 1 => dec.count - 1 \in 1..length /\ length - (dec.count - 1) = i
  <2>1. m[2] + length <= Len(file)
    BY <1>3, <1>4
  <2>2. PICK t \in Nat, c \in 1..length, f \in Nat : t = m[2] /\ c = dec.count /\ f = Len(file)
    BY <1>2, <1>4, <1>l
  <2>3. t + length <= f /\ length \in Nat
    BY <1>4, <2>1, <2>2
  <2>4. \E j \in 1..length :
           /\ j = length - c + 1 /\ t + (length - c) + 1 = t + j /\ t + j \in 1..f
           /\ c = 1 => j = length
           /\ c # 1 => c - 1 \in 1..length /\ length - (c - 1) = j
    BY <2>3, CopyPlace
  <2>5. QED  BY <2>2, <2>4
<1>k. PICK j \in 1..length :
        /\ j = length - dec.count + 1 /\ m[2] + (length - dec.count) + 1 = m[2] + j
        /\ m[2] + j \in 1..Len(file) /\ (dec.count = 1 => j = length)
        /\ dec.count # 1 => dec.count - 1 \in 1..length /\ length - (dec.count - 1) = j
  BY <1>j
<1>5. j \in 1..length /\ n + 1 = m[2] + j /\ n + 1 \in 1..Len(file)
  BY <1>2, <1>k
<1>6. Back(dec.index) = file[n + 1]
  <2> DEFINE i == n - distance + 1
  <2>1. Back(dec.index) = IF i < 1 THEN 0 ELSE served[i]
    BY <1>2 DEF Back
  <2>2. file[n + 1] = FileByte(n + 1)
    BY <1>5 DEF FileByte
  <2>3. FileByte(n + 1) = FileByte(n + 1 - distance)
    <3>1. FileByte(m[2] + j) = FileByte(m[2] + j - distance)
      BY <1>3
    <3>2. PICK x : x = n + 1
      OBVIOUS
    <3>3. x = m[2] + j
      BY <1>5, <3>2
    <3>4. FileByte(x) = FileByte(x - distance)
      BY <1>4, <3>1, <3>3
    <3>5. QED  BY <3>2, <3>4
  <2>4. n + 1 - distance = i /\ i \in Int /\ i <= n
    <3>1. distance \in Int /\ distance >= 1
      BY <1>4
    <3>2. QED  BY <3>1
  <2>5. n <= Len(file) /\ \A k \in 1..n : served[k] = file[k]
    BY DEF Prefix
  <2> HIDE DEF i
  <2>6. CASE i < 1
    <3>1. i \notin 1..Len(file)
      BY <2>4, <2>6
    <3>2. FileByte(i) = 0
      BY <3>1 DEF FileByte
    <3>3. QED  BY <2>1, <2>2, <2>3, <2>4, <2>6, <3>2
  <2>7. CASE ~(i < 1)
    <3>1. i \in 1..n /\ i \in 1..Len(file)
      BY <1>l, <2>4, <2>5, <2>7
    <3>2. FileByte(i) = served[i]
      BY <2>5, <3>1 DEF FileByte
    <3>3. QED  BY <2>1, <2>2, <2>3, <2>4, <2>7, <3>2
  <2>8. QED  BY <2>6, <2>7
<1>7. dec \in DecoderRecord /\ dec.count \in 1..Ahead
  <2>1. dec \in DecoderRecord
    BY DEF Supplied
  <2>2. QED  BY <1>4, <1>2, <2>1, WindowType
<1>8. CASE dec.count = 1
  <2>1. 0 \in 0..Ahead
    BY WindowType
  <2>2. PICK e \in DecoderRecord : /\ e = [dec EXCEPT !.count = 0] /\ Stream(e, p)
                                   /\ e.st = dec.st /\ e.index = dec.index /\ e.count = 0 /\ e.inp = dec.inp
    BY <1>7, <2>1, Counted
  <2>3. d = More(e)
    BY <1>8, <2>2
  <2>4. /\ More(e) \in DecoderRecord /\ Stream(More(e), p) /\ More(e).inp = e.inp
        /\ More(e).st \in {"empty", "input"} /\ (More(e).st = "empty" <=> e.inp = <<>>)
    BY <2>2, MoreIs
  <2>5. n + 1 = m2[2] /\ p = m2[1]
    <3>1. j = length
      BY <1>8, <1>k
    <3>2. QED  BY <1>2, <1>3, <1>5, <3>1
  <2>6. Between(d, n + 1, p, m2)
    BY <2>3, <2>4, <2>5 DEF Between
  <2>7. At(d, n + 1, p, marks)
    BY <2>6 DEF At
  <2>8. QED  BY <1>5, <1>6, <2>3, <2>4, <2>7
<1>9. CASE dec.count # 1
  <2>1. dec.count - 1 \in 0..Ahead /\ dec.count - 1 \in 1..length
    <3>1. dec.count - 1 \in 1..length
      BY <1>9, <1>k
    <3>2. length \in 1..Ahead /\ Ahead \in Nat
      BY WindowType
    <3>3. QED  BY <3>1, <3>2
  <2>2. PICK e \in DecoderRecord : /\ e = [dec EXCEPT !.count = dec.count - 1] /\ Stream(e, p)
                                   /\ e.st = dec.st /\ e.index = dec.index /\ e.count = dec.count - 1
    <3>1. dec \in DecoderRecord
      BY DEF Supplied
    <3>2. QED  BY <2>1, <3>1, Counted
  <2>3. d = e
    BY <1>9, <2>2
  <2>4. n + 1 = m[2] + (length - d.count)
    <3>1. length - (dec.count - 1) = j
      BY <1>9, <1>k
    <3>2. QED  BY <1>5, <2>2, <2>3, <3>1
  <2>5. InBackref(d, n + 1, p, m, distance, length)
    BY <1>2, <2>1, <2>2, <2>3, <2>4 DEF InBackref
  <2>6. At(d, n + 1, p, marks)
    BY <1>1, <2>5 DEF At
  <2>7. QED  BY <1>5, <1>6, <2>2, <2>3, <2>6
<1>10. QED  BY <1>8, <1>9

(* Where the decoder is depends on out, the file and the widths only. *)
LEMMA AtSame ==
  ASSUME out' = out, Same, NEW d, NEW n, NEW p, NEW marks, At(d, n, p, marks)
  PROVE  At(d, n, p, marks)'
<1>1. PICK m \in marks :
        \/ Between(d, n, p, m)
        \/ \E m2 \in marks :
             \/ InLiteral(d, n, p, m, m2)
             \/ \E distance \in 1..Window, length \in 1..Ahead :
                  /\ BackrefAt(m[1], m[2], m2[1], m2[2], distance, length)
                  /\ InBackref(d, n, p, m, distance, length)
  BY DEF At
<1>2. CASE Between(d, n, p, m)
  <2>1. Between(d, n, p, m)'
    BY <1>2 DEF Between
  <2>2. QED  BY <2>1 DEF At
<1>3. ASSUME NEW m2 \in marks, InLiteral(d, n, p, m, m2) PROVE At(d, n, p, marks)'
  <2>1. InLiteral(d, n, p, m, m2)'
    BY <1>3 DEF InLiteral, LiteralAt, Literal, AddTagBit, PushLiteralByte, Same
  <2>2. QED  BY <2>1 DEF At
<1>4. ASSUME NEW m2 \in marks, NEW distance \in 1..Window, NEW length \in 1..Ahead,
             BackrefAt(m[1], m[2], m2[1], m2[2], distance, length), InBackref(d, n, p, m, distance, length)
      PROVE  At(d, n, p, marks)'
  <2>1. BackrefAt(m[1], m[2], m2[1], m2[2], distance, length)'
    BY <1>4 DEF Same, BackrefAt, Backref, ToBits, AddTagBit, FileByte
  <2>2. InBackref(d, n, p, m, distance, length)'
    BY <1>4 DEF InBackref, Same
  <2>3. distance \in (1..Window)' /\ length \in (1..Ahead)'
    BY DEF Same
  <2>4. QED  BY <2>1, <2>2, <2>3 DEF At
<1>5. QED  BY <1>1, <1>2, <1>3, <1>4

LEMMA StreamSame ==
  ASSUME out' = out, fed' = fed, NEW d, NEW p, Stream(d, p)
  PROVE  Stream(d, p)'
BY DEF Stream, ByteAt

(* The decoder is where it should be again. *)
LEMMA DecodedTo ==
  ASSUME out' = out, fed' = fed, Same, NEW marks, NEW end \in Nat,
         Padded(end), Tokens(marks, end, Len(file)),
         NEW d, dec' = d, NEW p \in Nat, Stream(d, p), NEW n, n = Len(served'), At(d, n, p, marks)
  PROVE  Decodes'
<1>1. PICK bytes : bytes = Len(file)
  OBVIOUS
<1>2. Tokens(marks, end, bytes)'
  BY <1>1, TokensSame
<1>3. bytes = Len(file)'
  BY <1>1 DEF Same
<1>4. Padded(end)'
  BY DEF Padded
<1>5. Stream(d, p)' /\ At(d, n, p, marks)'
  BY StreamSame, AtSame
<1>6. Tokens(marks, end, Len(file))'
  BY <1>2, <1>3
<1>7. d = dec' /\ n = Len(served)'
  OBVIOUS
<1>8. Stream(dec, p)' /\ At(dec, Len(served), p, marks)'
  BY <1>5, <1>7
<1>9. QED  BY <1>4, <1>6, <1>8 DEF Decodes

(* A byte that is put out is the file's next one. *)
LEMMA Emitted ==
  ASSUME file \in Seq(ByteValue), file' = file, served \in Seq(ByteValue), Prefix(file),
         NEW n \in Nat, n = Len(served), n + 1 \in 1..Len(file),
         NEW byte, byte = file[n + 1], served' = Append(served, byte)
  PROVE  served' \in Seq(ByteValue) /\ Prefix(file)' /\ Len(served') = n + 1
<1>1. Len(file) \in Nat /\ byte \in ByteValue
  BY LenProperties, ElementOfSeq
<1>2. /\ Append(served, byte) \in Seq(ByteValue) /\ Len(Append(served, byte)) = n + 1
      /\ \A i \in 1..n : Append(served, byte)[i] = served[i]
      /\ Append(served, byte)[n + 1] = byte
  BY <1>1, AppendProperties
<1>3. \A i \in 1..n : served[i] = file[i]
  BY DEF Prefix
<1>4. \A i \in 1..(n + 1) : Append(served, byte)[i] = file[i]
  <2>1. \A i \in 1..(n + 1) : i = n + 1 \/ i \in 1..n
    OBVIOUS
  <2>2. QED  BY <1>2, <1>3, <2>1
<1>5. n + 1 <= Len(file)
  BY <1>1
<1>6. QED  BY <1>2, <1>4, <1>5 DEF Prefix

(* heatshrink_decoder_poll decodes the token it is in, and sends the       *)
(* file's bytes.                                                           *)
LEMMA DecodeStep ==
  ASSUME ImageInv, FileInv, Handled, phase = "serve", Unpacking, Decode, Same
  PROVE  Unpacking'
<1>1. /\ packed /\ ~read.feed /\ out' = out /\ fed' = fed /\ phase' = "serve" /\ file' = file
  BY DEF Decode, Same
<1>2. PICK marks : \E end \in Nat : \E p \in Nat :
        /\ Padded(end) /\ Tokens(marks, end, Len(file)) /\ Stream(dec, p) /\ At(dec, Len(served), p, marks)
  BY DEF Unpacking, Decodes
<1>3. PICK end \in Nat : \E p \in Nat :
        /\ Padded(end) /\ Tokens(marks, end, Len(file)) /\ Stream(dec, p) /\ At(dec, Len(served), p, marks)
  BY <1>2
<1>4. PICK p \in Nat :
        /\ Padded(end) /\ Tokens(marks, end, Len(file)) /\ Stream(dec, p) /\ At(dec, Len(served), p, marks)
  BY <1>3
<1>5. Supplied
  <2>1. EncoderAlloc
    BY <1>1 DEF FileInv, StoredInv, PackedWhole
  <2>2. Len(out) % ByteBits = 0
    BY <1>4 DEF Padded
  <2>3. QED  BY <2>1, <2>2 DEF Supplied, Unpacking, FileInv, ImageInv, ImageTypes
<1>6. served \in Seq(ByteValue) /\ Prefix(file) /\ file \in Seq(ByteValue) /\ fed \in 0..Bytes
      /\ read \in [got : 0..Chunk, feed : BOOLEAN, left : Nat] /\ Chunk \in Nat
      /\ (~read.feed /\ read.left = 0 => fed = Bytes)
  BY EspFsAssumption DEF Unpacking, ImageInv, ImageTypes
<1>7. PICK n \in Nat : n = Len(served)
  BY <1>6, LenProperties
<1>8. At(dec, n, p, marks)
  BY <1>4, <1>7
<1>9. /\ fed' \in (0..Bytes)'
  BY <1>1, <1>6 DEF Bytes
<1>a. DecoderRecord' = DecoderRecord
  BY DEF DecoderRecord, Same
<1>10. ASSUME dec' \in DecoderRecord, \E p2 \in Nat : Stream(dec', p2) /\ At(dec', n, p2, marks),
              UNCHANGED <<served, read>>
       PROVE  Unpacking'
  <2>1. PICK d : d = dec'
    OBVIOUS
  <2>2. PICK p2 \in Nat : Stream(d, p2) /\ At(d, n, p2, marks)
    BY <1>10, <2>1
  <2>3. n = Len(served')
    BY <1>7, <1>10
  <2>4. Decodes'
    BY <1>1, <1>4, <2>1, <2>2, <2>3, DecodedTo
  <2>5. /\ (served \in Seq(ByteValue))' /\ Prefix(file)'
        /\ (read \in [got : 0..Chunk, feed : BOOLEAN, left : Nat])'
    BY <1>1, <1>6, <1>10 DEF Prefix
  <2>6. (~read.feed /\ read.left = 0 => fed = Bytes)'
    BY <1>1, <1>6, <1>10 DEF Bytes
  <2>7. (dec \in DecoderRecord)'
    BY <1>a, <1>10
  <2>8. QED  BY <1>1, <1>9, <2>4, <2>5, <2>6, <2>7 DEF Unpacking
<1>11. ASSUME NEW byte, byte = file[n + 1], n + 1 \in 1..Len(file), Emit(byte), Room,
              dec' \in DecoderRecord, \E p2 \in Nat : Stream(dec', p2) /\ At(dec', n + 1, p2, marks)
       PROVE  Unpacking'
  <2>1. PICK d : d = dec'
    OBVIOUS
  <2>2. PICK p2 \in Nat : Stream(d, p2) /\ At(d, n + 1, p2, marks)
    BY <1>11, <2>1
  <2>3. served' = Append(served, byte) /\ read' = [read EXCEPT !.got = @ + 1]
    BY <1>11 DEF Emit
  <2>4. served' \in Seq(ByteValue) /\ Prefix(file)' /\ Len(served') = n + 1
    BY <1>1, <1>6, <1>7, <1>11, <2>3, Emitted
  <2>5. PICK n2 : n2 = n + 1
    OBVIOUS
  <2>6. n2 = Len(served') /\ At(d, n2, p2, marks)
    BY <2>2, <2>4, <2>5
  <2>7. Decodes'
    BY <1>1, <1>4, <2>1, <2>2, <2>6, DecodedTo
  <2>8. read' \in [got : 0..Chunk, feed : BOOLEAN, left : Nat] /\ read'.feed = read.feed /\ read'.left = read.left
    <3>1. read.got < Chunk
      BY <1>11 DEF Room
    <3>2. read.got + 1 \in 0..Chunk
      BY <1>6, <3>1
    <3>3. QED  BY <1>6, <2>3, <3>2
  <2>9. (~read.feed /\ read.left = 0 => fed = Bytes)'
    BY <1>1, <1>6, <2>8 DEF Bytes
  <2>10. (dec \in DecoderRecord)'
    BY <1>a, <1>11
  <2>11. QED  BY <1>1, <1>9, <2>4, <2>7, <2>8, <2>9, <2>10 DEF Unpacking
<1>12. CASE dec.st = "input"
  <2>1. /\ Enough(1) /\ UNCHANGED <<served, read>>
        /\ dec' = [Taken(1, AfterTag) EXCEPT !.index = 0]
    BY <1>12 DEF Decode, AfterTag
  <2>2. dec' \in DecoderRecord /\ \E p2 \in Nat : Stream(dec', p2) /\ At(dec', n, p2, marks)
    BY <1>4, <1>5, <1>8, <1>12, <2>1, DecodeTag
  <2>3. QED  BY <1>10, <2>1, <2>2
<1>13. CASE dec.st = "literal"
  <2>1. /\ Enough(ByteBits) /\ Room /\ dec' = More(Taken(ByteBits, "input")) /\ Emit(FromBits(Bits(ByteBits)))
    BY <1>13 DEF Decode
  <2>2. /\ n + 1 \in 1..Len(file) /\ FromBits(Bits(ByteBits)) = file[n + 1]
        /\ dec' \in DecoderRecord /\ \E p2 \in Nat : Stream(dec', p2) /\ At(dec', n + 1, p2, marks)
    BY <1>4, <1>5, <1>8, <1>13, <2>1, DecodeLiteral
  <2>3. QED  BY <1>11, <2>1, <2>2
<1>14. CASE dec.st = "msb"
  <2>1. /\ Enough(IndexBits - ByteBits) /\ UNCHANGED <<served, read>>
        /\ dec' = [Taken(IndexBits - ByteBits, "lsb")
                     EXCEPT !.index = FromBits(Bits(IndexBits - ByteBits)) * Pow2[ByteBits]]
    BY <1>14 DEF Decode
  <2>2. dec' \in DecoderRecord /\ \E p2 \in Nat : Stream(dec', p2) /\ At(dec', n, p2, marks)
    BY <1>4, <1>5, <1>8, <1>14, <2>1, DecodeMsb
  <2>3. QED  BY <1>10, <2>1, <2>2
<1>15. CASE dec.st = "lsb"
  <2>1. /\ Enough(Least(IndexBits, ByteBits)) /\ UNCHANGED <<served, read>>
        /\ dec' = [Taken(Least(IndexBits, ByteBits), "count")
                     EXCEPT !.index = @ + FromBits(Bits(Least(IndexBits, ByteBits))) + 1]
    BY <1>15 DEF Decode
  <2>2. dec' \in DecoderRecord /\ \E p2 \in Nat : Stream(dec', p2) /\ At(dec', n, p2, marks)
    BY <1>4, <1>5, <1>8, <1>15, <2>1, DecodeLsb
  <2>3. QED  BY <1>10, <2>1, <2>2
<1>16. CASE dec.st = "count"
  <2>1. /\ Enough(CountBits) /\ UNCHANGED <<served, read>>
        /\ dec' = [Taken(CountBits, "backref") EXCEPT !.count = FromBits(Bits(CountBits)) + 1]
    BY <1>16 DEF Decode
  <2>2. dec' \in DecoderRecord /\ \E p2 \in Nat : Stream(dec', p2) /\ At(dec', n, p2, marks)
    BY <1>4, <1>5, <1>8, <1>16, <2>1, DecodeCount
  <2>3. QED  BY <1>10, <2>1, <2>2
<1>17. CASE dec.st = "backref"
  <2>1. /\ Room /\ Emit(Back(dec.index))
        /\ dec' = IF dec.count = 1 THEN More([dec EXCEPT !.count = 0]) ELSE [dec EXCEPT !.count = @ - 1]
    BY <1>17 DEF Decode
  <2>2. /\ n + 1 \in 1..Len(file) /\ Back(dec.index) = file[n + 1]
        /\ dec' \in DecoderRecord /\ \E p2 \in Nat : Stream(dec', p2) /\ At(dec', n + 1, p2, marks)
    BY <1>4, <1>5, <1>6, <1>7, <1>8, <1>17, <2>1, DecodeBackref
  <2>3. QED  BY <1>11, <2>1, <2>2
<1>18. QED  BY <1>12, <1>13, <1>14, <1>15, <1>16, <1>17 DEF Decode

-----------------------------------------------------------------------------
(***************************************************************************)
(* Reading a file: espFsRead feeds the decoder and polls it.               *)
(***************************************************************************)

(* Bytes that are fed are what comes next of out. *)
LEMMA AddedBytes ==
  ASSUME Supplied, NEW p \in Nat, Stream(dec, p), out' = out,
         NEW k \in Nat, k > 0, Len(dec.inp) + k <= InBuf, fed + k <= Bytes, fed' = fed + k
  PROVE  \E d \in DecoderRecord :
           /\ d = [dec EXCEPT !.inp = @ \o [i \in 1..k |-> ByteAt(fed + i)],
                              !.st = IF @ = "empty" THEN "input" ELSE @]
           /\ Stream(d, p)' /\ d.inp # <<>>
           /\ d.index = dec.index /\ d.count = dec.count
           /\ d.st = IF dec.st = "empty" THEN "input" ELSE dec.st
<1>d. PICK d : d = [dec EXCEPT !.inp = @ \o [i \in 1..k |-> ByteAt(fed + i)],
                              !.st = IF @ = "empty" THEN "input" ELSE @]
  OBVIOUS
<1> DEFINE m == Len(dec.inp)
           c == Len(dec.cur)
           x == dec.idx
           B == ByteBits
           added == [i \in 1..k |-> ByteAt(fed + i)]
           inp == dec.inp \o added
<1>1. Bytes \in Nat /\ fed \in Nat /\ \A j \in 1..Bytes : ByteAt(j) \in Seq(Bit)
  BY BytesAre DEF Supplied
<1>2. /\ dec \in DecoderRecord /\ dec.inp \in Seq(Seq(Bit)) /\ dec.cur \in Seq(Bit) /\ x \in Nat
  BY DEF Supplied, DecoderRecord
<1>3. m \in Nat /\ c \in Nat /\ B \in Nat
  BY <1>2, LenProperties, WidthsHold DEF Widths
<1>4. added \in Seq(Seq(Bit)) /\ Len(added) = k /\ \A i \in 1..k : added[i] = ByteAt(fed + i)
  <2>1. \A i \in 1..k : fed + i \in 1..Bytes
    BY <1>1
  <2>2. \A i \in 1..k : ByteAt(fed + i) \in Seq(Bit)
    BY <1>1, <2>1
  <2>3. QED  BY <2>2
<1> HIDE DEF added
<1>5. /\ dec.inp \o added \in Seq(Seq(Bit)) /\ Len(dec.inp \o added) = Len(dec.inp) + Len(added)
      /\ \A i \in 1..Len(dec.inp) : (dec.inp \o added)[i] = dec.inp[i]
      /\ \A i \in 1..Len(added) : (dec.inp \o added)[Len(dec.inp) + i] = added[i]
  <2>1. PICK S : S = Seq(Bit)
    OBVIOUS
  <2>2. dec.inp \in Seq(S) /\ added \in Seq(S)
    BY <1>2, <1>4, <2>1
  <2>3. /\ dec.inp \o added \in Seq(S) /\ Len(dec.inp \o added) = Len(dec.inp) + Len(added)
        /\ \A i \in 1..Len(dec.inp) : (dec.inp \o added)[i] = dec.inp[i]
        /\ \A i \in 1..Len(added) : (dec.inp \o added)[Len(dec.inp) + i] = added[i]
    BY <2>2, Joined
  <2>4. QED  BY <2>1, <2>3
<1>6. /\ inp \in Seq(Seq(Bit)) /\ Len(inp) = m + k
      /\ \A i \in 1..m : inp[i] = dec.inp[i]
      /\ \A i \in 1..k : inp[m + i] = ByteAt(fed + i)
  BY <1>4, <1>5
<1> HIDE DEF inp, m, c, x, B
<1>7. d = [dec EXCEPT !.inp = inp, !.st = IF dec.st = "empty" THEN "input" ELSE dec.st]
  BY <1>d DEF inp, added
<1>8. /\ d \in DecoderRecord /\ d.inp = inp /\ d.cur = dec.cur /\ d.idx = x
      /\ d.index = dec.index /\ d.count = dec.count
      /\ d.st = IF dec.st = "empty" THEN "input" ELSE dec.st
  BY <1>2, <1>6, <1>7 DEF DecoderRecord, x
<1>9. Len(inp) > 0 /\ inp # <<>>
  <2>1. m + k > 0
    BY <1>3
  <2>2. Len(<<>>) = 0
    BY EmptySeq
  <2>3. QED  BY <1>6, <2>1, <2>2
<1>10. c < B /\ m <= InBuf /\ m <= fed /\ x <= m /\ (dec.inp # <<>> => x < m) /\ (dec.inp = <<>> => x = 0)
  BY DEF Stream, c, m, x, B
<1>11. p + c + (m - x) * B = fed * B
  BY DEF Stream, c, m, x, B
<1>12. /\ \A i \in 1..c : dec.cur[i] = out[p + i]
       /\ \A j \in 1..m : dec.inp[j] = ByteAt(fed - m + j)
  BY DEF Stream, c, m
<1>13. x < m + k
  BY <1>2, <1>3, <1>10 DEF x
<1>14. p + c + ((m + k) - x) * B = (fed + k) * B
  <2>1. ASSUME NEW f \in Nat, NEW y \in Nat, NEW a \in Nat, NEW b \in Nat, a + y * b = f * b
        PROVE  a + (y + k) * b = (f + k) * b
    <3>1. (y + k) * b = y * b + k * b /\ (f + k) * b = f * b + k * b
      OBVIOUS
    <3>2. y * b \in Nat /\ k * b \in Nat /\ f * b \in Nat
      OBVIOUS
    <3>3. ASSUME NEW u \in Nat, NEW v \in Nat, NEW w \in Nat, a + u = w PROVE a + (u + v) = w + v
      BY <3>3
    <3>4. QED  BY <2>1, <3>1, <3>2, <3>3
  <2>2. m - x \in Nat /\ (m + k) - x = (m - x) + k /\ p + c \in Nat
    <3>1. p \in Nat /\ m \in Nat /\ x \in Nat /\ c \in Nat
      BY <1>2, <1>3 DEF x
    <3>2. x <= m
      BY <1>10
    <3>3. QED  BY <3>1, <3>2, <1>3
  <2>3. PICK y \in Nat, a \in Nat : y = m - x /\ a = p + c
    BY <2>2
  <2>4. a + y * B = fed * B
    BY <1>11, <2>3
  <2>5. a + (y + k) * B = (fed + k) * B
    BY <1>1, <1>3, <2>1, <2>4
  <2>6. QED  BY <2>2, <2>3, <2>5
<1>15. ASSUME NEW j \in 1..(m + k) PROVE inp[j] = ByteAt((fed + k) - (m + k) + j)
  <2>1. (fed + k) - (m + k) + j = fed - m + j
    BY <1>1, <1>3
  <2>2. CASE j <= m
    <3>1. j \in 1..m
      BY <1>3, <2>2
    <3>2. QED  BY <1>6, <1>12, <2>1, <3>1
  <2>3. CASE ~(j <= m)
    <3>1. j - m \in 1..k /\ m + (j - m) = j /\ fed + (j - m) = fed - m + j
      BY <1>1, <1>3, <2>3
    <3>2. inp[m + (j - m)] = ByteAt(fed + (j - m))
      BY <1>6, <3>1
    <3>3. QED  BY <2>1, <3>1, <3>2
  <2>4. QED  BY <2>2, <2>3
<1>f. PICK f : f = fed + k
  OBVIOUS
<1>16. /\ Len(d.cur) < B /\ Len(d.inp) <= InBuf /\ Len(d.inp) <= f
       /\ d.idx <= Len(d.inp) /\ (d.inp = <<>> => d.idx = 0) /\ (d.inp # <<>> => d.idx < Len(d.inp))
  <2>1. m + k <= InBuf /\ m + k <= fed + k /\ x <= m + k
    <3>1. m + k <= fed + k /\ x <= m + k
      BY <1>1, <1>2, <1>3, <1>10, <1>13 DEF x
    <3>2. QED  BY <3>1 DEF m
  <2>2. QED  BY <1>f, <1>6, <1>8, <1>9, <1>10, <1>13, <2>1 DEF c
<1>17. p + Len(d.cur) + (Len(d.inp) - d.idx) * B = f * B
  BY <1>f, <1>6, <1>8, <1>14 DEF c
<1>18. \A i \in 1..Len(d.cur) : d.cur[i] = out[p + i]
  BY <1>8, <1>12 DEF c
<1>19. \A j \in 1..Len(d.inp) : d.inp[j] = ByteAt(f - Len(d.inp) + j)
  <2>1. \A j \in 1..(m + k) : inp[j] = ByteAt(f - (m + k) + j)
    BY <1>15, <1>f
  <2>2. QED  BY <1>6, <1>8, <2>1
<1>20. Stream(d, p)'
  <2> HIDE DEF inp, added
  <2>1. fed' = f
    BY <1>f
  <2>2. /\ Len(d.cur) < ByteBits /\ Len(d.inp) <= InBuf /\ Len(d.inp) <= fed'
        /\ d.idx <= Len(d.inp) /\ (d.inp = <<>> => d.idx = 0) /\ (d.inp # <<>> => d.idx < Len(d.inp))
        /\ p + Len(d.cur) + (Len(d.inp) - d.idx) * ByteBits = fed' * ByteBits
    BY <1>16, <1>17, <2>1 DEF B
  <2>3. \A j \in 1..Len(d.inp) : d.inp[j] = ByteAt(fed - Len(d.inp) + j)'
    BY <1>19, <2>1 DEF ByteAt
  <2>4. QED  BY <1>18, <2>2, <2>3 DEF Stream
<1>21. d.inp # <<>>
  BY <1>8, <1>9
<1> HIDE DEF inp, added
<1>22. QED  BY <1>d, <1>8, <1>20, <1>21

(* What the steps of espFsRead start from. *)
LEMMA Suppose ==
  ASSUME ImageInv, FileInv, Handled, packed, Unpacking
  PROVE  /\ Supplied /\ served \in Seq(ByteValue) /\ Prefix(file) /\ file \in Seq(ByteValue)
         /\ read \in [got : 0..Chunk, feed : BOOLEAN, left : Nat] /\ Chunk \in Nat
         /\ Bytes \in Nat /\ fed \in Nat /\ fed <= Bytes /\ Len(served) \in Nat /\ Len(file) \in Nat
         /\ (~read.feed /\ read.left = 0 => fed = Bytes)
         /\ \E marks : \E end \in Nat : \E p \in Nat :
              /\ Padded(end) /\ Tokens(marks, end, Len(file))
              /\ Stream(dec, p) /\ At(dec, Len(served), p, marks)
<1>1. EncoderAlloc
  BY DEF FileInv, StoredInv, PackedWhole
<1>2. Len(out) % ByteBits = 0
  BY DEF Padded, Unpacking, Decodes
<1>3. Supplied
  BY <1>1, <1>2 DEF Supplied, Unpacking, FileInv, ImageInv, ImageTypes
<1>4. Bytes \in Nat
  BY <1>3, BytesAre DEF Supplied
<1>5. fed \in Nat /\ fed <= Bytes
  BY <1>3, <1>4 DEF Supplied
<1>6. served \in Seq(ByteValue) /\ file \in Seq(ByteValue) /\ Chunk \in Nat /\ Prefix(file)
      /\ read \in [got : 0..Chunk, feed : BOOLEAN, left : Nat]
      /\ (~read.feed /\ read.left = 0 => fed = Bytes)
  BY EspFsAssumption DEF Unpacking, ImageInv, ImageTypes
<1>7. Len(served) \in Nat /\ Len(file) \in Nat
  BY <1>6, LenProperties
<1>8. QED  BY <1>3, <1>4, <1>5, <1>6, <1>7 DEF Unpacking, Decodes

(* heatshrink_decoder_sink takes the next bytes, as many as there is room  *)
(* for.                                                                    *)
LEMMA FeedStep ==
  ASSUME ImageInv, FileInv, Handled, phase = "serve", Unpacking, Feed, Same
  PROVE  Unpacking'
<1>k. PICK k : k = FedNow
  OBVIOUS
<1>1. /\ packed /\ read.feed /\ out' = out /\ fed' = fed + k /\ phase' = "serve" /\ served' = served
      /\ dec' = (IF k = 0 THEN dec
                 ELSE [dec EXCEPT !.inp = @ \o [i \in 1..k |-> ByteAt(fed + i)],
                                  !.st = IF @ = "empty" THEN "input" ELSE @])
      /\ read' = [read EXCEPT !.feed = FALSE, !.left = Bytes - fed]
  BY <1>k DEF Feed
<1>2. /\ Supplied /\ served \in Seq(ByteValue) /\ Prefix(file) /\ file \in Seq(ByteValue)
      /\ read \in [got : 0..Chunk, feed : BOOLEAN, left : Nat] /\ Chunk \in Nat
      /\ Bytes \in Nat /\ fed \in Nat /\ fed <= Bytes /\ Len(served) \in Nat /\ Len(file) \in Nat
  BY <1>1, Suppose
<1>3. PICK marks : \E end \in Nat : \E p \in Nat :
        /\ Padded(end) /\ Tokens(marks, end, Len(file)) /\ Stream(dec, p) /\ At(dec, Len(served), p, marks)
  BY <1>1, Suppose
<1>4. PICK end \in Nat : \E p \in Nat :
        /\ Padded(end) /\ Tokens(marks, end, Len(file)) /\ Stream(dec, p) /\ At(dec, Len(served), p, marks)
  BY <1>3
<1>5. PICK p \in Nat :
        /\ Padded(end) /\ Tokens(marks, end, Len(file)) /\ Stream(dec, p) /\ At(dec, Len(served), p, marks)
  BY <1>4
<1>6. PICK n \in Nat : n = Len(served)
  BY <1>2
<1>7. At(dec, n, p, marks) /\ n = Len(served')
  BY <1>1, <1>5, <1>6
<1>8. Len(dec.inp) \in Nat /\ Len(dec.inp) <= InBuf /\ InBuf \in Nat
  <2>1. dec.inp \in Seq(Seq(Bit))
    BY <1>2 DEF Supplied, DecoderRecord
  <2>2. Len(dec.inp) <= InBuf
    BY <1>5 DEF Stream
  <2>3. QED  BY <2>1, <2>2, LenProperties, EspFsAssumption
<1>9. k \in Nat /\ Len(dec.inp) + k <= InBuf /\ fed + k <= Bytes /\ (fed = Bytes => k = 0)
  <2>1. ASSUME NEW m \in Nat, NEW i \in Nat, NEW f \in Nat, NEW b \in Nat, m <= i, f <= b,
               k = Least(i - m, Least(i, b - f))
        PROVE  k \in Nat /\ m + k <= i /\ f + k <= b /\ (f = b => k = 0)
    BY <2>1 DEF Least
  <2>2. k = Least(InBuf - Len(dec.inp), Least(InBuf, Bytes - fed))
    BY <1>k DEF FedNow, Fits
  <2>3. QED  BY <1>2, <1>8, <2>1, <2>2
<1>10. PICK d : d = dec'
  OBVIOUS
<1>11. d \in DecoderRecord /\ Stream(d, p)' /\ At(d, n, p, marks)
  <2>1. CASE k = 0
    <3>1. d = dec /\ fed' = fed
      BY <1>1, <1>2, <1>10, <2>1
    <3>2. Stream(d, p)'
      BY <1>1, <1>5, <3>1, StreamSame
    <3>3. QED  BY <1>2, <1>7, <3>1, <3>2 DEF Supplied
  <2>2. CASE k # 0
    <3>1. k > 0 /\ d = [dec EXCEPT !.inp = @ \o [i \in 1..k |-> ByteAt(fed + i)],
                                   !.st = IF @ = "empty" THEN "input" ELSE @]
      BY <1>1, <1>9, <1>10, <2>2
    <3>a. PICK e \in DecoderRecord :
           /\ e = [dec EXCEPT !.inp = @ \o [i \in 1..k |-> ByteAt(fed + i)],
                              !.st = IF @ = "empty" THEN "input" ELSE @]
           /\ Stream(e, p)' /\ e.inp # <<>>
           /\ e.index = dec.index /\ e.count = dec.count
           /\ e.st = IF dec.st = "empty" THEN "input" ELSE dec.st
      BY <1>1, <1>2, <1>5, <1>9, <3>1, AddedBytes
    <3>b. d = e
      BY <3>1, <3>a
    <3>2. /\ d \in DecoderRecord /\ Stream(d, p)' /\ d.inp # <<>>
          /\ d.index = dec.index /\ d.count = dec.count
          /\ d.st = IF dec.st = "empty" THEN "input" ELSE dec.st
      BY <3>a, <3>b
    <3>3. PICK m \in marks :
            \/ Between(dec, n, p, m)
            \/ \E m2 \in marks :
                 \/ InLiteral(dec, n, p, m, m2)
                 \/ \E distance \in 1..Window, length \in 1..Ahead :
                      /\ BackrefAt(m[1], m[2], m2[1], m2[2], distance, length)
                      /\ InBackref(dec, n, p, m, distance, length)
      BY <1>7 DEF At
    <3>4. Between(dec, n, p, m) => Between(d, n, p, m)
      BY <3>2 DEF Between
    <3>5. \A m2 \in marks : InLiteral(dec, n, p, m, m2) => InLiteral(d, n, p, m, m2)
      BY <3>2 DEF InLiteral
    <3>6. \A distance, length :
            InBackref(dec, n, p, m, distance, length) => InBackref(d, n, p, m, distance, length)
      <4> SUFFICES ASSUME NEW distance, NEW length, InBackref(dec, n, p, m, distance, length)
                   PROVE  InBackref(d, n, p, m, distance, length)
        OBVIOUS
      <4>1. dec.st \in {"msb", "lsb", "count", "backref"}
        BY DEF InBackref
      <4>2. d.st = dec.st
        BY <3>2, <4>1
      <4>3. QED  BY <3>2, <4>2 DEF InBackref
    <3>7. At(d, n, p, marks)
      BY <3>3, <3>4, <3>5, <3>6 DEF At
    <3>8. QED  BY <3>2, <3>7
  <2>3. QED  BY <2>1, <2>2
<1>12. Decodes'
  <2>1. PICK bytes : bytes = Len(file)
    OBVIOUS
  <2>2. Tokens(marks, end, bytes)'
    BY <1>1, <1>5, <2>1, TokensSame
  <2>3. bytes = Len(file)'
    BY <2>1 DEF Same
  <2>4. Padded(end)'
    BY <1>1, <1>5 DEF Padded
  <2>5. At(d, n, p, marks)'
    BY <1>1, <1>11, AtSame
  <2>6. Tokens(marks, end, Len(file))'
    BY <2>2, <2>3
  <2>7. d = dec' /\ n = Len(served)'
    BY <1>7, <1>10
  <2>8. Stream(dec, p)' /\ At(dec, Len(served), p, marks)'
    BY <1>11, <2>5, <2>7
  <2>9. QED  BY <2>4, <2>6, <2>8 DEF Decodes
<1>13. Bytes' = Bytes /\ DecoderRecord' = DecoderRecord /\ file' = file
  BY <1>1 DEF Bytes, DecoderRecord, Same
<1>14. fed' \in (0..Bytes)'
  <2>1. fed + k \in 0..Bytes
    BY <1>2, <1>9
  <2>2. QED  BY <1>1, <1>13, <2>1
<1>15. read' \in [got : 0..Chunk, feed : BOOLEAN, left : Nat] /\ read'.left = Bytes - fed
  <2>1. Bytes - fed \in Nat
    BY <1>2
  <2>2. QED  BY <1>1, <1>2, <2>1
<1>16. (~read.feed /\ read.left = 0 => fed = Bytes)'
  <2>1. read'.left = 0 => fed + k = Bytes
    BY <1>2, <1>9, <1>15
  <2>2. QED  BY <1>1, <1>13, <2>1
<1>17. (served \in Seq(ByteValue))' /\ Prefix(file)'
  BY <1>1, <1>2, <1>13 DEF Prefix
<1>18. (dec \in DecoderRecord)'
  BY <1>10, <1>11, <1>13
<1>19. QED  BY <1>1, <1>12, <1>14, <1>15, <1>16, <1>17, <1>18 DEF Unpacking

(* A decoder that is in a token has not sent the whole file. *)
LEMMA Unfinished ==
  ASSUME Supplied, NEW marks, NEW end \in Nat, Padded(end), Tokens(marks, end, Len(file)),
         NEW n \in Nat, NEW p \in Nat, Stream(dec, p), At(dec, n, p, marks), dec.st # "empty"
  PROVE  n < Len(file)
<1>1. Len(file) \in Nat
  BY LenProperties DEF Supplied
<1>2. ASSUME NEW m \in marks, NEW m2 \in marks, LiteralAt(m[1], m[2], m2[1], m2[2]) PROVE m[2] < Len(file)
  <2>1. m[2] \in Nat /\ m2[2] \in 0..Len(file) /\ m2[2] = m[2] + 1
    BY <1>1, <1>2, MarkIs DEF LiteralAt
  <2>2. QED  BY <1>1, <2>1
<1>3. ASSUME NEW m \in marks, NEW m2 \in marks, NEW distance \in 1..Window, NEW length \in 1..Ahead,
             BackrefAt(m[1], m[2], m2[1], m2[2], distance, length)
      PROVE  \A c \in 1..length : m[2] + (length - c) < Len(file)
  <2>1. m[2] \in Nat /\ m2[2] \in 0..Len(file) /\ m2[2] = m[2] + length
    BY <1>1, <1>3, MarkIs DEF BackrefAt
  <2>2. length \in Nat /\ length >= 1
    BY WindowType
  <2>3. QED  BY <1>1, <2>1, <2>2
<1>4. PICK m \in marks :
        \/ Between(dec, n, p, m)
        \/ \E m2 \in marks :
             \/ InLiteral(dec, n, p, m, m2)
             \/ \E distance \in 1..Window, length \in 1..Ahead :
                  /\ BackrefAt(m[1], m[2], m2[1], m2[2], distance, length)
                  /\ InBackref(dec, n, p, m, distance, length)
  BY DEF At
<1>5. CASE Between(dec, n, p, m)
  <2>1. n = m[2] /\ p = m[1] /\ dec.inp # <<>>
    BY <1>5 DEF Between
  <2>2. PICK m2 \in marks : TokenAt(m[1], m[2], m2[1], m2[2])
    BY <2>1, NextToken
  <2>3. CASE LiteralAt(m[1], m[2], m2[1], m2[2])
    BY <1>2, <2>1, <2>3
  <2>4. ASSUME NEW distance \in 1..Window, NEW length \in 1..Ahead,
               BackrefAt(m[1], m[2], m2[1], m2[2], distance, length)
        PROVE  n < Len(file)
    <3>1. length \in 1..length /\ length - length = 0
      BY WindowType
    <3>2. m[2] + (length - length) < Len(file)
      BY <1>3, <2>4, <3>1
    <3>3. QED  BY <2>1, <3>1, <3>2
  <2>5. QED  BY <2>2, <2>3, <2>4 DEF TokenAt
<1>6. ASSUME NEW m2 \in marks, InLiteral(dec, n, p, m, m2) PROVE n < Len(file)
  BY <1>2, <1>6 DEF InLiteral
<1>7. ASSUME NEW m2 \in marks, NEW distance \in 1..Window, NEW length \in 1..Ahead,
             BackrefAt(m[1], m[2], m2[1], m2[2], distance, length), InBackref(dec, n, p, m, distance, length)
      PROVE  n < Len(file)
  <2>1. \A c \in 1..length : m[2] + (length - c) < Len(file)
    BY <1>3, <1>7
  <2>2. length \in 1..length /\ length - length = 0
    BY WindowType
  <2>3. m[2] + (length - length) < Len(file)
    BY <2>1, <2>2
  <2>4. n = m[2] \/ (dec.count \in 1..length /\ n = m[2] + (length - dec.count))
    BY <1>7 DEF InBackref
  <2>5. QED  BY <2>1, <2>2, <2>3, <2>4
<1>8. QED  BY <1>4, <1>5, <1>6, <1>7

(* When all bytes are fed, what the decoder holds is the rest of the bits. *)
LEMMA RestHeld ==
  ASSUME Supplied, NEW end \in Nat, Padded(end), NEW p \in Nat, Stream(dec, p), fed = Bytes
  PROVE  /\ dec.inp = <<>> => end <= p + Len(dec.cur)
         /\ Len(dec.cur) \in Nat /\ Len(dec.cur) < ByteBits
<1>1. Len(dec.cur) \in Nat /\ Len(dec.cur) < ByteBits
  <2>1. dec.cur \in Seq(Bit)
    BY DEF Supplied, DecoderRecord
  <2>2. QED  BY <2>1, LenProperties DEF Stream
<1>2. ASSUME dec.inp = <<>> PROVE end <= p + Len(dec.cur)
  <2>1. Len(dec.inp) = 0 /\ dec.idx = 0
    BY <1>2, EmptySeq DEF Stream
  <2>2. p + Len(dec.cur) + (Len(dec.inp) - dec.idx) * ByteBits = fed * ByteBits
    BY DEF Stream
  <2>3. Bytes * ByteBits = Len(out) /\ ByteBits \in Nat /\ Len(out) \in Nat
    BY BytesAre, WidthsHold DEF Supplied, Widths
  <2>4. (0 - 0) * ByteBits = 0
    BY <2>3
  <2>5. p + Len(dec.cur) + 0 = Len(out)
    BY <2>1, <2>2, <2>3, <2>4
  <2>6. end <= Len(out)
    BY <2>3 DEF Padded
  <2>7. QED  BY <1>1, <2>5, <2>6
<1>3. QED  BY <1>1, <1>2

(* One that holds nothing, when all was fed, has. *)
LEMMA AllSent ==
  ASSUME Supplied, NEW marks, NEW end \in Nat, Padded(end), Tokens(marks, end, Len(file)),
         NEW n \in Nat, NEW p \in Nat, Stream(dec, p), At(dec, n, p, marks), fed = Bytes,
         dec.st = "empty"
  PROVE  n = Len(file)
<1>1. PICK m \in marks : Between(dec, n, p, m)
  BY DEF At, InLiteral, InBackref
<1>2. n = m[2] /\ p = m[1] /\ dec.inp = <<>>
  BY <1>1 DEF Between
<1>l. Len(file) \in Nat
  BY LenProperties DEF Supplied
<1>3. end <= p + Len(dec.cur) /\ Len(dec.cur) \in Nat /\ Len(dec.cur) < ByteBits
  BY <1>2, RestHeld
<1>4. W \in Nat /\ L \in Nat /\ ByteBits \in Nat /\ 1 + W + L > ByteBits
  BY WidthsHold DEF Widths
<1>5. ASSUME NEW m2 \in marks, TokenAt(m[1], m[2], m2[1], m2[2]) PROVE FALSE
  <2>1. m2[1] \in 0..end /\ m2[1] \in Nat
    BY <1>l, MarkIs
  <2>2. m2[1] = p + 1 + ByteBits \/ m2[1] = p + 1 + W + L
    BY <1>2, <1>5 DEF TokenAt, LiteralAt, BackrefAt
  <2>3. QED  BY <1>3, <1>4, <2>1, <2>2
<1>6. m = <<end, Len(file)>>
  BY <1>5 DEF Tokens
<1>7. QED  BY <1>2, <1>6

(* Until then there is always a step: the decoder waits for bits only at   *)
(* the end.                                                                *)
LEMMA NotStuck ==
  ASSUME Supplied, NEW marks, NEW end \in Nat, Padded(end), Tokens(marks, end, Len(file)),
         NEW n \in Nat, NEW p \in Nat, Stream(dec, p), At(dec, n, p, marks), fed = Bytes,
         Room, dec.st # "empty"
  PROVE  ~Stuck
<1>l. Len(file) \in Nat
  BY LenProperties DEF Supplied
<1>1. /\ dec.inp = <<>> => end <= p + Len(dec.cur)
      /\ Len(dec.cur) \in Nat
  BY RestHeld
<1>2. W \in Nat /\ L \in Nat /\ ByteBits \in Nat /\ IndexBits = W /\ CountBits = L
  BY WidthsHold, Allocates DEF Widths, Supplied
<1>3. ASSUME NEW q \in Nat, p + q <= end PROVE Enough(q)
  <2>1. CASE dec.inp # <<>>
    BY <2>1 DEF Enough
  <2>2. CASE dec.inp = <<>>
    <3>1. Len(dec.cur) >= q
      BY <1>1, <1>3, <2>2
    <3>2. QED  BY <3>1 DEF Enough
  <2>3. QED  BY <2>1, <2>2
<1>4. Enough(0)
  BY <1>1 DEF Enough
<1>5. CASE dec.st \in {"input", "backref"}
  BY <1>4, <1>5 DEF Stuck
<1>6. CASE dec.st = "literal"
  <2>1. PICK m \in marks, m2 \in marks : InLiteral(dec, n, p, m, m2)
    BY <1>6 DEF At, Between, InBackref
  <2>2. p = m[1] + 1 /\ m2[1] = m[1] + 1 + ByteBits
    BY <2>1 DEF InLiteral, LiteralAt
  <2>3. m[1] \in Nat /\ m2[1] \in 0..end
    BY <1>l, MarkIs
  <2>4. p + ByteBits <= end
    BY <1>2, <2>2, <2>3
  <2>5. Enough(ByteBits)
    BY <1>2, <1>3, <2>4
  <2>6. QED  BY <1>6, <2>5 DEF Stuck
<1>7. CASE dec.st \in {"msb", "lsb", "count"}
  <2>1. PICK m \in marks, m2 \in marks, distance \in 1..Window, length \in 1..Ahead :
          BackrefAt(m[1], m[2], m2[1], m2[2], distance, length) /\ InBackref(dec, n, p, m, distance, length)
    BY <1>7 DEF At, Between, InLiteral
  <2>2. m2[1] = m[1] + 1 + W + L
    BY <2>1 DEF BackrefAt
  <2>3. m[1] \in Nat /\ m2[1] \in 0..end
    BY <1>l, MarkIs
  <2>a. ASSUME W > ByteBits
        PROVE  /\ W - ByteBits \in Nat /\ (m[1] + 1) + (W - ByteBits) <= end
               /\ (m[1] + 1 + (W - ByteBits)) + ByteBits <= end
    <3>1. ASSUME NEW a \in Nat, NEW e \in 0..end, e = a + 1 + W + L
          PROVE  /\ W - ByteBits \in Nat /\ (a + 1) + (W - ByteBits) <= end
                 /\ (a + 1 + (W - ByteBits)) + ByteBits <= end
      BY <1>2, <2>a, <3>1
    <3>2. QED  BY <2>2, <2>3, <3>1
  <2>4. CASE dec.st = "msb"
    <3>1. p = m[1] + 1 /\ W > ByteBits
      BY <2>1, <2>4 DEF InBackref
    <3>2. W - ByteBits \in Nat /\ p + (W - ByteBits) <= end
      BY <2>a, <3>1
    <3>3. Enough(IndexBits - ByteBits)
      BY <1>2, <1>3, <3>2
    <3>4. QED  BY <2>4, <3>3 DEF Stuck
  <2>5. CASE dec.st = "lsb"
    <3>1. IF W > ByteBits THEN p = m[1] + 1 + (W - ByteBits) ELSE p = m[1] + 1
      BY <2>1, <2>5 DEF InBackref
    <3>2. Least(W, ByteBits) \in Nat /\ p + Least(W, ByteBits) <= end
      <4>1. CASE W > ByteBits
        <5>1. Least(W, ByteBits) = ByteBits /\ p = m[1] + 1 + (W - ByteBits)
          BY <1>2, <3>1, <4>1 DEF Least
        <5>2. p + ByteBits <= end
          BY <2>a, <4>1, <5>1
        <5>3. QED  BY <1>2, <5>1, <5>2
      <4>2. CASE ~(W > ByteBits)
        <5>1. Least(W, ByteBits) = W /\ p = m[1] + 1
          BY <1>2, <3>1, <4>2 DEF Least
        <5>2. p + W <= end
          <6>1. ASSUME NEW a \in Nat, NEW w \in Nat, NEW l \in Nat, NEW e \in Nat,
                       NEW z \in 0..e, z = a + 1 + w + l
                PROVE  (a + 1) + w <= e
            BY <6>1
          <6>2. W \in Nat /\ L \in Nat
            BY <1>2
          <6>3. QED  BY <6>1, <6>2, <2>2, <2>3, <5>1
        <5>3. QED  BY <1>2, <5>1, <5>2
      <4>3. QED  BY <4>1, <4>2
    <3>3. Enough(Least(IndexBits, ByteBits))
      BY <1>2, <1>3, <3>2
    <3>4. QED  BY <2>5, <3>3 DEF Stuck
  <2>6. CASE dec.st = "count"
    <3>1. p = m[1] + 1 + W
      BY <2>1, <2>6 DEF InBackref
    <3>2. p + L <= end
      BY <1>2, <2>2, <2>3, <3>1
    <3>3. Enough(CountBits)
      BY <1>2, <1>3, <3>2
    <3>4. QED  BY <2>6, <3>3 DEF Stuck
  <2>7. QED  BY <1>7, <2>4, <2>5, <2>6
<1>8. dec.st \in {"input", "literal", "msb", "lsb", "count", "backref"}
  BY DEF Supplied, DecoderRecord
<1>9. QED  BY <1>5, <1>6, <1>7, <1>8

(* Steps of espFsRead that only count. *)
LEMMA UnpackingKept ==
  ASSUME Unpacking, UNCHANGED <<out, dec, fed, served>>, Same,
         read' \in [got : 0..Chunk, feed : BOOLEAN, left : Nat],
         ~read'.feed /\ read'.left = 0 => fed = Bytes,
         phase' = "done" => Len(served) = Len(file) /\ dec.st = "empty"
  PROVE  Unpacking'
<1>1. PICK marks : \E end \in Nat : \E p \in Nat :
        /\ Padded(end) /\ Tokens(marks, end, Len(file)) /\ Stream(dec, p) /\ At(dec, Len(served), p, marks)
  BY DEF Unpacking, Decodes
<1>2. PICK end \in Nat : \E p \in Nat :
        /\ Padded(end) /\ Tokens(marks, end, Len(file)) /\ Stream(dec, p) /\ At(dec, Len(served), p, marks)
  BY <1>1
<1>3. PICK p \in Nat :
        /\ Padded(end) /\ Tokens(marks, end, Len(file)) /\ Stream(dec, p) /\ At(dec, Len(served), p, marks)
  BY <1>2
<1>4. PICK d, n : d = dec /\ n = Len(served)
  OBVIOUS
<1>5. dec' = d /\ n = Len(served') /\ Stream(d, p) /\ At(d, n, p, marks)
  BY <1>3, <1>4
<1>6. Decodes'
  BY <1>3, <1>5, DecodedTo
<1>7. (served \in Seq(ByteValue))' /\ Prefix(file)' /\ (dec \in DecoderRecord)' /\ (fed \in 0..Bytes)'
  BY DEF Unpacking, Prefix, DecoderRecord, Bytes, Same
<1>8. (~read.feed /\ read.left = 0 => fed = Bytes)' /\ (phase = "done" => Len(served) = Len(file) /\ dec.st = "empty")'
  BY DEF Bytes, Same
<1>9. QED  BY <1>6, <1>7, <1>8 DEF Unpacking

(* A poll that is over: a chunk is full, or the decoder wants bytes, or    *)
(* the file ends.                                                          *)
LEMMA PolledStep ==
  ASSUME ImageInv, FileInv, Handled, phase = "serve", Unpacking, Polled, Same
  PROVE  Unpacking'
<1>1. /\ packed /\ ~read.feed /\ Stuck /\ UNCHANGED <<out, dec, fed, served>>
      /\ read' = [read EXCEPT !.feed = TRUE, !.got = IF ReadEnds THEN 0 ELSE @]
      /\ phase' = "done" => ReadEnds /\ read.got < Chunk
  BY DEF Polled
<1>2. /\ Supplied
      /\ read \in [got : 0..Chunk, feed : BOOLEAN, left : Nat] /\ Chunk \in Nat
      /\ (~read.feed /\ read.left = 0 => fed = Bytes) /\ Len(served) \in Nat
  BY <1>1, Suppose
<1>3. ASSUME phase' = "done" PROVE Len(served) = Len(file) /\ dec.st = "empty"
  <2>1. PICK marks : \E end \in Nat : \E p \in Nat :
          /\ Padded(end) /\ Tokens(marks, end, Len(file)) /\ Stream(dec, p) /\ At(dec, Len(served), p, marks)
    BY <1>1, Suppose
  <2>2. PICK end \in Nat : \E p \in Nat :
          /\ Padded(end) /\ Tokens(marks, end, Len(file)) /\ Stream(dec, p) /\ At(dec, Len(served), p, marks)
    BY <2>1
  <2>3. PICK p \in Nat :
          /\ Padded(end) /\ Tokens(marks, end, Len(file)) /\ Stream(dec, p) /\ At(dec, Len(served), p, marks)
    BY <2>2
  <2>4. Room /\ fed = Bytes
    BY <1>1, <1>2, <1>3 DEF Room, ReadEnds
  <2>5. dec.st = "empty"
    BY <1>1, <1>2, <2>3, <2>4, NotStuck
  <2>6. QED  BY <1>2, <2>3, <2>4, <2>5, AllSent
<1>4. read' \in [got : 0..Chunk, feed : BOOLEAN, left : Nat] /\ read'.feed
  <2>1. (IF ReadEnds THEN 0 ELSE read.got) \in 0..Chunk
    BY <1>2
  <2>2. QED  BY <1>1, <1>2, <2>1
<1>5. QED  BY <1>1, <1>3, <1>4, UnpackingKept

(* A read that is asked for no more bytes. *)
LEMMA ReadNothingStep ==
  ASSUME ImageInv, FileInv, Handled, phase = "serve", Unpacking, ReadNothing, Same
  PROVE  Unpacking'
<1>1. packed /\ read.feed /\ Len(served) = Len(file) /\ UNCHANGED <<out, dec, fed, served, read>>
  BY DEF ReadNothing
<1>2. Supplied /\ read \in [got : 0..Chunk, feed : BOOLEAN, left : Nat]
      /\ Len(file) \in Nat /\ Len(served) \in Nat
  BY <1>1, Suppose
<1>3. dec.st = "empty"
  <2>1. PICK marks : \E end \in Nat : \E p \in Nat :
          /\ Padded(end) /\ Tokens(marks, end, Len(file)) /\ Stream(dec, p) /\ At(dec, Len(served), p, marks)
    BY <1>1, Suppose
  <2>2. PICK end \in Nat : \E p \in Nat :
          /\ Padded(end) /\ Tokens(marks, end, Len(file)) /\ Stream(dec, p) /\ At(dec, Len(served), p, marks)
    BY <2>1
  <2>3. PICK p \in Nat :
          /\ Padded(end) /\ Tokens(marks, end, Len(file)) /\ Stream(dec, p) /\ At(dec, Len(served), p, marks)
    BY <2>2
  <2>4. ~(Len(served) < Len(file))
    BY <1>1, <1>2
  <2>5. QED  BY <1>2, <2>3, <2>4, Unfinished
<1>4. QED  BY <1>1, <1>2, <1>3, UnpackingKept

(* A file that was not packed is copied. *)
LEMMA ReadPlainStep ==
  ASSUME FileInv, phase = "serve", Copying, ReadPlain
  PROVE  Copying'
<1> DEFINE n == Least(Chunk, Len(cdat) - Len(served))
           m == Len(served) + n
<1>1. served' = SubSeq(cdat, 1, m) /\ cdat' = cdat /\ (phase' = "done" => n < Chunk)
  BY DEF ReadPlain, stored
<1>2. cdat \in Seq(ByteValue) /\ Len(cdat) \in Nat /\ Len(served) \in Nat /\ Len(served) <= Len(cdat)
      /\ Chunk \in Nat
  BY LenProperties, EspFsAssumption DEF FileInv, Copying, Prefix
<1>3. n \in Nat /\ m \in Nat /\ m <= Len(cdat) /\ (n < Chunk => m = Len(cdat))
  BY <1>2 DEF Least
<1> HIDE DEF n, m
<1>4. /\ SubSeq(cdat, 0 + 1, 0 + m) \in Seq(ByteValue) /\ Len(SubSeq(cdat, 0 + 1, 0 + m)) = m
      /\ \A i \in 1..m : SubSeq(cdat, 0 + 1, 0 + m)[i] = cdat[0 + i]
  <2>1. 0 + m <= Len(cdat) /\ 0 \in Nat
    BY <1>3
  <2>2. QED  BY <1>2, <1>3, <2>1, PartOf
<1>5. 0 + 1 = 1 /\ 0 + m = m /\ \A i \in 1..m : 0 + i = i
  BY <1>3
<1>6. served' \in Seq(ByteValue) /\ Len(served') = m /\ \A i \in 1..m : served'[i] = cdat[i]
  BY <1>1, <1>4, <1>5
<1>7. QED  BY <1>1, <1>3, <1>6 DEF Copying, Prefix

(* espFsOpen begins with a decoder that was reset.                         *)
LEMMA Fresh ==
  ASSUME ImageInv, FileInv, Handled, packed, Unread, served = <<>>, phase # "done"
  PROVE  Unpacking
<1>1. /\ file \in Seq(ByteValue) /\ Len(file) \in Nat /\ out \in Seq(Bit)
      /\ ByteBits \in Nat /\ ByteBits > 0 /\ InBuf \in Nat /\ Chunk \in Nat
  <2>1. file \in Seq(ByteValue) /\ out \in Seq(Bit)
    BY DEF ImageInv, ImageTypes, FileInv
  <2>2. Len(file) \in Nat
    BY <2>1, LenProperties
  <2>3. InBuf \in Nat /\ Chunk \in Nat
    BY EspFsAssumption
  <2>4. ByteBits \in Nat /\ ByteBits > 0
    BY WidthsHold DEF Widths
  <2>5. QED  BY <2>1, <2>2, <2>3, <2>4
<1>2. PICK marks : \E end \in Nat : Padded(end) /\ Tokens(marks, end, Len(file))
  BY DEF FileInv, StoredInv, PackedWhole
<1>3. PICK end \in Nat : Padded(end) /\ Tokens(marks, end, Len(file))
  BY <1>2
<1>4. served \in Seq(ByteValue) /\ Len(served) = 0 /\ <<>> \in Seq(Bit) /\ <<>> \in Seq(Seq(Bit)) /\ Len(<<>>) = 0
  BY EmptySeq
<1>5. /\ dec \in DecoderRecord /\ dec.st = "empty" /\ dec.inp = <<>> /\ dec.cur = <<>> /\ dec.idx = 0
  <2>1. dec = Decoder
    BY DEF Unread
  <2>2. 0 \in 0..Window /\ 0 \in 0..Ahead
    BY WindowType
  <2>3. QED  BY <1>4, <2>1, <2>2 DEF Decoder, DecoderRecord
<1>6. fed = 0 /\ fed \in 0..Bytes
  <2>1. Bytes \in Nat
    BY <1>1, <1>3, BytesAre DEF Padded
  <2>2. QED  BY <2>1 DEF Unread
<1>7. Stream(dec, 0)
  <2>1. 0 + 0 + (0 - 0) * ByteBits = 0 * ByteBits
    BY <1>1
  <2>2. 0 < ByteBits /\ 0 <= InBuf /\ 0 <= 0
    BY <1>1
  <2>3. QED  BY <1>4, <1>5, <1>6, <2>1, <2>2 DEF Stream
<1>8. At(dec, Len(served), 0, marks)
  <2>1. PICK m \in marks : m = <<0, 0>>
    BY <1>3 DEF Tokens
  <2>2. m[1] = 0 /\ m[2] = 0
    BY <2>1
  <2>3. Between(dec, Len(served), 0, m)
    BY <1>4, <1>5, <2>2 DEF Between
  <2>4. QED  BY <2>3 DEF At
<1>9. Decodes
  BY <1>3, <1>7, <1>8 DEF Decodes
<1>10. Prefix(file)
  BY <1>1, <1>4 DEF Prefix
<1>11. read \in [got : 0..Chunk, feed : BOOLEAN, left : Nat] /\ read.feed
  BY <1>1 DEF Unread
<1>12. QED  BY <1>4, <1>5, <1>6, <1>9, <1>10, <1>11 DEF Unpacking

-----------------------------------------------------------------------------
(***************************************************************************)
(* What the browser is sent.                                               *)
(***************************************************************************)

Serving == phase \in {"serve", "done"}

(* Every step keeps what is said of what was sent. *)
LEMMA ServedStep ==
  ASSUME FoundInv, FoundInv', ServedInv, [Next]_vars
  PROVE  ServedInv'
<1> USE DEF FoundInv
<1>1. Same
  BY Fixed DEF Same
<1>2. ASSUME HandleNone \/ HandleOther \/ HandlePlain \/ HandleGzip \/ Sink \/ Search \/ SaveBacklog
               \/ Packed \/ FinishArchive
      PROVE  ServedInv'
  <2>1. ~Serving /\ ~Serving' /\ UNCHANGED <<dec, fed, served, read>>
    <3>1. ASSUME HandleNone \/ HandleOther \/ HandlePlain \/ HandleGzip \/ FinishArchive
          PROVE  ~Serving /\ ~Serving' /\ UNCHANGED <<dec, fed, served, read>>
      BY <3>1 DEF HandleNone, HandleOther, HandlePlain, HandleGzip, FinishArchive, Handling, Serving
    <3>2. ASSUME Sink \/ Search \/ SaveBacklog \/ Packed
          PROVE  ~Serving /\ ~Serving' /\ UNCHANGED <<dec, fed, served, read>>
      BY <3>2 DEF Sink, Search, SaveBacklog, Packed, Packing, Handling, Serving
    <3>3. QED  BY <1>2, <3>1, <3>2
  <2>2. Unread /\ served = <<>>
    BY <2>1 DEF ServedInv, Serving
  <2>3. Decoder' = Decoder
    BY DEF Decoder
  <2>4. QED  BY <2>1, <2>2, <2>3 DEF ServedInv, Unread, Serving
<1>3. ASSUME EspFsOpen PROVE ServedInv'
  <2>1. phase = "open" /\ phase' # "done" /\ UNCHANGED <<file, image, out, packed, cdat, dec, fed, served, read>>
    BY <1>3, <1>1 DEF EspFsOpen, stored, ImageInv, Walking
  <2>2. Unread /\ served = <<>>
    BY <2>1 DEF ServedInv
  <2>3. Decoder' = Decoder
    BY DEF Decoder
  <2>4. CASE ~Serving'
    BY <2>1, <2>2, <2>3, <2>4 DEF ServedInv, Unread, Serving
  <2>5. CASE Serving'
    <3>1. Handled'
      BY <2>5 DEF ImageInv, Walking, Serving
    <3>2. Handled
      BY <2>1, <3>1 DEF Handled
    <3>3. CASE packed
      <4>1. Unpacking
        BY <2>1, <2>2, <3>2, <3>3, Fresh
      <4>2. read' \in [got : 0..Chunk, feed : BOOLEAN, left : Nat] /\ read'.feed
        BY <2>1, <2>2, <4>1 DEF Unpacking, Unread
      <4>3. Unpacking'
        BY <1>1, <2>1, <4>1, <4>2, UnpackingKept
      <4>4. QED  BY <2>1, <2>5, <3>3, <4>3 DEF ServedInv, Serving
    <3>4. CASE ~packed
      <4>1. served \in Seq(ByteValue) /\ Len(served) = 0
        BY <2>2, EmptySeq
      <4>2. cdat \in Seq(ByteValue) /\ Len(cdat) \in Nat
        BY LenProperties DEF FileInv
      <4>3. Copying'
        BY <2>1, <4>1, <4>2 DEF Copying, Prefix
      <4>4. Unread'
        BY <2>1, <2>2, <2>3 DEF Unread
      <4>5. QED  BY <2>1, <2>5, <3>4, <4>3, <4>4 DEF ServedInv, Serving
    <3>5. QED  BY <3>3, <3>4
  <2>6. QED  BY <2>4, <2>5
<1>4. ASSUME Feed \/ Decode \/ Polled \/ ReadNothing PROVE ServedInv'
  <2>1. phase = "serve" /\ phase' \in {"serve", "done"} /\ packed /\ packed'
    <3>1. ASSUME Feed \/ Decode PROVE phase = "serve" /\ phase' \in {"serve", "done"} /\ packed /\ packed'
      BY <3>1 DEF Feed, Decode, stored
    <3>2. ASSUME Polled \/ ReadNothing PROVE phase = "serve" /\ phase' \in {"serve", "done"} /\ packed /\ packed'
      BY <3>2 DEF Polled, ReadNothing, stored, EspFsClose
    <3>3. QED  BY <1>4, <3>1, <3>2
  <2>2. Handled /\ Unpacking
    BY <2>1 DEF ImageInv, Walking, ServedInv
  <2>3. Unpacking'
    BY <1>1, <1>4, <2>1, <2>2, FeedStep, DecodeStep, PolledStep, ReadNothingStep
  <2>4. QED  BY <2>1, <2>3 DEF ServedInv
<1>5. ASSUME ReadPlain PROVE ServedInv'
  <2>1. phase = "serve" /\ phase' \in {"serve", "done"} /\ ~packed /\ ~packed' /\ UNCHANGED <<dec, fed, read>>
    BY <1>5 DEF ReadPlain, stored, EspFsClose
  <2>2. Unread /\ Copying
    BY <2>1 DEF ServedInv
  <2>3. Copying'
    BY <1>5, <2>1, <2>2, ReadPlainStep
  <2>4. Decoder' = Decoder
    BY DEF Decoder
  <2>5. Unread'
    BY <2>1, <2>2, <2>4 DEF Unread
  <2>6. QED  BY <2>1, <2>3, <2>5 DEF ServedInv
<1>6. ASSUME UNCHANGED vars PROVE ServedInv'
  <2>1. UNCHANGED <<phase, out, packed, cdat, dec, fed, served, read>>
    BY <1>6 DEF vars, stored
  <2>2. Decoder' = Decoder
    BY DEF Decoder
  <2>3. CASE phase \in {"serve", "done"} /\ packed
    <3>1. Unpacking
      BY <2>3 DEF ServedInv
    <3>2. /\ read' \in [got : 0..Chunk, feed : BOOLEAN, left : Nat]
          /\ ~read'.feed /\ read'.left = 0 => fed = Bytes
          /\ phase' = "done" => Len(served) = Len(file) /\ dec.st = "empty"
      BY <2>1, <3>1 DEF Unpacking
    <3>3. Unpacking'
      BY <1>1, <2>1, <3>1, <3>2, UnpackingKept
    <3>4. QED  BY <2>1, <2>3, <3>3 DEF ServedInv
  <2>4. CASE ~(phase \in {"serve", "done"} /\ packed)
    BY <2>1, <2>2, <2>4 DEF ServedInv, Unread, Copying, Prefix
  <2>5. QED  BY <2>3, <2>4
<1>7. QED  BY <1>2, <1>3, <1>4, <1>5, <1>6 DEF Next, Done

IInv == FoundInv /\ ServedInv

(* IInv is inductive. *)
LEMMA Inductive ==
  /\ Init => IInv
  /\ IInv /\ [Next]_vars => IInv'
<1>1. ASSUME Init PROVE IInv
  <2>1. FoundInv
    BY <1>1, FoundInductive
  <2>2. phase \in {"pack", "usage"} /\ served = <<>> /\ Unread
    BY <1>1 DEF Init, Unread
  <2>3. QED  BY <2>1, <2>2 DEF IInv, ServedInv
<1>2. ASSUME IInv, [Next]_vars PROVE IInv'
  <2>1. FoundInv'
    BY <1>2, FoundInductive DEF IInv
  <2>2. QED  BY <1>2, <2>1, ServedStep DEF IInv
<1>3. QED  BY <1>1, <1>2

(***************************************************************************)
(* The variables keep their types: what the encoder and the decoder hold   *)
(* stays within their buffers, the index and the count of a reference      *)
(* within the window and the lookahead.                                    *)
(***************************************************************************)
THEOREM TypeCorrect == Spec => []TypeOK
<1>1. IInv => TypeOK
  <2> SUFFICES ASSUME IInv PROVE TypeOK
    OBVIOUS
  <2>1. ImageInv /\ FileInv /\ ServedInv
    BY DEF IInv, FoundInv
  <2>2. file \in Seq(ByteValue) /\ out \in Seq(Bit)
    BY <2>1 DEF ImageInv, ImageTypes, FileInv
  <2>3. /\ Len(file) \in Nat /\ ByteBits \in Nat /\ ByteBits > 0 /\ InBuf \in Nat /\ Chunk \in Nat
        /\ Len(out) \in Nat
    BY <2>2, LenProperties, EspFsAssumption
  <2>4. phase \in {"pack", "open", "serve", "done", "missing", "broken", "usage", "failed"} /\ pos \in Nat
    BY <2>1 DEF ImageInv, ImageTypes, Phases
  <2>5. packed \in BOOLEAN /\ cdat \in Seq(ByteValue) /\ Len(cdat) <= Len(file)
    BY <2>1 DEF FileInv
  <2>6. /\ enc.size \in 0..Window /\ enc.msi \in 0..enc.size /\ enc.given \in 0..Len(file)
        /\ enc.backlog \in {"none", "partial", "filled"}
    <3>1. EncoderTypes
      BY <2>1 DEF FileInv
    <3>2. /\ enc.given \in Nat /\ enc.size \in Nat /\ enc.msi \in Nat /\ Window \in Nat
          /\ enc.given <= Len(file) /\ enc.size <= Window /\ enc.msi <= enc.size
      BY <2>2, <3>1, EncoderFacts
    <3>3. QED  BY <2>3, <3>1, <3>2 DEF EncoderTypes
  <2>7. \A i \in 1..Len(out) : out[i] \in {0, 1}
    BY <2>2, ElementOfSeq DEF Bit
  <2>8. Bytes \in Nat
    BY <2>3, Divided DEF Bytes
  <2>9. /\ Len(dec.inp) <= InBuf /\ dec.idx \in 0..Len(dec.inp) /\ Len(dec.cur) < ByteBits
        /\ dec.st \in {"empty", "input", "literal", "msb", "lsb", "count", "backref"}
        /\ dec.index \in 0..Window /\ dec.count \in 0..Ahead
        /\ fed \in 0..Bytes /\ read.got \in 0..Chunk /\ Len(served) <= Len(file)
    <3>1. CASE phase \in {"serve", "done"} /\ packed
      <4>1. Unpacking
        BY <2>1, <3>1 DEF ServedInv
      <4>2. dec \in DecoderRecord /\ fed \in 0..Bytes /\ read.got \in 0..Chunk /\ Len(served) <= Len(file)
        BY <4>1 DEF Unpacking, Prefix
      <4>3. Len(dec.inp) <= InBuf /\ dec.idx <= Len(dec.inp) /\ Len(dec.cur) < ByteBits
        BY <4>1 DEF Unpacking, Decodes, Stream
      <4>4. dec.inp \in Seq(Seq(Bit)) /\ dec.idx \in Nat
        BY <4>2 DEF DecoderRecord
      <4>5. dec.idx \in 0..Len(dec.inp)
        BY <4>3, <4>4, LenProperties
      <4>6. QED  BY <4>2, <4>3, <4>5 DEF DecoderRecord
    <3>2. CASE ~(phase \in {"serve", "done"} /\ packed)
      <4>1. dec = Decoder /\ fed = 0 /\ read.got = 0
        BY <2>1, <3>2 DEF ServedInv, Unread
      <4>2. Len(<<>>) = 0
        BY EmptySeq
      <4>3. 0 \in 0..Window /\ 0 \in 0..Ahead /\ 0 \in 0..Bytes /\ 0 \in 0..Chunk /\ 0 <= InBuf /\ 0 < ByteBits /\ 0 \in 0..0
        BY <2>3, <2>8, WindowType
      <4>4. Len(served) <= Len(file)
        <5>1. CASE served = <<>>
          BY <2>3, <4>2, <5>1
        <5>2. CASE Copying
          <6>1. Len(served) <= Len(cdat) /\ served \in Seq(ByteValue)
            BY <5>2 DEF Copying, Prefix
          <6>2. Len(served) \in Nat /\ Len(cdat) \in Nat
            BY <6>1, <2>5, LenProperties
          <6>3. QED  BY <2>3, <2>5, <6>1, <6>2
        <5>3. QED  BY <2>1, <3>2, <5>1, <5>2 DEF ServedInv
      <4>5. QED  BY <4>1, <4>2, <4>3, <4>4 DEF Decoder
    <3>3. QED  BY <3>1, <3>2
  <2>10. QED  BY <2>4, <2>5, <2>6, <2>7, <2>9 DEF TypeOK
<1>2. QED  BY <1>1, Inductive, PTL DEF Spec

(* What agrees with the beginning of a sequence is its beginning. *)
LEMMA PrefixIs ==
  ASSUME NEW S, NEW s \in Seq(S), NEW t \in Seq(S), Len(s) <= Len(t),
         \A i \in 1..Len(s) : s[i] = t[i]
  PROVE  s = SubSeq(t, 1, Len(s)) /\ (Len(s) = Len(t) => s = t)
<1> DEFINE n == Len(s)
<1>1. n \in Nat /\ Len(t) \in Nat
  BY LenProperties
<1>2. /\ SubSeq(t, 0 + 1, 0 + n) \in Seq(S) /\ Len(SubSeq(t, 0 + 1, 0 + n)) = n
      /\ \A i \in 1..n : SubSeq(t, 0 + 1, 0 + n)[i] = t[0 + i]
  <2>1. 0 + n <= Len(t) /\ 0 \in Nat
    BY <1>1
  <2> HIDE DEF n
  <2>2. QED  BY <1>1, <2>1, PartOf
<1>3. 0 + 1 = 1 /\ 0 + n = n /\ \A i \in 1..n : 0 + i = i
  BY <1>1
<1>4. SubSeq(t, 1, n) \in Seq(S) /\ Len(SubSeq(t, 1, n)) = Len(s) /\ \A i \in 1..Len(s) : s[i] = SubSeq(t, 1, n)[i]
  BY <1>2, <1>3
<1>5. s = SubSeq(t, 1, n)
  BY <1>4, SeqEqual
<1>6. Len(s) = Len(t) => s = t
  BY SeqEqual
<1>7. QED  BY <1>5, <1>6

(***************************************************************************)
(* What cgiEspFsHook sends of a file is at any time a beginning of what    *)
(* was stored of it, and the whole of it in the end: the decoder undoes    *)
(* the encoder, for every file, every window and lookahead that            *)
(* mkespfsimage accepts, and every way the reads are cut into chunks and   *)
(* feeds.                                                                  *)
(***************************************************************************)
THEOREM FileIsServed == Spec => []ServesFile
<1>1. IInv => ServesFile
  <2> SUFFICES ASSUME IInv, phase \in {"serve", "done"}
               PROVE  LET promised == IF EspFsFlags THEN Deflate(file) ELSE file
                      IN /\ served = SubSeq(promised, 1, Len(served))
                         /\ phase = "done" => served = promised /\ DecoderFinish
    BY DEF ServesFile
  <2> DEFINE promised == IF EspFsFlags THEN Deflate(file) ELSE file
  <2>1. ImageInv /\ FileInv /\ ServedInv
    BY DEF IInv, FoundInv
  <2>2. url = "file" /\ Handled /\ StoredInv
    BY <2>1 DEF ImageInv, Walking, FileInv
  <2>3. file \in Seq(ByteValue) /\ Deflate(file) \in Seq(ByteValue)
    BY <2>1 DEF ImageInv, ImageTypes
  <2>4. PICK k \in DOMAIN image : image[k].name = "file" /\ \A i \in DOMAIN image : image[i].name = "file" => i = k
    BY <2>1, <2>2 DEF Handled, ImageInv, Named
  <2>5. EspFsFlags <=> image[k].gzip
    BY <2>2, <2>4 DEF EspFsFlags
  <2>6. promised \in Seq(ByteValue)
    BY <2>3
  <2> HIDE DEF promised
  <2>7. /\ served \in Seq(ByteValue) /\ Len(served) <= Len(promised)
        /\ \A i \in 1..Len(served) : served[i] = promised[i]
        /\ phase = "done" => Len(served) = Len(promised) /\ DecoderFinish
    <3>1. CASE packed
      <4>1. ~image[k].gzip
        BY <2>2, <2>4, <3>1 DEF StoredInv
      <4>2. promised = file
        BY <2>5, <4>1 DEF promised
      <4>3. QED  BY <2>1, <3>1, <4>2 DEF ServedInv, Unpacking, Prefix, DecoderFinish
    <3>2. CASE ~packed
      <4>1. cdat = promised
        BY <2>2, <2>4, <2>5, <3>2 DEF StoredInv, promised
      <4>2. dec.st = "empty"
        BY <2>1, <3>2 DEF ServedInv, Unread, Decoder
      <4>3. QED  BY <2>1, <3>2, <4>1, <4>2 DEF ServedInv, Copying, Prefix, DecoderFinish
    <3>3. QED  BY <3>1, <3>2
  <2>8. served = SubSeq(promised, 1, Len(served)) /\ (Len(served) = Len(promised) => served = promised)
    BY <2>6, <2>7, PrefixIs
  <2>9. QED  BY <2>7, <2>8 DEF promised
<1>2. QED  BY <1>1, Inductive, PTL DEF Spec
-----------------------------------------------------------------------------
(***************************************************************************)
(* Templates.  Sends says what has been sent of the first k bytes of a     *)
(* file, however they were cut into chunks; Table, what Expanded makes of  *)
(* the bytes from each place on.                                           *)
(***************************************************************************)

TplData == [e : Nat, sp : Nat, token : Seq(Int), sent : Seq(Int)]

(* After x bytes of a chunk: in ordinary text the bytes from e on are not  *)
(* sent yet, within a token there are none.                                *)
InChunk(t, x) ==
  /\ t \in TplData /\ t.e >= 1
  /\ IF t.token = NoToken THEN t.e + t.sp = x + 1 ELSE t.sp = 0

TemplateByte(t, chunk, x) ==
  IF t.token = NoToken THEN TextByte(t, chunk, x) ELSE TokenByte(t, x, chunk[x])

LEMMA PercentIs == Percent \in Nat /\ MaxToken \in Nat /\ MaxToken > 0 /\ Chunk \in Nat /\ Chunk > 0
<1>1. Percent \in ByteValue /\ MaxToken \in Nat \ {0} /\ Chunk \in Nat \ {0}
  BY EspFsAssumption
<1>2. QED  BY <1>1 DEF ByteValue

(* What is not sent yet is a part of the chunk, and none within a token. *)
LEMMA SendTextIs ==
  ASSUME NEW chunk \in Seq(Nat), NEW x \in 0..Len(chunk), NEW t, InChunk(t, x)
  PROVE  /\ SendText(t, chunk) \in Seq(Int)
         /\ t.token # NoToken => SendText(t, chunk) = t.sent
         /\ t.token = NoToken => SendText(t, chunk) = t.sent \o SubSeq(chunk, t.e, x)
<1>1. t.e \in Nat /\ t.e >= 1 /\ t.sp \in Nat /\ t.sent \in Seq(Int) /\ Len(chunk) \in Nat /\ x \in Nat
  BY LenProperties DEF InChunk, TplData
<1>2. CASE t.token = NoToken
  <2>1. t.e + t.sp - 1 = x
    <3> DEFINE from == t.e
               text == t.sp
    <3>1. from + text = x + 1 /\ from \in Nat /\ text \in Nat
      BY <1>1, <1>2 DEF InChunk
    <3> HIDE DEF from, text
    <3>2. from + text - 1 = x
      BY <1>1, <3>1
    <3>3. QED  BY <3>2 DEF from, text
  <2>2. \A i \in t.e..x : chunk[i] \in Int
    <3> TAKE i \in t.e..x
    <3> DEFINE from == t.e
    <3>1. from \in Nat /\ from >= 1 /\ i \in from..x
      BY <1>1
    <3> HIDE DEF from
    <3>2. i \in 1..Len(chunk)
      BY <1>1, <3>1
    <3>3. chunk[i] \in Nat
      BY <3>2, ElementOfSeq
    <3>4. QED  BY <3>3
  <2>3. SubSeq(chunk, t.e, x) \in Seq(Int)
    <3>1. t.e \in Int /\ x \in Int
      BY <1>1
    <3>2. QED  BY <2>2, <3>1, SubSeqProperties
  <2>4. SendText(t, chunk) = t.sent \o SubSeq(chunk, t.e, x)
    BY <2>1 DEF SendText
  <2>5. t.sent \o SubSeq(chunk, t.e, x) \in Seq(Int)
    BY <1>1, <2>3, ConcatProperties
  <2>6. QED  BY <1>2, <2>4, <2>5
<1>3. CASE t.token # NoToken
  <2>1. t.e + t.sp - 1 < t.e /\ t.e \in Int /\ t.e + t.sp - 1 \in Int
    <3> DEFINE from == t.e
               text == t.sp
    <3>1. from \in Nat /\ text = 0
      BY <1>1, <1>3 DEF InChunk
    <3> HIDE DEF from, text
    <3>2. from + text - 1 < from /\ from \in Int /\ from + text - 1 \in Int
      BY <3>1
    <3>3. QED  BY <3>2 DEF from, text
  <2>2. SubSeq(chunk, t.e, t.e + t.sp - 1) = <<>>
    BY <2>1, SubSeqEmpty
  <2>3. t.sent \o <<>> = t.sent
    BY <1>1, ConcatEmptySeq
  <2>4. QED  BY <1>1, <1>3, <2>2, <2>3 DEF SendText
<1>4. QED  BY <1>2, <1>3

(* A token that has been read is not the mark for none. *)
LEMMA TokenIsNone ==
  /\ <<>> # NoToken
  /\ \A s \in Seq(Nat) : s # NoToken
  /\ \A s \in Seq(Int), byte \in Nat : Append(s, byte) # NoToken
<1>1. NoToken \in Seq(Int) /\ Len(NoToken) = 1 /\ NoToken[1] = -1
  BY DEF NoToken
<1>2. <<>> # NoToken
  <2> DEFINE none == <<>>
  <2>1. Len(none) = 0
    OBVIOUS
  <2> HIDE DEF none
  <2>2. ~(0 = 1)
    OBVIOUS
  <2>a. none # NoToken
    BY Zenon, <1>1, <2>1, <2>2
  <2>3. QED  BY <2>a DEF none
<1>3. ASSUME NEW s \in Seq(Nat), s = NoToken PROVE FALSE
  <2>1. 1 \in 1..Len(s)
    BY <1>1, <1>3
  <2>2. s[1] \in Nat
    BY <2>1, ElementOfSeq
  <2>3. QED  BY <1>1, <1>3, <2>2
<1>4. ASSUME NEW s \in Seq(Int), NEW byte \in Nat, Append(s, byte) = NoToken PROVE FALSE
  <2>1. Len(Append(s, byte)) = Len(s) + 1 /\ Append(s, byte)[Len(s) + 1] = byte /\ Len(s) \in Nat
    <3>1. byte \in Int
      OBVIOUS
    <3>2. QED  BY <3>1, AppendProperties, LenProperties
  <2>2. Len(s) = 0
    BY <1>1, <1>4, <2>1
  <2>3. QED  BY <1>1, <1>4, <2>1, <2>2
<1>5. QED  BY <1>2, <1>3, <1>4

LEMMA ValueType ==
  ASSUME NEW token \in Seq(Int)
  PROVE  Value(token) \in Seq(Int)
<1> DEFINE a == <<-2>>
           b == <<-3>>
<1>1. a \in Seq(Int) /\ b \in Seq(Int)
  OBVIOUS
<1> HIDE DEF a, b
<1>2. a \o token \in Seq(Int)
  BY <1>1, ConcatProperties
<1>3. (a \o token) \o b \in Seq(Int)
  BY <1>1, <1>2, ConcatProperties
<1>4. QED  BY <1>3 DEF Value, a, b

(* What one byte makes of t. *)
ByteResult(t, chunk, x, r) ==
  /\ InChunk(r, x)
  /\ t.token = NoToken /\ chunk[x] = Percent => r.token = <<>> /\ r.sent = SendText(t, chunk)
  /\ t.token = NoToken /\ chunk[x] # Percent => r.token = NoToken /\ r.e = t.e /\ r.sent = t.sent
  /\ t.token # NoToken /\ chunk[x] # Percent =>
       /\ r.token = IF Len(t.token) < MaxToken THEN Append(t.token, chunk[x]) ELSE t.token
       /\ r.sent = t.sent
  /\ t.token # NoToken /\ chunk[x] = Percent =>
       /\ r.token = NoToken /\ r.e = x + 1
       /\ r.sent = t.sent \o IF t.token = <<>> THEN <<Percent>> ELSE Value(t.token)

LEMMA TemplateByteIs ==
  ASSUME NEW chunk \in Seq(Nat), NEW x \in 1..Len(chunk), NEW t, InChunk(t, x - 1)
  PROVE  ByteResult(t, chunk, x, TemplateByte(t, chunk, x))
<1>0. /\ t \in TplData /\ t.e \in Nat /\ t.e >= 1 /\ t.sp \in Nat /\ t.token \in Seq(Int) /\ t.sent \in Seq(Int)
      /\ x \in Nat /\ x >= 1 /\ Len(chunk) \in Nat
  BY LenProperties DEF InChunk, TplData
<1>1. chunk[x] \in Nat
  BY ElementOfSeq
<1>2. CASE t.token = NoToken /\ chunk[x] = Percent
  <2>1. x - 1 \in 0..Len(chunk)
    BY <1>0
  <2>2. SendText(t, chunk) \in Seq(Int)
    BY <2>1, SendTextIs
  <2>3. TemplateByte(t, chunk, x) = [t EXCEPT !.sent = SendText(t, chunk), !.sp = 0, !.token = <<>>]
    BY <1>2 DEF TemplateByte, TextByte
  <2> DEFINE none == <<>>
             r == TemplateByte(t, chunk, x)
  <2>4. none \in Seq(Int) /\ none # NoToken
    BY TokenIsNone
  <2>5. r = [t EXCEPT !.sent = SendText(t, chunk), !.sp = 0, !.token = none]
    BY <2>3
  <2> HIDE DEF none, r
  <2>6. r \in TplData /\ r.e = t.e /\ r.sp = 0 /\ r.token = none /\ r.sent = SendText(t, chunk)
    BY <1>0, <2>2, <2>4, <2>5 DEF TplData
  <2>7. InChunk(r, x)
    BY <1>0, <2>4, <2>6 DEF InChunk
  <2>8. QED  BY <1>2, <2>6, <2>7 DEF r, none, ByteResult
<1>3. CASE t.token = NoToken /\ chunk[x] # Percent
  <2>1. TemplateByte(t, chunk, x) = [t EXCEPT !.sp = @ + 1]
    BY <1>3 DEF TemplateByte, TextByte
  <2> DEFINE r == TemplateByte(t, chunk, x)
             more == t.sp + 1
  <2>2. r = [t EXCEPT !.sp = more] /\ more \in Nat
    BY <1>0, <2>1
  <2>3. t.e + t.sp = (x - 1) + 1
    BY <1>3 DEF InChunk
  <2>4. t.e + more = x + 1
    <3> DEFINE from == t.e
               bytes == t.sp
    <3>1. from + bytes = (x - 1) + 1 /\ from \in Nat /\ bytes \in Nat /\ x \in Nat
      BY <1>0, <2>3
    <3> HIDE DEF from, bytes
    <3>2. from + (bytes + 1) = x + 1
      BY <3>1
    <3>3. QED  BY <3>2 DEF from, bytes
  <2> HIDE DEF r, more
  <2>5. r \in TplData /\ r.e = t.e /\ r.sp = more /\ r.token = t.token /\ r.sent = t.sent
    BY <1>0, <2>2 DEF TplData
  <2>6. InChunk(r, x)
    BY <1>0, <1>3, <2>4, <2>5 DEF InChunk
  <2>7. QED  BY <1>3, <2>5, <2>6 DEF r, ByteResult
<1>4. CASE t.token # NoToken /\ chunk[x] # Percent
  <2>1. t.sp = 0
    BY <1>4 DEF InChunk
  <2>2. TemplateByte(t, chunk, x) =
          IF Len(t.token) < MaxToken THEN [t EXCEPT !.token = Append(@, chunk[x])] ELSE t
    BY <1>4 DEF TemplateByte, TokenByte
  <2>3. CASE Len(t.token) < MaxToken
    <3> DEFINE r == TemplateByte(t, chunk, x)
               token == Append(t.token, chunk[x])
    <3>1. token # NoToken /\ token \in Seq(Int)
      <4>1. chunk[x] \in Int
        BY <1>1
      <4>2. QED  BY <1>0, <1>1, <4>1, TokenIsNone, AppendProperties
    <3>2. r = [t EXCEPT !.token = token]
      BY <2>2, <2>3
    <3> HIDE DEF r, token
    <3>3. r \in TplData /\ r.e = t.e /\ r.sp = t.sp /\ r.token = token /\ r.sent = t.sent
      BY <1>0, <3>1, <3>2 DEF TplData
    <3>4. InChunk(r, x)
      BY <1>0, <2>1, <3>1, <3>3 DEF InChunk
    <3>5. QED  BY <1>4, <2>3, <3>3, <3>4 DEF r, token, ByteResult
  <2>4. CASE ~(Len(t.token) < MaxToken)
    BY <1>0, <1>4, <2>1, <2>2, <2>4 DEF InChunk, ByteResult
  <2>5. QED  BY <2>3, <2>4
<1>5. CASE t.token # NoToken /\ chunk[x] = Percent
  <2> DEFINE v == IF t.token = <<>> THEN <<Percent>> ELSE Value(t.token)
  <2>1. t.sp = 0
    BY <1>5 DEF InChunk
  <2>2. TemplateByte(t, chunk, x) = [t EXCEPT !.sent = @ \o v, !.e = x + 1, !.token = NoToken]
    BY <1>5 DEF TemplateByte, TokenByte
  <2>3. v \in Seq(Int)
    BY <1>0, PercentIs, ValueType
  <2> HIDE DEF v
  <2> DEFINE r == TemplateByte(t, chunk, x)
             text == t.sent \o v
             next == x + 1
  <2>4. text \in Seq(Int) /\ next \in Nat /\ next >= 1 /\ next + 0 = x + 1
    BY <1>0, <2>3, ConcatProperties
  <2>5. r = [t EXCEPT !.sent = text, !.e = next, !.token = NoToken]
    BY <2>2
  <2>6. NoToken \in Seq(Int)
    BY DEF NoToken
  <2> HIDE DEF r, text, next
  <2>7. r \in TplData /\ r.e = next /\ r.sp = t.sp /\ r.token = NoToken /\ r.sent = text
    BY <1>0, <2>4, <2>5, <2>6 DEF TplData
  <2>8. InChunk(r, x)
    BY <2>1, <2>4, <2>7 DEF InChunk
  <2>9. QED  BY <1>5, <2>7, <2>8 DEF r, next, text, v, ByteResult
<1>6. QED  BY <1>2, <1>3, <1>4, <1>5

(* Recursion once more, its conclusion under a name. *)
Solvable(S, first, n, step) ==
  \E f : f \in [0..n -> S] /\ f[0] = first /\ \A i \in 1..n : f[i] = step[i][f[i - 1]]
LEMMA RecursionSolves ==
  ASSUME NEW S, NEW first \in S, NEW n \in Nat, NEW step \in [1..n -> [S -> S]]
  PROVE  Solvable(S, first, n, step)
BY Recursion DEF Solvable

(* A call goes through its chunk byte by byte, and sends what is left.     *)
LEMMA BytewiseIs ==
  ASSUME NEW chunk \in Seq(Nat), NEW t \in TplData
  PROVE  \E f : /\ f[0] = [t EXCEPT !.e = 1, !.sp = 0]
                /\ \A x \in 1..Len(chunk) : f[x] = TemplateByte(f[x - 1], chunk, x)
                /\ \A x \in 0..Len(chunk) : InChunk(f[x], x)
                /\ Bytewise(t, chunk) = [f[Len(chunk)] EXCEPT !.sent = SendText(f[Len(chunk)], chunk)]
<1> DEFINE len == Len(chunk)
           S == TplData
           first == [t EXCEPT !.e = 1, !.sp = 0]
           step == [x \in 1..len |-> [u \in S |-> IF InChunk(u, x - 1) THEN TemplateByte(u, chunk, x) ELSE u]]
           F(f) == f = [x \in 0..len |->
                     IF x = 0 THEN [t EXCEPT !.e = 1, !.sp = 0]
                     ELSE IF f[x - 1].token = NoToken THEN TextByte(f[x - 1], chunk, x)
                     ELSE TokenByte(f[x - 1], x, chunk[x])]
<1>1. len \in Nat
  BY LenProperties
<1>2. first \in S /\ InChunk(first, 0)
  <2>1. first \in S /\ first.e = 1 /\ first.sp = 0 /\ first.token = t.token
    BY DEF TplData
  <2> HIDE DEF first
  <2>2. QED  BY <2>1 DEF InChunk
<1>3. \A x \in 1..len : \A u : InChunk(u, x - 1) => InChunk(TemplateByte(u, chunk, x), x)
  BY TemplateByteIs DEF ByteResult
<1>4. step \in [1..len -> [S -> S]]
  <2>1. ASSUME NEW x \in 1..len, NEW u \in S, InChunk(u, x - 1) PROVE TemplateByte(u, chunk, x) \in S
    <3>1. InChunk(TemplateByte(u, chunk, x), x)
      BY <1>3, <2>1
    <3>2. QED  BY <3>1 DEF InChunk
  <2> HIDE DEF S, len
  <2>2. QED  BY <2>1
<1>5. \A x \in 1..len, u \in S : InChunk(u, x - 1) => step[x][u] = TemplateByte(u, chunk, x)
  OBVIOUS
<1> HIDE DEF step, S, first, len
<1>7. PICK g \in [0..len -> S] : g[0] = first /\ \A x \in 1..len : g[x] = step[x][g[x - 1]]
  <2>1. first \in S
    BY <1>2
  <2>2. Solvable(S, first, len, step)
    BY <1>1, <2>1, <1>4, RecursionSolves
  <2>3. QED  BY <2>2 DEF Solvable
<1>8. ASSUME NEW x \in 1..len, InChunk(g[x - 1], x - 1)
      PROVE  g[x] = TemplateByte(g[x - 1], chunk, x) /\ InChunk(g[x], x)
  <2>1. x - 1 \in 0..len
    BY <1>1
  <2>2. g[x - 1] \in S
    BY <1>7, <2>1
  <2>3. g[x] = TemplateByte(g[x - 1], chunk, x)
    BY <1>5, <1>7, <1>8, <2>2
  <2>4. QED  BY <1>3, <1>8, <2>3
<1>9. \A x \in 0..len : InChunk(g[x], x)
  <2> DEFINE T == {x \in 0..len : InChunk(g[x], x)}
  <2>1. 0 \in T
    BY <1>1, <1>2, <1>7
  <2>2. ASSUME NEW x \in 1..len, x - 1 \in T PROVE x \in T
    BY <1>1, <1>8, <2>2
  <2>3. T \subseteq {x \in 0..len : InChunk(g[x], x)}
    OBVIOUS
  <2> HIDE DEF T
  <2>4. 0..len \subseteq T
    BY <1>1, <2>1, <2>2, InductionTo
  <2>5. QED  BY <2>3, <2>4
<1>10. F(g)
  <2>1. ASSUME NEW x \in 0..len
        PROVE  g[x] = IF x = 0 THEN first
                      ELSE IF g[x - 1].token = NoToken THEN TextByte(g[x - 1], chunk, x)
                      ELSE TokenByte(g[x - 1], x, chunk[x])
    <3>1. CASE x = 0
      BY <1>7, <3>1
    <3>2. CASE x # 0
      <4>1. x \in 1..len /\ x - 1 \in 0..len
        BY <1>1, <3>2
      <4>2. g[x] = TemplateByte(g[x - 1], chunk, x)
        BY <1>8, <1>9, <4>1
      <4>3. QED  BY <3>2, <4>2 DEF TemplateByte
    <3>3. QED  BY <3>1, <3>2
  <2>2. g = [x \in 0..len |-> g[x]]
    BY <1>7
  <2> HIDE DEF F
  <2>3. g = [x \in 0..len |->
                     IF x = 0 THEN first
                     ELSE IF g[x - 1].token = NoToken THEN TextByte(g[x - 1], chunk, x)
                     ELSE TokenByte(g[x - 1], x, chunk[x])]
    BY <2>1, <2>2
  <2>4. QED  BY <2>3 DEF F, first
<1> DEFINE after == CHOOSE f : F(f)
<1>11. F(after)
  <2> HIDE DEF F
  <2>1. QED  BY <1>10
<1>12. Bytewise(t, chunk) = [after[len] EXCEPT !.sent = SendText(after[len], chunk)]
  BY Zenon DEF Bytewise, len
<1> HIDE DEF after
<1>13. after[0] = first /\ \A x \in 1..len : after[x] = TemplateByte(after[x - 1], chunk, x)
  <2>1. \A x \in 0..len : after[x] = IF x = 0 THEN first
                     ELSE IF after[x - 1].token = NoToken THEN TextByte(after[x - 1], chunk, x)
                     ELSE TokenByte(after[x - 1], x, chunk[x])
    BY <1>11 DEF first
  <2>2. 0 \in 0..len /\ \A x \in 1..len : x \in 0..len /\ x # 0
    BY <1>1
  <2>3. QED  BY <2>1, <2>2 DEF TemplateByte
<1> HIDE DEF F
<1>14. \A x \in 0..len : InChunk(after[x], x)
  <2> DEFINE T == {x \in 0..len : InChunk(after[x], x)}
  <2>1. 0 \in T
    BY <1>1, <1>2, <1>13
  <2>2. ASSUME NEW x \in 1..len, x - 1 \in T PROVE x \in T
    BY <1>1, <1>3, <1>13, <2>2
  <2>3. T \subseteq {x \in 0..len : InChunk(after[x], x)}
    OBVIOUS
  <2> HIDE DEF T
  <2>4. 0..len \subseteq T
    BY <1>1, <2>1, <2>2, InductionTo
  <2>5. QED  BY <2>3, <2>4
<1>15. QED  BY <1>12, <1>13, <1>14 DEF first, len

(* The parts of Expanded, by name.                                         *)
PercentFrom(bytes, k) ==
  LET after == {i \in k..Len(bytes) : bytes[i] = Percent}
  IN IF after = {} THEN Len(bytes) + 1 ELSE CHOOSE i \in after : \A j \in after : i <= j

TokenFor(name) ==
  IF name = <<>> THEN <<Percent>> ELSE Value(SubSeq(name, 1, Least(MaxToken, Len(name))))

Rest(bytes, f, k) ==
  LET i == PercentFrom(bytes, k)
      j == PercentFrom(bytes, i + 1)
  IN IF i > Len(bytes) THEN SubSeq(bytes, k, Len(bytes))
     ELSE IF j > Len(bytes) THEN SubSeq(bytes, k, i - 1)
     ELSE SubSeq(bytes, k, i - 1) \o TokenFor(SubSeq(bytes, i + 1, j - 1)) \o f[j + 1]

LEMMA PercentFromIs ==
  ASSUME NEW bytes \in Seq(Nat), NEW k \in 1..(Len(bytes) + 1)
  PROVE  /\ PercentFrom(bytes, k) \in k..(Len(bytes) + 1)
         /\ PercentFrom(bytes, k) <= Len(bytes) => bytes[PercentFrom(bytes, k)] = Percent
         /\ \A h \in k..(PercentFrom(bytes, k) - 1) : bytes[h] # Percent
<1> DEFINE n == Len(bytes)
           after == {i \in k..n : bytes[i] = Percent}
           p == PercentFrom(bytes, k)
<1>1. n \in Nat /\ k \in Nat /\ k >= 1 /\ k <= n + 1
  BY LenProperties
<1>2. CASE after = {}
  <2>1. p = n + 1
    BY <1>2 DEF PercentFrom
  <2>2. \A h \in k..n : bytes[h] # Percent
    BY <1>2
  <2> HIDE DEF p, n, after
  <2>3. p \in k..(n + 1) /\ ~(p <= n) /\ p - 1 = n
    BY <1>1, <2>1
  <2>4. QED  BY <2>2, <2>3 DEF p, n
<1>3. CASE after # {}
  <2>1. p = CHOOSE i \in after : \A j \in after : i <= j
    BY <1>3 DEF PercentFrom
  <2>2. \E i \in after : \A j \in after : i <= j
    <3>1. after \in SUBSET Nat
      BY <1>1
    <3> HIDE DEF after
    <3>2. QED  BY <1>3, <3>1, LeastNatural
  <2> HIDE DEF p
  <2>3. p \in after /\ \A j \in after : p <= j
    <3> HIDE DEF after
    <3>1. QED  BY <2>1, <2>2
  <2>4. p \in k..n /\ bytes[p] = Percent
    BY <2>3
  <2>5. ASSUME NEW h \in k..(p - 1) PROVE bytes[h] # Percent
    <3>1. h \in k..n /\ ~(p <= h)
      BY <1>1, <2>4
    <3>2. QED  BY <2>3, <3>1
  <2>6. p \in k..(n + 1)
    BY <1>1, <2>4
  <2>7. QED  BY <2>4, <2>5, <2>6 DEF p
<1>4. QED  BY <1>2, <1>3

(* It is known by what it is.                                              *)
LEMMA PercentFound ==
  ASSUME NEW bytes \in Seq(Nat), NEW k \in 1..(Len(bytes) + 1), NEW i \in k..(Len(bytes) + 1),
         i <= Len(bytes) => bytes[i] = Percent,
         \A h \in k..(i - 1) : bytes[h] # Percent
  PROVE  PercentFrom(bytes, k) = i
<1> DEFINE n == Len(bytes)
           p == PercentFrom(bytes, k)
<1>1. /\ p \in k..(n + 1) /\ (p <= n => bytes[p] = Percent)
      /\ \A h \in k..(p - 1) : bytes[h] # Percent
  BY PercentFromIs
<1>2. n \in Nat /\ k \in Nat /\ i \in k..(n + 1)
  BY LenProperties
<1>a. i <= n => bytes[i] = Percent
  OBVIOUS
<1> HIDE DEF n, p
<1>3. ~(p < i)
  BY <1>1, <1>2
<1>4. ~(i < p)
  BY <1>1, <1>2, <1>a
<1>5. p = i
  BY <1>1, <1>2, <1>3, <1>4
<1>6. QED  BY <1>5 DEF p

(* A part of a file. *)
LEMMA PartType ==
  ASSUME NEW bytes \in Seq(Nat), NEW a \in 1..(Len(bytes) + 1), NEW b \in 0..Len(bytes)
  PROVE  /\ SubSeq(bytes, a, b) \in Seq(Int) /\ SubSeq(bytes, a, b) \in Seq(Nat)
         /\ Len(SubSeq(bytes, a, b)) = IF a <= b THEN b - a + 1 ELSE 0
<1>1. \A i \in a..b : bytes[i] \in Nat
  <2> TAKE i \in a..b
  <2>1. i \in 1..Len(bytes)
    BY LenProperties
  <2>2. QED  BY <2>1, ElementOfSeq
<1>2. a \in Int /\ b \in Int /\ \A i \in a..b : bytes[i] \in Int
  BY <1>1
<1>3. QED  BY <1>1, <1>2, SubSeqProperties

LEMMA TokenForType ==
  ASSUME NEW name \in Seq(Nat)
  PROVE  TokenFor(name) \in Seq(Int)
<1>1. CASE name = <<>>
  BY <1>1, PercentIs DEF TokenFor
<1>2. CASE name # <<>>
  <2>1. Len(name) \in Nat /\ Least(MaxToken, Len(name)) \in 0..Len(name)
    BY PercentIs, LenProperties DEF Least
  <2>2. 1 \in 1..(Len(name) + 1)
    BY <2>1
  <2>3. SubSeq(name, 1, Least(MaxToken, Len(name))) \in Seq(Int)
    BY <2>1, <2>2, PartType
  <2>4. QED  BY <1>2, <2>3, ValueType DEF TokenFor
<1>3. QED  BY <1>1, <1>2

(* What Rest looks at behind its place. *)
LEMMA RestType ==
  ASSUME NEW bytes \in Seq(Nat), NEW k \in 1..(Len(bytes) + 1), NEW f,
         \A h \in (k + 1)..(Len(bytes) + 1) : f[h] \in Seq(Int)
  PROVE  Rest(bytes, f, k) \in Seq(Int)
<1> DEFINE n == Len(bytes)
           i == PercentFrom(bytes, k)
           j == PercentFrom(bytes, i + 1)
<1>1. n \in Nat /\ k \in Nat /\ k >= 1 /\ k <= n + 1
  BY LenProperties
<1>2. i \in k..(n + 1)
  BY PercentFromIs
<1>3. CASE i > n
  <2>1. Rest(bytes, f, k) = SubSeq(bytes, k, n)
    BY <1>3 DEF Rest
  <2>2. n \in 0..n
    BY <1>1
  <2>3. QED  BY <2>1, <2>2, PartType
<1>4. CASE ~(i > n)
  <2> HIDE DEF i
  <2>1. i + 1 \in 1..(n + 1) /\ i - 1 \in 0..n /\ i \in Nat
    BY <1>1, <1>2, <1>4
  <2>2. j \in (i + 1)..(n + 1)
    BY <2>1, PercentFromIs
  <2>3. SubSeq(bytes, k, i - 1) \in Seq(Int)
    BY <2>1, PartType
  <2>4. CASE j > n
    BY <1>4, <2>3, <2>4 DEF Rest, i
  <2>5. CASE ~(j > n)
    <3>1. Rest(bytes, f, k) = SubSeq(bytes, k, i - 1) \o TokenFor(SubSeq(bytes, i + 1, j - 1)) \o f[j + 1]
      BY <1>4, <2>5 DEF Rest, i
    <3> HIDE DEF j
    <3>2. j - 1 \in 0..n /\ j + 1 \in (k + 1)..(n + 1)
      BY <1>1, <1>2, <2>1, <2>2, <2>5
    <3>3. SubSeq(bytes, i + 1, j - 1) \in Seq(Nat)
      BY <2>1, <3>2, PartType
    <3>4. TokenFor(SubSeq(bytes, i + 1, j - 1)) \in Seq(Int)
      BY <3>3, TokenForType
    <3>5. f[j + 1] \in Seq(Int)
      BY <3>2
    <3> DEFINE a == SubSeq(bytes, k, i - 1)
               b == TokenFor(SubSeq(bytes, i + 1, j - 1))
               c == f[j + 1]
    <3>6. a \in Seq(Int) /\ b \in Seq(Int) /\ c \in Seq(Int)
      BY <2>3, <3>4, <3>5
    <3>7. Rest(bytes, f, k) = (a \o b) \o c
      BY <3>1
    <3> HIDE DEF a, b, c
    <3>8. a \o b \in Seq(Int)
      BY <3>6, ConcatProperties
    <3>9. (a \o b) \o c \in Seq(Int)
      BY <3>6, <3>8, ConcatProperties
    <3>10. QED  BY <3>7, <3>9
  <2>6. QED  BY <2>4, <2>5
<1>5. QED  BY <1>3, <1>4

LEMMA RestSame ==
  ASSUME NEW bytes \in Seq(Nat), NEW k \in 1..(Len(bytes) + 1), NEW f, NEW g,
         \A h \in (k + 1)..(Len(bytes) + 1) : f[h] = g[h]
  PROVE  Rest(bytes, f, k) = Rest(bytes, g, k)
<1> DEFINE n == Len(bytes)
           i == PercentFrom(bytes, k)
           j == PercentFrom(bytes, i + 1)
<1>1. n \in Nat /\ k \in Nat /\ k >= 1 /\ k <= n + 1
  BY LenProperties
<1>2. i \in k..(n + 1)
  BY PercentFromIs
<1>3. CASE i > n \/ j > n
  BY <1>3 DEF Rest
<1>4. CASE ~(i > n) /\ ~(j > n)
  <2>1. i + 1 \in 1..(n + 1) /\ i \in Nat
    <3> HIDE DEF i, j
    <3>1. QED  BY <1>1, <1>2, <1>4
  <2>2. j \in (i + 1)..(n + 1)
    <3> HIDE DEF i
    <3>1. QED  BY <2>1, PercentFromIs
  <2>3. j + 1 \in (k + 1)..(n + 1)
    <3> HIDE DEF i, j
    <3>1. QED  BY <1>1, <1>2, <1>4, <2>2
  <2>4. f[j + 1] = g[j + 1]
    <3> HIDE DEF i, j
    <3>1. QED  BY <2>3
  <2>5. QED  BY <1>4, <2>4 DEF Rest
<1>5. QED  BY <1>3, <1>4

(* The tables that Expanded is the first entry of: from the end of the     *)
(* file on, each entry is made from those behind it.                       *)
Table(bytes, f) ==
  /\ f \in [1..(Len(bytes) + 1) -> Seq(Int)]
  /\ \A k \in 1..(Len(bytes) + 1) : f[k] = Rest(bytes, f, k)

LEMMA TableExists ==
  ASSUME NEW bytes \in Seq(Nat)
  PROVE  \E f : Table(bytes, f)
<1> DEFINE n == Len(bytes)
           D == 1..(n + 1)
           S == [D -> Seq(Int)]
           first == [k \in D |-> <<>>]
           at(d) == n + 2 - d
           step == [d \in 1..(n + 1) |-> [f \in S |-> [f EXCEPT ![at(d)] = Rest(bytes, f, at(d))]]]
<1>1. n \in Nat /\ n + 1 \in Nat
  BY LenProperties
<1>2. first \in S
  OBVIOUS
<1>3. ASSUME NEW d \in 1..(n + 1) PROVE at(d) \in D
  BY <1>1
<1>4. ASSUME NEW d \in 1..(n + 1), NEW f \in S
      PROVE  Rest(bytes, f, at(d)) \in Seq(Int)
  <2>1. at(d) \in D
    BY <1>3
  <2>2. \A h \in (at(d) + 1)..(n + 1) : f[h] \in Seq(Int)
    <3> TAKE h \in (at(d) + 1)..(n + 1)
    <3>1. h \in D
      BY <1>1, <2>1
    <3>2. QED  BY <3>1
  <2> HIDE DEF at
  <2>3. QED  BY <2>1, <2>2, RestType
<1>5. step \in [1..(n + 1) -> [S -> S]]
  <2>1. ASSUME NEW d \in 1..(n + 1), NEW f \in S
        PROVE  [f EXCEPT ![at(d)] = Rest(bytes, f, at(d))] \in S
    <3>1. Rest(bytes, f, at(d)) \in Seq(Int)
      BY <1>4
    <3> HIDE DEF at, D
    <3>2. QED  BY <3>1
  <2> HIDE DEF S, at, n
  <2>2. QED  BY <2>1
<1>6. \A d \in 1..(n + 1), f \in S : step[d][f] = [f EXCEPT ![at(d)] = Rest(bytes, f, at(d))]
  <2> HIDE DEF S, at, n
  <2>1. QED  OBVIOUS
<1> HIDE DEF step, S, first
<1>7. PICK g : /\ g \in [0..(n + 1) -> S] /\ g[0] = first
               /\ \A d \in 1..(n + 1) : g[d] = step[d][g[d - 1]]
  <2>1. Solvable(S, first, n + 1, step)
    BY <1>1, <1>2, <1>5, RecursionSolves
  <2>2. QED  BY <2>1 DEF Solvable
<1>8. ASSUME NEW d \in 1..(n + 1)
      PROVE  /\ g[d] \in S /\ g[d - 1] \in S /\ d - 1 \in 0..(n + 1)
             /\ g[d] = [g[d - 1] EXCEPT ![at(d)] = Rest(bytes, g[d - 1], at(d))]
  <2>1. d - 1 \in 0..(n + 1) /\ d \in 0..(n + 1)
    BY <1>1
  <2>2. g[d - 1] \in S /\ g[d] \in S
    BY <1>7, <2>1
  <2>3. QED  BY <1>6, <1>7, <2>1, <2>2
<1> DEFINE T == {d \in 0..(n + 1) : \A k \in D : k > n + 1 - d => g[d][k] = Rest(bytes, g[d], k)}
<1>9. 0 \in T
  BY <1>1
<1>10. ASSUME NEW d \in 1..(n + 1), d - 1 \in T PROVE d \in T
  <2> SUFFICES ASSUME NEW k \in D, k > n + 1 - d PROVE g[d][k] = Rest(bytes, g[d], k)
    BY <1>1
  <2> DEFINE p == at(d)
             u == g[d - 1]
             v == g[d]
             r == Rest(bytes, u, p)
  <2>1. p \in D /\ p = n + 2 - d
    BY <1>3
  <2>2. v = [u EXCEPT ![p] = r] /\ u \in [D -> Seq(Int)] /\ v \in [D -> Seq(Int)]
    BY <1>8 DEF S
  <2>3. \A h \in D : h # p => v[h] = u[h]
    <3> HIDE DEF v, u, p, r, D
    <3>1. QED  BY <2>2
  <2>4. v[p] = r
    <3> HIDE DEF v, u, p, r, D
    <3>1. QED  BY <2>1, <2>2
  <2>5. k = p \/ k > n + 1 - (d - 1)
    BY <1>1, <2>1
  <2>6. k >= p
    BY <1>1, <2>1, <2>5
  <2>7. Rest(bytes, v, k) = Rest(bytes, u, k)
    <3>1. \A h \in (k + 1)..(n + 1) : h \in D /\ h # p
      <4> HIDE DEF p, v, u
      <4>1. QED  BY <1>1, <2>1, <2>6
    <3>2. \A h \in (k + 1)..(n + 1) : v[h] = u[h]
      BY <2>3, <3>1
    <3> HIDE DEF v, u
    <3>3. QED  BY <3>2, RestSame
  <2>8. CASE k = p
    BY <2>4, <2>7, <2>8
  <2>9. CASE k # p
    <3>1. u[k] = Rest(bytes, u, k)
      BY <1>10, <2>5, <2>9
    <3>2. v[k] = u[k]
      BY <2>3, <2>9
    <3>3. QED  BY <2>7, <3>1, <3>2
  <2>10. QED  BY <2>8, <2>9
<1>11. T \subseteq {d \in 0..(n + 1) : \A k \in D : k > n + 1 - d => g[d][k] = Rest(bytes, g[d], k)}
  OBVIOUS
<1> HIDE DEF T
<1>12. 0..(n + 1) \subseteq T
  BY <1>1, <1>9, <1>10, InductionTo
<1>13. n + 1 \in 0..(n + 1) /\ \A k \in D : k > n + 1 - (n + 1)
  BY <1>1
<1>14. g[n + 1] \in [D -> Seq(Int)]
  BY <1>7, <1>13 DEF S
<1>15. \A k \in D : g[n + 1][k] = Rest(bytes, g[n + 1], k)
  BY <1>11, <1>12, <1>13
<1>16. Table(bytes, g[n + 1])
  BY <1>14, <1>15 DEF Table
<1>17. QED  BY <1>16

LEMMA ExpandedIs ==
  ASSUME NEW bytes \in Seq(Nat)
  PROVE  \E f : Table(bytes, f) /\ Expanded(bytes) = f[1]
<1> DEFINE n == Len(bytes)
           NextPercent(k) ==
             LET after == {i \in k..n : bytes[i] = Percent}
             IN IF after = {} THEN n + 1 ELSE CHOOSE i \in after : \A j \in after : i <= j
           F(f) == f = [k \in 1..(n + 1) |->
             LET i == NextPercent(k)
                 j == NextPercent(i + 1)
                 name == SubSeq(bytes, i + 1, j - 1)
             IN IF i > n THEN SubSeq(bytes, k, n)
                ELSE IF j > n THEN SubSeq(bytes, k, i - 1)
                ELSE SubSeq(bytes, k, i - 1)
                       \o (IF name = <<>> THEN <<Percent>>
                           ELSE Value(SubSeq(name, 1, Least(MaxToken, Len(name)))))
                       \o f[j + 1]]
           from == CHOOSE f : F(f)
<1>1. Expanded(bytes) = from[1]
  BY Zenon DEF Expanded
<1>2. ASSUME NEW f PROVE F(f) <=> f = [k \in 1..(n + 1) |-> Rest(bytes, f, k)]
  BY Zenon DEF Rest, TokenFor, PercentFrom
<1> HIDE DEF F
<1>3. \E f : F(f)
  <2>1. PICK f : Table(bytes, f)
    BY TableExists
  <2>2. f = [k \in 1..(n + 1) |-> f[k]] /\ \A k \in 1..(n + 1) : f[k] = Rest(bytes, f, k)
    BY <2>1 DEF Table
  <2>3. f = [k \in 1..(n + 1) |-> Rest(bytes, f, k)]
    <3> HIDE DEF n
    <3>1. QED  BY <2>2
  <2>4. QED  BY <1>2, <2>3
<1>4. F(from)
  BY <1>3
<1> HIDE DEF from
<1>5. from = [k \in 1..(n + 1) |-> Rest(bytes, from, k)]
  BY <1>2, <1>4
<1>6. n \in Nat /\ n + 1 \in Nat
  BY LenProperties
<1>7. \A k \in 1..(n + 1) : from[k] = Rest(bytes, from, k)
  <2> HIDE DEF n
  <2>1. QED  BY <1>5
<1>8. from \in [1..(n + 1) -> Seq(Int)]
  <2> DEFINE T == {d \in 0..(n + 1) : \A k \in 1..(n + 1) : k > n + 1 - d => from[k] \in Seq(Int)}
  <2>1. 0 \in T
    BY <1>6
  <2>2. ASSUME NEW d \in 1..(n + 1), d - 1 \in T PROVE d \in T
    <3> SUFFICES ASSUME NEW k \in 1..(n + 1), k > n + 1 - d PROVE from[k] \in Seq(Int)
      BY <1>6
    <3>1. \A h \in (k + 1)..(n + 1) : h \in 1..(n + 1) /\ h > n + 1 - (d - 1)
      BY <1>6
    <3>2. \A h \in (k + 1)..(n + 1) : from[h] \in Seq(Int)
      BY <2>2, <3>1
    <3>3. Rest(bytes, from, k) \in Seq(Int)
      BY <3>2, RestType
    <3>4. QED  BY <1>7, <3>3
  <2>3. T \subseteq {d \in 0..(n + 1) : \A k \in 1..(n + 1) : k > n + 1 - d => from[k] \in Seq(Int)}
    OBVIOUS
  <2> HIDE DEF T
  <2>4. 0..(n + 1) \subseteq T
    BY <1>6, <2>1, <2>2, InductionTo
  <2>5. n + 1 \in T /\ \A k \in 1..(n + 1) : k > n + 1 - (n + 1)
    BY <1>6, <2>4
  <2>6. \A k \in 1..(n + 1) : from[k] \in Seq(Int)
    BY <2>3, <2>5
  <2>7. from = [k \in 1..(n + 1) |-> from[k]]
    <3> HIDE DEF n
    <3>1. QED  BY <1>5
  <2> HIDE DEF n
  <2>8. QED  BY <2>6, <2>7
<1>9. Table(bytes, from)
  BY <1>7, <1>8 DEF Table
<1>10. QED  BY <1>1, <1>9

(* Up to its k-th byte a file has been sent as it should be: what was sent *)
(* before place m is right (before), and from m on there is only text, or  *)
(* text up to a percent sign at i and then a part of a token.              *)
InText(bytes, k, m, before, token, sent) ==
  /\ token = NoToken
  /\ sent = before \o SubSeq(bytes, m, k)
  /\ \A h \in m..k : bytes[h] # Percent

InToken(bytes, k, m, i, before, token, sent) ==
  /\ bytes[i] = Percent
  /\ \A h \in m..(i - 1) : bytes[h] # Percent
  /\ \A h \in (i + 1)..k : bytes[h] # Percent
  /\ sent = before \o SubSeq(bytes, m, i - 1)
  /\ token = SubSeq(bytes, i + 1, i + Least(MaxToken, k - i))

Sends(bytes, f, k, token, sent) ==
  \E m \in 1..(k + 1), before \in Seq(Int) :
    /\ before \o f[m] = f[1]
    /\ \/ InText(bytes, k, m, before, token, sent)
       \/ \E i \in m..k : InToken(bytes, k, m, i, before, token, sent)

LEMMA NothingSent ==
  ASSUME NEW bytes \in Seq(Nat), NEW f, Table(bytes, f)
  PROVE  Sends(bytes, f, 0, NoToken, <<>>)
<1> DEFINE none == <<>>
<1>1. none \in Seq(Int) /\ none \o none = none
  OBVIOUS
<1>2. 1 \in 1..(Len(bytes) + 1)
  BY LenProperties
<1>3. f[1] \in Seq(Int)
  BY <1>2 DEF Table
<1>4. none \o f[1] = f[1]
  BY <1>3, ConcatEmptySeq
<1>5. SubSeq(bytes, 1, 0) = none
  BY SubSeqEmpty
<1> HIDE DEF none
<1>6. InText(bytes, 0, 1, none, NoToken, none)
  BY <1>1, <1>5 DEF InText
<1>7. 1 \in 1..(0 + 1)
  OBVIOUS
<1>8. Sends(bytes, f, 0, NoToken, none)
  BY <1>1, <1>4, <1>6, <1>7 DEF Sends
<1>9. QED  BY <1>8 DEF none

LEMMA JoinedThrice ==
  ASSUME NEW s \in Seq(Int), NEW t \in Seq(Int), NEW u \in Seq(Int)
  PROVE  (s \o t) \o u = s \o (t \o u)
BY ConcatAssociative

(* Outside tokens what was sent last is text. *)
LEMMA TextIs ==
  ASSUME NEW bytes \in Seq(Nat), NEW f, NEW k \in 0..Len(bytes), NEW sent,
         Sends(bytes, f, k, NoToken, sent)
  PROVE  \E m \in 1..(k + 1), before \in Seq(Int) :
           before \o f[m] = f[1] /\ InText(bytes, k, m, before, NoToken, sent)
<1>1. PICK m \in 1..(k + 1), before \in Seq(Int) :
        /\ before \o f[m] = f[1]
        /\ \/ InText(bytes, k, m, before, NoToken, sent)
           \/ \E i \in m..k : InToken(bytes, k, m, i, before, NoToken, sent)
  BY DEF Sends
<1>2. Len(bytes) \in Nat /\ k \in Nat /\ m \in Nat /\ m >= 1 /\ m <= k + 1 /\ k <= Len(bytes)
  BY LenProperties
<1>3. ASSUME NEW i \in m..k, InToken(bytes, k, m, i, before, NoToken, sent) PROVE FALSE
  <2>1. k - i \in Nat /\ Least(MaxToken, k - i) \in 0..(k - i)
    BY <1>2, PercentIs DEF Least
  <2>2. i + 1 \in 1..(Len(bytes) + 1) /\ i + Least(MaxToken, k - i) \in 0..Len(bytes)
    BY <1>2, <2>1
  <2>3. SubSeq(bytes, i + 1, i + Least(MaxToken, k - i)) \in Seq(Nat)
    BY <2>2, PartType
  <2>4. QED  BY <1>3, <2>3, TokenIsNone DEF InToken
<1>4. InText(bytes, k, m, before, NoToken, sent)
  BY <1>1, <1>3
<1>5. QED  BY <1>1, <1>4

(* One more byte of text. *)
LEMMA TextGoesOn ==
  ASSUME NEW bytes \in Seq(Nat), NEW f, NEW k \in 0..(Len(bytes) - 1), NEW sent,
         Sends(bytes, f, k, NoToken, sent), bytes[k + 1] # Percent
  PROVE  Sends(bytes, f, k + 1, NoToken, sent \o <<bytes[k + 1]>>)
<1>1. PICK m \in 1..(k + 1), before \in Seq(Int) :
        before \o f[m] = f[1] /\ InText(bytes, k, m, before, NoToken, sent)
  <2>1. k \in 0..Len(bytes)
    BY LenProperties
  <2>2. QED  BY <2>1, TextIs
<1>2. Len(bytes) \in Nat /\ k \in Nat /\ m \in Nat /\ m >= 1 /\ m <= k + 1 /\ k + 1 <= Len(bytes)
  BY LenProperties
<1> DEFINE a == SubSeq(bytes, m, k)
           b == <<bytes[k + 1]>>
<1>5. a \in Seq(Int) /\ b \in Seq(Int)
  <2>1. m \in 1..(Len(bytes) + 1) /\ k \in 0..Len(bytes) /\ k + 1 \in 1..Len(bytes)
    BY <1>2
  <2>2. bytes[k + 1] \in Nat
    BY <2>1, ElementOfSeq
  <2>3. QED  BY <2>1, <2>2, PartType
<1>6. SubSeq(bytes, m, k + 1) = a \o b
  <2>1. m \in 1..Len(bytes) /\ k + 1 \in m..Len(bytes) /\ (k + 1) - 1 = k
    BY <1>2
  <2>2. SubSeq(bytes, m, k + 1) = SubSeq(bytes, m, (k + 1) - 1) \o <<bytes[k + 1]>>
    BY <2>1, SubSeqRecursiveSecond
  <2>3. QED  BY <2>1, <2>2
<1>7. sent = before \o a
  BY <1>1 DEF InText
<1> HIDE DEF a, b
<1>8. (before \o a) \o b = before \o (a \o b)
  BY <1>5, JoinedThrice
<1>9. \A h \in m..(k + 1) : bytes[h] # Percent
  <2> TAKE h \in m..(k + 1)
  <2>1. h \in m..k \/ h = k + 1
    BY <1>2
  <2>2. QED  BY <1>1, <2>1 DEF InText
<1>10. InText(bytes, k + 1, m, before, NoToken, sent \o b)
  BY <1>6, <1>7, <1>8, <1>9 DEF InText
<1>11. m \in 1..((k + 1) + 1)
  BY <1>2
<1>12. Sends(bytes, f, k + 1, NoToken, sent \o b)
  BY <1>1, <1>10, <1>11 DEF Sends
<1>13. QED  BY <1>12 DEF b

(* A percent sign in text begins a token. *)
LEMMA TokenBegins ==
  ASSUME NEW bytes \in Seq(Nat), NEW f, NEW k \in 0..(Len(bytes) - 1), NEW sent,
         Sends(bytes, f, k, NoToken, sent), bytes[k + 1] = Percent
  PROVE  Sends(bytes, f, k + 1, <<>>, sent)
<1>1. PICK m \in 1..(k + 1), before \in Seq(Int) :
        before \o f[m] = f[1] /\ InText(bytes, k, m, before, NoToken, sent)
  <2>1. k \in 0..Len(bytes)
    BY LenProperties
  <2>2. QED  BY <2>1, TextIs
<1>2. Len(bytes) \in Nat /\ k \in Nat /\ m \in Nat /\ m >= 1 /\ m <= k + 1 /\ k + 1 <= Len(bytes)
  BY LenProperties
<1> DEFINE i == k + 1
           none == <<>>
<1>5. i \in m..(k + 1) /\ i - 1 = k /\ (k + 1) - i = 0 /\ m \in 1..((k + 1) + 1)
  BY <1>2
<1>6. Least(MaxToken, (k + 1) - i) = 0
  BY <1>5, PercentIs DEF Least
<1>7. SubSeq(bytes, i + 1, i + Least(MaxToken, (k + 1) - i)) = none
  <2>1. i + 1 \in Int /\ i + 0 \in Int /\ i + 0 < i + 1
    BY <1>2
  <2>2. QED  BY <1>6, <2>1, SubSeqEmpty
<1>8. \A h \in (i + 1)..(k + 1) : bytes[h] # Percent
  BY <1>2
<1>9. bytes[i] = Percent
  OBVIOUS
<1> HIDE DEF i, none
<1>10. InToken(bytes, k + 1, m, i, before, none, sent)
  BY <1>1, <1>5, <1>7, <1>8, <1>9 DEF InToken, InText
<1>11. Sends(bytes, f, k + 1, none, sent)
  BY <1>1, <1>5, <1>10 DEF Sends
<1>12. QED  BY <1>11 DEF none

(* One more byte of a token, of which MaxToken are kept. *)
LEMMA TokenGoesOn ==
  ASSUME NEW bytes \in Seq(Nat), NEW f, NEW k \in 0..(Len(bytes) - 1), NEW sent, NEW token,
         Sends(bytes, f, k, token, sent), token # NoToken, bytes[k + 1] # Percent
  PROVE  Sends(bytes, f, k + 1, IF Len(token) < MaxToken THEN Append(token, bytes[k + 1]) ELSE token, sent)
<1>1. PICK m \in 1..(k + 1), before \in Seq(Int) :
        before \o f[m] = f[1] /\ \E i \in m..k : InToken(bytes, k, m, i, before, token, sent)
  BY DEF Sends, InText
<1>2. PICK i \in m..k : InToken(bytes, k, m, i, before, token, sent)
  BY <1>1
<1> DEFINE n == Len(bytes)
           d == k - i
           l == Least(MaxToken, d)
           more == IF Len(token) < MaxToken THEN Append(token, bytes[k + 1]) ELSE token
<1>3. /\ n \in Nat /\ k \in Nat /\ m \in Nat /\ m >= 1 /\ m <= k + 1 /\ k + 1 <= n
      /\ i \in Nat /\ i >= m /\ i <= k /\ d \in Nat /\ d = k - i /\ (k + 1) - i = d + 1
      /\ MaxToken \in Nat /\ MaxToken > 0
  BY LenProperties, PercentIs
<1> HIDE DEF n, d
<1>4. l \in Nat /\ l <= d /\ (l < MaxToken => l = d) /\ (~(l < MaxToken) => l = MaxToken)
  BY <1>3 DEF Least
<1>5. token = SubSeq(bytes, i + 1, i + l)
  BY <1>2 DEF InToken, d
<1> HIDE DEF l
<1>6. token \in Seq(Nat) /\ Len(token) = l
  <2>1. i + 1 \in 1..(n + 1) /\ i + l \in 0..n
    BY <1>3, <1>4
  <2>2. /\ SubSeq(bytes, i + 1, i + l) \in Seq(Nat)
        /\ Len(SubSeq(bytes, i + 1, i + l)) = IF i + 1 <= i + l THEN (i + l) - (i + 1) + 1 ELSE 0
    BY <2>1, PartType DEF n
  <2>3. (IF i + 1 <= i + l THEN (i + l) - (i + 1) + 1 ELSE 0) = l
    BY <1>3, <1>4
  <2>4. QED  BY <1>5, <2>2, <2>3
<1>7. more = SubSeq(bytes, i + 1, i + Least(MaxToken, (k + 1) - i))
  <2>1. CASE l < MaxToken
    <3>1. Least(MaxToken, d + 1) = d + 1 /\ l = d /\ i + l = k /\ i + (d + 1) = k + 1
      BY <1>3, <1>4, <2>1 DEF Least
    <3>2. i + 1 \in 1..n /\ k + 1 \in (i + 1)..n /\ (k + 1) - 1 = k /\ k + 1 \in 1..n
      BY <1>3
    <3>3. SubSeq(bytes, i + 1, k + 1) = SubSeq(bytes, i + 1, (k + 1) - 1) \o <<bytes[k + 1]>>
      BY <3>2, SubSeqRecursiveSecond DEF n
    <3>4. bytes[k + 1] \in Nat
      BY <3>2, ElementOfSeq DEF n
    <3>5. Append(token, bytes[k + 1]) = token \o <<bytes[k + 1]>>
      BY <1>6, <3>4, AppendIsConcat
    <3>6. more = Append(token, bytes[k + 1])
      BY <1>6, <2>1
    <3> HIDE DEF more
    <3>7. QED  BY <1>3, <1>5, <3>1, <3>2, <3>3, <3>5, <3>6
  <2>2. CASE ~(l < MaxToken)
    <3>1. Least(MaxToken, d + 1) = MaxToken /\ l = MaxToken
      BY <1>3, <1>4, <2>2 DEF Least
    <3>2. more = token
      BY <1>6, <2>2
    <3> HIDE DEF more
    <3>3. QED  BY <1>3, <1>5, <3>1, <3>2
  <2>3. QED  BY <2>1, <2>2
<1> HIDE DEF more
<1>8. \A h \in (i + 1)..(k + 1) : bytes[h] # Percent
  <2> TAKE h \in (i + 1)..(k + 1)
  <2>1. h \in (i + 1)..k \/ h = k + 1
    BY <1>3
  <2>2. QED  BY <1>2, <2>1 DEF InToken
<1>9. InToken(bytes, k + 1, m, i, before, more, sent)
  BY <1>2, <1>7, <1>8 DEF InToken
<1>10. m \in 1..((k + 1) + 1) /\ i \in m..(k + 1)
  BY <1>3
<1>11. Sends(bytes, f, k + 1, more, sent)
  BY <1>1, <1>9, <1>10 DEF Sends
<1>12. QED  BY <1>11 DEF more

(* What a token is, cut to MaxToken, of the name between percent signs. *)
LEMMA TokenIs ==
  ASSUME NEW bytes \in Seq(Nat), NEW k \in 1..Len(bytes), NEW i \in 1..k
  PROVE  LET token == SubSeq(bytes, i + 1, i + Least(MaxToken, k - i))
         IN  TokenFor(SubSeq(bytes, i + 1, k)) = IF token = <<>> THEN <<Percent>> ELSE Value(token)
<1> DEFINE n == Len(bytes)
           d == k - i
           l == Least(MaxToken, d)
           token == SubSeq(bytes, i + 1, i + l)
           name == SubSeq(bytes, i + 1, k)
<1>1. /\ n \in Nat /\ k \in Nat /\ k <= n /\ i \in Nat /\ i >= 1 /\ i <= k
      /\ d \in Nat /\ d = k - i /\ MaxToken \in Nat /\ MaxToken > 0
  BY LenProperties, PercentIs
<1>2. l \in Nat /\ l <= d /\ (l = 0 <=> d = 0)
  <2> HIDE DEF d
  <2>1. QED  BY <1>1 DEF Least
<1>3. i + 1 \in 1..(n + 1) /\ k \in 0..n /\ i + l \in 0..n
  <2> HIDE DEF l, d, n
  <2>1. QED  BY <1>1, <1>2
<1>4. name \in Seq(Nat) /\ Len(name) = d
  <2>1. name \in Seq(Nat) /\ Len(name) = IF i + 1 <= k THEN k - (i + 1) + 1 ELSE 0
    BY <1>3, PartType
  <2>2. (IF i + 1 <= k THEN k - (i + 1) + 1 ELSE 0) = d
    <3> HIDE DEF name, n, l
    <3>1. QED  BY <1>1
  <2>3. QED  BY <2>1, <2>2
<1>5. CASE d = 0
  <2>1. name = <<>> /\ token = <<>>
    <3>1. i + 1 \in Int /\ k \in Int /\ k < i + 1 /\ i + l \in Int /\ i + l < i + 1
      <4> HIDE DEF l, d, n
      <4>1. QED  BY <1>1, <1>2, <1>5
    <3> HIDE DEF l
    <3>2. QED  BY <3>1, SubSeqEmpty
  <2> HIDE DEF name, token
  <2>2. TokenFor(name) = IF token = <<>> THEN <<Percent>> ELSE Value(token)
    BY <2>1 DEF TokenFor
  <2>3. QED  BY <2>2 DEF name, token, l, d
<1>6. CASE d # 0
  <2>1. Len(token) # 0 /\ token \in Seq(Nat)
    <3>1. token \in Seq(Nat) /\ Len(token) = IF i + 1 <= i + l THEN (i + l) - (i + 1) + 1 ELSE 0
      <4> HIDE DEF l
      <4>1. QED  BY <1>3, PartType
    <3>2. (IF i + 1 <= i + l THEN (i + l) - (i + 1) + 1 ELSE 0) # 0
      <4> HIDE DEF l, d
      <4>1. QED  BY <1>1, <1>2, <1>6
    <3>3. QED  BY <3>1, <3>2
  <2>2. SubSeq(name, 1, l) = token
    <3>1. i + 1 \in 1..n /\ k \in 1..n /\ 1 \in 1..(k - (i + 1) + 1) /\ l \in 1..(k - (i + 1) + 1)
      <4> HIDE DEF l, d, n
      <4>1. QED  BY <1>1, <1>2, <1>6
    <3> HIDE DEF l
    <3>2. SubSeq(SubSeq(bytes, i + 1, k), 1, l) = SubSeq(bytes, (i + 1) + 1 - 1, (i + 1) + l - 1)
      BY <3>1, SubSeqOfSubSeq
    <3>3. (i + 1) + 1 - 1 = i + 1 /\ (i + 1) + l - 1 = i + l
      BY <1>1, <1>2
    <3>4. QED  BY <3>2, <3>3
  <2>3. Least(MaxToken, Len(name)) = l
    BY <1>4
  <2> HIDE DEF name, token, l
  <2>4. name # <<>> /\ token # <<>>
    <3>1. Len(name) # 0
      BY <1>4, <1>6
    <3>2. QED  BY <2>1, <3>1
  <2>5. TokenFor(name) = Value(token)
    BY <2>2, <2>3, <2>4 DEF TokenFor
  <2>6. TokenFor(name) = IF token = <<>> THEN <<Percent>> ELSE Value(token)
    BY <2>4, <2>5
  <2>7. QED  BY <2>6 DEF name, token, l, d
<1>7. QED  BY <1>5, <1>6

(* The percent sign that ends a token. *)
LEMMA TokenEnds ==
  ASSUME NEW bytes \in Seq(Nat), NEW f, Table(bytes, f), NEW k \in 0..(Len(bytes) - 1), NEW sent, NEW token,
         Sends(bytes, f, k, token, sent), token # NoToken, bytes[k + 1] = Percent
  PROVE  Sends(bytes, f, k + 1, NoToken, sent \o IF token = <<>> THEN <<Percent>> ELSE Value(token))
<1>1. PICK m \in 1..(k + 1), before \in Seq(Int) :
        before \o f[m] = f[1] /\ \E i \in m..k : InToken(bytes, k, m, i, before, token, sent)
  BY DEF Sends, InText
<1>2. PICK i \in m..k : InToken(bytes, k, m, i, before, token, sent)
  BY <1>1
<1> DEFINE n == Len(bytes)
           a == SubSeq(bytes, m, i - 1)
           name == SubSeq(bytes, i + 1, k)
           b == TokenFor(name)
           c == f[k + 2]
<1>3. /\ n \in Nat /\ k \in Nat /\ m \in Nat /\ m >= 1 /\ m <= k + 1 /\ k + 1 <= n
      /\ i \in Nat /\ i >= m /\ i <= k
  BY LenProperties
<1> HIDE DEF n
<1>4. PercentFrom(bytes, m) = i
  <2>1. m \in 1..(n + 1) /\ i \in m..(n + 1)
    BY <1>3
  <2>2. bytes[i] = Percent /\ \A h \in m..(i - 1) : bytes[h] # Percent
    BY <1>2 DEF InToken
  <2>3. QED  BY <2>1, <2>2, PercentFound DEF n
<1>5. PercentFrom(bytes, i + 1) = k + 1
  <2>1. i + 1 \in 1..(n + 1) /\ k + 1 \in (i + 1)..(n + 1) /\ (k + 1) - 1 = k
    BY <1>3
  <2>2. \A h \in (i + 1)..((k + 1) - 1) : bytes[h] # Percent
    BY <1>2, <2>1 DEF InToken
  <2>3. QED  BY <2>1, <2>2, PercentFound DEF n
<1>6. f[m] = (a \o b) \o c
  <2>1. ~(i > n) /\ ~(k + 1 > n) /\ m \in 1..(n + 1) /\ (k + 1) - 1 = k /\ (k + 1) + 1 = k + 2
    BY <1>3
  <2>2. f[m] = Rest(bytes, f, m)
    BY <2>1 DEF Table, n
  <2>3. Rest(bytes, f, m) = SubSeq(bytes, m, i - 1) \o TokenFor(SubSeq(bytes, i + 1, (k + 1) - 1)) \o f[(k + 1) + 1]
    BY <1>4, <1>5, <2>1 DEF Rest, n
  <2>4. QED  BY <2>1, <2>2, <2>3
<1>7. a \in Seq(Int) /\ b \in Seq(Int) /\ c \in Seq(Int)
  <2>1. m \in 1..(n + 1) /\ i - 1 \in 0..n /\ i + 1 \in 1..(n + 1) /\ k \in 0..n /\ k + 2 \in 1..(n + 1)
    BY <1>3
  <2>2. a \in Seq(Int) /\ name \in Seq(Nat)
    BY <2>1, PartType DEF n
  <2>3. c \in Seq(Int)
    BY <2>1 DEF Table, n
  <2> HIDE DEF name
  <2>4. QED  BY <2>2, <2>3, TokenForType
<1>8. b = IF token = <<>> THEN <<Percent>> ELSE Value(token)
  <2>1. k \in 1..n /\ i \in 1..k
    BY <1>3
  <2>2. token = SubSeq(bytes, i + 1, i + Least(MaxToken, k - i))
    BY <1>2 DEF InToken
  <2>3. QED  BY <2>1, <2>2, TokenIs DEF n
<1>9. sent = before \o a
  BY <1>2 DEF InToken
<1> HIDE DEF a, b, c, name
<1> DEFINE next == (before \o a) \o b
<1>10. next \in Seq(Int)
  <2>1. before \o a \in Seq(Int)
    BY <1>7, ConcatProperties
  <2>2. QED  BY <1>7, <2>1, ConcatProperties
<1>11. next \o c = f[1]
  <2>1. before \o a \in Seq(Int) /\ a \o b \in Seq(Int)
    BY <1>7, ConcatProperties
  <2>2. next \o c = (before \o a) \o (b \o c)
    <3> DEFINE x == before \o a
    <3>1. x \in Seq(Int)
      BY <2>1
    <3> HIDE DEF x
    <3>2. (x \o b) \o c = x \o (b \o c)
      BY <1>7, <3>1, JoinedThrice
    <3>3. QED  BY <3>2 DEF x
  <2>3. b \o c \in Seq(Int)
    BY <1>7, ConcatProperties
  <2>4. (before \o a) \o (b \o c) = before \o (a \o (b \o c))
    BY <1>7, <2>3, JoinedThrice
  <2>5. (a \o b) \o c = a \o (b \o c)
    BY <1>7, JoinedThrice
  <2>6. before \o f[m] = f[1]
    BY <1>1
  <2> HIDE DEF next
  <2>7. QED  BY <1>6, <2>2, <2>4, <2>5, <2>6
<1>12. SubSeq(bytes, k + 2, k + 1) = <<>> /\ next \o <<>> = next
  <2>1. k + 2 \in Int /\ k + 1 \in Int /\ k + 1 < k + 2
    BY <1>3
  <2> HIDE DEF next
  <2>2. QED  BY <1>10, <2>1, SubSeqEmpty, ConcatEmptySeq
<1>13. next = sent \o b
  BY <1>9
<1> HIDE DEF next
<1>14. InText(bytes, k + 1, k + 2, next, NoToken, next)
  <2>1. \A h \in (k + 2)..(k + 1) : bytes[h] # Percent
    BY <1>3
  <2>2. QED  BY <1>12, <2>1 DEF InText
<1>15. k + 2 \in 1..((k + 1) + 1)
  BY <1>3
<1>16. next \o f[k + 2] = f[1]
  BY <1>11 DEF c
<1>17. Sends(bytes, f, k + 1, NoToken, next)
  BY <1>10, <1>14, <1>15, <1>16 DEF Sends
<1>18. QED  BY <1>8, <1>13, <1>17

(* At the end of the file. *)
LEMMA WholeIsSent ==
  ASSUME NEW bytes \in Seq(Nat), NEW f, Table(bytes, f), NEW sent, NEW token,
         Sends(bytes, f, Len(bytes), token, sent)
  PROVE  sent = f[1]
<1>1. PICK m \in 1..(Len(bytes) + 1), before \in Seq(Int) :
        /\ before \o f[m] = f[1]
        /\ \/ InText(bytes, Len(bytes), m, before, token, sent)
           \/ \E i \in m..Len(bytes) : InToken(bytes, Len(bytes), m, i, before, token, sent)
  BY DEF Sends
<1> DEFINE n == Len(bytes)
<1>2. n \in Nat /\ m \in Nat /\ m >= 1 /\ m <= n + 1 /\ (n + 1) - 1 = n /\ n + 1 > n
  BY LenProperties
<1>3. f[m] = Rest(bytes, f, m)
  BY DEF Table
<1> HIDE DEF n
<1>4. CASE InText(bytes, n, m, before, token, sent)
  <2>1. m \in 1..(n + 1) /\ n + 1 \in m..(n + 1) /\ ~(n + 1 <= n)
    BY <1>2
  <2>2. \A h \in m..((n + 1) - 1) : bytes[h] # Percent
    BY <1>2, <1>4 DEF InText
  <2>3. PercentFrom(bytes, m) = n + 1
    BY <2>1, <2>2, PercentFound DEF n
  <2>4. Rest(bytes, f, m) = SubSeq(bytes, m, n)
    BY <1>2, <2>3 DEF Rest, n
  <2>5. QED  BY <1>1, <1>3, <1>4, <2>4 DEF InText
<1>5. ASSUME NEW i \in m..n, InToken(bytes, n, m, i, before, token, sent) PROVE sent = f[1]
  <2>1. /\ m \in 1..(n + 1) /\ i \in m..(n + 1) /\ i + 1 \in 1..(n + 1)
        /\ n + 1 \in (i + 1)..(n + 1) /\ ~(n + 1 <= n) /\ ~(i > n)
    BY <1>2
  <2>2. bytes[i] = Percent /\ \A h \in m..(i - 1) : bytes[h] # Percent
    BY <1>5 DEF InToken
  <2>3. PercentFrom(bytes, m) = i
    BY <2>1, <2>2, PercentFound DEF n
  <2>4. \A h \in (i + 1)..((n + 1) - 1) : bytes[h] # Percent
    BY <1>2, <1>5 DEF InToken
  <2>5. PercentFrom(bytes, i + 1) = n + 1
    BY <2>1, <2>4, PercentFound DEF n
  <2>6. Rest(bytes, f, m) = SubSeq(bytes, m, i - 1)
    BY <1>2, <2>1, <2>3, <2>5 DEF Rest, n
  <2>7. QED  BY <1>1, <1>3, <1>5, <2>6 DEF InToken
<1>6. QED  BY <1>1, <1>4, <1>5 DEF n

(* A byte of a chunk that begins behind the first base bytes of the file. *)
LEMMA ByteSends ==
  ASSUME NEW bytes \in Seq(Nat), NEW f, Table(bytes, f), NEW base \in Nat, NEW chunk \in Seq(Nat),
         NEW x \in 1..Len(chunk), base + x <= Len(bytes), chunk[x] = bytes[base + x],
         NEW t, InChunk(t, x - 1), Sends(bytes, f, base + (x - 1), t.token, SendText(t, chunk))
  PROVE  LET r == TemplateByte(t, chunk, x)
         IN  Sends(bytes, f, base + x, r.token, SendText(r, chunk))
<1> DEFINE r == TemplateByte(t, chunk, x)
           k == base + (x - 1)
           done == SendText(t, chunk)
           byte == chunk[x]
<1>1. /\ x \in Nat /\ x >= 1 /\ Len(chunk) \in Nat /\ x <= Len(chunk) /\ k \in 0..(Len(bytes) - 1)
      /\ k + 1 = base + x /\ x \in 0..Len(chunk) /\ x - 1 \in 0..Len(chunk)
  BY LenProperties
<1>2. byte = bytes[k + 1] /\ byte \in Nat
  BY <1>1, ElementOfSeq
<1>3. /\ InChunk(r, x)
      /\ t.token = NoToken /\ byte = Percent => r.token = <<>> /\ r.sent = done
      /\ t.token = NoToken /\ byte # Percent => r.token = NoToken /\ r.e = t.e /\ r.sent = t.sent
      /\ t.token # NoToken /\ byte # Percent =>
           /\ r.token = IF Len(t.token) < MaxToken THEN Append(t.token, byte) ELSE t.token
           /\ r.sent = t.sent
      /\ t.token # NoToken /\ byte = Percent =>
           /\ r.token = NoToken /\ r.e = x + 1
           /\ r.sent = t.sent \o IF t.token = <<>> THEN <<Percent>> ELSE Value(t.token)
  <2>1. ByteResult(t, chunk, x, TemplateByte(t, chunk, x))
    BY TemplateByteIs
  <2> HIDE DEF r
  <2>2. ByteResult(t, chunk, x, r)
    BY <2>1 DEF r
  <2>3. QED  BY <2>2 DEF ByteResult
<1>4. /\ t.token # NoToken => done = t.sent
      /\ t.token = NoToken => done = t.sent \o SubSeq(chunk, t.e, x - 1)
  BY <1>1, SendTextIs
<1> DEFINE now == SendText(r, chunk)
<1>5. /\ r.token # NoToken => now = r.sent
      /\ r.token = NoToken => now = r.sent \o SubSeq(chunk, r.e, x)
  <2> HIDE DEF r
  <2>1. QED  BY <1>1, <1>3, SendTextIs
<1>6. Sends(bytes, f, k, t.token, done)
  OBVIOUS
<1>7. t.sent \in Seq(Int) /\ t.token \in Seq(Int) /\ t.e \in Nat /\ t.e >= 1 /\ t.sp \in Nat
      /\ r.sent \in Seq(Int)
  BY <1>3 DEF InChunk, TplData
<1>8. t.token = NoToken => t.e <= x
  <2> SUFFICES ASSUME t.token = NoToken PROVE t.e <= x
    OBVIOUS
  <2>1. t.e + t.sp = (x - 1) + 1
    BY DEF InChunk
  <2> DEFINE from == t.e
             text == t.sp
  <2>2. from + text = (x - 1) + 1 /\ from \in Nat /\ text \in Nat
    BY <1>7, <2>1
  <2> HIDE DEF from, text
  <2>3. from <= x
    BY <1>1, <2>2
  <2>4. QED  BY <2>3 DEF from
<1> HIDE DEF r, k, done, byte, now
<1>9. CASE t.token = NoToken /\ byte = Percent
  <2>1. Sends(bytes, f, k + 1, <<>>, done)
    BY <1>1, <1>2, <1>6, <1>9, TokenBegins
  <2>2. r.token = <<>> /\ r.token # NoToken /\ now = done
    BY <1>3, <1>5, <1>9, TokenIsNone
  <2>3. Sends(bytes, f, base + x, r.token, now)
    BY <1>1, <2>1, <2>2
  <2>4. QED  BY <2>3 DEF r, now
<1>10. CASE t.token = NoToken /\ byte # Percent
  <2>1. Sends(bytes, f, k + 1, NoToken, done \o <<byte>>)
    BY <1>1, <1>2, <1>6, <1>10, TextGoesOn
  <2> DEFINE a == SubSeq(chunk, t.e, x - 1)
             b == <<byte>>
  <2>2. SubSeq(chunk, t.e, x) = a \o b
    <3>1. t.e \in 1..Len(chunk) /\ x \in t.e..Len(chunk)
      <4> DEFINE from == t.e
      <4>1. from \in Nat /\ from >= 1 /\ from <= x
        BY <1>7, <1>8, <1>10
      <4> HIDE DEF from
      <4>2. from \in 1..Len(chunk) /\ x \in from..Len(chunk)
        BY <1>1, <4>1
      <4>3. QED  BY <4>2 DEF from
    <3>2. QED  BY <3>1, SubSeqRecursiveSecond DEF byte
  <2>3. now = t.sent \o (a \o b)
    BY <1>3, <1>5, <1>10, <2>2
  <2>4. a \in Seq(Int) /\ b \in Seq(Int)
    <3>1. t.e \in 1..(Len(chunk) + 1) /\ x - 1 \in 0..Len(chunk)
      <4> DEFINE from == t.e
      <4>1. from \in Nat /\ from >= 1 /\ from <= x
        BY <1>7, <1>8, <1>10
      <4> HIDE DEF from
      <4>2. from \in 1..(Len(chunk) + 1)
        BY <1>1, <4>1
      <4>3. QED  BY <1>1, <4>2 DEF from
    <3>2. QED  BY <1>2, <3>1, PartType
  <2>5. done = t.sent \o a
    BY <1>4, <1>10
  <2> HIDE DEF a, b
  <2>6. (t.sent \o a) \o b = t.sent \o (a \o b)
    <3> DEFINE s == t.sent
    <3>1. s \in Seq(Int)
      BY <1>7
    <3> HIDE DEF s
    <3>2. (s \o a) \o b = s \o (a \o b)
      BY <2>4, <3>1, JoinedThrice
    <3>3. QED  BY <3>2 DEF s
  <2>7. now = done \o <<byte>>
    BY <2>3, <2>5, <2>6 DEF b
  <2>8. Sends(bytes, f, base + x, r.token, now)
    BY <1>1, <1>3, <1>10, <2>1, <2>7
  <2>9. QED  BY <2>8 DEF r, now
<1>11. CASE t.token # NoToken /\ byte # Percent
  <2> DEFINE more == IF Len(t.token) < MaxToken THEN Append(t.token, byte) ELSE t.token
  <2>1. Sends(bytes, f, k + 1, more, done)
    BY <1>1, <1>2, <1>6, <1>11, TokenGoesOn
  <2>2. more # NoToken
    BY <1>2, <1>7, <1>11, TokenIsNone
  <2>3. r.token = more /\ r.sent = t.sent
    BY <1>3, <1>11
  <2> HIDE DEF more
  <2>4. now = done
    BY <1>4, <1>5, <1>11, <2>2, <2>3
  <2>5. Sends(bytes, f, base + x, r.token, now)
    BY <1>1, <2>1, <2>3, <2>4
  <2>6. QED  BY <2>5 DEF r, now
<1>12. CASE t.token # NoToken /\ byte = Percent
  <2> DEFINE v == IF t.token = <<>> THEN <<Percent>> ELSE Value(t.token)
  <2>1. Sends(bytes, f, k + 1, NoToken, done \o v)
    BY <1>1, <1>2, <1>6, <1>12, TokenEnds
  <2>2. r.token = NoToken /\ r.e = x + 1 /\ r.sent = done \o v
    BY <1>3, <1>4, <1>12
  <2> HIDE DEF v
  <2>3. SubSeq(chunk, x + 1, x) = <<>>
    <3>1. x + 1 \in Int /\ x \in Int /\ x < x + 1
      BY <1>1
    <3>2. QED  BY <3>1, SubSeqEmpty
  <2>4. now = r.sent
    <3> DEFINE s == r.sent
    <3>1. s \in Seq(Int) /\ now = s \o <<>>
      BY <1>5, <1>7, <2>2, <2>3
    <3> HIDE DEF s
    <3>2. s \o <<>> = s
      BY <3>1, ConcatEmptySeq
    <3>3. QED  BY <3>1, <3>2 DEF s
  <2>5. Sends(bytes, f, base + x, r.token, now)
    BY <1>1, <2>1, <2>2, <2>4
  <2>6. QED  BY <2>5 DEF r, now
<1>13. QED  BY <1>9, <1>10, <1>11, <1>12

(* A call sends the chunk that begins behind the first base bytes.         *)
CallGood(bytes, f, last, r) == r \in TplData /\ Sends(bytes, f, last, r.token, r.sent)

LEMMA CallSends ==
  ASSUME NEW bytes \in Seq(Nat), NEW f, Table(bytes, f), NEW base \in Nat, NEW last \in Nat,
         base <= last, last <= Len(bytes),
         NEW t, CallGood(bytes, f, base, t)
  PROVE  CallGood(bytes, f, last, CgiEspFsTemplate(t, SubSeq(bytes, base + 1, last)))
<1> DEFINE chunk == SubSeq(bytes, base + 1, last)
           len == last - base
<1>1. len \in Nat /\ base + len = last /\ Len(bytes) \in Nat
  BY LenProperties
<1>2. chunk \in Seq(Nat) /\ Len(chunk) = len /\ \A x \in 1..len : chunk[x] = bytes[base + x]
  <2>1. /\ SubSeq(bytes, base + 1, base + len) \in Seq(Nat)
        /\ Len(SubSeq(bytes, base + 1, base + len)) = len
        /\ \A x \in 1..len : SubSeq(bytes, base + 1, base + len)[x] = bytes[base + x]
    <3>1. base + len <= Len(bytes)
      BY <1>1
    <3> HIDE DEF len
    <3>2. QED  BY <1>1, <3>1, PartOf
  <2> HIDE DEF len
  <2>2. QED  BY <1>1, <2>1
<1> HIDE DEF chunk, len
<1>3. t \in TplData
  BY DEF CallGood
<1>4. PICK g : /\ g[0] = [t EXCEPT !.e = 1, !.sp = 0]
               /\ \A x \in 1..len : g[x] = TemplateByte(g[x - 1], chunk, x)
               /\ \A y \in 0..len : InChunk(g[y], y)
               /\ Bytewise(t, chunk) = [g[len] EXCEPT !.sent = SendText(g[len], chunk)]
  <2>1. \E h : /\ h[0] = [t EXCEPT !.e = 1, !.sp = 0]
               /\ \A x \in 1..Len(chunk) : h[x] = TemplateByte(h[x - 1], chunk, x)
               /\ \A x \in 0..Len(chunk) : InChunk(h[x], x)
               /\ Bytewise(t, chunk) = [h[Len(chunk)] EXCEPT !.sent = SendText(h[Len(chunk)], chunk)]
    BY <1>2, <1>3, BytewiseIs, Zenon
  <2>2. Len(chunk) = len
    BY <1>2
  <2>3. QED  BY Zenon, <2>1, <2>2
<1> DEFINE T == {x \in 0..len : Sends(bytes, f, base + x, g[x].token, SendText(g[x], chunk))}
<1>5. 0 \in T
  <2> DEFINE u == g[0]
  <2>1. u.e = 1 /\ u.sp = 0 /\ u.token = t.token /\ u.sent = t.sent
    BY <1>3, <1>4 DEF TplData
  <2>2. u.e + u.sp - 1 = 0
    BY <2>1
  <2>3. SubSeq(chunk, 1, 0) = <<>>
    BY SubSeqEmpty
  <2>4. SendText(u, chunk) = t.sent \o <<>>
    BY <2>1, <2>2, <2>3 DEF SendText
  <2>5. t.sent \in Seq(Int)
    BY <1>3 DEF TplData
  <2>6. SendText(u, chunk) = t.sent
    <3> DEFINE s == t.sent
    <3> HIDE DEF s
    <3>1. s \in Seq(Int)
      BY <2>5 DEF s
    <3>2. s \o <<>> = s
      BY <3>1, ConcatEmptySeq
    <3>3. QED  BY <2>4, <3>2 DEF s
  <2>7. Sends(bytes, f, base, t.token, t.sent)
    BY DEF CallGood
  <2> HIDE DEF u
  <2>8. base + 0 = base /\ 0 \in 0..len
    BY <1>1
  <2>9. Sends(bytes, f, base + 0, u.token, SendText(u, chunk))
    BY <2>1, <2>6, <2>7, <2>8
  <2>10. QED  BY <2>8, <2>9 DEF u
<1>6. ASSUME NEW x \in 1..len, x - 1 \in T PROVE x \in T
  <2> DEFINE u == g[x - 1]
  <2>1. x - 1 \in 0..len /\ x \in 0..len /\ base + x <= Len(bytes)
    BY <1>1
  <2>2. InChunk(u, x - 1) /\ g[x] = TemplateByte(u, chunk, x)
    BY <1>4, <2>1
  <2>3. Sends(bytes, f, base + (x - 1), u.token, SendText(u, chunk))
    BY <1>6
  <2>4. x \in 1..Len(chunk) /\ chunk[x] = bytes[base + x]
    BY <1>2
  <2> HIDE DEF u
  <2> DEFINE r == TemplateByte(u, chunk, x)
  <2>5. Sends(bytes, f, base + x, r.token, SendText(r, chunk))
    BY <1>2, <2>1, <2>2, <2>3, <2>4, ByteSends
  <2> HIDE DEF r
  <2>6. Sends(bytes, f, base + x, g[x].token, SendText(g[x], chunk))
    BY <2>2, <2>5 DEF r
  <2>7. QED  BY <2>1, <2>6
<1>7. T \subseteq {x \in 0..len : Sends(bytes, f, base + x, g[x].token, SendText(g[x], chunk))}
  OBVIOUS
<1> HIDE DEF T
<1>8. 0..len \subseteq T
  BY <1>1, <1>5, <1>6, InductionTo
<1> DEFINE u == g[len]
           sent == SendText(u, chunk)
<1>9. len \in 0..len
  BY <1>1
<1>10. InChunk(u, len) /\ u \in TplData
  BY <1>4, <1>9 DEF InChunk
<1>11. sent \in Seq(Int)
  <2> HIDE DEF u
  <2>1. QED  BY <1>2, <1>9, <1>10, SendTextIs DEF sent
<1>12. Sends(bytes, f, last, u.token, sent)
  <2>1. len \in T
    BY <1>8, <1>9
  <2>2. QED  BY <1>1, <1>7, <2>1
<1>13. Bytewise(t, chunk) = [u EXCEPT !.sent = sent]
  BY <1>4
<1> HIDE DEF u, sent
<1> DEFINE r == [u EXCEPT !.sent = sent]
<1>14. r \in TplData /\ r.token = u.token /\ r.sent = sent
  BY <1>10, <1>11 DEF TplData
<1> HIDE DEF r
<1>15. CallGood(bytes, f, last, r)
  BY <1>12, <1>14 DEF CallGood
<1>16. CgiEspFsTemplate(t, chunk) = r
  BY <1>13 DEF CgiEspFsTemplate, r
<1>17. CallGood(bytes, f, last, CgiEspFsTemplate(t, chunk))
  BY <1>15, <1>16
<1>18. QED  BY <1>17 DEF chunk

(* Where the i-th call has read to, of n bytes. *)
ReadTo(i, n) == Least(i * Chunk, n)

(* Every call but the last reads a whole chunk, and the last is short. *)
LEMMA CallsRead ==
  ASSUME NEW n \in Nat
  PROVE  LET calls == n \div Chunk + 1
         IN /\ calls \in Nat
            /\ ReadTo(0, n) = 0 /\ ReadTo(calls, n) = n
            /\ \A i \in 1..calls : /\ (i - 1) * Chunk \in Nat
                                   /\ ReadTo(i - 1, n) = (i - 1) * Chunk
                                   /\ ReadTo(i, n) \in Nat
                                   /\ (i - 1) * Chunk <= ReadTo(i, n) /\ ReadTo(i, n) <= n
<1> DEFINE q == n \div Chunk
<1>1. Chunk \in Nat /\ Chunk > 0
  BY PercentIs
<1>2. q \in Nat /\ n % Chunk \in Nat /\ n = Chunk * q + (n % Chunk) /\ n % Chunk < Chunk
  BY <1>1
<1> HIDE DEF q
<1>3. Chunk * q <= n /\ n < Chunk * q + Chunk
  BY <1>1, <1>2
<1>4. ASSUME NEW i \in 1..(q + 1)
      PROVE  (i - 1) * Chunk \in Nat /\ (i - 1) * Chunk <= n /\ i * Chunk = (i - 1) * Chunk + Chunk
  <2>1. i - 1 \in Nat /\ i - 1 <= q
    BY <1>2
  <2>2. (i - 1) * Chunk <= q * Chunk
    BY <1>1, <1>2, <2>1
  <2>3. QED  BY <1>1, <1>2, <1>3, <2>1, <2>2
<1>5. ASSUME NEW i \in 1..(q + 1)
      PROVE  /\ (i - 1) * Chunk \in Nat
             /\ ReadTo(i - 1, n) = (i - 1) * Chunk
             /\ ReadTo(i, n) \in Nat
             /\ (i - 1) * Chunk <= ReadTo(i, n) /\ ReadTo(i, n) <= n
  <2> DEFINE a == (i - 1) * Chunk
             b == i * Chunk
  <2>1. a \in Nat /\ a <= n /\ b = a + Chunk
    BY <1>4
  <2>2. ReadTo(i - 1, n) = Least(a, n) /\ ReadTo(i, n) = Least(b, n)
    BY DEF ReadTo
  <2> HIDE DEF a, b
  <2>3. a \in Nat /\ ReadTo(i - 1, n) = a /\ ReadTo(i, n) \in Nat /\ a <= ReadTo(i, n) /\ ReadTo(i, n) <= n
    BY <1>1, <2>1, <2>2 DEF Least
  <2>4. QED  BY <2>3 DEF a
<1>6. ReadTo(0, n) = 0
  <2>1. 0 * Chunk = 0
    BY <1>1
  <2>2. QED  BY <2>1 DEF ReadTo, Least
<1>7. ReadTo(q + 1, n) = n
  <2>1. (q + 1) * Chunk = Chunk * q + Chunk
    BY <1>1, <1>2
  <2> DEFINE b == (q + 1) * Chunk
  <2>2. n < b /\ b \in Int
    BY <1>1, <1>2, <1>3, <2>1
  <2>3. ReadTo(q + 1, n) = Least(b, n)
    BY DEF ReadTo
  <2> HIDE DEF b
  <2>4. QED  BY <2>2, <2>3 DEF Least
<1>8. QED  BY <1>2, <1>5, <1>6, <1>7 DEF q

(* The calls together, by induction over them. *)
LEMMA TemplateIs ==
  ASSUME NEW bytes \in Seq(Nat)
  PROVE  Template(bytes) = Expanded(bytes)
<1> DEFINE n == Len(bytes)
           calls == n \div Chunk + 1
           S == TplData
           first == [e |-> 1, sp |-> 0, token |-> NoToken, sent |-> <<>>]
           ChunkOf(i) == SubSeq(bytes, (i - 1) * Chunk + 1, Least(i * Chunk, n))
           Call(i, u) == CgiEspFsTemplate(u, ChunkOf(i))
           F(f) == f = [i \in 0..calls |-> IF i = 0 THEN first ELSE Call(i, f[i - 1])]
<1>1. n \in Nat /\ calls \in Nat
  <2>1. n \in Nat
    BY LenProperties
  <2> HIDE DEF n
  <2>2. QED  BY <2>1, CallsRead
<1>2. PICK tab : Table(bytes, tab) /\ Expanded(bytes) = tab[1]
  BY ExpandedIs
<1> DEFINE Good(i, u) == CallGood(bytes, tab, ReadTo(i, n), u)
<1>3. Good(0, first)
  <2>1. NoToken \in Seq(Int) /\ <<>> \in Seq(Int)
    BY DEF NoToken
  <2>2. first \in TplData /\ first.token = NoToken /\ first.sent = <<>>
    BY <2>1 DEF TplData
  <2>3. Sends(bytes, tab, 0, NoToken, <<>>)
    BY <1>2, NothingSent
  <2>4. ReadTo(0, n) = 0
    BY <1>1, CallsRead
  <2> HIDE DEF first
  <2>5. QED  BY <2>2, <2>3, <2>4 DEF CallGood
<1>4. ASSUME NEW i \in 1..calls, NEW u, Good(i - 1, u) PROVE Good(i, Call(i, u))
  <2> DEFINE base == (i - 1) * Chunk
             last == ReadTo(i, n)
  <2>1. base \in Nat /\ ReadTo(i - 1, n) = base /\ last \in Nat /\ base <= last /\ last <= n
    BY <1>1, CallsRead
  <2>2. CallGood(bytes, tab, base, u)
    BY <1>4, <2>1
  <2>3. Call(i, u) = CgiEspFsTemplate(u, SubSeq(bytes, base + 1, last))
    BY DEF ReadTo
  <2> HIDE DEF base, last, Call
  <2>4. CallGood(bytes, tab, last, CgiEspFsTemplate(u, SubSeq(bytes, base + 1, last)))
    BY <1>2, <2>1, <2>2, CallSends
  <2>5. CallGood(bytes, tab, last, Call(i, u))
    BY <2>3, <2>4
  <2>6. QED  BY <2>5 DEF last
<1>5. \A i, u : Good(i, u) => u \in S
  BY DEF CallGood
<1> DEFINE step == [i \in 1..calls |-> [u \in S |-> IF Good(i - 1, u) THEN Call(i, u) ELSE u]]
<1>6. step \in [1..calls -> [S -> S]]
  <2>1. ASSUME NEW i \in 1..calls, NEW u \in S PROVE (IF Good(i - 1, u) THEN Call(i, u) ELSE u) \in S
    <3>1. Good(i - 1, u) => Call(i, u) \in S
      <4> SUFFICES ASSUME Good(i - 1, u) PROVE Call(i, u) \in S
        OBVIOUS
      <4>1. Good(i, Call(i, u))
        BY <1>4
      <4> HIDE DEF Good, Call, S
      <4>2. QED  BY <1>5, <4>1
    <3> HIDE DEF Good, Call, S
    <3>2. QED  BY <3>1
  <2> HIDE DEF S, calls, Good, Call
  <2>2. QED  BY <2>1
<1>7. \A i \in 1..calls, u \in S : Good(i - 1, u) => step[i][u] = Call(i, u)
  <2> HIDE DEF S, calls, Good, Call
  <2>1. QED  OBVIOUS
<1> HIDE DEF n, calls, S, step, first, Call, Good
<1>8. PICK g \in [0..calls -> S] : g[0] = first /\ \A i \in 1..calls : g[i] = step[i][g[i - 1]]
  <2>1. first \in S
    BY <1>3, <1>5
  <2>2. Solvable(S, first, calls, step)
    BY <1>1, <1>6, <2>1, RecursionSolves
  <2>3. QED  BY <2>2 DEF Solvable
<1>9. ASSUME NEW i \in 1..calls, Good(i - 1, g[i - 1]) PROVE g[i] = Call(i, g[i - 1]) /\ Good(i, g[i])
  <2>1. g[i - 1] \in S
    BY <1>5, <1>9
  <2>2. g[i] = Call(i, g[i - 1])
    BY <1>7, <1>8, <1>9, <2>1
  <2>3. QED  BY <1>4, <1>9, <2>2
<1>10. \A i \in 0..calls : Good(i, g[i])
  <2> DEFINE T == {i \in 0..calls : Good(i, g[i])}
  <2>1. 0 \in T
    BY <1>1, <1>3, <1>8
  <2>2. ASSUME NEW i \in 1..calls, i - 1 \in T PROVE i \in T
    BY <1>1, <1>9, <2>2
  <2>3. T \subseteq {i \in 0..calls : Good(i, g[i])}
    OBVIOUS
  <2> HIDE DEF T
  <2>4. 0..calls \subseteq T
    BY <1>1, <2>1, <2>2, InductionTo
  <2>5. QED  BY <2>3, <2>4
<1>11. F(g)
  <2>1. ASSUME NEW i \in 0..calls PROVE g[i] = IF i = 0 THEN first ELSE Call(i, g[i - 1])
    <3>1. CASE i = 0
      BY <1>8, <3>1
    <3>2. CASE i # 0
      <4>1. i \in 1..calls /\ i - 1 \in 0..calls
        BY <1>1, <3>2
      <4>2. QED  BY <1>9, <1>10, <3>2, <4>1
    <3>3. QED  BY <3>1, <3>2
  <2>2. g = [i \in 0..calls |-> g[i]]
    BY <1>8
  <2>3. QED  BY <2>1, <2>2
<1> DEFINE after == CHOOSE f : F(f)
<1>12. F(after)
  <2> HIDE DEF F
  <2>1. QED  BY <1>11
<1>13. Template(bytes) = after[calls].sent
  BY Zenon DEF Template, first, Call, calls, n
<1> HIDE DEF after
<1>14. after[0] = first /\ \A i \in 1..calls : after[i] = Call(i, after[i - 1])
  <2>1. \A i \in 0..calls : after[i] = IF i = 0 THEN first ELSE Call(i, after[i - 1])
    BY <1>12
  <2>2. 0 \in 0..calls /\ \A i \in 1..calls : i \in 0..calls /\ i # 0
    BY <1>1
  <2>3. QED  BY <2>1, <2>2
<1> HIDE DEF F
<1> DEFINE U == {i \in 0..calls : Good(i, after[i])}
<1>15. 0 \in U
  BY <1>1, <1>3, <1>14
<1>16. ASSUME NEW i \in 1..calls, i - 1 \in U PROVE i \in U
  BY <1>1, <1>4, <1>14, <1>16
<1>17. U \subseteq {i \in 0..calls : Good(i, after[i])}
  OBVIOUS
<1> HIDE DEF U
<1>18. 0..calls \subseteq U
  BY <1>1, <1>15, <1>16, InductionTo
<1>19. Good(calls, after[calls])
  <2>1. calls \in 0..calls
    BY <1>1
  <2>2. QED  BY <1>17, <1>18, <2>1
<1> DEFINE end == after[calls]
<1>20. Sends(bytes, tab, Len(bytes), end.token, end.sent)
  <2>1. ReadTo(calls, n) = n
    BY <1>1, CallsRead DEF calls
  <2>2. CallGood(bytes, tab, n, end)
    BY <1>19, <2>1 DEF Good
  <2>3. QED  BY <2>2 DEF CallGood, n
<1>21. end.sent = tab[1]
  <2> DEFINE sent == end.sent
             token == end.token
  <2>1. Sends(bytes, tab, Len(bytes), token, sent)
    BY <1>20
  <2> HIDE DEF sent, token
  <2>2. sent = tab[1]
    BY <1>2, <2>1, WholeIsSent
  <2>3. QED  BY <2>2 DEF sent
<1>22. QED  BY <1>2, <1>13, <1>21

(***************************************************************************)
(* A template is served as one piece: whatever Chunk is, that is, wherever *)
(* the reads of cgiEspFsTemplate cut the file, no token that lies across   *)
(* two of them is lost, no text is sent twice, and none is left out.       *)
(***************************************************************************)
THEOREM TemplatesExpand == Spec => []TemplatesAreWhole
<1>1. IInv => TemplatesAreWhole
  <2> SUFFICES ASSUME IInv, phase = "done", ~EspFsFlags
               PROVE  Template(served) = Expanded(served)
    BY DEF TemplatesAreWhole
  <2>1. file \in Seq(ByteValue) /\ served \in Seq(ByteValue)
    <3>1. ImageInv /\ FileInv /\ ServedInv
      BY DEF IInv, FoundInv
    <3>2. file \in Seq(ByteValue)
      BY <3>1 DEF ImageInv, ImageTypes
    <3>3. packed \/ Copying
      BY <3>1 DEF ServedInv
    <3>4. packed => Unpacking
      BY <3>1 DEF ServedInv
    <3>5. served \in Seq(ByteValue)
      BY <3>3, <3>4 DEF Unpacking, Copying, Prefix
    <3>6. QED  BY <3>2, <3>5
  <2>2. ByteValue \subseteq Nat
    BY DEF ByteValue
  <2>3. served \in Seq(Nat)
    <3> HIDE DEF ByteValue
    <3>1. Len(served) \in Nat /\ \A i \in 1..Len(served) : served[i] \in Nat
      BY <2>1, <2>2, LenProperties, ElementOfSeq
    <3>2. served = [i \in 1..Len(served) |-> served[i]]
      BY <2>1, LenProperties
    <3>3. QED  BY <3>1, <3>2
  <2>4. QED  BY <2>3, TemplateIs
<1>2. QED  BY <1>1, Inductive, PTL DEF Spec
=============================================================================
