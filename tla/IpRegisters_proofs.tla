------------------------- MODULE IpRegisters_proofs -------------------------
(***************************************************************************)
(* For any widths of the fields and any design: the registers hold what was   *)
(* last accepted for each parameter, whatever else is written to their words; *)
(* an acquisition sends the payload that its driver computes; a generator and *)
(* an acquisition with the same frequency stay in phase; every variable, of   *)
(* boot too, keeps its type; the graphs of a design are its wires; and the     *)
(* data that a DMA node sends comes from where its wires come from.           *)
(*                                                                         *)
(* The first is inductive by itself (IInv).  The other two need that the       *)
(* cache of a driver and the history of the frequencies say the same as the   *)
(* settings, and that boot leaves a ratio that is a power of two (Followed);  *)
(* then the value of a field, which adds powers of two, is that of the number *)
(* it was given, or of what its mask left of it.  The types rest on what boot  *)
(* has found and made by each of its steps (BootInv).  While a graph is        *)
(* collapsed, each of its edges is traced back over the modules that are no    *)
(* longer in it (Wiring).  When the graphs are complete, the name of a bus      *)
(* leads a node to the output at the other end of its wire (DataInv).          *)
(***************************************************************************)
EXTENDS IpRegisters, FiniteSetTheorems, WellFoundedInduction, TLAPS

-----------------------------------------------------------------------------
(* INDUCTION over the natural numbers, for a set of them.                    *)

\* The smaller of two numbers first.
Below == {p \in Nat \X Nat : p[1] < p[2]}

\* A set of numbers that has 0 and with each number the next one has them all.
LEMMA SetInduction ==
    ASSUME NEW T, T \subseteq Nat, 0 \in T, \A n \in T : n + 1 \in T
    PROVE  T = Nat
<1> DEFINE U == Nat \ T
<1>1. IsWellFoundedOn(Below, Nat)
  <2>1. OpToRel(<, Nat) = Below
    BY Zenon DEF OpToRel, Below
  <2> QED
    BY Zenon, <2>1, NatLessThanWellFounded
<1>2. SUFFICES ASSUME U # {} PROVE FALSE
  OBVIOUS
<1>3. U \subseteq Nat
  OBVIOUS
<1> HIDE DEF U
<1>4. PICK x \in U : \A y \in U : ~(<<y, x>> \in Below)
  BY Zenon, <1>1, <1>2, <1>3, WFMin
<1>5. x \in Nat /\ x # 0 /\ x - 1 \in Nat
  BY <1>3, <1>4 DEF U
<1>6. x - 1 \notin U
  <2>1. <<x - 1, x>> \in Below
    BY <1>5 DEF Below
  <2> QED
    BY <1>4, <2>1
<1>7. x - 1 \in T /\ (x - 1) + 1 = x
  BY <1>5, <1>6 DEF U
<1> QED
  BY <1>4, <1>7 DEF U

-----------------------------------------------------------------------------
(* POWERS of two.                                                            *)

\* The powers up to the k-th.
Doubles(g, k) == g \in [0 .. k -> Nat] /\ g[0] = 1 /\ \A i \in 1 .. k : g[i] = 2 * g[i - 1]

\* There are powers up to any number.
LEMMA DoublesExist == \A k \in Nat : \E g : Doubles(g, k)
<1> DEFINE T == {k \in Nat : \E g : Doubles(g, k)}
<1>1. 0 \in T
  <2>1. Doubles([i \in 0 .. 0 |-> 1], 0)
    BY DEF Doubles
  <2> QED
    BY <2>1
<1>2. ASSUME NEW k \in T PROVE k + 1 \in T
  <2>1. PICK g : Doubles(g, k)
    OBVIOUS
  <2> DEFINE h == [i \in 0 .. k + 1 |-> IF i = k + 1 THEN 2 * g[k] ELSE g[i]]
  <2>2. Doubles(h, k + 1)
    BY <2>1 DEF Doubles
  <2> QED
    BY <2>2
<1>3. T \subseteq Nat
  OBVIOUS
<1> HIDE DEF T
<1>4. T = Nat
  BY <1>1, <1>2, <1>3, SetInduction
<1> QED
  BY <1>4 DEF T

\* They are the same, however far they go.
LEMMA DoublesAgree ==
    ASSUME NEW g, NEW h, NEW k \in Nat, NEW l \in Nat, Doubles(g, k), Doubles(h, l)
    PROVE  \A i \in Nat : i <= k /\ i <= l => g[i] = h[i]
<1> DEFINE T == {i \in Nat : i <= k /\ i <= l => g[i] = h[i]}
<1>1. 0 \in T
  BY DEF Doubles
<1>2. ASSUME NEW i \in T PROVE i + 1 \in T
  <2>1. SUFFICES ASSUME i + 1 <= k, i + 1 <= l PROVE g[i + 1] = h[i + 1]
    OBVIOUS
  <2>2. g[i] = h[i] /\ i + 1 \in 1 .. k /\ i + 1 \in 1 .. l /\ (i + 1) - 1 = i
    BY <2>1
  <2> QED
    BY <2>2 DEF Doubles
<1>3. T \subseteq Nat
  OBVIOUS
<1> HIDE DEF T
<1>4. T = Nat
  BY <1>1, <1>2, <1>3, SetInduction
<1> QED
  BY <1>4 DEF T

\* The recursion of Pow2 has a solution.
LEMMA Powers ==
    /\ Pow2[0] = 1
    /\ \A n \in Nat : Pow2[n] \in Nat /\ Pow2[n] > 0 /\ Pow2[n + 1] = 2 * Pow2[n]
<1> DEFINE Upto(k) == CHOOSE g : Doubles(g, k)
           f == [n \in Nat |-> Upto(n)[n]]
<1>1. \A k \in Nat : Doubles(Upto(k), k)
  BY DoublesExist
<1> HIDE DEF Upto
<1>2. ASSUME NEW n \in Nat, n # 0 PROVE f[n] = 2 * f[n - 1]
  <2>1. Upto(n)[n - 1] = Upto(n - 1)[n - 1]
    BY <1>1, <1>2, DoublesAgree
  <2>2. Upto(n)[n] = 2 * Upto(n)[n - 1]
    BY <1>1, <1>2 DEF Doubles
  <2> QED
    BY <1>2, <2>1, <2>2
<1>3. f[0] = 1
  BY <1>1 DEF Doubles
<1>4. f = [n \in Nat |-> IF n = 0 THEN 1 ELSE 2 * f[n - 1]]
  BY <1>2, <1>3
<1> HIDE DEF f
<1>5. Pow2 = [n \in Nat |-> IF n = 0 THEN 1 ELSE 2 * Pow2[n - 1]]
  BY Zenon, <1>4 DEF Pow2
<1>6. Pow2[0] = 1 /\ \A n \in Nat : Pow2[n + 1] = 2 * Pow2[n]
  <2>1. Pow2[0] = 1
    BY <1>5
  <2>2. ASSUME NEW n \in Nat PROVE Pow2[n + 1] = 2 * Pow2[n]
    <3>1. n + 1 \in Nat /\ n + 1 # 0 /\ (n + 1) - 1 = n
      OBVIOUS
    <3> QED
      BY <1>5, <3>1
  <2> QED
    BY <2>1, <2>2
<1> DEFINE T == {n \in Nat : Pow2[n] \in Nat /\ Pow2[n] > 0}
<1>7. 0 \in T /\ T \subseteq Nat
  BY <1>6
<1>8. \A n \in T : n + 1 \in T
  BY <1>6
<1> HIDE DEF T
<1>9. T = Nat
  BY <1>7, <1>8, SetInduction
<1> QED
  BY <1>6, <1>9 DEF T

\* Multiplication, in the forms that are needed below.
LEMMA Distributes ==
    ASSUME NEW a \in Int, NEW b \in Int, NEW c \in Int
    PROVE  a * (b + c) = a * b + a * c /\ a * (b - c) = a * b - a * c /\ a * (b * c) = (a * b) * c
OBVIOUS

\* Exponents are added.
LEMMA PowerOfSum == \A a, b \in Nat : Pow2[a + b] = Pow2[a] * Pow2[b]
<1> SUFFICES ASSUME NEW a \in Nat PROVE \A b \in Nat : Pow2[a + b] = Pow2[a] * Pow2[b]
  OBVIOUS
<1> DEFINE T == {b \in Nat : Pow2[a + b] = Pow2[a] * Pow2[b]}
<1>1. 0 \in T
  BY Powers
<1>2. ASSUME NEW b \in T PROVE b + 1 \in T
  <2>1. /\ Pow2[a + (b + 1)] = 2 * Pow2[a + b] /\ Pow2[b + 1] = 2 * Pow2[b]
        /\ Pow2[a + b] = Pow2[a] * Pow2[b]
    <3>1. a + b \in Nat /\ a + (b + 1) = (a + b) + 1
      OBVIOUS
    <3> QED
      BY <3>1, Powers
  <2>2. Pow2[a] \in Nat /\ Pow2[b] \in Nat
    BY Powers
  <2> QED
    BY <2>1, <2>2
<1>3. T \subseteq Nat
  OBVIOUS
<1> HIDE DEF T
<1>4. T = Nat
  BY <1>1, <1>2, <1>3, SetInduction
<1> QED
  BY <1>4 DEF T

\* A larger exponent gives a larger power.
LEMMA PowerGrows ==
    ASSUME NEW a \in Nat, NEW b \in Nat, a < b
    PROVE  Pow2[a] < Pow2[b]
<1>1. b - a \in Nat /\ b - a # 0 /\ a + (b - a) = b /\ (b - a) - 1 \in Nat
  OBVIOUS
<1>2. Pow2[b] = Pow2[a] * Pow2[b - a]
  BY <1>1, PowerOfSum
<1>3. Pow2[b - a] = 2 * Pow2[(b - a) - 1]
  <2>1. ((b - a) - 1) + 1 = b - a
    OBVIOUS
  <2> QED
    BY <1>1, <2>1, Powers
<1>4. Pow2[a] \in Nat /\ Pow2[a] > 0 /\ Pow2[b - a] \in Nat /\ Pow2[b - a] >= 2
  BY <1>1, <1>3, Powers
<1> QED
  BY <1>2, <1>4

\* A number is its quotient and its rest.
LEMMA Division ==
    ASSUME NEW v \in Nat, NEW p \in Nat, p > 0
    PROVE  /\ v \div p \in Nat /\ v % p \in Nat /\ v % p < p
           /\ v = p * (v \div p) + (v % p)
OBVIOUS

\* ... and they are the only ones.
LEMMA Quotient ==
    ASSUME NEW v \in Int, NEW p \in Nat, NEW q \in Int, NEW r \in Nat, r < p, v = p * q + r
    PROVE  q = v \div p /\ r = v % p
OBVIOUS

-----------------------------------------------------------------------------
(* BITS of a number, and the number that bits stand for.                     *)

\* s adds up the powers of the members of a set.
Sums(s, bits, n) ==
    /\ s \in [0 .. n -> Nat]
    /\ s[0] = 0
    /\ \A i \in 1 .. n : s[i] = s[i - 1] + (IF i - 1 \in bits THEN Pow2[i - 1] ELSE 0)

\* The powers of any bits can be added up.
LEMMA SumsExist == ASSUME NEW bits PROVE \A n \in Nat : \E s : Sums(s, bits, n)
<1> DEFINE T == {n \in Nat : \E s : Sums(s, bits, n)}
<1>1. 0 \in T
  <2>1. Sums([i \in 0 .. 0 |-> 0], bits, 0)
    BY DEF Sums
  <2> QED
    BY <2>1
<1>2. ASSUME NEW n \in T PROVE n + 1 \in T
  <2>1. PICK s : Sums(s, bits, n)
    OBVIOUS
  <2> DEFINE t == [i \in 0 .. n + 1 |->
                     IF i = n + 1 THEN s[n] + (IF n \in bits THEN Pow2[n] ELSE 0) ELSE s[i]]
  <2>a. n \in Nat /\ s \in [0 .. n -> Nat] /\ n \in 0 .. n
    BY <2>1 DEF Sums
  <2>b. Pow2[n] \in Nat
    BY <2>a, Powers
  <2>2. s[n] + (IF n \in bits THEN Pow2[n] ELSE 0) \in Nat
    BY <2>a, <2>b
  <2>3. t \in [0 .. n + 1 -> Nat]
    BY <2>a, <2>2
  <2>4. ASSUME NEW i \in 1 .. n + 1
        PROVE  t[i] = t[i - 1] + (IF i - 1 \in bits THEN Pow2[i - 1] ELSE 0)
    <3>1. CASE i = n + 1
      BY <2>1, <3>1 DEF Sums
    <3>2. CASE i # n + 1
      BY <2>1, <3>2 DEF Sums
    <3> QED
      BY <3>1, <3>2
  <2>c. t[0] = 0
    BY <2>1, <2>a DEF Sums
  <2> HIDE DEF t
  <2>5. Sums(t, bits, n + 1)
    BY <2>3, <2>4, <2>c DEF Sums
  <2> QED
    BY <2>5
<1>3. T \subseteq Nat
  OBVIOUS
<1> HIDE DEF T
<1>4. T = Nat
  BY <1>1, <1>2, <1>3, SetInduction
<1> QED
  BY <1>4 DEF T

\* The lowest bits of a number, one more.
LEMMA NextBit ==
    ASSUME NEW v \in Nat, NEW k \in Nat
    PROVE  v % Pow2[k + 1] = (v % Pow2[k]) + (IF (v \div Pow2[k]) % 2 = 1 THEN Pow2[k] ELSE 0)
<1> DEFINE p == Pow2[k]
           q == v \div p
           r == v % p
           h == q \div 2
           b == q % 2
<1>1. p \in Nat /\ p > 0 /\ Pow2[k + 1] = 2 * p
  BY Powers
<1> HIDE DEF p
<1>2. q \in Nat /\ r \in Nat /\ r < p /\ v = p * q + r
  BY <1>1, Division
<1> HIDE DEF q, r
<1>3. h \in Nat /\ b \in {0, 1} /\ q = 2 * h + b
  BY <1>2, Division
<1> HIDE DEF h, b
<1>4. p * b = IF b = 1 THEN p ELSE 0
  BY <1>1, <1>3
<1>5. v = (2 * p) * h + (p * b + r)
  <2>1. p * (2 * h + b) = p * (2 * h) + p * b /\ p * (2 * h) = (2 * p) * h
    BY <1>1, <1>3, Distributes
  <2> QED
    BY <1>1, <1>2, <1>3, <2>1
<1>6. p * b + r \in Nat /\ p * b + r < 2 * p
  BY <1>1, <1>2, <1>3, <1>4
<1>7. p * b + r = v % (2 * p)
  <2>1. v \in Int /\ 2 * p \in Nat /\ h \in Int
    BY <1>1, <1>3
  <2> QED
    BY <1>5, <1>6, <2>1, Quotient
<1>8. v % (2 * p) = r + (IF b = 1 THEN p ELSE 0)
  BY <1>1, <1>2, <1>4, <1>7
<1> QED
  BY <1>1, <1>8 DEF p, q, r, b

\* The bits of a number below n and from position w on.
BitsFrom(bits, v, w, n) ==
    \A i \in 0 .. n - 1 : i \in bits <=> i >= w /\ (v \div Pow2[i]) % 2 = 1

\* The bits of a number from position w on stand for it without its rest by 2 ^ w.
LEMMA SumOfBits ==
    ASSUME NEW v \in Nat, NEW w \in Nat, NEW n \in Nat, NEW bits, NEW s, Sums(s, bits, n),
           BitsFrom(bits, v, w, n)
    PROVE  \A k \in 0 .. n : s[k] = IF k < w THEN 0 ELSE (v % Pow2[k]) - (v % Pow2[w])
<1> DEFINE T == {k \in Nat : k <= n =>
                    s[k] = IF k < w THEN 0 ELSE (v % Pow2[k]) - (v % Pow2[w])}
<1>a. \A k \in Nat : v % Pow2[k] \in Nat
  BY Powers, Division
<1>1. 0 \in T
  <2>1. w = 0 => (v % Pow2[0]) - (v % Pow2[w]) = 0
    BY <1>a
  <2> QED
    BY <2>1 DEF Sums
<1>2. ASSUME NEW k \in T PROVE k + 1 \in T
  <2> SUFFICES ASSUME k + 1 <= n
               PROVE  s[k + 1] = IF k + 1 < w THEN 0 ELSE (v % Pow2[k + 1]) - (v % Pow2[w])
    OBVIOUS
  <2>1. s[k + 1] = s[k] + (IF k \in bits THEN Pow2[k] ELSE 0)
    <3>1. k + 1 \in 1 .. n /\ (k + 1) - 1 = k
      OBVIOUS
    <3> QED
      BY <3>1 DEF Sums
  <2>2. k \in bits <=> k >= w /\ (v \div Pow2[k]) % 2 = 1
    <3>1. k \in 0 .. n - 1
      OBVIOUS
    <3> QED
      BY Zenon, <3>1 DEF BitsFrom
  <2>3. s[k] = IF k < w THEN 0 ELSE (v % Pow2[k]) - (v % Pow2[w])
    OBVIOUS
  <2>4. CASE k < w
    <3>1. s[k + 1] = 0
      BY <2>1, <2>2, <2>3, <2>4
    <3>2. k + 1 < w \/ k + 1 = w
      BY <2>4
    <3>3. k + 1 = w => (v % Pow2[k + 1]) - (v % Pow2[w]) = 0
      BY <1>a
    <3> QED
      BY <3>1, <3>2, <3>3
  <2>5. CASE k >= w
    <3>1. v % Pow2[k + 1] = (v % Pow2[k]) + (IF k \in bits THEN Pow2[k] ELSE 0)
      BY <2>2, <2>5, NextBit
    <3>2. ~(k < w) /\ ~(k + 1 < w)
      BY <2>5
    <3> HIDE DEF T
    <3>3. Pow2[k] \in Nat /\ v % Pow2[k] \in Nat /\ v % Pow2[w] \in Nat
      BY <1>a, <1>2, Powers DEF T
    <3> QED
      BY <2>1, <2>3, <3>1, <3>2, <3>3
  <2> QED
    BY <2>4, <2>5
<1>3. T \subseteq Nat
  OBVIOUS
<1> HIDE DEF T
<1>4. T = Nat
  BY <1>1, <1>2, <1>3, SetInduction
<1> QED
  BY <1>4 DEF T

\* Beyond the last bit nothing is added.
LEMMA SumBeyond ==
    ASSUME NEW m \in Nat, NEW n \in Nat, m <= n, NEW bits, NEW s, Sums(s, bits, n),
           \A i \in bits : i < m
    PROVE  s[n] = s[m]
<1> DEFINE T == {k \in Nat : m + k <= n => s[m + k] = s[m]}
<1>1. 0 \in T
  OBVIOUS
<1>2. ASSUME NEW k \in T PROVE k + 1 \in T
  <2> SUFFICES ASSUME m + (k + 1) <= n PROVE s[m + (k + 1)] = s[m]
    OBVIOUS
  <2>1. m + (k + 1) \in 1 .. n /\ (m + (k + 1)) - 1 = m + k /\ m + k \in 0 .. n
    OBVIOUS
  <2>2. m + k \notin bits
    OBVIOUS
  <2>3. s[m + k] = s[m] /\ s[m + k] \in Nat
    BY <2>1 DEF Sums
  <2> QED
    BY <2>1, <2>2, <2>3 DEF Sums
<1>3. T \subseteq Nat
  OBVIOUS
<1> HIDE DEF T
<1>4. T = Nat
  BY <1>1, <1>2, <1>3, SetInduction
<1>5. n - m \in T /\ m + (n - m) = n
  BY <1>4
<1> QED
  BY <1>5 DEF T

\* Only no bits stand for 0.
LEMMA SumOfNothing ==
    ASSUME NEW n \in Nat, NEW bits, NEW s, Sums(s, bits, n)
    PROVE  s[n] = 0 <=> \A i \in 0 .. n - 1 : i \notin bits
<1> DEFINE T == {k \in Nat : k <= n => (s[k] = 0 <=> \A i \in 0 .. k - 1 : i \notin bits)}
<1>1. 0 \in T
  BY DEF Sums
<1>2. ASSUME NEW k \in T PROVE k + 1 \in T
  <2> SUFFICES ASSUME k + 1 <= n PROVE s[k + 1] = 0 <=> \A i \in 0 .. k : i \notin bits
    OBVIOUS
  <2>1. k + 1 \in 1 .. n /\ (k + 1) - 1 = k /\ k \in 0 .. n
    OBVIOUS
  <2>2. s[k + 1] = s[k] + (IF k \in bits THEN Pow2[k] ELSE 0) /\ s[k] \in Nat
    BY <2>1 DEF Sums
  <2>3. s[k] = 0 <=> \A i \in 0 .. k - 1 : i \notin bits
    OBVIOUS
  <2>4. Pow2[k] \in Nat /\ Pow2[k] > 0
    BY Powers
  <2>5. s[k + 1] = 0 <=> s[k] = 0 /\ k \notin bits
    BY <2>2, <2>4
  <2>6. 0 .. k = (0 .. k - 1) \cup {k}
    OBVIOUS
  <2> QED
    BY <2>3, <2>5, <2>6
<1>3. T \subseteq Nat
  OBVIOUS
<1> HIDE DEF T
<1>4. T = Nat
  BY <1>1, <1>2, <1>3, SetInduction
<1> QED
  BY <1>4 DEF T

\* The bits of 2 ^ w - 1 are those below w.
LEMMA OnesBelow ==
    ASSUME NEW w \in Nat, NEW i \in Nat
    PROVE  ((Pow2[w] - 1) \div Pow2[i]) % 2 = 1 <=> i < w
<1>1. Pow2[w] \in Nat /\ Pow2[w] > 0 /\ Pow2[i] \in Nat /\ Pow2[i] > 0
  BY Powers
<1>2. CASE i < w
  <2> DEFINE h == Pow2[(w - i) - 1]
  <2>1. w - i \in Nat /\ (w - i) - 1 \in Nat /\ ((w - i) - 1) + 1 = w - i /\ i + (w - i) = w
    BY <1>2
  <2>2. Pow2[w] = Pow2[i] * Pow2[w - i]
    BY <2>1, PowerOfSum
  <2>3. Pow2[w - i] = 2 * h /\ h \in Nat /\ h > 0
    BY <2>1, Powers
  <2> HIDE DEF h
  <2>4. Pow2[w] - 1 = Pow2[i] * (2 * h - 1) + (Pow2[i] - 1)
    <3>1. Pow2[i] * (2 * h - 1) = Pow2[i] * (2 * h) - Pow2[i] * 1
      BY <1>1, <2>3, Distributes
    <3> QED
      BY <1>1, <2>2, <2>3, <3>1
  <2>5. 2 * h - 1 = (Pow2[w] - 1) \div Pow2[i]
    <3>1. Pow2[w] - 1 \in Int /\ 2 * h - 1 \in Int /\ Pow2[i] - 1 \in Nat /\ Pow2[i] - 1 < Pow2[i]
      BY <1>1, <2>3
    <3> QED
      BY <1>1, <2>4, <3>1, Quotient
  <2>6. (2 * h - 1) % 2 = 1
    BY <2>3
  <2> QED
    BY <1>2, <2>5, <2>6
<1>3. CASE ~(i < w)
  <2>1. Pow2[w] <= Pow2[i]
    BY <1>1, <1>3, PowerGrows
  <2>2. Pow2[w] - 1 = Pow2[i] * 0 + (Pow2[w] - 1) /\ Pow2[w] - 1 \in Nat /\ Pow2[w] - 1 < Pow2[i]
    BY <1>1, <2>1
  <2>3. (Pow2[w] - 1) \div Pow2[i] = 0
    BY <1>1, <2>2, Quotient
  <2> QED
    BY <1>3, <2>3
<1> QED
  BY <1>2, <1>3

-----------------------------------------------------------------------------
(* FIELDS.  Two fields that share a word share no position in it.            *)

AcquisitionFields == {"duration", "tof", "output_type", "rfrequency", "rchannel"}
GeneratorFields == {"lfsr_seed", "tmanual_dest", "manual_trigger", "rfrequency", "dfrequency",
                    "dchannel", "rchannel"}
DelayFields == {"mask", "delay"}

IsField(f) ==
    /\ f = <<f[1], f[2], f[3]>>
    /\ \/ Kind(f[1]) = "acquisition" /\ f[2] \in AcquisitionFields /\ f[3] = 0
       \/ Kind(f[1]) = "generator" /\ f[2] \in GeneratorFields /\ f[3] = 0
       \/ Kind(f[1]) = "trigger_generator" /\ f[2] = "experiment_duration" /\ f[3] = 0
       \/ Kind(f[1]) = "trigger_generator" /\ f[2] \in DelayFields /\ f[3] \in Nat \ {0}

Positions(f) == Place(f).start .. Place(f).start + Place(f).length - 1

\* Where a field starts and ends are numbers.
LEMMA PlacesAreNumbers ==
    ASSUME NEW f, IsField(f)
    PROVE  Place(f).start \in Nat /\ Place(f).length \in Nat /\ Place(f).offset \in Nat
<1>1. CASE Kind(f[1]) = "acquisition"
  BY <1>1, ParameterAssumption DEF IsField, Place, Places, AcquisitionFields
<1>2. CASE Kind(f[1]) = "generator"
  BY <1>2, ParameterAssumption DEF IsField, Place, Places, GeneratorFields
<1>3. CASE Kind(f[1]) = "trigger_generator"
  BY <1>3, ParameterAssumption DEF IsField, Place, Places, DelayFields
<1> QED
  BY <1>1, <1>2, <1>3 DEF IsField

\* Two fields of one word share no position: the setters of a word do not overlap.
LEMMA FieldsDisjoint ==
    ASSUME NEW f, NEW g, IsField(f), IsField(g), f # g, Word(f) = Word(g)
    PROVE  Positions(f) \cap Positions(g) = {}
<1>1. f[1] = g[1]
  BY DEF Word
<1>2. CASE Kind(f[1]) = "acquisition"
  <2>1. f[2] # g[2] /\ Place(f).offset = Place(g).offset
    BY <1>1, <1>2 DEF IsField, Word
  <2>2. {f[2], g[2]} \subseteq {"duration", "tof", "output_type"}
    BY <1>1, <1>2, <2>1 DEF IsField, Place, Places, AcquisitionFields
  <2> QED
    BY <1>1, <1>2, <2>1, <2>2, ParameterAssumption DEF Positions, Place, Places
<1>3. CASE Kind(f[1]) = "generator"
  <2>1. f[2] # g[2] /\ Place(f).offset = Place(g).offset
    BY <1>1, <1>3 DEF IsField, Word
  <2>2. \/ {f[2], g[2]} \subseteq {"lfsr_seed", "tmanual_dest", "manual_trigger"}
        \/ {f[2], g[2]} \subseteq {"dchannel", "rchannel"}
    BY <1>1, <1>3, <2>1 DEF IsField, Place, Places, GeneratorFields
  <2> QED
    BY <1>1, <1>3, <2>1, <2>2, ParameterAssumption DEF Positions, Place, Places
<1>4. CASE Kind(f[1]) = "trigger_generator"
  <2>1. f[3] # 0 /\ g[3] # 0
    BY <1>1, <1>4 DEF IsField, Word
  <2>2. 2 * (f[3] - 1) + Place(f).offset = 2 * (g[3] - 1) + Place(g).offset
    BY <2>1 DEF Word
  <2>3. f[3] \in Nat /\ g[3] \in Nat /\ Place(f).offset \in {0, 1} /\ Place(g).offset \in {0, 1}
    BY <1>1, <1>4, <2>1 DEF IsField, Place, Places, DelayFields
  <2>4. f[3] = g[3] /\ Place(f).offset = Place(g).offset
    BY <2>2, <2>3
  <2>5. f[2] = g[2]
    BY <1>1, <1>4, <2>1, <2>4 DEF IsField, Place, Places, DelayFields
  <2> QED
    BY <1>1, <2>4, <2>5 DEF IsField
<1> QED
  BY <1>2, <1>3, <1>4 DEF IsField

-----------------------------------------------------------------------------
(* WRITING A FIELD *)

Typed(history) ==
    \A s \in history : s = <<s[1], s[2]>> /\ IsField(s[1]) /\ s[2] \in 0 .. Place(s[1]).length - 1

Image(history) == {<<Word(s[1]), Place(s[1]).start + s[2]>> : s \in history}

\* A write of a field and its record in the history agree.
LEMMA WriteAgrees ==
    ASSUME NEW bits, NEW history, NEW f, NEW value,
           Typed(history), bits = Image(history),
           IsField(f), value \subseteq 0 .. Place(f).length - 1
    PROVE  /\ Typed(Recorded(history, f, value))
           /\ Written(bits, f, value) = Image(Recorded(history, f, value))
<1> USE DEF Written, SetBits, Recorded
<1> DEFINE kept == {s \in history : s[1] # f}
           new == {f} \X value
           left == {b \in bits : b[1] # Word(f) \/ b[2] \notin Positions(f)}
<1>1. Typed(kept \cup new)
  BY DEF Typed
<1>2. Image(new) = {<<Word(f), Place(f).start + i>> : i \in value}
  <2>1. ASSUME NEW i \in value PROVE <<Word(f), Place(f).start + i>> \in Image(new)
    <3>1. <<f, i>> \in new
      OBVIOUS
    <3> QED
      BY <3>1 DEF Image
  <2>2. ASSUME NEW b \in Image(new)
        PROVE  b \in {<<Word(f), Place(f).start + i>> : i \in value}
    <3>1. PICK s \in new : b = <<Word(s[1]), Place(s[1]).start + s[2]>>
      BY DEF Image
    <3> QED
      BY <3>1
  <2> QED
    BY <2>1, <2>2
<1>3. Image(kept) = left
  <2>1. ASSUME NEW s \in kept PROVE <<Word(s[1]), Place(s[1]).start + s[2]>> \in left
    <3>1. IsField(s[1]) /\ s[2] \in 0 .. Place(s[1]).length - 1 /\ s[1] # f
      BY DEF Typed
    <3>2. Place(s[1]).start + s[2] \in Positions(s[1])
      BY <3>1, PlacesAreNumbers DEF Positions
    <3>3. Word(s[1]) # Word(f) \/ Place(s[1]).start + s[2] \notin Positions(f)
      BY <3>1, <3>2, FieldsDisjoint
    <3> QED
      BY <3>3 DEF Image
  <2>2. ASSUME NEW b \in left PROVE b \in Image(kept)
    <3>1. PICK s \in history : b = <<Word(s[1]), Place(s[1]).start + s[2]>>
      BY DEF Image
    <3>2. IsField(s[1]) /\ s[2] \in 0 .. Place(s[1]).length - 1
      BY DEF Typed
    <3>3. Place(s[1]).start + s[2] \in Positions(s[1])
      BY <3>2, PlacesAreNumbers DEF Positions
    <3>4. s[1] # f
      BY <3>1, <3>3
    <3> QED
      BY <3>1, <3>4 DEF Image
  <2> QED
    BY <2>1, <2>2 DEF Image
<1>4. Image(kept \cup new) = Image(kept) \cup Image(new)
  BY DEF Image
<1> QED
  BY <1>1, <1>2, <1>3, <1>4 DEF Positions
-----------------------------------------------------------------------------
(* THE STEPS *)

IInv == Typed(settings) /\ RegistersHoldSettings

\* What a field is depends on the design only.
LEMMA SameFields ==
    ASSUME design' = design
    PROVE  /\ \A f : IsField(f)' <=> IsField(f)
           /\ \A f : Place(f)' = Place(f) /\ Word(f)' = Word(f)
<1>1. \A m : Kind(m)' = Kind(m)
  BY DEF Kind
<1>2. \A f : Place(f)' = Place(f)
  BY <1>1 DEF Place
<1>3. \A f : Word(f)' = Word(f)
  BY <1>2 DEF Word
<1>4. \A f : IsField(f)' <=> IsField(f)
  BY <1>1 DEF IsField
<1> QED
  BY <1>2, <1>3, <1>4

\* What agrees in the fields of now agrees in those of the next state.
LEMMA Agreeing ==
    ASSUME design' = design, Typed(settings'), registers' = Image(settings')
    PROVE  IInv'
<1>1. Typed(settings)'
  BY SameFields DEF Typed
<1>2. RegistersHoldSettings'
  BY SameFields DEF RegistersHoldSettings, Image
<1> QED
  BY <1>1, <1>2 DEF IInv

\* A step that sets one field of the registers keeps the invariant.
LEMMA SetKeeps ==
    ASSUME NEW f, NEW value, IInv, IsField(f), value \subseteq 0 .. Place(f).length - 1,
           Set(f, value), design' = design
    PROVE  IInv'
<1>1. registers = Image(settings)
  BY DEF IInv, RegistersHoldSettings, Image
<1>2. Typed(settings') /\ registers' = Image(settings')
  BY <1>1, WriteAgrees DEF Set, IInv
<1> QED
  BY <1>2, Agreeing

\* The bits of a value are positions of a field that is long enough.
LEMMA BitsFit == ASSUME NEW v, NEW n \in Nat, NEW m \in Nat, n <= m
                 PROVE  Bits(v, n) \subseteq 0 .. m - 1
BY DEF Bits

\* The bits of a value that fits a word, or two of them, are positions in it.
LEMMA BitsOfWords ==
    ASSUME NEW v, NEW n \in Nat
    PROVE  /\ n <= 64 => Bits(v, n) \subseteq 0 .. 63
           /\ n <= 32 => Bits(v, n) \subseteq 0 .. 31
BY DEF Bits

\* The mask of a channel has its bit within the width of the trigger word.
LEMMA MaskFits == ASSUME NEW channel \in 0 .. TriggerWordWidth
                  PROVE  ChannelMask(channel) \subseteq 0 .. TriggerWordWidth - 1
BY ParameterAssumption DEF ChannelMask

\* An entry for an acquisition sets one field, with bits that fit it.
LEMMA AcquisitionKeeps ==
    ASSUME IInv, NEW m, Kind(m) = "acquisition", ConfigureAcquisition(m)
    PROVE  IInv'
<1> USE DEF Field
<1>0. design' = design
  BY DEF ConfigureAcquisition, SetAcquisitionDuration, SetTimeOfFlight, SetOutputMode,
         SetAcquisitionChannel, SetDemodulationFrequency, bootVars, parserVars
<1>1. ASSUME NEW c, SetAcquisitionDuration(m, c) PROVE IInv'
  <2>1. IsField(Field(m, "duration")) /\ Place(Field(m, "duration")).length = DurationWidth
    BY DEF IsField, AcquisitionFields, Place, Places
  <2>2. Bits(c - 1, DurationWidth) \subseteq 0 .. DurationWidth - 1
    BY BitsFit, ParameterAssumption
  <2> QED
    BY <1>0, <1>1, <2>1, <2>2, SetKeeps DEF SetAcquisitionDuration
<1>2. ASSUME NEW c, SetTimeOfFlight(m, c) PROVE IInv'
  <2>1. IsField(Field(m, "tof")) /\ Place(Field(m, "tof")).length = TimeOfFlightWidth
    BY DEF IsField, AcquisitionFields, Place, Places
  <2>2. Bits(c - 1, TimeOfFlightWidth) \subseteq 0 .. TimeOfFlightWidth - 1
    BY BitsFit, ParameterAssumption
  <2> QED
    BY <1>0, <1>2, <2>1, <2>2, SetKeeps DEF SetTimeOfFlight
<1>3. ASSUME NEW mode, SetOutputMode(m, mode) PROVE IInv'
  <2>1. IsField(Field(m, "output_type")) /\ Place(Field(m, "output_type")).length = 3
    BY DEF IsField, AcquisitionFields, Place, Places
  <2>2. PICK bits \in SUBSET (0 .. 2) : Set(Field(m, "output_type"), bits)
    BY <1>3 DEF SetOutputMode
  <2>3. bits \subseteq 0 .. Place(Field(m, "output_type")).length - 1
    BY <2>1
  <2> QED
    BY <1>0, <2>1, <2>2, <2>3, SetKeeps
<1>4. ASSUME NEW channel, SetAcquisitionChannel(m, channel) PROVE IInv'
  <2>1. /\ IsField(Field(m, "rchannel"))
        /\ Place(Field(m, "rchannel")).length = TriggerWordWidth
    BY DEF IsField, AcquisitionFields, Place, Places
  <2>2. /\ ChannelMask(channel) \subseteq 0 .. TriggerWordWidth - 1
        /\ Set(Field(m, "rchannel"), ChannelMask(channel))
    BY <1>4, MaskFits DEF SetAcquisitionChannel
  <2> QED
    BY <1>0, <2>1, <2>2, SetKeeps
<1>5. ASSUME NEW carrier, SetDemodulationFrequency(m, carrier) PROVE IInv'
  <2>1. IsField(Field(m, "rfrequency")) /\ Place(Field(m, "rfrequency")).length = 64
    BY DEF IsField, AcquisitionFields, Place, Places
  <2>2. Masked(Increment(ratio * carrier)) \subseteq 0 .. 63
    BY BitsOfWords, ParameterAssumption DEF Masked, Increment
  <2> QED
    BY <1>0, <1>5, <2>1, <2>2, SetKeeps DEF SetDemodulationFrequency
<1> QED
  BY <1>1, <1>2, <1>3, <1>4, <1>5 DEF ConfigureAcquisition

\* An entry for a generator sets one field, with bits that fit it.
LEMMA GeneratorKeeps ==
    ASSUME IInv, NEW m, Kind(m) = "generator", ConfigureGenerator(m)
    PROVE  IInv'
<1> USE DEF Field
<1>0. design' = design
  BY DEF ConfigureGenerator, SetReadoutFrequency, SetDriveFrequency, SetGeneratorChannel,
         SetLfsrSeed, SetManualWaveDestination, TriggerManually, bootVars, parserVars
<1>1. ASSUME NEW carrier, SetReadoutFrequency(m, carrier) PROVE IInv'
  <2>1. IsField(Field(m, "rfrequency")) /\ Place(Field(m, "rfrequency")).length = 64
    BY DEF IsField, GeneratorFields, Place, Places
  <2>2. Increment(carrier) \subseteq 0 .. 63
    BY BitsOfWords, ParameterAssumption DEF Increment
  <2> QED
    BY <1>0, <1>1, <2>1, <2>2, SetKeeps DEF SetReadoutFrequency
<1>2. ASSUME NEW carrier, SetDriveFrequency(m, carrier) PROVE IInv'
  <2>1. IsField(Field(m, "dfrequency")) /\ Place(Field(m, "dfrequency")).length = 64
    BY DEF IsField, GeneratorFields, Place, Places
  <2>2. Increment(carrier) \subseteq 0 .. 63
    BY BitsOfWords, ParameterAssumption DEF Increment
  <2> QED
    BY <1>0, <1>2, <2>1, <2>2, SetKeeps DEF SetDriveFrequency
<1>3. ASSUME NEW name \in {"rchannel", "dchannel"}, NEW channel,
             SetGeneratorChannel(m, name, channel)
      PROVE  IInv'
  <2>1. IsField(Field(m, name)) /\ Place(Field(m, name)).length = TriggerWordWidth
    BY DEF IsField, GeneratorFields, Place, Places
  <2>2. /\ ChannelMask(channel) \subseteq 0 .. TriggerWordWidth - 1
        /\ Set(Field(m, name), ChannelMask(channel))
    BY <1>3, MaskFits DEF SetGeneratorChannel
  <2> QED
    BY <1>0, <2>1, <2>2, SetKeeps
<1>4. ASSUME NEW seed, SetLfsrSeed(m, seed) PROVE IInv'
  <2>1. IsField(Field(m, "lfsr_seed")) /\ Place(Field(m, "lfsr_seed")).length = SeedWidth
    BY DEF IsField, GeneratorFields, Place, Places
  <2>2. Bits(seed, SeedWidth) \subseteq 0 .. SeedWidth - 1
    BY BitsFit, ParameterAssumption
  <2> QED
    BY <1>0, <1>4, <2>1, <2>2, SetKeeps DEF SetLfsrSeed
<1>5. ASSUME NEW destination, SetManualWaveDestination(m, destination) PROVE IInv'
  <2>1. IsField(Field(m, "tmanual_dest")) /\ Place(Field(m, "tmanual_dest")).length = 1
    BY DEF IsField, GeneratorFields, Place, Places
  <2>2. PICK bits \in SUBSET {0} : Set(Field(m, "tmanual_dest"), bits)
    BY <1>5 DEF SetManualWaveDestination
  <2>3. bits \subseteq 0 .. Place(Field(m, "tmanual_dest")).length - 1
    BY <2>1
  <2> QED
    BY <1>0, <2>1, <2>2, <2>3, SetKeeps
<1>6. ASSUME TriggerManually(m) PROVE IInv'
  <2>1. IsField(Field(m, "manual_trigger")) /\ Place(Field(m, "manual_trigger")).length = 1
    BY DEF IsField, GeneratorFields, Place, Places
  <2> QED
    BY <1>0, <1>6, <2>1, SetKeeps DEF TriggerManually
<1> QED
  BY <1>1, <1>2, <1>3, <1>4, <1>5, <1>6 DEF ConfigureGenerator

\* An entry for the trigger generator sets one field, or both words of a delay.
LEMMA TriggerGeneratorKeeps ==
    ASSUME IInv, NEW m, Kind(m) = "trigger_generator", ConfigureTriggerGenerator(m)
    PROVE  IInv'
<1>0. design' = design
  BY DEF ConfigureTriggerGenerator, SetExperimentDuration, CreateDelayItem, SetDelay, bootVars,
         parserVars
<1>1. ASSUME NEW c, SetExperimentDuration(m, c) PROVE IInv'
  <2>1. /\ IsField(Field(m, "experiment_duration"))
        /\ Place(Field(m, "experiment_duration")).length = 64
    BY DEF Field, IsField, Place, Places
  <2>2. Bits(c, ExperimentBits) \subseteq 0 .. 63
    BY BitsOfWords, ParameterAssumption
  <2> QED
    BY <1>0, <1>1, <2>1, <2>2, SetKeeps DEF SetExperimentDuration
<1>2. ASSUME NEW name, NEW item, CreateDelayItem(m, name, item) PROVE IInv'
  <2>1. settings' = settings /\ registers' = registers
    BY <1>2 DEF CreateDelayItem
  <2> QED
    BY <1>0, <2>1, Agreeing DEF IInv, RegistersHoldSettings, Image
<1>3. ASSUME NEW name, NEW c, SetDelay(m, name, c) PROVE IInv'
  <2> DEFINE i == items[name].index
             time == <<m, "delay", i>>
             mask == <<m, "mask", i>>
             cycles == Bits(c - 1, DriveTimerWidth)
             triggers == Bits(items[name].mask, 15)
                         \cup (IF items[name].ttype = "readout" THEN {15} ELSE {})
             once == Recorded(settings, time, cycles)
  <2>1. i \in Nat \ {0}
    BY <1>3, ParameterAssumption DEF SetDelay, InRange
  <2>2. IsField(time) /\ Place(time).length = 32 /\ IsField(mask) /\ Place(mask).length = 32
    BY <2>1 DEF IsField, DelayFields, Place, Places
  <2>3. cycles \subseteq 0 .. 31 /\ triggers \subseteq 0 .. 31
    BY BitsOfWords, ParameterAssumption
  <2>4. registers = Image(settings) /\ Typed(settings)
    BY DEF IInv, RegistersHoldSettings, Image
  <2>5. Typed(once) /\ Written(registers, time, cycles) = Image(once)
    BY <2>2, <2>3, <2>4, WriteAgrees
  <2>6. /\ Typed(Recorded(once, mask, triggers))
        /\ Written(Written(registers, time, cycles), mask, triggers)
              = Image(Recorded(once, mask, triggers))
    BY <2>2, <2>3, <2>5, WriteAgrees
  <2>7. Typed(settings') /\ registers' = Image(settings')
    BY <1>3, <2>6 DEF SetDelay
  <2> QED
    BY <1>0, <2>7, Agreeing
<1> QED
  BY <1>1, <1>2, <1>3 DEF ConfigureTriggerGenerator

\* The design is fixed once it is chosen.
LEMMA BootKeepsDesign == BootNext => design' = design
BY DEF BootNext, BuildSystemGraph, CreateGraph, Collapse, DiscoverIps, CheckFireqIps,
       DiscoverClocks, InitNode, InitRoot, BuildDependencies, BuildRootDependencies, Select,
       parserVars

\* Every step keeps the invariant: the boot writes no register, a reset clears the record too.
LEMMA NextKeeps == IInv /\ [Next]_vars => IInv'
<1> SUFFICES ASSUME IInv, [Next]_vars PROVE IInv'
  OBVIOUS
<1> USE DEF OfKind
<1>1. CASE \E m \in OfKind("acquisition") : ConfigureAcquisition(m)
  BY <1>1, AcquisitionKeeps
<1>2. CASE \E m \in OfKind("generator") : ConfigureGenerator(m)
  BY <1>2, GeneratorKeeps
<1>3. CASE \E m \in OfKind("trigger_generator") : ConfigureTriggerGenerator(m)
  BY <1>3, TriggerGeneratorKeeps
<1>4. CASE ResetAll
  BY <1>4 DEF ResetAll, IInv, Typed, RegistersHoldSettings
<1>5. CASE (BootNext /\ UNCHANGED registerVars) \/ UNCHANGED vars
  <2>1. design' = design /\ registers' = registers /\ settings' = settings
    BY <1>5, BootKeepsDesign DEF registerVars, vars, bootVars, parserVars
  <2> QED
    BY <2>1, Agreeing DEF IInv, RegistersHoldSettings, Image
<1> QED
  BY <1>1, <1>2, <1>3, <1>4, <1>5 DEF Next

\* At any time the registers of the IPs hold exactly what was last accepted for each of their
\* parameters: no setter disturbs a parameter of another one in the word it writes.
THEOREM SettingsHeld == Spec => []RegistersHoldSettings
<1>1. Init => IInv
  BY DEF Init, IInv, Typed, RegistersHoldSettings
<1>2. IInv => RegistersHoldSettings
  BY DEF IInv
<1> QED
  BY <1>1, <1>2, NextKeeps, PTL DEF Spec

-----------------------------------------------------------------------------
(* FILTERED, and the modules that boot finds with it.                        *)

\* A sequence with one more element, if the set has it.
Grown(q, x, set) == IF x \in set THEN Append(q, x) ELSE q

\* The recursion of Filtered, up to the n-th element.
Filters(f, s, set, n) ==
    /\ f = [i \in 0 .. n |-> f[i]]
    /\ f[0] = <<>>
    /\ \A i \in 1 .. n : f[i] = Grown(f[i - 1], s[i], set)

\* It can be followed as far as one likes.
LEMMA FiltersExist == ASSUME NEW s, NEW set PROVE \A n \in Nat : \E f : Filters(f, s, set, n)
<1> DEFINE T == {n \in Nat : \E f : Filters(f, s, set, n)}
<1>1. 0 \in T
  <2>1. Filters([i \in 0 .. 0 |-> <<>>], s, set, 0)
    BY DEF Filters
  <2> QED
    BY <2>1
<1>2. ASSUME NEW n \in T PROVE n + 1 \in T
  <2>1. PICK f : Filters(f, s, set, n)
    OBVIOUS
  <2> DEFINE next == Grown(f[n], s[n + 1], set)
             g == [i \in 0 .. n + 1 |-> IF i = n + 1 THEN next ELSE f[i]]
  <2>2. \A i \in 0 .. n : g[i] = f[i]
    OBVIOUS
  <2>3. g[n + 1] = next /\ g = [i \in 0 .. n + 1 |-> g[i]]
    OBVIOUS
  <2> HIDE DEF g
  <2>4. ASSUME NEW i \in 1 .. n + 1
        PROVE  g[i] = Grown(g[i - 1], s[i], set)
    <3>1. CASE i = n + 1
      <4>1. i - 1 = n /\ n \in 0 .. n
        BY <3>1
      <4> QED
        BY <2>2, <2>3, <3>1, <4>1
    <3>2. CASE i # n + 1
      <4>1. i \in 1 .. n /\ i \in 0 .. n /\ i - 1 \in 0 .. n
        BY <3>2
      <4>2. g[i] = f[i] /\ g[i - 1] = f[i - 1]
        BY <2>2, <4>1
      <4>3. f[i] = Grown(f[i - 1], s[i], set)
        BY <2>1, <4>1 DEF Filters
      <4> QED
        BY <4>2, <4>3
    <3> QED
      BY <3>1, <3>2
  <2>5. g[0] = <<>>
    BY <2>1, <2>2 DEF Filters
  <2>6. Filters(g, s, set, n + 1)
    BY <2>3, <2>4, <2>5 DEF Filters
  <2> QED
    BY <2>6
<1>3. T \subseteq Nat
  OBVIOUS
<1> HIDE DEF T
<1>4. T = Nat
  BY <1>1, <1>2, <1>3, SetInduction
<1> QED
  BY <1>4 DEF T

\* What is appended is one more element.
LEMMA AppendRange ==
    ASSUME NEW S, NEW q \in Seq(S), NEW x \in S
    PROVE  Range(Append(q, x)) = Range(q) \cup {x}
<1>1. /\ DOMAIN Append(q, x) = 1 .. Len(q) + 1 /\ DOMAIN q = 1 .. Len(q) /\ Len(q) \in Nat
      /\ \A i \in 1 .. Len(q) : Append(q, x)[i] = q[i]
      /\ Append(q, x)[Len(q) + 1] = x
  OBVIOUS
<1>2. 1 .. Len(q) + 1 = (1 .. Len(q)) \cup {Len(q) + 1}
  BY <1>1
<1>3. Range(q) = {q[i] : i \in 1 .. Len(q)}
  BY <1>1 DEF Range
<1>4. Range(Append(q, x)) = {Append(q, x)[i] : i \in 1 .. Len(q) + 1}
  BY <1>1 DEF Range
<1> QED
  BY <1>1, <1>2, <1>3, <1>4

\* One that it does not have yet does not repeat.
LEMMA AppendsOnce ==
    ASSUME NEW S, NEW q \in Seq(S), NEW x \in S, IsInjective(q), x \notin Range(q)
    PROVE  IsInjective(Append(q, x))
<1>1. /\ DOMAIN Append(q, x) = 1 .. Len(q) + 1 /\ DOMAIN q = 1 .. Len(q) /\ Len(q) \in Nat
      /\ \A i \in 1 .. Len(q) : Append(q, x)[i] = q[i]
      /\ Append(q, x)[Len(q) + 1] = x
  OBVIOUS
<1>2. \A i \in 1 .. Len(q) : q[i] # x
  BY <1>1 DEF Range
<1>3. \A i \in 1 .. Len(q) + 1 : i \in 1 .. Len(q) \/ i = Len(q) + 1
  BY <1>1
<1> QED
  BY <1>1, <1>2, <1>3 DEF IsInjective

\* What is left of a sequence is gathered element by element.
LEMMA FilteredSteps ==
    ASSUME NEW S, NEW s \in Seq(S), NEW set
    PROVE  \E f : /\ Filtered(s, set) = f[Len(s)] /\ f[0] = <<>>
                  /\ \A i \in 1 .. Len(s) : f[i] = Grown(f[i - 1], s[i], set)
<1> DEFINE n == Len(s)
           Solves(f) == f = [i \in 0 .. Len(s) |->
                               IF i = 0 THEN <<>>
                               ELSE IF s[i] \in set THEN Append(f[i - 1], s[i]) ELSE f[i - 1]]
           f == CHOOSE f : Solves(f)
<1>1. n \in Nat
  OBVIOUS
<1>2. \E g : Solves(g)
  <2>1. PICK g : Filters(g, s, set, n)
    BY <1>1, FiltersExist
  <2>2. g = [i \in 0 .. n |-> g[i]]
    BY <2>1 DEF Filters
  <2>3. \A i \in 0 .. n : g[i] = IF i = 0 THEN <<>> ELSE Grown(g[i - 1], s[i], set)
    <3>1. ASSUME NEW i \in 0 .. n, i # 0 PROVE g[i] = Grown(g[i - 1], s[i], set)
      <4>1. i \in 1 .. n
        BY <3>1
      <4> QED
        BY <2>1, <4>1 DEF Filters
    <3> QED
      BY <2>1, <3>1 DEF Filters
  <2>4. g = [i \in 0 .. n |-> IF i = 0 THEN <<>> ELSE Grown(g[i - 1], s[i], set)]
    BY <2>2, <2>3
  <2>5. Solves(g)
    BY Zenon, <2>4 DEF Grown
  <2> QED
    BY <2>5
<1>3. Solves(f)
  BY Zenon, <1>2
<1>4. Filtered(s, set) = f[n]
  BY DEF Filtered
<1>a. f = [i \in 0 .. n |-> IF i = 0 THEN <<>> ELSE Grown(f[i - 1], s[i], set)]
  BY Zenon, <1>3 DEF Grown
<1> HIDE DEF f
<1>5. f[0] = <<>> /\ \A i \in 1 .. n : f[i] = Grown(f[i - 1], s[i], set)
  <2>1. f[0] = <<>>
    BY <1>1, <1>a
  <2>2. ASSUME NEW i \in 1 .. n PROVE f[i] = Grown(f[i - 1], s[i], set)
    <3>1. i \in 0 .. n /\ i # 0
      OBVIOUS
    <3> QED
      BY <1>a, <3>1
  <2> QED
    BY <2>1, <2>2
<1> QED
  BY <1>4, <1>5

\* Those of the first k elements of a sequence that a set has, each once if it was.
Gathered(q, s, set, S, k) ==
    /\ q \in Seq(S)
    /\ Range(q) = {s[j] : j \in 1 .. k} \cap set
    /\ IsInjective(s) => IsInjective(q)

\* One element more.
LEMMA GatherNext ==
    ASSUME NEW S, NEW s \in Seq(S), NEW set, NEW k \in Nat, k + 1 \in 1 .. Len(s),
           NEW q, Gathered(q, s, set, S, k)
    PROVE  Gathered(Grown(q, s[k + 1], set), s, set, S, k + 1)
<1>1. /\ q \in Seq(S) /\ Range(q) = {s[j] : j \in 1 .. k} \cap set
      /\ IsInjective(s) => IsInjective(q)
  BY DEF Gathered
<1>2. s[k + 1] \in S
  OBVIOUS
<1>3. {s[j] : j \in 1 .. k + 1} = {s[j] : j \in 1 .. k} \cup {s[k + 1]}
  <2>1. 1 .. k + 1 = (1 .. k) \cup {k + 1}
    OBVIOUS
  <2> QED
    BY <2>1
<1>4. CASE s[k + 1] \in set
  <2>1. Grown(q, s[k + 1], set) = Append(q, s[k + 1])
    BY <1>4 DEF Grown
  <2>2. Range(Append(q, s[k + 1])) = Range(q) \cup {s[k + 1]}
    BY <1>1, <1>2, AppendRange
  <2>3. ASSUME IsInjective(s) PROVE IsInjective(Append(q, s[k + 1]))
    <3>1. \A j \in 1 .. k : s[j] # s[k + 1]
      BY <2>3 DEF IsInjective
    <3>2. s[k + 1] \notin Range(q)
      BY <1>1, <3>1
    <3>3. IsInjective(q)
      BY <1>1, <2>3
    <3> QED
      <4> DEFINE x == s[k + 1]
      <4>1. q \in Seq(S) /\ x \in S /\ x \notin Range(q)
        BY <1>1, <1>2, <3>2
      <4> HIDE DEF x
      <4>2. IsInjective(Append(q, x))
        BY <3>3, <4>1, AppendsOnce
      <4> QED
        BY <4>2 DEF x
  <2>4. Append(q, s[k + 1]) \in Seq(S)
    BY <1>1, <1>2
  <2> QED
    BY <1>1, <1>3, <1>4, <2>1, <2>2, <2>3, <2>4 DEF Gathered
<1>5. CASE s[k + 1] \notin set
  BY <1>1, <1>3, <1>5 DEF Grown, Gathered
<1> QED
  BY <1>4, <1>5

\* What is left of a sequence are its elements that the set has, each once if it was.
LEMMA FilteredElements ==
    ASSUME NEW S, NEW s \in Seq(S), NEW set
    PROVE  /\ Filtered(s, set) \in Seq(S) /\ Range(Filtered(s, set)) = Range(s) \cap set
           /\ IsInjective(s) => IsInjective(Filtered(s, set))
<1> DEFINE n == Len(s)
<1>1. n \in Nat
  OBVIOUS
<1>2. PICK f : /\ Filtered(s, set) = f[n] /\ f[0] = <<>>
               /\ \A i \in 1 .. n : f[i] = Grown(f[i - 1], s[i], set)
  BY FilteredSteps
<1> DEFINE T == {k \in Nat : k <= n => Gathered(f[k], s, set, S, k)}
<1>3. 0 \in T
  <2>1. Range(<<>>) = {} /\ IsInjective(<<>>) /\ <<>> \in Seq(S)
    BY DEF Range, IsInjective
  <2>2. {s[j] : j \in 1 .. 0} \cap set = {}
    OBVIOUS
  <2>3. Gathered(<<>>, s, set, S, 0)
    BY <2>1, <2>2 DEF Gathered
  <2> QED
    BY <1>2, <2>3
<1>4. ASSUME NEW k \in T PROVE k + 1 \in T
  <2>1. k \in Nat /\ (k <= n => Gathered(f[k], s, set, S, k))
    OBVIOUS
  <2>2. ASSUME k + 1 <= n PROVE Gathered(f[k + 1], s, set, S, k + 1)
    <3>1. k + 1 \in 1 .. n /\ (k + 1) - 1 = k /\ k <= n
      BY <1>1, <2>1, <2>2
    <3>2. f[k + 1] = Grown(f[k], s[k + 1], set)
      BY <1>2, <3>1
    <3> QED
      BY <2>1, <3>1, <3>2, GatherNext
  <2> QED
    BY <2>1, <2>2
<1>5. T \subseteq Nat
  OBVIOUS
<1> HIDE DEF T
<1>6. T = Nat
  BY <1>3, <1>4, <1>5, SetInduction
<1>7. Gathered(f[n], s, set, S, n)
  <2>1. n \in T /\ n <= n
    BY <1>1, <1>6
  <2> QED
    BY <2>1 DEF T
<1>8. Range(s) = {s[j] : j \in 1 .. n}
  BY DEF Range
<1> QED
  BY <1>2, <1>7, <1>8 DEF Gathered

-----------------------------------------------------------------------------
(* VALUES: what the hardware reads in a field.                               *)

\* The bits that were accepted last for a field.
SettingIn(history, f) == {s[2] : s \in {t \in history : t[1] = f}}

\* The bits of a field that are 1.
Held(f) == {i \in 0 .. Place(f).length - 1 : <<Word(f), Place(f).start + i>> \in registers}

\* They are the same.
LEMMA HeldIsSetting ==
    ASSUME IInv, NEW f, IsField(f)
    PROVE  Held(f) = SettingIn(settings, f)
<1>1. registers = Image(settings) /\ Typed(settings)
  BY DEF IInv, RegistersHoldSettings, Image
<1>2. Place(f).start \in Nat /\ Place(f).length \in Nat
  BY PlacesAreNumbers
<1>3. ASSUME NEW i \in SettingIn(settings, f) PROVE i \in Held(f)
  <2>1. PICK s \in settings : s[1] = f /\ s[2] = i
    BY DEF SettingIn
  <2>2. i \in 0 .. Place(f).length - 1
    BY <1>1, <2>1 DEF Typed
  <2>3. <<Word(f), Place(f).start + i>> \in Image(settings)
    BY <2>1 DEF Image
  <2> QED
    BY <1>1, <2>2, <2>3 DEF Held
<1>4. ASSUME NEW i \in Held(f) PROVE i \in SettingIn(settings, f)
  <2>1. i \in 0 .. Place(f).length - 1 /\ <<Word(f), Place(f).start + i>> \in Image(settings)
    BY <1>1 DEF Held
  <2>2. PICK s \in settings :
            Word(f) = Word(s[1]) /\ Place(f).start + i = Place(s[1]).start + s[2]
    BY <2>1 DEF Image
  <2>3. IsField(s[1]) /\ s[2] \in 0 .. Place(s[1]).length - 1
    BY <1>1 DEF Typed
  <2>4. Place(s[1]).start \in Nat /\ Place(s[1]).length \in Nat
    BY <2>3, PlacesAreNumbers
  <2>5. Place(f).start + i \in Positions(f) /\ Place(s[1]).start + s[2] \in Positions(s[1])
    BY <1>2, <2>1, <2>3, <2>4 DEF Positions
  <2>6. s[1] = f
    BY <2>2, <2>3, <2>5, FieldsDisjoint
  <2>7. s[2] = i
    BY <1>2, <2>1, <2>2, <2>3, <2>6
  <2> QED
    BY <2>6, <2>7 DEF SettingIn
<1> QED
  BY <1>3, <1>4

\* The value of a field adds up its bits.
LEMMA ValueIsSum ==
    ASSUME NEW f, Place(f).length \in Nat, Place(f).start \in Nat
    PROVE  \E s : Sums(s, Held(f), Place(f).length) /\ Value(f) = s[Place(f).length]
<1> DEFINE n == Place(f).length
           Bit(i) == <<Word(f), Place(f).start + i - 1>> \in registers
           Solves(s) == s = [i \in 0 .. n |-> IF i = 0 THEN 0
                               ELSE s[i - 1] + (IF Bit(i) THEN Pow2[i - 1] ELSE 0)]
           s == CHOOSE s : Solves(s)
<1>1. n \in Nat
  OBVIOUS
<1>a. Value(f) = s[n]
  BY DEF Value
<1>2. \A i \in 1 .. n : Bit(i) <=> i - 1 \in Held(f)
  <2>1. ASSUME NEW i \in 1 .. n PROVE Bit(i) <=> i - 1 \in Held(f)
    <3>1. i - 1 \in 0 .. n - 1 /\ i \in Int
      BY <1>1
    <3> DEFINE j == i - 1
    <3>2. j \in Held(f) <=> <<Word(f), Place(f).start + j>> \in registers
      BY <3>1 DEF Held
    <3>3. Place(f).start + i - 1 = Place(f).start + j
      BY <3>1
    <3> QED
      BY <3>2, <3>3
  <2> QED
    BY <2>1
<1> HIDE DEF Bit
<1>3. \E t : Solves(t)
  <2>1. PICK t : Sums(t, Held(f), n)
    BY <1>1, SumsExist
  <2>2. t = [i \in 0 .. n |-> t[i]] /\ t[0] = 0
    BY <2>1 DEF Sums
  <2>3. \A i \in 0 .. n : t[i] = IF i = 0 THEN 0
                                 ELSE t[i - 1] + (IF Bit(i) THEN Pow2[i - 1] ELSE 0)
    BY <1>1, <1>2, <2>1 DEF Sums
  <2>4. Solves(t)
    BY <2>2, <2>3
  <2> QED
    BY <2>4
<1>4. Solves(s)
  BY Zenon, <1>3
<1> HIDE DEF s
<1>5. s[0] = 0 /\ \A i \in 1 .. n : s[i] = s[i - 1] + (IF Bit(i) THEN Pow2[i - 1] ELSE 0)
  BY <1>1, <1>4
<1> DEFINE T == {k \in Nat : k <= n => s[k] \in Nat}
<1>6. 0 \in T /\ T \subseteq Nat
  BY <1>5
<1>7. ASSUME NEW k \in T PROVE k + 1 \in T
  <2> SUFFICES ASSUME k + 1 <= n PROVE s[k + 1] \in Nat
    OBVIOUS
  <2>1. k + 1 \in 1 .. n /\ (k + 1) - 1 = k /\ s[k] \in Nat
    OBVIOUS
  <2>2. Pow2[k] \in Nat
    BY Powers
  <2> QED
    BY <1>5, <2>1, <2>2
<1> HIDE DEF T
<1>8. T = Nat
  BY <1>6, <1>7, SetInduction
<1>9. \A k \in 0 .. n : s[k] \in Nat
  BY <1>1, <1>8 DEF T
<1>10. s = [i \in 0 .. n |-> s[i]]
  BY <1>4
<1>11. Sums(s, Held(f), n)
  BY <1>1, <1>2, <1>5, <1>9, <1>10 DEF Sums
<1> QED
  BY <1>a, <1>11

\* A field with the bits of a number from position w on.
LEMMA ValueOfBits ==
    ASSUME IInv, NEW f, IsField(f), NEW v \in Nat, NEW w \in Nat, NEW n \in Nat,
           n <= Place(f).length, SettingIn(settings, f) = {i \in Bits(v, n) : i >= w}
    PROVE  Value(f) = IF n < w THEN 0 ELSE (v % Pow2[n]) - (v % Pow2[w])
<1> DEFINE l == Place(f).length
           bits == Held(f)
<1>1. l \in Nat /\ Place(f).start \in Nat
  BY PlacesAreNumbers
<1>2. PICK s : Sums(s, bits, l) /\ Value(f) = s[l]
  BY <1>1, ValueIsSum
<1>3. bits = {i \in Bits(v, n) : i >= w}
  BY HeldIsSetting
<1> HIDE DEF bits, l
<1>4. n <= l
  BY DEF l
<1>5. \A i \in bits : i < n
  BY <1>3 DEF Bits
<1>6. s[l] = s[n]
  BY <1>1, <1>2, <1>4, <1>5, SumBeyond
<1> DEFINE r == [i \in 0 .. n |-> s[i]]
<1>7. Sums(r, bits, n)
  <2>1. s \in [0 .. l -> Nat] /\ s[0] = 0
    BY <1>2 DEF Sums
  <2>2. \A i \in 0 .. n : i \in 0 .. l /\ r[i] = s[i]
    BY <1>1, <1>4
  <2>3. r \in [0 .. n -> Nat]
    BY <2>1, <2>2
  <2>4. ASSUME NEW i \in 1 .. n PROVE r[i] = r[i - 1] + (IF i - 1 \in bits THEN Pow2[i - 1] ELSE 0)
    <3>1. i \in 0 .. n /\ i - 1 \in 0 .. n /\ i \in 1 .. l
      BY <1>1, <1>4
    <3>2. s[i] = s[i - 1] + (IF i - 1 \in bits THEN Pow2[i - 1] ELSE 0)
      BY <1>2, <3>1 DEF Sums
    <3>3. r[i] = s[i] /\ r[i - 1] = s[i - 1]
      BY <2>2, <3>1
    <3> QED
      BY <3>2, <3>3
  <2>5. r[0] = 0
    BY <2>1, <2>2
  <2> HIDE DEF r
  <2> QED
    BY <2>3, <2>4, <2>5 DEF Sums
<1>8. BitsFrom(bits, v, w, n)
  BY <1>3 DEF Bits, BitsFrom
<1>9. r[n] = IF n < w THEN 0 ELSE (v % Pow2[n]) - (v % Pow2[w])
  <2>1. n \in 0 .. n
    OBVIOUS
  <2> HIDE DEF r
  <2>2. \A k \in 0 .. n : r[k] = IF k < w THEN 0 ELSE (v % Pow2[k]) - (v % Pow2[w])
    BY <1>7, <1>8, SumOfBits
  <2> QED
    BY <2>1, <2>2
<1>10. r[n] = s[n]
  OBVIOUS
<1> QED
  BY <1>2, <1>6, <1>9, <1>10

\* A field with all the bits of a number that fits.
LEMMA ValueOfAll ==
    ASSUME IInv, NEW f, IsField(f), NEW v \in Nat, NEW n \in Nat,
           n <= Place(f).length, v < Pow2[n], SettingIn(settings, f) = Bits(v, n)
    PROVE  Value(f) = v
<1>1. Bits(v, n) = {i \in Bits(v, n) : i >= 0}
  BY DEF Bits
<1>2. Value(f) = IF n < 0 THEN 0 ELSE (v % Pow2[n]) - (v % Pow2[0])
  <2>1. 0 \in Nat
    OBVIOUS
  <2> QED
    BY <1>1, <2>1, ValueOfBits
<1>3. v % Pow2[n] = v
  <2>1. Pow2[n] \in Nat /\ v = Pow2[n] * 0 + v
    BY Powers
  <2> QED
    BY <2>1, Quotient
<1>4. v % Pow2[0] = 0
  BY Powers
<1> QED
  BY <1>2, <1>3, <1>4

\* A field without any bit.
LEMMA ValueOfNothing ==
    ASSUME IInv, NEW f, IsField(f)
    PROVE  Value(f) = 0 <=> SettingIn(settings, f) = {}
<1>1. Place(f).length \in Nat /\ Place(f).start \in Nat
  BY PlacesAreNumbers
<1>2. PICK s : Sums(s, Held(f), Place(f).length) /\ Value(f) = s[Place(f).length]
  BY <1>1, ValueIsSum
<1>3. Value(f) = 0 <=> \A i \in 0 .. Place(f).length - 1 : i \notin Held(f)
  BY <1>1, <1>2, SumOfNothing
<1>4. Held(f) \subseteq 0 .. Place(f).length - 1
  BY DEF Held
<1> QED
  BY <1>3, <1>4, HeldIsSetting

\* A setting that is recorded replaces that of its field, and no other.
LEMMA RecordedSetting ==
    ASSUME NEW history, NEW f, NEW value
    PROVE  /\ SettingIn(Recorded(history, f, value), f) = value
           /\ \A g : g # f => SettingIn(Recorded(history, f, value), g) = SettingIn(history, g)
<1>1. ASSUME NEW g, g # f
      PROVE  {t \in Recorded(history, f, value) : t[1] = g} = {t \in history : t[1] = g}
  BY <1>1 DEF Recorded
<1>2. {t \in Recorded(history, f, value) : t[1] = f} = {f} \X value
  BY DEF Recorded
<1>3. {s[2] : s \in {f} \X value} = value
  <2>1. ASSUME NEW x \in value PROVE x \in {s[2] : s \in {f} \X value}
    <3>1. <<f, x>> \in {f} \X value /\ <<f, x>>[2] = x
      OBVIOUS
    <3> QED
      BY <3>1
  <2> QED
    BY <2>1
<1> QED
  BY <1>1, <1>2, <1>3 DEF SettingIn

-----------------------------------------------------------------------------
(* BOOT, as far as the registers need it.                                    *)

\* What is known before the system is up, and of the ratio afterwards.
Booted ==
    /\ design \in Designs
    /\ ips \in Seq(Modules)
    /\ pc \in {"nodes", "dependencies", "ready"} => \E w \in Nat : ratio = Pow2[w]
    /\ pc # "ready" => settings = {} /\ tuned = {}

\* The IPs of a kind that have one number of channels, which is a power of two.
LEMMA OneNumber ==
    ASSUME design \in Designs, ips \in Seq(Modules), NEW k, Cardinality(Channels(k)) = 1
    PROVE  \E w \in Nat : Min(Channels(k)) = Pow2[w]
<1>1. OfKind(k) \subseteq Range(ips) /\ Range(ips) \subseteq Modules
  BY DEF OfKind, Range
<1>2. IsFiniteSet(Range(ips))
  <2>1. ips \in Surjection(1 .. Len(ips), Range(ips))
    BY DEF Surjection, Range
  <2>2. IsFiniteSet(1 .. Len(ips))
    BY FS_Interval
  <2> QED
    BY <2>1, <2>2, FS_Surjection
<1>3. IsFiniteSet(OfKind(k))
  BY <1>1, <1>2, FS_Subset
<1>4. IsFiniteSet(Channels(k))
  <2> DEFINE g == [m \in OfKind(k) |-> design.channels[m]]
  <2>1. g \in Surjection(OfKind(k), Channels(k))
    BY DEF Surjection, Channels
  <2> QED
    BY <1>3, <2>1, FS_Surjection
<1>5. PICK x : Channels(k) = {x}
  BY <1>4, FS_Singleton
<1>6. PICK m \in OfKind(k) : x = design.channels[m]
  BY <1>5 DEF Channels
<1>7. m \in Modules
  BY <1>1
<1>8. x \in Nat /\ \E w \in 0 .. x : x = Pow2[w]
  BY <1>6, <1>7, DesignAssumption DEF DesignType
<1>9. Min({x}) = x
  BY <1>8 DEF Min
<1> QED
  BY <1>5, <1>8, <1>9

\* The ratio of the samplerates is a power of two.
LEMMA RatioIsPower ==
    ASSUME design \in Designs, ips \in Seq(Modules), Ratio >= 1,
           Cardinality(Channels("generator")) = 1, Cardinality(Channels("acquisition")) = 1
    PROVE  \E w \in Nat : Ratio = Pow2[w]
<1>1. PICK a \in Nat : Min(Channels("generator")) = Pow2[a]
  BY OneNumber
<1>2. PICK b \in Nat : Min(Channels("acquisition")) = Pow2[b]
  BY OneNumber
<1>3. Ratio = Pow2[a] \div Pow2[b]
  BY <1>1, <1>2 DEF Ratio
<1>4. Pow2[a] \in Nat /\ Pow2[b] \in Nat /\ Pow2[b] > 0
  BY Powers
<1>5. b <= a
  <2>1. SUFFICES ASSUME a < b PROVE FALSE
    OBVIOUS
  <2>2. Pow2[a] < Pow2[b] /\ Pow2[a] = Pow2[b] * 0 + Pow2[a]
    BY <1>4, <2>1, PowerGrows
  <2>3. Ratio = 0
    BY <1>3, <1>4, <2>2, Quotient
  <2> QED
    BY <2>3
<1>6. a - b \in Nat /\ b + (a - b) = a
  BY <1>5
<1>7. Pow2[a] = Pow2[b] * Pow2[a - b] + 0 /\ Pow2[a - b] \in Nat
  <2>1. Pow2[a - b] \in Nat
    BY <1>6, Powers
  <2>2. Pow2[b + (a - b)] = Pow2[b] * Pow2[a - b]
    BY <1>6, PowerOfSum
  <2> QED
    BY <1>4, <1>6, <2>1, <2>2
<1>8. Pow2[a] \div Pow2[b] = Pow2[a - b]
  BY <1>4, <1>7, Quotient
<1> QED
  BY <1>3, <1>6, <1>8

\* The steps of boot keep it.
LEMMA BootKeeps == ASSUME Booted, BootNext, UNCHANGED registerVars PROVE Booted'
<1>1. design' = design /\ settings' = settings /\ tuned' = tuned
  BY BootKeepsDesign DEF registerVars
<1>2. design.order \in Seq(Modules)
  BY DesignAssumption DEF Booted, DesignType
<1> USE DEF Booted, Proceed, parserVars, nodeVars, runVars
<1>3. CASE /\ BuildSystemGraph \/ CreateGraph \/ Collapse
           /\ UNCHANGED <<ips, ratio, todo, nodeVars, runVars>>
  BY <1>1, <1>3 DEF BuildSystemGraph, CreateGraph, Collapse
<1>4. CASE DiscoverIps
  <2>1. Nodes \in Seq(Modules)
    BY <1>2, FilteredElements DEF Nodes
  <2>2. ips' \in Seq(Modules)
    BY <1>4, <2>1, FilteredElements DEF DiscoverIps
  <2> QED
    BY <1>1, <1>4, <2>2 DEF DiscoverIps
<1>5. CASE CheckFireqIps
  BY <1>1, <1>5 DEF CheckFireqIps
<1>6. CASE DiscoverClocks
  <2>1. ips' = ips /\ ratio' = Ratio /\ pc = "clocks" /\ pc' \in {"nodes", "refused"}
    BY <1>6 DEF DiscoverClocks
  <2>2. pc' = "nodes" => \E w \in Nat : Ratio = Pow2[w]
    BY <1>6, RatioIsPower DEF DiscoverClocks
  <2> QED
    BY <1>1, <2>1, <2>2
<1>7. CASE InitNode \/ InitRoot
  BY <1>1, <1>7 DEF InitNode, InitRoot
<1>8. CASE BuildDependencies \/ BuildRootDependencies
  BY <1>1, <1>8 DEF BuildDependencies, BuildRootDependencies
<1>9. ASSUME NEW d, NEW i, Select(d, i) PROVE Booted'
  BY <1>1, <1>9 DEF Select
<1> QED
  BY <1>3, <1>4, <1>5, <1>6, <1>7, <1>8, <1>9 DEF BootNext

-----------------------------------------------------------------------------
(* WHAT THE SOFTWARE KNOWS of the registers: the cache of an acquisition, and *)
(* the frequencies that were accepted.                                       *)

\* The bits of an output mode.
ModeBits(mode) ==
    CASE mode = "raw" -> {2} [] mode = "decimated" -> {1} [] mode = "accumulated" -> {0, 1}
      [] OTHER -> {}

\* The cache of an acquisition agrees with what was accepted for it.
Agrees(c, history, m) ==
    /\ c.duration > 0 =>
          /\ c.duration <= Pow2[DurationWidth]
          /\ SettingIn(history, Field(m, "duration")) = Bits(c.duration - 1, DurationWidth)
    /\ SettingIn(history, Field(m, "output_type")) = ModeBits(c.output_mode)
    /\ c.active <=> SettingIn(history, Field(m, "rchannel")) # {}

\* The bits of the increment that a module of a kind gets for a carrier, with a ratio.
Tuning(kind, r, carrier) ==
    IF kind = "generator" THEN Increment(carrier)
    ELSE Increment(r * carrier) \ Bits(r - 1, PhaseDepth)

CacheType ==
    cache \in [Modules -> [active : BOOLEAN, duration : Nat, output_mode : Modes \cup {"none"}]]
ShotFollows == shot = [m \in Modules |-> PayloadOf(cache[m])]
CacheAgrees == \A m \in Modules : Kind(m) = "acquisition" => Agrees(cache[m], settings, m)
TunedAgrees ==
    \A t \in tuned :
        /\ t[2] \in Nat /\ Kind(t[1]) \in {"generator", "acquisition"}
        /\ SettingIn(settings, Field(t[1], "rfrequency")) = Tuning(Kind(t[1]), ratio, t[2])

\* The registers that the cache of an acquisition is about.
Known(m) == {Field(m, "duration"), Field(m, "output_type"), Field(m, "rchannel")}

\* A parameter of another module, or one that the cache has nothing to say of.
LEMMA CacheStays ==
    ASSUME NEW c, NEW history, NEW m, Agrees(c, history, m), NEW f, f \notin Known(m), NEW value
    PROVE  Agrees(c, Recorded(history, f, value), m)
<1>1. \A g \in Known(m) : SettingIn(Recorded(history, f, value), g) = SettingIn(history, g)
  BY RecordedSetting
<1> QED
  BY <1>1 DEF Agrees, Known

\* What leaves the cache and the frequencies alone, but for a parameter none of them is of.
LEMMA OtherField ==
    ASSUME CacheType, ShotFollows, CacheAgrees, TunedAgrees,
           UNCHANGED <<design, ratio, cache, shot, tuned>>,
           NEW f, NEW value, settings' = Recorded(settings, f, value),
           \A m : Kind(m) = "acquisition" => f \notin Known(m),
           \A m : f # Field(m, "rfrequency")
    PROVE  (CacheType /\ ShotFollows /\ CacheAgrees /\ TunedAgrees)'
<1>1. \A m : Kind(m)' = Kind(m)
  BY DEF Kind
<1>2. CacheType' /\ ShotFollows'
  BY DEF CacheType, ShotFollows
<1>3. CacheAgrees'
  BY <1>1, CacheStays DEF CacheAgrees
<1>4. TunedAgrees'
  BY <1>1, RecordedSetting DEF TunedAgrees
<1> QED
  BY <1>2, <1>3, <1>4

\* A frequency that is accepted.
LEMMA FrequencyField ==
    ASSUME CacheType, ShotFollows, CacheAgrees, TunedAgrees,
           UNCHANGED <<design, ratio, cache, shot>>,
           NEW m, NEW carrier \in Nat, Kind(m) \in {"generator", "acquisition"}, Tune(m, carrier),
           settings' = Recorded(settings, Field(m, "rfrequency"), Tuning(Kind(m), ratio, carrier))
    PROVE  (CacheType /\ ShotFollows /\ CacheAgrees /\ TunedAgrees)'
<1>1. \A n : Kind(n)' = Kind(n)
  BY DEF Kind
<1>2. CacheType' /\ ShotFollows'
  BY DEF CacheType, ShotFollows
<1>3. \A n : Field(m, "rfrequency") \notin Known(n)
  BY DEF Known, Field
<1>4. CacheAgrees'
  BY <1>1, <1>3, CacheStays DEF CacheAgrees
<1>5. ASSUME NEW t \in tuned'
      PROVE  /\ t[2] \in Nat /\ Kind(t[1]) \in {"generator", "acquisition"}
             /\ SettingIn(settings', Field(t[1], "rfrequency")) = Tuning(Kind(t[1]), ratio, t[2])
  <2>1. CASE t = <<m, carrier>>
    BY <2>1, RecordedSetting
  <2>2. CASE t \in tuned /\ t[1] # m
    <3>1. Field(t[1], "rfrequency") # Field(m, "rfrequency")
      BY <2>2 DEF Field
    <3> QED
      BY <2>2, <3>1, RecordedSetting DEF TunedAgrees
  <2> QED
    BY <2>1, <2>2 DEF Tune
<1>6. TunedAgrees'
  BY <1>1, <1>5 DEF TunedAgrees
<1> QED
  BY <1>2, <1>4, <1>6

\* An entry that the cache of its acquisition keeps.
LEMMA CachedField ==
    ASSUME CacheType, ShotFollows, CacheAgrees, TunedAgrees,
           UNCHANGED <<design, ratio, tuned>>,
           NEW m \in Modules, NEW name \in {"duration", "output_type", "rchannel"}, NEW value,
           settings' = Recorded(settings, Field(m, name), value),
           NEW c \in [active : BOOLEAN, duration : Nat, output_mode : Modes \cup {"none"}],
           cache' = [cache EXCEPT ![m] = c], shot' = [shot EXCEPT ![m] = PayloadOf(cache'[m])],
           Agrees(c, settings', m)
    PROVE  (CacheType /\ ShotFollows /\ CacheAgrees /\ TunedAgrees)'
<1>1. \A n : Kind(n)' = Kind(n)
  BY DEF Kind
<1>2. CacheType'
  BY DEF CacheType
<1>3. cache'[m] = c /\ \A n \in Modules \ {m} : cache'[n] = cache[n]
  BY DEF CacheType
<1>4. ShotFollows'
  BY <1>2, <1>3 DEF ShotFollows, CacheType
<1>5. CacheAgrees'
  <2>1. SUFFICES ASSUME NEW n \in Modules, Kind(n) = "acquisition"
                 PROVE  Agrees(cache'[n], settings', n)
    BY <1>1 DEF CacheAgrees
  <2>2. CASE n = m
    BY <1>3, <2>2
  <2>3. CASE n # m
    <3>1. Field(m, name) \notin Known(n)
      BY <2>3 DEF Known, Field
    <3>2. Agrees(cache[n], settings, n)
      BY <2>1 DEF CacheAgrees
    <3> QED
      BY <1>3, <2>3, <3>1, <3>2, CacheStays
  <2> QED
    BY <2>2, <2>3
<1>6. TunedAgrees'
  <2>1. \A t : Field(t[1], "rfrequency") # Field(m, name)
    BY DEF Field
  <2> QED
    BY <1>1, <2>1, RecordedSetting DEF TunedAgrees
<1> QED
  BY <1>2, <1>4, <1>5, <1>6

Followed == IInv /\ Booted /\ CacheType /\ ShotFollows /\ CacheAgrees /\ TunedAgrees

\* An entry of an acquisition.
LEMMA AcquisitionFollowed ==
    ASSUME Followed, NEW m \in Modules, Kind(m) = "acquisition", ConfigureAcquisition(m)
    PROVE  (CacheType /\ ShotFollows /\ CacheAgrees /\ TunedAgrees)'
<1> USE DEF Followed
<1> DEFINE old == cache[m]
           Caches == [active : BOOLEAN, duration : Nat, output_mode : Modes \cup {"none"}]
<1>1. old \in Caches /\ Agrees(old, settings, m)
  BY DEF CacheType, CacheAgrees
<1>2. CacheType /\ ShotFollows /\ CacheAgrees /\ TunedAgrees
  OBVIOUS
<1>a. /\ Field(m, "duration") # Field(m, "output_type")
      /\ Field(m, "duration") # Field(m, "rchannel")
      /\ Field(m, "output_type") # Field(m, "rchannel")
      /\ Field(m, "tof") \notin Known(m)
  BY DEF Field, Known
<1>3. ASSUME NEW d \in Cycles, SetAcquisitionDuration(m, d)
      PROVE  (CacheType /\ ShotFollows /\ CacheAgrees /\ TunedAgrees)'
  <2> DEFINE c == [old EXCEPT !.duration = d]
             f == Field(m, "duration")
             value == Bits(d - 1, DurationWidth)
  <2>1. /\ UNCHANGED <<design, ratio, tuned>>
        /\ settings' = Recorded(settings, f, value)
        /\ cache' = [cache EXCEPT ![m]["duration"] = d]
        /\ shot' = [shot EXCEPT ![m] = PayloadOf(cache'[m])]
        /\ d \in 1 .. Pow2[DurationWidth]
    BY <1>3 DEF SetAcquisitionDuration, Set, Cached, bootVars, parserVars
  <2>2. cache' = [cache EXCEPT ![m] = c]
    BY <1>2, <2>1 DEF CacheType
  <2>3. c \in Caches /\ c.duration = d /\ c.active = old.active /\ c.output_mode = old.output_mode
    BY <1>1, ParameterAssumption
  <2> HIDE DEF c, value
  <2>4. Agrees(c, Recorded(settings, f, value), m)
    <3>1. d <= Pow2[DurationWidth]
      BY <2>1
    <3> QED
      BY <1>1, <1>a, <2>3, <3>1, RecordedSetting DEF Agrees, value
  <2> QED
    BY <1>2, <2>1, <2>2, <2>3, <2>4, CachedField
<1>4. ASSUME NEW t \in Cycles, SetTimeOfFlight(m, t)
      PROVE  (CacheType /\ ShotFollows /\ CacheAgrees /\ TunedAgrees)'
  <2> DEFINE f == Field(m, "tof")
             value == Bits(t - 1, TimeOfFlightWidth)
  <2>1. UNCHANGED <<design, ratio, cache, shot, tuned>> /\ settings' = Recorded(settings, f, value)
    BY <1>4 DEF SetTimeOfFlight, Set, bootVars, parserVars
  <2>2. \A n : f \notin Known(n) /\ f # Field(n, "rfrequency")
    BY DEF Field, Known
  <2> QED
    BY <1>2, <2>1, <2>2, OtherField
<1>5. ASSUME NEW mode \in Modes, SetOutputMode(m, mode)
      PROVE  (CacheType /\ ShotFollows /\ CacheAgrees /\ TunedAgrees)'
  <2> DEFINE c == [old EXCEPT !.output_mode = mode]
             f == Field(m, "output_type")
             value == ModeBits(mode)
  <2>1. /\ UNCHANGED <<design, ratio, tuned>>
        /\ cache' = [cache EXCEPT ![m]["output_mode"] = mode]
        /\ shot' = [shot EXCEPT ![m] = PayloadOf(cache'[m])]
    BY <1>5 DEF SetOutputMode, Set, Cached, bootVars, parserVars
  <2>2. settings' = Recorded(settings, f, value)
    BY <1>5 DEF SetOutputMode, Set, ModeBits, Modes
  <2>3. cache' = [cache EXCEPT ![m] = c]
    BY <1>2, <2>1 DEF CacheType
  <2>4. c \in Caches /\ c.duration = old.duration /\ c.active = old.active /\ c.output_mode = mode
    BY <1>1
  <2> HIDE DEF c
  <2>5. Agrees(c, Recorded(settings, f, value), m)
    BY <1>1, <1>a, <2>4, RecordedSetting DEF Agrees
  <2> QED
    BY <1>2, <2>1, <2>2, <2>3, <2>4, <2>5, CachedField
<1>6. ASSUME NEW channel \in 0 .. TriggerWordWidth + 1, SetAcquisitionChannel(m, channel)
      PROVE  (CacheType /\ ShotFollows /\ CacheAgrees /\ TunedAgrees)'
  <2> DEFINE on == channel > 0
             c == [old EXCEPT !.active = on]
             f == Field(m, "rchannel")
             value == ChannelMask(channel)
  <2>1. /\ UNCHANGED <<design, ratio, tuned>>
        /\ settings' = Recorded(settings, f, value)
        /\ cache' = [cache EXCEPT ![m]["active"] = on]
        /\ shot' = [shot EXCEPT ![m] = PayloadOf(cache'[m])]
    BY <1>6 DEF SetAcquisitionChannel, Set, Cached, bootVars, parserVars
  <2>2. cache' = [cache EXCEPT ![m] = c]
    BY <1>2, <2>1 DEF CacheType
  <2>3. on <=> value # {}
    <3>1. channel \in Nat
      BY ParameterAssumption
    <3> QED
      BY <3>1 DEF ChannelMask
  <2>4. on \in BOOLEAN
    OBVIOUS
  <2> HIDE DEF on
  <2>5. c \in Caches /\ c.duration = old.duration /\ c.active = on
        /\ c.output_mode = old.output_mode
    BY <1>1, <2>4
  <2> HIDE DEF c, value
  <2>6. Agrees(c, Recorded(settings, f, value), m)
    BY <1>1, <1>a, <2>3, <2>5, RecordedSetting DEF Agrees
  <2> QED
    BY <1>2, <2>1, <2>2, <2>5, <2>6, CachedField
<1>7. ASSUME NEW carrier \in Carriers, SetDemodulationFrequency(m, carrier)
      PROVE  (CacheType /\ ShotFollows /\ CacheAgrees /\ TunedAgrees)'
  <2>1. UNCHANGED <<design, ratio, cache, shot>> /\ Tune(m, carrier)
    BY <1>7 DEF SetDemodulationFrequency, bootVars, parserVars
  <2>2. settings' = Recorded(settings, Field(m, "rfrequency"), Tuning(Kind(m), ratio, carrier))
    BY <1>7 DEF SetDemodulationFrequency, Set, Masked, Tuning
  <2>3. carrier \in Nat
    BY ParameterAssumption
  <2> QED
    BY <1>2, <2>1, <2>2, <2>3, FrequencyField
<1> QED
  BY <1>3, <1>4, <1>5, <1>6, <1>7 DEF ConfigureAcquisition

\* An entry of a generator.
LEMMA GeneratorFollowed ==
    ASSUME Followed, NEW m \in Modules, Kind(m) = "generator", ConfigureGenerator(m)
    PROVE  (CacheType /\ ShotFollows /\ CacheAgrees /\ TunedAgrees)'
<1>1. CacheType /\ ShotFollows /\ CacheAgrees /\ TunedAgrees
  BY DEF Followed
<1>2. \A name, n : Kind(n) = "acquisition" => Field(m, name) \notin Known(n)
  BY DEF Field, Known
<1>3. ASSUME NEW name, name # "rfrequency", NEW value, Set(Field(m, name), value),
             UNCHANGED <<bootVars, cache, shot, items, tuned>>
      PROVE  (CacheType /\ ShotFollows /\ CacheAgrees /\ TunedAgrees)'
  <2>1. \A n : Field(m, name) # Field(n, "rfrequency")
    BY <1>3 DEF Field
  <2>2. UNCHANGED <<design, ratio, cache, shot, tuned>>
    BY <1>3 DEF bootVars, parserVars
  <2>3. settings' = Recorded(settings, Field(m, name), value)
    BY <1>3 DEF Set
  <2> QED
    BY <1>1, <1>2, <2>1, <2>2, <2>3, OtherField
<1>4. ASSUME NEW carrier \in Carriers, SetReadoutFrequency(m, carrier)
      PROVE  (CacheType /\ ShotFollows /\ CacheAgrees /\ TunedAgrees)'
  <2>1. UNCHANGED <<design, ratio, cache, shot>> /\ Tune(m, carrier)
    BY <1>4 DEF SetReadoutFrequency, bootVars, parserVars
  <2>2. settings' = Recorded(settings, Field(m, "rfrequency"), Tuning(Kind(m), ratio, carrier))
    BY <1>4 DEF SetReadoutFrequency, Set, Tuning
  <2>3. carrier \in Nat
    BY ParameterAssumption
  <2> QED
    BY <1>1, <2>1, <2>2, <2>3, FrequencyField
<1>5. ASSUME NEW carrier, SetDriveFrequency(m, carrier)
      PROVE  (CacheType /\ ShotFollows /\ CacheAgrees /\ TunedAgrees)'
  BY <1>3, <1>5 DEF SetDriveFrequency
<1>6. ASSUME NEW name \in {"rchannel", "dchannel"}, NEW channel,
             SetGeneratorChannel(m, name, channel)
      PROVE  (CacheType /\ ShotFollows /\ CacheAgrees /\ TunedAgrees)'
  BY <1>3, <1>6 DEF SetGeneratorChannel
<1>7. ASSUME NEW seed, SetLfsrSeed(m, seed)
      PROVE  (CacheType /\ ShotFollows /\ CacheAgrees /\ TunedAgrees)'
  BY <1>3, <1>7 DEF SetLfsrSeed
<1>8. ASSUME NEW destination, SetManualWaveDestination(m, destination)
      PROVE  (CacheType /\ ShotFollows /\ CacheAgrees /\ TunedAgrees)'
  <2>1. PICK value : Set(Field(m, "tmanual_dest"), value)
    BY <1>8 DEF SetManualWaveDestination
  <2> QED
    BY <1>3, <1>8, <2>1 DEF SetManualWaveDestination
<1>9. ASSUME TriggerManually(m)
      PROVE  (CacheType /\ ShotFollows /\ CacheAgrees /\ TunedAgrees)'
  BY <1>3, <1>9 DEF TriggerManually
<1> QED
  BY <1>4, <1>5, <1>6, <1>7, <1>8, <1>9 DEF ConfigureGenerator

\* An entry of the trigger generator.
LEMMA TriggerGeneratorFollowed ==
    ASSUME Followed, NEW m \in Modules, Kind(m) = "trigger_generator",
           ConfigureTriggerGenerator(m)
    PROVE  (CacheType /\ ShotFollows /\ CacheAgrees /\ TunedAgrees)'
<1>1. CacheType /\ ShotFollows /\ CacheAgrees /\ TunedAgrees
  BY DEF Followed
<1>2. UNCHANGED <<design, ratio, cache, shot, tuned>>
  BY DEF ConfigureTriggerGenerator, SetExperimentDuration, CreateDelayItem, SetDelay, bootVars,
         parserVars
<1>3. \A i, name : /\ name \in {"experiment_duration", "delay", "mask"}
                   => \A n : <<m, name, i>> \notin Known(n) /\ <<m, name, i>> # Field(n, "rfrequency")
  BY DEF Field, Known
<1>4. \A n : Kind(n)' = Kind(n)
  BY <1>2 DEF Kind
<1>5. ASSUME \A n, name : SettingIn(settings', Field(n, name)) = SettingIn(settings, Field(n, name))
                 \/ name \notin {"duration", "output_type", "rchannel", "rfrequency"}
      PROVE  (CacheType /\ ShotFollows /\ CacheAgrees /\ TunedAgrees)'
  <2>1. \A n \in Modules : Agrees(cache[n], settings, n) => Agrees(cache[n], settings', n)
    BY <1>5 DEF Agrees
  <2> QED
    BY <1>1, <1>2, <1>4, <1>5, <2>1 DEF CacheType, ShotFollows, CacheAgrees, TunedAgrees
<1>6. ASSUME NEW c, SetExperimentDuration(m, c)
      PROVE  (CacheType /\ ShotFollows /\ CacheAgrees /\ TunedAgrees)'
  <2> DEFINE f == <<m, "experiment_duration", 0>>
  <2>1. settings' = Recorded(settings, f, Bits(c, ExperimentBits))
    BY <1>6 DEF SetExperimentDuration, Set, Field
  <2> QED
    BY <1>1, <1>2, <1>3, <2>1, OtherField
<1>7. ASSUME NEW name, NEW item, CreateDelayItem(m, name, item)
      PROVE  (CacheType /\ ShotFollows /\ CacheAgrees /\ TunedAgrees)'
  <2>1. settings' = settings
    BY <1>7 DEF CreateDelayItem
  <2> QED
    BY <1>5, <2>1
<1>8. ASSUME NEW name, NEW c, SetDelay(m, name, c)
      PROVE  (CacheType /\ ShotFollows /\ CacheAgrees /\ TunedAgrees)'
  <2>1. PICK i, u, v : settings' = Recorded(Recorded(settings, <<m, "delay", i>>, u),
                                            <<m, "mask", i>>, v)
    BY <1>8 DEF SetDelay
  <2> DEFINE once == Recorded(settings, <<m, "delay", i>>, u)
  <2>2. ASSUME NEW n, NEW what \in {"duration", "output_type", "rchannel", "rfrequency"}
        PROVE  SettingIn(settings', Field(n, what)) = SettingIn(settings, Field(n, what))
    <3>1. Field(n, what) # <<m, "delay", i>> /\ Field(n, what) # <<m, "mask", i>>
      BY DEF Field
    <3>2. SettingIn(once, Field(n, what)) = SettingIn(settings, Field(n, what))
      BY <3>1, RecordedSetting
    <3>3. SettingIn(Recorded(once, <<m, "mask", i>>, v), Field(n, what))
             = SettingIn(once, Field(n, what))
      BY <3>1, RecordedSetting
    <3> QED
      BY <2>1, <3>2, <3>3
  <2> QED
    BY <1>5, <2>2
<1> QED
  BY <1>6, <1>7, <1>8 DEF ConfigureTriggerGenerator

\* The modules that are found are modules of the design.
LEMMA FoundModules == ASSUME Booted, NEW k, NEW m \in OfKind(k) PROVE m \in Modules /\ Kind(m) = k
BY DEF Booted, OfKind, Range

\* What a configuration leaves of boot: all but the inputs that are selected.
LEMMA ConfiguredBoot ==
    ASSUME Booted, pc = "ready", UNCHANGED <<design, ips, ratio, pc>>
    PROVE  Booted'
BY DEF Booted

\* Nothing is known after a reset.
LEMMA NothingKnown ==
    ASSUME settings' = {}, tuned' = {}, cache' = [m \in Modules |-> Idle],
           shot' = [m \in Modules |-> {}]
    PROVE  (CacheType /\ ShotFollows /\ CacheAgrees /\ TunedAgrees)'
BY DEF CacheType, ShotFollows, CacheAgrees, TunedAgrees, Agrees, SettingIn, ModeBits, PayloadOf, Idle

\* Every step keeps it.
LEMMA NextFollowed == Followed /\ [Next]_vars => Followed'
<1> SUFFICES ASSUME Followed, [Next]_vars PROVE Followed'
  OBVIOUS
<1>1. IInv'
  BY NextKeeps DEF Followed
<1>2. Booted /\ CacheType /\ ShotFollows /\ CacheAgrees /\ TunedAgrees
  BY DEF Followed
<1>3. ASSUME NEW m \in Modules, Enter(m), UNCHANGED bootVars PROVE Booted'
  BY <1>2, <1>3, ConfiguredBoot DEF Enter, bootVars, parserVars
<1>4. CASE \E m \in OfKind("acquisition") : ConfigureAcquisition(m)
  <2>1. PICK m \in OfKind("acquisition") : ConfigureAcquisition(m)
    BY <1>4
  <2>2. m \in Modules /\ Kind(m) = "acquisition"
    BY <1>2, FoundModules
  <2>3. Enter(m) /\ UNCHANGED bootVars
    BY <2>1 DEF ConfigureAcquisition, SetAcquisitionDuration, SetTimeOfFlight, SetOutputMode,
                SetAcquisitionChannel, SetDemodulationFrequency
  <2> QED
    BY <1>1, <1>3, <2>1, <2>2, <2>3, AcquisitionFollowed DEF Followed
<1>5. CASE \E m \in OfKind("generator") : ConfigureGenerator(m)
  <2>1. PICK m \in OfKind("generator") : ConfigureGenerator(m)
    BY <1>5
  <2>2. m \in Modules /\ Kind(m) = "generator"
    BY <1>2, FoundModules
  <2>3. Enter(m) /\ UNCHANGED bootVars
    BY <2>1 DEF ConfigureGenerator, SetReadoutFrequency, SetDriveFrequency, SetGeneratorChannel,
                SetLfsrSeed, SetManualWaveDestination, TriggerManually
  <2> QED
    BY <1>1, <1>3, <2>1, <2>2, <2>3, GeneratorFollowed DEF Followed
<1>6. CASE \E m \in OfKind("trigger_generator") : ConfigureTriggerGenerator(m)
  <2>1. PICK m \in OfKind("trigger_generator") : ConfigureTriggerGenerator(m)
    BY <1>6
  <2>2. m \in Modules /\ Kind(m) = "trigger_generator"
    BY <1>2, FoundModules
  <2>3. Enter(m) /\ UNCHANGED bootVars
    BY <2>1 DEF ConfigureTriggerGenerator, SetExperimentDuration, CreateDelayItem, SetDelay
  <2> QED
    BY <1>1, <1>3, <2>1, <2>2, <2>3, TriggerGeneratorFollowed DEF Followed
<1>7. CASE ResetAll
  <2>1. Booted'
    BY <1>2, <1>7, ConfiguredBoot DEF ResetAll, parserVars
  <2>2. /\ settings' = {} /\ tuned' = {}
        /\ cache' = [m \in Modules |-> Idle] /\ shot' = [m \in Modules |-> {}]
    BY <1>7 DEF ResetAll
  <2> QED
    BY <1>1, <2>1, <2>2, NothingKnown DEF Followed
<1>8. CASE (BootNext /\ UNCHANGED registerVars) \/ UNCHANGED vars
  <2>1. UNCHANGED <<design, cache, shot, settings, tuned>>
    BY <1>8, BootKeepsDesign DEF registerVars, vars, bootVars, parserVars
  <2>2. Booted'
    <3>1. CASE UNCHANGED vars
      BY <1>2, <3>1 DEF Booted, vars, bootVars, parserVars, registerVars
    <3> QED
      BY <1>2, <1>8, <3>1, BootKeeps
  <2>3. \A m : Kind(m)' = Kind(m)
    BY <2>1 DEF Kind
  <2>4. ratio' = ratio \/ tuned = {}
    <3>1. CASE pc = "ready"
      BY <1>8, <3>1 DEF BootNext, BuildSystemGraph, CreateGraph, Collapse, DiscoverIps,
         CheckFireqIps, DiscoverClocks, InitNode, InitRoot, BuildDependencies,
         BuildRootDependencies, Select, Proceed, vars, bootVars
    <3> QED
      BY <1>2, <3>1 DEF Booted
  <2>5. CacheType' /\ ShotFollows' /\ CacheAgrees'
    BY <1>2, <2>1, <2>3 DEF CacheType, ShotFollows, CacheAgrees
  <2>6. TunedAgrees'
    BY <1>2, <2>1, <2>3, <2>4 DEF TunedAgrees
  <2> QED
    BY <1>1, <2>2, <2>5, <2>6 DEF Followed
<1> QED
  BY <1>4, <1>5, <1>6, <1>7, <1>8 DEF Next

\* The system starts like that.
LEMMA InitFollowed == Init => Followed
<1> SUFFICES ASSUME Init PROVE Followed
  OBVIOUS
<1>1. IInv
  BY DEF Init, IInv, Typed, RegistersHoldSettings
<1>2. Booted
  BY DEF Init, BootInit, ParserInit, Booted
<1>3. CacheType /\ ShotFollows /\ CacheAgrees /\ TunedAgrees
  <2>1. /\ settings = {} /\ tuned = {}
        /\ cache = [m \in Modules |-> Idle] /\ shot = [m \in Modules |-> {}]
    BY DEF Init
  <2> QED
    BY <2>1 DEF CacheType, ShotFollows, CacheAgrees, TunedAgrees, Agrees, SettingIn, ModeBits,
                PayloadOf, Idle
<1> QED
  BY <1>1, <1>2, <1>3 DEF Followed

-----------------------------------------------------------------------------
(* PAYLOADS                                                                  *)

\* The modes as numbers.
LEMMA ModeValues ==
    /\ Bits(4, 3) = {2} /\ Bits(2, 3) = {1} /\ Bits(3, 3) = {0, 1}
    /\ Pow2[3] = 8
<1>1. Pow2[0] = 1 /\ Pow2[1] = 2 /\ Pow2[2] = 4 /\ Pow2[3] = 8
  <2>1. Pow2[0 + 1] = 2 * Pow2[0] /\ Pow2[1 + 1] = 2 * Pow2[1] /\ Pow2[2 + 1] = 2 * Pow2[2]
    BY Powers
  <2> QED
    BY <2>1, Powers
<1>2. 0 .. 3 - 1 = {0, 1, 2}
  OBVIOUS
<1>3. \A v : Bits(v, 3) = {i \in {0, 1, 2} : (v \div Pow2[i]) % 2 = 1}
  BY <1>2 DEF Bits
<1> QED
  BY <1>1, <1>3

\* The value of the output mode tells the mode.
LEMMA ModeOf ==
    ASSUME IInv, NEW m, Kind(m) = "acquisition", NEW mode \in Modes \cup {"none"},
           SettingIn(settings, Field(m, "output_type")) = ModeBits(mode)
    PROVE  Value(Field(m, "output_type")) = CASE mode = "raw" -> 4 [] mode = "decimated" -> 2
                                              [] mode = "accumulated" -> 3 [] OTHER -> 0
<1> DEFINE f == Field(m, "output_type")
<1>1. IsField(f) /\ Place(f).length = 3
  BY DEF Field, IsField, AcquisitionFields, Place, Places
<1> HIDE DEF f
<1>2. ASSUME NEW v \in {2, 3, 4}, SettingIn(settings, f) = Bits(v, 3) PROVE Value(f) = v
  <2>1. v \in Nat /\ v < Pow2[3] /\ 3 \in Nat /\ 3 <= Place(f).length
    BY <1>1, ModeValues
  <2> QED
    BY <1>1, <1>2, <2>1, ValueOfAll
<1>3. SettingIn(settings, f) = ModeBits(mode)
  BY DEF f
<1>4. CASE mode = "raw"
  BY <1>2, <1>3, <1>4, ModeValues DEF ModeBits, f
<1>5. CASE mode = "decimated"
  BY <1>2, <1>3, <1>5, ModeValues DEF ModeBits, f
<1>6. CASE mode = "accumulated"
  BY <1>2, <1>3, <1>6, ModeValues DEF ModeBits, f
<1>7. CASE mode = "none"
  BY <1>1, <1>3, <1>7, ValueOfNothing DEF ModeBits, f
<1> QED
  BY <1>4, <1>5, <1>6, <1>7 DEF Modes

\* The payload that the driver computes is what the registers make the hardware send.
LEMMA PayloadIsProduced ==
    ASSUME Followed, NEW m \in OfKind("acquisition"), cache[m].duration > 0
    PROVE  shot[m] = Produced(m)
<1> DEFINE c == cache[m]
<1>1. m \in Modules /\ Kind(m) = "acquisition"
  BY FoundModules DEF Followed
<1>2. /\ c \in [active : BOOLEAN, duration : Nat, output_mode : Modes \cup {"none"}]
      /\ Agrees(c, settings, m) /\ shot[m] = PayloadOf(c) /\ IInv
  BY <1>1 DEF Followed, CacheType, CacheAgrees, ShotFollows
<1> DEFINE d == c.duration
           mode == c.output_mode
<1>3. Value(Field(m, "output_type")) = CASE mode = "raw" -> 4 [] mode = "decimated" -> 2
                                         [] mode = "accumulated" -> 3 [] OTHER -> 0
  <2>1. SettingIn(settings, Field(m, "output_type")) = ModeBits(mode) /\ mode \in Modes \cup {"none"}
    BY <1>2 DEF Agrees
  <2> QED
    BY <1>1, <1>2, <2>1, ModeOf
<1>4. Value(Field(m, "duration")) + 1 = d
  <2> DEFINE f == Field(m, "duration")
  <2>1. IsField(f) /\ Place(f).length = DurationWidth /\ DurationWidth \in Nat
    BY <1>1, ParameterAssumption DEF Field, IsField, AcquisitionFields, Place, Places
  <2>2. d - 1 \in Nat /\ d - 1 < Pow2[DurationWidth] /\ DurationWidth <= Place(f).length
    <3>1. Pow2[DurationWidth] \in Nat
      BY <2>1, Powers
    <3>2. d \in Nat /\ d > 0 /\ d <= Pow2[DurationWidth]
      BY <1>2 DEF Agrees
    <3> QED
      BY <2>1, <3>1, <3>2
  <2>3. SettingIn(settings, f) = Bits(d - 1, DurationWidth)
    BY <1>2 DEF Agrees
  <2>4. Value(f) = d - 1
    <3> HIDE DEF f, d
    <3> QED
      BY <1>2, <2>1, <2>2, <2>3, ValueOfAll
  <2>5. \A x, y : y - 1 \in Nat /\ y \in Nat /\ x = y - 1 => x + 1 = y
    OBVIOUS
  <2>6. d \in Nat
    BY <1>2
  <2> QED
    BY <2>2, <2>4, <2>5, <2>6
<1>5. Value(Field(m, "rchannel")) = 0 <=> ~c.active
  <2>1. IsField(Field(m, "rchannel"))
    BY <1>1 DEF Field, IsField, AcquisitionFields
  <2>2. c.active <=> SettingIn(settings, Field(m, "rchannel")) # {}
    BY <1>2 DEF Agrees
  <2> QED
    BY <1>2, <2>1, <2>2, ValueOfNothing
<1> DEFINE Sent(k, cycles, active) ==
               IF k = 0 \/ ~active THEN {}
               ELSE {[on_interface |-> IF k >= 4 THEN "m00_axis" ELSE "m01_axis",
                      size |-> CASE k = 4 -> cycles [] k = 2 -> (cycles + 1) \div 2 [] OTHER -> 1]}
<1>6. Produced(m) = Sent(Value(Field(m, "output_type")), d, c.active)
  BY <1>4, <1>5 DEF Produced
<1>7. d \in Nat /\ d > 0 /\ mode \in Modes \cup {"none"}
  BY <1>2
<1>8. shot[m] = IF c.active /\ mode # "none"
                THEN {[on_interface |-> Interface[mode],
                       size |-> CASE mode = "raw" -> d [] mode = "decimated" -> (d + 1) \div 2
                                  [] OTHER -> 1]}
                ELSE {}
  BY <1>2, <1>7 DEF PayloadOf
<1>9. Interface["raw"] = "m00_axis" /\ Interface["decimated"] = "m01_axis"
      /\ Interface["accumulated"] = "m01_axis"
  BY DEF Interface
<1>10. CASE ~c.active \/ mode = "none"
  BY <1>3, <1>6, <1>8, <1>10
<1>11. CASE c.active /\ mode = "raw"
  BY <1>3, <1>6, <1>8, <1>9, <1>11
<1>12. CASE c.active /\ mode = "decimated"
  BY <1>3, <1>6, <1>8, <1>9, <1>12
<1>13. CASE c.active /\ mode = "accumulated"
  BY <1>3, <1>6, <1>8, <1>9, <1>13
<1> QED
  BY <1>7, <1>10, <1>11, <1>12, <1>13 DEF Modes

\* Whatever was configured and in any order, what an acquisition sends in a shot is the payload
\* with which FIFOs, shots and DMAs are planned (acquisition_driver.py: _calculate_payload).
THEOREM PayloadsTrue == Spec => []PayloadProduced
<1>1. Followed => PayloadProduced
  BY PayloadIsProduced DEF PayloadProduced
<1> QED
  BY <1>1, InitFollowed, NextFollowed, PTL DEF Spec

-----------------------------------------------------------------------------
(* PHASES                                                                    *)

\* What a converter advances by in a sample, in parts of a turn of which there are parts,
\* for carrier / Resolution of its samplerate.
Advance(parts, carrier) == (parts * (carrier % Resolution)) \div Resolution

\* It is less than a turn.
LEMMA AdvanceFits ==
    ASSUME NEW parts \in Nat, parts > 0, NEW carrier \in Nat
    PROVE  Advance(parts, carrier) \in Nat /\ Advance(parts, carrier) < parts
<1> DEFINE d == carrier % Resolution
           v == parts * d
<1>1. Resolution \in Nat /\ Resolution > 0
  BY ParameterAssumption
<1>2. d \in Nat /\ d < Resolution
  BY <1>1, Division
<1> HIDE DEF d
<1>3. v \in Nat
  BY <1>2
<1>4. v < parts * Resolution
  <2>1. Resolution - d > 0 /\ Resolution - d \in Int
    BY <1>1, <1>2
  <2>2. parts * (Resolution - d) > 0
    BY <2>1
  <2>3. parts * (Resolution - d) = parts * Resolution - parts * d
    BY <1>1, <1>2, Distributes
  <2> QED
    BY <1>1, <1>2, <2>2, <2>3
<1> DEFINE a == v \div Resolution
<1>5. a \in Nat /\ v % Resolution \in Nat /\ v = Resolution * a + (v % Resolution)
  BY <1>1, <1>3, Division
<1>6. a < parts
  <2> SUFFICES ASSUME a >= parts PROVE FALSE
    BY <1>5
  <2> HIDE DEF a, v
  <2>1. a - parts \in Nat
    BY <1>5
  <2>2. Resolution * (a - parts) >= 0
    BY <1>1, <2>1
  <2>3. Resolution * (a - parts) = Resolution * a - Resolution * parts
    BY <1>1, <1>5, Distributes
  <2>4. Resolution * parts = parts * Resolution
    BY <1>1
  <2>5. Resolution * a \in Int /\ Resolution * parts \in Int
    BY <1>1, <1>5
  <2> QED
    BY <1>3, <1>4, <1>5, <2>2, <2>3, <2>4, <2>5
<1> QED
  BY <1>5, <1>6 DEF Advance, d

\* In q samples a converter advances, but for the rounding and for whole turns, by what another
\* one does in a sample that takes q times as long.
LEMMA Rounding ==
    ASSUME NEW parts \in Nat, parts > 0, NEW q \in Nat, q > 0, NEW carrier \in Nat
    PROVE  \E turns \in Nat, g \in Nat :
              /\ g < q
              /\ Advance(parts, q * carrier) = (q * Advance(parts, carrier) - parts * turns) + g
<1> DEFINE R == Resolution
           c == carrier % R
           x == (parts * c) \div R
           e == (parts * c) % R
<1>1. R \in Nat /\ R > 0
  BY ParameterAssumption
<1>2. c \in Nat /\ c < R /\ carrier \div R \in Nat /\ carrier = R * (carrier \div R) + c
  BY <1>1, Division
<1> DEFINE k == carrier \div R
           j == (q * c) \div R
           d == (q * c) % R
<1> HIDE DEF R, c, k
<1>3. parts * c \in Nat /\ q * c \in Nat
  BY <1>2
<1>4. x \in Nat /\ e \in Nat /\ e < R /\ parts * c = R * x + e
  BY <1>1, <1>3, Division
<1>5. j \in Nat /\ d \in Nat /\ d < R /\ q * c = R * j + d
  BY <1>1, <1>3, Division
<1> DEFINE g == (q * e) \div R
           h == (q * e) % R
<1> HIDE DEF x, e, j, d
<1>6. g \in Nat /\ h \in Nat /\ h < R /\ q * e = R * g + h
  <2>1. q * e \in Nat
    BY <1>4
  <2> QED
    BY <1>1, <2>1, Division
<1> HIDE DEF g, h
<1>7. (q * carrier) % R = d
  <2>1. q * carrier = R * (q * k + j) + d
    <3>1. carrier = R * k + c /\ k \in Nat
      BY <1>2 DEF k
    <3>2. q * carrier = q * (R * k) + q * c
      <4>1. R * k \in Int
        BY <1>1, <3>1
      <4> QED
        BY <1>2, <3>1, <4>1, Distributes
    <3>3. q * (R * k) = R * (q * k)
      BY <1>1, <3>1
    <3>4. R * (q * k + j) = R * (q * k) + R * j
      <4>1. q * k \in Int
        BY <3>1
      <4> QED
        BY <1>1, <1>5, <4>1, Distributes
    <3>5. R * (q * k) \in Int /\ R * j \in Int
      BY <1>1, <1>5, <3>1
    <3> QED
      BY <1>5, <3>2, <3>3, <3>4, <3>5
  <2>2. q * carrier \in Nat /\ q * k + j \in Nat
    BY <1>2, <1>5 DEF k
  <2> QED
    BY <1>1, <1>5, <2>1, <2>2, Quotient
<1> DEFINE y == (q * x - parts * j) + g
<1>8. y \in Int
  BY <1>4, <1>5, <1>6
<1>9. parts * d = R * y + h
  <2>1. parts * (q * c) = parts * (R * j) + parts * d
    <3>1. R * j \in Int
      BY <1>1, <1>5
    <3> QED
      BY <1>5, <3>1, Distributes
  <2>2. q * (parts * c) = q * (R * x) + q * e
    <3>1. R * x \in Int
      BY <1>1, <1>4
    <3> QED
      BY <1>4, <3>1, Distributes
  <2>3. parts * (q * c) = q * (parts * c)
    BY <1>2
  <2>4. parts * (R * j) = R * (parts * j) /\ q * (R * x) = R * (q * x)
    BY <1>1, <1>4, <1>5
  <2>5. R * y = (R * (q * x) - R * (parts * j)) + R * g
    <3>1. q * x \in Int /\ parts * j \in Int /\ q * x - parts * j \in Int
      BY <1>4, <1>5
    <3>2. R * y = R * (q * x - parts * j) + R * g
      BY <1>1, <1>6, <3>1, Distributes
    <3>3. R * (q * x - parts * j) = R * (q * x) - R * (parts * j)
      BY <1>1, <3>1, Distributes
    <3> QED
      BY <3>2, <3>3
  <2>6. /\ R * (q * x) \in Int /\ R * (parts * j) \in Int /\ R * g \in Int /\ parts * d \in Int
        /\ q * e \in Int
    BY <1>1, <1>4, <1>5, <1>6
  <2> HIDE DEF y
  <2>7. R * (parts * j) + parts * d = R * (q * x) + (R * g + h)
    BY <1>6, <2>1, <2>2, <2>3, <2>4
  <2> DEFINE a == R * (q * x)
             b == R * (parts * j)
             r == R * g
             v == parts * d
             s == R * y
  <2>8. {a, b, r, v, s, h} \subseteq Int /\ s = (a - b) + r /\ b + v = a + (r + h)
    BY <1>1, <1>6, <1>8, <2>5, <2>6, <2>7
  <2> HIDE DEF a, b, r, v, s
  <2>9. v = s + h
    BY <2>8
  <2> QED
    BY <2>9 DEF v, s
<1>10. y = (parts * d) \div R
  <2> HIDE DEF y
  <2>1. parts * d \in Int
    BY <1>5
  <2> QED
    BY <1>1, <1>6, <1>8, <1>9, <2>1, Quotient
<1>11. g < q
  <2> SUFFICES ASSUME g >= q PROVE FALSE
    BY <1>6
  <2>1. g - q \in Nat /\ R - e \in Nat /\ R - e > 0
    BY <1>1, <1>4, <1>6
  <2>2. R * (g - q) >= 0 /\ q * (R - e) > 0
    BY <1>1, <2>1
  <2>3. R * (g - q) = R * g - R * q /\ q * (R - e) = q * R - q * e
    BY <1>1, <1>4, <1>6, Distributes
  <2>4. R * q = q * R /\ R * g \in Int /\ R * q \in Int /\ q * e \in Int
    BY <1>1, <1>4, <1>6
  <2> QED
    BY <1>6, <2>2, <2>3, <2>4
<1>12. Advance(parts, carrier) = x /\ Advance(parts, q * carrier) = y
  BY <1>7, <1>10 DEF Advance, x, c, R
<1> QED
  BY <1>5, <1>6, <1>11, <1>12

\* Without the bits below q, the advance of the slower converter is that of the other in q
\* samples.
LEMMA PhasesMeet ==
    ASSUME NEW depth \in Nat, NEW w \in Nat, NEW carrier \in Nat,
           NEW x, x = Advance(Pow2[depth], carrier),
           NEW y, y = Advance(Pow2[depth], Pow2[w] * carrier)
    PROVE  (IF depth < w THEN 0 ELSE y - (y % Pow2[w])) = (Pow2[w] * x) % Pow2[depth]
<1> DEFINE N == Pow2[depth]
           q == Pow2[w]
<1>1. N \in Nat /\ N > 0 /\ q \in Nat /\ q > 0
  BY Powers
<1> HIDE DEF N, q
<1>2. PICK turns \in Nat, g \in Nat : g < q /\ y = (q * x - N * turns) + g
  <2>1. \E turns \in Nat, g \in Nat :
           /\ g < q
           /\ Advance(N, q * carrier) = (q * Advance(N, carrier) - N * turns) + g
    BY <1>1, Rounding
  <2>2. x = Advance(N, carrier) /\ y = Advance(N, q * carrier)
    BY DEF N, q
  <2> QED
    BY <2>1, <2>2
<1>3. x \in Nat /\ x < N /\ y \in Nat /\ y < N
  <2>1. q * carrier \in Nat
    BY <1>1
  <2> QED
    BY <1>1, <2>1, AdvanceFits DEF N, q
<1>4. CASE depth < w
  <2> DEFINE p == Pow2[w - depth]
  <2>1. w - depth \in Nat /\ depth + (w - depth) = w
    BY <1>4
  <2>2. q = N * p /\ p \in Nat
    <3>1. Pow2[depth + (w - depth)] = Pow2[depth] * Pow2[w - depth]
      BY <2>1, PowerOfSum
    <3>2. p \in Nat
      BY <2>1, Powers
    <3> QED
      BY <2>1, <3>1, <3>2 DEF N, q
  <2> HIDE DEF p
  <2>3. q * x = N * (p * x) + 0 /\ p * x \in Int /\ q * x \in Int
    <3>1. N * (p * x) = (N * p) * x
      BY <1>1, <1>3, <2>2, Distributes
    <3> QED
      BY <1>1, <1>3, <2>2, <3>1
  <2>4. (q * x) % N = 0
    BY <1>1, <2>3, Quotient
  <2> QED
    BY <1>4, <2>4 DEF N, q
<1>5. CASE ~(depth < w)
  <2> DEFINE p == Pow2[depth - w]
             z == x - p * turns
  <2>1. depth - w \in Nat /\ w + (depth - w) = depth
    BY <1>5
  <2>2. N = q * p /\ p \in Nat
    <3>1. Pow2[w + (depth - w)] = Pow2[w] * Pow2[depth - w]
      BY <2>1, PowerOfSum
    <3>2. p \in Nat
      BY <2>1, Powers
    <3> QED
      BY <2>1, <3>1, <3>2 DEF N, q
  <2> HIDE DEF p
  <2>3. q * z = q * x - N * turns /\ z \in Int
    <3>1. p * turns \in Int
      BY <2>2
    <3>2. q * z = q * x - q * (p * turns)
      BY <1>1, <1>3, <3>1, Distributes
    <3>3. q * (p * turns) = (q * p) * turns
      BY <1>1, <2>2, Distributes
    <3> QED
      BY <1>3, <2>2, <3>1, <3>2, <3>3
  <2> HIDE DEF z
  <2>4. y = q * z + g
    BY <1>2, <2>3
  <2>5. g = y % q
    <3>1. y \in Int /\ z \in Int /\ g \in Nat /\ g < q /\ y = q * z + g
      BY <1>2, <1>3, <2>3, <2>4
    <3> QED
      BY <1>1, <3>1, Quotient
  <2>6. y - g \in Nat /\ y - g < N /\ q * x = N * turns + (y - g)
    <3>1. q * x \in Int /\ N * turns \in Int /\ q * z \in Int
      BY <1>1, <1>3, <2>3
    <3>2. q * x = N * turns + (y - g)
      BY <1>2, <1>3, <3>1
    <3>3. y - g = q * z
      BY <1>3, <2>4, <3>1
    <3>4. z >= 0
      <4> SUFFICES ASSUME z <= -1 PROVE FALSE
        BY <2>3
      <4>1. -1 - z \in Nat
        BY <2>3
      <4>2. q * (-1 - z) >= 0
        BY <1>1, <4>1
      <4>3. q * (-1 - z) = q * (-1) - q * z
        BY <1>1, <2>3, Distributes
      <4>4. q * (-1) = -q
        BY <1>1
      <4> QED
        BY <1>1, <1>2, <1>3, <2>4, <3>1, <4>2, <4>3, <4>4
    <3>5. q * z >= 0
      BY <1>1, <2>3, <3>4
    <3>6. y - g \in Nat
      BY <1>3, <3>1, <3>3, <3>5
    <3>7. y - g < N
      BY <1>1, <1>2, <1>3
    <3> QED
      BY <3>2, <3>6, <3>7
  <2>7. (q * x) % N = y - g
    <3>1. q * x \in Int
      BY <1>1, <1>3
    <3> DEFINE v == q * x
               r == y - g
    <3>2. v \in Int /\ r \in Nat /\ r < N /\ v = N * turns + r /\ turns \in Int
      BY <2>6, <3>1
    <3> HIDE DEF v, r
    <3>3. r = v % N
      BY <1>1, <3>2, Quotient
    <3> QED
      BY <3>3 DEF v, r
  <2> QED
    BY <1>5, <2>5, <2>7 DEF N, q
<1> QED
  BY <1>4, <1>5

\* A generator and an acquisition that have accepted one carrier.
LEMMA PhasesFollow ==
    ASSUME Followed, NEW t \in tuned, NEW u \in tuned,
           Kind(t[1]) = "generator", Kind(u[1]) = "acquisition", t[2] = u[2]
    PROVE  Value(Field(u[1], "rfrequency"))
              = (ratio * Value(Field(t[1], "rfrequency"))) % Pow2[PhaseDepth]
<1> DEFINE c == t[2]
           N == Pow2[PhaseDepth]
           ft == Field(t[1], "rfrequency")
           fu == Field(u[1], "rfrequency")
<1>1. IInv /\ Booted /\ TunedAgrees
  BY DEF Followed
<1>2. PICK w \in Nat : ratio = Pow2[w]
  BY <1>1 DEF Booted
<1>3. PhaseDepth \in Nat /\ PhaseDepth <= 64 /\ N \in Nat /\ N > 0 /\ ratio \in Nat /\ ratio > 0
  BY <1>2, ParameterAssumption, Powers
<1>4. /\ IsField(ft) /\ Place(ft).length = 64
      /\ IsField(fu) /\ Place(fu).length = 64
  BY DEF Field, IsField, AcquisitionFields, GeneratorFields, Place, Places
<1> DEFINE x == Advance(N, c)
           y == Advance(N, ratio * c)
<1>5. c \in Nat /\ ratio * c \in Nat
  <2>1. c \in Nat
    BY <1>1 DEF TunedAgrees
  <2> QED
    BY <1>3, <2>1
<1>6. x \in Nat /\ x < N /\ y \in Nat /\ y < N
  BY <1>3, <1>5, AdvanceFits
<1>7. SettingIn(settings, ft) = Bits(x, PhaseDepth)
  BY <1>1 DEF TunedAgrees, Tuning, Increment, Advance
<1>8. SettingIn(settings, fu) = {i \in Bits(y, PhaseDepth) : i >= w}
  <2>1. SettingIn(settings, fu) = Bits(y, PhaseDepth) \ Bits(ratio - 1, PhaseDepth)
    BY <1>1 DEF TunedAgrees, Tuning, Increment, Advance
  <2>2. \A i \in Bits(y, PhaseDepth) : i \in Bits(ratio - 1, PhaseDepth) <=> i < w
    <3> SUFFICES ASSUME NEW i \in Bits(y, PhaseDepth)
                 PROVE  i \in Bits(ratio - 1, PhaseDepth) <=> i < w
      OBVIOUS
    <3>1. i \in Nat /\ i \in 0 .. PhaseDepth - 1
      BY <1>3 DEF Bits
    <3>2. ((ratio - 1) \div Pow2[i]) % 2 = 1 <=> i < w
      BY <1>2, <3>1, OnesBelow
    <3> QED
      BY <3>1, <3>2 DEF Bits
  <2>3. \A i \in Bits(y, PhaseDepth) : i \in Nat /\ (i >= w <=> ~(i < w))
    BY <1>3 DEF Bits
  <2> HIDE DEF fu, y
  <2> QED
    BY <2>1, <2>2, <2>3
<1> HIDE DEF ft, fu, x, y
<1>9. Value(ft) = x
  BY <1>1, <1>3, <1>4, <1>6, <1>7, ValueOfAll DEF N
<1>10. Value(fu) = IF PhaseDepth < w THEN 0 ELSE (y % N) - (y % ratio)
  BY <1>1, <1>2, <1>3, <1>4, <1>6, <1>8, ValueOfBits
<1>11. y % N = y
  <2>1. N * 0 = 0
    BY <1>3
  <2>2. y = N * 0 + y
    BY <1>6, <2>1
  <2> QED
    BY <1>3, <1>6, <2>2, Quotient
<1>12. (IF PhaseDepth < w THEN 0 ELSE y - (y % Pow2[w])) = (Pow2[w] * x) % Pow2[PhaseDepth]
  <2>1. x = Advance(Pow2[PhaseDepth], c) /\ y = Advance(Pow2[PhaseDepth], Pow2[w] * c)
    BY <1>2 DEF x, y
  <2>2. PhaseDepth \in Nat /\ c \in Nat
    BY <1>3, <1>5
  <2> HIDE DEF c, N
  <2> QED
    BY <2>1, <2>2, PhasesMeet
<1> QED
  BY <1>2, <1>9, <1>10, <1>11, <1>12 DEF ft, fu

\* For any number of parts of a turn, any resolution of the frequencies and any design, a
\* generator and an acquisition that accepted the same frequency stay in phase
\* (acquisition_driver.py: set_demodulation_frequency, with dac_to_adc_ratio_mask).
THEOREM PhasesAgree == Spec => []InPhase
<1>1. Followed => InPhase
  BY PhasesFollow DEF InPhase
<1> QED
  BY <1>1, InitFollowed, NextFollowed, PTL DEF Spec

-----------------------------------------------------------------------------
(* BOOT.  The types of its variables, and that none of its steps asks for what is not  *)
(* there: an edge to bypass, the size of a switch, the least number of channels.       *)

\* A set has one element.
One(S) == \E x \in S : S = {x}

ParserTypes ==
    /\ design \in Designs
    /\ edges \subseteq Edges /\ IsFiniteSet(edges)
    /\ graph \in [Range(BusTypes) -> SUBSET Edges]
    /\ pending \in Seq(Range(BusTypes))
    /\ collapse \in Seq(Range(BusTypes) \X Modules)
NodeTypes ==
    /\ ips \in Seq(Modules) /\ todo \in Seq(Modules)
    /\ ratio \in Nat
    /\ DOMAIN refs \subseteq Names /\ Range(refs) \subseteq Outputs
    /\ functions \subseteq Names
    /\ dependencies \subseteq functions \X functions
    /\ DOMAIN payload \subseteq Modules /\ Range(payload) \subseteq Seq(Outputs)
    /\ DOMAIN maxSize \subseteq Modules /\ Range(maxSize) \subseteq Nat
RunTypes == index \in [Modules -> Nat] /\ route \in [Modules -> Nat]

\* A module that is to be collapsed has one edge into it and one out of it, whatever
\* was collapsed before.
Collapsible ==
    /\ pc = "system_graph" => collapse = <<>>
    /\ pc = "graphs" =>
          \A i \in DOMAIN collapse :
             /\ One(Into(graph[collapse[i][1]], collapse[i][2]))
             /\ One(OutOf(graph[collapse[i][1]], collapse[i][2]))
             /\ \A j \in DOMAIN collapse : /\ collapse[j][1] = collapse[i][1]
                                           /\ j # i => collapse[j][2] # collapse[i][2]

\* The clocks are looked at in a design that has generators and acquisitions.
Found == pc = "clocks" => OfKind("generator") # {} /\ OfKind("acquisition") # {}

\* The constructor of the node of a module has run.
Made(m) ==
    /\ Kind(m) = "switch" => InputPorts(m) # <<>>
    /\ Kind(m) = "fifo" => m \in DOMAIN maxSize /\ <<m, "max_hw_shots">> \in functions
ToMake == {m \in Range(ips) : Kind(m) \in NodeKinds}
Making ==
    /\ pc = "nodes" => \A m \in ToMake : m \in Range(todo) \/ Made(m)
    /\ pc = "dependencies" =>
          /\ \A m \in ToMake : Made(m)
          /\ Range(todo) \subseteq ToMake
          /\ {"system"} \X {"max_hw_shots", "requested_hw_shots", "hw_shots"} \subseteq functions

\* Who tells the size of what an output carries tells its payload too, and the size of a
\* FIFO is known from the start.
Sized(r, sizes) ==
    \A n \in DOMAIN r : n[2] = "max_payload_size" =>
        /\ <<n[1], "payload">> \in DOMAIN r /\ r[<<n[1], "payload">>] = r[n]
        /\ Kind(r[n][1]) \in {"fifo", "switch"}
        /\ Kind(r[n][1]) = "fifo" => r[n][1] \in DOMAIN sizes
References == pc # "refused" => Sized(refs, maxSize)

BootInv ==
    /\ ParserTypes /\ NodeTypes /\ RunTypes /\ pc \in Phases
    /\ Collapsible /\ Found /\ Making /\ References

\* The invariant has the types.
LEMMA BootTyped == BootInv => BootTypeOK
BY DEF BootInv, BootTypeOK, ParserTypes, NodeTypes, RunTypes

\* An image of a finite set is finite.
LEMMA FiniteImage ==
    ASSUME NEW f, IsFiniteSet(DOMAIN f)
    PROVE  IsFiniteSet(Range(f))
<1>1. [x \in DOMAIN f |-> f[x]] \in Surjection(DOMAIN f, Range(f))
  BY DEF Surjection, Range
<1> QED
  BY <1>1, FS_Surjection

\* The edges of a design are edges, and finitely many.
LEMMA EdgesTyped ==
    ASSUME design \in Designs
    PROVE  LET es == BusEdges(design) \cup ClockEdges(design)
           IN  es \subseteq Edges /\ IsFiniteSet(es)
<1>1. /\ design.ends \subseteq BusEnds /\ design.pins \subseteq ClockPins
      /\ IsFiniteSet(design.ends) /\ IsFiniteSet(design.pins)
  BY DesignAssumption DEF DesignType
<1> DEFINE BusEdge(c) == [master |-> c[1].module, mport |-> c[1].port, slave |-> c[2].module,
                          sport |-> c[2].port, net |-> c[1].net, type |-> c[1].type, freq |-> 0]
           ClockEdge(c) == [master |-> c[1].module, mport |-> c[1].port, slave |-> c[2].module,
                            sport |-> c[2].port, net |-> c[1].net, type |-> "clk",
                            freq |-> c[1].freq]
           buses == {x \in design.ends \X design.ends :
                        /\ x[1].role = "master" /\ x[2].role = "slave"
                        /\ x[1].net = x[2].net}
           clocks == {x \in ClocksOf(design) \X ClocksOf(design) :
                         /\ x[1].dir = "out" /\ x[2].dir = "in"
                         /\ x[1].net = x[2].net}
<1>2. BusEdges(design) = {BusEdge(c) : c \in buses}
  BY DEF BusEdges
<1>3. ClockEdges(design) = {ClockEdge(c) : c \in clocks}
  BY DEF ClockEdges
<1>4. "axi4" \in Range(BusTypes) /\ "axis" \in Range(BusTypes) /\ "clk" \in Range(BusTypes)
  BY DEF Range, BusTypes
<1>5. ASSUME NEW c \in buses PROVE BusEdge(c) \in Edges
  <2>1. c[1] \in BusEnds /\ c[2] \in BusEnds
    BY <1>1
  <2> QED
    BY <1>4, <2>1 DEF BusEnds, Edges
<1>6. ASSUME NEW c \in clocks PROVE ClockEdge(c) \in Edges
  <2>1. c[1] \in ClockPins /\ c[2] \in ClockPins
    BY <1>1 DEF ClocksOf
  <2> QED
    BY <1>4, <2>1 DEF ClockPins, Edges
<1>7. IsFiniteSet(buses) /\ IsFiniteSet(clocks)
  <2>1. IsFiniteSet(design.ends \X design.ends)
    BY <1>1, FS_Product
  <2>2. IsFiniteSet(ClocksOf(design))
    BY <1>1, FS_Subset DEF ClocksOf
  <2>3. IsFiniteSet(ClocksOf(design) \X ClocksOf(design))
    BY <2>2, FS_Product
  <2> QED
    BY <2>1, <2>3, FS_Subset
<1>8. IsFiniteSet(BusEdges(design)) /\ IsFiniteSet(ClockEdges(design))
  <2> HIDE DEF buses, clocks, BusEdge, ClockEdge
  <2> DEFINE f == [c \in buses |-> BusEdge(c)]
             g == [c \in clocks |-> ClockEdge(c)]
  <2>1. BusEdges(design) = Range(f) /\ ClockEdges(design) = Range(g)
    BY <1>2, <1>3 DEF Range
  <2>2. DOMAIN f = buses /\ DOMAIN g = clocks
    OBVIOUS
  <2> HIDE DEF f, g
  <2> QED
    BY <1>7, <2>1, <2>2, FiniteImage
<1>9. BusEdges(design) \subseteq Edges /\ ClockEdges(design) \subseteq Edges
  <2> HIDE DEF buses, clocks, BusEdge, ClockEdge
  <2> QED
    BY <1>2, <1>3, <1>5, <1>6
<1> QED
  BY <1>8, <1>9, FS_Union

\* The steps of the parser leave what the nodes keep.
LEMMA NodesStay ==
    ASSUME BootInv, pc \in {"system_graph", "graphs", "check"},
           pc' \in {"graphs", "check", "refused"},
           UNCHANGED <<design, todo, ratio, nodeVars, runVars>>, ips' \in Seq(Modules)
    PROVE  NodeTypes' /\ RunTypes' /\ Found' /\ Making' /\ References' /\ pc' \in Phases
<1>1. NodeTypes' /\ RunTypes'
  BY DEF BootInv, NodeTypes, RunTypes, nodeVars, runVars
<1>2. Found' /\ Making' /\ pc' \in Phases
  BY DEF Found, Making, Phases
<1>3. References'
  BY DEF BootInv, References, Sized, Kind, nodeVars
<1> QED
  BY <1>1, <1>2, <1>3

\* A finite set of cardinality 1 has one element.
LEMMA SingleElement == ASSUME NEW S, IsFiniteSet(S), Cardinality(S) = 1 PROVE One(S)
<1>1. \E x : S = {x}
  BY FS_Singleton
<1> QED
  BY <1>1 DEF One

\* The system graph has the edges of the design.
LEMMA BuildSystemGraphTyped ==
    ASSUME BootInv, BuildSystemGraph, UNCHANGED <<ips, ratio, todo, nodeVars, runVars>>
    PROVE  BootInv'
<1>1. /\ design' = design /\ graph' = graph /\ pending' = pending /\ collapse' = collapse
      /\ edges' = BusEdges(design) \cup ClockEdges(design)
      /\ pc = "system_graph" /\ pc' \in {"graphs", "refused"}
  BY DEF BuildSystemGraph, Proceed
<1>2. NodeTypes' /\ RunTypes' /\ Found' /\ Making' /\ References' /\ pc' \in Phases
  BY <1>1, NodesStay DEF BootInv, NodeTypes
<1>3. design \in Designs
  BY DEF BootInv, ParserTypes
<1>4. edges' \subseteq Edges /\ IsFiniteSet(edges')
  BY <1>1, <1>3, EdgesTyped
<1>5. ParserTypes'
  BY <1>1, <1>4 DEF BootInv, ParserTypes
<1>6. Collapsible'
  BY <1>1 DEF BootInv, Collapsible
<1> QED
  BY <1>2, <1>5, <1>6 DEF BootInv

\* The nodes of the system graph are modules of the design, each once.
LEMMA NodesTyped ==
    ASSUME design \in Designs
    PROVE  Nodes \in Seq(Modules) /\ IsInjective(Nodes)
<1>1. design.order \in Seq(Modules) /\ IsInjective(design.order)
  BY DesignAssumption DEF DesignType
<1> QED
  BY <1>1, FilteredElements DEF Nodes

\* A pass-through that is noted to be collapsed has one edge in and one out, or boot is
\* refused.
LEMMA CreateGraphTyped ==
    ASSUME BootInv, CreateGraph, UNCHANGED <<ips, ratio, todo, nodeVars, runVars>>
    PROVE  BootInv'
<1> DEFINE type == Head(pending)
           filtered == {e \in edges : e.type = type}
           through == Filtered(Nodes, {m \in PassThrough(type) : Touching(filtered, m) # {}})
           ok == \A m \in Range(through) : /\ Cardinality(Into(filtered, m)) = 1
                                           /\ Cardinality(OutOf(filtered, m)) = 1
<1>1. /\ design' = design /\ edges' = edges /\ pending # <<>> /\ pending' = Tail(pending)
      /\ graph' = [graph EXCEPT ![type] = filtered]
      /\ collapse' = [i \in DOMAIN through |-> <<type, through[i]>>]
      /\ pc = "graphs" /\ pc' = IF ok THEN "graphs" ELSE "refused"
  BY Zenon DEF CreateGraph, Proceed
<1>2. /\ design \in Designs /\ edges \subseteq Edges /\ IsFiniteSet(edges)
      /\ graph \in [Range(BusTypes) -> SUBSET Edges] /\ pending \in Seq(Range(BusTypes))
  BY DEF BootInv, ParserTypes
<1>3. through \in Seq(Modules) /\ IsInjective(through)
  BY <1>2, NodesTyped, FilteredElements
<1>4. type \in Range(BusTypes) /\ Tail(pending) \in Seq(Range(BusTypes))
  BY <1>1, <1>2
<1>5. filtered \subseteq Edges /\ IsFiniteSet(filtered)
  BY <1>2, FS_Subset
<1> HIDE DEF type, filtered, through
<1>6. NodeTypes' /\ RunTypes' /\ Found' /\ Making' /\ References' /\ pc' \in Phases
  BY <1>1, NodesStay DEF BootInv, NodeTypes
<1>7. collapse' \in Seq(Range(BusTypes) \X Modules)
  BY <1>1, <1>3, <1>4
<1>8. ParserTypes'
  BY <1>1, <1>2, <1>4, <1>5, <1>7 DEF ParserTypes
<1>9. Collapsible'
  <2>1. SUFFICES ASSUME ok PROVE Collapsible'
    BY <1>1 DEF Collapsible
  <2>2. graph'[type] = filtered
    BY <1>1, <1>2, <1>4
  <2>3. DOMAIN collapse' = DOMAIN through
    BY <1>1
  <2>4. ASSUME NEW i \in DOMAIN through
        PROVE  /\ collapse'[i][1] = type /\ collapse'[i][2] = through[i]
               /\ One(Into(filtered, through[i])) /\ One(OutOf(filtered, through[i]))
    <3>1. through[i] \in Range(through)
      BY DEF Range
    <3>2. /\ IsFiniteSet(Into(filtered, through[i]))
          /\ IsFiniteSet(OutOf(filtered, through[i]))
      BY <1>5, FS_Subset DEF Into, OutOf
    <3> QED
      BY <1>1, <2>1, <3>1, <3>2, SingleElement
  <2>5. \A i, j \in DOMAIN through : i # j => through[i] # through[j]
    BY <1>3 DEF IsInjective
  <2> QED
    BY <1>1, <2>2, <2>3, <2>4, <2>5 DEF Collapsible
<1> QED
  BY <1>6, <1>8, <1>9 DEF BootInv

\* The edge that replaces two.
Link(in, out) == [in EXCEPT !.slave = out.slave, !.sport = out.sport]

\* A module that is left out.
LEMMA BypassedEdges ==
    ASSUME NEW es \in SUBSET Edges, NEW m, One(Into(es, m)), One(OutOf(es, m))
    PROVE  \E in, out \in es :
              /\ Into(es, m) = {in} /\ OutOf(es, m) = {out}
              /\ Bypassed(es, m) = {e \in es \cup {Link(in, out)} : m \notin {e.master, e.slave}}
<1> DEFINE in == CHOOSE e \in Into(es, m) : TRUE
           out == CHOOSE e \in OutOf(es, m) : TRUE
<1>1. Into(es, m) = {in} /\ OutOf(es, m) = {out}
  BY DEF One
<1>2. in \in es /\ out \in es
  BY <1>1 DEF Into, OutOf
<1>3. Bypassed(es, m) = {e \in es \cup {Link(in, out)} : m \notin {e.master, e.slave}}
  BY DEF Bypassed, Link
<1> HIDE DEF in, out
<1> QED
  BY <1>1, <1>2, <1>3

\* The edges that are left are edges, and another module that has one edge into it and one
\* out of it still does.
LEMMA BypassedOne ==
    ASSUME NEW es \in SUBSET Edges, NEW m, One(Into(es, m)), One(OutOf(es, m))
    PROVE  /\ Bypassed(es, m) \subseteq Edges
           /\ \A n : /\ n # m /\ One(Into(es, n)) => One(Into(Bypassed(es, m), n))
                     /\ n # m /\ One(OutOf(es, n)) => One(OutOf(Bypassed(es, m), n))
<1>1. PICK in \in es, out \in es :
          /\ Into(es, m) = {in} /\ OutOf(es, m) = {out}
          /\ Bypassed(es, m) = {e \in es \cup {Link(in, out)} : m \notin {e.master, e.slave}}
  BY BypassedEdges
<1> DEFINE link == Link(in, out)
           left == Bypassed(es, m)
<1>2. /\ link \in Edges /\ link.master = in.master /\ link.slave = out.slave
      /\ in.slave = m /\ out.master = m
  BY <1>1 DEF Link, Edges, Into, OutOf
<1>3. left = {e \in es \cup {link} : e.master # m /\ e.slave # m}
  BY <1>1
<1>4. /\ \A e \in es : e.slave = m => e = in
      /\ \A e \in es : e.master = m => e = out
  BY <1>1 DEF Into, OutOf
<1>5. left \subseteq Edges
  BY <1>2, <1>3
<1> HIDE DEF link, left
<1>6. ASSUME NEW n, n # m, One(Into(es, n)) PROVE One(Into(left, n))
  <2>1. PICK e \in es : e.slave = n /\ \A x \in es : x.slave = n => x = e
    BY <1>6 DEF One, Into
  <2>2. CASE e.master = m
    <3>1. e = out /\ link.slave = n
      BY <1>2, <1>4, <2>1, <2>2
    <3>2. in.master # m
      BY <1>2, <1>4, <1>6, <3>1
    <3>3. link \in left
      BY <1>2, <1>3, <1>6, <3>1, <3>2
    <3>4. Into(left, n) = {link}
      BY <1>3, <2>1, <2>2, <3>1, <3>3 DEF Into
    <3> QED
      BY <3>4 DEF One
  <2>3. CASE e.master # m
    <3>1. e \in left
      BY <1>3, <1>6, <2>1, <2>3
    <3>2. link.slave # n
      BY <1>2, <2>1, <2>3
    <3>3. Into(left, n) = {e}
      BY <1>3, <2>1, <3>1, <3>2 DEF Into
    <3> QED
      BY <3>3 DEF One
  <2> QED
    BY <2>2, <2>3
<1>7. ASSUME NEW n, n # m, One(OutOf(es, n)) PROVE One(OutOf(left, n))
  <2>1. PICK e \in es : e.master = n /\ \A x \in es : x.master = n => x = e
    BY <1>7 DEF One, OutOf
  <2>2. CASE e.slave = m
    <3>1. e = in /\ link.master = n
      BY <1>2, <1>4, <2>1, <2>2
    <3>2. out.slave # m
      BY <1>2, <1>4, <1>7, <3>1
    <3>3. link \in left
      BY <1>2, <1>3, <1>7, <3>1, <3>2
    <3>4. OutOf(left, n) = {link}
      BY <1>3, <2>1, <2>2, <3>1, <3>3 DEF OutOf
    <3> QED
      BY <3>4 DEF One
  <2>3. CASE e.slave # m
    <3>1. e \in left
      BY <1>3, <1>7, <2>1, <2>3
    <3>2. link.master # n
      BY <1>2, <2>1, <2>3
    <3>3. OutOf(left, n) = {e}
      BY <1>3, <2>1, <3>1, <3>2 DEF OutOf
    <3> QED
      BY <3>3 DEF One
  <2> QED
    BY <2>2, <2>3
<1> QED
  BY <1>5, <1>6, <1>7 DEF left

\* Leaving one pass-through out does not take the two edges of another one from it.
LEMMA CollapseTyped ==
    ASSUME BootInv, Collapse, UNCHANGED <<ips, ratio, todo, nodeVars, runVars>>
    PROVE  BootInv'
<1> DEFINE type == Head(collapse)[1]
           m == Head(collapse)[2]
<1>1. /\ design' = design /\ edges' = edges /\ pending' = pending /\ collapse # <<>>
      /\ graph' = [graph EXCEPT ![type] = Bypassed(@, m)] /\ collapse' = Tail(collapse)
      /\ pc = "graphs" /\ pc' = pc
  BY DEF Collapse
<1>2. /\ design \in Designs /\ edges \subseteq Edges /\ IsFiniteSet(edges)
      /\ graph \in [Range(BusTypes) -> SUBSET Edges] /\ pending \in Seq(Range(BusTypes))
      /\ collapse \in Seq(Range(BusTypes) \X Modules)
  BY DEF BootInv, ParserTypes
<1>3. collapse[1] = Head(collapse) /\ 1 \in DOMAIN collapse
  BY <1>1, <1>2
<1>4. /\ DOMAIN collapse' = 1 .. Len(collapse) - 1 /\ DOMAIN collapse = 1 .. Len(collapse)
      /\ Len(collapse) \in Nat
      /\ \A i \in 1 .. Len(collapse) - 1 : collapse'[i] = collapse[i + 1]
      /\ collapse' \in Seq(Range(BusTypes) \X Modules)
  BY <1>1, <1>2
<1>5. type \in Range(BusTypes) /\ graph[type] \in SUBSET Edges
  BY <1>2, <1>3
<1>6. /\ One(Into(graph[type], m)) /\ One(OutOf(graph[type], m))
      /\ \A i \in DOMAIN collapse :
            /\ One(Into(graph[type], collapse[i][2])) /\ One(OutOf(graph[type], collapse[i][2]))
            /\ collapse[i][1] = type
            /\ \A j \in DOMAIN collapse : j # i => collapse[j][2] # collapse[i][2]
  BY <1>1, <1>3 DEF BootInv, Collapsible
<1> HIDE DEF type, m
<1>7. NodeTypes' /\ RunTypes' /\ Found' /\ Making' /\ References' /\ pc' \in Phases
  BY <1>1, NodesStay DEF BootInv, NodeTypes
<1>8. graph'[type] = Bypassed(graph[type], m)
  BY <1>1, <1>2, <1>5
<1>9. ParserTypes'
  <2>1. graph' \in [Range(BusTypes) -> SUBSET Edges]
    BY <1>1, <1>2, <1>5, <1>6, BypassedOne
  <2> QED
    BY <1>1, <1>2, <1>4, <2>1 DEF ParserTypes
<1>10. Collapsible'
  <2>1. ASSUME NEW i \in DOMAIN collapse'
        PROVE  /\ collapse'[i][1] = type
               /\ One(Into(graph'[type], collapse'[i][2]))
               /\ One(OutOf(graph'[type], collapse'[i][2]))
               /\ \A j \in DOMAIN collapse' : j # i => collapse'[j][2] # collapse'[i][2]
    <3>1. i + 1 \in DOMAIN collapse /\ i + 1 # 1 /\ collapse'[i] = collapse[i + 1]
      BY <1>4
    <3>2. collapse[i + 1][2] # m
      BY <1>3, <1>6, <3>1 DEF m
    <3>3. /\ One(Into(graph[type], collapse[i + 1][2]))
          /\ One(OutOf(graph[type], collapse[i + 1][2])) /\ collapse[i + 1][1] = type
      BY <1>6, <3>1
    <3>4. /\ One(Into(graph'[type], collapse[i + 1][2]))
          /\ One(OutOf(graph'[type], collapse[i + 1][2]))
      BY <1>5, <1>6, <1>8, <3>2, <3>3, BypassedOne
    <3>5. ASSUME NEW j \in DOMAIN collapse', j # i
          PROVE  collapse'[j][2] # collapse'[i][2]
      <4>1. j + 1 \in DOMAIN collapse /\ j + 1 # i + 1 /\ collapse'[j] = collapse[j + 1]
        BY <1>4, <3>5
      <4> QED
        BY <1>6, <3>1, <4>1
    <3> QED
      BY <3>1, <3>3, <3>4, <3>5
  <2> QED
    BY <1>1, <2>1 DEF Collapsible
<1> QED
  BY <1>7, <1>9, <1>10 DEF BootInv

\* The graphs are complete from here on, and nothing more is taken from them.
LEMMA ParserStays ==
    ASSUME BootInv, UNCHANGED parserVars, pc' \notin {"system_graph", "graphs"}
    PROVE  ParserTypes' /\ Collapsible'
BY DEF BootInv, ParserTypes, Collapsible, parserVars

\* The IPs are modules of the design.
LEMMA DiscoverIpsTyped == ASSUME BootInv, DiscoverIps PROVE BootInv'
<1>1. /\ UNCHANGED parserVars /\ UNCHANGED <<ratio, todo, nodeVars, runVars>>
      /\ pc = "graphs" /\ pc' \in {"check", "refused"}
      /\ ips' = Filtered(Nodes, {m \in Modules : Kind(m) # "ps" /\ IsAttribute(m)})
  BY DEF DiscoverIps, Proceed
<1>2. ips' \in Seq(Modules)
  BY <1>1, NodesTyped, FilteredElements DEF BootInv, ParserTypes
<1>3. ParserTypes' /\ Collapsible'
  BY <1>1, ParserStays
<1>4. NodeTypes' /\ RunTypes' /\ Found' /\ Making' /\ References' /\ pc' \in Phases
  BY <1>1, <1>2, NodesStay DEF parserVars
<1> QED
  BY <1>3, <1>4 DEF BootInv

\* A design without generators or acquisitions does not get as far as the clocks.
LEMMA CheckFireqIpsTyped == ASSUME BootInv, CheckFireqIps PROVE BootInv'
<1>1. /\ UNCHANGED parserVars /\ UNCHANGED <<ips, ratio, todo, nodeVars, runVars>>
      /\ pc = "check" /\ pc' \in {"clocks", "refused"}
      /\ pc' = "clocks" => OfKind("generator") # {} /\ OfKind("acquisition") # {}
  BY DEF CheckFireqIps, Proceed
<1>2. ParserTypes' /\ Collapsible'
  BY <1>1, ParserStays
<1>3. NodeTypes' /\ RunTypes'
  BY <1>1 DEF BootInv, NodeTypes, RunTypes, nodeVars, runVars
<1>4. Found'
  BY <1>1 DEF Found, OfKind, Kind, parserVars
<1>5. Making' /\ pc' \in Phases
  BY <1>1 DEF Making, Phases
<1>6. References'
  BY <1>1 DEF BootInv, References, Sized, Kind, nodeVars, parserVars
<1> QED
  BY <1>2, <1>3, <1>4, <1>5, <1>6 DEF BootInv

\* Numbers have a least one.
LEMMA Least == ASSUME NEW S \in SUBSET Nat, S # {} PROVE Min(S) \in S
<1> DEFINE T == {n \in Nat : \A k \in 0 .. n : k \notin S}
<1>1. PICK n \in S : \A k \in S : n <= k
  <2> SUFFICES ASSUME \A n \in S : \E k \in S : ~(n <= k)
               PROVE  FALSE
    OBVIOUS
  <2>1. 0 \in T
    <3>1. ASSUME 0 \in S PROVE FALSE
      <4>1. PICK k \in S : ~(0 <= k)
        BY <3>1
      <4> QED
        BY <4>1
    <3>2. \A k \in 0 .. 0 : k = 0
      OBVIOUS
    <3> QED
      BY <3>1, <3>2
  <2>2. ASSUME NEW k \in T PROVE k + 1 \in T
    <3>1. \A j \in 0 .. k : j \notin S
      OBVIOUS
    <3>2. k + 1 \notin S
      <4>1. SUFFICES ASSUME k + 1 \in S PROVE FALSE
        OBVIOUS
      <4>2. PICK j \in S : ~(k + 1 <= j)
        BY <4>1
      <4>3. j \in 0 .. k
        BY <4>2
      <4> QED
        BY <3>1, <4>2, <4>3
    <3>3. \A j \in 0 .. k + 1 : j \in 0 .. k \/ j = k + 1
      OBVIOUS
    <3> QED
      BY <3>1, <3>2, <3>3
  <2>3. T \subseteq Nat
    OBVIOUS
  <2> HIDE DEF T
  <2>4. T = Nat
    BY <2>1, <2>2, <2>3, SetInduction
  <2>5. PICK n \in S : TRUE
    OBVIOUS
  <2>6. n \in T /\ n \in 0 .. n
    BY <2>4
  <2> QED
    BY <2>5, <2>6 DEF T
<1>2. n \in S /\ \A k \in S : n =< k
  BY <1>1
<1> QED
  BY <1>2 DEF Min

\* The ratio is of numbers of channels, which there are.
LEMMA DiscoverClocksTyped == ASSUME BootInv, DiscoverClocks PROVE BootInv'
<1>1. /\ UNCHANGED parserVars /\ UNCHANGED <<ips, nodeVars, runVars>>
      /\ pc = "clocks" /\ pc' \in {"nodes", "refused"} /\ ratio' = Ratio
      /\ todo' = Filtered(ips, {m \in Modules : Kind(m) \in NodeKinds})
  BY DEF DiscoverClocks, Proceed
<1>2. ParserTypes' /\ Collapsible'
  BY <1>1, ParserStays
<1>3. ips \in Seq(Modules) /\ design \in DesignType
  BY DesignAssumption DEF BootInv, NodeTypes, ParserTypes
<1>4. todo' \in Seq(Modules) /\ Range(todo') = ToMake
  <2>1. /\ todo' \in Seq(Modules)
        /\ Range(todo') = Range(ips) \cap {m \in Modules : Kind(m) \in NodeKinds}
    BY <1>1, <1>3, FilteredElements
  <2>2. Range(ips) \subseteq Modules
    BY <1>3 DEF Range
  <2> QED
    BY <2>1, <2>2 DEF ToMake
<1>5. ratio' \in Nat
  <2>1. ASSUME NEW k, OfKind(k) # {} PROVE Min(Channels(k)) \in Nat \ {0}
    <3>1. OfKind(k) \subseteq Modules
      BY <1>3 DEF OfKind, Range
    <3>2. Channels(k) \in SUBSET (Nat \ {0}) /\ Channels(k) # {}
      BY <1>3, <2>1, <3>1 DEF Channels, DesignType
    <3> QED
      BY <3>2, Least
  <2>2. Min(Channels("generator")) \in Nat /\ Min(Channels("acquisition")) \in Nat \ {0}
    BY <1>1, <2>1 DEF BootInv, Found
  <2>3. \A a \in Nat, b \in Nat \ {0} : a \div b \in Nat
    OBVIOUS
  <2> QED
    BY <1>1, <2>2, <2>3 DEF Ratio
<1>6. NodeTypes' /\ RunTypes'
  BY <1>1, <1>4, <1>5 DEF BootInv, NodeTypes, RunTypes, nodeVars, runVars
<1>7. Found' /\ pc' \in Phases
  BY <1>1 DEF Found, Phases
<1>8. Making'
  BY <1>1, <1>4 DEF Making, ToMake, Kind, parserVars
<1>9. References'
  BY <1>1 DEF BootInv, References, Sized, Kind, nodeVars, parserVars
<1> QED
  BY <1>2, <1>6, <1>7, <1>8, <1>9 DEF BootInv

\* At each port of a module that is on a bus is a net.
LEMMA InterfacesTyped ==
    ASSUME ParserTypes, NEW m
    PROVE  /\ DOMAIN Interfaces(m) \subseteq Ports
           /\ \A p \in DOMAIN Interfaces(m) : Interfaces(m)[p] \in Nets
<1> DEFINE es == graph["axis"]
           ports == {e.mport : e \in OutOf(es, m)} \cup {e.sport : e \in Into(es, m)}
           At(p) == CHOOSE e \in es : \/ e.master = m /\ e.mport = p
                                      \/ e.slave = m /\ e.sport = p
<1>1. "axis" \in Range(BusTypes)
  BY DEF BusTypes, Range
<1>2. es \subseteq Edges
  BY <1>1 DEF ParserTypes
<1>3. Interfaces(m) = [p \in ports |-> At(p).net]
  BY DEF Interfaces, InterfaceMap
<1>4. ports \subseteq Ports
  BY <1>2 DEF Into, OutOf, Edges
<1>5. ASSUME NEW p \in ports PROVE At(p) \in es
  <2>1. \E e \in es : (e.master = m /\ e.mport = p) \/ (e.slave = m /\ e.sport = p)
    BY DEF Into, OutOf
  <2> QED
    BY <2>1
<1>6. \A p \in ports : At(p).net \in Nets
  BY <1>2, <1>5 DEF Edges
<1> QED
  BY <1>3, <1>4, <1>6

\* What the constructor of a node tells the others are names of outputs.
LEMMA Told ==
    ASSUME ParserTypes, NEW m \in Modules
    PROVE  /\ DOMAIN NodeRefs(m) \subseteq Names /\ Range(NodeRefs(m)) \subseteq Outputs
           /\ OwnRefs(m) \subseteq DOMAIN NodeRefs(m)
           /\ \A n \in DOMAIN NodeRefs(m) :
                 /\ NodeRefs(m)[n][1] = m
                 /\ n[2] = "max_payload_size" =>
                       /\ Kind(m) \in {"fifo", "switch"}
                       /\ <<n[1], "payload">> \in DOMAIN NodeRefs(m)
                       /\ NodeRefs(m)[<<n[1], "payload">>] = NodeRefs(m)[n]
<1> DEFINE ports == OutputPorts(m) \cap DOMAIN Interfaces(m)
           names == {<<Interfaces(m)[p], w>> : p \in ports, w \in Shared(m)}
           Port1(n) == CHOOSE p \in ports : Interfaces(m)[p] = n[1]
           own == [n \in OwnRefs(m) |-> <<m, "self">>]
           shared == [n \in names |-> <<m, Port1(n)>>]
<1>1. /\ DOMAIN Interfaces(m) \subseteq Ports
      /\ \A p \in DOMAIN Interfaces(m) : Interfaces(m)[p] \in Nets
  BY InterfacesTyped
<1>2. NodeRefs(m) = Extended(shared, own)
  BY DEF NodeRefs
<1>3. DOMAIN shared = names /\ \A n \in names : shared[n] = <<m, Port1(n)>>
  OBVIOUS
<1>4. DOMAIN own = OwnRefs(m) /\ \A n \in OwnRefs(m) : own[n] = <<m, "self">>
  OBVIOUS
<1>5. OwnRefs(m) \subseteq Names /\ \A n \in OwnRefs(m) : n[2] # "max_payload_size"
  BY DEF OwnRefs, Names
<1>6. ASSUME NEW n \in names PROVE Port1(n) \in Ports /\ n \in Names
  <2>1. PICK p \in ports, w \in Shared(m) : n = <<Interfaces(m)[p], w>>
    OBVIOUS
  <2>2. Interfaces(m)[p] = n[1]
    BY <2>1
  <2>3. Port1(n) \in ports
    BY <2>2
  <2>4. w \in {"payload", "max_payload_size", "payload_switch_func"}
    BY DEF Shared
  <2> QED
    BY <1>1, <2>1, <2>3, <2>4 DEF Names
<1>7. ASSUME NEW n \in names, n[2] = "max_payload_size"
      PROVE  /\ Kind(m) \in {"fifo", "switch"} /\ <<n[1], "payload">> \in names
             /\ Port1(<<n[1], "payload">>) = Port1(n)
  <2>1. PICK p \in ports, w \in Shared(m) : n = <<Interfaces(m)[p], w>>
    OBVIOUS
  <2>2. w = "max_payload_size" /\ n[1] = Interfaces(m)[p]
    BY <1>7, <2>1
  <2>3. Kind(m) \in {"fifo", "switch"} /\ "payload" \in Shared(m)
    BY <2>2 DEF Shared
  <2>4. <<n[1], "payload">> \in names
    BY <2>2, <2>3
  <2> QED
    BY <2>3, <2>4
<1> HIDE DEF ports, names, Port1, own, shared
<1>8. /\ DOMAIN NodeRefs(m) = names \cup OwnRefs(m)
      /\ \A n \in names : NodeRefs(m)[n] = <<m, Port1(n)>>
      /\ \A n \in OwnRefs(m) \ names : NodeRefs(m)[n] = <<m, "self">>
  BY <1>2, <1>3, <1>4 DEF Extended
<1>9. Range(NodeRefs(m)) \subseteq Outputs
  BY <1>6, <1>8 DEF Range, Outputs
<1> QED
  BY <1>5, <1>6, <1>7, <1>8, <1>9

\* A dictionary that is extended.
LEMMA ExtendedHas ==
    ASSUME NEW f, NEW g
    PROVE  /\ DOMAIN Extended(f, g) = DOMAIN f \cup DOMAIN g
           /\ \A x \in DOMAIN f : Extended(f, g)[x] = f[x]
           /\ \A x \in DOMAIN g : x \notin DOMAIN f => Extended(f, g)[x] = g[x]
           /\ Range(Extended(f, g)) \subseteq Range(f) \cup Range(g)
<1>1. /\ DOMAIN Extended(f, g) = DOMAIN f \cup DOMAIN g
      /\ \A x \in DOMAIN f : Extended(f, g)[x] = f[x]
      /\ \A x \in DOMAIN g : x \notin DOMAIN f => Extended(f, g)[x] = g[x]
  BY DEF Extended
<1>2. Range(Extended(f, g)) \subseteq Range(f) \cup Range(g)
  BY <1>1 DEF Range
<1> QED
  BY <1>1, <1>2

\* What a constructor has made stays, whatever else is made.
LEMMA MadeStays ==
    ASSUME UNCHANGED parserVars, functions \subseteq functions',
           DOMAIN maxSize \subseteq DOMAIN maxSize'
    PROVE  \A m : Made(m) => Made(m)'
BY DEF Made, InputPorts, Interfaces, Kind, parserVars

\* References stay good while dictionaries grow.
LEMMA SizedStays ==
    ASSUME NEW r, NEW sizes, NEW t, Sized(r, sizes), DOMAIN sizes \subseteq DOMAIN t
    PROVE  Sized(r, t)
BY DEF Sized

\* A constructor tells names that nobody else tells, and leaves its node made.
LEMMA InitNodeTyped == ASSUME BootInv, InitNode PROVE BootInv'
<1> DEFINE m == Head(todo)
<1>1. /\ UNCHANGED parserVars /\ UNCHANGED <<ips, ratio, dependencies, payload, runVars>>
      /\ todo # <<>> /\ todo' = Tail(todo)
      /\ refs' = Extended(refs, NodeRefs(m)) /\ functions' = functions \cup NodeFunctions(m)
      /\ maxSize' = IF Kind(m) = "fifo" THEN Extended(maxSize, [x \in {m} |-> design.size[x]])
                                        ELSE maxSize
      /\ pc = "nodes" /\ pc' \in {"nodes", "refused"}
      /\ pc' = "nodes" => /\ Kind(m) = "switch" => InputPorts(m) # <<>>
                          /\ DOMAIN NodeRefs(m) \cap DOMAIN refs = {}
  BY DEF InitNode, Proceed
<1>2. ParserTypes /\ NodeTypes /\ RunTypes /\ Making /\ References /\ design \in DesignType
  BY DesignAssumption DEF BootInv, ParserTypes
<1>3. todo \in Seq(Modules) /\ todo' \in Seq(Modules) /\ m \in Modules
  BY <1>1, <1>2 DEF NodeTypes
<1>4. \A x \in Range(todo) : x = m \/ x \in Range(todo')
  <2>1. /\ DOMAIN todo = 1 .. Len(todo) /\ DOMAIN todo' = 1 .. Len(todo) - 1 /\ m = todo[1]
        /\ Len(todo) \in Nat
        /\ \A i \in 1 .. Len(todo) - 1 : todo'[i] = todo[i + 1]
    BY <1>1, <1>3
  <2>2. ASSUME NEW i \in DOMAIN todo, i # 1 PROVE i - 1 \in DOMAIN todo' /\ todo'[i - 1] = todo[i]
    <3>1. i - 1 \in 1 .. Len(todo) - 1 /\ (i - 1) + 1 = i
      BY <2>1, <2>2
    <3> QED
      BY <2>1, <3>1
  <2> QED
    BY <2>1, <2>2 DEF Range
<1> HIDE DEF m
<1>5. ParserTypes' /\ Collapsible'
  BY <1>1, ParserStays
<1>6. /\ DOMAIN NodeRefs(m) \subseteq Names /\ Range(NodeRefs(m)) \subseteq Outputs
      /\ OwnRefs(m) \subseteq DOMAIN NodeRefs(m)
      /\ \A n \in DOMAIN NodeRefs(m) :
            /\ NodeRefs(m)[n][1] = m
            /\ n[2] = "max_payload_size" =>
                  /\ Kind(m) \in {"fifo", "switch"}
                  /\ <<n[1], "payload">> \in DOMAIN NodeRefs(m)
                  /\ NodeRefs(m)[<<n[1], "payload">>] = NodeRefs(m)[n]
  BY <1>2, <1>3, Told
<1>7. DOMAIN refs' \subseteq Names /\ Range(refs') \subseteq Outputs
  <2>1. DOMAIN refs \subseteq Names /\ Range(refs) \subseteq Outputs
    BY <1>2 DEF NodeTypes
  <2> QED
    BY <1>1, <1>6, <2>1, ExtendedHas
<1>8. NodeFunctions(m) \subseteq Names
  <2>1. {<<m, "hw_shots">>} \subseteq Names
    BY <1>3 DEF Names
  <2> QED
    BY <1>6, <2>1 DEF NodeFunctions
<1>9. /\ DOMAIN maxSize \subseteq DOMAIN maxSize' /\ (Kind(m) = "fifo" => m \in DOMAIN maxSize')
      /\ DOMAIN maxSize' \subseteq Modules /\ Range(maxSize') \subseteq Nat
  <2>1. DOMAIN maxSize \subseteq Modules /\ Range(maxSize) \subseteq Nat
    BY <1>2 DEF NodeTypes
  <2>2. CASE Kind(m) # "fifo"
    BY <1>1, <2>1, <2>2
  <2>3. CASE Kind(m) = "fifo"
    <3> DEFINE g == [x \in {m} |-> design.size[x]]
    <3>1. DOMAIN g = {m} /\ Range(g) \subseteq Nat
      BY <1>2, <1>3 DEF Range, DesignType
    <3>2. maxSize' = Extended(maxSize, g)
      BY <1>1, <2>3
    <3> HIDE DEF g
    <3> QED
      BY <1>3, <2>1, <3>1, <3>2, ExtendedHas
  <2> QED
    BY <2>2, <2>3
<1>10. functions \subseteq functions'
  BY <1>1
<1>11. NodeTypes' /\ RunTypes'
  <2>1. dependencies' \subseteq functions' \X functions'
    BY <1>1, <1>2, <1>10 DEF NodeTypes
  <2> QED
    BY <1>1, <1>2, <1>3, <1>7, <1>8, <1>9, <2>1 DEF NodeTypes, RunTypes, runVars
<1>12. Found' /\ pc' \in Phases
  BY <1>1 DEF Found, Phases
<1>13. Making'
  <2>1. SUFFICES ASSUME pc' = "nodes", NEW x \in ToMake PROVE x \in Range(todo') \/ Made(x)'
    BY <1>1 DEF Making, ToMake, Kind, parserVars
  <2>2. x \in Range(todo) \/ Made(x)
    BY <1>1, <1>2 DEF Making
  <2>3. CASE Made(x)
    BY <1>1, <1>9, <1>10, <2>3, MadeStays
  <2>4. CASE x = m
    <3>1. Kind(m) = "fifo" => <<m, "max_hw_shots">> \in functions'
      BY <1>1, <1>6 DEF OwnRefs, NodeFunctions
    <3>2. Kind(x)' = Kind(x) /\ InputPorts(x)' = InputPorts(x)
      BY <1>1 DEF Kind, InputPorts, Interfaces, parserVars
    <3>3. /\ Kind(x) = "switch" => InputPorts(x) # <<>>
          /\ Kind(x) = "fifo" => x \in DOMAIN maxSize' /\ <<x, "max_hw_shots">> \in functions'
      BY <1>1, <1>9, <2>1, <2>4, <3>1
    <3> QED
      BY <3>2, <3>3 DEF Made
  <2> QED
    BY <1>4, <2>2, <2>3, <2>4
<1>14. References'
  <2>1. SUFFICES ASSUME pc' = "nodes" PROVE Sized(refs', maxSize')
    BY <1>1 DEF References, Sized, Kind, parserVars
  <2>2. DOMAIN NodeRefs(m) \cap DOMAIN refs = {} /\ Sized(refs, maxSize')
    BY <1>1, <1>2, <1>9, <2>1, SizedStays DEF References
  <2>3. /\ DOMAIN refs' = DOMAIN refs \cup DOMAIN NodeRefs(m)
        /\ \A n \in DOMAIN refs : refs'[n] = refs[n]
        /\ \A n \in DOMAIN NodeRefs(m) : refs'[n] = NodeRefs(m)[n]
    <3>1. \A n \in DOMAIN NodeRefs(m) : n \notin DOMAIN refs
      BY <2>2
    <3>2. refs' = Extended(refs, NodeRefs(m))
      BY <1>1
    <3>3. DOMAIN Extended(refs, NodeRefs(m)) = DOMAIN refs \cup DOMAIN NodeRefs(m)
      BY Zenon, ExtendedHas
    <3>4. \A n \in DOMAIN refs : Extended(refs, NodeRefs(m))[n] = refs[n]
      BY Zenon, ExtendedHas
    <3>5. \A n \in DOMAIN NodeRefs(m) :
             n \notin DOMAIN refs => Extended(refs, NodeRefs(m))[n] = NodeRefs(m)[n]
      BY Zenon, ExtendedHas
    <3> QED
      BY <3>1, <3>2, <3>3, <3>4, <3>5
  <2>4. ASSUME NEW n \in DOMAIN refs', n[2] = "max_payload_size"
        PROVE  /\ <<n[1], "payload">> \in DOMAIN refs' /\ refs'[<<n[1], "payload">>] = refs'[n]
               /\ Kind(refs'[n][1]) \in {"fifo", "switch"}
               /\ Kind(refs'[n][1]) = "fifo" => refs'[n][1] \in DOMAIN maxSize'
    <3>1. CASE n \in DOMAIN refs
      BY <2>2, <2>3, <2>4, <3>1 DEF Sized
    <3>2. CASE n \in DOMAIN NodeRefs(m)
      BY <1>6, <1>9, <2>3, <2>4, <3>2
    <3> QED
      BY <2>3, <3>1, <3>2
  <2> QED
    BY <2>4 DEF Sized
<1> QED
  BY <1>5, <1>11, <1>12, <1>13, <1>14 DEF BootInv

\* The second loop goes over the nodes that the first one made.
LEMMA InitRootTyped == ASSUME BootInv, InitRoot PROVE BootInv'
<1> DEFINE root == <<"system", "hw_shots">>
           own == [n \in {root} |-> <<"system", "self">>]
           words == {"system"} \X {"max_hw_shots", "requested_hw_shots", "hw_shots"}
<1>1. /\ UNCHANGED parserVars /\ UNCHANGED <<ips, ratio, dependencies, payload, maxSize, runVars>>
      /\ todo = <<>> /\ todo' = Filtered(ips, {m \in Modules : Kind(m) \in NodeKinds})
      /\ refs' = Extended(refs, own) /\ functions' = functions \cup words
      /\ pc = "nodes" /\ pc' = "dependencies"
  BY DEF InitRoot, Proceed
<1>2. ParserTypes /\ NodeTypes /\ RunTypes /\ Making /\ References
  BY DEF BootInv
<1>3. /\ root \in Names /\ words \subseteq Names /\ root[2] # "max_payload_size"
      /\ DOMAIN own = {root} /\ Range(own) \subseteq Outputs
  BY DEF Names, Outputs, Range
<1> HIDE DEF root, own, words
<1>4. todo' \in Seq(Modules) /\ Range(todo') = ToMake
  <2>1. ips \in Seq(Modules)
    BY <1>2 DEF NodeTypes
  <2>2. /\ todo' \in Seq(Modules)
        /\ Range(todo') = Range(ips) \cap {m \in Modules : Kind(m) \in NodeKinds}
    BY <1>1, <2>1, FilteredElements
  <2>3. Range(ips) \subseteq Modules
    BY <2>1 DEF Range
  <2> QED
    BY <2>2, <2>3 DEF ToMake
<1>5. ParserTypes' /\ Collapsible'
  BY <1>1, ParserStays DEF BootInv
<1>6. /\ DOMAIN refs' = DOMAIN refs \cup {root} /\ Range(refs') \subseteq Outputs
      /\ \A n \in DOMAIN refs : refs'[n] = refs[n]
  <2>1. Range(refs) \subseteq Outputs
    BY <1>2 DEF NodeTypes
  <2>2. refs' = Extended(refs, own)
    BY <1>1
  <2>3. /\ DOMAIN refs' = DOMAIN refs \cup DOMAIN own
        /\ Range(refs') \subseteq Range(refs) \cup Range(own)
    BY Zenon, <2>2, ExtendedHas
  <2>4. \A n \in DOMAIN refs : refs'[n] = refs[n]
    <3>1. \A n \in DOMAIN refs : Extended(refs, own)[n] = refs[n]
      BY Zenon, ExtendedHas
    <3> QED
      BY <2>2, <3>1
  <2> QED
    BY <1>3, <2>1, <2>3, <2>4
<1>7. NodeTypes' /\ RunTypes'
  <2>1. dependencies' \subseteq functions' \X functions'
    BY <1>1, <1>2 DEF NodeTypes
  <2> QED
    BY <1>1, <1>2, <1>3, <1>4, <1>6, <2>1 DEF NodeTypes, RunTypes, runVars
<1>8. Found' /\ pc' \in Phases
  BY <1>1 DEF Found, Phases
<1>9. Making'
  <2>1. ToMake' = ToMake /\ words \subseteq functions'
    BY <1>1 DEF ToMake, Kind, parserVars
  <2>2. \A m \in ToMake : Made(m)
    BY <1>1, <1>2 DEF Making, Range
  <2>3. \A m \in ToMake : Made(m)'
    BY <1>1, <2>2, MadeStays
  <2> QED
    BY <1>1, <1>4, <2>1, <2>3 DEF Making, words
<1>10. References'
  <2>1. SUFFICES Sized(refs', maxSize)
    BY <1>1 DEF References, Sized, Kind, parserVars
  <2>2. Sized(refs, maxSize)
    BY <1>1, <1>2 DEF References
  <2> QED
    BY <1>3, <1>6, <2>2 DEF Sized
<1> QED
  BY <1>5, <1>7, <1>8, <1>9, <1>10 DEF BootInv

\* Of the numbers in a list one is the greatest.
LEMMA Greatest ==
    ASSUME NEW n \in Nat \ {0}, NEW g \in [1 .. n -> Nat]
    PROVE  LET S == {g[i] : i \in 1 .. n} IN Max(S) \in Nat /\ \A i \in 1 .. n : Max(S) >= g[i]
<1> DEFINE T == {k \in Nat : k + 1 <= n => \E i \in 1 .. k + 1 : \A j \in 1 .. k + 1 : g[i] >= g[j]}
<1>1. 0 \in T
  <2>1. 1 \in 1 .. 0 + 1 /\ \A j \in 1 .. 0 + 1 : j = 1
    OBVIOUS
  <2>2. n >= 1 => g[1] \in Nat
    OBVIOUS
  <2>3. 0 + 1 <= n => \A j \in 1 .. 0 + 1 : g[1] >= g[j]
    BY <2>1, <2>2
  <2> QED
    BY <2>1, <2>3
<1>2. ASSUME NEW k \in T PROVE k + 1 \in T
  <2>1. SUFFICES ASSUME (k + 1) + 1 <= n
                 PROVE  \E i \in 1 .. (k + 1) + 1 : \A j \in 1 .. (k + 1) + 1 : g[i] >= g[j]
    OBVIOUS
  <2>2. PICK i \in 1 .. k + 1 : \A j \in 1 .. k + 1 : g[i] >= g[j]
    BY <2>1
  <2> DEFINE last == k + 2
  <2>3. /\ last \in 1 .. n /\ i \in 1 .. n /\ last \in 1 .. (k + 1) + 1 /\ i \in 1 .. (k + 1) + 1
        /\ \A j \in 1 .. (k + 1) + 1 : j \in 1 .. n /\ (j = last \/ j \in 1 .. k + 1)
    BY <2>1
  <2> HIDE DEF last
  <2>4. g[last] \in Nat /\ g[i] \in Nat /\ \A j \in 1 .. n : g[j] \in Nat
    BY <2>3
  <2>5. CASE g[i] >= g[last]
    <3>1. \A j \in 1 .. (k + 1) + 1 : g[i] >= g[j]
      BY <2>2, <2>3, <2>5
    <3> QED
      BY <2>3, <3>1
  <2>6. CASE g[last] >= g[i]
    <3>1. ASSUME NEW j \in 1 .. (k + 1) + 1 PROVE g[last] >= g[j]
      <4>1. CASE j = last
        BY <2>4, <4>1
      <4>2. CASE j \in 1 .. k + 1
        <5>1. g[i] >= g[j] /\ g[j] \in Nat
          BY <2>2, <2>3, <2>4, <4>2
        <5> QED
          BY <2>4, <2>6, <5>1
      <4> QED
        BY <2>3, <4>1, <4>2
    <3> QED
      BY <2>3, <3>1
  <2> QED
    BY <2>4, <2>5, <2>6
<1>3. T \subseteq Nat
  OBVIOUS
<1> HIDE DEF T
<1>4. T = Nat
  BY <1>1, <1>2, <1>3, SetInduction
<1>5. PICK i \in 1 .. n : \A j \in 1 .. n : g[i] >= g[j]
  <2>1. n - 1 \in T /\ (n - 1) + 1 = n /\ n <= n
    BY <1>4
  <2> QED
    BY <2>1 DEF T
<1> DEFINE S == {g[j] : j \in 1 .. n}
<1>6. \E x \in S : \A y \in S : x >= y
  <2>1. \A y \in S : g[i] >= y
    BY <1>5
  <2> QED
    BY <2>1
<1>7. Max(S) \in S /\ \A y \in S : Max(S) >= y
  <2> HIDE DEF S
  <2> QED
    BY <1>6 DEF Max
<1> QED
  BY <1>7

\* The names of the ports whose data a node takes.
InputNames == {"S_AXIS", "S_AXIS_S2MM", "S00_AXIS", "S01_AXIS", "S02_AXIS", "S03_AXIS"}

\* A node takes the data of a list of ports.
LEMMA InputsListed == \A m : InputPorts(m) \in Seq(InputNames)
<1>1. SlavePorts \in Seq(InputNames)
  BY DEF SlavePorts, InputNames
<1>2. \A m : Filtered(SlavePorts, DOMAIN Interfaces(m)) \in Seq(InputNames)
  BY <1>1, FilteredElements
<1>3. /\ <<"S_AXIS">> \in Seq(InputNames) /\ <<"S_AXIS_S2MM">> \in Seq(InputNames)
      /\ <<>> \in Seq(InputNames)
  BY DEF InputNames
<1>4. TAKE m
<1>5. CASE Kind(m) = "switch"
  BY <1>2, <1>5 DEF InputPorts
<1>6. CASE Kind(m) # "switch"
  BY <1>3, <1>6 DEF InputPorts
<1> QED
  BY <1>5, <1>6

\* A node that asks for a payload or a size finds one: the sizes of a switch are of FIFOs.
LEMMA BuildDependenciesTyped == ASSUME BootInv, BuildDependencies PROVE BootInv'
<1> DEFINE m == Head(todo)
           nets == InputNets(m)
           resolved == /\ CanDepend(NodeDependencies(m))
                       /\ \A n \in Range(nets) : Resolves(m, n)
           payloads == [i \in DOMAIN nets |-> refs[<<nets[i], "payload">>]]
           sizes == {maxSize[refs[<<n, "max_payload_size">>][1]] : n \in Range(nets)}
<1>1. /\ UNCHANGED parserVars /\ UNCHANGED <<ips, ratio, refs, functions, runVars>>
      /\ todo # <<>> /\ todo' = Tail(todo)
      /\ pc = "dependencies" /\ pc' = IF resolved THEN "dependencies" ELSE "refused"
      /\ payload' = IF ~resolved \/ nets = <<>> THEN payload
                    ELSE Extended(payload, [x \in {m} |-> payloads])
      /\ maxSize' = IF ~resolved \/ Kind(m) # "switch" THEN maxSize
                    ELSE Extended(maxSize, [x \in {m} |-> Max(sizes)])
      /\ dependencies' = IF resolved THEN dependencies \cup NodeDependencies(m) ELSE dependencies
  BY Zenon DEF BuildDependencies, Proceed
<1>2. ParserTypes /\ NodeTypes /\ RunTypes /\ Making /\ References
  BY DEF BootInv
<1>3. todo \in Seq(Modules) /\ todo' \in Seq(Modules) /\ m \in Modules /\ m \in Range(todo)
      /\ Range(todo') \subseteq Range(todo)
  <2>1. todo \in Seq(Modules)
    BY <1>2 DEF NodeTypes
  <2>2. /\ DOMAIN todo = 1 .. Len(todo) /\ DOMAIN todo' = 1 .. Len(todo) - 1 /\ m = todo[1]
        /\ Len(todo) \in Nat /\ 1 \in DOMAIN todo /\ todo' \in Seq(Modules)
        /\ \A i \in 1 .. Len(todo) - 1 : todo'[i] = todo[i + 1] /\ i + 1 \in 1 .. Len(todo)
    BY <1>1, <2>1
  <2> QED
    BY <2>1, <2>2 DEF Range
<1>4. /\ DOMAIN nets = 1 .. Len(InputPorts(m)) /\ Len(InputPorts(m)) \in Nat
      /\ InputPorts(m) = <<>> <=> Len(InputPorts(m)) = 0
  <2>1. InputPorts(m) \in Seq(InputNames)
    BY InputsListed
  <2> QED
    BY <2>1 DEF InputNets
<1> HIDE DEF m, nets
<1>5. ParserTypes' /\ Collapsible'
  BY <1>1, ParserStays DEF BootInv
<1>6. /\ DOMAIN payload' \subseteq Modules /\ Range(payload') \subseteq Seq(Outputs)
  <2>1. DOMAIN payload \subseteq Modules /\ Range(payload) \subseteq Seq(Outputs)
    BY <1>2 DEF NodeTypes
  <2>2. CASE ~resolved \/ nets = <<>>
    BY <1>1, <2>1, <2>2
  <2>3. CASE resolved /\ nets # <<>>
    <3>1. ASSUME NEW i \in DOMAIN nets PROVE refs[<<nets[i], "payload">>] \in Outputs
      <4>1. Resolves(m, nets[i])
        BY <2>3 DEF Range
      <4>2. <<nets[i], "payload">> \in DOMAIN refs
        BY <4>1 DEF Resolves
      <4> QED
        BY <1>2, <4>2 DEF NodeTypes, Range
    <3>2. payloads \in Seq(Outputs)
      BY <1>4, <3>1
    <3> HIDE DEF payloads
    <3> DEFINE g == [x \in {m} |-> payloads]
    <3>3. payload' = Extended(payload, g)
      BY <1>1, <2>3
    <3>4. DOMAIN g = {m} /\ Range(g) \subseteq Seq(Outputs)
      BY <3>2 DEF Range
    <3> HIDE DEF g
    <3> QED
      BY <1>3, <2>1, <3>3, <3>4, ExtendedHas
  <2> QED
    BY <2>2, <2>3
<1>7. /\ DOMAIN maxSize' \subseteq Modules /\ Range(maxSize') \subseteq Nat
      /\ DOMAIN maxSize \subseteq DOMAIN maxSize'
  <2>1. DOMAIN maxSize \subseteq Modules /\ Range(maxSize) \subseteq Nat
    BY <1>2 DEF NodeTypes
  <2>2. CASE ~resolved \/ Kind(m) # "switch"
    BY <1>1, <2>1, <2>2
  <2>3. CASE resolved /\ Kind(m) = "switch"
    <3>1. Made(m)
      BY <1>1, <1>2, <1>3 DEF Making
    <3>2. Len(InputPorts(m)) \in Nat \ {0}
      BY <1>4, <2>3, <3>1 DEF Made
    <3> DEFINE size == [i \in DOMAIN nets |-> maxSize[refs[<<nets[i], "max_payload_size">>][1]]]
    <3>3. ASSUME NEW i \in DOMAIN nets
          PROVE  maxSize[refs[<<nets[i], "max_payload_size">>][1]] \in Nat
      <4> DEFINE told == <<nets[i], "max_payload_size">>
                 carried == <<nets[i], "payload">>
      <4>1. Resolves(m, nets[i])
        BY <2>3 DEF Range
      <4>2. told \in DOMAIN refs /\ Kind(refs[carried][1]) # "switch"
        BY <2>3, <4>1 DEF Resolves
      <4>3. Sized(refs, maxSize) /\ told[1] = nets[i] /\ told[2] = "max_payload_size"
        BY <1>1, <1>2 DEF References
      <4>4. /\ refs[carried] = refs[told] /\ Kind(refs[told][1]) \in {"fifo", "switch"}
            /\ Kind(refs[told][1]) = "fifo" => refs[told][1] \in DOMAIN maxSize
        BY <4>2, <4>3 DEF Sized
      <4>5. refs[told][1] \in DOMAIN maxSize
        BY <4>2, <4>4
      <4> QED
        BY <2>1, <4>5 DEF Range
    <3>4. size \in [1 .. Len(InputPorts(m)) -> Nat]
      BY <1>4, <3>3
    <3>5. sizes = {size[i] : i \in 1 .. Len(InputPorts(m))}
      BY <1>4 DEF Range
    <3> HIDE DEF size, sizes
    <3>6. Max(sizes) \in Nat
      BY <3>2, <3>4, <3>5, Greatest
    <3> DEFINE g == [x \in {m} |-> Max(sizes)]
    <3>7. maxSize' = Extended(maxSize, g)
      BY <1>1, <2>3
    <3>8. DOMAIN g = {m} /\ Range(g) \subseteq Nat
      BY <3>6 DEF Range
    <3> HIDE DEF g
    <3> QED
      BY <1>3, <2>1, <3>7, <3>8, ExtendedHas
  <2> QED
    BY <2>2, <2>3
<1>8. dependencies' \subseteq functions' \X functions'
  <2>1. dependencies \subseteq functions \X functions
    BY <1>2 DEF NodeTypes
  <2> QED
    BY <1>1, <2>1 DEF CanDepend
<1>9. NodeTypes' /\ RunTypes'
  BY <1>1, <1>2, <1>3, <1>6, <1>7, <1>8 DEF NodeTypes, RunTypes, runVars
<1>10. Found' /\ pc' \in Phases
  BY <1>1 DEF Found, Phases
<1>11. Making'
  <2>1. ToMake' = ToMake
    BY <1>1 DEF ToMake, Kind, parserVars
  <2>2. /\ \A x \in ToMake : Made(x)
        /\ Range(todo') \subseteq ToMake
        /\ {"system"} \X {"max_hw_shots", "requested_hw_shots", "hw_shots"} \subseteq functions'
    BY <1>1, <1>2, <1>3 DEF Making
  <2>3. \A x \in ToMake : Made(x)'
    BY <1>1, <1>7, <2>2, MadeStays
  <2> QED
    BY <1>1, <2>1, <2>2, <2>3 DEF Making
<1>12. References'
  <2>1. Sized(refs, maxSize')
    BY <1>1, <1>2, <1>7, SizedStays DEF References
  <2> QED
    BY <1>1, <2>1 DEF References, Sized, Kind, parserVars
<1> QED
  BY <1>5, <1>9, <1>10, <1>11, <1>12 DEF BootInv

\* The functions that the root depends on are registered by now.
LEMMA BuildRootDependenciesTyped == ASSUME BootInv, BuildRootDependencies PROVE BootInv'
<1>1. /\ UNCHANGED parserVars
      /\ UNCHANGED <<ips, ratio, todo, refs, functions, payload, maxSize, runVars>>
      /\ pc = "dependencies" /\ pc' \in {"ready", "refused"}
      /\ dependencies' = dependencies \cup RootDependencies
  BY DEF BuildRootDependencies, Proceed
<1>2. ParserTypes /\ NodeTypes /\ RunTypes /\ Making /\ References
  BY DEF BootInv
<1>3. ParserTypes' /\ Collapsible'
  BY <1>1, ParserStays DEF BootInv
<1>4. RootDependencies \subseteq functions \X functions
  <2>1. {"system"} \X {"max_hw_shots", "requested_hw_shots", "hw_shots"} \subseteq functions
    BY <1>1, <1>2 DEF Making
  <2>2. /\ <<"system", "max_hw_shots">> \in functions /\ <<"system", "hw_shots">> \in functions
        /\ <<"system", "requested_hw_shots">> \in functions
    BY <2>1
  <2>3. \A f \in OfKind("fifo") : <<f, "max_hw_shots">> \in functions
    BY <1>1, <1>2 DEF Making, Made, ToMake, OfKind, NodeKinds
  <2> QED
    BY <2>2, <2>3 DEF RootDependencies
<1>5. NodeTypes' /\ RunTypes'
  BY <1>1, <1>2, <1>4 DEF NodeTypes, RunTypes, runVars
<1>6. Found' /\ Making' /\ pc' \in Phases
  BY <1>1 DEF Found, Making, Phases
<1>7. References'
  BY <1>1, <1>2 DEF References, Sized, Kind, parserVars
<1> QED
  BY <1>3, <1>5, <1>6, <1>7 DEF BootInv

\* Once the system is up, only what a DMA node has selected changes.
LEMMA UpStays ==
    ASSUME BootInv, UNCHANGED <<parserVars, pc, ips, ratio, todo, nodeVars>>, RunTypes',
           pc = "ready"
    PROVE  BootInv'
<1>1. ParserTypes' /\ Collapsible'
  BY ParserStays
<1>2. NodeTypes'
  BY DEF BootInv, NodeTypes, nodeVars
<1>3. Found' /\ Making' /\ pc' \in Phases
  BY DEF Found, Making, Phases
<1>4. References'
  BY DEF BootInv, References, Sized, Kind, parserVars, nodeVars
<1> QED
  BY <1>1, <1>2, <1>3, <1>4 DEF BootInv

\* A DMA node selects one of the inputs.
LEMMA SelectTyped == ASSUME BootInv, NEW d, NEW i \in Nat, Select(d, i) PROVE BootInv'
<1>1. RunTypes'
  BY DEF BootInv, RunTypes, Select
<1> QED
  BY <1>1, UpStays DEF Select

\* Where boot stands still.
LEMMA BootStands == ASSUME BootInv, UNCHANGED bootVars PROVE BootInv'
<1> USE DEF bootVars, parserVars, nodeVars, runVars
<1>1. ParserTypes' /\ NodeTypes' /\ RunTypes' /\ Collapsible'
  BY DEF BootInv, ParserTypes, NodeTypes, RunTypes, Collapsible
<1>2. Found' /\ pc' \in Phases
  BY DEF BootInv, Found, OfKind, Kind
<1>3. Making'
  BY DEF BootInv, Making, ToMake, Made, InputPorts, Interfaces, Kind
<1>4. References'
  BY DEF BootInv, References, Sized, Kind
<1> QED
  BY <1>1, <1>2, <1>3, <1>4 DEF BootInv

\* Every step of boot keeps the types.
LEMMA BootNextTyped == BootInv /\ BootNext => BootInv'
<1> SUFFICES ASSUME BootInv, BootNext PROVE BootInv'
  OBVIOUS
<1>1. ASSUME NEW d, NEW i \in 1 .. Len(SlavePorts), Select(d, i) PROVE BootInv'
  <2>1. i \in Nat
    BY DEF SlavePorts
  <2> QED
    BY <1>1, <2>1, SelectTyped
<1> QED
  BY <1>1, BuildSystemGraphTyped, CreateGraphTyped, CollapseTyped, DiscoverIpsTyped,
     CheckFireqIpsTyped, DiscoverClocksTyped, InitNodeTyped, InitRootTyped,
     BuildDependenciesTyped, BuildRootDependenciesTyped DEF BootNext

-----------------------------------------------------------------------------
(* THE TYPES of everything.                                                  *)

\* What was accepted is of modules, and of delays that the memory has words for.
Fits(history) == \A s \in history : s[1][1] \in Modules /\ s[1][3] \in 0 .. FifoDepth \div 2

EntryTypes ==
    /\ Fits(settings)
    /\ DOMAIN items \subseteq ItemNames /\ Range(items) \subseteq Items
    /\ tuned \subseteq Modules \X Carriers

\* One parameter more.
LEMMA RecordFits ==
    ASSUME NEW history, Fits(history), NEW f, f[1] \in Modules, f[3] \in 0 .. FifoDepth \div 2,
           NEW value
    PROVE  Fits(Recorded(history, f, value))
BY DEF Fits, Recorded

\* Likewise for a field of a module.
LEMMA SetFits ==
    ASSUME Fits(settings), NEW m \in Modules, NEW name, NEW value, Set(Field(m, name), value)
    PROVE  Fits(settings')
<1>1. Field(m, name)[1] = m /\ Field(m, name)[3] = 0 /\ 0 \in 0 .. FifoDepth \div 2
  BY ParameterAssumption DEF Field
<1> QED
  BY <1>1, RecordFits DEF Set

\* An entry of a configuration leaves boot alone, and is of a module that takes it.
LEMMA EntriesTyped ==
    ASSUME EntryTypes, NEW m \in Modules,
           ConfigureAcquisition(m) \/ ConfigureGenerator(m) \/ ConfigureTriggerGenerator(m)
    PROVE  EntryTypes' /\ UNCHANGED bootVars
<1> USE DEF EntryTypes
<1>1. CASE ConfigureAcquisition(m)
  <2>1. ASSUME NEW c, SetAcquisitionDuration(m, c) \/ SetTimeOfFlight(m, c)
        PROVE  EntryTypes' /\ UNCHANGED bootVars
    <3>1. Fits(settings')
      BY <2>1, SetFits DEF SetAcquisitionDuration, SetTimeOfFlight
    <3> QED
      BY <2>1, <3>1 DEF SetAcquisitionDuration, SetTimeOfFlight
  <2>2. ASSUME NEW mode, SetOutputMode(m, mode) PROVE EntryTypes' /\ UNCHANGED bootVars
    <3>1. PICK value : Set(Field(m, "output_type"), value)
      BY <2>2 DEF SetOutputMode
    <3>2. Fits(settings')
      BY <3>1, SetFits
    <3> QED
      BY <2>2, <3>2 DEF SetOutputMode
  <2>3. ASSUME NEW c, SetAcquisitionChannel(m, c) PROVE EntryTypes' /\ UNCHANGED bootVars
    <3>1. Fits(settings')
      BY <2>3, SetFits DEF SetAcquisitionChannel
    <3> QED
      BY <2>3, <3>1 DEF SetAcquisitionChannel
  <2>4. ASSUME NEW c \in Carriers, SetDemodulationFrequency(m, c)
        PROVE  EntryTypes' /\ UNCHANGED bootVars
    <3>1. Fits(settings')
      BY <2>4, SetFits DEF SetDemodulationFrequency
    <3> QED
      BY <2>4, <3>1 DEF SetDemodulationFrequency, Tune
  <2> QED
    BY <1>1, <2>1, <2>2, <2>3, <2>4 DEF ConfigureAcquisition
<1>2. CASE ConfigureGenerator(m)
  <2>1. ASSUME NEW c \in Carriers, SetReadoutFrequency(m, c) \/ SetDriveFrequency(m, c)
        PROVE  EntryTypes' /\ UNCHANGED bootVars
    <3>1. Fits(settings')
      BY <2>1, SetFits DEF SetReadoutFrequency, SetDriveFrequency
    <3> QED
      BY <2>1, <3>1 DEF SetReadoutFrequency, SetDriveFrequency, Tune
  <2>2. ASSUME NEW c, NEW name, SetGeneratorChannel(m, name, c)
        PROVE  EntryTypes' /\ UNCHANGED bootVars
    <3>1. Fits(settings')
      BY <2>2, SetFits DEF SetGeneratorChannel
    <3> QED
      BY <2>2, <3>1 DEF SetGeneratorChannel
  <2>3. ASSUME NEW c, SetLfsrSeed(m, c) PROVE EntryTypes' /\ UNCHANGED bootVars
    <3>1. Fits(settings')
      BY <2>3, SetFits DEF SetLfsrSeed
    <3> QED
      BY <2>3, <3>1 DEF SetLfsrSeed
  <2>4. ASSUME NEW c, SetManualWaveDestination(m, c) PROVE EntryTypes' /\ UNCHANGED bootVars
    <3>1. PICK value : Set(Field(m, "tmanual_dest"), value)
      BY <2>4 DEF SetManualWaveDestination
    <3>2. Fits(settings')
      BY <3>1, SetFits
    <3> QED
      BY <2>4, <3>2 DEF SetManualWaveDestination
  <2>5. ASSUME TriggerManually(m) PROVE EntryTypes' /\ UNCHANGED bootVars
    <3>1. Fits(settings')
      BY <2>5, SetFits DEF TriggerManually
    <3> QED
      BY <2>5, <3>1 DEF TriggerManually
  <2> QED
    BY <1>2, <2>1, <2>2, <2>3, <2>4, <2>5 DEF ConfigureGenerator
<1>3. CASE ConfigureTriggerGenerator(m)
  <2>1. ASSUME NEW c, SetExperimentDuration(m, c) PROVE EntryTypes' /\ UNCHANGED bootVars
    <3>1. Fits(settings')
      BY <2>1, SetFits DEF SetExperimentDuration
    <3> QED
      BY <2>1, <3>1 DEF SetExperimentDuration
  <2>2. ASSUME NEW name \in ItemNames, NEW item \in Items, CreateDelayItem(m, name, item)
        PROVE  EntryTypes' /\ UNCHANGED bootVars
    <3> DEFINE g == [n \in {name} |-> item]
    <3>1. items' = Extended(items, g) /\ UNCHANGED <<bootVars, settings, tuned>>
      BY <2>2 DEF CreateDelayItem
    <3>2. DOMAIN g = {name} /\ Range(g) = {item}
      BY DEF Range
    <3> HIDE DEF g
    <3>3. /\ DOMAIN items' = DOMAIN items \cup {name}
          /\ Range(items') \subseteq Range(items) \cup {item}
      <4>1. /\ DOMAIN Extended(items, g) = DOMAIN items \cup DOMAIN g
            /\ Range(Extended(items, g)) \subseteq Range(items) \cup Range(g)
        BY Zenon, ExtendedHas
      <4> QED
        BY <3>1, <3>2, <4>1
    <3> QED
      BY <3>1, <3>3
  <2>3. ASSUME NEW name, NEW c, SetDelay(m, name, c) PROVE EntryTypes' /\ UNCHANGED bootVars
    <3>1. PICK i, cycles, triggers :
          /\ i \in 1 .. FifoDepth \div 2
          /\ settings' = Recorded(Recorded(settings, <<m, "delay", i>>, cycles),
                                  <<m, "mask", i>>, triggers)
      BY <2>3 DEF SetDelay, InRange
    <3>2. i \in 0 .. FifoDepth \div 2
      BY <3>1, ParameterAssumption
    <3>3. Fits(Recorded(settings, <<m, "delay", i>>, cycles))
      BY <3>2, RecordFits
    <3>4. Fits(settings')
      BY <3>1, <3>2, <3>3, RecordFits
    <3> QED
      BY <2>3, <3>4 DEF SetDelay
  <2> QED
    BY <1>3, <2>1, <2>2, <2>3 DEF ConfigureTriggerGenerator
<1> QED
  BY <1>1, <1>2, <1>3

TypeInv == Followed /\ BootInv /\ EntryTypes

\* Every step keeps the types, and what they rest on.
LEMMA NextTyped == TypeInv /\ [Next]_vars => TypeInv'
<1> SUFFICES ASSUME TypeInv, [Next]_vars PROVE BootInv' /\ EntryTypes'
  BY NextFollowed DEF TypeInv
<1> USE DEF TypeInv
<1>1. CASE BootNext /\ UNCHANGED registerVars
  BY <1>1, BootNextTyped DEF registerVars, EntryTypes
<1>2. ASSUME NEW m, m \in OfKind("acquisition") \/ m \in OfKind("generator")
                    \/ m \in OfKind("trigger_generator"),
             ConfigureAcquisition(m) \/ ConfigureGenerator(m) \/ ConfigureTriggerGenerator(m)
      PROVE  BootInv' /\ EntryTypes'
  <2>1. m \in Modules
    BY <1>2, FoundModules DEF Followed
  <2> QED
    BY <1>2, <2>1, EntriesTyped, BootStands
<1>3. CASE ResetAll
  <2>1. RunTypes'
    BY <1>3 DEF ResetAll, BootInv, RunTypes
  <2>2. BootInv'
    BY <1>3, <2>1, UpStays DEF ResetAll
  <2>3. EntryTypes'
    BY <1>3 DEF ResetAll, EntryTypes, Fits, Range
  <2> QED
    BY <2>2, <2>3
<1>4. CASE UNCHANGED vars
  BY <1>4, BootStands DEF vars, registerVars, EntryTypes
<1> QED
  BY <1>1, <1>2, <1>3, <1>4 DEF Next

\* They hold at the start.
LEMMA InitTyped == Init => TypeInv
<1> SUFFICES ASSUME Init PROVE BootInv /\ EntryTypes
  BY InitFollowed DEF TypeInv
<1> USE DEF Init, BootInit, ParserInit
<1>1. ParserTypes
  <2>1. BusTypes \in Seq(Range(BusTypes))
    BY DEF BusTypes, Range
  <2>2. IsFiniteSet({})
    BY FS_EmptySet
  <2> QED
    BY <2>1, <2>2 DEF ParserTypes
<1>2. NodeTypes /\ RunTypes
  BY DEF NodeTypes, RunTypes, Range
<1>3. pc \in Phases /\ Collapsible /\ Found /\ Making /\ References
  BY DEF Phases, Collapsible, Found, Making, References, Sized
<1>4. EntryTypes
  BY DEF EntryTypes, Fits, Range
<1> QED
  BY <1>1, <1>2, <1>3, <1>4 DEF BootInv

\* A bit that is 1 is in a register of an IP, or in the memory of its delays.
LEMMA BitsInWords == ASSUME IInv, Fits(settings) PROVE registers \subseteq Words \X (0 .. 63)
<1>1. registers = Image(settings) /\ Typed(settings)
  BY DEF IInv, RegistersHoldSettings, Image
<1>2. ASSUME NEW s \in settings
      PROVE  <<Word(s[1]), Place(s[1]).start + s[2]>> \in Words \X (0 .. 63)
  <2> DEFINE f == s[1]
  <2>1. IsField(f) /\ s[2] \in 0 .. Place(f).length - 1
    BY <1>1 DEF Typed
  <2>2. f[1] \in Modules /\ f[3] \in 0 .. FifoDepth \div 2
    BY DEF Fits
  <2> HIDE DEF f
  <2>3. /\ Place(f).start \in Nat /\ Place(f).length \in Nat
        /\ Place(f).start + Place(f).length <= 64
        /\ f[3] = 0 => Place(f).offset \in 0 .. 11
        /\ f[3] # 0 => Place(f).offset \in 0 .. 1
    <3>1. CASE Kind(f[1]) = "acquisition"
      BY <2>1, <3>1, ParameterAssumption DEF IsField, Place, Places, AcquisitionFields
    <3>2. CASE Kind(f[1]) = "generator"
      BY <2>1, <3>2, ParameterAssumption DEF IsField, Place, Places, GeneratorFields
    <3>3. CASE Kind(f[1]) = "trigger_generator"
      BY <2>1, <3>3, ParameterAssumption DEF IsField, Place, Places, DelayFields
    <3> QED
      BY <2>1, <3>1, <3>2, <3>3 DEF IsField
  <2>4. Place(f).start + s[2] \in 0 .. 63
    BY <2>1, <2>3
  <2>5. Word(f) \in Words
    <3>1. CASE f[3] = 0
      BY <2>2, <2>3, <3>1 DEF Word, Words
    <3>2. CASE f[3] # 0
      <4>1. 2 * (f[3] - 1) + Place(f).offset \in 0 .. FifoDepth - 1
        BY <2>2, <2>3, <3>2, ParameterAssumption
      <4> QED
        BY <2>2, <3>2, <4>1 DEF Word, Words
    <3> QED
      BY <3>1, <3>2
  <2> QED
    BY <2>4, <2>5 DEF f
<1> QED
  BY <1>1, <1>2 DEF Image

\* What an acquisition sends is on one of its interfaces.
LEMMA ShotsTyped ==
    ASSUME CacheType, ShotFollows, NEW m \in Modules
    PROVE  shot[m] \subseteq [on_interface : Range(Interface), size : Nat]
<1> DEFINE c == cache[m]
<1>1. /\ c.active \in BOOLEAN /\ c.duration \in Nat /\ c.output_mode \in Modes \cup {"none"}
      /\ shot[m] = PayloadOf(c)
  BY DEF CacheType, ShotFollows
<1> HIDE DEF c
<1>2. \A mode \in Modes : Interface[mode] \in Range(Interface)
  BY DEF Interface, Range, Modes
<1>3. (c.duration + 1) \div 2 \in Nat
  BY <1>1
<1> QED
  BY <1>1, <1>2, <1>3 DEF PayloadOf

\* Whatever the design and the entries, every variable keeps its type: no step of boot asks
\* for an edge, a reference or a size that is not there, and nothing is written past the
\* registers of an IP or the memory of its delays.
THEOREM RegisterTypes == Spec => []TypeOK
<1>1. TypeInv => TypeOK
  <2> SUFFICES ASSUME TypeInv PROVE TypeOK
    OBVIOUS
  <2>1. BootTypeOK /\ registers \subseteq Words \X (0 .. 63)
    BY BootTyped, BitsInWords DEF TypeInv, Followed, EntryTypes
  <2>2. \A m \in Modules : shot[m] \subseteq [on_interface : Range(Interface), size : Nat]
    BY ShotsTyped DEF TypeInv, Followed
  <2> QED
    BY <2>1, <2>2 DEF TypeInv, Followed, CacheType, EntryTypes, TypeOK
<1> QED
  BY <1>1, InitTyped, NextTyped, PTL DEF Spec

-----------------------------------------------------------------------------
(* THE WIRING.  Where the edges of a graph come from while it is collapsed.  *)

\* A way back from an input, over k modules that pass the bus on.
WayBack(type, p, k) ==
    /\ k \in Nat /\ p \in [0 .. k -> Inputs(type)]
    /\ \A i \in 0 .. k - 1 : /\ Driver(p[i]).module \in PassThrough(type)
                             /\ p[i + 1].module = Driver(p[i]).module

EndsAt(e, s) == e.slave = s.module /\ e.sport = s.port
StartsAt(e, d) == e.master = d.module /\ e.mport = d.port /\ e.net = d.net

\* It leads from the input that an edge ends at to the output that it starts from.
Traced(type, e, s) ==
    \E k \in Nat : \E p : WayBack(type, p, k) /\ p[0] = s /\ StartsAt(e, Driver(p[k]))

\* The modules that are still to be collapsed, and those that are no longer connected.
Waiting(type) == {collapse[i][2] : i \in {j \in DOMAIN collapse : collapse[j][1] = type}}
Gone(type) == PassThrough(type) \ Waiting(type)

\* A module that passes a bus on has one input of it.
OneInput(type) ==
    \A s, u \in Inputs(type) : s.module = u.module /\ s.module \in PassThrough(type) => s = u

\* The edges of a graph are of the inputs that are still connected, and are traced.
TracedGraph(type, es, gone) ==
    /\ \A e \in es : /\ e.master \notin gone
                     /\ \E s \in Inputs(type) : /\ s.module \notin gone
                                                /\ EndsAt(e, s) /\ Traced(type, e, s)
    /\ \A s \in Inputs(type) : s.module \notin gone => \E e \in es : EndsAt(e, s)

Buses == {"axi4", "axis"}
Wiring ==
    /\ IsInjective(pending)
    /\ pc = "system_graph" => Range(pending) = Range(BusTypes)
    /\ pc \notin {"system_graph", "refused"} =>
          /\ WellConnected(design)
          /\ edges = BusEdges(design) \cup ClockEdges(design)
          /\ \A type \in Buses :
                /\ Waiting(type) \subseteq PassThrough(type)
                /\ type \in Range(pending) => Waiting(type) = {}
                /\ type \notin Range(pending) =>
                   OneInput(type) /\ TracedGraph(type, graph[type], Gone(type))

\* What connects in a design.
LEMMA EndsUnique ==
    ASSUME design \in Designs, NEW s \in design.ends
    PROVE  /\ s \in BusEnds /\ s.module \in Range(design.order)
           /\ \A u \in design.ends : s.module = u.module /\ s.port = u.port => s = u
<1>1. design.ends \subseteq BusEnds
  BY DesignAssumption DEF DesignType
<1>2. \A e \in design.ends : e.module \in Range(design.order)
  BY DesignAssumption
<1>3. \A e, f \in design.ends : e.module = f.module /\ e.port = f.port => e = f
  BY DesignAssumption
<1> QED
  BY <1>1, <1>2, <1>3

\* The master that drives an input is the only one on its net.
LEMMA OneDriver ==
    ASSUME WellConnected(design), NEW s, NEW d \in design.ends, d.role = "master", d.net = s.net
    PROVE  Driver(s) = d
<1>1. \A e \in design.ends : e.role = "master" /\ e.net = s.net => e = d
  BY DEF WellConnected
<1> QED
  BY <1>1 DEF Driver

\* What drives an input is an output on the same net.
LEMMA DriverIs ==
    ASSUME NEW type, NEW s \in Inputs(type)
    PROVE  /\ s \in design.ends /\ s.role = "slave" /\ Driver(s) \in design.ends
           /\ Driver(s).role = "master" /\ Driver(s).net = s.net /\ Driver(s).type = type
<1>1. s \in design.ends /\ s.role = "slave" /\ Driven(s) /\ Driver(s).type = type
  BY DEF Inputs
<1>2. \E e \in design.ends : e.role = "master" /\ e.net = s.net
  BY <1>1 DEF Driven
<1>3. Driver(s) \in design.ends /\ Driver(s).role = "master" /\ Driver(s).net = s.net
  BY <1>2 DEF Driver
<1> QED
  BY <1>1, <1>3

\* The edges of a bus are its inputs, each with what drives it.
LEMMA BusIsInputs ==
    ASSUME design \in Designs, WellConnected(design), NEW type \in Buses
    PROVE  LET bus == {e \in BusEdges(design) \cup ClockEdges(design) : e.type = type}
           IN  /\ \A e \in bus : \E s \in Inputs(type) : EndsAt(e, s) /\ StartsAt(e, Driver(s))
               /\ \A s \in Inputs(type) : \E e \in bus : EndsAt(e, s) /\ StartsAt(e, Driver(s))
<1> DEFINE bus == {e \in BusEdges(design) \cup ClockEdges(design) : e.type = type}
<1>1. ASSUME NEW e \in bus
      PROVE  \E s \in Inputs(type) : EndsAt(e, s) /\ StartsAt(e, Driver(s))
  <2>1. e \notin ClockEdges(design)
    BY DEF ClockEdges, Buses
  <2>2. PICK d \in design.ends, s \in design.ends :
          /\ d.role = "master" /\ s.role = "slave" /\ d.net = s.net
          /\ e = [master |-> d.module, mport |-> d.port, slave |-> s.module, sport |-> s.port,
                  net |-> d.net, type |-> d.type, freq |-> 0]
    <3>1. e \in BusEdges(design)
      BY <2>1
    <3> QED
      BY <3>1 DEF BusEdges
  <2>3. Driver(s) = d
    BY <2>2, OneDriver
  <2>4. d.type = type
    BY <2>2
  <2>5. s \in Inputs(type)
    BY <2>2, <2>3, <2>4 DEF Inputs, Driven
  <2> QED
    BY <2>2, <2>3, <2>5 DEF EndsAt, StartsAt
<1>2. ASSUME NEW s \in Inputs(type)
      PROVE  \E e \in bus : EndsAt(e, s) /\ StartsAt(e, Driver(s))
  <2> DEFINE d == Driver(s)
             c == <<d, s>>
             e == [master |-> c[1].module, mport |-> c[1].port, slave |-> c[2].module,
                   sport |-> c[2].port, net |-> c[1].net, type |-> c[1].type, freq |-> 0]
  <2>1. /\ s \in design.ends /\ s.role = "slave" /\ d \in design.ends
        /\ d.role = "master" /\ d.net = s.net /\ d.type = type
    BY DriverIs
  <2> HIDE DEF d
  <2>2. c \in {x \in design.ends \X design.ends : /\ x[1].role = "master" /\ x[2].role = "slave"
                                                  /\ x[1].net = x[2].net}
    BY <2>1
  <2>3. e \in BusEdges(design)
    BY <2>2 DEF BusEdges
  <2>4. e.type = type /\ EndsAt(e, s) /\ StartsAt(e, d)
    BY <2>1 DEF EndsAt, StartsAt
  <2> QED
    BY <2>3, <2>4 DEF d
<1> QED
  BY <1>1, <1>2

\* A way of no step.
LEMMA WayHere ==
    ASSUME NEW type, NEW s \in Inputs(type)
    PROVE  \A e : StartsAt(e, Driver(s)) => Traced(type, e, s)
<1> DEFINE p == [i \in 0 .. 0 |-> s]
<1>1. p \in [0 .. 0 -> Inputs(type)] /\ p[0] = s /\ 0 .. 0 - 1 = {} /\ 0 \in Nat
  OBVIOUS
<1> HIDE DEF p
<1>2. WayBack(type, p, 0)
  BY <1>1 DEF WayBack
<1> QED
  BY <1>1, <1>2 DEF Traced

\* One way after another.
LEMMA WayOn ==
    ASSUME NEW type, NEW s, NEW u, NEW in, NEW out, NEW e,
           Traced(type, out, s), Traced(type, in, u), out.master = u.module,
           u.module \in PassThrough(type),
           e.master = in.master, e.mport = in.mport, e.net = in.net
    PROVE  Traced(type, e, s)
<1>1. PICK k \in Nat : \E p : WayBack(type, p, k) /\ p[0] = s /\ StartsAt(out, Driver(p[k]))
  BY DEF Traced
<1>2. PICK p : WayBack(type, p, k) /\ p[0] = s /\ StartsAt(out, Driver(p[k]))
  BY <1>1
<1>3. PICK n \in Nat : \E q : WayBack(type, q, n) /\ q[0] = u /\ StartsAt(in, Driver(q[n]))
  BY DEF Traced
<1>4. PICK q : WayBack(type, q, n) /\ q[0] = u /\ StartsAt(in, Driver(q[n]))
  BY <1>3
<1> DEFINE m == k + 1 + n
           r == [i \in 0 .. m |-> IF i <= k THEN p[i] ELSE q[i - (k + 1)]]
<1>5. m \in Nat /\ 0 <= k
  OBVIOUS
<1>6. p \in [0 .. k -> Inputs(type)] /\ q \in [0 .. n -> Inputs(type)]
  BY <1>2, <1>4 DEF WayBack
<1>7. /\ \A i \in 0 .. k : r[i] = p[i] /\ i \in 0 .. m
      /\ \A i \in k + 1 .. m : r[i] = q[i - (k + 1)] /\ i - (k + 1) \in 0 .. n
  OBVIOUS
<1>8. r \in [0 .. m -> Inputs(type)]
  <2>1. ASSUME NEW i \in 0 .. m PROVE (IF i <= k THEN p[i] ELSE q[i - (k + 1)]) \in Inputs(type)
    <3>1. CASE i <= k
      BY <1>6, <3>1
    <3>2. CASE ~(i <= k)
      <4>1. i - (k + 1) \in 0 .. n
        BY <3>2
      <4> QED
        BY <1>6, <3>2, <4>1
    <3> QED
      BY <3>1, <3>2
  <2> QED
    BY <2>1
<1> HIDE DEF r
<1>9. r[0] = s /\ r[k] = p[k] /\ r[k + 1] = u /\ r[m] = q[n]
  <2>1. 0 \in 0 .. k /\ k \in 0 .. k /\ k + 1 \in k + 1 .. m /\ m \in k + 1 .. m
        /\ (k + 1) - (k + 1) = 0 /\ m - (k + 1) = n
    OBVIOUS
  <2> HIDE DEF m
  <2> QED
    BY <1>2, <1>4, <1>7, <2>1
<1>10. ASSUME NEW i \in 0 .. m - 1
       PROVE  Driver(r[i]).module \in PassThrough(type) /\ r[i + 1].module = Driver(r[i]).module
  <2>1. CASE i < k
    <3>1. i \in 0 .. k /\ i + 1 \in 0 .. k /\ i \in 0 .. k - 1
      BY <2>1
    <3>2. r[i] = p[i] /\ r[i + 1] = p[i + 1]
      BY <1>7, <3>1
    <3> QED
      BY <1>2, <3>1, <3>2 DEF WayBack
  <2>2. CASE i = k
    <3>1. Driver(p[k]).module = u.module
      BY <1>2 DEF StartsAt
    <3> QED
      BY <1>9, <2>2, <3>1
  <2>3. CASE i > k
    <3>1. /\ i \in k + 1 .. m /\ i + 1 \in k + 1 .. m /\ i - (k + 1) \in 0 .. n - 1
          /\ (i + 1) - (k + 1) = (i - (k + 1)) + 1
      BY <2>3
    <3>2. r[i] = q[i - (k + 1)] /\ r[i + 1] = q[(i - (k + 1)) + 1]
      BY <1>7, <3>1
    <3> QED
      BY <1>4, <3>1, <3>2 DEF WayBack
  <2> QED
    BY <2>1, <2>2, <2>3
<1>11. WayBack(type, r, m) /\ StartsAt(e, Driver(r[m]))
  <2>1. StartsAt(e, Driver(r[m]))
    BY <1>4, <1>9 DEF StartsAt
  <2> HIDE DEF m
  <2> QED
    BY <1>5, <1>8, <1>10, <2>1 DEF WayBack
<1> QED
  BY <1>5, <1>9, <1>11 DEF Traced

\* What is left when a module is left out is traced through it.
LEMMA BypassedTraced ==
    ASSUME design \in Designs, NEW type, NEW es \in SUBSET Edges, NEW gone,
           TracedGraph(type, es, gone), NEW m \in PassThrough(type),
           One(Into(es, m)), One(OutOf(es, m))
    PROVE  TracedGraph(type, Bypassed(es, m), gone \cup {m})
<1>1. PICK in \in es, out \in es :
          /\ Into(es, m) = {in} /\ OutOf(es, m) = {out}
          /\ Bypassed(es, m) = {e \in es \cup {Link(in, out)} : m \notin {e.master, e.slave}}
  BY BypassedEdges
<1> DEFINE link == Link(in, out)
           left == Bypassed(es, m)
           now == gone \cup {m}
<1>2. /\ link.master = in.master /\ link.mport = in.mport /\ link.net = in.net
      /\ link.slave = out.slave /\ link.sport = out.sport
      /\ in.slave = m /\ out.master = m
  BY <1>1 DEF Link, Edges, Into, OutOf
<1>3. left = {e \in es \cup {link} : e.master # m /\ e.slave # m}
  BY <1>1
<1>4. /\ \A e \in es : e.slave = m => e = in
      /\ \A e \in es : e.master = m => e = out
  BY <1>1 DEF Into, OutOf
<1>5. \A e \in es : /\ e.master \notin gone
                    /\ \E s \in Inputs(type) : /\ s.module \notin gone
                                              /\ EndsAt(e, s) /\ Traced(type, e, s)
  BY DEF TracedGraph
<1>6. \A s \in Inputs(type) : s.module \notin gone => \E e \in es : EndsAt(e, s)
  BY DEF TracedGraph
<1> HIDE DEF link, left, now
<1>7. ASSUME NEW e \in left
      PROVE  /\ e.master \notin now
             /\ \E s \in Inputs(type) : /\ s.module \notin now
                                        /\ EndsAt(e, s) /\ Traced(type, e, s)
  <2>1. CASE e \in es
    <3>1. PICK s \in Inputs(type) : s.module \notin gone /\ EndsAt(e, s) /\ Traced(type, e, s)
      BY <1>5, <2>1
    <3>2. e.master # m /\ e.slave # m /\ e.slave = s.module
      BY <1>3, <3>1 DEF EndsAt
    <3> QED
      BY <1>5, <2>1, <3>1, <3>2 DEF now
  <2>2. CASE e = link
    <3>1. link.master # m /\ link.slave # m
      BY <1>3, <2>2
    <3>2. PICK s \in Inputs(type) : s.module \notin gone /\ EndsAt(out, s) /\ Traced(type, out, s)
      BY <1>5
    <3>3. PICK u \in Inputs(type) : EndsAt(in, u) /\ Traced(type, in, u)
      BY <1>5
    <3>4. u.module = m
      BY <1>2, <3>3 DEF EndsAt
    <3>5. Traced(type, link, s)
      BY <1>2, <3>2, <3>3, <3>4, WayOn
    <3>6. EndsAt(link, s) /\ s.module # m
      BY <1>2, <3>1, <3>2 DEF EndsAt
    <3> QED
      BY <1>2, <1>5, <2>2, <3>1, <3>2, <3>5, <3>6 DEF now
  <2> QED
    BY <1>3, <2>1, <2>2
<1>8. ASSUME NEW s \in Inputs(type), s.module \notin now
      PROVE  \E e \in left : EndsAt(e, s)
  <2>1. PICK e \in es : EndsAt(e, s)
    BY <1>6, <1>8 DEF now
  <2>2. e.slave = s.module /\ e.slave # m
    BY <1>8, <2>1 DEF EndsAt, now
  <2>3. CASE e.master # m
    BY <1>3, <2>1, <2>2, <2>3
  <2>4. CASE e.master = m
    <3>1. e = out
      BY <1>4, <2>4
    <3>2. link.slave # m /\ EndsAt(link, s)
      BY <1>2, <2>1, <2>2, <3>1 DEF EndsAt
    <3>3. link.master # m
      BY <1>2, <1>4, <2>2, <3>1
    <3> QED
      BY <1>3, <3>2, <3>3
  <2> QED
    BY <2>3, <2>4
<1> QED
  BY <1>7, <1>8 DEF TracedGraph, left, now

\* A graph as it is created, where a module that passes the bus on is one with an edge.
LEMMA CreatedTraced ==
    ASSUME design \in Designs, WellConnected(design), NEW type \in Buses,
           NEW es, es = {e \in BusEdges(design) \cup ClockEdges(design) : e.type = type},
           NEW through, \A m \in PassThrough(type) : Touching(es, m) # {} => m \in through
    PROVE  TracedGraph(type, es, PassThrough(type) \ through)
<1>1. /\ \A e \in es : \E s \in Inputs(type) : EndsAt(e, s) /\ StartsAt(e, Driver(s))
      /\ \A s \in Inputs(type) : \E e \in es : EndsAt(e, s) /\ StartsAt(e, Driver(s))
  BY BusIsInputs
<1>2. ASSUME NEW e \in es
      PROVE  /\ e.master \notin PassThrough(type) \ through
             /\ e.slave \notin PassThrough(type) \ through
  <2>1. e \in Touching(es, e.master) /\ e \in Touching(es, e.slave)
    BY DEF Touching
  <2> QED
    BY <2>1
<1>3. ASSUME NEW e \in es
      PROVE  \E s \in Inputs(type) : /\ s.module \notin PassThrough(type) \ through
                                     /\ EndsAt(e, s) /\ Traced(type, e, s)
  <2>1. PICK s \in Inputs(type) : EndsAt(e, s) /\ StartsAt(e, Driver(s))
    BY <1>1
  <2>2. Traced(type, e, s) /\ s.module = e.slave
    BY <2>1, WayHere DEF EndsAt
  <2> QED
    BY <1>2, <2>1, <2>2
<1> QED
  BY <1>1, <1>2, <1>3 DEF TracedGraph

\* One edge into each module that passes the bus on is one input of it.
LEMMA CreatedOneInput ==
    ASSUME design \in Designs, WellConnected(design), NEW type \in Buses,
           NEW es, es = {e \in BusEdges(design) \cup ClockEdges(design) : e.type = type},
           \A m \in PassThrough(type) : Touching(es, m) # {} => One(Into(es, m))
    PROVE  OneInput(type)
<1>1. \A s \in Inputs(type) : \E e \in es : EndsAt(e, s) /\ StartsAt(e, Driver(s))
  BY BusIsInputs
<1>2. SUFFICES ASSUME NEW s \in Inputs(type), NEW u \in Inputs(type), s.module = u.module,
                      s.module \in PassThrough(type)
               PROVE  s = u
  BY DEF OneInput
<1> DEFINE m == s.module
<1>3. PICK e \in es : EndsAt(e, s)
  BY <1>1
<1>4. PICK f \in es : EndsAt(f, u)
  BY <1>1
<1>5. e \in Into(es, m) /\ f \in Into(es, m) /\ e \in Touching(es, m)
  BY <1>2, <1>3, <1>4 DEF EndsAt, Into, Touching
<1>6. One(Into(es, m))
  BY <1>2, <1>5
<1>7. e = f
  BY <1>5, <1>6 DEF One
<1>8. s.port = u.port /\ s \in design.ends /\ u \in design.ends
  BY <1>3, <1>4, <1>7, DriverIs DEF EndsAt
<1> QED
  BY <1>2, <1>8, EndsUnique

\* The design decides what is traced.
LEMMA WaysStay ==
    UNCHANGED design =>
        /\ WellConnected(design)' <=> WellConnected(design)
        /\ BusEdges(design)' = BusEdges(design) /\ ClockEdges(design)' = ClockEdges(design)
        /\ \A type : /\ PassThrough(type)' = PassThrough(type)
                     /\ OneInput(type)' <=> OneInput(type)
                     /\ \A es, gone : TracedGraph(type, es, gone)' <=> TracedGraph(type, es, gone)
<1> SUFFICES ASSUME UNCHANGED design
             PROVE  /\ WellConnected(design)' <=> WellConnected(design)
                    /\ BusEdges(design)' = BusEdges(design)
                    /\ ClockEdges(design)' = ClockEdges(design)
                    /\ \A type : /\ PassThrough(type)' = PassThrough(type)
                                 /\ OneInput(type)' <=> OneInput(type)
                                 /\ \A es, gone : TracedGraph(type, es, gone)'
                                                     <=> TracedGraph(type, es, gone)
  OBVIOUS
<1>1. \A s : Driver(s)' = Driver(s) /\ (Driven(s)' <=> Driven(s))
  BY DEF Driver, Driven
<1>2. \A type : PassThrough(type)' = PassThrough(type) /\ Inputs(type)' = Inputs(type)
  BY <1>1 DEF PassThrough, Inputs
<1>3. \A type : OneInput(type)' <=> OneInput(type)
  BY <1>2 DEF OneInput
<1>4. \A type, p, k : WayBack(type, p, k)' <=> WayBack(type, p, k)
  BY <1>1, <1>2 DEF WayBack
<1>5. \A type, e, s : Traced(type, e, s)' <=> Traced(type, e, s)
  BY <1>1, <1>4 DEF Traced
<1>6. \A type, es, gone : TracedGraph(type, es, gone)' <=> TracedGraph(type, es, gone)
  BY <1>2, <1>5 DEF TracedGraph
<1>7. /\ WellConnected(design)' <=> WellConnected(design)
      /\ BusEdges(design)' = BusEdges(design) /\ ClockEdges(design)' = ClockEdges(design)
  OBVIOUS
<1> QED
  BY <1>2, <1>3, <1>6, <1>7

\* Steps that only look at the graphs.
LEMMA WiringStays ==
    ASSUME Wiring, UNCHANGED parserVars,
           \/ pc' = pc
           \/ pc \notin {"system_graph", "refused"} /\ pc' # "system_graph"
    PROVE  Wiring'
<1>1. /\ \A type : Waiting(type)' = Waiting(type)
      /\ \A type : Gone(type)' = Gone(type)
  BY WaysStay DEF Waiting, Gone, parserVars
<1>2. UNCHANGED design
  BY DEF parserVars
<1>3. ASSUME pc \notin {"system_graph", "refused"}
      PROVE  /\ WellConnected(design)'
             /\ edges' = BusEdges(design)' \cup ClockEdges(design)'
             /\ \A type \in Buses :
                /\ Waiting(type)' \subseteq PassThrough(type)'
                /\ type \in Range(pending') => Waiting(type)' = {}
                /\ type \notin Range(pending') =>
                      OneInput(type)' /\ TracedGraph(type, graph[type], Gone(type))'
  <2>1. ASSUME NEW type \in Buses, type \notin Range(pending)
        PROVE  TracedGraph(type, graph[type], Gone(type))'
    <3> DEFINE es == graph[type]
               gone == Gone(type)
    <3>1. TracedGraph(type, es, gone)
      BY <1>3, <2>1 DEF Wiring
    <3>2. PICK x, y : x = es /\ y = gone
      OBVIOUS
    <3>3. TracedGraph(type, x, y)'
      BY <1>2, <3>1, <3>2, WaysStay
    <3>4. es' = x /\ gone' = y
      BY <1>1, <3>2 DEF parserVars
    <3> HIDE DEF es, gone
    <3>5. TracedGraph(type, es, gone)'
      BY <3>3, <3>4 DEF TracedGraph
    <3> QED
      BY <3>5 DEF es, gone
  <2>2. pending' = pending /\ edges' = edges
    BY DEF parserVars
  <2> QED
    BY <1>1, <1>2, <1>3, <2>1, <2>2, WaysStay DEF Wiring
<1>4. IsInjective(pending)' /\ pending' = pending
  BY DEF Wiring, parserVars
<1>5. pc' = "system_graph" => Range(pending') = Range(BusTypes)
  BY <1>4 DEF Wiring
<1>6. pc' \notin {"system_graph", "refused"} => pc \notin {"system_graph", "refused"}
  OBVIOUS
<1> QED
  BY <1>3, <1>4, <1>5, <1>6 DEF Wiring

\* What a graph is in the next state, in terms of this one.
LEMMA TracedNext ==
    ASSUME UNCHANGED design, NEW type, NEW es, NEW gone, TracedGraph(type, es, gone),
           graph'[type] = es, Gone(type)' = gone
    PROVE  TracedGraph(type, graph[type], Gone(type))'
<1>1. TracedGraph(type, es, gone)'
  BY WaysStay
<1> QED
  BY <1>1 DEF TracedGraph

\* The system graph has the edges of the design.
LEMMA BuildSystemGraphWired == ASSUME Wiring, BootInv, BuildSystemGraph PROVE Wiring'
<1>1. /\ UNCHANGED <<design, graph, pending, collapse>>
      /\ edges' = BusEdges(design) \cup ClockEdges(design)
      /\ pc = "system_graph" /\ pc' \in {"graphs", "refused"}
      /\ pc' = "graphs" => WellConnected(design)
  BY DEF BuildSystemGraph, Proceed
<1>2. IsInjective(pending)' /\ Range(pending') = Range(BusTypes)
  BY <1>1 DEF Wiring
<1>3. Buses \subseteq Range(BusTypes)
  BY DEF Buses, BusTypes, Range
<1>4. \A type : Waiting(type)' = {}
  BY <1>1 DEF BootInv, Collapsible, Waiting
<1>5. /\ WellConnected(design)' <=> WellConnected(design)
      /\ BusEdges(design)' = BusEdges(design) /\ ClockEdges(design)' = ClockEdges(design)
  BY <1>1
<1> QED
  BY <1>1, <1>2, <1>3, <1>4, <1>5 DEF Wiring

\* A graph that is created has every edge of its bus, and is traced from the start.
LEMMA CreateGraphWired == ASSUME Wiring, BootInv, CreateGraph PROVE Wiring'
<1> DEFINE type == Head(pending)
           filtered == {e \in edges : e.type = type}
           through == Filtered(Nodes, {m \in PassThrough(type) : Touching(filtered, m) # {}})
           ok == \A m \in Range(through) : /\ Cardinality(Into(filtered, m)) = 1
                                           /\ Cardinality(OutOf(filtered, m)) = 1
<1>1. /\ design' = design /\ edges' = edges /\ pending # <<>> /\ pending' = Tail(pending)
      /\ collapse = <<>>
      /\ graph' = [graph EXCEPT ![type] = filtered]
      /\ collapse' = [i \in DOMAIN through |-> <<type, through[i]>>]
      /\ pc = "graphs" /\ pc' = IF ok THEN "graphs" ELSE "refused"
  BY Zenon DEF CreateGraph, Proceed
<1>2. /\ design \in Designs /\ edges \subseteq Edges /\ IsFiniteSet(edges)
      /\ graph \in [Range(BusTypes) -> SUBSET Edges] /\ pending \in Seq(Range(BusTypes))
  BY DEF BootInv, ParserTypes
<1>3. /\ IsInjective(pending) /\ WellConnected(design)
      /\ edges = BusEdges(design) \cup ClockEdges(design)
      /\ \A t \in Buses :
            /\ Waiting(t) \subseteq PassThrough(t)
            /\ t \in Range(pending) => Waiting(t) = {}
            /\ t \notin Range(pending) => OneInput(t) /\ TracedGraph(t, graph[t], Gone(t))
  BY <1>1 DEF Wiring
<1>4. /\ IsInjective(Tail(pending)) /\ type \in Range(BusTypes)
      /\ Range(Tail(pending)) = Range(pending) \ {type} /\ type \in Range(pending)
  <2>1. /\ DOMAIN pending = 1 .. Len(pending) /\ DOMAIN Tail(pending) = 1 .. Len(pending) - 1
        /\ type = pending[1] /\ Len(pending) \in Nat /\ 1 \in DOMAIN pending
        /\ \A i \in 1 .. Len(pending) - 1 : Tail(pending)[i] = pending[i + 1]
        /\ \A i \in 1 .. Len(pending) - 1 : i + 1 \in DOMAIN pending
    BY <1>1, <1>2
  <2>2. \A i \in DOMAIN pending : i # 1 => i - 1 \in 1 .. Len(pending) - 1 /\ (i - 1) + 1 = i
    BY <2>1
  <2>3. IsInjective(Tail(pending))
    BY <1>3, <2>1 DEF IsInjective
  <2>4. \A i \in DOMAIN pending : i # 1 => pending[i] # type
    BY <1>3, <2>1 DEF IsInjective
  <2>5. Range(Tail(pending)) \subseteq Range(pending) \ {type}
    BY <2>1, <2>4 DEF Range
  <2>6. Range(pending) \ {type} \subseteq Range(Tail(pending))
    <3>1. SUFFICES ASSUME NEW i \in DOMAIN pending, pending[i] # type
                   PROVE  pending[i] \in Range(Tail(pending))
      BY DEF Range
    <3>2. i # 1
      BY <2>1, <3>1
    <3>3. i - 1 \in DOMAIN Tail(pending) /\ Tail(pending)[i - 1] = pending[i]
      BY <2>1, <2>2, <3>2
    <3> QED
      BY <3>3 DEF Range
  <2>7. type \in Range(BusTypes) /\ type \in Range(pending)
    <3>1. pending[1] \in Range(BusTypes)
      BY <1>2, <2>1
    <3> QED
      BY <2>1, <3>1 DEF Range
  <2>8. Range(Tail(pending)) = Range(pending) \ {type}
    BY <2>5, <2>6
  <2> HIDE DEF type
  <2> QED
    BY <2>3, <2>7, <2>8
<1>5. /\ through \in Seq(Modules)
      /\ Range(through) = Range(Nodes) \cap {m \in PassThrough(type) : Touching(filtered, m) # {}}
  BY <1>2, NodesTyped, FilteredElements
<1>6. Range(Nodes) = Range(design.order) \cap {m \in Modules : Touching(edges, m) # {}}
  <2>1. design.order \in Seq(Modules)
    BY <1>2, DesignAssumption DEF DesignType
  <2> QED
    BY <2>1, FilteredElements DEF Nodes
<1>7. PICK t0, es, wait : t0 = type /\ es = filtered /\ wait = Range(through)
  OBVIOUS
<1>8. \A t : PassThrough(t)' = PassThrough(t)
  BY <1>1, WaysStay
<1>9. Waiting(t0)' = wait
  <2>1. \A i \in DOMAIN through : collapse'[i][1] = t0 /\ collapse'[i][2] = through[i]
    BY <1>1, <1>7
  <2>2. DOMAIN collapse' = DOMAIN through
    BY <1>1
  <2>3. Waiting(t0)' = {collapse'[i][2] : i \in {j \in DOMAIN collapse' : collapse'[j][1] = t0}}
    BY DEF Waiting
  <2> HIDE DEF through, type, filtered
  <2>4. wait = {through[i] : i \in DOMAIN through}
    BY <1>7 DEF Range
  <2> QED
    BY <2>1, <2>2, <2>3, <2>4
<1>10. ASSUME NEW t, t # t0 PROVE Waiting(t)' = {} /\ Waiting(t) = {}
  <2>1. Waiting(t) = {}
    BY <1>1 DEF Waiting
  <2>2. \A i \in DOMAIN collapse' : collapse'[i][1] = t0
    BY <1>1, <1>7
  <2> HIDE DEF through, type, filtered
  <2>3. Waiting(t)' = {}
    BY <1>10, <2>2 DEF Waiting
  <2> QED
    BY <2>1, <2>3
<1> HIDE DEF type, filtered, through
<1>11. SUFFICES ASSUME ok PROVE Wiring'
  BY <1>1, <1>4 DEF Wiring
<1>12. \A t \in Buses : Waiting(t)' \subseteq PassThrough(t)'
  BY <1>5, <1>7, <1>8, <1>9, <1>10
<1>13. \A t \in Buses : t \in Range(pending') => Waiting(t)' = {}
  BY <1>1, <1>4, <1>7, <1>10
<1>14. ASSUME NEW t \in Buses, t \notin Range(pending')
       PROVE  OneInput(t)' /\ TracedGraph(t, graph[t], Gone(t))'
  <2>1. CASE t # t0
    <3>1. t \notin Range(pending)
      BY <1>1, <1>4, <1>7, <1>14, <2>1
    <3>2. OneInput(t) /\ TracedGraph(t, graph[t], Gone(t))
      BY <1>3, <3>1
    <3>3. PICK x, y : x = graph[t] /\ y = Gone(t)
      OBVIOUS
    <3>4. graph'[t] = x
      BY <1>1, <1>2, <1>7, <2>1, <3>3
    <3>5. Gone(t)' = y
      BY <1>8, <1>10, <2>1, <3>3 DEF Gone
    <3>6. TracedGraph(t, x, y)
      BY <3>2, <3>3
    <3>7. TracedGraph(t, graph[t], Gone(t))'
      BY <1>1, <3>4, <3>5, <3>6, TracedNext
    <3>8. OneInput(t)'
      BY <1>1, <3>2, WaysStay
    <3> QED
      BY <3>7, <3>8
  <2>2. CASE t = t0
    <3>1. /\ es = {e \in BusEdges(design) \cup ClockEdges(design) : e.type = t}
          /\ es \subseteq Edges /\ IsFiniteSet(es)
      BY <1>2, <1>3, <1>7, <2>2, FS_Subset DEF filtered
    <3>2. ASSUME NEW m \in PassThrough(t), Touching(es, m) # {} PROVE m \in wait
      <4>1. PICK e \in es : m \in {e.master, e.slave}
        BY <3>2 DEF Touching
      <4>2. /\ e \in edges /\ e \in Touching(edges, m) /\ m \in Modules
            /\ e \in BusEdges(design)
        <5>1. e \in edges /\ e.type = t
          BY <1>7, <2>2, <4>1 DEF filtered
        <5>2. e \in BusEdges(design)
          BY <1>3, <5>1 DEF ClockEdges, Buses
        <5> QED
          BY <4>1, <5>1, <5>2 DEF Touching, PassThrough
      <4>3. m \in Range(design.order)
        <5>1. PICK d \in design.ends, s \in design.ends : e.master = d.module /\ e.slave = s.module
          BY <4>2 DEF BusEdges
        <5> QED
          BY <1>2, <4>1, <5>1, EndsUnique
      <4> QED
        BY <1>5, <1>6, <1>7, <2>2, <3>2, <4>2, <4>3
    <3>3. ASSUME NEW m \in PassThrough(t), Touching(es, m) # {} PROVE One(Into(es, m))
      <4>1. m \in Range(through)
        BY <1>7, <3>2, <3>3
      <4>2. Cardinality(Into(es, m)) = 1
        BY <1>7, <1>11, <4>1
      <4>3. IsFiniteSet(Into(es, m))
        BY <3>1, FS_Subset DEF Into
      <4> QED
        BY <4>2, <4>3, SingleElement
    <3>4. OneInput(t)
      BY <1>2, <1>3, <3>1, <3>3, CreatedOneInput
    <3>5. TracedGraph(t, es, PassThrough(t) \ wait)
      BY <1>2, <1>3, <3>1, <3>2, CreatedTraced
    <3>6. graph'[t] = es
      BY <1>1, <1>2, <1>4, <1>7, <2>2
    <3>7. PICK y : y = PassThrough(t) \ wait
      OBVIOUS
    <3>8. Gone(t)' = y
      BY <1>8, <1>9, <2>2, <3>7 DEF Gone
    <3>9. TracedGraph(t, graph[t], Gone(t))'
      BY <1>1, <3>5, <3>6, <3>7, <3>8, TracedNext
    <3>10. OneInput(t)'
      BY <1>1, <3>4, WaysStay
    <3> QED
      BY <3>9, <3>10
  <2> QED
    BY <2>1, <2>2
<1>15. IsInjective(pending)' /\ pc' = "graphs"
  BY <1>1, <1>4, <1>11
<1>16. WellConnected(design)' /\ edges' = BusEdges(design)' \cup ClockEdges(design)'
  BY <1>1, <1>3, WaysStay
<1> QED
  BY <1>12, <1>13, <1>14, <1>15, <1>16 DEF Wiring

\* Leaving a pass-through out of a graph keeps what is left traced.
LEMMA CollapseWired == ASSUME Wiring, BootInv, Collapse PROVE Wiring'
<1>1. /\ design' = design /\ edges' = edges /\ pending' = pending /\ collapse # <<>>
      /\ graph' = [graph EXCEPT ![Head(collapse)[1]] = Bypassed(@, Head(collapse)[2])]
      /\ collapse' = Tail(collapse) /\ pc = "graphs" /\ pc' = pc
  BY DEF Collapse
<1>2. /\ design \in Designs
      /\ graph \in [Range(BusTypes) -> SUBSET Edges]
      /\ collapse \in Seq(Range(BusTypes) \X Modules)
  BY DEF BootInv, ParserTypes
<1>3. PICK type, m : type = Head(collapse)[1] /\ m = Head(collapse)[2]
  OBVIOUS
<1>4. /\ collapse[1] = Head(collapse) /\ 1 \in DOMAIN collapse
      /\ DOMAIN collapse' = 1 .. Len(collapse) - 1 /\ DOMAIN collapse = 1 .. Len(collapse)
      /\ Len(collapse) \in Nat
      /\ \A i \in 1 .. Len(collapse) - 1 : collapse'[i] = collapse[i + 1]
  BY <1>1, <1>2
<1>5. /\ type \in Range(BusTypes) /\ graph[type] \in SUBSET Edges
      /\ graph'[type] = Bypassed(graph[type], m)
      /\ \A t \in Range(BusTypes) : t # type => graph'[t] = graph[t]
  <2>1. type \in Range(BusTypes)
    BY <1>2, <1>3, <1>4
  <2> QED
    BY <1>1, <1>2, <1>3, <2>1
<1>6. /\ One(Into(graph[type], m)) /\ One(OutOf(graph[type], m))
      /\ \A i \in DOMAIN collapse :
            /\ collapse[i][1] = type
            /\ i # 1 => collapse[i][2] # m
  BY <1>1, <1>3, <1>4 DEF BootInv, Collapsible
<1>7. /\ IsInjective(pending) /\ WellConnected(design)
      /\ edges = BusEdges(design) \cup ClockEdges(design)
      /\ \A t \in Buses :
            /\ Waiting(t) \subseteq PassThrough(t)
            /\ t \in Range(pending) => Waiting(t) = {}
            /\ t \notin Range(pending) => OneInput(t) /\ TracedGraph(t, graph[t], Gone(t))
  BY <1>1 DEF Wiring
<1>8. \A i \in DOMAIN collapse' : collapse'[i] = collapse[i + 1] /\ i + 1 \in DOMAIN collapse
                                  /\ i + 1 # 1
  BY <1>4
<1>9. \A i \in DOMAIN collapse :
         i # 1 => i - 1 \in DOMAIN collapse' /\ collapse'[i - 1] = collapse[i]
  <2>1. ASSUME NEW i \in DOMAIN collapse, i # 1
        PROVE  i - 1 \in DOMAIN collapse' /\ collapse'[i - 1] = collapse[i]
    <3>1. i - 1 \in 1 .. Len(collapse) - 1 /\ (i - 1) + 1 = i
      BY <1>4, <2>1
    <3> QED
      BY <1>4, <3>1
  <2> QED
    BY <2>1
<1>10. ASSUME NEW t, t # type PROVE Waiting(t) = {} /\ Waiting(t)' = {}
  <2>1. \A i \in DOMAIN collapse' : collapse'[i][1] = type
    BY <1>6, <1>8
  <2> QED
    BY <1>6, <1>10, <2>1 DEF Waiting
<1>11. Waiting(type)' = Waiting(type) \ {m} /\ m \in Waiting(type)
  <2>1. Waiting(type) = {collapse[i][2] : i \in DOMAIN collapse}
    BY <1>6 DEF Waiting
  <2>2. \A i \in DOMAIN collapse' : collapse'[i][1] = type
    BY <1>6, <1>8
  <2>3. Waiting(type)' = {collapse'[i][2] : i \in DOMAIN collapse'}
    BY <2>2 DEF Waiting
  <2>4. collapse[1][2] = m
    BY <1>3, <1>4
  <2>5. {collapse'[i][2] : i \in DOMAIN collapse'}
            \subseteq {collapse[i][2] : i \in DOMAIN collapse} \ {m}
    BY <1>6, <1>8
  <2>6. {collapse[i][2] : i \in DOMAIN collapse} \ {m}
            \subseteq {collapse'[i][2] : i \in DOMAIN collapse'}
    BY <1>9, <2>4
  <2>7. m \in {collapse[i][2] : i \in DOMAIN collapse}
    BY <1>4, <2>4
  <2> QED
    BY <2>1, <2>3, <2>5, <2>6, <2>7
<1>12. \A t : PassThrough(t)' = PassThrough(t)
  BY <1>1, WaysStay
<1>13. \A t \in Buses : t \in Range(BusTypes)
  BY DEF Buses, BusTypes, Range
<1>14. \A t \in Buses : Waiting(t)' \subseteq PassThrough(t)'
  BY <1>7, <1>10, <1>11, <1>12
<1>18. \A t \in Buses : t \in Range(pending') => Waiting(t)' = {}
  BY <1>1, <1>7, <1>10, <1>11
<1>15. ASSUME NEW t \in Buses, t \notin Range(pending')
       PROVE  OneInput(t)' /\ TracedGraph(t, graph[t], Gone(t))'
  <2>1. OneInput(t) /\ TracedGraph(t, graph[t], Gone(t))
    BY <1>1, <1>7, <1>15
  <2>2. OneInput(t)'
    BY <1>1, <2>1, WaysStay
  <2>3. CASE t # type
    <3>1. PICK x, y : x = graph[t] /\ y = Gone(t)
      OBVIOUS
    <3>2. graph'[t] = x
      BY <1>5, <1>13, <2>3, <3>1
    <3>3. Gone(t)' = y
      BY <1>10, <1>12, <2>3, <3>1 DEF Gone
    <3>4. TracedGraph(t, x, y)
      BY <2>1, <3>1
    <3>5. TracedGraph(t, graph[t], Gone(t))'
      BY <1>1, <3>2, <3>3, <3>4, TracedNext
    <3> QED
      BY <2>2, <3>5
  <2>4. CASE t = type
    <3>1. PICK x, y : x = Bypassed(graph[t], m) /\ y = Gone(t) \cup {m}
      OBVIOUS
    <3>2. graph'[t] = x
      BY <1>5, <2>4, <3>1
    <3>3. m \in PassThrough(t)
      BY <1>7, <1>11, <2>4
    <3>4. Gone(t)' = y
      BY <1>11, <1>12, <2>4, <3>1, <3>3 DEF Gone
    <3>5. TracedGraph(t, x, y)
      BY <1>2, <1>5, <1>6, <2>1, <2>4, <3>1, <3>3, BypassedTraced
    <3>6. TracedGraph(t, graph[t], Gone(t))'
      BY <1>1, <3>2, <3>4, <3>5, TracedNext
    <3> QED
      BY <2>2, <3>6
  <2> QED
    BY <2>3, <2>4
<1>16. WellConnected(design)' /\ edges' = BusEdges(design)' \cup ClockEdges(design)'
  BY <1>1, <1>7, WaysStay
<1>17. IsInjective(pending)' /\ pc' = "graphs"
  BY <1>1, <1>7
<1> QED
  BY <1>14, <1>18, <1>15, <1>16, <1>17 DEF Wiring

\* The graphs are still to be created, each once.
LEMMA InitWired == Init => Wiring
<1> SUFFICES ASSUME Init PROVE Wiring
  OBVIOUS
<1>1. pc = "system_graph" /\ pending = BusTypes
  BY DEF Init, BootInit, ParserInit
<1>2. IsInjective(BusTypes)
  BY DEF IsInjective, BusTypes
<1> QED
  BY <1>1, <1>2 DEF Wiring

\* Every step keeps the wiring.
LEMMA NextWired == Wiring /\ BootInv /\ [Next]_vars => Wiring'
<1> SUFFICES ASSUME Wiring, BootInv, [Next]_vars PROVE Wiring'
  OBVIOUS
<1>1. CASE UNCHANGED vars
  BY <1>1, WiringStays DEF vars, bootVars
<1>2. CASE BuildSystemGraph
  BY <1>2, BuildSystemGraphWired
<1>3. CASE CreateGraph
  BY <1>3, CreateGraphWired
<1>4. CASE Collapse
  BY <1>4, CollapseWired
<1>5. CASE DiscoverIps \/ CheckFireqIps \/ DiscoverClocks \/ InitNode \/ InitRoot
  <2>1. /\ UNCHANGED parserVars
        /\ pc \notin {"system_graph", "refused"} /\ pc' # "system_graph"
    BY <1>5 DEF DiscoverIps, CheckFireqIps, DiscoverClocks, InitNode, InitRoot, Proceed
  <2> QED
    BY <2>1, WiringStays
<1>6. CASE BuildDependencies \/ BuildRootDependencies
  <2>1. /\ UNCHANGED parserVars
        /\ pc \notin {"system_graph", "refused"} /\ pc' # "system_graph"
    BY <1>6 DEF BuildDependencies, BuildRootDependencies, Proceed
  <2> QED
    BY <2>1, WiringStays
<1>7. ASSUME NEW d, NEW i, Select(d, i) PROVE Wiring'
  BY <1>7, WiringStays DEF Select
<1>8. CASE ResetAll
  BY <1>8, WiringStays DEF ResetAll
<1>9. ASSUME NEW m, ConfigureAcquisition(m) PROVE Wiring'
  <2>1. UNCHANGED bootVars
    BY <1>9 DEF ConfigureAcquisition, SetAcquisitionDuration, SetTimeOfFlight, SetOutputMode,
                SetAcquisitionChannel, SetDemodulationFrequency
  <2> QED
    BY <2>1, WiringStays DEF bootVars
<1>10. ASSUME NEW m, ConfigureGenerator(m) PROVE Wiring'
  <2>1. UNCHANGED bootVars
    BY <1>10 DEF ConfigureGenerator, SetReadoutFrequency, SetDriveFrequency, SetGeneratorChannel,
                 SetLfsrSeed, SetManualWaveDestination, TriggerManually
  <2> QED
    BY <2>1, WiringStays DEF bootVars
<1>11. ASSUME NEW m, ConfigureTriggerGenerator(m) PROVE Wiring'
  <2>1. UNCHANGED bootVars
    BY <1>11 DEF ConfigureTriggerGenerator, SetExperimentDuration, CreateDelayItem, SetDelay
  <2> QED
    BY <2>1, WiringStays DEF bootVars
<1> QED
  BY <1>1, <1>2, <1>3, <1>4, <1>5, <1>6, <1>7, <1>8, <1>9, <1>10, <1>11 DEF Next, BootNext

\* One row of the recursion of Origin, from the row before.
First(type) == [s \in Inputs(type) |-> Driver(s)]
Further(row, type) ==
    [s \in Inputs(type) |-> IF Driver(s).module \notin PassThrough(type) THEN Driver(s)
                            ELSE row[Through(type, Driver(s).module)]]

\* The recursion of Origin, up to the n-th row.
Rows(o, type, n) ==
    /\ o = [k \in 0 .. n |-> o[k]]
    /\ o[0] = First(type)
    /\ \A k \in 1 .. n : o[k] = Further(o[k - 1], type)

\* It can be followed as far as one likes.
LEMMA RowsExist == ASSUME NEW type PROVE \A n \in Nat : \E o : Rows(o, type, n)
<1> DEFINE T == {n \in Nat : \E o : Rows(o, type, n)}
<1>1. 0 \in T
  <2>1. Rows([k \in 0 .. 0 |-> First(type)], type, 0)
    BY DEF Rows
  <2> QED
    BY <2>1
<1>2. ASSUME NEW n \in T PROVE n + 1 \in T
  <2>1. PICK o : Rows(o, type, n)
    OBVIOUS
  <2> DEFINE next == Further(o[n], type)
             g == [k \in 0 .. n + 1 |-> IF k = n + 1 THEN next ELSE o[k]]
  <2>2. \A k \in 0 .. n : g[k] = o[k]
    OBVIOUS
  <2>3. g[n + 1] = next /\ g = [k \in 0 .. n + 1 |-> g[k]]
    OBVIOUS
  <2> HIDE DEF g
  <2>4. ASSUME NEW k \in 1 .. n + 1
        PROVE  g[k] = Further(g[k - 1], type)
    <3>1. CASE k = n + 1
      <4>1. k - 1 = n /\ n \in 0 .. n
        BY <3>1
      <4> QED
        BY <2>2, <2>3, <3>1, <4>1
    <3>2. CASE k # n + 1
      <4>1. k \in 1 .. n /\ k \in 0 .. n /\ k - 1 \in 0 .. n
        BY <3>2
      <4>2. g[k] = o[k] /\ g[k - 1] = o[k - 1]
        BY <2>2, <4>1
      <4>3. o[k] = Further(o[k - 1], type)
        BY <2>1, <4>1 DEF Rows
      <4> QED
        BY <4>2, <4>3
    <3> QED
      BY <3>1, <3>2
  <2>5. g[0] = First(type)
    BY <2>1, <2>2 DEF Rows
  <2>6. Rows(g, type, n + 1)
    BY <2>3, <2>4, <2>5 DEF Rows
  <2> QED
    BY <2>6
<1>3. T \subseteq Nat
  OBVIOUS
<1> HIDE DEF T
<1>4. T = Nat
  BY <1>1, <1>2, <1>3, SetInduction
<1> QED
  BY <1>4 DEF T

\* An origin is looked for input by input.
LEMMA OriginSteps ==
    ASSUME NEW type, NEW n \in Nat, n = Len(design.order)
    PROVE  \E o : /\ \A input : Origin(type, input) = o[n][input]
                  /\ o[0] = First(type)
                  /\ \A k \in 1 .. n : o[k] = Further(o[k - 1], type)
<1> DEFINE Solves(o) ==
               o = [k \in 0 .. Len(design.order) |->
                       [s \in Inputs(type) |->
                           IF k = 0 \/ Driver(s).module \notin PassThrough(type)
                           THEN Driver(s)
                           ELSE o[k - 1][Through(type, Driver(s).module)]]]
           o == CHOOSE o : Solves(o)
<1>1. \E g : Solves(g)
  <2>1. PICK g : Rows(g, type, n)
    BY RowsExist
  <2> DEFINE Row(k) == [s \in Inputs(type) |->
                           IF k = 0 \/ Driver(s).module \notin PassThrough(type)
                           THEN Driver(s)
                           ELSE g[k - 1][Through(type, Driver(s).module)]]
  <2>2. ASSUME NEW k \in 0 .. n PROVE g[k] = Row(k)
    <3>1. CASE k = 0
      <4>1. g[0] = First(type)
        BY <2>1 DEF Rows
      <4> QED
        BY <3>1, <4>1 DEF First
    <3>2. CASE k # 0
      <4>1. k \in 1 .. n
        BY <3>2
      <4>2. g[k] = Further(g[k - 1], type)
        BY <2>1, <4>1 DEF Rows
      <4> QED
        BY <3>2, <4>2 DEF Further
    <3> QED
      BY <3>1, <3>2
  <2>3. g = [k \in 0 .. n |-> g[k]]
    BY <2>1 DEF Rows
  <2>4. g = [k \in 0 .. n |-> Row(k)]
    <3> HIDE DEF Row
    <3> QED
      BY <2>2, <2>3
  <2>5. Solves(g)
    BY Zenon, <2>4
  <2> QED
    BY <2>5
<1>2. Solves(o)
  BY Zenon, <1>1
<1>3. \A input : Origin(type, input) = o[n][input]
  BY Zenon DEF Origin
<1> DEFINE Row(k) == [s \in Inputs(type) |->
                         IF k = 0 \/ Driver(s).module \notin PassThrough(type)
                         THEN Driver(s)
                         ELSE o[k - 1][Through(type, Driver(s).module)]]
<1>4. o = [k \in 0 .. n |-> Row(k)]
  BY Zenon, <1>2
<1> HIDE DEF o
<1>5. \A k \in 0 .. n : o[k] = Row(k)
  <2> HIDE DEF Row
  <2> QED
    BY <1>4
<1>6. o[0] = First(type)
  <2>1. 0 \in 0 .. n
    OBVIOUS
  <2> QED
    BY <1>5, <2>1 DEF First
<1>7. ASSUME NEW k \in 1 .. n PROVE o[k] = Further(o[k - 1], type)
  <2>1. k \in 0 .. n /\ k # 0
    OBVIOUS
  <2> QED
    BY <1>5, <2>1 DEF Further
<1> QED
  BY <1>3, <1>6, <1>7

\* Nothing is passed twice on a way back from an input that has an origin: there are at most
\* as many modules on it as the file lists.
LEMMA WayBound ==
    ASSUME design \in Designs, NEW type, OneInput(type), NEW k \in Nat, NEW p,
           WayBack(type, p, k), Driver(p[k]).module \notin PassThrough(type)
    PROVE  k <= Len(design.order) /\ Len(design.order) \in Nat
<1>1. /\ p \in [0 .. k -> Inputs(type)]
      /\ \A i \in 0 .. k - 1 : /\ Driver(p[i]).module \in PassThrough(type)
                               /\ p[i + 1].module = Driver(p[i]).module
  BY DEF WayBack
<1>2. \A i \in 1 .. k : p[i].module \in PassThrough(type) /\ p[i] \in Inputs(type)
  <2>1. ASSUME NEW i \in 1 .. k PROVE p[i].module \in PassThrough(type) /\ p[i] \in Inputs(type)
    <3>1. i - 1 \in 0 .. k - 1 /\ (i - 1) + 1 = i /\ i \in 0 .. k
      OBVIOUS
    <3> QED
      BY <1>1, <3>1
  <2> QED
    BY <2>1
<1>3. \A i, j \in 1 .. k : p[i].module = p[j].module => p[i] = p[j]
  BY <1>2 DEF OneInput
<1>4. ASSUME NEW i \in 1 .. k, NEW j \in 1 .. k, i < j, p[i] = p[j] PROVE FALSE
  <2> DEFINE T == {d \in Nat : j + d <= k => p[i + d] = p[j + d]}
  <2>1. 0 \in T
    BY <1>4
  <2>2. ASSUME NEW d \in T PROVE d + 1 \in T
    <3>1. SUFFICES ASSUME j + (d + 1) <= k PROVE p[i + (d + 1)] = p[j + (d + 1)]
      OBVIOUS
    <3>2. PICK a, b : a = i + d /\ b = j + d
      OBVIOUS
    <3>3. /\ a \in 0 .. k - 1 /\ b \in 0 .. k - 1 /\ i + (d + 1) = a + 1 /\ j + (d + 1) = b + 1
          /\ a + 1 \in 1 .. k /\ b + 1 \in 1 .. k /\ j + d <= k
      BY <1>4, <3>1, <3>2
    <3>4. p[a] = p[b]
      BY <3>2, <3>3
    <3>5. p[a + 1].module = p[b + 1].module
      BY <1>1, <3>3, <3>4
    <3>6. p[a + 1] = p[b + 1]
      BY <1>3, <3>3, <3>5
    <3> QED
      BY <3>3, <3>6
  <2>3. T \subseteq Nat
    OBVIOUS
  <2> HIDE DEF T
  <2>4. T = Nat
    BY <2>1, <2>2, <2>3, SetInduction
  <2>5. k - j \in T /\ j + (k - j) = k /\ k <= k /\ i + (k - j) \in 0 .. k - 1
    BY <1>4, <2>4
  <2>6. p[i + (k - j)] = p[k]
    BY <2>5 DEF T
  <2> QED
    BY <1>1, <2>5, <2>6
<1>5. \A i, j \in 1 .. k : p[i].module = p[j].module => i = j
  <2>1. SUFFICES ASSUME NEW i \in 1 .. k, NEW j \in 1 .. k, p[i].module = p[j].module, i # j
                 PROVE  FALSE
    OBVIOUS
  <2>2. i < j \/ j < i
    BY <2>1
  <2>3. p[i] = p[j]
    BY <1>3, <2>1
  <2> QED
    BY <1>4, <2>2, <2>3
<1>6. PICK order, n : order = design.order /\ n = Len(order)
  OBVIOUS
<1>7. order \in Seq(Modules)
  BY <1>6, DesignAssumption DEF DesignType
<1>8. n \in Nat /\ order \in [1 .. n -> Range(order)]
  BY <1>6, <1>7 DEF Range
<1>9. /\ IsFiniteSet(Range(order)) /\ Cardinality(Range(order)) <= n
      /\ Cardinality(Range(order)) \in Nat
  <2>1. IsFiniteSet(1 .. n) /\ Cardinality(1 .. n) = n
    BY <1>8, FS_Interval
  <2>2. order \in Surjection(1 .. n, Range(order))
    BY <1>8 DEF Surjection, Range
  <2>3. IsFiniteSet(Range(order)) /\ Cardinality(Range(order)) <= Cardinality(1 .. n)
    BY <2>1, <2>2, FS_Surjection
  <2> QED
    BY <2>1, <2>3, FS_CardinalityType
<1> DEFINE f == [i \in 1 .. k |-> p[i].module]
<1>10. f \in Injection(1 .. k, Range(order))
  <2>1. \A i \in 1 .. k : p[i].module \in Range(order)
    BY <1>2, <1>6, DriverIs, EndsUnique
  <2> QED
    BY <1>5, <2>1 DEF Injection, IsInjective
<1>11. k <= Cardinality(Range(order))
  <2>1. Cardinality(1 .. k) = k
    BY FS_Interval
  <2>2. Cardinality(1 .. k) <= Cardinality(Range(order))
    BY <1>9, <1>10, FS_Injection
  <2> QED
    BY <2>1, <2>2
<1> QED
  BY <1>6, <1>8, <1>9, <1>11

\* The origin of an input is at the end of a way back that ends at a module that does not
\* pass the bus on.
LEMMA OriginOfWay ==
    ASSUME design \in Designs, NEW type, OneInput(type), NEW k \in Nat, NEW p,
           WayBack(type, p, k), Driver(p[k]).module \notin PassThrough(type)
    PROVE  Origin(type, p[0]) = Driver(p[k])
<1>1. /\ p \in [0 .. k -> Inputs(type)]
      /\ \A i \in 0 .. k - 1 : /\ Driver(p[i]).module \in PassThrough(type)
                               /\ p[i + 1].module = Driver(p[i]).module
  BY DEF WayBack
<1>2. PICK n \in Nat : n = Len(design.order) /\ k <= n
  BY WayBound
<1>3. PICK o : /\ \A input : Origin(type, input) = o[n][input]
               /\ o[0] = First(type)
               /\ \A i \in 1 .. n : o[i] = Further(o[i - 1], type)
  BY <1>2, OriginSteps
<1> DEFINE T == {j \in Nat : j <= k => o[(n - k) + j][p[k - j]] = Driver(p[k])}
<1>4. 0 \in T
  <2>1. (n - k) + 0 \in 0 .. n /\ k - 0 = k /\ p[k] \in Inputs(type)
    BY <1>1, <1>2
  <2>2. PICK a : a = (n - k) + 0
    OBVIOUS
  <2>3. o[a][p[k]] = Driver(p[k])
    <3>1. CASE a = 0
      BY <1>3, <2>1, <3>1 DEF First
    <3>2. CASE a # 0
      <4>1. a \in 1 .. n
        BY <2>1, <2>2, <3>2
      <4>2. o[a] = Further(o[a - 1], type)
        BY <1>3, <4>1
      <4> QED
        BY <2>1, <4>2 DEF Further
    <3> QED
      BY <3>1, <3>2
  <2> QED
    BY <2>1, <2>2, <2>3
<1>5. ASSUME NEW j \in T PROVE j + 1 \in T
  <2>1. SUFFICES ASSUME j + 1 <= k PROVE o[(n - k) + (j + 1)][p[k - (j + 1)]] = Driver(p[k])
    OBVIOUS
  <2>2. PICK a, i : a = (n - k) + (j + 1) /\ i = k - (j + 1)
    OBVIOUS
  <2>3. /\ a \in 1 .. n /\ a - 1 = (n - k) + j /\ i \in 0 .. k - 1 /\ i + 1 = k - j
        /\ i \in 0 .. k /\ i + 1 \in 0 .. k /\ j <= k
    <3>1. j \in Nat /\ j + 1 <= k /\ k <= n /\ a = (n - k) + (j + 1) /\ i = k - (j + 1)
      BY <1>2, <2>1, <2>2
    <3> HIDE DEF T
    <3>2. a \in 1 .. n /\ i \in 0 .. k - 1
      BY <3>1
    <3>3. a - 1 = (n - k) + j
      BY <3>1
    <3>4. i + 1 = k - j
      BY <3>1
    <3> QED
      BY <3>1, <3>2, <3>3, <3>4
  <2>4. o[a - 1][p[i + 1]] = Driver(p[k])
    BY <2>3
  <2>5. Through(type, Driver(p[i]).module) = p[i + 1]
    <3>1. /\ p[i + 1] \in Inputs(type) /\ p[i + 1].module = Driver(p[i]).module
          /\ p[i + 1].module \in PassThrough(type)
      BY <1>1, <2>3
    <3>2. \A s \in Inputs(type) : s.module = Driver(p[i]).module => s = p[i + 1]
      BY <3>1 DEF OneInput
    <3> QED
      BY <3>1, <3>2 DEF Through
  <2>6. o[a] = Further(o[a - 1], type)
    BY <1>3, <2>3
  <2>7. Driver(p[i]).module \in PassThrough(type) /\ p[i] \in Inputs(type)
    BY <1>1, <2>3
  <2>8. o[a][p[i]] = o[a - 1][p[i + 1]]
    BY <2>5, <2>6, <2>7 DEF Further
  <2> QED
    BY <2>2, <2>4, <2>8
<1>6. T \subseteq Nat
  OBVIOUS
<1> HIDE DEF T
<1>7. T = Nat
  BY <1>4, <1>5, <1>6, SetInduction
<1>8. k \in T /\ k <= k /\ (n - k) + k = n /\ k - k = 0
  BY <1>2, <1>7
<1>9. o[n][p[0]] = Driver(p[k])
  BY <1>8 DEF T
<1> QED
  BY <1>3, <1>9

\* A complete graph has the wires of the design.
LEMMA WiringWires == ASSUME design \in Designs, Wiring PROVE Wired
<1>1. SUFFICES ASSUME NEW type \in Buses, pc # "refused", collapse = <<>>,
                      type \notin Range(pending)
               PROVE  Wires(type) = {[master |-> e.master, mport |-> e.mport, slave |-> e.slave,
                                      sport |-> e.sport, net |-> e.net] : e \in graph[type]}
  BY DEF Wired, Buses
<1>2. pc # "system_graph"
  <2>1. type \in Range(BusTypes)
    BY DEF Buses, BusTypes, Range
  <2> QED
    BY <1>1, <2>1 DEF Wiring
<1>3. WellConnected(design) /\ OneInput(type) /\ TracedGraph(type, graph[type], Gone(type))
  BY <1>1, <1>2 DEF Wiring
<1>4. Gone(type) = PassThrough(type)
  BY <1>1 DEF Gone, Waiting
<1> DEFINE es == graph[type]
           Wire(e) == [master |-> e.master, mport |-> e.mport, slave |-> e.slave,
                       sport |-> e.sport, net |-> e.net]
           WireOf(s) == [master |-> Origin(type, s).module, mport |-> Origin(type, s).port,
                         slave |-> s.module, sport |-> s.port, net |-> Origin(type, s).net]
           ends == {s \in Inputs(type) : s.module \notin PassThrough(type)}
<1>5. /\ \A e \in es : /\ e.master \notin PassThrough(type)
                       /\ \E s \in Inputs(type) : /\ s.module \notin PassThrough(type)
                                                 /\ EndsAt(e, s) /\ Traced(type, e, s)
      /\ \A s \in Inputs(type) : s.module \notin PassThrough(type) => \E e \in es : EndsAt(e, s)
  BY <1>3, <1>4 DEF TracedGraph
<1>6. ASSUME NEW e \in es, NEW s \in Inputs(type), EndsAt(e, s)
      PROVE  Wire(e) = WireOf(s) /\ s \in ends
  <2>1. PICK u \in Inputs(type) : /\ u.module \notin PassThrough(type)
                                  /\ EndsAt(e, u) /\ Traced(type, e, u)
    BY <1>5
  <2>2. u = s
    <3>1. u \in design.ends /\ s \in design.ends /\ u.module = s.module /\ u.port = s.port
      BY <1>6, <2>1, DriverIs DEF EndsAt
    <3> QED
      BY <3>1, EndsUnique
  <2>3. PICK k \in Nat : \E p : WayBack(type, p, k) /\ p[0] = s /\ StartsAt(e, Driver(p[k]))
    BY <2>1, <2>2 DEF Traced
  <2>4. PICK p : WayBack(type, p, k) /\ p[0] = s /\ StartsAt(e, Driver(p[k]))
    BY <2>3
  <2>5. Driver(p[k]).module \notin PassThrough(type)
    BY <1>5, <2>4 DEF StartsAt
  <2>6. Origin(type, s) = Driver(p[k])
    BY <1>3, <2>4, <2>5, OriginOfWay
  <2> QED
    BY <1>6, <2>1, <2>2, <2>4, <2>6 DEF StartsAt, EndsAt
<1>7. Wires(type) = {WireOf(s) : s \in ends}
  BY DEF Wires
<1> HIDE DEF Wire, WireOf, es
<1>8. {WireOf(s) : s \in ends} = {Wire(e) : e \in es}
  <2>1. \A e \in es : \E s \in ends : Wire(e) = WireOf(s)
    BY <1>5, <1>6
  <2>2. \A s \in ends : \E e \in es : Wire(e) = WireOf(s)
    BY <1>5, <1>6
  <2> QED
    BY <2>1, <2>2
<1> QED
  BY <1>7, <1>8 DEF Wire, es

\* Whatever the design and the order in which the file lists its modules, a graph that is
\* complete has exactly the wires between modules that do not pass a bus through.
THEOREM GraphsAreWiring == Spec => GraphIsWiring
<1>1. BootInv /\ Wiring => Wired
  BY WiringWires DEF BootInv, ParserTypes
<1>2. TypeInv => BootInv
  BY DEF TypeInv
<1>3. Spec => [](BootInv /\ Wiring)
  BY <1>2, InitTyped, NextTyped, InitWired, NextWired, PTL DEF Spec
<1>4. [](BootInv /\ Wiring) => []Wired
  BY <1>1, PTL
<1>5. Wired' => [<<graph, pending>>' # <<graph, pending>> => Wired']_parserVars
  OBVIOUS
<1> QED
  BY <1>3, <1>4, <1>5, PTL DEF GraphIsWiring
-----------------------------------------------------------------------------
(* THE DATA.  What the nodes are told goes by the wires.                     *)

\* What an edge that is traced starts from.
LEMMA OriginOfEdge ==
    ASSUME design \in Designs, NEW type, OneInput(type), NEW e, NEW s,
           Traced(type, e, s), e.master \notin PassThrough(type)
    PROVE  /\ StartsAt(e, Origin(type, s))
           /\ Origin(type, s) \in design.ends /\ Origin(type, s).role = "master"
<1>1. PICK k \in Nat : \E p : WayBack(type, p, k) /\ p[0] = s /\ StartsAt(e, Driver(p[k]))
  BY DEF Traced
<1>2. PICK p : WayBack(type, p, k) /\ p[0] = s /\ StartsAt(e, Driver(p[k]))
  BY <1>1
<1>3. Driver(p[k]).module \notin PassThrough(type)
  BY <1>2 DEF StartsAt
<1>4. Origin(type, s) = Driver(p[k])
  BY <1>2, <1>3, OriginOfWay
<1>5. p[k] \in Inputs(type)
  <2>1. k \in 0 .. k
    OBVIOUS
  <2> QED
    BY <1>2, <2>1 DEF WayBack
<1> QED
  BY <1>2, <1>4, <1>5, DriverIs

\* The graph of the data, once it is complete: its edges are those from the origins to the
\* inputs of modules that do not pass the data on.
AxisWires ==
    /\ design \in Designs /\ WellConnected(design)
    /\ \A e \in graph["axis"] :
          \E s \in Inputs("axis") :
             /\ EndsAt(e, s) /\ StartsAt(e, Origin("axis", s))
             /\ Origin("axis", s) \in design.ends /\ Origin("axis", s).role = "master"
    /\ \A s \in Inputs("axis") :
          s.module \notin PassThrough("axis") => \E e \in graph["axis"] : EndsAt(e, s)

\* One edge on each net.
OnePerNet(es) == \A e, f \in es : e.net = f.net => e = f

\* The graph of the data is complete when no bus is pending.
LEMMA AxisGraph ==
    ASSUME design \in Designs, Wiring, pc \notin {"system_graph", "refused"},
           pending = <<>>, collapse = <<>>
    PROVE  AxisWires
<1>1. "axis" \in Buses /\ "axis" \notin Range(pending)
  BY DEF Buses, Range
<1>2. WellConnected(design) /\ OneInput("axis") /\ TracedGraph("axis", graph["axis"], Gone("axis"))
  BY <1>1 DEF Wiring
<1>3. Gone("axis") = PassThrough("axis")
  BY DEF Gone, Waiting
<1>4. ASSUME NEW e \in graph["axis"]
      PROVE  \E s \in Inputs("axis") :
                /\ EndsAt(e, s) /\ StartsAt(e, Origin("axis", s))
                /\ Origin("axis", s) \in design.ends /\ Origin("axis", s).role = "master"
  <2>1. PICK s \in Inputs("axis") : EndsAt(e, s) /\ Traced("axis", e, s)
    BY <1>2, <1>3 DEF TracedGraph
  <2>2. e.master \notin PassThrough("axis")
    BY <1>2, <1>3 DEF TracedGraph
  <2> QED
    BY <1>2, <2>1, <2>2, OriginOfEdge
<1>5. \A s \in Inputs("axis") :
         s.module \notin PassThrough("axis") => \E e \in graph["axis"] : EndsAt(e, s)
  BY <1>2, <1>3 DEF TracedGraph
<1> QED
  BY <1>2, <1>4, <1>5 DEF AxisWires

\* At a port of a module is an edge of the graph, and the interfaces are all of them.
LEMMA InterfaceEdges ==
    ASSUME NEW m
    PROVE  /\ \A p \in DOMAIN Interfaces(m) : \E e \in graph["axis"] :
                 /\ e.net = Interfaces(m)[p]
                 /\ \/ e.master = m /\ e.mport = p
                    \/ e.slave = m /\ e.sport = p
           /\ \A e \in graph["axis"] : /\ e.master = m => e.mport \in DOMAIN Interfaces(m)
                                       /\ e.slave = m => e.sport \in DOMAIN Interfaces(m)
<1>1. PICK es : es = graph["axis"]
  OBVIOUS
<1> DEFINE ports == {e.mport : e \in OutOf(es, m)} \cup {e.sport : e \in Into(es, m)}
           At(p) == CHOOSE e \in es : \/ e.master = m /\ e.mport = p
                                      \/ e.slave = m /\ e.sport = p
<1>2. Interfaces(m) = [p \in ports |-> At(p).net]
  BY <1>1 DEF Interfaces, InterfaceMap
<1>3. ASSUME NEW p \in ports
      PROVE  /\ At(p) \in es
             /\ \/ At(p).master = m /\ At(p).mport = p
                \/ At(p).slave = m /\ At(p).sport = p
  <2>1. \E e \in es : \/ e.master = m /\ e.mport = p
                      \/ e.slave = m /\ e.sport = p
    BY DEF Into, OutOf
  <2> QED
    BY <2>1
<1>4. \A e \in es : /\ e.master = m => e.mport \in ports
                    /\ e.slave = m => e.sport \in ports
  BY DEF Into, OutOf
<1> HIDE DEF ports, At
<1>5. DOMAIN Interfaces(m) = ports /\ \A p \in ports : Interfaces(m)[p] = At(p).net
  BY <1>2
<1>6. ASSUME NEW p \in ports
      PROVE  \E e \in es : /\ e.net = Interfaces(m)[p]
                           /\ \/ e.master = m /\ e.mport = p
                              \/ e.slave = m /\ e.sport = p
  BY <1>3, <1>5
<1>7. \A e \in es : /\ e.master = m => e.mport \in DOMAIN Interfaces(m)
                    /\ e.slave = m => e.sport \in DOMAIN Interfaces(m)
  BY <1>4, <1>5
<1> QED
  BY <1>1, <1>5, <1>6, <1>7

\* The names of the ports that nodes take data from, and of those they drive.
OutputNames == {"m00_axis", "m01_axis", "M_AXIS", "M00_AXIS"}

\* The role of a port of a node is that of its name.
LEMMA Roles ==
    ASSUME design \in Designs, NEW e \in design.ends, Kind(e.module) \in NodeKinds
    PROVE  /\ e.port \in InputNames => e.role = "slave"
           /\ e.port \in OutputNames => e.role = "master"
<1>1. InputNames = Range(SlavePorts) \cup {"S_AXIS", "S_AXIS_S2MM"}
  BY DEF InputNames, SlavePorts, Range
<1> QED
  BY <1>1, InterfaceAssumption DEF OutputNames, Kind

\* What a node is told at an input is the net that the wire to it starts with.
LEMMA InputNet ==
    ASSUME AxisWires, NEW m, Kind(m) \in NodeKinds, NEW p \in InputNames
    PROVE  /\ p \in DOMAIN Interfaces(m) <=> \E s \in Inputs("axis") : s.module = m /\ s.port = p
           /\ \A s \in Inputs("axis") : s.module = m /\ s.port = p =>
                 /\ Interfaces(m)[p] = Origin("axis", s).net /\ Port(m, p) = s
                 /\ Origin("axis", s) \in design.ends /\ Origin("axis", s).role = "master"
<1>1. m \notin PassThrough("axis")
  BY DEF PassThrough, NodeKinds, FireqKinds, Kind
<1>2. ASSUME p \in DOMAIN Interfaces(m)
      PROVE  \E s \in Inputs("axis") :
                /\ s.module = m /\ s.port = p /\ Interfaces(m)[p] = Origin("axis", s).net
                /\ Origin("axis", s) \in design.ends /\ Origin("axis", s).role = "master"
  <2>1. PICK e \in graph["axis"] :
           /\ e.net = Interfaces(m)[p]
           /\ (e.master = m /\ e.mport = p) \/ (e.slave = m /\ e.sport = p)
    BY <1>2, InterfaceEdges
  <2>2. PICK s \in Inputs("axis") :
           /\ EndsAt(e, s) /\ StartsAt(e, Origin("axis", s))
           /\ Origin("axis", s) \in design.ends /\ Origin("axis", s).role = "master"
    BY DEF AxisWires
  <2>3. ~(e.master = m /\ e.mport = p)
    BY <2>2, Roles DEF StartsAt, AxisWires
  <2> QED
    BY <2>1, <2>2, <2>3 DEF EndsAt, StartsAt
<1>3. ASSUME NEW s \in Inputs("axis"), s.module = m, s.port = p
      PROVE  p \in DOMAIN Interfaces(m) /\ Port(m, p) = s
  <2>1. PICK e \in graph["axis"] : EndsAt(e, s)
    BY <1>1, <1>3 DEF AxisWires
  <2>2. s \in design.ends /\ \A u \in design.ends : s.module = u.module /\ s.port = u.port => s = u
    BY DriverIs, EndsUnique DEF AxisWires
  <2>3. Port(m, p) = s
    BY <1>3, <2>2 DEF Port
  <2> QED
    BY <1>3, <2>1, <2>3, InterfaceEdges DEF EndsAt
<1>4. ASSUME NEW s \in Inputs("axis"), s.module = m, s.port = p
      PROVE  /\ Interfaces(m)[p] = Origin("axis", s).net /\ Port(m, p) = s
             /\ Origin("axis", s) \in design.ends /\ Origin("axis", s).role = "master"
  <2>1. PICK u \in Inputs("axis") :
           /\ u.module = m /\ u.port = p /\ Interfaces(m)[p] = Origin("axis", u).net
           /\ Origin("axis", u) \in design.ends /\ Origin("axis", u).role = "master"
    BY <1>2, <1>3, <1>4
  <2>2. u = s
    BY <1>3, <1>4, <2>1
  <2> QED
    BY <1>3, <1>4, <2>1, <2>2
<1> QED
  BY <1>2, <1>3, <1>4

\* What a node drives is an output on the net that it tells of.
LEMMA OutputNet ==
    ASSUME AxisWires, NEW m, Kind(m) \in NodeKinds, NEW p \in OutputNames,
           p \in DOMAIN Interfaces(m)
    PROVE  \E d \in design.ends : /\ d.role = "master" /\ d.module = m /\ d.port = p
                                  /\ d.net = Interfaces(m)[p]
<1>1. PICK e \in graph["axis"] :
         /\ e.net = Interfaces(m)[p]
         /\ (e.master = m /\ e.mport = p) \/ (e.slave = m /\ e.sport = p)
  BY InterfaceEdges
<1>2. PICK s \in Inputs("axis") :
         /\ EndsAt(e, s) /\ StartsAt(e, Origin("axis", s))
         /\ Origin("axis", s) \in design.ends /\ Origin("axis", s).role = "master"
  BY DEF AxisWires
<1>3. s \in design.ends /\ s.role = "slave"
  BY DriverIs
<1>4. ~(e.slave = m /\ e.sport = p)
  BY <1>2, <1>3, Roles DEF EndsAt, AxisWires
<1> QED
  BY <1>1, <1>2, <1>4 DEF StartsAt

\* No two inputs of nodes have one origin.
LEMMA OriginsDiffer ==
    ASSUME AxisWires, OnePerNet(graph["axis"]), NEW s \in Inputs("axis"), NEW u \in Inputs("axis"),
           s.module \notin PassThrough("axis"), u.module \notin PassThrough("axis"),
           Origin("axis", s) = Origin("axis", u)
    PROVE  s = u
<1>1. \A x, y \in Inputs("axis") : x.module = y.module /\ x.port = y.port => x = y
  BY DriverIs, EndsUnique DEF AxisWires
<1>2. ASSUME NEW x \in Inputs("axis"), x.module \notin PassThrough("axis")
      PROVE  \E e \in graph["axis"] : EndsAt(e, x) /\ e.net = Origin("axis", x).net
  <2>1. PICK e \in graph["axis"] : EndsAt(e, x)
    BY <1>2 DEF AxisWires
  <2>2. PICK y \in Inputs("axis") : EndsAt(e, y) /\ StartsAt(e, Origin("axis", y))
    BY DEF AxisWires
  <2>3. x = y
    BY <1>1, <2>1, <2>2 DEF EndsAt
  <2> QED
    BY <2>1, <2>2, <2>3 DEF StartsAt
<1>3. PICK e \in graph["axis"] : EndsAt(e, s) /\ e.net = Origin("axis", s).net
  BY <1>2
<1>4. PICK f \in graph["axis"] : EndsAt(f, u) /\ f.net = Origin("axis", u).net
  BY <1>2
<1>5. e = f
  BY <1>3, <1>4 DEF OnePerNet
<1> QED
  BY <1>1, <1>3, <1>4, <1>5 DEF EndsAt

\* What a reference to a payload is of: an output of a node, on the net of its name.
SourceOk(r, n) ==
    /\ r[1] \in ToMake /\ r[2] \in OutputPorts(r[1]) /\ r[2] \in DOMAIN Interfaces(r[1])
    /\ Interfaces(r[1])[r[2]] = n[1]

\* A node has its payloads, each from the reference of the net at its input.
Taken(m) ==
    /\ \A n \in Range(InputNets(m)) : Resolves(m, n)
    /\ payload[m] = [i \in DOMAIN InputNets(m) |-> refs[<<InputNets(m)[i], "payload">>]]

HasInputs(m) ==
    /\ Range(InputPorts(m)) \subseteq DOMAIN Interfaces(m)
    /\ Kind(m) = "switch" => InputPorts(m) # <<>>

\* The size of a switch is that of the greatest FIFO before it.
SizeOk(m) ==
    /\ Kind(m) = "fifo" => maxSize[m] = design.size[m]
    /\ Kind(m) = "switch" => \A n \in Range(InputNets(m)) :
          maxSize[m] >= design.size[refs[<<n, "payload">>][1]]

GraphsOnce ==
    /\ pc # "refused" => \A type \in Buses : OnePerNet(graph[type])
    /\ pc \notin {"system_graph", "graphs", "refused"} => pending = <<>> /\ collapse = <<>>
NothingYet ==
    pc \in {"system_graph", "graphs", "check", "clocks"} =>
        DOMAIN refs = {} /\ DOMAIN payload = {} /\ DOMAIN maxSize = {}
Telling ==
    pc \in {"nodes", "dependencies", "ready"} =>
        \A n \in DOMAIN refs : n[2] = "payload" => SourceOk(refs[n], n)
Taking ==
    /\ pc = "nodes" =>
          /\ DOMAIN payload = {} /\ Range(todo) \subseteq ToMake
          /\ \A m \in DOMAIN maxSize : Kind(m) = "fifo" /\ maxSize[m] = design.size[m]
          /\ \A m \in ToMake : m \in Range(todo) \/ HasInputs(m)
    /\ pc \in {"dependencies", "ready"} =>
          /\ \A m \in ToMake : HasInputs(m)
          /\ \A m \in DOMAIN payload : Taken(m)
          /\ \A m \in DOMAIN maxSize : SizeOk(m)
          /\ \A m \in ToMake : \/ m \in Range(todo)
                               \/ /\ InputPorts(m) # <<>> => m \in DOMAIN payload
                                  /\ Kind(m) = "switch" => m \in DOMAIN maxSize
    /\ pc = "ready" => todo = <<>>

\* A DMA node that has selected a payload.
Selection ==
    \A d \in Modules : index[d] # 0 =>
        /\ pc = "ready" /\ d \in OfKind("dma") /\ HasSwitch(d)
        /\ index[d] \in DOMAIN payload[Source(d)]
        /\ index[d] <= design.numSlaves[Source(d)] => route[Source(d)] = index[d]

DataInv == GraphsOnce /\ NothingYet /\ Telling /\ Taking /\ Selection

\* What is read from the design and the graphs does not change with them.
LEMMA LookedUp ==
    UNCHANGED <<parserVars, ips>> =>
        /\ ToMake' = ToMake /\ AxisWires' = AxisWires
        /\ \A k : OfKind(k)' = OfKind(k)
        /\ \A m : /\ Kind(m)' = Kind(m) /\ Interfaces(m)' = Interfaces(m)
                  /\ InputPorts(m)' = InputPorts(m) /\ InputNets(m)' = InputNets(m)
                  /\ OutputPorts(m)' = OutputPorts(m) /\ HasInputs(m)' = HasInputs(m)
        /\ \A r, n : SourceOk(r, n)' = SourceOk(r, n)
<1> SUFFICES ASSUME UNCHANGED <<parserVars, ips>>
             PROVE  /\ ToMake' = ToMake /\ AxisWires' = AxisWires
                    /\ \A k : OfKind(k)' = OfKind(k)
                    /\ \A m : /\ Kind(m)' = Kind(m) /\ Interfaces(m)' = Interfaces(m)
                              /\ InputPorts(m)' = InputPorts(m) /\ InputNets(m)' = InputNets(m)
                              /\ OutputPorts(m)' = OutputPorts(m) /\ HasInputs(m)' = HasInputs(m)
                    /\ \A r, n : SourceOk(r, n)' = SourceOk(r, n)
  OBVIOUS
<1>1. design' = design /\ graph' = graph /\ ips' = ips
  BY DEF parserVars
<1>2. \A m : Kind(m)' = Kind(m) /\ Interfaces(m)' = Interfaces(m)
  BY <1>1 DEF Kind, Interfaces
<1>3. \A m : InputPorts(m)' = InputPorts(m) /\ OutputPorts(m)' = OutputPorts(m)
  BY <1>2 DEF InputPorts, OutputPorts
<1>4. \A m : InputNets(m)' = InputNets(m) /\ HasInputs(m)' = HasInputs(m)
  BY <1>2, <1>3 DEF InputNets, HasInputs
<1>5. ToMake' = ToMake /\ \A k : OfKind(k)' = OfKind(k)
  BY <1>1, <1>2 DEF ToMake, OfKind
<1>6. \A r, n : SourceOk(r, n)' = SourceOk(r, n)
  BY <1>2, <1>3, <1>5 DEF SourceOk
<1>7. AxisWires' = AxisWires
  <2>1. \A s : Driver(s)' = Driver(s) /\ (Driven(s)' <=> Driven(s))
    BY <1>1 DEF Driver, Driven
  <2>2. Inputs("axis")' = Inputs("axis") /\ PassThrough("axis")' = PassThrough("axis")
    BY <1>1, <2>1 DEF Inputs, PassThrough
  <2>3. \A s : Origin("axis", s)' = Origin("axis", s)
    BY <1>1 DEF Origin, Driver, Driven, Inputs, PassThrough, Through
  <2> QED
    BY <1>1, <2>2, <2>3 DEF AxisWires
<1> QED
  BY <1>2, <1>3, <1>4, <1>5, <1>6, <1>7

\* A module that passes a bus on is no node.
LEMMA NodesPassNothing == \A m : Kind(m) \in NodeKinds => m \notin PassThrough("axis")
BY DEF PassThrough, NodeKinds, FireqKinds, Kind

\* Where a node takes its data from.
LEMMA InputNamed ==
    ASSUME NEW m, NEW i \in DOMAIN InputPorts(m)
    PROVE  InputPorts(m)[i] \in InputNames
BY InputsListed

\* The reference at an input of a node is of the output that the input is wired to.
LEMMA ReferenceFollows ==
    ASSUME AxisWires, BootInv, Telling, pc \in {"nodes", "dependencies", "ready"},
           NEW m, Kind(m) \in NodeKinds, NEW s \in Inputs("axis"), s.module = m,
           s.port \in InputNames, <<Interfaces(m)[s.port], "payload">> \in DOMAIN refs
    PROVE  refs[<<Interfaces(m)[s.port], "payload">>] = WiredTo(m, s.port)
<1>1. PICK n : n = <<Interfaces(m)[s.port], "payload">>
  OBVIOUS
<1>2. PICK r : r = refs[n]
  OBVIOUS
<1>3. PICK o : o = Origin("axis", s)
  OBVIOUS
<1>4. n[1] = o.net /\ Port(m, s.port) = s /\ o \in design.ends /\ o.role = "master"
  BY <1>1, <1>3, InputNet
<1>5. SourceOk(r, n)
  BY <1>1, <1>2 DEF Telling
<1>6. r = <<r[1], r[2]>>
  <2>1. r \in Outputs
    BY <1>1, <1>2 DEF BootInv, NodeTypes, Range
  <2> QED
    BY <2>1 DEF Outputs
<1>7. r[2] \in OutputNames /\ Kind(r[1]) \in NodeKinds
  BY <1>5 DEF SourceOk, OutputPorts, OutputNames, ToMake
<1>8. PICK d \in design.ends : /\ d.role = "master" /\ d.module = r[1] /\ d.port = r[2]
                               /\ d.net = Interfaces(r[1])[r[2]]
  BY <1>5, <1>7, OutputNet DEF SourceOk
<1>9. d = o
  BY <1>4, <1>5, <1>8 DEF AxisWires, WellConnected, SourceOk
<1>10. WiredTo(m, s.port) = <<o.module, o.port>>
  BY <1>3, <1>4 DEF WiredTo
<1> QED
  BY <1>1, <1>2, <1>6, <1>8, <1>9, <1>10

\* Nothing is selected before the system is up.
LEMMA NotSelected ==
    ASSUME Selection, pc # "ready", UNCHANGED index
    PROVE  Selection'
BY DEF Selection

\* A design that is refused leaves nothing to keep.
LEMMA RefusedData ==
    ASSUME DataInv, pc # "ready", UNCHANGED index, pc' = "refused"
    PROVE  DataInv'
<1>1. Selection'
  BY NotSelected DEF DataInv
<1> QED
  BY <1>1 DEF DataInv, GraphsOnce, NothingYet, Telling, Taking

\* A step of boot that leaves the data as it is.
LEMMA DataStays ==
    ASSUME DataInv, UNCHANGED <<parserVars, ips, todo, nodeVars>>, pc' = pc
    PROVE  GraphsOnce' /\ NothingYet' /\ Telling' /\ Taking'
<1>1. /\ design' = design /\ graph' = graph /\ pending' = pending /\ collapse' = collapse
      /\ refs' = refs /\ payload' = payload /\ maxSize' = maxSize /\ todo' = todo
  BY DEF parserVars, nodeVars
<1>2. GraphsOnce' /\ NothingYet'
  BY <1>1 DEF DataInv, GraphsOnce, NothingYet, OnePerNet
<1>3. Telling'
  BY <1>1, LookedUp DEF DataInv, Telling
<1>4. Taking'
  <2>1. \A m : Taken(m) => Taken(m)'
    <3>1. \A m : InputNets(m)' = InputNets(m)
      BY <1>1, LookedUp
    <3>2. \A m, n : Resolves(m, n) => Resolves(m, n)'
      BY <1>1 DEF Resolves, Kind
    <3>3. SUFFICES ASSUME NEW m, Taken(m) PROVE Taken(m)'
      OBVIOUS
    <3>4. \A n \in Range(InputNets(m)') : Resolves(m, n)'
      BY <3>1, <3>2, <3>3 DEF Taken
    <3>5. payload'[m] = [i \in DOMAIN InputNets(m)' |-> refs'[<<InputNets(m)'[i], "payload">>]]
      BY <1>1, <3>1, <3>3 DEF Taken
    <3> QED
      BY <3>4, <3>5 DEF Taken
  <2>2. \A m : SizeOk(m)' = SizeOk(m)
    BY <1>1, LookedUp DEF SizeOk
  <2> QED
    BY <1>1, <2>1, <2>2, LookedUp DEF DataInv, Taking
<1> QED
  BY <1>2, <1>3, <1>4

\* Leaving a pass-through out keeps one edge on each net.
LEMMA BypassedOnce ==
    ASSUME NEW es \in SUBSET Edges, NEW m, One(Into(es, m)), One(OutOf(es, m)), OnePerNet(es)
    PROVE  OnePerNet(Bypassed(es, m))
<1>1. PICK in \in es, out \in es :
          /\ Into(es, m) = {in} /\ OutOf(es, m) = {out}
          /\ Bypassed(es, m) = {e \in es \cup {Link(in, out)} : m \notin {e.master, e.slave}}
  BY BypassedEdges
<1> DEFINE link == Link(in, out)
           left == Bypassed(es, m)
<1>2. link.net = in.net /\ in.slave = m
  BY <1>1 DEF Link, Edges, Into
<1>3. \A e \in left : (e \in es \/ e = link) /\ e.slave # m
  BY <1>1
<1> HIDE DEF link, left
<1>4. ASSUME NEW e \in left, NEW f \in left, e.net = f.net PROVE e = f
  <2>1. ASSUME NEW x \in left, x \in es PROVE x.net # link.net
    BY <1>2, <1>3, <2>1 DEF OnePerNet
  <2> QED
    BY <1>3, <1>4, <2>1 DEF OnePerNet
<1> QED
  BY <1>4 DEF OnePerNet, left

\* The graphs are created with one edge on each net, and stay so.
LEMMA GraphsData ==
    ASSUME DataInv, BootInv, Wiring, BuildSystemGraph \/ CreateGraph \/ Collapse,
           UNCHANGED <<ips, ratio, todo, nodeVars, runVars>>
    PROVE  DataInv'
<1>1. /\ pc \in {"system_graph", "graphs"} /\ pc' \in {"graphs", "refused"}
      /\ design' = design
  BY DEF BuildSystemGraph, CreateGraph, Collapse, Proceed
<1>2. Selection' /\ NothingYet' /\ Telling' /\ Taking'
  BY <1>1, NotSelected DEF DataInv, NothingYet, Telling, Taking, nodeVars, runVars
<1>3. \A type \in Buses : type \in Range(BusTypes)
  BY DEF Buses, BusTypes, Range
<1>4. graph \in [Range(BusTypes) -> SUBSET Edges]
  BY DEF BootInv, ParserTypes
<1>5. \A type \in Buses : OnePerNet(graph[type])
  BY <1>1 DEF DataInv, GraphsOnce
<1>6. pc' = "graphs" => \A type \in Buses : OnePerNet(graph'[type])
  <2>1. CASE BuildSystemGraph
    BY <1>5, <2>1 DEF BuildSystemGraph
  <2>2. CASE CreateGraph
    <3>1. graph' = [graph EXCEPT ![Head(pending)] = {e \in edges : e.type = Head(pending)}]
      BY <2>2, Zenon DEF CreateGraph
    <3>2. PICK t : t = Head(pending)
      OBVIOUS
    <3>3. PICK es : es = {e \in edges : e.type = t}
      OBVIOUS
    <3>4. graph' = [graph EXCEPT ![t] = es]
      BY <3>1, <3>2, <3>3
    <3>5. WellConnected(design) /\ edges = BusEdges(design) \cup ClockEdges(design)
      BY <2>2 DEF CreateGraph, Proceed, Wiring
    <3>6. ASSUME t \in Buses PROVE OnePerNet(es)
      <4>1. \A e \in es : e \in BusEdges(design)
        BY <3>3, <3>5, <3>6 DEF ClockEdges, Buses
      <4>2. SUFFICES ASSUME NEW e \in es, NEW f \in es, e.net = f.net PROVE e = f
        BY DEF OnePerNet
      <4>3. PICK d \in design.ends, s \in design.ends :
              /\ d.role = "master" /\ s.role = "slave" /\ d.net = s.net
              /\ e = [master |-> d.module, mport |-> d.port, slave |-> s.module, sport |-> s.port,
                      net |-> d.net, type |-> d.type, freq |-> 0]
        BY <4>1 DEF BusEdges
      <4>4. PICK a \in design.ends, b \in design.ends :
              /\ a.role = "master" /\ b.role = "slave" /\ a.net = b.net
              /\ f = [master |-> a.module, mport |-> a.port, slave |-> b.module, sport |-> b.port,
                      net |-> a.net, type |-> a.type, freq |-> 0]
        BY <4>1 DEF BusEdges
      <4>5. a = d /\ b = s
        BY <3>5, <4>2, <4>3, <4>4 DEF WellConnected
      <4> QED
        BY <4>3, <4>4, <4>5
    <3>7. ASSUME NEW type \in Buses PROVE OnePerNet(graph'[type])
      <4>1. CASE type = t
        BY <1>3, <1>4, <3>4, <3>6, <4>1
      <4>2. CASE type # t
        BY <1>3, <1>4, <1>5, <3>4, <4>2
      <4> QED
        BY <4>1, <4>2
    <3> QED
      BY <3>7
  <2>3. CASE Collapse
    <3>1. /\ graph' = [graph EXCEPT ![Head(collapse)[1]] = Bypassed(@, Head(collapse)[2])]
          /\ collapse # <<>> /\ pc = "graphs"
      BY <2>3 DEF Collapse
    <3>2. PICK t, m : t = Head(collapse)[1] /\ m = Head(collapse)[2]
      OBVIOUS
    <3>3. collapse[1] = Head(collapse) /\ 1 \in DOMAIN collapse
      BY <3>1 DEF BootInv, ParserTypes
    <3>4. t \in Range(BusTypes) /\ One(Into(graph[t], m)) /\ One(OutOf(graph[t], m))
      BY <3>1, <3>2, <3>3 DEF BootInv, ParserTypes, Collapsible
    <3>5. graph[t] \in SUBSET Edges
      BY <1>4, <3>4
    <3>6. graph' = [graph EXCEPT ![t] = Bypassed(graph[t], m)]
      BY <3>1, <3>2
    <3>7. ASSUME NEW type \in Buses PROVE OnePerNet(graph'[type])
      <4>1. CASE type = t
        BY <1>4, <1>5, <3>4, <3>5, <3>6, <4>1, BypassedOnce
      <4>2. CASE type # t
        BY <1>3, <1>4, <1>5, <3>6, <4>2
      <4> QED
        BY <4>1, <4>2
    <3> QED
      BY <3>7
  <2> QED
    BY <2>1, <2>2, <2>3
<1>7. GraphsOnce'
  BY <1>1, <1>6 DEF GraphsOnce, OnePerNet
<1> QED
  BY <1>2, <1>7 DEF DataInv

\* The IPs are looked for in graphs that are complete, and nothing is told yet.
LEMMA FindingData ==
    ASSUME DataInv, BootInv, DiscoverIps \/ CheckFireqIps \/ DiscoverClocks
    PROVE  DataInv'
<1>1. /\ UNCHANGED parserVars /\ UNCHANGED <<nodeVars, runVars>>
      /\ pc \in {"graphs", "check", "clocks"}
      /\ pc' \in {"check", "clocks", "nodes", "refused"}
      /\ pc = "graphs" => pending = <<>> /\ collapse = <<>>
  BY DEF DiscoverIps, CheckFireqIps, DiscoverClocks, Proceed
<1>2. /\ DOMAIN refs' = {} /\ DOMAIN payload' = {} /\ DOMAIN maxSize' = {}
  BY <1>1 DEF DataInv, NothingYet, nodeVars
<1>3. Selection' /\ NothingYet' /\ Telling'
  BY <1>1, <1>2, NotSelected DEF DataInv, NothingYet, Telling, runVars
<1>4. GraphsOnce'
  BY <1>1 DEF DataInv, GraphsOnce, OnePerNet, parserVars
<1>5. Taking'
  <2>1. CASE DiscoverIps \/ CheckFireqIps
    BY <2>1 DEF DiscoverIps, CheckFireqIps, Proceed, Taking
  <2>2. CASE DiscoverClocks
    <3>1. /\ todo' = Filtered(ips, {m \in Modules : Kind(m) \in NodeKinds}) /\ ips' = ips
          /\ pc' \in {"nodes", "refused"}
      BY <2>2 DEF DiscoverClocks, Proceed
    <3>2. ToMake' = ToMake
      BY <1>1, <3>1, LookedUp
    <3>3. ips \in Seq(Modules)
      BY DEF BootInv, NodeTypes
    <3>4. Range(todo') = Range(ips) \cap {m \in Modules : Kind(m) \in NodeKinds}
      BY <3>1, <3>3, FilteredElements
    <3>5. Range(ips) \subseteq Modules
      BY <3>3 DEF Range
    <3>6. Range(todo') = ToMake'
      BY <3>2, <3>4, <3>5 DEF ToMake
    <3> QED
      BY <1>2, <3>1, <3>6 DEF Taking
  <2> QED
    BY <2>1, <2>2
<1> QED
  BY <1>3, <1>4, <1>5 DEF DataInv

\* What a constructor tells of a payload is of an output, under the name of its net.
LEMMA ToldPayloads ==
    ASSUME NEW m, NEW n \in DOMAIN NodeRefs(m), n[2] = "payload"
    PROVE  /\ NodeRefs(m)[n][1] = m /\ NodeRefs(m)[n][2] \in OutputPorts(m)
           /\ NodeRefs(m)[n][2] \in DOMAIN Interfaces(m)
           /\ Interfaces(m)[NodeRefs(m)[n][2]] = n[1]
<1> DEFINE ports == OutputPorts(m) \cap DOMAIN Interfaces(m)
           names == {<<Interfaces(m)[p], w>> : p \in ports, w \in Shared(m)}
           Port1(x) == CHOOSE p \in ports : Interfaces(m)[p] = x[1]
           own == [x \in OwnRefs(m) |-> <<m, "self">>]
           shared == [x \in names |-> <<m, Port1(x)>>]
<1>1. NodeRefs(m) = Extended(shared, own)
  BY DEF NodeRefs
<1>2. /\ DOMAIN shared = names /\ \A x \in names : shared[x] = <<m, Port1(x)>>
      /\ DOMAIN own = OwnRefs(m)
  OBVIOUS
<1>3. n \notin OwnRefs(m)
  BY DEF OwnRefs
<1>4. \A x \in names : Port1(x) \in ports /\ Interfaces(m)[Port1(x)] = x[1]
  <2> SUFFICES ASSUME NEW x \in names
               PROVE  Port1(x) \in ports /\ Interfaces(m)[Port1(x)] = x[1]
    OBVIOUS
  <2>1. \E p \in ports : Interfaces(m)[p] = x[1]
    OBVIOUS
  <2> QED
    BY <2>1
<1> HIDE DEF names, Port1, own, shared
<1>5. /\ DOMAIN Extended(shared, own) = DOMAIN shared \cup DOMAIN own
      /\ \A x \in DOMAIN shared : Extended(shared, own)[x] = shared[x]
  BY Zenon, ExtendedHas
<1>6. n \in names /\ NodeRefs(m)[n] = <<m, Port1(n)>>
  BY <1>1, <1>2, <1>3, <1>5
<1> QED
  BY <1>4, <1>6

\* The first element of a list and those after it.
LEMMA HeadAndTail ==
    ASSUME NEW S, NEW s \in Seq(S), s # <<>>
    PROVE  /\ Head(s) \in Range(s) /\ Range(Tail(s)) \subseteq Range(s)
           /\ \A x \in Range(s) : x = Head(s) \/ x \in Range(Tail(s))
<1>1. /\ DOMAIN s = 1 .. Len(s) /\ DOMAIN Tail(s) = 1 .. Len(s) - 1 /\ Head(s) = s[1]
      /\ Len(s) \in Nat /\ 1 \in DOMAIN s
      /\ \A i \in 1 .. Len(s) - 1 : Tail(s)[i] = s[i + 1] /\ i + 1 \in 1 .. Len(s)
  OBVIOUS
<1>2. ASSUME NEW i \in DOMAIN s, i # 1 PROVE i - 1 \in DOMAIN Tail(s) /\ Tail(s)[i - 1] = s[i]
  <2>1. i - 1 \in 1 .. Len(s) - 1 /\ (i - 1) + 1 = i
    BY <1>1, <1>2
  <2> QED
    BY <1>1, <2>1
<1>3. Range(Tail(s)) \subseteq Range(s)
  BY <1>1 DEF Range
<1>4. \A x \in Range(s) : x = Head(s) \/ x \in Range(Tail(s))
  <2> SUFFICES ASSUME NEW x \in Range(s), x # Head(s) PROVE x \in Range(Tail(s))
    OBVIOUS
  <2>1. PICK i \in DOMAIN s : x = s[i]
    BY DEF Range
  <2>2. i # 1
    BY <1>1, <2>1
  <2> QED
    BY <1>2, <2>1, <2>2 DEF Range
<1>5. Head(s) \in Range(s)
  BY <1>1 DEF Range
<1> QED
  BY <1>3, <1>4, <1>5

\* A constructor tells of the outputs of its node, which has the interfaces it needs.
LEMMA InitNodeData == ASSUME DataInv, BootInv, InitNode PROVE DataInv'
<1> DEFINE m == Head(todo)
<1>1. /\ UNCHANGED parserVars /\ UNCHANGED <<ips, payload, runVars>>
      /\ todo # <<>> /\ todo' = Tail(todo)
      /\ refs' = Extended(refs, NodeRefs(m))
      /\ maxSize' = IF Kind(m) = "fifo" THEN Extended(maxSize, [x \in {m} |-> design.size[x]])
                                        ELSE maxSize
      /\ pc = "nodes" /\ pc' \in {"nodes", "refused"}
      /\ pc' = "nodes" =>
            /\ OutputPorts(m) \cup Range(InputPorts(m)) \subseteq DOMAIN Interfaces(m)
            /\ Kind(m) = "switch" => InputPorts(m) # <<>>
  BY DEF InitNode, Proceed
<1>2. CASE pc' = "refused"
  BY <1>1, <1>2, RefusedData DEF runVars
<1>3. CASE pc' = "nodes"
  <2>1. /\ m \in Range(todo) /\ Range(todo') \subseteq Range(todo)
        /\ \A x \in Range(todo) : x = m \/ x \in Range(todo')
    <3>1. todo \in Seq(Modules)
      BY DEF BootInv, NodeTypes
    <3> QED
      BY <1>1, <3>1, HeadAndTail
  <2> HIDE DEF m
  <2>2. m \in ToMake
    BY <1>1, <2>1 DEF DataInv, Taking
  <2>3. UNCHANGED <<parserVars, ips>> /\ design' = design
    BY <1>1 DEF parserVars
  <2>4. Selection' /\ GraphsOnce' /\ NothingYet'
    BY <1>1, <1>3, NotSelected DEF DataInv, GraphsOnce, NothingYet, OnePerNet, parserVars, runVars
  <2>5. Telling'
    <3>1. \A n \in DOMAIN refs : n[2] = "payload" => SourceOk(refs[n], n)
      BY <1>1 DEF DataInv, Telling
    <3>2. \A n \in DOMAIN NodeRefs(m) : n[2] = "payload" => SourceOk(NodeRefs(m)[n], n)
      <4> SUFFICES ASSUME NEW n \in DOMAIN NodeRefs(m), n[2] = "payload"
                   PROVE  SourceOk(NodeRefs(m)[n], n)
        OBVIOUS
      <4> QED
        BY <2>2, ToldPayloads DEF SourceOk
    <3>3. /\ DOMAIN refs' = DOMAIN refs \cup DOMAIN NodeRefs(m)
          /\ \A n \in DOMAIN refs : refs'[n] = refs[n]
          /\ \A n \in DOMAIN NodeRefs(m) : n \notin DOMAIN refs => refs'[n] = NodeRefs(m)[n]
      <4>1. /\ DOMAIN Extended(refs, NodeRefs(m)) = DOMAIN refs \cup DOMAIN NodeRefs(m)
            /\ \A n \in DOMAIN refs : Extended(refs, NodeRefs(m))[n] = refs[n]
            /\ \A n \in DOMAIN NodeRefs(m) :
                  n \notin DOMAIN refs => Extended(refs, NodeRefs(m))[n] = NodeRefs(m)[n]
        BY Zenon, ExtendedHas
      <4> QED
        BY <1>1, <4>1
    <3>4. \A n \in DOMAIN refs' : n[2] = "payload" => SourceOk(refs'[n], n)
      BY <3>1, <3>2, <3>3
    <3>5. \A r, n : SourceOk(r, n)' = SourceOk(r, n)
      BY <2>3, LookedUp
    <3> QED
      BY <3>4, <3>5 DEF Telling
  <2>6. Taking'
    <3>1. DOMAIN payload' = {} /\ Range(todo') \subseteq ToMake
      BY <1>1, <2>1 DEF DataInv, Taking
    <3>2. \A x \in DOMAIN maxSize' : Kind(x) = "fifo" /\ maxSize'[x] = design.size[x]
      <4>1. \A x \in DOMAIN maxSize : Kind(x) = "fifo" /\ maxSize[x] = design.size[x]
        BY <1>1 DEF DataInv, Taking
      <4>2. CASE Kind(m) # "fifo"
        BY <1>1, <4>1, <4>2
      <4>3. CASE Kind(m) = "fifo"
        <5> DEFINE g == [x \in {m} |-> design.size[x]]
        <5>1. DOMAIN g = {m} /\ g[m] = design.size[m] /\ maxSize' = Extended(maxSize, g)
          BY <1>1, <4>3
        <5> HIDE DEF g
        <5>2. /\ DOMAIN Extended(maxSize, g) = DOMAIN maxSize \cup DOMAIN g
              /\ \A x \in DOMAIN maxSize : Extended(maxSize, g)[x] = maxSize[x]
              /\ \A x \in DOMAIN g : x \notin DOMAIN maxSize => Extended(maxSize, g)[x] = g[x]
          BY Zenon, ExtendedHas
        <5> QED
          BY <4>1, <4>3, <5>1, <5>2
      <4> QED
        BY <4>2, <4>3
    <3>3. \A x \in ToMake : x \in Range(todo') \/ HasInputs(x)
      <4>1. HasInputs(m)
        BY <1>1, <1>3 DEF HasInputs
      <4> QED
        BY <1>1, <2>1, <4>1 DEF DataInv, Taking
    <3>4. /\ ToMake' = ToMake /\ \A x : HasInputs(x)' = HasInputs(x)
          /\ \A x : Kind(x)' = Kind(x)
      BY <2>3, LookedUp
    <3> QED
      BY <1>3, <2>3, <3>1, <3>2, <3>3, <3>4 DEF Taking
  <2> QED
    BY <2>4, <2>5, <2>6 DEF DataInv
<1> QED
  BY <1>1, <1>2, <1>3

\* By then every node has its interfaces, and is asked to look for its payloads.
LEMMA InitRootData == ASSUME DataInv, BootInv, InitRoot PROVE DataInv'
<1> DEFINE root == <<"system", "hw_shots">>
           own == [n \in {root} |-> <<"system", "self">>]
<1>1. /\ UNCHANGED parserVars /\ UNCHANGED <<ips, payload, maxSize, runVars>>
      /\ todo = <<>> /\ todo' = Filtered(ips, {m \in Modules : Kind(m) \in NodeKinds})
      /\ refs' = Extended(refs, own)
      /\ pc = "nodes" /\ pc' = "dependencies"
  BY DEF InitRoot, Proceed
<1>2. DOMAIN own = {root} /\ root[2] # "payload"
  OBVIOUS
<1> HIDE DEF root, own
<1>3. UNCHANGED <<parserVars, ips>> /\ design' = design
  BY <1>1 DEF parserVars
<1>4. Range(todo') = ToMake
  <2>1. ips \in Seq(Modules)
    BY DEF BootInv, NodeTypes
  <2>2. Range(todo') = Range(ips) \cap {m \in Modules : Kind(m) \in NodeKinds}
    BY <1>1, <2>1, FilteredElements
  <2>3. Range(ips) \subseteq Modules
    BY <2>1 DEF Range
  <2> QED
    BY <2>2, <2>3 DEF ToMake
<1>5. Selection' /\ GraphsOnce' /\ NothingYet'
  BY <1>1, NotSelected DEF DataInv, GraphsOnce, NothingYet, OnePerNet, parserVars, runVars
<1>6. Telling'
  <2>1. \A n \in DOMAIN refs : n[2] = "payload" => SourceOk(refs[n], n)
    BY <1>1 DEF DataInv, Telling
  <2>2. /\ DOMAIN refs' = DOMAIN refs \cup {root}
        /\ \A n \in DOMAIN refs : refs'[n] = refs[n]
    <3>1. /\ DOMAIN Extended(refs, own) = DOMAIN refs \cup DOMAIN own
          /\ \A n \in DOMAIN refs : Extended(refs, own)[n] = refs[n]
      BY Zenon, ExtendedHas
    <3> QED
      BY <1>1, <1>2, <3>1
  <2>3. \A r, n : SourceOk(r, n)' = SourceOk(r, n)
    BY <1>3, LookedUp
  <2> QED
    BY <1>2, <2>1, <2>2, <2>3 DEF Telling
<1>7. Taking'
  <2>1. \A x \in ToMake : HasInputs(x)
    BY <1>1 DEF DataInv, Taking, Range
  <2>2. /\ DOMAIN payload' = {}
        /\ \A x \in DOMAIN maxSize' : Kind(x) = "fifo" /\ maxSize'[x] = design.size[x]
    BY <1>1 DEF DataInv, Taking
  <2>3. /\ ToMake' = ToMake /\ \A x : HasInputs(x)' = HasInputs(x)
        /\ \A x : Kind(x)' = Kind(x)
    BY <1>3, LookedUp
  <2>4. \A x \in DOMAIN maxSize' : SizeOk(x)'
    BY <1>3, <2>2, <2>3 DEF SizeOk
  <2> QED
    BY <1>1, <1>4, <2>1, <2>2, <2>3, <2>4 DEF Taking
<1> QED
  BY <1>5, <1>6, <1>7 DEF DataInv

\* The nodes that have found their payloads are those the loop has left behind.
LEMMA BuildDependenciesData == ASSUME DataInv, BootInv, BuildDependencies PROVE DataInv'
<1> DEFINE m == Head(todo)
           nets == InputNets(m)
           resolved == /\ CanDepend(NodeDependencies(m))
                       /\ \A n \in Range(nets) : Resolves(m, n)
           payloads == [i \in DOMAIN nets |-> refs[<<nets[i], "payload">>]]
           sizes == {maxSize[refs[<<n, "max_payload_size">>][1]] : n \in Range(nets)}
<1>1. /\ UNCHANGED parserVars /\ UNCHANGED <<ips, refs, runVars>>
      /\ todo # <<>> /\ todo' = Tail(todo)
      /\ pc = "dependencies" /\ pc' = IF resolved THEN "dependencies" ELSE "refused"
      /\ payload' = IF ~resolved \/ nets = <<>> THEN payload
                    ELSE Extended(payload, [x \in {m} |-> payloads])
      /\ maxSize' = IF ~resolved \/ Kind(m) # "switch" THEN maxSize
                    ELSE Extended(maxSize, [x \in {m} |-> Max(sizes)])
  BY Zenon DEF BuildDependencies, Proceed
<1>2. CASE ~resolved
  BY <1>1, <1>2, RefusedData DEF runVars
<1>3. CASE resolved
  <2>1. m \in Range(todo) /\ \A x \in Range(todo) : x = m \/ x \in Range(todo')
    <3>1. todo \in Seq(Modules)
      BY DEF BootInv, NodeTypes
    <3> HIDE DEF nets, resolved, payloads, sizes
    <3> QED
      BY <1>1, <3>1, HeadAndTail
  <2>2. /\ \A n \in Range(nets) : Resolves(m, n)
        /\ nets = InputNets(m) /\ DOMAIN nets = DOMAIN InputPorts(m)
        /\ pc' = "dependencies"
    BY <1>1, <1>3 DEF InputNets
  <2>3. payload' = IF nets = <<>> THEN payload ELSE Extended(payload, [x \in {m} |-> payloads])
    BY <1>1, <1>3
  <2>4. maxSize' = IF Kind(m) # "switch" THEN maxSize
                   ELSE Extended(maxSize, [x \in {m} |-> Max(sizes)])
    BY <1>1, <1>3
  <2>5. payloads = [i \in DOMAIN InputNets(m) |-> refs[<<InputNets(m)[i], "payload">>]]
    OBVIOUS
  <2>6. sizes = {maxSize[refs[<<n, "max_payload_size">>][1]] : n \in Range(InputNets(m))}
    OBVIOUS
  <2> HIDE DEF m, nets, resolved, payloads, sizes
  <2>7. m \in ToMake /\ HasInputs(m)
    BY <1>1, <2>1 DEF DataInv, Taking, BootInv, Making
  <2>8. /\ DOMAIN nets = 1 .. Len(InputPorts(m)) /\ Len(InputPorts(m)) \in Nat
        /\ InputPorts(m) = <<>> <=> Len(InputPorts(m)) = 0
        /\ nets = <<>> => InputPorts(m) = <<>>
    <3>1. InputPorts(m) \in Seq(InputNames)
      BY InputsListed
    <3> QED
      BY <2>2, <3>1
  <2>9. /\ DOMAIN payload \subseteq DOMAIN payload'
        /\ \A x \in DOMAIN payload : payload'[x] = payload[x]
        /\ \A x \in DOMAIN payload' : x \in DOMAIN payload \/ (x = m /\ payload'[x] = payloads)
        /\ InputPorts(m) # <<>> => m \in DOMAIN payload'
    <3>1. CASE nets = <<>>
      BY <2>3, <2>8, <3>1
    <3>2. CASE nets # <<>>
      <4> DEFINE g == [x \in {m} |-> payloads]
      <4>1. payload' = Extended(payload, g) /\ DOMAIN g = {m} /\ g[m] = payloads
        BY <2>3, <3>2
      <4> HIDE DEF g
      <4>2. /\ DOMAIN Extended(payload, g) = DOMAIN payload \cup DOMAIN g
            /\ \A x \in DOMAIN payload : Extended(payload, g)[x] = payload[x]
            /\ \A x \in DOMAIN g : x \notin DOMAIN payload => Extended(payload, g)[x] = g[x]
        BY Zenon, ExtendedHas
      <4> QED
        BY <4>1, <4>2
    <3> QED
      BY <3>1, <3>2
  <2>10. /\ DOMAIN maxSize \subseteq DOMAIN maxSize'
         /\ \A x \in DOMAIN maxSize : maxSize'[x] = maxSize[x]
         /\ \A x \in DOMAIN maxSize' : \/ x \in DOMAIN maxSize
                                       \/ x = m /\ Kind(m) = "switch" /\ maxSize'[x] = Max(sizes)
         /\ Kind(m) = "switch" => m \in DOMAIN maxSize'
    <3>1. CASE Kind(m) # "switch"
      BY <2>4, <3>1
    <3>2. CASE Kind(m) = "switch"
      <4> DEFINE g == [x \in {m} |-> Max(sizes)]
      <4>1. maxSize' = Extended(maxSize, g) /\ DOMAIN g = {m} /\ g[m] = Max(sizes)
        BY <2>4, <3>2
      <4> HIDE DEF g
      <4>2. /\ DOMAIN Extended(maxSize, g) = DOMAIN maxSize \cup DOMAIN g
            /\ \A x \in DOMAIN maxSize : Extended(maxSize, g)[x] = maxSize[x]
            /\ \A x \in DOMAIN g : x \notin DOMAIN maxSize => Extended(maxSize, g)[x] = g[x]
        BY Zenon, ExtendedHas
      <4> QED
        BY <3>2, <4>1, <4>2
    <3> QED
      BY <3>1, <3>2
  <2>11. ASSUME Kind(m) = "switch", NEW n \in Range(nets)
         PROVE  Max(sizes) >= design.size[refs[<<n, "payload">>][1]]
    <3> DEFINE size == [i \in DOMAIN nets |-> maxSize[refs[<<nets[i], "max_payload_size">>][1]]]
    <3>1. ASSUME NEW i \in DOMAIN nets
          PROVE  /\ maxSize[refs[<<nets[i], "max_payload_size">>][1]] \in Nat
                 /\ maxSize[refs[<<nets[i], "max_payload_size">>][1]]
                       = design.size[refs[<<nets[i], "payload">>][1]]
      <4> DEFINE told == <<nets[i], "max_payload_size">>
                 carried == <<nets[i], "payload">>
      <4>1. Resolves(m, nets[i])
        BY <2>2 DEF Range
      <4>2. told \in DOMAIN refs /\ Kind(refs[carried][1]) # "switch"
        BY <2>11, <4>1 DEF Resolves
      <4>3. Sized(refs, maxSize) /\ told[1] = nets[i] /\ told[2] = "max_payload_size"
        BY <1>1 DEF BootInv, References
      <4>4. /\ refs[carried] = refs[told] /\ Kind(refs[told][1]) \in {"fifo", "switch"}
            /\ Kind(refs[told][1]) = "fifo" => refs[told][1] \in DOMAIN maxSize
        BY <4>2, <4>3 DEF Sized
      <4> HIDE DEF told, carried
      <4>5. refs[told][1] \in DOMAIN maxSize /\ Kind(refs[told][1]) = "fifo"
        BY <4>2, <4>4
      <4>6. maxSize[refs[told][1]] = design.size[refs[told][1]]
        BY <1>1, <4>5 DEF DataInv, Taking, SizeOk
      <4>7. maxSize[refs[told][1]] \in Nat
        BY <4>5 DEF BootInv, NodeTypes, Range
      <4> QED
        BY <4>4, <4>6, <4>7 DEF told, carried
    <3>2. PICK i \in DOMAIN nets : n = nets[i]
      BY DEF Range
    <3>3. Len(InputPorts(m)) \in Nat \ {0}
      BY <2>8, <3>2
    <3>4. size \in [1 .. Len(InputPorts(m)) -> Nat]
      BY <2>8, <3>1
    <3>5. sizes = {size[j] : j \in 1 .. Len(InputPorts(m))}
      BY <2>2, <2>6, <2>8 DEF Range
    <3>6. size[i] = design.size[refs[<<n, "payload">>][1]] /\ i \in 1 .. Len(InputPorts(m))
      BY <2>8, <3>1, <3>2
    <3> HIDE DEF size
    <3>7. \A j \in 1 .. Len(InputPorts(m)) : Max(sizes) >= size[j]
      BY <3>3, <3>4, <3>5, Greatest
    <3> QED
      BY <3>6, <3>7
  <2>12. UNCHANGED <<parserVars, ips>> /\ design' = design /\ refs' = refs
    BY <1>1 DEF parserVars
  <2>13. Selection' /\ GraphsOnce' /\ NothingYet'
    BY <1>1, <2>2, NotSelected
       DEF DataInv, GraphsOnce, NothingYet, OnePerNet, parserVars, runVars
  <2>14. Telling'
    BY <1>1, <2>2, <2>12, LookedUp DEF DataInv, Telling
  <2>15. /\ ToMake' = ToMake
         /\ \A x : /\ InputNets(x)' = InputNets(x) /\ InputPorts(x)' = InputPorts(x)
                   /\ HasInputs(x)' = HasInputs(x) /\ Kind(x)' = Kind(x)
         /\ \A x, n : Resolves(x, n) => Resolves(x, n)'
    <3>1. \A x, n : Resolves(x, n) => Resolves(x, n)'
      BY <2>12 DEF Resolves, Kind
    <3> QED
      BY <2>12, <3>1, LookedUp
  <2>16. Taking'
    <3>1. \A x \in ToMake : HasInputs(x)
      BY <1>1 DEF DataInv, Taking
    <3>2. ASSUME NEW x \in DOMAIN payload' PROVE Taken(x)'
      <4>1. /\ \A n \in Range(InputNets(x)) : Resolves(x, n)
            /\ payload'[x] = [i \in DOMAIN InputNets(x) |-> refs[<<InputNets(x)[i], "payload">>]]
        <5>1. CASE x \in DOMAIN payload
          BY <1>1, <2>9, <5>1 DEF DataInv, Taking, Taken
        <5>2. CASE x = m /\ payload'[x] = payloads
          BY <2>2, <2>5, <5>2
        <5> QED
          BY <2>9, <5>1, <5>2
      <4>2. \A n \in Range(InputNets(x)') : Resolves(x, n)'
        BY <2>15, <4>1
      <4>3. payload'[x] = [i \in DOMAIN InputNets(x)' |-> refs'[<<InputNets(x)'[i], "payload">>]]
        BY <2>12, <2>15, <4>1
      <4> QED
        BY <4>2, <4>3 DEF Taken
    <3>3. ASSUME NEW x \in DOMAIN maxSize' PROVE SizeOk(x)'
      <4>1. /\ Kind(x) = "fifo" => maxSize'[x] = design.size[x]
            /\ Kind(x) = "switch" => \A n \in Range(InputNets(x)) :
                  maxSize'[x] >= design.size[refs[<<n, "payload">>][1]]
        <5>1. CASE x \in DOMAIN maxSize
          BY <1>1, <2>10, <5>1 DEF DataInv, Taking, SizeOk
        <5>2. CASE x = m /\ Kind(m) = "switch" /\ maxSize'[x] = Max(sizes)
          BY <2>2, <2>11, <5>2
        <5> QED
          BY <2>10, <5>1, <5>2
      <4> QED
        BY <2>12, <2>15, <4>1 DEF SizeOk
    <3>4. ASSUME NEW x \in ToMake
          PROVE  \/ x \in Range(todo')
                 \/ /\ InputPorts(x) # <<>> => x \in DOMAIN payload'
                    /\ Kind(x) = "switch" => x \in DOMAIN maxSize'
      BY <1>1, <2>1, <2>9, <2>10 DEF DataInv, Taking
    <3> QED
      BY <2>2, <2>15, <3>1, <3>2, <3>3, <3>4 DEF Taking
  <2> QED
    BY <2>13, <2>14, <2>16 DEF DataInv
<1> QED
  BY <1>2, <1>3

\* When the loop is done, every node has its payloads.
LEMMA BuildRootDependenciesData == ASSUME DataInv, BuildRootDependencies PROVE DataInv'
<1>1. /\ UNCHANGED parserVars /\ UNCHANGED <<ips, todo, refs, payload, maxSize, runVars>>
      /\ pc = "dependencies" /\ pc' \in {"ready", "refused"} /\ todo = <<>>
  BY DEF BuildRootDependencies, Proceed
<1>2. CASE pc' = "refused"
  BY <1>1, <1>2, RefusedData DEF runVars
<1>3. CASE pc' = "ready"
  <2>1. Selection' /\ GraphsOnce' /\ NothingYet'
    BY <1>1, <1>3, NotSelected DEF DataInv, GraphsOnce, NothingYet, OnePerNet, parserVars, runVars
  <2>2. UNCHANGED <<parserVars, ips>> /\ design' = design /\ refs' = refs
    BY <1>1 DEF parserVars
  <2>3. Telling'
    BY <1>1, <1>3, <2>2, LookedUp DEF DataInv, Telling
  <2>4. Taking'
    <3>1. \A x, n : Resolves(x, n) => Resolves(x, n)'
      BY <2>2 DEF Resolves, Kind
    <3>2. /\ ToMake' = ToMake
          /\ \A x : /\ InputNets(x)' = InputNets(x) /\ InputPorts(x)' = InputPorts(x)
                    /\ HasInputs(x)' = HasInputs(x) /\ Kind(x)' = Kind(x)
      BY <2>2, LookedUp
    <3>3. \A x \in DOMAIN payload : Taken(x)'
      <4> SUFFICES ASSUME NEW x \in DOMAIN payload PROVE Taken(x)'
        OBVIOUS
      <4>1. Taken(x)
        BY <1>1 DEF DataInv, Taking
      <4>2. \A n \in Range(InputNets(x)') : Resolves(x, n)'
        BY <3>1, <3>2, <4>1 DEF Taken
      <4>3. payload'[x] = [i \in DOMAIN InputNets(x)' |-> refs'[<<InputNets(x)'[i], "payload">>]]
        BY <1>1, <2>2, <3>2, <4>1 DEF Taken
      <4> QED
        BY <4>2, <4>3 DEF Taken
    <3>4. \A x \in DOMAIN maxSize : SizeOk(x)'
      BY <1>1, <2>2, <3>2 DEF DataInv, Taking, SizeOk
    <3> QED
      BY <1>1, <1>3, <3>2, <3>3, <3>4 DEF DataInv, Taking
  <2> QED
    BY <2>1, <2>3, <2>4 DEF DataInv
<1> QED
  BY <1>1, <1>2, <1>3

\* What is left of a sequence rests on which of its elements the set has.
LEMMA FilteredAgree ==
    ASSUME NEW S, NEW s \in Seq(S), NEW A, NEW B, \A x \in Range(s) : x \in A <=> x \in B
    PROVE  Filtered(s, A) = Filtered(s, B)
<1>1. PICK f : /\ Filtered(s, A) = f[Len(s)] /\ f[0] = <<>>
               /\ \A i \in 1 .. Len(s) : f[i] = Grown(f[i - 1], s[i], A)
  BY FilteredSteps
<1>2. PICK g : /\ Filtered(s, B) = g[Len(s)] /\ g[0] = <<>>
               /\ \A i \in 1 .. Len(s) : g[i] = Grown(g[i - 1], s[i], B)
  BY FilteredSteps
<1> DEFINE T == {k \in Nat : k <= Len(s) => f[k] = g[k]}
<1>3. 0 \in T /\ T \subseteq Nat
  BY <1>1, <1>2
<1>4. ASSUME NEW k \in T PROVE k + 1 \in T
  <2> SUFFICES ASSUME k + 1 <= Len(s) PROVE f[k + 1] = g[k + 1]
    OBVIOUS
  <2>1. k + 1 \in 1 .. Len(s) /\ (k + 1) - 1 = k /\ f[k] = g[k] /\ s[k + 1] \in Range(s)
    BY DEF Range
  <2> HIDE DEF T
  <2>2. f[k + 1] = Grown(f[k], s[k + 1], A) /\ g[k + 1] = Grown(g[k], s[k + 1], B)
    BY <1>1, <1>2, <2>1
  <2> QED
    BY <2>1, <2>2 DEF Grown
<1> HIDE DEF T
<1>5. T = Nat
  BY <1>3, <1>4, SetInduction
<1>6. Len(s) \in T /\ Len(s) <= Len(s)
  BY <1>5
<1> QED
  BY <1>1, <1>2, <1>6 DEF T

\* What is left of a sequence has moved to the front: the n-th element that is left was the
\* n-th or a later one, and the n-th exactly if all of the first n are left.
LEMMA FilteredPlaces ==
    ASSUME NEW S, NEW s \in Seq(S), NEW D, NEW q, q = Filtered(s, D), NEW n \in DOMAIN q
    PROVE  /\ n \in DOMAIN s
           /\ \E m \in DOMAIN s : /\ n <= m /\ q[n] = s[m]
                                  /\ m = n <=> \A j \in 1 .. n : s[j] \in D
<1>1. PICK f : /\ Filtered(s, D) = f[Len(s)] /\ f[0] = <<>>
               /\ \A i \in 1 .. Len(s) : f[i] = Grown(f[i - 1], s[i], D)
  BY FilteredSteps
<1> DEFINE All(k) == \A j \in 1 .. k : s[j] \in D
           Moved(k) ==
              /\ f[k] \in Seq(S) /\ Len(f[k]) <= k
              /\ Len(f[k]) = k => All(k)
              /\ Len(f[k]) < k => ~All(Len(f[k]) + 1)
              /\ \A i \in 1 .. Len(f[k]) :
                    \E m \in 1 .. k : i <= m /\ f[k][i] = s[m] /\ (m = i <=> All(i))
           T == {k \in Nat : k <= Len(s) => Moved(k)}
<1>2. Moved(0)
  <2>1. <<>> \in Seq(S) /\ Len(<<>>) = 0 /\ (\A i \in 1 .. 0 : FALSE) /\ ~(0 < 0)
    OBVIOUS
  <2> QED
    BY <1>1, <2>1
<1>3. ASSUME NEW k \in Nat, k + 1 <= Len(s), Moved(k) PROVE Moved(k + 1)
  <2>1. k + 1 \in 1 .. Len(s) /\ (k + 1) - 1 = k
    <3> HIDE DEF Moved
    <3> QED
      BY <1>3
  <2>2. f[k + 1] = Grown(f[k], s[k + 1], D) /\ s[k + 1] \in S
    BY <1>1, <2>1
  <2>3. All(k + 1) <=> All(k) /\ s[k + 1] \in D
    <3>1. \A j \in 1 .. k + 1 : j \in 1 .. k \/ j = k + 1
      OBVIOUS
    <3>2. \A j \in 1 .. k : j \in 1 .. k + 1
      OBVIOUS
    <3> QED
      BY <3>1, <3>2
  <2>4. /\ f[k] \in Seq(S) /\ Len(f[k]) \in Nat /\ Len(f[k]) <= k
        /\ Len(f[k]) = k => All(k)
        /\ Len(f[k]) < k => ~All(Len(f[k]) + 1)
        /\ \A i \in 1 .. Len(f[k]) :
              \E m \in 1 .. k : i <= m /\ f[k][i] = s[m] /\ (m = i <=> All(i))
    BY <1>3
  <2> HIDE DEF All
  <2>5. CASE s[k + 1] \notin D
    <3>1. f[k + 1] = f[k]
      BY <2>2, <2>5 DEF Grown
    <3>2. Len(f[k + 1]) < k + 1 /\ (Len(f[k]) = k => ~All(Len(f[k]) + 1))
      BY <2>3, <2>4, <2>5, <3>1
    <3>3. \A m \in 1 .. k : m \in 1 .. k + 1
      OBVIOUS
    <3> QED
      BY <2>4, <3>1, <3>2, <3>3
  <2>6. CASE s[k + 1] \in D
    <3>1. f[k + 1] = Append(f[k], s[k + 1])
      BY <2>2, <2>6 DEF Grown
    <3>2. /\ f[k + 1] \in Seq(S) /\ Len(f[k + 1]) = Len(f[k]) + 1
          /\ \A i \in 1 .. Len(f[k]) : f[k + 1][i] = f[k][i]
          /\ f[k + 1][Len(f[k]) + 1] = s[k + 1]
      BY <2>2, <2>4, <3>1
    <3>3. Len(f[k]) = k => All(k + 1)
      BY <2>3, <2>4, <2>6
    <3>4. /\ Len(f[k + 1]) <= k + 1
          /\ Len(f[k + 1]) = k + 1 => All(k + 1)
      BY <2>4, <3>2, <3>3
    <3>5. Len(f[k + 1]) < k + 1 => ~All(Len(f[k + 1]) + 1)
      <4> SUFFICES ASSUME Len(f[k + 1]) < k + 1, All(Len(f[k + 1]) + 1) PROVE FALSE
        OBVIOUS
      <4>1. Len(f[k]) < k
        BY <2>4, <3>2
      <4>2. All(Len(f[k]) + 1)
        <5>1. \A j \in 1 .. Len(f[k]) + 1 : j \in 1 .. Len(f[k + 1]) + 1
          BY <2>4, <3>2
        <5> QED
          BY <5>1 DEF All
      <4> QED
        BY <2>4, <4>1, <4>2
    <3>6. ASSUME NEW i \in 1 .. Len(f[k + 1])
          PROVE  \E m \in 1 .. k + 1 : i <= m /\ f[k + 1][i] = s[m] /\ (m = i <=> All(i))
      <4>1. CASE i \in 1 .. Len(f[k])
        <5>1. PICK m \in 1 .. k : i <= m /\ f[k][i] = s[m] /\ (m = i <=> All(i))
          BY <2>4, <4>1
        <5> QED
          BY <3>2, <4>1, <5>1
      <4>2. CASE i = Len(f[k]) + 1
        <5>1. k + 1 \in 1 .. k + 1 /\ i <= k + 1 /\ f[k + 1][i] = s[k + 1]
          BY <2>4, <3>2, <4>2
        <5>2. k + 1 = i <=> All(i)
          <6>1. CASE Len(f[k]) = k
            BY <3>3, <4>2, <6>1
          <6>2. CASE Len(f[k]) < k
            BY <2>4, <4>2, <6>2
          <6> QED
            BY <2>4, <6>1, <6>2
        <5> QED
          BY <5>1, <5>2
      <4> QED
        BY <2>4, <3>2, <4>1, <4>2
    <3> QED
      BY <3>2, <3>4, <3>5, <3>6
  <2> QED
    BY <2>5, <2>6
<1> HIDE DEF Moved
<1>4. T = Nat
  <2>1. 0 \in T /\ T \subseteq Nat
    BY <1>2
  <2>2. ASSUME NEW k \in T PROVE k + 1 \in T
    <3>1. k \in Nat /\ (k + 1 <= Len(s) => k <= Len(s))
      OBVIOUS
    <3> QED
      BY <1>3, <3>1
  <2> HIDE DEF T
  <2> QED
    BY <2>1, <2>2, SetInduction
<1> HIDE DEF T
<1>5. Moved(Len(s)) /\ Len(s) \in Nat
  <2>1. Len(s) \in T /\ Len(s) <= Len(s)
    BY <1>4
  <2> QED
    BY <2>1 DEF T
<1>6. q = f[Len(s)]
  BY <1>1
<1>7. /\ q \in Seq(S) /\ Len(q) <= Len(s)
      /\ \A i \in 1 .. Len(q) :
            \E m \in 1 .. Len(s) : i <= m /\ q[i] = s[m] /\ (m = i <=> All(i))
  BY <1>5, <1>6 DEF Moved
<1>8. n \in 1 .. Len(q) /\ n \in 1 .. Len(s) /\ DOMAIN s = 1 .. Len(s)
  BY <1>5, <1>7
<1> QED
  BY <1>7, <1>8

\* The payloads of a node that is up are those of the outputs its inputs are wired to.
LEMMA NodePayload ==
    ASSUME AxisWires, BootInv, DataInv, pc = "ready", NEW m \in ToMake, InputPorts(m) # <<>>
    PROVE  /\ Taken(m)
           /\ payload[m] = [i \in DOMAIN InputPorts(m) |-> WiredTo(m, InputPorts(m)[i])]
           /\ \A i \in DOMAIN InputPorts(m) :
                 /\ SourceOk(payload[m][i], <<InputNets(m)[i], "payload">>)
                 /\ payload[m][i] = refs[<<InputNets(m)[i], "payload">>]
                 /\ \E s \in Inputs("axis") :
                       /\ s.module = m /\ s.port = InputPorts(m)[i]
                       /\ payload[m][i] = <<Origin("axis", s).module, Origin("axis", s).port>>
                 /\ Kind(m) \in {"switch", "dma"} =>
                       /\ Kind(payload[m][i][1]) \in {"fifo", "switch"}
                       /\ Kind(payload[m][i][1]) = "fifo" => payload[m][i][1] \in DOMAIN maxSize
<1>1. /\ Taken(m) /\ HasInputs(m)
      /\ \A n \in DOMAIN refs : n[2] = "payload" => SourceOk(refs[n], n)
  <2>1. todo = <<>> /\ Range(<<>>) = {}
    BY DEF DataInv, Taking, Range
  <2> QED
    BY <2>1 DEF DataInv, Taking, Telling
<1>2. Kind(m) \in NodeKinds
  BY DEF ToMake
<1>3. DOMAIN InputNets(m) = DOMAIN InputPorts(m)
  BY DEF InputNets
<1>4. ASSUME NEW i \in DOMAIN InputPorts(m)
      PROVE  /\ payload[m][i] = WiredTo(m, InputPorts(m)[i])
             /\ SourceOk(payload[m][i], <<InputNets(m)[i], "payload">>)
             /\ payload[m][i] = refs[<<InputNets(m)[i], "payload">>]
             /\ \E s \in Inputs("axis") :
                   /\ s.module = m /\ s.port = InputPorts(m)[i]
                   /\ payload[m][i] = <<Origin("axis", s).module, Origin("axis", s).port>>
             /\ Kind(m) \in {"switch", "dma"} =>
                   /\ Kind(payload[m][i][1]) \in {"fifo", "switch"}
                   /\ Kind(payload[m][i][1]) = "fifo" => payload[m][i][1] \in DOMAIN maxSize
  <2>1. PICK p : p = InputPorts(m)[i]
    OBVIOUS
  <2>2. PICK net : net = Interfaces(m)[p]
    OBVIOUS
  <2>3. net = InputNets(m)[i] /\ net \in Range(InputNets(m))
    BY <1>3, <2>1, <2>2 DEF InputNets, Range
  <2>4. p \in InputNames /\ p \in DOMAIN Interfaces(m)
    <3>1. p \in InputNames
      BY <2>1, InputNamed
    <3>2. p \in Range(InputPorts(m))
      BY <2>1 DEF Range
    <3> QED
      BY <1>1, <3>1, <3>2 DEF HasInputs
  <2>5. PICK s \in Inputs("axis") : s.module = m /\ s.port = p
    BY <1>2, <2>4, InputNet
  <2>6. Resolves(m, net)
    BY <1>1, <2>3 DEF Taken
  <2>7. PICK n : n = <<net, "payload">>
    OBVIOUS
  <2>8. n \in DOMAIN refs /\ n[2] = "payload"
    BY <2>6, <2>7 DEF Resolves
  <2>9. refs[n] = WiredTo(m, p)
    BY <1>2, <2>2, <2>4, <2>5, <2>7, <2>8, ReferenceFollows DEF DataInv
  <2>10. payload[m][i] = refs[n]
    BY <1>1, <1>3, <2>3, <2>7 DEF Taken
  <2>11. SourceOk(refs[n], n)
    BY <1>1, <2>8
  <2>12. WiredTo(m, p) = <<Origin("axis", s).module, Origin("axis", s).port>>
    <3>1. Port(m, p) = s
      BY <1>2, <2>4, <2>5, InputNet
    <3> QED
      BY <3>1 DEF WiredTo
  <2>13. ASSUME Kind(m) \in {"switch", "dma"}
         PROVE  /\ Kind(refs[n][1]) \in {"fifo", "switch"}
                /\ Kind(refs[n][1]) = "fifo" => refs[n][1] \in DOMAIN maxSize
    <3>1. PICK told : told = <<net, "max_payload_size">>
      OBVIOUS
    <3>2. told \in DOMAIN refs /\ told[1] = net /\ told[2] = "max_payload_size"
      BY <2>6, <2>13, <3>1 DEF Resolves
    <3>3. Sized(refs, maxSize)
      BY DEF BootInv, References
    <3>4. /\ refs[n] = refs[told] /\ Kind(refs[told][1]) \in {"fifo", "switch"}
          /\ Kind(refs[told][1]) = "fifo" => refs[told][1] \in DOMAIN maxSize
      BY <2>7, <3>2, <3>3 DEF Sized
    <3> QED
      BY <3>4
  <2> QED
    BY <2>1, <2>3, <2>5, <2>7, <2>9, <2>10, <2>11, <2>12, <2>13
<1>5. DOMAIN payload[m] = DOMAIN InputPorts(m)
      /\ payload[m] = [i \in DOMAIN InputPorts(m) |-> payload[m][i]]
  BY <1>1, <1>3 DEF Taken
<1>6. payload[m] = [i \in DOMAIN InputPorts(m) |-> WiredTo(m, InputPorts(m)[i])]
  BY <1>4, <1>5
<1> QED
  BY <1>1, <1>4, <1>6

\* A node with one input.
LEMMA OnePayload ==
    ASSUME AxisWires, BootInv, DataInv, pc = "ready", NEW m \in ToMake, NEW p,
           InputPorts(m) = <<p>>
    PROVE  payload[m] = <<WiredTo(m, p)>>
<1>1. DOMAIN <<p>> = 1 .. 1 /\ <<p>>[1] = p /\ <<p>> # <<>>
  OBVIOUS
<1>2. payload[m] = [i \in DOMAIN InputPorts(m) |-> WiredTo(m, InputPorts(m)[i])]
  BY <1>1, NodePayload
<1>3. payload[m] = [i \in 1 .. 1 |-> WiredTo(m, p)]
  BY <1>1, <1>2
<1> QED
  BY <1>3

\* What a DMA node that is up takes its data from.
LEMMA SourceIs ==
    ASSUME AxisWires, BootInv, DataInv, pc = "ready", NEW d \in OfKind("dma")
    PROVE  /\ d \in ToMake /\ Source(d) \in ToMake /\ payload[d] = <<WiredTo(d, "S_AXIS_S2MM")>>
           /\ payload[d][1][2] \in OutputPorts(Source(d))
           /\ Kind(Source(d)) \in {"fifo", "switch"}
           /\ Kind(Source(d)) = "fifo" => Source(d) \in DOMAIN maxSize
           /\ \E s \in Inputs("axis") :
                 /\ s.module = d
                 /\ payload[d][1] = <<Origin("axis", s).module, Origin("axis", s).port>>
<1>1. d \in ToMake /\ Kind(d) = "dma"
  BY DEF OfKind, ToMake, NodeKinds
<1>2. InputPorts(d) = <<"S_AXIS_S2MM">>
  BY <1>1 DEF InputPorts
<1>3. InputPorts(d) # <<>> /\ 1 \in DOMAIN InputPorts(d)
  BY <1>2
<1>4. /\ SourceOk(payload[d][1], <<InputNets(d)[1], "payload">>)
      /\ \E s \in Inputs("axis") :
            /\ s.module = d
            /\ payload[d][1] = <<Origin("axis", s).module, Origin("axis", s).port>>
      /\ Kind(payload[d][1][1]) \in {"fifo", "switch"}
      /\ Kind(payload[d][1][1]) = "fifo" => payload[d][1][1] \in DOMAIN maxSize
  BY <1>1, <1>3, NodePayload
<1>5. payload[d] = <<WiredTo(d, "S_AXIS_S2MM")>>
  BY <1>1, <1>2, OnePayload
<1> QED
  BY <1>1, <1>4, <1>5 DEF Source, SourceOk

\* The inputs of a switch that are in use are those with a wire.
LEMMA SwitchInputs ==
    ASSUME AxisWires, NEW m, Kind(m) = "switch"
    PROVE  InputPorts(m) = Filtered(SlavePorts, {p \in Ports : /\ HasPort(m, "slave", p)
                                                               /\ Port(m, p) \in Inputs("axis")})
<1> DEFINE wired == {p \in Ports : HasPort(m, "slave", p) /\ Port(m, p) \in Inputs("axis")}
<1>1. SlavePorts \in Seq(InputNames) /\ Range(SlavePorts) \subseteq InputNames
  BY DEF SlavePorts, InputNames, Range
<1>2. Kind(m) \in NodeKinds
  BY DEF NodeKinds
<1>3. ASSUME NEW p \in Range(SlavePorts), p \in DOMAIN Interfaces(m) PROVE p \in wired
  <2>1. PICK s \in Inputs("axis") : s.module = m /\ s.port = p
    BY <1>1, <1>2, <1>3, InputNet
  <2>2. Port(m, p) = s
    BY <1>1, <1>2, <2>1, InputNet
  <2>3. s \in design.ends /\ s.role = "slave" /\ s \in BusEnds
    BY <2>1, DriverIs, EndsUnique DEF AxisWires
  <2> QED
    BY <2>1, <2>2, <2>3 DEF HasPort, Ends, BusEnds
<1>4. ASSUME NEW p \in Range(SlavePorts), p \in wired PROVE p \in DOMAIN Interfaces(m)
  <2>1. PICK e \in design.ends : e.module = m /\ e.port = p
    BY <1>4 DEF HasPort, Ends
  <2>2. Port(m, p).module = m /\ Port(m, p).port = p
    BY <2>1 DEF Port
  <2>3. Port(m, p) \in Inputs("axis")
    BY <1>4
  <2> QED
    BY <1>1, <1>2, <2>2, <2>3, InputNet
<1> HIDE DEF wired
<1>5. Filtered(SlavePorts, DOMAIN Interfaces(m)) = Filtered(SlavePorts, wired)
  BY <1>1, <1>3, <1>4, FilteredAgree
<1>6. InputPorts(m) = Filtered(SlavePorts, DOMAIN Interfaces(m))
  BY DEF InputPorts
<1> QED
  BY <1>5, <1>6 DEF wired

\* The payloads of the nodes follow the wires.
LEMMA PayloadsFollow == ASSUME AxisWires, BootInv, DataInv PROVE PayloadsFollowWires
<1> SUFFICES ASSUME pc = "ready" PROVE PayloadsFollowWires
  BY DEF PayloadsFollowWires
<1>1. \A m \in OfKind("fifo") \cup OfKind("dma") \cup OfKind("switch") : m \in ToMake
  BY DEF OfKind, ToMake, NodeKinds
<1>2. ASSUME NEW m \in OfKind("fifo") PROVE payload[m] = <<WiredTo(m, "S_AXIS")>>
  <2>1. InputPorts(m) = <<"S_AXIS">>
    BY DEF InputPorts, OfKind
  <2> QED
    BY <1>1, <2>1, OnePayload
<1>3. ASSUME NEW d \in OfKind("dma"), NEW f \in Behind(d)
      PROVE  maxSize[Source(d)] >= design.size[f[1]]
  <2>1. /\ Source(d) \in ToMake /\ Kind(Source(d)) \in {"fifo", "switch"}
        /\ Kind(Source(d)) = "fifo" => Source(d) \in DOMAIN maxSize
        /\ payload[d] = <<WiredTo(d, "S_AXIS_S2MM")>>
    BY SourceIs
  <2>2. \A m \in DOMAIN maxSize : SizeOk(m) /\ maxSize[m] \in Nat
    BY DEF DataInv, Taking, BootInv, NodeTypes, Range
  <2>3. CASE HasSwitch(d)
    <3>1. PICK s : s = Source(d)
      OBVIOUS
    <3>2. s \in ToMake /\ Kind(s) = "switch" /\ HasInputs(s) /\ s \in DOMAIN maxSize
      <4>1. todo = <<>> /\ Range(<<>>) = {}
        BY DEF DataInv, Taking, Range
      <4> QED
        BY <2>1, <2>3, <3>1, <4>1 DEF HasSwitch, DataInv, Taking
    <3>3. InputPorts(s) # <<>>
      BY <3>2 DEF HasInputs
    <3>4. f \in Range(payload[s])
      BY <2>3, <3>1 DEF Behind
    <3>5. /\ payload[s] = [i \in DOMAIN InputPorts(s) |-> WiredTo(s, InputPorts(s)[i])]
          /\ \A i \in DOMAIN InputPorts(s) :
                payload[s][i] = refs[<<InputNets(s)[i], "payload">>]
      BY <3>2, <3>3, NodePayload
    <3>6. PICK i \in DOMAIN InputPorts(s) : f = refs[<<InputNets(s)[i], "payload">>]
      BY <3>4, <3>5 DEF Range
    <3>7. InputNets(s)[i] \in Range(InputNets(s))
      BY DEF InputNets, Range
    <3> QED
      BY <2>2, <3>1, <3>2, <3>6, <3>7 DEF SizeOk
  <2>4. CASE ~HasSwitch(d)
    <3>1. f \in Range(payload[d])
      BY <2>4 DEF Behind
    <3>2. f = payload[d][1]
      BY <2>1, <3>1 DEF Range
    <3>3. f[1] = Source(d) /\ Kind(f[1]) = "fifo" /\ f[1] \in DOMAIN maxSize
      BY <2>1, <2>4, <3>2 DEF Source, HasSwitch
    <3>4. maxSize[f[1]] = design.size[f[1]] /\ maxSize[f[1]] \in Nat
      BY <2>2, <3>3 DEF SizeOk
    <3> QED
      BY <3>3, <3>4
  <2> QED
    BY <2>3, <2>4
<1>4. ASSUME NEW m \in OfKind("switch")
      PROVE  LET wired == Filtered(SlavePorts, {p \in Ports : /\ HasPort(m, "slave", p)
                                                              /\ Port(m, p) \in Inputs("axis")})
             IN  payload[m] = [i \in DOMAIN wired |-> WiredTo(m, wired[i])]
  <2>1. Kind(m) = "switch" /\ m \in ToMake
    BY <1>1 DEF OfKind
  <2>2. InputPorts(m) # <<>>
    BY <2>1 DEF DataInv, Taking, HasInputs
  <2>3. payload[m] = [i \in DOMAIN InputPorts(m) |-> WiredTo(m, InputPorts(m)[i])]
    BY <2>1, <2>2, NodePayload
  <2> QED
    BY <2>1, <2>3, SwitchInputs
<1>5. \A d \in OfKind("dma") : payload[d] = <<WiredTo(d, "S_AXIS_S2MM")>>
  BY SourceIs
<1> QED
  BY <1>2, <1>3, <1>4, <1>5 DEF PayloadsFollowWires

\* The input a switch is set to is that of the selected payload exactly if the inputs up to
\* its number are connected.
LEMMA RouteFollows ==
    ASSUME pc = "ready" => AxisWires, BootInv, DataInv
    PROVE  RouteFollowsPayload
<1> SUFFICES ASSUME NEW d \in OfKind("dma"), index[d] # 0
             PROVE  IsRoutedTo(Source(d), payload[Source(d)][index[d]])
                       <=> AreConnected(Source(d), {SlavePorts[j] : j \in 1 .. index[d]})
  BY DEF RouteFollowsPayload
<1>1. d \in Modules
  BY DEF OfKind, BootInv, NodeTypes, Range
<1>2. PICK s : s = Source(d)
  OBVIOUS
<1>3. PICK i : i = index[d]
  OBVIOUS
<1>4. /\ pc = "ready" /\ Kind(s) = "switch" /\ i \in DOMAIN payload[s]
      /\ i <= design.numSlaves[s] => route[s] = i
  BY <1>1, <1>2, <1>3 DEF DataInv, Selection, HasSwitch
<1>5. AxisWires /\ s \in ToMake
  BY <1>2, <1>4, SourceIs
<1>6. InputPorts(s) # <<>>
  BY <1>4, <1>5 DEF DataInv, Taking, HasInputs
<1>7. payload[s] = [j \in DOMAIN InputPorts(s) |-> WiredTo(s, InputPorts(s)[j])]
  BY <1>4, <1>5, <1>6, NodePayload
<1>8. i \in DOMAIN InputPorts(s) /\ payload[s][i] = WiredTo(s, InputPorts(s)[i])
  BY <1>4, <1>7
<1>9. /\ SlavePorts \in Seq(InputNames) /\ DOMAIN SlavePorts = 1 .. 4
      /\ \A j \in DOMAIN SlavePorts : SlavePorts[j] \in InputNames
      /\ \A j, k \in DOMAIN SlavePorts : SlavePorts[j] = SlavePorts[k] => j = k
  BY DEF SlavePorts, InputNames
<1>10. InputPorts(s) = Filtered(SlavePorts, DOMAIN Interfaces(s))
  BY <1>4 DEF InputPorts
<1>11. PICK D : D = DOMAIN Interfaces(s)
  OBVIOUS
<1>12. PICK m \in DOMAIN SlavePorts :
          /\ i \in DOMAIN SlavePorts /\ i <= m /\ InputPorts(s)[i] = SlavePorts[m]
          /\ m = i <=> \A j \in 1 .. i : SlavePorts[j] \in D
  <2>1. PICK q : q = InputPorts(s)
    OBVIOUS
  <2>2. PICK ports : ports = SlavePorts
    OBVIOUS
  <2>3. q = Filtered(ports, D)
    BY <1>10, <1>11, <2>1, <2>2
  <2>4. ports \in Seq(InputNames) /\ i \in DOMAIN q
    BY <1>8, <1>9, <2>1, <2>2
  <2>5. /\ i \in DOMAIN ports
        /\ \E m \in DOMAIN ports : /\ i <= m /\ q[i] = ports[m]
                                   /\ m = i <=> \A j \in 1 .. i : ports[j] \in D
    BY <2>3, <2>4, FilteredPlaces
  <2>6. PICK m \in DOMAIN ports : /\ i <= m /\ q[i] = ports[m]
                                  /\ m = i <=> \A j \in 1 .. i : ports[j] \in D
    BY <2>5
  <2>7. m \in DOMAIN SlavePorts /\ i \in DOMAIN SlavePorts
    BY <2>2, <2>5
  <2>8. InputPorts(s)[i] = SlavePorts[m]
    BY <2>1, <2>2, <2>6
  <2>9. m = i <=> \A j \in 1 .. i : SlavePorts[j] \in D
    BY <2>2, <2>6
  <2> QED
    BY <2>6, <2>7, <2>8, <2>9
<1>13. \A j \in DOMAIN SlavePorts :
         SlavePorts[j] \in D <=> \E e \in Inputs("axis") : e.module = s /\ e.port = SlavePorts[j]
  <2> SUFFICES ASSUME NEW j \in DOMAIN SlavePorts
               PROVE  SlavePorts[j] \in D
                         <=> \E e \in Inputs("axis") : e.module = s /\ e.port = SlavePorts[j]
    OBVIOUS
  <2>1. SlavePorts[j] \in InputNames /\ Kind(s) \in NodeKinds
    BY <1>4, <1>9 DEF NodeKinds
  <2> QED
    BY <1>5, <1>11, <2>1, InputNet
<1>14. m = i <=> AreConnected(s, {SlavePorts[j] : j \in 1 .. i})
  <2>1. \A j \in 1 .. i : j \in DOMAIN SlavePorts
    BY <1>9, <1>12
  <2>2. AreConnected(s, {SlavePorts[j] : j \in 1 .. i})
           <=> \A j \in 1 .. i : \E e \in Inputs("axis") : e.module = s /\ e.port = SlavePorts[j]
    BY DEF AreConnected
  <2> QED
    BY <1>12, <1>13, <2>1, <2>2
\* The payload comes in at the m-th input, the switch is set to the i-th.
<1>15. PICK x \in Inputs("axis") :
          /\ x.module = s /\ x.port = SlavePorts[m]
          /\ payload[s][i] = <<Origin("axis", x).module, Origin("axis", x).port>>
  <2>1. PICK x \in Inputs("axis") :
           /\ x.module = s /\ x.port = InputPorts(s)[i]
           /\ payload[s][i] = <<Origin("axis", x).module, Origin("axis", x).port>>
    BY <1>4, <1>5, <1>6, <1>8, NodePayload
  <2> QED
    BY <1>12, <2>1
<1>16. route[s] = i
  <2>1. x \in design.ends /\ design \in Designs
    BY DriverIs DEF BootInv, ParserTypes
  <2>2. design.kind[x.module] = "switch" /\ design.kind[x.module] \in NodeKinds
    BY <1>4, <1>15 DEF Kind, NodeKinds
  <2>3. m <= design.numSlaves[s]
    BY <1>15, <2>1, <2>2, InterfaceAssumption
  <2>4. design.numSlaves[s] \in Nat
    <3>1. s \in Modules
      BY <1>5 DEF ToMake, BootInv, NodeTypes, Range
    <3>2. design.numSlaves \in [Modules -> Nat]
      BY <2>1, DesignAssumption DEF DesignType
    <3> QED
      BY <3>1, <3>2
  <2>5. i <= design.numSlaves[s]
    BY <1>9, <1>12, <2>3, <2>4
  <2> QED
    BY <1>4, <2>5
<1>17. m = i => IsRoutedTo(s, payload[s][i])
  BY <1>8, <1>12, <1>15, <1>16 DEF IsRoutedTo
<1>18. ASSUME IsRoutedTo(s, payload[s][i]) PROVE m = i
  <2>1. PICK e \in Inputs("axis") :
          /\ e.module = s /\ e.port = SlavePorts[i] /\ WiredTo(s, SlavePorts[i]) = payload[s][i]
    BY <1>16, <1>18 DEF IsRoutedTo
  <2>2. Kind(s) \in NodeKinds /\ SlavePorts[i] \in InputNames /\ SlavePorts[m] \in InputNames
    BY <1>4, <1>9, <1>12 DEF NodeKinds
  <2>3. /\ Port(s, SlavePorts[i]) = e /\ Origin("axis", e) \in design.ends
        /\ Origin("axis", x) \in design.ends
    BY <1>5, <1>15, <2>1, <2>2, InputNet
  <2>4. /\ Origin("axis", e).module = Origin("axis", x).module
        /\ Origin("axis", e).port = Origin("axis", x).port
    BY <1>15, <2>1, <2>3 DEF WiredTo
  <2>5. Origin("axis", e) = Origin("axis", x)
    BY <1>5, <2>3, <2>4, EndsUnique DEF AxisWires
  <2>6. OnePerNet(graph["axis"])
    BY <1>4 DEF DataInv, GraphsOnce, Buses
  <2>7. e.module \notin PassThrough("axis") /\ x.module \notin PassThrough("axis")
    BY <1>15, <2>1, <2>2, NodesPassNothing
  <2>8. e = x
    BY <1>5, <2>5, <2>6, <2>7, OriginsDiffer
  <2> QED
    BY <1>9, <1>12, <1>15, <2>1, <2>8
<1> QED
  BY <1>2, <1>3, <1>14, <1>17, <1>18

\* No two DMA nodes have one switch.
LEMMA SwitchesDiffer ==
    ASSUME AxisWires, OnePerNet(graph["axis"]), BootInv, DataInv, pc = "ready",
           NEW d \in OfKind("dma"), NEW x \in OfKind("dma"), HasSwitch(d), Source(x) = Source(d)
    PROVE  x = d
<1>1. PICK s \in Inputs("axis") :
         /\ s.module = d
         /\ payload[d][1] = <<Origin("axis", s).module, Origin("axis", s).port>>
  BY SourceIs
<1>2. PICK u \in Inputs("axis") :
         /\ u.module = x
         /\ payload[x][1] = <<Origin("axis", u).module, Origin("axis", u).port>>
  BY SourceIs
<1>3. PICK o : o = Origin("axis", s)
  OBVIOUS
<1>4. PICK v : v = Origin("axis", u)
  OBVIOUS
<1>5. payload[d][1][2] \in OutputPorts(Source(d)) /\ payload[x][1][2] \in OutputPorts(Source(x))
  BY SourceIs
<1>6. OutputPorts(Source(d)) = {"M00_AXIS"} /\ OutputPorts(Source(x)) = {"M00_AXIS"}
  BY DEF OutputPorts, HasSwitch
<1>7. o.module = v.module /\ o.port = v.port
  BY <1>1, <1>2, <1>3, <1>4, <1>5, <1>6 DEF Source
<1>8. s.module \notin PassThrough("axis") /\ u.module \notin PassThrough("axis")
  BY <1>1, <1>2, NodesPassNothing DEF OfKind, NodeKinds
<1>9. o \in design.ends /\ v \in design.ends
  <2>1. ASSUME NEW y \in Inputs("axis"), y.module \notin PassThrough("axis")
        PROVE  Origin("axis", y) \in design.ends
    <3>1. PICK e \in graph["axis"] : EndsAt(e, y)
      BY <2>1 DEF AxisWires
    <3>2. PICK z \in Inputs("axis") : EndsAt(e, z) /\ Origin("axis", z) \in design.ends
      BY DEF AxisWires
    <3>3. y.module = z.module /\ y.port = z.port
      BY <3>1, <3>2 DEF EndsAt
    <3>4. y \in design.ends /\ z \in design.ends
      BY DriverIs
    <3>5. y = z
      BY <3>3, <3>4, EndsUnique DEF AxisWires
    <3> QED
      BY <3>2, <3>5
  <2> QED
    BY <1>3, <1>4, <1>8, <2>1
<1>10. o = v
  BY <1>7, <1>9, EndsUnique DEF AxisWires
<1>11. s = u
  BY <1>3, <1>4, <1>8, <1>10, OriginsDiffer
<1> QED
  BY <1>1, <1>2, <1>11

\* A DMA node selects a payload of its own switch.
LEMMA SelectData ==
    ASSUME AxisWires, BootInv, DataInv, NEW d \in OfKind("dma"), NEW i \in Nat, Select(d, i)
    PROVE  DataInv'
<1>1. /\ UNCHANGED <<parserVars, pc, ips, todo, nodeVars>> /\ pc = "ready"
      /\ HasSwitch(d) /\ i \in DOMAIN payload[Source(d)]
      /\ index' = [index EXCEPT ![d] = i]
      /\ route' = IF i <= design.numSlaves[Source(d)]
                  THEN [route EXCEPT ![Source(d)] = i] ELSE route
  BY DEF Select
<1>2. GraphsOnce' /\ NothingYet' /\ Telling' /\ Taking'
  BY <1>1, DataStays
<1>3. /\ payload' = payload /\ design' = design /\ pc' = pc
      /\ OfKind("dma")' = OfKind("dma")
  BY <1>1 DEF nodeVars, parserVars, OfKind, Kind
<1>4. /\ \A x : Source(x)' = Source(x) /\ (HasSwitch(x)' <=> HasSwitch(x))
  BY <1>3 DEF Source, HasSwitch, Kind
<1>5. d \in Modules /\ Source(d) \in Modules
  <2>1. Source(d) \in ToMake
    BY <1>1, SourceIs
  <2> QED
    BY <2>1 DEF OfKind, ToMake, BootInv, NodeTypes, Range
<1>6. index \in [Modules -> Nat] /\ route \in [Modules -> Nat]
  BY DEF BootInv, RunTypes
<1>7. OnePerNet(graph["axis"])
  BY <1>1 DEF DataInv, GraphsOnce, Buses
<1>8. ASSUME NEW x \in Modules, index'[x] # 0
      PROVE  /\ x \in OfKind("dma") /\ HasSwitch(x) /\ index'[x] \in DOMAIN payload[Source(x)]
             /\ index'[x] <= design.numSlaves[Source(x)] => route'[Source(x)] = index'[x]
  <2>1. CASE x = d
    <3>1. index'[x] = i
      BY <1>1, <1>5, <1>6, <2>1
    <3> QED
      BY <1>1, <1>5, <1>6, <2>1, <3>1
  <2>2. CASE x # d
    <3>1. index'[x] = index[x]
      BY <1>1, <1>5, <1>6, <2>2
    <3>2. /\ x \in OfKind("dma") /\ HasSwitch(x) /\ index[x] \in DOMAIN payload[Source(x)]
          /\ index[x] <= design.numSlaves[Source(x)] => route[Source(x)] = index[x]
      BY <1>8, <3>1 DEF DataInv, Selection
    <3>3. Source(x) # Source(d)
      BY <1>1, <1>7, <2>2, <3>2, SwitchesDiffer
    <3>4. route'[Source(x)] = route[Source(x)]
      BY <1>1, <1>5, <1>6, <3>3
    <3> QED
      BY <3>1, <3>2, <3>4
  <2> QED
    BY <2>1, <2>2
<1>9. Selection'
  BY <1>1, <1>3, <1>4, <1>8 DEF Selection
<1> QED
  BY <1>2, <1>9 DEF DataInv

\* A reset leaves nothing selected.
LEMMA ResetData == ASSUME DataInv, ResetAll PROVE DataInv'
<1>1. /\ UNCHANGED <<parserVars, pc, ips, todo, nodeVars>>
      /\ index' = [m \in Modules |-> 0]
  BY DEF ResetAll
<1>2. GraphsOnce' /\ NothingYet' /\ Telling' /\ Taking'
  BY <1>1, DataStays
<1>3. Selection'
  BY <1>1 DEF Selection
<1> QED
  BY <1>2, <1>3 DEF DataInv

\* Where boot stands still.
LEMMA DataStands == ASSUME DataInv, UNCHANGED bootVars PROVE DataInv'
<1>1. /\ UNCHANGED <<parserVars, pc, ips, todo, nodeVars>>
      /\ index' = index /\ route' = route /\ payload' = payload /\ design' = design
  BY DEF bootVars, runVars, nodeVars, parserVars
<1>2. GraphsOnce' /\ NothingYet' /\ Telling' /\ Taking'
  BY <1>1, DataStays
<1>3. Selection'
  BY <1>1, LookedUp DEF DataInv, Selection, Source, HasSwitch
<1> QED
  BY <1>2, <1>3 DEF DataInv

\* Nothing is told or selected at the start.
LEMMA InitData == Init => DataInv
<1> SUFFICES ASSUME Init PROVE DataInv
  OBVIOUS
<1> USE DEF Init, BootInit, ParserInit
<1>1. GraphsOnce
  BY DEF GraphsOnce, OnePerNet, Buses, BusTypes, Range
<1>2. NothingYet /\ Telling /\ Taking /\ Selection
  BY DEF NothingYet, Telling, Taking, Selection
<1> QED
  BY <1>1, <1>2 DEF DataInv

\* Every step keeps what is known of the data.
LEMMA NextData == TypeInv /\ Wiring /\ DataInv /\ [Next]_vars => DataInv'
<1> SUFFICES ASSUME TypeInv, Wiring, DataInv, [Next]_vars PROVE DataInv'
  OBVIOUS
<1>1. BootInv /\ EntryTypes /\ design \in Designs
  BY DEF TypeInv, BootInv, ParserTypes
<1>2. pc = "ready" => AxisWires
  BY <1>1, AxisGraph DEF DataInv, GraphsOnce
<1>3. CASE BootNext
  <2>1. ASSUME NEW d \in OfKind("dma"), NEW i \in 1 .. Len(SlavePorts), Select(d, i)
        PROVE  DataInv'
    <3>1. i \in Nat /\ pc = "ready"
      BY <2>1 DEF SlavePorts, Select
    <3> QED
      BY <1>1, <1>2, <2>1, <3>1, SelectData
  <2> QED
    BY <1>1, <1>3, <2>1, GraphsData, FindingData, InitNodeData, InitRootData,
       BuildDependenciesData, BuildRootDependenciesData DEF BootNext
<1>4. ASSUME NEW m, m \in OfKind("acquisition") \/ m \in OfKind("generator")
                    \/ m \in OfKind("trigger_generator"),
             ConfigureAcquisition(m) \/ ConfigureGenerator(m) \/ ConfigureTriggerGenerator(m)
      PROVE  DataInv'
  <2>1. m \in Modules
    BY <1>4, FoundModules DEF Followed, TypeInv
  <2> QED
    BY <1>1, <1>4, <2>1, EntriesTyped, DataStands
<1>5. CASE ResetAll
  BY <1>5, ResetData
<1>6. CASE UNCHANGED vars
  BY <1>6, DataStands DEF vars
<1> QED
  BY <1>3, <1>4, <1>5, <1>6 DEF Next

\* Whatever the design, the order of its modules and the payloads selected: the payloads of
\* every node are those of the wires, the buffer of a DMA node holds each of them, and the
\* input its switch is set to is that of the payload it has selected exactly if the inputs
\* up to the number of that payload are connected.
THEOREM DataFollows == Spec => DataFollowsWires
<1>1. TypeInv /\ Wiring /\ DataInv => PayloadsFollowWires /\ RouteFollowsPayload
  <2> SUFFICES ASSUME TypeInv, Wiring, DataInv PROVE PayloadsFollowWires /\ RouteFollowsPayload
    OBVIOUS
  <2>1. BootInv /\ design \in Designs
    BY DEF TypeInv, BootInv, ParserTypes
  <2>2. pc = "ready" => AxisWires
    BY <2>1, AxisGraph DEF DataInv, GraphsOnce
  <2>3. PayloadsFollowWires
    <3>1. CASE pc = "ready"
      BY <2>1, <2>2, <3>1, PayloadsFollow
    <3>2. CASE pc # "ready"
      BY <3>2 DEF PayloadsFollowWires
    <3> QED
      BY <3>1, <3>2
  <2> QED
    BY <2>1, <2>2, <2>3, RouteFollows
<1>2. TypeInv => BootInv
  BY DEF TypeInv
<1>3. Spec => [](TypeInv /\ Wiring /\ DataInv)
  BY <1>2, InitTyped, NextTyped, InitWired, NextWired, InitData, NextData, PTL DEF Spec
<1>4. [](TypeInv /\ Wiring /\ DataInv) => [](PayloadsFollowWires /\ RouteFollowsPayload)
  BY <1>1, PTL
<1>5. (PayloadsFollowWires /\ RouteFollowsPayload)'
      => [bootVars' # bootVars => (PayloadsFollowWires /\ RouteFollowsPayload)']_bootVars
  OBVIOUS
<1> QED
  BY <1>3, <1>4, <1>5, PTL DEF DataFollowsWires
=============================================================================
