------------------------ MODULE SolanaEncodingProofs ------------------------
(***************************************************************************)
(* Proofs about SolanaEncoding: what is encoded is read back, and the bump *)
(* that is found is the right one, for inputs of any length and any base.  *)
(***************************************************************************)
EXTENDS SolanaEncoding, WellFoundedInduction, TLAPS

-----------------------------------------------------------------------------
(* Induction and recursion.                                                *)

LEMMA LeastExists ==
    ASSUME NEW S, S \subseteq Nat, S # {}
    PROVE  \E n \in S : \A m \in S : n <= m
<1>1. PICK n \in S : \A m \in S : ~ (<<m, n>> \in OpToRel(<, Nat))
  BY NatLessThanWellFounded, WFMin
<1>2. \A m \in S : ~ (m < n)
  BY <1>1 DEF OpToRel
<1> QED
  BY <1>2

LEMMA SetInduction ==
    ASSUME NEW S, 0 \in S, \A n \in Nat : n \in S => n + 1 \in S
    PROVE  Nat \subseteq S
<1> SUFFICES ASSUME Nat \ S # {} PROVE FALSE
  OBVIOUS
<1> DEFINE T == Nat \ S
<1>1. PICK n \in T : \A m \in T : n <= m
  BY LeastExists
<1>2. n # 0 /\ n - 1 \in Nat
  BY <1>1
<1>3. n - 1 \in S
  BY <1>1, <1>2
<1>4. n - 1 + 1 \in S
  BY <1>2, <1>3
<1> QED
  BY <1>1, <1>4

LEMMA StrongInduction ==
    ASSUME NEW S, \A n \in Nat : (\A m \in Nat : m < n => m \in S) => n \in S
    PROVE  Nat \subseteq S
<1> SUFFICES ASSUME Nat \ S # {} PROVE FALSE
  OBVIOUS
<1> DEFINE T == Nat \ S
<1>1. PICK n \in T : \A m \in T : n <= m
  BY LeastExists
<1>2. \A m \in Nat : m < n => m \in S
  BY <1>1
<1> QED
  BY <1>1, <1>2

LEMMA Division ==
    ASSUME NEW n \in Nat, NEW b \in Nat \ {0, 1}
    PROVE  /\ n % b \in 0 .. b - 1 /\ n \div b \in Nat
           /\ n = (n \div b) * b + (n % b)
           /\ n # 0 => n \div b < n
           /\ n \div b = 0 => n % b = n
<1> DEFINE q == n \div b
           r == n % b
<1>1. r \in 0 .. b - 1 /\ q \in Int /\ n = b * q + r
  OBVIOUS
<1> HIDE DEF q, r
<1>2. q >= 0
  <2> SUFFICES ASSUME q <= 0 - 1 PROVE FALSE
    BY <1>1
  <2>1. PICK k \in Nat : q = 0 - k - 1
    <3>1. 0 - q - 1 \in Nat /\ q = 0 - (0 - q - 1) - 1
      BY <1>1
    <3> QED
      BY <3>1
  <2>2. b * k \in Nat /\ b * (0 - k - 1) = 0 - b * k - b
    OBVIOUS
  <2> QED
    BY <1>1, <2>1, <2>2
<1>3. q \in Nat /\ b * q = q * b
  BY <1>1, <1>2
<1>4. n # 0 => q < n
  <2> SUFFICES ASSUME n # 0, q >= n PROVE FALSE
    BY <1>3
  <2>1. PICK c \in Nat : b = c + 2
    <3>1. b - 2 \in Nat /\ b = (b - 2) + 2
      OBVIOUS
    <3> QED
      BY <3>1
  <2>2. (c + 2) * q = c * q + 2 * q /\ c * q \in Nat
    BY <1>3, <2>1
  <2> QED
    BY <1>1, <1>3, <2>1, <2>2
<1>5. q = 0 => r = n
  BY <1>1
<1> QED
  BY <1>1, <1>3, <1>4, <1>5 DEF q, r

LEMMA Linear ==
    ASSUME NEW v \in Nat, NEW b \in Nat, NEW x \in Nat
    PROVE  v * b + x \in Nat
  OBVIOUS

LEMMA DivisionUnique ==
    ASSUME NEW b \in Nat \ {0, 1}, NEW q \in Nat, NEW r \in 0 .. b - 1
    PROVE  (q * b + r) \div b = q /\ (q * b + r) % b = r /\ q * b + r \in Nat
<1> DEFINE n == q * b + r
           p == n \div b
           s == n % b
<1>1. n \in Nat
  OBVIOUS
<1>2. s \in 0 .. b - 1 /\ p \in Nat /\ n = p * b + s
  BY <1>1, Division
<1>3. q * b + r = p * b + s
  BY <1>2
<1> HIDE DEF n, p, s
<1>4. ~ (p < q)
  <2> SUFFICES ASSUME p < q PROVE FALSE
    OBVIOUS
  <2>1. PICK k \in Nat : q = p + k + 1
    <3>1. q - p - 1 \in Nat /\ q = p + (q - p - 1) + 1
      BY <1>2
    <3> QED
      BY <3>1
  <2>2. (p + k + 1) * b = p * b + k * b + b /\ k * b \in Nat /\ p * b \in Nat
    BY <1>2
  <2> QED
    BY <1>2, <1>3, <2>1, <2>2
<1>5. ~ (q < p)
  <2> SUFFICES ASSUME q < p PROVE FALSE
    OBVIOUS
  <2>1. PICK k \in Nat : p = q + k + 1
    <3>1. p - q - 1 \in Nat /\ p = q + (p - q - 1) + 1
      BY <1>2
    <3> QED
      BY <3>1
  <2>2. (q + k + 1) * b = q * b + k * b + b /\ k * b \in Nat /\ q * b \in Nat
    OBVIOUS
  <2> QED
    BY <1>2, <1>3, <2>1, <2>2
<1>6. p = q
  BY <1>2, <1>4, <1>5
<1>7. s = r
  BY <1>2, <1>3, <1>6
<1> QED
  BY <1>1, <1>6, <1>7 DEF n, p, s

(* A function whose value at n depends on the one at a smaller argument.   *)
Shrinks(p) == p \in [Nat -> Nat] /\ \A n \in Nat : n # 0 => p[n] < n
Steps(step, A) == step \in [Nat -> [A -> A]]

Solves(d, A, a0, p, step) ==
    d \in [Nat -> A] /\ d[0] = a0 /\ \A n \in Nat : n # 0 => d[n] = step[n][d[p[n]]]

LEMMA Recursion ==
    ASSUME NEW A, NEW a0 \in A, NEW p, Shrinks(p), NEW step, Steps(step, A)
    PROVE  \E d : Solves(d, A, a0, p, step)
<1> DEFINE Rec(f, m) == /\ f \in [0 .. m -> A] /\ f[0] = a0
                        /\ \A n \in 0 .. m : n # 0 => f[n] = step[n][f[p[n]]]
           Good == {m \in Nat : \E f : Rec(f, m)}
           F(m) == CHOOSE f : Rec(f, m)
           d == [n \in Nat |-> F(n)[n]]
<1> USE DEF Shrinks, Steps
<1>1. 0 \in Good
  <2>1. Rec([n \in 0 .. 0 |-> a0], 0)
    OBVIOUS
  <2> HIDE DEF Rec
  <2> QED
    BY <2>1
<1>2. ASSUME NEW m \in Nat, m \in Good PROVE m + 1 \in Good
  <2>1. PICK f : Rec(f, m)
    <3> HIDE DEF Rec
    <3> QED
      BY <1>2
  <2> DEFINE a == step[m + 1][f[p[m + 1]]]
             g == [n \in 0 .. m + 1 |-> IF n = m + 1 THEN a ELSE f[n]]
  <2>2. p[m + 1] \in 0 .. m
    OBVIOUS
  <2>3. a \in A
    <3>1. f[p[m + 1]] \in A
      BY <2>1, <2>2
    <3> QED
      BY <3>1
  <2> HIDE DEF a
  <2>4. g \in [0 .. m + 1 -> A] /\ g[0] = a0 /\ g[m + 1] = a
        /\ \A n \in 0 .. m : g[n] = f[n]
    BY <2>1, <2>3
  <2> HIDE DEF g
  <2>5. ASSUME NEW n \in 0 .. m + 1, n # 0 PROVE g[n] = step[n][g[p[n]]]
    <3>1. n \in Nat /\ p[n] \in 0 .. m
      BY <2>5
    <3>2. CASE n = m + 1
      BY <2>4, <3>1, <3>2 DEF a
    <3>3. CASE n \in 0 .. m
      BY <2>1, <2>4, <2>5, <3>1, <3>3
    <3> QED
      BY <3>2, <3>3
  <2>6. Rec(g, m + 1)
    BY <2>4, <2>5
  <2> HIDE DEF Rec
  <2> QED
    BY <2>6
<1>3. Nat \subseteq Good
  <2> HIDE DEF Good
  <2> QED
    BY <1>1, <1>2, SetInduction
<1>4. ASSUME NEW m \in Nat PROVE Rec(F(m), m)
  <2>1. m \in Good
    BY <1>3
  <2> HIDE DEF Rec
  <2>2. \E f : Rec(f, m)
    BY <2>1
  <2> QED
    BY <2>2
<1> HIDE DEF F
<1>5. ASSUME NEW i \in Nat, NEW j \in Nat PROVE \A n \in Nat : n <= i /\ n <= j => F(i)[n] = F(j)[n]
  <2> DEFINE Same == {n \in Nat : n <= i /\ n <= j => F(i)[n] = F(j)[n]}
  <2>1. Rec(F(i), i) /\ Rec(F(j), j)
    <3> HIDE DEF Rec
    <3> QED
      BY <1>4
  <2>2. ASSUME NEW n \in Nat, \A m \in Nat : m < n => m \in Same PROVE n \in Same
    <3> SUFFICES ASSUME n <= i, n <= j PROVE F(i)[n] = F(j)[n]
      OBVIOUS
    <3>1. CASE n = 0
      BY <2>1, <3>1
    <3>2. CASE n # 0
      <4>1. p[n] \in Same /\ p[n] <= i /\ p[n] <= j
        BY <2>2, <3>2
      <4>2. F(i)[p[n]] = F(j)[p[n]]
        BY <4>1
      <4>3. F(i)[n] = step[n][F(i)[p[n]]] /\ F(j)[n] = step[n][F(j)[p[n]]]
        <5>1. n \in 0 .. i /\ n \in 0 .. j
          OBVIOUS
        <5> QED
          BY <2>1, <3>2, <5>1
      <4> QED
        BY <4>2, <4>3
    <3> QED
      BY <3>1, <3>2
  <2> HIDE DEF Same
  <2>3. Nat \subseteq Same
    BY <2>2, StrongInduction
  <2> QED
    BY <2>3 DEF Same
<1>6. ASSUME NEW n \in Nat
      PROVE  /\ F(n)[n] \in A
             /\ n = 0 => F(n)[n] = a0
             /\ n # 0 => F(n)[n] = step[n][F(p[n])[p[n]]]
  <2>1. Rec(F(n), n)
    <3> HIDE DEF Rec
    <3> QED
      BY <1>4
  <2>2. n # 0 => F(n)[p[n]] = F(p[n])[p[n]]
    BY <1>5
  <2> QED
    BY <2>1, <2>2
<1> HIDE DEF Rec, Good
<1>7. d \in [Nat -> A] /\ d[0] = a0
  BY <1>6
<1>8. \A n \in Nat : n # 0 => d[n] = step[n][d[p[n]]]
  BY <1>6
<1> HIDE DEF d
<1>9. Solves(d, A, a0, p, step)
  BY <1>7, <1>8 DEF Solves
<1> QED
  BY <1>9

-----------------------------------------------------------------------------
(* Sequences of numbers.                                                   *)

LEMMA BytesAreNumbers ==
    ASSUME NEW b \in Nat, NEW s \in Seq(0 .. b - 1)
    PROVE  s \in Seq(Nat)
  OBVIOUS

LEMMA AppendFacts ==
    ASSUME NEW s \in Seq(Nat), NEW x \in Nat
    PROVE  /\ Append(s, x) \in Seq(Nat) /\ Len(Append(s, x)) = Len(s) + 1 /\ Len(s) \in Nat
           /\ Append(s, x)[Len(s) + 1] = x
           /\ \A i \in 1 .. Len(s) : Append(s, x)[i] = s[i]
  OBVIOUS

LEMMA ConcatFacts ==
    ASSUME NEW s \in Seq(Nat), NEW t \in Seq(Nat)
    PROVE  /\ s \o t \in Seq(Nat) /\ Len(s \o t) = Len(s) + Len(t)
           /\ Len(s) \in Nat /\ Len(t) \in Nat
           /\ \A i \in 1 .. Len(s) : (s \o t)[i] = s[i]
           /\ \A i \in 1 .. Len(t) : (s \o t)[Len(s) + i] = t[i]
  OBVIOUS

LEMMA ConcatEmpty ==
    ASSUME NEW s \in Seq(Nat)
    PROVE  s \o <<>> = s /\ <<>> \o s = s
  OBVIOUS

LEMMA ConcatAppend ==
    ASSUME NEW s \in Seq(Nat), NEW t \in Seq(Nat), NEW x \in Nat
    PROVE  s \o Append(t, x) = Append(s \o t, x)
  OBVIOUS

LEMMA SameSequence ==
    ASSUME NEW s \in Seq(Nat), NEW t \in Seq(Nat), Len(s) = Len(t),
           \A i \in 1 .. Len(s) : s[i] = t[i]
    PROVE  s = t
  OBVIOUS

LEMMA ConcatAssoc ==
    ASSUME NEW s \in Seq(Nat), NEW t \in Seq(Nat), NEW u \in Seq(Nat)
    PROVE  (s \o t) \o u = s \o (t \o u)
  OBVIOUS

-----------------------------------------------------------------------------
(* Numbers and their digits.                                               *)

LEMMA DigitsFacts ==
    ASSUME NEW b \in Nat \ {0, 1}
    PROVE  /\ Digits(b)[0] = <<>>
           /\ \A n \in Nat : n # 0 => Digits(b)[n] = Append(Digits(b)[n \div b], n % b)
           /\ \A n \in Nat : Digits(b)[n] \in Seq(0 .. b - 1)
<1> DEFINE A == Seq(0 .. b - 1)
           p == [n \in Nat |-> n \div b]
           step == [n \in Nat |-> [s \in A |-> Append(s, n % b)]]
<1>1. \A n \in Nat : n \div b \in Nat /\ n % b \in 0 .. b - 1 /\ (n # 0 => n \div b < n)
  BY Division
<1>2. p \in [Nat -> Nat] /\ \A n \in Nat : n # 0 => p[n] < n
  BY <1>1
<1>3. step \in [Nat -> [A -> A]] /\ \A s \in A, x \in 0 .. b - 1 : Append(s, x) \in A
  <2>1. \A s \in A, x \in 0 .. b - 1 : Append(s, x) \in A
    OBVIOUS
  <2> HIDE DEF A
  <2> QED
    BY <1>1, <2>1
<1>4. <<>> \in A
  OBVIOUS
<1> HIDE DEF p, step, A
<1>5. PICK d \in [Nat -> A] :
         d[0] = <<>> /\ \A n \in Nat : n # 0 => d[n] = step[n][d[p[n]]]
  <2>1. Shrinks(p) /\ Steps(step, A)
    BY <1>2, <1>3 DEF Shrinks, Steps
  <2>2. \E d : Solves(d, A, <<>>, p, step)
    BY <1>4, <2>1, Recursion
  <2> QED
    BY <2>2 DEF Solves
<1>6. ASSUME NEW n \in Nat, n # 0 PROVE d[n] = Append(d[n \div b], n % b)
  <2>1. n \div b \in Nat /\ p[n] = n \div b /\ d[n \div b] \in A
    BY <1>1, <1>5 DEF p
  <2>2. step[n][d[n \div b]] = Append(d[n \div b], n % b)
    BY <2>1 DEF step
  <2> QED
    BY <1>5, <1>6, <2>1, <2>2
<1>7. d = [n \in Nat |-> IF n = 0 THEN <<>> ELSE Append(d[n \div b], n % b)]
  BY <1>5, <1>6
<1> DEFINE D == Digits(b)
<1>8. D = [n \in Nat |-> IF n = 0 THEN <<>> ELSE Append(D[n \div b], n % b)]
  BY <1>7 DEF Digits
<1> HIDE DEF D
<1>9. D[0] = <<>> /\ \A n \in Nat : n # 0 => D[n] = Append(D[n \div b], n % b)
  BY <1>8
<1> DEFINE S == {n \in Nat : D[n] \in A}
<1>10. ASSUME NEW n \in Nat, \A m \in Nat : m < n => m \in S PROVE n \in S
  <2>1. CASE n = 0
    BY <1>4, <1>9, <2>1
  <2>2. CASE n # 0
    <3>1. D[n \div b] \in A /\ n % b \in 0 .. b - 1
      BY <1>1, <1>10, <2>2
    <3> QED
      BY <1>3, <1>9, <2>2, <3>1
  <2> QED
    BY <2>1, <2>2
<1>11. Nat \subseteq S
  <2> HIDE DEF S
  <2> QED
    BY <1>10, StrongInduction
<1> QED
  BY <1>9, <1>11 DEF D, A

LEMMA ValuesFacts ==
    ASSUME NEW b \in Nat, NEW s \in Seq(Nat)
    PROVE  /\ Values(b, s) \in [0 .. Len(s) -> Nat]
           /\ Values(b, s)[0] = 0
           /\ \A n \in 1 .. Len(s) : Values(b, s)[n] = Values(b, s)[n - 1] * b + s[n]
           /\ Value(b, s) = Values(b, s)[Len(s)]
<1> DEFINE p == [n \in Nat |-> IF n = 0 THEN 0 ELSE n - 1]
           step == [n \in Nat |-> [v \in Nat |-> IF n \in DOMAIN s THEN v * b + s[n] ELSE 0]]
<1>0. Len(s) \in Nat /\ DOMAIN s = 1 .. Len(s) /\ \A n \in DOMAIN s : s[n] \in Nat
  OBVIOUS
<1>1. p \in [Nat -> Nat] /\ \A n \in Nat : n # 0 => p[n] < n
  OBVIOUS
<1>2. step \in [Nat -> [Nat -> Nat]]
  <2>1. \A v, x \in Nat : v * b + x \in Nat
    BY Linear
  <2> QED
    BY <1>0, <2>1
<1> HIDE DEF step
<1>3. PICK d \in [Nat -> Nat] :
         d[0] = 0 /\ \A n \in Nat : n # 0 => d[n] = step[n][d[p[n]]]
  <2>1. Shrinks(p) /\ Steps(step, Nat)
    BY <1>1, <1>2 DEF Shrinks, Steps
  <2> HIDE DEF p
  <2>2. \E d : Solves(d, Nat, 0, p, step)
    BY <2>1, Recursion
  <2> QED
    BY <2>2 DEF Solves
<1>4. ASSUME NEW n \in 1 .. Len(s) PROVE d[n] = d[n - 1] * b + s[n]
  <2>1. n \in Nat /\ n # 0 /\ p[n] = n - 1 /\ n - 1 \in Nat
    BY <1>0
  <2>2. d[n] = step[n][d[n - 1]]
    BY <1>3, <2>1
  <2> QED
    BY <1>0, <2>1, <2>2 DEF step
<1> DEFINE f == [n \in 0 .. Len(s) |-> d[n]]
<1>5. \A n \in 0 .. Len(s) : n # 0 => n \in 1 .. Len(s) /\ n - 1 \in 0 .. Len(s)
  BY <1>0
<1>6. f = [n \in 0 .. Len(s) |-> IF n = 0 THEN 0 ELSE f[n - 1] * b + s[n]]
  <2>1. ASSUME NEW n \in 0 .. Len(s)
        PROVE  f[n] = IF n = 0 THEN 0 ELSE f[n - 1] * b + s[n]
    BY <1>3, <1>4, <1>5
  <2>2. f = [n \in 0 .. Len(s) |-> f[n]]
    OBVIOUS
  <2> HIDE DEF f
  <2> QED
    BY <2>1, <2>2, Zenon
<1> DEFINE V == Values(b, s)
<1>7. V = [n \in 0 .. Len(s) |-> IF n = 0 THEN 0 ELSE V[n - 1] * b + s[n]]
  <2> HIDE DEF f
  <2> QED
    BY <1>6 DEF Values
<1> HIDE DEF V
<1>8. V[0] = 0 /\ \A n \in 1 .. Len(s) : V[n] = V[n - 1] * b + s[n]
  <2>1. \A n \in 0 .. Len(s) : V[n] = IF n = 0 THEN 0 ELSE V[n - 1] * b + s[n]
    BY <1>7
  <2>2. 0 \in 0 .. Len(s) /\ \A n \in 1 .. Len(s) : n \in 0 .. Len(s) /\ n # 0
    BY <1>0
  <2> QED
    BY <2>1, <2>2
<1> DEFINE S == {n \in Nat : n <= Len(s) => V[n] \in Nat}
<1>9. 0 \in S
  BY <1>8
<1>10. ASSUME NEW n \in Nat, n \in S PROVE n + 1 \in S
  <2> SUFFICES ASSUME n + 1 <= Len(s) PROVE V[n + 1] \in Nat
    OBVIOUS
  <2>1. V[n] \in Nat /\ n + 1 \in 1 .. Len(s) /\ n + 1 - 1 = n
    BY <1>0, <1>10
  <2>2. V[n + 1] = V[n + 1 - 1] * b + s[n + 1]
    BY <1>8, <2>1
  <2>3. s[n + 1] \in Nat
    BY <1>0, <2>1
  <2>4. V[n] * b + s[n + 1] \in Nat
    BY <2>1, <2>3, Linear
  <2> QED
    BY <2>1, <2>2, <2>4
<1>11. Nat \subseteq S
  <2> HIDE DEF S
  <2> QED
    BY <1>9, <1>10, SetInduction
<1>12. \A n \in 0 .. Len(s) : V[n] \in Nat
  BY <1>11
<1>13. V \in [0 .. Len(s) -> Nat]
  BY <1>7, <1>12
<1> QED
  BY <1>8, <1>13 DEF V, Value

LEMMA ValueAppend ==
    ASSUME NEW b \in Nat, NEW s \in Seq(Nat), NEW x \in Nat
    PROVE  Value(b, Append(s, x)) = Value(b, s) * b + x
<1> DEFINE t == Append(s, x)
           P == Values(b, s)
           Q == Values(b, t)
           S == {n \in Nat : n <= Len(s) => Q[n] = P[n]}
<1>1. /\ t \in Seq(Nat) /\ Len(t) = Len(s) + 1 /\ t[Len(s) + 1] = x
      /\ \A n \in 1 .. Len(s) : t[n] = s[n]
      /\ Len(s) \in Nat
  OBVIOUS
<1> HIDE DEF t
<1>2. /\ P[0] = 0 /\ \A n \in 1 .. Len(s) : P[n] = P[n - 1] * b + s[n]
      /\ Q[0] = 0 /\ \A n \in 1 .. Len(s) + 1 : Q[n] = Q[n - 1] * b + t[n]
      /\ Value(b, s) = P[Len(s)] /\ Value(b, t) = Q[Len(s) + 1]
  <2>1. /\ P[0] = 0 /\ \A n \in 1 .. Len(s) : P[n] = P[n - 1] * b + s[n]
        /\ Value(b, s) = P[Len(s)]
    BY ValuesFacts
  <2>2. /\ Q[0] = 0 /\ \A n \in 1 .. Len(t) : Q[n] = Q[n - 1] * b + t[n]
        /\ Value(b, t) = Q[Len(t)]
    BY <1>1, ValuesFacts
  <2> QED
    BY <1>1, <2>1, <2>2
<1> HIDE DEF P, Q
<1>3. 0 \in S
  BY <1>2
<1>4. ASSUME NEW n \in Nat, n \in S PROVE n + 1 \in S
  <2> SUFFICES ASSUME n + 1 <= Len(s) PROVE Q[n + 1] = P[n + 1]
    OBVIOUS
  <2>1. Q[n] = P[n] /\ n + 1 \in 1 .. Len(s) /\ n + 1 \in 1 .. Len(s) + 1 /\ n + 1 - 1 = n
    BY <1>1, <1>4
  <2>2. P[n + 1] = P[n] * b + s[n + 1] /\ Q[n + 1] = Q[n] * b + t[n + 1]
    BY <1>2, <2>1
  <2> QED
    BY <1>1, <2>1, <2>2
<1>5. Q[Len(s)] = P[Len(s)]
  <2>1. Nat \subseteq S
    <3> HIDE DEF S
    <3> QED
      BY <1>3, <1>4, SetInduction
  <2> QED
    BY <1>1, <2>1
<1>6. Len(s) + 1 \in 1 .. Len(s) + 1 /\ Len(s) + 1 - 1 = Len(s)
  BY <1>1
<1>7. Q[Len(s) + 1] = Q[Len(s)] * b + t[Len(s) + 1]
  BY <1>2, <1>6
<1> QED
  BY <1>1, <1>2, <1>5, <1>7 DEF t

LEMMA ZerosFacts ==
    ASSUME NEW k \in Nat, NEW b \in Nat \ {0, 1}
    PROVE  /\ Zeros(k) \in Seq(0 .. b - 1) /\ Zeros(k) \in Seq(Nat)
           /\ Len(Zeros(k)) = k /\ \A i \in 1 .. k : Zeros(k)[i] = 0
  BY DEF Zeros

(* The number of leading zeros, by what it is.                             *)
LEMMA LeadingFacts ==
    ASSUME NEW s \in Seq(Nat)
    PROVE  /\ LeadingZeros(s) \in 0 .. Len(s)
           /\ \A i \in 1 .. LeadingZeros(s) : s[i] = 0
           /\ LeadingZeros(s) < Len(s) => s[LeadingZeros(s) + 1] # 0
<1> DEFINE I == {i \in 1 .. Len(s) : s[i] # 0}
           first == SelectInSeq(s, LAMBDA x : x # 0)
<1>1. Len(s) \in Nat
  OBVIOUS
<1>2. first = IF I # {} THEN Min(I) ELSE 0
  BY DEF SelectInSeq
<1>3. LeadingZeros(s) = IF first = 0 THEN Len(s) ELSE first - 1
  BY DEF LeadingZeros
<1> HIDE DEF first
<1>4. CASE I = {}
  BY <1>1, <1>2, <1>3, <1>4
<1>5. CASE I # {}
  <2>1. \E n \in I : \A m \in I : n <= m
    <3>1. I \subseteq Nat
      OBVIOUS
    <3> HIDE DEF I
    <3> QED
      BY <1>5, <3>1, LeastExists
  <2>2. Min(I) \in I /\ \A m \in I : Min(I) <= m
    <3> HIDE DEF I
    <3> QED
      BY <2>1 DEF Min
  <2> DEFINE f == Min(I)
  <2>3. f \in 1 .. Len(s) /\ s[f] # 0 /\ \A i \in 1 .. Len(s) : s[i] # 0 => f <= i
    BY <2>2
  <2>4. LeadingZeros(s) = f - 1
    BY <1>2, <1>3, <1>5, <2>3
  <2> HIDE DEF f
  <2> QED
    BY <1>1, <2>3, <2>4
<1> QED
  BY <1>4, <1>5

LEMMA LeadingUnique ==
    ASSUME NEW s \in Seq(Nat), NEW k \in 0 .. Len(s),
           \A i \in 1 .. k : s[i] = 0, k < Len(s) => s[k + 1] # 0
    PROVE  LeadingZeros(s) = k
<1> DEFINE z == LeadingZeros(s)
<1>1. Len(s) \in Nat
  OBVIOUS
<1>2. /\ z \in 0 .. Len(s) /\ \A i \in 1 .. z : s[i] = 0
      /\ z < Len(s) => s[z + 1] # 0
  BY LeadingFacts
<1> HIDE DEF z
<1>3. ~ (z < k)
  BY <1>1, <1>2
<1>4. ~ (k < z)
  BY <1>1, <1>2
<1> QED
  BY <1>1, <1>2, <1>3, <1>4 DEF z

LEMMA ZerosAppend ==
    ASSUME NEW k \in Nat
    PROVE  Zeros(k + 1) = Append(Zeros(k), 0)
<1>1. Zeros(k) \in Seq(Nat) /\ Len(Zeros(k)) = k /\ \A i \in 1 .. k : Zeros(k)[i] = 0
  BY ZerosFacts
<1>2. /\ Zeros(k + 1) \in Seq(Nat) /\ Len(Zeros(k + 1)) = k + 1
      /\ \A i \in 1 .. k + 1 : Zeros(k + 1)[i] = 0
  BY ZerosFacts
<1> DEFINE z == Zeros(k)
           t == Append(z, 0)
<1> HIDE DEF z
<1>3. t \in Seq(Nat) /\ Len(t) = k + 1 /\ t[k + 1] = 0 /\ \A i \in 1 .. k : t[i] = z[i]
  BY <1>1, AppendFacts DEF z
<1> HIDE DEF t
<1>4. \A i \in 1 .. k + 1 : t[i] = Zeros(k + 1)[i]
  BY <1>1, <1>2, <1>3 DEF z
<1> QED
  BY <1>2, <1>3, <1>4, SameSequence DEF t, z

LEMMA ValueZeros ==
    ASSUME NEW b \in Nat
    PROVE  \A k \in Nat : Value(b, Zeros(k)) = 0
<1> DEFINE S == {k \in Nat : Value(b, Zeros(k)) = 0}
<1>1. 0 \in S
  <2>1. Zeros(0) \in Seq(Nat) /\ Len(Zeros(0)) = 0
    BY ZerosFacts
  <2> QED
    BY <2>1, ValuesFacts
<1>2. ASSUME NEW k \in Nat, k \in S PROVE k + 1 \in S
  <2>1. Zeros(k) \in Seq(Nat)
    BY ZerosFacts
  <2>2. Value(b, Zeros(k + 1)) = Value(b, Zeros(k)) * b + 0
    BY <2>1, ZerosAppend, ValueAppend
  <2> QED
    BY <1>2, <2>2
<1>3. Nat \subseteq S
  <2> HIDE DEF S
  <2> QED
    BY <1>1, <1>2, SetInduction
<1> QED
  BY <1>3

(* Reading the digits of n back, behind any zeros.                         *)
LEMMA ReadDigits ==
    ASSUME NEW b \in Nat \ {0, 1}, NEW k \in Nat
    PROVE  \A n \in Nat : /\ Value(b, Zeros(k) \o Digits(b)[n]) = n
                          /\ LeadingZeros(Zeros(k) \o Digits(b)[n]) = k
<1> DEFINE D(n) == Digits(b)[n]
           W(n) == Zeros(k) \o D(n)
           S == {n \in Nat : /\ Value(b, W(n)) = n
                             /\ n # 0 => Len(D(n)) > 0 /\ D(n)[1] # 0}
<1>1. /\ Zeros(k) \in Seq(Nat) /\ Len(Zeros(k)) = k /\ \A i \in 1 .. k : Zeros(k)[i] = 0
      /\ Value(b, Zeros(k)) = 0
  BY ZerosFacts, ValueZeros
<1>2. /\ D(0) = <<>> /\ \A n \in Nat : n # 0 => D(n) = Append(D(n \div b), n % b)
      /\ \A n \in Nat : D(n) \in Seq(Nat)
  BY DigitsFacts, BytesAreNumbers
<1>3. \A n \in Nat : n \div b \in Nat /\ n % b \in Nat /\ n = (n \div b) * b + (n % b)
                     /\ (n # 0 => n \div b < n) /\ (n \div b = 0 => n % b = n)
  BY Division
<1> HIDE DEF D
<1>4. ASSUME NEW n \in Nat, \A m \in Nat : m < n => m \in S PROVE n \in S
  <2>1. CASE n = 0
    <3>1. W(n) = Zeros(k)
      BY <1>1, <1>2, <2>1, ConcatEmpty
    <3> QED
      BY <1>1, <2>1, <3>1
  <2>2. CASE n # 0
    <3> DEFINE q == n \div b
               r == n % b
    <3>1. q \in S /\ q \in Nat /\ r \in Nat /\ n = q * b + r /\ (q = 0 => r = n)
      BY <1>3, <1>4, <2>2
    <3>2. D(n) = Append(D(q), r) /\ D(q) \in Seq(Nat)
      BY <1>2, <2>2, <3>1
    <3> HIDE DEF q, r
    <3>3. W(n) = Append(W(q), r) /\ W(q) \in Seq(Nat)
      <4>1. Zeros(k) \o Append(D(q), r) = Append(Zeros(k) \o D(q), r)
        BY <1>1, <3>1, <3>2, ConcatAppend, SMTT(30)
      <4>2. Zeros(k) \o D(q) \in Seq(Nat)
        BY <1>1, <3>2, ConcatFacts
      <4> QED
        BY <3>2, <4>1, <4>2
    <3>4. Value(b, W(q)) = q
      BY <3>1
    <3>5. Value(b, W(n)) = n
      <4> HIDE DEF W
      <4>1. Value(b, Append(W(q), r)) = Value(b, W(q)) * b + r
        BY <3>1, <3>3, ValueAppend
      <4> QED
        BY <3>1, <3>3, <3>4, <4>1
    <3>6. Len(D(n)) > 0 /\ D(n)[1] # 0
      <4>0. /\ Len(D(n)) = Len(D(q)) + 1 /\ Len(D(q)) \in Nat /\ D(n)[Len(D(q)) + 1] = r
            /\ \A i \in 1 .. Len(D(q)) : D(n)[i] = D(q)[i]
        BY <3>1, <3>2, AppendFacts, SMTT(30)
      <4>1. CASE q = 0
        <5>1. Len(D(q)) = 0
          BY <1>2, <4>1
        <5> QED
          BY <2>2, <3>1, <4>0, <4>1, <5>1
      <4>2. CASE q # 0
        <5>1. Len(D(q)) > 0 /\ D(q)[1] # 0
          BY <3>1, <4>2
        <5> QED
          BY <4>0, <5>1
      <4> QED
        BY <4>1, <4>2
    <3> QED
      BY <3>5, <3>6
  <2> QED
    BY <2>1, <2>2
<1>5. Nat \subseteq S
  <2> HIDE DEF S
  <2> QED
    BY <1>4, StrongInduction
<1>6. ASSUME NEW n \in Nat PROVE LeadingZeros(W(n)) = k
  <2>1. D(n) \in Seq(Nat) /\ (n # 0 => Len(D(n)) > 0 /\ D(n)[1] # 0)
        /\ (n = 0 => D(n) = <<>>)
    BY <1>2, <1>5
  <2>2. /\ W(n) \in Seq(Nat) /\ Len(W(n)) = k + Len(D(n)) /\ Len(D(n)) \in Nat
        /\ \A i \in 1 .. k : W(n)[i] = 0
        /\ Len(D(n)) > 0 => W(n)[k + 1] = D(n)[1]
    <3> DEFINE z == Zeros(k)
               e == D(n)
    <3>1. z \in Seq(Nat) /\ Len(z) = k /\ (\A i \in 1 .. k : z[i] = 0) /\ e \in Seq(Nat)
      BY <1>1, <2>1
    <3> HIDE DEF z, e
    <3>2. /\ z \o e \in Seq(Nat) /\ Len(z \o e) = k + Len(e) /\ Len(e) \in Nat
          /\ \A i \in 1 .. k : (z \o e)[i] = 0
          /\ \A i \in 1 .. Len(e) : (z \o e)[k + i] = e[i]
      BY <3>1, ConcatFacts
    <3>3. Len(e) > 0 => (z \o e)[k + 1] = e[1]
      BY <3>2
    <3> QED
      BY <3>2, <3>3 DEF z, e
  <2> HIDE DEF W
  <2>3. k \in 0 .. Len(W(n)) /\ (k < Len(W(n)) => W(n)[k + 1] # 0)
    BY <2>1, <2>2
  <2> QED
    BY <2>2, <2>3, LeadingUnique
<1> QED
  BY <1>5, <1>6 DEF D

LEMMA SplitLast ==
    ASSUME NEW b \in Nat, NEW m \in Nat, NEW s \in Seq(0 .. b - 1), Len(s) = m + 1
    PROVE  \E t \in Seq(0 .. b - 1), x \in 0 .. b - 1 : Len(t) = m /\ s = Append(t, x)
<1> DEFINE t == [i \in 1 .. m |-> s[i]]
<1>1. \A i \in 1 .. m + 1 : s[i] \in 0 .. b - 1
  OBVIOUS
<1>2. t \in Seq(0 .. b - 1) /\ Len(t) = m /\ \A i \in 1 .. m : t[i] = s[i]
  BY <1>1
<1> HIDE DEF t
<1>3. s[m + 1] \in 0 .. b - 1
  BY <1>1
<1>4. s = Append(t, s[m + 1])
  <2> DEFINE x == s[m + 1]
             u == Append(t, x)
  <2>1. /\ u \in Seq(Nat) /\ Len(u) = m + 1 /\ u[m + 1] = x
        /\ \A i \in 1 .. m : u[i] = t[i]
    <3> HIDE DEF x
    <3>1. t \in Seq(Nat) /\ x \in Nat
      BY <1>2, <1>3, BytesAreNumbers DEF x
    <3> QED
      BY <1>2, <3>1, AppendFacts
  <2>2. s \in Seq(Nat)
    BY BytesAreNumbers
  <2> HIDE DEF u
  <2>3. ASSUME NEW i \in 1 .. Len(s) PROVE s[i] = u[i]
    <3>1. CASE i = m + 1
      BY <2>1, <3>1
    <3>2. CASE i \in 1 .. m
      BY <1>2, <2>1, <3>2
    <3> QED
      BY <3>1, <3>2
  <2>4. s = u
    BY <2>1, <2>2, <2>3, SameSequence
  <2> QED
    BY <2>4 DEF u
<1> QED
  BY <1>2, <1>3, <1>4

(* A sequence of digits is its leading zeros and the digits of its number. *)
LEMMA Canonical ==
    ASSUME NEW b \in Nat \ {0, 1}
    PROVE  \A s \in Seq(0 .. b - 1) :
               s = Zeros(LeadingZeros(s)) \o Digits(b)[Value(b, s)]
<1> DEFINE D(n) == Digits(b)[n]
           Is(s) == s = Zeros(LeadingZeros(s)) \o D(Value(b, s))
           S == {m \in Nat : \A s \in Seq(0 .. b - 1) : Len(s) = m => Is(s)}
<1>1. /\ D(0) = <<>> /\ \A n \in Nat : n # 0 => D(n) = Append(D(n \div b), n % b)
      /\ \A n \in Nat : D(n) \in Seq(Nat)
  BY DigitsFacts, BytesAreNumbers
<1> HIDE DEF D
<1>2. 0 \in S
  <2> SUFFICES ASSUME NEW s \in Seq(0 .. b - 1), Len(s) = 0 PROVE Is(s)
    OBVIOUS
  <2>1. s = <<>> /\ s \in Seq(Nat)
    <3>1. b \in Nat
      OBVIOUS
    <3> QED
      BY <3>1, BytesAreNumbers
  <2>2. LeadingZeros(s) = 0
    <3>1. LeadingZeros(s) \in 0 .. Len(s)
      BY <2>1, LeadingFacts
    <3> QED
      BY <3>1
  <2>3. Value(b, s) = 0
    <3>1. b \in Nat /\ Len(s) = 0
      OBVIOUS
    <3>2. Value(b, s) = Values(b, s)[Len(s)] /\ Values(b, s)[0] = 0
      BY <2>1, <3>1, ValuesFacts
    <3> QED
      BY <3>1, <3>2
  <2>4. Zeros(0) = <<>>
    BY DEF Zeros
  <2> QED
    <3>1. Zeros(0) \o D(0) = <<>>
      BY <1>1, <2>4
    <3> QED
      BY <2>1, <2>2, <2>3, <3>1
<1>3. ASSUME NEW m \in Nat, m \in S PROVE m + 1 \in S
  <2> SUFFICES ASSUME NEW s \in Seq(0 .. b - 1), Len(s) = m + 1 PROVE Is(s)
    OBVIOUS
  <2>1. PICK t \in Seq(0 .. b - 1), x \in 0 .. b - 1 : Len(t) = m /\ s = Append(t, x)
    BY SplitLast
  <2> DEFINE k == LeadingZeros(t)
             v == Value(b, t)
             w == Value(b, s)
             z == Zeros(k)
  <2>2. s \in Seq(Nat) /\ t \in Seq(Nat) /\ x \in Nat /\ b \in Nat /\ Len(t) = m
    <3>1. b \in Nat /\ x \in Nat
      OBVIOUS
    <3> QED
      BY <2>1, <3>1, BytesAreNumbers
  <2>3. v \in Nat /\ w = v * b + x
    <3>1. v \in Nat
      BY <2>2, ValuesFacts
    <3> QED
      BY <2>1, <2>2, <3>1, ValueAppend
  <2>4. w \in Nat /\ w \div b = v /\ w % b = x
    <3> HIDE DEF v, w
    <3> QED
      BY <2>3, DivisionUnique
  <2>5. /\ k \in 0 .. m /\ \A i \in 1 .. k : t[i] = 0
        /\ k < m => t[k + 1] # 0
    <3>1. /\ k \in 0 .. Len(t) /\ \A i \in 1 .. k : t[i] = 0
          /\ k < Len(t) => t[k + 1] # 0
      BY <2>2, LeadingFacts
    <3> QED
      BY <2>2, <3>1
  <2>6. t = z \o D(v)
    BY <1>3, <2>1
  <2>7. z \in Seq(Nat) /\ Len(z) = k /\ \A i \in 1 .. k : z[i] = 0
    <3>1. k \in Nat
      BY <2>5
    <3> HIDE DEF k
    <3> QED
      BY <3>1, ZerosFacts
  <2>8. s[m + 1] = x /\ \A i \in 1 .. m : s[i] = t[i]
    BY <2>1, <2>2, AppendFacts
  <2>9. Value(b, z) = 0
    <3>1. k \in Nat
      BY <2>5
    <3> HIDE DEF k
    <3> QED
      BY <2>2, <3>1, ValueZeros
  <2>10. D(v) \in Seq(Nat) /\ Len(D(v)) \in Nat /\ m = k + Len(D(v))
    <3> HIDE DEF v, z, k
    <3>1. D(v) \in Seq(Nat)
      BY <1>1, <2>3
    <3>2. Len(z \o D(v)) = Len(z) + Len(D(v)) /\ Len(D(v)) \in Nat
      BY <2>7, <3>1, ConcatFacts
    <3> QED
      BY <2>2, <2>6, <2>7, <3>1, <3>2
  <2> HIDE DEF k, v, w, z, Is
  <2>11. k = m => t = z
    <3> SUFFICES ASSUME k = m PROVE t = z
      OBVIOUS
    <3>1. \A i \in 1 .. Len(t) : t[i] = z[i]
      BY <2>1, <2>5, <2>7
    <3> QED
      BY <2>1, <2>2, <2>7, <3>1, SameSequence
  <2>12. CASE w # 0
    <3>1. k < m + 1 /\ k \in 0 .. m + 1 /\ (\A i \in 1 .. k : s[i] = 0) /\ s[k + 1] # 0
      <4>1. CASE k = m
        <5>1. v = 0
          BY <2>9, <2>11, <4>1 DEF v
        <5>2. x # 0
          BY <2>3, <2>12, <5>1
        <5>3. \A i \in 1 .. k : s[i] = 0
          BY <2>5, <2>8, <4>1
        <5>4. s[k + 1] # 0
          BY <2>8, <4>1, <5>2
        <5> QED
          BY <4>1, <5>3, <5>4
      <4>2. CASE k < m
        BY <2>5, <2>8, <4>2
      <4> QED
        BY <2>5, <4>1, <4>2
    <3>2. LeadingZeros(s) = k
      BY <2>2, <3>1, LeadingUnique
    <3>3. D(w) = Append(D(v), x)
      BY <1>1, <2>4, <2>12
    <3>4. z \o Append(D(v), x) = Append(z \o D(v), x)
      BY <2>2, <2>7, <2>10, ConcatAppend
    <3> QED
      BY <2>1, <2>6, <3>2, <3>3, <3>4 DEF Is, w, z
  <2>13. CASE w = 0
    <3>1. v = 0 /\ x = 0
      <4>1. 0 \div b = 0 /\ 0 % b = 0
        OBVIOUS
      <4> QED
        BY <2>4, <2>13, <4>1
    <3>2. t = z /\ k = m
      <4>1. D(v) = <<>>
        BY <1>1, <3>1
      <4> QED
        BY <2>6, <2>7, <2>10, <4>1, ConcatEmpty
    <3>3. s = Zeros(m + 1)
      BY <2>1, <3>1, <3>2, ZerosAppend DEF z
    <3>4. LeadingZeros(s) = m + 1
      <4>1. m + 1 \in Nat /\ m + 1 \in 0 .. Len(s) /\ ~ (m + 1 < Len(s))
        OBVIOUS
      <4>2. \A i \in 1 .. m + 1 : s[i] = 0
        BY <3>3, <4>1, ZerosFacts
      <4> QED
        BY <2>2, <4>1, <4>2, LeadingUnique
    <3>5. D(w) = <<>> /\ s \o <<>> = s
      BY <1>1, <2>2, <2>13, ConcatEmpty
    <3> QED
      BY <3>3, <3>4, <3>5 DEF Is, w
  <2> QED
    BY <2>12, <2>13
<1>4. Nat \subseteq S
  <2> HIDE DEF S
  <2> QED
    BY <1>2, <1>3, SetInduction
<1>5. ASSUME NEW s \in Seq(0 .. b - 1) PROVE Is(s)
  <2>1. Len(s) \in S
    BY <1>4
  <2> QED
    BY <2>1
<1> QED
  BY <1>5 DEF D
(* A sequence of digits in one base, written in another, is read back.     *)
Recoded(e, s, a, b) == e = Zeros(LeadingZeros(s)) \o Digits(b)[Value(a, s)]

LEMMA Recode ==
    ASSUME NEW a \in Nat \ {0, 1}, NEW b \in Nat \ {0, 1}, NEW s \in Seq(0 .. a - 1),
           NEW e, Recoded(e, s, a, b)
    PROVE  e \in Seq(0 .. b - 1) /\ Recoded(s, e, b, a)
<1> DEFINE k == LeadingZeros(s)
           v == Value(a, s)
<1>1. a \in Nat /\ b \in Nat /\ s \in Seq(Nat)
  <2>1. a \in Nat /\ b \in Nat
    OBVIOUS
  <2> QED
    BY <2>1, BytesAreNumbers
<1>2. k \in Nat
  <2>1. k \in 0 .. Len(s) /\ Len(s) \in Nat
    BY <1>1, LeadingFacts
  <2> QED
    BY <2>1
<1>3. v \in Nat
  <2>1. Values(a, s) \in [0 .. Len(s) -> Nat] /\ v = Values(a, s)[Len(s)] /\ Len(s) \in Nat
    BY <1>1, ValuesFacts
  <2>2. Len(s) \in 0 .. Len(s)
    BY <2>1
  <2> HIDE DEF v
  <2> QED
    BY <2>1, <2>2
<1>4. s = Zeros(k) \o Digits(a)[v]
  BY Canonical
<1> HIDE DEF k, v
<1>5. e = Zeros(k) \o Digits(b)[v]
  BY DEF k, v, Recoded
<1>6. Zeros(k) \in Seq(0 .. b - 1) /\ Digits(b)[v] \in Seq(0 .. b - 1)
  BY <1>2, <1>3, ZerosFacts, DigitsFacts
<1>7. e \in Seq(0 .. b - 1)
  <2> DEFINE S == 0 .. b - 1
             z == Zeros(k)
             d == Digits(b)[v]
  <2>1. z \in Seq(S) /\ d \in Seq(S)
    BY <1>6
  <2> HIDE DEF S, z, d
  <2>2. z \o d \in Seq(S)
    BY <2>1
  <2> QED
    BY <1>5, <2>2 DEF S, z, d
<1>8. Value(b, e) = v /\ LeadingZeros(e) = k
  BY <1>2, <1>3, <1>5, ReadDigits
<1> QED
  BY <1>4, <1>7, <1>8 DEF Recoded

-----------------------------------------------------------------------------
(* Base58.                                                                 *)

(* What the job says, and nothing before.                                  *)
ResultIsOfJob ==
    /\ job \in Jobs
    /\ job.kind = "encode" => result \in {<<>>, EncodeBase58(job.bytes)}
    /\ job.kind = "decode" => result \in {<<>>, DecodeBase58(job.text)}
    /\ job.kind = "address" => result \in {<<>>, <<findProgramAddress(job.onCurve)>>}
    /\ job.kind = "transfer" =>
          result \in {<<>>, Error}
                     \cup {BuildNativeTransferTx(job.key, job.to, n, Blockhash) :
                              n \in toLamports(job.half)}

LEMMA JobsKinds ==
    ASSUME NEW j \in Jobs
    PROVE  /\ j.kind = "encode" => j.bytes \in Bytes
           /\ j.kind = "decode" => j.text \in Texts
           /\ j.kind = "address" => j.onCurve \in SUBSET (0 .. MaxBump)
           /\ j.kind = "transfer" => j.key \in Keys /\ j.to \in Keys /\ j.half \in Halves
<1>1. CASE j \in {[kind |-> "encode", bytes |-> b] : b \in Bytes}
  BY <1>1
<1>2. CASE j \in {[kind |-> "decode", text |-> t] : t \in Texts}
  BY <1>2
<1>3. CASE j \in {[kind |-> "address", onCurve |-> c] : c \in SUBSET (0 .. MaxBump)}
  <2>1. PICK c \in SUBSET (0 .. MaxBump) : j = [kind |-> "address", onCurve |-> c]
    BY <1>3
  <2> QED
    BY <2>1
<1>4. CASE j \in {[kind |-> "transfer", key |-> k, to |-> t, half |-> h] :
                      k \in Keys, t \in Keys, h \in Halves}
  <2>1. PICK k \in Keys, t \in Keys, h \in Halves :
           j = [kind |-> "transfer", key |-> k, to |-> t, half |-> h]
    BY <1>4
  <2> QED
    BY <2>1
<1> QED
  BY <1>1, <1>2, <1>3, <1>4 DEF Jobs

LEMMA ResultLemma == EncodingSpec => []ResultIsOfJob
<1>1. EncodingInit => ResultIsOfJob
  BY DEF EncodingInit, ResultIsOfJob
<1>2. ResultIsOfJob /\ [EncodingNext]_encVars => ResultIsOfJob'
  <2> SUFFICES ASSUME ResultIsOfJob, [EncodingNext]_encVars PROVE ResultIsOfJob'
    OBVIOUS
  <2>1. CASE UNCHANGED encVars
    BY <2>1 DEF encVars, ResultIsOfJob
  <2>2. CASE EncodingNext
    <3>1. job' = job /\ job \in Jobs
      BY <2>2 DEF EncodingNext, ResultIsOfJob
    <3>2. CASE Encode
      BY <3>1, <3>2 DEF Encode, ResultIsOfJob
    <3>3. CASE Decode58
      BY <3>1, <3>3 DEF Decode58, ResultIsOfJob
    <3>4. CASE Find
      BY <3>1, <3>4 DEF Find, ResultIsOfJob
    <3>5. CASE Build
      BY <3>1, <3>5 DEF Build, ResultIsOfJob
    <3> QED
      BY <2>2, <3>2, <3>3, <3>4, <3>5 DEF EncodingNext
  <2> QED
    BY <2>1, <2>2
<1> QED
  BY <1>1, <1>2, PTL DEF EncodingSpec

(* Base58 loses nothing in either direction, whatever the input, for any   *)
(* two bases (base58.go:26-83).                                            *)
THEOREM Base58 == EncodingSpec => []Base58RoundTrip
<1>0. Byte \in Nat \ {0, 1} /\ Radix \in Nat \ {0, 1}
  BY EncodingAssumption
<1>1. ResultIsOfJob => Base58RoundTrip
  <2> SUFFICES ASSUME ResultIsOfJob PROVE Base58RoundTrip
    OBVIOUS
  <2>1. ASSUME job.kind = "encode", result # <<>> PROVE DecodeBase58(result) = job.bytes
    <3> DEFINE s == job.bytes
    <3>1. s \in Seq(0 .. Byte - 1)
      BY <2>1, JobsKinds, EncodingAssumption DEF ResultIsOfJob
    <3>2. result = Zeros(LeadingZeros(s)) \o Digits(Radix)[Value(Byte, s)]
      BY <2>1 DEF ResultIsOfJob, EncodeBase58
    <3> HIDE DEF s
    <3>3. /\ result \in Seq(0 .. Radix - 1)
          /\ s = Zeros(LeadingZeros(result)) \o Digits(Byte)[Value(Radix, result)]
      <4>1. Recoded(result, s, Byte, Radix)
        BY <3>2 DEF Recoded
      <4>2. result \in Seq(0 .. Radix - 1) /\ Recoded(s, result, Radix, Byte)
        BY <1>0, <3>1, <4>1, Recode
      <4> QED
        BY <4>2 DEF Recoded
    <3>4. \A i \in DOMAIN result : result[i] \in 0 .. Radix - 1
      <4> DEFINE S == 0 .. Radix - 1
      <4>1. result \in Seq(S)
        BY <3>3
      <4> HIDE DEF S
      <4>2. \A i \in DOMAIN result : result[i] \in S
        BY <4>1
      <4> QED
        BY <4>2 DEF S
    <3> QED
      BY <2>1, <3>3, <3>4 DEF DecodeBase58, s
  <2>2. ASSUME job.kind = "decode", result \notin {<<>>, Error}
        PROVE  EncodeBase58(result) = job.text
    <3> DEFINE s == job.text
    <3>1. s \in Seq(Nat)
      BY <2>2, JobsKinds, EncodingAssumption DEF ResultIsOfJob
    <3>2. result = DecodeBase58(s)
      BY <2>2 DEF ResultIsOfJob
    <3> HIDE DEF s
    <3>3. /\ \A i \in DOMAIN s : s[i] \in 0 .. Radix - 1
          /\ result = Zeros(LeadingZeros(s)) \o Digits(Byte)[Value(Radix, s)]
      BY <2>2, <3>2 DEF DecodeBase58
    <3>4. s \in Seq(0 .. Radix - 1)
      <4> DEFINE S == 0 .. Radix - 1
      <4>1. \A i \in DOMAIN s : s[i] \in S
        BY <3>3
      <4> HIDE DEF S
      <4>2. s \in Seq(S)
        BY <3>1, <4>1
      <4> QED
        BY <4>2 DEF S
    <3>5. s = Zeros(LeadingZeros(result)) \o Digits(Radix)[Value(Byte, result)]
      <4>1. Recoded(result, s, Radix, Byte)
        BY <3>3 DEF Recoded
      <4>2. Recoded(s, result, Byte, Radix)
        BY <1>0, <3>4, <4>1, Recode
      <4> QED
        BY <4>2 DEF Recoded
    <3> QED
      BY <3>5 DEF EncodeBase58, s
  <2> QED
    BY <2>1, <2>2 DEF Base58RoundTrip
<1> QED
  BY <1>1, ResultLemma, PTL

-----------------------------------------------------------------------------
(* The bump of an associated token address.                                *)

LEMMA FindFacts ==
    ASSUME NEW c \in SUBSET (0 .. MaxBump)
    PROVE  LET v == findProgramAddress(c)
           IN \/ v = -1 /\ \A bump \in 0 .. MaxBump : bump \in c
              \/ /\ v \in (0 .. MaxBump) \ c
                 /\ \A bump \in 0 .. MaxBump : bump > v => bump \in c
<1> DEFINE a0 == IF 0 \notin c THEN 0 ELSE -1
           p == [n \in Nat |-> IF n = 0 THEN 0 ELSE n - 1]
           step == [n \in Nat |-> [v \in Int |-> IF n \notin c THEN n ELSE v]]
<1>0. MaxBump \in Nat
  BY EncodingAssumption
<1>1. a0 \in Int /\ p \in [Nat -> Nat] /\ (\A n \in Nat : n # 0 => p[n] < n)
      /\ step \in [Nat -> [Int -> Int]]
  OBVIOUS
<1> HIDE DEF a0, p, step
<1>2. PICK d \in [Nat -> Int] :
         d[0] = a0 /\ \A n \in Nat : n # 0 => d[n] = step[n][d[p[n]]]
  <2>1. Shrinks(p) /\ Steps(step, Int)
    BY <1>1 DEF Shrinks, Steps
  <2>2. \E d : Solves(d, Int, a0, p, step)
    BY <1>1, <2>1, Recursion
  <2> QED
    BY <2>2 DEF Solves
<1>3. ASSUME NEW n \in Nat, n # 0 PROVE d[n] = IF n \notin c THEN n ELSE d[n - 1]
  <2>1. p[n] = n - 1 /\ n - 1 \in Nat
    BY <1>3 DEF p
  <2>2. step[n][d[n - 1]] = IF n \notin c THEN n ELSE d[n - 1]
    BY <2>1 DEF step
  <2> QED
    BY <1>2, <1>3, <2>1, <2>2
<1> DEFINE f == [n \in 0 .. MaxBump |-> d[n]]
<1>4. f = [n \in 0 .. MaxBump |-> IF n \notin c THEN n ELSE IF n = 0 THEN -1 ELSE f[n - 1]]
  <2>1. ASSUME NEW n \in 0 .. MaxBump
        PROVE  f[n] = IF n \notin c THEN n ELSE IF n = 0 THEN -1 ELSE f[n - 1]
    <3>1. CASE n = 0
      BY <1>2, <3>1 DEF a0
    <3>2. CASE n # 0
      <4>1. n - 1 \in 0 .. MaxBump /\ n \in Nat
        BY <1>0, <3>2
      <4> QED
        BY <1>3, <3>2, <4>1
    <3> QED
      BY <3>1, <3>2
  <2> QED
    BY <2>1
<1> DEFINE F == CHOOSE g : g = [n \in 0 .. MaxBump |->
                                   IF n \notin c THEN n ELSE IF n = 0 THEN -1 ELSE g[n - 1]]
<1>5. F = [n \in 0 .. MaxBump |-> IF n \notin c THEN n ELSE IF n = 0 THEN -1 ELSE F[n - 1]]
  <2> HIDE DEF f
  <2> QED
    BY <1>4
<1>6. findProgramAddress(c) = F[MaxBump]
  BY DEF findProgramAddress
<1> HIDE DEF F
<1> DEFINE Is(v, n) == \/ v = -1 /\ \A bump \in 0 .. n : bump \in c
                       \/ /\ v \in (0 .. n) \ c
                          /\ \A bump \in 0 .. n : bump > v => bump \in c
           S == {n \in Nat : n <= MaxBump => Is(F[n], n)}
<1>7. \A n \in 0 .. MaxBump : F[n] = IF n \notin c THEN n ELSE IF n = 0 THEN -1 ELSE F[n - 1]
  BY <1>5
<1>8. 0 \in S
  <2>1. F[0] = IF 0 \notin c THEN 0 ELSE -1
    BY <1>0, <1>7
  <2>2. Is(F[0], 0)
    BY <2>1
  <2> QED
    BY <2>2
<1>9. ASSUME NEW n \in Nat, n \in S PROVE n + 1 \in S
  <2> SUFFICES ASSUME n + 1 <= MaxBump PROVE Is(F[n + 1], n + 1)
    OBVIOUS
  <2>1. Is(F[n], n)
    BY <1>0, <1>9
  <2>2. F[n + 1] = IF n + 1 \notin c THEN n + 1 ELSE F[n]
    <3>1. n + 1 \in 0 .. MaxBump /\ n + 1 # 0 /\ n + 1 - 1 = n
      BY <1>0
    <3> QED
      BY <1>7, <3>1
  <2>3. CASE n + 1 \notin c
    BY <2>2, <2>3
  <2>4. CASE n + 1 \in c
    <3>1. F[n + 1] = F[n] /\ \A bump \in 0 .. n + 1 : bump \in 0 .. n \/ bump = n + 1
      BY <2>2, <2>4
    <3> QED
      BY <2>1, <2>4, <3>1
  <2> QED
    BY <2>3, <2>4
<1>10. Nat \subseteq S
  <2> HIDE DEF S
  <2> QED
    BY <1>8, <1>9, SetInduction
<1>11. Is(F[MaxBump], MaxBump)
  BY <1>0, <1>10
<1> QED
  BY <1>6, <1>11

(* The highest bump off the curve is the one that is found, 0 included,    *)
(* for any number of bumps (address.go:48-61).                             *)
THEOREM HighestBump == EncodingSpec => []HighestBumpIsFound
<1>1. ResultIsOfJob => HighestBumpIsFound
  <2> SUFFICES ASSUME ResultIsOfJob, job.kind = "address", result # <<>>
               PROVE  IF \A bump \in 0 .. MaxBump : bump \in job.onCurve THEN result = <<-1>>
                      ELSE /\ result[1] \in (0 .. MaxBump) \ job.onCurve
                           /\ \A bump \in 0 .. MaxBump :
                                  bump > result[1] => bump \in job.onCurve
    BY DEF HighestBumpIsFound
  <2> DEFINE v == findProgramAddress(job.onCurve)
  <2>1. job.onCurve \in SUBSET (0 .. MaxBump) /\ result = <<v>>
    BY JobsKinds DEF ResultIsOfJob
  <2>2. \/ v = -1 /\ \A bump \in 0 .. MaxBump : bump \in job.onCurve
        \/ /\ v \in (0 .. MaxBump) \ job.onCurve
           /\ \A bump \in 0 .. MaxBump : bump > v => bump \in job.onCurve
    BY <2>1, FindFacts
  <2> HIDE DEF v
  <2> QED
    BY <2>1, <2>2
<1> QED
  BY <1>1, ResultLemma, PTL
-----------------------------------------------------------------------------
(* Parts of sequences.                                                     *)

LEMMA SubSeqFacts ==
    ASSUME NEW s \in Seq(Nat), NEW m \in Nat \ {0}, NEW n \in Nat, m <= n + 1, n <= Len(s)
    PROVE  /\ SubSeq(s, m, n) \in Seq(Nat) /\ Len(SubSeq(s, m, n)) = n - m + 1
           /\ \A i \in 1 .. n - m + 1 : SubSeq(s, m, n)[i] = s[m + i - 1]
  OBVIOUS

LEMMA MiddlePart ==
    ASSUME NEW s \in Seq(Nat), NEW t \in Seq(Nat), NEW u \in Seq(Nat)
    PROVE  SubSeq(s \o (t \o u), Len(s) + 1, Len(s) + Len(t)) = t
<1> DEFINE v == t \o u
           w == s \o v
           r == SubSeq(w, Len(s) + 1, Len(s) + Len(t))
<1>1. /\ v \in Seq(Nat) /\ Len(v) = Len(t) + Len(u) /\ Len(t) \in Nat /\ Len(u) \in Nat
      /\ \A i \in 1 .. Len(t) : v[i] = t[i]
  BY ConcatFacts
<1> HIDE DEF v
<1>2. /\ w \in Seq(Nat) /\ Len(w) = Len(s) + Len(v) /\ Len(s) \in Nat
      /\ \A i \in 1 .. Len(v) : w[Len(s) + i] = v[i]
  BY <1>1, ConcatFacts
<1> HIDE DEF w
<1>3. /\ r \in Seq(Nat) /\ Len(r) = Len(t)
      /\ \A i \in 1 .. Len(t) : r[i] = w[Len(s) + 1 + i - 1]
  <2>1. /\ Len(s) + 1 \in Nat \ {0} /\ Len(s) + Len(t) \in Nat
        /\ Len(s) + 1 <= Len(s) + Len(t) + 1 /\ Len(s) + Len(t) <= Len(w)
        /\ Len(s) + Len(t) - (Len(s) + 1) + 1 = Len(t)
    BY <1>1, <1>2
  <2>2. /\ r \in Seq(Nat) /\ Len(r) = Len(s) + Len(t) - (Len(s) + 1) + 1
        /\ \A i \in 1 .. Len(s) + Len(t) - (Len(s) + 1) + 1 : r[i] = w[Len(s) + 1 + i - 1]
    <3> DEFINE lo == Len(s) + 1
               hi == Len(s) + Len(t)
    <3>1. lo \in Nat \ {0} /\ hi \in Nat /\ lo <= hi + 1 /\ hi <= Len(w)
      BY <2>1
    <3> HIDE DEF lo, hi
    <3>2. /\ SubSeq(w, lo, hi) \in Seq(Nat) /\ Len(SubSeq(w, lo, hi)) = hi - lo + 1
          /\ \A i \in 1 .. hi - lo + 1 : SubSeq(w, lo, hi)[i] = w[lo + i - 1]
      BY <1>2, <3>1, SubSeqFacts
    <3> QED
      BY <3>2 DEF lo, hi
  <2> HIDE DEF r
  <2> QED
    BY <2>1, <2>2
<1> HIDE DEF r
<1>4. ASSUME NEW i \in 1 .. Len(t) PROVE r[i] = t[i]
  <2>1. Len(s) + 1 + i - 1 = Len(s) + i /\ i \in 1 .. Len(v)
    BY <1>1, <1>2
  <2> QED
    BY <1>1, <1>2, <1>3, <2>1
<1>5. r = t
  BY <1>3, <1>4, SameSequence
<1> QED
  BY <1>5 DEF r, w, v

LEMMA FirstPart ==
    ASSUME NEW s \in Seq(Nat), NEW t \in Seq(Nat)
    PROVE  SubSeq(s \o t, 1, Len(s)) = s
<1>1. <<>> \in Seq(Nat) /\ Len(<<>>) = 0 /\ Len(s) \in Nat /\ s \o t \in Seq(Nat)
  OBVIOUS
<1>2. SubSeq(<<>> \o (s \o t), Len(<<>>) + 1, Len(<<>>) + Len(s)) = s
  BY <1>1, MiddlePart
<1>3. <<>> \o (s \o t) = s \o t /\ Len(<<>>) + 1 = 1 /\ Len(<<>>) + Len(s) = Len(s)
  BY <1>1, ConcatEmpty
<1> QED
  BY <1>2, <1>3

LEMMA LastPart ==
    ASSUME NEW s \in Seq(Nat), NEW t \in Seq(Nat)
    PROVE  SubSeq(s \o t, Len(s) + 1, Len(s \o t)) = t
<1>1. <<>> \in Seq(Nat) /\ t \o <<>> = t /\ Len(s \o t) = Len(s) + Len(t)
  BY ConcatEmpty, ConcatFacts
<1>2. SubSeq(s \o (t \o <<>>), Len(s) + 1, Len(s) + Len(t)) = t
  BY <1>1, MiddlePart
<1> QED
  BY <1>1, <1>2

LEMMA ConsFacts ==
    ASSUME NEW x \in Nat, NEW s \in Seq(Nat)
    PROVE  /\ Cons(x, s) \in Seq(Nat) /\ Len(Cons(x, s)) = Len(s) + 1 /\ Len(s) \in Nat
           /\ Cons(x, s)[1] = x
           /\ \A i \in 1 .. Len(s) : Cons(x, s)[i + 1] = s[i]
<1>1. <<x>> \in Seq(Nat) /\ Len(<<x>>) = 1 /\ <<x>>[1] = x
  OBVIOUS
<1> DEFINE t == <<x>>
<1> HIDE DEF t
<1>2. /\ t \o s \in Seq(Nat) /\ Len(t \o s) = 1 + Len(s) /\ Len(s) \in Nat
      /\ \A i \in 1 .. 1 : (t \o s)[i] = t[i]
      /\ \A i \in 1 .. Len(s) : (t \o s)[1 + i] = s[i]
  BY <1>1, ConcatFacts DEF t
<1>3. (t \o s)[1] = x /\ Len(t \o s) = Len(s) + 1
      /\ \A i \in 1 .. Len(s) : (t \o s)[i + 1] = s[i]
  BY <1>1, <1>2 DEF t
<1> QED
  BY <1>2, <1>3 DEF t, Cons

(* The first element below a limit.                                        *)
LEMMA FirstBelow ==
    ASSUME NEW s \in Seq(Nat), NEW n \in 1 .. Len(s), NEW limit \in Nat, s[n] < limit,
           \A i \in 1 .. n - 1 : ~ (s[i] < limit)
    PROVE  SelectInSeq(s, LAMBDA x : x < limit) = n
<1> DEFINE I == {i \in 1 .. Len(s) : s[i] < limit}
<1>1. Len(s) \in Nat /\ n \in I /\ \A m \in I : n <= m
  OBVIOUS
<1>2. SelectInSeq(s, LAMBDA x : x < limit) = Min(I)
  BY <1>1 DEF SelectInSeq
<1>3. Min(I) \in I /\ \A m \in I : Min(I) <= m
  <2> HIDE DEF I
  <2> QED
    BY <1>1 DEF Min
<1>4. Min(I) \in Nat /\ Min(I) <= n /\ n <= Min(I)
  BY <1>1, <1>3
<1> QED
  BY <1>2, <1>4

-----------------------------------------------------------------------------
(* compact-u16.                                                            *)

LEMMA LowFacts == Low \in Nat \ {0, 1} /\ Byte = Low + Low
  BY EncodingAssumption

LEMMA CompactFacts ==
    ASSUME NEW v \in Nat
    PROVE  /\ encodeCompactU16(v) \in Seq(Nat)
           /\ v < Low => encodeCompactU16(v) = <<v>>
           /\ ~ (v < Low) => encodeCompactU16(v)
                                = <<(v % Low) + Low>> \o encodeCompactU16(v \div Low)
<1> DEFINE A == Seq(Nat)
           p == [n \in Nat |-> n \div Low]
           step == [n \in Nat |-> [s \in A |-> IF n < Low THEN <<n>>
                                              ELSE <<(n % Low) + Low>> \o s]]
<1>0. Low \in Nat \ {0, 1}
  BY LowFacts
<1>1. \A n \in Nat : n \div Low \in Nat /\ n % Low \in Nat /\ (n % Low) + Low \in Nat
                     /\ (n # 0 => n \div Low < n)
  BY <1>0, Division
<1>2. p \in [Nat -> Nat] /\ \A n \in Nat : n # 0 => p[n] < n
  BY <1>1
<1>3. (\A x \in Nat : <<x>> \in A) /\ \A s \in A, x \in Nat : <<x>> \o s \in A
  <2>1. \A x \in Nat : <<x>> \in A
    OBVIOUS
  <2>2. ASSUME NEW s \in Seq(Nat), NEW x \in Nat PROVE <<x>> \o s \in Seq(Nat)
    <3>1. Cons(x, s) \in Seq(Nat)
      BY ConsFacts
    <3> QED
      BY <3>1 DEF Cons
  <2> QED
    BY <2>1, <2>2
<1> HIDE DEF A
<1>4. step \in [Nat -> [A -> A]]
  BY <1>1, <1>3
<1> HIDE DEF p, step
<1>5. PICK d \in [Nat -> A] :
         d[0] = <<0>> /\ \A n \in Nat : n # 0 => d[n] = step[n][d[p[n]]]
  <2>1. Shrinks(p) /\ Steps(step, A) /\ <<0>> \in A
    BY <1>2, <1>3, <1>4 DEF Shrinks, Steps
  <2>2. \E d : Solves(d, A, <<0>>, p, step)
    BY <2>1, Recursion
  <2> QED
    BY <2>2 DEF Solves
<1>6. ASSUME NEW n \in Nat
      PROVE  d[n] = IF n < Low THEN <<n>> ELSE <<(n % Low) + Low>> \o d[n \div Low]
  <2>1. CASE n = 0
    BY <1>0, <1>5, <2>1
  <2>2. CASE n # 0
    <3>1. n \div Low \in Nat /\ p[n] = n \div Low /\ d[n \div Low] \in A
      BY <1>1, <1>5 DEF p
    <3>2. step[n][d[n \div Low]]
             = IF n < Low THEN <<n>> ELSE <<(n % Low) + Low>> \o d[n \div Low]
      BY <3>1 DEF step
    <3> QED
      BY <1>5, <2>2, <3>1, <3>2
  <2> QED
    BY <2>1, <2>2
<1>7. d = [n \in Nat |-> IF n < Low THEN <<n>> ELSE <<(n % Low) + Low>> \o d[n \div Low]]
  BY <1>5, <1>6
<1> DEFINE E == CHOOSE e : e = [n \in Nat |-> IF n < Low THEN <<n>>
                                              ELSE <<(n % Low) + Low>> \o e[n \div Low]]
<1>8. E = [n \in Nat |-> IF n < Low THEN <<n>> ELSE <<(n % Low) + Low>> \o E[n \div Low]]
  BY <1>7
<1>9. \A n \in Nat : encodeCompactU16(n) = E[n]
  BY DEF encodeCompactU16
<1> HIDE DEF E
<1>10. \A n \in Nat : E[n] = IF n < Low THEN <<n>> ELSE <<(n % Low) + Low>> \o E[n \div Low]
  BY <1>8
<1> DEFINE S == {n \in Nat : E[n] \in A}
<1>11. ASSUME NEW n \in Nat, \A m \in Nat : m < n => m \in S PROVE n \in S
  <2>1. CASE n < Low
    BY <1>3, <1>10, <2>1
  <2>2. CASE ~ (n < Low)
    <3>1. E[n \div Low] \in A /\ (n % Low) + Low \in Nat
      BY <1>0, <1>1, <1>11, <2>2
    <3> QED
      BY <1>3, <1>10, <2>2, <3>1
  <2> QED
    BY <2>1, <2>2
<1>12. Nat \subseteq S
  <2> HIDE DEF S
  <2> QED
    BY <1>11, StrongInduction
<1> QED
  BY <1>1, <1>9, <1>10, <1>12 DEF A

(* The first n elements of s are a compact-u16 that stands for v, and t    *)
(* follows.                                                                *)
Parts(s, n) == Reverse([i \in 1 .. n |-> s[i] % Low])
Reads(s, n, v, t) ==
    /\ s \in Seq(Nat) /\ n \in 1 .. Len(s) /\ s[n] < Low /\ (\A i \in 1 .. n - 1 : ~ (s[i] < Low))
    /\ Value(Low, Parts(s, n)) = v /\ SubSeq(s, n + 1, Len(s)) = t

LEMMA PartsFacts ==
    ASSUME NEW s \in Seq(Nat), NEW n \in 0 .. Len(s)
    PROVE  /\ Parts(s, n) \in Seq(Nat) /\ Len(Parts(s, n)) = n
           /\ \A i \in 1 .. n : Parts(s, n)[i] = s[n - i + 1] % Low
<1>1. \A i \in 1 .. n : s[i] \in Nat /\ s[i] % Low \in Nat
  <2>1. Low \in Nat \ {0, 1} /\ Len(s) \in Nat
    BY LowFacts
  <2>2. \A x \in Nat : x % Low \in Nat
    BY <2>1, Division
  <2>3. \A i \in 1 .. n : s[i] \in Nat
    BY <2>1
  <2> QED
    BY <2>2, <2>3
<1> DEFINE u == [i \in 1 .. n |-> s[i] % Low]
<1>2. n \in Nat
  BY <1>1
<1>3. u \in Seq(Nat) /\ Len(u) = n /\ \A i \in 1 .. n : u[i] = s[i] % Low
  BY <1>1, <1>2
<1>4. Parts(s, n) = [i \in 1 .. Len(u) |-> u[(Len(u) - i) + 1]]
  BY DEF Parts, Reverse
<1> HIDE DEF u
<1>5. \A i \in 1 .. n : (n - i) + 1 \in 1 .. n /\ u[(n - i) + 1] \in Nat
  BY <1>2, <1>3
<1> DEFINE w == [i \in 1 .. n |-> u[(n - i) + 1]]
<1>6. w \in Seq(Nat) /\ Len(w) = n /\ \A i \in 1 .. n : w[i] = u[(n - i) + 1]
  BY <1>2, <1>5
<1>7. Parts(s, n) = w
  BY <1>3, <1>4
<1> HIDE DEF w
<1> QED
  BY <1>3, <1>5, <1>6, <1>7

LEMMA ReadOne ==
    ASSUME NEW v \in Nat, v < Low, NEW t \in Seq(Nat)
    PROVE  Reads(<<v>> \o t, 1, v, t)
<1> DEFINE s == <<v>> \o t
           r == Parts(s, 1)
<1>0. Low \in Nat \ {0, 1}
  BY LowFacts
<1>1. s \in Seq(Nat) /\ Len(s) = Len(t) + 1 /\ Len(t) \in Nat /\ s[1] = v
  <2>1. /\ Cons(v, t) \in Seq(Nat) /\ Len(Cons(v, t)) = Len(t) + 1 /\ Len(t) \in Nat
        /\ Cons(v, t)[1] = v
    BY ConsFacts
  <2> QED
    BY <2>1 DEF Cons
<1>2. SubSeq(s, 1 + 1, Len(s)) = t
  <2> DEFINE u == <<v>>
  <2>1. u \in Seq(Nat) /\ Len(u) = 1
    OBVIOUS
  <2> HIDE DEF u
  <2>2. SubSeq(u \o t, Len(u) + 1, Len(u \o t)) = t
    BY <2>1, LastPart
  <2>3. Len(u) + 1 = 1 + 1
    BY <2>1
  <2> QED
    BY <2>2, <2>3 DEF u
<1> HIDE DEF s
<1>3. 1 \in 1 .. Len(s) /\ 1 \in 0 .. Len(s) /\ 1 - 1 + 1 = 1
  BY <1>1
<1>4. r \in Seq(Nat) /\ Len(r) = 1 /\ r[1] = s[1] % Low
  <2>1. r \in Seq(Nat) /\ Len(r) = 1 /\ \A i \in 1 .. 1 : r[i] = s[1 - i + 1] % Low
    BY <1>1, <1>3, PartsFacts
  <2> QED
    BY <1>3, <2>1
<1> HIDE DEF r
<1>5. Value(Low, r) = v
  <2>1. /\ Values(Low, r)[0] = 0 /\ Values(Low, r)[1] = Values(Low, r)[1 - 1] * Low + r[1]
        /\ Value(Low, r) = Values(Low, r)[1]
    <3>1. 1 \in 1 .. Len(r) /\ Low \in Nat
      BY <1>0, <1>4
    <3> QED
      BY <1>4, <3>1, ValuesFacts
  <2>2. v % Low = v
    <3>1. 0 \in Nat /\ v \in 0 .. Low - 1 /\ 0 * Low + v = v
      BY <1>0
    <3> QED
      BY <1>0, <3>1, DivisionUnique, SMTT(30)
  <2>3. Values(Low, r)[1] = 0 * Low + v
    BY <1>1, <1>4, <2>1, <2>2
  <2> QED
    BY <1>0, <2>1, <2>3
<1>6. s[1] < Low /\ \A i \in 1 .. 1 - 1 : ~ (s[i] < Low)
  BY <1>1
<1>7. Reads(s, 1, v, t)
  BY <1>1, <1>2, <1>3, <1>5, <1>6 DEF Reads, r
<1> QED
  BY <1>7 DEF s

LEMMA ReadMore ==
    ASSUME NEW q \in Nat, NEW x \in 0 .. Low - 1, NEW s, NEW n, NEW t, Reads(s, n, q, t)
    PROVE  Reads(<<x + Low>> \o s, n + 1, q * Low + x, t)
<1> DEFINE y == x + Low
           w == Cons(y, s)
           r == Parts(s, n)
           u == Parts(w, n + 1)
<1>0. Low \in Nat \ {0, 1} /\ Low \in Nat
  BY LowFacts
<1>1. /\ s \in Seq(Nat) /\ n \in 1 .. Len(s) /\ s[n] < Low
      /\ \A i \in 1 .. n - 1 : ~ (s[i] < Low)
      /\ Value(Low, r) = q /\ SubSeq(s, n + 1, Len(s)) = t
  BY DEF Reads
<1>2. y \in Nat /\ ~ (y < Low) /\ x \in Nat /\ y % Low = x
  <2>1. 1 \in Nat /\ 1 * Low + x = y
    BY <1>0
  <2>2. y % Low = x
    BY <1>0, <2>1, DivisionUnique
  <2> QED
    BY <1>0, <2>2
<1> HIDE DEF y
<1>3. /\ w \in Seq(Nat) /\ Len(w) = Len(s) + 1 /\ Len(s) \in Nat /\ w[1] = y
      /\ \A i \in 1 .. Len(s) : w[i + 1] = s[i]
  BY <1>1, <1>2, ConsFacts
<1> HIDE DEF w
<1>4. n + 1 \in 1 .. Len(w) /\ n + 1 \in 0 .. Len(w) /\ n \in 0 .. Len(s) /\ n \in Nat
  BY <1>1, <1>3
<1>5. w[n + 1] < Low
  BY <1>1, <1>3
<1>6. ASSUME NEW i \in 1 .. n + 1 - 1 PROVE ~ (w[i] < Low)
  <2>1. CASE i = 1
    BY <1>2, <1>3, <2>1
  <2>2. CASE i # 1
    <3>1. i - 1 \in 1 .. n - 1 /\ i - 1 \in 1 .. Len(s) /\ i - 1 + 1 = i
      BY <1>1, <1>3, <1>4, <2>2
    <3> QED
      BY <1>1, <1>3, <3>1
  <2> QED
    BY <2>1, <2>2
<1>7. /\ r \in Seq(Nat) /\ Len(r) = n /\ \A i \in 1 .. n : r[i] = s[n - i + 1] % Low
  BY <1>1, <1>4, PartsFacts
<1>8. /\ u \in Seq(Nat) /\ Len(u) = n + 1
      /\ \A i \in 1 .. n + 1 : u[i] = w[n + 1 - i + 1] % Low
  <2> DEFINE m == n + 1
  <2>1. m \in 0 .. Len(w)
    BY <1>4
  <2> HIDE DEF m
  <2>2. /\ Parts(w, m) \in Seq(Nat) /\ Len(Parts(w, m)) = m
        /\ \A i \in 1 .. m : Parts(w, m)[i] = w[m - i + 1] % Low
    BY <1>3, <2>1, PartsFacts
  <2>3. m = n + 1 /\ u = Parts(w, m)
    BY DEF m
  <2> HIDE DEF u
  <2>4. \A i \in 1 .. n + 1 : u[i] = w[n + 1 - i + 1] % Low
    <3>1. \A i \in 1 .. m : u[i] = w[m - i + 1] % Low
      BY <2>2, <2>3
    <3> SUFFICES ASSUME NEW i \in 1 .. n + 1 PROVE u[i] = w[n + 1 - i + 1] % Low
      OBVIOUS
    <3>2. i \in 1 .. m /\ m - i + 1 = n + 1 - i + 1
      BY <1>4, <2>3
    <3> QED
      BY <3>1, <3>2
  <2> QED
    BY <2>2, <2>3, <2>4
<1> HIDE DEF r, u
<1>9. u = Append(r, x)
  <2> DEFINE a == Append(r, x)
  <2>1. /\ a \in Seq(Nat) /\ Len(a) = n + 1 /\ a[n + 1] = x
        /\ \A i \in 1 .. n : a[i] = r[i]
    BY <1>2, <1>7, AppendFacts
  <2> HIDE DEF a
  <2>2. ASSUME NEW i \in 1 .. n + 1 PROVE u[i] = a[i]
    <3>1. CASE i = n + 1
      <4>1. n + 1 - i + 1 = 1
        BY <1>4, <3>1
      <4> QED
        BY <1>2, <1>3, <1>8, <2>1, <3>1, <4>1
    <3>2. CASE i \in 1 .. n
      <4>1. n + 1 - i + 1 = (n - i + 1) + 1 /\ n - i + 1 \in 1 .. Len(s)
        BY <1>1, <1>3, <1>4, <3>2
      <4>2. w[n + 1 - i + 1] = s[n - i + 1]
        BY <1>3, <4>1
      <4> QED
        BY <1>7, <1>8, <2>1, <3>2, <4>2
    <3> QED
      BY <1>4, <3>1, <3>2
  <2>3. u = a
    BY <1>8, <2>1, <2>2, SameSequence
  <2> QED
    BY <2>3 DEF a
<1>10. Value(Low, u) = q * Low + x
  BY <1>0, <1>1, <1>2, <1>7, <1>9, ValueAppend
<1>11. SubSeq(w, n + 1 + 1, Len(w)) = t
  <2> DEFINE b == SubSeq(w, n + 1 + 1, Len(w))
  <2>1. /\ t \in Seq(Nat) /\ Len(t) = Len(s) - n
        /\ \A i \in 1 .. Len(s) - n : t[i] = s[n + i]
    <3> DEFINE lo == n + 1
               hi == Len(s)
               c == SubSeq(s, lo, hi)
    <3>1. lo \in Nat \ {0} /\ hi \in Nat /\ lo <= hi + 1 /\ hi <= Len(s)
      BY <1>1, <1>3, <1>4
    <3>2. /\ c \in Seq(Nat) /\ Len(c) = hi - lo + 1
          /\ \A i \in 1 .. hi - lo + 1 : c[i] = s[lo + i - 1]
      <4> HIDE DEF lo, hi
      <4> QED
        BY <1>1, <3>1, SubSeqFacts
    <3> HIDE DEF c
    <3>3. hi - lo + 1 = Len(s) - n /\ \A i \in 1 .. Len(s) - n : lo + i - 1 = n + i
      BY <1>3, <1>4
    <3> HIDE DEF lo, hi
    <3> QED
      BY <1>1, <3>2, <3>3 DEF c, lo, hi
  <2>2. /\ b \in Seq(Nat) /\ Len(b) = Len(s) - n
        /\ \A i \in 1 .. Len(s) - n : b[i] = w[n + i + 1]
    <3> DEFINE lo == n + 1 + 1
               hi == Len(w)
               c == SubSeq(w, lo, hi)
    <3>1. lo \in Nat \ {0} /\ hi \in Nat /\ lo <= hi + 1 /\ hi <= Len(w)
      BY <1>1, <1>3, <1>4
    <3>2. /\ c \in Seq(Nat) /\ Len(c) = hi - lo + 1
          /\ \A i \in 1 .. hi - lo + 1 : c[i] = w[lo + i - 1]
      <4> HIDE DEF lo, hi
      <4> QED
        BY <1>3, <3>1, SubSeqFacts
    <3> HIDE DEF c
    <3>3. hi - lo + 1 = Len(s) - n /\ \A i \in 1 .. Len(s) - n : lo + i - 1 = n + i + 1
      BY <1>3, <1>4
    <3> HIDE DEF lo, hi
    <3> QED
      BY <3>2, <3>3 DEF c, lo, hi
  <2> HIDE DEF b
  <2>3. ASSUME NEW i \in 1 .. Len(s) - n PROVE b[i] = t[i]
    <3>1. n + i \in 1 .. Len(s)
      BY <1>1, <1>3, <1>4
    <3> QED
      BY <1>3, <2>1, <2>2, <3>1
  <2>4. b = t
    BY <2>1, <2>2, <2>3, SameSequence
  <2> QED
    BY <2>4 DEF b
<1>12. Reads(w, n + 1, q * Low + x, t)
  BY <1>3, <1>4, <1>5, <1>6, <1>10, <1>11 DEF Reads, u
<1> QED
  BY <1>12 DEF w, y, Cons

(* A compact-u16 is read back, whatever follows it.                        *)
LEMMA ReadCompactFacts ==
    ASSUME NEW v \in Nat, NEW t \in Seq(Nat)
    PROVE  ReadCompact(encodeCompactU16(v) \o t) = <<v, t>>
<1> DEFINE C(n) == encodeCompactU16(n)
           S == {n \in Nat : \E k : Reads(C(n) \o t, k, n, t)}
<1>0. Low \in Nat \ {0, 1}
  BY LowFacts
<1>1. ASSUME NEW n \in Nat, \A m \in Nat : m < n => m \in S PROVE n \in S
  <2>1. CASE n < Low
    <3>1. C(n) = <<n>>
      BY <2>1, CompactFacts
    <3>2. Reads(<<n>> \o t, 1, n, t)
      BY <2>1, ReadOne
    <3> HIDE DEF C
    <3> QED
      BY <3>1, <3>2
  <2>2. CASE ~ (n < Low)
    <3> DEFINE q == n \div Low
               x == n % Low
    <3>1. q \in Nat /\ q < n /\ x \in 0 .. Low - 1 /\ n = q * Low + x /\ x + Low \in Nat
      <4>1. q \in Nat /\ q < n /\ x \in 0 .. Low - 1 /\ n = q * Low + x
        <5>1. n # 0
          BY <1>0, <2>2
        <5> QED
          BY <1>0, <5>1, Division
      <4> HIDE DEF x, q
      <4> QED
        BY <1>0, <4>1
    <3>2. C(n) = <<x + Low>> \o C(q) /\ C(q) \in Seq(Nat)
      <4>1. C(n) = <<x + Low>> \o C(q)
        BY <2>2, CompactFacts
      <4>2. C(q) \in Seq(Nat)
        <5> HIDE DEF q
        <5> QED
          BY <3>1, CompactFacts
      <4> QED
        BY <4>1, <4>2
    <3> HIDE DEF q, x, C
    <3>3. PICK k : Reads(C(q) \o t, k, q, t)
      BY <1>1, <3>1
    <3>4. Reads(<<x + Low>> \o (C(q) \o t), k + 1, n, t)
      <4>1. Reads(<<x + Low>> \o (C(q) \o t), k + 1, q * Low + x, t)
        BY <3>1, <3>3, ReadMore
      <4> QED
        BY <3>1, <4>1
    <3>5. (<<x + Low>> \o C(q)) \o t = <<x + Low>> \o (C(q) \o t)
      <4>1. <<x + Low>> \in Seq(Nat)
        BY <3>1
      <4> DEFINE u == <<x + Low>>
      <4> HIDE DEF u
      <4>2. (u \o C(q)) \o t = u \o (C(q) \o t)
        BY <3>2, <4>1, ConcatAssoc DEF u
      <4> QED
        BY <4>2 DEF u
    <3> QED
      BY <3>2, <3>4, <3>5
  <2> QED
    BY <2>1, <2>2
<1>2. v \in S
  <2> HIDE DEF S
  <2>1. Nat \subseteq S
    BY <1>1, StrongInduction
  <2> QED
    BY <2>1
<1> DEFINE s == C(v) \o t
<1>3. PICK k : Reads(s, k, v, t)
  BY <1>2
<1> HIDE DEF s
<1>4. SelectInSeq(s, LAMBDA x : x < Low) = k
  BY <1>0, <1>3, FirstBelow DEF Reads
<1>5. ReadCompact(s) = <<Value(Low, Parts(s, k)), SubSeq(s, k + 1, Len(s))>>
  BY <1>4 DEF ReadCompact, Parts
<1>6. ReadCompact(s) = <<v, t>>
  BY <1>3, <1>5 DEF Reads
<1> QED
  BY <1>6 DEF s
-----------------------------------------------------------------------------
(* Numbers of a fixed width.                                               *)

LEMMA PowerFacts ==
    /\ Power \in [Nat -> Nat] /\ Power[0] = 1
    /\ \A n \in Nat : n # 0 => Power[n] = Byte * Power[n - 1]
<1> DEFINE p == [n \in Nat |-> IF n = 0 THEN 0 ELSE n - 1]
           step == [n \in Nat |-> [v \in Nat |-> Byte * v]]
<1>0. Byte \in Nat
  BY EncodingAssumption
<1>1. \A v \in Nat : Byte * v \in Nat
  BY <1>0
<1>2. Shrinks(p)
  BY DEF Shrinks
<1>3. Steps(step, Nat)
  BY <1>1 DEF Steps
<1> HIDE DEF p, step
<1>4. PICK d \in [Nat -> Nat] :
         d[0] = 1 /\ \A n \in Nat : n # 0 => d[n] = step[n][d[p[n]]]
  <2>1. 1 \in Nat
    OBVIOUS
  <2>2. \E d : Solves(d, Nat, 1, p, step)
    BY <1>2, <1>3, <2>1, Recursion
  <2> QED
    BY <2>2 DEF Solves
<1>5. ASSUME NEW n \in Nat, n # 0 PROVE d[n] = Byte * d[n - 1]
  <2>1. p[n] = n - 1 /\ n - 1 \in Nat /\ d[n - 1] \in Nat
    BY <1>4, <1>5 DEF p
  <2>2. step[n][d[n - 1]] = Byte * d[n - 1]
    BY <2>1 DEF step
  <2> QED
    BY <1>4, <1>5, <2>1, <2>2
<1>6. d = [n \in Nat |-> IF n = 0 THEN 1 ELSE Byte * d[n - 1]]
  BY <1>4, <1>5
<1>7. Power = [n \in Nat |-> IF n = 0 THEN 1 ELSE Byte * Power[n - 1]]
  BY <1>6 DEF Power
<1>8. Power[0] = 1 /\ \A n \in Nat : n # 0 => Power[n] = Byte * Power[n - 1]
  BY <1>7
<1> DEFINE S == {n \in Nat : Power[n] \in Nat}
<1>9. 0 \in S
  BY <1>8
<1>10. ASSUME NEW n \in Nat, n \in S PROVE n + 1 \in S
  <2>1. n + 1 \in Nat /\ n + 1 # 0 /\ n + 1 - 1 = n
    OBVIOUS
  <2>2. Power[n + 1] = Byte * Power[n]
    BY <1>8, <2>1
  <2> QED
    BY <1>1, <1>10, <2>1, <2>2
<1>11. Nat \subseteq S
  <2> HIDE DEF S
  <2> QED
    BY <1>9, <1>10, SetInduction
<1>12. \A n \in Nat : Power[n] \in Nat
  BY <1>11
<1>13. Power \in [Nat -> Nat]
  BY <1>7, <1>12
<1> QED
  BY <1>8, <1>13

(* What is left of n after i divisions.                                    *)
Rest(n, width) ==
    CHOOSE rest : rest = [i \in 0 .. width |-> IF i = 0 THEN n ELSE rest[i - 1] \div Byte]

LEMMA RestFacts ==
    ASSUME NEW n \in Nat, NEW width \in Nat, n < Power[width]
    PROVE  /\ Rest(n, width) \in [0 .. width -> Nat]
           /\ Rest(n, width)[0] = n /\ Rest(n, width)[width] = 0
           /\ \A i \in 1 .. width : Rest(n, width)[i] = Rest(n, width)[i - 1] \div Byte
<1> DEFINE p == [i \in Nat |-> IF i = 0 THEN 0 ELSE i - 1]
           step == [i \in Nat |-> [v \in Nat |-> v \div Byte]]
           R == Rest(n, width)
<1>0. Byte \in Nat \ {0, 1} /\ Byte \in Nat
  BY EncodingAssumption
<1>1. \A v \in Nat : v \div Byte \in Nat /\ v % Byte \in 0 .. Byte - 1
                     /\ v = (v \div Byte) * Byte + (v % Byte)
  BY <1>0, Division
<1>2. Shrinks(p)
  BY DEF Shrinks
<1>3. Steps(step, Nat)
  BY <1>1 DEF Steps
<1> HIDE DEF p, step
<1>4. PICK d \in [Nat -> Nat] :
         d[0] = n /\ \A i \in Nat : i # 0 => d[i] = step[i][d[p[i]]]
  <2>1. \E d : Solves(d, Nat, n, p, step)
    BY <1>2, <1>3, Recursion
  <2> QED
    BY <2>1 DEF Solves
<1>5. ASSUME NEW i \in Nat, i # 0 PROVE d[i] = d[i - 1] \div Byte
  <2>1. p[i] = i - 1 /\ i - 1 \in Nat /\ d[i - 1] \in Nat
    BY <1>4, <1>5 DEF p
  <2>2. step[i][d[i - 1]] = d[i - 1] \div Byte
    BY <2>1 DEF step
  <2> QED
    BY <1>4, <1>5, <2>1, <2>2
<1> DEFINE f == [i \in 0 .. width |-> d[i]]
<1>6. f = [i \in 0 .. width |-> IF i = 0 THEN n ELSE f[i - 1] \div Byte]
  <2>1. ASSUME NEW i \in 0 .. width, i # 0 PROVE f[i] = f[i - 1] \div Byte
    <3>1. i - 1 \in 0 .. width /\ i \in Nat
      BY <2>1
    <3> QED
      BY <1>5, <2>1, <3>1
  <2>2. f[0] = n
    BY <1>4
  <2> QED
    BY <2>1, <2>2
<1>7. R = [i \in 0 .. width |-> IF i = 0 THEN n ELSE R[i - 1] \div Byte]
  <2> HIDE DEF f
  <2> QED
    BY <1>6 DEF Rest
<1> HIDE DEF R
<1>8. R[0] = n /\ \A i \in 1 .. width : R[i] = R[i - 1] \div Byte
  <2>1. \A i \in 0 .. width : R[i] = IF i = 0 THEN n ELSE R[i - 1] \div Byte
    BY <1>7
  <2>2. 0 \in 0 .. width /\ \A i \in 1 .. width : i \in 0 .. width /\ i # 0
    OBVIOUS
  <2> QED
    BY <2>1, <2>2
<1>9. /\ Power \in [Nat -> Nat] /\ Power[0] = 1
      /\ \A i \in Nat : i # 0 => Power[i] = Byte * Power[i - 1]
  BY PowerFacts
<1>10. ASSUME NEW v \in Nat, NEW q \in Nat, v < Byte * q PROVE v \div Byte < q
  <2> DEFINE a == v \div Byte
             r == v % Byte
  <2>1. a \in Nat /\ r \in Nat /\ v = a * Byte + r
    BY <1>1
  <2> HIDE DEF a, r
  <2> SUFFICES ASSUME ~ (a < q) PROVE FALSE
    BY <2>1 DEF a
  <2>2. PICK k \in Nat : a = q + k
    <3>1. a - q \in Nat /\ a = q + (a - q)
      BY <2>1
    <3> QED
      BY <3>1
  <2>3. (q + k) * Byte = Byte * q + k * Byte /\ k * Byte \in Nat /\ Byte * q \in Nat
    BY <1>0
  <2> QED
    BY <1>10, <2>1, <2>2, <2>3
<1> DEFINE S == {i \in Nat : i <= width => R[i] \in Nat /\ R[i] < Power[width - i]}
<1>11. 0 \in S
  BY <1>8
<1>12. ASSUME NEW i \in Nat, i \in S PROVE i + 1 \in S
  <2> SUFFICES ASSUME i + 1 <= width PROVE R[i + 1] \in Nat /\ R[i + 1] < Power[width - (i + 1)]
    OBVIOUS
  <2> DEFINE m == width - i
  <2>1. /\ m \in Nat /\ m # 0 /\ m - 1 \in Nat /\ width - (i + 1) = m - 1
        /\ i + 1 \in 1 .. width /\ i + 1 - 1 = i
    OBVIOUS
  <2>2. R[i] \in Nat /\ R[i] < Power[m]
    BY <1>12
  <2> HIDE DEF m
  <2>3. R[i + 1] = R[i] \div Byte
    BY <1>8, <2>1
  <2>4. Power[m] = Byte * Power[m - 1] /\ Power[m - 1] \in Nat
    BY <1>9, <2>1
  <2>5. R[i] \div Byte \in Nat /\ R[i] \div Byte < Power[m - 1]
    BY <1>1, <1>10, <2>2, <2>4
  <2> QED
    BY <2>1, <2>3, <2>5
<1>13. Nat \subseteq S
  <2> HIDE DEF S
  <2> QED
    BY <1>11, <1>12, SetInduction
<1>14. \A i \in 0 .. width : R[i] \in Nat /\ R[i] < Power[width - i]
  BY <1>13
<1>15. R[width] = 0
  <2>1. width \in 0 .. width /\ width - width = 0
    OBVIOUS
  <2>2. R[width] \in Nat /\ R[width] < 1
    BY <1>9, <1>14, <2>1
  <2> QED
    BY <2>2
<1>16. R \in [0 .. width -> Nat]
  BY <1>7, <1>14
<1> QED
  BY <1>8, <1>15, <1>16 DEF R

LEMMA ReverseFacts ==
    ASSUME NEW s \in Seq(Nat)
    PROVE  /\ Reverse(s) \in Seq(Nat) /\ Len(Reverse(s)) = Len(s) /\ Len(s) \in Nat
           /\ \A i \in 1 .. Len(s) : Reverse(s)[i] = s[(Len(s) - i) + 1]
<1>1. Len(s) \in Nat
  OBVIOUS
<1>2. \A i \in 1 .. Len(s) : (Len(s) - i) + 1 \in 1 .. Len(s) /\ s[(Len(s) - i) + 1] \in Nat
  BY <1>1
<1> QED
  BY <1>1, <1>2 DEF Reverse

(* A number that fits is read back from its bytes.                         *)
LEMMA LittleEndianFacts ==
    ASSUME NEW n \in Nat, NEW width \in Nat, n < Power[width]
    PROVE  /\ LittleEndian(n, width) \in Seq(Nat) /\ Len(LittleEndian(n, width)) = width
           /\ Value(Byte, Reverse(LittleEndian(n, width))) = n
<1> DEFINE R == Rest(n, width)
           s == LittleEndian(n, width)
           t == Reverse(s)
<1>0. Byte \in Nat \ {0, 1} /\ Byte \in Nat
  BY EncodingAssumption
<1>1. /\ R \in [0 .. width -> Nat] /\ R[0] = n /\ R[width] = 0
      /\ \A i \in 1 .. width : R[i] = R[i - 1] \div Byte
  BY RestFacts
<1>2. s = [i \in 1 .. width |-> R[i - 1] % Byte]
  BY DEF LittleEndian, Rest
<1> HIDE DEF R, s
<1>3. \A v \in Nat : v % Byte \in Nat /\ v = (v \div Byte) * Byte + (v % Byte)
  BY <1>0, Division
<1>4. \A i \in 1 .. width : R[i - 1] \in Nat /\ R[i - 1] % Byte \in Nat
  <2>1. \A i \in 1 .. width : i - 1 \in 0 .. width
    OBVIOUS
  <2> QED
    BY <1>1, <1>3, <2>1
<1>5. s \in Seq(Nat) /\ Len(s) = width /\ \A i \in 1 .. width : s[i] = R[i - 1] % Byte
  BY <1>2, <1>4
<1>6. t \in Seq(Nat) /\ Len(t) = width /\ \A i \in 1 .. width : t[i] = s[(width - i) + 1]
  BY <1>5, ReverseFacts
<1> HIDE DEF t
<1> DEFINE V == Values(Byte, t)
<1>7. /\ V[0] = 0 /\ \A i \in 1 .. width : V[i] = V[i - 1] * Byte + t[i]
      /\ Value(Byte, t) = V[width]
  BY <1>0, <1>6, ValuesFacts
<1> HIDE DEF V
<1> DEFINE S == {i \in Nat : i <= width => V[i] = R[width - i]}
<1>8. 0 \in S
  BY <1>1, <1>7
<1>9. ASSUME NEW i \in Nat, i \in S PROVE i + 1 \in S
  <2> SUFFICES ASSUME i + 1 <= width PROVE V[i + 1] = R[width - (i + 1)]
    OBVIOUS
  <2> DEFINE m == width - i
  <2>1. /\ m \in 1 .. width /\ width - (i + 1) = m - 1 /\ (width - (i + 1)) + 1 = m
        /\ i + 1 \in 1 .. width /\ i + 1 - 1 = i
    OBVIOUS
  <2>2. V[i] = R[m]
    BY <1>9
  <2> HIDE DEF m
  <2>3. V[i + 1] = V[i] * Byte + t[i + 1] /\ t[i + 1] = s[m]
    BY <1>6, <1>7, <2>1
  <2>4. s[m] = R[m - 1] % Byte /\ R[m] = R[m - 1] \div Byte /\ R[m - 1] \in Nat
    BY <1>1, <1>4, <1>5, <2>1
  <2>5. R[m - 1] = (R[m - 1] \div Byte) * Byte + (R[m - 1] % Byte)
    BY <1>3, <2>4
  <2> QED
    BY <2>1, <2>2, <2>3, <2>4, <2>5
<1>10. Nat \subseteq S
  <2> HIDE DEF S
  <2> QED
    BY <1>8, <1>9, SetInduction
<1>11. V[width] = R[0]
  <2>1. width - width = 0
    OBVIOUS
  <2> QED
    BY <1>10, <2>1
<1> QED
  BY <1>1, <1>5, <1>7, <1>11 DEF s, t
-----------------------------------------------------------------------------
(* A transaction, item after item.                                         *)

LEMMA FlattenOne ==
    ASSUME NEW a
    PROVE  FlattenSeq(<<a>>) = a
<1> DEFINE s == <<a>>
           f == [i \in 1 .. 1 |-> a]
           F == CHOOSE g : g = [i \in 1 .. Len(s) |-> IF i = 1 THEN s[i] ELSE g[i - 1] \o s[i]]
<1>1. Len(s) = 1 /\ s[1] = a
  OBVIOUS
<1> HIDE DEF s
<1>2. f = [i \in 1 .. Len(s) |-> IF i = 1 THEN s[i] ELSE f[i - 1] \o s[i]]
  BY <1>1
<1>3. F = [i \in 1 .. Len(s) |-> IF i = 1 THEN s[i] ELSE F[i - 1] \o s[i]]
  <2> HIDE DEF f
  <2> QED
    BY <1>2
<1>4. FlattenSeq(s) = F[1]
  BY <1>1 DEF FlattenSeq
<1> HIDE DEF F
<1>5. F[1] = a
  BY <1>1, <1>3
<1> QED
  BY <1>4, <1>5 DEF s

LEMMA FlattenThree ==
    ASSUME NEW s, Len(s) = 3
    PROVE  FlattenSeq(s) = (s[1] \o s[2]) \o s[3]
<1> DEFINE a == s[1]
           b == s[2]
           c == s[3]
           f == [i \in 1 .. 3 |-> IF i = 1 THEN a ELSE IF i = 2 THEN a \o b ELSE (a \o b) \o c]
           F == CHOOSE g : g = [i \in 1 .. Len(s) |-> IF i = 1 THEN s[i] ELSE g[i - 1] \o s[i]]
<1>1. Len(s) = 3 /\ s[1] = a /\ s[2] = b /\ s[3] = c
  OBVIOUS
<1> HIDE DEF a, b, c
<1>2. f = [i \in 1 .. Len(s) |-> IF i = 1 THEN s[i] ELSE f[i - 1] \o s[i]]
  <2>1. f[1] = a /\ f[2] = a \o b /\ f[3] = (a \o b) \o c
    OBVIOUS
  <2>2. \A i \in 1 .. 3 : f[i] = IF i = 1 THEN s[i] ELSE f[i - 1] \o s[i]
    <3>1. f[1] = IF 1 = 1 THEN s[1] ELSE f[0] \o s[1]
      BY <1>1, <2>1
    <3>2. f[2] = f[1] \o s[2] /\ f[3] = f[2] \o s[3]
      BY <1>1, <2>1
    <3> QED
      BY <1>1, <3>1, <3>2
  <2> QED
    BY <1>1, <2>2
<1>3. F = [i \in 1 .. Len(s) |-> IF i = 1 THEN s[i] ELSE F[i - 1] \o s[i]]
  <2> HIDE DEF f
  <2> QED
    BY <1>2
<1>4. FlattenSeq(s) = F[3]
  BY <1>1 DEF FlattenSeq
<1> HIDE DEF F
<1>5. \A i \in 1 .. 3 : F[i] = IF i = 1 THEN s[i] ELSE F[i - 1] \o s[i]
  BY <1>1, <1>3
<1>6. F[1] = a /\ F[2] = F[1] \o b /\ F[3] = F[2] \o c
  BY <1>1, <1>5
<1> QED
  BY <1>1, <1>4, <1>6

(* Concatenation as an operator of its own: its laws, to be used without   *)
(* what a sequence is.                                                     *)
Cat(s, t) == s \o t

LEMMA CatLaws ==
    /\ \A s, t \in Seq(Nat) : Cat(s, t) \in Seq(Nat)
    /\ \A s, t, u \in Seq(Nat) : Cat(Cat(s, t), u) = Cat(s, Cat(t, u))
<1>1. \A s, t \in Seq(Nat) : Cat(s, t) \in Seq(Nat)
  BY ConcatFacts DEF Cat
<1>2. ASSUME NEW s \in Seq(Nat), NEW t \in Seq(Nat), NEW u \in Seq(Nat)
      PROVE  Cat(Cat(s, t), u) = Cat(s, Cat(t, u))
  BY ConcatAssoc DEF Cat
<1> QED
  BY <1>1, <1>2

Chain3(a, b, c) == Cat(Cat(a, b), c)
Nest3(a, b, c) == Cat(a, Cat(b, c))
Chain4(a, b, c, d) == Cat(Chain3(a, b, c), d)
Nest4(a, b, c, d) == Cat(a, Nest3(b, c, d))
Chain5(a, b, c, d, e) == Cat(Chain4(a, b, c, d), e)
Nest5(a, b, c, d, e) == Cat(a, Nest4(b, c, d, e))
Chain6(a, b, c, d, e, f) == Cat(Chain5(a, b, c, d, e), f)
Nest6(a, b, c, d, e, f) == Cat(a, Nest5(b, c, d, e, f))

(* The hypotheses of the lemmas that follow, as operators of the parts.    *)
Three(a, b, c) == a \in Seq(Nat) /\ b \in Seq(Nat) /\ c \in Seq(Nat)
Five(a, b, c, d, e) == Three(a, b, c) /\ d \in Seq(Nat) /\ e \in Seq(Nat)
Six(a, b, c, d, e, f) == Five(a, b, c, d, e) /\ f \in Seq(Nat)

LEMMA Concat3 ==
    ASSUME NEW a, NEW b, NEW c, Three(a, b, c)
    PROVE  Chain3(a, b, c) = Nest3(a, b, c) /\ Nest3(a, b, c) \in Seq(Nat)
  BY CatLaws DEF Three, Chain3, Nest3

LEMMA Concat4 ==
    ASSUME NEW a, NEW b, NEW c, Three(a, b, c), NEW d \in Seq(Nat)
    PROVE  /\ Chain4(a, b, c, d) = Nest4(a, b, c, d)
           /\ Nest4(a, b, c, d) \in Seq(Nat)
<1>1. Chain3(a, b, c) = Cat(a, Cat(b, c)) /\ Cat(b, c) \in Seq(Nat)
  BY Concat3, CatLaws DEF Nest3, Three
<1>2. Chain4(a, b, c, d) = Cat(a, Cat(Cat(b, c), d)) /\ Cat(Cat(b, c), d) \in Seq(Nat)
  BY <1>1, CatLaws DEF Chain4, Three
<1>3. Cat(Cat(b, c), d) = Nest3(b, c, d)
  BY CatLaws DEF Nest3, Three
<1> QED
  BY <1>2, <1>3, CatLaws DEF Nest4, Three

LEMMA Concat5 ==
    ASSUME NEW a, NEW b, NEW c, NEW d, NEW e, Five(a, b, c, d, e)
    PROVE  /\ Chain5(a, b, c, d, e) = Nest5(a, b, c, d, e)
           /\ Nest5(a, b, c, d, e) \in Seq(Nat)
<1>1. Three(a, b, c) /\ Three(b, c, d) /\ d \in Seq(Nat) /\ e \in Seq(Nat)
  BY DEF Five, Three
<1> DEFINE m == Nest3(b, c, d)
<1>2. /\ Chain4(a, b, c, d) = Cat(a, m) /\ m \in Seq(Nat) /\ a \in Seq(Nat)
      /\ Cat(m, e) = Nest4(b, c, d, e) /\ Nest4(b, c, d, e) \in Seq(Nat)
  <2>1. /\ Chain4(a, b, c, d) = Nest4(a, b, c, d)
        /\ Chain3(b, c, d) = m /\ m \in Seq(Nat)
        /\ Chain4(b, c, d, e) = Nest4(b, c, d, e) /\ Nest4(b, c, d, e) \in Seq(Nat)
    BY <1>1, Concat3, Concat4
  <2>2. Nest4(a, b, c, d) = Cat(a, m) /\ Chain4(b, c, d, e) = Cat(Chain3(b, c, d), e)
    BY DEF Nest4, Chain4
  <2> QED
    BY <1>1, <2>1, <2>2 DEF Three
<1> HIDE DEF m
<1>3. Chain5(a, b, c, d, e) = Cat(a, Cat(m, e))
  BY <1>1, <1>2, CatLaws DEF Chain5
<1> QED
  BY <1>2, <1>3, CatLaws DEF Nest5

LEMMA Concat6 ==
    ASSUME NEW a, NEW b, NEW c, NEW d, NEW e, NEW f, Six(a, b, c, d, e, f)
    PROVE  /\ Chain6(a, b, c, d, e, f) = Nest6(a, b, c, d, e, f)
           /\ Nest6(a, b, c, d, e, f) \in Seq(Nat)
<1>1. Five(a, b, c, d, e) /\ Five(b, c, d, e, f) /\ f \in Seq(Nat)
      /\ Three(b, c, d) /\ e \in Seq(Nat) /\ a \in Seq(Nat)
  BY DEF Six, Five, Three
<1> DEFINE m == Nest4(b, c, d, e)
<1>2. /\ Chain5(a, b, c, d, e) = Cat(a, m) /\ m \in Seq(Nat)
      /\ Cat(m, f) = Nest5(b, c, d, e, f) /\ Nest5(b, c, d, e, f) \in Seq(Nat)
  <2>1. /\ Chain5(a, b, c, d, e) = Nest5(a, b, c, d, e)
        /\ Chain4(b, c, d, e) = m /\ m \in Seq(Nat)
        /\ Chain5(b, c, d, e, f) = Nest5(b, c, d, e, f)
        /\ Nest5(b, c, d, e, f) \in Seq(Nat)
    BY <1>1, Concat4, Concat5
  <2>2. /\ Nest5(a, b, c, d, e) = Cat(a, m)
        /\ Chain5(b, c, d, e, f) = Cat(Chain4(b, c, d, e), f)
    BY DEF Nest5, Chain5
  <2> QED
    BY <2>1, <2>2
<1> HIDE DEF m
<1>3. Chain6(a, b, c, d, e, f) = Cat(a, Cat(m, f))
  BY <1>1, <1>2, CatLaws DEF Chain6
<1> QED
  BY <1>1, <1>2, <1>3, CatLaws DEF Nest6

Read(items, rest) == [items |-> items, rest |-> rest]
Item(count, bytes) == [count |-> count, bytes |-> bytes]

(* The bytes b are so many elements of a size, and t follows.              *)
Sized(b, n, size, t) ==
    n \in Nat /\ size \in Nat /\ b \in Seq(Nat) /\ Len(b) = n * size /\ t \in Seq(Nat)

LEMMA ReadFixed ==
    ASSUME NEW items, NEW size, NEW b, NEW t, Sized(b, 1, size, t)
    PROVE  ReadItem(Read(items, b \o t), Fixed(size)) = Read(Append(items, Item(1, b)), t)
<1> DEFINE s == b \o t
<1>0. size \in Nat /\ b \in Seq(Nat) /\ t \in Seq(Nat) /\ Len(b) = size
  BY DEF Sized
<1>1. SubSeq(s, 1, size) = b /\ SubSeq(s, size + 1, Len(s)) = t
  <2>1. SubSeq(s, 1, Len(b)) = b /\ SubSeq(s, Len(b) + 1, Len(s)) = t
    BY <1>0, FirstPart, LastPart
  <2> HIDE DEF s
  <2> QED
    BY <1>0, <2>1
<1> HIDE DEF s
<1>2. Fixed(size).counted = FALSE /\ Fixed(size).size = size /\ 1 * size = size
  BY <1>0 DEF Fixed
<1>3. Read(items, s).items = items /\ Read(items, s).rest = s
  BY DEF Read
<1>4. ReadItem(Read(items, s), Fixed(size))
         = [items |-> Append(items, [count |-> 1, bytes |-> SubSeq(s, 1, size)]),
            rest  |-> SubSeq(s, size + 1, Len(s))]
  BY <1>2, <1>3 DEF ReadItem
<1>5. ReadItem(Read(items, s), Fixed(size)) = Read(Append(items, Item(1, b)), t)
  BY <1>1, <1>4 DEF Read, Item
<1> QED
  BY <1>5 DEF s

LEMMA ReadCounted ==
    ASSUME NEW items, NEW n, NEW size, NEW b, NEW t, Sized(b, n, size, t)
    PROVE  ReadItem(Read(items, encodeCompactU16(n) \o (b \o t)), Counted(size))
              = Read(Append(items, Item(n, b)), t)
<1> DEFINE s == b \o t
           w == encodeCompactU16(n) \o s
           m == n * size
<1>0. n \in Nat /\ size \in Nat /\ b \in Seq(Nat) /\ Len(b) = m /\ t \in Seq(Nat)
  BY DEF Sized
<1>1. SubSeq(s, 1, m) = b /\ SubSeq(s, m + 1, Len(s)) = t /\ s \in Seq(Nat)
  <2>1. SubSeq(s, 1, Len(b)) = b /\ SubSeq(s, Len(b) + 1, Len(s)) = t /\ s \in Seq(Nat)
    BY <1>0, FirstPart, LastPart, ConcatFacts
  <2> HIDE DEF s
  <2> QED
    BY <1>0, <2>1
<1> HIDE DEF s
<1>2. ReadCompact(w) = <<n, s>>
  BY <1>0, <1>1, ReadCompactFacts
<1> HIDE DEF w
<1>3. Counted(size).counted = TRUE /\ Counted(size).size = size
  BY DEF Counted
<1>4. Read(items, w).items = items /\ Read(items, w).rest = w
  BY DEF Read
<1>5. <<n, s>>[1] = n /\ <<n, s>>[2] = s
  OBVIOUS
<1>6. ReadItem(Read(items, w), Counted(size))
         = [items |-> Append(items, [count |-> n, bytes |-> SubSeq(s, 1, m)]),
            rest  |-> SubSeq(s, m + 1, Len(s))]
  BY <1>2, <1>3, <1>4, <1>5 DEF ReadItem
<1> HIDE DEF m
<1>7. ReadItem(Read(items, w), Counted(size)) = Read(Append(items, Item(n, b)), t)
  BY <1>1, <1>6 DEF Read, Item
<1> QED
  BY <1>7 DEF s, w

LEMMA LayoutFacts ==
    /\ Len(Layout) = 8
    /\ Layout[1] = Counted(2 * KeySize) /\ Layout[2] = Fixed(3) /\ Layout[3] = Counted(KeySize)
    /\ Layout[4] = Fixed(KeySize) /\ Layout[5] = Counted(0) /\ Layout[6] = Fixed(1)
    /\ Layout[7] = Counted(1) /\ Layout[8] = Counted(1)
  BY DEF Layout

Step1(s) == ReadItem(Read(<<>>, s), Counted(2 * KeySize))
Step2(s) == ReadItem(Step1(s), Fixed(3))
Step3(s) == ReadItem(Step2(s), Counted(KeySize))
Step4(s) == ReadItem(Step3(s), Fixed(KeySize))
Step5(s) == ReadItem(Step4(s), Counted(0))
Step6(s) == ReadItem(Step5(s), Fixed(1))
Step7(s) == ReadItem(Step6(s), Counted(1))
Step8(s) == ReadItem(Step7(s), Counted(1))

LEMMA ReadInSteps ==
    ASSUME NEW s
    PROVE  ReadTransaction(s) = Step8(s)
<1> DEFINE r1 == Step1(s)
           r2 == Step2(s)
           r3 == Step3(s)
           r4 == Step4(s)
           r5 == Step5(s)
           r6 == Step6(s)
           r7 == Step7(s)
           r8 == Step8(s)
<1>0. /\ r1 = ReadItem(Read(<<>>, s), Counted(2 * KeySize))
      /\ r2 = ReadItem(r1, Fixed(3)) /\ r3 = ReadItem(r2, Counted(KeySize))
      /\ r4 = ReadItem(r3, Fixed(KeySize)) /\ r5 = ReadItem(r4, Counted(0))
      /\ r6 = ReadItem(r5, Fixed(1)) /\ r7 = ReadItem(r6, Counted(1))
      /\ r8 = ReadItem(r7, Counted(1))
  BY DEF Step1, Step2, Step3, Step4, Step5, Step6, Step7, Step8
<1> HIDE DEF r1, r2, r3, r4, r5, r6, r7, r8
<1> DEFINE r0 == Read(<<>>, s)
           f == [n \in 0 .. 8 |-> IF n = 0 THEN r0 ELSE IF n = 1 THEN r1 ELSE IF n = 2 THEN r2
                                  ELSE IF n = 3 THEN r3 ELSE IF n = 4 THEN r4
                                  ELSE IF n = 5 THEN r5 ELSE IF n = 6 THEN r6
                                  ELSE IF n = 7 THEN r7 ELSE r8]
           F == CHOOSE g : g = [n \in 0 .. Len(Layout) |->
                                   IF n = 0 THEN [items |-> <<>>, rest |-> s]
                                   ELSE ReadItem(g[n - 1], Layout[n])]
           Step(g, n) == g[n] = ReadItem(g[n - 1], Layout[n])
<1>1. f[0] = r0 /\ f[1] = r1 /\ f[2] = r2 /\ f[3] = r3 /\ f[4] = r4 /\ f[5] = r5 /\ f[6] = r6
      /\ f[7] = r7 /\ f[8] = r8
  OBVIOUS
<1>2. f = [n \in 0 .. Len(Layout) |-> f[n]]
  BY LayoutFacts
<1> HIDE DEF f
<1>3. /\ ReadItem(f[0], Layout[1]) = r1 /\ ReadItem(f[1], Layout[2]) = r2
      /\ ReadItem(f[2], Layout[3]) = r3 /\ ReadItem(f[3], Layout[4]) = r4
      /\ ReadItem(f[4], Layout[5]) = r5 /\ ReadItem(f[5], Layout[6]) = r6
      /\ ReadItem(f[6], Layout[7]) = r7 /\ ReadItem(f[7], Layout[8]) = r8
  BY <1>0, <1>1, LayoutFacts
<1>4. ASSUME NEW n \in 1 .. 8 PROVE f[n] = ReadItem(f[n - 1], Layout[n])
  <2>1. CASE n = 1
    <3>1. n - 1 = 0
      BY <2>1
    <3> QED
      BY <1>1, <1>3, <2>1, <3>1
  <2>2. CASE n = 2
    <3>1. n - 1 = 1
      BY <2>2
    <3> QED
      BY <1>1, <1>3, <2>2, <3>1
  <2>3. CASE n = 3
    <3>1. n - 1 = 2
      BY <2>3
    <3> QED
      BY <1>1, <1>3, <2>3, <3>1
  <2>4. CASE n = 4
    <3>1. n - 1 = 3
      BY <2>4
    <3> QED
      BY <1>1, <1>3, <2>4, <3>1
  <2>5. CASE n = 5
    <3>1. n - 1 = 4
      BY <2>5
    <3> QED
      BY <1>1, <1>3, <2>5, <3>1
  <2>6. CASE n = 6
    <3>1. n - 1 = 5
      BY <2>6
    <3> QED
      BY <1>1, <1>3, <2>6, <3>1
  <2>7. CASE n = 7
    <3>1. n - 1 = 6
      BY <2>7
    <3> QED
      BY <1>1, <1>3, <2>7, <3>1
  <2>8. CASE n = 8
    <3>1. n - 1 = 7
      BY <2>8
    <3> QED
      BY <1>1, <1>3, <2>8, <3>1
  <2> QED
    BY <2>1, <2>2, <2>3, <2>4, <2>5, <2>6, <2>7, <2>8
<1>5. f = [n \in 0 .. Len(Layout) |-> IF n = 0 THEN [items |-> <<>>, rest |-> s]
                                      ELSE ReadItem(f[n - 1], Layout[n])]
  BY <1>1, <1>2, <1>4, LayoutFacts DEF Read
<1>6. F = [n \in 0 .. Len(Layout) |-> IF n = 0 THEN [items |-> <<>>, rest |-> s]
                                      ELSE ReadItem(F[n - 1], Layout[n])]
  BY <1>5
<1>7. ReadTransaction(s) = F[8]
  BY LayoutFacts DEF ReadTransaction
<1> HIDE DEF F
<1>8. F[0] = r0 /\ \A n \in 1 .. 8 : F[n] = ReadItem(F[n - 1], Layout[n])
  BY <1>6, LayoutFacts DEF Read
<1>9. /\ F[1] = ReadItem(F[0], Layout[1]) /\ F[2] = ReadItem(F[1], Layout[2])
      /\ F[3] = ReadItem(F[2], Layout[3]) /\ F[4] = ReadItem(F[3], Layout[4])
      /\ F[5] = ReadItem(F[4], Layout[5]) /\ F[6] = ReadItem(F[5], Layout[6])
      /\ F[7] = ReadItem(F[6], Layout[7]) /\ F[8] = ReadItem(F[7], Layout[8])
  BY <1>8
<1>10. F[1] = r1 /\ F[2] = r2 /\ F[3] = r3 /\ F[4] = r4
  BY <1>0, <1>8, <1>9, LayoutFacts
<1>11. F[5] = r5 /\ F[6] = r6 /\ F[7] = r7 /\ F[8] = r8
  BY <1>0, <1>9, <1>10, LayoutFacts
<1> QED
  BY <1>7, <1>11 DEF r8
-----------------------------------------------------------------------------
(* The transfer.                                                           *)

(* The parts of the transfer of n lamports.                                *)
KeysOf(from, to) == (from \o to) \o SystemProgram
DataOf(n) == LittleEndian(2, 4) \o LittleEndian(n, 8)
InstructionOf(n) ==
    Chain5(<<2>>, encodeCompactU16(2), <<0, 1>>, encodeCompactU16(12), DataOf(n))
MessageOf(from, to, n) ==
    Chain6(<<1, 0, 1>>, encodeCompactU16(3), KeysOf(from, to), Blockhash, encodeCompactU16(1),
           InstructionOf(n))
TransactionOf(from, to, n) ==
    encodeCompactU16(1) \o Signature \o encodeMessage(Transfer(from, to, n, Blockhash))

LEMMA WidthFacts == Power[8] \in Nat /\ 2 < Power[4]
<1>0. Byte \in Nat /\ Byte >= 4
  <2>1. Low \in Nat /\ Low >= 2 /\ Byte = Low + Low
    BY LowFacts
  <2> QED
    BY <2>1
<1>1. /\ Power[0] = 1 /\ Power[1] = Byte * Power[0] /\ Power[2] = Byte * Power[1]
      /\ Power[3] = Byte * Power[2] /\ Power[4] = Byte * Power[3]
      /\ \A n \in Nat : Power[n] \in Nat
  BY PowerFacts
<1>2. ASSUME NEW v \in Nat PROVE Byte * v >= v
  <2>1. PICK c \in Nat : Byte = c + 1
    <3>1. Byte - 1 \in Nat /\ Byte = (Byte - 1) + 1
      BY <1>0
    <3> QED
      BY <3>1
  <2>2. (c + 1) * v = c * v + v /\ c * v \in Nat
    OBVIOUS
  <2> QED
    BY <2>1, <2>2
<1>3. Power[1] = Byte /\ Power[1] \in Nat /\ Power[2] \in Nat /\ Power[3] \in Nat
      /\ Power[4] \in Nat
  BY <1>0, <1>1
<1>4. Power[2] >= Power[1]
  BY <1>1, <1>2, <1>3
<1>5. Power[3] >= Power[2]
  BY <1>1, <1>2, <1>3
<1>6. Power[4] >= Power[3]
  BY <1>1, <1>2, <1>3
<1>7. 2 < Power[4]
  BY <1>0, <1>3, <1>4, <1>5, <1>6
<1> QED
  BY <1>1, <1>7

LEMMA DataFacts ==
    ASSUME NEW n \in Nat, n < Power[8]
    PROVE  /\ DataOf(n) \in Seq(Nat) /\ Len(DataOf(n)) = 12
           /\ Value(Byte, Reverse(SubSeq(DataOf(n), 1, 4))) = 2
           /\ Value(Byte, Reverse(SubSeq(DataOf(n), 5, 12))) = n
<1> DEFINE a == LittleEndian(2, 4)
           b == LittleEndian(n, 8)
<1>1. a \in Seq(Nat) /\ Len(a) = 4 /\ Value(Byte, Reverse(a)) = 2
  BY WidthFacts, LittleEndianFacts
<1>2. b \in Seq(Nat) /\ Len(b) = 8 /\ Value(Byte, Reverse(b)) = n
  BY LittleEndianFacts
<1>3. DataOf(n) = a \o b
  BY DEF DataOf
<1> HIDE DEF a, b
<1>4. a \o b \in Seq(Nat) /\ Len(a \o b) = 12
  <2>1. a \o b \in Seq(Nat) /\ Len(a \o b) = Len(a) + Len(b)
    BY <1>1, <1>2, ConcatFacts
  <2> QED
    BY <1>1, <1>2, <2>1
<1>5. SubSeq(a \o b, 1, Len(a)) = a
  BY <1>1, <1>2, FirstPart
<1>6. SubSeq(a \o b, Len(a) + 1, Len(a \o b)) = b
  BY <1>1, <1>2, LastPart
<1>7. Len(a) + 1 = 5
  BY <1>1
<1> QED
  BY <1>1, <1>2, <1>3, <1>4, <1>5, <1>6, <1>7

LEMMA KeySizeFacts ==
    /\ KeySize \in Nat \ {0}
    /\ Signature \in Seq(Nat) /\ Len(Signature) = 2 * KeySize
    /\ SystemProgram \in Seq(Nat) /\ Len(SystemProgram) = KeySize
    /\ Blockhash \in Seq(Nat) /\ Len(Blockhash) = KeySize
<1>1. KeySize \in Nat \ {0} /\ Byte \in Nat \ {0, 1} /\ 2 * KeySize \in Nat
  BY EncodingAssumption
<1>2. Signature \in Seq(Nat) /\ Len(Signature) = 2 * KeySize
  <2> DEFINE m == 2 * KeySize
  <2>1. m \in Nat
    BY <1>1
  <2> HIDE DEF m
  <2>2. Zeros(m) \in Seq(Nat) /\ Len(Zeros(m)) = m
    BY <1>1, <2>1, ZerosFacts
  <2> QED
    BY <2>2 DEF m, Signature
<1>3. SystemProgram \in Seq(Nat) /\ Len(SystemProgram) = KeySize
  BY <1>1, ZerosFacts DEF SystemProgram
<1>4. Blockhash \in Seq(Nat) /\ Len(Blockhash) = KeySize
  BY <1>1 DEF Blockhash
<1> QED
  BY <1>1, <1>2, <1>3, <1>4

LEMMA KeysFacts ==
    ASSUME NEW from \in Seq(Nat), NEW to \in Seq(Nat), Len(from) = KeySize, Len(to) = KeySize
    PROVE  LET k == KeysOf(from, to)
           IN /\ k \in Seq(Nat) /\ Len(k) = 3 * KeySize
              /\ SubSeq(k, 0 * KeySize + 1, (0 + 1) * KeySize) = from
              /\ SubSeq(k, 1 * KeySize + 1, (1 + 1) * KeySize) = to
              /\ SubSeq(k, 2 * KeySize + 1, (2 + 1) * KeySize) = SystemProgram
<1> DEFINE p == SystemProgram
           ft == from \o to
           tp == to \o p
<1>0. KeySize \in Nat
  BY KeySizeFacts
<1>1. p \in Seq(Nat) /\ Len(p) = KeySize
  BY KeySizeFacts
<1> HIDE DEF p
<1>2. ft \in Seq(Nat) /\ Len(ft) = KeySize + KeySize /\ tp \in Seq(Nat)
  <2>1. /\ ft \in Seq(Nat) /\ Len(ft) = Len(from) + Len(to) /\ tp \in Seq(Nat)
    BY <1>1, ConcatFacts
  <2> HIDE DEF ft, tp
  <2> QED
    BY <1>0, <2>1
<1>3. KeysOf(from, to) = ft \o p /\ KeysOf(from, to) = from \o tp
  <2>1. Chain3(from, to, p) = Nest3(from, to, p)
    BY <1>1, Concat3 DEF Three
  <2> QED
    BY <2>1 DEF Chain3, Nest3, Cat, KeysOf, p
<1>4. SubSeq(from \o tp, Len(from) + 1, Len(from) + Len(to)) = to
  BY <1>1, MiddlePart
<1> HIDE DEF ft, tp
<1>5. ft \o p \in Seq(Nat) /\ Len(ft \o p) = KeySize + KeySize + KeySize
  <2>1. ft \o p \in Seq(Nat) /\ Len(ft \o p) = Len(ft) + Len(p)
    BY <1>1, <1>2, ConcatFacts
  <2> QED
    BY <1>0, <1>1, <1>2, <2>1
<1>6. SubSeq(from \o tp, 1, Len(from)) = from
  BY <1>2, FirstPart
<1>7. SubSeq(ft \o p, Len(ft) + 1, Len(ft \o p)) = p
  BY <1>1, <1>2, LastPart
<1>8. /\ 0 * KeySize + 1 = 1 /\ (0 + 1) * KeySize = KeySize
      /\ 1 * KeySize + 1 = KeySize + 1 /\ (1 + 1) * KeySize = KeySize + KeySize
      /\ 2 * KeySize + 1 = KeySize + KeySize + 1
      /\ (2 + 1) * KeySize = KeySize + KeySize + KeySize
      /\ 3 * KeySize = KeySize + KeySize + KeySize
  BY <1>0
<1> QED
  BY <1>2, <1>3, <1>4, <1>5, <1>6, <1>7, <1>8 DEF p

LEMMA TransactionFacts ==
    ASSUME NEW from, NEW to, NEW n \in Nat, n < Power[8]
    PROVE  TransactionOf(from, to, n)
              = Chain3(encodeCompactU16(1), Signature, MessageOf(from, to, n))
<1> DEFINE d == DataOf(n)
           ix == [program |-> 2, accounts |-> <<0, 1>>, data |-> d]
           msg == Transfer(from, to, n, Blockhash)
<1>1. Len(d) = 12
  BY DataFacts
<1> HIDE DEF d
<1>2. encodeInstruction(ix) = Chain5(<<2>>, encodeCompactU16(2), <<0, 1>>, encodeCompactU16(12), d)
  <2>1. ix.program = 2 /\ ix.accounts = <<0, 1>> /\ ix.data = d /\ Len(<<0, 1>>) = 2
    OBVIOUS
  <2> HIDE DEF ix
  <2> QED
    BY <1>1, <2>1 DEF encodeInstruction, Chain5, Chain4, Chain3, Cat
<1>3. /\ msg.header = <<1, 0, 1>> /\ msg.keys = <<from, to, SystemProgram>>
      /\ msg.blockhash = Blockhash /\ msg.instructions = <<ix>>
  BY DEF Transfer, d, DataOf
<1> HIDE DEF msg, ix
<1>4. Len(<<from, to, SystemProgram>>) = 3 /\ Len(<<ix>>) = 1
  OBVIOUS
<1>5. FlattenSeq(<<from, to, SystemProgram>>) = KeysOf(from, to)
  <2> DEFINE s == <<from, to, SystemProgram>>
  <2>1. Len(s) = 3 /\ s[1] = from /\ s[2] = to /\ s[3] = SystemProgram
    OBVIOUS
  <2> HIDE DEF s
  <2>2. FlattenSeq(s) = (s[1] \o s[2]) \o s[3]
    BY <2>1, FlattenThree
  <2> QED
    BY <2>1, <2>2 DEF KeysOf, s
<1>6. [i \in DOMAIN <<ix>> |-> encodeInstruction(<<ix>>[i])] = <<encodeInstruction(ix)>>
  OBVIOUS
<1>7. FlattenSeq([i \in DOMAIN <<ix>> |-> encodeInstruction(<<ix>>[i])]) = encodeInstruction(ix)
  BY <1>6, FlattenOne
<1>8. encodeInstruction(ix) = InstructionOf(n)
  BY <1>2 DEF InstructionOf, d
<1>9. encodeMessage(msg) = MessageOf(from, to, n)
  BY <1>3, <1>4, <1>5, <1>7, <1>8 DEF encodeMessage, MessageOf, Chain6, Chain5, Chain4,
     Chain3, Cat
<1> QED
  BY <1>9 DEF TransactionOf, Chain3, Cat, msg

LEMMA TailFacts ==
    ASSUME NEW a \in Seq(Nat), NEW b \in Seq(Nat), NEW c \in Seq(Nat)
    PROVE  a \o (b \o c) \in Seq(Nat)
<1> DEFINE bc == b \o c
<1>1. bc \in Seq(Nat)
  BY ConcatFacts
<1> HIDE DEF bc
<1>2. a \o bc \in Seq(Nat)
  BY <1>1, ConcatFacts
<1> QED
  BY <1>2 DEF bc

HasItems(s, k, S) == s \in Seq(S) /\ Len(s) = k
Grown(t, s, x, k) == t[k] = x /\ \A i \in 1 .. k - 1 : t[i] = s[i]

LEMMA ItemsFacts ==
    ASSUME NEW S, NEW k \in Nat \ {0}, NEW s, HasItems(s, k - 1, S), NEW x \in S
    PROVE  HasItems(Append(s, x), k, S) /\ Grown(Append(s, x), s, x, k)
  BY DEF HasItems, Grown

(* The eight items of the transfer.                                        *)
IsTransfer(items, from, to, n) ==
    /\ items[1] = Item(1, Signature) /\ items[2] = Item(1, <<1, 0, 1>>)
    /\ items[3] = Item(3, KeysOf(from, to)) /\ items[4] = Item(1, Blockhash)
    /\ items[5] = Item(1, <<>>) /\ items[6] = Item(1, <<2>>)
    /\ items[7] = Item(2, <<0, 1>>) /\ items[8] = Item(12, DataOf(n))

LEMMA TransferIsRead ==
    ASSUME NEW from \in Seq(Nat), NEW to \in Seq(Nat), Len(from) = KeySize, Len(to) = KeySize,
           NEW n \in Nat, n < Power[8]
    PROVE  \E items : /\ ReadTransaction(TransactionOf(from, to, n)) = Read(items, <<>>)
                      /\ IsTransfer(items, from, to, n)
<1> DEFINE C(k) == encodeCompactU16(k)
           G == Signature
           H == <<1, 0, 1>>
           K == KeysOf(from, to)
           B == Blockhash
           E == <<>>
           P == <<2>>
           A == <<0, 1>>
           D == DataOf(n)
           x7 == C(12) \o (D \o E)
           x6 == C(2) \o (A \o x7)
           x5 == P \o x6
           x4 == C(1) \o (E \o x5)
           x3 == B \o x4
           x2 == C(3) \o (K \o x3)
           x1 == H \o x2
           x0 == C(1) \o (G \o x1)
<1>0. KeySize \in Nat
  BY KeySizeFacts
<1>1. /\ G \in Seq(Nat) /\ Len(G) = 2 * KeySize /\ H \in Seq(Nat) /\ Len(H) = 3
      /\ K \in Seq(Nat) /\ Len(K) = 3 * KeySize /\ B \in Seq(Nat) /\ Len(B) = KeySize
      /\ E \in Seq(Nat) /\ Len(E) = 0 /\ P \in Seq(Nat) /\ Len(P) = 1
      /\ A \in Seq(Nat) /\ Len(A) = 2 /\ D \in Seq(Nat) /\ Len(D) = 12
  <2>1. /\ H \in Seq(Nat) /\ Len(H) = 3 /\ E \in Seq(Nat) /\ Len(E) = 0
        /\ P \in Seq(Nat) /\ Len(P) = 1 /\ A \in Seq(Nat) /\ Len(A) = 2
    OBVIOUS
  <2>2. D \in Seq(Nat) /\ Len(D) = 12
    BY DataFacts
  <2>3. K \in Seq(Nat) /\ Len(K) = 3 * KeySize
    BY KeysFacts
  <2>4. G \in Seq(Nat) /\ Len(G) = 2 * KeySize /\ B \in Seq(Nat) /\ Len(B) = KeySize
    BY KeySizeFacts
  <2> HIDE DEF G, H, K, B, E, P, A, D
  <2> QED
    BY <2>1, <2>2, <2>3, <2>4
<1>2. C(1) \in Seq(Nat) /\ C(2) \in Seq(Nat) /\ C(3) \in Seq(Nat) /\ C(12) \in Seq(Nat)
  BY CompactFacts
<1>3. TransactionOf(from, to, n) = C(1) \o (G \o MessageOf(from, to, n))
  <2>1. InstructionOf(n) \in Seq(Nat)
    <3> HIDE DEF C, P, A, D
    <3>1. Five(P, C(2), A, C(12), D)
      BY <1>1, <1>2 DEF Five, Three
    <3>2. Chain5(P, C(2), A, C(12), D) \in Seq(Nat)
      BY <3>1, Concat5
    <3> QED
      BY <3>2 DEF InstructionOf, P, C, A, D
  <2>2. MessageOf(from, to, n) \in Seq(Nat)
    <3> DEFINE I == InstructionOf(n)
    <3> HIDE DEF C, H, K, B, I
    <3>1. Six(H, C(3), K, B, C(1), I)
      BY <1>1, <1>2, <2>1 DEF Six, Five, Three, I
    <3>2. Chain6(H, C(3), K, B, C(1), I) \in Seq(Nat)
      BY <3>1, Concat6
    <3> QED
      BY <3>2 DEF MessageOf, H, C, K, B, I
  <2>3. Chain3(C(1), G, MessageOf(from, to, n)) = Nest3(C(1), G, MessageOf(from, to, n))
    <3> HIDE DEF C, G
    <3> QED
      BY <1>1, <1>2, <2>2, Concat3 DEF Three
  <2> QED
    BY <2>3, TransactionFacts DEF Nest3, Cat
<1>4. InstructionOf(n) = x5 /\ E \o x5 = x5 /\ x5 \in Seq(Nat)
  <2> HIDE DEF C, P, A, D
  <2>1. Chain5(P, C(2), A, C(12), D) = Nest5(P, C(2), A, C(12), D)
        /\ Nest5(P, C(2), A, C(12), D) \in Seq(Nat)
    <3>1. Five(P, C(2), A, C(12), D)
      BY <1>1, <1>2 DEF Five, Three
    <3> QED
      BY <3>1, Concat5
  <2>2. D \o E = D
    BY <1>1, ConcatEmpty
  <2>3. x5 = Nest5(P, C(2), A, C(12), D)
    BY <2>2 DEF Nest5, Nest4, Nest3, Cat
  <2>4. InstructionOf(n) = Chain5(P, C(2), A, C(12), D)
    BY DEF InstructionOf, P, C, A, D
  <2> HIDE DEF x5
  <2>5. E \o x5 = x5
    BY <2>1, <2>3, ConcatEmpty
  <2> QED
    BY <2>1, <2>3, <2>4, <2>5
<1>5. MessageOf(from, to, n) = x1
  <2> DEFINE I == InstructionOf(n)
  <2>1. I \in Seq(Nat) /\ E \o x5 = I
    BY <1>4
  <2> HIDE DEF C, H, K, B, I, E, x5
  <2>2. Chain6(H, C(3), K, B, C(1), I) = Nest6(H, C(3), K, B, C(1), I)
    <3>1. Six(H, C(3), K, B, C(1), I)
      BY <1>1, <1>2, <2>1 DEF Six, Five, Three
    <3> QED
      BY <3>1, Concat6
  <2>3. x1 = Nest6(H, C(3), K, B, C(1), I)
    BY <2>1 DEF Nest6, Nest5, Nest4, Nest3, Cat
  <2>4. MessageOf(from, to, n) = Chain6(H, C(3), K, B, C(1), I)
    BY DEF MessageOf, H, C, K, B, I
  <2> QED
    BY <2>2, <2>3, <2>4
<1>6. TransactionOf(from, to, n) = x0
  BY <1>3, <1>5
<1> HIDE DEF C, G, H, K, B, E, P, A, D
<1>7. x7 \in Seq(Nat)
  BY <1>1, <1>2, TailFacts
<1> HIDE DEF x7
<1>8. x6 \in Seq(Nat)
  BY <1>1, <1>2, <1>7, TailFacts
<1> HIDE DEF x6, x5
<1>9. x4 \in Seq(Nat)
  BY <1>1, <1>2, <1>4, TailFacts
<1> HIDE DEF x4
<1>10. x3 \in Seq(Nat)
  BY <1>1, <1>9, ConcatFacts
<1> HIDE DEF x3
<1>11. x2 \in Seq(Nat)
  BY <1>1, <1>2, <1>10, TailFacts
<1> HIDE DEF x2
<1>12. x1 \in Seq(Nat)
  BY <1>1, <1>11, ConcatFacts
<1> HIDE DEF x1, x0
<1> DEFINE i1 == Append(E, Item(1, G))
           i2 == Append(i1, Item(1, H))
           i3 == Append(i2, Item(3, K))
           i4 == Append(i3, Item(1, B))
           i5 == Append(i4, Item(1, E))
           i6 == Append(i5, Item(1, P))
           i7 == Append(i6, Item(2, A))
           i8 == Append(i7, Item(12, D))
<1> DEFINE S == {Item(1, G), Item(1, H), Item(3, K), Item(1, B), Item(1, E), Item(1, P),
                 Item(2, A), Item(12, D)}
<1>13. IsTransfer(i8, from, to, n)
  <2> HIDE DEF i1, i2, i3, i4, i5, i6, i7, i8
  <2>0. Item(1, G) \in S /\ Item(1, H) \in S /\ Item(3, K) \in S /\ Item(1, B) \in S
        /\ Item(1, E) \in S /\ Item(1, P) \in S /\ Item(2, A) \in S /\ Item(12, D) \in S
    OBVIOUS
  <2>e. HasItems(E, 0, S)
    BY DEF E, HasItems
  <2> HIDE DEF S
  <2>1. HasItems(i1, 1, S) /\ Grown(i1, E, Item(1, G), 1)
    <3>1. 1 \in Nat \ {0} /\ 1 - 1 = 0
      OBVIOUS
    <3> QED
      BY <2>0, <2>e, <3>1, ItemsFacts DEF i1
  <2>2. HasItems(i2, 2, S) /\ Grown(i2, i1, Item(1, H), 2)
    <3>1. 2 \in Nat \ {0} /\ 2 - 1 = 1
      OBVIOUS
    <3> QED
      BY <2>0, <2>1, <3>1, ItemsFacts DEF i2
  <2>3. HasItems(i3, 3, S) /\ Grown(i3, i2, Item(3, K), 3)
    <3>1. 3 \in Nat \ {0} /\ 3 - 1 = 2
      OBVIOUS
    <3> QED
      BY <2>0, <2>2, <3>1, ItemsFacts DEF i3
  <2>4. HasItems(i4, 4, S) /\ Grown(i4, i3, Item(1, B), 4)
    <3>1. 4 \in Nat \ {0} /\ 4 - 1 = 3
      OBVIOUS
    <3> QED
      BY <2>0, <2>3, <3>1, ItemsFacts DEF i4
  <2>5. HasItems(i5, 5, S) /\ Grown(i5, i4, Item(1, E), 5)
    <3>1. 5 \in Nat \ {0} /\ 5 - 1 = 4
      OBVIOUS
    <3> QED
      BY <2>0, <2>4, <3>1, ItemsFacts DEF i5
  <2>6. HasItems(i6, 6, S) /\ Grown(i6, i5, Item(1, P), 6)
    <3>1. 6 \in Nat \ {0} /\ 6 - 1 = 5
      OBVIOUS
    <3> QED
      BY <2>0, <2>5, <3>1, ItemsFacts DEF i6
  <2>7. HasItems(i7, 7, S) /\ Grown(i7, i6, Item(2, A), 7)
    <3>1. 7 \in Nat \ {0} /\ 7 - 1 = 6
      OBVIOUS
    <3> QED
      BY <2>0, <2>6, <3>1, ItemsFacts DEF i7
  <2>8. HasItems(i8, 8, S) /\ Grown(i8, i7, Item(12, D), 8)
    <3>1. 8 \in Nat \ {0} /\ 8 - 1 = 7
      OBVIOUS
    <3> QED
      BY <2>0, <2>7, <3>1, ItemsFacts DEF i8
  <2>9. i8[1] = Item(1, G)
    BY <2>1, <2>2, <2>3, <2>4, <2>5, <2>6, <2>7, <2>8 DEF Grown
  <2>10. i8[2] = Item(1, H)
    BY <2>2, <2>3, <2>4, <2>5, <2>6, <2>7, <2>8 DEF Grown
  <2>11. i8[3] = Item(3, K)
    BY <2>3, <2>4, <2>5, <2>6, <2>7, <2>8 DEF Grown
  <2>12. i8[4] = Item(1, B)
    BY <2>4, <2>5, <2>6, <2>7, <2>8 DEF Grown
  <2>13. i8[5] = Item(1, E)
    BY <2>5, <2>6, <2>7, <2>8 DEF Grown
  <2>14. i8[6] = Item(1, P)
    BY <2>6, <2>7, <2>8 DEF Grown
  <2>15. i8[7] = Item(2, A)
    BY <2>7, <2>8 DEF Grown
  <2>16. i8[8] = Item(12, D)
    BY <2>8 DEF Grown
  <2> QED
    BY <2>9, <2>10, <2>11, <2>12, <2>13, <2>14, <2>15, <2>16
       DEF IsTransfer, G, H, K, B, E, P, A, D
<1> HIDE DEF i1, i2, i3, i4, i5, i6, i7, i8
<1>14. Step1(x0) = Read(i1, x1)
  <2> DEFINE size == 2 * KeySize
  <2>1. Sized(G, 1, size, x1)
    BY <1>0, <1>1, <1>12 DEF Sized
  <2> HIDE DEF size
  <2>2. ReadItem(Read(E, encodeCompactU16(1) \o (G \o x1)), Counted(size))
           = Read(Append(E, Item(1, G)), x1)
    BY <2>1, ReadCounted
  <2> QED
    BY <2>2 DEF Step1, x0, C, i1, size, E
<1>15. Step2(x0) = Read(i2, x2)
  <2>1. Sized(H, 1, 3, x2)
    BY <1>1, <1>11 DEF Sized
  <2>2. ReadItem(Read(i1, H \o x2), Fixed(3)) = Read(Append(i1, Item(1, H)), x2)
    BY <2>1, ReadFixed
  <2> QED
    BY <1>14, <2>2 DEF Step2, x1, i2
<1>16. Step3(x0) = Read(i3, x3)
  <2>1. Sized(K, 3, KeySize, x3)
    BY <1>0, <1>1, <1>10 DEF Sized
  <2>2. ReadItem(Read(i2, encodeCompactU16(3) \o (K \o x3)), Counted(KeySize))
           = Read(Append(i2, Item(3, K)), x3)
    BY <2>1, ReadCounted
  <2> QED
    BY <1>15, <2>2 DEF Step3, x2, C, i3
<1>17. Step4(x0) = Read(i4, x4)
  <2>1. Sized(B, 1, KeySize, x4)
    BY <1>0, <1>1, <1>9 DEF Sized
  <2>2. ReadItem(Read(i3, B \o x4), Fixed(KeySize)) = Read(Append(i3, Item(1, B)), x4)
    BY <2>1, ReadFixed
  <2> QED
    BY <1>16, <2>2 DEF Step4, x3, i4
<1>18. Step5(x0) = Read(i5, x5)
  <2>1. Sized(E, 1, 0, x5)
    BY <1>1, <1>4 DEF Sized
  <2>2. ReadItem(Read(i4, encodeCompactU16(1) \o (E \o x5)), Counted(0))
           = Read(Append(i4, Item(1, E)), x5)
    BY <2>1, ReadCounted
  <2> QED
    BY <1>17, <2>2 DEF Step5, x4, C, i5
<1>19. Step6(x0) = Read(i6, x6)
  <2>1. Sized(P, 1, 1, x6)
    BY <1>1, <1>8 DEF Sized
  <2>2. ReadItem(Read(i5, P \o x6), Fixed(1)) = Read(Append(i5, Item(1, P)), x6)
    BY <2>1, ReadFixed
  <2> QED
    BY <1>18, <2>2 DEF Step6, x5, i6
<1>20. Step7(x0) = Read(i7, x7)
  <2>1. Sized(A, 2, 1, x7)
    BY <1>1, <1>7 DEF Sized
  <2>2. ReadItem(Read(i6, encodeCompactU16(2) \o (A \o x7)), Counted(1))
           = Read(Append(i6, Item(2, A)), x7)
    BY <2>1, ReadCounted
  <2> QED
    BY <1>19, <2>2 DEF Step7, x6, C, i7
<1>21. Step8(x0) = Read(i8, E)
  <2>1. Sized(D, 12, 1, E)
    BY <1>1 DEF Sized
  <2>2. ReadItem(Read(i7, encodeCompactU16(12) \o (D \o E)), Counted(1))
           = Read(Append(i7, Item(12, D)), E)
    BY <2>1, ReadCounted
  <2> QED
    BY <1>20, <2>2 DEF Step8, x7, C, i8
<1> QED
  <2>1. ReadTransaction(x0) = Step8(x0)
    BY ReadInSteps
  <2> QED
    BY <1>6, <1>13, <1>21, <2>1 DEF E
(* The key that is paid from is a key, or there is none.                   *)
LEMMA SignerFacts ==
    ASSUME NEW raw \in Keys
    PROVE  LET from == signerFromPrivateKey(raw)
           IN from # Error => from \in Seq(Nat) /\ Len(from) = KeySize
<1>1. KeySize \in Nat \ {0} /\ Byte \in Nat \ {0, 1} /\ raw \in Seq(Nat) /\ Len(raw) \in Nat
  <2>1. Byte \in Nat /\ raw \in Seq(0 .. Byte - 1) /\ KeySize \in Nat \ {0} /\ Byte \in Nat \ {0, 1}
    BY EncodingAssumption
  <2>2. raw \in Seq(Nat)
    BY <2>1, BytesAreNumbers
  <2> QED
    BY <2>1, <2>2
<1>2. CASE Len(raw) = 2 * KeySize
  <2> DEFINE lo == KeySize + 1
             hi == 2 * KeySize
  <2>1. lo \in Nat \ {0} /\ hi \in Nat /\ lo <= hi + 1 /\ hi <= Len(raw) /\ hi - lo + 1 = KeySize
    BY <1>1, <1>2
  <2> HIDE DEF lo, hi
  <2>2. SubSeq(raw, lo, hi) \in Seq(Nat) /\ Len(SubSeq(raw, lo, hi)) = hi - lo + 1
    BY <1>1, <2>1, SubSeqFacts
  <2>3. signerFromPrivateKey(raw) = SubSeq(raw, lo, hi)
    BY <1>2 DEF signerFromPrivateKey, lo, hi
  <2> QED
    BY <2>1, <2>2, <2>3
<1>3. CASE Len(raw) # 2 * KeySize /\ Len(raw) = KeySize
  <2>1. signerFromPrivateKey(raw) = PublicKey(raw)
    BY <1>3 DEF signerFromPrivateKey
  <2>2. \A i \in 1 .. Len(raw) : (raw[i] + 1) % Byte \in Nat
    <3>1. \A x \in Nat : x % Byte \in Nat
      BY <1>1, Division
    <3>2. \A i \in 1 .. Len(raw) : raw[i] + 1 \in Nat
      BY <1>1
    <3> QED
      BY <3>1, <3>2
  <2>3. DOMAIN raw = 1 .. Len(raw)
    BY <1>1
  <2>4. PublicKey(raw) \in Seq(Nat) /\ Len(PublicKey(raw)) = Len(raw)
    BY <1>1, <2>2, <2>3 DEF PublicKey
  <2> QED
    BY <1>3, <2>1, <2>4
<1>4. CASE Len(raw) # 2 * KeySize /\ Len(raw) # KeySize
  BY <1>4 DEF signerFromPrivateKey
<1> QED
  BY <1>2, <1>3, <1>4

(* The amount fits, and is the one that was asked for.                     *)
LEMMA LamportsFacts ==
    ASSUME NEW half \in Int, NEW n \in toLamports(half)
    PROVE  /\ n \in Nat /\ n < Power[8]
           /\ half < 2 * Power[8] - 1 => 2 * n - half \in {0, 1}
<1> DEFINE P == Power[8]
<1>1. P \in Nat
  BY WidthFacts
<1>2. /\ ~ (half <= 0 \/ half > 2 * P)
      /\ \/ half \in {2 * P - 1, 2 * P} /\ n \in {0, P \div 2, P - 1}
         \/ half \notin {2 * P - 1, 2 * P} /\ n = (half + 1) \div 2
  BY DEF toLamports
<1> HIDE DEF P
<1>3. CASE half \in {2 * P - 1, 2 * P} /\ n \in {0, P \div 2, P - 1}
  <2>1. P # 0
    BY <1>1, <1>2
  <2>2. P \div 2 \in Nat /\ P \div 2 < P
    BY <1>1, <2>1, Division
  <2>3. n \in Nat /\ n < P
    BY <1>1, <1>3, <2>1, <2>2
  <2>4. ~ (half < 2 * P - 1)
    BY <1>1, <1>3
  <2> QED
    BY <2>3, <2>4 DEF P
<1>4. CASE half \notin {2 * P - 1, 2 * P} /\ n = (half + 1) \div 2
  <2> DEFINE m == half + 1
             r == m % 2
  <2>1. m \in Nat
    BY <1>1, <1>2
  <2>2. n \in Nat /\ r \in 0 .. 2 - 1 /\ m = n * 2 + r
    <3> HIDE DEF m
    <3>1. m \div 2 \in Nat /\ m % 2 \in 0 .. 2 - 1 /\ m = (m \div 2) * 2 + (m % 2)
      BY <2>1, Division
    <3> QED
      BY <1>4, <3>1 DEF m
  <2> HIDE DEF r
  <2>3. n < P /\ 2 * n - half \in {0, 1}
    BY <1>1, <1>2, <1>4, <2>2
  <2> QED
    BY <2>2, <2>3 DEF P
<1> QED
  BY <1>2, <1>3, <1>4

(* What the cluster reads is what was asked for, for every key, payee and  *)
(* amount and any size of a key (tx.go:17-130, chain_service.go:627-636).  *)
THEOREM TransferReadBack == EncodingSpec => []TransferIsReadBack
<1>1. ResultIsOfJob => TransferIsReadBack
  <2> SUFFICES ASSUME ResultIsOfJob, job.kind = "transfer", result \notin {<<>>, Error}
               PROVE  TransferIsReadBack
    BY DEF TransferIsReadBack
  <2> DEFINE from == signerFromPrivateKey(job.key)
             to == job.to
             half == job.half
  <2>1. job.key \in Keys /\ to \in Keys /\ half \in Halves
    BY JobsKinds DEF ResultIsOfJob
  <2>2. PICK n \in toLamports(half) : result = BuildNativeTransferTx(job.key, to, n, Blockhash)
    BY DEF ResultIsOfJob
  <2>3. from # Error /\ Len(to) = KeySize /\ result = TransactionOf(from, to, n)
    BY <2>2 DEF BuildNativeTransferTx, TransactionOf
  <2>4. from \in Seq(Nat) /\ Len(from) = KeySize
    BY <2>1, <2>3, SignerFacts
  <2>5. to \in Seq(Nat)
    <3>1. Byte \in Nat /\ to \in Seq(0 .. Byte - 1)
      BY <2>1, EncodingAssumption
    <3> HIDE DEF to
    <3> QED
      BY <3>1, BytesAreNumbers
  <2>6. n \in Nat /\ n < Power[8] /\ (half < 2 * Power[8] - 1 => 2 * n - half \in {0, 1})
    <3>1. half \in Int
      BY <2>1, EncodingAssumption
    <3> HIDE DEF half
    <3> QED
      BY <3>1, LamportsFacts
  <2> HIDE DEF from, to, half
  <2>7. PICK items : /\ ReadTransaction(result) = Read(items, <<>>)
                     /\ IsTransfer(items, from, to, n)
    BY <2>3, <2>4, <2>5, <2>6, TransferIsRead
  <2> DEFINE R == ReadTransaction(result)
             K == KeysOf(from, to)
             D == DataOf(n)
  <2>8. R.items = items /\ R.rest = <<>>
    BY <2>7 DEF Read
  <2> HIDE DEF R
  <2>9. /\ R.items[1].count = 1 /\ R.items[5].count = 1
        /\ R.items[2].bytes = <<1, 0, 1>> /\ R.items[3].bytes = K /\ R.items[4].bytes = Blockhash
        /\ R.items[6].bytes = <<2>> /\ R.items[7].bytes = <<0, 1>> /\ R.items[8].bytes = D
    BY <2>7, <2>8 DEF IsTransfer, Item
  <2>10. /\ SubSeq(K, 0 * KeySize + 1, (0 + 1) * KeySize) = from
         /\ SubSeq(K, 1 * KeySize + 1, (1 + 1) * KeySize) = to
         /\ SubSeq(K, 2 * KeySize + 1, (2 + 1) * KeySize) = SystemProgram
    BY <2>3, <2>4, <2>5, KeysFacts
  <2>11. /\ Value(Byte, Reverse(SubSeq(D, 1, 4))) = 2
         /\ Value(Byte, Reverse(SubSeq(D, 5, 12))) = n
    BY <2>6, DataFacts
  <2> HIDE DEF K, D
  <2>12. /\ R.items[6].bytes[1] = 2
         /\ R.items[7].bytes[1] = 0 /\ R.items[7].bytes[2] = 1
    BY <2>9
  <2>13. /\ SubSeq(R.items[3].bytes, R.items[6].bytes[1] * KeySize + 1,
                   (R.items[6].bytes[1] + 1) * KeySize) = SystemProgram
         /\ SubSeq(R.items[3].bytes, R.items[7].bytes[1] * KeySize + 1,
                   (R.items[7].bytes[1] + 1) * KeySize) = from
         /\ SubSeq(R.items[3].bytes, R.items[7].bytes[2] * KeySize + 1,
                   (R.items[7].bytes[2] + 1) * KeySize) = to
    BY <2>9, <2>10, <2>12
  <2>14. /\ Value(Byte, Reverse(SubSeq(R.items[8].bytes, 1, 4))) = 2
         /\ half < 2 * Power[8] - 1 =>
               2 * Value(Byte, Reverse(SubSeq(R.items[8].bytes, 5, 12))) - half \in {0, 1}
    BY <2>6, <2>9, <2>11
  <2> QED
    BY <2>8, <2>9, <2>13, <2>14 DEF TransferIsReadBack, R, from, to, half
<1> QED
  BY <1>1, ResultLemma, PTL
=============================================================================
