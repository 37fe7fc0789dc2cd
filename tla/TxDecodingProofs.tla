-------------------------- MODULE TxDecodingProofs --------------------------
(***************************************************************************)
(* Proofs about TxDecoding: what the connector says of a transaction       *)
(* agrees with what the transaction did, however long it is, for any       *)
(* accounts, registry and amounts.                                         *)
(***************************************************************************)
EXTENDS TxDecoding, FiniteSetTheorems, TLAPS

-----------------------------------------------------------------------------
(* Sums of sequences.                                                      *)

LEMMA LeastExists ==
    ASSUME NEW S, S \subseteq Nat, S # {}
    PROVE  \E n \in S : \A m \in S : n <= m
<1>1. PICK n \in S : \A m \in S : ~ (<<m, n>> \in OpToRel(<, Nat))
  BY NatLessThanWellFounded, WFMin
<1>2. \A m \in S : ~ (m < n)
  BY <1>1 DEF OpToRel
<1> QED
  BY <1>2

LEMMA SetInduction ==
    ASSUME NEW S, 0 \in S, \A n \in Nat : n \in S => n + 1 \in S
    PROVE  Nat \subseteq S
<1> SUFFICES ASSUME Nat \ S # {} PROVE FALSE
  OBVIOUS
<1> DEFINE T == Nat \ S
<1>1. PICK n \in T : \A m \in T : n <= m
  BY LeastExists
<1>2. n # 0 /\ n - 1 \in Nat
  BY <1>1
<1>3. n - 1 \in S
  BY <1>1, <1>2
<1>4. n - 1 + 1 \in S
  BY <1>2, <1>3
<1> QED
  BY <1>1, <1>4

LEMMA PartialFacts ==
    ASSUME NEW s \in Seq(Int)
    PROVE  /\ Partial(s) \in [0 .. Len(s) -> Int]
           /\ Partial(s)[0] = 0
           /\ \A n \in 1 .. Len(s) : Partial(s)[n] = Partial(s)[n - 1] + s[n]
<1> DEFINE IsSum(f, m) == /\ f \in [0 .. m -> Int] /\ f[0] = 0
                          /\ \A n \in 1 .. m : f[n] = f[n - 1] + s[n]
           Good == {m \in Nat : m <= Len(s) => \E f : IsSum(f, m)}
<1>0. Len(s) \in Nat
  OBVIOUS
<1>1. 0 \in Good
  <2>1. IsSum([n \in 0 .. 0 |-> 0], 0)
    OBVIOUS
  <2> HIDE DEF IsSum
  <2> QED
    BY <2>1
<1>2. ASSUME NEW m \in Nat, m \in Good PROVE m + 1 \in Good
  <2> SUFFICES ASSUME m + 1 <= Len(s) PROVE \E f : IsSum(f, m + 1)
    <3> HIDE DEF IsSum
    <3> QED
      OBVIOUS
  <2>1. PICK f : IsSum(f, m)
    <3> HIDE DEF IsSum
    <3> QED
      BY <1>0, <1>2
  <2> DEFINE g == [n \in 0 .. m + 1 |-> IF n = m + 1 THEN f[m] + s[m + 1] ELSE f[n]]
  <2>2. s[m + 1] \in Int /\ f[m] \in Int
    BY <2>1
  <2>3. g \in [0 .. m + 1 -> Int] /\ g[0] = 0
    BY <2>1, <2>2
  <2>4. ASSUME NEW n \in 1 .. m + 1 PROVE g[n] = g[n - 1] + s[n]
    <3>1. CASE n = m + 1
      BY <3>1, <2>1
    <3>2. CASE n # m + 1
      <4>1. n \in 1 .. m /\ n - 1 \in 0 .. m
        BY <3>2
      <4> QED
        BY <4>1, <3>2, <2>1
    <3> QED
      BY <3>1, <3>2
  <2>5. IsSum(g, m + 1)
    BY <2>3, <2>4
  <2> HIDE DEF IsSum
  <2> QED
    BY <2>5
<1>3. Nat \subseteq Good
  <2> HIDE DEF Good
  <2> QED
    BY <1>1, <1>2, SetInduction
<1>4. Len(s) \in Good
  BY <1>0, <1>3
<1>5. PICK f : IsSum(f, Len(s))
  <2> HIDE DEF IsSum
  <2> QED
    BY <1>0, <1>4
<1>6. f = [n \in 0 .. Len(s) |-> IF n = 0 THEN 0 ELSE f[n - 1] + s[n]]
  BY <1>5
<1>7. Partial(s) = [n \in 0 .. Len(s) |-> IF n = 0 THEN 0 ELSE Partial(s)[n - 1] + s[n]]
  BY <1>6 DEF Partial
<1> DEFINE P == Partial(s)
<1>8. P = [n \in 0 .. Len(s) |-> IF n = 0 THEN 0 ELSE P[n - 1] + s[n]]
  BY <1>7
<1> HIDE DEF P
<1>9. P[0] = 0 /\ \A n \in 1 .. Len(s) : P[n] = P[n - 1] + s[n]
  <2>1. \A n \in 0 .. Len(s) : P[n] = IF n = 0 THEN 0 ELSE P[n - 1] + s[n]
    BY <1>8
  <2> QED
    BY <1>0, <2>1
<1> DEFINE T == {n \in Nat : n <= Len(s) => P[n] \in Int}
<1>10. Nat \subseteq T
  <2>1. 0 \in T
    BY <1>9
  <2>2. ASSUME NEW n \in Nat, n \in T PROVE n + 1 \in T
    <3> SUFFICES ASSUME n + 1 <= Len(s) PROVE P[n + 1] \in Int
      OBVIOUS
    <3>1. P[n] \in Int /\ s[n + 1] \in Int /\ P[n + 1] = P[n] + s[n + 1]
      BY <2>2, <1>9
    <3> QED
      BY <3>1
  <2> HIDE DEF T
  <2> QED
    BY <2>1, <2>2, SetInduction
<1>11. \A n \in 0 .. Len(s) : P[n] \in Int
  BY <1>10
<1>12. P \in [0 .. Len(s) -> Int]
  BY <1>8, <1>11
<1> QED
  BY <1>9, <1>12 DEF P

(* Sequences of one length that differ by d in one place.                  *)
LEMMA TotalUpdate ==
    ASSUME NEW s \in Seq(Int), NEW t \in Seq(Int), Len(s) = Len(t),
           NEW k \in DOMAIN s, NEW d \in Int, t[k] = s[k] + d,
           \A n \in DOMAIN s : n # k => t[n] = s[n]
    PROVE  Total(t) = Total(s) + d
<1> DEFINE P == Partial(s)
           Q == Partial(t)
           T == {n \in Nat : n <= Len(s) => Q[n] = P[n] + (IF n >= k THEN d ELSE 0)}
<1>1. /\ P \in [0 .. Len(s) -> Int] /\ P[0] = 0
      /\ \A n \in 1 .. Len(s) : P[n] = P[n - 1] + s[n]
      /\ Q \in [0 .. Len(s) -> Int] /\ Q[0] = 0
      /\ \A n \in 1 .. Len(s) : Q[n] = Q[n - 1] + t[n]
  BY PartialFacts
<1>2. k \in 1 .. Len(s) /\ Len(s) \in Nat
  OBVIOUS
<1>3. Total(s) = P[Len(s)] /\ Total(t) = Q[Len(s)]
  BY DEF Total
<1> HIDE DEF P, Q
<1>4. 0 \in T
  BY <1>1, <1>2
<1>5. ASSUME NEW n \in Nat, n \in T PROVE n + 1 \in T
  <2> SUFFICES ASSUME n + 1 <= Len(s)
               PROVE  Q[n + 1] = P[n + 1] + (IF n + 1 >= k THEN d ELSE 0)
    OBVIOUS
  <2>0. n <= Len(s) /\ n \in 0 .. Len(s)
    BY <1>2
  <2>1. Q[n] = P[n] + (IF n >= k THEN d ELSE 0) /\ P[n] \in Int
    BY <1>5, <1>1, <2>0
  <2>2. P[n + 1] = P[n] + s[n + 1] /\ Q[n + 1] = Q[n] + t[n + 1]
    BY <1>1, SMTT(30)
  <2>3. s[n + 1] \in Int /\ n + 1 \in DOMAIN s
    OBVIOUS
  <2>4. t[n + 1] = s[n + 1] + (IF n + 1 = k THEN d ELSE 0)
    BY <2>3, SMTT(30)
  <2> HIDE DEF T
  <2> QED
    BY <2>1, <2>2, <2>3, <2>4, <1>2, SMTT(30)
<1>6. Len(s) \in T
  <2> HIDE DEF T
  <2> QED
    BY <1>2, <1>4, <1>5, SetInduction
<1> QED
  BY <1>2, <1>3, <1>6

LEMMA TotalAppend ==
    ASSUME NEW s \in Seq(Int), NEW x \in Int
    PROVE  Total(Append(s, x)) = Total(s) + x
<1> DEFINE t == Append(s, x)
           P == Partial(s)
           Q == Partial(t)
           T == {n \in Nat : n <= Len(s) => Q[n] = P[n]}
<1>1. t \in Seq(Int) /\ Len(t) = Len(s) + 1 /\ t[Len(s) + 1] = x
      /\ \A n \in 1 .. Len(s) : t[n] = s[n]
  OBVIOUS
<1> HIDE DEF t
<1>2. /\ P \in [0 .. Len(s) -> Int] /\ P[0] = 0
      /\ \A n \in 1 .. Len(s) : P[n] = P[n - 1] + s[n]
      /\ Q \in [0 .. Len(s) + 1 -> Int] /\ Q[0] = 0
      /\ \A n \in 1 .. Len(s) + 1 : Q[n] = Q[n - 1] + t[n]
  BY PartialFacts, <1>1
<1>3. Total(s) = P[Len(s)] /\ Total(t) = Q[Len(s) + 1]
  BY <1>1 DEF Total
<1> HIDE DEF P, Q
<1>4. 0 \in T
  BY <1>2
<1>5. ASSUME NEW n \in Nat, n \in T PROVE n + 1 \in T
  BY <1>5, <1>2, <1>1
<1>6. Len(s) \in T
  <2> HIDE DEF T
  <2> QED
    BY <1>4, <1>5, SetInduction
<1>7. Q[Len(s) + 1] = Q[Len(s)] + x
  <2>1. Len(s) \in Nat /\ Len(s) + 1 - 1 = Len(s) /\ Len(s) + 1 \in 1 .. Len(s) + 1
    OBVIOUS
  <2>2. Q[Len(s) + 1] = Q[Len(s) + 1 - 1] + t[Len(s) + 1]
    BY <1>2, <2>1, SMTT(30)
  <2> QED
    BY <1>1, <2>1, <2>2
<1>8. Len(s) \in Nat
  OBVIOUS
<1> QED
  BY <1>3, <1>6, <1>7, <1>8 DEF t

LEMMA TotalZero ==
    ASSUME NEW s \in Seq(Int), \A n \in DOMAIN s : s[n] = 0
    PROVE  Total(s) = 0
<1> DEFINE P == Partial(s)
           T == {n \in Nat : n <= Len(s) => P[n] = 0}
<1>1. P[0] = 0 /\ \A n \in 1 .. Len(s) : P[n] = P[n - 1] + s[n]
  BY PartialFacts
<1>2. Total(s) = P[Len(s)]
  BY DEF Total
<1> HIDE DEF P
<1>3. 0 \in T
  BY <1>1
<1>4. ASSUME NEW n \in Nat, n \in T PROVE n + 1 \in T
  BY <1>4, <1>1
<1>5. Len(s) \in Nat
  OBVIOUS
<1>6. Len(s) \in T
  <2> HIDE DEF T
  <2> QED
    BY <1>3, <1>4, <1>5, SetInduction
<1> QED
  BY <1>2, <1>5, <1>6

LEMMA TotalInt ==
    ASSUME NEW s \in Seq(Int)
    PROVE  Total(s) \in Int
<1>1. Partial(s) \in [0 .. Len(s) -> Int] /\ Len(s) \in Nat
  BY PartialFacts
<1> QED
  BY <1>1 DEF Total

LEMMA TotalSingle ==
    ASSUME NEW s \in Seq(Int), NEW k \in DOMAIN s,
           \A n \in DOMAIN s : n # k => s[n] = 0
    PROVE  Total(s) = s[k]
<1> DEFINE z == [n \in 1 .. Len(s) |-> 0]
<1>1. z \in Seq(Int) /\ Len(z) = Len(s) /\ \A n \in DOMAIN z : z[n] = 0
  OBVIOUS
<1>2. DOMAIN z = DOMAIN s /\ s[k] \in Int
  OBVIOUS
<1> HIDE DEF z
<1>3. Total(z) = 0
  BY <1>1, TotalZero
<1>4. Total(s) = Total(z) + s[k]
  <2>1. Len(z) = Len(s) /\ k \in DOMAIN z /\ s[k] = z[k] + s[k]
        /\ \A n \in DOMAIN z : n # k => s[n] = z[n]
    BY <1>1, <1>2
  <2> QED
    BY <1>1, <1>2, <2>1, TotalUpdate
<1> QED
  BY <1>2, <1>3, <1>4

-----------------------------------------------------------------------------
(* Types.                                                                  *)

LEMMA MoveFacts ==
    ASSUME NEW i \in TokenInstruction
    PROVE  /\ i.program = program /\ i.type \in {"mintTo", "burn", "transfer", "other"}
           /\ i.source \in Account /\ i.destination \in Account
           /\ i.authority \in Holder \cup {None}
           /\ i.checked \in BOOLEAN /\ i.amount \in 1 .. MaxAmount
           /\ i = [program |-> i.program, checked |-> i.checked, type |-> i.type,
                   amount |-> i.amount, source |-> i.source,
                   destination |-> i.destination, authority |-> i.authority]
<1>1. PICK a \in Account :
         i \in Move("mintTo", {a}, {a}, {None}) \cup Move("other", {a}, {a}, {None})
                \cup Move("burn", {a}, {a}, Holder \cup {None})
                \cup Move("transfer", {a}, Account, {None})
  BY DEF TokenInstruction
<1>2. PICK t \in {"mintTo", "burn", "transfer", "other"} :
         i \in Move(t, Account, Account, Holder \cup {None})
  BY <1>1 DEF Move
<1> QED
  BY <1>2 DEF Move

LEMMA NativeFacts ==
    ASSUME NEW i \in NativeInstruction
    PROVE  /\ i.program = "system" /\ i.type = "transfer"
           /\ i.source \in Holder /\ i.destination \in Holder /\ i.amount \in 0 .. MaxAmount
           /\ i \in Instruction
  BY DEF NativeInstruction, Instruction

LEMMA TokenIsInstruction ==
    ASSUME NEW i \in TokenInstruction, program \in TokenProgram
    PROVE  i \in Instruction
<1>1. i.amount \in 0 .. MaxAmount
  BY MoveFacts, ConstantAssumption
<1> QED
  BY <1>1, MoveFacts DEF Instruction

LEMMA TokensFacts ==
    ASSUME NEW d \in 0 .. MaxDecimals
    PROVE  /\ \A x \in Int : Tokens(x, d) \in Int
           /\ \A x, y \in Int : Tokens(x + y, d) = Tokens(x, d) + Tokens(y, d)
           /\ Tokens(0, d) = 0
<1>1. MaxDecimals - d \in Nat
  BY ConstantAssumption
<1>2. 10 ^ (MaxDecimals - d) \in Int
  BY <1>1
<1> DEFINE k == 10 ^ (MaxDecimals - d)
<1> HIDE DEF k
<1>3. k \in Int
  BY <1>2 DEF k
<1>4. /\ \A x \in Int : x * k \in Int
      /\ \A x, y \in Int : (x + y) * k = x * k + y * k
      /\ 0 * k = 0
  BY <1>3
<1> QED
  BY <1>4 DEF k, Tokens

(* What a float64 makes of an amount.                                      *)
LEMMA FloatFacts ==
    ASSUME NEW v \in Int
    PROVE  /\ Float(v) \subseteq Int /\ v \in Float(v)
           /\ \A x \in Float(v) : x - v \in -Rounding .. Rounding
<1>1. Rounding \in Nat
  BY ConstantAssumption
<1> QED
  BY <1>1 DEF Float

LEMMA AmountFacts ==
    ASSUME TypeOK, NEW i \in TokenInstruction
    PROVE  /\ \A v \in resolveTokenAmount(i) : v \in Int
           /\ resolveTokenCode # {} => resolveTokenAmount(i) # {}
<1>1. i.amount \in Int /\ Decimals \in 0 .. MaxDecimals
  BY MoveFacts, ConstantAssumption
<1>2. \A c \in resolveTokenCode : tokens[c].decimals \in 0 .. MaxDecimals
  BY ConstantAssumption DEF TypeOK, resolveTokenCode
<1>3. \A d \in 0 .. MaxDecimals :
         Float(Tokens(i.amount, d)) \subseteq Int /\ Float(Tokens(i.amount, d)) # {}
  <2>1. \A d \in 0 .. MaxDecimals : Tokens(i.amount, d) \in Int
    BY <1>1, TokensFacts
  <2> QED
    BY <2>1, FloatFacts
<1>4. CASE i.checked
  BY <1>1, <1>3, <1>4 DEF resolveTokenAmount
<1>5. CASE ~i.checked
  <2>1. resolveTokenAmount(i) =
           UNION {Float(Tokens(i.amount, tokens[c].decimals)) : c \in resolveTokenCode}
    BY <1>5 DEF resolveTokenAmount
  <2> QED
    BY <1>2, <1>3, <2>1
<1> QED
  BY <1>4, <1>5

LEMMA OwnerFacts ==
    ASSUME TypeOK, NEW a \in Account
    PROVE  resolveTokenAccountOwner(a) \in Holder \cup Account
  BY ConstantAssumption DEF TypeOK, resolveTokenAccountOwner, resolveTokenAccountContext

(* What an event says, and which instructions have one.                    *)
LEMMA DecodeFacts ==
    ASSUME TypeOK, NEW i \in TokenInstruction
    PROVE  /\ Decode(i) = decodeInstruction(i)
           /\ resolveTokenCode # {} => (Decode(i) # {} <=> Reportable(i))
           /\ \A e \in Decode(i) :
                 /\ e \in Event /\ e.amount \in resolveTokenAmount(i) /\ Reportable(i)
                 /\ e.to = IF i.type = "burn" THEN None
                           ELSE resolveTokenAccountOwner(i.destination)
                 /\ e.from = IF i.type = "mintTo" THEN None
                             ELSE IF i.type = "burn" /\ i.authority # None THEN i.authority
                             ELSE resolveTokenAccountOwner(i.source)
<1>1. i.program \in {"spl-token", "spl-token-2022"} /\ i.program # "system"
  BY MoveFacts DEF TypeOK, TokenProgram
<1>2. Decode(i) = decodeInstruction(i)
  BY <1>1 DEF Decode, defaultDecoderRegistry
<1>3. ASSUME NEW t \in {"RT_MINT", "RT_BURN", "RT_TRANSFER"},
             NEW from \in Holder \cup Account \cup {None},
             NEW to \in Holder \cup Account \cup {None}
      PROVE  /\ resolveTokenCode # {} => EventsOf(i, t, from, to) # {}
             /\ \A e \in EventsOf(i, t, from, to) :
                   /\ e \in Event /\ e.amount \in resolveTokenAmount(i)
                   /\ e.to = to /\ e.from = from
  <2>1. resolveTokenCode \subseteq Code
    BY DEF resolveTokenCode
  <2> DEFINE Made(c, v) ==
                [type |-> t, code |-> c, amount |-> v, from |-> from, to |-> to]
  <2>2. EventsOf(i, t, from, to)
          = {Made(c, v) : c \in resolveTokenCode, v \in resolveTokenAmount(i)}
    BY DEF EventsOf
  <2>3. ASSUME resolveTokenCode # {} PROVE EventsOf(i, t, from, to) # {}
    <3>1. PICK c \in resolveTokenCode, v \in resolveTokenAmount(i) : TRUE
      BY <2>3, AmountFacts
    <3> HIDE DEF Made
    <3>2. Made(c, v) \in EventsOf(i, t, from, to)
      BY <2>2
    <3> QED
      BY <3>2
  <2>4. ASSUME NEW c \in resolveTokenCode, NEW v \in resolveTokenAmount(i)
        PROVE  /\ Made(c, v) \in Event /\ Made(c, v).amount = v
               /\ Made(c, v).to = to /\ Made(c, v).from = from
    <3>1. c \in Code /\ v \in Int
      BY <2>1, AmountFacts
    <3> QED
      BY <3>1 DEF Event
  <2> HIDE DEF Made
  <2> QED
    BY <2>2, <2>3, <2>4
<1>4. /\ resolveTokenAccountOwner(i.source) \in Holder \cup Account \cup {None}
      /\ resolveTokenAccountOwner(i.destination) \in Holder \cup Account \cup {None}
      /\ i.authority \in Holder \cup Account \cup {None}
      /\ None \in Holder \cup Account \cup {None}
  BY MoveFacts, OwnerFacts
<1>5. CASE i.type = "mintTo"
  <2>1. decodeInstruction(i)
          = EventsOf(i, "RT_MINT", None, resolveTokenAccountOwner(i.destination))
    BY <1>5 DEF decodeInstruction
  <2>2. Reportable(i)
    BY <1>1, <1>5 DEF Reportable, Unseen
  <2> DEFINE owner == resolveTokenAccountOwner(i.destination)
  <2>3. /\ resolveTokenCode # {} => EventsOf(i, "RT_MINT", None, owner) # {}
        /\ \A e \in EventsOf(i, "RT_MINT", None, owner) :
              /\ e \in Event /\ e.amount \in resolveTokenAmount(i)
              /\ e.to = owner /\ e.from = None
    <3> HIDE DEF owner
    <3>1. owner \in Holder \cup Account \cup {None}
      BY <1>4 DEF owner
    <3> QED
      BY <1>3, <1>4, <3>1
  <2> HIDE DEF owner
  <2> QED
    BY <1>2, <1>5, <2>1, <2>2, <2>3 DEF owner
<1>6. CASE i.type = "burn"
  <2> DEFINE from == IF i.authority # None THEN i.authority
                     ELSE resolveTokenAccountOwner(i.source)
  <2>1. decodeInstruction(i) = EventsOf(i, "RT_BURN", from, None)
    BY <1>6 DEF decodeInstruction
  <2>2. from \in Holder \cup Account \cup {None}
    BY <1>4
  <2> QED
    BY <1>1, <1>2, <1>3, <1>4, <1>6, <2>1, <2>2 DEF Reportable, Unseen
<1>7. CASE i.type = "transfer" /\ ~Unseen(i)
  <2>1. decodeInstruction(i)
          = EventsOf(i, "RT_TRANSFER", resolveTokenAccountOwner(i.source),
                                       resolveTokenAccountOwner(i.destination))
    BY <1>7, MoveFacts DEF decodeInstruction, Unseen
  <2> QED
    BY <1>1, <1>2, <1>3, <1>4, <1>7, <2>1 DEF Reportable
<1>8. CASE i.type = "other" \/ Unseen(i)
  <2>1. decodeInstruction(i) = {}
    BY <1>8, MoveFacts DEF decodeInstruction, Unseen
  <2> QED
    BY <1>2, <1>8, <2>1 DEF Reportable
<1> QED
  BY <1>5, <1>6, <1>7, <1>8, MoveFacts

LEMMA NativeDecode ==
    ASSUME NEW i \in NativeInstruction
    PROVE  Decode(i) = {} /\ ~Reportable(i)
  BY NativeFacts DEF Decode, defaultDecoderRegistry, Reportable

(* Type correctness of the decoding: the events of any transaction are     *)
(* events of registered codes (chain_transform.go:129-172).                *)
THEOREM TypeCorrect == Spec => []TypeOK
<1>1. Init => TypeOK
  BY DEF Init, TypeOK
<1>2. ASSUME TypeOK, [Next]_vars PROVE TypeOK'
  <2>1. CASE UNCHANGED vars
    BY <1>2, <2>1 DEF TypeOK, vars
  <2>2. ASSUME NEW i \in TokenInstruction \cup NativeInstruction, toChainEvents(i)
        PROVE  TypeOK'
    <3>1. i \in Instruction
      BY <1>2, TokenIsInstruction, NativeFacts DEF TypeOK
    <3>2. instructions' \in Seq(Instruction)
      BY <1>2, <2>2, <3>1 DEF TypeOK, toChainEvents
    <3>3. \A e \in Decode(i) : e \in Event
      BY <1>2, DecodeFacts, NativeDecode
    <3>4. events' \in Seq(Event)
      <4>1. CASE UNCHANGED events
        BY <1>2, <4>1 DEF TypeOK
      <4>2. CASE \E e \in Decode(i) : events' = Append(events, e)
        <5>1. PICK e \in Decode(i) : events' = Append(events, e)
          BY <4>2
        <5>2. e \in Event /\ events \in Seq(Event)
          BY <1>2, <3>3 DEF TypeOK
        <5> QED
          BY <5>1, <5>2
      <4> QED
        BY <2>2, <4>1, <4>2 DEF toChainEvents
    <3>5. i.amount \in Int
      BY MoveFacts, NativeFacts, ConstantAssumption
    <3>6. change' \in [Account -> Int]
      BY <1>2, <2>2, <3>5 DEF TypeOK, toChainEvents, Moved
    <3> QED
      BY <1>2, <2>2, <3>2, <3>4, <3>6 DEF TypeOK, toChainEvents
  <2> QED
    BY <1>2, <2>1, <2>2 DEF Next
<1> QED
  BY <1>1, <1>2, PTL DEF Spec

-----------------------------------------------------------------------------
(* Every move is reported.                                                 *)

ReportableIn(s) == {n \in DOMAIN s : Reportable(s[n])}

LEMMA OneMore ==
    ASSUME NEW s \in Seq(Instruction), NEW i
    PROVE  /\ Cardinality(ReportableIn(s)) \in Nat
           /\ Cardinality(ReportableIn(Append(s, i)))
                = Cardinality(ReportableIn(s)) + (IF Reportable(i) THEN 1 ELSE 0)
<1> DEFINE R == ReportableIn(s)
           last == Len(s) + 1
<1>1. Len(s) \in Nat
  OBVIOUS
<1>2. R \subseteq 1 .. Len(s) /\ last \notin R
  BY <1>1 DEF ReportableIn
<1>3. IsFiniteSet(1 .. Len(s))
  BY <1>1, FS_Interval
<1> HIDE DEF R, last
<1>4. IsFiniteSet(R)
  BY <1>2, <1>3, FS_Subset
<1>5. Cardinality(R) \in Nat /\ Cardinality(R \cup {last}) = Cardinality(R) + 1
  BY <1>2, <1>4, FS_AddElement, FS_CardinalityType
<1>6. ReportableIn(Append(s, i)) = IF Reportable(i) THEN R \cup {last} ELSE R
  <2> DEFINE t == Append(s, i)
  <2>1. /\ DOMAIN t = 1 .. last /\ t[last] = i /\ DOMAIN s = 1 .. Len(s)
        /\ \A n \in 1 .. Len(s) : t[n] = s[n]
    BY DEF last
  <2>2. 1 .. last = 1 .. Len(s) \cup {last}
    BY <1>1 DEF last
  <2> HIDE DEF t
  <2>3. ReportableIn(t) = IF Reportable(i) THEN R \cup {last} ELSE R
    BY <2>1, <2>2, <1>2 DEF R, ReportableIn
  <2> QED
    BY <2>3 DEF t
<1> QED
  BY <1>5, <1>6 DEF R

(* As long as the network and mint of a transaction have a code, each      *)
(* instruction to move tokens adds exactly one event, in either token      *)
(* program, for a transaction of any length and whether or not it failed   *)
(* (decoder.go:46-62).                                                     *)
THEOREM MovesReported == Spec => []EveryMoveIsReported
<1>1. Init => EveryMoveIsReported
  <2> SUFFICES ASSUME Init PROVE EveryMoveIsReported
    OBVIOUS
  <2>1. {n \in DOMAIN instructions : Reportable(instructions[n])} = {} /\ Len(events) = 0
    BY DEF Init
  <2> QED
    BY <2>1, FS_EmptySet DEF EveryMoveIsReported
<1>2. ASSUME TypeOK, EveryMoveIsReported, [Next]_vars PROVE EveryMoveIsReported'
  <2>1. CASE UNCHANGED vars
    BY <1>2, <2>1 DEF vars, EveryMoveIsReported, resolveTokenCode, Reportable, Unseen,
                      resolveTokenAccountContext
  <2>2. ASSUME NEW i \in TokenInstruction \cup NativeInstruction, toChainEvents(i),
               resolveTokenCode # {}
        PROVE  Len(events') = Cardinality(ReportableIn(instructions'))
    <3>1. Len(events) = Cardinality(ReportableIn(instructions)) /\ Len(events) \in Nat
      BY <1>2, <2>2 DEF EveryMoveIsReported, ReportableIn, TypeOK
    <3>2. Cardinality(ReportableIn(instructions'))
            = Len(events) + (IF Reportable(i) THEN 1 ELSE 0)
      BY <1>2, <2>2, <3>1, OneMore DEF toChainEvents, TypeOK
    <3>3. Decode(i) # {} <=> Reportable(i)
      BY <1>2, <2>2, DecodeFacts, NativeDecode
    <3>4. CASE Reportable(i)
      <4>1. PICK e \in Decode(i) : events' = Append(events, e)
        BY <2>2, <3>3, <3>4 DEF toChainEvents
      <4>2. Len(events') = Len(events) + 1
        BY <1>2, <4>1 DEF TypeOK
      <4> QED
        BY <3>2, <3>4, <4>2
    <3>5. CASE ~Reportable(i)
      BY <2>2, <3>1, <3>2, <3>3, <3>5 DEF toChainEvents
    <3> QED
      BY <3>4, <3>5
  <2>3. ASSUME NEW i \in TokenInstruction \cup NativeInstruction, toChainEvents(i)
        PROVE  EveryMoveIsReported'
    <3>1. resolveTokenCode' = resolveTokenCode /\ account' = account
      BY <2>3 DEF toChainEvents, resolveTokenCode
    <3>2. {n \in DOMAIN instructions : Reportable(instructions[n])}'
            = ReportableIn(instructions')
      BY <3>1 DEF ReportableIn, Reportable, Unseen, resolveTokenAccountContext
    <3> QED
      BY <2>2, <2>3, <3>1, <3>2 DEF EveryMoveIsReported
  <2> QED
    BY <1>2, <2>1, <2>3 DEF Next
<1> QED
  BY <1>1, <1>2, TypeCorrect, PTL DEF Spec

-----------------------------------------------------------------------------
(* One transfer is shown.                                                  *)

Natives == {n \in DOMAIN instructions : IsNative(instructions[n])}

(* The position that is chosen is the first, when there is one.            *)
LEMMA SummaryFacts ==
    ASSUME instructions \in Seq(Instruction)
    PROVE  IF Natives = {} THEN extractNativeTransferSummary = 0
           ELSE extractNativeTransferSummary \in Natives
<1>1. Natives = {n \in 1 .. Len(instructions) :
                    instructions[n].program = "system" /\ instructions[n].type = "transfer"}
  BY DEF Natives, IsNative
<1>2. extractNativeTransferSummary = IF Natives # {} THEN Min(Natives) ELSE 0
  BY <1>1 DEF extractNativeTransferSummary, SelectInSeq
<1>3. Natives \subseteq Nat
  BY <1>1
<1>4. Natives # {} => Min(Natives) \in Natives
  BY <1>3, LeastExists DEF Min
<1> QED
  BY <1>2, <1>4

LEMMA BringsInt ==
    ASSUME NEW x, x.amount \in Int, NEW to, NEW from, NEW h
    PROVE  Brings(x, to, from, h) \in Int
  BY DEF Brings

(* A transaction that succeeded with one native transfer is shown with its *)
(* parties and, up to rounding, its amount, wherever it stands, and one    *)
(* without is shown with no amount; of a FAILED one nothing happened: for  *)
(* a transaction of any length (chain_transform.go:29-32, 79-122).         *)
THEOREM TransferShown == Spec => []OneTransferIsShown
<1>1. TypeOK => OneTransferIsShown
  <2> DEFINE k == extractNativeTransferSummary
  <2> SUFFICES ASSUME TypeOK, NEW shown \in extractChainTxParties, NEW h \in Holder,
                      \A m, n \in DOMAIN instructions :
                          IsNative(instructions[m]) /\ IsNative(instructions[n]) => m = n
               PROVE  Near(IfSucceeded(Brings(shown, shown.to, shown.from, h)), Net(h),
                           Rounding)
    BY DEF OneTransferIsShown
  <2> DEFINE Of(n) == IF ~failed /\ IsNative(instructions[n])
                      THEN Brings(InSOL(instructions[n]), instructions[n].destination,
                                  instructions[n].source, h)
                      ELSE 0
             s == [n \in DOMAIN instructions |-> Of(n)]
  <2>0. Rounding \in Nat /\ 0 - 0 \in -Rounding .. Rounding
    BY ConstantAssumption
  <2>1. /\ instructions \in Seq(Instruction) /\ DOMAIN instructions = 1 .. Len(instructions)
        /\ Len(instructions) \in Nat
    BY DEF TypeOK
  <2>2. \A n \in DOMAIN instructions : Tokens(instructions[n].amount, NativeDecimals) \in Int
    <3>1. \A i \in Instruction : i.amount \in 0 .. MaxAmount
      BY DEF Instruction
    <3>2. \A n \in DOMAIN instructions : instructions[n].amount \in Int
      BY <2>1, <3>1
    <3> QED
      BY <3>2, TokensFacts, ConstantAssumption
  <2>3. \A n \in DOMAIN instructions : Of(n) \in Int
    BY <2>2, BringsInt DEF InSOL
  <2>4. Net(h) = Total(s)
    BY DEF Net
  <2> HIDE DEF Of
  <2>5. s \in Seq(Int) /\ DOMAIN s = DOMAIN instructions
        /\ \A n \in DOMAIN s : s[n] = Of(n)
    BY <2>1, <2>3
  <2> HIDE DEF s
  <2>6. CASE failed
    <3>1. \A n \in DOMAIN s : s[n] = 0
      BY <2>5, <2>6 DEF Of
    <3>2. Net(h) = 0
      BY <2>4, <2>5, <3>1, TotalZero
    <3> QED
      BY <2>0, <2>6, <3>2 DEF IfSucceeded, Status, Near
  <2>7. CASE ~failed /\ Natives = {}
    <3>1. \A n \in DOMAIN s : s[n] = 0
      BY <2>5, <2>7 DEF Of, Natives
    <3>2. Net(h) = 0
      BY <2>4, <2>5, <3>1, TotalZero
    <3>3. shown.amount = 0
      BY <2>1, <2>7, SummaryFacts DEF extractChainTxParties
    <3>4. Brings(shown, shown.to, shown.from, h) = 0
      BY <3>3 DEF Brings
    <3> QED
      BY <2>0, <2>7, <3>2, <3>4 DEF IfSucceeded, Status, Near
  <2>8. CASE ~failed /\ Natives # {}
    <3>1. k \in DOMAIN instructions /\ IsNative(instructions[k]) /\ k # 0
      BY <2>1, <2>8, SummaryFacts DEF Natives
    <3>2. \A n \in DOMAIN s : n # k => s[n] = 0
      BY <2>5, <3>1 DEF Of
    <3>3. Net(h) = Of(k)
      BY <2>4, <2>5, <3>1, <3>2, TotalSingle
    <3> DEFINE v == Tokens(instructions[k].amount, NativeDecimals)
               i == instructions[k]
    <3>4. /\ shown.from = i.source /\ shown.to = i.destination /\ shown.amount \in Float(v)
      BY <3>1 DEF extractChainTxParties
    <3>5. Of(k) = Brings([amount |-> v], i.destination, i.source, h)
      BY <2>8, <3>1 DEF Of, InSOL
    <3>6. v \in Int
      BY <2>2, <3>1
    <3> HIDE DEF v, i
    <3>7. shown.amount \in Int /\ shown.amount - v \in -Rounding .. Rounding
      BY <3>4, <3>6, FloatFacts
    <3>8. Brings(shown, shown.to, shown.from, h)
             - Brings([amount |-> v], i.destination, i.source, h) \in -Rounding .. Rounding
      BY <2>0, <3>4, <3>6, <3>7 DEF Brings
    <3> QED
      BY <2>8, <3>3, <3>5, <3>8 DEF IfSucceeded, Status, Near
  <2> QED
    BY <2>6, <2>7, <2>8
<1> QED
  BY <1>1, TypeCorrect, PTL

-----------------------------------------------------------------------------
(* The events explain the balances.                                        *)

LEMMA AccountsFacts ==
    /\ Accounts \in Seq(Account)
    /\ \A m, n \in DOMAIN Accounts : Accounts[m] = Accounts[n] => m = n
    /\ \A a \in Account : \E n \in DOMAIN Accounts : Accounts[n] = a
<1> DEFINE c == Cardinality(Account)
<1>1. c \in Nat /\ ExistsBijection(1 .. c, Account)
  BY ConstantAssumption, FS_CardinalityType
<1>2. \E f \in [1 .. c -> Account] : IsInjective(f)
  BY <1>1 DEF ExistsBijection, Bijection, Injection
<1>3. Accounts \in [1 .. c -> Account] /\ IsInjective(Accounts)
  BY <1>2 DEF Accounts, SetToSeq
<1>4. IsFiniteSet(1 .. c) /\ Cardinality(1 .. c) = c
  BY <1>1, FS_Interval
<1>5. Accounts \in Injection(1 .. c, Account)
  BY <1>3 DEF Injection
<1>6. Accounts \in Surjection(1 .. c, Account)
  BY <1>4, <1>5, ConstantAssumption, FS_Injection
<1> QED
  BY <1>1, <1>3, <1>6 DEF IsInjective, Surjection

GainTerm(balances, h, a) ==
    IF resolveTokenAccountOwner(a) = h THEN Tokens(balances[a], Decimals) ELSE 0
GainOf(balances, h) == Total([n \in DOMAIN Accounts |-> GainTerm(balances, h, Accounts[n])])

Share(a, x, h) == IF resolveTokenAccountOwner(a) = h THEN Tokens(x, Decimals) ELSE 0

LEMMA GainInt ==
    ASSUME NEW b \in [Account -> Int], NEW h
    PROVE  GainOf(b, h) \in Int
<1> DEFINE s == [n \in DOMAIN Accounts |-> GainTerm(b, h, Accounts[n])]
<1>1. \A a \in Account : GainTerm(b, h, a) \in Int
  BY ConstantAssumption, TokensFacts DEF GainTerm
<1>2. /\ DOMAIN Accounts = 1 .. Len(Accounts) /\ Len(Accounts) \in Nat
      /\ \A n \in DOMAIN Accounts : Accounts[n] \in Account
  BY AccountsFacts
<1>3. s \in Seq(Int)
  BY <1>1, <1>2
<1>4. GainOf(b, h) = Total(s)
  BY DEF GainOf
<1> HIDE DEF s
<1>5. Partial(s) \in [0 .. Len(s) -> Int] /\ Len(s) \in Nat
  BY <1>3, PartialFacts
<1> QED
  BY <1>4, <1>5 DEF Total

(* A balance that changes by x changes the gain of its owner by as much.   *)
LEMMA GainMoves ==
    ASSUME NEW b \in [Account -> Int], NEW b2 \in [Account -> Int],
           NEW a \in Account, NEW x \in Int, NEW h,
           b2[a] = b[a] + x, \A u \in Account : u # a => b2[u] = b[u]
    PROVE  GainOf(b2, h) = GainOf(b, h) + Share(a, x, h)
<1> DEFINE s  == [n \in DOMAIN Accounts |-> GainTerm(b, h, Accounts[n])]
           t  == [n \in DOMAIN Accounts |-> GainTerm(b2, h, Accounts[n])]
           d  == Share(a, x, h)
<1>1. Decimals \in 0 .. MaxDecimals
  BY ConstantAssumption
<1>2. b2[a] = b[a] + x /\ \A u \in Account : u # a => b2[u] = b[u]
  OBVIOUS
<1>3. /\ \A u \in Account : GainTerm(b, h, u) \in Int /\ GainTerm(b2, h, u) \in Int
      /\ d \in Int
  BY <1>1, TokensFacts DEF GainTerm, Share
<1>4. GainTerm(b2, h, a) = GainTerm(b, h, a) + d
  <2>1. b[a] \in Int /\ Tokens(b[a] + x, Decimals) = Tokens(b[a], Decimals) + Tokens(x, Decimals)
    BY <1>1, TokensFacts
  <2> QED
    BY <1>2, <2>1 DEF GainTerm, Share
<1>5. \A u \in Account : u # a => GainTerm(b2, h, u) = GainTerm(b, h, u)
  BY <1>2 DEF GainTerm
<1>6. PICK k \in DOMAIN Accounts : Accounts[k] = a
  BY AccountsFacts
<1>7. /\ DOMAIN Accounts = 1 .. Len(Accounts) /\ Len(Accounts) \in Nat
      /\ \A n \in DOMAIN Accounts : Accounts[n] \in Account
  BY AccountsFacts
<1>8. /\ DOMAIN s = DOMAIN Accounts /\ DOMAIN t = DOMAIN Accounts
      /\ \A n \in DOMAIN Accounts : s[n] = GainTerm(b, h, Accounts[n])
                                    /\ t[n] = GainTerm(b2, h, Accounts[n])
      /\ s \in Seq(Int) /\ t \in Seq(Int) /\ Len(s) = Len(t)
  <2> HIDE DEF d
  <2> QED
    BY <1>3, <1>7
<1>9. Total(s) = GainOf(b, h) /\ Total(t) = GainOf(b2, h)
  BY DEF GainOf
<1> HIDE DEF s, t, d
<1>10. \A n \in DOMAIN s : n # k => t[n] = s[n]
  BY <1>5, <1>6, <1>7, <1>8, AccountsFacts
<1>11. t[k] = s[k] + d
  BY <1>4, <1>6, <1>8
<1>12. Total(t) = Total(s) + d
  <2>1. k \in DOMAIN s /\ d \in Int
    BY <1>3, <1>6, <1>8
  <2> QED
    BY <1>8, <1>10, <1>11, <2>1, TotalUpdate
<1> QED
  BY <1>9, <1>12 DEF d

Term(e, h) == Brings(e, e.to, e.from, h)
IntoOf(s, h) == Total([n \in DOMAIN s |-> Term(s[n], h)])

LEMMA IntoAppend ==
    ASSUME NEW s \in Seq(Event), NEW e \in Event, NEW h
    PROVE  IntoOf(Append(s, e), h) = IntoOf(s, h) + Term(e, h)
<1> DEFINE m == [n \in DOMAIN s |-> Term(s[n], h)]
           t == Append(s, e)
<1>1. \A x \in Event : Term(x, h) \in Int
  BY DEF Event, Term, Brings
<1>2. /\ DOMAIN s = 1 .. Len(s) /\ Len(s) \in Nat /\ \A n \in DOMAIN s : s[n] \in Event
      /\ DOMAIN t = 1 .. Len(s) + 1 /\ t[Len(s) + 1] = e
      /\ \A n \in DOMAIN s : t[n] = s[n]
  OBVIOUS
<1> HIDE DEF t
<1>3. m \in Seq(Int) /\ Term(e, h) \in Int /\ Len(m) = Len(s)
  BY <1>1, <1>2
<1>4. [n \in DOMAIN t |-> Term(t[n], h)] = Append(m, Term(e, h))
  BY <1>2, <1>3
<1> HIDE DEF m
<1>5. Total(Append(m, Term(e, h))) = Total(m) + Term(e, h)
  BY <1>3, TotalAppend
<1> QED
  BY <1>4, <1>5 DEF IntoOf, m, t

LEMMA IntoInt ==
    ASSUME NEW s \in Seq(Event), NEW h
    PROVE  IntoOf(s, h) \in Int
<1>1. \A x \in Event : Term(x, h) \in Int
  BY DEF Event, Term, Brings
<1>2. [n \in DOMAIN s |-> Term(s[n], h)] \in Seq(Int)
  BY <1>1
<1> QED
  BY <1>2, TotalInt DEF IntoOf

(* What is near within n roundings is near within n + 1.                   *)
LEMMA NearWider ==
    ASSUME NEW x \in Int, NEW y \in Int, NEW n \in Nat, Near(x, y, Rounding * n)
    PROVE  Near(x, y, Rounding * (n + 1))
<1>1. Rounding \in Nat
  BY ConstantAssumption
<1>2. Rounding * (n + 1) = Rounding * n + Rounding /\ Rounding * n \in Nat
  BY <1>1
<1> DEFINE m == Rounding * n
<1>3. Near(x, y, m) /\ m \in Nat /\ Rounding * (n + 1) = m + Rounding
  BY <1>2
<1> HIDE DEF m
<1>4. Near(x, y, m + Rounding)
  BY <1>1, <1>3 DEF Near
<1> QED
  BY <1>3, <1>4

(* One more amount widens the margin by its rounding.                      *)
LEMMA NearStep ==
    ASSUME NEW x \in Int, NEW y \in Int, NEW n \in Nat, NEW dx \in Int, NEW dy \in Int,
           Near(x, y, Rounding * n), Near(dx, dy, Rounding)
    PROVE  Near(x + dx, y + dy, Rounding * (n + 1))
<1>1. Rounding \in Nat
  BY ConstantAssumption
<1>2. Rounding * (n + 1) = Rounding * n + Rounding /\ Rounding * n \in Nat
  BY <1>1
<1> DEFINE m == Rounding * n
<1>3. Near(x, y, m) /\ m \in Nat /\ Rounding * (n + 1) = m + Rounding
  BY <1>2
<1> HIDE DEF m
<1>4. Near(x + dx, y + dy, m + Rounding)
  BY <1>1, <1>3 DEF Near
<1> QED
  BY <1>3, <1>4

(* What an instruction does to the balances, as two changes.               *)
Credit(i) == IF i.type \in {"mintTo", "transfer"} THEN i.amount ELSE 0
Debit(i)  == IF i.type \in {"burn", "transfer"} THEN i.amount ELSE 0

LEMMA GainOfMove ==
    ASSUME TypeOK, NEW i \in TokenInstruction, NEW h
    PROVE  GainOf(Moved(i), h) = GainOf(change, h) + Share(i.destination, Credit(i), h)
                                                   + Share(i.source, 0 - Debit(i), h)
<1> DEFINE b1 == [change EXCEPT ![i.destination] = change[i.destination] + Credit(i)]
           b2 == [b1 EXCEPT ![i.source] = b1[i.source] + (0 - Debit(i))]
<1>1. /\ i.source \in Account /\ i.destination \in Account
      /\ Credit(i) \in Int /\ Debit(i) \in Int /\ 0 - Debit(i) \in Int
  BY MoveFacts, ConstantAssumption DEF Credit, Debit
<1>2. change \in [Account -> Int]
  BY DEF TypeOK
<1>3. b1 \in [Account -> Int]
  BY <1>1, <1>2
<1>4. Moved(i) = b2
  <2>1. Moved(i) = [a \in Account |-> change[a]
                        + (IF i.destination = a THEN Credit(i) ELSE 0)
                        - (IF i.source = a THEN Debit(i) ELSE 0)]
    BY DEF Moved, Credit, Debit
  <2>2. \A a \in Account : b2[a] = change[a] + (IF i.destination = a THEN Credit(i) ELSE 0)
                                             - (IF i.source = a THEN Debit(i) ELSE 0)
    <3> TAKE a \in Account
    <3>1. change[a] \in Int /\ b1[a] = change[a] + (IF i.destination = a THEN Credit(i) ELSE 0)
      BY <1>1, <1>2
    <3>2. b2[a] = b1[a] + (IF i.source = a THEN 0 - Debit(i) ELSE 0)
      <4> HIDE DEF b1
      <4> QED
        BY <1>1, <1>3
    <3> HIDE DEF b1, b2
    <3> QED
      BY <1>1, <3>1, <3>2
  <2>3. b2 = [a \in Account |-> b2[a]]
    BY <1>3
  <2> HIDE DEF b2
  <2> QED
    BY <2>1, <2>2, <2>3
<1>5. /\ b1[i.destination] = change[i.destination] + Credit(i)
      /\ \A u \in Account : u # i.destination => b1[u] = change[u]
  BY <1>1, <1>2
<1> HIDE DEF b1
<1>6. /\ b2 \in [Account -> Int] /\ b2[i.source] = b1[i.source] + (0 - Debit(i))
      /\ \A u \in Account : u # i.source => b2[u] = b1[u]
  BY <1>1, <1>3
<1> HIDE DEF b2
<1>7. GainOf(b1, h) = GainOf(change, h) + Share(i.destination, Credit(i), h)
  BY <1>1, <1>2, <1>3, <1>5, GainMoves
<1>8. GainOf(b2, h) = GainOf(b1, h) + Share(i.source, 0 - Debit(i), h)
  BY <1>1, <1>3, <1>6, GainMoves
<1> QED
  BY <1>4, <1>7, <1>8

(* An event that is neither unseen nor put down to a delegate has the same *)
(* effect, up to its rounding.                                             *)
LEMMA TermOfMove ==
    ASSUME TypeOK, Unambiguous, NEW i \in TokenInstruction, NEW e \in Decode(i),
           ~Unseen(i), ~Delegated(i), NEW h \in Holder \cup Account
    PROVE  Near(Term(e, h), Share(i.destination, Credit(i), h)
                            + Share(i.source, 0 - Debit(i), h), Rounding)
<1> DEFINE v == Tokens(i.amount, Decimals)
<1>1. i.amount \in Int /\ Decimals \in 0 .. MaxDecimals
  BY MoveFacts, ConstantAssumption
<1>2. e.amount \in Int /\ e.amount - v \in -Rounding .. Rounding /\ Rounding \in Nat
  <2>1. e.amount \in resolveTokenAmount(i)
    BY DecodeFacts
  <2>2. resolveTokenAmount(i) = Float(v)
    BY DEF Unambiguous, resolveTokenAmount
  <2>3. v \in Int
    BY <1>1, TokensFacts
  <2> QED
    BY <2>1, <2>2, <2>3, FloatFacts, ConstantAssumption
<1>3. v \in Int /\ Tokens(0, Decimals) = 0 /\ Tokens(0 - i.amount, Decimals) = 0 - v
  <2>1. Tokens((0 - i.amount) + i.amount, Decimals) = Tokens(0 - i.amount, Decimals) + v
    <3>1. \A x, y \in Int : Tokens(x + y, Decimals)
                             = Tokens(x, Decimals) + Tokens(y, Decimals)
      BY <1>1, TokensFacts
    <3>2. 0 - i.amount \in Int
      BY <1>1
    <3> QED
      BY <1>1, <3>1, <3>2
  <2>2. v \in Int /\ Tokens(0 - i.amount, Decimals) \in Int /\ Tokens(0, Decimals) = 0
    BY <1>1, TokensFacts
  <2>3. (0 - i.amount) + i.amount = 0
    BY <1>1
  <2> HIDE DEF v
  <2> QED
    BY <2>1, <2>2, <2>3
<1>4. h # None
  BY ConstantAssumption
<1>5. /\ i.type # "other"
      /\ e.to = IF i.type = "burn" THEN None ELSE resolveTokenAccountOwner(i.destination)
      /\ e.from = IF i.type = "mintTo" THEN None ELSE resolveTokenAccountOwner(i.source)
  BY DecodeFacts DEF Delegated, Reportable
<1> HIDE DEF v
<1>6. CASE i.type = "mintTo"
  BY <1>2, <1>3, <1>4, <1>5, <1>6 DEF Near, Term, Brings, Share, Credit, Debit, v
<1>7. CASE i.type = "burn"
  BY <1>2, <1>3, <1>4, <1>5, <1>7 DEF Near, Term, Brings, Share, Credit, Debit, v
<1>8. CASE i.type = "transfer"
  BY <1>2, <1>3, <1>4, <1>5, <1>8 DEF Near, Term, Brings, Share, Credit, Debit, v
<1> QED
  BY <1>5, <1>6, <1>7, <1>8, MoveFacts

(* The gain of an instruction that moves nothing.                          *)
LEMMA NoMove ==
    ASSUME TypeOK, NEW i \in TokenInstruction, i.type = "other", NEW h
    PROVE  GainOf(Moved(i), h) = GainOf(change, h)
<1>1. Credit(i) = 0 /\ Debit(i) = 0 /\ 0 - Debit(i) = 0
  BY DEF Credit, Debit
<1>2. Tokens(0, Decimals) = 0
  BY ConstantAssumption, TokensFacts
<1>3. GainOf(change, h) \in Int
  BY GainInt DEF TypeOK
<1> QED
  BY <1>1, <1>2, <1>3, GainOfMove DEF Share

(* For every wallet, and every account without a record, the events of a   *)
(* transaction that succeeded bring and take what its accounts gained and  *)
(* lost, up to the rounding of each amount, and the accounts of a FAILED   *)
(* one gained and lost nothing, whatever its events say: for a transaction *)
(* of any length, any number of accounts and decimals (decoder.go:86-226,  *)
(* chain_transform.go:29-77).                                              *)
THEOREM BalancesExplained == Spec => []EventsExplainBalances
<1>1. Init => EventsExplainBalances
  <2> SUFFICES ASSUME Init, NEW h \in Holder \cup Account
               PROVE  Near(IfSucceeded(Into(h)), Gain(h), Rounding * Len(events))
    BY DEF EventsExplainBalances
  <2>1. Into(h) = 0
    <3>1. [n \in DOMAIN events |-> Brings(events[n], events[n].to, events[n].from, h)] = <<>>
      BY DEF Init
    <3>2. Total(<<>>) = 0
      <4> DEFINE z == <<>>
      <4>1. z \in Seq(Int) /\ \A n \in DOMAIN z : z[n] = 0
        OBVIOUS
      <4> HIDE DEF z
      <4>2. Total(z) = 0
        BY <4>1, TotalZero
      <4> QED
        BY <4>2 DEF z
    <3> QED
      BY <3>1, <3>2 DEF Into
  <2>2. Gain(h) = 0
    <3> DEFINE s == [n \in DOMAIN Accounts |->
                        IF resolveTokenAccountOwner(Accounts[n]) = h
                        THEN Tokens(change[Accounts[n]], Decimals) ELSE 0]
    <3>1. Tokens(0, Decimals) = 0
      BY ConstantAssumption, TokensFacts
    <3>2. /\ DOMAIN Accounts = 1 .. Len(Accounts) /\ Len(Accounts) \in Nat
          /\ \A n \in DOMAIN Accounts : change[Accounts[n]] = 0
      BY AccountsFacts DEF Init
    <3>3. \A n \in DOMAIN Accounts : s[n] = 0
      BY <3>1, <3>2
    <3>4. s \in Seq(Int) /\ DOMAIN s = DOMAIN Accounts
      BY <3>1, <3>2
    <3>5. Gain(h) = Total(s)
      BY DEF Gain
    <3> HIDE DEF s
    <3> QED
      BY <3>3, <3>4, <3>5, TotalZero
  <2>3. Len(events) = 0 /\ Rounding * 0 = 0
    BY ConstantAssumption DEF Init
  <2>4. IfSucceeded(Into(h)) = 0
    BY <2>1 DEF IfSucceeded
  <2> QED
    BY <2>2, <2>3, <2>4 DEF Near
<1>2. ASSUME TypeOK, EventsExplainBalances, [Next]_vars PROVE EventsExplainBalances'
  <2>1. CASE UNCHANGED vars
    BY <1>2, <2>1 DEF vars, EventsExplainBalances, Unambiguous, resolveTokenCode, Explained,
                      Unseen, Delegated, resolveTokenAccountOwner,
                      resolveTokenAccountContext, Into, Gain, IfSucceeded, Status
  <2>2. ASSUME NEW i \in TokenInstruction \cup NativeInstruction, toChainEvents(i),
               Unambiguous', Explained', NEW h \in Holder \cup Account
        PROVE  Near(IF failed THEN 0 ELSE IntoOf(events', h), GainOf(change', h),
                    Rounding * Len(events'))
    <3>1. /\ tokens' = tokens /\ account' = account /\ instructions' = Append(instructions, i)
          /\ instructions \in Seq(Instruction) /\ events \in Seq(Event)
      BY <1>2, <2>2 DEF toChainEvents, TypeOK
    <3>2. Unambiguous
      BY <2>2, <3>1 DEF Unambiguous, resolveTokenCode
    <3>3. \A x : Unseen(x)' = Unseen(x) /\ Delegated(x)' = Delegated(x)
      BY <3>1 DEF Unseen, Delegated, resolveTokenAccountOwner, resolveTokenAccountContext
    <3>4. \A n \in DOMAIN instructions' :
             instructions'[n].program # "system" =>
                 ~Unseen(instructions'[n]) /\ ~Delegated(instructions'[n])
      BY <2>2, <3>1 DEF Explained, Unseen, Delegated, resolveTokenAccountOwner,
                        resolveTokenAccountContext
    <3>5. /\ Explained
          /\ i.program # "system" => ~Unseen(i) /\ ~Delegated(i)
      <4>1. /\ DOMAIN instructions' = 1 .. Len(instructions) + 1
            /\ instructions'[Len(instructions) + 1] = i
            /\ DOMAIN instructions = 1 .. Len(instructions) /\ Len(instructions) \in Nat
            /\ \A n \in DOMAIN instructions : instructions'[n] = instructions[n]
        BY <3>1
      <4>2. Len(instructions) + 1 \in DOMAIN instructions'
            /\ \A n \in DOMAIN instructions : n \in DOMAIN instructions'
        BY <4>1
      <4> QED
        BY <3>4, <4>1, <4>2 DEF Explained
    <3>6. Near(IF failed THEN 0 ELSE IntoOf(events, h), GainOf(change, h),
               Rounding * Len(events))
      <4>1. Into(h) = IntoOf(events, h) /\ Gain(h) = GainOf(change, h)
        BY DEF Into, Gain, IntoOf, Term, GainOf, GainTerm
      <4>2. Near(IfSucceeded(Into(h)), Gain(h), Rounding * Len(events))
        BY <1>2, <3>2, <3>5 DEF EventsExplainBalances
      <4> QED
        BY <4>1, <4>2 DEF IfSucceeded, Status
    <3>7. CASE i \in NativeInstruction
      BY <2>2, <3>6, <3>7, NativeFacts, NativeDecode DEF toChainEvents
    <3>0. /\ Len(events) \in Nat /\ IntoOf(events, h) \in Int /\ GainOf(change, h) \in Int
          /\ Rounding \in Nat
      <4>1. IntoOf(events, h) \in Int
        BY <3>1, IntoInt
      <4>2. change \in [Account -> Int]
        BY <1>2 DEF TypeOK
      <4>3. GainOf(change, h) \in Int
        BY <4>2, GainInt
      <4>4. Rounding \in Nat
        BY ConstantAssumption
      <4>5. Len(events) \in Nat
        BY <3>1
      <4> QED
        BY <4>1, <4>3, <4>4, <4>5
    <3>9. CASE failed
      <4>1. change' = change
        BY <2>2, <3>9 DEF toChainEvents
      <4>2. CASE events' = events
        BY <3>6, <3>9, <4>1, <4>2
      <4>3. CASE Len(events') = Len(events) + 1
        <5> DEFINE g == GainOf(change, h)
                   n == Len(events)
        <5>1. g \in Int /\ n \in Nat /\ Rounding \in Nat
          BY <3>0
        <5>2. Near(0, g, Rounding * n)
          BY <3>6, <3>9
        <5> HIDE DEF g, n
        <5>3. Near(0, g, Rounding * (n + 1))
          BY <5>1, <5>2, NearWider
        <5> QED
          BY <3>9, <4>1, <4>3, <5>3 DEF g, n
      <4> QED
        BY <2>2, <3>1, <4>2, <4>3 DEF toChainEvents
    <3>8. CASE i \in TokenInstruction /\ ~failed
      <4>1. i.program # "system" /\ change' = Moved(i)
        BY <1>2, <2>2, <3>8, MoveFacts DEF TypeOK, TokenProgram, toChainEvents
      <4>2. ~Unseen(i) /\ ~Delegated(i)
        BY <3>5, <4>1
      <4>3. CASE Decode(i) = {}
        <5>1. i.type = "other"
          BY <1>2, <3>2, <3>8, <4>1, <4>2, <4>3, DecodeFacts DEF Reportable, Unambiguous
        <5> QED
          BY <1>2, <2>2, <3>6, <3>8, <4>1, <4>3, <5>1, NoMove DEF toChainEvents
      <4>4. CASE Decode(i) # {}
        <5>1. PICK e \in Decode(i) : events' = Append(events, e)
          BY <2>2, <4>4 DEF toChainEvents
        <5>2. IntoOf(events', h) = IntoOf(events, h) + Term(e, h)
          BY <1>2, <3>1, <3>8, <5>1, DecodeFacts, IntoAppend
        <5>3. Near(Term(e, h), Share(i.destination, Credit(i), h)
                               + Share(i.source, 0 - Debit(i), h), Rounding)
          BY <1>2, <3>2, <3>8, <4>2, TermOfMove
        <5>4. GainOf(change', h) = GainOf(change, h) + Share(i.destination, Credit(i), h)
                                                     + Share(i.source, 0 - Debit(i), h)
          BY <1>2, <3>8, <4>1, GainOfMove
        <5>5. /\ GainOf(change, h) \in Int
              /\ Share(i.destination, Credit(i), h) \in Int
              /\ Share(i.source, 0 - Debit(i), h) \in Int
          <6>1. Credit(i) \in Int /\ 0 - Debit(i) \in Int
            BY <3>8, MoveFacts, ConstantAssumption DEF Credit, Debit
          <6>2. change \in [Account -> Int] /\ i.source \in Account
            BY <1>2, <3>8, MoveFacts DEF TypeOK
          <6>3. GainOf(change, h) \in Int
            BY <6>2, GainInt
          <6>4. \A x \in Int : Tokens(x, Decimals) \in Int
            BY TokensFacts, ConstantAssumption
          <6> QED
            BY <6>1, <6>3, <6>4 DEF Share
        <5> DEFINE d == Share(i.destination, Credit(i), h)
                        + Share(i.source, 0 - Debit(i), h)
        <5>6. d \in Int /\ GainOf(change', h) = GainOf(change, h) + d
          BY <5>4, <5>5
        <5>7. Term(e, h) \in Int
          <6>1. e \in Event
            BY <1>2, <3>8, <5>1, DecodeFacts
          <6> QED
            BY <6>1 DEF Event, Term, Brings
        <5> HIDE DEF d
        <5>8. Near(Term(e, h), d, Rounding)
          BY <5>3 DEF d
        <5>9. Near(IntoOf(events, h), GainOf(change, h), Rounding * Len(events))
          BY <3>6, <3>8
        <5>10. Near(IntoOf(events, h) + Term(e, h), GainOf(change, h) + d,
                    Rounding * (Len(events) + 1))
          BY <3>0, <5>6, <5>7, <5>8, <5>9, NearStep
        <5>11. Len(events') = Len(events) + 1
          BY <3>1, <5>1
        <5> QED
          BY <3>8, <5>2, <5>6, <5>10, <5>11
      <4> QED
        BY <4>3, <4>4
    <3> QED
      BY <3>7, <3>8, <3>9
  <2>3. ASSUME NEW i \in TokenInstruction \cup NativeInstruction, toChainEvents(i)
        PROVE  EventsExplainBalances'
    <3>1. account' = account /\ failed' = failed
      BY <2>3 DEF toChainEvents
    <3>2. \A h : Into(h)' = IntoOf(events', h) /\ Gain(h)' = GainOf(change', h)
      BY <3>1 DEF Into, IntoOf, Term, Gain, GainOf, GainTerm, resolveTokenAccountOwner,
                  resolveTokenAccountContext
    <3>3. \A h : IfSucceeded(Into(h))' = IF failed THEN 0 ELSE IntoOf(events', h)
      BY <3>1, <3>2 DEF IfSucceeded, Status
    <3> QED
      BY <2>2, <2>3, <3>2, <3>3 DEF EventsExplainBalances, Near
  <2> QED
    BY <1>2, <2>1, <2>3 DEF Next
<1> QED
  BY <1>1, <1>2, TypeCorrect, PTL DEF Spec
=============================================================================
