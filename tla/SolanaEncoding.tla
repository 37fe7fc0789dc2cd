--------------------------- MODULE SolanaEncoding ---------------------------
(***************************************************************************)
(* The encodings of pkg/solana: base58, the native transfer that the       *)
(* faucet signs, with the amount it is asked for, and the search for an    *)
(* associated token address.  Every behaviour is one job, an input the     *)
(* code can get, whose result is checked against a reference: the decoder  *)
(* for the encoder, and the reading of a transaction by the cluster for    *)
(* the building of it.  Bases and sizes are parameters: 256, 58, 128 and   *)
(* 32 in the code.                                                         *)
(***************************************************************************)
EXTENDS Integers, SequencesExt

CONSTANTS
    Byte,      \* values of a byte
    Radix,     \* characters of the base58 alphabet, numbered from 0
    Low,       \* values of the part of a compact-u16 byte that counts
    KeySize,   \* bytes of an address, a seed, a blockhash
    MaxBump,   \* the first bump that is tried
    Bytes,     \* bound: the byte strings to encode
    Texts,     \* bound: the base58 texts to decode
    Keys,      \* bound: the byte strings of wallets and payees
    Halves     \* bound: amounts, in half lamports

ASSUME EncodingAssumption ==
    /\ Byte \in Nat \ {0, 1} /\ Radix \in Nat \ {0, 1} /\ Low \in Nat \ {0, 1} /\ 2 * Low = Byte
    /\ KeySize \in Nat \ {0} /\ MaxBump \in Nat
    /\ Bytes \subseteq Seq(0 .. Byte - 1) /\ Keys \subseteq Seq(0 .. Byte - 1)
    /\ Texts \subseteq Seq(Nat) /\ Halves \subseteq Int

VARIABLES job, result
encVars == <<job, result>>

Error == <<-1>>

(* The digits of n, the first one not 0, and the number they stand for.    *)
Digits(base) == LET d[n \in Nat] == IF n = 0 THEN <<>> ELSE Append(d[n \div base], n % base)
                IN d
Values(base, digits) ==
    LET v[n \in 0 .. Len(digits)] == IF n = 0 THEN 0 ELSE v[n - 1] * base + digits[n] IN v
Value(base, digits) == Values(base, digits)[Len(digits)]

Zeros(n) == [i \in 1 .. n |-> 0]
LeadingZeros(s) ==
    LET first == SelectInSeq(s, LAMBDA x : x # 0) IN IF first = 0 THEN Len(s) ELSE first - 1

-----------------------------------------------------------------------------
(* base58.go                                                               *)

(* With a mistake: the number alone is encoded.                            *)
EncodeNumber(input) == Digits(Radix)[Value(Byte, input)]

EncodeBase58(input) == Zeros(LeadingZeros(input)) \o Digits(Radix)[Value(Byte, input)]

DecodeBase58(input) ==
    IF input = <<>> \/ \E i \in DOMAIN input : input[i] \notin 0 .. Radix - 1 THEN Error
    ELSE Zeros(LeadingZeros(input)) \o Digits(Byte)[Value(Radix, input)]

-----------------------------------------------------------------------------
(* tx.go                                                                   *)

(* Seven bits at a time, the lowest first, and a bit for "there is more".  *)
encodeCompactU16(v) ==
    LET e[n \in Nat] == IF n < Low THEN <<n>> ELSE <<(n % Low) + Low>> \o e[n \div Low] IN e[v]

Power[n \in Nat] == IF n = 0 THEN 1 ELSE Byte * Power[n - 1]

(* width bytes of n, the lowest first.                                     *)
LittleEndian(n, width) ==
    LET rest[i \in 0 .. width] == IF i = 0 THEN n ELSE rest[i - 1] \div Byte
    IN [i \in 1 .. width |-> rest[i - 1] % Byte]

encodeInstruction(ix) ==
    <<ix.program>> \o encodeCompactU16(Len(ix.accounts)) \o ix.accounts
                   \o encodeCompactU16(Len(ix.data)) \o ix.data

encodeMessage(msg) ==
    msg.header \o encodeCompactU16(Len(msg.keys)) \o FlattenSeq(msg.keys) \o msg.blockhash
        \o encodeCompactU16(Len(msg.instructions))
        \o FlattenSeq([i \in DOMAIN msg.instructions |-> encodeInstruction(msg.instructions[i])])

(* The public key of a seed, and a signature: of no other concern here.    *)
PublicKey(seed) == [i \in DOMAIN seed |-> (seed[i] + 1) % Byte]
Signature == Zeros(2 * KeySize)

SystemProgram == Zeros(KeySize)

(* A key is a seed, or a seed and its public key.                          *)
signerFromPrivateKey(raw) ==
    IF Len(raw) = 2 * KeySize THEN SubSeq(raw, KeySize + 1, 2 * KeySize)
    ELSE IF Len(raw) = KeySize THEN PublicKey(raw) ELSE Error

(* chain_service.go: half lamports are rounded up; the highest amount that *)
(* is not an overflow is one that does not fit (a float has no 2^64 - 1),  *)
(* and what it is converted to is up to the machine.                       *)
toLamports(half) ==
    IF half <= 0 \/ half > 2 * Power[8] THEN {}
    ELSE IF half \in {2 * Power[8] - 1, 2 * Power[8]} THEN {0, Power[8] \div 2, Power[8] - 1}
    ELSE {(half + 1) \div 2}

(* With a mistake: payer and payee are swapped.                            *)
TransferBack(from, to, lamports, blockhash) ==
    [header |-> <<1, 0, 1>>, keys |-> <<from, to, SystemProgram>>, blockhash |-> blockhash,
     instructions |-> <<[program |-> 2, accounts |-> <<1, 0>>,
                         data |-> LittleEndian(2, 4) \o LittleEndian(lamports, 8)]>>]

Transfer(from, to, lamports, blockhash) ==
    [header |-> <<1, 0, 1>>, keys |-> <<from, to, SystemProgram>>, blockhash |-> blockhash,
     instructions |-> <<[program |-> 2, accounts |-> <<0, 1>>,
                         data |-> LittleEndian(2, 4) \o LittleEndian(lamports, 8)]>>]

BuildNativeTransferTx(key, to, lamports, blockhash) ==
    LET from == signerFromPrivateKey(key)
    IN IF from = Error \/ Len(to) # KeySize THEN Error
       ELSE encodeCompactU16(1) \o Signature
                \o encodeMessage(Transfer(from, to, lamports, blockhash))

-----------------------------------------------------------------------------
(* address.go                                                              *)

(* With a mistake: the bump 0 is not tried.                                *)
FindAboveZero(onCurve) ==
    LET find[bump \in 0 .. MaxBump] == IF bump = 0 THEN -1
                                       ELSE IF bump \notin onCurve THEN bump
                                       ELSE find[bump - 1]
    IN find[MaxBump]

(* The first bump from above whose hash is no point of the curve.          *)
findProgramAddress(onCurve) ==
    LET find[bump \in 0 .. MaxBump] == IF bump \notin onCurve THEN bump
                                       ELSE IF bump = 0 THEN -1
                                       ELSE find[bump - 1]
    IN find[MaxBump]

-----------------------------------------------------------------------------
Jobs ==
    {[kind |-> "encode", bytes |-> b] : b \in Bytes}
    \cup {[kind |-> "decode", text |-> t] : t \in Texts}
    \cup {[kind |-> "address", onCurve |-> c] : c \in SUBSET (0 .. MaxBump)}
    \cup {[kind |-> "transfer", key |-> k, to |-> t, half |-> h] :
            k \in Keys, t \in Keys, h \in Halves}

Blockhash == [i \in 1 .. KeySize |-> Byte - 1]

EncodingInit == job \in Jobs /\ result = <<>>

Encode  == job.kind = "encode" /\ result' = EncodeBase58(job.bytes)
Decode58 == job.kind = "decode" /\ result' = DecodeBase58(job.text)
Find    == job.kind = "address" /\ result' = <<findProgramAddress(job.onCurve)>>
Build   ==
    /\ job.kind = "transfer"
    /\ IF toLamports(job.half) = {} THEN result' = Error
       ELSE \E n \in toLamports(job.half) :
                result' = BuildNativeTransferTx(job.key, job.to, n, Blockhash)

EncodingNext == result = <<>> /\ (Encode \/ Decode58 \/ Find \/ Build) /\ UNCHANGED job

EncodingSpec == EncodingInit /\ [][EncodingNext]_encVars

-----------------------------------------------------------------------------
(* How the cluster reads a transaction: one item after the other.          *)

(* <<number, the rest>>                                                    *)
ReadCompact(s) ==
    LET n == SelectInSeq(s, LAMBDA x : x < Low)
    IN <<Value(Low, Reverse([i \in 1 .. n |-> s[i] % Low])), SubSeq(s, n + 1, Len(s))>>

(* One item: so many bytes, or a number and as many elements of that size. *)
Fixed(size)   == [counted |-> FALSE, size |-> size]
Counted(size) == [counted |-> TRUE, size |-> size]

ReadItem(read, item) ==
    LET n    == IF item.counted THEN ReadCompact(read.rest) ELSE <<1, read.rest>>
        size == n[1] * item.size
    IN [items |-> Append(read.items, [count |-> n[1], bytes |-> SubSeq(n[2], 1, size)]),
        rest  |-> SubSeq(n[2], size + 1, Len(n[2]))]

(* Signatures, header, keys, blockhash, the number of instructions, and of *)
(* the first one its program, accounts and data.                           *)
Layout == <<Counted(2 * KeySize), Fixed(3), Counted(KeySize), Fixed(KeySize),
            Counted(0), Fixed(1), Counted(1), Counted(1)>>

ReadTransaction(s) ==
    LET read[n \in 0 .. Len(Layout)] ==
            IF n = 0 THEN [items |-> <<>>, rest |-> s] ELSE ReadItem(read[n - 1], Layout[n])
    IN read[Len(Layout)]

-----------------------------------------------------------------------------
(* Properties.                                                             *)

(* Base58 loses nothing in either direction, leading zeros and the number  *)
(* 0 included; only the empty text is refused (base58.go:26-83).           *)
Base58RoundTrip ==
    /\ job.kind = "encode" /\ result # <<>> => DecodeBase58(result) = job.bytes
    /\ job.kind = "decode" /\ result \notin {<<>>, Error} => EncodeBase58(result) = job.text

(* The cluster reads the transfer that was asked for, to the last byte:    *)
(* payer, payee and an amount at most half a lamport off; the one amount   *)
(* that the overflow check lets through apart (tx.go:17-130,               *)
(* chain_service.go:627-636).                                              *)
TransferIsReadBack ==
    job.kind = "transfer" /\ result \notin {<<>>, Error} =>
        LET read     == ReadTransaction(result)
            Item(n) == read.items[n].bytes
            Number(b) == Value(Byte, Reverse(b))
            Key(i)   == SubSeq(Item(3), i * KeySize + 1, (i + 1) * KeySize)
        IN /\ read.items[1].count = 1 /\ read.items[5].count = 1 /\ read.rest = <<>>
           /\ Item(2) = <<1, 0, 1>> /\ Item(4) = Blockhash
           /\ Key(Item(6)[1]) = SystemProgram
           /\ Key(Item(7)[1]) = signerFromPrivateKey(job.key)
           /\ Key(Item(7)[2]) = job.to
           /\ Number(SubSeq(Item(8), 1, 4)) = 2
           /\ job.half < 2 * Power[8] - 1 =>
                 2 * Number(SubSeq(Item(8), 5, 12)) - job.half \in {0, 1}

(* The derived address is the one that the token program derives: the      *)
(* highest bump off the curve, 0 included, and none only if all are on it  *)
(* (address.go:48-61).                                                     *)
HighestBumpIsFound ==
    job.kind = "address" /\ result # <<>> =>
        IF \A bump \in 0 .. MaxBump : bump \in job.onCurve THEN result = <<-1>>
        ELSE /\ result[1] \in (0 .. MaxBump) \ job.onCurve
             /\ \A bump \in 0 .. MaxBump : bump > result[1] => bump \in job.onCurve
=============================================================================
