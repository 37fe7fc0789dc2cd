----------------------------- MODULE TxDecoding -----------------------------
(***************************************************************************)
(* What a transaction is reported as: toChainTx and toChainEvents          *)
(* (service/chain_transform.go) with the SPL token decoder                 *)
(* (service/decoder.go).  A transaction grows instruction by instruction;  *)
(* each is carried out, as the runtime did, and decoded, as the connector  *)
(* does, so that every state is a transaction with what the connector says *)
(* of it; a transaction that failed is decoded alike, though nothing of it *)
(* was carried out.  Go iterates a map in any order: a lookup in           *)
(* cfg.Tokens may return any entry that matches.  Amounts are float64.     *)
(***************************************************************************)
EXTENDS Integers, SequencesExt

CONSTANTS
    Account,      \* token accounts, all of one mint
    Holder,       \* wallets
    Payer,        \* the wallet that pays the fee, the first signer
    Code,         \* token codes
    Decimals,     \* the decimals the mint has
    NativeDecimals, \* those of SOL: 9
    MaxDecimals,  \* bound: decimals a registry entry can have
    Entries,      \* bound: the entries a code can have
    Lifetimes,    \* bound: the owners an account can have before and after
    Rounding,     \* by how much the float64 of an amount may be off
    MaxAmount,    \* bound: amount of an instruction
    MaxLength,    \* bound: instructions of a transaction
    None          \* no owner (no such account then), no entry

ASSUME ConstantAssumption ==
    /\ Decimals \in 0 .. MaxDecimals /\ MaxDecimals \in Nat
    /\ NativeDecimals \in 0 .. MaxDecimals /\ Rounding \in Nat
    /\ MaxLength \in Nat /\ MaxAmount \in Nat /\ Payer \in Holder
    /\ Entries \subseteq [ours : BOOLEAN, decimals : 0 .. MaxDecimals] \cup {None}
    /\ Lifetimes \subseteq [before : Holder \cup {None}, after : Holder \cup {None}]
    /\ IsFiniteSet(Account) /\ Account \cap Holder = {}
    /\ None \notin Account \cup Holder \cup Code

VARIABLES
    failed,        \* tx.Meta.Err is set
    tokens,        \* cfg.Tokens; ours: for this network and mint
    program,       \* the token program of the mint
    account,       \* the records of the accounts around the transaction
    instructions,  \* Transaction.Message.Instructions
    events,        \* what toChainEvents has made of them
    change         \* history: how the balance of each account has changed

vars == <<failed, tokens, program, account, instructions, events, change>>

TokenProgram == {"spl-token", "spl-token-2022"}

(* What the node's parser says of an instruction.  checked: the variant of *)
(* a token instruction that names its mint and has its amount in tokens.   *)
Instruction ==
    [program : TokenProgram \cup {"system"}, checked : BOOLEAN,
     type : {"mintTo", "burn", "transfer", "other"}, amount : 0 .. MaxAmount,
     source : Account \cup Holder, destination : Account \cup Holder,
     authority : Holder \cup {None}]

Event == [type : {"RT_MINT", "RT_BURN", "RT_TRANSFER"}, code : Code, amount : Int,
          from : Holder \cup Account \cup {None}, to : Holder \cup Account \cup {None}]

TypeOK ==
    /\ failed \in BOOLEAN
    /\ tokens \in [Code -> Entries] /\ program \in TokenProgram
    /\ account \in [Account -> Lifetimes]
    /\ instructions \in Seq(Instruction) /\ events \in Seq(Event)
    /\ change \in [Account -> Int]

-----------------------------------------------------------------------------
(* Lookups.                                                                *)

(* The owner in PostTokenBalances, or else in PreTokenBalances, if any.    *)
resolveTokenAccountContext(a) ==
    IF account[a].after # None THEN account[a].after ELSE account[a].before

(* An account without a record stands for its owner.                       *)
resolveTokenAccountOwner(a) ==
    LET owner == resolveTokenAccountContext(a) IN IF owner = None THEN a ELSE owner

resolveTokenCode == {c \in Code : tokens[c] # None /\ tokens[c].ours}

(* Amounts in tokens, on the scale of the largest number of decimals.      *)
Tokens(amount, decimals) == amount * 10 ^ (MaxDecimals - decimals)

(* A float64 stands for an amount: the text it is parsed from is rounded,  *)
(* and so is each division by ten, one per decimal (1 unit of a token with *)
(* 6 decimals becomes 1.0000000000000002e-06).                             *)
Float(amount) == amount - Rounding .. amount + Rounding

(* The amount that the parser gives in tokens, or the raw one with the     *)
(* decimals of an entry, not always that of the code.                      *)
resolveTokenAmount(i) ==
    IF i.checked THEN Float(Tokens(i.amount, Decimals))
    ELSE UNION {Float(Tokens(i.amount, tokens[c].decimals)) : c \in resolveTokenCode}

-----------------------------------------------------------------------------
(* Decoding.                                                               *)

EventsOf(i, type, from, to) ==
    {[type |-> type, code |-> c, amount |-> v, from |-> from, to |-> to] :
        c \in resolveTokenCode, v \in resolveTokenAmount(i)}

(* With a mistake: a transfer credits the account, not its owner.          *)
decodeInstructionToAccount(i) ==
    CASE i.type = "mintTo"   -> EventsOf(i, "RT_MINT", None, i.destination)
      [] i.type = "burn"     -> EventsOf(i, "RT_BURN", i.authority, None)
      [] i.type = "transfer" -> EventsOf(i, "RT_TRANSFER", i.source, i.destination)
      [] OTHER               -> {}

(* decodeInstruction: the events it can return, none when there is none.   *)
(* Only an unchecked transfer needs a record to find the mint; a burn is   *)
(* put down to who signed for it.                                          *)
decodeInstruction(i) ==
    CASE i.type = "mintTo" ->
            EventsOf(i, "RT_MINT", None, resolveTokenAccountOwner(i.destination))
      [] i.type = "burn" ->
            EventsOf(i, "RT_BURN", IF i.authority # None THEN i.authority
                                   ELSE resolveTokenAccountOwner(i.source), None)
      [] i.type = "transfer" /\ (i.checked \/ resolveTokenAccountContext(i.source) # None) ->
            EventsOf(i, "RT_TRANSFER", resolveTokenAccountOwner(i.source),
                                       resolveTokenAccountOwner(i.destination))
      [] OTHER -> {}

(* With a mistake: the newer program is not registered.                    *)
DecodersOld == {"spl-token"}

defaultDecoderRegistry == {"spl-token", "spl-token-2022"}

Decode(i) == IF i.program \in defaultDecoderRegistry THEN decodeInstruction(i) ELSE {}

(* With a mistake: only the first instruction is looked at.                *)
extractNativeTransferSummaryFirst ==
    IF instructions # <<>> /\ instructions[1].program = "system"
       /\ instructions[1].type = "transfer" THEN 1 ELSE 0

(* The position of the first native transfer, 0 if there is none.          *)
extractNativeTransferSummary ==
    SelectInSeq(instructions, LAMBDA i : i.program = "system" /\ i.type = "transfer")

(* The status of toChainTx, which toChainEvents does not look at.          *)
Status == IF failed THEN "FAILED" ELSE "SUCCESS"

(* From, To and Amount of toChainTx, one of the values they can have:      *)
(* those of the first native transfer, or the first signer, the first      *)
(* program and 0.                                                          *)
extractChainTxParties ==
    LET n == extractNativeTransferSummary
    IN IF n # 0
       THEN [from : {instructions[n].source}, to : {instructions[n].destination},
             amount : Float(Tokens(instructions[n].amount, NativeDecimals))]
       ELSE [from : {Payer}, amount : {0},
             to : {IF instructions = <<>> THEN None ELSE instructions[1].program}]

-----------------------------------------------------------------------------
(* The runtime.                                                            *)

(* An account takes part only if it exists at some time of the transaction, *)
(* which it does without a record if it is created and closed by it.  The  *)
(* authority is the owner, a delegate, or several (and not named).         *)
Move(type, from, to, signers) ==
    [program : {program}, type : {type}, checked : BOOLEAN, amount : 1 .. MaxAmount,
     source : from, destination : to, authority : signers]

TokenInstruction ==
    UNION {Move("mintTo", {a}, {a}, {None}) \cup Move("other", {a}, {a}, {None})
            \cup Move("burn", {a}, {a}, Holder \cup {None})
            \cup Move("transfer", {a}, Account, {None}) : a \in Account}

NativeInstruction ==
    [program : {"system"}, checked : {FALSE}, type : {"transfer"},
     amount : 0 .. MaxAmount, source : Holder, destination : Holder, authority : {None}]

Moved(i) ==
    [a \in Account |-> change[a]
        + (IF i.type \in {"mintTo", "transfer"} /\ i.destination = a THEN i.amount ELSE 0)
        - (IF i.type \in {"burn", "transfer"} /\ i.source = a THEN i.amount ELSE 0)]

(* The loop of toChainEvents takes the next instruction.  One of a failed  *)
(* transaction moved nothing in the end.                                   *)
toChainEvents(i) ==
    /\ Len(instructions) < MaxLength
    /\ instructions' = Append(instructions, i)
    /\ \/ Decode(i) = {} /\ UNCHANGED events
       \/ \E e \in Decode(i) : events' = Append(events, e)
    /\ change' = IF failed \/ i.program = "system" THEN change ELSE Moved(i)
    /\ UNCHANGED <<failed, tokens, program, account>>

(* The records after a failed transaction are those before it.             *)
Init ==
    /\ failed \in BOOLEAN
    /\ tokens \in [Code -> Entries] /\ program \in TokenProgram
    /\ account \in [Account -> Lifetimes]
    /\ failed => \A a \in Account : account[a].before = account[a].after
    /\ instructions = <<>> /\ events = <<>> /\ change = [a \in Account |-> 0]

Next == \E i \in TokenInstruction \cup NativeInstruction : toChainEvents(i)

Spec == Init /\ [][Next]_vars

-----------------------------------------------------------------------------
(* Properties.                                                             *)

(* The sum of a sequence of numbers, from its partial sums.                *)
Partial(s) == LET sum[n \in 0 .. Len(s)] == IF n = 0 THEN 0 ELSE sum[n - 1] + s[n] IN sum
Total(s)   == Partial(s)[Len(s)]

Unambiguous == \E c \in Code : resolveTokenCode = {c} /\ tokens[c].decimals = Decimals

(* An unchecked transfer of an account that lived within the transaction   *)
(* only, and a burn that somebody else signed for.                         *)
Unseen(i)    == i.type = "transfer" /\ ~i.checked /\ resolveTokenAccountContext(i.source) = None
Delegated(i) == i.type = "burn" /\ i.authority \notin {None, resolveTokenAccountOwner(i.source)}

Explained == \A n \in DOMAIN instructions :
                 instructions[n].program # "system" =>
                     ~Unseen(instructions[n]) /\ ~Delegated(instructions[n])

(* What an event or a native transfer brings h, less what it takes.        *)
Brings(x, to, from, h) == (IF to = h THEN x.amount ELSE 0) - (IF from = h THEN x.amount ELSE 0)

Into(h) == Total([n \in DOMAIN events |-> Brings(events[n], events[n].to, events[n].from, h)])

Accounts == SetToSeq(Account)
Gain(h) == Total([n \in DOMAIN Accounts |->
                     IF resolveTokenAccountOwner(Accounts[n]) = h
                     THEN Tokens(change[Accounts[n]], Decimals) ELSE 0])

(* What a consumer makes of it who takes what is reported of a FAILED      *)
(* transaction for something that did not happen.                          *)
IfSucceeded(x) == IF Status = "SUCCESS" THEN x ELSE 0

Near(x, y, d) == x - y \in -d .. d

(* The events of a transaction explain the balances: for each wallet, and  *)
(* each account without a record, what they bring and take is the change   *)
(* of the accounts that end up in its name, up to the rounding of each     *)
(* amount.  It takes the status to read them: the events of a FAILED       *)
(* transaction are made like any other's, and no balance has moved.  Two   *)
(* cases apart, which the decoder does not see or puts down to the         *)
(* delegate (decoder.go:86-226, chain_transform.go:29-77, 129-172).        *)
EventsExplainBalances ==
    Unambiguous /\ Explained =>
        \A h \in Holder \cup Account :
            Near(IfSucceeded(Into(h)), Gain(h), Rounding * Len(events))

Reportable(i) == i.program # "system" /\ i.type # "other" /\ ~Unseen(i)

(* Whatever the registry, every instruction to move a registered token is  *)
(* reported once, in either token program, unless it is unseen: those of a *)
(* FAILED transaction too, as moves that did not happen (decoder.go:46-62, *)
(* chain_transform.go:59-76).                                              *)
EveryMoveIsReported ==
    resolveTokenCode # {} =>
        Len(events) = Cardinality({n \in DOMAIN instructions : Reportable(instructions[n])})

IsNative(i) == i.program = "system" /\ i.type = "transfer"

(* What the native transfers bring h, less what they take, if they happen. *)
InSOL(i) == [amount |-> Tokens(i.amount, NativeDecimals)]
Net(h) == Total([n \in DOMAIN instructions |->
                    IF ~failed /\ IsNative(instructions[n])
                    THEN Brings(InSOL(instructions[n]), instructions[n].destination,
                                instructions[n].source, h)
                    ELSE 0])

(* From, To and Amount are those of the only native transfer, wherever it  *)
(* stands, up to the rounding of the amount, and a transaction without one *)
(* shows no amount; a FAILED one shows a transfer that did not happen      *)
(* (chain_transform.go:29-32, 79-122).                                     *)
OneTransferIsShown ==
    (\A m, n \in DOMAIN instructions :
        IsNative(instructions[m]) /\ IsNative(instructions[n]) => m = n)
    => \A shown \in extractChainTxParties : \A h \in Holder :
           Near(IfSucceeded(Brings(shown, shown.to, shown.from, h)), Net(h), Rounding)
=============================================================================
