------------------------- MODULE ChainGatewayProofs -------------------------
(***************************************************************************)
(* The gateway's invariants for every number of requests, keys, codes and  *)
(* faults.  No operation holds a lock across its steps, so the argument is *)
(* about one request at a time: on a name that is not excused at most one  *)
(* request runs, and what is amiss with the name's entries meanwhile is    *)
(* for that request to put right.                                          *)
(***************************************************************************)
EXTENDS ChainGateway, FiniteSetTheorems, TLAPS

(* What a request holds at each point.                                     *)
Holds(r) ==
    /\ pc[r] \in {"key", "blockhash"} =>
           kind[r] = "faucet" /\ name[r] \in Key /\ data[r] \in Address
    /\ pc[r] \in {"broadcast", "put", "latest", "register"} =>
           name[r] \in Key /\ data[r] \in Tx
    /\ pc[r] = "broadcast" /\ kind[r] # "faucet" => data[r][1] \notin Address
    /\ pc[r] = "put" => kind[r] = "faucet"
    /\ pc[r] \in {"save", "cache", "lookup", "read", "fill", "remove", "evict"} =>
           name[r] \in Code /\ data[r] \in {None} \cup Token
    /\ pc[r] = "remove" => data[r] = None

GateType == TypeOK /\ \A r \in Request : Holds(r)

(* A step of one request, in the middle of its handler.                    *)
Advance(r) ==
    \/ GetIdempotent(r) \/ BuildTransfer(r) \/ SendSignedTransaction(r)
    \/ PutIdempotent(r) \/ GetLatestBlock(r) \/ RegisterTxSubscription(r)
    \/ SaveToken(r) \/ RemoveToken(r) \/ CacheToken(r) \/ LookupToken(r)
    \/ ReadToken(r)

Begin(r) == TxSend(r) \/ Faucet(r) \/ AddToken(r) \/ GetToken(r) \/ DeleteToken(r)

(* A step of nobody's request.                                             *)
Environment ==
    \/ BlockhashAdvance \/ Restart
    \/ (\E k \in Key : Expire(k)) \/ \E r \in Request : Leave(r)

LEMMA NextCases ==
    ASSUME Next
    PROVE  (\E r \in Request : Begin(r) \/ Advance(r)) \/ Environment
  BY DEF Next, Handle, Begin, Advance, Environment

(* A request begins with its name, its arguments and nothing done.         *)
LEMMA BeginFacts ==
    ASSUME GateType, NEW r \in Request, Begin(r)
    PROVE  /\ pc[r] = "new"
           /\ \E k \in Kind, n \in Name, d \in {None} \cup Address \cup Tx \cup Token,
                 point \in {"broadcast", "key", "save", "lookup", "remove"} :
                /\ Arrive(r, k, n, d, point)
                /\ point = "key" => k = "faucet" /\ n \in Key /\ d \in Address
                /\ point = "broadcast" => k = "send" /\ n \in Key /\ d = <<n, 0>>
                /\ point \in {"save", "lookup", "remove"} =>
                       n \in Code /\ d \in {None} \cup Token
                /\ point = "remove" => d = None
<1>1. CASE TxSend(r)
  <2>1. PICK k \in Key : Arrive(r, "send", k, <<k, 0>>, "broadcast")
    BY <1>1 DEF TxSend
  <2>2. <<k, 0>> \in Tx /\ k \in Name /\ "send" \in Kind
    BY ConstantAssumption DEF Tx, Name, Kind
  <2> QED
    BY <2>1, <2>2 DEF Arrive
<1>2. CASE Faucet(r)
  BY <1>2 DEF Faucet, Arrive, Name, Kind
<1>3. CASE AddToken(r)
  BY <1>3 DEF AddToken, Arrive, Name, Kind
<1>4. CASE GetToken(r)
  BY <1>4 DEF GetToken, Arrive, Name, Kind
<1>5. CASE DeleteToken(r)
  BY <1>5 DEF DeleteToken, Arrive, Name, Kind
<1> QED
  BY <1>1, <1>2, <1>3, <1>4, <1>5 DEF Begin

-----------------------------------------------------------------------------
(* Types.                                                                  *)

LEMMA GateTypeInit == Init => GateType
<1> SUFFICES ASSUME Init PROVE GateType
  OBVIOUS
<1>1. TypeOK
  <2>1. (CHOOSE n \in Name : TRUE) \in Name
    BY ConstantAssumption DEF Name
  <2> QED
    BY <2>1, ConstantAssumption DEF Init, TypeOK, Point, Kind
<1>2. \A r \in Request : Holds(r)
  BY DEF Init, Holds
<1> QED
  BY <1>1, <1>2 DEF GateType

LEMMA TransferTx ==
    ASSUME NEW a \in Address \cup Key, NEW h \in 0 .. MaxHash PROVE <<a, h>> \in Tx
  BY DEF Tx

LEMMA FaultType ==
    ASSUME faults \in 0 .. MaxFaults, NEW r, NEW e, Fault(e) \/ Unanswered(r, e)
    PROVE  faults' \in 0 .. MaxFaults
  BY ConstantAssumption DEF Fault, Unanswered

(* The others keep what they hold while one request moves.                 *)
LEMMA HoldsFrame ==
    ASSUME GateType, NEW r \in Request, Holds(r)',
           \A q \in Request \ {r} : /\ pc'[q] = pc[q] /\ kind'[q] = kind[q]
                                    /\ name'[q] = name[q] /\ data'[q] = data[q]
    PROVE  \A q \in Request : Holds(q)'
  BY DEF GateType, Holds

LEMMA BeginType ==
    ASSUME GateType, NEW r \in Request, Begin(r) PROVE GateType'
<1>1. PICK k \in Kind, n \in Name, d \in {None} \cup Address \cup Tx \cup Token,
           point \in {"broadcast", "key", "save", "lookup", "remove"} :
        /\ Arrive(r, k, n, d, point)
        /\ point = "key" => k = "faucet" /\ n \in Key /\ d \in Address
        /\ point = "broadcast" => k = "send" /\ n \in Key /\ d = <<n, 0>>
        /\ point \in {"save", "lookup", "remove"} =>
               n \in Code /\ d \in {None} \cup Token
        /\ point = "remove" => d = None
  BY BeginFacts
<1>2. /\ pc' = [pc EXCEPT ![r] = point] /\ data' = [data EXCEPT ![r] = d]
      /\ kind' = [kind EXCEPT ![r] = k] /\ name' = [name EXCEPT ![r] = n]
      /\ UNCHANGED <<gone, items, tokens, table, hash, sent, watched, faults>>
      /\ excuse' \in {excuse, excuse \cup {<<"raced", n>>}}
  BY <1>1 DEF Arrive, Goto, Keep, Excuse
<1>3. TypeOK'
  <2>1. TypeOK
    BY DEF GateType
  <2>2. /\ pc' \in [Request -> Point] /\ kind' \in [Request -> Kind]
        /\ name' \in [Request -> Name]
        /\ data' \in [Request -> {None} \cup Address \cup Tx \cup Token]
    BY <1>2, <2>1 DEF TypeOK, Point
  <2>3. excuse' \subseteq {"raced", "forgotten", "unheard"} \X Name
    BY <1>2, <2>1 DEF TypeOK
  <2> QED
    BY <1>2, <2>1, <2>2, <2>3 DEF TypeOK
<1>4. Holds(r)'
  <2>1. point = "broadcast" => d \in Tx /\ d[1] \notin Address
    BY <1>1, ConstantAssumption DEF Tx
  <2> QED
    BY <1>1, <1>2, <2>1 DEF Holds, GateType, TypeOK
<1> QED
  BY <1>2, <1>3, <1>4, HoldsFrame DEF GateType, TypeOK

LEMMA AdvanceType ==
    ASSUME GateType, NEW r \in Request, Advance(r) PROVE GateType'
<1> USE DEF GateType, TypeOK, Goto, Keep, Excuse
<1>0. /\ \A q \in Request \ {r} : pc'[q] = pc[q] /\ data'[q] = data[q]
      /\ kind' = kind /\ name' = name
  <2>1. CASE GetIdempotent(r)
    BY <2>1 DEF GetIdempotent
  <2>2. CASE BuildTransfer(r)
    BY <2>2 DEF BuildTransfer
  <2>3. CASE SendSignedTransaction(r)
    BY <2>3 DEF SendSignedTransaction
  <2>4. CASE PutIdempotent(r)
    BY <2>4 DEF PutIdempotent
  <2>5. CASE GetLatestBlock(r)
    BY <2>5 DEF GetLatestBlock
  <2>6. CASE RegisterTxSubscription(r)
    BY <2>6 DEF RegisterTxSubscription
  <2>7. CASE CacheToken(r)
    BY <2>7 DEF CacheToken
  <2>8. CASE LookupToken(r)
    BY <2>8 DEF LookupToken
  <2>9. CASE ReadToken(r)
    BY <2>9 DEF ReadToken
  <2>10. CASE SaveToken(r) \/ RemoveToken(r)
    BY <2>10 DEF SaveToken, RemoveToken, Statement
  <2> QED
    BY <2>1, <2>2, <2>3, <2>4, <2>5, <2>6, <2>7, <2>8, <2>9, <2>10 DEF Advance
<1>1. CASE GetIdempotent(r)
  <2>1. name[r] \in Key
    BY <1>1 DEF GetIdempotent, Holds
  <2>2. items[name[r]] \in {None} \cup Tx
    BY <2>1
  <2>3. TypeOK'
    BY <1>1, <2>2 DEF GetIdempotent, Point
  <2>4. Holds(r)'
    BY <1>1, <2>2 DEF GetIdempotent, Holds
  <2> QED
    BY <1>0, <2>3, <2>4, HoldsFrame
<1>2. CASE BuildTransfer(r)
  <2>1. data[r] \in Address /\ name[r] \in Key /\ kind[r] = "faucet"
    BY <1>2 DEF BuildTransfer, Holds
  <2>2. <<data[r], hash>> \in Tx
    <3>1. hash \in 0 .. MaxHash
      OBVIOUS
    <3> QED
      BY <2>1, <3>1, TransferTx
  <2>3. faults' \in 0 .. MaxFaults
    BY <1>2, FaultType DEF BuildTransfer
  <2>4. TypeOK'
    <3>1. data' \in [Request -> {None} \cup Address \cup Tx \cup Token]
      BY <1>2, <2>2 DEF BuildTransfer
    <3>2. pc' \in [Request -> Point]
      BY <1>2 DEF BuildTransfer, Point, Answer
    <3> QED
      BY <1>2, <2>3, <3>1, <3>2 DEF BuildTransfer
  <2>5. Holds(r)'
    BY <1>2, <2>1, <2>2 DEF BuildTransfer, Holds
  <2> QED
    BY <1>0, <2>4, <2>5, HoldsFrame
<1>3. CASE SendSignedTransaction(r)
  <2>1. data[r] \in Tx /\ name[r] \in Key /\ (kind[r] = "faucet" \/ data[r][1] \notin Address)
    BY <1>3 DEF SendSignedTransaction, Holds
  <2>2. faults' \in 0 .. MaxFaults
    BY <1>3, FaultType DEF SendSignedTransaction
  <2>3. sent' \subseteq Key \X Tx
    BY <1>3, <2>1 DEF SendSignedTransaction
  <2>4. excuse' \subseteq {"raced", "forgotten", "unheard"} \X Name
    BY <1>3, <2>1 DEF SendSignedTransaction, Name
  <2>5. TypeOK'
    BY <1>3, <2>2, <2>3, <2>4 DEF SendSignedTransaction, Point, Answer
  <2>6. Holds(r)'
    BY <1>3, <2>1 DEF SendSignedTransaction, Holds
  <2> QED
    BY <1>0, <2>5, <2>6, HoldsFrame
<1>4. CASE PutIdempotent(r)
  <2>1. data[r] \in Tx /\ name[r] \in Key
    BY <1>4 DEF PutIdempotent, Holds
  <2>2. TypeOK'
    BY <1>4, <2>1 DEF PutIdempotent, Point
  <2>3. Holds(r)'
    BY <1>4, <2>1 DEF PutIdempotent, Holds
  <2> QED
    BY <1>0, <2>2, <2>3, HoldsFrame
<1>5. CASE GetLatestBlock(r)
  <2>1. data[r] \in Tx /\ name[r] \in Key
    BY <1>5 DEF GetLatestBlock, Holds
  <2>2. faults' \in 0 .. MaxFaults
    BY <1>5, FaultType DEF GetLatestBlock
  <2>3. TypeOK'
    BY <1>5, <2>2 DEF GetLatestBlock, Point, Answer
  <2>4. Holds(r)'
    BY <1>5, <2>1 DEF GetLatestBlock, Holds
  <2> QED
    BY <1>0, <2>3, <2>4, HoldsFrame
<1>6. CASE RegisterTxSubscription(r)
  <2>1. data[r] \in Tx /\ name[r] \in Key
    BY <1>6 DEF RegisterTxSubscription, Holds
  <2>2. faults' \in 0 .. MaxFaults
    BY <1>6, FaultType DEF RegisterTxSubscription
  <2>3. TypeOK'
    BY <1>6, <2>1, <2>2 DEF RegisterTxSubscription, Point, Answer
  <2>4. Holds(r)'
    BY <1>6, <2>1 DEF RegisterTxSubscription, Holds
  <2> QED
    BY <1>0, <2>3, <2>4, HoldsFrame
<1>7. CASE SaveToken(r) \/ RemoveToken(r)
  <2>1. data[r] \in {None} \cup Token /\ name[r] \in Code
    BY <1>7 DEF SaveToken, RemoveToken, Holds
  <2>2. faults' \in 0 .. MaxFaults
    BY <1>7, FaultType DEF SaveToken, RemoveToken, Statement
  <2>3. excuse' \subseteq {"raced", "forgotten", "unheard"} \X Name
    BY <1>7, <2>1 DEF SaveToken, RemoveToken, Statement, Name
  <2>4. TypeOK'
    BY <1>7, <2>1, <2>2, <2>3 DEF SaveToken, RemoveToken, Statement, Point, Answer
  <2>5. Holds(r)'
    BY <1>7, <2>1 DEF SaveToken, RemoveToken, Statement, Holds
  <2> QED
    BY <1>0, <2>4, <2>5, HoldsFrame
<1>8. CASE CacheToken(r) \/ LookupToken(r)
  <2>1. data[r] \in {None} \cup Token /\ name[r] \in Code
    BY <1>8 DEF CacheToken, LookupToken, Holds
  <2>2. TypeOK'
    BY <1>8, <2>1 DEF CacheToken, LookupToken, Point, Answer
  <2>3. Holds(r)'
    BY <1>8, <2>1 DEF CacheToken, LookupToken, Holds
  <2> QED
    BY <1>0, <2>2, <2>3, HoldsFrame
<1>9. CASE ReadToken(r)
  <2>1. name[r] \in Code /\ data'[r] \in {None} \cup Token
    BY <1>9 DEF ReadToken, Holds
  <2>2. faults' \in 0 .. MaxFaults
    BY <1>9, FaultType DEF ReadToken
  <2>3. TypeOK'
    BY <1>9, <2>1, <2>2 DEF ReadToken, Point, Answer
  <2>4. Holds(r)'
    BY <1>9, <2>1 DEF ReadToken, Holds
  <2> QED
    BY <1>0, <2>3, <2>4, HoldsFrame
<1> QED
  BY <1>1, <1>2, <1>3, <1>4, <1>5, <1>6, <1>7, <1>8, <1>9 DEF Advance

LEMMA EnvironmentType ==
    ASSUME GateType, Environment
    PROVE  GateType'
<1> USE DEF GateType, TypeOK
<1>1. CASE BlockhashAdvance
  BY <1>1, ConstantAssumption DEF BlockhashAdvance, reqVars, Holds
<1>2. CASE Restart
  <2>1. faults' \in 0 .. MaxFaults
    BY <1>2, FaultType DEF Restart
  <2>2. excuse' \subseteq {"raced", "forgotten", "unheard"} \X Name
    <3>1. {"forgotten"} \X Key \subseteq {"raced", "forgotten", "unheard"} \X Name
      BY DEF Name
    <3>2. \A r \in Request : <<"unheard", name[r]>> \in {"raced", "forgotten", "unheard"} \X Name
      OBVIOUS
    <3>3. {<<"unheard", name[r]>> : r \in {q \in Request : Running(q) /\ name[q] \in Key}}
            \subseteq {"raced", "forgotten", "unheard"} \X Name
      BY <3>2
    <3> QED
      BY <1>2, <3>1, <3>3 DEF Restart
  <2>3. pc' \in [Request -> Point] /\ \A r \in Request : pc'[r] \in {"new"} \cup Answer
    BY <1>2 DEF Restart, Running, Point, Answer
  <2>4. TypeOK'
    BY <1>2, <2>1, <2>2, <2>3 DEF Restart
  <2>5. \A r \in Request : Holds(r)'
    BY <2>3 DEF Holds, Answer
  <2> QED
    BY <2>4, <2>5
<1>3. ASSUME NEW k \in Key, Expire(k) PROVE GateType'
  <2>1. faults' \in 0 .. MaxFaults
    BY <1>3, FaultType DEF Expire
  <2>2. TypeOK'
    BY <1>3, <2>1 DEF Expire, Excuse, Name, reqVars
  <2> QED
    BY <1>3, <2>2 DEF Expire, reqVars, Holds
<1>4. ASSUME NEW r \in Request, Leave(r) PROVE GateType'
  <2>1. faults' \in 0 .. MaxFaults
    BY <1>4, FaultType DEF Leave
  <2>2. TypeOK'
    BY <1>4, <2>1 DEF Leave
  <2> QED
    BY <1>4, <2>2 DEF Leave, Holds
<1> QED
  BY <1>1, <1>2, <1>3, <1>4 DEF Environment

LEMMA GateTypeNext == ASSUME GateType, [Next]_vars PROVE GateType'
<1>1. CASE Next
  BY <1>1, NextCases, BeginType, AdvanceType, EnvironmentType
<1>2. CASE UNCHANGED vars
  BY <1>2 DEF GateType, TypeOK, Holds, vars, reqVars
<1> QED
  BY <1>1, <1>2

(* The types of the gateway, and what a request holds at each of its       *)
(* steps, for any number of requests (chain_service.go, chain_controller.go). *)
THEOREM TypeCorrect == Spec => []TypeOK
<1>1. Spec => []GateType
  BY GateTypeInit, GateTypeNext, PTL DEF Spec
<1> QED
  BY <1>1, PTL DEF GateType

-----------------------------------------------------------------------------
(* Sent transactions.                                                      *)

(* Who will answer for a transaction that was sent: SentIsAccounted is not *)
(* inductive, since a request about to send it again may be refused.       *)
Answerable(k, tx) ==
    \E r \in Request : /\ name[r] = k /\ data[r] = tx
                       /\ pc[r] \in {"put", "latest", "register", "unwatched"}

SentInv ==
    \A k \in Key : \A tx \in Tx :
        <<k, tx>> \in sent /\ <<"unheard", k>> \notin excuse =>
            tx \in watched \/ Answerable(k, tx)

LEMMA SentIsEnough == SentInv => SentIsAccounted
  BY DEF SentInv, SentIsAccounted, Answerable, Running, Told, Deserted, Answer

(* A step of a request that sends nothing and lets go of nothing.          *)
LEMMA SentFrame ==
    ASSUME SentInv, NEW r \in Request, sent' = sent, watched \subseteq watched',
           \A k \in Key : <<"unheard", k>> \in excuse => <<"unheard", k>> \in excuse',
           \A q \in Request \ {r} :
               pc'[q] = pc[q] /\ name'[q] = name[q] /\ data'[q] = data[q],
           \/ pc[r] \notin {"put", "latest", "register", "unwatched"}
           \/ /\ pc'[r] \in {"put", "latest", "register", "unwatched"}
              /\ name'[r] = name[r] /\ data'[r] = data[r]
    PROVE  SentInv'
<1> SUFFICES ASSUME NEW k \in Key, NEW tx \in Tx, <<k, tx>> \in sent,
                    <<"unheard", k>> \notin excuse, tx \notin watched
             PROVE  Answerable(k, tx)'
  BY DEF SentInv
<1>1. PICK q \in Request : /\ name[q] = k /\ data[q] = tx
                           /\ pc[q] \in {"put", "latest", "register", "unwatched"}
  BY DEF SentInv, Answerable
<1>2. CASE q # r
  BY <1>1, <1>2 DEF Answerable
<1>3. CASE q = r
  BY <1>1, <1>3 DEF Answerable
<1> QED
  BY <1>2, <1>3

LEMMA SentAdvance ==
    ASSUME GateType, SentInv, NEW r \in Request, Advance(r) PROVE SentInv'
<1> USE DEF Goto, Keep, Excuse
<1>1. pc \in [Request -> Point] /\ data \in [Request -> {None} \cup Address \cup Tx \cup Token]
  BY DEF GateType, TypeOK
<1>2. CASE GetIdempotent(r) \/ BuildTransfer(r) \/ LookupToken(r)
  BY <1>1, <1>2, SentFrame DEF GetIdempotent, BuildTransfer, LookupToken
<1>3. CASE ReadToken(r) \/ CacheToken(r)
  BY <1>1, <1>3, SentFrame DEF ReadToken, CacheToken
<1>4. CASE SaveToken(r) \/ RemoveToken(r)
  BY <1>1, <1>4, SentFrame DEF SaveToken, RemoveToken, Statement
<1>5. CASE PutIdempotent(r) \/ GetLatestBlock(r)
  BY <1>1, <1>5, SentFrame DEF PutIdempotent, GetLatestBlock
<1>6. CASE RegisterTxSubscription(r)
  <2>1. CASE pc' = [pc EXCEPT ![r] = "unwatched"] /\ watched' = watched
    BY <1>1, <1>6, <2>1, SentFrame DEF RegisterTxSubscription
  <2>2. CASE pc' = [pc EXCEPT ![r] = "ok"] /\ watched' = watched \cup {data[r]}
    <3> SUFFICES ASSUME NEW k \in Key, NEW tx \in Tx, <<k, tx>> \in sent,
                        <<"unheard", k>> \notin excuse, tx \notin watched, tx # data[r]
                 PROVE  Answerable(k, tx)'
      BY <1>6, <2>2 DEF SentInv, RegisterTxSubscription
    <3>1. PICK q \in Request : /\ name[q] = k /\ data[q] = tx
                               /\ pc[q] \in {"put", "latest", "register", "unwatched"}
      BY DEF SentInv, Answerable
    <3> QED
      BY <1>1, <1>6, <2>2, <3>1 DEF Answerable, RegisterTxSubscription
  <2> QED
    BY <1>6, <2>1, <2>2 DEF RegisterTxSubscription
<1>7. CASE SendSignedTransaction(r)
  <2>1. name' = name /\ data' = data /\ watched' = watched /\ pc[r] = "broadcast"
    BY <1>7 DEF SendSignedTransaction
  <2>2. CASE sent' = sent
    BY <1>1, <1>7, <2>1, <2>2, SentFrame DEF SendSignedTransaction
  <2>3. CASE sent' # sent
    <3>1. SUFFICES ASSUME NEW k \in Key, NEW tx \in Tx, <<k, tx>> \in sent',
                          <<"unheard", k>> \notin excuse', tx \notin watched
                   PROVE  Answerable(k, tx)'
      BY <2>1 DEF SentInv
    <3>2. <<"unheard", k>> \notin excuse
      BY <1>7, <3>1 DEF SendSignedTransaction
    <3>3. CASE <<k, tx>> \in sent
      <4>1. PICK q \in Request : /\ name[q] = k /\ data[q] = tx
                                 /\ pc[q] \in {"put", "latest", "register", "unwatched"}
        BY <3>1, <3>2, <3>3 DEF SentInv, Answerable
      <4>2. q # r
        BY <2>1, <4>1
      <4>3. pc'[q] = pc[q]
        BY <1>1, <1>7, <4>2 DEF SendSignedTransaction
      <4> QED
        BY <2>1, <4>1, <4>3 DEF Answerable
    <3>4. CASE <<k, tx>> = <<name[r], data[r]>>
      <4>1. name[r] = k /\ data[r] = tx
        BY <3>4
      <4>2. <<"unheard", name[r]>> \notin excuse'
        BY <3>1, <4>1
      <4>3. pc' = [pc EXCEPT ![r] = IF kind[r] = "faucet" THEN "put" ELSE "latest"]
        BY <1>7, <2>3, <4>2 DEF SendSignedTransaction
      <4> QED
        BY <1>1, <2>1, <4>1, <4>3 DEF Answerable
    <3>5. sent' = sent \cup {<<name[r], data[r]>>}
      BY <1>7, <2>3 DEF SendSignedTransaction
    <3> QED
      BY <3>1, <3>3, <3>4, <3>5
  <2> QED
    BY <2>2, <2>3
<1> QED
  BY <1>2, <1>3, <1>4, <1>5, <1>6, <1>7 DEF Advance

LEMMA SentNext ==
    ASSUME GateType, SentInv, [Next]_vars PROVE SentInv'
<1>1. ASSUME NEW r \in Request, Begin(r) PROVE SentInv'
  <2>1. PICK k \in Kind, n \in Name, d \in {None} \cup Address \cup Tx \cup Token,
             point \in {"broadcast", "key", "save", "lookup", "remove"} :
          Arrive(r, k, n, d, point)
    BY <1>1, BeginFacts
  <2>2. /\ pc \in [Request -> Point] /\ name \in [Request -> Name]
        /\ data \in [Request -> {None} \cup Address \cup Tx \cup Token]
    BY DEF GateType, TypeOK
  <2> QED
    BY <2>1, <2>2, SentFrame DEF Arrive, Goto, Keep, Excuse
<1>2. ASSUME NEW r \in Request, Advance(r) PROVE SentInv'
  BY <1>2, SentAdvance
<1>3. CASE Restart
  <2>1. SUFFICES ASSUME NEW k \in Key, NEW tx \in Tx, <<k, tx>> \in sent,
                        <<"unheard", k>> \notin excuse', tx \notin watched
                 PROVE  Answerable(k, tx)'
    BY <1>3 DEF SentInv, Restart
  <2>2. <<"unheard", k>> \notin excuse
    BY <1>3, <2>1, ConstantAssumption DEF Restart
  <2>3. PICK r \in Request : /\ name[r] = k /\ data[r] = tx
                             /\ pc[r] \in {"put", "latest", "register", "unwatched"}
    BY <2>1, <2>2 DEF SentInv, Answerable
  <2>4. ~Running(r)
    BY <1>3, <2>1, <2>3 DEF Restart
  <2>5. pc'[r] = "unwatched"
    BY <1>3, <2>3, <2>4 DEF Restart, Running, Answer
  <2> QED
    BY <1>3, <2>3, <2>5 DEF Restart, Answerable
<1>4. CASE BlockhashAdvance \/ UNCHANGED vars
  BY <1>4 DEF BlockhashAdvance, vars, reqVars, SentInv, Answerable
<1>5. ASSUME NEW k \in Key, Expire(k) PROVE SentInv'
  BY <1>5 DEF Expire, Excuse, reqVars, SentInv, Answerable
<1>6. ASSUME NEW r \in Request, Leave(r) PROVE SentInv'
  BY <1>6 DEF Leave, SentInv, Answerable
<1> QED
  BY <1>1, <1>2, <1>3, <1>4, <1>5, <1>6, NextCases DEF Environment

(* What was sent is given to the subscription service, or the client knows *)
(* that it was not, or the client left before the latest block was known   *)
(* and nobody does: in every order of any number of requests and of        *)
(* departures (chain_controller.go:55-98, 425-437).                        *)
THEOREM SentAccounted == Spec => []SentIsAccounted
<1>1. Init => SentInv
  BY DEF Init, SentInv
<1>2. GateType /\ SentInv /\ [Next]_vars => SentInv'
  BY SentNext
<1>3. Spec => []SentInv
  BY <1>1, <1>2, GateTypeInit, GateTypeNext, PTL DEF Spec
<1> QED
  BY <1>3, SentIsEnough, PTL

-----------------------------------------------------------------------------
(* One name, one request.                                                  *)

Excused(n) == \E x \in excuse : x[2] = n

(* On a name that is not excused at most one request runs.                 *)
Alone ==
    \A q, r \in Request :
        Running(q) /\ Running(r) /\ name[q] = name[r] /\ ~Excused(name[r]) => q = r

(* The tokens of a code agree, or the one request on it is about to copy   *)
(* what the table has.                                                     *)
TokenInv ==
    \A c \in Code : ~Excused(c) =>
        \/ tokens[c] = table[c]
        \/ \E r \in Request : name[r] = c /\ pc[r] \in {"cache", "fill", "evict"}

CopyInv ==
    \A r \in Request : pc[r] \in {"cache", "fill", "evict"} /\ ~Excused(name[r]) =>
        data[r] = table[name[r]]

(* A transfer made for a key is kept for it, or about to be; who is about  *)
(* to make one has found none.                                             *)
KeptInv ==
    \A k \in Key : ~Excused(k) /\ Paid(k) # {} =>
        \/ items[k] # None
        \/ \E r \in Request : name[r] = k /\ pc[r] = "put"

FreshInv ==
    \A k \in Key : \A r \in Request :
        ~Excused(k) /\ name[r] = k /\ kind[r] = "faucet"
           /\ pc[r] \in {"blockhash", "broadcast"} =>
        items[k] = None /\ Paid(k) = {}

OneTransfer ==
    \A k \in Key : ~Excused(k) => \A t, u \in Paid(k) : t = u

NameInv == Alone /\ TokenInv /\ CopyInv /\ KeptInv /\ FreshInv /\ OneTransfer

LEMMA NameIsEnough ==
    ASSUME GateType, NameInv PROVE TokensAgree /\ KeyPaysOnce
<1>1. TokensAgree
  BY DEF NameInv, TokenInv, TokensAgree, Excused, Running, Answer
<1>2. ASSUME NEW k \in Key, \A x \in excuse : x[2] # k
      PROVE  Cardinality(Paid(k)) <= 1
  <2>1. ~Excused(k)
    BY <1>2 DEF Excused
  <2>2. \A t, u \in Paid(k) : t = u
    BY <2>1 DEF NameInv, OneTransfer
  <2>3. CASE Paid(k) = {}
    BY <2>3, FS_EmptySet
  <2>4. ASSUME NEW t \in Paid(k) PROVE Cardinality(Paid(k)) <= 1
    <3>1. \A u \in Paid(k) : u = t
      BY <2>2, <2>4
    <3>2. Paid(k) = {t}
      BY <2>4, <3>1
    <3>3. Cardinality({t}) = 1
      BY FS_Singleton
    <3> QED
      BY <3>2, <3>3
  <2> QED
    BY <2>3, <2>4
<1> QED
  BY <1>1, <1>2 DEF KeyPaysOnce

(* A request is on a name of its own when nothing excuses it.              *)
LEMMA OthersElsewhere ==
    ASSUME Alone, NEW r \in Request, Running(r), ~Excused(name[r]),
           NEW q \in Request, q # r, name[q] = name[r]
    PROVE  ~Running(q)
  BY DEF Alone

(* What an excuse covers stays covered while requests run.                 *)
LEMMA ExcuseGrows ==
    ASSUME excuse \subseteq excuse', NEW n, ~Excused(n)' PROVE ~Excused(n)
  BY DEF Excused

(* What every step of a running request does, whatever it does besides.    *)
LEMMA AdvanceFacts ==
    ASSUME GateType, NEW r \in Request, Advance(r)
    PROVE  /\ Running(r) /\ name' = name /\ kind' = kind /\ excuse \subseteq excuse'
           /\ \A q \in Request \ {r} : pc'[q] = pc[q] /\ data'[q] = data[q]
<1> USE DEF Running, Answer, Goto, Keep, Excuse
<1>1. pc \in [Request -> Point] /\ data \in [Request -> {None} \cup Address \cup Tx \cup Token]
  BY DEF GateType, TypeOK
<1>2. CASE GetIdempotent(r) \/ BuildTransfer(r) \/ LookupToken(r)
  BY <1>1, <1>2 DEF GetIdempotent, BuildTransfer, LookupToken
<1>3. CASE ReadToken(r) \/ CacheToken(r)
  BY <1>1, <1>3 DEF ReadToken, CacheToken
<1>4. CASE SaveToken(r) \/ RemoveToken(r)
  BY <1>1, <1>4 DEF SaveToken, RemoveToken, Statement
<1>5. CASE PutIdempotent(r) \/ GetLatestBlock(r) \/ RegisterTxSubscription(r)
  BY <1>1, <1>5 DEF PutIdempotent, GetLatestBlock, RegisterTxSubscription
<1>6. CASE SendSignedTransaction(r)
  BY <1>1, <1>6 DEF SendSignedTransaction
<1> QED
  BY <1>2, <1>3, <1>4, <1>5, <1>6 DEF Advance

LEMMA AloneBegin ==
    ASSUME GateType, Alone, NEW r \in Request, Begin(r) PROVE Alone'
<1>1. PICK k \in Kind, n \in Name, d \in {None} \cup Address \cup Tx \cup Token,
           point \in {"broadcast", "key", "save", "lookup", "remove"} :
        Arrive(r, k, n, d, point)
  BY BeginFacts
<1>2. \A q \in Request \ {r} : name'[q] = name[q] /\ (Running(q)' <=> Running(q))
  BY <1>1 DEF Arrive, Goto, Running, GateType, TypeOK
<1>3. name'[r] = n /\ excuse \subseteq excuse'
  BY <1>1 DEF Arrive, Excuse, GateType, TypeOK
<1>4. ASSUME NEW q \in Request, q # r, Running(q)', name'[q] = n PROVE Excused(n)'
  <2>1. Running(q) /\ name[q] = n
    BY <1>2, <1>4
  <2>2. <<"raced", n>> \in excuse'
    BY <1>1, <2>1 DEF Arrive, Excuse
  <2> QED
    BY <2>2 DEF Excused
<1>5. \A m : ~Excused(m)' => ~Excused(m)
  BY <1>3, ExcuseGrows
<1> QED
  BY <1>2, <1>3, <1>4, <1>5 DEF Alone

LEMMA AloneAdvance ==
    ASSUME GateType, Alone, NEW r \in Request, Advance(r) PROVE Alone'
<1>1. \A q \in Request : name'[q] = name[q] /\ (Running(q)' => Running(q))
  BY AdvanceFacts DEF Running
<1>2. \A m : ~Excused(m)' => ~Excused(m)
  BY AdvanceFacts, ExcuseGrows
<1> QED
  BY <1>1, <1>2 DEF Alone

-----------------------------------------------------------------------------
(* The tokens.                                                             *)

Copying == {"cache", "fill", "evict"}

(* A step that leaves both maps alone, and neither begins nor ends a copy. *)
LEMMA TokenFrame ==
    ASSUME TokenInv, CopyInv, tokens' = tokens, table' = table,
           excuse \subseteq excuse',
           \A q \in Request :
               \/ pc[q] \notin Copying /\ pc'[q] \notin Copying
               \/ pc'[q] = pc[q] /\ name'[q] = name[q] /\ data'[q] = data[q]
    PROVE  TokenInv' /\ CopyInv'
<1>1. \A m : ~Excused(m)' => ~Excused(m)
  BY ExcuseGrows
<1>2. TokenInv'
  BY <1>1 DEF TokenInv, Copying
<1>3. CopyInv'
  BY <1>1 DEF CopyInv, Copying
<1> QED
  BY <1>2, <1>3

LEMMA TokenAdvance ==
    ASSUME GateType, Alone, TokenInv, CopyInv, NEW r \in Request, Advance(r)
    PROVE  TokenInv' /\ CopyInv'
<1> DEFINE c == name[r]
<1>1. /\ pc \in [Request -> Point] /\ name \in [Request -> Name]
      /\ data \in [Request -> {None} \cup Address \cup Tx \cup Token]
      /\ tokens \in [Code -> {None} \cup Token] /\ table \in [Code -> {None} \cup Token]
  BY DEF GateType, TypeOK
<1>2. /\ Running(r) /\ name' = name /\ excuse \subseteq excuse'
      /\ \A q \in Request \ {r} : pc'[q] = pc[q] /\ data'[q] = data[q]
  BY AdvanceFacts
<1>3. \A m : ~Excused(m)' => ~Excused(m)
  BY <1>2, ExcuseGrows
<1>4. \A q \in Request \ {r} : name[q] = c /\ ~Excused(c) => ~Running(q)
  BY <1>2 DEF Alone
<1>5. \A q \in Request : pc[q] \in Copying => Running(q)
  BY DEF Copying, Running, Answer
<1>6. CASE GetIdempotent(r) \/ BuildTransfer(r) \/ LookupToken(r) \/ PutIdempotent(r)
           \/ GetLatestBlock(r) \/ RegisterTxSubscription(r)
  BY <1>1, <1>2, <1>6, TokenFrame
     DEF GetIdempotent, BuildTransfer, LookupToken, PutIdempotent, GetLatestBlock,
         RegisterTxSubscription, Goto, Copying
<1>7. CASE SendSignedTransaction(r)
  BY <1>1, <1>2, <1>7, TokenFrame DEF SendSignedTransaction, Goto, Copying
<1>8. CASE ReadToken(r)
  <2>1. c \in Code
    BY <1>8 DEF ReadToken, GateType, Holds
  <2>2. CASE pc'[r] = "err"
    BY <1>1, <1>2, <1>8, <2>2, TokenFrame DEF ReadToken, Copying
  <2>3. CASE pc'[r] = "fill"
    <3>1. data'[r] = table[c] /\ tokens' = tokens /\ table' = table /\ pc[r] = "read"
      BY <1>1, <1>8, <2>3 DEF ReadToken, Goto, Keep
    <3>2. TokenInv'
      BY <1>2, <1>3, <2>3, <3>1 DEF TokenInv
    <3>3. CopyInv'
      BY <1>2, <1>3, <2>3, <3>1 DEF CopyInv
    <3> QED
      BY <3>2, <3>3
  <2> QED
    BY <1>1, <1>8, <2>2, <2>3 DEF ReadToken, Goto
<1>9. CASE CacheToken(r)
  <2>1. c \in Code /\ pc[r] \in Copying /\ pc'[r] = "ok"
    BY <1>1, <1>9 DEF CacheToken, Goto, GateType, Holds, Copying
  <2>2. tokens' = [tokens EXCEPT ![c] = data[r]] /\ table' = table /\ data' = data
    BY <1>9 DEF CacheToken
  <2>3. ~Excused(c) => data[r] = table[c]
    BY <2>1 DEF CopyInv, Copying
  <2>4. TokenInv'
    <3> SUFFICES ASSUME NEW b \in Code, ~Excused(b)', tokens'[b] # table'[b]
                 PROVE  \E q \in Request : name'[q] = b /\ pc'[q] \in Copying
      BY DEF TokenInv, Copying
    <3>1. b # c
      BY <1>1, <1>3, <2>1, <2>2, <2>3
    <3>2. PICK q \in Request : name[q] = b /\ pc[q] \in Copying
      BY <1>1, <1>3, <2>1, <2>2, <3>1 DEF TokenInv, Copying
    <3> QED
      BY <1>2, <3>1, <3>2
  <2>5. CopyInv'
    BY <1>2, <1>3, <2>1, <2>2 DEF CopyInv, Copying
  <2> QED
    BY <2>4, <2>5
<1>10. CASE SaveToken(r) \/ RemoveToken(r)
  <2>1. /\ c \in Code /\ pc[r] \notin Copying /\ tokens' = tokens /\ data' = data
        /\ pc[r] = "remove" => data[r] = None
    BY <1>10 DEF SaveToken, RemoveToken, Statement, GateType, Holds, Copying
  <2>2. CASE table' = table /\ pc'[r] = "err"
    BY <1>2, <2>1, <2>2, TokenFrame DEF Copying
  <2>3. CASE /\ pc'[r] \in Copying \/ Excused(c)'
             /\ table' = [table EXCEPT ![c] = data[r]]
    <3>1. TokenInv'
      <4> SUFFICES ASSUME NEW b \in Code, ~Excused(b)', tokens'[b] # table'[b]
                   PROVE  \E q \in Request : name'[q] = b /\ pc'[q] \in Copying
        BY DEF TokenInv, Copying
      <4>1. CASE b = c
        BY <1>2, <2>3, <4>1
      <4>2. CASE b # c
        <5>1. PICK q \in Request : name[q] = b /\ pc[q] \in Copying
          BY <1>1, <1>3, <2>1, <2>3, <4>2 DEF TokenInv, Copying
        <5> QED
          BY <1>2, <4>2, <5>1
      <4> QED
        BY <4>1, <4>2
    <3>2. CopyInv'
      <4> SUFFICES ASSUME NEW q \in Request, pc'[q] \in Copying, ~Excused(name[q])'
                   PROVE  data[q] = table'[name[q]]
        BY <1>2, <2>1 DEF CopyInv, Copying
      <4>1. CASE q = r
        BY <1>1, <2>1, <2>3, <4>1
      <4>2. CASE q # r
        <5>1. pc[q] \in Copying /\ ~Excused(name[q])
          BY <1>2, <1>3, <4>2
        <5>2. data[q] = table[name[q]]
          BY <5>1 DEF CopyInv, Copying
        <5>3. name[q] # c
          BY <1>4, <1>5, <4>2, <5>1
        <5> QED
          BY <1>1, <2>3, <5>2, <5>3
      <4> QED
        BY <4>1, <4>2
    <3> QED
      BY <3>1, <3>2
  <2>4. CASE Statement(r, data[r], "cache") \/ Statement(r, data[r], "evict")
    <3>1. CASE excuse' = excuse \cup {<<"unheard", c>>}
      <4>1. <<"unheard", c>> \in excuse'
        BY <3>1
      <4>2. Excused(c)'
        BY <1>2, <4>1 DEF Excused
      <4> QED
        BY <2>2, <2>3, <2>4, <4>2, <1>1 DEF Statement, Goto
    <3>2. CASE excuse' = excuse
      <4>1. pc'[r] \in {"cache", "evict", "err"}
        BY <1>1, <2>4 DEF Statement, Goto
      <4>2. CASE pc'[r] = "err" /\ table' = table
        BY <2>2, <4>2
      <4>3. CASE pc'[r] \in Copying /\ table' = [table EXCEPT ![c] = data[r]]
        BY <2>3, <4>3
      <4> QED
        BY <1>1, <2>4, <3>2, <3>1, <4>2, <4>3 DEF Statement, Goto, Excuse, Copying
    <3> QED
      BY <2>4, <3>1, <3>2 DEF Statement, Excuse
  <2> QED
    BY <1>10, <2>1, <2>4 DEF SaveToken, RemoveToken
<1> QED
  BY <1>6, <1>7, <1>8, <1>9, <1>10 DEF Advance

-----------------------------------------------------------------------------
(* The faucet's keys.                                                      *)

KeyInv == KeptInv /\ FreshInv /\ OneTransfer

Making == {"blockhash", "broadcast"}

(* A step that pays nobody and leaves the entries alone, by a request that *)
(* is about neither before nor after it.                                   *)
LEMMA KeyFrame ==
    ASSUME KeyInv, \A k \in Key : Paid(k)' = Paid(k), items' = items,
           excuse \subseteq excuse',
           \A q \in Request :
               \/ pc[q] # "put" /\ pc'[q] \notin {"put"} \cup Making
               \/ pc'[q] = pc[q] /\ name'[q] = name[q] /\ kind'[q] = kind[q]
               \/ pc'[q] \in Making /\ kind'[q] # "faucet" /\ pc[q] # "put",
           \A q \in Request : pc[q] \in Making \/ pc'[q] \in Making => name[q] \in Key
    PROVE  KeyInv'
<1>1. \A m : ~Excused(m)' => ~Excused(m)
  BY ExcuseGrows
<1>2. KeptInv'
  BY <1>1 DEF KeyInv, KeptInv
<1>3. FreshInv'
  BY <1>1 DEF KeyInv, FreshInv, Making
<1>4. OneTransfer'
  BY <1>1 DEF KeyInv, OneTransfer
<1> QED
  BY <1>2, <1>3, <1>4 DEF KeyInv

(* Only accepted transfers count.                                          *)
LEMMA PaidSame ==
    ASSUME sent' = sent PROVE \A k \in Key : Paid(k)' = Paid(k)
  BY DEF Paid

LEMMA KeyAdvance ==
    ASSUME GateType, Alone, KeyInv, NEW r \in Request, Advance(r) PROVE KeyInv'
<1>0. PICK k \in Name : k = name[r]
  BY DEF GateType, TypeOK
<1>1. /\ pc \in [Request -> Point] /\ name \in [Request -> Name]
      /\ data \in [Request -> {None} \cup Address \cup Tx \cup Token]
      /\ items \in [Key -> {None} \cup Tx] /\ sent \subseteq Key \X Tx
  BY DEF GateType, TypeOK
<1>2. /\ Running(r) /\ name' = name /\ kind' = kind /\ excuse \subseteq excuse'
      /\ \A q \in Request \ {r} : pc'[q] = pc[q] /\ data'[q] = data[q]
  BY AdvanceFacts
<1>3. \A m : ~Excused(m)' => ~Excused(m)
  BY <1>2, ExcuseGrows
<1>4. \A q \in Request \ {r} : name[q] = k /\ ~Excused(k) => ~Running(q)
  BY <1>0, <1>2 DEF Alone
<1>5. \A q \in Request : pc[q] \in {"put"} \cup Making => Running(q) /\ name[q] \in Key
  BY DEF Making, Running, Answer, GateType, Holds
<1>6. ASSUME sent' = sent, items' = items, pc[r] # "put", pc'[r] \notin {"put"} \cup Making
      PROVE  KeyInv'
  BY <1>2, <1>5, <1>6, KeyFrame, PaidSame
<1>7. CASE ReadToken(r) \/ CacheToken(r) \/ LookupToken(r)
  BY <1>1, <1>6, <1>7 DEF ReadToken, CacheToken, LookupToken, Goto, Making
<1>8. CASE SaveToken(r) \/ RemoveToken(r)
  BY <1>1, <1>6, <1>8 DEF SaveToken, RemoveToken, Statement, Goto, Making
<1>9. CASE GetLatestBlock(r) \/ RegisterTxSubscription(r)
  BY <1>1, <1>6, <1>9 DEF GetLatestBlock, RegisterTxSubscription, Goto, Making
<1>10. CASE GetIdempotent(r)
  <2>1. /\ k \in Key /\ pc[r] = "key" /\ items' = items /\ sent' = sent
        /\ excuse' = excuse
    BY <1>0, <1>10 DEF GetIdempotent, GateType, Holds
  <2>2. CASE items[k] # None
    BY <1>0, <1>1, <1>6, <1>10, <2>1, <2>2 DEF GetIdempotent, Goto, Making
  <2>3. CASE items[k] = None
    <3>1. pc' = [pc EXCEPT ![r] = "blockhash"]
      BY <1>0, <1>10, <2>3 DEF GetIdempotent, Goto
    <3>2. \A j \in Key : Paid(j)' = Paid(j)
      BY <2>1, PaidSame
    <3>3. ~Excused(k) => Paid(k) = {}
      <4>1. ~Excused(k) => \A q \in Request : name[q] = k => pc[q] # "put"
        BY <1>4, <1>5, <2>1
      <4> QED
        BY <2>1, <2>3, <4>1 DEF KeyInv, KeptInv
    <3>4. KeptInv'
      BY <1>1, <1>2, <1>3, <2>1, <3>1, <3>2 DEF KeyInv, KeptInv
    <3>5. FreshInv'
      <4> SUFFICES ASSUME NEW j \in Key, NEW q \in Request, ~Excused(j), name[q] = j,
                          kind[q] = "faucet",
                          pc'[q] \in Making
                   PROVE  items[j] = None /\ Paid(j)' = {}
        BY <1>2, <1>3, <2>1 DEF FreshInv, Making
      <4>1. CASE q = r
        BY <1>0, <2>1, <2>3, <3>2, <3>3, <4>1
      <4>2. CASE q # r
        BY <1>2, <3>2, <4>2 DEF KeyInv, FreshInv, Making
      <4> QED
        BY <4>1, <4>2
    <3>6. OneTransfer'
      BY <1>3, <3>2 DEF KeyInv, OneTransfer
    <3> QED
      BY <3>4, <3>5, <3>6 DEF KeyInv
  <2> QED
    BY <2>2, <2>3
<1>11. CASE BuildTransfer(r)
  <2>1. /\ k \in Key /\ pc[r] = "blockhash" /\ items' = items /\ sent' = sent
        /\ excuse' = excuse
    BY <1>0, <1>11 DEF BuildTransfer, GateType, Holds
  <2>2. \A j \in Key : Paid(j)' = Paid(j)
    BY <2>1, PaidSame
  <2>3. pc' \in {[pc EXCEPT ![r] = "broadcast"], [pc EXCEPT ![r] = "err"]}
    BY <1>11 DEF BuildTransfer, Goto
  <2>4. KeptInv'
    BY <1>1, <1>2, <1>3, <2>1, <2>2, <2>3 DEF KeyInv, KeptInv
  <2>5. FreshInv'
    <3> SUFFICES ASSUME NEW j \in Key, NEW q \in Request, ~Excused(j), name[q] = j,
                          kind[q] = "faucet",
                        pc'[q] \in Making
                 PROVE  items[j] = None /\ Paid(j)' = {}
      BY <1>2, <1>3, <2>1 DEF FreshInv, Making
    <3>1. pc[q] \in Making
      BY <1>1, <2>1, <2>3 DEF Making
    <3> QED
      BY <1>5, <2>2, <3>1 DEF KeyInv, FreshInv, Making
  <2>6. OneTransfer'
    BY <1>3, <2>2 DEF KeyInv, OneTransfer
  <2> QED
    BY <2>4, <2>5, <2>6 DEF KeyInv
<1>12. CASE PutIdempotent(r)
  <2>1. /\ k \in Key /\ data[r] \in Tx /\ pc[r] = "put"
        /\ items' = [items EXCEPT ![k] = data[r]] /\ sent' = sent /\ excuse' = excuse
        /\ pc' = [pc EXCEPT ![r] = "latest"]
    BY <1>0, <1>12 DEF PutIdempotent, GateType, Holds, Goto
  <2>2. \A j \in Key : Paid(j)' = Paid(j)
    BY <2>1, PaidSame
  <2>3. KeptInv'
    <3> SUFFICES ASSUME NEW j \in Key, ~Excused(j), Paid(j) # {}, j # k
                 PROVE  \/ items'[j] # None
                        \/ \E q \in Request : name'[q] = j /\ pc'[q] = "put"
      <4>1. items'[k] # None
        BY <1>1, <2>1, ConstantAssumption
      <4> QED
        BY <1>3, <2>2, <4>1 DEF KeptInv
    <3>1. items[j] # None \/ \E q \in Request : name[q] = j /\ pc[q] = "put"
      BY DEF KeyInv, KeptInv
    <3>2. items'[j] = items[j]
      BY <1>1, <2>1
    <3> QED
      BY <1>0, <1>1, <1>2, <2>1, <3>1, <3>2
  <2>4. FreshInv'
    <3> SUFFICES ASSUME NEW j \in Key, NEW q \in Request, ~Excused(j), name[q] = j,
                          kind[q] = "faucet",
                        pc'[q] \in Making
                 PROVE  items'[j] = None /\ Paid(j)' = {}
      BY <1>2, <1>3 DEF FreshInv, Making
    <3>1. q # r /\ pc[q] \in Making
      BY <1>1, <2>1 DEF Making
    <3>2. j # k
      BY <1>4, <1>5, <3>1
    <3> QED
      BY <1>1, <2>1, <2>2, <3>1, <3>2 DEF KeyInv, FreshInv, Making
  <2>5. OneTransfer'
    BY <1>3, <2>2 DEF KeyInv, OneTransfer
  <2> QED
    BY <2>3, <2>4, <2>5 DEF KeyInv
<1>13. CASE SendSignedTransaction(r)
  <2>1. /\ k \in Key /\ data[r] \in Tx /\ pc[r] = "broadcast" /\ items' = items
        /\ kind[r] # "faucet" => data[r][1] \notin Address
    BY <1>0, <1>13 DEF SendSignedTransaction, GateType, Holds
  <2>2. CASE sent' = sent /\ pc'[r] = "err"
    BY <1>6, <2>1, <2>2 DEF Making
  <2>3. CASE sent' = sent \cup {<<k, data[r]>>} /\ kind[r] # "faucet"
    <3>1. \A j \in Key : Paid(j)' = Paid(j)
      BY <2>1, <2>3 DEF Paid
    <3>2. pc'[r] \in {"latest", "err"}
      BY <1>1, <1>13, <2>3 DEF SendSignedTransaction, Goto
    <3> QED
      BY <1>2, <1>5, <2>1, <3>1, <3>2, KeyFrame DEF Making
  <2>4. CASE sent' = sent \cup {<<k, data[r]>>} /\ kind[r] = "faucet"
    <3>1. \A j \in Key \ {k} : Paid(j)' = Paid(j)
      BY <2>4 DEF Paid
    <3>2. Paid(k)' \subseteq Paid(k) \cup {data[r]}
      BY <2>1, <2>4 DEF Paid
    <3>3. ~Excused(k) => Paid(k) = {}
      BY <1>0, <2>1, <2>4 DEF KeyInv, FreshInv
    <3>4. ~Excused(k)' /\ sent' # sent => pc' = [pc EXCEPT ![r] = "put"]
      <4>1. CASE excuse' = excuse \cup {<<"unheard", k>>}
        <5>1. <<"unheard", k>> \in excuse'
          BY <4>1
        <5> QED
          BY <5>1 DEF Excused
      <4>2. CASE excuse' = excuse /\ pc' = [pc EXCEPT ![r] = "put"]
        BY <4>2
      <4>3. CASE sent' = sent
        BY <4>3
      <4> QED
        BY <1>0, <1>13, <2>4, <4>1, <4>2, <4>3 DEF SendSignedTransaction, Goto, Excuse
    <3>5. CASE sent' = sent
      <4>1. pc'[r] \in {"put", "err"}
        BY <1>1, <1>13, <2>4 DEF SendSignedTransaction, Goto
      <4>2. Paid(k)' = Paid(k)
        BY <3>5, <2>1, PaidSame
      <4>3. CASE pc'[r] = "err"
        BY <2>2, <3>5, <4>3
      <4>4. CASE pc'[r] = "put"
        <5>1. KeptInv'
          BY <1>1, <1>2, <1>3, <2>1, <3>1, <4>2, <4>4 DEF KeyInv, KeptInv
        <5>2. FreshInv'
          BY <1>2, <1>3, <1>5, <2>1, <3>1, <4>2, <4>4 DEF KeyInv, FreshInv, Making
        <5>3. OneTransfer'
          BY <1>3, <3>1, <4>2 DEF KeyInv, OneTransfer
        <5> QED
          BY <5>1, <5>2, <5>3 DEF KeyInv
      <4> QED
        BY <4>1, <4>3, <4>4
    <3>6. CASE sent' # sent
      <4>1. KeptInv'
        <5> SUFFICES ASSUME NEW j \in Key, ~Excused(j)', Paid(j)' # {}
                     PROVE  \/ items'[j] # None
                            \/ \E q \in Request : name'[q] = j /\ pc'[q] = "put"
          BY DEF KeptInv
        <5>1. CASE j = k
          BY <1>0, <1>1, <1>2, <3>4, <3>6, <5>1
        <5>2. CASE j # k
          <6>1. items[j] # None \/ \E q \in Request : name[q] = j /\ pc[q] = "put"
            BY <1>3, <3>1, <5>2 DEF KeyInv, KeptInv
          <6> QED
            BY <1>2, <2>1, <5>2, <6>1
        <5> QED
          BY <5>1, <5>2
      <4>2. FreshInv'
        <5> SUFFICES ASSUME NEW j \in Key, NEW q \in Request, ~Excused(j)', name[q] = j,
                          kind[q] = "faucet",
                            pc'[q] \in Making
                     PROVE  items'[j] = None /\ Paid(j)' = {}
          BY <1>2 DEF FreshInv, Making
        <5>1. q # r
          <6>1. SUFFICES ASSUME q = r PROVE FALSE
            OBVIOUS
          <6>2. j = k
            BY <1>0, <6>1
          <6>3. pc' = [pc EXCEPT ![r] = "put"]
            BY <3>4, <3>6, <6>2
          <6> QED
            BY <1>1, <6>1, <6>3 DEF Making
        <5>2. pc[q] \in Making /\ ~Excused(j)
          BY <1>2, <1>3, <5>1
        <5>3. j # k
          BY <1>4, <1>5, <5>1, <5>2
        <5> QED
          BY <2>1, <3>1, <5>2, <5>3 DEF KeyInv, FreshInv, Making
      <4>3. OneTransfer'
        <5> SUFFICES ASSUME NEW j \in Key, ~Excused(j)', NEW t \in Paid(j)', NEW u \in Paid(j)'
                     PROVE  t = u
          BY DEF OneTransfer
        <5>1. CASE j = k
          BY <1>3, <3>2, <3>3, <5>1
        <5>2. CASE j # k
          BY <1>3, <3>1, <5>2 DEF KeyInv, OneTransfer
        <5> QED
          BY <5>1, <5>2
      <4> QED
        BY <4>1, <4>2, <4>3 DEF KeyInv
    <3> QED
      BY <3>5, <3>6
  <2> QED
    BY <1>0, <1>1, <1>13, <2>2, <2>3, <2>4 DEF SendSignedTransaction, Goto
<1> QED
  BY <1>7, <1>8, <1>9, <1>10, <1>11, <1>12, <1>13 DEF Advance

-----------------------------------------------------------------------------
(* All steps, and the theorems.                                            *)

LEMMA NameBegin ==
    ASSUME GateType, NameInv, NEW r \in Request, Begin(r) PROVE NameInv'
<1>1. PICK k \in Kind, n \in Name, d \in {None} \cup Address \cup Tx \cup Token,
           point \in {"broadcast", "key", "save", "lookup", "remove"} :
        /\ Arrive(r, k, n, d, point)
        /\ point = "broadcast" => k = "send" /\ n \in Key /\ d = <<n, 0>>
  BY BeginFacts
<1>2. /\ pc' = [pc EXCEPT ![r] = point] /\ data' = [data EXCEPT ![r] = d]
      /\ kind' = [kind EXCEPT ![r] = k] /\ name' = [name EXCEPT ![r] = n]
      /\ tokens' = tokens /\ table' = table /\ items' = items /\ sent' = sent
      /\ excuse \subseteq excuse' /\ pc[r] = "new"
  BY <1>1 DEF Arrive, Goto, Keep, Excuse
<1>3. /\ pc \in [Request -> Point] /\ name \in [Request -> Name]
      /\ kind \in [Request -> Kind]
      /\ data \in [Request -> {None} \cup Address \cup Tx \cup Token]
  BY DEF GateType, TypeOK
<1>4. Alone'
  BY AloneBegin DEF NameInv
<1>5. TokenInv' /\ CopyInv'
  BY <1>2, <1>3, TokenFrame DEF NameInv, Copying
<1>6. KeyInv'
  <2>1. \A m : ~Excused(m)' => ~Excused(m)
    BY <1>2, ExcuseGrows
  <2>2. \A j \in Key : Paid(j)' = Paid(j)
    BY <1>2, PaidSame
  <2>3. KeptInv'
    <3> SUFFICES ASSUME NEW j \in Key, ~Excused(j)', Paid(j)' # {}
                 PROVE  \/ items'[j] # None
                        \/ \E q \in Request : name'[q] = j /\ pc'[q] = "put"
      BY DEF KeptInv
    <3>1. items[j] # None \/ \E q \in Request : name[q] = j /\ pc[q] = "put"
      BY <2>1, <2>2 DEF NameInv, KeptInv
    <3> QED
      BY <1>2, <1>3, <3>1
  <2>4. FreshInv'
    <3> SUFFICES ASSUME NEW j \in Key, NEW q \in Request, ~Excused(j)', name'[q] = j,
                        kind'[q] = "faucet", pc'[q] \in Making
                 PROVE  items'[j] = None /\ Paid(j)' = {}
      BY DEF FreshInv, Making
    <3>1. q # r
      BY <1>1, <1>2, <1>3 DEF Making
    <3>2. name[q] = j /\ kind[q] = "faucet" /\ pc[q] \in Making
      BY <1>2, <1>3, <3>1
    <3> QED
      BY <1>2, <2>1, <2>2, <3>2 DEF NameInv, FreshInv, Making
  <2>5. OneTransfer'
    BY <2>1, <2>2 DEF NameInv, OneTransfer
  <2> QED
    BY <2>3, <2>4, <2>5 DEF KeyInv
<1> QED
  BY <1>4, <1>5, <1>6 DEF NameInv, KeyInv

LEMMA NameEnvironment ==
    ASSUME GateType, NameInv, Environment
    PROVE  NameInv'
<1>1. CASE BlockhashAdvance
  BY <1>1, SMTT(30) DEF BlockhashAdvance, reqVars, NameInv, Alone, TokenInv, CopyInv, KeptInv,
     FreshInv, OneTransfer, Running, Excused, Paid
<1>2. CASE Restart
  <2>1. \A r \in Request : ~Running(r)' /\ pc'[r] \notin Copying
    BY <1>2 DEF Restart, Running, Copying, Answer
  <2>2. \A k \in Key : Excused(k)'
    <3> SUFFICES ASSUME NEW k \in Key PROVE Excused(k)'
      OBVIOUS
    <3>1. <<"forgotten", k>> \in excuse'
      BY <1>2 DEF Restart
    <3> QED
      BY <3>1 DEF Excused
  <2>3. Alone'
    BY <2>1 DEF Alone
  <2>4. TokenInv' /\ CopyInv'
    BY <1>2, <2>1 DEF TokenInv, CopyInv, Restart, Copying
  <2>5. KeptInv' /\ FreshInv' /\ OneTransfer'
    BY <2>2 DEF KeptInv, FreshInv, OneTransfer
  <2> QED
    BY <2>3, <2>4, <2>5 DEF NameInv
<1>3. ASSUME NEW k \in Key, Expire(k) PROVE NameInv'
  <2>1. /\ pc' = pc /\ kind' = kind /\ name' = name /\ data' = data /\ tokens' = tokens
        /\ table' = table /\ sent' = sent /\ items' = [items EXCEPT ![k] = None]
        /\ excuse \subseteq excuse' /\ <<"forgotten", k>> \in excuse'
    BY <1>3 DEF Expire, Excuse, reqVars
  <2>2. \A m : ~Excused(m)' => ~Excused(m)
    BY <2>1, ExcuseGrows
  <2>3. Excused(k)'
    BY <2>1 DEF Excused
  <2>4. \A j \in Key : Paid(j)' = Paid(j)
    BY <2>1, PaidSame
  <2>5. \A j \in Key \ {k} : items'[j] = items[j]
    BY <2>1 DEF GateType, TypeOK
  <2>6. Alone'
    BY <2>1, <2>2 DEF NameInv, Alone, Running
  <2>7. TokenInv' /\ CopyInv'
    BY <2>1, TokenFrame DEF NameInv
  <2>8. KeptInv'
    BY <2>1, <2>2, <2>3, <2>4, <2>5 DEF NameInv, KeptInv
  <2>9. FreshInv'
    BY <2>1, <2>2, <2>3, <2>4, <2>5 DEF NameInv, FreshInv
  <2>10. OneTransfer'
    BY <2>2, <2>4 DEF NameInv, OneTransfer
  <2> QED
    BY <2>6, <2>7, <2>8, <2>9, <2>10 DEF NameInv
<1>4. ASSUME NEW r \in Request, Leave(r) PROVE NameInv'
  BY <1>4 DEF Leave, NameInv, Alone, TokenInv, CopyInv, KeptInv, FreshInv,
     OneTransfer, Running, Excused, Paid
<1> QED
  BY <1>1, <1>2, <1>3, <1>4 DEF Environment

LEMMA NameInit == ASSUME Init PROVE NameInv
<1>1. \A r \in Request : ~Running(r)
  BY DEF Init, Running
<1>2. \A k \in Key : Paid(k) = {}
  BY DEF Init, Paid
<1> QED
  BY <1>1, <1>2 DEF Init, NameInv, Alone, TokenInv, CopyInv, KeptInv, FreshInv, OneTransfer

LEMMA NameNext == ASSUME GateType, NameInv, [Next]_vars PROVE NameInv'
<1>1. ASSUME NEW r \in Request, Advance(r) PROVE NameInv'
  BY <1>1, AloneAdvance, TokenAdvance, KeyAdvance DEF NameInv, KeyInv
<1>2. CASE UNCHANGED vars
  BY <1>2 DEF vars, reqVars, NameInv, Alone, TokenInv, CopyInv, KeptInv,
     FreshInv, OneTransfer, Running, Excused, Paid
<1> QED
  BY <1>1, <1>2, NextCases, NameBegin, NameEnvironment

LEMMA NameInvariance == Spec => [](GateType /\ NameInv)
  BY GateTypeInit, GateTypeNext, NameInit, NameNext, PTL DEF Spec

(* The map of tokens agrees with its table once no request works on the    *)
(* code, whatever failed on the way (chain_service.go:274-364).            *)
THEOREM TokensMatch == Spec => []TokensAgree
<1>1. GateType /\ NameInv => TokensAgree
  BY NameIsEnough
<1> QED
  BY <1>1, NameInvariance, PTL

(* A faucet key pays once, for any number of requests that repeat it one   *)
(* after the other (chain_service.go:111-156).                             *)
THEOREM FaucetPaysOnce == Spec => []KeyPaysOnce
<1>1. GateType /\ NameInv => KeyPaysOnce
  BY NameIsEnough
<1> QED
  BY <1>1, NameInvariance, PTL
=============================================================================
