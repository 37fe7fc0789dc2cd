---------------------------- MODULE ChainQueries ----------------------------
(***************************************************************************)
(* The JSON-RPC client (pkg/solana/rpc.go) and the read-only queries over  *)
(* it (chain_service.go), as an HTTP handler makes one of them.  The other *)
(* callers share nothing with it but a rotating index over the endpoints.  *)
(* An endpoint is a node with its own, possibly late, view of the ledger:  *)
(* the slots it has.  The transaction that is queried landed in the last.  *)
(***************************************************************************)
EXTENDS Naturals

CONSTANTS
    MaxEndpoints,  \* bound: configured endpoints
    RetryTimes,    \* defaultRetryTimes
    IndexMod,      \* nextIndex is counted modulo this (2^32 in the code)
    MaxSlot,       \* bound: slots of the ledger
    MaxFaults      \* bound: attempts that fail or are answered wrongly

ASSUME ConstantAssumption ==
    /\ MaxEndpoints \in Nat \ {0} /\ IndexMod \in Nat \ {0}
    /\ RetryTimes \in Nat /\ MaxSlot \in Nat /\ MaxFaults \in Nat
    /\ IndexMod >= MaxEndpoints * (RetryTimes + 1)  \* it wraps at most once in a call

(* NewClient's only caller passes 2 (chain_service.go:49), and 2^32 is even. *)
ASSUME RetryAssumption == RetryTimes # 0 /\ IndexMod % 2 = 0

Op == {"tx-query", "signature-status", "latest-block", "address-balance",
       "token-balance", "token-supply"}
Reply  == {"failed", "not found", "null", "value"}
Answer == [status : {200, 400}, found : BOOLEAN, full : BOOLEAN]

VARIABLES
    endpoints,  \* number of endpoints, numbered from 0
    nextIndex,
    view,       \* the last slot each endpoint has
    op, phase,  \* what the handler queries, and where it is
    slot,       \* the result of getSlot, once there is one
    at,         \* the endpoint of this attempt
    attempt,
    must,       \* the context was done when the backoff began
    answer,     \* status, and whether the thing was found and is there
    gone,       \* the context is done
    asked,      \* history: endpoints asked by this call of the client
    heard,      \* history: the replies to it
    alone,      \* history: the index was moved by this call only
    faults

callVars == <<slot, at, attempt, asked, heard, alone>>
vars == <<endpoints, nextIndex, view, op, phase, must, answer, gone, callVars, faults>>

E == 0 .. endpoints - 1
NoSlot == MaxSlot + 1

(* One round over the endpoints, and retryTimes more.                      *)
maxAttempts == endpoints * (RetryTimes + 1)

TypeOK ==
    /\ endpoints \in 1 .. MaxEndpoints /\ nextIndex \in 0 .. IndexMod - 1
    /\ view \in [E -> 0 .. MaxSlot]
    /\ op \in Op /\ phase \in {"idle", "pick", "asked", "backoff", "answered"}
    /\ slot \in 0 .. NoSlot /\ at \in E /\ attempt \in 0 .. maxAttempts
    /\ must \in BOOLEAN /\ answer \in Answer /\ gone \in BOOLEAN
    /\ asked \subseteq E /\ heard \subseteq Reply /\ alone \in BOOLEAN /\ faults \in 0 .. MaxFaults

-----------------------------------------------------------------------------
(* What the queries make of the reply that ends a call.                    *)

fail == [status |-> 400, found |-> FALSE, full |-> FALSE]
ok(found, full) == [status |-> 200, found |-> found, full |-> full]

(* With a mistake: whatever goes wrong, the transaction is not on chain.   *)
GetTransactionReceiptLenient(reply) == ok(reply \in {"null", "value"}, reply = "value")

(* Null leaves the zero TransactionResult, which is still "on chain".      *)
GetTransactionReceipt(reply) ==
    IF reply = "failed" THEN fail ELSE ok(reply # "not found", reply = "value")

(* Only null says that there is no such signature.                         *)
GetSignatureStatus(reply) ==
    IF reply \in {"failed", "not found"} THEN fail ELSE ok(reply = "value", reply = "value")

(* The second half of GetLatestBlock: a block without a time has time 0.   *)
GetBlockTime(reply) ==
    IF reply = "failed" THEN fail ELSE ok(reply = "value", reply = "value")

(* Balances and supplies: what the node has, or an error.                  *)
Amount(reply) == IF reply = "value" THEN ok(TRUE, TRUE) ELSE fail
GetAddressBalance(reply) == Amount(reply)
GetTokenBalance(reply)   == Amount(reply)
GetTokenSupply(reply)    == Amount(reply)

Result(reply) ==
    CASE op = "tx-query"         -> GetTransactionReceipt(reply)
      [] op = "signature-status" -> GetSignatureStatus(reply)
      [] op = "latest-block"     -> IF slot = NoSlot THEN fail ELSE GetBlockTime(reply)
      [] op = "address-balance"  -> GetAddressBalance(reply)
      [] op = "token-balance"    -> GetTokenBalance(reply)
      [] op = "token-supply"     -> GetTokenSupply(reply)

(* GetLatestBlock has its slot, and calls getBlockTime for it.             *)
GetLatestBlock ==
    /\ slot' = view[at] /\ attempt' = 0 /\ asked' = {} /\ heard' = {} /\ alone' = TRUE
    /\ phase' = "pick"
    /\ UNCHANGED <<at, answer>>

(* A call of the client returns.                                           *)
Return(reply) ==
    /\ heard' = heard \cup {reply}
    /\ answer' = Result(reply) /\ phase' = "answered"
    /\ UNCHANGED <<slot, at, attempt, asked, alone>>

-----------------------------------------------------------------------------
(* The handler and the client.                                             *)

(* A token code that is not configured is refused before anything is asked. *)
Request ==
    /\ phase = "idle"
    /\ phase' = "pick" \/ (op \in {"token-balance", "token-supply"} /\ phase' = "answered")
    /\ alone' = TRUE
    /\ UNCHANGED <<endpoints, nextIndex, view, op, must, answer, gone, slot, at, attempt,
                   asked, heard, faults>>

(* With a mistake: the attempt is added after the remainder is taken.      *)
PickOutOfRange(n) == (nextIndex % endpoints) + n

(* With a mistake: the attempt is taken off the index.                     *)
PickBackwards(n) == ((nextIndex + endpoints * n) - n) % endpoints

(* pickEndpoint: the index and the attempt both move on.                   *)
pickEndpoint(n) == ((nextIndex % endpoints) + n) % endpoints

(* The loop of Call: the next attempt.                                     *)
Call ==
    /\ phase = "pick" /\ attempt < maxAttempts
    /\ nextIndex' = (nextIndex + 1) % IndexMod
    /\ at' = pickEndpoint(attempt) /\ asked' = asked \cup {at'}
    /\ phase' = "asked"
    /\ UNCHANGED <<endpoints, view, op, must, answer, gone, slot, attempt, heard, alone,
                   faults>>

(* maxAttempts attempts have failed: lastErr is returned.                  *)
GiveUp ==
    /\ phase = "pick" /\ attempt = maxAttempts
    /\ Return("failed")
    /\ UNCHANGED <<endpoints, nextIndex, view, op, must, gone, faults>>

(* callEndpoint returns: a failure is tried again after a backoff, "not    *)
(* found" and every result end the call.                                   *)
callEndpoint(reply) ==
    /\ phase = "asked"
    /\ IF reply = "failed"
       THEN /\ heard' = heard \cup {reply} /\ phase' = "backoff" /\ must' = gone
            /\ UNCHANGED <<answer, slot, at, attempt, asked, alone>>
       ELSE /\ UNCHANGED must
            /\ IF op = "latest-block" /\ slot = NoSlot /\ reply = "value"
               THEN GetLatestBlock ELSE Return(reply)
    /\ UNCHANGED <<endpoints, nextIndex, view, op, gone>>

(* With a mistake: the client tries again until there is an answer.        *)
BackoffForever ==
    /\ phase = "backoff" /\ phase' = "pick"
    /\ UNCHANGED <<endpoints, nextIndex, view, op, must, gone, answer, callVars, faults>>

(* The select of Call.  When the context ends during the backoff, both of  *)
(* its cases can be ready.                                                 *)
Backoff ==
    /\ phase = "backoff"
    /\ \/ gone /\ Return("failed")
       \/ /\ ~must /\ phase' = "pick" /\ attempt' = attempt + 1
          /\ UNCHANGED <<answer, slot, at, asked, heard, alone>>
    /\ UNCHANGED <<endpoints, nextIndex, view, op, must, gone, faults>>

Client == Request \/ Call \/ GiveUp \/ Backoff

-----------------------------------------------------------------------------
(* The nodes, the other callers, and a client that gives up waiting.       *)

(* Whether the node has what this call asks for.                           *)
Has == /\ op \in {"tx-query", "signature-status"} => view[at] = MaxSlot
       /\ op = "latest-block" /\ slot # NoSlot => view[at] >= slot

(* What a node does not have is null, or an error whose code means so.     *)
NodeAnswers ==
    /\ ~gone
    /\ \E reply \in IF Has THEN {"value"} ELSE {"null", "not found"} : callEndpoint(reply)
    /\ UNCHANGED faults

(* Any other error, a status, a timeout; or an error of a server that uses *)
(* the code -32000 for it.  A request whose context is done is not sent.   *)
AttemptFails ==
    \/ gone /\ callEndpoint("failed") /\ UNCHANGED faults
    \/ /\ ~gone /\ faults < MaxFaults /\ faults' = faults + 1
       /\ callEndpoint("failed") \/ callEndpoint("not found")

(* Another caller picks an endpoint, or the index wraps under this one.    *)
OtherCalls ==
    /\ phase \in {"pick", "asked", "backoff"}
    /\ nextIndex' = (nextIndex + 1) % IndexMod /\ alone' = FALSE
    /\ UNCHANGED <<endpoints, view, op, phase, must, answer, gone, slot, at, attempt, asked,
                   heard, faults>>

Advance ==
    /\ \E e \in E : view[e] < MaxSlot /\ view' = [view EXCEPT ![e] = @ + 1]
    /\ UNCHANGED <<endpoints, nextIndex, op, phase, must, answer, gone, callVars, faults>>

(* The client of the HTTP request goes away, or a deadline passes.         *)
Leave ==
    /\ ~gone /\ phase # "answered" /\ gone' = TRUE
    /\ UNCHANGED <<endpoints, nextIndex, view, op, phase, must, answer, callVars, faults>>

-----------------------------------------------------------------------------
Init ==
    /\ endpoints \in 1 .. MaxEndpoints /\ nextIndex \in 0 .. IndexMod - 1
    /\ view \in [E -> 0 .. MaxSlot]
    /\ op \in Op /\ phase = "idle" /\ slot = NoSlot /\ at = 0 /\ attempt = 0
    /\ must = FALSE /\ answer = fail /\ gone = FALSE
    /\ asked = {} /\ heard = {} /\ alone = TRUE /\ faults = 0

Next == Client \/ NodeAnswers \/ AttemptFails \/ OtherCalls \/ Advance \/ Leave

Spec == Init /\ [][Next]_vars

(* A goroutine runs, and an attempt ends: with an answer or by the timeout *)
(* of the HTTP client.                                                     *)
LiveSpec == Spec /\ WF_vars(Client) /\ WF_vars(NodeAnswers \/ AttemptFails)

-----------------------------------------------------------------------------
(* Properties.                                                             *)

(* A call that ran alone and gave up has asked every endpoint of an odd    *)
(* pool, and those of one parity of an even one: the index moves with the  *)
(* attempt, so that a retry passes over the next endpoint (rpc.go:79-82).  *)
(* It is a fact about the client: the connector configures one endpoint.   *)
AloneAsksTheRounds ==
    phase = "pick" /\ attempt = maxAttempts /\ alone
        => IF endpoints % 2 = 1 THEN asked = E
           ELSE \E parity \in {0, 1} : asked = {e \in E : e % 2 = parity}

(* "Not on chain", "no such signature" and a block without its time are    *)
(* only answered when a node has said so, or the code -32000 has: a        *)
(* failure is not taken for absence (chain_service.go:379, 410, 512).      *)
AbsenceIsSaid ==
    phase = "answered" /\ answer.status = 200 /\ ~answer.full
        => heard \cap {"null", "not found"} # {}

(* Every query is answered, whatever the nodes do.                         *)
EveryQueryIsAnswered == phase = "idle" ~> phase = "answered"
=============================================================================
