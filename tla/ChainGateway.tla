---------------------------- MODULE ChainGateway ----------------------------
(***************************************************************************)
(* The requests that change the connector's own state: sending a signed    *)
(* transaction, the faucet with its idempotency table, and the token       *)
(* registry, a table in MySQL and a map in memory (chain_service.go), with *)
(* the subscription that the controller adds to what was sent.  Every HTTP *)
(* request is a goroutine; none of the operations holds a lock across its  *)
(* steps.  A client may go away before it has its answer, which cancels    *)
(* the context its request's outgoing calls are made with.                 *)
(***************************************************************************)
EXTENDS Integers, FiniteSets

CONSTANTS
    Request,    \* the HTTP requests of a behaviour, a retry being another one
    Key,        \* idempotency keys
    Code,       \* token codes
    Address,    \* addresses the faucet is asked to pay
    Token,      \* what a token code can stand for
    None,       \* no transaction, no token
    MaxHash,    \* bound: the latest blockhash changes this often
    Env,        \* the environment events that can happen
    MaxFaults   \* bound: events in one behaviour, all kinds together

EnvEvents == {"rpcFail",    \* an RPC call fails and had no effect
              "rpcLost",    \* a transaction is accepted, the answer lost
              "storeFail",  \* a statement fails and had no effect
              "storeLost",  \* a statement takes effect, the answer is lost
              "leave",      \* a client goes away before its answer
              "expire",     \* an idempotency entry is older than its TTL
              "restart"}    \* the process stops and starts again

(* A transfer is determined by the payee and the blockhash it is built on. *)
Tx == (Address \cup Key) \X (0 .. MaxHash)

ASSUME ConstantAssumption ==
    /\ Env \subseteq EnvEvents /\ MaxFaults \in Nat /\ MaxHash \in Nat
    /\ None \notin Token \cup Tx /\ Key # {} /\ Key \cap (Code \cup Address) = {}

Kind == {"send", "faucet", "add", "get", "delete"}
Name == Key \cup Code

Answer == {"ok",        \* 200
           "unwatched", \* 500, naming a transaction sent and not subscribed
           "err"}       \* any other error, or none at all
Point == {"new", "key", "blockhash", "broadcast", "put", "latest", "register",
          "save", "cache", "lookup", "read", "fill", "remove", "evict"} \cup Answer

VARIABLES
    pc,         \* where each request is
    kind,       \* the handler it runs
    name,       \* its idempotency key or token code
    data,       \* the address, then the txCode; or the token
    gone,       \* requests whose client has gone away: c.Request.Context()
                \* is done, and the answer reaches nobody
    items,      \* idempotencyStore.items: the txCode kept for a key
    tokens,     \* cfg.Tokens, the map in memory
    table,      \* the table connector_tokens
    hash,       \* the latest blockhash
    sent,       \* <<name, tx>>: transactions the cluster accepted
    watched,    \* transactions given to RegisterTxSubscription
    excuse,     \* <<why, name>>: what the properties do not count
    faults      \* events so far

reqVars == <<pc, kind, name, data, gone>>
vars == <<reqVars, items, tokens, table, hash, sent, watched, excuse, faults>>

TypeOK ==
    /\ pc \in [Request -> Point] /\ kind \in [Request -> Kind]
    /\ name \in [Request -> Name]
    /\ data \in [Request -> {None} \cup Address \cup Tx \cup Token]
    /\ gone \subseteq Request
    /\ items \in [Key -> {None} \cup Tx]
    /\ tokens \in [Code -> {None} \cup Token]
    /\ table \in [Code -> {None} \cup Token]
    /\ hash \in 0 .. MaxHash
    /\ sent \subseteq Key \X Tx /\ watched \subseteq Tx
    /\ excuse \subseteq {"raced", "forgotten", "unheard"} \X Name
    /\ faults \in 0 .. MaxFaults

Fault(e) == e \in Env /\ faults < MaxFaults /\ faults' = faults + 1

Goto(r, point) == pc' = [pc EXCEPT ![r] = point]
Keep(r, d) == data' = [data EXCEPT ![r] = d]
Excuse(why, n) == excuse' = excuse \cup {<<why, n>>}

Running(r) == pc[r] \notin {"new"} \cup Answer

(* A call with the context of the request does not get its answer.         *)
Unanswered(r, e) == (r \in gone /\ UNCHANGED faults) \/ Fault(e)

-----------------------------------------------------------------------------

(* A request arrives.  Two that run together on one name are noted.        *)
Arrive(r, k, n, d, point) ==
    /\ pc[r] = "new"
    /\ Goto(r, point) /\ Keep(r, d)
    /\ kind' = [kind EXCEPT ![r] = k] /\ name' = [name EXCEPT ![r] = n]
    /\ IF \E q \in Request : Running(q) /\ name[q] = n
       THEN Excuse("raced", n) ELSE UNCHANGED excuse
    /\ UNCHANGED <<gone, items, tokens, table, hash, sent, watched, faults>>

TxSend(r) ==
    \E k \in Key : Arrive(r, "send", k, <<k, 0>>, "broadcast")

Faucet(r) ==
    \E k \in Key, a \in Address : Arrive(r, "faucet", k, a, "key")

AddToken(r) ==
    \E c \in Code, t \in Token : Arrive(r, "add", c, t, "save")

GetToken(r) ==
    \E c \in Code : Arrive(r, "get", c, None, "lookup")

DeleteToken(r) ==
    \E c \in Code : Arrive(r, "delete", c, None, "remove")

-----------------------------------------------------------------------------
(* Sending and the faucet.                                                 *)

(* With a mistake: an entry is found only once it has expired.             *)
GetIdempotentExpired(r) ==
    /\ pc[r] = "key"
    /\ Goto(r, "blockhash")
    /\ UNCHANGED <<kind, name, gone, data, items, tokens, table, hash, sent, watched,
                   excuse, faults>>

(* With a mistake: whether the key was found is not looked at.             *)
GetIdempotentUnfound(r) ==
    /\ pc[r] = "key"
    /\ Goto(r, "latest") /\ Keep(r, items[name[r]])
    /\ UNCHANGED <<kind, name, gone, items, tokens, table, hash, sent, watched,
                   excuse, faults>>

(* A key that is known answers with its transaction, whoever it paid.      *)
GetIdempotent(r) ==
    /\ pc[r] = "key"
    /\ IF items[name[r]] # None
       THEN Goto(r, "latest") /\ Keep(r, items[name[r]])
       ELSE Goto(r, "blockhash") /\ UNCHANGED data
    /\ UNCHANGED <<kind, name, gone, items, tokens, table, hash, sent, watched,
                   excuse, faults>>

BuildTransfer(r) ==
    /\ pc[r] = "blockhash"
    /\ \/ /\ r \notin gone /\ Goto(r, "broadcast") /\ Keep(r, <<data[r], hash>>)
          /\ UNCHANGED faults
       \/ Unanswered(r, "rpcFail") /\ Goto(r, "err") /\ UNCHANGED data
    /\ UNCHANGED <<kind, name, gone, items, tokens, table, hash, sent, watched, excuse>>

(* The cluster may refuse a transaction it has already processed.          *)
SendSignedTransaction(r) ==
    /\ pc[r] = "broadcast"
    /\ \/ /\ r \notin gone /\ sent' = sent \cup {<<name[r], data[r]>>}
          /\ Goto(r, IF kind[r] = "faucet" THEN "put" ELSE "latest")
          /\ UNCHANGED <<excuse, faults>>
       \/ /\ Unanswered(r, "rpcLost")
          /\ sent' = sent \cup {<<name[r], data[r]>>}
          /\ Goto(r, "err") /\ Excuse("unheard", name[r])
       \/ /\ (\E k \in Key : <<k, data[r]>> \in sent) /\ Goto(r, "err")
          /\ UNCHANGED <<sent, excuse, faults>>
       \/ Unanswered(r, "rpcFail") /\ Goto(r, "err") /\ UNCHANGED <<sent, excuse>>
    /\ UNCHANGED <<kind, name, gone, data, items, tokens, table, hash, watched>>

PutIdempotent(r) ==
    /\ pc[r] = "put"
    /\ items' = [items EXCEPT ![name[r]] = data[r]]
    /\ Goto(r, "latest")
    /\ UNCHANGED <<kind, name, gone, data, tokens, table, hash, sent, watched, excuse,
                   faults>>

GetLatestBlock(r) ==
    /\ pc[r] = "latest"
    /\ \/ r \notin gone /\ Goto(r, "register") /\ UNCHANGED faults
       \/ Unanswered(r, "rpcFail") /\ Goto(r, "unwatched")
    /\ UNCHANGED <<kind, name, gone, data, items, tokens, table, hash, sent, watched,
                   excuse>>

(* With a mistake: the error of the registration is only logged.           *)
RegisterUnchecked(r) ==
    /\ pc[r] = "register" /\ Goto(r, "ok")
    /\ \/ watched' = watched \cup {data[r]} /\ UNCHANGED faults
       \/ Fault("storeFail") /\ UNCHANGED watched
    /\ UNCHANGED <<kind, name, gone, data, items, tokens, table, hash, sent, excuse>>

(* The registration has a context of its own.                              *)
RegisterTxSubscription(r) ==
    /\ pc[r] = "register"
    /\ \/ Goto(r, "ok") /\ watched' = watched \cup {data[r]} /\ UNCHANGED faults
       \/ Fault("storeFail") /\ Goto(r, "unwatched") /\ UNCHANGED watched
    /\ UNCHANGED <<kind, name, gone, data, items, tokens, table, hash, sent, excuse>>

-----------------------------------------------------------------------------
(* The token registry.                                                     *)

(* A statement on the row of a code, whose failure ends the request.       *)
Statement(r, t, next) ==
    /\ \/ /\ r \notin gone /\ Goto(r, next)
          /\ table' = [table EXCEPT ![name[r]] = t]
          /\ UNCHANGED <<excuse, faults>>
       \/ Unanswered(r, "storeFail") /\ Goto(r, "err") /\ UNCHANGED <<table, excuse>>
       \/ /\ Unanswered(r, "storeLost") /\ Goto(r, "err")
          /\ table' = [table EXCEPT ![name[r]] = t]
          /\ Excuse("unheard", name[r])
    /\ UNCHANGED <<kind, name, gone, data, items, tokens, hash, sent, watched>>

SaveToken(r) == pc[r] = "save" /\ Statement(r, data[r], "cache")

RemoveToken(r) == pc[r] = "remove" /\ Statement(r, None, "evict")

CacheToken(r) ==
    /\ pc[r] \in {"cache", "fill", "evict"}
    /\ tokens' = [tokens EXCEPT ![name[r]] = data[r]]
    /\ Goto(r, "ok")
    /\ UNCHANGED <<kind, name, gone, data, items, table, hash, sent, watched, excuse,
                   faults>>

LookupToken(r) ==
    /\ pc[r] = "lookup"
    /\ Goto(r, IF tokens[name[r]] = None THEN "read" ELSE "ok")
    /\ UNCHANGED <<kind, name, gone, data, items, tokens, table, hash, sent, watched,
                   excuse, faults>>

ReadToken(r) ==
    /\ pc[r] = "read"
    /\ \/ /\ r \notin gone /\ Keep(r, table[name[r]]) /\ UNCHANGED faults
          /\ Goto(r, IF table[name[r]] = None THEN "err" ELSE "fill")
       \/ Unanswered(r, "storeFail") /\ Goto(r, "err") /\ UNCHANGED data
    /\ UNCHANGED <<kind, name, gone, items, tokens, table, hash, sent, watched, excuse>>

-----------------------------------------------------------------------------
(* The environment.                                                        *)

BlockhashAdvance ==
    /\ hash < MaxHash /\ hash' = hash + 1
    /\ UNCHANGED <<reqVars, items, tokens, table, sent, watched, excuse, faults>>

Leave(r) ==
    /\ Running(r) /\ r \notin gone /\ Fault("leave")
    /\ gone' = gone \cup {r}
    /\ UNCHANGED <<pc, kind, name, data, items, tokens, table, hash, sent, watched,
                   excuse>>

Expire(k) ==
    /\ items[k] # None /\ Fault("expire")
    /\ items' = [items EXCEPT ![k] = None] /\ Excuse("forgotten", k)
    /\ UNCHANGED <<reqVars, tokens, table, hash, sent, watched>>

(* With a mistake: the tokens are not loaded again.                        *)
RestartEmpty ==
    /\ Fault("restart")
    /\ pc' = [r \in Request |-> IF Running(r) THEN "err" ELSE pc[r]]
    /\ items' = [k \in Key |-> None] /\ tokens' = [c \in Code |-> None]
    /\ excuse' = {x \in excuse : x[2] \notin Code}
                 \cup ({"forgotten"} \X Key)
                 \cup {<<"unheard", name[r]>> :
                          r \in {q \in Request : Running(q) /\ name[q] \in Key}}
    /\ UNCHANGED <<kind, name, gone, data, table, hash, sent, watched>>

(* Requests die without an answer, the idempotency table is lost and the   *)
(* tokens are loaded: what was amiss with their codes is over.             *)
Restart ==
    /\ Fault("restart")
    /\ pc' = [r \in Request |-> IF Running(r) THEN "err" ELSE pc[r]]
    /\ items' = [k \in Key |-> None] /\ tokens' = table
    /\ excuse' = {x \in excuse : x[2] \notin Code}
                 \cup ({"forgotten"} \X Key)
                 \cup {<<"unheard", name[r]>> :
                          r \in {q \in Request : Running(q) /\ name[q] \in Key}}
    /\ UNCHANGED <<kind, name, gone, data, table, hash, sent, watched>>

-----------------------------------------------------------------------------

Init ==
    /\ pc = [r \in Request |-> "new"] /\ kind = [r \in Request |-> "get"]
    /\ name = [r \in Request |-> CHOOSE n \in Name : TRUE]
    /\ data = [r \in Request |-> None] /\ gone = {}
    /\ items = [k \in Key |-> None]
    /\ table \in [Code -> {None} \cup Token] /\ tokens = table
    /\ hash = 0 /\ sent = {} /\ watched = {} /\ excuse = {} /\ faults = 0

Handle(r) ==
    \/ TxSend(r) \/ Faucet(r) \/ AddToken(r) \/ GetToken(r) \/ DeleteToken(r)
    \/ GetIdempotent(r) \/ BuildTransfer(r) \/ SendSignedTransaction(r)
    \/ PutIdempotent(r) \/ GetLatestBlock(r) \/ RegisterTxSubscription(r)
    \/ SaveToken(r) \/ RemoveToken(r) \/ CacheToken(r) \/ LookupToken(r)
    \/ ReadToken(r)

Next ==
    \/ \E r \in Request : Handle(r) \/ Leave(r)
    \/ BlockhashAdvance \/ Restart \/ \E k \in Key : Expire(k)

Spec == Init /\ [][Next]_vars

-----------------------------------------------------------------------------

Paid(k) == {tx \in Tx : <<k, tx>> \in sent /\ tx[1] \in Address}

(* A faucet key pays once, though it is repeated with another address or   *)
(* blockhash, after errors before and after the transfer and by clients    *)
(* that left: unless requests with the key overlapped, its entry was lost, *)
(* or so was the answer to a send, which a client that leaves then cuts.   *)
KeyPaysOnce ==
    \A k \in Key :
        (\A x \in excuse : x[2] # k) => Cardinality(Paid(k)) <= 1

(* The answer that names a transaction sent and not subscribed: it reaches *)
(* the client that asked, or nobody once that client has gone.             *)
Told(r) == pc[r] = "unwatched" /\ r \notin gone
Deserted(r) == pc[r] = "unwatched" /\ r \in gone

(* A transaction that was sent is not forgotten: it is given to the        *)
(* subscription service, or the client has been told that it was not.  Not *)
(* so if the answer to the send, or the process, was lost, or if the       *)
(* client that sent it is gone: a client that leaves before the latest     *)
(* block is known stops the request there, and the code then neither       *)
(* watches the transaction nor tells anybody (chain_controller.go:425-428).*)
(* One that leaves after that has its transaction watched, unless the      *)
(* registration fails as well.                                             *)
SentIsAccounted ==
    \A k \in Key : \A tx \in Tx :
        <<k, tx>> \in sent /\ <<"unheard", k>> \notin excuse =>
            \/ tx \in watched
            \/ \E r \in Request : /\ name[r] = k /\ data[r] = tx
                                  /\ Running(r) \/ Told(r) \/ Deserted(r)

(* The tokens in memory are those of the table once no request works on    *)
(* the code, if none overlapped and no statement's answer was lost, to a   *)
(* client that left for one: a failed save or delete changes neither.      *)
TokensAgree ==
    \A c \in Code :
        \/ \E r \in Request : Running(r) /\ name[r] = c
        \/ \E x \in excuse : x[2] = c
        \/ tokens[c] = table[c]
=============================================================================
