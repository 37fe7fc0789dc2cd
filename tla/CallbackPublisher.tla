------------------------- MODULE CallbackPublisher -------------------------
(***************************************************************************)
(* The two publishers of callbacks (pkg/callback): RabbitMQ with publisher *)
(* confirms and mandatory delivery on one shared channel under a mutex,    *)
(* and HTTP POST without one.  A process is one call, named by the message *)
(* it publishes; the broker, the client library's reader and the consumer  *)
(* are the environment.                                                    *)
(***************************************************************************)
EXTENDS Integers, Sequences

CONSTANTS
    Message,    \* the calls of PublishTx and PublishRollback
    Env,        \* the environment events that can happen
    MaxFaults   \* bound: events in one behaviour, all kinds together

EnvEvents == {"break",      \* the connection to the broker breaks
              "silence",    \* the broker stops answering, or answers again
              "dial",       \* a new one cannot be set up
              "declare",    \* the exchange cannot be declared
              "nack",       \* the broker refuses a message
              "unbind",     \* the last queue is unbound, or one bound again
              "refuse"}     \* the consumer answers with a status over 399

ASSUME ConstantAssumption == Env \subseteq EnvEvents /\ MaxFaults \in Nat

Point == {"idle", "lock", "connect", "declare", "send", "select", "close",
          "post", "response", "ok", "err"}
Frame == {"return", "ack", "nack"} \X Message

VARIABLES
    transport,  \* NewCallbackPublisher: "rabbitmq" or "http"
    bound,      \* a queue is bound to the exchange
    pc,         \* where each call is
    silent,     \* the broker answers no request, and keeps the connection
    link,       \* p.conn and p.ch: "none", "up", "half" when the channel is
                \* closed, "down" when the connection is
    outgoing,   \* messages on their way on the current connection
    orphans,    \* messages on their way on a connection given up
    incoming,   \* frames the library's reader has not dispatched
    returns,    \* p.returns
    confirms,   \* p.confirms
    replies,    \* HTTP responses on their way
    taken,      \* messages a queue or the consumer has accepted
    dropped,    \* messages the broker returned
    faults      \* events so far

amqpVars == <<link, outgoing, orphans, incoming, returns, confirms>>
fateVars == <<taken, dropped>>
vars == <<transport, bound, silent, pc, amqpVars, replies, fateVars, faults>>

TypeOK ==
    /\ transport \in {"rabbitmq", "http"} /\ bound \in BOOLEAN
    /\ silent \in BOOLEAN
    /\ pc \in [Message -> Point] /\ link \in {"none", "up", "half", "down"}
    /\ outgoing \subseteq Message /\ orphans \subseteq Message
    /\ incoming \in Seq(Frame)
    /\ returns \in Seq(Message) /\ Len(returns) <= 1
    /\ confirms \in Seq(Frame) /\ Len(confirms) <= 1
    /\ replies \subseteq {"accepted", "refused"} \X Message
    /\ taken \subseteq Message /\ dropped \subseteq Message
    /\ faults \in 0 .. MaxFaults

Fault(e) == e \in Env /\ faults < MaxFaults /\ faults' = faults + 1

Goto(m, point) == pc' = [pc EXCEPT ![m] = point]

-----------------------------------------------------------------------------
(* rabbitMQPublisher                                                       *)

(* p.mu is held from the lock to the answer.  Two of these points wait for *)
(* the broker with no timeout: "declare" for the answer to                 *)
(* ExchangeDeclare, "close" for the answers to the Close of the channel    *)
(* and of the connection.                                                  *)
Holding == {"connect", "declare", "send", "select", "close"}

GiveUpLink ==
    /\ link' = "none"
    /\ orphans' = orphans \cup outgoing /\ outgoing' = {}
    /\ incoming' = <<>> /\ returns' = <<>> /\ confirms' = <<>>

Call(m) ==
    /\ pc[m] = "idle"
    /\ Goto(m, IF transport = "rabbitmq" THEN "lock" ELSE "post")
    /\ UNCHANGED <<transport, bound, silent, amqpVars, replies, fateVars, faults>>

Lock(m) ==
    /\ pc[m] = "lock" /\ \A n \in Message : pc[n] \notin Holding
    /\ Goto(m, "connect")
    /\ UNCHANGED <<transport, bound, silent, amqpVars, replies, fateVars, faults>>

(* A live connection is used again.  Otherwise what is left of it is given *)
(* up: only a connection whose channel alone is closed must be asked.      *)
ensureConnected(m) ==
    /\ pc[m] = "connect" /\ Goto(m, "declare")
    /\ IF link = "up" THEN UNCHANGED amqpVars
                      ELSE (link = "half" => ~silent) /\ GiveUpLink
    /\ UNCHANGED <<transport, bound, silent, replies, fateVars, faults>>

(* The connection where there is none yet, and the answer to               *)
(* ExchangeDeclare; an exchange that cannot be declared closes the channel.*)
ExchangeDeclare(m) ==
    /\ pc[m] = "declare"
    /\ \/ link \in {"none", "up"} /\ ~silent /\ Goto(m, "send")
          /\ link' = "up" /\ UNCHANGED <<incoming, outgoing, orphans, faults>>
       \/ link = "none" /\ Fault("dial") /\ Goto(m, "err")
          /\ UNCHANGED <<link, incoming, outgoing, orphans>>
       \/ /\ link = "up" /\ ~silent /\ Fault("declare") /\ Goto(m, "err")
          /\ link' = "half" /\ incoming' = <<>>
          /\ orphans' = orphans \cup outgoing /\ outgoing' = {}
       \/ link = "down" /\ Goto(m, "err")
          /\ UNCHANGED <<link, incoming, outgoing, orphans, faults>>
    /\ UNCHANGED <<transport, bound, silent, returns, confirms, replies, fateVars>>

Send(m) ==
    /\ pc[m] = "send"
    /\ \/ /\ link = "up" /\ Goto(m, "select")
          /\ outgoing' = outgoing \cup {m}
          /\ UNCHANGED <<link, orphans, incoming, returns, confirms>>
       \/ link = "down" /\ Goto(m, "err") /\ GiveUpLink
    /\ UNCHANGED <<transport, bound, silent, replies, fateVars, faults>>

(* The cases of the select, each ready once its channel holds something or *)
(* is closed.  The delivery tag of a confirmation is not compared.         *)
Returned(m) ==
    /\ returns # <<>> \/ link = "down"
    /\ Goto(m, "close") /\ returns' = <<>>
    /\ UNCHANGED confirms

Nacked(m) ==
    /\ confirms # <<>> => confirms[1][1] = "nack"
    /\ confirms = <<>> => link = "down"
    /\ Goto(m, "close") /\ confirms' = <<>>
    /\ UNCHANGED returns

Acked(m) ==
    /\ confirms # <<>> /\ confirms[1][1] = "ack"
    /\ Goto(m, "ok") /\ confirms' = Tail(confirms)
    /\ UNCHANGED returns

TimedOut(m) == Goto(m, "close") /\ UNCHANGED <<returns, confirms>>

(* With a mistake: the wait for a confirmation has no timeout.             *)
SelectForever(m) ==
    /\ pc[m] = "select"
    /\ Returned(m) \/ Nacked(m) \/ Acked(m)
    /\ UNCHANGED <<transport, bound, silent, link, outgoing, orphans, incoming,
                   replies, fateVars, faults>>

(* With a mistake: a wait that times out keeps the connection.             *)
SelectKeepsConnection(m) ==
    /\ pc[m] = "select"
    /\ \/ Returned(m) \/ Nacked(m) \/ Acked(m)
       \/ Goto(m, "err") /\ UNCHANGED <<returns, confirms>>
    /\ UNCHANGED <<transport, bound, silent, link, outgoing, orphans, incoming,
                   replies, fateVars, faults>>

(* The select takes any case that is ready.  The timeout, which runs since *)
(* before the publish, may be one of them at once.                         *)
Select(m) ==
    /\ pc[m] = "select"
    /\ Returned(m) \/ Nacked(m) \/ Acked(m) \/ TimedOut(m)
    /\ UNCHANGED <<transport, bound, silent, link, outgoing, orphans, incoming,
                   replies, fateVars, faults>>

(* The broker answers once it has handled what was sent before, and the    *)
(* answer is read once the frames before it are dispatched.  A connection  *)
(* that is down is given up without asking.                                *)
resetLocked(m) ==
    /\ pc[m] = "close"
    /\ link = "down" \/ (~silent /\ outgoing = {} /\ incoming = <<>>)
    /\ Goto(m, "err") /\ GiveUpLink
    /\ UNCHANGED <<transport, bound, silent, replies, fateVars, faults>>

-----------------------------------------------------------------------------
(* The broker and the library.                                             *)

(* An unroutable message is returned, then confirmed.                      *)
BrokerHandle(m) ==
    /\ m \in outgoing
    /\ outgoing' = outgoing \ {m}
    /\ \/ /\ bound /\ taken' = taken \cup {m}
          /\ incoming' = Append(incoming, <<"ack", m>>)
          /\ UNCHANGED <<dropped, faults>>
       \/ /\ ~bound /\ dropped' = dropped \cup {m}
          /\ incoming' = incoming \o << <<"return", m>>, <<"ack", m>> >>
          /\ UNCHANGED <<taken, faults>>
       \/ /\ Fault("nack")
          /\ incoming' = Append(incoming, <<"nack", m>>)
          /\ UNCHANGED fateVars
    /\ UNCHANGED <<transport, bound, silent, pc, link, orphans, returns, confirms,
                   replies>>

(* What was sent on a connection given up may still arrive.                *)
BrokerLate(m) ==
    /\ transport = "rabbitmq" /\ m \in orphans
    /\ orphans' = orphans \ {m}
    /\ IF bound THEN taken' = taken \cup {m} /\ UNCHANGED dropped
                ELSE dropped' = dropped \cup {m} /\ UNCHANGED taken
    /\ UNCHANGED <<transport, bound, silent, pc, link, outgoing, incoming, returns,
                   confirms, replies, faults>>

(* With a mistake: the channels have no bound.                             *)
DispatchUnbounded ==
    /\ link = "up" /\ incoming # <<>>
    /\ incoming' = Tail(incoming)
    /\ IF incoming[1][1] = "return"
       THEN returns' = Append(returns, incoming[1][2]) /\ UNCHANGED confirms
       ELSE confirms' = Append(confirms, incoming[1]) /\ UNCHANGED returns
    /\ UNCHANGED <<transport, bound, silent, pc, link, outgoing, orphans, replies,
                   fateVars, faults>>

(* The reader waits for room in the channel, which holds one.              *)
Dispatch ==
    /\ link = "up" /\ incoming # <<>>
    /\ incoming' = Tail(incoming)
    /\ \/ /\ incoming[1][1] = "return" /\ returns = <<>>
          /\ returns' = <<incoming[1][2]>> /\ UNCHANGED confirms
       \/ /\ incoming[1][1] # "return" /\ confirms = <<>>
          /\ confirms' = <<incoming[1]>> /\ UNCHANGED returns
    /\ UNCHANGED <<transport, bound, silent, pc, link, outgoing, orphans, replies,
                   fateVars, faults>>

Break ==
    /\ link = "up" /\ Fault("break")
    /\ link' = "down" /\ incoming' = <<>>
    /\ orphans' = orphans \cup outgoing /\ outgoing' = {}
    /\ UNCHANGED <<transport, bound, silent, pc, returns, confirms, replies, fateVars>>

Rebind ==
    /\ Fault("unbind")
    /\ bound' = ~bound
    /\ UNCHANGED <<transport, silent, pc, amqpVars, replies, fateVars>>

Silence ==
    /\ Fault("silence")
    /\ silent' = ~silent
    /\ UNCHANGED <<transport, bound, pc, amqpVars, replies, fateVars>>

-----------------------------------------------------------------------------
(* httpPublisher                                                           *)

post(m) ==
    /\ pc[m] = "post"
    /\ Goto(m, "response")
    /\ orphans' = orphans \cup {m}
    /\ UNCHANGED <<transport, bound, silent, link, outgoing, incoming, returns, confirms,
                   replies, fateVars, faults>>

ConsumerHandle(m) ==
    /\ transport = "http" /\ m \in orphans
    /\ orphans' = orphans \ {m}
    /\ \/ /\ taken' = taken \cup {m}
          /\ replies' = replies \cup {<<"accepted", m>>} /\ UNCHANGED faults
       \/ /\ Fault("refuse")
          /\ replies' = replies \cup {<<"refused", m>>} /\ UNCHANGED taken
    /\ UNCHANGED <<transport, bound, silent, pc, link, outgoing, incoming, returns,
                   confirms, dropped>>

(* A response, or the client's timeout or a broken connection.             *)
Response(m) ==
    /\ pc[m] = "response"
    /\ \/ <<"accepted", m>> \in replies /\ Goto(m, "ok")
       \/ Goto(m, "err")
    /\ UNCHANGED <<transport, bound, silent, amqpVars, replies, fateVars, faults>>

-----------------------------------------------------------------------------

Init ==
    /\ transport \in {"rabbitmq", "http"} /\ bound = TRUE /\ silent = FALSE
    /\ pc = [m \in Message |-> "idle"] /\ link = "none"
    /\ outgoing = {} /\ orphans = {}
    /\ incoming = <<>> /\ returns = <<>> /\ confirms = <<>> /\ replies = {}
    /\ taken = {} /\ dropped = {} /\ faults = 0

publishJSON(m) ==
    \/ Lock(m) \/ ensureConnected(m) \/ ExchangeDeclare(m)
    \/ Send(m) \/ Select(m) \/ resetLocked(m)

Publishing(m) == publishJSON(m) \/ post(m) \/ Response(m)

Network ==
    \/ \E m \in Message : BrokerHandle(m) \/ BrokerLate(m) \/ ConsumerHandle(m)
    \/ Dispatch \/ Break \/ Silence \/ Rebind

Next == Network \/ \E m \in Message : Call(m) \/ Publishing(m)

Spec == Init /\ [][Next]_vars

(* What is behind an answer to Close: the messages sent before it and the  *)
(* frames that came back for them.                                         *)
Behind ==
    /\ ~silent /\ \E m \in Message : pc[m] = "close"
    /\ Dispatch \/ \E m \in Message : BrokerHandle(m)

(* A goroutine that can go on does.  A broker that is not silent answers   *)
(* requests; it owes no confirmation, and the consumer no response.        *)
LiveSpec ==
    Spec /\ WF_vars(Behind) /\ \A m \in Message : WF_vars(Publishing(m))

-----------------------------------------------------------------------------

answer == [m \in Message |-> IF pc[m] \in {"ok", "err"} THEN pc[m] ELSE "none"]

Contract == INSTANCE PublisherContract
              WITH asked <- {m \in Message : pc[m] # "idle"}

(* A call succeeds only for its own message: what is left in the channels  *)
(* by a call that failed, timed out or lost its connection never confirms  *)
(* a later one, though the delivery tag is not compared.  Its message is   *)
(* then in a queue, or the broker had no queue for it and said so.         *)
ImplementsContract == Contract!Spec

(* The library's reader waits to hand over a returned message while p.mu's *)
(* holder waits for an answer the reader has not come to: the return of an *)
(* earlier call, which was answered by its confirmation, fills p.returns.  *)
ReaderStuck ==
    /\ incoming # <<>> /\ incoming[1][1] = "return" /\ returns # <<>>
    /\ \E m \in Message : pc[m] = "close"

(* Every call returns, and with it the mutex, whether or not the broker    *)
(* ever confirms, and whatever breaks or is refused.  The timeout covers   *)
(* the confirmation only (rabbitmq.go:61, 88): a broker that keeps the     *)
(* connection and stays silent holds up the declaration or the reset, and  *)
(* every later call, for good, and so does a reader stuck behind a return  *)
(* nobody took.                                                            *)
EveryCallReturns ==
    \/ <>[]silent \/ <>[]ReaderStuck
    \/ \A m \in Message : pc[m] = "lock" ~> pc[m] \in {"ok", "err"}
=============================================================================
