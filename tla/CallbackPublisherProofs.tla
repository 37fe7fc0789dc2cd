----------------------- MODULE CallbackPublisherProofs -----------------------
(***************************************************************************)
(* A publish succeeds for its own message only, which a queue or the       *)
(* consumer has accepted or the broker dropped: CallbackPublisher          *)
(* implements PublisherContract, for every number of calls and of faults.  *)
(*                                                                         *)
(* The delivery tag of a confirmation is never compared, so the argument   *)
(* is that one message at most is on the connection: the mutex is held     *)
(* until the answer, and every outcome but the message's own confirmation  *)
(* gives the connection up with all that is in its channels.  A return is  *)
(* another matter: the confirmation that follows it may be taken first,    *)
(* and the return stays in its channel for a later call.                   *)
(***************************************************************************)
EXTENDS CallbackPublisher, TLAPS

(* What the type of the connection's sequences rests on.                   *)
LEMMA EmptyChannels ==
    /\ <<>> \in Seq(Frame) /\ Len(<<>>) = 0
    /\ <<>> \in Seq(Message)
  OBVIOUS

(* The state of the AMQP connection.                                       *)
LinkType ==
    /\ link \in {"none", "up", "half", "down"}
    /\ outgoing \subseteq Message /\ orphans \subseteq Message
    /\ incoming \in Seq(Frame)
    /\ returns \in Seq(Message) /\ Len(returns) <= 1
    /\ confirms \in Seq(Frame) /\ Len(confirms) <= 1

(* Giving the connection up leaves it well typed.                          *)
LEMMA ResetType ==
    ASSUME LinkType, GiveUpLink
    PROVE  LinkType'
  BY EmptyChannels DEF LinkType, GiveUpLink

(* The count of faults stays within its bound.                             *)
LEMMA FaultType ==
    ASSUME NEW e, faults \in 0 .. MaxFaults, Fault(e)
    PROVE  faults' \in 0 .. MaxFaults
  BY ConstantAssumption DEF Fault

(* A process goes to a program point.                                      *)
LEMMA PointType ==
    ASSUME pc \in [Message -> Point], NEW m \in Message, NEW point \in Point,
           Goto(m, point)
    PROVE  pc' \in [Message -> Point]
  BY DEF Goto

(* Type correctness of every step.                                         *)
LEMMA TypeStep ==
    ASSUME TypeOK, [Next]_vars
    PROVE  TypeOK'
<1> USE DEF TypeOK
<1>1. ASSUME NEW m \in Message, Call(m) \/ Lock(m) \/ post(m) \/ Response(m)
      PROVE  TypeOK'
  BY <1>1 DEF Call, Lock, post, Response, Goto, amqpVars, fateVars, Point
<1>2. ASSUME NEW m \in Message, ensureConnected(m)
      PROVE  TypeOK'
  <2>1. pc' \in [Message -> Point]
    BY <1>2, PointType DEF ensureConnected, Point
  <2>2. LinkType'
    BY <1>2, ResetType DEF ensureConnected, LinkType, amqpVars
  <2> QED
    BY <1>2, <2>1, <2>2 DEF ensureConnected, LinkType, fateVars
<1>3. ASSUME NEW m \in Message, ExchangeDeclare(m)
      PROVE  TypeOK'
  <2>1. pc' \in [Message -> Point]
    BY <1>3, PointType DEF ExchangeDeclare, Point
  <2>2. /\ link' \in {"none", "up", "half", "down"} /\ incoming' \in Seq(Frame)
        /\ orphans' \subseteq Message /\ outgoing' \subseteq Message
    BY <1>3, EmptyChannels DEF ExchangeDeclare
  <2>3. faults' \in 0 .. MaxFaults
    BY <1>3, FaultType DEF ExchangeDeclare
  <2> QED
    BY <1>3, <2>1, <2>2, <2>3 DEF ExchangeDeclare, fateVars
<1>4. ASSUME NEW m \in Message, Send(m) \/ resetLocked(m)
      PROVE  TypeOK'
  <2>1. pc' \in [Message -> Point]
    BY <1>4, PointType DEF Send, resetLocked, Point
  <2>2. LinkType'
    BY <1>4, ResetType DEF Send, resetLocked, LinkType
  <2> QED
    BY <1>4, <2>1, <2>2 DEF Send, resetLocked, LinkType, fateVars
<1>12. ASSUME NEW m \in Message, Select(m)
      PROVE  TypeOK'
  <2>1. pc' \in [Message -> Point]
    BY <1>12, PointType DEF Select, Returned, Nacked, Acked, TimedOut, Point
  <2>2. ASSUME confirms # <<>>, confirms' = Tail(confirms)
        PROVE  confirms' \in Seq(Frame) /\ Len(confirms') <= 1
    BY <2>2
  <2>3. /\ returns' \in Seq(Message) /\ Len(returns') <= 1
        /\ confirms' \in Seq(Frame) /\ Len(confirms') <= 1
    <3>1. CASE returns' = <<>> /\ UNCHANGED confirms
      BY <3>1, EmptyChannels
    <3>2. CASE confirms' = <<>> /\ UNCHANGED returns
      BY <3>2, EmptyChannels
    <3>4. CASE UNCHANGED <<returns, confirms>>
      BY <3>4
    <3>3. CASE Acked(m)
      BY <2>2, <3>3 DEF Acked
    <3> QED
      BY <1>12, <3>1, <3>2, <3>3, <3>4 DEF Select, Returned, Nacked, TimedOut
  <2> QED
    BY <1>12, <2>1, <2>3 DEF Select, fateVars
<1>5. ASSUME NEW m \in Message, BrokerHandle(m)
      PROVE  TypeOK'
  <2>1. <<"ack", m>> \in Frame /\ <<"nack", m>> \in Frame /\ <<"return", m>> \in Frame
    BY DEF Frame
  <2>2. << <<"return", m>>, <<"ack", m>> >> \in Seq(Frame)
    BY <2>1
  <2>3. incoming' \in Seq(Frame)
    <3>1. CASE \E f \in Frame : incoming' = Append(incoming, f)
      BY <3>1
    <3>2. CASE incoming' = incoming \o << <<"return", m>>, <<"ack", m>> >>
      BY <2>2, <3>2
    <3> QED
      BY <1>5, <2>1, <3>1, <3>2 DEF BrokerHandle
  <2>4. faults' \in 0 .. MaxFaults
    BY <1>5, FaultType DEF BrokerHandle
  <2> QED
    BY <1>5, <2>3, <2>4 DEF BrokerHandle, fateVars
<1>6. ASSUME NEW m \in Message, BrokerLate(m)
      PROVE  TypeOK'
  BY <1>6 DEF BrokerLate
<1>7. ASSUME NEW m \in Message, ConsumerHandle(m)
      PROVE  TypeOK'
  <2>1. faults' \in 0 .. MaxFaults
    BY <1>7, FaultType DEF ConsumerHandle
  <2>2. replies' \subseteq {"accepted", "refused"} \X Message
    BY <1>7 DEF ConsumerHandle
  <2> QED
    BY <1>7, <2>1, <2>2 DEF ConsumerHandle
<1>8. ASSUME Dispatch
      PROVE  TypeOK'
  <2>1. incoming' \in Seq(Frame) /\ incoming[1] \in Frame
    BY <1>8 DEF Dispatch
  <2>2. incoming[1][2] \in Message
    BY <2>1 DEF Frame
  <2>3. << incoming[1] >> \in Seq(Frame) /\ Len(<< incoming[1] >>) = 1
        /\ << incoming[1][2] >> \in Seq(Message) /\ Len(<< incoming[1][2] >>) = 1
    BY <2>1, <2>2
  <2>4. returns' \in Seq(Message) /\ Len(returns') <= 1
    <3>1. CASE returns' = << incoming[1][2] >>
      BY <2>3, <3>1
    <3>2. CASE UNCHANGED returns
      BY <3>2
    <3> QED
      BY <1>8, <3>1, <3>2 DEF Dispatch
  <2>5. confirms' \in Seq(Frame) /\ Len(confirms') <= 1
    <3>1. CASE confirms' = << incoming[1] >>
      BY <2>3, <3>1
    <3>2. CASE UNCHANGED confirms
      BY <3>2
    <3> QED
      BY <1>8, <3>1, <3>2 DEF Dispatch
  <2> QED
    BY <1>8, <2>1, <2>4, <2>5 DEF Dispatch, fateVars
<1>9. ASSUME Break
      PROVE  TypeOK'
  <2>1. faults' \in 0 .. MaxFaults
    BY <1>9, FaultType DEF Break
  <2> QED
    BY <1>9, <2>1, EmptyChannels DEF Break, fateVars
<1>10. ASSUME Rebind \/ Silence
      PROVE  TypeOK'
  <2>1. faults' \in 0 .. MaxFaults
    BY <1>10, FaultType DEF Rebind, Silence
  <2> QED
    BY <1>10, <2>1 DEF Rebind, Silence, amqpVars, fateVars
<1>11. ASSUME UNCHANGED vars
      PROVE  TypeOK'
  BY <1>11 DEF vars, amqpVars, fateVars
<1> QED
  BY <1>1, <1>2, <1>3, <1>4, <1>5, <1>6, <1>7, <1>8, <1>9, <1>10, <1>11, <1>12
     DEF Next, Network, Publishing, publishJSON

(* Type correctness of the publishers.                                     *)
THEOREM TypeCorrect == Spec => []TypeOK
<1>1. Init => TypeOK
  <2>1. Init => /\ incoming \in Seq(Frame) /\ returns \in Seq(Message)
                /\ confirms \in Seq(Frame) /\ Len(returns) <= 1 /\ Len(confirms) <= 1
    BY EmptyChannels DEF Init
  <2>2. Init => faults \in 0 .. MaxFaults
    BY ConstantAssumption DEF Init
  <2>3. Init => transport \in {"rabbitmq", "http"} /\ bound \in BOOLEAN
                /\ silent \in BOOLEAN /\ pc \in [Message -> Point]
                /\ link \in {"none", "up", "half", "down"}
    BY DEF Init, Point
  <2> QED
    BY <2>1, <2>2, <2>3 DEF Init, TypeOK
<1> QED
  BY <1>1, TypeStep, PTL DEF Spec

-----------------------------------------------------------------------------
(* The inductive invariant.                                                *)

(* The mutex: one call at a time between the lock and the answer.          *)
OneHolder ==
    \A m, n \in Message : pc[m] \in Holding /\ pc[n] \in Holding => m = n

Taken(m) == m \in taken \cup dropped

(* Where the message a call has sent is, or what came back for it.         *)
InFlight(m) ==
    \/ outgoing = {m} /\ incoming = <<>> /\ confirms = <<>> /\ m \notin orphans
    \/ /\ outgoing = {} /\ confirms = <<>> /\ incoming = << <<"ack", m>> >>
       /\ Taken(m) /\ m \notin orphans
    \/ /\ outgoing = {} /\ confirms = <<>>
       /\ incoming = << <<"return", m>>, <<"ack", m>> >>
       /\ m \in dropped /\ m \notin orphans
    \/ outgoing = {} /\ confirms = <<>> /\ incoming = << <<"nack", m>> >>
    \/ /\ outgoing = {} /\ incoming = <<>> /\ confirms = << <<"ack", m>> >>
       /\ Taken(m) /\ m \notin orphans
    \/ outgoing = {} /\ incoming = <<>> /\ confirms = << <<"nack", m>> >>

(* The connection, the frames read from it and p.confirms are empty, or    *)
(* carry the message of the call that waits for it or gives it up.         *)
OneInFlight ==
    \/ outgoing = {} /\ incoming = <<>> /\ confirms = <<>>
    \/ \E m \in Message : pc[m] \in {"select", "close"} /\ InFlight(m)

(* p.returns may hold the return of a call that has ended, never that of a *)
(* message the broker did not drop.                                        *)
ReturnsDropped == \A i \in 1 .. Len(returns) : returns[i] \in dropped

(* A message still on its way was not answered with success.               *)
OrphansFailed ==
    \A m \in orphans : pc[m] \in {"select", "close", "err", "response"}

(* An accepting response comes after the acceptance.                       *)
RepliesTaken ==
    \A m \in Message : <<"accepted", m>> \in replies =>
        /\ m \in taken /\ m \notin orphans
        /\ pc[m] \in {"response", "ok", "err"}

(* A call over HTTP never is where a call over RabbitMQ is.                *)
OneTransport ==
    transport = "http" => \A m \in Message : pc[m] \notin Holding \cup {"lock"}

CallInv ==
    /\ OneHolder /\ OneInFlight /\ ReturnsDropped
    /\ OrphansFailed /\ RepliesTaken /\ OneTransport

(* A call that locks, answers or goes on keeps the mutex exclusive.        *)
LEMMA HolderStep ==
    ASSUME TypeOK, OneHolder, [Next]_vars
    PROVE  OneHolder'
<1> USE DEF OneHolder, Holding
<1>1. ASSUME NEW m \in Message, Lock(m)
      PROVE  OneHolder'
  BY <1>1 DEF Lock, Goto, TypeOK
<1>2. ASSUME NEW m \in Message,
             ensureConnected(m) \/ ExchangeDeclare(m) \/ Send(m) \/ Select(m)
             \/ resetLocked(m)
      PROVE  OneHolder'
  BY <1>2 DEF ensureConnected, ExchangeDeclare, Send, Select, Returned, Nacked, Acked,
     TimedOut, resetLocked, Goto, TypeOK
<1>3. ASSUME NEW m \in Message, Call(m) \/ post(m) \/ Response(m)
      PROVE  OneHolder'
  BY <1>3 DEF Call, post, Response, Goto, TypeOK
<1>4. ASSUME Network \/ UNCHANGED vars
      PROVE  OneHolder'
  BY <1>4 DEF Network, BrokerHandle, BrokerLate, ConsumerHandle, Dispatch, Break,
     Rebind, Silence, vars
<1> QED
  BY <1>1, <1>2, <1>3, <1>4 DEF Next, Publishing, publishJSON

(* While the holder of the mutex has sent nothing, nothing is in flight.   *)
LEMMA QuietBeforeSend ==
    ASSUME OneHolder, OneInFlight, NEW m \in Message,
           pc[m] \in {"connect", "declare", "send"}
    PROVE  outgoing = {} /\ incoming = <<>> /\ confirms = <<>>
  BY DEF OneHolder, OneInFlight, Holding

(* A step of a call keeps what is in flight to the call that waits for it. *)
LEMMA FlightOfCall ==
    ASSUME TypeOK, CallInv, NEW m \in Message,
           Call(m) \/ Publishing(m)
    PROVE  OneInFlight'
<1> USE DEF CallInv
<1>1. CASE Call(m) \/ Lock(m) \/ Response(m)
  BY <1>1 DEF Call, Lock, Response, OneInFlight, InFlight, Taken, Goto, TypeOK,
     amqpVars, fateVars
<1>2. CASE ensureConnected(m) \/ ExchangeDeclare(m)
  <2>1. outgoing = {} /\ incoming = <<>> /\ confirms = <<>>
    BY <1>2, QuietBeforeSend DEF ensureConnected, ExchangeDeclare
  <2>2. outgoing' = {} /\ incoming' = <<>> /\ confirms' = <<>>
    BY <1>2, <2>1 DEF ensureConnected, ExchangeDeclare, GiveUpLink, amqpVars
  <2> QED
    BY <2>2 DEF OneInFlight
<1>3. CASE Send(m)
  <2>1. outgoing = {} /\ incoming = <<>> /\ confirms = <<>> /\ m \notin orphans
    BY <1>3, QuietBeforeSend DEF Send, OrphansFailed
  <2>2. CASE outgoing' = outgoing \cup {m} /\ Goto(m, "select")
    BY <1>3, <2>1, <2>2 DEF Send, OneInFlight, InFlight, Goto, TypeOK
  <2>3. CASE GiveUpLink
    BY <2>3 DEF GiveUpLink, OneInFlight
  <2> QED
    BY <1>3, <2>2, <2>3 DEF Send
<1>4. CASE Select(m)
  <2>1. pc[m] = "select" /\ UNCHANGED <<outgoing, incoming, orphans, taken, dropped>>
    BY <1>4 DEF Select, fateVars
  <2>2. CASE confirms # <<>> /\ confirms' \in {Tail(confirms), <<>>}
    <3>1. outgoing = {} /\ incoming = <<>>
      BY <2>2 DEF OneInFlight, InFlight
    <3>2. Tail(confirms) = <<>>
      BY <2>2 DEF TypeOK
    <3> QED
      BY <2>1, <2>2, <3>1, <3>2 DEF OneInFlight
  <2>3. CASE confirms' = confirms /\ Goto(m, "close")
    BY <2>1, <2>3 DEF OneInFlight, InFlight, Taken, Goto, TypeOK
  <2> QED
    BY <1>4, <2>2, <2>3 DEF Select, Returned, Nacked, Acked, TimedOut
<1>6. CASE resetLocked(m)
  BY <1>6 DEF resetLocked, GiveUpLink, OneInFlight
<1>5. CASE post(m)
  BY <1>5 DEF post, OneInFlight, InFlight, Taken, Goto, TypeOK, fateVars
<1> QED
  BY <1>1, <1>2, <1>3, <1>4, <1>5, <1>6 DEF Publishing, publishJSON

(* A step of the broker, the library or the network does, too.             *)
LEMMA FlightOfNetwork ==
    ASSUME TypeOK, CallInv, Network
    PROVE  OneInFlight'
<1> USE DEF CallInv
<1>1. ASSUME NEW m \in Message, BrokerHandle(m)
      PROVE  OneInFlight'
  <2>1. outgoing = {m} /\ incoming = <<>> /\ confirms = <<>>
        /\ m \notin orphans /\ pc[m] \in {"select", "close"}
    BY <1>1 DEF BrokerHandle, OneInFlight, InFlight
  <2>2. outgoing' = {} /\ confirms' = <<>> /\ m \notin orphans'
        /\ pc'[m] \in {"select", "close"}
    BY <1>1, <2>1 DEF BrokerHandle
  <2>3. \/ incoming' = << <<"ack", m>> >> /\ Taken(m)'
        \/ incoming' = << <<"return", m>>, <<"ack", m>> >> /\ m \in dropped'
        \/ incoming' = << <<"nack", m>> >>
    BY <1>1, <2>1 DEF BrokerHandle, Taken
  <2> QED
    BY <2>2, <2>3 DEF OneInFlight, InFlight
<1>2. ASSUME NEW m \in Message, BrokerLate(m) \/ ConsumerHandle(m)
      PROVE  OneInFlight'
  BY <1>2 DEF BrokerLate, ConsumerHandle, OneInFlight, InFlight, Taken
<1>3. ASSUME Dispatch
      PROVE  OneInFlight'
  <2>1. PICK m \in Message : pc[m] \in {"select", "close"} /\ InFlight(m)
    BY <1>3 DEF Dispatch, OneInFlight
  <2>2. outgoing' = {} /\ pc'[m] \in {"select", "close"}
        /\ UNCHANGED <<orphans, taken, dropped>>
    BY <1>3, <2>1 DEF Dispatch, InFlight, fateVars
  <2>3. CASE incoming = << <<"ack", m>> >>
    BY <1>3, <2>1, <2>2, <2>3 DEF Dispatch, OneInFlight, InFlight, Taken
  <2>4. CASE incoming = << <<"return", m>>, <<"ack", m>> >>
    BY <1>3, <2>1, <2>2, <2>4 DEF Dispatch, OneInFlight, InFlight, Taken
  <2>5. CASE incoming = << <<"nack", m>> >>
    BY <1>3, <2>1, <2>2, <2>5 DEF Dispatch, OneInFlight, InFlight, Taken
  <2> QED
    BY <1>3, <2>1, <2>3, <2>4, <2>5 DEF Dispatch, InFlight
<1>4. CASE Break
  BY <1>4 DEF Break, OneInFlight, InFlight, Taken, fateVars
<1>5. CASE Rebind \/ Silence
  BY <1>5 DEF Rebind, Silence, OneInFlight, InFlight, Taken, amqpVars, fateVars
<1> QED
  BY <1>1, <1>2, <1>3, <1>4, <1>5 DEF Network

(* What is put into p.returns is the return of a dropped message.          *)
LEMMA ReturnStep ==
    ASSUME TypeOK, CallInv, [Next]_vars
    PROVE  ReturnsDropped'
<1> USE DEF ReturnsDropped
<1>1. ASSUME NEW m \in Message, Call(m) \/ Publishing(m)
      PROVE  ReturnsDropped'
  <2>1. returns' \in {returns, <<>>} /\ dropped' = dropped
    BY <1>1 DEF Call, Publishing, publishJSON, Lock, ensureConnected, ExchangeDeclare,
       Send, Select, Returned, Nacked, Acked, TimedOut, resetLocked, GiveUpLink, post,
       Response, amqpVars, fateVars
  <2> QED
    BY <2>1 DEF CallInv
<1>2. ASSUME Dispatch
      PROVE  ReturnsDropped'
  <2>1. CASE incoming[1][1] = "return" /\ returns' = << incoming[1][2] >>
    <3>1. incoming[1][2] \in dropped
      BY <1>2, <2>1 DEF Dispatch, CallInv, OneInFlight, InFlight
    <3> QED
      BY <1>2, <2>1, <3>1 DEF Dispatch, fateVars
  <2> QED
    BY <1>2, <2>1 DEF Dispatch, CallInv, fateVars
<1>3. ASSUME Network, ~Dispatch
      PROVE  ReturnsDropped'
  <2>1. returns' = returns /\ dropped \subseteq dropped'
    BY <1>3 DEF Network, BrokerHandle, BrokerLate, ConsumerHandle, Break, Rebind,
       Silence, amqpVars, fateVars
  <2> QED
    BY <2>1 DEF CallInv
<1>4. ASSUME UNCHANGED vars
      PROVE  ReturnsDropped'
  BY <1>4 DEF CallInv, vars, amqpVars, fateVars
<1> QED
  BY <1>1, <1>2, <1>3, <1>4 DEF Next

(* What is still on its way after an answer belongs to a failed call.      *)
LEMMA OrphanStep ==
    ASSUME TypeOK, CallInv, [Next]_vars
    PROVE  OrphansFailed'
<1> USE DEF CallInv, OrphansFailed
<1>1. \A n \in outgoing : pc[n] \in {"select", "close"}
  BY DEF OneInFlight, InFlight
<1>2. ASSUME NEW m \in Message, Call(m) \/ Lock(m) \/ post(m)
      PROVE  OrphansFailed'
  BY <1>2 DEF Call, Lock, post, Goto, TypeOK, amqpVars
<1>3. ASSUME NEW m \in Message,
             ensureConnected(m) \/ ExchangeDeclare(m) \/ Send(m) \/ resetLocked(m)
      PROVE  OrphansFailed'
  BY <1>1, <1>3 DEF ensureConnected, ExchangeDeclare, Send, resetLocked, GiveUpLink,
     Goto, TypeOK, amqpVars
<1>4. ASSUME NEW m \in Message, Select(m)
      PROVE  OrphansFailed'
  <2>1. CASE Goto(m, "close") /\ UNCHANGED orphans
    BY <2>1 DEF Goto, TypeOK
  <2>2. CASE Acked(m)
    <3>1. m \notin orphans
      BY <1>4, <2>2 DEF Select, Acked, OneInFlight, InFlight, OneHolder, Holding
    <3> QED
      BY <1>4, <2>2, <3>1 DEF Select, Acked, Goto, TypeOK
  <2> QED
    BY <1>4, <2>1, <2>2 DEF Select, Returned, Nacked, TimedOut
<1>5. ASSUME NEW m \in Message, Response(m)
      PROVE  OrphansFailed'
  BY <1>5 DEF Response, Goto, TypeOK, RepliesTaken, amqpVars
<1>6. ASSUME Network \/ UNCHANGED vars
      PROVE  OrphansFailed'
  BY <1>1, <1>6 DEF Network, BrokerHandle, BrokerLate, ConsumerHandle, Dispatch,
     Break, Rebind, Silence, vars, amqpVars
<1> QED
  BY <1>2, <1>3, <1>4, <1>5, <1>6 DEF Next, Publishing, publishJSON

(* A response is on its way only after the consumer had the request.       *)
LEMMA ReplyStep ==
    ASSUME TypeOK, CallInv, [Next]_vars
    PROVE  RepliesTaken'
<1> USE DEF CallInv, RepliesTaken
<1>1. \A n \in outgoing : pc[n] \in {"select", "close"}
  BY DEF OneInFlight, InFlight
<1>2. ASSUME NEW m \in Message, Call(m) \/ Lock(m) \/ post(m) \/ Response(m)
      PROVE  RepliesTaken'
  BY <1>2 DEF Call, Lock, post, Response, Goto, TypeOK, amqpVars, fateVars
<1>3. ASSUME NEW m \in Message,
             ensureConnected(m) \/ ExchangeDeclare(m) \/ Send(m) \/ resetLocked(m)
      PROVE  RepliesTaken'
  BY <1>1, <1>3 DEF ensureConnected, ExchangeDeclare, Send, resetLocked, GiveUpLink,
     Goto, TypeOK, amqpVars, fateVars
<1>7. ASSUME NEW m \in Message, Select(m)
      PROVE  RepliesTaken'
  BY <1>7 DEF Select, Returned, Nacked, Acked, TimedOut, Goto, TypeOK, fateVars
<1>4. ASSUME NEW m \in Message, ConsumerHandle(m)
      PROVE  RepliesTaken'
  <2>1. m \in Message /\ pc[m] \in {"response", "err"}
    BY <1>4 DEF ConsumerHandle, OrphansFailed, OneTransport, Holding
  <2> QED
    BY <1>4, <2>1 DEF ConsumerHandle
<1>5. ASSUME NEW m \in Message, BrokerHandle(m) \/ BrokerLate(m)
      PROVE  RepliesTaken'
  BY <1>5 DEF BrokerHandle, BrokerLate, fateVars
<1>6. ASSUME Dispatch \/ Break \/ Rebind \/ Silence \/ UNCHANGED vars
      PROVE  RepliesTaken'
  BY <1>1, <1>6 DEF Dispatch, Break, Rebind, Silence, vars, amqpVars, fateVars
<1> QED
  BY <1>2, <1>3, <1>4, <1>5, <1>6, <1>7 DEF Next, Network, Publishing, publishJSON

(* A call starts on its transport and stays there.                         *)
LEMMA TransportStep ==
    ASSUME TypeOK, OneTransport, [Next]_vars
    PROVE  OneTransport'
<1> USE DEF OneTransport, Holding
<1>1. ASSUME NEW m \in Message, Call(m) \/ Publishing(m)
      PROVE  OneTransport'
  BY <1>1 DEF Call, Publishing, publishJSON, Lock, ensureConnected, ExchangeDeclare,
     Send, Select, Returned, Nacked, Acked, TimedOut, resetLocked, post, Response, Goto,
     TypeOK
<1>2. ASSUME Network \/ UNCHANGED vars
      PROVE  OneTransport'
  BY <1>2 DEF Network, BrokerHandle, BrokerLate, ConsumerHandle, Dispatch, Break,
     Rebind, Silence, vars
<1> QED
  BY <1>1, <1>2 DEF Next

(* A confirmation is only ever of the message in flight, that of the call  *)
(* which holds the mutex and waits for it or gives it up; and what stays   *)
(* in p.returns after a call was returned for a message that was dropped.  *)
THEOREM CallInvariance == Spec => []CallInv
<1>1. Init => CallInv
  BY DEF Init, CallInv, OneHolder, Holding, OneInFlight, ReturnsDropped,
     OrphansFailed, RepliesTaken, OneTransport
<1>2. ASSUME TypeOK, CallInv, [Next]_vars
      PROVE  OneInFlight'
  <2>1. CASE UNCHANGED vars
    BY <1>2, <2>1 DEF CallInv, OneInFlight, InFlight, Taken, vars, amqpVars, fateVars
  <2> QED
    BY <1>2, <2>1, FlightOfCall, FlightOfNetwork DEF Next
<1>3. ASSUME TypeOK, CallInv, [Next]_vars
      PROVE  CallInv'
  BY <1>2, <1>3, HolderStep, ReturnStep, OrphanStep, ReplyStep, TransportStep
     DEF CallInv
<1> QED
  BY <1>1, <1>3, TypeCorrect, PTL DEF Spec

-----------------------------------------------------------------------------
(* Refinement.                                                             *)

(* A call answers once, with success only for a message that was accepted  *)
(* or dropped.                                                             *)
LEMMA AnswerStep ==
    ASSUME TypeOK, NEW m \in Message, NEW a \in {"ok", "err"},
           Goto(m, a),
           pc[m] \in {"declare", "send", "select", "close", "response"},
           a = "ok" => Taken(m), UNCHANGED fateVars
    PROVE  Contract!Answer(m, a)
<1>1. \A n \in Message : pc'[n] # "idle" <=> pc[n] # "idle"
  BY DEF Goto, TypeOK
<1>2. answer' = [answer EXCEPT ![m] = a]
  BY DEF answer, Goto, TypeOK
<1> QED
  BY <1>1, <1>2 DEF Contract!Answer, Contract!Pending, Taken, fateVars, answer

(* A step of a call that gets no answer, to the contract.                  *)
LEMMA QuietStep ==
    ASSUME TypeOK, NEW m \in Message, NEW point \in Point \ {"idle", "ok", "err"},
           Goto(m, point), pc[m] \notin {"idle", "ok", "err"}, UNCHANGED fateVars
    PROVE  UNCHANGED Contract!vars
<1>1. \A n \in Message : pc'[n] # "idle" <=> pc[n] # "idle"
  BY DEF Goto, TypeOK
<1>2. answer' = answer
  BY DEF answer, Goto, TypeOK
<1> QED
  BY <1>1, <1>2 DEF Contract!vars, fateVars

(* Every step of a call is a step of the contract, or none.                *)
LEMMA CallRefines ==
    ASSUME TypeOK, CallInv, NEW m \in Message, Call(m) \/ Publishing(m)
    PROVE  Contract!Next \/ UNCHANGED Contract!vars
<1> USE DEF Point
<1>1. CASE Call(m)
  <2>1. {n \in Message : pc[n] # "idle"}' = {n \in Message : pc[n] # "idle"} \cup {m}
    BY <1>1 DEF Call, Goto, TypeOK
  <2>2. answer' = answer
    BY <1>1 DEF Call, Goto, TypeOK, answer
  <2>3. Contract!Ask(m)
    BY <1>1, <2>1, <2>2 DEF Call, Contract!Ask, fateVars
  <2> QED
    BY <2>3 DEF Contract!Next
<1>2. CASE Lock(m) \/ post(m)
  BY <1>2, QuietStep DEF Lock, post
<1>3. CASE ensureConnected(m)
  BY <1>3, QuietStep DEF ensureConnected
<1>7. CASE ExchangeDeclare(m)
  BY <1>7, QuietStep, AnswerStep DEF ExchangeDeclare, Contract!Next
<1>8. CASE resetLocked(m)
  BY <1>8, AnswerStep DEF resetLocked, Contract!Next
<1>4. CASE Send(m)
  BY <1>4, QuietStep, AnswerStep DEF Send, Contract!Next
<1>5. CASE Select(m)
  <2>1. CASE Goto(m, "close")
    BY <1>5, <2>1, QuietStep DEF Select
  <2>2. CASE Acked(m)
    <3>1. Taken(m)
      BY <1>5, <2>2
         DEF Select, Acked, CallInv, OneInFlight, InFlight, OneHolder, Holding
    <3> QED
      BY <1>5, <2>2, <3>1, AnswerStep DEF Select, Acked, Contract!Next
  <2> QED
    BY <1>5, <2>1, <2>2 DEF Select, Returned, Nacked, TimedOut
<1>6. CASE Response(m)
  BY <1>6, AnswerStep DEF Response, CallInv, RepliesTaken, Taken, Contract!Next
<1> QED
  BY <1>1, <1>2, <1>3, <1>4, <1>5, <1>6, <1>7, <1>8 DEF Publishing, publishJSON

(* A message still on its way is pending, to the contract.                 *)
LEMMA OnItsWay ==
    ASSUME TypeOK, CallInv, NEW m \in outgoing \cup orphans
    PROVE  m \in Message /\ Contract!Pending(m)
<1>1. m \in Message /\ pc[m] \in {"select", "close", "err", "response"}
  BY DEF TypeOK, CallInv, OneInFlight, InFlight, OrphansFailed
<1> QED
  BY <1>1 DEF Contract!Pending, answer

(* So is every step of the broker, the consumer and the library.           *)
LEMMA NetworkRefines ==
    ASSUME TypeOK, CallInv, Network
    PROVE  Contract!Next \/ UNCHANGED Contract!vars
<1>1. pc' = pc /\ answer' = answer
  BY DEF Network, BrokerHandle, BrokerLate, ConsumerHandle, Dispatch, Break, Rebind,
     Silence, answer
<1>2. CASE UNCHANGED fateVars
  BY <1>1, <1>2 DEF Contract!vars, fateVars
<1>3. ASSUME NEW m \in Message,
             BrokerHandle(m) \/ BrokerLate(m) \/ ConsumerHandle(m)
      PROVE  Contract!Next \/ UNCHANGED Contract!vars
  <2>1. Contract!Pending(m)
    BY <1>3, OnItsWay DEF BrokerHandle, BrokerLate, ConsumerHandle
  <2>2. \/ taken' = taken \cup {m} /\ dropped' = dropped
        \/ dropped' = dropped \cup {m} /\ taken' = taken
        \/ UNCHANGED fateVars
    BY <1>3 DEF BrokerHandle, BrokerLate, ConsumerHandle, fateVars
  <2> QED
    BY <1>1, <1>2, <2>1, <2>2
       DEF Contract!Next, Contract!Take, Contract!Drop
<1>4. CASE Dispatch \/ Break \/ Rebind \/ Silence
  BY <1>2, <1>4 DEF Dispatch, Break, Rebind, Silence
<1> QED
  BY <1>3, <1>4 DEF Network

(* A publish that returns no error returns it for its own message, which a *)
(* queue or the consumer has accepted or which the broker, without a       *)
(* queue, has dropped: on either transport, whatever failed before it.     *)
THEOREM Refinement == Spec => ImplementsContract
<1>1. Init => Contract!Init
  BY DEF Init, Contract!Init, answer
<1>2. ASSUME TypeOK, CallInv, [Next]_vars
      PROVE  [Contract!Next]_(Contract!vars)
  <2>1. CASE UNCHANGED vars
    BY <2>1 DEF vars, fateVars, Contract!vars, answer
  <2> QED
    BY <1>2, <2>1, CallRefines, NetworkRefines DEF Next
<1> QED
  BY <1>1, <1>2, TypeCorrect, CallInvariance, PTL
     DEF Spec, ImplementsContract, Contract!Spec
=============================================================================
