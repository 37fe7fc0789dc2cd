--------------------------- MODULE WsStreamProofs ---------------------------
(***************************************************************************)
(* The invariants of a watcher and its WebSocket calls, for every read     *)
(* deadline, any number of transactions and any number of faults.          *)
(***************************************************************************)
EXTENDS WsStream, Integers, TLAPS

(* A frame that is on its way.                                             *)
InWire(frame) == \E i \in DOMAIN wire : wire[i] = frame

LEMMA Interval == PingInterval \in Nat /\ PongWait \in Nat /\ PingInterval <= PongWait
  BY ConstantAssumption DEF PingInterval

LEMMA TailKeeps ==
    ASSUME NEW w \in Seq(Frame), w # <<>>, NEW frame, frame # Head(w)
    PROVE  (\E i \in DOMAIN w : w[i] = frame) <=> (\E i \in DOMAIN Tail(w) : Tail(w)[i] = frame)
<1>1. Len(w) \in Nat /\ Len(w) >= 1 /\ DOMAIN w = 1 .. Len(w) /\ Head(w) = w[1]
  OBVIOUS
<1>2. Len(Tail(w)) = Len(w) - 1 /\ DOMAIN Tail(w) = 1 .. Len(w) - 1
  OBVIOUS
<1>3. \A i \in 1 .. Len(w) - 1 : Tail(w)[i] = w[i + 1]
  OBVIOUS
<1>4. ASSUME NEW i \in DOMAIN w, w[i] = frame
      PROVE  \E j \in DOMAIN Tail(w) : Tail(w)[j] = frame
  <2>1. i # 1
    BY <1>1, <1>4
  <2>2. i - 1 \in 1 .. Len(w) - 1 /\ i = (i - 1) + 1
    BY <1>1, <2>1
  <2>3. Tail(w)[i - 1] = frame
    BY <1>3, <1>4, <2>2
  <2> QED
    BY <1>2, <2>2, <2>3
<1>5. ASSUME NEW i \in DOMAIN Tail(w), Tail(w)[i] = frame
      PROVE  \E j \in DOMAIN w : w[j] = frame
  <2>1. i + 1 \in 1 .. Len(w)
    BY <1>1, <1>2
  <2>2. w[i + 1] = frame
    BY <1>2, <1>3, <1>5
  <2> QED
    BY <1>1, <2>1, <2>2
<1> QED
  BY <1>4, <1>5

(* No frame appears by being read.                                         *)
LEMMA TailAdds ==
    ASSUME NEW w \in Seq(Frame), w # <<>>, NEW frame, \E i \in DOMAIN Tail(w) : Tail(w)[i] = frame
    PROVE  \E i \in DOMAIN w : w[i] = frame
<1>1. Len(w) \in Nat /\ DOMAIN w = 1 .. Len(w)
  OBVIOUS
<1>2. PICK i \in DOMAIN Tail(w) : Tail(w)[i] = frame
  OBVIOUS
<1>3. DOMAIN Tail(w) = 1 .. Len(w) - 1 /\ \A j \in 1 .. Len(w) - 1 : Tail(w)[j] = w[j + 1]
  OBVIOUS
<1>4. i + 1 \in DOMAIN w /\ w[i + 1] = frame
  BY <1>1, <1>2, <1>3
<1> QED
  BY <1>4

LEMMA AppendKeeps ==
    ASSUME NEW w \in Seq(Frame), NEW new \in Frame, NEW frame
    PROVE  (\E i \in DOMAIN Append(w, new) : Append(w, new)[i] = frame)
              <=> (frame = new \/ \E i \in DOMAIN w : w[i] = frame)
<1>1. Len(w) \in Nat /\ DOMAIN w = 1 .. Len(w) /\ DOMAIN Append(w, new) = 1 .. Len(w) + 1
  OBVIOUS
<1>2. Append(w, new)[Len(w) + 1] = new /\ \A i \in 1 .. Len(w) : Append(w, new)[i] = w[i]
  OBVIOUS
<1>3. \A i \in 1 .. Len(w) + 1 : i = Len(w) + 1 \/ i \in 1 .. Len(w)
  BY <1>1
<1>4. Len(w) + 1 \in 1 .. Len(w) + 1 /\ \A i \in 1 .. Len(w) : i \in 1 .. Len(w) + 1
  BY <1>1
<1> QED
  BY <1>1, <1>2, <1>3, <1>4

-----------------------------------------------------------------------------
(* Types.                                                                  *)

(* A call has a connection, and only calls that were made were stopped.    *)
Connected ==
    /\ pc \in {"subscribe", "onSubscribed", "read", "handle", "unwind"} => conn >= 1
    /\ stopped \subseteq 1 .. conn

TypeInv == TypeOK /\ Connected

LEMMA TypeInit == Init => TypeInv
<1> SUFFICES ASSUME Init PROVE TypeInv
  OBVIOUS
<1>1. pc \in Point /\ wire \in Seq(Frame) /\ kind \in {"account", "signature"}
  BY DEF Init, Point
<1>2. request \in {"none", "sent", "kept", "acked"}
  BY DEF Init
<1>3. left \in 0 .. PongWait /\ toPing \in 0 .. PingInterval /\ held \in Nat
  BY Interval DEF Init
<1>4. conn \in 0 .. MaxFaults + 1 /\ landed \in 0 .. MaxLanded /\ seen \in 0 .. MaxLanded
      /\ faults \in 0 .. MaxFaults
  BY ConstantAssumption DEF Init
<1>5. TypeOK
  BY <1>1, <1>2, <1>3, <1>4 DEF Init, TypeOK
<1>6. Connected
  BY DEF Init, Connected
<1> QED
  BY <1>5, <1>6 DEF TypeInv

LEMMA FaultType ==
    ASSUME faults \in 0 .. MaxFaults, Fault PROVE faults' \in 0 .. MaxFaults
  BY ConstantAssumption DEF Fault

LEMMA TypeTake ==
    ASSUME TypeInv, wire # <<>>, pc \in {"subscribe", "read"}, got' \in BOOLEAN,
           NEW point \in {"subscribe", "onSubscribed", "read", "handle", "unwind"}, Take(point)
    PROVE  TypeInv'
<1>1. wire' \in Seq(Frame)
  BY DEF TypeInv, TypeOK, Take
<1>2. left' \in 0 .. PongWait /\ held' \in Nat
  BY Interval DEF TypeInv, TypeOK, Take, configureHeartbeat
<1>3. pc' \in Point
  BY DEF Take, Goto, Point
<1> QED
  BY <1>1, <1>2, <1>3 DEF TypeInv, TypeOK, Connected, Take, connVars, chainVars

LEMMA TypeWatcher ==
    ASSUME TypeInv, Watcher PROVE TypeInv'
<1>1. CASE Dial
  <2>1. CASE ctxDone /\ Goto("ended") /\ UNCHANGED <<connVars, timeVars, nodeVars, faults>>
    BY <1>1, <2>1 DEF Dial, Goto, TypeInv, TypeOK, Connected, Point, callVars, connVars, timeVars,
                      nodeVars, chainVars
  <2>2. CASE Fault /\ Goto("sleep") /\ UNCHANGED <<connVars, timeVars, nodeVars>>
    BY <1>1, <2>2, FaultType
       DEF Dial, Goto, TypeInv, TypeOK, Connected, Point, callVars, connVars, timeVars,
           nodeVars, chainVars
  <2>3. CASE /\ ~ctxDone /\ conn + 1 \in Conn
             /\ Goto("subscribe")
             /\ conn' = conn + 1
             /\ open' = open \cup {conn'} /\ beats' = beats \cup {conn'}
             /\ closers' = closers \cup {conn'}
             /\ configureHeartbeat(TRUE) /\ toPing' = PingInterval
             /\ wire' = <<>> /\ request' = "sent"
             /\ pinged' = FALSE /\ dead' = FALSE /\ broken' = FALSE
             /\ UNCHANGED <<stopped, faults>>
    <3>1. conn' \in Conn /\ conn' \in 0 .. MaxFaults + 1 /\ conn' >= 1
          /\ open' \subseteq Conn /\ beats' \subseteq Conn /\ closers' \subseteq Conn
      BY <2>3, ConstantAssumption DEF Conn, TypeInv, TypeOK
    <3>2. stopped' \subseteq Conn /\ stopped' \subseteq 1 .. conn'
      BY <2>3, ConstantAssumption DEF TypeInv, TypeOK, Connected
    <3>3. left' \in 0 .. PongWait /\ held' \in Nat /\ toPing' \in 0 .. PingInterval
      BY <2>3, Interval DEF configureHeartbeat
    <3>4. pc' \in Point /\ wire' \in Seq(Frame)
      BY <2>3 DEF Goto, Point
    <3> QED
      BY <1>1, <2>3, <3>1, <3>2, <3>3, <3>4
         DEF Dial, TypeInv, TypeOK, Connected, callVars, chainVars
  <2> QED
    BY <1>1, <2>1, <2>2, <2>3 DEF Dial
<1>2. CASE subscribe \/ StreamAccountNotifications \/ WaitSignatureNotification
  <2>1. wire # <<>> /\ pc \in {"subscribe", "read"} /\ got' \in BOOLEAN
    BY <1>2 DEF subscribe, StreamAccountNotifications, WaitSignatureNotification, TypeInv, TypeOK
  <2>2. \E point \in {"subscribe", "onSubscribed", "read", "handle", "unwind"} : Take(point)
    BY <1>2 DEF subscribe, StreamAccountNotifications, WaitSignatureNotification
  <2> QED
    BY <2>1, <2>2, TypeTake
<1>3. CASE ReadFails
  BY <1>3 DEF ReadFails, Reading, Goto, TypeInv, TypeOK, Connected, Point, callVars, connVars,
              timeVars, nodeVars, chainVars
<1>4. CASE onSubscribed
  BY <1>4, FaultType
     DEF onSubscribed, Goto, TypeInv, TypeOK, Connected, Point, callVars, connVars, timeVars, nodeVars
<1>5. CASE Handle
  BY <1>5, FaultType
     DEF Handle, Goto, TypeInv, TypeOK, Connected, Point, callVars, connVars, timeVars, nodeVars
<1>6. CASE Unwind
  <2>1. conn \in 1 .. conn /\ conn \in Conn
    BY <1>6, ConstantAssumption DEF Unwind, TypeInv, TypeOK, Connected, Conn
  <2>2. stopped' \subseteq Conn /\ stopped' \subseteq 1 .. conn' /\ open' \subseteq Conn
    BY <1>6, <2>1 DEF Unwind, TypeInv, TypeOK, Connected
  <2>3. wire' \in Seq(Frame) /\ pc' \in Point /\ conn' >= 1
    BY <1>6, <2>1 DEF Unwind, Goto, Point, TypeInv, TypeOK
  <2> QED
    BY <1>6, <2>2, <2>3 DEF Unwind, TypeInv, TypeOK, Connected, timeVars, chainVars
<1>7. CASE Sleep
  BY <1>7 DEF Sleep, Goto, TypeInv, TypeOK, Connected, Point, callVars, connVars, timeVars,
              nodeVars, chainVars
<1> QED
  BY <1>1, <1>2, <1>3, <1>4, <1>5, <1>6, <1>7 DEF Watcher

LEMMA TypeOthers ==
    ASSUME TypeInv, \/ Ping \/ Environment \/ Tick
                    \/ \E c \in Conn : HeartbeatEnds(c) \/ closeConnOnDone(c)
    PROVE  TypeInv'
<1>1. CASE Ping
  <2>1. toPing' \in 0 .. PingInterval /\ pinged' \in BOOLEAN /\ open' \subseteq Conn
        /\ beats' \subseteq Conn
    <3>1. pinged' = TRUE \/ pinged' = pinged
      BY <1>1 DEF Ping
    <3>2. toPing' = PingInterval \/ toPing' = toPing
      BY <1>1 DEF Ping
    <3>3. open' \subseteq open /\ beats' \subseteq beats
      BY <1>1 DEF Ping
    <3>4. pinged' \in BOOLEAN
      BY <3>1 DEF TypeInv, TypeOK
    <3>5. toPing' \in 0 .. PingInterval
      BY <3>2, Interval DEF TypeInv, TypeOK
    <3> QED
      BY <3>3, <3>4, <3>5 DEF TypeInv, TypeOK
  <2>2. UNCHANGED <<callVars, pc, conn, stopped, closers, left, held, wire, request,
                    dead, broken, chainVars, faults>>
    BY <1>1 DEF Ping
  <2> QED
    BY <2>1, <2>2 DEF TypeInv, TypeOK, Connected, callVars, chainVars
<1>2. ASSUME NEW c \in Conn, HeartbeatEnds(c) \/ closeConnOnDone(c) PROVE TypeInv'
  <2>1. open' \subseteq open /\ beats' \subseteq beats /\ closers' \subseteq closers
        /\ UNCHANGED <<callVars, pc, conn, stopped, timeVars, nodeVars, chainVars, faults>>
    BY <1>2 DEF HeartbeatEnds, closeConnOnDone
  <2>2. open' \subseteq Conn /\ beats' \subseteq Conn /\ closers' \subseteq Conn
    BY <2>1 DEF TypeInv, TypeOK
  <2> QED
    BY <2>1, <2>2 DEF TypeInv, TypeOK, Connected, callVars, timeVars, nodeVars, chainVars
<1>3. CASE Tick
  <2>1. left' \in 0 .. PongWait /\ held' \in Nat
    BY <1>3, Interval DEF Tick, TypeInv, TypeOK
  <2>2. toPing' \in 0 .. PingInterval
    BY <1>3, Interval DEF Tick, TypeInv, TypeOK
  <2>3. faults' \in 0 .. MaxFaults
    BY <1>3, FaultType DEF Tick, TypeInv, TypeOK
  <2> QED
    BY <1>3, <2>1, <2>2, <2>3
       DEF Tick, TypeInv, TypeOK, Connected, callVars, connVars, nodeVars, chainVars
<1>4. CASE NodeRegisters
  <2>1. "refusal" \in Frame
    BY DEF Frame
  <2>2. wire \in Seq(Frame) /\ faults \in 0 .. MaxFaults
    BY DEF TypeInv, TypeOK
  <2>3. CASE request' = "kept" /\ UNCHANGED <<wire, faults>>
    BY <1>4, <2>3
       DEF NodeRegisters, TypeInv, TypeOK, Connected, callVars, connVars, timeVars, chainVars
  <2>4. CASE Fault /\ request' = "none" /\ Arrive("refusal")
    <3>1. wire' \in Seq(Frame) /\ faults' \in 0 .. MaxFaults
      BY <2>1, <2>2, <2>4, FaultType DEF Arrive
    <3> QED
      BY <1>4, <2>4, <3>1
         DEF NodeRegisters, TypeInv, TypeOK, Connected, callVars, connVars, timeVars, chainVars
  <2> QED
    BY <1>4, <2>3, <2>4 DEF NodeRegisters
<1>5. CASE NodeAcknowledges
  <2>1. <<"ack", "note">> \in Seq(Frame) /\ <<"ack">> \in Seq(Frame)
    BY DEF Frame
  <2>2. wire' \in Seq(Frame)
    BY <1>5, <2>1 DEF NodeAcknowledges, TypeInv, TypeOK
  <2> QED
    BY <1>5, <2>2
       DEF NodeAcknowledges, TypeInv, TypeOK, Connected, callVars, connVars, timeVars, chainVars
<1>6. CASE NodePongs
  <2>1. "pong" \in Frame
    BY DEF Frame
  <2>2. wire' \in Seq(Frame) /\ pinged' = FALSE
    BY <1>6, <2>1 DEF NodePongs, Arrive, TypeInv, TypeOK
  <2> QED
    BY <1>6, <2>2
       DEF NodePongs, TypeInv, TypeOK, Connected, callVars, connVars, timeVars, chainVars
<1>7. CASE Land
  <2>1. "note" \in Frame
    BY DEF Frame
  <2>2. wire' \in Seq(Frame) /\ landed' \in 0 .. MaxLanded
    BY <1>7, <2>1, ConstantAssumption DEF Land, Arrive, TypeInv, TypeOK
  <2> QED
    BY <1>7, <2>2 DEF Land, TypeInv, TypeOK, Connected, callVars, connVars, timeVars
<1>8. CASE GoesDead \/ Breaks \/ Cancel
  BY <1>8, FaultType, ZenonT(30) DEF GoesDead, Breaks, Cancel, TypeInv, TypeOK, Connected, callVars, connVars,
                         timeVars, nodeVars, chainVars
<1> QED
  BY <1>1, <1>2, <1>3, <1>4, <1>5, <1>6, <1>7, <1>8 DEF Environment

LEMMA TypeNext == TypeInv /\ [Next]_vars => TypeInv'
<1> SUFFICES ASSUME TypeInv, [Next]_vars PROVE TypeInv'
  OBVIOUS
<1>1. CASE Next
  BY <1>1, TypeWatcher, TypeOthers DEF Next
<1>2. CASE UNCHANGED vars
  BY <1>2 DEF TypeInv, TypeOK, Connected, vars, callVars, connVars, timeVars, nodeVars, chainVars
<1> QED
  BY <1>1, <1>2

(* Every variable keeps its type: in particular the heartbeat's ticker     *)
(* never runs past its interval (startHeartbeat).                          *)
THEOREM TypeCorrect == Spec => []TypeOK
<1>1. TypeInv => TypeOK
  BY DEF TypeInv
<1> QED
  BY <1>1, TypeInit, TypeNext, PTL DEF Spec

-----------------------------------------------------------------------------
(* What a call leaves behind.                                              *)

(* A signature's notification is handled when its call has returned.       *)
CallOver == pc \in {"dial", "sleep", "ended"} \/ (pc = "handle" /\ kind = "signature")

CallInv ==
    /\ open \subseteq {conn} /\ beats \ stopped \subseteq {conn}
    /\ CallOver => open = {} /\ beats \subseteq stopped

LEMMA CallNext == TypeInv /\ CallInv /\ [Next]_vars => CallInv'
<1> SUFFICES ASSUME TypeInv, CallInv, [Next]_vars PROVE CallInv'
  OBVIOUS
<1>1. CASE Dial
  <2>1. CASE UNCHANGED connVars /\ (Goto("ended") \/ Goto("sleep"))
    BY <1>1, <2>1 DEF Dial, Goto, CallInv, CallOver, connVars
  <2>2. CASE /\ Goto("subscribe") /\ conn' = conn + 1
             /\ open' = open \cup {conn'} /\ beats' = beats \cup {conn'} /\ UNCHANGED stopped
    BY <1>1, <2>2 DEF Dial, Goto, CallInv, CallOver
  <2> QED
    BY <1>1, <2>1, <2>2 DEF Dial
<1>2. CASE Unwind
  <2>1. stopped' = stopped \cup {conn} /\ open' = open \ {conn} /\ UNCHANGED <<conn, beats>>
    BY <1>2 DEF Unwind
  <2> QED
    BY <2>1 DEF CallInv
(* The others start no goroutine and open no connection.                    *)
<1>3. ASSUME UNCHANGED <<conn, stopped>>, open' \subseteq open, beats' \subseteq beats,
             CallOver' => CallOver
      PROVE  CallInv'
  BY <1>3 DEF CallInv
<1>4. CASE subscribe
  BY <1>3, <1>4 DEF subscribe, Take, Goto, CallOver, connVars
<1>5. CASE StreamAccountNotifications \/ WaitSignatureNotification
  BY <1>3, <1>5 DEF StreamAccountNotifications, WaitSignatureNotification, Take, Goto, CallOver,
                    connVars
<1>6. CASE ReadFails \/ onSubscribed \/ Sleep
  BY <1>3, <1>6 DEF ReadFails, onSubscribed, Sleep, Goto, CallOver, connVars
<1>7. CASE Handle
  <2>1. kind' = kind /\ UNCHANGED connVars
    BY <1>7 DEF Handle, callVars
  <2>2. CallOver' => CallOver
    BY <1>7, <2>1 DEF Handle, Goto, CallOver, TypeInv, TypeOK
  <2> QED
    BY <1>3, <2>1, <2>2 DEF connVars
<1>8. CASE Ping
  BY <1>3, <1>8 DEF Ping, CallOver, callVars
<1>9. ASSUME NEW c \in Conn, HeartbeatEnds(c) \/ closeConnOnDone(c) PROVE CallInv'
  BY <1>3, <1>9 DEF HeartbeatEnds, closeConnOnDone, CallOver, callVars
<1>10. CASE Environment \/ Tick
  BY <1>3, <1>10 DEF Environment, NodeRegisters, NodeAcknowledges, NodePongs, Land, GoesDead,
                     Breaks, Cancel, Tick, CallOver, callVars, connVars
<1>11. CASE UNCHANGED vars
  BY <1>3, <1>11 DEF vars, CallOver, callVars, connVars
<1> QED
  BY <1>1, <1>2, <1>4, <1>5, <1>6, <1>7, <1>8, <1>9, <1>10, <1>11 DEF Next, Watcher

(* Between two calls of a watcher no connection is open and no heartbeat   *)
(* runs that was not told to stop, however the calls ended (the deferred   *)
(* calls, ws.go:227-242).                                                  *)
THEOREM NothingIsLeft == Spec => []NothingOutlivesTheCall
<1>1. Init => CallInv
  BY DEF Init, CallInv
<1>2. CallInv => NothingOutlivesTheCall
  BY DEF CallInv, CallOver, NothingOutlivesTheCall
<1> QED
  BY <1>1, <1>2, TypeInit, TypeNext, CallNext, PTL DEF Spec

-----------------------------------------------------------------------------
(* What is on its way.                                                     *)

(* An account's stream is read after the acknowledgement, and a request    *)
(* that is acknowledged stays so until the call ends.                      *)
Acknowledged ==
    /\ InWire("ack") => request = "acked"
    /\ kind = "account" /\ pc \in {"onSubscribed", "read", "handle"} => request = "acked"
    /\ got => kind = "signature"

StreamInv == Acknowledged /\ UnseenIsOnItsWay

LEMMA StreamKept ==
    ASSUME StreamInv, UNCHANGED <<kind, got, pc, wire, request, landed, seen>>, Alive' => Alive
    PROVE  StreamInv'
  BY DEF StreamInv, Acknowledged, UnseenIsOnItsWay, InWire

(* A frame that is read.                                                   *)
LEMMA StreamRead ==
    ASSUME TypeInv, StreamInv, subscribe \/ StreamAccountNotifications \/ WaitSignatureNotification
    PROVE  StreamInv'
<1>0. wire \in Seq(Frame) /\ wire # <<>> /\ wire' = Tail(wire)
      /\ UNCHANGED <<kind, request, open, conn, broken, dead, landed, seen>>
  BY DEF subscribe, StreamAccountNotifications, WaitSignatureNotification, Take, TypeInv, TypeOK,
         connVars, chainVars
<1>1. InWire("ack")' => InWire("ack")
  BY <1>0, TailAdds DEF InWire
<1>2. Head(wire) # "note" => (InWire("note") => InWire("note")')
  BY <1>0, TailKeeps DEF InWire
<1>3. Head(wire) = "ack" => InWire("ack")
  <2>1. 1 \in DOMAIN wire /\ wire[1] = Head(wire)
    BY <1>0
  <2> QED
    BY <2>1 DEF InWire
<1>4. CASE subscribe
  BY <1>0, <1>1, <1>3, <1>4
     DEF subscribe, Take, Goto, StreamInv, Acknowledged, UnseenIsOnItsWay
<1>5. CASE StreamAccountNotifications
  <2>1. pc' = (IF Head(wire) = "note" THEN "handle" ELSE "read") /\ UNCHANGED got
        /\ pc = "read" /\ kind = "account"
    BY <1>5 DEF StreamAccountNotifications, Take, Goto
  <2>2. Acknowledged'
    BY <1>0, <1>1, <2>1 DEF StreamInv, Acknowledged
  <2>3. UnseenIsOnItsWay'
    BY <1>0, <1>2, <2>1 DEF StreamInv, UnseenIsOnItsWay, Alive, InWire
  <2> QED
    BY <2>2, <2>3 DEF StreamInv
<1>6. CASE WaitSignatureNotification
  BY <1>0, <1>1, <1>6
     DEF WaitSignatureNotification, StreamInv, Acknowledged, UnseenIsOnItsWay
<1> QED
  BY <1>4, <1>5, <1>6

(* The node sends something.                                               *)
LEMMA StreamSent ==
    ASSUME TypeInv, StreamInv, NodeRegisters \/ NodeAcknowledges \/ NodePongs \/ Land
    PROVE  StreamInv'
<1>0. wire \in Seq(Frame) /\ UNCHANGED <<kind, got, pc, open, conn, broken, dead, seen>>
      /\ {"ack", "refusal", "note", "pong"} \subseteq Frame
  BY DEF NodeRegisters, NodeAcknowledges, NodePongs, Land, TypeInv, TypeOK, connVars, callVars,
         chainVars, Frame
<1>1. ASSUME NEW new \in Frame, Arrive(new)
      PROVE  /\ InWire("ack")' <=> ("ack" = new \/ InWire("ack"))
             /\ InWire("note")' <=> ("note" = new \/ InWire("note"))
  BY <1>0, <1>1, AppendKeeps DEF Arrive, InWire
<1>2. CASE NodeRegisters
  <2>1. request = "sent" /\ landed' = landed /\ (wire' = wire \/ Arrive("refusal"))
    BY <1>2 DEF NodeRegisters, chainVars
  <2>2. InWire("ack")' => InWire("ack")
    BY <1>0, <1>1, <2>1 DEF InWire
  <2>3. Acknowledged'
    BY <1>0, <2>1, <2>2 DEF StreamInv, Acknowledged
  <2>4. ~ (pc' = "read" /\ kind' = "account")
    BY <1>0, <2>1 DEF StreamInv, Acknowledged
  <2> QED
    BY <2>3, <2>4 DEF StreamInv, UnseenIsOnItsWay
<1>3. CASE NodeAcknowledges
  <2>1. request = "kept" /\ request' = "acked"
    BY <1>3 DEF NodeAcknowledges
  <2>2. ~ (pc' = "read" /\ kind' = "account")
    BY <1>0, <2>1 DEF StreamInv, Acknowledged
  <2>3. Acknowledged'
    BY <1>0, <2>1 DEF StreamInv, Acknowledged
  <2> QED
    BY <2>2, <2>3 DEF StreamInv, UnseenIsOnItsWay
<1>4. CASE NodePongs
  <2>1. Arrive("pong") /\ UNCHANGED <<request, landed>>
    BY <1>4 DEF NodePongs, chainVars
  <2>2. (InWire("ack")' <=> InWire("ack")) /\ (InWire("note")' <=> InWire("note"))
    BY <1>0, <1>1, <2>1
  <2>3. Acknowledged'
    BY <1>0, <2>1, <2>2 DEF StreamInv, Acknowledged
  <2>4. UnseenIsOnItsWay'
    BY <1>0, <2>1, <2>2 DEF StreamInv, UnseenIsOnItsWay, Alive, InWire
  <2> QED
    BY <2>3, <2>4 DEF StreamInv
<1>5. CASE Land
  <2>1. request' = request /\ (wire' = wire \/ Arrive("note"))
        /\ (Alive /\ request = "acked" => Arrive("note"))
    BY <1>5 DEF Land
  <2>2. InWire("ack")' => InWire("ack")
    BY <1>0, <1>1, <2>1 DEF InWire
  <2>3. Acknowledged'
    BY <1>0, <2>1, <2>2 DEF StreamInv, Acknowledged
  <2>4. ASSUME pc' = "read", kind' = "account", Alive' PROVE InWire("note")'
    <3>1. request = "acked" /\ Alive
      BY <1>0, <2>4 DEF StreamInv, Acknowledged, Alive
    <3> QED
      BY <1>0, <1>1, <2>1, <3>1
  <2> QED
    BY <2>3, <2>4 DEF StreamInv, UnseenIsOnItsWay, InWire
<1> QED
  BY <1>2, <1>3, <1>4, <1>5

LEMMA StreamNext == TypeInv /\ StreamInv /\ [Next]_vars => StreamInv'
<1> SUFFICES ASSUME TypeInv, StreamInv, [Next]_vars PROVE StreamInv'
  OBVIOUS
<1>1. CASE Dial
  <2>1. CASE UNCHANGED <<nodeVars, connVars>> /\ (Goto("ended") \/ Goto("sleep"))
    BY <1>1, <2>1
       DEF Dial, Goto, StreamInv, Acknowledged, UnseenIsOnItsWay, InWire, callVars, nodeVars
  <2>2. CASE Goto("subscribe") /\ wire' = <<>>
    BY <1>1, <2>2
       DEF Dial, Goto, StreamInv, Acknowledged, UnseenIsOnItsWay, InWire, callVars
  <2> QED
    BY <1>1, <2>1, <2>2 DEF Dial
<1>2. CASE ReadFails \/ Sleep
  BY <1>2 DEF ReadFails, Sleep, Goto, StreamInv, Acknowledged, UnseenIsOnItsWay, InWire, callVars,
              nodeVars
<1>3. CASE onSubscribed
  <2>1. pc = "onSubscribed" /\ (pc' = "unwind" \/ (pc' = "read" /\ seen' = landed))
        /\ UNCHANGED <<kind, got, wire, request, landed>>
    BY <1>3 DEF onSubscribed, Goto, callVars, nodeVars
  <2>2. landed \in Nat
    BY DEF TypeInv, TypeOK
  <2> QED
    BY <2>1, <2>2 DEF StreamInv, Acknowledged, UnseenIsOnItsWay, InWire
<1>4. CASE Handle
  <2>1. pc = "handle" /\ (pc' # "read" \/ (kind = "account" /\ seen' = landed))
        /\ pc' \in {"read", "ended", "unwind", "sleep"}
        /\ UNCHANGED <<kind, got, wire, request, landed>>
    BY <1>4 DEF Handle, Goto, callVars, nodeVars
  <2>2. landed \in Nat
    BY DEF TypeInv, TypeOK
  <2> QED
    BY <2>1, <2>2 DEF StreamInv, Acknowledged, UnseenIsOnItsWay, InWire
<1>5. CASE Unwind
  BY <1>5 DEF Unwind, Goto, StreamInv, Acknowledged, UnseenIsOnItsWay, InWire
<1>6. CASE Ping \/ \E c \in Conn : HeartbeatEnds(c) \/ closeConnOnDone(c)
  <2>1. UNCHANGED <<kind, got, pc, wire, request, landed, seen, conn, broken, dead>>
        /\ open' \subseteq open
    BY <1>6 DEF Ping, HeartbeatEnds, closeConnOnDone, callVars, nodeVars, chainVars
  <2> QED
    BY <2>1, StreamKept DEF Alive
<1>7. CASE GoesDead \/ Breaks \/ Cancel \/ Tick \/ UNCHANGED vars
  <2>1. UNCHANGED <<kind, got, pc, wire, request, landed, seen, conn, open>>
        /\ (broken => broken') /\ (dead => dead')
    BY <1>7 DEF GoesDead, Breaks, Cancel, Tick, vars, callVars, connVars, nodeVars, chainVars
  <2> QED
    BY <2>1, StreamKept DEF Alive
<1> QED
  BY <1>1, <1>2, <1>3, <1>4, <1>5, <1>6, <1>7, StreamRead, StreamSent
     DEF Next, Watcher, Environment

(* While an account's stream is read, what the watcher has not dealt with  *)
(* is announced by a frame on its way: the backfill of onSubscribed and    *)
(* the notifications leave no gap between them, for any number of          *)
(* transactions landing at any time (ws.go:238-247).                       *)
THEOREM NoGap == Spec => []UnseenIsOnItsWay
<1>1. Init => StreamInv
  BY DEF Init, StreamInv, Acknowledged, UnseenIsOnItsWay, InWire
<1>2. StreamInv => UnseenIsOnItsWay
  BY DEF StreamInv
<1> QED
  BY <1>1, <1>2, TypeInit, TypeNext, StreamNext, PTL DEF Spec

-----------------------------------------------------------------------------
(* The read deadline.                                                      *)

(* A connection that is in use has its heartbeat.                          *)
Beating ==
    conn \in open /\ ~broken /\ ~ctxDone => conn \in beats /\ conn \notin stopped

(* The time since the deadline was refreshed, without what nobody could    *)
(* answer or read, and the time to the next ping, fit in one interval; the *)
(* time to the next ping does not count where an answer is due, which is   *)
(* read first.                                                             *)
Due == pinged \/ dead \/ InWire("pong")

Paced ==
    conn \in open /\ ~broken /\ ~ctxDone
        => PongWait - left + (IF Due THEN 0 ELSE toPing) <= held + PingInterval

PaceInv == Beating /\ Paced

(* A step that is not about time or the heartbeat.                         *)
LEMMA PaceKept ==
    ASSUME PaceInv, TypeInv,
           UNCHANGED <<left, toPing, held>>,
           (conn \in open /\ ~broken /\ ~ctxDone)' =>
               (conn \in open /\ ~broken /\ ~ctxDone) /\ UNCHANGED <<conn, beats, stopped>>,
           Due => Due'
    PROVE  PaceInv'
<1>1. Beating'
  BY DEF PaceInv, Beating
<1>2. toPing \in Nat /\ left \in Int /\ held \in Nat /\ PongWait \in Nat /\ PingInterval \in Nat
  BY Interval DEF TypeInv, TypeOK
<1>3. Paced'
  BY <1>2, Interval DEF PaceInv, Paced
<1> QED
  BY <1>1, <1>3 DEF PaceInv

LEMMA PaceRead ==
    ASSUME PaceInv, TypeInv, wire # <<>>, NEW point, Take(point) PROVE PaceInv'
<1>0. wire \in Seq(Frame) /\ wire' = Tail(wire)
      /\ UNCHANGED <<ctxDone, connVars, toPing, pinged, dead, broken>>
  BY DEF Take, TypeInv, TypeOK
<1>1. CASE Head(wire) = "pong"
  <2>1. left' = PongWait /\ held' = 0
    BY <1>1 DEF Take, configureHeartbeat
  <2>2. toPing' \in 0 .. PingInterval
    BY <1>0 DEF TypeInv, TypeOK
  <2>3. PongWait - left' + (IF Due' THEN 0 ELSE toPing') <= held' + PingInterval
    <3>1. PongWait - left' = 0 /\ held' = 0
      BY <2>1, Interval
    <3>2. CASE Due'
      BY <3>1, <3>2, Interval
    <3>3. CASE ~Due'
      BY <2>2, <3>1, <3>3, Interval
    <3> QED
      BY <3>2, <3>3
  <2> QED
    BY <1>0, <2>3 DEF PaceInv, Beating, Paced, connVars
<1>2. CASE Head(wire) # "pong"
  <2>1. InWire("pong") => InWire("pong")'
    BY <1>0, <1>2, TailKeeps DEF InWire
  <2>2. UNCHANGED <<left, held>>
    BY <1>2 DEF Take, configureHeartbeat
  <2> QED
    BY <1>0, <2>1, <2>2, PaceKept DEF Due, connVars
<1> QED
  BY <1>1, <1>2

LEMMA PaceTick ==
    ASSUME PaceInv, TypeInv, Tick PROVE PaceInv'
<1>0. /\ toPing \in 0 .. PingInterval /\ left \in 0 .. PongWait /\ held \in Nat
      /\ PongWait \in Nat /\ PingInterval \in Nat
  BY Interval DEF TypeInv, TypeOK
<1>1. UNCHANGED <<ctxDone, connVars, wire, pinged, dead, broken>>
  BY DEF Tick, callVars, nodeVars
<1>2. Beating'
  BY <1>1 DEF PaceInv, Beating, connVars
<1>3. ASSUME conn \in open, ~broken, ~ctxDone
      PROVE  PongWait - left' + (IF Due' THEN 0 ELSE toPing') <= held' + PingInterval
  <2>1. conn \in beats
    BY <1>3 DEF PaceInv, Beating
  <2>2. toPing > 0 /\ toPing' = toPing - 1 /\ left' = (IF left = 0 THEN 0 ELSE left - 1)
    BY <2>1 DEF Tick
  <2>3. PongWait - left' <= PongWait - left + 1
    BY <1>0, <2>2
  <2>4. PongWait - left + (IF Due THEN 0 ELSE toPing) <= held + PingInterval
    BY <1>3 DEF PaceInv, Paced
  <2>5. Due' <=> Due
    BY <1>1 DEF Due, InWire
  <2>6. CASE Busy \/ dead
    <3>1. held' = held + 1
      BY <2>6 DEF Tick
    <3> QED
      BY <1>0, <2>2, <2>3, <2>4, <2>5, <3>1
  <2>7. CASE ~ (Busy \/ dead)
    <3>1. held' = held /\ wire = <<>> /\ ~pinged
      BY <1>3, <2>7 DEF Tick, Alive
    <3>2. ~Due
      BY <2>7, <3>1 DEF Due, InWire
    <3> QED
      BY <1>0, <2>2, <2>3, <2>4, <2>5, <3>1, <3>2
  <2> QED
    BY <2>6, <2>7
<1>4. Paced'
  BY <1>1, <1>3 DEF Paced, connVars
<1> QED
  BY <1>2, <1>4 DEF PaceInv

LEMMA PacePing ==
    ASSUME PaceInv, TypeInv, Ping PROVE PaceInv'
<1>0. UNCHANGED <<ctxDone, conn, stopped, left, held, wire, dead, broken>>
  BY DEF Ping, callVars
<1>1. CASE conn \in open /\ ~broken
  <2>1. pinged' = TRUE /\ toPing' = PingInterval /\ toPing = 0 /\ UNCHANGED <<open, beats>>
    BY <1>1 DEF Ping
  <2>2. Due'
    BY <2>1 DEF Due
  <2>3. /\ left \in 0 .. PongWait /\ held \in Nat /\ PongWait \in Nat /\ PingInterval \in Nat
    BY Interval DEF TypeInv, TypeOK
  <2>4. Paced'
    BY <1>0, <2>1, <2>2, <2>3 DEF PaceInv, Paced
  <2> QED
    BY <1>0, <2>1, <2>4 DEF PaceInv, Beating
<1>2. CASE ~ (conn \in open /\ ~broken)
  <2>1. ~ (conn \in open /\ ~broken)'
    BY <1>0, <1>2 DEF Ping
  <2> QED
    BY <2>1 DEF PaceInv, Beating, Paced
<1> QED
  BY <1>1, <1>2

LEMMA PaceNext == TypeInv /\ PaceInv /\ [Next]_vars => PaceInv'
<1> SUFFICES ASSUME TypeInv, PaceInv, [Next]_vars PROVE PaceInv'
  OBVIOUS
<1>1. CASE Dial
  <2>1. CASE UNCHANGED <<connVars, timeVars, nodeVars>>
    BY <1>1, <2>1 DEF Dial, PaceInv, Beating, Paced, Due, InWire, callVars, connVars, timeVars, nodeVars
  <2>2. CASE /\ conn' = conn + 1 /\ beats' = beats \cup {conn'}
             /\ configureHeartbeat(TRUE) /\ toPing' = PingInterval /\ UNCHANGED stopped
    <3>1. conn' \in beats' /\ conn' \notin stopped'
      BY <2>2 DEF TypeInv, TypeOK, Connected
    <3>2. PongWait - left' + (IF Due' THEN 0 ELSE toPing') <= held' + PingInterval
      <4>1. left' = PongWait /\ held' = 0 /\ toPing' = PingInterval
        BY <2>2 DEF configureHeartbeat
      <4> QED
        BY <4>1, Interval
    <3> QED
      BY <3>1, <3>2 DEF PaceInv, Beating, Paced
  <2> QED
    BY <1>1, <2>1, <2>2 DEF Dial
<1>2. CASE subscribe \/ StreamAccountNotifications \/ WaitSignatureNotification
  <2>1. wire # <<>> /\ \E point \in Point : Take(point)
    BY <1>2 DEF subscribe, StreamAccountNotifications, WaitSignatureNotification, Point
  <2> QED
    BY <2>1, PaceRead
<1>3. CASE ReadFails \/ onSubscribed \/ Handle \/ Sleep \/ UNCHANGED vars
  <2>1. UNCHANGED <<callVars, connVars, timeVars, nodeVars>>
    BY <1>3 DEF ReadFails, onSubscribed, Handle, Sleep, vars
  <2> QED
    BY <2>1 DEF PaceInv, Beating, Paced, Due, InWire, callVars, connVars, timeVars, nodeVars
<1>4. CASE Unwind
  <2>1. conn' \notin open'
    BY <1>4 DEF Unwind
  <2> QED
    BY <2>1 DEF PaceInv, Beating, Paced
<1>5. ASSUME NEW c \in Conn, HeartbeatEnds(c) PROVE PaceInv'
  <2>1. UNCHANGED <<ctxDone, conn, open, stopped, timeVars, nodeVars>> /\ beats' = beats \ {c}
        /\ (ctxDone \/ c \in stopped)
    BY <1>5 DEF HeartbeatEnds, callVars
  <2>2. Beating'
    BY <2>1 DEF PaceInv, Beating, nodeVars
  <2>3. Paced'
    BY <2>1 DEF PaceInv, Paced, Due, InWire, timeVars, nodeVars
  <2> QED
    BY <2>2, <2>3 DEF PaceInv
<1>6. ASSUME NEW c \in Conn, closeConnOnDone(c) PROVE PaceInv'
  <2>1. ctxDone'
    BY <1>6 DEF closeConnOnDone, callVars
  <2> QED
    BY <2>1 DEF PaceInv, Beating, Paced
<1>7. CASE NodeRegisters \/ NodeAcknowledges \/ NodePongs \/ Land
  <2>1. UNCHANGED <<ctxDone, connVars, timeVars, dead, broken>>
    BY <1>7 DEF NodeRegisters, NodeAcknowledges, NodePongs, Land, callVars
  <2>2. wire \in Seq(Frame) /\ {"refusal", "note", "pong"} \subseteq Frame
    BY DEF TypeInv, TypeOK, Frame
  <2>3. ASSUME NEW new \in Frame, Arrive(new)
        PROVE  (new = "pong" \/ InWire("pong")) => InWire("pong")'
    BY <2>2, <2>3, AppendKeeps DEF Arrive, InWire
  <2>4. Due => Due'
    <3>1. CASE NodePongs
      <4>1. InWire("pong")'
        BY <2>2, <2>3, <3>1 DEF NodePongs
      <4> QED
        BY <4>1 DEF Due
    <3>2. CASE NodeRegisters \/ Land
      <4>1. InWire("pong") => InWire("pong")'
        BY <2>2, <2>3, <3>2 DEF NodeRegisters, Land, InWire
      <4> QED
        BY <3>2, <4>1 DEF NodeRegisters, Land, Due
    <3>3. CASE NodeAcknowledges
      <4>1. PICK more \in Seq(Frame) : wire' = wire \o more
        <5>1. <<"ack", "note">> \in Seq(Frame) /\ <<"ack">> \in Seq(Frame)
          BY DEF Frame
        <5> QED
          BY <3>3, <5>1 DEF NodeAcknowledges
      <4>2. \A i \in DOMAIN wire : i \in DOMAIN wire' /\ wire'[i] = wire[i]
        BY <2>2, <4>1
      <4>3. InWire("pong") => InWire("pong")'
        BY <4>2 DEF InWire
      <4> QED
        BY <3>3, <4>3 DEF NodeAcknowledges, Due
    <3> QED
      BY <1>7, <3>1, <3>2, <3>3
  <2> QED
    BY <2>1, <2>4, PaceKept DEF connVars, timeVars
<1>8. CASE GoesDead \/ Breaks \/ Cancel
  <2>1. UNCHANGED <<connVars, timeVars, wire, pinged>> /\ (dead => dead') /\ (broken => broken')
        /\ (ctxDone => ctxDone')
    BY <1>8 DEF GoesDead, Breaks, Cancel, callVars, nodeVars
  <2>2. Due => Due'
    BY <2>1 DEF Due, InWire
  <2> QED
    BY <2>1, <2>2, PaceKept DEF connVars, timeVars
<1> QED
  BY <1>1, <1>2, <1>3, <1>4, <1>5, <1>6, <1>7, <1>8, PaceTick, PacePing
     DEF Next, Watcher, Environment

(* For every read deadline, it passes only after two thirds of it went by  *)
(* with nobody to answer a ping, or to read the answer: pings at a third   *)
(* of it keep a connection that works (ws.go:52, 304-340).                 *)
THEOREM DeadlineIsFair == Spec => []DeadlineNeedsSilence
<1>1. Init => PaceInv
  BY DEF Init, PaceInv, Beating, Paced
<1>2. TypeInv /\ PaceInv => DeadlineNeedsSilence
  <2> SUFFICES ASSUME TypeInv, PaceInv, left = 0, conn \in open, ~broken, ~ctxDone
               PROVE  held >= PongWait - PingInterval
    BY DEF DeadlineNeedsSilence
  <2>1. PongWait - left + (IF Due THEN 0 ELSE toPing) <= held + PingInterval
    BY DEF PaceInv, Paced
  <2>2. toPing \in Nat /\ held \in Nat
    BY Interval DEF TypeInv, TypeOK
  <2> QED
    BY <2>1, <2>2, Interval
<1> QED
  BY <1>1, <1>2, TypeInit, TypeNext, PaceNext, PTL DEF Spec
=============================================================================
