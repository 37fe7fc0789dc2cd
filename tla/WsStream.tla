------------------------------ MODULE WsStream ------------------------------
(* A watcher and the WebSocket client under it (pkg/solana/ws.go).  The    *)
(* watcher dials, subscribes, reads frames and handles what they announce, *)
(* and dials again when its call ends with an error.  Every connection     *)
(* comes with two goroutines of its own: a heartbeat that pings, and one   *)
(* that closes the connection when the watcher's context is done.  Time is *)
(* counted in ticks, on the scale of the read deadline.                    *)
EXTENDS Naturals, Sequences

CONSTANTS
    PongWait,   \* ticks until an unrefreshed read deadline passes
    MaxLanded,  \* bound: transactions that land
    MaxFaults   \* bound: faults in one behaviour, all kinds together

ASSUME ConstantAssumption ==
    PongWait \in Nat /\ PongWait >= 3 /\ MaxLanded \in Nat /\ MaxFaults \in Nat

(* NewWSClient: three pings fit in one read deadline.                      *)
PingInterval == PongWait \div 3

Conn  == 1 .. MaxFaults + 1   \* a connection ends by a fault, or is the last
Frame == {"ack", "refusal", "note", "pong"}
Point == {"dial", "subscribe", "onSubscribed", "read", "handle", "unwind",
          "sleep", "ended"}

VARIABLES
    kind,     \* what is watched: an account, or one signature
    ctxDone,  \* the watcher has been cancelled
    pc,       \* the watcher goroutine
    got,      \* the call returns a notification
    conn,     \* connections made so far; the last is the current one
    open,     \* connections not closed by the connector
    beats,    \* connections whose heartbeat goroutine runs
    stopped,  \* connections whose heartbeat has been told to stop
    closers,  \* connections whose closeConnOnDone goroutine waits
    left,     \* ticks until the read deadline
    toPing,   \* ticks until the heartbeat's ticker fires
    wire,     \* frames of the current connection that were not read
    request,  \* the subscription, as the node sees it
    pinged,   \* a ping the node has not answered
    dead,     \* nothing passes on the connection any more, unnoticed
    broken,   \* the node closed the connection
    landed,   \* transactions landed so far
    seen,     \* transactions the watcher has dealt with
    held,     \* history: ticks since the last refresh when no pong could be read
    faults

callVars  == <<kind, ctxDone, got>>
connVars  == <<conn, open, beats, stopped, closers>>
timeVars  == <<left, toPing, held>>
nodeVars  == <<wire, request, pinged, dead, broken>>
chainVars == <<landed, seen>>
vars == <<callVars, pc, connVars, timeVars, nodeVars, chainVars, faults>>

TypeOK ==
    /\ kind \in {"account", "signature"} /\ ctxDone \in BOOLEAN /\ got \in BOOLEAN
    /\ pc \in Point /\ conn \in 0 .. MaxFaults + 1
    /\ open \subseteq Conn /\ beats \subseteq Conn
    /\ stopped \subseteq Conn /\ closers \subseteq Conn
    /\ left \in 0 .. PongWait /\ toPing \in 0 .. PingInterval /\ held \in Nat
    /\ wire \in Seq(Frame) /\ request \in {"none", "sent", "kept", "acked"}
    /\ pinged \in BOOLEAN /\ dead \in BOOLEAN /\ broken \in BOOLEAN
    /\ landed \in 0 .. MaxLanded /\ seen \in 0 .. MaxLanded
    /\ faults \in 0 .. MaxFaults

Goto(point) == pc' = point

Fault == faults < MaxFaults /\ faults' = faults + 1

Reading == pc \in {"subscribe", "read"}

(* The read loop waits for a backfill: nothing is read meanwhile.          *)
Busy == pc = "onSubscribed" \/ (pc = "handle" /\ kind = "account")

(* The node and the connector can reach each other.                        *)
Alive == conn \in open /\ ~broken /\ ~dead

-----------------------------------------------------------------------------
(* The watcher's goroutine.                                                *)

(* With a mistake: the deadline of the pings in place of that of the pongs. *)
configureHeartbeatShort(refresh) ==
    IF refresh THEN left' = PingInterval /\ held' = 0 ELSE UNCHANGED <<left, held>>

(* With a mistake: the deadline is counted from the next ping.             *)
configureHeartbeatLate(refresh) ==
    IF refresh THEN left' = PongWait + PingInterval /\ held' = 0
               ELSE UNCHANGED <<left, held>>

(* configureHeartbeat: the deadline that starts with the connection and    *)
(* starts again with every pong that is read.                              *)
configureHeartbeat(refresh) ==
    IF refresh THEN left' = PongWait /\ held' = 0 ELSE UNCHANGED <<left, held>>

(* connect, the two goroutines, and the request of subscribe.              *)
Dial ==
    /\ pc = "dial"
    /\ \/ /\ ctxDone /\ Goto("ended")
          /\ UNCHANGED <<connVars, timeVars, nodeVars, faults>>
       \/ /\ Fault /\ Goto("sleep")
          /\ UNCHANGED <<connVars, timeVars, nodeVars>>
       \/ /\ ~ctxDone /\ conn + 1 \in Conn
          /\ Goto("subscribe")
          /\ conn' = conn + 1
          /\ open' = open \cup {conn'} /\ beats' = beats \cup {conn'}
          /\ closers' = closers \cup {conn'}
          /\ configureHeartbeat(TRUE) /\ toPing' = PingInterval
          /\ wire' = <<>> /\ request' = "sent"
          /\ pinged' = FALSE /\ dead' = FALSE /\ broken' = FALSE
          /\ UNCHANGED <<stopped, faults>>
    /\ UNCHANGED <<callVars, chainVars>>

(* A frame is read; a pong is dealt with inside the library's read.        *)
Take(point) ==
    /\ wire' = Tail(wire)
    /\ configureHeartbeat(Head(wire) = "pong")
    /\ Goto(point)
    /\ UNCHANGED <<kind, ctxDone, connVars, toPing, request, pinged, dead, broken,
                   chainVars, faults>>

(* subscribe waits for the answer to its own request and throws away what  *)
(* comes before.                                                           *)
subscribe ==
    /\ pc = "subscribe" /\ wire # <<>> /\ UNCHANGED got
    /\ \/ Head(wire) = "ack" /\ Take(IF kind = "account" THEN "onSubscribed" ELSE "read")
       \/ Head(wire) = "refusal" /\ Take("unwind")
       \/ Head(wire) \in {"note", "pong"} /\ Take("subscribe")

(* The loop of StreamAccountNotifications.                                 *)
StreamAccountNotifications ==
    /\ pc = "read" /\ kind = "account" /\ wire # <<>> /\ UNCHANGED got
    /\ Take(IF Head(wire) = "note" THEN "handle" ELSE "read")

(* The loop of WaitSignatureNotification, which the first one ends.        *)
WaitSignatureNotification ==
    /\ pc = "read" /\ kind = "signature" /\ wire # <<>>
    /\ got' = (Head(wire) = "note")
    /\ Take(IF Head(wire) = "note" THEN "unwind" ELSE "read")

(* With a mistake: a connection without a read deadline.                   *)
ReadFailsWhenClosed ==
    /\ Reading
    /\ conn \notin open \/ (broken /\ wire = <<>>)
    /\ Goto("unwind")
    /\ UNCHANGED <<callVars, connVars, timeVars, nodeVars, chainVars, faults>>

(* A read fails: the connection was closed here, or by the node, or its    *)
(* read deadline has passed.  A frame that is buffered may come first.     *)
ReadFails ==
    /\ Reading
    /\ conn \notin open \/ left = 0 \/ (broken /\ wire = <<>>)
    /\ Goto("unwind")
    /\ UNCHANGED <<callVars, connVars, timeVars, nodeVars, chainVars, faults>>

(* With a mistake: the stream relies on the backfill before it.            *)
BackfillOnce ==
    /\ pc = "onSubscribed" /\ Goto("read") /\ UNCHANGED <<seen, faults>>
    /\ UNCHANGED <<callVars, connVars, timeVars, nodeVars, landed>>

(* onSubscribed, the backfill that covers what landed before the node      *)
(* started to notify.                                                      *)
onSubscribed ==
    /\ pc = "onSubscribed"
    /\ \/ Goto("read") /\ seen' = landed /\ UNCHANGED faults
       \/ Fault /\ Goto("unwind") /\ UNCHANGED seen
    /\ UNCHANGED <<callVars, connVars, timeVars, nodeVars, landed>>

(* The handler of an account, a backfill within the read loop, and what    *)
(* runTxWatcher does with the notification its call has returned.          *)
Handle ==
    /\ pc = "handle"
    /\ \/ /\ seen' = landed /\ UNCHANGED faults
          /\ Goto(IF kind = "account" THEN "read" ELSE "ended")
       \/ /\ Fault /\ UNCHANGED seen
          /\ Goto(IF kind = "account" THEN "unwind" ELSE "sleep")
    /\ UNCHANGED <<callVars, connVars, timeVars, nodeVars, landed>>

(* With a mistake: the connection is left to the garbage collector.        *)
UnwindWithoutClose ==
    /\ pc = "unwind"
    /\ stopped' = stopped \cup {conn}
    /\ wire' = <<>> /\ request' = "none"
    /\ Goto(IF got THEN "handle" ELSE "sleep") /\ got' = FALSE
    /\ UNCHANGED <<kind, ctxDone, conn, open, beats, closers, timeVars, pinged, dead,
                   broken, chainVars, faults>>

(* The deferred calls: unsubscribe, stopHeartbeat and Close.               *)
Unwind ==
    /\ pc = "unwind"
    /\ stopped' = stopped \cup {conn} /\ open' = open \ {conn}
    /\ wire' = <<>> /\ request' = "none"
    /\ Goto(IF got THEN "handle" ELSE "sleep") /\ got' = FALSE
    /\ UNCHANGED <<kind, ctxDone, conn, beats, closers, timeVars, pinged, dead,
                   broken, chainVars, faults>>

(* sleepWithContext, after an error.                                       *)
Sleep ==
    /\ pc = "sleep"
    /\ Goto(IF ctxDone THEN "ended" ELSE "dial")
    /\ UNCHANGED <<callVars, connVars, timeVars, nodeVars, chainVars, faults>>

Watcher ==
    \/ Dial \/ subscribe \/ StreamAccountNotifications \/ WaitSignatureNotification
    \/ ReadFails \/ onSubscribed \/ Handle \/ Unwind \/ Sleep

-----------------------------------------------------------------------------
(* The other two goroutines of a connection.                               *)

(* The heartbeat of startHeartbeat: it sends a ping when its ticker fires, *)
(* closes a connection it cannot write to, and ends when it is told to.    *)
Ping ==
    /\ conn \in beats /\ toPing = 0
    /\ IF conn \in open /\ ~broken
       THEN /\ pinged' = TRUE /\ toPing' = PingInterval
            /\ UNCHANGED <<open, beats>>
       ELSE /\ open' = open \ {conn} /\ beats' = beats \ {conn}
            /\ UNCHANGED <<pinged, toPing>>
    /\ UNCHANGED <<callVars, pc, conn, stopped, closers, left, held, wire, request,
                   dead, broken, chainVars, faults>>

HeartbeatEnds(c) ==
    /\ c \in beats /\ (ctxDone \/ c \in stopped)
    /\ beats' = beats \ {c}
    /\ UNCHANGED <<callVars, pc, conn, open, stopped, closers, timeVars, nodeVars,
                   chainVars, faults>>

(* With a mistake: the goroutine ends without closing the connection.      *)
closeConnOnDoneIdle(c) ==
    /\ c \in closers /\ ctxDone
    /\ closers' = closers \ {c} /\ UNCHANGED open
    /\ UNCHANGED <<callVars, pc, conn, beats, stopped, timeVars, nodeVars, chainVars,
                   faults>>

closeConnOnDone(c) ==
    /\ c \in closers /\ ctxDone
    /\ closers' = closers \ {c} /\ open' = open \ {c}
    /\ UNCHANGED <<callVars, pc, conn, beats, stopped, timeVars, nodeVars, chainVars,
                   faults>>

-----------------------------------------------------------------------------
(* The node, the network and time.                                         *)

Arrive(frame) == wire' = Append(wire, frame)

(* The node registers the subscription, or refuses it; what lands from now *)
(* on is notified, even ahead of the acknowledgement.                      *)
NodeRegisters ==
    /\ Alive /\ request = "sent"
    /\ \/ request' = "kept" /\ UNCHANGED <<wire, faults>>
       \/ Fault /\ request' = "none" /\ Arrive("refusal")
    /\ UNCHANGED <<callVars, pc, connVars, timeVars, pinged, dead, broken, chainVars>>

(* A signature that is confirmed already is notified at once.              *)
NodeAcknowledges ==
    /\ Alive /\ request = "kept" /\ request' = "acked"
    /\ wire' = wire \o (IF kind = "signature" /\ landed > 0 THEN <<"ack", "note">>
                                                           ELSE <<"ack">>)
    /\ UNCHANGED <<callVars, pc, connVars, timeVars, pinged, dead, broken, chainVars,
                   faults>>

NodePongs ==
    /\ Alive /\ pinged /\ pinged' = FALSE /\ Arrive("pong")
    /\ UNCHANGED <<callVars, pc, connVars, timeVars, request, dead, broken, chainVars,
                   faults>>

(* A signature lands once.                                                 *)
Land ==
    /\ landed < (IF kind = "account" THEN MaxLanded ELSE 1) /\ landed < MaxLanded
    /\ landed' = landed + 1
    /\ IF Alive /\ (request = "acked" \/ (request = "kept" /\ kind = "account"))
       THEN Arrive("note") ELSE UNCHANGED wire
    /\ UNCHANGED <<callVars, pc, connVars, timeVars, request, pinged, dead, broken,
                   seen, faults>>

(* The connection is gone, and the connector is not told, or is.           *)
GoesDead ==
    /\ Alive /\ Fault /\ dead' = TRUE
    /\ UNCHANGED <<callVars, pc, connVars, timeVars, wire, request, pinged, broken,
                   chainVars>>

Breaks ==
    /\ Alive /\ Fault /\ broken' = TRUE
    /\ UNCHANGED <<callVars, pc, connVars, timeVars, wire, request, pinged, dead,
                   chainVars>>

Cancel ==
    /\ ~ctxDone /\ ctxDone' = TRUE
    /\ UNCHANGED <<kind, got, pc, connVars, timeVars, nodeVars, chainVars, faults>>

(* A tick passes when nobody who is prompt has anything to do: the read    *)
(* loop has read what arrived, the heartbeat has pinged and a live node    *)
(* has answered.  A backfill may take any time, and a tick of it counts as *)
(* a fault.                                                                *)
Tick ==
    /\ pc # "dial" /\ pc # "sleep" /\ pc # "ended" /\ pc # "unwind"
    /\ \/ Busy /\ Fault
       \/ Reading /\ wire = <<>> /\ conn \in open /\ ~broken /\ left > 0 /\ UNCHANGED faults
    /\ conn \in beats => toPing > 0
    /\ ~(Alive /\ (pinged \/ request \in {"sent", "kept"}))
    /\ left' = IF left = 0 THEN 0 ELSE left - 1
    /\ toPing' = IF conn \in beats THEN toPing - 1 ELSE toPing
    /\ held' = IF Busy \/ dead THEN held + 1 ELSE held
    /\ UNCHANGED <<callVars, pc, connVars, nodeVars, chainVars>>

Environment ==
    NodeRegisters \/ NodeAcknowledges \/ NodePongs \/ Land \/ GoesDead \/ Breaks \/ Cancel

-----------------------------------------------------------------------------
Init ==
    /\ kind \in {"account", "signature"} /\ ctxDone = FALSE /\ got = FALSE
    /\ pc = "dial" /\ conn = 0
    /\ open = {} /\ beats = {} /\ stopped = {} /\ closers = {}
    /\ left = PongWait /\ toPing = PingInterval /\ held = 0
    /\ wire = <<>> /\ request = "none"
    /\ pinged = FALSE /\ dead = FALSE /\ broken = FALSE
    /\ landed = 0 /\ seen = 0 /\ faults = 0

Next ==
    \/ Watcher \/ Ping \/ Environment \/ Tick
    \/ \E c \in Conn : HeartbeatEnds(c) \/ closeConnOnDone(c)

Spec == Init /\ [][Next]_vars

(* Goroutines run, a live node answers, and time passes until the watcher  *)
(* is cancelled: from then on nothing may wait for a deadline.  What lands, *)
(* what fails and who cancels is left open.                                *)
LiveSpec ==
    /\ Spec
    /\ WF_vars(Watcher) /\ WF_vars(Ping) /\ WF_vars(~ctxDone /\ Tick)
    /\ WF_vars(NodeRegisters \/ NodeAcknowledges) /\ WF_vars(NodePongs)
    /\ \A c \in Conn : WF_vars(HeartbeatEnds(c)) /\ WF_vars(closeConnOnDone(c))

-----------------------------------------------------------------------------
(* Properties.                                                             *)

(* A call leaves no connection behind, and no heartbeat that nobody has    *)
(* told to stop: reconnecting does not pile them up (the deferred calls,   *)
(* ws.go:227-242).                                                         *)
NothingOutlivesTheCall ==
    /\ open \subseteq {conn} /\ beats \ stopped \subseteq {conn}
    /\ pc \in {"dial", "sleep", "ended"} => open = {} /\ beats \subseteq stopped

(* While an account's stream is read, what the watcher has not dealt with  *)
(* is announced by a frame on its way: the backfill of onSubscribed comes  *)
(* after the node has begun to notify (ws.go:238-247).                     *)
UnseenIsOnItsWay ==
    pc = "read" /\ kind = "account" /\ Alive /\ seen < landed
        => \E i \in DOMAIN wire : wire[i] = "note"

(* A read deadline passes only after two thirds of it went by with nobody  *)
(* to answer a ping, or to read the answer (ws.go:52, 304-340).            *)
DeadlineNeedsSilence ==
    left = 0 /\ conn \in open /\ ~broken /\ ~ctxDone
        => held >= PongWait - PingInterval

(* However connections die, a transaction that landed is dealt with, or    *)
(* the watcher is cancelled: a connection that died in silence is noticed  *)
(* (ws.go:304-340, S:373-395).                                             *)
LandedIsSeen ==
    \A n \in 1 .. MaxLanded : landed >= n ~> seen >= n \/ ctxDone

(* A watcher that is cancelled ends, and so do the goroutines and the      *)
(* connections of all its calls (ws.go:384, S:290, 761).                   *)
CancelEndsEverything ==
    ctxDone ~> pc = "ended" /\ open = {} /\ beats = {} /\ closers = {}
=============================================================================
