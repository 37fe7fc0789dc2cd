------------------------- MODULE ChainQueriesProofs -------------------------
(***************************************************************************)
(* The invariants of a query and its RPC calls, for any number of          *)
(* endpoints, retries and faults.                                          *)
(***************************************************************************)
EXTENDS ChainQueries, Integers, TLAPS

LEMMA Remainder == ASSUME NEW a \in Nat, NEW n \in Nat \ {0} PROVE a % n \in 0 .. n - 1
  OBVIOUS

(* The endpoint of an attempt exists, wherever the index is.               *)
LEMMA PickInRange ==
    ASSUME nextIndex \in Nat, endpoints \in Nat \ {0}, NEW n \in Nat
    PROVE  pickEndpoint(n) \in E
<1>1. nextIndex % endpoints \in Nat
  BY Remainder
<1>2. (nextIndex % endpoints) + n \in Nat
  BY <1>1
<1> QED
  BY <1>2, Remainder DEF pickEndpoint, E

LEMMA AttemptsType ==
    ASSUME endpoints \in Nat \ {0} PROVE maxAttempts \in Nat
  BY ConstantAssumption DEF maxAttempts

(* What the queries make of a reply has the type of an answer, and takes   *)
(* nothing for absent but what a reply said is absent.                     *)
LEMMA ResultFacts ==
    ASSUME op \in Op, NEW reply \in Reply
    PROVE  /\ Result(reply) \in Answer
           /\ Result(reply).status = 200 /\ ~Result(reply).full => reply \in {"null", "not found"}
<1> DEFINE Fits(a) == a \in Answer /\ (a.status = 200 /\ ~a.full => reply \in {"null", "not found"})
<1>1. Fits(fail)
  BY DEF fail, Answer
<1>2. ASSUME NEW found \in BOOLEAN, NEW full \in BOOLEAN, full \/ reply \in {"null", "not found"}
      PROVE  Fits(ok(found, full))
  BY <1>2 DEF ok, Answer
<1>3. reply = "failed" \/ reply = "value" \/ reply \in {"null", "not found"}
  BY DEF Reply
<1> HIDE DEF Fits
<1>4. ASSUME NEW found \in BOOLEAN, reply # "failed" PROVE Fits(ok(found, reply = "value"))
  <2>1. (reply = "value") \in BOOLEAN
    OBVIOUS
  <2>2. (reply = "value") \/ reply \in {"null", "not found"}
    BY <1>3, <1>4
  <2> QED
    BY <1>2, <2>1, <2>2
<1>5. Fits(GetTransactionReceipt(reply))
  <2>1. (reply # "not found") \in BOOLEAN
    OBVIOUS
  <2>2. CASE reply = "failed"
    BY <1>1, <2>2 DEF GetTransactionReceipt
  <2>3. CASE reply # "failed"
    <3>1. GetTransactionReceipt(reply) = ok(reply # "not found", reply = "value")
      BY <2>3 DEF GetTransactionReceipt
    <3> QED
      BY <1>4, <2>1, <2>3, <3>1
  <2> QED
    BY <2>2, <2>3
<1>6. Fits(GetSignatureStatus(reply)) /\ Fits(GetBlockTime(reply))
  <2>1. (reply = "value") \in BOOLEAN
    OBVIOUS
  <2>2. CASE reply = "failed"
    BY <1>1, <2>2 DEF GetSignatureStatus, GetBlockTime
  <2>3. CASE reply # "failed"
    <3>1. GetBlockTime(reply) = ok(reply = "value", reply = "value")
          /\ GetSignatureStatus(reply) \in {fail, ok(reply = "value", reply = "value")}
      BY <2>3 DEF GetSignatureStatus, GetBlockTime
    <3>2. Fits(ok(reply = "value", reply = "value"))
      BY <1>4, <2>1, <2>3
    <3> QED
      BY <1>1, <3>1, <3>2
  <2> QED
    BY <2>2, <2>3
<1>8. Fits(Amount(reply))
  <2>1. Fits(ok(TRUE, TRUE))
    BY <1>2
  <2> QED
    BY <1>1, <2>1 DEF Amount
<1>7. \/ Result(reply) = fail \/ Result(reply) = Amount(reply)
      \/ Result(reply) = GetTransactionReceipt(reply)
      \/ Result(reply) = GetSignatureStatus(reply) \/ Result(reply) = GetBlockTime(reply)
  <2>1. CASE op = "tx-query"
    BY <2>1 DEF Result
  <2>2. CASE op = "signature-status"
    BY <2>2 DEF Result
  <2>3. CASE op = "latest-block"
    BY <2>3 DEF Result
  <2>4. CASE op = "address-balance"
    BY <2>4 DEF Result, GetAddressBalance
  <2>5. CASE op = "token-balance"
    BY <2>5 DEF Result, GetTokenBalance
  <2>6. CASE op = "token-supply"
    BY <2>6 DEF Result, GetTokenSupply
  <2> QED
    BY <2>1, <2>2, <2>3, <2>4, <2>5, <2>6 DEF Op
<1>9. Fits(Result(reply))
  BY <1>1, <1>5, <1>6, <1>7, <1>8
<1> QED
  BY <1>9 DEF Fits

-----------------------------------------------------------------------------
(* Before a query is answered it has failed.                               *)
Said == phase # "answered" => answer = fail

(* An attempt under way is one of the attempts of its call.                *)
Trying == phase \in {"asked", "backoff"} => attempt < maxAttempts

QueryInv == TypeOK /\ Said /\ Trying /\ AbsenceIsSaid

LEMMA FailIsAnswer == fail \in Answer /\ fail.status # 200
  BY DEF fail, Answer

(* A call returns with a reply.                                            *)
LEMMA ReturnKeeps ==
    ASSUME QueryInv, NEW reply \in Reply, Return(reply),
           UNCHANGED <<endpoints, nextIndex, view, op, gone>>, must' \in BOOLEAN,
           faults' \in 0 .. MaxFaults
    PROVE  QueryInv'
<1>1. answer' = Result(reply) /\ heard' = heard \cup {reply} /\ phase' = "answered"
      /\ UNCHANGED <<slot, at, attempt, asked, alone>>
  BY DEF Return
<1>2. /\ answer' \in Answer
      /\ answer'.status = 200 /\ ~answer'.full => reply \in {"null", "not found"}
  BY <1>1, ResultFacts DEF QueryInv, TypeOK
<1>3. heard' \subseteq Reply
  BY <1>1 DEF QueryInv, TypeOK
<1>4. UNCHANGED <<E, maxAttempts>>
  BY DEF E, maxAttempts
<1>5. TypeOK'
  BY <1>1, <1>2, <1>3, <1>4 DEF QueryInv, TypeOK
<1>6. AbsenceIsSaid'
  BY <1>1, <1>2 DEF AbsenceIsSaid
<1> QED
  BY <1>1, <1>5, <1>6 DEF QueryInv, Said, Trying

(* A step within a call.                                                   *)
LEMMA AskKeeps ==
    ASSUME QueryInv, UNCHANGED <<endpoints, op, answer>>,
           nextIndex' \in 0 .. IndexMod - 1, view' \in [E -> 0 .. MaxSlot],
           phase' \in {"idle", "pick", "asked", "backoff"}, phase # "answered",
           slot' \in 0 .. NoSlot, at' \in E, attempt' \in 0 .. maxAttempts, must' \in BOOLEAN,
           gone' \in BOOLEAN, asked' \subseteq E, heard' \subseteq Reply, alone' \in BOOLEAN,
           faults' \in 0 .. MaxFaults, phase' \in {"asked", "backoff"} => attempt' < maxAttempts
    PROVE  QueryInv'
<1>1. UNCHANGED <<E, maxAttempts>>
  BY DEF E, maxAttempts
<1>2. TypeOK'
  BY <1>1 DEF QueryInv, TypeOK
<1> QED
  BY <1>1, <1>2 DEF QueryInv, Said, Trying, AbsenceIsSaid

LEMMA CallEndpointKeeps ==
    ASSUME QueryInv, NEW reply \in Reply, callEndpoint(reply), faults' \in 0 .. MaxFaults
    PROVE  QueryInv'
<1>0. /\ at \in E /\ view \in [E -> 0 .. MaxSlot] /\ nextIndex \in 0 .. IndexMod - 1
      /\ slot \in 0 .. NoSlot /\ attempt \in 0 .. maxAttempts /\ must \in BOOLEAN
      /\ gone \in BOOLEAN /\ asked \subseteq E /\ heard \subseteq Reply /\ alone \in BOOLEAN
      /\ maxAttempts \in Nat
  BY AttemptsType DEF QueryInv, TypeOK
<1>1. phase = "asked" /\ UNCHANGED <<endpoints, nextIndex, view, op, gone>>
  BY DEF callEndpoint
<1>2. CASE reply = "failed"
  <2>1. heard' = heard \cup {reply} /\ phase' = "backoff" /\ must' = gone
        /\ UNCHANGED <<answer, slot, at, attempt, asked, alone>>
    BY <1>2 DEF callEndpoint
  <2>2. heard' \subseteq Reply
    BY <1>0, <2>1
  <2> QED
    BY <1>0, <1>1, <2>1, <2>2, AskKeeps DEF QueryInv, Trying
<1>3. CASE reply # "failed" /\ GetLatestBlock /\ must' = must
  <2>1. slot' \in 0 .. NoSlot /\ attempt' \in 0 .. maxAttempts
    <3>1. slot' = view[at] /\ view[at] \in 0 .. MaxSlot /\ attempt' = 0
      BY <1>0, <1>3 DEF GetLatestBlock
    <3> QED
      BY <1>0, <3>1, ConstantAssumption DEF NoSlot
  <2>2. asked' = {} /\ heard' = {} /\ alone' = TRUE /\ phase' = "pick" /\ UNCHANGED <<at, answer>>
    BY <1>3 DEF GetLatestBlock
  <2> QED
    BY <1>0, <1>1, <1>3, <2>1, <2>2, AskKeeps
<1>4. CASE reply # "failed" /\ Return(reply) /\ must' = must
  BY <1>0, <1>1, <1>4, ReturnKeeps
<1> QED
  BY <1>2, <1>3, <1>4 DEF callEndpoint

LEMMA QueryNext == QueryInv /\ [Next]_vars => QueryInv'
<1> SUFFICES ASSUME QueryInv, [Next]_vars PROVE QueryInv'
  OBVIOUS
<1>0. /\ at \in E /\ view \in [E -> 0 .. MaxSlot] /\ nextIndex \in 0 .. IndexMod - 1
      /\ slot \in 0 .. NoSlot /\ attempt \in 0 .. maxAttempts /\ must \in BOOLEAN
      /\ gone \in BOOLEAN /\ asked \subseteq E /\ heard \subseteq Reply /\ alone \in BOOLEAN
      /\ faults \in 0 .. MaxFaults /\ maxAttempts \in Nat
      /\ phase \in {"idle", "pick", "asked", "backoff", "answered"}
  BY AttemptsType DEF QueryInv, TypeOK
<1>1. (nextIndex + 1) % IndexMod \in 0 .. IndexMod - 1
  <2>1. nextIndex + 1 \in Nat
    BY <1>0
  <2> QED
    BY <2>1, Remainder, ConstantAssumption
<1>2. {"failed", "not found", "null", "value"} = Reply
  BY DEF Reply
<1>3. CASE Request
  <2>1. UNCHANGED <<endpoints, nextIndex, view, op, must, answer, gone, slot, at, attempt,
                    asked, heard, faults>> /\ alone' = TRUE /\ phase = "idle"
    BY <1>3 DEF Request
  <2>2. CASE phase' = "pick"
    BY <1>0, <2>1, <2>2, AskKeeps
  <2>3. CASE phase' = "answered"
    <3>1. answer' = fail
      BY <2>1 DEF QueryInv, Said
    <3>2. UNCHANGED <<E, maxAttempts>>
      BY <2>1 DEF E, maxAttempts
    <3>3. TypeOK'
      BY <2>1, <2>3, <3>2 DEF QueryInv, TypeOK
    <3> QED
      BY <2>3, <3>1, <3>3, FailIsAnswer DEF QueryInv, Said, Trying, AbsenceIsSaid
  <2> QED
    BY <1>3, <2>2, <2>3 DEF Request
<1>4. CASE Call
  <2>1. /\ UNCHANGED <<endpoints, view, op, must, answer, gone, slot, attempt, heard, alone, faults>>
        /\ nextIndex' = (nextIndex + 1) % IndexMod /\ at' = pickEndpoint(attempt)
        /\ asked' = asked \cup {at'} /\ phase = "pick" /\ phase' = "asked"
        /\ attempt < maxAttempts
    BY <1>4 DEF Call
  <2>2. at' \in E
    <3>1. nextIndex \in Nat /\ endpoints \in Nat \ {0} /\ attempt \in Nat
      BY <1>0, ConstantAssumption DEF QueryInv, TypeOK
    <3> QED
      BY <2>1, <3>1, PickInRange
  <2>3. asked' \subseteq E
    BY <1>0, <2>1, <2>2
  <2> QED
    BY <1>0, <1>1, <2>1, <2>2, <2>3, AskKeeps
<1>5. CASE GiveUp
  <2>1. Return("failed") /\ UNCHANGED <<endpoints, nextIndex, view, op, must, gone, faults>>
    BY <1>5 DEF GiveUp
  <2> QED
    BY <1>0, <1>2, <2>1, ReturnKeeps
<1>6. CASE Backoff
  <2>1. UNCHANGED <<endpoints, nextIndex, view, op, must, gone, faults>> /\ phase = "backoff"
    BY <1>6 DEF Backoff
  <2>2. CASE Return("failed")
    BY <1>0, <1>2, <2>1, <2>2, ReturnKeeps
  <2>3. CASE phase' = "pick" /\ attempt' = attempt + 1
             /\ UNCHANGED <<answer, slot, at, asked, heard, alone>>
    <3>1. attempt' \in 0 .. maxAttempts
      BY <1>0, <2>1, <2>3 DEF QueryInv, Trying
    <3> QED
      BY <1>0, <2>1, <2>3, <3>1, AskKeeps
  <2> QED
    BY <1>6, <2>2, <2>3 DEF Backoff
<1>7. CASE NodeAnswers \/ AttemptFails
  <2>1. faults' \in 0 .. MaxFaults
    <3>1. faults' = faults \/ (faults < MaxFaults /\ faults' = faults + 1)
      BY <1>7 DEF NodeAnswers, AttemptFails
    <3> QED
      BY <1>0, <3>1, ConstantAssumption
  <2>2. \E reply \in Reply : callEndpoint(reply)
    <3>1. CASE NodeAnswers
      <4>1. (IF Has THEN {"value"} ELSE {"null", "not found"}) \subseteq Reply
        BY <1>2
      <4> QED
        BY <3>1, <4>1 DEF NodeAnswers
    <3>2. CASE AttemptFails
      BY <1>2, <3>2 DEF AttemptFails
    <3> QED
      BY <1>7, <3>1, <3>2
  <2> QED
    BY <2>1, <2>2, CallEndpointKeeps
<1>8. CASE OtherCalls
  <2>1. UNCHANGED <<endpoints, view, op, phase, must, answer, gone, slot, at, attempt, asked,
                    heard, faults>>
        /\ nextIndex' = (nextIndex + 1) % IndexMod /\ alone' = FALSE
        /\ phase \in {"pick", "asked", "backoff"}
    BY <1>8 DEF OtherCalls
  <2>2. phase' \in {"asked", "backoff"} => attempt' < maxAttempts
    BY <2>1 DEF QueryInv, Trying
  <2> QED
    BY <1>0, <1>1, <2>1, <2>2, AskKeeps
<1>9. CASE Advance
  <2>1. view' \in [E -> 0 .. MaxSlot]
    <3>1. PICK e \in E : view[e] < MaxSlot /\ view' = [view EXCEPT ![e] = @ + 1]
      BY <1>9 DEF Advance
    <3>2. view[e] + 1 \in 0 .. MaxSlot
      BY <1>0, <3>1, ConstantAssumption
    <3> QED
      BY <1>0, <3>1, <3>2
  <2>2. UNCHANGED <<endpoints, nextIndex, op, phase, must, answer, gone, callVars, faults>>
    BY <1>9 DEF Advance
  <2>3. UNCHANGED <<E, maxAttempts>>
    BY <2>2 DEF E, maxAttempts
  <2>4. TypeOK'
    BY <2>1, <2>2, <2>3 DEF QueryInv, TypeOK, callVars
  <2> QED
    BY <2>2, <2>3, <2>4 DEF QueryInv, Said, Trying, AbsenceIsSaid, callVars
<1>10. CASE Leave
  <2>1. UNCHANGED <<endpoints, nextIndex, view, op, phase, must, answer, callVars, faults>>
        /\ gone' = TRUE
    BY <1>10 DEF Leave
  <2>2. UNCHANGED <<E, maxAttempts>>
    BY <2>1 DEF E, maxAttempts
  <2>3. TypeOK'
    BY <2>1, <2>2 DEF QueryInv, TypeOK, callVars
  <2> QED
    BY <2>1, <2>2, <2>3 DEF QueryInv, Said, Trying, AbsenceIsSaid, callVars
<1>11. CASE UNCHANGED vars
  <2>1. UNCHANGED <<E, maxAttempts>>
    BY <1>11 DEF E, maxAttempts, vars
  <2>2. TypeOK'
    BY <1>11, <2>1 DEF QueryInv, TypeOK, vars, callVars
  <2> QED
    BY <1>11, <2>1, <2>2 DEF QueryInv, Said, Trying, AbsenceIsSaid, vars, callVars
<1> QED
  BY <1>3, <1>4, <1>5, <1>6, <1>7, <1>8, <1>9, <1>10, <1>11 DEF Next, Client

LEMMA QueryInit == Init => QueryInv
<1> SUFFICES ASSUME Init PROVE QueryInv
  OBVIOUS
<1>1. endpoints \in Nat \ {0} /\ 0 \in E /\ maxAttempts \in Nat
  BY ConstantAssumption, AttemptsType DEF Init, E
<1>2. NoSlot \in 0 .. NoSlot
  BY ConstantAssumption DEF NoSlot
<1>3. 0 \in 0 .. maxAttempts /\ 0 \in 0 .. MaxFaults
  BY <1>1, ConstantAssumption
<1>4. TypeOK
  BY <1>1, <1>2, <1>3, FailIsAnswer DEF Init, TypeOK
<1> QED
  BY <1>4 DEF Init, QueryInv, Said, Trying, AbsenceIsSaid

(* Every variable keeps its type: the endpoint of an attempt exists, for   *)
(* any number of endpoints and wherever the shared index is, also when it  *)
(* wraps (pickEndpoint, rpc.go:79-82).                                     *)
THEOREM TypeCorrect == Spec => []TypeOK
<1>1. QueryInv => TypeOK
  BY DEF QueryInv
<1> QED
  BY <1>1, QueryInit, QueryNext, PTL DEF Spec

(* Nothing is said to be absent that no node has said is absent, whatever  *)
(* attempts failed and whoever gave up (chain_service.go:379, 410, 512).   *)
THEOREM OnlySaidIsAbsent == Spec => []AbsenceIsSaid
<1>1. QueryInv => AbsenceIsSaid
  BY DEF QueryInv
<1> QED
  BY <1>1, QueryInit, QueryNext, PTL DEF Spec

-----------------------------------------------------------------------------
(* Remainders: that the one of a division is the only one, and what a walk *)
(* in steps of two comes by.                                               *)

(* Division, and that its remainder is the only one.                       *)
LEMMA Division ==
    ASSUME NEW a \in Int, NEW n \in Nat \ {0}
    PROVE  /\ a % n \in 0 .. n - 1 /\ a \div n \in Int
           /\ a = n * (a \div n) + (a % n)
  OBVIOUS

LEMMA SmallMultiple ==
    ASSUME NEW n \in Nat \ {0}, NEW q \in Int, n * q < n, n * q > 0 - n
    PROVE  q = 0
<1>1. CASE q >= 1
  <2>1. PICK k \in Nat : q = k + 1
    BY <1>1
  <2>2. n * k \in Nat /\ n * (k + 1) = n * k + n
    OBVIOUS
  <2> QED
    BY <2>1, <2>2
<1>2. CASE q <= 0 - 1
  <2>1. PICK k \in Nat : q = 0 - k - 1
    <3>1. 0 - q - 1 \in Nat /\ q = 0 - (0 - q - 1) - 1
      BY <1>2
    <3> QED
      BY <3>1
  <2>2. n * k \in Nat /\ n * (0 - k - 1) = 0 - n * k - n
    OBVIOUS
  <2> QED
    BY <2>1, <2>2
<1> QED
  BY <1>1, <1>2

LEMMA OneRemainder ==
    ASSUME NEW n \in Nat \ {0}, NEW q \in Int, NEW r \in 0 .. n - 1
    PROVE  (n * q + r) % n = r
<1> DEFINE a == n * q + r
<1>1. a \in Int
  OBVIOUS
<1>2. /\ a % n \in 0 .. n - 1 /\ a \div n \in Int
      /\ a = n * (a \div n) + (a % n)
  BY <1>1, Division
<1> DEFINE p == a \div n
<1>3. n * q + r = n * p + (a % n)
  BY <1>2
<1>4. n * (q - p) = (a % n) - r
  <2>1. n * (q - p) = n * q - n * p
    BY <1>2
  <2>2. n * q \in Int /\ n * p \in Int
    BY <1>2
  <2> HIDE DEF p, a
  <2> QED
    BY <2>1, <2>2, <1>3, <1>2
<1>5. (a % n) - r < n /\ (a % n) - r > 0 - n
  <2> HIDE DEF a
  <2> QED
    BY <1>2
<1>6. q - p = 0
  <2>1. q - p \in Int
    BY <1>2
  <2> HIDE DEF p, a
  <2> QED
    BY <1>4, <1>5, <2>1, SmallMultiple
<1> HIDE DEF a, p
<1>7. n * (q - p) = 0
  BY <1>6
<1> QED
  BY <1>2, <1>4, <1>7 DEF a

(* Adding multiples changes no remainder.                                  *)
LEMMA Shifted ==
    ASSUME NEW n \in Nat \ {0}, NEW q \in Int, NEW a \in Int
    PROVE  (n * q + a) % n = a % n
<1>1. PICK p \in Int, r \in 0 .. n - 1 : a = n * p + r /\ r = a % n
  BY Division
<1>2. n * q + a = n * (q + p) + r
  BY <1>1
<1>3. q + p \in Int
  OBVIOUS
<1> QED
  BY <1>1, <1>2, <1>3, OneRemainder

(* The index and the attempt both move on: the endpoints are two apart.    *)
LEMMA TwoApart ==
    ASSUME NEW n \in Nat \ {0}, NEW c \in Int, NEW k \in Int
    PROVE  (((c + k) % n) + k) % n = (c + 2 * k) % n
<1>1. PICK q \in Int, r \in 0 .. n - 1 : c + k = n * q + r /\ r = (c + k) % n
  <2>1. c + k \in Int
    OBVIOUS
  <2> QED
    BY <2>1, Division
<1>2. c + 2 * k = n * q + (r + k) /\ r + k \in Int
  BY <1>1
<1>3. (n * q + (r + k)) % n = (r + k) % n
  BY <1>2, Shifted
<1> QED
  BY <1>1, <1>2, <1>3

(* From any start, an odd number of steps of two reaches every remainder.  *)
LEMMA OddRound ==
    ASSUME NEW n \in Nat \ {0}, n % 2 = 1, NEW b \in Int, NEW e \in 0 .. n - 1
    PROVE  \E m \in 0 .. n - 1 : (b + 2 * m) % n = e
<1>1. PICK q \in Int, y \in 0 .. n - 1 : e - b = n * q + y
  <2>1. e - b \in Int
    OBVIOUS
  <2> QED
    BY <2>1, Division
<1>2. ASSUME NEW d \in {0, 1}, NEW m \in 0 .. n - 1, 2 * m = y + d * n
      PROVE  (b + 2 * m) % n = e
  <2>1. n * (d - q) = d * n - n * q
    OBVIOUS
  <2>2. n * q \in Int /\ d * n \in Int /\ d - q \in Int
    OBVIOUS
  <2>3. b + 2 * m = n * (d - q) + e
    BY <1>1, <1>2, <2>1, <2>2
  <2> QED
    BY <2>2, <2>3, OneRemainder
<1>3. CASE y % 2 = 0
  <2>1. PICK m \in Nat : y = 2 * m
    BY <1>3
  <2> QED
    BY <2>1, <1>2
<1>4. CASE y % 2 = 1
  <2>1. PICK m \in Nat : y + n = 2 * m
    <3>1. PICK i \in Nat, j \in Nat : y = 2 * i + 1 /\ n = 2 * j + 1
      BY <1>4
    <3>2. y + n = 2 * (i + j + 1) /\ i + j + 1 \in Nat
      BY <3>1
    <3> QED
      BY <3>2
  <2>2. m \in 0 .. n - 1 /\ 2 * m = y + 1 * n
    BY <2>1
  <2> QED
    BY <2>2, <1>2
<1> QED
  BY <1>3, <1>4

(* An even number of them reaches every remainder of the start's parity    *)
(* and no other.                                                           *)
LEMMA EvenParity ==
    ASSUME NEW n \in Nat \ {0}, n % 2 = 0, NEW a \in Int
    PROVE  (a % n) % 2 = a % 2
<1>1. PICK q \in Int, r \in 0 .. n - 1 : a = n * q + r /\ r = a % n
  BY Division
<1>2. PICK h \in Nat : n = 2 * h
  OBVIOUS
<1>3. a = 2 * (h * q) + r /\ h * q \in Int
  BY <1>1, <1>2
<1> QED
  BY <1>1, <1>3

LEMMA EvenRound ==
    ASSUME NEW n \in Nat \ {0}, n % 2 = 0, NEW b \in Int, NEW e \in 0 .. n - 1,
           e % 2 = b % 2
    PROVE  \E m \in 0 .. n - 1 : (b + 2 * m) % n = e
<1>1. PICK q \in Int, y \in 0 .. n - 1 : e - b = n * q + y /\ y = (e - b) % n
  <2>1. e - b \in Int
    OBVIOUS
  <2> QED
    BY <2>1, Division
<1>2. y % 2 = 0
  <2>1. (e - b) % 2 = 0
    OBVIOUS
  <2> QED
    BY <1>1, <2>1, EvenParity
<1>3. PICK m \in Nat : y = 2 * m
  BY <1>2
<1>4. b + 2 * m = n * (0 - q) + e
  <2>1. n * (0 - q) = 0 - n * q /\ n * q \in Int
    OBVIOUS
  <2> QED
    BY <1>1, <1>3, <2>1
<1>5. (b + 2 * m) % n = e
  BY <1>4, OneRemainder
<1> QED
  BY <1>3, <1>5

-----------------------------------------------------------------------------
(* The endpoints a call asks when no other caller moves the index: its     *)
(* n-th attempt finds the index n further than its first did.              *)

SoloPick(s, n) == ((((s + n) % IndexMod) % endpoints) + n) % endpoints

Picks == IF phase \in {"asked", "backoff"} THEN attempt + 1 ELSE attempt

Solo(s, k) ==
    /\ nextIndex = (s + k) % IndexMod
    /\ asked = {SoloPick(s, n) : n \in 0 .. k - 1}

SoloInv ==
    /\ phase = "idle" => attempt = 0 /\ asked = {}
    /\ phase \in {"pick", "asked", "backoff"} /\ alone
           => \E s \in 0 .. IndexMod - 1 : Solo(s, Picks)

(* A call that has asked nobody can start anywhere.                        *)
LEMMA SoloStart ==
    ASSUME nextIndex \in 0 .. IndexMod - 1, asked = {}
    PROVE  \E s \in 0 .. IndexMod - 1 : Solo(s, 0)
<1>1. (nextIndex + 0) % IndexMod = nextIndex
  BY ConstantAssumption
<1>2. 0 .. 0 - 1 = {}
  OBVIOUS
<1>3. Solo(nextIndex, 0)
  BY <1>1, <1>2 DEF Solo
<1> QED
  BY <1>3

(* One attempt more.                                                       *)
LEMMA SoloCall ==
    ASSUME endpoints \in Nat \ {0}, NEW s \in 0 .. IndexMod - 1, NEW k \in Nat, Solo(s, k),
           endpoints' = endpoints, nextIndex' = (nextIndex + 1) % IndexMod,
           asked' = asked \cup {pickEndpoint(k)}
    PROVE  Solo(s, k + 1)'
<1>1. (((s + k) % IndexMod) + 1) % IndexMod = (s + (k + 1)) % IndexMod
  <2>1. PICK q \in Int, r \in 0 .. IndexMod - 1 :
            s + k = IndexMod * q + r /\ r = (s + k) % IndexMod
    <3>1. s + k \in Int /\ IndexMod \in Nat \ {0}
      BY ConstantAssumption
    <3> QED
      BY <3>1, Division
  <2>2. s + (k + 1) = IndexMod * q + (r + 1) /\ r + 1 \in Int /\ IndexMod \in Nat \ {0}
    BY <2>1, ConstantAssumption
  <2>3. (IndexMod * q + (r + 1)) % IndexMod = (r + 1) % IndexMod
    BY <2>2, Shifted
  <2> QED
    BY <2>1, <2>2, <2>3
<1>2. pickEndpoint(k) = SoloPick(s, k)
  BY DEF Solo, pickEndpoint, SoloPick
<1>3. 0 .. (k + 1) - 1 = (0 .. k - 1) \cup {k}
  OBVIOUS
<1>4. {SoloPick(s, n) : n \in 0 .. (k + 1) - 1}
          = {SoloPick(s, n) : n \in 0 .. k - 1} \cup {SoloPick(s, k)}
  BY <1>3
<1>5. nextIndex' = (s + (k + 1)) % IndexMod
  BY <1>1 DEF Solo
<1>6. asked' = {SoloPick(s, n) : n \in 0 .. (k + 1) - 1}
  BY <1>2, <1>4 DEF Solo
<1> QED
  BY <1>5, <1>6 DEF Solo, SoloPick

LEMMA SoloNext == QueryInv /\ SoloInv /\ [Next]_vars => SoloInv'
<1> SUFFICES ASSUME QueryInv, SoloInv, [Next]_vars PROVE SoloInv'
  OBVIOUS
<1>0. /\ nextIndex \in 0 .. IndexMod - 1 /\ endpoints \in Nat \ {0} /\ attempt \in Nat
      /\ phase \in {"idle", "pick", "asked", "backoff", "answered"}
  BY AttemptsType, ConstantAssumption DEF QueryInv, TypeOK
<1>1. CASE Request
  <2>1. UNCHANGED <<endpoints, nextIndex, attempt, asked>> /\ attempt = 0 /\ asked = {}
        /\ phase' \in {"pick", "answered"}
    BY <1>1 DEF Request, SoloInv
  <2>2. Picks' = 0
    BY <2>1 DEF Picks
  <2>3. \E s \in 0 .. IndexMod - 1 : Solo(s, 0)
    BY <1>0, <2>1, SoloStart
  <2>4. \E s \in 0 .. IndexMod - 1 : Solo(s, 0)'
    BY <2>1, <2>3 DEF Solo, SoloPick
  <2> QED
    BY <2>1, <2>2, <2>4 DEF SoloInv
<1>2. CASE Call
  <2>1. /\ endpoints' = endpoints /\ nextIndex' = (nextIndex + 1) % IndexMod
        /\ asked' = asked \cup {pickEndpoint(attempt)} /\ alone' = alone
        /\ phase = "pick" /\ phase' = "asked" /\ attempt' = attempt
    BY <1>2 DEF Call
  <2>2. Picks = attempt /\ Picks' = attempt + 1
    BY <2>1 DEF Picks
  <2>3. ASSUME alone
        PROVE  \E s \in 0 .. IndexMod - 1 : Solo(s, Picks)'
    <3>1. PICK s \in 0 .. IndexMod - 1 : Solo(s, attempt)
      BY <2>1, <2>2, <2>3 DEF SoloInv
    <3>2. Solo(s, attempt + 1)'
      BY <1>0, <2>1, <3>1, SoloCall
    <3> QED
      BY <2>1, <2>2, <3>2 DEF Solo, SoloPick
  <2> QED
    BY <2>1, <2>3 DEF SoloInv
<1>3. CASE GiveUp
  BY <1>3 DEF GiveUp, Return, SoloInv
<1>4. CASE Backoff
  <2>1. CASE phase' = "answered"
    BY <2>1 DEF SoloInv
  <2>2. CASE phase' = "pick" /\ attempt' = attempt + 1 /\ UNCHANGED <<asked, alone>>
    <3>1. UNCHANGED <<endpoints, nextIndex>> /\ phase = "backoff"
      BY <1>4 DEF Backoff
    <3>2. Picks' = Picks
      BY <2>2, <3>1 DEF Picks
    <3> QED
      BY <2>2, <3>1, <3>2 DEF SoloInv, Solo, SoloPick
  <2> QED
    BY <1>4, <2>1, <2>2 DEF Backoff, Return
<1>5. CASE NodeAnswers \/ AttemptFails
  <2>1. PICK reply : callEndpoint(reply)
    BY <1>5 DEF NodeAnswers, AttemptFails
  <2>2. UNCHANGED <<endpoints, nextIndex>> /\ phase = "asked"
    BY <2>1 DEF callEndpoint
  <2>3. CASE phase' = "backoff" /\ UNCHANGED <<attempt, asked, alone>>
    <3>1. Picks' = Picks
      BY <2>2, <2>3 DEF Picks
    <3> QED
      BY <2>2, <2>3, <3>1 DEF SoloInv, Solo, SoloPick
  <2>4. CASE phase' = "pick" /\ attempt' = 0 /\ asked' = {}
    <3>1. Picks' = 0
      BY <2>4 DEF Picks
    <3>2. nextIndex' \in 0 .. IndexMod - 1
      BY <1>0, <2>2
    <3>3. (nextIndex + 0) % IndexMod = nextIndex /\ 0 .. 0 - 1 = {}
      BY <1>0, ConstantAssumption
    <3>4. Solo(nextIndex, 0)'
      BY <2>2, <2>4, <3>3 DEF Solo
    <3> QED
      BY <2>2, <2>4, <3>1, <3>2, <3>4 DEF SoloInv
  <2>5. CASE phase' = "answered"
    BY <2>5 DEF SoloInv
  <2> QED
    BY <2>1, <2>3, <2>4, <2>5 DEF callEndpoint, GetLatestBlock, Return
<1>6. CASE OtherCalls
  BY <1>6 DEF OtherCalls, SoloInv
<1>7. CASE Advance \/ Leave \/ UNCHANGED vars
  <2>1. UNCHANGED <<endpoints, nextIndex, phase, attempt, asked, alone>>
    BY <1>7 DEF Advance, Leave, vars, callVars
  <2> QED
    BY <2>1 DEF SoloInv, Solo, SoloPick, Picks
<1> QED
  BY <1>1, <1>2, <1>3, <1>4, <1>5, <1>6, <1>7 DEF Next, Client

(* Where the index does not wrap, attempts are two endpoints apart.        *)
LEMMA SoloStep ==
    ASSUME endpoints \in Nat \ {0}, NEW s \in 0 .. IndexMod - 1, NEW n \in Nat,
           s + n < 2 * IndexMod
    PROVE  LET c == IF s + n < IndexMod THEN s ELSE s - IndexMod
           IN SoloPick(s, n) = (c + 2 * n) % endpoints
<1> DEFINE c == IF s + n < IndexMod THEN s ELSE s - IndexMod
<1>1. c \in Int /\ (s + n) % IndexMod = c + n
  <2>1. CASE s + n < IndexMod
    BY <2>1, ConstantAssumption
  <2>2. CASE ~(s + n < IndexMod)
    <3>1. s + n = IndexMod * 1 + (s - IndexMod + n) /\ s - IndexMod + n \in 0 .. IndexMod - 1
      BY <2>2, ConstantAssumption
    <3>2. (IndexMod * 1 + (s - IndexMod + n)) % IndexMod = s - IndexMod + n
      BY <3>1, OneRemainder, ConstantAssumption
    <3> QED
      BY <2>2, <3>1, <3>2, ConstantAssumption
  <2> QED
    BY <2>1, <2>2
<1>2. (((c + n) % endpoints) + n) % endpoints = (c + 2 * n) % endpoints
  <2>1. c \in Int /\ n \in Int
    BY <1>1
  <2> HIDE DEF c
  <2> QED
    BY <2>1, TwoApart, Zenon
<1>3. SoloPick(s, n) = (c + 2 * n) % endpoints
  <2> HIDE DEF c
  <2> QED
    BY <1>1, <1>2 DEF SoloPick
<1> QED
  BY <1>3

(* All attempts of a call lie within two turns of the index, and a whole   *)
(* round of them on one side of its wrap.                                  *)
LEMMA WholeRound ==
    ASSUME endpoints \in 1 .. MaxEndpoints, NEW s \in 0 .. IndexMod - 1
    PROVE  /\ endpoints \in Nat \ {0} /\ maxAttempts \in Nat
           /\ s + maxAttempts <= 2 * IndexMod - 1
           /\ \E a \in Nat, c \in {s, s - IndexMod} :
                 \A m \in 0 .. endpoints - 1 :
                     a + m < maxAttempts
                     /\ c = (IF s + (a + m) < IndexMod THEN s ELSE s - IndexMod)
<1>1. endpoints \in Nat \ {0} /\ maxAttempts \in Nat
  BY ConstantAssumption, AttemptsType
<1>2. PICK k \in Nat : RetryTimes = k + 1
  <2>1. RetryTimes - 1 \in Nat /\ RetryTimes = (RetryTimes - 1) + 1
    BY ConstantAssumption, RetryAssumption
  <2> QED
    BY <2>1
<1>3. maxAttempts = endpoints * k + 2 * endpoints /\ endpoints * k \in Nat
  BY <1>1, <1>2 DEF maxAttempts
<1>4. maxAttempts <= IndexMod
  <2>1. PICK d \in Nat : MaxEndpoints = endpoints + d
    <3>1. MaxEndpoints - endpoints \in Nat
      BY ConstantAssumption
    <3>2. MaxEndpoints = endpoints + (MaxEndpoints - endpoints)
      BY <1>1, ConstantAssumption
    <3> QED
      BY <3>1, <3>2
  <2>2. MaxEndpoints * (RetryTimes + 1)
            = endpoints * (RetryTimes + 1) + d * (RetryTimes + 1)
    BY <1>1, <2>1, ConstantAssumption
  <2>3. d * (RetryTimes + 1) \in Nat /\ endpoints * (RetryTimes + 1) \in Nat
    BY <1>1, ConstantAssumption
  <2> QED
    BY <2>2, <2>3, ConstantAssumption DEF maxAttempts
<1>5. CASE s + endpoints <= IndexMod
  <2>1. \A m \in 0 .. endpoints - 1 :
            0 + m < maxAttempts /\ s = (IF s + (0 + m) < IndexMod THEN s ELSE s - IndexMod)
    BY <1>1, <1>3, <1>5, ConstantAssumption
  <2>2. s + maxAttempts <= 2 * IndexMod - 1 /\ 0 \in Nat /\ s \in {s, s - IndexMod}
    BY <1>1, <1>4, ConstantAssumption
  <2> QED
    BY <1>1, <2>1, <2>2
<1>6. CASE s + endpoints > IndexMod
  <2>1. IndexMod - s \in Nat
    BY ConstantAssumption
  <2>2. \A m \in 0 .. endpoints - 1 :
            /\ (IndexMod - s) + m < maxAttempts
            /\ s - IndexMod
                 = (IF s + ((IndexMod - s) + m) < IndexMod THEN s ELSE s - IndexMod)
    BY <1>1, <1>3, <1>6, ConstantAssumption
  <2>3. s + maxAttempts <= 2 * IndexMod - 1 /\ s - IndexMod \in {s, s - IndexMod}
    BY <1>1, <1>4, ConstantAssumption
  <2> QED
    BY <1>1, <2>1, <2>2, <2>3
<1>7. s + endpoints <= IndexMod \/ s + endpoints > IndexMod
  BY <1>1, ConstantAssumption
<1> QED
  BY <1>5, <1>6, <1>7

(* What a call that gave up has asked.                                     *)
LEMMA SoloRounds ==
    ASSUME endpoints \in 1 .. MaxEndpoints, NEW s \in 0 .. IndexMod - 1
    PROVE  LET all == {SoloPick(s, n) : n \in 0 .. maxAttempts - 1}
           IN IF endpoints % 2 = 1 THEN all = E
              ELSE all = {e \in E : e % 2 = s % 2}
<1> DEFINE all == {SoloPick(s, n) : n \in 0 .. maxAttempts - 1}
<1>0. /\ endpoints \in Nat \ {0} /\ maxAttempts \in Nat
      /\ s + maxAttempts <= 2 * IndexMod - 1
  BY WholeRound
<1>1. PICK a \in Nat, c \in {s, s - IndexMod} :
          \A m \in 0 .. endpoints - 1 :
              a + m < maxAttempts
              /\ c = (IF s + (a + m) < IndexMod THEN s ELSE s - IndexMod)
  BY WholeRound
<1>2. c \in Int /\ IndexMod \in Nat \ {0}
  BY ConstantAssumption
<1>3. \A m \in 0 .. endpoints - 1 :
          (c + 2 * a + 2 * m) % endpoints \in all
  <2> SUFFICES ASSUME NEW m \in 0 .. endpoints - 1
               PROVE  (c + 2 * a + 2 * m) % endpoints \in all
    OBVIOUS
  <2>1. a + m \in 0 .. maxAttempts - 1 /\ s + (a + m) < 2 * IndexMod /\ a + m \in Nat
    BY <1>0, <1>1, <1>2
  <2>2. SoloPick(s, a + m) = (c + 2 * (a + m)) % endpoints
    BY <1>0, <1>1, <2>1, SoloStep
  <2>3. c + 2 * (a + m) = c + 2 * a + 2 * m
    BY <1>2
  <2> QED
    BY <2>1, <2>2, <2>3
<1>4. all \subseteq E
  <2> SUFFICES ASSUME NEW n \in 0 .. maxAttempts - 1 PROVE SoloPick(s, n) \in E
    OBVIOUS
  <2>1. (s + n) % IndexMod \in Nat
    BY <1>0, <1>2, Remainder
  <2>2. ((s + n) % IndexMod) % endpoints \in Nat
    BY <1>0, <2>1, Remainder
  <2>3. (((s + n) % IndexMod) % endpoints) + n \in Nat
    BY <1>0, <2>2
  <2> QED
    BY <1>0, <2>3, Remainder DEF SoloPick, E
<1>5. c + 2 * a \in Int
  BY <1>2
<1> HIDE DEF all
<1>6. CASE endpoints % 2 = 1
  <2>1. \A e \in E : \E m \in 0 .. endpoints - 1 : (c + 2 * a + 2 * m) % endpoints = e
    BY <1>0, <1>5, <1>6, OddRound DEF E
  <2> QED
    BY <1>3, <1>4, <1>6, <2>1 DEF all
<1>7. CASE endpoints % 2 = 0
  <2>1. (s - IndexMod) % 2 = s % 2
    BY <1>2, RetryAssumption
  <2>2. (c + 2 * a) % 2 = s % 2
    BY <1>2, <2>1
  <2>3. \A e \in E : e % 2 = s % 2 =>
            \E m \in 0 .. endpoints - 1 : (c + 2 * a + 2 * m) % endpoints = e
    <3> SUFFICES ASSUME NEW e \in E, e % 2 = s % 2
                 PROVE  \E m \in 0 .. endpoints - 1 : (c + 2 * a + 2 * m) % endpoints = e
      OBVIOUS
    <3> DEFINE b == c + 2 * a
    <3>1. b \in Int /\ e % 2 = b % 2 /\ e \in 0 .. endpoints - 1
      BY <1>5, <2>2 DEF E
    <3> HIDE DEF b
    <3>2. \E m \in 0 .. endpoints - 1 : (b + 2 * m) % endpoints = e
      BY <1>0, <1>7, <3>1, EvenRound
    <3> QED
      BY <3>2 DEF b
  <2>4. ASSUME NEW n \in 0 .. maxAttempts - 1
        PROVE  SoloPick(s, n) % 2 = s % 2
    <3>0. n \in Nat /\ s + n < 2 * IndexMod
      BY <1>0, <1>2
    <3>1. PICK d \in {s, s - IndexMod} : SoloPick(s, n) = (d + 2 * n) % endpoints
      <4>1. SoloPick(s, n)
              = ((IF s + n < IndexMod THEN s ELSE s - IndexMod) + 2 * n) % endpoints
        BY <1>0, <3>0, SoloStep
      <4> QED
        BY <4>1
    <3>2. d + 2 * n \in Int /\ (d + 2 * n) % 2 = s % 2
      BY <1>0, <1>2, <2>1
    <3> QED
      BY <1>0, <1>7, <3>1, <3>2, EvenParity
  <2>5. \A e \in all : e % 2 = s % 2
    BY <2>4 DEF all
  <2> QED
    BY <1>3, <1>4, <1>7, <2>3, <2>5 DEF all
<1>8. endpoints % 2 \in {0, 1}
  BY <1>0
<1> QED
  BY <1>6, <1>7, <1>8 DEF all

(* A call that no other caller disturbs has asked every endpoint of an odd *)
(* pool when it gives up, and every other one of an even pool: for any     *)
(* number of endpoints and of retries, wherever the index starts and       *)
(* whether or not it wraps (rpc.go:56-82).  The other half of an even pool *)
(* it does not ask at all; of the one endpoint that the connector          *)
(* configures the theorem says only that it is asked.                      *)
THEOREM RoundsAreAsked == Spec => []AloneAsksTheRounds
<1>1. QueryInv /\ SoloInv => AloneAsksTheRounds
  <2> SUFFICES ASSUME QueryInv, SoloInv, phase = "pick", attempt = maxAttempts, alone
               PROVE  IF endpoints % 2 = 1 THEN asked = E
                      ELSE \E parity \in {0, 1} : asked = {e \in E : e % 2 = parity}
    BY DEF AloneAsksTheRounds
  <2>1. PICK s \in 0 .. IndexMod - 1 : asked = {SoloPick(s, n) : n \in 0 .. maxAttempts - 1}
    BY DEF SoloInv, Solo, Picks
  <2>2. s % 2 \in {0, 1}
    OBVIOUS
  <2>3. endpoints \in 1 .. MaxEndpoints
    BY DEF QueryInv, TypeOK
  <2> QED
    BY <2>1, <2>2, <2>3, SoloRounds
<1>2. Init => SoloInv
  BY DEF Init, SoloInv
<1> QED
  BY <1>1, <1>2, QueryInit, QueryNext, SoloNext, PTL DEF Spec
=============================================================================
