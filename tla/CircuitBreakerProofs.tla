------------------------ MODULE CircuitBreakerProofs ------------------------
(***************************************************************************)
(* Safety of the circuit breaker for any number of requests and any         *)
(* threshold.  TripsAtThreshold is not inductive: it says nothing of        *)
(* failure_count, on which the decision to trip is taken.  BreakerInv adds  *)
(* that failure_count counts exactly the failures since the last success.   *)
(* The payments that go through it (PaymentNetwork) follow: every step of    *)
(* the composition is one of the breaker or one of the handlers.             *)
(***************************************************************************)
EXTENDS PaymentNetwork, TLAPS

CountsStreak == failureCount = streak

BreakerInv == TypeOK /\ CountsStreak /\ TripsAtThreshold

\* The state after the cooldown check is one of the three.
LEMMA CurrentType == ASSUME TypeOK PROVE Current \in BreakerStates
  BY DEF TypeOK, Current, BreakerStates

\* The constructor leaves the breaker closed with nothing counted.
LEMMA BreakerInit == Init => BreakerInv
<1> SUFFICES ASSUME Init PROVE BreakerInv
  OBVIOUS
<1> USE ThresholdAssumption DEF Init
<1>1. TypeOK
  <2>1. leg \in [Callers -> Legs]
    BY DEF Legs, Outside
  <2>2. breaker \in BreakerStates /\ cooled \in BOOLEAN
    BY DEF BreakerStates
  <2>3. failureCount \in 0..MaxFailures /\ streak \in Nat
    OBVIOUS
  <2> QED BY <2>1, <2>2, <2>3 DEF TypeOK
<1>2. CountsStreak /\ TripsAtThreshold
  BY DEF CountsStreak, TripsAtThreshold
<1> QED BY <1>1, <1>2 DEF BreakerInv

\* A caller's step changes its own leg only, to one of the legs.
LEMMA AnswerType ==
  ASSUME TypeOK, NEW c \in Callers, NEW l \in Legs, Answer(c, l)
  PROVE  leg' \in [Callers -> Legs]
  BY DEF TypeOK, Answer

\* A state change leaves the breaker in a state, and the cooldown flag Boolean.
LEMMA MoveToType ==
  ASSUME TypeOK, NEW s \in BreakerStates, MoveTo(s)
  PROVE  breaker' = s /\ cooled' \in BOOLEAN
  BY DEF TypeOK, MoveTo

\* Every step of the breaker and of a request that goes through it keeps the count
\* of consecutive failures, and the side of the threshold on which it is.
LEMMA BreakerStep == BreakerInv /\ [Next]_vars => BreakerInv'
<1> SUFFICES ASSUME BreakerInv, [Next]_vars PROVE BreakerInv'
  OBVIOUS
<1> USE ThresholdAssumption
<1>t. TypeOK
  BY DEF BreakerInv
<1>cur. Current \in BreakerStates
  BY <1>t, CurrentType
<1>1. CASE CoolDown
  BY <1>1 DEF CoolDown, BreakerInv, TypeOK, CountsStreak, TripsAtThreshold
<1>2. CASE Poll
  <2>1. breaker' = Current /\ cooled' \in BOOLEAN
    BY <1>2, <1>t, <1>cur, MoveToType DEF Poll
  <2>2. TypeOK'
    BY <1>2, <1>t, <1>cur, <2>1 DEF Poll, TypeOK
  <2>3. breaker = "OPEN" /\ breaker' = "HALF_OPEN"
    BY <1>2, <2>1 DEF Poll, Current
  <2>4. CountsStreak' /\ TripsAtThreshold'
    BY <1>2, <2>3 DEF Poll, BreakerInv, CountsStreak, TripsAtThreshold
  <2> QED BY <2>2, <2>4 DEF BreakerInv
<1>3. ASSUME NEW c \in Callers, Enter(c) PROVE BreakerInv'
  <2>1. breaker' = Current /\ cooled' \in BOOLEAN
    BY <1>3, <1>t, <1>cur, MoveToType DEF Enter
  <2>2. leg' \in [Callers -> Legs]
    <3>1. \E l \in {"open", "trial", "normal"} : Answer(c, l)
      BY <1>3, <1>cur DEF Enter, BreakerStates
    <3> QED BY <3>1, <1>t, AnswerType DEF Legs, Outside, Outcomes, InNetwork
  <2>3. TypeOK'
    BY <1>3, <1>t, <1>cur, <2>1, <2>2 DEF Enter, TypeOK
  <2>4. CountsStreak' /\ TripsAtThreshold'
    BY <1>3, <2>1 DEF Enter, Current, BreakerInv, CountsStreak, TripsAtThreshold
  <2> QED BY <2>3, <2>4 DEF BreakerInv
<1>4. ASSUME NEW c \in Callers, Blocked(c) PROVE BreakerInv'
  <2>1. leg' \in [Callers -> Legs]
    BY <1>4, <1>t, AnswerType DEF Blocked, Legs, Outside, Outcomes
  <2> QED
    BY <1>4, <2>1 DEF Blocked, BreakerInv, TypeOK, CountsStreak, TripsAtThreshold
<1>5. ASSUME NEW c \in Callers, Succeed(c) PROVE BreakerInv'
  <2>1. breaker' = "CLOSED" /\ cooled' \in BOOLEAN
    BY <1>5, <1>t, MoveToType DEF Succeed, BreakerStates
  <2>2. leg' \in [Callers -> Legs]
    BY <1>5, <1>t, AnswerType DEF Succeed, Legs, Outside, Outcomes
  <2> QED
    BY <1>5, <2>1, <2>2
       DEF Succeed, BreakerInv, TypeOK, BreakerStates, CountsStreak, TripsAtThreshold
<1>6. ASSUME NEW c \in Callers, Fail(c) PROVE BreakerInv'
  <2> DEFINE s == IF failureCount' >= Threshold \/ Current = "HALF_OPEN"
                  THEN "OPEN" ELSE "CLOSED"
  <2>1. breaker' = s /\ cooled' \in BOOLEAN
    <3>1. MoveTo(s) /\ s \in BreakerStates
      BY <1>6 DEF Fail, BreakerStates
    <3> QED BY <3>1, <1>t, MoveToType
  <2>2. leg' \in [Callers -> Legs]
    BY <1>6, <1>t, AnswerType DEF Fail, Legs, Outside, Outcomes
  <2>3. failureCount' = failureCount + 1 /\ streak' = streak + 1
    BY <1>6 DEF Fail
  <2>4. TypeOK'
    BY <1>6, <1>t, <2>1, <2>2, <2>3 DEF Fail, TypeOK, BreakerStates
  <2>5. CountsStreak'
    BY <2>3 DEF BreakerInv, CountsStreak
  <2>6. TripsAtThreshold'
    <3>1. CASE Current = "HALF_OPEN"
      <4>1. streak >= Threshold
        BY <3>1 DEF BreakerInv, Current, TripsAtThreshold
      <4> QED BY <4>1, <3>1, <1>t, <2>1, <2>3 DEF TypeOK, TripsAtThreshold
    <3>2. CASE Current # "HALF_OPEN"
      BY <3>2, <1>t, <2>1, <2>3, <2>5 DEF TypeOK, CountsStreak, TripsAtThreshold
    <3> QED BY <3>1, <3>2
  <2> QED BY <2>4, <2>5, <2>6 DEF BreakerInv
<1>7. CASE UNCHANGED vars
  BY <1>7 DEF vars, BreakerInv, TypeOK, CountsStreak, TripsAtThreshold
<1> QED BY <1>1, <1>2, <1>3, <1>4, <1>5, <1>6, <1>7 DEF Next

\* The breaker keeps its inductive invariant: its fields have their types, failure_count
\* is the streak of failures it stands for, and the state goes with the threshold.
THEOREM BreakerInvariant == Spec => []BreakerInv
<1>1. Init => BreakerInv
  BY BreakerInit
<1>2. BreakerInv /\ [Next]_vars => BreakerInv'
  BY BreakerStep
<1> QED BY <1>1, <1>2, PTL DEF Spec

\* CircuitBreaker.__init__, _check_cooldown_expiry and call() keep every field in its range.
THEOREM TypeCorrect == Spec => []TypeOK
<1>1. BreakerInv => TypeOK
  BY DEF BreakerInv
<1> QED BY <1>1, BreakerInvariant, PTL

\* For any number of concurrent requests and any failure_threshold, the breaker is
\* closed exactly while fewer than failure_threshold calls have failed in a row.
THEOREM TripsAtThresholdAlways == Spec => []TripsAtThreshold
<1>1. BreakerInv => TripsAtThreshold
  BY DEF BreakerInv
<1> QED BY <1>1, BreakerInvariant, PTL

\* One step while the breaker is OPEN and its cooldown has not passed.
LEMMA OpenShields ==
  ASSUME TypeOK, [Next]_vars, breaker = "OPEN", ~cooled
  PROVE  /\ breaker' = "OPEN"
         /\ \A c \in Callers : leg'[c] \in InNetwork \cup {"ok", "failure"} => leg'[c] = leg[c]
<1>1. Current = "OPEN"
  BY DEF Current
<1>2. CASE CoolDown
  BY <1>2 DEF CoolDown
<1>3. CASE Poll
  BY <1>1, <1>3 DEF Poll
<1>4. ASSUME NEW d \in Callers, Enter(d) \/ Blocked(d) \/ Succeed(d) \/ Fail(d)
      PROVE  /\ breaker' = "OPEN"
             /\ \A c \in Callers :
                  leg'[c] \in InNetwork \cup {"ok", "failure"} => leg'[c] = leg[c]
  <2>1. breaker' = "OPEN" /\ Answer(d, "open")
    BY <1>1, <1>4 DEF Enter, Blocked, Succeed, Fail, MoveTo
  <2>2. \A c \in Callers : leg'[c] = IF c = d THEN "open" ELSE leg[c]
    BY <2>1 DEF Answer, TypeOK
  <2> QED BY <2>1, <2>2 DEF InNetwork
<1>5. CASE UNCHANGED vars
  BY <1>5 DEF vars
<1> QED BY <1>2, <1>3, <1>4, <1>5 DEF Next

\* One failure that comes back to a breaker it leaves OPEN.
LEMMA FailureRestarts ==
  ASSUME TypeOK, [Next]_vars, NEW c \in Callers, leg[c] # "failure", leg'[c] = "failure"
  PROVE  ~cooled'
<1>1. leg' # leg
  OBVIOUS
<1>2. PICK d \in Callers : Enter(d) \/ Blocked(d) \/ Succeed(d) \/ Fail(d)
  BY <1>1 DEF Next, CoolDown, Poll, vars
<1>3. CASE Enter(d) \/ Succeed(d) \/ Fail(d)
  BY <1>3 DEF Enter, Succeed, Fail, MoveTo
<1>4. CASE Blocked(d)
  BY <1>4 DEF Blocked, Answer, TypeOK
<1> QED BY <1>2, <1>3, <1>4

\* Late answers and polls do not take the breaker out of OPEN before its cooldown, nobody
\* gets through meanwhile, and a failure that re-opens it restarts the cooldown.
THEOREM OpenIsLeftByCooldownAlways == Spec => OpenIsLeftByCooldown
<1> DEFINE Shields ==
      breaker = "OPEN" /\ ~cooled =>
        /\ breaker' = "OPEN"
        /\ \A c \in Callers : leg'[c] \in InNetwork \cup {"ok", "failure"} => leg'[c] = leg[c]
<1> DEFINE Restarts ==
      \A c \in Callers :
        leg[c] # "failure" /\ leg'[c] = "failure" /\ breaker' = "OPEN" => ~cooled'
<1>1. TypeOK /\ [Next]_vars => Shields
  BY OpenShields
<1>2. TypeOK /\ [Next]_vars => Restarts
  BY FailureRestarts
<1>3. TypeOK /\ [Next]_vars => [Shields /\ Restarts]_vars
  BY <1>1, <1>2
<1> QED BY <1>3, TypeCorrect, PTL DEF Spec, OpenIsLeftByCooldown

-----------------------------------------------------------------------------
\* The payments in the network, for any number of payments, requests and other callers

\* Every step of the composition is a step of the breaker, or one of the handlers, and
\* leaves the other alone.
LEMMA StepOfParts ==
  ASSUME [NetworkNext]_networkVars
  PROVE  [Next]_vars /\ [Handler!HandlerNext]_paymentVars
<1> USE NetworkAssumption
<1>1. CASE (CoolDown \/ Poll) /\ UNCHANGED paymentVars
  BY <1>1 DEF Next
<1>2. ASSUME NEW c \in Others, Enter(c) \/ Returns(c), UNCHANGED paymentVars
      PROVE  [Next]_vars /\ UNCHANGED paymentVars
  BY <1>2 DEF Next, Others, Returns
<1>3. ASSUME NEW r \in Requests, Calls(r), UNCHANGED paymentVars
      PROVE  [Next]_vars /\ UNCHANGED paymentVars
  BY <1>3 DEF Next, Calls, Returns
<1>4. ASSUME NEW r \in Requests, UNCHANGED vars,
             Handler!Reject(r) \/ Prepares(r) \/ Commits(r) \/ Handler!Crash(r)
      PROVE  [Next]_vars /\ Handler!HandlerNext
  BY <1>4 DEF Handler!HandlerNext, Handler!Progress, Prepares, Commits
<1>5. ASSUME NEW b \in Bills, Handler!FetchBill(b), UNCHANGED vars
      PROVE  [Next]_vars /\ Handler!HandlerNext
  BY <1>5 DEF Handler!HandlerNext
<1>6. CASE UNCHANGED networkVars
  BY <1>6 DEF networkVars
<1> QED BY <1>1, <1>2, <1>3, <1>4, <1>5, <1>6 DEF NetworkNext

\* The handlers' requests are callers of the breaker, and of the handlers nothing happens
\* that the handler does not do: the composition implements both.
THEOREM NetworkImplementsParts ==
  NetworkSpec => /\ Spec
                 /\ Handler!StoreInit /\ Handler!HandlerInit
                 /\ [][Handler!HandlerNext]_paymentVars
<1> QED BY StepOfParts, PTL DEF NetworkSpec, NetworkInit, Spec

\* With payments among its callers, in any interleaving with their commits, the breaker
\* trips at its threshold, and every period of OPEN lasts its own cooldown, as alone.
THEOREM BreakerOfPayments == NetworkSpec => []TripsAtThreshold /\ OpenIsLeftByCooldown
<1> QED BY NetworkImplementsParts, TripsAtThresholdAlways, OpenIsLeftByCooldownAlways, PTL

\* AnswersTellNetwork says nothing of the tables, on which the next request is judged.
HandlerTypes ==
  /\ idem \in [Handler!Keys -> Handler!IdemStates]
  /\ payload \in [Handler!Keys -> Handler!Payloads]
  /\ pc \in [Requests -> {"start", "insert"} \cup Handler!Owning \cup Handler!Refused]
  /\ leg \in [Callers -> Legs]

\* A request calls the network only after it has submitted its payment, and commits what
\* the call answered.
LegsFollow ==
  \A r \in Requests :
    /\ leg[r] # "outside" => pc[r] \in {"inflight"} \cup Handler!Answered
    /\ pc[r] = "settled" => leg[r] = "ok"
    /\ pc[r] = "ambiguous" => leg[r] = "failure"
    /\ pc[r] = "failed" => leg[r] = "open"

\* One request owns a payment, and the key has its row by then.
OwnerIsOne ==
  /\ \A r \in Requests : pc[r] \in Handler!Owning => idem[Ref[r]] # Handler!Absent
  /\ \A r, q \in Requests :
       (Ref[r] = Ref[q] /\ pc[r] \in Handler!Owning /\ pc[q] \in Handler!Owning) => r = q

\* A request for payment k was answered l.
Told(k, l) == \E q \in Requests : Ref[q] = k /\ pc[q] = l

\* A key with an outcome has it from a request that was told so; a success keeps its response.
KeysFollow ==
  \A k \in Payments :
    /\ idem[k] = "SUCCESS" => payload[k] = "full" /\ Told(k, "settled")
    /\ idem[k] # "SUCCESS" => payload[k] = Handler!Absent
    /\ idem[k] = "FAILED" => Told(k, "failed")

\* A duplicate is told the outcome a request was told before.
DuplicatesFollow ==
  \A r \in Requests :
    /\ pc[r] = "cached" => Told(Ref[r], "settled")
    /\ pc[r] = "not_cached" => Told(Ref[r], "failed")

NetworkInv == HandlerTypes /\ LegsFollow /\ OwnerIsOne /\ KeysFollow /\ DuplicatesFollow

LEMMA NetworkInvInit == NetworkInit => NetworkInv
<1> SUFFICES ASSUME NetworkInit PROVE NetworkInv
  OBVIOUS
<1> USE NetworkAssumption
        DEF NetworkInit, Init, Handler!StoreInit, Handler!HandlerInit, Handler!Owning,
            Handler!Running, Handler!Answered, Handler!Absent
<1>1. HandlerTypes
  BY DEF HandlerTypes, Handler!IdemStates, Handler!Payloads, Legs, Outside
<1>2. LegsFollow /\ OwnerIsOne /\ DuplicatesFollow
  BY DEF LegsFollow, OwnerIsOne, DuplicatesFollow
<1>3. KeysFollow
  BY DEF KeysFollow, Handler!Keys
<1> QED BY <1>1, <1>2, <1>3 DEF NetworkInv

\* What is told is what the network did: the owner of the payment made the one call.
LEMMA AnswersFollow == ASSUME NetworkInv PROVE AnswersTellNetwork
<1> USE NetworkAssumption DEF NetworkInv, Handler!Owning, Handler!Running, Handler!Answered
<1>1. \A k : \A r \in Sent(k) : r \in Requests /\ Ref[r] = k /\ pc[r] \in Handler!Owning
  BY DEF LegsFollow, Sent
<1>2. ASSUME NEW r \in Requests, NEW q \in Requests, r \in Sent(Ref[r]), q \in Sent(Ref[r])
      PROVE  r = q
  BY <1>1, <1>2 DEF OwnerIsOne
<1>3. ASSUME NEW r \in Requests, Told(Ref[r], "settled")
      PROVE  \E q \in Sent(Ref[r]) : leg[q] = "ok"
  BY <1>3 DEF Told, LegsFollow, Sent
<1>4. ASSUME NEW r \in Requests, Told(Ref[r], "failed")
      PROVE  Sent(Ref[r]) = {}
  <2>1. PICK q \in Requests : Ref[q] = Ref[r] /\ pc[q] = "failed"
    BY <1>4 DEF Told
  <2>2. leg[q] = "open"
    BY <2>1 DEF LegsFollow
  <2>3. ASSUME NEW s \in Sent(Ref[r]) PROVE FALSE
    BY <1>1, <2>1, <2>2 DEF OwnerIsOne, Sent
  <2> QED BY <2>3
<1>5. ASSUME NEW r \in Requests
      PROVE  /\ pc[r] \in {"settled", "cached"} => Told(Ref[r], "settled")
             /\ pc[r] \in {"failed", "not_cached"} => Told(Ref[r], "failed")
  BY DEF DuplicatesFollow, Told
<1> QED BY <1>2, <1>3, <1>4, <1>5 DEF AnswersTellNetwork

\* What requests were told stays, and so does who owns a payment.
LEMMA GoesOn ==
  ASSUME HandlerTypes, NEW r \in Requests, pc[r] \notin {"settled", "failed"},
         NEW l, Handler!Goto(r, l)
  PROVE  /\ \A q \in Requests : pc'[q] = IF q = r THEN l ELSE pc[q]
         /\ \A k : Told(k, "settled") => Told(k, "settled")'
         /\ \A k : Told(k, "failed") => Told(k, "failed")'
<1>1. \A q \in Requests : pc'[q] = IF q = r THEN l ELSE pc[q]
  BY DEF HandlerTypes, Handler!Goto
<1> QED BY <1>1 DEF Told

\* Calls move only legs, and of requests that have submitted.
LEMMA CallsKeep ==
  ASSUME NetworkInv, UNCHANGED paymentVars, leg' \in [Callers -> Legs],
         \A q \in Requests : pc[q] = "inflight" \/ leg'[q] = leg[q]
  PROVE  NetworkInv'
<1> USE DEF NetworkInv, paymentVars
<1>1. HandlerTypes'
  BY DEF HandlerTypes
<1>2. LegsFollow'
  BY DEF LegsFollow
<1>3. OwnerIsOne' /\ KeysFollow' /\ DuplicatesFollow'
  BY DEF OwnerIsOne, KeysFollow, DuplicatesFollow, Told
<1> QED BY <1>1, <1>2, <1>3

\* A request that goes on without an outcome, and without a write of key or response,
\* owns the payment if it did before, and repeats what was told.
LEMMA MovesKeep ==
  ASSUME NetworkInv, UNCHANGED <<idem, payload, leg>>, NEW r \in Requests,
         pc[r] \in {"start", "insert", "created"},
         NEW l \in {"insert", "inflight"} \cup Handler!Refused, Handler!Goto(r, l),
         l = "inflight" => pc[r] = "created",
         l = "cached" => Told(Ref[r], "settled"),
         l = "not_cached" => Told(Ref[r], "failed")
  PROVE  NetworkInv'
<1> USE NetworkAssumption DEF NetworkInv, Handler!Owning, Handler!Running, Handler!Answered
<1>1. /\ \A q \in Requests : pc'[q] = IF q = r THEN l ELSE pc[q]
      /\ \A k : Told(k, "settled") => Told(k, "settled")'
      /\ \A k : Told(k, "failed") => Told(k, "failed")'
  BY GoesOn
<1>2. HandlerTypes'
  BY DEF HandlerTypes, Handler!Goto
<1>3. LegsFollow'
  BY <1>1 DEF LegsFollow, Handler!Refused
<1>4. OwnerIsOne'
  BY <1>1 DEF OwnerIsOne, Handler!Refused
<1>5. KeysFollow'
  BY <1>1 DEF KeysFollow
<1>6. DuplicatesFollow'
  BY <1>1 DEF DuplicatesFollow
<1> QED BY <1>2, <1>3, <1>4, <1>5, <1>6

\* An owner that commits writes its own key and response, which nobody else does.
LEMMA OwnerKeeps ==
  ASSUME NetworkInv, UNCHANGED leg, NEW r \in Requests,
         NEW l \in {"created", "settled", "ambiguous", "failed"}, Handler!Goto(r, l),
         IF l = "created" THEN pc[r] = "insert" /\ idem[Ref[r]] = Handler!Absent
                          ELSE pc[r] = "inflight",
         l = "settled" => leg[r] = "ok",
         l = "ambiguous" => leg[r] = "failure",
         l = "failed" => leg[r] = "open",
         idem' = [idem EXCEPT ![Ref[r]] = CASE l = "settled" -> "SUCCESS"
                                            [] l = "failed" -> "FAILED"
                                            [] l = "created" -> "PENDING"
                                            [] l = "ambiguous" -> @],
         payload' = [payload EXCEPT ![Ref[r]] = IF l = "settled" THEN "full" ELSE @]
  PROVE  NetworkInv'
<1> USE NetworkAssumption
        DEF NetworkInv, Handler!Owning, Handler!Running, Handler!Answered, Handler!Keys
<1>1. /\ \A q \in Requests : pc'[q] = IF q = r THEN l ELSE pc[q]
      /\ \A k : Told(k, "settled") => Told(k, "settled")'
      /\ \A k : Told(k, "failed") => Told(k, "failed")'
  BY GoesOn
<1>2. Ref[r] \in Payments /\ Ref[r] \in Handler!Keys
  OBVIOUS
<1>3. /\ \A k \in Handler!Keys \ {Ref[r]} : idem'[k] = idem[k] /\ payload'[k] = payload[k]
      /\ payload'[Ref[r]] = IF l = "settled" THEN "full" ELSE payload[Ref[r]]
      /\ l = "settled" => idem'[Ref[r]] = "SUCCESS"
      /\ l = "failed" => idem'[Ref[r]] = "FAILED"
      /\ l = "created" => idem'[Ref[r]] = "PENDING"
      /\ l = "ambiguous" => idem'[Ref[r]] = idem[Ref[r]]
  BY <1>2 DEF HandlerTypes
<1>4. ASSUME NEW q \in Requests, Ref[q] = Ref[r], pc[q] \in Handler!Owning PROVE q = r
  BY <1>4 DEF OwnerIsOne
<1>5. idem[Ref[r]] \in {Handler!Absent, "PENDING"}
  <2>1. CASE l = "created"
    BY <2>1
  <2>2. CASE l # "created"
    <3>1. ~Told(Ref[r], "settled") /\ ~Told(Ref[r], "failed")
      BY <1>4, <2>2 DEF Told
    <3> QED BY <1>2, <3>1 DEF KeysFollow, HandlerTypes, Handler!IdemStates
  <2> QED BY <2>1, <2>2
<1>6. HandlerTypes'
  <2>1. idem' \in [Handler!Keys -> Handler!IdemStates]
    BY <1>2 DEF HandlerTypes, Handler!IdemStates
  <2>2. payload' \in [Handler!Keys -> Handler!Payloads]
    BY <1>2 DEF HandlerTypes, Handler!Payloads
  <2>3. pc' \in [Requests -> {"start", "insert"} \cup Handler!Owning \cup Handler!Refused]
    BY DEF HandlerTypes, Handler!Goto
  <2> QED BY <2>1, <2>2, <2>3 DEF HandlerTypes
<1>7. LegsFollow'
  BY <1>1 DEF LegsFollow
<1>8. OwnerIsOne'
  <2>1. idem'[Ref[r]] # Handler!Absent
    BY <1>3, <1>2 DEF OwnerIsOne, Handler!Absent
  <2>2. ASSUME NEW q \in Requests, pc'[q] \in Handler!Owning
        PROVE  idem'[Ref[q]] # Handler!Absent /\ (Ref[q] = Ref[r] => q = r)
    <3>1. CASE q = r
      BY <2>1, <3>1
    <3>2. CASE q # r
      <4>1. pc[q] \in Handler!Owning
        BY <1>1, <2>2, <3>2
      <4>2. idem[Ref[q]] # Handler!Absent
        BY <4>1 DEF OwnerIsOne
      <4>3. Ref[q] # Ref[r]
        BY <4>1, <4>2, <1>4, <3>2
      <4> QED BY <4>2, <4>3, <1>3
    <3> QED BY <3>1, <3>2
  <2>3. ASSUME NEW p \in Requests, NEW q \in Requests, Ref[p] = Ref[q],
               pc'[p] \in Handler!Owning, pc'[q] \in Handler!Owning
        PROVE  p = q
    <3>1. CASE Ref[p] = Ref[r]
      BY <2>2, <2>3, <3>1
    <3>2. CASE Ref[p] # Ref[r]
      BY <1>1, <2>3, <3>2 DEF OwnerIsOne
    <3> QED BY <3>1, <3>2
  <2> QED BY <2>2, <2>3 DEF OwnerIsOne
<1>9. KeysFollow'
  <2> SUFFICES ASSUME NEW k \in Payments
               PROVE  /\ idem'[k] = "SUCCESS" => payload'[k] = "full" /\ Told(k, "settled")'
                      /\ idem'[k] # "SUCCESS" => payload'[k] = Handler!Absent
                      /\ idem'[k] = "FAILED" => Told(k, "failed")'
    BY DEF KeysFollow, Handler!Absent
  <2>1. CASE k = Ref[r]
    <3>1. payload[k] = Handler!Absent
      BY <2>1, <1>5 DEF KeysFollow, Handler!Absent
    <3>2. (l = "settled" => Told(k, "settled")') /\ (l = "failed" => Told(k, "failed")')
      BY <1>1, <2>1 DEF Told
    <3> QED BY <2>1, <3>1, <3>2, <1>3, <1>5 DEF Handler!Absent
  <2>2. CASE k # Ref[r]
    BY <2>2, <1>1, <1>3 DEF KeysFollow
  <2> QED BY <2>1, <2>2
<1>10. DuplicatesFollow'
  BY <1>1 DEF DuplicatesFollow
<1> QED BY <1>6, <1>7, <1>8, <1>9, <1>10

\* Before the call: the key is looked up and inserted, the payment submitted.
LEMMA PreparesKeep ==
  ASSUME NetworkInv, NEW r \in Requests, UNCHANGED leg,
         Handler!Reject(r) \/ Prepares(r)
  PROVE  NetworkInv'
<1> USE NetworkAssumption DEF Handler!At
<1>k. Ref[r] \in Payments
  OBVIOUS
<1>1. CASE Handler!Reject(r) \/ Handler!LookupNone(r) \/ Handler!LookupPending(r)
  BY <1>1, MovesKeep
     DEF Handler!Reject, Handler!LookupNone, Handler!LookupPending, Handler!storeVars,
         Handler!Refused
<1>2. CASE Handler!LookupFinal(r)
  <2>1. idem[Ref[r]] = "SUCCESS" => payload[Ref[r]] = "full" /\ Told(Ref[r], "settled")
    BY <1>k DEF NetworkInv, KeysFollow
  <2>2. idem[Ref[r]] = "FAILED" =>
          payload[Ref[r]] = Handler!Absent /\ Told(Ref[r], "failed")
    BY <1>k DEF NetworkInv, KeysFollow
  <2>3. CASE payload[Ref[r]] = "full"
    BY <1>2, <2>1, <2>2, <2>3, MovesKeep
       DEF Handler!LookupFinal, Handler!storeVars, Handler!Refused, Handler!Absent
  <2>4. CASE payload[Ref[r]] = Handler!Absent
    BY <1>2, <2>1, <2>2, <2>4, MovesKeep
       DEF Handler!LookupFinal, Handler!storeVars, Handler!Refused, Handler!Absent
  <2> QED BY <1>2, <2>1, <2>2, <2>3, <2>4 DEF Handler!LookupFinal
<1>3. CASE Handler!Insert(r)
  <2>1. CASE idem[Ref[r]] = Handler!Absent
    <3>1. /\ pc[r] = "insert" /\ Handler!Goto(r, "created")
          /\ idem' = [idem EXCEPT ![Ref[r]] = "PENDING"] /\ payload' = payload
      BY <1>3, <2>1 DEF Handler!Insert
    <3>2. payload' = [payload EXCEPT ![Ref[r]] = @]
      BY <3>1 DEF NetworkInv, HandlerTypes
    <3> QED BY <2>1, <3>1, <3>2, OwnerKeeps
  <2>2. CASE idem[Ref[r]] # Handler!Absent
    BY <1>3, <2>2, MovesKeep DEF Handler!Insert, Handler!storeVars, Handler!Refused
  <2> QED BY <2>1, <2>2
<1>4. CASE Handler!Submit(r)
  BY <1>4, MovesKeep DEF Handler!Submit
<1> QED BY <1>1, <1>2, <1>3, <1>4 DEF Prepares

\* After the call: the commit of what it answered, the key and its response in one.
LEMMA CommitsKeep ==
  ASSUME NetworkInv, NEW r \in Requests, UNCHANGED leg, Commits(r)
  PROVE  NetworkInv'
<1> USE NetworkAssumption DEF Handler!At
<1>k. Ref[r] \in Payments /\ Ref[r] \in Handler!Keys
  BY DEF Handler!Keys
<1>t. /\ idem \in [Handler!Keys -> Handler!IdemStates]
      /\ payload \in [Handler!Keys -> Handler!Payloads]
  BY DEF NetworkInv, HandlerTypes
<1>w. pc[r] = "inflight" => idem[Ref[r]] # Handler!Absent
  BY DEF NetworkInv, OwnerIsOne, Handler!Owning, Handler!Running
<1>1. CASE leg[r] = "ok" /\ Handler!Settle(r)
  <2>1. /\ pc[r] = "inflight" /\ Handler!Goto(r, "settled")
        /\ idem' = [idem EXCEPT ![Ref[r]] = "SUCCESS"]
        /\ payload' = [payload EXCEPT ![Ref[r]] = "full"]
    BY <1>1, <1>w DEF Handler!Settle, Handler!WithStatus
  <2> QED BY <1>1, <2>1, OwnerKeeps
<1>2. CASE leg[r] = "failure" /\ Handler!TimeOut(r)
  <2>1. /\ pc[r] = "inflight" /\ Handler!Goto(r, "ambiguous")
        /\ idem' = [idem EXCEPT ![Ref[r]] = @]
        /\ payload' = [payload EXCEPT ![Ref[r]] = @]
    BY <1>2, <1>t DEF Handler!TimeOut
  <2> QED BY <1>2, <2>1, OwnerKeeps
<1>3. CASE leg[r] = "open" /\ Handler!Fail(r)
  <2>1. /\ pc[r] = "inflight" /\ Handler!Goto(r, "failed")
        /\ idem' = [idem EXCEPT ![Ref[r]] = "FAILED"]
        /\ payload' = [payload EXCEPT ![Ref[r]] = @]
    BY <1>3, <1>w, <1>t DEF Handler!Fail, Handler!WithStatus
  <2> QED BY <1>3, <2>1, OwnerKeeps
<1> QED BY <1>1, <1>2, <1>3 DEF Commits

LEMMA NetworkInvStep ==
  TypeOK /\ TypeOK' /\ NetworkInv /\ [NetworkNext]_networkVars => NetworkInv'
<1> SUFFICES ASSUME TypeOK, TypeOK', NetworkInv, [NetworkNext]_networkVars
             PROVE  NetworkInv'
  OBVIOUS
<1> USE NetworkAssumption
<1>l. leg' \in [Callers -> Legs]
  BY DEF TypeOK
<1>1. CASE (CoolDown \/ Poll) /\ UNCHANGED paymentVars
  BY <1>1, <1>l, CallsKeep DEF CoolDown, Poll
<1>2. ASSUME NEW c \in Others, Enter(c) \/ Returns(c), UNCHANGED paymentVars
      PROVE  NetworkInv'
  <2>1. \A q \in Requests : leg'[q] = leg[q]
    BY <1>2 DEF Others, Enter, Returns, Blocked, Succeed, Fail, Answer, TypeOK
  <2> QED BY <1>2, <1>l, <2>1, CallsKeep
<1>3. ASSUME NEW r \in Requests, Calls(r), UNCHANGED paymentVars
      PROVE  NetworkInv'
  <2>1. \A q \in Requests : q = r \/ leg'[q] = leg[q]
    BY <1>3 DEF Calls, Enter, Returns, Blocked, Succeed, Fail, Answer, TypeOK
  <2>2. pc[r] = "inflight"
    BY <1>3 DEF Calls, Handler!At
  <2> QED BY <1>3, <1>l, <2>1, <2>2, CallsKeep
<1>4. ASSUME NEW r \in Requests, UNCHANGED vars,
             Handler!Reject(r) \/ Prepares(r) \/ Commits(r)
      PROVE  NetworkInv'
  BY <1>4, PreparesKeep, CommitsKeep DEF vars
<1>5. ASSUME NEW r \in Requests, UNCHANGED vars, Handler!Crash(r) PROVE NetworkInv'
  BY <1>5 DEF vars, Handler!Crash, Handler!storeVars, NetworkInv, HandlerTypes, LegsFollow,
              OwnerIsOne, KeysFollow, DuplicatesFollow, Told
<1>6. ASSUME NEW b \in Bills, UNCHANGED vars, Handler!FetchBill(b) PROVE NetworkInv'
  <2>1. /\ payload' = [payload EXCEPT ![b] = "bill"]
        /\ idem' = idem /\ pc' = pc /\ leg' = leg
    BY <1>6 DEF Handler!FetchBill, Handler!handlerVars, vars
  <2>2. \A k \in Payments : payload'[k] = payload[k]
    BY <2>1 DEF NetworkInv, HandlerTypes, Handler!Keys
  <2>3. HandlerTypes'
    BY <2>1 DEF NetworkInv, HandlerTypes, Handler!Keys, Handler!Payloads
  <2> QED BY <2>1, <2>2, <2>3
          DEF NetworkInv, LegsFollow, OwnerIsOne, KeysFollow, DuplicatesFollow, Told
<1>7. CASE UNCHANGED networkVars
  BY <1>7, <1>l, CallsKeep DEF networkVars, vars, paymentVars
<1> QED BY <1>1, <1>2, <1>3, <1>4, <1>5, <1>6, <1>7 DEF NetworkNext

\* For any number of requests, payments and other callers, in any order of their commits,
\* calls and deaths: the network gets a payment once at most, and nobody is told an
\* outcome the network did not give.
THEOREM AnswersAreTrue == NetworkSpec => []AnswersTellNetwork
<1>1. NetworkSpec => []TypeOK
  BY NetworkImplementsParts, TypeCorrect, PTL
<1>2. NetworkInv => AnswersTellNetwork
  BY AnswersFollow
<1> QED BY <1>1, <1>2, NetworkInvInit, NetworkInvStep, PTL DEF NetworkSpec
=============================================================================
