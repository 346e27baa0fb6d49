------------------------ MODULE RequestAdmissionProofs ------------------------
(***************************************************************************)
(* For any set of requests and messages, and any window: no nonce is         *)
(* accepted twice within its lifetime, every answer is logged, and the       *)
(* counters agree.                                                           *)
(***************************************************************************)
EXTENDS RequestAdmission, FiniteSetTheorems, TLAPS

\* A request under way knows its message and its nonce.
Known ==
  \A r \in Requests : req[r].pc # "new" => req[r].msg \in Messages /\ req[r].nonce \in Nonces

LEMMA MessageFacts ==
  ASSUME NEW m \in Messages
  PROVE  /\ m.nonce \in Nonces /\ m.trace \in Traces /\ m.stamp \in Nat
         /\ m.ip \in Addresses
  BY MessageAssumption DEF Nonces, Traces

LEMMA RaisedType ==
  ASSUME counted \in [Counters -> Nat], NEW names, Counts(names)
  PROVE  counted' \in [Counters -> Nat]
  BY DEF Counts, Raised

LEMMA InitType == Init => TypeOK /\ Known
<1> SUFFICES ASSUME Init PROVE TypeOK /\ Known
  OBVIOUS
<1>1. Known
  BY DEF Init, Known
<1>2. req \in [Requests -> RequestStates]
  BY DEF Init, RequestStates, Verdicts
<1>3. counted \in [Counters -> Nat] /\ now \in 0..LastTick
  BY TimeAssumption DEF Init, NothingCounted
<1> QED BY <1>1, <1>2, <1>3 DEF Init, TypeOK

-----------------------------------------------------------------------------
\* Most actions move one request on its way, between its arrival and its end, and leave
\* the clock and the log alone; of the nonces they drop old ones at most.

Before == {"new", "address", "blocked", "entry", "verify"}

Becomes(r, x) ==
  /\ req' = [req EXCEPT ![r] = x]
  /\ x \in RequestStates /\ x.nonce \in Nonces
  /\ x.msg = req[r].msg /\ x.at = req[r].at
  /\ x.pc \in Waiting
  /\ (x.pc \in Before \/ x.nonce # req[r].nonce) => req[r].pc \in Before

Moves(r) == req[r].pc \in Waiting /\ \E x : Becomes(r, x)

RestType ==
  /\ counted \in [Counters -> Nat]
  /\ whitelist \in [Addresses -> Requests \cup {Earlier, None}]
  /\ audit \subseteq [for : Requests, action : {"IP_BLOCKED", "FAILED_AUTH", "IP_WHITELIST"}]

Quiet == nonces' \in {nonces, Kept} /\ UNCHANGED <<now, log, unlogged>>

LEMMA GoesMoves ==
  ASSUME TypeOK, Known, NEW r \in Requests, req[r].pc \in Waiting, NEW pc \in Waiting,
         pc \in Before => req[r].pc \in Before, Goes(r, pc)
  PROVE  Moves(r)
<1> DEFINE x == [req[r] EXCEPT !.pc = pc]
<1>1. req[r] \in RequestStates /\ req[r].nonce \in Nonces
  BY DEF TypeOK, Known, Waiting
<1>2. /\ x \in RequestStates /\ x.msg = req[r].msg /\ x.nonce = req[r].nonce
      /\ x.at = req[r].at /\ x.pc = pc
  BY <1>1 DEF RequestStates
<1>3. req' = [req EXCEPT ![r] = x]
  BY DEF Goes
<1> HIDE DEF x
<1> QED BY <1>1, <1>2, <1>3 DEF Moves, Becomes

LEMMA AnswersMoves ==
  ASSUME TypeOK, Known, NEW r \in Requests, req[r].pc \in Waiting, NEW pc \in Waiting \ Before,
         NEW status \in Statuses, Answers(r, pc, status)
  PROVE  Moves(r)
<1> DEFINE x == [req[r] EXCEPT !.pc = pc, !.status = status]
<1>1. req[r] \in RequestStates /\ req[r].nonce \in Nonces
  BY DEF TypeOK, Known, Waiting
<1>2. /\ x \in RequestStates /\ x.msg = req[r].msg /\ x.nonce = req[r].nonce
      /\ x.at = req[r].at /\ x.pc = pc
  BY <1>1 DEF RequestStates
<1>3. req' = [req EXCEPT ![r] = x]
  BY DEF Answers
<1> HIDE DEF x
<1> QED BY <1>1, <1>2, <1>3 DEF Moves, Becomes

\* A refusal on the way to the signature, or by it
LEMMA RefusedMoves ==
  ASSUME TypeOK, Known, NEW r \in Requests, req[r].pc \in Waiting,
         NEW status \in Statuses, NEW verdict \in Verdicts,
         req' = [req EXCEPT ![r].pc = "log", ![r].status = status, ![r].verdict = verdict]
  PROVE  Moves(r)
<1> DEFINE x == [req[r] EXCEPT !.pc = "log", !.status = status, !.verdict = verdict]
<1>1. req[r] \in RequestStates /\ req[r].nonce \in Nonces
  BY DEF TypeOK, Known, Waiting
<1>2. /\ x \in RequestStates /\ x.msg = req[r].msg /\ x.nonce = req[r].nonce
      /\ x.at = req[r].at /\ x.pc = "log"
  BY <1>1 DEF RequestStates, Waiting
<1>3. req' = [req EXCEPT ![r] = x]
  OBVIOUS
<1> HIDE DEF x
<1> QED BY <1>1, <1>2, <1>3 DEF Moves, Becomes, Before, Waiting

\* The actions outside the signature
LEMMA WayMoves ==
  ASSUME TypeOK, Known, NEW r \in Requests,
         \/ CheckAddress(r) \/ BlockAddress(r) \/ Route(r) \/ EnterSigned(r)
         \/ Admit(r) \/ Unauthenticated(r) \/ AuditRefusal(r) \/ Forbid(r) \/ Handle(r)
         \/ Insert(r) \/ Refresh(r) \/ Delete(r) \/ AuditChange(r) \/ Respond(r)
  PROVE  Moves(r) /\ RestType' /\ Quiet
<1>1. RestType
  BY DEF TypeOK, RestType
<1>2. ASSUME UNCHANGED <<counted, whitelist, audit>> PROVE RestType'
  BY <1>1, <1>2 DEF RestType
<1>3. ASSUME NEW names, Counts(names) PROVE counted' \in [Counters -> Nat]
  BY <1>1, <1>3, RaisedType DEF RestType
<1> USE DEF At, Waiting, Before, Statuses
<1>4. CASE CheckAddress(r)
  <2>1. PICK pc \in {"entry", "blocked"} : Goes(r, pc)
    BY <1>4 DEF CheckAddress
  <2> QED BY <1>4, <2>1, <1>2, GoesMoves DEF CheckAddress, Quiet
<1>5. CASE BlockAddress(r)
  <2>1. Moves(r)
    BY <1>5, AnswersMoves DEF BlockAddress
  <2> QED BY <1>1, <1>5, <2>1 DEF BlockAddress, Quiet, RestType
<1>6. CASE Route(r)
  <2>1. Moves(r)
    BY <1>6, GoesMoves, AnswersMoves DEF Route
  <2> QED BY <1>6, <2>1, <1>2 DEF Route, Quiet
<1>7. CASE EnterSigned(r)
  <2>1. Moves(r)
    BY <1>7, GoesMoves DEF EnterSigned
  <2> QED BY <1>1, <1>3, <1>7, <2>1 DEF EnterSigned, Quiet, RestType
<1>8. CASE Admit(r)
  <2>1. PICK pc \in {"handle", "lookup"} : Goes(r, pc)
    BY <1>8 DEF Admit
  <2> QED BY <1>8, <2>1, <1>2, GoesMoves DEF Admit, Quiet
<1>9. CASE Unauthenticated(r)
  <2>1. Moves(r)
    BY <1>9, GoesMoves DEF Unauthenticated
  <2> QED BY <1>1, <1>3, <1>9, <2>1 DEF Unauthenticated, Quiet, RestType
<1>10. CASE AuditRefusal(r)
  <2>1. Moves(r)
    BY <1>10, AnswersMoves DEF AuditRefusal
  <2> QED BY <1>1, <1>10, <2>1 DEF AuditRefusal, Quiet, RestType
<1>11. CASE Forbid(r)
  <2>1. Moves(r)
    BY <1>11, AnswersMoves DEF Forbid
  <2> QED BY <1>1, <1>3, <1>11, <2>1 DEF Forbid, Quiet, RestType
<1>12. CASE Handle(r)
  <2>1. Moves(r)
    BY <1>12, AnswersMoves DEF Handle
  <2> QED BY <1>12, <2>1, <1>2 DEF Handle, Quiet
<1>13. CASE Insert(r)
  <2>1. Moves(r)
    BY <1>13, GoesMoves, AnswersMoves DEF Insert
  <2> QED BY <1>1, <1>13, <2>1 DEF Insert, Quiet, RestType
<1>14. CASE Refresh(r)
  <2>1. Moves(r)
    BY <1>14, GoesMoves, AnswersMoves DEF Refresh
  <2> QED BY <1>14, <2>1, <1>2 DEF Refresh, Quiet
<1>15. CASE Delete(r)
  <2>1. Moves(r)
    BY <1>15, GoesMoves DEF Delete
  <2> QED BY <1>1, <1>15, <2>1 DEF Delete, Quiet, RestType
<1>16. CASE AuditChange(r)
  <2>1. Moves(r)
    BY <1>16, AnswersMoves DEF AuditChange
  <2> QED BY <1>1, <1>16, <2>1 DEF AuditChange, Quiet, RestType
<1>17. CASE Respond(r)
  <2>1. Moves(r)
    BY <1>17, GoesMoves DEF Respond
  <2> QED BY <1>1, <1>3, <1>17, <2>1 DEF Respond, Quiet, RestType
<1> QED BY <1>4, <1>5, <1>6, <1>7, <1>8, <1>9, <1>10, <1>11, <1>12, <1>13, <1>14, <1>15,
           <1>16, <1>17

\* A look-up, and the two ways into the signature that set more than the step
LEMMA EntryMoves ==
  ASSUME TypeOK, Known, NEW r \in Requests,
         Lookup(r) \/ EnterAutoSigned(r) \/ EnterUnsigned(r)
  PROVE  Moves(r) /\ RestType' /\ Quiet
<1>1. RestType
  BY DEF TypeOK, RestType
<1>2. ASSUME NEW names, Counts(names) PROVE counted' \in [Counters -> Nat]
  BY <1>1, <1>2, RaisedType DEF RestType
<1>3. /\ req[r].pc \in Waiting
      /\ req[r] \in RequestStates /\ req[r].msg \in Messages /\ req[r].nonce \in Nonces
  BY DEF TypeOK, Known, Lookup, EnterAutoSigned, EnterUnsigned, At, Waiting
<1>4. CASE Lookup(r)
  <2>1. Listed(r) \in Requests \cup {Earlier, None}
    BY <1>1, <1>3, MessageFacts DEF Listed, RestType
  <2>2. Moves(r)
    <3>1. CASE Answers(r, "respond", 400)
      BY <3>1, <1>3, AnswersMoves DEF Waiting, Before, Statuses
    <3>2. CASE req' = [req EXCEPT ![r].pc = "commit", ![r].row = Listed(r)]
      <4> DEFINE x == [req[r] EXCEPT !.pc = "commit", !.row = Listed(r)]
      <4>1. /\ x \in RequestStates /\ x.msg = req[r].msg /\ x.nonce = req[r].nonce
            /\ x.at = req[r].at /\ x.pc = "commit"
        BY <1>3, <2>1 DEF RequestStates, Waiting
      <4>2. req' = [req EXCEPT ![r] = x]
        BY <3>2
      <4> HIDE DEF x
      <4> QED BY <1>3, <4>1, <4>2 DEF Moves, Becomes, Before, Waiting
    <3> QED BY <1>4, <3>1, <3>2 DEF Lookup
  <2> QED BY <1>1, <1>4, <2>2 DEF Lookup, Quiet, RestType
<1>5. CASE EnterAutoSigned(r)
  <2> DEFINE x == [req[r] EXCEPT !.pc = "verify", !.nonce = r, !.stamp = Seconds(now)]
  <2>1. Seconds(now) \in Nat /\ r \in Nonces
    BY TimeAssumption DEF Seconds, Nonces, TypeOK
  <2>2. /\ x \in RequestStates /\ x.msg = req[r].msg /\ x.nonce = r
        /\ x.at = req[r].at /\ x.pc = "verify"
    BY <1>3, <2>1 DEF RequestStates, Waiting
  <2>3. req' = [req EXCEPT ![r] = x] /\ req[r].pc = "entry"
    BY <1>5 DEF EnterAutoSigned, At
  <2> HIDE DEF x
  <2>4. Moves(r)
    BY <1>3, <2>1, <2>2, <2>3 DEF Moves, Becomes, Before, Waiting
  <2> QED BY <1>1, <1>2, <1>5, <2>4 DEF EnterAutoSigned, Quiet, RestType
<1>6. CASE EnterUnsigned(r)
  <2>1. 401 \in Statuses /\ "headers" \in Verdicts
    BY DEF Statuses, Verdicts
  <2>2. req' = [req EXCEPT ![r].pc = "log", ![r].status = 401, ![r].verdict = "headers"]
    BY <1>6 DEF EnterUnsigned
  <2>3. Moves(r)
    BY <1>3, <2>1, <2>2, RefusedMoves
  <2> QED BY <1>1, <1>2, <1>6, <2>3 DEF EnterUnsigned, Quiet, RestType
<1> QED BY <1>4, <1>5, <1>6

\* A refusal of the signature
LEMMA RefusalMoves ==
  ASSUME TypeOK, Known, NEW r \in Requests, At(r, "verify"),
         \/ RefuseBody(r) \/ RefuseChannel(r) \/ RefuseStale(r)
         \/ RefuseReplay(r) \/ RefuseSignature(r) \/ BreakSignature(r)
  PROVE  Moves(r) /\ RestType' /\ Quiet
<1>1. PICK verdict \in Verdicts, status \in Statuses, names \in SUBSET Counters : Refuses(r, verdict, status, names)
  BY DEF Counters, RefuseBody, RefuseChannel, RefuseStale, RefuseReplay, RefuseSignature,
         BreakSignature, Verdicts, Statuses
<1>5. Moves(r)
  BY <1>1, RefusedMoves DEF Refuses, At, Waiting
<1>6. counted' \in [Counters -> Nat]
  BY <1>1, RaisedType DEF Refuses, TypeOK
<1>7. nonces' \in {nonces, Kept}
  BY DEF RefuseBody, RefuseChannel, RefuseStale, RefuseReplay, RefuseSignature, BreakSignature
<1> QED BY <1>1, <1>5, <1>6, <1>7 DEF Refuses, Quiet, RestType, TypeOK

\* The database fails before the log is reached.
LEMMA FailureMoves ==
  ASSUME TypeOK, Known, NEW r \in Requests, DatabaseFails(r), ~At(r, "log")
  PROVE  Moves(r) /\ RestType' /\ Quiet
<1>1. Moves(r)
  BY AnswersMoves DEF DatabaseFails, At, Waiting, Before, Statuses
<1> QED BY <1>1 DEF DatabaseFails, Quiet, RestType, TypeOK

-----------------------------------------------------------------------------
\* What is accepted stays cached for its lifetime.
AcceptedKept ==
  \A r \in Requests :
    req[r].at # None =>
      /\ req[r].pc \notin Before /\ req[r].at <= now
      /\ now - req[r].at <= Lifetime =>
           nonces[req[r].nonce] # None /\ nonces[req[r].nonce] >= req[r].at

\* A row of the log is that of a request that is done, and the other way round.
RowsAreOfTheDone ==
  /\ \A t \in Traces :
       log[t] # None => /\ log[t].for \in Requests /\ req[log[t].for].pc = "done"
                        /\ Trace(log[t].for) = t /\ log[t] = Row(log[t].for)
  /\ \A r \in Requests :
       (req[r].pc = "done" /\ Path(r) # "static" /\ r \notin unlogged) => log[Trace(r)] # None

AdmissionInv == TypeOK /\ Known /\ AcceptedKept /\ AcceptancesAreApart /\ RowsAreOfTheDone

LEMMA LifetimeType == Lifetime \in Nat
  BY TimeAssumption DEF Lifetime

LEMMA KeptFacts ==
  ASSUME TypeOK
  PROVE  /\ Kept \in [Nonces -> Nat \cup {None}]
         /\ \A n \in Nonces : nonces[n] # None /\ now - nonces[n] <= Lifetime => Kept[n] = nonces[n]
         /\ \A n \in Nonces : Kept[n] = None => nonces[n] = None \/ now - nonces[n] > Lifetime
<1>1. /\ nonces \in [Nonces -> Nat \cup {None}] /\ None \notin Nat /\ now \in Nat
      /\ Lifetime \in Nat
  BY TimeAssumption, LifetimeType DEF TypeOK
<1> QED BY <1>1 DEF Kept, Expired

LEMMA InitInv == Init => AdmissionInv
<1> SUFFICES ASSUME Init PROVE AdmissionInv
  OBVIOUS
<1>1. TypeOK /\ Known
  BY InitType
<1>2. AcceptedKept /\ AcceptancesAreApart
  BY DEF Init, AcceptedKept, AcceptancesAreApart
<1>3. RowsAreOfTheDone
  BY DEF Init, RowsAreOfTheDone
<1> QED BY <1>1, <1>2, <1>3 DEF AdmissionInv

\* A move keeps who was accepted and when, drops no nonce that is alive, and touches no
\* request that is done.
LEMMA MovesKeeps ==
  ASSUME AdmissionInv, NEW r \in Requests, Moves(r), RestType', Quiet
  PROVE  AdmissionInv'
<1>1. PICK x : Becomes(r, x)
  BY DEF Moves
<1>2. \A q \in Requests : req'[q] = IF q = r THEN x ELSE req[q]
  BY <1>1 DEF Becomes, AdmissionInv, TypeOK
<1>3. TypeOK'
  <2>1. nonces' \in [Nonces -> Nat \cup {None}]
    BY KeptFacts DEF Quiet, AdmissionInv, TypeOK
  <2>2. req' \in [Requests -> RequestStates]
    BY <1>1 DEF Becomes, AdmissionInv, TypeOK
  <2> QED BY <2>1, <2>2 DEF Quiet, RestType, AdmissionInv, TypeOK
<1>4. Known'
  <2>1. req[r].msg \in Messages
    BY DEF Moves, Waiting, AdmissionInv, Known
  <2> QED BY <1>1, <1>2, <2>1 DEF Becomes, AdmissionInv, Known
<1>5. \A q \in Requests : /\ req'[q].at = req[q].at
                          /\ req[q].at # None => /\ req'[q].nonce = req[q].nonce
                                                 /\ req'[q].pc \notin Before
  BY <1>1, <1>2 DEF Becomes, AdmissionInv, AcceptedKept
<1>6. AcceptedKept'
  <2> SUFFICES ASSUME NEW q \in Requests, req[q].at # None
               PROVE  /\ req[q].at <= now'
                      /\ now' - req[q].at <= Lifetime =>
                           nonces'[req[q].nonce] # None /\ nonces'[req[q].nonce] >= req[q].at
    BY <1>5 DEF AcceptedKept, Lifetime
  <2>1. /\ req[q].at \in Nat /\ now \in Nat /\ now' = now /\ Lifetime \in Nat
        /\ req[q].nonce \in Nonces
    BY LifetimeType DEF AdmissionInv, AcceptedKept, TypeOK, RequestStates, Quiet, Known, Before
  <2>2. nonces[req[q].nonce] \in Nat \cup {None}
    BY <2>1 DEF AdmissionInv, TypeOK
  <2>3. ASSUME now - req[q].at <= Lifetime
        PROVE  nonces'[req[q].nonce] = nonces[req[q].nonce] /\ nonces[req[q].nonce] # None
               /\ nonces[req[q].nonce] >= req[q].at
    <3>1. nonces[req[q].nonce] # None /\ nonces[req[q].nonce] >= req[q].at
      BY <2>3 DEF AdmissionInv, AcceptedKept
    <3>2. now - nonces[req[q].nonce] <= Lifetime
      BY <2>1, <2>2, <2>3, <3>1
    <3> QED BY <2>1, <3>1, <3>2, KeptFacts DEF Quiet, AdmissionInv
  <2> QED BY <2>1, <2>3 DEF AdmissionInv, AcceptedKept
<1>7. AcceptancesAreApart'
  BY <1>5 DEF AcceptancesAreApart, AdmissionInv, Lifetime
<1>8. RowsAreOfTheDone'
  <2>1. \A q \in Requests : /\ req'[q].pc = "done" => req'[q] = req[q]
                            /\ req[q].pc = "done" => req'[q] = req[q]
    BY <1>1, <1>2 DEF Moves, Becomes, Waiting
  <2> QED BY <2>1 DEF Quiet, AdmissionInv, RowsAreOfTheDone, Row, Trace, Path
<1> QED BY <1>3, <1>4, <1>6, <1>7, <1>8 DEF AdmissionInv

LEMMA ArriveKeeps ==
  ASSUME AdmissionInv, NEW r \in Requests, NEW m \in Messages, Arrive(r, m)
  PROVE  AdmissionInv'
<1> DEFINE x == [req[r] EXCEPT !.pc = "address", !.msg = m, !.nonce = m.nonce,
                               !.stamp = m.stamp]
<1>0. UNCHANGED <<now, nonces, counted, whitelist, audit, log, unlogged>>
  BY DEF Arrive
<1>1. /\ req[r] \in RequestStates /\ req[r].pc = "new" /\ req[r].at = None
  BY DEF Arrive, At, AdmissionInv, TypeOK, AcceptedKept, Before
<1>2. /\ x \in RequestStates /\ x.pc = "address" /\ x.msg = m /\ x.nonce = m.nonce
      /\ x.at = None
  BY <1>1, MessageFacts DEF RequestStates, Waiting
<1>3. req' = [req EXCEPT ![r] = x]
  BY DEF Arrive
<1> HIDE DEF x
<1>4. \A q \in Requests : req'[q] = IF q = r THEN x ELSE req[q]
  BY <1>3 DEF AdmissionInv, TypeOK
<1>5. TypeOK'
  BY <1>0, <1>2, <1>3 DEF AdmissionInv, TypeOK
<1>6. Known'
  BY <1>2, <1>4, MessageFacts DEF AdmissionInv, Known
<1>7. AcceptedKept' /\ AcceptancesAreApart'
  BY <1>0, <1>1, <1>2, <1>4
     DEF AdmissionInv, AcceptedKept, AcceptancesAreApart, Lifetime, Before
<1>8. RowsAreOfTheDone'
  BY <1>0, <1>1, <1>2, <1>4 DEF AdmissionInv, RowsAreOfTheDone, Row, Trace, Path
<1> QED BY <1>5, <1>6, <1>7, <1>8 DEF AdmissionInv

\* A nonce is accepted only when every acceptance under it is older than its lifetime.
LEMMA AcceptKeeps ==
  ASSUME AdmissionInv, NEW r \in Requests, At(r, "verify"), Accept(r)
  PROVE  AdmissionInv'
<1> DEFINE n == req[r].nonce
<1>1. /\ req[r] \in RequestStates /\ req[r].pc = "verify" /\ req[r].at = None
      /\ req[r].msg \in Messages /\ n \in Nonces /\ now \in Nat /\ Lifetime \in Nat
  BY LifetimeType DEF At, AdmissionInv, TypeOK, Known, AcceptedKept, Before
<1>2. PICK pc \in {"log", "access"}, status \in Statuses \cup {None} :
        req' = [req EXCEPT ![r] = [req[r] EXCEPT !.pc = pc, !.status = status,
                                                 !.verdict = "accepted", !.at = now]]
  <2>1. CASE Path(r) = "probe"
    <3>1. 200 \in Statuses
      BY DEF Statuses
    <3>2. req' = [req EXCEPT ![r] = [req[r] EXCEPT !.pc = "log", !.status = 200,
                                                   !.verdict = "accepted", !.at = now]]
      <4>1. req' = [req EXCEPT ![r].pc = "log", ![r].status = 200,
                               ![r].verdict = "accepted", ![r].at = now]
        BY <2>1 DEF Accept, Accepts
      <4> QED BY <4>1
    <3> QED BY <3>1, <3>2
  <2>2. CASE Path(r) # "probe"
    <3>1. req' = [req EXCEPT ![r] = [req[r] EXCEPT !.pc = "access", !.verdict = "accepted",
                                                   !.at = now]]
      BY <2>2 DEF Accept, Accepts
    <3>2. [req[r] EXCEPT !.pc = "access", !.verdict = "accepted", !.at = now]
            = [req[r] EXCEPT !.pc = "access", !.status = req[r].status,
                             !.verdict = "accepted", !.at = now]
      BY <1>1 DEF RequestStates
    <3>3. req[r].status \in Statuses \cup {None}
      BY <1>1 DEF RequestStates
    <3> QED BY <3>1, <3>2, <3>3
  <2> QED BY <2>1, <2>2
<1> DEFINE x == [req[r] EXCEPT !.pc = pc, !.status = status, !.verdict = "accepted", !.at = now]
<1>3. /\ x \in RequestStates /\ x.pc \in {"log", "access"} /\ x.msg = req[r].msg
      /\ x.nonce = n /\ x.at = now
  BY <1>1 DEF RequestStates, Waiting, Verdicts
<1>4. req' = [req EXCEPT ![r] = x]
  BY <1>2
<1> HIDE DEF x
<1>5. \A q \in Requests : req'[q] = IF q = r THEN x ELSE req[q]
  BY <1>4 DEF AdmissionInv, TypeOK
<1>6. /\ nonces' = [Kept EXCEPT ![n] = now] /\ Kept[n] = None
      /\ UNCHANGED <<now, whitelist, audit, log, unlogged>>
  BY DEF Accept, Accepts, Unused
<1>7. Kept \in [Nonces -> Nat \cup {None}]
  BY KeptFacts DEF AdmissionInv
<1>8. TypeOK'
  <2>1. counted' \in [Counters -> Nat]
    BY RaisedType DEF Accept, Accepts, AdmissionInv, TypeOK
  <2> QED BY <1>1, <1>3, <1>4, <1>6, <1>7, <2>1 DEF AdmissionInv, TypeOK
<1>9. Known'
  BY <1>1, <1>3, <1>5 DEF AdmissionInv, Known
<1>10. ASSUME NEW q \in Requests, q # r, req[q].at # None
       PROVE  /\ req[q].nonce \in Nonces /\ req[q].at \in Nat /\ req[q].at <= now
              /\ now - req[q].at <= Lifetime =>
                   Kept[req[q].nonce] # None /\ Kept[req[q].nonce] >= req[q].at
  <2>1. /\ req[q].nonce \in Nonces /\ req[q].at \in Nat /\ req[q].at <= now
    BY <1>10 DEF AdmissionInv, AcceptedKept, Known, Before, TypeOK, RequestStates
  <2>2. nonces[req[q].nonce] \in Nat \cup {None}
    BY <2>1 DEF AdmissionInv, TypeOK
  <2>3. ASSUME now - req[q].at <= Lifetime
        PROVE  Kept[req[q].nonce] # None /\ Kept[req[q].nonce] >= req[q].at
    <3>1. nonces[req[q].nonce] # None /\ nonces[req[q].nonce] >= req[q].at
      BY <1>10, <2>3 DEF AdmissionInv, AcceptedKept
    <3>2. now - nonces[req[q].nonce] <= Lifetime
      BY <1>1, <2>1, <2>2, <2>3, <3>1
    <3> QED BY <2>1, <3>1, <3>2, KeptFacts DEF AdmissionInv
  <2> QED BY <2>1, <2>3
<1>11. AcceptedKept'
  <2> SUFFICES ASSUME NEW q \in Requests, req'[q].at # None
               PROVE  /\ req'[q].pc \notin Before /\ req'[q].at <= now
                      /\ now - req'[q].at <= Lifetime =>
                           nonces'[req'[q].nonce] # None /\ nonces'[req'[q].nonce] >= req'[q].at
    BY <1>6 DEF AcceptedKept, Lifetime
  <2>1. CASE q = r
    BY <1>1, <1>3, <1>5, <1>6, <1>7, <2>1, TimeAssumption DEF Before
  <2>2. CASE q # r
    <3>1. req'[q] = req[q] /\ req[q].pc \notin Before
      BY <1>5, <2>2 DEF AdmissionInv, AcceptedKept
    <3>2. req[q].nonce # n => nonces'[req[q].nonce] = Kept[req[q].nonce]
      BY <1>6, <1>7
    <3>3. req[q].nonce = n => now - req[q].at > Lifetime
      BY <1>1, <1>6, <1>10, <2>2, <3>1
    <3> QED BY <1>1, <1>10, <2>2, <3>1, <3>2, <3>3
  <2> QED BY <2>1, <2>2
<1>12. AcceptancesAreApart'
  <2>1. \A q \in Requests :
          (q # r /\ req[q].at # None /\ req[q].nonce = n) => now - req[q].at > Lifetime
    BY <1>1, <1>6, <1>10
  <2> QED BY <1>3, <1>5, <2>1 DEF AdmissionInv, AcceptancesAreApart, Lifetime
<1>13. RowsAreOfTheDone'
  BY <1>1, <1>3, <1>5, <1>6 DEF AdmissionInv, RowsAreOfTheDone, Row, Trace, Path
<1> QED BY <1>8, <1>9, <1>11, <1>12, <1>13 DEF AdmissionInv

\* The end of a request: its row is written, or refused, or there is none to write.
LEMMA EndKeeps ==
  ASSUME AdmissionInv, NEW r \in Requests, WriteLog(r) \/ SkipLog(r) \/ (DatabaseFails(r) /\ At(r, "log"))
  PROVE  AdmissionInv'
<1>1. /\ req[r].pc = "log" /\ Goes(r, "done")
      /\ UNCHANGED <<now, nonces, counted, whitelist, audit>>
  BY DEF WriteLog, SkipLog, DatabaseFails, At
<1> DEFINE x == [req[r] EXCEPT !.pc = "done"]
<1>2. /\ req[r] \in RequestStates /\ req[r].msg \in Messages /\ req[r].nonce \in Nonces
  BY <1>1 DEF AdmissionInv, TypeOK, Known
<1>3. /\ x \in RequestStates /\ x.pc = "done" /\ x.msg = req[r].msg /\ x.nonce = req[r].nonce
      /\ x.at = req[r].at /\ x.status = req[r].status
  BY <1>2 DEF RequestStates
<1>4. req' = [req EXCEPT ![r] = x]
  BY <1>1 DEF Goes
<1> HIDE DEF x
<1>5. \A q \in Requests : req'[q] = IF q = r THEN x ELSE req[q]
  BY <1>4 DEF AdmissionInv, TypeOK
<1>6. Known'
  BY <1>2, <1>3, <1>5 DEF AdmissionInv, Known
<1>7. AcceptedKept' /\ AcceptancesAreApart'
  BY <1>1, <1>3, <1>5 DEF AdmissionInv, AcceptedKept, AcceptancesAreApart, Lifetime, Before
<1>8. Trace(r) \in Traces /\ Row(r) \in LogRows /\ Row(r).for = r
  BY <1>2, MessageFacts DEF Trace, Row, LogRows, Outcome
<1>9. \A q \in Requests : req'[q].msg = req[q].msg /\ req'[q].status = req[q].status
  BY <1>3, <1>5
<1>10. CASE log' = [log EXCEPT ![Trace(r)] = Row(r)] /\ UNCHANGED unlogged
  <2>1. TypeOK'
    BY <1>1, <1>3, <1>4, <1>8, <1>10 DEF AdmissionInv, TypeOK
  <2>2. \A t \in Traces : log'[t] = IF t = Trace(r) THEN Row(r) ELSE log[t]
    BY <1>10 DEF AdmissionInv, TypeOK
  <2>3. Row(r) # None
    BY <1>8, TimeAssumption
  <2>4. \A q \in Requests : req'[q].pc = "done" => q = r \/ req[q].pc = "done"
    BY <1>5
  <2>5. ASSUME NEW q \in Requests, req'[q].pc = "done", Path(q) # "static", q \notin unlogged
        PROVE  log'[Trace(q)] # None
    <3>1. Trace(q) \in Traces
      BY <1>2, <1>8, <2>4, <2>5, MessageFacts DEF AdmissionInv, Known, Trace
    <3> QED BY <2>2, <2>3, <2>4, <2>5, <3>1 DEF AdmissionInv, RowsAreOfTheDone
  <2>6. ASSUME NEW t \in Traces, log'[t] # None
        PROVE  /\ log'[t].for \in Requests /\ req'[log'[t].for].pc = "done"
               /\ Trace(log'[t].for) = t /\ log'[t] = Row(log'[t].for)
    BY <1>3, <1>5, <1>8, <2>2, <2>6 DEF AdmissionInv, RowsAreOfTheDone
  <2>7. RowsAreOfTheDone'
    <3>1. ASSUME NEW t \in Traces, log'[t] # None
          PROVE  /\ log'[t].for \in Requests /\ req'[log'[t].for].pc = "done"
                 /\ req'[log'[t].for].msg.trace = t
                 /\ log'[t] = [for |-> log'[t].for,
                               outcome |-> Outcome(req'[log'[t].for].status)]
      BY <1>9, <2>6, <3>1 DEF Trace, Row
    <3>2. ASSUME NEW q \in Requests, req'[q].pc = "done", req'[q].msg.path # "static",
                 q \notin unlogged'
          PROVE  log'[req'[q].msg.trace] # None
      BY <1>9, <1>10, <2>5, <3>2 DEF Trace, Path
    <3> QED BY <3>1, <3>2 DEF RowsAreOfTheDone, Row, Trace, Path
  <2> QED BY <1>6, <1>7, <2>1, <2>7 DEF AdmissionInv
<1>11. CASE UNCHANGED log /\ unlogged' \in {unlogged, unlogged \cup {r}}
            /\ (log[Trace(r)] # None \/ Path(r) = "static" \/ r \in unlogged')
  <2>1. TypeOK'
    BY <1>1, <1>3, <1>4, <1>11 DEF AdmissionInv, TypeOK
  <2>2. ASSUME NEW t \in Traces, log[t] # None
        PROVE  /\ log[t].for \in Requests /\ req'[log[t].for].pc = "done"
               /\ req'[log[t].for].msg.trace = t
               /\ log[t] = [for |-> log[t].for, outcome |-> Outcome(req'[log[t].for].status)]
    <3>1. /\ log[t].for \in Requests /\ req[log[t].for].pc = "done"
          /\ Trace(log[t].for) = t /\ log[t] = Row(log[t].for)
      BY <2>2 DEF AdmissionInv, RowsAreOfTheDone
    <3> QED BY <1>3, <1>5, <1>9, <3>1 DEF Trace, Row
  <2>3. ASSUME NEW q \in Requests, req'[q].pc = "done", req'[q].msg.path # "static",
               q \notin unlogged'
        PROVE  log[req'[q].msg.trace] # None
    BY <1>5, <1>9, <1>11, <2>3 DEF AdmissionInv, RowsAreOfTheDone, Trace, Path
  <2>4. RowsAreOfTheDone'
    BY <1>11, <2>2, <2>3 DEF RowsAreOfTheDone, Row, Trace, Path
  <2> QED BY <1>6, <1>7, <2>1, <2>4 DEF AdmissionInv
<1> QED BY <1>10, <1>11 DEF WriteLog, SkipLog, DatabaseFails, At

\* With the process go its nonces, and the requests it had accepted.
LEMMA RestartKeeps ==
  ASSUME AdmissionInv, Restart
  PROVE  AdmissionInv'
<1>1. \A r \in Requests :
        /\ req'[r] \in RequestStates
        /\ req'[r].at = None /\ req'[r].msg = req[r].msg /\ req'[r].nonce = req[r].nonce
        /\ req'[r].status = req[r].status
        /\ req'[r].pc = "new" <=> req[r].pc = "new"
        /\ req'[r].pc = "done" <=> req[r].pc = "done"
  <2> TAKE r \in Requests
  <2>1. req[r] \in RequestStates
    BY DEF AdmissionInv, TypeOK
  <2>2. req'[r] = [req[r] EXCEPT !.pc = IF @ \in {"new", "done"} THEN @ ELSE "lost",
                                 !.verdict = "none", !.at = None]
    BY DEF Restart
  <2> QED BY <2>1, <2>2 DEF RequestStates, Verdicts
<1>2. TypeOK'
  <2>1. req' \in [Requests -> RequestStates]
    BY <1>1 DEF Restart
  <2>2. counted' \in [Counters -> Nat] /\ nonces' \in [Nonces -> Nat \cup {None}]
    BY DEF Restart, NothingCounted
  <2> QED BY <2>1, <2>2 DEF Restart, AdmissionInv, TypeOK
<1>3. Known'
  BY <1>1 DEF AdmissionInv, Known
<1>4. AcceptedKept' /\ AcceptancesAreApart'
  BY <1>1 DEF AcceptedKept, AcceptancesAreApart
<1>5. RowsAreOfTheDone'
  <2>1. ASSUME NEW t \in Traces, log[t] # None
        PROVE  /\ log[t].for \in Requests /\ req'[log[t].for].pc = "done"
               /\ req'[log[t].for].msg.trace = t
               /\ log[t] = [for |-> log[t].for, outcome |-> Outcome(req'[log[t].for].status)]
    <3>1. /\ log[t].for \in Requests /\ req[log[t].for].pc = "done"
          /\ Trace(log[t].for) = t /\ log[t] = Row(log[t].for)
      BY <2>1 DEF AdmissionInv, RowsAreOfTheDone
    <3> QED BY <1>1, <3>1 DEF Trace, Row
  <2>2. UNCHANGED <<log, unlogged>>
    BY DEF Restart
  <2>3. ASSUME NEW q \in Requests, req'[q].pc = "done", req'[q].msg.path # "static",
               q \notin unlogged
        PROVE  log[req'[q].msg.trace] # None
    BY <1>1, <2>3 DEF AdmissionInv, RowsAreOfTheDone, Trace, Path
  <2> QED BY <2>1, <2>2, <2>3 DEF RowsAreOfTheDone, Row, Trace, Path
<1> QED BY <1>2, <1>3, <1>4, <1>5 DEF AdmissionInv

\* Ages grow with the clock.
LEMMA TickKeeps ==
  ASSUME AdmissionInv, Tick
  PROVE  AdmissionInv'
<1>1. /\ now \in Nat /\ now' = now + 1 /\ now' \in 0..LastTick /\ Lifetime \in Nat
      /\ UNCHANGED <<nonces, counted, req, whitelist, audit, log, unlogged>>
  BY LifetimeType, TimeAssumption DEF Tick, AdmissionInv, TypeOK
<1>2. TypeOK'
  BY <1>1 DEF AdmissionInv, TypeOK
<1>3. AcceptedKept'
  <2> SUFFICES ASSUME NEW r \in Requests, req[r].at # None
               PROVE  /\ req[r].pc \notin Before /\ req[r].at <= now + 1
                      /\ (now + 1) - req[r].at <= Lifetime =>
                           nonces[req[r].nonce] # None /\ nonces[req[r].nonce] >= req[r].at
    BY <1>1 DEF AcceptedKept, Lifetime
  <2>1. req[r].at \in Nat
    BY DEF AdmissionInv, TypeOK, RequestStates
  <2> QED BY <1>1, <2>1 DEF AdmissionInv, AcceptedKept
<1>4. Known' /\ AcceptancesAreApart' /\ RowsAreOfTheDone'
  BY <1>1 DEF AdmissionInv, Known, AcceptancesAreApart, Lifetime, RowsAreOfTheDone, Row, Trace, Path
<1> QED BY <1>2, <1>3, <1>4 DEF AdmissionInv

LEMMA StillKeeps ==
  ASSUME AdmissionInv, UNCHANGED <<now, nonces, counted, req, whitelist, log, unlogged>>,
         audit' \subseteq [for : Requests, action : {"IP_BLOCKED", "FAILED_AUTH", "IP_WHITELIST"}]
  PROVE  AdmissionInv'
  BY DEF AdmissionInv, TypeOK, Known, AcceptedKept, AcceptancesAreApart, Lifetime,
         RowsAreOfTheDone, Row, Trace, Path

LEMMA StepInv == AdmissionInv /\ [Next]_vars => AdmissionInv'
<1> SUFFICES ASSUME AdmissionInv, [Next]_vars PROVE AdmissionInv'
  OBVIOUS
<1>0. TypeOK /\ Known
  BY DEF AdmissionInv
<1>1. ASSUME NEW r \in Requests, Step(r) PROVE AdmissionInv'
  <2>1. CASE \/ CheckAddress(r) \/ BlockAddress(r) \/ Route(r) \/ EnterSigned(r)
             \/ Admit(r) \/ Unauthenticated(r) \/ AuditRefusal(r) \/ Forbid(r) \/ Handle(r)
             \/ Insert(r) \/ Refresh(r) \/ Delete(r) \/ AuditChange(r) \/ Respond(r)
    BY <1>0, <2>1, WayMoves, MovesKeeps
  <2>2. CASE Lookup(r) \/ EnterAutoSigned(r) \/ EnterUnsigned(r)
    BY <1>0, <2>2, EntryMoves, MovesKeeps
  <2>3. CASE Verify(r)
    <3>1. CASE Accept(r)
      BY <2>3, <3>1, AcceptKeeps DEF Verify
    <3>2. CASE ~Accept(r)
      <4>1. Moves(r) /\ RestType' /\ Quiet
        BY <1>0, <2>3, <3>2, RefusalMoves DEF Verify
      <4> QED BY <4>1, MovesKeeps
    <3> QED BY <3>1, <3>2
  <2>4. CASE WriteLog(r) \/ SkipLog(r) \/ (DatabaseFails(r) /\ At(r, "log"))
    BY <2>4, EndKeeps
  <2>5. CASE DatabaseFails(r) /\ ~At(r, "log")
    BY <1>0, <2>5, FailureMoves, MovesKeeps
  <2> QED BY <1>1, <2>1, <2>2, <2>3, <2>4, <2>5 DEF Step, ChangeWhitelist
<1>2. ASSUME NEW r \in Requests, NEW m \in Messages, Arrive(r, m) PROVE AdmissionInv'
  BY <1>2, ArriveKeeps
<1>3. CASE Restart
  BY <1>3, RestartKeeps
<1>4. CASE Tick
  BY <1>4, TickKeeps
<1>5. CASE UNCHANGED vars
  BY <1>0, <1>5, StillKeeps DEF vars, TypeOK
<1> QED BY <1>1, <1>2, <1>3, <1>4, <1>5 DEF Next

LEMMA Inductive == Spec => []AdmissionInv
<1> QED BY InitInv, StepInv, PTL DEF Spec

-----------------------------------------------------------------------------
\* The state keeps its shape.
THEOREM AdmissionTypeCorrect == Spec => []TypeOK
<1>1. AdmissionInv => TypeOK
  BY DEF AdmissionInv
<1> QED BY <1>1, Inductive, PTL

\* No nonce is accepted twice within its lifetime, for any window and any timestamps.
THEOREM NoReplayWithinLifetime == Spec => []AcceptancesAreApart
<1>1. AdmissionInv => AcceptancesAreApart
  BY DEF AdmissionInv
<1> QED BY <1>1, Inductive, PTL

\* Whatever answer a request gets, the log has its row or that of its trace id.
THEOREM EveryAnswerIsLogged == Spec => []AnswersAreLogged
<1>1. AdmissionInv => AnswersAreLogged
  <2> SUFFICES ASSUME AdmissionInv, NEW r \in Requests,
                      req[r].pc = "done", Path(r) # "static", r \notin unlogged
               PROVE  /\ log[Trace(r)] # None
                      /\ LET row == log[Trace(r)]
                         IN /\ Trace(row.for) = Trace(r) /\ req[row.for].pc = "done"
                            /\ row = Row(row.for)
    BY DEF AnswersAreLogged
  <2>1. Trace(r) \in Traces
    BY MessageFacts DEF AdmissionInv, Known, Trace
  <2> QED BY <2>1 DEF AdmissionInv, RowsAreOfTheDone
<1> QED BY <1>1, Inductive, PTL

-----------------------------------------------------------------------------
\* The counters.  Only finitely many requests have come at any time, so that there is a
\* number of those with a verdict; each gets its verdict once, on its way out of the
\* signature.
Inside == Waiting \ (Before \cup {"log"})

Came == {r \in Requests : req[r].pc # "new"}

JudgedOnce ==
  \A r \in Requests :
    /\ req[r].pc \in Before => req[r].verdict = "none"
    /\ (req[r].pc \in Inside /\ Path(r) = "channel") => req[r].verdict = "accepted"

\* The nonces checked and the failures, against the verdicts
FiguresAgree ==
  /\ counted["replay_attacks"] = counted["rejected_duplicates"]
  /\ counted["nonces_checked"] - counted["rejected_duplicates"] - Judged({"accepted"})
       = Judged({"mismatch", "error"})
  /\ Judged({"mismatch", "error", "headers", "stale"}) <= counted["hmac_failures"]
  /\ counted["hmac_failures"] + counted["rejected_duplicates"]
       <= counted["unauthorized"] + Judged({"error"})

\* Who may have a latency: an accepted request that is on its way back
Timed == {r \in Requests : req[r].verdict = "accepted" /\ req[r].pc \in {"log", "done"}}

\* Who was counted as a request, or will be when it is accepted
Promised ==
  {r \in Requests : \/ req[r].verdict = "accepted"
                    \/ req[r].pc = "verify" /\ Path(r) # "probe"}

TrafficAgrees ==
  counted["latencies"] <= Cardinality(Timed) /\ Cardinality(Promised) <= counted["requests"]

CountersInv == IsFiniteSet(Came) /\ JudgedOnce /\ FiguresAgree /\ TrafficAgrees

LEMMA JudgedFinite ==
  ASSUME CountersInv, NEW S, "none" \notin S
  PROVE  IsFiniteSet({q \in Requests : req[q].verdict \in S}) /\ Judged(S) \in Nat
<1>1. {q \in Requests : req[q].verdict \in S} \in SUBSET Came
  BY DEF CountersInv, JudgedOnce, Came, Before
<1>2. IsFiniteSet({q \in Requests : req[q].verdict \in S})
  BY <1>1, FS_Subset DEF CountersInv
<1> QED BY <1>2, FS_CardinalityType DEF Judged

LEMMA TrafficFinite ==
  ASSUME CountersInv
  PROVE  /\ IsFiniteSet(Timed) /\ Cardinality(Timed) \in Nat
         /\ IsFiniteSet(Promised) /\ Cardinality(Promised) \in Nat
<1>1. Timed \in SUBSET Came /\ Promised \in SUBSET Came
  BY DEF CountersInv, JudgedOnce, Came, Timed, Promised, Before
<1>2. IsFiniteSet(Timed) /\ IsFiniteSet(Promised)
  BY <1>1, FS_Subset DEF CountersInv
<1> QED BY <1>2, FS_CardinalityType

LEMMA GainsOne ==
  ASSUME NEW S, IsFiniteSet(S), NEW x, NEW more \in BOOLEAN,
         NEW T \in SUBSET (IF more THEN S \cup {x} ELSE S)
  PROVE  /\ Cardinality(T) \in Nat
         /\ Cardinality(T) <= Cardinality(S) + (IF more THEN 1 ELSE 0)
<1>1. Cardinality(S) \in Nat
  BY FS_CardinalityType
<1>2. CASE more
  <2>1. IsFiniteSet(S \cup {x}) /\ Cardinality(S \cup {x}) <= Cardinality(S) + 1
    BY <1>1, FS_AddElement
  <2>2. IsFiniteSet(T) /\ Cardinality(T) <= Cardinality(S \cup {x})
    BY <1>2, <2>1, FS_Subset
  <2>3. Cardinality(T) \in Nat /\ Cardinality(S \cup {x}) \in Nat
    BY <2>1, <2>2, FS_CardinalityType
  <2> QED BY <1>1, <1>2, <2>1, <2>2, <2>3
<1>3. CASE ~more
  <2>1. IsFiniteSet(T) /\ Cardinality(T) <= Cardinality(S)
    BY <1>3, FS_Subset
  <2> QED BY <1>1, <1>3, <2>1, FS_CardinalityType
<1> QED BY <1>2, <1>3

\* A verdict is counted under itself.
LEMMA JudgedRaised ==
  ASSUME CountersInv, NEW r \in Requests, NEW v, req[r].verdict = "none", req'[r].verdict = v,
         \A q \in Requests \ {r} : req'[q].verdict = req[q].verdict,
         NEW S, "none" \notin S
  PROVE  Judged(S)' = IF v \in S THEN Judged(S) + 1 ELSE Judged(S)
<1> DEFINE J == {q \in Requests : req[q].verdict \in S}
<1>1. IsFiniteSet(J) /\ r \notin J /\ Judged(S) = Cardinality(J)
  BY JudgedFinite DEF Judged
<1>2. {q \in Requests : req'[q].verdict \in S} = IF v \in S THEN J \cup {r} ELSE J
  OBVIOUS
<1>3. Judged(S)' = Cardinality({q \in Requests : req'[q].verdict \in S})
  BY DEF Judged
<1> HIDE DEF J
<1> QED BY <1>1, <1>2, <1>3, FS_AddElement

LEMMA JudgedStays ==
  ASSUME \A q \in Requests : req'[q].verdict = req[q].verdict
  PROVE  \A S : Judged(S)' = Judged(S)
<1> SUFFICES ASSUME NEW S PROVE Judged(S)' = Judged(S)
  OBVIOUS
<1>1. {q \in Requests : req'[q].verdict \in S} = {q \in Requests : req[q].verdict \in S}
  OBVIOUS
<1> QED BY <1>1 DEF Judged

\* Who was on the way stays so, and one more may have come.
LEMMA CameFinite ==
  ASSUME CountersInv, NEW r \in Requests,
         \A q \in Requests \ {r} : req'[q].pc = req[q].pc
  PROVE  IsFiniteSet(Came)'
<1>1. Came' \in SUBSET (Came \cup {r})
  BY DEF Came
<1>2. IsFiniteSet(Came \cup {r})
  BY FS_AddElement DEF CountersInv
<1> QED BY <1>1, <1>2, FS_Subset

-----------------------------------------------------------------------------
\* A request goes on and keeps its verdict; it is counted as a request, or refused later.
Proceeds(r, names) ==
  /\ counted' = Raised(counted, names) /\ names \subseteq {"requests", "unauthorized", "jwt_failures"}
  /\ \A q \in Requests \ {r} : req'[q] = req[q]
  /\ req'[r].verdict = req[r].verdict
  /\ req'[r].pc \in Before => req[r].pc \in Before
  /\ (req'[r].pc \in Inside /\ req'[r].msg.path = "channel") => req[r].verdict = "accepted"
  /\ req[r].pc \in {"log", "done"} => req'[r].pc \in {"log", "done"}
  /\ (req'[r].pc = "verify" /\ req'[r].msg.path # "probe")
       => "requests" \in names /\ req[r].verdict = "none"

LEMMA ProceedsKeeps ==
  ASSUME TypeOK, CountersInv, NEW r \in Requests, NEW names, Proceeds(r, names)
  PROVE  CountersInv'
<1>1. \A q \in Requests \ {r} : req'[q] = req[q]
  BY DEF Proceeds
<1>2. IsFiniteSet(Came)'
  BY <1>1, CameFinite
<1>3. JudgedOnce'
  BY DEF Proceeds, CountersInv, JudgedOnce, Path
<1>4. counted \in [Counters -> Nat]
  BY DEF TypeOK
<1>5. /\ \A c \in {"replay_attacks", "rejected_duplicates", "nonces_checked", "hmac_failures",
                   "latencies"} : counted'[c] = counted[c]
      /\ counted'["unauthorized"] >= counted["unauthorized"]
      /\ counted'["requests"] = counted["requests"] + (IF "requests" \in names THEN 1 ELSE 0)
  BY <1>4 DEF Proceeds, Raised, Counters
<1>6. FiguresAgree'
  <2>1. \A S : Judged(S)' = Judged(S)
    BY <1>1, JudgedStays DEF Proceeds
  <2>2. Judged({"error"}) \in Nat /\ Judged({"accepted"}) \in Nat
    BY JudgedFinite
  <2>3. /\ Judged({"accepted"})' = Judged({"accepted"})
        /\ Judged({"mismatch", "error"})' = Judged({"mismatch", "error"})
        /\ Judged({"mismatch", "error", "headers", "stale"})'
             = Judged({"mismatch", "error", "headers", "stale"})
        /\ Judged({"error"})' = Judged({"error"})
    BY <2>1
  <2>4. \A c \in Counters : counted[c] \in Nat /\ counted'[c] \in Nat
    BY <1>4 DEF Proceeds, Raised, Counters
  <2> QED BY <1>5, <2>2, <2>3, <2>4 DEF CountersInv, FiguresAgree, Counters
<1>7. TrafficAgrees'
  <2>1. counted["latencies"] \in Nat /\ counted["requests"] \in Nat
    BY <1>4 DEF Counters
  <2>2. Timed \in SUBSET Timed' /\ Timed' \in SUBSET Came'
    BY <1>1 DEF Proceeds, Timed, Came
  <2>3. Cardinality(Timed) <= Cardinality(Timed') /\ Cardinality(Timed') \in Nat
    BY <1>2, <2>2, FS_Subset, FS_CardinalityType
  <2>4. Promised' \in SUBSET (IF "requests" \in names THEN Promised \cup {r} ELSE Promised)
    BY <1>1 DEF Proceeds, Promised, Path
  <2>5. /\ Cardinality(Promised') <= Cardinality(Promised) + (IF "requests" \in names THEN 1 ELSE 0)
        /\ Cardinality(Promised') \in Nat
    BY <2>4, TrafficFinite, GainsOne
  <2> QED BY <1>5, <2>1, <2>3, <2>5, TrafficFinite DEF CountersInv, TrafficAgrees
<1> QED BY <1>2, <1>3, <1>6, <1>7 DEF CountersInv

\* A channel's answer is timed, once.
Responds(r) ==
  /\ req[r].pc = "respond" /\ req'[r].pc = "log" /\ Path(r) = "channel"
  /\ req'[r].verdict = req[r].verdict /\ req'[r].msg = req[r].msg
  /\ \A q \in Requests \ {r} : req'[q] = req[q]
  /\ counted' = Raised(counted, {"latencies"})

LEMMA RespondsKeeps ==
  ASSUME TypeOK, CountersInv, NEW r \in Requests, Responds(r)
  PROVE  CountersInv'
<1>1. \A q \in Requests \ {r} : req'[q] = req[q]
  BY DEF Responds
<1>2. IsFiniteSet(Came)'
  BY <1>1, CameFinite
<1>3. JudgedOnce' /\ req[r].verdict = "accepted"
  BY DEF Responds, CountersInv, JudgedOnce, Path, Before, Inside, Waiting
<1>4. /\ counted \in [Counters -> Nat]
      /\ \A c \in Counters \ {"latencies"} : counted'[c] = counted[c]
      /\ counted'["latencies"] = counted["latencies"] + 1
  BY DEF Responds, Raised, Counters, TypeOK
<1>5. \A S : Judged(S)' = Judged(S)
  BY <1>1, JudgedStays DEF Responds
<1>6. FiguresAgree'
  <2>1. /\ Judged({"accepted"})' = Judged({"accepted"})
        /\ Judged({"mismatch", "error"})' = Judged({"mismatch", "error"})
        /\ Judged({"mismatch", "error", "headers", "stale"})'
             = Judged({"mismatch", "error", "headers", "stale"})
        /\ Judged({"error"})' = Judged({"error"})
    BY <1>5
  <2> QED BY <1>4, <2>1 DEF CountersInv, FiguresAgree, Counters
<1>7. TrafficAgrees'
  <2>1. Timed' = Timed \cup {r} /\ r \notin Timed /\ Promised' = Promised
    BY <1>1, <1>3 DEF Responds, Timed, Promised, Path
  <2>2. Cardinality(Timed') = Cardinality(Timed) + 1
    BY <2>1, TrafficFinite, FS_AddElement
  <2>3. counted["latencies"] \in Nat /\ counted'["requests"] = counted["requests"]
    BY <1>4 DEF Counters
  <2> QED BY <1>4, <2>1, <2>2, <2>3, TrafficFinite DEF CountersInv, TrafficAgrees
<1> QED BY <1>2, <1>3, <1>6, <1>7 DEF CountersInv

\* What is counted with each verdict
Tallies(v, names) ==
  \/ v = "headers" /\ names = {"requests", "hmac_failures", "unauthorized"}
  \/ v = "body" /\ names = {}
  \/ v = "channel" /\ names \in {{"unauthorized"}, {"unauthorized", "hmac_failures"}}
  \/ v = "stale" /\ names = {"unauthorized", "hmac_failures"}
  \/ v = "replayed" /\ names = {"unauthorized", "nonces_checked", "rejected_duplicates",
                                "replay_attacks"}
  \/ v = "mismatch" /\ names = {"unauthorized", "nonces_checked", "hmac_failures"}
  \/ v = "error" /\ \/ names = {"unauthorized", "nonces_checked", "hmac_failures"}
                    \/ names = {"nonces_checked", "hmac_failures"}
  \/ v = "accepted" /\ names \in {{"nonces_checked"}, {"nonces_checked", "requests"}}

\* The verdict of a request
Judges(r, v, names) ==
  /\ req[r].pc \in {"entry", "verify"} /\ Tallies(v, names)
  /\ counted' = Raised(counted, names)
  /\ req'[r].verdict = v /\ req'[r].msg = req[r].msg
  /\ \/ req'[r].pc = "log"
     \/ req'[r].pc = "access" /\ v = "accepted"
  /\ (v = "accepted" /\ "requests" \notin names) => req[r].pc = "verify" /\ Path(r) # "probe"
  /\ \A q \in Requests \ {r} : req'[q] = req[q]

LEMMA JudgesKeeps ==
  ASSUME TypeOK, CountersInv, NEW r \in Requests, NEW v, NEW names, Judges(r, v, names)
  PROVE  CountersInv'
<1>1. \A q \in Requests \ {r} : req'[q] = req[q]
  BY DEF Judges
<1>2. IsFiniteSet(Came)'
  BY <1>1, CameFinite
<1>3. req[r].verdict = "none"
  BY DEF Judges, CountersInv, JudgedOnce, Before
<1>4. JudgedOnce'
  BY <1>1 DEF Judges, CountersInv, JudgedOnce, Path, Before, Inside, Waiting
<1>5. \A c \in Counters : /\ counted[c] \in Nat
                          /\ counted'[c] = IF c \in names THEN counted[c] + 1 ELSE counted[c]
  BY DEF Judges, Raised, Counters, TypeOK
<1>6. FiguresAgree'
  <2> DEFINE A == Judged({"accepted"})
             B == Judged({"mismatch", "error"})
             C == Judged({"mismatch", "error", "headers", "stale"})
             D == Judged({"error"})
  <2>1. /\ A' = IF v = "accepted" THEN A + 1 ELSE A
        /\ B' = IF v \in {"mismatch", "error"} THEN B + 1 ELSE B
        /\ C' = IF v \in {"mismatch", "error", "headers", "stale"} THEN C + 1 ELSE C
        /\ D' = IF v = "error" THEN D + 1 ELSE D
    BY <1>1, <1>3, JudgedRaised DEF Judges
  <2>2. A \in Nat /\ B \in Nat /\ C \in Nat /\ D \in Nat
    BY JudgedFinite
  <2>3. /\ counted["replay_attacks"] = counted["rejected_duplicates"]
        /\ counted["nonces_checked"] - counted["rejected_duplicates"] - A = B
        /\ C <= counted["hmac_failures"]
        /\ counted["hmac_failures"] + counted["rejected_duplicates"]
             <= counted["unauthorized"] + D
    BY DEF CountersInv, FiguresAgree
  <2> HIDE DEF A, B, C, D
  <2>4. \A c \in {"replay_attacks", "rejected_duplicates", "nonces_checked", "hmac_failures",
                  "unauthorized"} :
          /\ counted[c] \in Nat
          /\ counted'[c] = IF c \in names THEN counted[c] + 1 ELSE counted[c]
    BY <1>5 DEF Counters
  <2>5. /\ counted'["replay_attacks"] = counted'["rejected_duplicates"]
        /\ counted'["nonces_checked"] - counted'["rejected_duplicates"] - A' = B'
        /\ C' <= counted'["hmac_failures"]
        /\ counted'["hmac_failures"] + counted'["rejected_duplicates"]
             <= counted'["unauthorized"] + D'
    <3>1. CASE v \in {"headers", "body", "channel", "stale"}
      BY <2>1, <2>2, <2>3, <2>4, <3>1 DEF Judges, Tallies
    <3>2. CASE v \in {"replayed", "mismatch"}
      BY <2>1, <2>2, <2>3, <2>4, <3>2 DEF Judges, Tallies
    <3>3. CASE v = "error"
      BY <2>1, <2>2, <2>3, <2>4, <3>3 DEF Judges, Tallies
    <3>4. CASE v = "accepted"
      BY <2>1, <2>2, <2>3, <2>4, <3>4 DEF Judges, Tallies
    <3> QED BY <3>1, <3>2, <3>3, <3>4 DEF Judges, Tallies
  <2> QED BY <2>5 DEF FiguresAgree, A, B, C, D
<1>7. TrafficAgrees'
  <2>1. counted["latencies"] \in Nat /\ counted["requests"] \in Nat
        /\ counted'["latencies"] = counted["latencies"]
        /\ counted'["requests"] = counted["requests"] + (IF "requests" \in names THEN 1 ELSE 0)
    BY <1>5 DEF Judges, Tallies, Counters
  <2>2. Timed \in SUBSET Timed' /\ Timed' \in SUBSET Came'
    BY <1>1, <1>3 DEF Judges, Timed, Came
  <2>3. Cardinality(Timed) <= Cardinality(Timed') /\ Cardinality(Timed') \in Nat
    BY <1>2, <2>2, FS_Subset, FS_CardinalityType
  <2>4. Promised' \in SUBSET (IF "requests" \in names THEN Promised \cup {r} ELSE Promised)
    BY <1>1 DEF Judges, Promised, Path
  <2>5. /\ Cardinality(Promised') <= Cardinality(Promised) + (IF "requests" \in names THEN 1 ELSE 0)
        /\ Cardinality(Promised') \in Nat
    BY <2>4, TrafficFinite, GainsOne
  <2> QED BY <2>1, <2>3, <2>5, TrafficFinite DEF CountersInv, TrafficAgrees
<1> QED BY <1>2, <1>4, <1>6, <1>7 DEF CountersInv

-----------------------------------------------------------------------------
\* Which step is which.  A request moves on, and only its step, its status and what it
\* remembers change.
Moved(r, pc) ==
  /\ req'[r].pc = pc /\ req'[r].verdict = req[r].verdict /\ req'[r].msg = req[r].msg
  /\ \A q \in Requests \ {r} : req'[q] = req[q]

LEMMA GoesMoved ==
  ASSUME TypeOK, NEW r \in Requests, NEW pc, Goes(r, pc)
  PROVE  Moved(r, pc)
<1>1. req \in [Requests -> RequestStates] /\ req[r] \in RequestStates
  BY DEF TypeOK
<1> QED BY <1>1 DEF Goes, Moved, RequestStates

LEMMA AnswersMoved ==
  ASSUME TypeOK, NEW r \in Requests, NEW pc, NEW status, Answers(r, pc, status)
  PROVE  Moved(r, pc)
<1>1. req \in [Requests -> RequestStates] /\ req[r] \in RequestStates
  BY DEF TypeOK
<1> QED BY <1>1 DEF Answers, Moved, RequestStates

LEMMA NothingRaised ==
  ASSUME TypeOK, UNCHANGED counted
  PROVE  counted' = Raised(counted, {})
  BY DEF TypeOK, Raised

\* On the way in, a channel stops at the signature; behind it, what moves is accepted.
LEMMA MovedProceeds ==
  ASSUME TypeOK, CountersInv, NEW r \in Requests, NEW pc, Moved(r, pc),
         NEW names \in SUBSET {"requests", "unauthorized", "jwt_failures"},
         counted' = Raised(counted, names),
         pc \in Before => req[r].pc \in Before,
         pc \in Inside => req[r].pc \in Inside \/ Path(r) # "channel",
         req[r].pc \in {"log", "done"} => pc \in {"log", "done"},
         (pc = "verify" /\ Path(r) # "probe") => "requests" \in names /\ req[r].pc \in Before
  PROVE  CountersInv'
<1>1. /\ req[r].pc \in Before => req[r].verdict = "none"
      /\ (req[r].pc \in Inside /\ Path(r) = "channel") => req[r].verdict = "accepted"
  BY DEF CountersInv, JudgedOnce
<1>2. Proceeds(r, names)
  BY <1>1 DEF Proceeds, Moved, Path
<1> QED BY <1>2, ProceedsKeeps

\* The steps that count nothing
LEMMA SilentKeeps ==
  ASSUME TypeOK, CountersInv, NEW r \in Requests,
         \/ CheckAddress(r) \/ BlockAddress(r) \/ Route(r) \/ Admit(r) \/ AuditRefusal(r)
         \/ Handle(r) \/ ChangeWhitelist(r) \/ WriteLog(r) \/ SkipLog(r) \/ DatabaseFails(r)
         \/ (Respond(r) /\ Path(r) # "channel")
  PROVE  CountersInv'
<1>1. counted' = Raised(counted, {})
  BY NothingRaised
     DEF CheckAddress, BlockAddress, Route, Admit, AuditRefusal, Handle, ChangeWhitelist,
         Lookup, Insert, Refresh, Delete, AuditChange, WriteLog, SkipLog, DatabaseFails, Respond
<1>2. ASSUME NEW pc, Goes(r, pc) \/ \E status : Answers(r, pc, status),
             pc \in Before => req[r].pc \in Before,
             pc \in Inside => req[r].pc \in Inside \/ Path(r) # "channel",
             req[r].pc \in {"log", "done"} => pc \in {"log", "done"},
             (pc = "verify" /\ Path(r) # "probe") => FALSE
      PROVE  CountersInv'
  <2>1. Moved(r, pc)
    BY <1>2, GoesMoved, AnswersMoved
  <2> QED BY <1>1, <1>2, <2>1, MovedProceeds
<1> USE DEF At, Before, Inside, Waiting
<1>3. CASE CheckAddress(r)
  <2>1. PICK pc \in {"entry", "blocked"} : Goes(r, pc)
    BY <1>3 DEF CheckAddress
  <2> QED BY <1>2, <1>3, <2>1 DEF CheckAddress
<1>4. CASE BlockAddress(r)
  BY <1>2, <1>4 DEF BlockAddress
<1>5. CASE Route(r)
  <2>1. CASE Answers(r, "log", 503) \/ Answers(r, "log", 400)
    BY <1>2, <1>5, <2>1 DEF Route
  <2>2. CASE Path(r) = "static" /\ Goes(r, "handle")
    BY <1>2, <1>5, <2>2 DEF Route
  <2>3. CASE Path(r) \in {"add", "remove"} /\ Goes(r, "access")
    BY <1>2, <1>5, <2>3 DEF Route
  <2>4. CASE Path(r) = "probe" /\ Goes(r, "verify")
    BY <1>2, <1>5, <2>4 DEF Route
  <2> QED BY <1>5, <2>1, <2>2, <2>3, <2>4 DEF Route
<1>6. CASE Admit(r)
  <2>1. PICK pc \in {"handle", "lookup"} : Goes(r, pc)
    BY <1>6 DEF Admit
  <2> QED BY <1>2, <1>6, <2>1 DEF Admit
<1>7. CASE AuditRefusal(r)
  BY <1>2, <1>7 DEF AuditRefusal
<1>8. CASE Handle(r)
  BY <1>2, <1>8 DEF Handle
<1>9. CASE Lookup(r)
  <2>1. CASE Answers(r, "respond", 400)
    BY <1>2, <1>9, <2>1 DEF Lookup
  <2>2. CASE req' = [req EXCEPT ![r].pc = "commit", ![r].row = Listed(r)]
    <3>1. req \in [Requests -> RequestStates] /\ req[r] \in RequestStates
      BY DEF TypeOK
    <3>2. Moved(r, "commit")
      BY <2>2, <3>1 DEF Moved, RequestStates
    <3> QED BY <1>1, <1>9, <3>2, MovedProceeds DEF Lookup
  <2> QED BY <1>9, <2>1, <2>2 DEF Lookup
<1>10. CASE Insert(r)
  BY <1>2, <1>10 DEF Insert
<1>11. CASE Refresh(r)
  BY <1>2, <1>11 DEF Refresh
<1>12. CASE Delete(r)
  BY <1>2, <1>12 DEF Delete
<1>13. CASE AuditChange(r)
  BY <1>2, <1>13 DEF AuditChange
<1>14. CASE WriteLog(r) \/ SkipLog(r)
  BY <1>2, <1>14 DEF WriteLog, SkipLog
<1>15. CASE DatabaseFails(r)
  BY <1>2, <1>15 DEF DatabaseFails
<1>16. CASE Respond(r) /\ Path(r) # "channel"
  BY <1>2, <1>16 DEF Respond
<1> QED BY <1>3, <1>4, <1>5, <1>6, <1>7, <1>8, <1>9, <1>10, <1>11, <1>12, <1>13, <1>14, <1>15,
           <1>16 DEF ChangeWhitelist

\* The steps that count, but for the verdicts
LEMMA CountingKeeps ==
  ASSUME TypeOK, CountersInv, NEW r \in Requests,
         \/ EnterSigned(r) \/ EnterAutoSigned(r) \/ Unauthenticated(r) \/ Forbid(r)
         \/ (Respond(r) /\ Path(r) = "channel")
  PROVE  CountersInv'
<1>0. req \in [Requests -> RequestStates] /\ req[r] \in RequestStates
  BY DEF TypeOK
<1> USE DEF At, Counts, Before, Inside, Waiting
<1>1. CASE EnterSigned(r)
  <2>1. Moved(r, "verify")
    BY <1>1, GoesMoved DEF EnterSigned
  <2> QED BY <1>1, <2>1, MovedProceeds DEF EnterSigned
<1>2. CASE EnterAutoSigned(r)
  <2>1. req' = [req EXCEPT ![r].pc = "verify", ![r].nonce = r, ![r].stamp = Seconds(now)]
    BY <1>2 DEF EnterAutoSigned
  <2>2. Moved(r, "verify")
    BY <1>0, <2>1 DEF Moved, RequestStates
  <2> QED BY <1>2, <2>2, MovedProceeds DEF EnterAutoSigned
<1>3. CASE Unauthenticated(r)
  <2>1. Moved(r, "refused")
    BY <1>3, GoesMoved DEF Unauthenticated
  <2>2. PICK names \in {{"unauthorized"}, {"jwt_failures"}} : counted' = Raised(counted, names)
    BY <1>3 DEF Unauthenticated
  <2> QED BY <1>3, <2>1, <2>2, MovedProceeds DEF Unauthenticated
<1>4. CASE Forbid(r)
  <2>1. Moved(r, "log")
    BY <1>4, AnswersMoved DEF Forbid
  <2> QED BY <1>4, <2>1, MovedProceeds DEF Forbid
<1>5. CASE Respond(r) /\ Path(r) = "channel"
  <2>1. Moved(r, "log")
    BY <1>5, GoesMoved DEF Respond
  <2>2. Responds(r)
    BY <1>5, <2>1 DEF Respond, Responds, Moved
  <2> QED BY <2>2, RespondsKeeps
<1> QED BY <1>1, <1>2, <1>3, <1>4, <1>5

\* The verdicts
LEMMA RefusesJudges ==
  ASSUME TypeOK, NEW r \in Requests, req[r].pc \in {"entry", "verify"}, NEW v, NEW status,
         NEW names, v # "accepted", Tallies(v, names), Counts(names),
         req' = [req EXCEPT ![r].pc = "log", ![r].status = status, ![r].verdict = v]
  PROVE  Judges(r, v, names)
<1>1. req \in [Requests -> RequestStates] /\ req[r] \in RequestStates
  BY DEF TypeOK
<1>2. /\ req'[r].pc = "log" /\ req'[r].verdict = v /\ req'[r].msg = req[r].msg
      /\ \A q \in Requests \ {r} : req'[q] = req[q]
  BY <1>1 DEF RequestStates
<1> QED BY <1>2 DEF Judges, Counts

LEMMA AcceptJudges ==
  ASSUME TypeOK, NEW r \in Requests, At(r, "verify"), Accept(r)
  PROVE  \E names : Judges(r, "accepted", names)
<1>1. req \in [Requests -> RequestStates] /\ req[r] \in RequestStates
  BY DEF TypeOK
<1>2. CASE Path(r) = "probe"
  <2>1. /\ counted' = Raised(counted, {"nonces_checked", "requests"})
        /\ req' = [req EXCEPT ![r].pc = "log", ![r].status = 200,
                              ![r].verdict = "accepted", ![r].at = now]
    BY <1>2 DEF Accept, Accepts, Counts
  <2>2. /\ req'[r].pc = "log" /\ req'[r].verdict = "accepted" /\ req'[r].msg = req[r].msg
        /\ \A q \in Requests \ {r} : req'[q] = req[q]
    BY <1>1, <2>1 DEF RequestStates
  <2>3. Judges(r, "accepted", {"nonces_checked", "requests"})
    BY <2>1, <2>2 DEF Judges, Tallies, At
  <2> QED BY <2>3
<1>3. CASE Path(r) # "probe"
  <2>1. /\ counted' = Raised(counted, {"nonces_checked"})
        /\ req' = [req EXCEPT ![r].pc = "access", ![r].verdict = "accepted", ![r].at = now]
    BY <1>3 DEF Accept, Accepts, Counts
  <2>2. /\ req'[r].pc = "access" /\ req'[r].verdict = "accepted" /\ req'[r].msg = req[r].msg
        /\ \A q \in Requests \ {r} : req'[q] = req[q]
    BY <1>1, <2>1 DEF RequestStates
  <2>3. Judges(r, "accepted", {"nonces_checked"})
    BY <1>3, <2>1, <2>2 DEF Judges, Tallies, At
  <2> QED BY <2>3
<1> QED BY <1>2, <1>3

LEMMA VerdictKeeps ==
  ASSUME TypeOK, CountersInv, NEW r \in Requests, EnterUnsigned(r) \/ Verify(r)
  PROVE  CountersInv'
<1>1. req[r].pc \in {"entry", "verify"}
  BY DEF EnterUnsigned, Verify, At
<1>2. ASSUME NEW v, NEW status, NEW names, v # "accepted", Tallies(v, names),
             Refuses(r, v, status, names)
      PROVE  CountersInv'
  BY <1>1, <1>2, RefusesJudges, JudgesKeeps DEF Refuses
<1> USE DEF Tallies
<1>3. CASE EnterUnsigned(r)
  BY <1>1, <1>3, RefusesJudges, JudgesKeeps DEF EnterUnsigned
<1>4. CASE Verify(r) /\ Accept(r)
  BY <1>4, AcceptJudges, JudgesKeeps DEF Verify
<1>5. CASE RefuseBody(r)
  BY <1>2, <1>5 DEF RefuseBody
<1>6. CASE RefuseChannel(r)
  BY <1>2, <1>6 DEF RefuseChannel
<1>7. CASE RefuseStale(r)
  BY <1>2, <1>7 DEF RefuseStale
<1>8. CASE RefuseReplay(r)
  BY <1>2, <1>8 DEF RefuseReplay
<1>9. CASE RefuseSignature(r)
  BY <1>2, <1>9 DEF RefuseSignature
<1>10. CASE BreakSignature(r)
  BY <1>2, <1>10 DEF BreakSignature
<1> QED BY <1>3, <1>4, <1>5, <1>6, <1>7, <1>8, <1>9, <1>10 DEF Verify

LEMMA ArrivalKeeps ==
  ASSUME TypeOK, CountersInv, NEW r \in Requests, NEW m \in Messages, Arrive(r, m)
  PROVE  CountersInv'
<1>1. req \in [Requests -> RequestStates] /\ req[r] \in RequestStates /\ req[r].pc = "new"
  BY DEF TypeOK, Arrive, At
<1>2. req' = [req EXCEPT ![r].pc = "address", ![r].msg = m, ![r].nonce = m.nonce,
                         ![r].stamp = m.stamp]
  BY DEF Arrive
<1>3. /\ req'[r].pc = "address" /\ req'[r].verdict = req[r].verdict
      /\ \A q \in Requests \ {r} : req'[q] = req[q]
  BY <1>1, <1>2 DEF RequestStates
<1>4. Proceeds(r, {})
  BY <1>1, <1>3, NothingRaised DEF Proceeds, Arrive, Before, Inside
<1> QED BY <1>4, ProceedsKeeps

\* Nothing counted, and nobody judged
LEMMA NothingJudged ==
  ASSUME IsFiniteSet(Came), counted = NothingCounted,
         \A r \in Requests : req[r].verdict = "none" /\ req[r].pc \in {"new", "done", "lost"}
  PROVE  CountersInv
<1>1. \A S : "none" \notin S => Judged(S) = 0
  <2> SUFFICES ASSUME NEW S, "none" \notin S PROVE Judged(S) = 0
    OBVIOUS
  <2>1. {r \in Requests : req[r].verdict \in S} = {}
    OBVIOUS
  <2> QED BY <2>1, FS_EmptySet DEF Judged
<1>2. JudgedOnce
  BY DEF JudgedOnce, Inside, Waiting
<1>3. \A c \in Counters : counted[c] = 0
  BY DEF NothingCounted
<1>4. FiguresAgree
  <2>1. /\ Judged({"accepted"}) = 0 /\ Judged({"mismatch", "error"}) = 0
        /\ Judged({"mismatch", "error", "headers", "stale"}) = 0 /\ Judged({"error"}) = 0
    BY <1>1
  <2> QED BY <1>3, <2>1 DEF FiguresAgree, Counters
<1>5. TrafficAgrees
  <2>1. Timed = {} /\ Promised = {}
    BY DEF Timed, Promised
  <2> QED BY <1>3, <2>1, FS_EmptySet DEF TrafficAgrees, Counters
<1> QED BY <1>2, <1>4, <1>5 DEF CountersInv

LEMMA FirstCounters == Init => CountersInv
<1> SUFFICES ASSUME Init PROVE CountersInv
  OBVIOUS
<1>1. Came = {}
  BY DEF Init, Came
<1>2. IsFiniteSet(Came)
  BY <1>1, FS_EmptySet
<1> QED BY <1>2, NothingJudged DEF Init

\* The counters go with the process, and the verdicts that they are about.
LEMMA RestartCounters ==
  ASSUME TypeOK, CountersInv, Restart
  PROVE  CountersInv'
<1>1. \A r \in Requests : /\ req'[r].verdict = "none" /\ req'[r].pc \in {"new", "done", "lost"}
                          /\ req'[r].pc = "new" <=> req[r].pc = "new"
  <2> TAKE r \in Requests
  <2>1. req[r] \in RequestStates
    BY DEF TypeOK
  <2>2. req'[r] = [req[r] EXCEPT !.pc = IF @ \in {"new", "done"} THEN @ ELSE "lost",
                                 !.verdict = "none", !.at = None]
    BY DEF Restart
  <2> QED BY <2>1, <2>2 DEF RequestStates
<1>2. Came' = Came
  BY <1>1 DEF Came
<1>3. counted' = NothingCounted /\ IsFiniteSet(Came')
  BY <1>2 DEF Restart, CountersInv
<1>4. JudgedOnce'
  BY <1>1 DEF JudgedOnce, Inside, Waiting
<1>5. \A S : "none" \notin S => Judged(S)' = 0
  <2> SUFFICES ASSUME NEW S, "none" \notin S PROVE Judged(S)' = 0
    OBVIOUS
  <2>1. {r \in Requests : req'[r].verdict \in S} = {}
    BY <1>1
  <2> QED BY <2>1, FS_EmptySet DEF Judged
<1>6. \A c \in Counters : counted'[c] = 0
  BY <1>3 DEF NothingCounted
<1>7. FiguresAgree'
  <2>1. /\ Judged({"accepted"})' = 0 /\ Judged({"mismatch", "error"})' = 0
        /\ Judged({"mismatch", "error", "headers", "stale"})' = 0 /\ Judged({"error"})' = 0
    BY <1>5
  <2> QED BY <1>6, <2>1 DEF FiguresAgree, Counters
<1>8. TrafficAgrees'
  <2>1. Timed' = {} /\ Promised' = {}
    BY <1>1 DEF Timed, Promised
  <2> QED BY <1>6, <2>1, FS_EmptySet DEF TrafficAgrees, Counters
<1> QED BY <1>3, <1>4, <1>7, <1>8 DEF CountersInv

LEMMA CountersStep == TypeOK /\ CountersInv /\ [Next]_vars => CountersInv'
<1> SUFFICES ASSUME TypeOK, CountersInv, [Next]_vars PROVE CountersInv'
  OBVIOUS
<1>1. ASSUME NEW r \in Requests, Step(r) PROVE CountersInv'
  <2>1. CASE \/ CheckAddress(r) \/ BlockAddress(r) \/ Route(r) \/ Admit(r) \/ AuditRefusal(r)
             \/ Handle(r) \/ ChangeWhitelist(r) \/ WriteLog(r) \/ SkipLog(r) \/ DatabaseFails(r)
             \/ (Respond(r) /\ Path(r) # "channel")
    BY <2>1, SilentKeeps
  <2>2. CASE \/ EnterSigned(r) \/ EnterAutoSigned(r) \/ Unauthenticated(r) \/ Forbid(r)
             \/ (Respond(r) /\ Path(r) = "channel")
    BY <2>2, CountingKeeps
  <2>3. CASE EnterUnsigned(r) \/ Verify(r)
    BY <2>3, VerdictKeeps
  <2> QED BY <1>1, <2>1, <2>2, <2>3 DEF Step
<1>2. ASSUME NEW r \in Requests, NEW m \in Messages, Arrive(r, m) PROVE CountersInv'
  BY <1>2, ArrivalKeeps
<1>3. CASE Restart
  BY <1>3, RestartCounters
<1>4. CASE UNCHANGED <<req, counted>>
  BY <1>4 DEF CountersInv, Came, JudgedOnce, FiguresAgree, TrafficAgrees, Judged, Timed,
              Promised, Path
<1> QED BY <1>1, <1>2, <1>3, <1>4 DEF Next, Tick, vars

\* The counters stay about the same requests, however many run at once and whenever the
\* process ends.
THEOREM FiguresAreOfTheSameRequests == Spec => []CountersAgree
<1>1. CountersInv /\ TypeOK => CountersAgree
  <2> SUFFICES ASSUME CountersInv, TypeOK PROVE CountersAgree
    OBVIOUS
  <2>1. counted["latencies"] \in Nat /\ counted["requests"] \in Nat
    BY DEF TypeOK, Counters
  <2> DEFINE J == {r \in Requests : req[r].verdict \in {"accepted"}}
  <2>2. IsFiniteSet(J) /\ Judged({"accepted"}) = Cardinality(J) /\ Judged({"accepted"}) \in Nat
    BY JudgedFinite DEF Judged
  <2>3. Timed \in SUBSET J /\ J \in SUBSET Promised
    BY DEF Timed, Promised
  <2> HIDE DEF J
  <2>4. Cardinality(Timed) <= Cardinality(J) /\ Cardinality(J) <= Cardinality(Promised)
    BY <2>2, <2>3, TrafficFinite, FS_Subset
  <2>5. counted["latencies"] <= Judged({"accepted"}) /\ Judged({"accepted"}) <= counted["requests"]
    BY <2>1, <2>2, <2>4, TrafficFinite DEF CountersInv, TrafficAgrees
  <2> QED BY <2>5 DEF CountersInv, FiguresAgree, CountersAgree
<1> QED BY <1>1, AdmissionTypeCorrect, FirstCounters, CountersStep, PTL DEF Spec
==============================================================================
