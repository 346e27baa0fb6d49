-------------------------- MODULE RequestAdmission --------------------------
(***************************************************************************)
(* The way of a request through the gateway's middleware: the log of        *)
(* requests around everything, then the whitelist of addresses, the routes, *)
(* the signature with its nonce and timestamp, and the caller's role; and   *)
(* the handlers that change the whitelist.  Requests run interleaved: each   *)
(* await is the end of a step.  Nonces and counters are in memory and die    *)
(* with the process; whitelist, audit trail and request log are tables.      *)
(*                                                                         *)
(* Time passes in ticks, Second of them to a second: a nonce's age is        *)
(* measured in ticks (time.time()), a timestamp in whole seconds.            *)
(***************************************************************************)
EXTENDS Telemetry, FiniteSets

CONSTANTS Requests,    \* requests, each handled once
          Messages,    \* what clients send, perhaps several times
          Private,     \* loopback and private addresses
          Addresses,   \* other addresses of clients
          Second,      \* ticks in a second
          Window,      \* seconds a nonce is kept and a timestamp may be off
          LastTick,    \* bound on the clock
          Earlier,     \* whoever listed an address before
          None         \* no message, nonce, time or status

Nonces == {m.nonce : m \in Messages} \cup Requests  \* a request may get a fresh one
Traces == {m.trace : m \in Messages}

LogRows == [for : Requests, outcome : {"SUCCESS", "BLOCKED", "FAILED"}]

ASSUME TimeAssumption ==
  /\ Second \in Nat \ {0} /\ Window \in Nat /\ LastTick \in Nat
  /\ None \notin Nat /\ None \notin Requests /\ None \notin Messages /\ None \notin LogRows
  /\ Earlier # None /\ Earlier \notin Requests

ASSUME MessageAssumption ==
  Messages \subseteq
    [path : {"channel", "probe", "static", "unknown", "add", "remove"},
     from : Private \cup Addresses, ip : Addresses, nonce : {m.nonce : m \in Messages},
     stamp : Nat, trace : {m.trace : m \in Messages}]

VARIABLES now,        \* the clock
          nonces,     \* NonceCache._cache: when a nonce was registered
          counted,    \* TelemetryService
          req,        \* the requests under way
          whitelist,  \* ip_whitelist: the request that added the row of an address
          audit,      \* audit_logs, as [for, action]
          log,        \* gateway_request_logs by request_id: whose row, and its status
          unlogged    \* requests whose row the database refused (history)

vars == <<now, nonces, counted, req, whitelist, audit, log, unlogged>>

Seconds(t) == t \div Second
Fresh(stamp) == Seconds(now) - stamp <= Window /\ stamp - Seconds(now) <= Window

Init ==
  /\ now = 0
  /\ nonces = [n \in Nonces |-> None]
  /\ counted = NothingCounted
  /\ req = [r \in Requests |-> [pc |-> "new", msg |-> None, nonce |-> None, stamp |-> 0,
                                verdict |-> "none", at |-> None, row |-> None,
                                status |-> None]]
  /\ whitelist \in [Addresses -> {None, Earlier}]
  /\ audit = {}
  /\ log = [t \in Traces |-> None]
  /\ unlogged = {}

At(r, pc) == req[r].pc = pc
Goes(r, pc) == req' = [req EXCEPT ![r].pc = pc]
Answers(r, pc, status) == req' = [req EXCEPT ![r].pc = pc, ![r].status = status]
Path(r) == req[r].msg.path
Counts(names) == counted' = Raised(counted, names)

Arrive(r, m) ==
  /\ At(r, "new")
  /\ req' = [req EXCEPT ![r].pc = "address", ![r].msg = m, ![r].nonce = m.nonce,
                        ![r].stamp = m.stamp]
  /\ UNCHANGED <<now, nonces, counted, whitelist, audit, log, unlogged>>

-----------------------------------------------------------------------------
\* IPWhitelistingMiddleware

CheckAddress(r) ==
  /\ At(r, "address")
  /\ LET from == req[r].msg.from
         passes == Path(r) = "static" \/ from \in Private \/ whitelist[from] # None
     IN Goes(r, IF passes THEN "entry" ELSE "blocked")
  /\ UNCHANGED <<now, nonces, counted, whitelist, audit, log, unlogged>>

BlockAddress(r) ==
  /\ At(r, "blocked")
  /\ audit' = audit \cup {[for |-> r, action |-> "IP_BLOCKED"]}
  /\ Answers(r, "log", 403)
  /\ UNCHANGED <<now, nonces, counted, whitelist, log, unlogged>>

-----------------------------------------------------------------------------
\* GatewayRoutingMiddleware, and HMACSecurityMiddleware up to the body

Route(r) ==
  /\ At(r, "entry")
  /\ \/ Path(r) = "unknown" /\ Answers(r, "log", 503)
     \/ Path(r) = "static" /\ Goes(r, "handle")
     \/ Path(r) \in {"add", "remove"} /\ Goes(r, "access")
     \/ Path(r) = "probe" /\ (Goes(r, "verify") \/ Answers(r, "log", 400))
  /\ UNCHANGED <<now, nonces, counted, whitelist, audit, log, unlogged>>

\* a channel request that carries its headers
EnterSigned(r) ==
  /\ At(r, "entry") /\ Path(r) = "channel"
  /\ Counts({"requests"})
  /\ Goes(r, "verify")
  /\ UNCHANGED <<now, nonces, whitelist, audit, log, unlogged>>

\* a session without signature: the gateway signs, with a nonce and a time of its own
EnterAutoSigned(r) ==
  /\ At(r, "entry") /\ Path(r) = "channel"
  /\ Counts({"requests"})
  /\ req' = [req EXCEPT ![r].pc = "verify", ![r].nonce = r, ![r].stamp = Seconds(now)]
  /\ UNCHANGED <<now, nonces, whitelist, audit, log, unlogged>>

EnterUnsigned(r) ==
  /\ At(r, "entry") /\ Path(r) = "channel"
  /\ Counts({"requests", "hmac_failures", "unauthorized"})
  /\ req' = [req EXCEPT ![r].pc = "log", ![r].status = 401, ![r].verdict = "headers"]
  /\ UNCHANGED <<now, nonces, whitelist, audit, log, unlogged>>

-----------------------------------------------------------------------------
\* HMACService.verify_incoming_request: without a suspension, once the body is read

Refuses(r, verdict, status, names) ==
  /\ Counts(names)
  /\ req' = [req EXCEPT ![r].pc = "log", ![r].status = status, ![r].verdict = verdict]
  /\ UNCHANGED <<now, whitelist, audit, log, unlogged>>

RefuseBody(r) ==
  /\ Refuses(r, "body", 400, {})
  /\ UNCHANGED nonces

\* the probe counts it as a failed signature
RefuseChannel(r) ==
  /\ IF Path(r) = "probe"
     THEN Refuses(r, "channel", 401, {"unauthorized", "hmac_failures"})
     ELSE Refuses(r, "channel", 400, {"unauthorized"})
  /\ UNCHANGED nonces

RefuseStale(r) ==
  /\ ~Fresh(req[r].stamp)
  /\ Refuses(r, "stale", 401, {"unauthorized", "hmac_failures"})
  /\ UNCHANGED nonces

Lifetime == Window * Second  \* of a nonce, in ticks

Expired(n) == nonces[n] # None /\ now - nonces[n] > Lifetime

\* NonceCache._cleanup
Kept == [n \in Nonces |-> IF Expired(n) THEN None ELSE nonces[n]]

\* Mutant of RefuseReplay: only the attack is counted (record_replay_attack)
RefuseReplayHalfCounted(r) ==
  /\ Fresh(req[r].stamp) /\ Kept[req[r].nonce] # None
  /\ Refuses(r, "replayed", 401, {"unauthorized", "nonces_checked", "replay_attacks"})
  /\ nonces' = Kept

RefuseReplay(r) ==
  /\ Fresh(req[r].stamp) /\ Kept[req[r].nonce] # None
  /\ Refuses(r, "replayed", 401, {"unauthorized", "nonces_checked", "rejected_duplicates",
                                  "replay_attacks"})
  /\ nonces' = Kept

Unused(r) == Fresh(req[r].stamp) /\ Kept[req[r].nonce] = None

RefuseSignature(r) ==
  /\ Unused(r)
  /\ Refuses(r, "mismatch", 401, {"unauthorized", "nonces_checked", "hmac_failures"})
  /\ nonces' = Kept

\* the comparison raises (the signature has letters outside ASCII)
BreakSignature(r) ==
  /\ Unused(r)
  /\ IF Path(r) = "probe"
     THEN Refuses(r, "error", 401, {"unauthorized", "nonces_checked", "hmac_failures"})
     ELSE Refuses(r, "error", 500, {"nonces_checked", "hmac_failures"})
  /\ nonces' = Kept

Accepts(r, cache) ==
  /\ nonces' = cache
  /\ IF Path(r) = "probe"
     THEN /\ Counts({"nonces_checked", "requests"})
          /\ req' = [req EXCEPT ![r].pc = "log", ![r].status = 200,
                                ![r].verdict = "accepted", ![r].at = now]
     ELSE /\ Counts({"nonces_checked"})
          /\ req' = [req EXCEPT ![r].pc = "access", ![r].verdict = "accepted", ![r].at = now]
  /\ UNCHANGED <<now, whitelist, audit, log, unlogged>>

\* Mutant of Accept: a nonce that is as old as the window is gone
AcceptDropsEarly(r) ==
  LET left(n) == IF nonces[n] # None /\ now - nonces[n] >= Lifetime
                 THEN None ELSE nonces[n]
  IN /\ Fresh(req[r].stamp) /\ left(req[r].nonce) = None
     /\ Accepts(r, [n \in Nonces |-> IF n = req[r].nonce THEN now ELSE left(n)])

Accept(r) ==
  /\ Unused(r)
  /\ Accepts(r, [Kept EXCEPT ![req[r].nonce] = now])

Verify(r) ==
  /\ At(r, "verify")
  /\ \/ RefuseBody(r) \/ RefuseChannel(r) \/ RefuseStale(r)
     \/ RefuseReplay(r) \/ RefuseSignature(r) \/ BreakSignature(r) \/ Accept(r)

-----------------------------------------------------------------------------
\* get_current_user and require_role.  A refusal is an answer of the route: it goes
\* back through the signing middleware.

Admit(r) ==
  /\ At(r, "access")
  /\ Goes(r, IF Path(r) = "channel" THEN "handle" ELSE "lookup")
  /\ UNCHANGED <<now, nonces, counted, whitelist, audit, log, unlogged>>

\* no credentials or an unknown API key; an expired or broken token
Unauthenticated(r) ==
  /\ At(r, "access")
  /\ Counts({"unauthorized"}) \/ Counts({"jwt_failures"})
  /\ Goes(r, "refused")
  /\ UNCHANGED <<now, nonces, whitelist, audit, log, unlogged>>

\* log_failed_auth, awaited
AuditRefusal(r) ==
  /\ At(r, "refused")
  /\ audit' = audit \cup {[for |-> r, action |-> "FAILED_AUTH"]}
  /\ Answers(r, "respond", 401)
  /\ UNCHANGED <<now, nonces, counted, whitelist, log, unlogged>>

\* A wrong role.  The dependency is no coroutine, so it runs in a thread without an event
\* loop, where the task for the audit row cannot be created: an error instead of the 403.
Forbid(r) ==
  /\ At(r, "access")
  /\ Counts({"unauthorized"})
  /\ Answers(r, "log", 500)
  /\ UNCHANGED <<now, nonces, whitelist, audit, log, unlogged>>

-----------------------------------------------------------------------------
\* The handlers

\* Any other handler: an answer, or an error that passes through all the middleware
Handle(r) ==
  /\ At(r, "handle")
  /\ Answers(r, "respond", 200) \/ Answers(r, "respond", 400) \/ Answers(r, "log", 500)
  /\ UNCHANGED <<now, nonces, counted, whitelist, audit, log, unlogged>>

Listed(r) == whitelist[req[r].msg.ip]

\* the first query of add_ip_whitelist and of delete_ip_whitelist
Lookup(r) ==
  /\ At(r, "lookup")
  /\ IF (Path(r) = "add") = (Listed(r) = None)
     THEN req' = [req EXCEPT ![r].pc = "commit", ![r].row = Listed(r)]
     ELSE Answers(r, "respond", 400)
  /\ UNCHANGED <<now, nonces, counted, whitelist, audit, log, unlogged>>

\* the address is unique: an insert that comes second fails
Insert(r) ==
  /\ At(r, "commit") /\ Path(r) = "add"
  /\ IF Listed(r) = None
     THEN /\ whitelist' = [whitelist EXCEPT ![req[r].msg.ip] = r]
          /\ Goes(r, "refresh")
     ELSE Answers(r, "log", 500) /\ UNCHANGED whitelist
  /\ UNCHANGED <<now, nonces, counted, audit, log, unlogged>>

\* the new row is read again, and may have been removed
Refresh(r) ==
  /\ At(r, "refresh")
  /\ IF Listed(r) = r THEN Goes(r, "audit") ELSE Answers(r, "log", 500)
  /\ UNCHANGED <<now, nonces, counted, whitelist, audit, log, unlogged>>

\* only the row that was looked up is deleted; one that is gone is no error
Delete(r) ==
  /\ At(r, "commit") /\ Path(r) = "remove"
  /\ whitelist' = IF Listed(r) = req[r].row
                  THEN [whitelist EXCEPT ![req[r].msg.ip] = None] ELSE whitelist
  /\ Goes(r, "audit")
  /\ UNCHANGED <<now, nonces, counted, audit, log, unlogged>>

\* log_admin_action
AuditChange(r) ==
  /\ At(r, "audit")
  /\ audit' = audit \cup {[for |-> r, action |-> "IP_WHITELIST"]}
  /\ Answers(r, "respond", 200)
  /\ UNCHANGED <<now, nonces, counted, whitelist, log, unlogged>>

ChangeWhitelist(r) ==
  Lookup(r) \/ Insert(r) \/ Refresh(r) \/ Delete(r) \/ AuditChange(r)

-----------------------------------------------------------------------------
\* The way back

\* the signing middleware, for a channel
Respond(r) ==
  /\ At(r, "respond")
  /\ IF Path(r) = "channel" THEN Counts({"latencies"}) ELSE UNCHANGED counted
  /\ Goes(r, "log")
  /\ UNCHANGED <<now, nonces, whitelist, audit, log, unlogged>>

Outcome(status) ==
  IF status < 400 THEN "SUCCESS" ELSE IF status \in {401, 403} THEN "BLOCKED" ELSE "FAILED"

Trace(r) == req[r].msg.trace
Row(r) == [for |-> r, outcome |-> Outcome(req[r].status)]

\* Mutant of WriteLog: an error passes by
WriteLogOfAnswers(r) ==
  /\ At(r, "log") /\ Path(r) # "static"
  /\ Goes(r, "done")
  /\ log' = IF log[Trace(r)] = None /\ req[r].status # 500
            THEN [log EXCEPT ![Trace(r)] = Row(r)] ELSE log
  /\ UNCHANGED <<now, nonces, counted, whitelist, audit, unlogged>>

\* GatewayRequestLoggingMiddleware, before the answer leaves.  request_id is unique: a
\* second row for a trace id is refused, and the refusal only logged.
WriteLog(r) ==
  /\ At(r, "log") /\ Path(r) # "static"
  /\ Goes(r, "done")
  /\ log' = IF log[Trace(r)] = None THEN [log EXCEPT ![Trace(r)] = Row(r)] ELSE log
  /\ UNCHANGED <<now, nonces, counted, whitelist, audit, unlogged>>

\* static files are no news
SkipLog(r) ==
  /\ At(r, "log") /\ Path(r) = "static"
  /\ Goes(r, "done")
  /\ UNCHANGED <<now, nonces, counted, whitelist, audit, log, unlogged>>

-----------------------------------------------------------------------------
\* Failures and time

\* The database fails: an error to all that await it, but for the two logs that
\* swallow it
DatabaseFails(r) ==
  /\ \/ /\ req[r].pc \in {"address", "blocked", "lookup", "commit", "refresh", "audit"}
        /\ Answers(r, "log", 500)
        /\ UNCHANGED unlogged
     \/ /\ At(r, "refused")
        /\ Answers(r, "respond", 401)
        /\ UNCHANGED unlogged
     \/ /\ At(r, "log") /\ Path(r) # "static"
        /\ Goes(r, "done")
        /\ unlogged' = unlogged \cup {r}
  /\ UNCHANGED <<now, nonces, counted, whitelist, audit, log>>

\* the process ends and starts again: what was under way gets no answer
Restart ==
  /\ nonces' = [n \in Nonces |-> None]
  /\ counted' = NothingCounted
  /\ req' = [r \in Requests |->
               [req[r] EXCEPT !.pc = IF @ \in {"new", "done"} THEN @ ELSE "lost",
                              !.verdict = "none", !.at = None]]
  /\ UNCHANGED <<now, whitelist, audit, log, unlogged>>

Tick ==
  /\ now < LastTick
  /\ now' = now + 1
  /\ UNCHANGED <<nonces, counted, req, whitelist, audit, log, unlogged>>

Step(r) ==
  \/ CheckAddress(r) \/ BlockAddress(r)
  \/ Route(r) \/ EnterSigned(r) \/ EnterAutoSigned(r) \/ EnterUnsigned(r)
  \/ Verify(r)
  \/ Admit(r) \/ Unauthenticated(r) \/ AuditRefusal(r) \/ Forbid(r)
  \/ Handle(r) \/ ChangeWhitelist(r)
  \/ Respond(r) \/ WriteLog(r) \/ SkipLog(r)
  \/ DatabaseFails(r)

Next ==
  \/ \E r \in Requests : Step(r) \/ \E m \in Messages : Arrive(r, m)
  \/ Restart \/ Tick

Spec == Init /\ [][Next]_vars

-----------------------------------------------------------------------------
Waiting == {"address", "blocked", "entry", "verify", "access", "refused", "handle",
            "lookup", "commit", "refresh", "audit", "respond", "log"}
Verdicts == {"none", "headers", "body", "channel", "stale", "replayed", "mismatch",
             "error", "accepted"}

Statuses == {200, 400, 401, 403, 500, 503}

RequestStates ==
  [pc : Waiting \cup {"new", "done", "lost"}, msg : Messages \cup {None},
   nonce : Nonces \cup {None}, stamp : Nat, verdict : Verdicts, at : Nat \cup {None},
   row : Requests \cup {Earlier, None}, status : Statuses \cup {None}]

TypeOK ==
  /\ now \in 0..LastTick
  /\ nonces \in [Nonces -> Nat \cup {None}]
  /\ counted \in [Counters -> Nat]
  /\ req \in [Requests -> RequestStates]
  /\ whitelist \in [Addresses -> Requests \cup {Earlier, None}]
  /\ unlogged \subseteq Requests
  /\ audit \subseteq [for : Requests, action : {"IP_BLOCKED", "FAILED_AUTH", "IP_WHITELIST"}]
  /\ log \in [Traces -> LogRows \cup {None}]

\* "Nonces are checked and stored to prevent replay attacks" (nonce_cache.py): while a
\* process lives, the requests it accepts under one nonce are more than the window
\* apart, whatever their timestamps, and in whichever order their bodies arrive.
AcceptancesAreApart ==
  \A r, s \in Requests :
    (r # s /\ req[r].at # None /\ req[s].at # None /\ req[r].nonce = req[s].nonce)
      => req[r].at - req[s].at > Lifetime \/ req[s].at - req[r].at > Lifetime

Judged(verdicts) == Cardinality({r \in Requests : req[r].verdict \in verdicts})

\* The report's security figures are about the same requests: a nonce that was checked
\* was accepted, rejected, or counted among the failed signatures, "replay_attacks in
\* sync" with the rejected ones (telemetry_service.py:164), and no request has a latency
\* that was not counted as a request.
CountersAgree ==
  /\ counted["replay_attacks"] = counted["rejected_duplicates"]
  /\ counted["nonces_checked"] - counted["rejected_duplicates"] - Judged({"accepted"})
       = Judged({"mismatch", "error"})
  /\ Judged({"mismatch", "error", "headers", "stale"}) <= counted["hmac_failures"]
  /\ counted["hmac_failures"] + counted["rejected_duplicates"]
       <= counted["unauthorized"] + Judged({"error"})
  /\ counted["latencies"] <= Judged({"accepted"})
  /\ Judged({"accepted"}) <= counted["requests"]

\* "logs every request processed by the gateway" (GatewayRequestLoggingMiddleware): when
\* an answer is out, the log has a row under its trace id with the outcome of the
\* request it is about, errors that pass through the middleware included.  It is the
\* request's own row, unless another one came first under that trace id.
AnswersAreLogged ==
  \A r \in Requests :
    (req[r].pc = "done" /\ Path(r) # "static" /\ r \notin unlogged)
      => /\ log[Trace(r)] # None
         /\ LET row == log[Trace(r)]
            IN /\ Trace(row.for) = Trace(r) /\ req[row.for].pc = "done"
               /\ row = Row(row.for)
=============================================================================
