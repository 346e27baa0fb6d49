------------------------------ MODULE Telemetry ------------------------------
(***************************************************************************)
(* The counters of TelemetryService that the request path keeps.  Each is   *)
(* raised by one under a lock, so that a step of the gateway raises a set   *)
(* of them.  They are in memory and start at zero with the process.         *)
(***************************************************************************)
EXTENDS Naturals

\* a replay is counted twice, as a rejected nonce and as a replay attack
Counters == {"requests", "latencies", "nonces_checked", "hmac_failures",
             "rejected_duplicates", "replay_attacks", "unauthorized", "jwt_failures"}

NothingCounted == [c \in Counters |-> 0]

Raised(counted, names) ==
  [c \in Counters |-> IF c \in names THEN counted[c] + 1 ELSE counted[c]]
=============================================================================
