-------------------------- MODULE TransactionStates --------------------------
(***************************************************************************)
(* The states of a row of transaction_logs and the transition matrix every  *)
(* state change of TransactionRepository.update_state is validated against  *)
(* (core/constants.py, core/state_machine.py).                              *)
(***************************************************************************)

\* TransactionState
States == {"INITIALIZED", "PENDING_SUBMISSION", "NETWORK_IN_FLIGHT",
           "AMBIGUOUS_TIMEOUT", "PENDING_RETRY", "SETTLED", "FAILED", "FAILED_DLQ"}

\* ALLOWED_TRANSITIONS: the successors of each state
ALLOWED_TRANSITIONS ==
  [s \in States |->
     CASE s = "INITIALIZED" ->
            {"PENDING_SUBMISSION", "PENDING_RETRY", "FAILED"}
       [] s = "PENDING_SUBMISSION" ->
            {"NETWORK_IN_FLIGHT", "PENDING_RETRY", "FAILED"}
       [] s = "NETWORK_IN_FLIGHT" ->
            {"AMBIGUOUS_TIMEOUT", "PENDING_RETRY", "SETTLED", "FAILED"}
       [] s = "AMBIGUOUS_TIMEOUT" ->
            {"SETTLED", "PENDING_RETRY", "FAILED", "FAILED_DLQ"}
       [] s = "PENDING_RETRY" ->
            {"PENDING_SUBMISSION", "NETWORK_IN_FLIGHT", "SETTLED", "FAILED", "FAILED_DLQ"}
       [] OTHER -> {}]

\* validate_state_transition returns instead of raising
ValidTransition(current, new) ==
  current = new \/ new \in ALLOWED_TRANSITIONS[current]

\* the states settlement and reconciliation treat as already resolved
Resolved == {"SETTLED", "FAILED"}

\* the states the matrix marks "# Terminal state"
Terminal == Resolved \cup {"FAILED_DLQ"}
=============================================================================
