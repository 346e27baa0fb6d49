----------------------------- MODULE MCAccounts -----------------------------
(***************************************************************************)
(* Instances of Accounts: three default users, one of each sort, and a       *)
(* fourth name that signs up, is invited, or activates a standalone key.     *)
(***************************************************************************)
EXTENDS Accounts

CONSTANTS root, adm, cust, staff, k1, s1, r1, r2

MCDefault ==
  [n \in {root, adm, cust} |->
     CASE n = root -> "SUPER_ADMIN" [] n = adm -> "ADMIN" [] OTHER -> "CLIENT"]

MCSpare == [k \in {k1} |-> "OPERATIONS"]

Asked(op, name, role) == [op |-> op, name |-> name, role |-> role]

MCAsks ==
  {Asked(op, staff, "CLIENT") : op \in {"signup", "activate"}}
  \cup {Asked(op, staff, "OPERATIONS") : op \in {"generate", "provision"}}
  \cup {Asked(op, cust, "CLIENT") : op \in {"role", "toggle", "reset", "delete"}}
  \cup {Asked(op, adm, "CLIENT") : op \in {"role", "toggle", "activate", "regenerate", "delete"}}
  \cup {Asked("role", cust, "OPERATIONS")}
=============================================================================
