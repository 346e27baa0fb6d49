------------------------------ MODULE Accounts ------------------------------
(***************************************************************************)
(* Accounts, access keys and sessions (api/auth.py), and what a start of    *)
(* the gateway does to them.  A request looks the account up, changes it in *)
(* one transaction, and writes its audit row in another; requests run       *)
(* interleaved between these, and the database reads what was committed     *)
(* last.  The ORM writes the columns that differ from what it loaded, by    *)
(* primary key: an account deleted meanwhile makes the change fail, and one *)
(* created anew under the same name is another account.  A session is a      *)
(* token that carries name and role and is not looked up again.             *)
(***************************************************************************)
EXTENDS Naturals, FiniteSets

CONSTANTS Requests,   \* requests, each handled once
          Sessions,   \* clients that log in, again and again
          Names,      \* user names (with the e-mail address that belongs to each)
          Default,    \* the users a start creates, with their roles
          Spare,      \* standalone keys generated before, with their roles
          Asks,       \* what is asked: an operation, a name and a role
          ApiRoles,   \* roles of the configured API keys (API_KEYS_JSON)
          MaxStarts,  \* bound on the starts of the process
          None

Roles == {"SUPER_ADMIN", "ADMIN", "OPERATIONS", "CLIENT"}
Staff == {"ADMIN", "OPERATIONS"}

SeededIds == (DOMAIN Default) \X (0..MaxStarts)
Ids == Requests \cup SeededIds \cup DOMAIN Spare  \* accounts and keys are known by who created them

AccountRows == [id : Ids, role : Roles, active : BOOLEAN]
KeyRows == [id : Ids, owner : Ids \cup {None}, role : Roles \cup {None}, active : BOOLEAN]

ASSUME AccountsAssumption ==
  /\ DOMAIN Default \subseteq Names
  /\ \A n \in DOMAIN Default : Default[n] \in Roles
  /\ \A k \in DOMAIN Spare : Spare[k] \in Staff
  /\ Requests \cap (SeededIds \cup DOMAIN Spare) = {} /\ SeededIds \cap DOMAIN Spare = {}
  /\ MaxStarts \in Nat
  /\ ApiRoles \subseteq Roles
  /\ None \notin Ids \cup Roles \cup AccountRows \cup KeyRows
  /\ Requests \cap Sessions = {}

ASSUME AskAssumption ==
  /\ Asks \subseteq [op : {"signup", "generate", "activate", "provision", "delete",
                           "regenerate", "toggle", "role", "reset"},
                     name : Names, role : Roles]
  /\ None \notin Asks
  /\ \A a \in Asks : a.op \in {"generate", "provision"} => a.role \in Staff

VARIABLES starts,   \* starts of the process so far
          users,    \* users, by name
          keys,     \* admin_access_keys
          req,      \* the requests under way
          session,  \* logins and their tokens
          overlap   \* accounts of which two requests regenerated keys at once (history)

vars == <<starts, users, keys, req, session, overlap>>

Account(id, role, active) == [id |-> id, role |-> role, active |-> active]
Key(id, owner, role) == [id |-> id, owner |-> owner, role |-> role, active |-> TRUE]
KeysOf(id) == {k \in keys : k.owner = id}

Here(account) == \E n \in Names : users[n] # None /\ users[n].id = account.id

Init ==
  /\ starts = 0
  /\ users = [n \in Names |-> IF n \in DOMAIN Default
                              THEN Account(<<n, 0>>, Default[n], TRUE) ELSE None]
  /\ keys = {Key(<<n, 0>>, <<n, 0>>, Default[n]) :
               n \in {d \in DOMAIN Default : Default[d] # "CLIENT"}}
             \cup {Key(k, None, Spare[k]) : k \in DOMAIN Spare}
  /\ req = [r \in Requests |-> [pc |-> "new", ask |-> None, caller |-> None,
                                seen |-> None, key |-> None, doomed |-> {}]]
  /\ session = [s \in Sessions |-> [pc |-> "out", name |-> None, role |-> None]]
  /\ overlap = {}

-----------------------------------------------------------------------------
\* client_login and admin_login: each is for its own roles, so that one of them is the
\* right one

Refused == [pc |-> "refused", name |-> None, role |-> None]

\* Mutant of Login: is_active is not looked at
LoginOfInactive(s, n) ==
  /\ session[s].pc = "out"
  /\ \/ /\ users[n] # None
        /\ session' = [session EXCEPT ![s] = [pc |-> "login", name |-> n,
                                              role |-> users[n].role]]
     \/ session' = [session EXCEPT ![s] = Refused]
  /\ UNCHANGED <<starts, users, keys, req, overlap>>

\* the account is there and active, and the password right; anything else is refused
Login(s, n) ==
  /\ session[s].pc = "out"
  /\ \/ /\ users[n] # None /\ users[n].active
        /\ session' = [session EXCEPT ![s] = [pc |-> "login", name |-> n,
                                              role |-> users[n].role]]
     \/ session' = [session EXCEPT ![s] = Refused]
  /\ UNCHANGED <<starts, users, keys, req, overlap>>

\* the audit row of the login, after which the token is given out
Issue(s) ==
  /\ session[s].pc = "login"
  /\ session' = [session EXCEPT ![s].pc = "online"]
  /\ UNCHANGED <<starts, users, keys, req, overlap>>

\* refused, by the password, the account or the database; a token ends after an hour
Leave(s) ==
  /\ session[s].pc \in {"login", "refused", "online"}
  /\ session' = [session EXCEPT ![s] = [pc |-> "out", name |-> None, role |-> None]]
  /\ UNCHANGED <<starts, users, keys, req, overlap>>

\* get_current_user: a role comes with a configured API key or with a token, and neither is
\* looked up in the tables
Callers == ApiRoles \cup {session[s].role : s \in {t \in Sessions : session[t].pc = "online"}}

\* require_role
Entitled(op) ==
  IF op \in {"generate", "delete", "regenerate"} THEN {"SUPER_ADMIN"}
  ELSE {"SUPER_ADMIN", "ADMIN"}

-----------------------------------------------------------------------------
\* A request up to its change

Goes(r, pc) == req' = [req EXCEPT ![r].pc = pc]
Op(r) == req[r].ask.op
Target(r) == users[req[r].ask.name]
IsSuper(r) == req[r].caller = "SUPER_ADMIN"

First(op) == CASE op = "generate" -> "commit" [] op = "activate" -> "keys" [] OTHER -> "lookup"

Arrive(r, ask) ==
  /\ req[r].pc = "new"
  /\ \E caller \in IF ask.op \in {"signup", "activate"} THEN {None}
                   ELSE Callers \cap Entitled(ask.op) :
       req' = [req EXCEPT ![r].pc = First(ask.op), ![r].ask = ask, ![r].caller = caller]
  /\ UNCHANGED <<starts, users, keys, session, overlap>>

\* activate_admin_account: the key is one of the active ones
FindKey(r) ==
  /\ req[r].pc = "keys"
  /\ \/ \E k \in keys : k.active /\ req' = [req EXCEPT ![r].pc = "lookup", ![r].key = k]
     \/ Goes(r, "done")
  /\ UNCHANGED <<starts, users, keys, session, overlap>>

\* Who may change the role of whom
MayChangeRole(r) ==
  (Target(r).role # "CLIENT" \/ req[r].ask.role # "CLIENT") => IsSuper(r)

\* What each operation asks of the account it finds
Passes(r) ==
  CASE Op(r) \in {"signup", "provision"} -> Target(r) = None
    [] Op(r) = "activate" -> IF req[r].key.owner = None THEN Target(r) = None
                             ELSE Target(r) # None /\ Target(r).id = req[r].key.owner
    [] OTHER -> /\ Target(r) # None
                /\ Op(r) = "delete" => Target(r).role # "SUPER_ADMIN"
                /\ Op(r) = "toggle" /\ Target(r).role \in {"SUPER_ADMIN", "ADMIN"} => IsSuper(r)
                /\ Op(r) = "reset" /\ Target(r).role # "CLIENT" => IsSuper(r)
                /\ Op(r) = "role" => MayChangeRole(r)

Lookup(r) ==
  /\ req[r].pc = "lookup"
  /\ IF Passes(r)
     THEN req' = [req EXCEPT ![r].seen = Target(r),
                             ![r].pc = IF Op(r) \in {"delete", "regenerate"}
                                       THEN "sweep" ELSE "commit"]
     ELSE Goes(r, "done")
  /\ UNCHANGED <<starts, users, keys, session, overlap>>

Regenerating(id) ==
  {q \in Requests : req[q].pc = "commit" /\ Op(q) = "regenerate" /\ req[q].seen.id = id}

\* the account's keys are deleted: those that the statement sees
Sweep(r) ==
  /\ req[r].pc = "sweep"
  /\ req' = [req EXCEPT ![r].pc = "commit", ![r].doomed = KeysOf(req[r].seen.id)]
  /\ overlap' = IF Op(r) = "regenerate" /\ Regenerating(req[r].seen.id) # {}
                THEN overlap \cup {req[r].seen.id} ELSE overlap
  /\ UNCHANGED <<starts, users, keys, session>>

-----------------------------------------------------------------------------
\* The change of a request, in one transaction: made, or failed as a whole

Ready(r, op) == req[r].pc = "commit" /\ Op(r) = op

Made(r) == Goes(r, "audit") /\ UNCHANGED <<starts, session, overlap>>

\* A name that is taken, or a row that is gone: an error
Failed(r) == Goes(r, "done") /\ UNCHANGED <<starts, users, keys, session, overlap>>

Create(r, role, active) ==
  users' = [users EXCEPT ![req[r].ask.name] = Account(r, role, active)]

\* the row that was looked up, under its name
Still(r) == Target(r) # None /\ Target(r).id = req[r].seen.id

Signup(r) ==
  /\ Ready(r, "signup")
  /\ \/ /\ Target(r) = None
        /\ Create(r, "CLIENT", TRUE)
        /\ Made(r) /\ UNCHANGED keys
     \/ Target(r) # None /\ Failed(r)

\* generate_standalone_key: a key for whoever activates it
Generate(r) ==
  /\ Ready(r, "generate")
  /\ keys' = keys \cup {Key(r, None, req[r].ask.role)}
  /\ Made(r) /\ UNCHANGED users

\* an inactive account with its key
Provision(r) ==
  /\ Ready(r, "provision")
  /\ \/ /\ Target(r) = None
        /\ Create(r, req[r].ask.role, FALSE)
        /\ keys' = keys \cup {Key(r, r, req[r].ask.role)}
        /\ Made(r)
     \/ Target(r) # None /\ Failed(r)

KeyRow(r) == {k \in keys : k.id = req[r].key.id}
Consumed(r, owner) ==
  (keys \ KeyRow(r)) \cup {[k EXCEPT !.owner = owner, !.active = FALSE] : k \in KeyRow(r)}

\* A key of an account sets its password and activates it.  An account that was loaded
\* as active is not written active again.
ActivateInvited(r) ==
  /\ Ready(r, "activate") /\ req[r].key.owner # None
  /\ \/ /\ Still(r) /\ KeyRow(r) # {}
        /\ users' = IF req[r].seen.active THEN users
                    ELSE [users EXCEPT ![req[r].ask.name].active = TRUE]
        /\ keys' = Consumed(r, req[r].key.owner)
        /\ Made(r)
     \/ ~(Still(r) /\ KeyRow(r) # {}) /\ Failed(r)

\* A key of nobody creates the account that it is bound to
ActivateStandalone(r) ==
  /\ Ready(r, "activate") /\ req[r].key.owner = None
  /\ \/ /\ Target(r) = None /\ KeyRow(r) # {}
        /\ Create(r, IF req[r].key.role = None THEN "ADMIN" ELSE req[r].key.role, TRUE)
        /\ keys' = Consumed(r, r)
        /\ Made(r)
     \/ ~(Target(r) = None /\ KeyRow(r) # {}) /\ Failed(r)

\* a row that is gone already is no error
Delete(r) ==
  /\ Ready(r, "delete")
  /\ users' = IF Still(r) THEN [users EXCEPT ![req[r].ask.name] = None] ELSE users
  /\ keys' = {k \in keys : \A d \in req[r].doomed : k.id # d.id}
  /\ Made(r)

\* Mutant of Regenerate: the old keys are only looked at
RegenerateKeepsOld(r) ==
  /\ Ready(r, "regenerate")
  /\ keys' = keys \cup {Key(r, req[r].seen.id, None)}
  /\ Made(r) /\ UNCHANGED users

\* Mutant of Regenerate: the new key is bound to nobody
RegenerateUnbound(r) ==
  /\ Ready(r, "regenerate")
  /\ keys' = {k \in keys : \A d \in req[r].doomed : k.id # d.id} \cup {Key(r, None, None)}
  /\ Made(r) /\ UNCHANGED users

\* the new key has no role; that its account still exists is not asked
Regenerate(r) ==
  /\ Ready(r, "regenerate")
  /\ keys' = {k \in keys : \A d \in req[r].doomed : k.id # d.id}
               \cup {Key(r, req[r].seen.id, None)}
  /\ Made(r) /\ UNCHANGED users

\* the opposite of what was loaded
Toggle(r) ==
  /\ Ready(r, "toggle")
  /\ \/ /\ Still(r)
        /\ users' = [users EXCEPT ![req[r].ask.name].active = ~req[r].seen.active]
        /\ Made(r) /\ UNCHANGED keys
     \/ ~Still(r) /\ Failed(r)

\* Mutant of UpdateRole: the role is written in any case
UpdateRoleAlways(r) ==
  /\ Ready(r, "role")
  /\ \/ /\ Still(r)
        /\ users' = [users EXCEPT ![req[r].ask.name].role = req[r].ask.role]
        /\ Made(r) /\ UNCHANGED keys
     \/ ~Still(r) /\ Failed(r)

\* a role that is the loaded one is not written
UpdateRole(r) ==
  /\ Ready(r, "role")
  /\ \/ /\ req[r].ask.role = req[r].seen.role
        /\ Made(r) /\ UNCHANGED <<users, keys>>
     \/ /\ req[r].ask.role # req[r].seen.role /\ Still(r)
        /\ users' = [users EXCEPT ![req[r].ask.name].role = req[r].ask.role]
        /\ Made(r) /\ UNCHANGED keys
     \/ req[r].ask.role # req[r].seen.role /\ ~Still(r) /\ Failed(r)

\* the password is not modelled
ResetPassword(r) ==
  /\ Ready(r, "reset")
  /\ \/ Still(r) /\ Made(r) /\ UNCHANGED <<users, keys>>
     \/ ~Still(r) /\ Failed(r)

Commit(r) ==
  \/ Signup(r) \/ Generate(r) \/ Provision(r) \/ ActivateInvited(r) \/ ActivateStandalone(r)
  \/ Delete(r) \/ Regenerate(r) \/ Toggle(r) \/ UpdateRole(r) \/ ResetPassword(r)

\* log_admin_action: the row, which is not modelled, or an error although the change is
\* made
Audit(r) ==
  /\ req[r].pc = "audit"
  /\ Goes(r, "done")
  /\ UNCHANGED <<starts, users, keys, session, overlap>>

DatabaseFails(r) ==
  /\ req[r].pc \in {"keys", "lookup", "sweep", "commit"}
  /\ Failed(r)

-----------------------------------------------------------------------------
\* initialize_database: missing default users and keys are created, all or none; more
\* than one key of a user is an error

SeededUsers ==
  [n \in Names |-> IF n \in DOMAIN Default /\ users[n] = None
                   THEN Account(<<n, starts'>>, Default[n], TRUE) ELSE users[n]]

Keyed == {n \in DOMAIN Default : Default[n] # "CLIENT"}

SeededKeys ==
  {Key(<<n, starts'>>, SeededUsers[n].id, Default[n]) :
     n \in {d \in Keyed : KeysOf(SeededUsers[d].id) = {}}}

Seed ==
  IF \E n \in Keyed : Cardinality(KeysOf(SeededUsers[n].id)) > 1
  THEN UNCHANGED <<users, keys>>
  ELSE users' = SeededUsers /\ keys' = keys \cup SeededKeys

\* the process ends, with the requests under way, and starts again; tokens stay valid
Restart ==
  /\ starts < MaxStarts
  /\ starts' = starts + 1
  /\ req' = [r \in Requests |-> [req[r] EXCEPT !.pc = IF @ = "new" THEN @ ELSE "done"]]
  /\ session' = [s \in Sessions |-> IF session[s].pc = "online" THEN session[s]
                                    ELSE [pc |-> "out", name |-> None, role |-> None]]
  /\ Seed
  /\ UNCHANGED overlap

Step(r) ==
  FindKey(r) \/ Lookup(r) \/ Sweep(r) \/ Commit(r) \/ Audit(r) \/ DatabaseFails(r)

Next ==
  \/ \E s \in Sessions : Issue(s) \/ Leave(s) \/ \E n \in Names : Login(s, n)
  \/ \E r \in Requests : Step(r) \/ \E ask \in Asks : Arrive(r, ask)
  \/ Restart

Spec == Init /\ [][Next]_vars

\* logins are answered, and a token lives an hour
FairSpec == Spec /\ \A s \in Sessions : WF_vars(Leave(s))

-----------------------------------------------------------------------------
RequestStates ==
  [pc : {"new", "keys", "lookup", "sweep", "commit", "audit", "done"},
   ask : Asks \cup {None}, caller : Roles \cup {None}, seen : AccountRows \cup {None},
   key : KeyRows \cup {None}, doomed : SUBSET KeyRows]

TypeOK ==
  /\ starts \in 0..MaxStarts
  /\ users \in [Names -> AccountRows \cup {None}]
  /\ keys \subseteq KeyRows
  /\ req \in [Requests -> RequestStates]
  /\ session \in [Sessions -> [pc : {"out", "login", "refused", "online"},
                               name : Names \cup {None}, role : Roles \cup {None}]]
  /\ overlap \subseteq Ids

\* "Only SUPER_ADMIN can modify administrative/operational role assignments"
\* (auth.py:792): an account's role changes only by the request of a SUPER_ADMIN, also
\* when another one wrote a role that it had found before.
RolesBySuperAdmin ==
  [][\A n \in Names :
       (users[n] # None /\ users'[n] # None /\ users'[n].id = users[n].id
          /\ users'[n].role # users[n].role)
         => \E r \in Requests : Ready(r, "role") /\ req'[r].pc = "audit" /\ IsSuper(r)]_vars

\* Who gave an account or a key its role
Grants(r, id, role) ==
  /\ req[r].ask # None /\ req[r].ask.role = role
  /\ \/ Op(r) = "provision" /\ id = r /\ req[r].caller \in Entitled("provision")
     \/ Op(r) = "generate" /\ id = r /\ req[r].caller = "SUPER_ADMIN"
     \/ Op(r) = "role" /\ req[r].seen # None /\ req[r].seen.id = id /\ IsSuper(r)

\* Every role but CLIENT goes back to someone entitled to give it: to the start that
\* created the account, to a request that named the account, or to the standalone key it
\* was created with, whichever keys were regenerated, bound or used before.
RolesAreGranted ==
  \A n \in Names :
    (users[n] # None /\ users[n].role # "CLIENT") =>
      LET u == users[n] IN
      \/ u.id \in SeededIds /\ u.role = Default[n]
      \/ \E r \in Requests : Grants(r, u.id, u.role)
      \/ /\ u.id \in Requests /\ req[u.id].key # None
         /\ LET k == req[u.id].key.id
            IN \/ k \in DOMAIN Spare /\ u.role = Spare[k]
               \/ \E r \in Requests : Grants(r, k, u.role)

\* An account has one key at most, unless two requests regenerated it at once: a start
\* of the gateway that finds two keys of a default user seeds nothing at all.
OneKeyEach ==
  \A id \in Ids \ overlap : Cardinality(KeysOf(id)) <= 1

Active(n) == users[n] # None /\ users[n].active

\* "is_active" and the 60 minutes of a token: who is deactivated for good is logged out
\* for good, though tokens are not looked up and a login may have been under way.
AccessEnds ==
  \A n \in Names :
    <>[]~Active(n) => <>[](\A s \in Sessions : session[s].pc = "online" => session[s].name # n)
=============================================================================
