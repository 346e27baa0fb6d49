---------------------------- MODULE AccountsProofs ----------------------------
(***************************************************************************)
(* For any accounts, keys and requests, over any number of starts: who has a *)
(* role was given it by someone entitled to, and an account has one key at   *)
(* most unless two requests regenerate it at once.                           *)
(***************************************************************************)
EXTENDS Accounts, FiniteSetTheorems, TLAPS

Targeting == {"delete", "regenerate", "toggle", "role", "reset"}

\* What a request knows on its way: an entitled caller, the key of an activation, and the
\* account that it found
KnowsAsk(x) ==
  x.pc # "new" =>
    /\ x.ask \in Asks
    /\ x.ask.op \notin {"signup", "activate"} => x.caller \in Entitled(x.ask.op)

KnowsKey(x) == (x.pc \in {"lookup", "commit"} /\ x.ask.op = "activate") => x.key # None

KnowsAccount(x) ==
  /\ x.pc = "sweep" => x.ask.op \in {"delete", "regenerate"} /\ x.seen # None
  /\ x.pc = "commit" => /\ x.ask.op \in Targeting => x.seen # None
                        /\ (x.ask.op = "activate" /\ x.key.owner # None) => x.seen # None

\* A change of role past its check is made by a SUPER_ADMIN, or changes nothing.
MayCommitRole(x) ==
  (x.pc = "commit" /\ x.ask.op = "role")
    => (x.seen.role = "CLIENT" /\ x.ask.role = "CLIENT") \/ x.caller = "SUPER_ADMIN"

Informed(x) == KnowsAsk(x) /\ KnowsKey(x) /\ KnowsAccount(x) /\ MayCommitRole(x)

AccountsInv == TypeOK /\ \A r \in Requests : Informed(req[r])

LEMMA AskFacts ==
  ASSUME NEW a \in Asks
  PROVE  a.name \in Names /\ a.role \in Roles
         /\ a.op \in {"signup", "generate", "activate", "provision"} \cup Targeting
  BY AskAssumption DEF Targeting

LEMMA SeededIdsType ==
  ASSUME NEW n \in DOMAIN Default, NEW k \in 0..MaxStarts
  PROVE  <<n, k>> \in Ids
  BY DEF Ids, SeededIds

LEMMA InitInv == Init => AccountsInv
<1> SUFFICES ASSUME Init PROVE AccountsInv
  OBVIOUS
<1>1. 0 \in 0..MaxStarts
  BY AccountsAssumption
<1>2. users \in [Names -> AccountRows \cup {None}]
  BY <1>1, SeededIdsType, AccountsAssumption DEF Init, Account, AccountRows
<1>3. keys \subseteq KeyRows
  <2>1. ASSUME NEW n \in DOMAIN Default PROVE Key(<<n, 0>>, <<n, 0>>, Default[n]) \in KeyRows
    BY <1>1, SeededIdsType, AccountsAssumption DEF Key, KeyRows
  <2>2. ASSUME NEW k \in DOMAIN Spare PROVE Key(k, None, Spare[k]) \in KeyRows
    <3>1. k \in Ids /\ Spare[k] \in Roles
      BY AccountsAssumption DEF Ids, Staff, Roles
    <3> QED BY <3>1 DEF Key, KeyRows
  <2> QED BY <2>1, <2>2 DEF Init
<1>4. req \in [Requests -> RequestStates]
  BY DEF Init, RequestStates
<1>5. session \in [Sessions -> [pc : {"out", "login", "refused", "online"},
                               name : Names \cup {None}, role : Roles \cup {None}]]
  BY DEF Init
<1>6. \A r \in Requests : Informed(req[r])
  BY DEF Init, Informed, KnowsAsk, KnowsKey, KnowsAccount, MayCommitRole
<1> QED BY <1>1, <1>2, <1>3, <1>4, <1>5, <1>6 DEF Init, AccountsInv, TypeOK

\* A request moves, and the others stay.
LEMMA MoveKeeps ==
  ASSUME AccountsInv, NEW r \in Requests, NEW x \in RequestStates,
         req' = [req EXCEPT ![r] = x], Informed(x)
  PROVE  req' \in [Requests -> RequestStates] /\ \A q \in Requests : Informed(req'[q])
<1>1. req' \in [Requests -> RequestStates]
  BY DEF AccountsInv, TypeOK
<1>2. \A q \in Requests : req'[q] = IF q = r THEN x ELSE req[q]
  BY DEF AccountsInv, TypeOK
<1> QED BY <1>1, <1>2 DEF AccountsInv

\* A request that ends, or whose change is made, needs to know nothing more.
LEMMA EndKeeps ==
  ASSUME AccountsInv, NEW r \in Requests, req[r].pc # "new", NEW pc \in {"audit", "done"},
         Goes(r, pc)
  PROVE  req' \in [Requests -> RequestStates] /\ \A q \in Requests : Informed(req'[q])
<1> DEFINE x == [req[r] EXCEPT !.pc = pc]
<1>1. req[r] \in RequestStates /\ Informed(req[r])
  BY DEF AccountsInv, TypeOK
<1>2. /\ x \in RequestStates /\ x.pc = pc /\ x.ask = req[r].ask /\ x.caller = req[r].caller
  BY <1>1 DEF RequestStates
<1>3. req' = [req EXCEPT ![r] = x]
  BY DEF Goes
<1> HIDE DEF x
<1>4. Informed(x)
  BY <1>1, <1>2 DEF Informed, KnowsAsk, KnowsKey, KnowsAccount, MayCommitRole
<1> QED BY <1>2, <1>3, <1>4, MoveKeeps

LEMMA ArriveKeeps ==
  ASSUME AccountsInv, NEW r \in Requests, NEW ask \in Asks, Arrive(r, ask)
  PROVE  req' \in [Requests -> RequestStates] /\ \A q \in Requests : Informed(req'[q])
<1>1. PICK caller \in Roles \cup {None} :
        /\ ask.op \notin {"signup", "activate"} => caller \in Entitled(ask.op)
        /\ req' = [req EXCEPT ![r].pc = First(ask.op), ![r].ask = ask, ![r].caller = caller]
  BY DEF Arrive, Entitled, Roles
<1> DEFINE x == [req[r] EXCEPT !.pc = First(ask.op), !.ask = ask, !.caller = caller]
<1>2. First(ask.op) \in {"keys", "lookup", "commit"}
      /\ (ask.op = "activate" => First(ask.op) = "keys")
      /\ (ask.op \in Targeting => First(ask.op) = "lookup")
  BY DEF First, Targeting
<1>3. req[r] \in RequestStates
  BY DEF AccountsInv, TypeOK
<1>4. x \in RequestStates /\ x.pc = First(ask.op) /\ x.ask = ask /\ x.caller = caller
  BY <1>2, <1>3 DEF RequestStates
<1>5. req' = [req EXCEPT ![r] = x]
  BY <1>1
<1> HIDE DEF x
<1>6. Informed(x)
  BY <1>1, <1>2, <1>4
     DEF Informed, KnowsAsk, KnowsKey, KnowsAccount, MayCommitRole, Targeting
<1> QED BY <1>4, <1>5, <1>6, MoveKeeps

LEMMA FindKeyKeeps ==
  ASSUME AccountsInv, NEW r \in Requests, FindKey(r)
  PROVE  req' \in [Requests -> RequestStates] /\ \A q \in Requests : Informed(req'[q])
<1>1. CASE Goes(r, "done")
  BY <1>1, EndKeeps DEF FindKey
<1>2. CASE \E k \in keys : req' = [req EXCEPT ![r].pc = "lookup", ![r].key = k]
  <2>1. PICK k \in keys : req' = [req EXCEPT ![r].pc = "lookup", ![r].key = k]
    BY <1>2
  <2> DEFINE x == [req[r] EXCEPT !.pc = "lookup", !.key = k]
  <2>2. req[r] \in RequestStates /\ Informed(req[r]) /\ k \in KeyRows /\ req[r].pc = "keys"
    BY DEF AccountsInv, TypeOK, FindKey
  <2>3. /\ x \in RequestStates /\ x.pc = "lookup" /\ x.ask = req[r].ask
        /\ x.caller = req[r].caller /\ x.key = k
    BY <2>2 DEF RequestStates
  <2>4. req' = [req EXCEPT ![r] = x]
    BY <2>1
  <2> HIDE DEF x
  <2>5. Informed(x)
    BY <2>2, <2>3, AccountsAssumption DEF Informed, KnowsAsk, KnowsKey, KnowsAccount, MayCommitRole
  <2> QED BY <2>3, <2>4, <2>5, MoveKeeps
<1> QED BY <1>1, <1>2 DEF FindKey

\* What the look-up lets pass is what the change relies on.
LEMMA LookupKeeps ==
  ASSUME AccountsInv, NEW r \in Requests, Lookup(r)
  PROVE  req' \in [Requests -> RequestStates] /\ \A q \in Requests : Informed(req'[q])
<1>1. CASE ~Passes(r)
  BY <1>1, EndKeeps DEF Lookup
<1>2. CASE Passes(r)
  <2> DEFINE pc == IF Op(r) \in {"delete", "regenerate"} THEN "sweep" ELSE "commit"
             x == [req[r] EXCEPT !.seen = Target(r), !.pc = pc]
  <2>1. /\ req[r] \in RequestStates /\ Informed(req[r]) /\ req[r].pc = "lookup"
        /\ req[r].ask \in Asks
    BY DEF AccountsInv, TypeOK, Lookup, Informed, KnowsAsk
  <2>2. Target(r) \in AccountRows \cup {None}
    BY <2>1, AskFacts DEF Target, AccountsInv, TypeOK
  <2>3. pc \in {"sweep", "commit"} /\ (pc = "sweep" <=> Op(r) \in {"delete", "regenerate"})
    OBVIOUS
  <2> HIDE DEF pc
  <2>4. /\ x \in RequestStates /\ x.pc = pc /\ x.ask = req[r].ask
        /\ x.caller = req[r].caller /\ x.key = req[r].key /\ x.seen = Target(r)
    BY <2>1, <2>2, <2>3 DEF RequestStates
  <2>5. req' = [req EXCEPT ![r] = x]
    BY <1>2 DEF Lookup, pc
  <2> HIDE DEF x
  <2>6. Op(r) \in Targeting => Target(r) # None
    BY <1>2 DEF Passes, Targeting
  <2>7. (Op(r) = "activate" /\ req[r].key.owner # None) => Target(r) # None
    BY <1>2 DEF Passes
  <2>8. Op(r) = "role" => MayChangeRole(r)
    BY <1>2 DEF Passes
  <2>9. KnowsAccount(x)
    BY <2>3, <2>4, <2>6, <2>7 DEF KnowsAccount, Op, Targeting
  <2>10. MayCommitRole(x)
    BY <2>4, <2>8 DEF MayCommitRole, MayChangeRole, Op, IsSuper
  <2>11. KnowsAsk(x) /\ KnowsKey(x)
    BY <2>1, <2>3, <2>4 DEF Informed, KnowsAsk, KnowsKey
  <2>12. Informed(x)
    BY <2>9, <2>10, <2>11 DEF Informed
  <2> QED BY <2>4, <2>5, <2>12, MoveKeeps
<1> QED BY <1>1, <1>2

LEMMA SweepKeeps ==
  ASSUME AccountsInv, NEW r \in Requests, Sweep(r)
  PROVE  req' \in [Requests -> RequestStates] /\ \A q \in Requests : Informed(req'[q])
<1> DEFINE doomed == KeysOf(req[r].seen.id)
           x == [req[r] EXCEPT !.pc = "commit", !.doomed = doomed]
<1>1. /\ req[r] \in RequestStates /\ Informed(req[r]) /\ req[r].pc = "sweep"
      /\ doomed \in SUBSET KeyRows
  BY DEF AccountsInv, TypeOK, Sweep, KeysOf
<1> HIDE DEF doomed
<1>2. /\ x \in RequestStates /\ x.pc = "commit" /\ x.ask = req[r].ask
      /\ x.caller = req[r].caller /\ x.key = req[r].key /\ x.seen = req[r].seen
  BY <1>1 DEF RequestStates
<1>3. req' = [req EXCEPT ![r] = x]
  BY DEF Sweep, doomed
<1> HIDE DEF x
<1>4. Informed(x)
  BY <1>1, <1>2 DEF Informed, KnowsAsk, KnowsKey, KnowsAccount, MayCommitRole, Targeting
<1> QED BY <1>2, <1>3, <1>4, MoveKeeps

-----------------------------------------------------------------------------
\* The changes

LEMMA CommitFacts ==
  ASSUME AccountsInv, NEW r \in Requests, req[r].pc = "commit"
  PROVE  /\ req[r] \in RequestStates /\ req[r].ask \in Asks
         /\ req[r].ask.name \in Names /\ req[r].ask.role \in Roles
         /\ Op(r) \in Targeting => req[r].seen \in AccountRows
         /\ Op(r) = "activate" => req[r].key \in KeyRows
  BY AskFacts DEF AccountsInv, TypeOK, RequestStates, Informed, KnowsAsk, KnowsKey,
         KnowsAccount, Op

LEMMA CreateType ==
  ASSUME AccountsInv, NEW r \in Requests, NEW role \in Roles, NEW active \in BOOLEAN,
         Create(r, role, active)
  PROVE  users' \in [Names -> AccountRows \cup {None}]
<1>1. Account(r, role, active) \in AccountRows
  BY DEF Account, AccountRows, Ids
<1> QED BY <1>1 DEF Create, AccountsInv, TypeOK

LEMMA NewKeyType ==
  ASSUME NEW id \in Ids, NEW owner \in Ids \cup {None}, NEW role \in Roles \cup {None}
  PROVE  Key(id, owner, role) \in KeyRows
  BY DEF Key, KeyRows

LEMMA ConsumedType ==
  ASSUME AccountsInv, NEW r \in Requests, NEW owner \in Ids
  PROVE  Consumed(r, owner) \subseteq KeyRows
<1>1. \A k \in KeyRow(r) : [k EXCEPT !.owner = owner, !.active = FALSE] \in KeyRows
  BY DEF KeyRow, AccountsInv, TypeOK, KeyRows
<1> QED BY <1>1 DEF Consumed, AccountsInv, TypeOK

\* Each change keeps users and keys well-formed.
LEMMA CommitKeeps ==
  ASSUME AccountsInv, NEW r \in Requests, Commit(r)
  PROVE  /\ users' \in [Names -> AccountRows \cup {None}] /\ keys' \subseteq KeyRows
         /\ UNCHANGED <<starts, session, overlap>>
         /\ req[r].pc = "commit" /\ (Goes(r, "audit") \/ Goes(r, "done"))
<1> DEFINE Goal == /\ users' \in [Names -> AccountRows \cup {None}] /\ keys' \subseteq KeyRows
                   /\ UNCHANGED <<starts, session, overlap>>
                   /\ req[r].pc = "commit" /\ (Goes(r, "audit") \/ Goes(r, "done"))
<1>0. /\ users \in [Names -> AccountRows \cup {None}] /\ keys \subseteq KeyRows
      /\ r \in Ids
  BY DEF AccountsInv, TypeOK, Ids
<1>1. CASE Failed(r) /\ req[r].pc = "commit"
  BY <1>0, <1>1 DEF Failed
<1> USE DEF Made, Ready
<1>2. CASE Signup(r) /\ ~Failed(r)
  <2>1. Create(r, "CLIENT", TRUE) /\ Made(r) /\ UNCHANGED keys /\ req[r].pc = "commit"
    BY <1>2 DEF Signup
  <2>2. "CLIENT" \in Roles /\ TRUE \in BOOLEAN
    BY DEF Roles
  <2>3. users' \in [Names -> AccountRows \cup {None}]
    BY <2>1, <2>2, CreateType
  <2> QED BY <1>0, <2>1, <2>3
<1>3. CASE Generate(r)
  <2>1. Key(r, None, req[r].ask.role) \in KeyRows
    BY <1>0, <1>3, CommitFacts, NewKeyType DEF Generate
  <2> QED BY <1>0, <1>3, <2>1 DEF Generate
<1>4. CASE Provision(r) /\ ~Failed(r)
  <2>1. /\ Create(r, req[r].ask.role, FALSE) /\ Made(r) /\ req[r].pc = "commit"
        /\ keys' = keys \cup {Key(r, r, req[r].ask.role)}
    BY <1>4 DEF Provision
  <2>2. Key(r, r, req[r].ask.role) \in KeyRows
    BY <1>0, <2>1, CommitFacts, NewKeyType
  <2>3. users' \in [Names -> AccountRows \cup {None}]
    BY <2>1, CommitFacts, CreateType
  <2> QED BY <1>0, <2>1, <2>2, <2>3
<1>5. CASE ActivateInvited(r) /\ ~Failed(r)
  <2>1. /\ users' = IF req[r].seen.active THEN users
                    ELSE [users EXCEPT ![req[r].ask.name].active = TRUE]
        /\ keys' = Consumed(r, req[r].key.owner) /\ Made(r)
        /\ req[r].pc = "commit" /\ Op(r) = "activate" /\ req[r].key.owner # None
        /\ Target(r) # None
    BY <1>5 DEF ActivateInvited, Still
  <2>2. req[r].ask.name \in Names /\ Target(r) \in AccountRows
    BY <1>0, <2>1, CommitFacts DEF Target
  <2>3. [Target(r) EXCEPT !.active = TRUE] \in AccountRows
    BY <2>2 DEF AccountRows
  <2>4. users' \in [Names -> AccountRows \cup {None}]
    BY <1>0, <2>1, <2>2, <2>3 DEF Target
  <2>5. req[r].key.owner \in Ids
    BY <2>1, CommitFacts DEF KeyRows
  <2> QED BY <2>1, <2>4, <2>5, ConsumedType
<1>6. CASE ActivateStandalone(r) /\ ~Failed(r)
  <2>1. /\ Create(r, IF req[r].key.role = None THEN "ADMIN" ELSE req[r].key.role, TRUE)
        /\ keys' = Consumed(r, r) /\ Made(r) /\ req[r].pc = "commit" /\ Op(r) = "activate"
    BY <1>6 DEF ActivateStandalone
  <2>2. (IF req[r].key.role = None THEN "ADMIN" ELSE req[r].key.role) \in Roles
    BY <2>1, CommitFacts DEF KeyRows, Roles
  <2>3. users' \in [Names -> AccountRows \cup {None}]
    BY <2>1, <2>2, CreateType
  <2> QED BY <1>0, <2>1, <2>3, ConsumedType
<1>7. CASE Delete(r)
  BY <1>0, <1>7 DEF Delete
<1>8. CASE Regenerate(r)
  <2>1. req[r].seen.id \in Ids
    BY <1>8, CommitFacts DEF Regenerate, AccountRows, Targeting
  <2>2. Key(r, req[r].seen.id, None) \in KeyRows
    BY <1>0, <2>1, NewKeyType
  <2> QED BY <1>0, <1>8, <2>2 DEF Regenerate
<1>9. CASE Toggle(r) /\ ~Failed(r)
  <2>1. /\ users' = [users EXCEPT ![req[r].ask.name].active = ~req[r].seen.active]
        /\ Made(r) /\ UNCHANGED keys /\ req[r].pc = "commit" /\ Op(r) = "toggle"
        /\ Target(r) # None
    BY <1>9 DEF Toggle, Still
  <2>2. req[r].ask.name \in Names /\ Target(r) \in AccountRows /\ req[r].seen \in AccountRows
    BY <1>0, <2>1, CommitFacts DEF Target, Targeting
  <2>3. [Target(r) EXCEPT !.active = ~req[r].seen.active] \in AccountRows
    BY <2>2 DEF AccountRows
  <2> QED BY <1>0, <2>1, <2>2, <2>3 DEF Target
<1>10. CASE UpdateRole(r) /\ ~Failed(r)
  <2>1. /\ Made(r) /\ UNCHANGED keys /\ req[r].pc = "commit"
        /\ \/ UNCHANGED users
           \/ /\ users' = [users EXCEPT ![req[r].ask.name].role = req[r].ask.role]
              /\ Target(r) # None
    BY <1>10 DEF UpdateRole, Still
  <2>2. CASE UNCHANGED users
    BY <1>0, <2>1, <2>2
  <2>3. CASE users' = [users EXCEPT ![req[r].ask.name].role = req[r].ask.role] /\ Target(r) # None
    <3>1. req[r].ask.name \in Names /\ Target(r) \in AccountRows /\ req[r].ask.role \in Roles
      BY <1>0, <2>1, <2>3, CommitFacts DEF Target
    <3>2. [Target(r) EXCEPT !.role = req[r].ask.role] \in AccountRows
      BY <3>1 DEF AccountRows
    <3> QED BY <1>0, <2>1, <2>3, <3>1, <3>2 DEF Target
  <2> QED BY <2>1, <2>2, <2>3
<1>11. CASE ResetPassword(r) /\ ~Failed(r)
  BY <1>0, <1>11 DEF ResetPassword
<1> QED BY <1>1, <1>2, <1>3, <1>4, <1>5, <1>6, <1>7, <1>8, <1>9, <1>10, <1>11
        DEF Commit, Signup, Generate, Provision, ActivateInvited, ActivateStandalone, Delete,
            Regenerate, Toggle, UpdateRole, ResetPassword

\* A start fills in what is missing.
LEMMA SeedKeeps ==
  ASSUME AccountsInv, Restart
  PROVE  users' \in [Names -> AccountRows \cup {None}] /\ keys' \subseteq KeyRows
         /\ starts' \in 0..MaxStarts
<1>1. starts' \in 0..MaxStarts
  BY AccountsAssumption DEF Restart, AccountsInv, TypeOK
<1>2. \A n \in Names : SeededUsers[n] \in AccountRows \cup {None}
  <2> TAKE n \in Names
  <2>1. CASE n \in DOMAIN Default /\ users[n] = None
    <3>1. <<n, starts'>> \in Ids /\ Default[n] \in Roles
      BY <1>1, <2>1, SeededIdsType, AccountsAssumption
    <3> QED BY <2>1, <3>1 DEF SeededUsers, Account, AccountRows
  <2>2. CASE ~(n \in DOMAIN Default /\ users[n] = None)
    BY <2>2 DEF SeededUsers, AccountsInv, TypeOK
  <2> QED BY <2>1, <2>2
<1>3. SeededUsers \in [Names -> AccountRows \cup {None}]
  BY <1>2 DEF SeededUsers
<1>4. SeededKeys \subseteq KeyRows
  <2> SUFFICES ASSUME NEW n \in Keyed
               PROVE  Key(<<n, starts'>>, SeededUsers[n].id, Default[n]) \in KeyRows
    BY DEF SeededKeys
  <2>1. n \in DOMAIN Default /\ n \in Names /\ Default[n] \in Roles
    BY AccountsAssumption DEF Keyed
  <2>2. SeededUsers[n] # None
    <3>1. CASE users[n] = None
      <4>1. SeededUsers[n] = Account(<<n, starts'>>, Default[n], TRUE)
        BY <2>1, <3>1 DEF SeededUsers
      <4>2. Account(<<n, starts'>>, Default[n], TRUE) \in AccountRows
        BY <1>1, <2>1, SeededIdsType DEF Account, AccountRows
      <4> QED BY <4>1, <4>2, AccountsAssumption
    <3>2. CASE users[n] # None
      BY <2>1, <3>2 DEF SeededUsers
    <3> QED BY <3>1, <3>2
  <2>3. SeededUsers[n].id \in Ids
    BY <1>2, <2>1, <2>2 DEF AccountRows
  <2> QED BY <1>1, <2>1, <2>3, SeededIdsType, NewKeyType
<1> QED BY <1>1, <1>3, <1>4 DEF Restart, Seed, AccountsInv, TypeOK

LEMMA RestartKeeps ==
  ASSUME AccountsInv, Restart
  PROVE  AccountsInv'
<1>1. users' \in [Names -> AccountRows \cup {None}] /\ keys' \subseteq KeyRows
      /\ starts' \in 0..MaxStarts
  BY SeedKeeps
<1>2. \A r \in Requests : req'[r] \in RequestStates /\ Informed(req'[r])
  <2> TAKE r \in Requests
  <2>1. req[r] \in RequestStates /\ Informed(req[r])
    BY DEF AccountsInv, TypeOK
  <2>2. req'[r] = [req[r] EXCEPT !.pc = IF @ = "new" THEN @ ELSE "done"]
    BY DEF Restart
  <2> QED BY <2>1, <2>2
          DEF RequestStates, Informed, KnowsAsk, KnowsKey, KnowsAccount, MayCommitRole
<1>3. req' \in [Requests -> RequestStates]
  BY <1>2 DEF Restart
<1>4. session' \in [Sessions -> [pc : {"out", "login", "refused", "online"},
                                name : Names \cup {None}, role : Roles \cup {None}]]
  BY DEF Restart, AccountsInv, TypeOK
<1> QED BY <1>1, <1>2, <1>3, <1>4 DEF Restart, AccountsInv, TypeOK

\* A login carries the role of its account.
LEMMA SessionKeeps ==
  ASSUME AccountsInv, NEW s \in Sessions,
         Issue(s) \/ Leave(s) \/ \E n \in Names : Login(s, n)
  PROVE  AccountsInv'
<1>1. UNCHANGED <<starts, users, keys, req, overlap>>
  BY DEF Issue, Leave, Login
<1>2. session' \in [Sessions -> [pc : {"out", "login", "refused", "online"},
                                name : Names \cup {None}, role : Roles \cup {None}]]
  <2>1. CASE Issue(s)
    BY <2>1 DEF Issue, AccountsInv, TypeOK
  <2>2. CASE Leave(s)
    BY <2>2 DEF Leave, AccountsInv, TypeOK
  <2>3. ASSUME NEW n \in Names, Login(s, n)
        PROVE  session' \in [Sessions -> [pc : {"out", "login", "refused", "online"},
                                          name : Names \cup {None}, role : Roles \cup {None}]]
    <3>1. users[n] # None => users[n].role \in Roles
      BY DEF AccountsInv, TypeOK, AccountRows
    <3> QED BY <2>3, <3>1 DEF Login, Refused, AccountsInv, TypeOK
  <2> QED BY <2>1, <2>2, <2>3
<1> QED BY <1>1, <1>2 DEF AccountsInv, TypeOK

LEMMA StepInv == AccountsInv /\ [Next]_vars => AccountsInv'
<1> SUFFICES ASSUME AccountsInv, [Next]_vars PROVE AccountsInv'
  OBVIOUS
<1>1. ASSUME NEW r \in Requests, Step(r) PROVE AccountsInv'
  <2>1. CASE FindKey(r)
    BY <2>1, FindKeyKeeps DEF FindKey, AccountsInv, TypeOK
  <2>2. CASE Lookup(r)
    BY <2>2, LookupKeeps DEF Lookup, AccountsInv, TypeOK
  <2>3. CASE Sweep(r)
    <3>1. overlap' \subseteq Ids
      <4>1. req[r].seen.id \in Ids
        BY <2>3 DEF Sweep, AccountsInv, Informed, KnowsAccount, TypeOK, RequestStates,
                    AccountRows
      <4> QED BY <2>3, <4>1 DEF Sweep, AccountsInv, TypeOK
    <3> QED BY <2>3, <3>1, SweepKeeps DEF Sweep, AccountsInv, TypeOK
  <2>4. CASE Commit(r)
    <3>1. /\ users' \in [Names -> AccountRows \cup {None}] /\ keys' \subseteq KeyRows
          /\ UNCHANGED <<starts, session, overlap>>
          /\ req[r].pc = "commit" /\ (Goes(r, "audit") \/ Goes(r, "done"))
      BY <2>4, CommitKeeps
    <3>2. req' \in [Requests -> RequestStates] /\ \A q \in Requests : Informed(req'[q])
      BY <3>1, EndKeeps
    <3> QED BY <3>1, <3>2 DEF AccountsInv, TypeOK
  <2>5. CASE Audit(r) \/ DatabaseFails(r)
    <3>1. req[r].pc # "new" /\ Goes(r, "done") /\ UNCHANGED <<starts, users, keys, session, overlap>>
      BY <2>5 DEF Audit, DatabaseFails, Failed
    <3>2. req' \in [Requests -> RequestStates] /\ \A q \in Requests : Informed(req'[q])
      BY <3>1, EndKeeps
    <3> QED BY <3>1, <3>2 DEF AccountsInv, TypeOK
  <2> QED BY <1>1, <2>1, <2>2, <2>3, <2>4, <2>5 DEF Step
<1>2. ASSUME NEW r \in Requests, NEW ask \in Asks, Arrive(r, ask) PROVE AccountsInv'
  BY <1>2, ArriveKeeps DEF Arrive, AccountsInv, TypeOK
<1>3. ASSUME NEW s \in Sessions, Issue(s) \/ Leave(s) \/ \E n \in Names : Login(s, n)
      PROVE  AccountsInv'
  BY <1>3, SessionKeeps
<1>4. CASE Restart
  BY <1>4, RestartKeeps
<1>5. CASE UNCHANGED vars
  BY <1>5 DEF vars, AccountsInv, TypeOK
<1> QED BY <1>1, <1>2, <1>3, <1>4, <1>5 DEF Next

LEMMA Inductive == Spec => []AccountsInv
<1> QED BY InitInv, StepInv, PTL DEF Spec

\* Accounts, keys and requests keep their shape.
THEOREM AccountsTypeCorrect == Spec => []TypeOK
<1>1. AccountsInv => TypeOK
  BY DEF AccountsInv
<1> QED BY <1>1, Inductive, PTL

-----------------------------------------------------------------------------
RoleChanges(n) ==
  users[n] # None /\ users'[n] # None /\ users'[n].id = users[n].id
    /\ users'[n].role # users[n].role

BySuperAdmin == \E r \in Requests : Ready(r, "role") /\ req'[r].pc = "audit" /\ IsSuper(r)

\* Of all changes only one writes a role into an account that is there, and of these only
\* one whose role differs from the one it found.
LEMMA RoleStep ==
  AccountsInv /\ [Next]_vars => \A n \in Names : RoleChanges(n) => BySuperAdmin
<1> SUFFICES ASSUME AccountsInv, [Next]_vars, NEW n \in Names, RoleChanges(n)
             PROVE  BySuperAdmin
  OBVIOUS
<1>0. users \in [Names -> AccountRows \cup {None}] /\ users'[n] # users[n]
  BY DEF AccountsInv, TypeOK, RoleChanges
<1>1. ASSUME NEW r \in Requests, Commit(r) PROVE BySuperAdmin
  <2> USE DEF RoleChanges
  <2>1. ASSUME NEW role, NEW active, Create(r, role, active), Target(r) = None PROVE FALSE
    BY <1>0, <2>1 DEF Create, Target
  <2>2. CASE Signup(r) \/ Provision(r) \/ ActivateStandalone(r)
    BY <1>0, <2>1, <2>2 DEF Signup, Provision, ActivateStandalone, Failed
  <2>3. CASE Generate(r) \/ Regenerate(r) \/ ResetPassword(r)
    BY <1>0, <2>3 DEF Generate, Regenerate, ResetPassword, Failed
  <2>4. CASE ActivateInvited(r) \/ Toggle(r)
    <3>1. \/ UNCHANGED users
          \/ \E active : users' = [users EXCEPT ![req[r].ask.name].active = active]
      BY <2>4 DEF ActivateInvited, Toggle, Failed
    <3>2. CASE UNCHANGED users
      BY <1>0, <3>2
    <3>3. ASSUME NEW active, users' = [users EXCEPT ![req[r].ask.name].active = active]
          PROVE  FALSE
      BY <1>0, <3>3 DEF AccountRows
    <3> QED BY <3>1, <3>2, <3>3
  <2>5. CASE Delete(r)
    BY <1>0, <2>5 DEF Delete
  <2>6. CASE UpdateRole(r)
    <3>1. req[r].ask.role # req[r].seen.role /\ Made(r) /\ Ready(r, "role")
      BY <1>0, <2>6 DEF UpdateRole, Failed, Made
    <3>2. IsSuper(r)
      BY <3>1 DEF Ready, Op, IsSuper, AccountsInv, Informed, MayCommitRole
    <3>3. req'[r].pc = "audit"
      BY <3>1 DEF Made, Goes, AccountsInv, TypeOK, RequestStates
    <3> QED BY <3>1, <3>2, <3>3 DEF BySuperAdmin
  <2> QED BY <1>1, <2>2, <2>3, <2>4, <2>5, <2>6 DEF Commit
<1>2. ASSUME NEW r \in Requests, Step(r), ~Commit(r) PROVE FALSE
  BY <1>0, <1>2 DEF Step, FindKey, Lookup, Sweep, Audit, DatabaseFails, Failed
<1>3. ASSUME NEW r \in Requests, NEW ask \in Asks, Arrive(r, ask) PROVE FALSE
  BY <1>0, <1>3 DEF Arrive
<1>4. ASSUME NEW s \in Sessions, Issue(s) \/ Leave(s) \/ \E m \in Names : Login(s, m)
      PROVE  FALSE
  BY <1>0, <1>4 DEF Issue, Leave, Login
<1>5. CASE Restart
  BY <1>0, <1>5 DEF Restart, Seed, SeededUsers, RoleChanges
<1>6. CASE UNCHANGED vars
  BY <1>0, <1>6 DEF vars
<1> QED BY <1>1, <1>2, <1>3, <1>4, <1>5, <1>6 DEF Next

\* An account's role changes only by the request of a SUPER_ADMIN.
THEOREM RolesChangeBySuperAdmin == Spec => RolesBySuperAdmin
<1>1. AccountsInv /\ [Next]_vars =>
        [\A n \in Names :
           (users[n] # None /\ users'[n] # None /\ users'[n].id = users[n].id
              /\ users'[n].role # users[n].role)
             => \E r \in Requests : Ready(r, "role") /\ req'[r].pc = "audit" /\ IsSuper(r)]_vars
  BY RoleStep DEF RoleChanges, BySuperAdmin
<1> QED BY <1>1, Inductive, PTL DEF Spec, RolesBySuperAdmin

-----------------------------------------------------------------------------
\* Where roles come from.  What a request asks, finds and holds is set once.

SetOnce(x) ==
  /\ x.pc = "new" => x.ask = None
  /\ x.pc \in {"new", "keys", "lookup"} => x.seen = None
  /\ x.pc \in {"new", "keys"} => x.key = None

AllSetOnce == \A r \in Requests : SetOnce(req[r])

Keeps(x, y) ==
  /\ x.ask # None => y.ask = x.ask /\ y.caller = x.caller
  /\ x.seen # None => y.seen = x.seen
  /\ x.key # None => y.key = x.key

AllKeep == \A r \in Requests : Keeps(req[r], req'[r])

LEMMA OneKeeps ==
  ASSUME AccountsInv, AllSetOnce, NEW r \in Requests, NEW x,
         req' = [req EXCEPT ![r] = x], SetOnce(x), Keeps(req[r], x)
  PROVE  AllSetOnce' /\ AllKeep
<1>1. \A q \in Requests : req'[q] = IF q = r THEN x ELSE req[q]
  BY DEF AccountsInv, TypeOK
<1> QED BY <1>1 DEF AllSetOnce, AllKeep, Keeps

LEMMA SetOnceStep == AccountsInv /\ AllSetOnce /\ [Next]_vars => AllSetOnce' /\ AllKeep
<1> SUFFICES ASSUME AccountsInv, AllSetOnce, [Next]_vars PROVE AllSetOnce' /\ AllKeep
  OBVIOUS
<1>0. \A r \in Requests : req[r] \in RequestStates /\ SetOnce(req[r]) /\ Informed(req[r])
  BY DEF AccountsInv, TypeOK, AllSetOnce
<1>1. ASSUME NEW r \in Requests, NEW pc \in {"audit", "done"}, Goes(r, pc), req[r].pc # "new"
      PROVE  AllSetOnce' /\ AllKeep
  <2> DEFINE x == [req[r] EXCEPT !.pc = pc]
  <2>1. x.pc = pc /\ x.ask = req[r].ask /\ x.caller = req[r].caller /\ x.seen = req[r].seen
        /\ x.key = req[r].key
    BY <1>0 DEF RequestStates
  <2>2. req' = [req EXCEPT ![r] = x]
    BY <1>1 DEF Goes
  <2> HIDE DEF x
  <2>3. SetOnce(x) /\ Keeps(req[r], x)
    BY <2>1 DEF SetOnce, Keeps
  <2> QED BY <2>2, <2>3, OneKeeps
<1>2. ASSUME NEW r \in Requests, NEW ask \in Asks, Arrive(r, ask) PROVE AllSetOnce' /\ AllKeep
  <2>1. PICK caller :
          req' = [req EXCEPT ![r].pc = First(ask.op), ![r].ask = ask, ![r].caller = caller]
    BY <1>2 DEF Arrive
  <2> DEFINE x == [req[r] EXCEPT !.pc = First(ask.op), !.ask = ask, !.caller = caller]
  <2>2. First(ask.op) # "new"
    BY DEF First
  <2>3. x.pc # "new" /\ x.seen = None /\ x.key = None
    BY <1>0, <1>2, <2>2 DEF Arrive, RequestStates, SetOnce
  <2>4. req' = [req EXCEPT ![r] = x]
    BY <2>1
  <2> HIDE DEF x
  <2>5. req[r].ask = None /\ req[r].seen = None /\ req[r].key = None
    BY <1>0, <1>2 DEF Arrive, SetOnce
  <2>6. SetOnce(x) /\ Keeps(req[r], x)
    BY <2>3, <2>5 DEF SetOnce, Keeps
  <2> QED BY <2>4, <2>6, OneKeeps
<1>3. ASSUME NEW r \in Requests, FindKey(r) PROVE AllSetOnce' /\ AllKeep
  <2>1. CASE Goes(r, "done")
    BY <1>1, <1>3, <2>1 DEF FindKey
  <2>2. ASSUME NEW k \in keys, req' = [req EXCEPT ![r].pc = "lookup", ![r].key = k]
        PROVE  AllSetOnce' /\ AllKeep
    <3> DEFINE x == [req[r] EXCEPT !.pc = "lookup", !.key = k]
    <3>1. x.pc = "lookup" /\ x.ask = req[r].ask /\ x.caller = req[r].caller
          /\ x.seen = req[r].seen
      BY <1>0 DEF RequestStates
    <3>2. req' = [req EXCEPT ![r] = x]
      BY <2>2
    <3> HIDE DEF x
    <3>3. SetOnce(x) /\ Keeps(req[r], x)
      BY <1>0, <1>3, <3>1 DEF SetOnce, Keeps, FindKey
    <3> QED BY <3>2, <3>3, OneKeeps
  <2> QED BY <1>3, <2>1, <2>2 DEF FindKey
<1>4. ASSUME NEW r \in Requests, Lookup(r) PROVE AllSetOnce' /\ AllKeep
  <2>1. CASE Goes(r, "done")
    BY <1>1, <1>4, <2>1 DEF Lookup
  <2>2. CASE ~Goes(r, "done")
    <3> DEFINE pc == IF Op(r) \in {"delete", "regenerate"} THEN "sweep" ELSE "commit"
               x == [req[r] EXCEPT !.seen = Target(r), !.pc = pc]
    <3>1. x.pc = pc /\ x.ask = req[r].ask /\ x.caller = req[r].caller /\ x.key = req[r].key
      BY <1>0 DEF RequestStates
    <3>2. req' = [req EXCEPT ![r] = x]
      BY <1>4, <2>2 DEF Lookup
    <3>3. pc \notin {"new", "keys", "lookup"}
      OBVIOUS
    <3> HIDE DEF x, pc
    <3>4. SetOnce(x) /\ Keeps(req[r], x)
      BY <1>0, <1>4, <3>1, <3>3 DEF SetOnce, Keeps, Lookup
    <3> QED BY <3>2, <3>4, OneKeeps
  <2> QED BY <2>1, <2>2
<1>5. ASSUME NEW r \in Requests, Sweep(r) PROVE AllSetOnce' /\ AllKeep
  <2> DEFINE doomed == KeysOf(req[r].seen.id)
             x == [req[r] EXCEPT !.pc = "commit", !.doomed = doomed]
  <2> HIDE DEF doomed
  <2>1. x.pc = "commit" /\ x.ask = req[r].ask /\ x.caller = req[r].caller
        /\ x.seen = req[r].seen /\ x.key = req[r].key
    BY <1>0 DEF RequestStates
  <2>2. req' = [req EXCEPT ![r] = x]
    BY <1>5 DEF Sweep, doomed
  <2> HIDE DEF x
  <2>3. SetOnce(x) /\ Keeps(req[r], x)
    BY <2>1 DEF SetOnce, Keeps
  <2> QED BY <2>2, <2>3, OneKeeps
<1>6. ASSUME NEW r \in Requests, Commit(r) PROVE AllSetOnce' /\ AllKeep
  BY <1>1, <1>6, CommitKeeps
<1>7. ASSUME NEW r \in Requests, Audit(r) \/ DatabaseFails(r) PROVE AllSetOnce' /\ AllKeep
  BY <1>1, <1>7 DEF Audit, DatabaseFails, Failed
<1>8. CASE Restart
  <2> SUFFICES ASSUME NEW r \in Requests PROVE SetOnce(req'[r]) /\ Keeps(req[r], req'[r])
    BY DEF AllSetOnce, AllKeep
  <2>1. req'[r] = [req[r] EXCEPT !.pc = IF @ = "new" THEN @ ELSE "done"]
    BY <1>8 DEF Restart
  <2> QED BY <1>0, <2>1 DEF RequestStates, SetOnce, Keeps
<1>9. CASE UNCHANGED req
  BY <1>9 DEF AllSetOnce, AllKeep, Keeps
<1> QED BY <1>2, <1>3, <1>4, <1>5, <1>6, <1>7, <1>8, <1>9
        DEF Next, Step, Issue, Leave, Login, vars

\* A standalone key has a role that was given to it.
KeyGranted(id, role) ==
  (id \in DOMAIN Spare /\ role = Spare[id]) \/ \E r \in Requests : Grants(r, id, role)

AccountGranted(n, u) ==
  \/ u.role = "CLIENT"
  \/ u.id \in SeededIds /\ u.role = Default[n]
  \/ \E r \in Requests : Grants(r, u.id, u.role)
  \/ /\ u.id \in Requests
     /\ \E k \in KeyRows : req[u.id].key = k /\ KeyGranted(k.id, u.role)

GrantInv ==
  /\ \A n \in Names : \A u \in AccountRows : users[n] = u => AccountGranted(n, u)
  /\ \A k \in keys : k.owner = None => KeyGranted(k.id, k.role)
  /\ \A r \in Requests : \A k \in KeyRows :
       (req[r].key = k /\ k.owner = None) => KeyGranted(k.id, k.role)

LEMMA GrantsStay ==
  ASSUME AllKeep, NEW r \in Requests, NEW id, NEW role, Grants(r, id, role)
  PROVE  Grants(r, id, role)'
<1>1. /\ req[r].ask # None /\ req'[r].ask = req[r].ask /\ req'[r].caller = req[r].caller
      /\ req[r].seen # None => req'[r].seen = req[r].seen
  BY DEF Grants, AllKeep, Keeps
<1> QED BY <1>1 DEF Grants, Op, IsSuper

LEMMA KeyGrantStays ==
  ASSUME AllKeep, NEW id, NEW role, KeyGranted(id, role)
  PROVE  KeyGranted(id, role)'
  BY GrantsStay DEF KeyGranted

LEMMA AccountGrantStays ==
  ASSUME AllKeep, NEW n \in Names, NEW u, AccountGranted(n, u)
  PROVE  AccountGranted(n, u)'
<1>1. ASSUME u.id \in Requests, NEW k \in KeyRows, req[u.id].key = k, KeyGranted(k.id, u.role)
      PROVE  req'[u.id].key = k /\ KeyGranted(k.id, u.role)'
  BY <1>1, KeyGrantStays, AccountsAssumption DEF AllKeep, Keeps
<1> QED BY <1>1, GrantsStay DEF AccountGranted

LEMMA FirstSet == Init => AllSetOnce
  BY DEF Init, AllSetOnce, SetOnce

LEMMA FirstGrant == Init => GrantInv
<1> SUFFICES ASSUME Init PROVE GrantInv
  OBVIOUS
<1>1. ASSUME NEW n \in Names, NEW u \in AccountRows, users[n] = u PROVE AccountGranted(n, u)
  <2>1. u.id = <<n, 0>> /\ u.role = Default[n] /\ n \in DOMAIN Default
    BY <1>1, AccountsAssumption DEF Init, Account
  <2>2. <<n, 0>> \in SeededIds
    BY <2>1, AccountsAssumption DEF SeededIds
  <2> QED BY <2>1, <2>2 DEF AccountGranted
<1>2. ASSUME NEW k \in keys, k.owner = None PROVE KeyGranted(k.id, k.role)
  <2>1. CASE \E n \in DOMAIN Default : k = Key(<<n, 0>>, <<n, 0>>, Default[n])
    <3>1. PICK n \in DOMAIN Default : k.owner = <<n, 0>>
      BY <2>1 DEF Key
    <3>2. <<n, 0>> \in Ids
      BY AccountsAssumption, SeededIdsType
    <3> QED BY <1>2, <3>1, <3>2, AccountsAssumption
  <2>2. CASE \E i \in DOMAIN Spare : k = Key(i, None, Spare[i])
    BY <2>2 DEF Key, KeyGranted
  <2> QED BY <1>2, <2>1, <2>2 DEF Init
<1>3. \A r \in Requests : req[r].key = None
  BY DEF Init
<1> QED BY <1>1, <1>2, <1>3, AccountsAssumption DEF GrantInv

\* An account whose name, id and role were there before, and a key that was there or was
\* held before, have their roles from where they had them.
LEMMA OldAccountStays ==
  ASSUME AccountsInv, AllKeep, GrantInv, NEW n \in Names, NEW u \in AccountRows,
         users[n] # None, u.id = users[n].id, u.role = users[n].role
  PROVE  AccountGranted(n, u)'
<1>1. users[n] \in AccountRows
  BY DEF AccountsInv, TypeOK
<1>2. AccountGranted(n, users[n])
  BY <1>1 DEF GrantInv
<1>3. AccountGranted(n, u)
  BY <1>2 DEF AccountGranted
<1> QED BY <1>3, AccountGrantStays

LEMMA OldKeyStays ==
  ASSUME AccountsInv, AllKeep, GrantInv, NEW k \in KeyRows, k.owner = None,
         k \in keys \/ \E r \in Requests : req[r].key = k
  PROVE  KeyGranted(k.id, k.role)'
  BY KeyGrantStays DEF GrantInv

GrantGoal ==
  /\ \A n \in Names : \A u \in AccountRows :
       (users'[n] = u /\ ~(users[n] # None /\ u.id = users[n].id /\ u.role = users[n].role))
         => AccountGranted(n, u)'
  /\ \A k \in KeyRows : (k \in keys' /\ k \notin keys /\ k.owner = None) => KeyGranted(k.id, k.role)'
  /\ \A r \in Requests : \A k \in KeyRows :
       req'[r].key = k => req[r].key = k \/ k \in keys

\* So what is left to show of a step is what is new.
LEMMA NewSuffices ==
  ASSUME AccountsInv, AccountsInv', AllKeep, GrantInv, GrantGoal
  PROVE  GrantInv'
<1>1. ASSUME NEW n \in Names, NEW u \in AccountRows, users'[n] = u PROVE AccountGranted(n, u)'
  BY <1>1, OldAccountStays DEF GrantGoal
<1>2. ASSUME NEW k \in keys', k.owner = None PROVE KeyGranted(k.id, k.role)'
  <2>1. k \in KeyRows
    BY DEF AccountsInv, TypeOK
  <2> QED BY <1>2, <2>1, OldKeyStays DEF GrantGoal
<1>3. ASSUME NEW r \in Requests, NEW k \in KeyRows, req'[r].key = k, k.owner = None
      PROVE  KeyGranted(k.id, k.role)'
  BY <1>3, OldKeyStays DEF GrantGoal
<1> QED BY <1>1, <1>2, <1>3 DEF GrantInv

LEMMA HeldStep ==
  AccountsInv /\ [Next]_vars
    => \A r \in Requests : req'[r].key = req[r].key \/ req'[r].key \in keys
<1> SUFFICES ASSUME AccountsInv, [Next]_vars, NEW q \in Requests
             PROVE  req'[q].key = req[q].key \/ req'[q].key \in keys
  OBVIOUS
<1>0. req \in [Requests -> RequestStates] /\ req[q] \in RequestStates
  BY DEF AccountsInv, TypeOK
<1>1. ASSUME NEW r \in Requests, NEW pc, Goes(r, pc) PROVE req'[q].key = req[q].key
  BY <1>0, <1>1 DEF Goes, RequestStates
<1>2. ASSUME NEW r \in Requests, NEW ask \in Asks, Arrive(r, ask) PROVE req'[q].key = req[q].key
  <2>1. PICK caller :
          req' = [req EXCEPT ![r].pc = First(ask.op), ![r].ask = ask, ![r].caller = caller]
    BY <1>2 DEF Arrive
  <2> QED BY <1>0, <2>1 DEF RequestStates
<1>3. ASSUME NEW r \in Requests, FindKey(r)
      PROVE  req'[q].key = req[q].key \/ req'[q].key \in keys
  BY <1>0, <1>1, <1>3 DEF FindKey, RequestStates
<1>4. ASSUME NEW r \in Requests, Lookup(r) PROVE req'[q].key = req[q].key
  <2>1. CASE Goes(r, "done")
    BY <1>1, <2>1
  <2>2. ASSUME NEW pc, req' = [req EXCEPT ![r].seen = Target(r), ![r].pc = pc]
        PROVE  req'[q].key = req[q].key
    BY <1>0, <2>2 DEF RequestStates
  <2> QED BY <1>4, <2>1, <2>2 DEF Lookup
<1>5. ASSUME NEW r \in Requests, Sweep(r) PROVE req'[q].key = req[q].key
  BY <1>0, <1>5 DEF Sweep, RequestStates
<1>6. ASSUME NEW r \in Requests, Commit(r) \/ Audit(r) \/ DatabaseFails(r)
      PROVE  req'[q].key = req[q].key
  BY <1>1, <1>6, CommitKeeps DEF Audit, DatabaseFails, Failed
<1>7. CASE Restart
  BY <1>0, <1>7 DEF Restart, RequestStates
<1>8. CASE UNCHANGED req
  BY <1>8
<1> QED BY <1>2, <1>3, <1>4, <1>5, <1>6, <1>7, <1>8 DEF Next, Step, Issue, Leave, Login, vars

\* What is new of the accounts and the keys
NewGranted ==
  /\ \A n \in Names : \A u \in AccountRows :
       (users'[n] = u /\ ~(users[n] # None /\ u.id = users[n].id /\ u.role = users[n].role))
         => AccountGranted(n, u)'
  /\ \A k \in KeyRows : (k \in keys' /\ k \notin keys /\ k.owner = None) => KeyGranted(k.id, k.role)'

\* Keys that are bound need no grant.
LEMMA BoundKeys ==
  ASSUME AccountsInv, NEW r \in Requests, NEW owner \in Ids, NEW k \in Consumed(r, owner),
         k.owner = None
  PROVE  k \in keys
<1>1. owner # None
  BY AccountsAssumption
<1>2. \A j \in KeyRow(r) : j \in KeyRows
  BY DEF KeyRow, AccountsInv, TypeOK
<1>3. \A j \in KeyRow(r) : [j EXCEPT !.owner = owner, !.active = FALSE].owner = owner
  BY <1>2 DEF KeyRows
<1> QED BY <1>1, <1>3 DEF Consumed

\* A created account stands under its name alone.
LEMMA CreatedOnly ==
  ASSUME AccountsInv, NEW r \in Requests, NEW role \in Roles, NEW active \in BOOLEAN,
         Create(r, role, active)
  PROVE  \A n \in Names : users'[n] = users[n] \/ (users'[n].id = r /\ users'[n].role = role)
<1>1. \A n \in Names : users'[n] = users[n] \/ users'[n] = Account(r, role, active)
  BY DEF Create, AccountsInv, TypeOK
<1> QED BY <1>1 DEF Account

LEMMA CommitGrants ==
  ASSUME AccountsInv, GrantInv, AllKeep, NEW r \in Requests, Commit(r)
  PROVE  NewGranted
<1>0. /\ users \in [Names -> AccountRows \cup {None}] /\ keys \subseteq KeyRows /\ r \in Ids
      /\ Informed(req[r])
  BY DEF AccountsInv, TypeOK, Ids
<1>1. ASSUME UNCHANGED users, UNCHANGED keys PROVE NewGranted
  BY <1>0, <1>1, AccountsAssumption DEF NewGranted
<1>2. CASE Failed(r) \/ ResetPassword(r)
  BY <1>1, <1>2 DEF Failed, ResetPassword
<1>3. CASE Signup(r) /\ ~Failed(r)
  <2>1. Create(r, "CLIENT", TRUE) /\ UNCHANGED keys
    BY <1>3 DEF Signup
  <2>2. "CLIENT" \in Roles /\ TRUE \in BOOLEAN
    BY DEF Roles
  <2>3. \A n \in Names : users'[n] = users[n] \/ (users'[n].id = r /\ users'[n].role = "CLIENT")
    BY <2>1, <2>2, CreatedOnly
  <2> QED BY <1>0, <2>1, <2>3, AccountsAssumption DEF NewGranted, AccountGranted
<1>4. CASE Generate(r)
  <2>1. /\ UNCHANGED users /\ keys' = keys \cup {Key(r, None, req[r].ask.role)}
        /\ req[r].pc = "commit" /\ Op(r) = "generate"
    BY <1>4 DEF Generate, Ready
  <2>2. Grants(r, r, req[r].ask.role)
    BY <1>0, <2>1, AccountsAssumption, AskAssumption
       DEF Grants, Op, Informed, KnowsAsk, Entitled, AccountsInv, TypeOK
  <2>3. KeyGranted(r, req[r].ask.role)
    BY <2>2 DEF KeyGranted
  <2>4. ASSUME NEW k \in KeyRows, k \in keys', k \notin keys PROVE KeyGranted(k.id, k.role)'
    <3>1. k.id = r /\ k.role = req[r].ask.role
      BY <2>1, <2>4 DEF Key
    <3> QED BY <2>3, <3>1, KeyGrantStays
  <2> QED BY <1>0, <2>1, <2>4, AccountsAssumption DEF NewGranted
<1>5. CASE Provision(r) /\ ~Failed(r)
  <2>1. /\ Create(r, req[r].ask.role, FALSE)
        /\ keys' = keys \cup {Key(r, r, req[r].ask.role)}
        /\ req[r].pc = "commit" /\ Op(r) = "provision"
    BY <1>5 DEF Provision, Ready
  <2>2. Grants(r, r, req[r].ask.role)
    BY <1>0, <2>1, AccountsAssumption, AskAssumption
       DEF Grants, Op, Informed, KnowsAsk, Entitled, AccountsInv, TypeOK
  <2>3. req[r].ask.role \in Roles /\ FALSE \in BOOLEAN
    BY <2>1, CommitFacts
  <2>4. ASSUME NEW n \in Names, NEW u \in AccountRows, users'[n] = u,
               ~(users[n] # None /\ u.id = users[n].id /\ u.role = users[n].role)
        PROVE  AccountGranted(n, u)'
    <3>0. users'[n] = users[n] \/ (users'[n].id = r /\ users'[n].role = req[r].ask.role)
      BY <2>1, <2>3, CreatedOnly
    <3>1. u.id = r /\ u.role = req[r].ask.role
      BY <2>4, <3>0, AccountsAssumption
    <3>2. AccountGranted(n, u)
      BY <2>2, <3>1 DEF AccountGranted
    <3> QED BY <3>2, AccountGrantStays
  <2>5. ASSUME NEW k \in KeyRows, k \in keys', k \notin keys PROVE k.owner # None
    BY <1>0, <2>1, <2>5, AccountsAssumption DEF Key
  <2> QED BY <2>4, <2>5 DEF NewGranted
<1>6. CASE ActivateInvited(r) /\ ~Failed(r)
  <2>1. /\ users' = IF req[r].seen.active THEN users
                    ELSE [users EXCEPT ![req[r].ask.name].active = TRUE]
        /\ keys' = Consumed(r, req[r].key.owner)
        /\ req[r].pc = "commit" /\ Op(r) = "activate" /\ req[r].key.owner # None
        /\ Target(r) # None
    BY <1>6 DEF ActivateInvited, Still, Ready
  <2>2. req[r].key.owner \in Ids /\ req[r].ask.name \in Names
    BY <2>1, CommitFacts DEF KeyRows
  <2>3. ASSUME NEW n \in Names, NEW u \in AccountRows, users'[n] = u
        PROVE  users[n] # None /\ u.id = users[n].id /\ u.role = users[n].role
    <3>1. CASE n = req[r].ask.name
      BY <1>0, <2>1, <2>3, <3>1 DEF Target, AccountRows
    <3>2. CASE n # req[r].ask.name
      BY <1>0, <2>1, <2>3, <3>2, AccountsAssumption
    <3> QED BY <3>1, <3>2
  <2> QED BY <2>1, <2>2, <2>3, BoundKeys DEF NewGranted
<1>7. CASE ActivateStandalone(r) /\ ~Failed(r)
  <2> DEFINE key == req[r].key
             role == IF key.role = None THEN "ADMIN" ELSE key.role
  <2>1. /\ Create(r, role, TRUE) /\ keys' = Consumed(r, r)
        /\ req[r].pc = "commit" /\ Op(r) = "activate" /\ key.owner = None
    BY <1>7 DEF ActivateStandalone, Ready
  <2>2. key \in KeyRows /\ KeyGranted(key.id, key.role)
    BY <2>1, CommitFacts DEF GrantInv
  <2>3. key.role \in Roles
    <3>1. CASE key.id \in DOMAIN Spare /\ key.role = Spare[key.id]
      BY <3>1, AccountsAssumption DEF Staff, Roles
    <3>2. CASE \E q \in Requests : Grants(q, key.id, key.role)
      <4>1. PICK q \in Requests : req[q].ask # None /\ req[q].ask.role = key.role
        BY <3>2 DEF Grants
      <4>2. req[q].ask \in Asks
        BY <4>1 DEF AccountsInv, TypeOK, RequestStates
      <4> QED BY <4>1, <4>2, AskFacts
    <3> QED BY <2>2, <3>1, <3>2 DEF KeyGranted
  <2>4. role = key.role /\ role \in Roles /\ TRUE \in BOOLEAN
    BY <2>3, AccountsAssumption
  <2> HIDE DEF role
  <2>5. ASSUME NEW n \in Names, NEW u \in AccountRows, users'[n] = u,
               ~(users[n] # None /\ u.id = users[n].id /\ u.role = users[n].role)
        PROVE  AccountGranted(n, u)'
    <3>0. users'[n] = users[n] \/ (users'[n].id = r /\ users'[n].role = role)
      BY <2>1, <2>4, CreatedOnly
    <3>1. u.id = r /\ u.role = role
      BY <2>5, <3>0, AccountsAssumption
    <3>2. AccountGranted(n, u)
      BY <2>2, <2>4, <3>1 DEF AccountGranted
    <3> QED BY <3>2, AccountGrantStays
  <2> QED BY <1>0, <2>1, <2>5, BoundKeys DEF NewGranted
<1>8. CASE Delete(r)
  <2>1. /\ \A n \in Names : users'[n] = users[n] \/ users'[n] = None
        /\ keys' \subseteq keys
    BY <1>0, <1>8 DEF Delete
  <2> QED BY <1>0, <2>1, AccountsAssumption DEF NewGranted
<1>9. CASE Regenerate(r)
  <2>1. req[r].seen.id \in Ids
    BY <1>9, CommitFacts DEF Regenerate, Ready, Targeting, AccountRows
  <2>2. /\ UNCHANGED users
        /\ \A k \in keys' : k \in keys \/ k = Key(r, req[r].seen.id, None)
    BY <1>9 DEF Regenerate
  <2>3. Key(r, req[r].seen.id, None).owner # None
    BY <2>1, AccountsAssumption DEF Key
  <2> QED BY <1>0, <2>2, <2>3, AccountsAssumption DEF NewGranted
<1>10. CASE Toggle(r) /\ ~Failed(r)
  <2>1. /\ users' = [users EXCEPT ![req[r].ask.name].active = ~req[r].seen.active]
        /\ UNCHANGED keys /\ req[r].pc = "commit" /\ Target(r) # None
    BY <1>10 DEF Toggle, Ready, Still
  <2>2. req[r].ask.name \in Names
    BY <2>1, CommitFacts
  <2>3. ASSUME NEW n \in Names, NEW u \in AccountRows, users'[n] = u
        PROVE  users[n] # None /\ u.id = users[n].id /\ u.role = users[n].role
    <3>1. CASE n = req[r].ask.name
      BY <1>0, <2>1, <2>3, <3>1 DEF Target, AccountRows
    <3>2. CASE n # req[r].ask.name
      BY <1>0, <2>1, <2>3, <3>2, AccountsAssumption
    <3> QED BY <3>1, <3>2
  <2> QED BY <2>1, <2>3 DEF NewGranted
<1>11. CASE UpdateRole(r) /\ ~Failed(r)
  <2>1. CASE UNCHANGED users
    BY <1>1, <1>11, <2>1 DEF UpdateRole
  <2>2. CASE ~UNCHANGED users
    <3>1. /\ users' = [users EXCEPT ![req[r].ask.name].role = req[r].ask.role]
          /\ UNCHANGED keys /\ req[r].pc = "commit" /\ Op(r) = "role" /\ Still(r)
          /\ req[r].ask.role # req[r].seen.role
      BY <1>11, <2>2 DEF UpdateRole, Ready
    <3>2. /\ req[r].ask \in Asks /\ req[r].ask.name \in Names /\ req[r].seen \in AccountRows
      BY <3>1, CommitFacts DEF Targeting
    <3>3. IsSuper(r)
      BY <1>0, <3>1 DEF Informed, MayCommitRole, Op, IsSuper
    <3>4. Grants(r, req[r].seen.id, req[r].ask.role)
      <4>1. req[r].ask # None
        BY <3>1, <1>0, AccountsAssumption, <3>2, AskAssumption
           DEF AccountsInv, TypeOK
      <4>2. req[r].seen # None
        BY <3>2, AccountsAssumption
      <4> QED BY <3>1, <3>3, <4>1, <4>2 DEF Grants
    <3>5. ASSUME NEW n \in Names, NEW u \in AccountRows, users'[n] = u,
                 ~(users[n] # None /\ u.id = users[n].id /\ u.role = users[n].role)
          PROVE  AccountGranted(n, u)'
      <4>1. n = req[r].ask.name
        BY <1>0, <3>1, <3>5, AccountsAssumption
      <4>2. u.id = req[r].seen.id /\ u.role = req[r].ask.role
        BY <1>0, <3>1, <3>2, <3>5, <4>1 DEF Still, Target, AccountRows
      <4>3. AccountGranted(n, u)
        BY <3>4, <4>2 DEF AccountGranted
      <4> QED BY <4>3, AccountGrantStays
    <3> QED BY <3>1, <3>5 DEF NewGranted
  <2> QED BY <2>1, <2>2
<1> QED BY <1>2, <1>3, <1>4, <1>5, <1>6, <1>7, <1>8, <1>9, <1>10, <1>11 DEF Commit

\* A start gives its own users the roles they have by default.
LEMMA SeedGrants ==
  ASSUME AccountsInv, Restart
  PROVE  NewGranted
<1>0. starts' \in 0..MaxStarts /\ users \in [Names -> AccountRows \cup {None}] /\ keys \subseteq KeyRows
  BY SeedKeeps DEF AccountsInv, TypeOK
<1>1. CASE UNCHANGED <<users, keys>>
  BY <1>0, <1>1, AccountsAssumption DEF NewGranted
<1>2. CASE users' = SeededUsers /\ keys' = keys \cup SeededKeys
  <2>1. ASSUME NEW n \in Names, NEW u \in AccountRows, SeededUsers[n] = u, users[n] # u
        PROVE  u.id \in SeededIds /\ u.role = Default[n]
    <3>1. n \in DOMAIN Default /\ u = Account(<<n, starts'>>, Default[n], TRUE)
      BY <2>1 DEF SeededUsers
    <3>2. <<n, starts'>> \in SeededIds
      BY <1>0, <3>1 DEF SeededIds
    <3> QED BY <3>1, <3>2 DEF Account
  <2>2. ASSUME NEW n \in Keyed PROVE SeededUsers[n].id \in Ids
    <3>1. n \in DOMAIN Default /\ n \in Names
      BY AccountsAssumption DEF Keyed
    <3>2. CASE users[n] = None
      BY <1>0, <3>1, <3>2, SeededIdsType DEF SeededUsers, Account
    <3>3. CASE users[n] # None
      BY <1>0, <3>1, <3>3 DEF SeededUsers, AccountRows
    <3> QED BY <3>2, <3>3
  <2>3. ASSUME NEW k \in SeededKeys PROVE k.owner # None
    BY <2>2, AccountsAssumption DEF SeededKeys, Key
  <2>4. ASSUME NEW n \in Names, NEW u \in AccountRows, users'[n] = u, users[n] # u
        PROVE  AccountGranted(n, u)'
    <3>1. u.id \in SeededIds /\ u.role = Default[n]
      BY <1>2, <2>1, <2>4
    <3> QED BY <3>1 DEF AccountGranted
  <2> QED BY <1>0, <1>2, <2>3, <2>4, AccountsAssumption DEF NewGranted
<1> QED BY <1>1, <1>2 DEF Restart, Seed

LEMMA GrantStep ==
  AccountsInv /\ AllSetOnce /\ GrantInv /\ [Next]_vars => GrantInv'
<1> SUFFICES ASSUME AccountsInv, AllSetOnce, GrantInv, [Next]_vars PROVE GrantInv'
  OBVIOUS
<1>1. AllKeep /\ AccountsInv'
  BY SetOnceStep, StepInv
<1>2. NewGranted
  <2>1. ASSUME UNCHANGED users, UNCHANGED keys PROVE NewGranted
    <3>1. users \in [Names -> AccountRows \cup {None}]
      BY DEF AccountsInv, TypeOK
    <3> QED BY <2>1, <3>1, AccountsAssumption DEF NewGranted
  <2>2. ASSUME NEW r \in Requests, Commit(r) PROVE NewGranted
    BY <1>1, <2>2, CommitGrants
  <2>3. CASE Restart
    BY <2>3, SeedGrants
  <2> QED BY <2>1, <2>2, <2>3
          DEF Next, Step, Arrive, FindKey, Lookup, Sweep, Audit, DatabaseFails, Failed, Issue,
              Leave, Login, vars
<1>3. \A r \in Requests : \A k \in KeyRows : req'[r].key = k => req[r].key = k \/ k \in keys
  BY HeldStep
<1>4. GrantGoal
  BY <1>2, <1>3 DEF NewGranted, GrantGoal
<1> QED BY <1>1, <1>4, NewSuffices

\* Every role but CLIENT goes back to someone entitled to give it.
THEOREM RolesHaveASource == Spec => []RolesAreGranted
<1>1. AccountsInv /\ GrantInv => RolesAreGranted
  <2> SUFFICES ASSUME AccountsInv, GrantInv, NEW n \in Names, users[n] # None,
                      users[n].role # "CLIENT"
               PROVE  LET u == users[n] IN
                      \/ u.id \in SeededIds /\ u.role = Default[n]
                      \/ \E r \in Requests : Grants(r, u.id, u.role)
                      \/ /\ u.id \in Requests /\ req[u.id].key # None
                         /\ LET k == req[u.id].key.id
                            IN \/ k \in DOMAIN Spare /\ u.role = Spare[k]
                               \/ \E r \in Requests : Grants(r, k, u.role)
    BY DEF RolesAreGranted
  <2>1. users[n] \in AccountRows
    BY DEF AccountsInv, TypeOK
  <2>2. AccountGranted(n, users[n])
    BY <2>1 DEF GrantInv
  <2> QED BY <2>2, AccountsAssumption DEF AccountGranted, KeyGranted
<1> QED BY <1>1, InitInv, StepInv, FirstSet, SetOnceStep, FirstGrant, GrantStep, PTL DEF Spec

-----------------------------------------------------------------------------
\* How many keys an account has.  A creator that has created makes nothing more under its
\* name, which keeps accounts and keys apart.
Past(id) ==
  /\ id \in Requests => req[id].pc \in {"audit", "done"}
  /\ id \in SeededIds => id[2] <= starts

\* What exists, was found or is held was created before.
AllPast ==
  /\ \A n \in Names : users[n] # None => Past(users[n].id)
  /\ \A k \in keys : Past(k.id) /\ (k.owner # None => Past(k.owner))
  /\ \A r \in Requests : req[r].seen # None => Past(req[r].seen.id)
  /\ \A r \in Requests : req[r].key # None => Past(req[r].key.id)

OneName ==
  \A n, m \in Names :
    (users[n] # None /\ users[m] # None /\ users[n].id = users[m].id) => n = m

OneRow == \A k, l \in keys : k.id = l.id => k = l

Holds(r, id) == req[r].key # None /\ req[r].key.id = id

\* An activation that holds a key knows its owner, but for a standalone key that another
\* one has used up; all that hold a key saw the same owner.
HeldInv ==
  /\ \A k \in keys : \A r \in Requests :
       (Holds(r, k.id) /\ (k.active \/ req[r].key.owner # None)) => k.owner = req[r].key.owner
  /\ \A r, q \in Requests :
       (req[q].key # None /\ Holds(r, req[q].key.id)) => req[r].key.owner = req[q].key.owner

Regenerates(r, id) ==
  req[r].pc = "commit" /\ Op(r) = "regenerate" /\ req[r].seen.id = id

\* A request that regenerates the key of an account alone will delete all there are.
AloneInv ==
  \A r \in Requests : \A id \in Ids \ overlap : Regenerates(r, id) =>
    /\ \A q \in Requests : Regenerates(q, id) => q = r
    /\ \A k \in keys : k.owner = id => \E d \in req[r].doomed : d.id = k.id

OneKey ==
  \A k, l \in keys :
    (k.owner = l.owner /\ k.owner # None /\ k.owner \notin overlap) => k = l

KeysInv == AllPast /\ OneName /\ OneRow /\ HeldInv /\ AloneInv /\ OneKey

-----------------------------------------------------------------------------
\* What a step learns, and what it leaves alone: a request finds an account or a key that
\* is there, and a creator that has created stays so.
Learns(q) ==
  /\ req'[q].key = req[q].key \/ \E k \in keys : k.active /\ req'[q].key = k
  /\ req'[q].seen = req[q].seen \/ \E n \in Names : req'[q].seen = users[n]
  /\ req[q].pc \in {"audit", "done"} => req'[q].pc \in {"audit", "done"}

LEMMA LearnsStep ==
  ASSUME AccountsInv, [Next]_vars, NEW q \in Requests
  PROVE  Learns(q)
<1>0. req \in [Requests -> RequestStates] /\ req[q] \in RequestStates /\ Informed(req[q])
  BY DEF AccountsInv, TypeOK
<1> USE DEF Learns
<1>1. ASSUME NEW r \in Requests, NEW pc \in {"audit", "done"}, Goes(r, pc) PROVE Learns(q)
  BY <1>0, <1>1 DEF Goes, RequestStates
<1>2. ASSUME NEW r \in Requests, NEW ask \in Asks, Arrive(r, ask) PROVE Learns(q)
  <2>1. PICK caller :
          req' = [req EXCEPT ![r].pc = First(ask.op), ![r].ask = ask, ![r].caller = caller]
    BY <1>2 DEF Arrive
  <2> QED BY <1>0, <1>2, <2>1 DEF Arrive, RequestStates
<1>3. ASSUME NEW r \in Requests, FindKey(r) PROVE Learns(q)
  <2>1. CASE Goes(r, "done")
    BY <1>1, <2>1
  <2>2. ASSUME NEW k \in keys, k.active, req' = [req EXCEPT ![r].pc = "lookup", ![r].key = k]
        PROVE  Learns(q)
    BY <1>0, <1>3, <2>2 DEF FindKey, RequestStates
  <2> QED BY <1>3, <2>1, <2>2 DEF FindKey
<1>4. ASSUME NEW r \in Requests, Lookup(r) PROVE Learns(q)
  <2>1. CASE Goes(r, "done")
    BY <1>1, <2>1
  <2>2. ASSUME NEW pc, req' = [req EXCEPT ![r].seen = Target(r), ![r].pc = pc]
        PROVE  Learns(q)
    <3>1. req[r].ask.name \in Names
      BY <1>4, AskFacts DEF Lookup, AccountsInv, Informed, KnowsAsk
    <3> QED BY <1>0, <1>4, <2>2, <3>1 DEF Lookup, Target, RequestStates
  <2> QED BY <1>4, <2>1, <2>2 DEF Lookup
<1>5. ASSUME NEW r \in Requests, Sweep(r) PROVE Learns(q)
  BY <1>0, <1>5 DEF Sweep, RequestStates
<1>6. ASSUME NEW r \in Requests, Commit(r) \/ Audit(r) \/ DatabaseFails(r) PROVE Learns(q)
  BY <1>1, <1>6, CommitKeeps DEF Audit, DatabaseFails, Failed
<1>7. CASE Restart
  BY <1>0, <1>7 DEF Restart, RequestStates
<1>8. CASE UNCHANGED req
  BY <1>8
<1> QED BY <1>2, <1>3, <1>4, <1>5, <1>6, <1>7, <1>8 DEF Next, Step, Issue, Leave, Login, vars

LEMMA StartsGrow ==
  ASSUME AccountsInv, [Next]_vars
  PROVE  starts \in Nat /\ starts' \in Nat /\ starts <= starts'
<1>1. starts \in Nat
  BY AccountsAssumption DEF AccountsInv, TypeOK
<1>2. ASSUME NEW r \in Requests, Commit(r) PROVE starts' = starts
  BY <1>2, CommitKeeps
<1>3. starts' = starts \/ starts' = starts + 1
  BY <1>2 DEF Next, Step, Arrive, FindKey, Lookup, Sweep, Audit, DatabaseFails, Failed, Issue,
              Leave, Login, Restart, vars
<1> QED BY <1>1, <1>3

\* Past, after the step
PastNext(id) ==
  /\ id \in Requests => req'[id].pc \in {"audit", "done"}
  /\ id \in SeededIds => id[2] <= starts'

LEMMA PastStays ==
  ASSUME AccountsInv, [Next]_vars
  PROVE  \A id : Past(id) => PastNext(id)
<1> SUFFICES ASSUME NEW id, Past(id) PROVE PastNext(id)
  OBVIOUS
<1>1. id \in Requests => req'[id].pc \in {"audit", "done"}
  BY LearnsStep DEF Past, Learns
<1>2. id \in SeededIds => id[2] <= starts'
  <2>1. ASSUME id \in SeededIds PROVE id[2] \in Nat
    BY <2>1, AccountsAssumption DEF SeededIds
  <2> QED BY <2>1, StartsGrow DEF Past
<1> QED BY <1>1, <1>2 DEF PastNext

\* What requests have found and hold is past after a step, too.
LearnedNext ==
  /\ \A r \in Requests : req'[r].seen # None => PastNext(req'[r].seen.id)
  /\ \A r \in Requests : req'[r].key # None => PastNext(req'[r].key.id)

LEMMA LearnedPast == AccountsInv /\ KeysInv /\ [Next]_vars => LearnedNext
<1> SUFFICES ASSUME AccountsInv, KeysInv, [Next]_vars PROVE LearnedNext
  OBVIOUS
<1>1. ASSUME NEW r \in Requests, req'[r].seen # None PROVE PastNext(req'[r].seen.id)
  BY <1>1, LearnsStep, PastStays DEF Learns, KeysInv, AllPast
<1>2. ASSUME NEW r \in Requests, req'[r].key # None PROVE PastNext(req'[r].key.id)
  BY <1>2, LearnsStep, PastStays DEF Learns, KeysInv, AllPast
<1> QED BY <1>1, <1>2 DEF LearnedNext

-----------------------------------------------------------------------------
\* A step that changes neither accounts nor keys
LEMMA QuietKeys ==
  ASSUME AccountsInv, KeysInv, [Next]_vars, UNCHANGED <<users, keys>>, overlap \subseteq overlap',
         AloneInv'
  PROVE  KeysInv'
<1>1. \A r \in Requests : Learns(r)
  BY LearnsStep
<1>2. AllPast'
  <2>1. \A n \in Names : users[n] # None => PastNext(users[n].id)
    BY PastStays DEF KeysInv, AllPast
  <2>2. \A k \in keys : PastNext(k.id) /\ (k.owner # None => PastNext(k.owner))
    BY PastStays DEF KeysInv, AllPast
  <2> QED BY <2>1, <2>2, LearnedPast DEF AllPast, Past, PastNext, LearnedNext
<1>3. OneName' /\ OneRow' /\ OneKey'
  BY DEF KeysInv, OneName, OneRow, OneKey
<1>4. HeldInv'
  <2>1. \A r \in Requests : req'[r].key = req[r].key \/ \E k \in keys : k.active /\ req'[r].key = k
    BY <1>1 DEF Learns
  <2>2. ASSUME NEW k \in keys, NEW r \in Requests, req'[r].key # None, req'[r].key.id = k.id,
               k.active \/ req'[r].key.owner # None
        PROVE  k.owner = req'[r].key.owner
    <3>1. CASE req'[r].key = req[r].key
      BY <2>2, <3>1 DEF KeysInv, HeldInv, Holds
    <3>2. CASE req'[r].key \in keys
      BY <2>2, <3>2 DEF KeysInv, OneRow
    <3> QED BY <2>1, <3>1, <3>2
  <2>3. ASSUME NEW r \in Requests, NEW q \in Requests, req'[q].key # None, req'[r].key # None,
               req'[r].key.id = req'[q].key.id
        PROVE  req'[r].key.owner = req'[q].key.owner
    <3>1. CASE req'[r].key = req[r].key /\ req'[q].key = req[q].key
      BY <2>3, <3>1 DEF KeysInv, HeldInv, Holds
    <3>2. CASE req'[r].key \in keys /\ req'[r].key.active
      BY <2>2, <2>3, <3>2
    <3>3. CASE req'[q].key \in keys /\ req'[q].key.active
      BY <2>2, <2>3, <3>3
    <3> QED BY <2>1, <3>1, <3>2, <3>3
  <2> QED BY <2>2, <2>3 DEF HeldInv, Holds
<1> QED BY <1>2, <1>3, <1>4 DEF KeysInv

\* Unless it sweeps, it begins no regeneration.
LEMMA QuietAlone ==
  ASSUME KeysInv, UNCHANGED keys, overlap \subseteq overlap',
         \A r \in Requests : \A id \in Ids : Regenerates(r, id)' =>
           Regenerates(r, id) /\ req'[r].doomed = req[r].doomed
  PROVE  AloneInv'
<1> SUFFICES ASSUME NEW r \in Requests, NEW id \in Ids \ overlap', Regenerates(r, id)'
             PROVE  /\ \A q \in Requests : Regenerates(q, id)' => q = r
                    /\ \A k \in keys' : k.owner = id => \E d \in req'[r].doomed : d.id = k.id
  BY DEF AloneInv
<1>1. Regenerates(r, id) /\ req'[r].doomed = req[r].doomed /\ id \in Ids \ overlap
  OBVIOUS
<1> QED BY <1>1 DEF KeysInv, AloneInv

LEMMA SweepAlone ==
  ASSUME AccountsInv, KeysInv, NEW p \in Requests, Sweep(p)
  PROVE  AloneInv' /\ overlap \subseteq overlap'
<1> DEFINE own == req[p].seen.id
<1>0. req \in [Requests -> RequestStates] /\ req[p] \in RequestStates
  BY DEF AccountsInv, TypeOK
<1>1. /\ req[p].pc = "sweep"
      /\ req' = [req EXCEPT ![p].pc = "commit", ![p].doomed = KeysOf(own)]
      /\ overlap' = IF Op(p) = "regenerate" /\ Regenerating(own) # {}
                    THEN overlap \cup {own} ELSE overlap
      /\ UNCHANGED keys
  BY DEF Sweep
<1>2. \A q \in Requests \ {p} : req'[q] = req[q]
  BY <1>0, <1>1
<1>3. /\ req'[p].ask = req[p].ask /\ req'[p].seen = req[p].seen /\ req'[p].doomed = KeysOf(own)
      /\ req'[p].pc = "commit"
  BY <1>0, <1>1 DEF RequestStates
<1> HIDE DEF own
<1>4. \A q \in Requests \ {p} : \A id \in Ids : Regenerates(q, id)' <=> Regenerates(q, id)
  BY <1>2 DEF Regenerates, Op
<1>5. \A id \in Ids : Regenerates(p, id)' => Op(p) = "regenerate" /\ id = own
  BY <1>3 DEF Regenerates, Op, own
<1>6. ASSUME NEW q \in Requests \ {p}, NEW id \in Ids \ overlap', Regenerates(q, id),
             Regenerates(p, id)'
      PROVE  FALSE
  <2>1. q \in Regenerating(own)
    BY <1>5, <1>6 DEF Regenerates, Regenerating
  <2> QED BY <1>1, <1>5, <1>6, <2>1
<1>7. ASSUME NEW r \in Requests, NEW id \in Ids \ overlap', Regenerates(r, id)'
      PROVE  /\ \A q \in Requests : Regenerates(q, id)' => q = r
             /\ \A k \in keys' : k.owner = id => \E d \in req'[r].doomed : d.id = k.id
  <2>1. CASE r = p
    <3>1. \A q \in Requests : Regenerates(q, id)' => q = r
      BY <1>4, <1>6, <1>7, <2>1
    <3>2. id = own /\ req'[r].doomed = {k \in keys : k.owner = own}
      BY <1>3, <1>5, <1>7, <2>1 DEF KeysOf
    <3>3. ASSUME NEW k \in keys', k.owner = id PROVE \E d \in req'[r].doomed : d.id = k.id
      <4>1. k \in req'[r].doomed
        BY <1>1, <3>2, <3>3
      <4> QED BY <4>1
    <3> QED BY <3>1, <3>3
  <2>2. CASE r # p
    <3>1. Regenerates(r, id) /\ id \in Ids \ overlap
      BY <1>1, <1>4, <1>7, <2>2
    <3>2. \A q \in Requests : Regenerates(q, id)' => q = r
      BY <1>4, <1>6, <1>7, <2>2, <3>1 DEF KeysInv, AloneInv
    <3>3. keys' = keys /\ req'[r] = req[r]
      BY <1>1, <1>2, <2>2
    <3>4. \A k \in keys : k.owner = id => \E d \in req[r].doomed : d.id = k.id
      BY <3>1 DEF KeysInv, AloneInv
    <3> QED BY <3>2, <3>3, <3>4
  <2> QED BY <2>1, <2>2
<1>8. overlap \subseteq overlap'
  BY <1>1
<1> QED BY <1>7, <1>8 DEF AloneInv

-----------------------------------------------------------------------------
\* The changes

\* A request that makes its change ends, and nobody learns anything.
Ends(r) ==
  /\ req[r].pc = "commit" /\ req'[r].pc \in {"audit", "done"}
  /\ \A q \in Requests : /\ req'[q].key = req[q].key /\ req'[q].seen = req[q].seen
                         /\ req'[q].ask = req[q].ask /\ req'[q].doomed = req[q].doomed
                         /\ q # r => req'[q].pc = req[q].pc

LEMMA CommitEnds ==
  ASSUME AccountsInv, NEW r \in Requests, Commit(r)
  PROVE  Ends(r)
<1>1. /\ req[r].pc = "commit" /\ req \in [Requests -> RequestStates]
      /\ \E pc \in {"audit", "done"} : Goes(r, pc)
  BY CommitKeeps DEF AccountsInv, TypeOK
<1>2. PICK pc \in {"audit", "done"} : req' = [req EXCEPT ![r].pc = pc]
  BY <1>1 DEF Goes
<1> QED BY <1>1, <1>2 DEF Ends, RequestStates

LEMMA EndsRegenerating ==
  ASSUME NEW r \in Requests, Ends(r)
  PROVE  \A q \in Requests : \A id \in Ids :
           Regenerates(q, id)' => /\ Regenerates(q, id) /\ q # r
                                  /\ req'[q].doomed = req[q].doomed
  BY DEF Ends, Regenerates, Op

\* A row that was there, perhaps used up since
OldRow(l) ==
  \E k \in keys : l.id = k.id /\ l.owner = k.owner /\ (l.active => k.active)

\* A row of the request's own: made by it, or a standalone key that it has bound
OwnRow(r, l) ==
  /\ l.owner \in {None, r}
  /\ \/ l.id = r
     \/ /\ ~l.active /\ Past(l.id)
        /\ \A q \in Requests : Holds(q, l.id) => req[q].key.owner = None

OneRowNext == \A k, l \in keys' : k.id = l.id => k = l

\* The rows stay told apart and agree with what requests hold, if a change leaves old rows
\* and the request's own, of which one is bound at most.
LEMMA ChangedRows ==
  ASSUME AccountsInv, KeysInv, NEW r \in Requests, Ends(r), [Next]_vars, UNCHANGED overlap,
         \A l \in keys' : OldRow(l) \/ OwnRow(r, l),
         OneRowNext,
         \A k, l \in keys' : k.owner = r /\ l.owner = r => k = l
  PROVE  /\ \A k \in keys' : PastNext(k.id) /\ (k.owner # None => PastNext(k.owner))
         /\ OneRow' /\ HeldInv' /\ AloneInv' /\ OneKey'
<1>0. r \in Ids /\ r # None /\ ~Past(r) /\ PastNext(r)
  <2>1. r \in Ids /\ r # None /\ r \notin SeededIds
    BY AccountsAssumption DEF Ids
  <2> QED BY <2>1 DEF Ends, Past, PastNext
<1>1. \A l \in keys' : PastNext(l.id) /\ (l.owner # None => PastNext(l.owner))
  <2> SUFFICES ASSUME NEW l \in keys'
               PROVE  PastNext(l.id) /\ (l.owner # None => PastNext(l.owner))
    OBVIOUS
  <2>1. CASE OldRow(l)
    BY <2>1, PastStays DEF OldRow, KeysInv, AllPast
  <2>2. CASE OwnRow(r, l)
    BY <1>0, <2>2, PastStays DEF OwnRow
  <2> QED BY <2>1, <2>2
<1>2. OneRow'
  BY DEF OneRow, OneRowNext
<1>3. \A q \in Requests : ~Holds(q, r)
  BY <1>0 DEF Holds, KeysInv, AllPast
<1>4. HeldInv'
  <2>1. \A q, p \in Requests : (req'[p].key # None /\ Holds(q, req[p].key.id)')
                                 => req'[q].key.owner = req'[p].key.owner
    BY DEF Ends, KeysInv, HeldInv, Holds
  <2>2. ASSUME NEW l \in keys', NEW q \in Requests, Holds(q, l.id),
               l.active \/ req[q].key.owner # None
        PROVE  l.owner = req[q].key.owner
    <3>1. CASE OldRow(l)
      <4>1. PICK k \in keys : l.id = k.id /\ l.owner = k.owner /\ (l.active => k.active)
        BY <3>1 DEF OldRow
      <4> QED BY <2>2, <4>1 DEF KeysInv, HeldInv
    <3>2. CASE OwnRow(r, l)
      BY <1>3, <2>2, <3>2 DEF OwnRow
    <3> QED BY <3>1, <3>2
  <2> QED BY <2>1, <2>2 DEF Ends, HeldInv, Holds
<1>5. AloneInv'
  <2> SUFFICES ASSUME NEW q \in Requests, NEW id \in Ids \ overlap, Regenerates(q, id)'
               PROVE  /\ \A p \in Requests : Regenerates(p, id)' => p = q
                      /\ \A l \in keys' : l.owner = id => \E d \in req'[q].doomed : d.id = l.id
    BY DEF AloneInv
  <2>1. Regenerates(q, id) /\ q # r /\ req'[q].doomed = req[q].doomed
    BY EndsRegenerating
  <2>2. \A p \in Requests : Regenerates(p, id)' => p = q
    BY <2>1, EndsRegenerating DEF KeysInv, AloneInv
  <2>3. id # r /\ id # None
    <3>1. req[q].seen # None
      BY <2>1 DEF Regenerates, Op, AccountsInv, Informed, KnowsAccount, Targeting
    <3>2. Past(id)
      BY <2>1, <3>1 DEF Regenerates, KeysInv, AllPast
    <3> QED BY <1>0, <3>2, AccountsAssumption
  <2>4. ASSUME NEW l \in keys', l.owner = id PROVE \E d \in req'[q].doomed : d.id = l.id
    <3>1. PICK k \in keys : l.id = k.id /\ l.owner = k.owner
      BY <2>3, <2>4 DEF OldRow, OwnRow
    <3> QED BY <2>1, <2>4, <3>1 DEF KeysInv, AloneInv
  <2> QED BY <2>2, <2>4
<1>6. OneKey'
  <2> SUFFICES ASSUME NEW k \in keys', NEW l \in keys', k.owner = l.owner, k.owner # None,
                      k.owner \notin overlap
               PROVE  k = l
    BY DEF OneKey
  <2>1. CASE k.owner = r
    BY <2>1
  <2>2. CASE k.owner # r
    <3>1. PICK m \in keys : k.id = m.id /\ k.owner = m.owner
      BY <2>2 DEF OldRow, OwnRow
    <3>2. PICK n \in keys : l.id = n.id /\ l.owner = n.owner
      BY <2>2 DEF OldRow, OwnRow
    <3>3. m = n
      BY <3>1, <3>2 DEF KeysInv, OneKey
    <3> QED BY <3>1, <3>2, <3>3 DEF OneRowNext
  <2> QED BY <2>1, <2>2
<1> QED BY <1>1, <1>2, <1>4, <1>5, <1>6

-----------------------------------------------------------------------------
\* The accounts after a change
UsersNext ==
  /\ \A n \in Names : users'[n] # None => PastNext(users'[n].id)
  /\ \A n, m \in Names :
       (users'[n] # None /\ users'[m] # None /\ users'[n].id = users'[m].id) => n = m

LEMMA KeptUsers ==
  ASSUME AccountsInv, KeysInv, [Next]_vars,
         \A n \in Names : users'[n] # None => users[n] # None /\ users'[n].id = users[n].id
  PROVE  UsersNext
<1>1. \A n \in Names : users'[n] # None => PastNext(users'[n].id)
  BY PastStays DEF KeysInv, AllPast
<1> QED BY <1>1 DEF UsersNext, KeysInv, OneName

LEMMA NewUser ==
  ASSUME AccountsInv, KeysInv, [Next]_vars, NEW r \in Requests, Ends(r),
         NEW role, NEW active, req[r].ask.name \in Names, Create(r, role, active)
  PROVE  UsersNext
<1> DEFINE name == req[r].ask.name
<1>1. \A n \in Names : users'[n] = IF n = name THEN Account(r, role, active) ELSE users[n]
  BY DEF Create, AccountsInv, TypeOK
<1>2. Account(r, role, active).id = r
  BY DEF Account
<1>3. ~Past(r) /\ PastNext(r)
  <2>1. r \notin SeededIds
    BY AccountsAssumption
  <2> QED BY <2>1 DEF Ends, Past, PastNext
<1> HIDE DEF name
<1>4. \A n \in Names \ {name} : users'[n] # None => users'[n].id # r /\ PastNext(users'[n].id)
  BY <1>1, <1>3, PastStays DEF KeysInv, AllPast
<1>5. \A n \in Names : users'[n] # None => PastNext(users'[n].id)
  BY <1>1, <1>2, <1>3, <1>4
<1>6. ASSUME NEW n \in Names, NEW m \in Names, users'[n] # None, users'[m] # None,
             users'[n].id = users'[m].id
      PROVE  n = m
  <2>1. CASE n # name /\ m # name
    BY <1>1, <1>6, <2>1 DEF KeysInv, OneName
  <2>2. CASE n = name \/ m = name
    BY <1>1, <1>2, <1>4, <1>6, <2>2
  <2> QED BY <2>1, <2>2
<1> QED BY <1>5, <1>6 DEF UsersNext

LEMMA CommitUsers ==
  ASSUME AccountsInv, KeysInv, [Next]_vars, NEW r \in Requests, Commit(r)
  PROVE  UsersNext
<1>1. Ends(r) /\ req[r].pc = "commit"
  BY CommitEnds DEF Ends
<1>2. users \in [Names -> AccountRows \cup {None}] /\ req[r].ask.name \in Names
  BY <1>1, CommitFacts DEF AccountsInv, TypeOK
<1>3. CASE UNCHANGED users
  BY <1>3, KeptUsers
<1>4. CASE \E role, active : Create(r, role, active)
  BY <1>1, <1>2, <1>4, NewUser
<1>5. CASE users' = [users EXCEPT ![req[r].ask.name] = None]
  <2>1. \A n \in Names : users'[n] # None => users[n] # None /\ users'[n].id = users[n].id
    BY <1>2, <1>5
  <2> QED BY <2>1, KeptUsers
<1>6. ASSUME Target(r) # None,
             \/ \E active : users' = [users EXCEPT ![req[r].ask.name].active = active]
             \/ users' = [users EXCEPT ![req[r].ask.name].role = req[r].ask.role]
      PROVE  UsersNext
  <2>1. Target(r) \in AccountRows /\ Target(r) = users[req[r].ask.name]
    BY <1>2, <1>6 DEF Target
  <2>2. /\ \A active : [Target(r) EXCEPT !.active = active].id = Target(r).id
        /\ \A role : [Target(r) EXCEPT !.role = role].id = Target(r).id
    BY <2>1 DEF AccountRows
  <2>3. \E x : x.id = Target(r).id /\ users' = [users EXCEPT ![req[r].ask.name] = x]
    <3>1. CASE users' = [users EXCEPT ![req[r].ask.name].role = req[r].ask.role]
      <4> DEFINE x == [Target(r) EXCEPT !.role = req[r].ask.role]
      <4>1. x.id = Target(r).id /\ users' = [users EXCEPT ![req[r].ask.name] = x]
        BY <2>1, <2>2, <3>1
      <4> HIDE DEF x
      <4> QED BY <4>1
    <3>2. ASSUME NEW active, users' = [users EXCEPT ![req[r].ask.name].active = active]
          PROVE  \E x : x.id = Target(r).id /\ users' = [users EXCEPT ![req[r].ask.name] = x]
      <4> DEFINE x == [Target(r) EXCEPT !.active = active]
      <4>1. x.id = Target(r).id /\ users' = [users EXCEPT ![req[r].ask.name] = x]
        BY <2>1, <2>2, <3>2
      <4> HIDE DEF x
      <4> QED BY <4>1
    <3> QED BY <1>6, <3>1, <3>2
  <2>4. \A n \in Names : users'[n] # None => users[n] # None /\ users'[n].id = users[n].id
    BY <1>2, <1>6, <2>1, <2>3
  <2> QED BY <2>4, KeptUsers
<1>7. CASE Signup(r) \/ Provision(r) \/ ActivateStandalone(r)
  BY <1>3, <1>4, <1>7 DEF Signup, Provision, ActivateStandalone, Failed
<1>8. CASE Generate(r) \/ Regenerate(r) \/ ResetPassword(r)
  BY <1>3, <1>8 DEF Generate, Regenerate, ResetPassword, Failed
<1>9. CASE Delete(r)
  BY <1>3, <1>5, <1>9 DEF Delete
<1>10. CASE ActivateInvited(r) \/ Toggle(r) \/ UpdateRole(r)
  BY <1>3, <1>6, <1>10 DEF ActivateInvited, Toggle, UpdateRole, Failed, Still
<1> QED BY <1>7, <1>8, <1>9, <1>10 DEF Commit

\* KeysInv after a change, from its accounts and its rows
LEMMA ChangeKeeps ==
  ASSUME AccountsInv, KeysInv, NEW r \in Requests, [Next]_vars, UsersNext,
         \A k \in keys' : PastNext(k.id) /\ (k.owner # None => PastNext(k.owner)),
         OneRow', HeldInv', AloneInv', OneKey'
  PROVE  KeysInv'
<1>1. LearnedNext
  BY LearnedPast
<1>2. AllPast'
  BY <1>1 DEF UsersNext, LearnedNext, AllPast, Past, PastNext
<1> QED BY <1>2 DEF UsersNext, OneName, KeysInv

LEMMA RowsKeep ==
  ASSUME AccountsInv, KeysInv, [Next]_vars, NEW r \in Requests, Commit(r),
         \A l \in keys' : OldRow(l) \/ OwnRow(r, l),
         \A k, l \in keys' : k.id = l.id => k = l,
         \A k, l \in keys' : k.owner = r /\ l.owner = r => k = l
  PROVE  KeysInv'
<1>1. Ends(r) /\ UNCHANGED overlap
  BY CommitEnds, CommitKeeps
<1>2. OneRowNext
  BY DEF OneRowNext
<1>3. UsersNext
  BY CommitUsers
<1> QED BY <1>1, <1>2, <1>3, ChangedRows, ChangeKeeps

\* What is not there yet: the id of a request that has not made its change
LEMMA NotYet ==
  ASSUME AccountsInv, KeysInv, NEW r \in Requests, req[r].pc = "commit"
  PROVE  \A k \in keys : k.id # r /\ k.owner # r
<1>1. ~Past(r)
  BY DEF Past
<1>2. r # None
  BY AccountsAssumption DEF Ids
<1> QED BY <1>1, <1>2 DEF KeysInv, AllPast

\* keys that are deleted, at most, and one that the request makes
LEMMA AddedRow ==
  ASSUME AccountsInv, KeysInv, [Next]_vars, NEW r \in Requests, Commit(r),
         NEW S, S \subseteq keys, NEW owner \in {None, r}, NEW role,
         keys' = S \/ keys' = S \cup {Key(r, owner, role)}
  PROVE  KeysInv'
<1>1. \A k \in keys : k.id # r /\ k.owner # r
  BY NotYet, CommitKeeps
<1>2. Key(r, owner, role).id = r /\ Key(r, owner, role).owner = owner
  BY DEF Key
<1>3. \A l \in S : OldRow(l)
  BY DEF OldRow
<1>4. OwnRow(r, Key(r, owner, role))
  BY <1>2 DEF OwnRow
<1>5. \A l \in keys' : OldRow(l) \/ OwnRow(r, l)
  BY <1>3, <1>4
<1>6. \A k, l \in keys' : k.id = l.id => k = l
  BY <1>1, <1>2 DEF KeysInv, OneRow
<1>7. \A k, l \in keys' : k.owner = r /\ l.owner = r => k = l
  BY <1>1
<1> QED BY <1>5, <1>6, <1>7, RowsKeep

\* a key that is used up, for the owner it had or for the account it creates
LEMMA ConsumedRow ==
  ASSUME AccountsInv, KeysInv, [Next]_vars, NEW r \in Requests, Commit(r), Op(r) = "activate",
         NEW owner, owner = IF req[r].key.owner = None THEN r ELSE req[r].key.owner,
         keys' = Consumed(r, owner)
  PROVE  KeysInv'
<1>1. /\ \A k \in keys : k.id # r /\ k.owner # r
      /\ req[r].key \in KeyRows /\ req[r].key # None /\ keys \subseteq KeyRows
  BY NotYet, CommitKeeps, CommitFacts, AccountsAssumption DEF AccountsInv, TypeOK
<1>2. \A l \in keys' : \/ l \in keys /\ l.id # req[r].key.id
                       \/ \E k \in keys : /\ k.id = req[r].key.id /\ l.id = k.id
                                          /\ l.owner = owner /\ ~l.active
                                          /\ l = [k EXCEPT !.owner = owner, !.active = FALSE]
  BY <1>1 DEF Consumed, KeyRow, KeyRows
<1>3. \A k, l \in keys' : k.id = l.id => k = l
  <2> SUFFICES ASSUME NEW k \in keys', NEW l \in keys', k.id = l.id PROVE k = l
    OBVIOUS
  <2>1. CASE k.id # req[r].key.id
    <3>1. k \in keys /\ l \in keys
      BY <1>2, <2>1
    <3> QED BY <3>1 DEF KeysInv, OneRow
  <2>2. CASE k.id = req[r].key.id
    <3>1. PICK m \in keys : m.id = k.id /\ k = [m EXCEPT !.owner = owner, !.active = FALSE]
      BY <1>2, <2>2
    <3>2. PICK n \in keys : n.id = l.id /\ l = [n EXCEPT !.owner = owner, !.active = FALSE]
      BY <1>2, <2>2
    <3>3. m = n
      BY <3>1, <3>2 DEF KeysInv, OneRow
    <3> QED BY <3>1, <3>2, <3>3
  <2> QED BY <2>1, <2>2
<1>4. \A k, l \in keys' : k.owner = r /\ l.owner = r => k = l
  <2>1. \A k \in keys' : k.owner = r => k.id = req[r].key.id
    BY <1>1, <1>2
  <2> QED BY <1>3, <2>1
<1>5. ASSUME NEW l \in keys', l \notin keys PROVE OldRow(l) \/ OwnRow(r, l)
  <2>1. PICK k \in keys : k.id = req[r].key.id /\ l.id = k.id /\ l.owner = owner /\ ~l.active
    BY <1>2, <1>5
  <2>2. Holds(r, k.id)
    BY <1>1, <2>1 DEF Holds
  <2>3. CASE req[r].key.owner = None
    <3>1. Past(l.id)
      BY <2>1 DEF KeysInv, AllPast
    <3>2. \A q \in Requests : Holds(q, l.id) => req[q].key.owner = None
      BY <1>1, <2>1, <2>3 DEF KeysInv, HeldInv, Holds
    <3> QED BY <2>1, <2>3, <3>1, <3>2 DEF OwnRow
  <2>4. CASE req[r].key.owner # None
    <3>1. k.owner = req[r].key.owner
      BY <2>2, <2>4 DEF KeysInv, HeldInv
    <3> QED BY <2>1, <2>4, <3>1 DEF OldRow
  <2> QED BY <2>3, <2>4
<1>6. \A l \in keys' : OldRow(l) \/ OwnRow(r, l)
  BY <1>5 DEF OldRow
<1> QED BY <1>3, <1>4, <1>6, RowsKeep

\* A lone regeneration deletes every key of the account, and adds one; of accounts that
\* two regenerate, nothing is said.
LEMMA RegeneratedRow ==
  ASSUME AccountsInv, KeysInv, [Next]_vars, NEW r \in Requests, Regenerate(r)
  PROVE  KeysInv'
<1> DEFINE own == req[r].seen.id
           kept == {k \in keys : \A d \in req[r].doomed : k.id # d.id}
           new == Key(r, own, None)
<1>1. Commit(r) /\ Ends(r) /\ UNCHANGED overlap /\ UsersNext
  BY CommitEnds, CommitKeeps, CommitUsers DEF Commit
<1>2. keys' = kept \cup {new} /\ new.id = r /\ new.owner = own /\ Regenerates(r, own)
  BY DEF Regenerate, Ready, Regenerates, Op, Key
<1>3. req[r].seen # None /\ own \in Ids /\ Past(own) /\ own # None
  <2>1. req[r].seen \in AccountRows
    BY CommitFacts DEF Regenerate, Ready, Targeting
  <2>2. req[r].seen # None
    BY <2>1, AccountsAssumption
  <2> QED BY <2>1, <2>2, AccountsAssumption DEF AccountRows, KeysInv, AllPast
<1>4. ~Past(r) /\ PastNext(r) /\ \A k \in keys : k.id # r /\ k.owner # r
  <2>1. r \notin SeededIds
    BY AccountsAssumption
  <2> QED BY <1>1, <2>1, NotYet DEF Ends, Past, PastNext
<1>5. own \notin overlap => /\ \A q \in Requests : Regenerates(q, own) => q = r
                            /\ \A k \in kept : k.owner # own
  BY <1>2, <1>3 DEF KeysInv, AloneInv
<1>6. kept \subseteq keys
  OBVIOUS
<1> HIDE DEF own, kept, new
<1>7. \A k \in keys' : PastNext(k.id) /\ (k.owner # None => PastNext(k.owner))
  BY <1>2, <1>3, <1>4, <1>6, PastStays DEF KeysInv, AllPast
<1>8. OneRow'
  BY <1>2, <1>4, <1>6 DEF KeysInv, OneRow
<1>9. HeldInv'
  <2>1. \A q, p \in Requests : (req'[p].key # None /\ Holds(q, req[p].key.id)')
                                 => req'[q].key.owner = req'[p].key.owner
    BY <1>1 DEF Ends, KeysInv, HeldInv, Holds
  <2>2. ASSUME NEW l \in keys', NEW q \in Requests, Holds(q, l.id),
               l.active \/ req[q].key.owner # None
        PROVE  l.owner = req[q].key.owner
    <3>1. l \in keys
      BY <1>2, <1>4, <1>6, <2>2 DEF Holds, KeysInv, AllPast
    <3> QED BY <2>2, <3>1 DEF KeysInv, HeldInv
  <2> QED BY <1>1, <2>1, <2>2 DEF Ends, HeldInv, Holds
<1>10. AloneInv'
  <2> SUFFICES ASSUME NEW q \in Requests, NEW id \in Ids \ overlap, Regenerates(q, id)'
               PROVE  /\ \A p \in Requests : Regenerates(p, id)' => p = q
                      /\ \A l \in keys' : l.owner = id => \E d \in req'[q].doomed : d.id = l.id
    BY <1>1 DEF AloneInv
  <2>1. Regenerates(q, id) /\ q # r /\ req'[q].doomed = req[q].doomed
    BY <1>1, EndsRegenerating
  <2>2. \A p \in Requests : Regenerates(p, id)' => p = q
    BY <1>1, <2>1, EndsRegenerating DEF KeysInv, AloneInv
  <2>3. id # own
    BY <1>5, <2>1
  <2>4. \A l \in keys : l.owner = id => \E d \in req[q].doomed : d.id = l.id
    BY <2>1 DEF KeysInv, AloneInv
  <2>5. \A l \in keys' : l.owner = id => l \in keys
    BY <1>2, <1>6, <2>3
  <2> QED BY <2>1, <2>2, <2>4, <2>5
<1>11. OneKey'
  <2> SUFFICES ASSUME NEW k \in keys', NEW l \in keys', k.owner = l.owner, k.owner # None,
                      k.owner \notin overlap
               PROVE  k = l
    BY <1>1 DEF OneKey
  <2>1. CASE k.owner = own
    BY <1>2, <1>5, <2>1
  <2>2. CASE k.owner # own
    <3>1. k \in keys /\ l \in keys
      BY <1>2, <1>6, <2>2
    <3> QED BY <3>1 DEF KeysInv, OneKey
  <2> QED BY <2>1, <2>2
<1> QED BY <1>1, <1>7, <1>8, <1>9, <1>10, <1>11, ChangeKeeps

LEMMA CommitKeys ==
  ASSUME AccountsInv, KeysInv, [Next]_vars, NEW r \in Requests, Commit(r)
  PROVE  KeysInv'
<1>1. CASE UNCHANGED keys
  <2>1. keys' = keys /\ keys \subseteq keys
    BY <1>1
  <2> QED BY <2>1, AddedRow
<1>2. CASE Generate(r)
  <2>1. keys' = keys \cup {Key(r, None, req[r].ask.role)}
    BY <1>2 DEF Generate
  <2> QED BY <2>1, AddedRow
<1>3. CASE Provision(r) /\ ~UNCHANGED keys
  <2>1. keys' = keys \cup {Key(r, r, req[r].ask.role)}
    BY <1>3 DEF Provision, Failed
  <2> QED BY <2>1, AddedRow
<1>4. CASE ActivateInvited(r) /\ ~UNCHANGED keys
  BY <1>4, ConsumedRow DEF ActivateInvited, Ready, Failed
<1>5. CASE ActivateStandalone(r) /\ ~UNCHANGED keys
  BY <1>5, ConsumedRow DEF ActivateStandalone, Ready, Failed
<1>6. CASE Delete(r)
  <2> DEFINE kept == {k \in keys : \A d \in req[r].doomed : k.id # d.id}
  <2>1. keys' = kept /\ kept \subseteq keys
    BY <1>6 DEF Delete
  <2> HIDE DEF kept
  <2> QED BY <2>1, AddedRow
<1>7. CASE Regenerate(r)
  BY <1>7, RegeneratedRow
<1>8. CASE Signup(r) \/ Toggle(r) \/ UpdateRole(r) \/ ResetPassword(r)
  BY <1>1, <1>8 DEF Signup, Toggle, UpdateRole, ResetPassword, Failed
<1> QED BY <1>1, <1>2, <1>3, <1>4, <1>5, <1>6, <1>7, <1>8 DEF Commit

-----------------------------------------------------------------------------
\* A start: it creates under ids of its own, and gives a key to default users that have
\* none.
LEMMA RestartKeys ==
  ASSUME AccountsInv, KeysInv, Restart
  PROVE  KeysInv'
<1>1. /\ [Next]_vars /\ UNCHANGED overlap
      /\ \A r \in Requests : /\ req'[r].pc \in {"new", "done"} /\ req'[r].key = req[r].key
  <2>1. req \in [Requests -> RequestStates]
    BY DEF AccountsInv, TypeOK
  <2> QED BY <2>1 DEF Next, Restart, RequestStates
<1>2. AloneInv'
  BY <1>1 DEF AloneInv, Regenerates
<1>3. CASE UNCHANGED <<users, keys>>
  BY <1>1, <1>2, <1>3, QuietKeys
<1>4. CASE users' = SeededUsers /\ keys' = keys \cup SeededKeys
  <2> DEFINE Fresh(n) == <<n, starts'>>
  <2>0. \A n, m \in DOMAIN Default : Fresh(n) = Fresh(m) => n = m
    OBVIOUS
  <2>1. \A n \in DOMAIN Default : ~Past(Fresh(n)) /\ PastNext(Fresh(n)) /\ n \in Names
    <3> TAKE n \in DOMAIN Default
    <3>1. starts \in Nat /\ starts' = starts + 1 /\ starts' \in 0..MaxStarts
      BY SeedKeeps, AccountsAssumption DEF Restart, AccountsInv, TypeOK
    <3>2. Fresh(n) \in SeededIds /\ Fresh(n)[2] = starts'
      BY <3>1 DEF SeededIds
    <3>3. Fresh(n) \notin Requests
      BY <3>2, AccountsAssumption
    <3> QED BY <3>1, <3>2, <3>3, AccountsAssumption DEF Past, PastNext
  <2>2. \A n \in Names :
          \/ users'[n] = users[n]
          \/ n \in DOMAIN Default /\ users[n] = None /\ users'[n].id = Fresh(n)
    BY <1>4 DEF SeededUsers, Account
  <2>3. \A n \in DOMAIN Default : users'[n] # None /\ users'[n].id \in Ids
    <3> TAKE n \in DOMAIN Default
    <3>1. starts' \in 0..MaxStarts /\ users' \in [Names -> AccountRows \cup {None}]
      BY SeedKeeps
    <3>2. CASE users[n] = None
      <4>1. users'[n] = Account(<<n, starts'>>, Default[n], TRUE)
        BY <1>4, <2>1, <3>2 DEF SeededUsers
      <4>2. users'[n] \in AccountRows
        BY <3>1, <4>1, SeededIdsType, AccountsAssumption DEF Account, AccountRows
      <4> QED BY <4>2, AccountsAssumption DEF AccountRows
    <3>3. CASE users[n] # None
      <4>1. users'[n] = users[n] /\ users'[n] \in AccountRows
        BY <1>4, <2>1, <3>1, <3>3 DEF SeededUsers
      <4> QED BY <3>3, <4>1 DEF AccountRows
    <3> QED BY <3>2, <3>3
  <2>4. \A l \in keys' \ keys : \E n \in DOMAIN Default :
          /\ l = Key(Fresh(n), users'[n].id, Default[n]) /\ l.id = Fresh(n)
          /\ l.owner = users'[n].id /\ \A k \in keys : k.owner # l.owner
    BY <1>4 DEF SeededKeys, Keyed, Key, KeysOf
  <2> HIDE DEF Fresh
  <2>5. UsersNext
    <3>1. \A n \in Names : users'[n] # None => PastNext(users'[n].id)
      BY <2>1, <2>2, PastStays, <1>1 DEF KeysInv, AllPast
    <3>2. ASSUME NEW n \in Names, NEW m \in Names, users'[n] # None, users'[m] # None,
                 users'[n].id = users'[m].id
          PROVE  n = m
      <4>1. CASE users'[n] = users[n] /\ users'[m] = users[m]
        BY <3>2, <4>1 DEF KeysInv, OneName
      <4>2. CASE n \in DOMAIN Default /\ users'[n].id = Fresh(n)
        BY <2>0, <2>1, <2>2, <3>2, <4>2 DEF KeysInv, AllPast
      <4>3. CASE m \in DOMAIN Default /\ users'[m].id = Fresh(m)
        BY <2>0, <2>1, <2>2, <3>2, <4>3 DEF KeysInv, AllPast
      <4> QED BY <2>2, <4>1, <4>2, <4>3
    <3> QED BY <3>1, <3>2 DEF UsersNext
  <2>6. \A k \in keys' : PastNext(k.id) /\ (k.owner # None => PastNext(k.owner))
    <3> TAKE k \in keys'
    <3>1. CASE k \in keys
      BY <1>1, <3>1, PastStays DEF KeysInv, AllPast
    <3>2. CASE k \notin keys
      BY <2>1, <2>3, <2>4, <2>5, <3>2 DEF UsersNext
    <3> QED BY <3>1, <3>2
  <2>7. OneRow'
    <3> SUFFICES ASSUME NEW k \in keys', NEW l \in keys', k.id = l.id PROVE k = l
      BY DEF OneRow
    <3>1. \A m \in keys : \A n \in DOMAIN Default : m.id # Fresh(n)
      BY <2>1 DEF KeysInv, AllPast
    <3>2. CASE k \in keys /\ l \in keys
      BY <3>2 DEF KeysInv, OneRow
    <3>3. CASE k \notin keys
      BY <2>0, <2>4, <3>1, <3>3
    <3>4. CASE l \notin keys
      BY <2>0, <2>4, <3>1, <3>4
    <3> QED BY <3>2, <3>3, <3>4
  <2>8. HeldInv'
    <3>1. \A q, p \in Requests : (req'[p].key # None /\ Holds(q, req[p].key.id)')
                                   => req'[q].key.owner = req'[p].key.owner
      BY <1>1 DEF KeysInv, HeldInv, Holds
    <3>2. ASSUME NEW l \in keys', NEW q \in Requests, Holds(q, l.id),
                 l.active \/ req[q].key.owner # None
          PROVE  l.owner = req[q].key.owner
      <4>1. l \in keys
        BY <2>1, <2>4, <3>2 DEF Holds, KeysInv, AllPast
      <4> QED BY <3>2, <4>1 DEF KeysInv, HeldInv
    <3> QED BY <1>1, <3>1, <3>2 DEF HeldInv, Holds
  <2>9. OneKey'
    <3> SUFFICES ASSUME NEW k \in keys', NEW l \in keys', k.owner = l.owner, k.owner # None,
                        k.owner \notin overlap
                 PROVE  k = l
      BY <1>1 DEF OneKey
    <3>1. CASE k \in keys /\ l \in keys
      BY <3>1 DEF KeysInv, OneKey
    <3>2. CASE (k \in keys) # (l \in keys)
      BY <2>4, <3>2
    <3>3. CASE k \notin keys /\ l \notin keys
      <4>1. PICK n \in DOMAIN Default : /\ k = Key(Fresh(n), users'[n].id, Default[n])
                                        /\ k.owner = users'[n].id
        BY <2>4, <3>3
      <4>2. PICK m \in DOMAIN Default : /\ l = Key(Fresh(m), users'[m].id, Default[m])
                                        /\ l.owner = users'[m].id
        BY <2>4, <3>3
      <4>3. n = m
        BY <2>1, <2>3, <2>5, <4>1, <4>2 DEF UsersNext
      <4> QED BY <4>1, <4>2, <4>3
    <3> QED BY <3>1, <3>2, <3>3
  <2>10. LearnedNext
    BY <1>1, LearnedPast
  <2>11. AllPast'
    BY <2>5, <2>6, <2>10 DEF UsersNext, LearnedNext, AllPast, Past, PastNext
  <2> QED BY <1>2, <2>5, <2>7, <2>8, <2>9, <2>11 DEF UsersNext, OneName, KeysInv
<1> QED BY <1>3, <1>4 DEF Restart, Seed

-----------------------------------------------------------------------------
\* The other steps look, and begin no regeneration but by a sweep.
LEMMA LookingAlone ==
  ASSUME AccountsInv, KeysInv, NEW r \in Requests,
         FindKey(r) \/ Lookup(r) \/ Audit(r) \/ DatabaseFails(r) \/ \E ask \in Asks : Arrive(r, ask)
  PROVE  AloneInv' /\ UNCHANGED <<users, keys, overlap>>
<1>1. req \in [Requests -> RequestStates] /\ req[r] \in RequestStates
  BY DEF AccountsInv, TypeOK
<1>2. UNCHANGED <<users, keys, overlap>>
  BY DEF FindKey, Lookup, Audit, DatabaseFails, Failed, Arrive
<1>3. \A q \in Requests \ {r} : req'[q] = req[q]
  BY <1>1 DEF FindKey, Lookup, Audit, DatabaseFails, Failed, Arrive, Goes
<1>4. ~(req'[r].pc = "commit" /\ req'[r].ask.op = "regenerate")
  <2>1. CASE FindKey(r)
    BY <1>1, <2>1 DEF FindKey, Goes, RequestStates
  <2>2. CASE Lookup(r)
    BY <1>1, <2>2 DEF Lookup, Goes, Op, RequestStates
  <2>3. CASE Audit(r) \/ DatabaseFails(r)
    BY <1>1, <2>3 DEF Audit, DatabaseFails, Failed, Goes, RequestStates
  <2>4. ASSUME NEW ask \in Asks, Arrive(r, ask)
        PROVE  ~(req'[r].pc = "commit" /\ req'[r].ask.op = "regenerate")
    <3>1. PICK caller :
            req' = [req EXCEPT ![r].pc = First(ask.op), ![r].ask = ask, ![r].caller = caller]
      BY <2>4 DEF Arrive
    <3>2. req'[r].pc = First(ask.op) /\ req'[r].ask = ask
      BY <1>1, <3>1 DEF RequestStates
    <3> QED BY <3>2 DEF First
  <2> QED BY <2>1, <2>2, <2>3, <2>4
<1>5. \A q \in Requests : \A id \in Ids : Regenerates(q, id)' =>
        Regenerates(q, id) /\ req'[q].doomed = req[q].doomed
  BY <1>3, <1>4 DEF Regenerates, Op
<1> QED BY <1>2, <1>5, QuietAlone

LEMMA FirstKeys == Init => KeysInv
<1> SUFFICES ASSUME Init PROVE KeysInv
  OBVIOUS
<1>1. \A r \in Requests : req[r].pc = "new" /\ req[r].seen = None /\ req[r].key = None
  BY DEF Init
<1>2. \A n \in DOMAIN Default : <<n, 0>> \in SeededIds /\ Past(<<n, 0>>)
  <2> TAKE n \in DOMAIN Default
  <2>1. <<n, 0>> \in SeededIds /\ starts = 0 /\ <<n, 0>>[2] = 0
    BY AccountsAssumption DEF Init, SeededIds
  <2>2. <<n, 0>> \notin Requests
    BY <2>1, AccountsAssumption
  <2> QED BY <2>1, <2>2 DEF Past
<1>3. \A k \in DOMAIN Spare : Past(k) /\ k \notin SeededIds
  BY AccountsAssumption DEF Past
<1>4. \A n \in Names : users[n] # None => n \in DOMAIN Default /\ users[n].id = <<n, 0>>
  BY DEF Init, Account
<1>5. \A k \in keys : \/ \E n \in DOMAIN Default : /\ k = Key(<<n, 0>>, <<n, 0>>, Default[n])
                                                   /\ k.id = <<n, 0>> /\ k.owner = <<n, 0>>
                      \/ \E s \in DOMAIN Spare : /\ k = Key(s, None, Spare[s])
                                                 /\ k.id = s /\ k.owner = None
  BY DEF Init, Key
<1>6. AllPast
  BY <1>1, <1>2, <1>3, <1>4, <1>5 DEF AllPast
<1>7. OneName
  BY <1>4 DEF OneName
<1>8. OneRow
  <2> SUFFICES ASSUME NEW k \in keys, NEW l \in keys, k.id = l.id PROVE k = l
    BY DEF OneRow
  <2>1. CASE k.id \in SeededIds
    <3>1. PICK n \in DOMAIN Default : k = Key(<<n, 0>>, <<n, 0>>, Default[n]) /\ k.id = <<n, 0>>
      BY <1>3, <1>5, <2>1
    <3>2. PICK m \in DOMAIN Default : l = Key(<<m, 0>>, <<m, 0>>, Default[m]) /\ l.id = <<m, 0>>
      BY <1>3, <1>5, <2>1
    <3> QED BY <3>1, <3>2
  <2>2. CASE k.id \notin SeededIds
    BY <1>2, <1>5, <2>2
  <2> QED BY <2>1, <2>2
<1>9. HeldInv /\ AloneInv
  BY <1>1 DEF HeldInv, AloneInv, Holds, Regenerates
<1>10. OneKey
  <2> SUFFICES ASSUME NEW k \in keys, NEW l \in keys, k.owner = l.owner, k.owner # None
               PROVE  k = l
    BY DEF OneKey
  <2>1. k.id = k.owner /\ l.id = l.owner
    BY <1>5
  <2> QED BY <1>8, <2>1 DEF OneRow
<1> QED BY <1>6, <1>7, <1>8, <1>9, <1>10 DEF KeysInv

LEMMA KeysStep == AccountsInv /\ KeysInv /\ [Next]_vars => KeysInv'
<1> SUFFICES ASSUME AccountsInv, KeysInv, [Next]_vars PROVE KeysInv'
  OBVIOUS
<1>1. ASSUME NEW r \in Requests,
             FindKey(r) \/ Lookup(r) \/ Audit(r) \/ DatabaseFails(r)
               \/ \E ask \in Asks : Arrive(r, ask)
      PROVE  KeysInv'
  BY <1>1, LookingAlone, QuietKeys
<1>2. ASSUME NEW r \in Requests, Sweep(r) PROVE KeysInv'
  BY <1>2, SweepAlone, QuietKeys DEF Sweep
<1>3. ASSUME NEW r \in Requests, Commit(r) PROVE KeysInv'
  BY <1>3, CommitKeys
<1>4. CASE Restart
  BY <1>4, RestartKeys
<1>5. CASE UNCHANGED <<users, keys, req, overlap>>
  <2>1. AloneInv'
    BY <1>5, QuietAlone DEF Regenerates, Op
  <2> QED BY <1>5, <2>1, QuietKeys
<1>6. ASSUME NEW s \in Sessions, Issue(s) \/ Leave(s) \/ \E n \in Names : Login(s, n)
      PROVE  KeysInv'
  BY <1>5, <1>6 DEF Issue, Leave, Login
<1> QED BY <1>1, <1>2, <1>3, <1>4, <1>5, <1>6 DEF Next, Step, vars

\* An account has one key at most, if no two requests regenerated it at once: not one that
\* was found before another took its place, nor one that a start adds to it.
THEOREM OneKeyUnlessOverlap == Spec => []OneKeyEach
<1>1. KeysInv => OneKeyEach
  <2> SUFFICES ASSUME KeysInv, NEW id \in Ids \ overlap PROVE Cardinality(KeysOf(id)) <= 1
    BY DEF OneKeyEach
  <2>1. \A k, l \in KeysOf(id) : k = l
    BY AccountsAssumption DEF KeysOf, KeysInv, OneKey
  <2>2. CASE KeysOf(id) = {}
    BY <2>2, FS_EmptySet
  <2>3. ASSUME NEW k \in KeysOf(id) PROVE Cardinality(KeysOf(id)) <= 1
    <3>1. KeysOf(id) = {k}
      BY <2>1, <2>3
    <3> QED BY <3>1, FS_Singleton
  <2> QED BY <2>2, <2>3
<1> QED BY <1>1, InitInv, StepInv, FirstKeys, KeysStep, PTL DEF Spec
==============================================================================
