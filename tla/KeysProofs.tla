----------------------------- MODULE KeysProofs -----------------------------
(***************************************************************************)
(* What holds of the API keys however many rotations, revocations and      *)
(* deletions of accounts overlap.                                          *)
(***************************************************************************)
EXTENDS Keys, TLAPS

Dead       == {"expired", "revoked", "gone"}
Rotates(q) == at[q] \in {"retire", "insert", "commit"}
Subject(q) == call[q].account

RowOK(k) == IF status[k] = "none" THEN holder[k] = None ELSE holder[k] \in Account

CallOK(q) ==
    /\ Rotates(q) => /\ Subject(q) \in Account /\ call[q].key \in Key
                     /\ status[call[q].key] = "none"
                     /\ \A k \in rows[q] : holder[k] = Subject(q)
    /\ at[q] \in {"insert", "commit"} => \A k \in rows[q] : status[k] = "active"
    /\ at[q] = "commit" => account[Subject(q)] = "here"
    /\ at[q] = "revoke" => /\ Subject(q) \in shut /\ before[q] \subseteq rows[q]
                           /\ \A k \in rows[q] : holder[k] = Subject(q)
    /\ at[q] = "cascade" => /\ Subject(q) \in Account /\ account[Subject(q)] = "here"
                            /\ \A k \in Key : holder[k] = Subject(q) /\ status[k] # "gone" => k \in rows[q]
    /\ at[q] \notin {"revoke", "done", "failed"} => before[q] = {}
    /\ \A k \in before[q] : status[k] # "none"
    /\ at[q] = "done" => \A k \in before[q] : status[k] \in Dead

\* No two calls have retired one key, insert one key, or delete an account that
\* the other deletes or has inserted a key for.
PairOK(q, r) ==
    q # r => /\ LockedKeys(q) \intersect LockedKeys(r) = {}
             /\ call[q].key # None => call[q].key # call[r].key
             /\ at[q] = "cascade" /\ at[r] \in {"commit", "cascade"} => Subject(q) # Subject(r)

KInv ==
    /\ KeysTypeOK
    /\ \A k \in Key : RowOK(k)
    /\ \A q \in AdminCall : CallOK(q)
    /\ \A q, r \in AdminCall : PairOK(q, r)
    /\ NobodyIsLockedOut

\* Keys come and go one way only.
Ages ==
    /\ \A k \in Key : /\ status[k] \in Dead => status'[k] \in Dead
                      /\ status[k] = "gone" => status'[k] = "gone"
                      /\ status[k] # "none" => status'[k] # "none" /\ holder'[k] = holder[k]
    /\ shut \subseteq shut'

\* What a call relies on, and the steps of others leave alone.
Kept(r) ==
    /\ Rotates(r) => status'[call[r].key] = status[call[r].key]
    /\ \A k \in LockedKeys(r) : status'[k] = status[k]
    /\ at[r] \in {"commit", "cascade"} => account'[Subject(r)] = account[Subject(r)]
    /\ at[r] = "cascade" => \A k \in Key : holder'[k] = Subject(r) => holder[k] = Subject(r)

\* Only q has moved.
Alone(q) ==
    \A r \in AdminCall \ {q} :
        at'[r] = at[r] /\ call'[r] = call[r] /\ rows'[r] = rows[r] /\ before'[r] = before[r]
-----------------------------------------------------------------------------
LEMMA Starts == KeysInit => KInv
<1> SUFFICES ASSUME KeysInit PROVE KInv
  OBVIOUS
<1> USE KeysAssumption
<1>1. \A k \in Key : (\E a \in Account : First[a] = k) => holder[k] \in Account /\ First[holder[k]] = k
  BY DEF KeysInit
<1>2. \A k \in Key : ~(\E a \in Account : First[a] = k) => holder[k] = None /\ status[k] = "none"
  BY DEF KeysInit
<1>3. KeysTypeOK
  <2>1. holder \in [Key -> Account \union {None}]
    BY <1>1, <1>2 DEF KeysInit
  <2> QED BY <2>1 DEF KeysInit, KeysTypeOK, NoCall, About
<1>4. \A k \in Key : RowOK(k)
  BY <1>1, <1>2 DEF KeysInit, RowOK
<1>5. \A q \in AdminCall : CallOK(q)
  BY DEF KeysInit, CallOK, Rotates
<1>6. \A q, r \in AdminCall : PairOK(q, r)
  BY DEF KeysInit, PairOK, LockedKeys, NoCall, About
<1>7. NobodyIsLockedOut
  <2> SUFFICES ASSUME NEW a \in Account, account[a] = "here" PROVE Active(a) # {}
    BY DEF NobodyIsLockedOut
  <2>1. First[a] \in Key
    BY DEF KeysInit
  <2>2. holder[First[a]] = a /\ status[First[a]] = "active"
    BY <1>1, <2>1 DEF KeysInit
  <2> QED BY <2>1, <2>2 DEF Active, Of
<1> QED BY <1>3, <1>4, <1>5, <1>6, <1>7 DEF KInv

LEMMA CallStays ==
    ASSUME KInv, Ages, NEW r \in AdminCall, Kept(r),
           at'[r] = at[r], call'[r] = call[r], rows'[r] = rows[r], before'[r] = before[r]
    PROVE  CallOK(r)'
<1>1. CallOK(r) /\ KeysTypeOK /\ rows[r] \subseteq Key /\ before[r] \subseteq Key
  BY DEF KInv, KeysTypeOK
<1>2. Subject(r)' = Subject(r) /\ Rotates(r)' = Rotates(r)
  BY DEF Subject, Rotates
<1>3. \A k \in Key : holder[k] \in Account => status[k] # "none"
  BY KeysAssumption DEF KInv, RowOK
<1>4. Rotates(r) => /\ status'[call[r].key] = "none"
                    /\ \A k \in rows[r] : holder'[k] = Subject(r)
  BY <1>1, <1>3 DEF CallOK, Kept, Ages
<1>5. at[r] \in {"insert", "commit"} => \A k \in rows[r] : status'[k] = "active"
  BY <1>1 DEF CallOK, Kept, LockedKeys
<1>6. at[r] = "commit" => account'[Subject(r)] = "here"
  BY <1>1 DEF CallOK, Kept
<1>7. at[r] = "revoke" => /\ Subject(r) \in shut' /\ \A k \in rows[r] : holder'[k] = Subject(r)
  <2>1. shut \subseteq Account
    BY <1>1 DEF KeysTypeOK
  <2> QED BY <1>1, <1>3, <2>1 DEF CallOK, Ages
<1>8. at[r] = "cascade" => /\ account'[Subject(r)] = "here"
                           /\ \A k \in Key : holder'[k] = Subject(r) /\ status'[k] # "gone" => k \in rows[r]
  BY <1>1 DEF CallOK, Kept, Ages
<1>9. /\ \A k \in before[r] : status'[k] # "none"
      /\ at[r] = "done" => \A k \in before[r] : status'[k] \in Dead
  BY <1>1 DEF CallOK, Ages
<1> QED BY <1>1, <1>2, <1>4, <1>5, <1>6, <1>7, <1>8, <1>9 DEF CallOK

\* The others, when one call has moved and stays right.
LEMMA OneMoves ==
    ASSUME KInv, Ages, KeysTypeOK', NEW q \in AdminCall, Alone(q),
           \A r \in AdminCall \ {q} : Kept(r),
           CallOK(q)', \A r \in AdminCall \ {q} : PairOK(q, r)' /\ PairOK(r, q)'
    PROVE  (\A r \in AdminCall : CallOK(r)') /\ (\A r, s \in AdminCall : PairOK(r, s)')
<1>1. \A r \in AdminCall : CallOK(r)'
  BY CallStays DEF Alone
<1>2. ASSUME NEW r \in AdminCall \ {q}, NEW s \in AdminCall \ {q} PROVE PairOK(r, s)'
  <2>1. PairOK(r, s)
    BY DEF KInv
  <2>2. /\ at'[r] = at[r] /\ call'[r] = call[r] /\ rows'[r] = rows[r]
        /\ at'[s] = at[s] /\ call'[s] = call[s] /\ rows'[s] = rows[s]
    BY DEF Alone
  <2> QED BY <2>1, <2>2 DEF PairOK, LockedKeys, Subject
<1>3. PairOK(q, q)'
  BY DEF PairOK
<1> QED BY <1>1, <1>2, <1>3

\* A step that leaves accounts and keys alone.
LEMMA RowsStay ==
    ASSUME KInv, UNCHANGED rowsOfKeys, shut \subseteq shut'
    PROVE  /\ Ages /\ \A r \in AdminCall : Kept(r)
           /\ \A k \in Key : RowOK(k)'
           /\ NobodyIsLockedOut'
BY DEF KInv, rowsOfKeys, Ages, Kept, RowOK, NobodyIsLockedOut, Active, Of

\* A call that leaves accounts and keys alone, or what it needs to show.
LEMMA QuietStep ==
    ASSUME KInv, UNCHANGED rowsOfKeys, shut \subseteq shut', KeysTypeOK', NEW q \in AdminCall,
           Alone(q), CallOK(q)', \A r \in AdminCall \ {q} : PairOK(q, r)' /\ PairOK(r, q)'
    PROVE  KInv'
<1>1. /\ Ages /\ \A r \in AdminCall : Kept(r)
      /\ \A k \in Key : RowOK(k)'
      /\ NobodyIsLockedOut'
  BY RowsStay
<1>2. (\A r \in AdminCall : CallOK(r)') /\ (\A r, s \in AdminCall : PairOK(r, s)')
  BY <1>1, OneMoves
<1> QED BY <1>1, <1>2 DEF KInv

LEMMA RotateKeyIsOK ==
    ASSUME KInv, NEW q \in AdminCall, NEW a \in Account, NEW x \in Key, NEW grace \in BOOLEAN,
           RotateKey(q, a, x, grace)
    PROVE  KInv'
<1> USE KeysAssumption
<1> DEFINE o == [kind |-> "rotate", account |-> a, key |-> x, grace |-> grace]
<1>t. KeysTypeOK /\ at[q] = "idle" /\ Fresh(x)
  BY DEF KInv, RotateKey, Begin
<1>1. /\ at' = [at EXCEPT ![q] = "retire"] /\ call' = [call EXCEPT ![q] = o]
      /\ rows' = [rows EXCEPT ![q] = Active(a)] /\ UNCHANGED <<rowsOfKeys, before, shut>>
  BY DEF RotateKey, Begin, MoveTo
<1>2. Active(a) \in SUBSET Key
  BY DEF Active, Of
<1>3. KeysTypeOK'
  <2>1. call' \in [AdminCall -> [kind : {None, "rotate", "revoke", "delete"}, account : Account \union {None},
                                 key : Key \union {None}, grace : BOOLEAN]]
    BY <1>t, <1>1 DEF KeysTypeOK
  <2> QED BY <1>t, <1>1, <1>2, <2>1 DEF KeysTypeOK, rowsOfKeys
<1>4. /\ at'[q] = "retire" /\ call'[q] = o /\ rows'[q] = Active(a) /\ before'[q] = before[q] /\ Alone(q)
  BY <1>t, <1>1 DEF KeysTypeOK, Alone
<1>5. CallOK(q)'
  <2>1. status'[x] = "none" /\ before[q] = {}
    BY <1>t, <1>1 DEF Fresh, rowsOfKeys, KInv, CallOK
  <2>2. \A k \in rows'[q] : holder'[k] = a
    BY <1>1, <1>4 DEF Active, Of, rowsOfKeys
  <2> QED BY <1>4, <2>1, <2>2 DEF CallOK, Rotates, Subject
<1>6. ASSUME NEW r \in AdminCall \ {q} PROVE PairOK(q, r)' /\ PairOK(r, q)'
  <2>1. at'[r] = at[r] /\ call'[r] = call[r] /\ rows'[r] = rows[r] /\ call[r].key # x
    BY <1>t, <1>4 DEF Alone, Fresh
  <2>2. PairOK(q, r) /\ PairOK(r, q)
    BY DEF KInv
  <2>3. LockedKeys(q)' = {} /\ LockedKeys(r)' = LockedKeys(r)
    BY <1>4, <2>1 DEF LockedKeys
  <2> QED BY <1>4, <2>1, <2>3 DEF PairOK
<1> QED BY <1>1, <1>3, <1>4, <1>5, <1>6, QuietStep

LEMMA RetireKeysIsOK ==
    ASSUME KInv, NEW q \in AdminCall, RetireKeys(q)
    PROVE  KInv'
<1>t. KeysTypeOK /\ at[q] = "retire" /\ Runs(q) /\ CallOK(q)
  BY DEF KInv, RetireKeys
<1>1. /\ at' = [at EXCEPT ![q] = "insert"] /\ call' = call
      /\ rows' = [rows EXCEPT ![q] = {k \in rows[q] : status[k] = "active"}]
      /\ UNCHANGED <<rowsOfKeys, before, shut>>
  BY DEF RetireKeys, MoveTo, StillActive
<1>2. KeysTypeOK'
  <2>1. {k \in rows[q] : status[k] = "active"} \in SUBSET Key
    BY <1>t DEF KeysTypeOK
  <2> QED BY <1>t, <1>1, <2>1 DEF KeysTypeOK, rowsOfKeys
<1>3. /\ at'[q] = "insert" /\ call'[q] = call[q] /\ before'[q] = before[q] /\ Alone(q)
      /\ rows'[q] = {k \in rows[q] : status[k] = "active"}
  BY <1>t, <1>1 DEF KeysTypeOK, Alone
<1>4. CallOK(q)'
  BY <1>t, <1>1, <1>3 DEF CallOK, Rotates, Subject, rowsOfKeys
<1>5. ASSUME NEW r \in AdminCall \ {q} PROVE PairOK(q, r)' /\ PairOK(r, q)'
  <2>1. at'[r] = at[r] /\ call'[r] = call[r] /\ rows'[r] = rows[r]
    BY <1>3 DEF Alone
  <2>2. PairOK(q, r) /\ PairOK(r, q)
    BY DEF KInv
  <2>3. LockedKeys(q)' \subseteq rows[q] /\ LockedKeys(r)' = LockedKeys(r)
    BY <1>3, <2>1 DEF LockedKeys
  <2>4. rows[q] \intersect LockedKeys(r) = {}
    BY <1>t DEF Runs, Waits
  <2> QED BY <1>3, <2>1, <2>2, <2>3, <2>4 DEF PairOK, Subject
<1> QED BY <1>1, <1>2, <1>3, <1>4, <1>5, QuietStep

\* A call that gives up.
LEMMA FailIsOK ==
    ASSUME KInv, NEW q \in AdminCall, at[q] # "idle", Fail(q), UNCHANGED <<rowsOfKeys, call, before, shut>>
    PROVE  KInv'
<1>t. KeysTypeOK /\ CallOK(q)
  BY DEF KInv
<1>1. /\ at' = [at EXCEPT ![q] = "failed"] /\ call' = call /\ rows' = [rows EXCEPT ![q] = {}]
  BY DEF Fail, MoveTo
<1>2. KeysTypeOK'
  BY <1>t, <1>1 DEF KeysTypeOK, rowsOfKeys
<1>3. /\ at'[q] = "failed" /\ call'[q] = call[q] /\ rows'[q] = {} /\ before'[q] = before[q] /\ Alone(q)
  BY <1>t, <1>1 DEF KeysTypeOK, Alone
<1>4. CallOK(q)'
  BY <1>t, <1>3 DEF CallOK, Rotates, rowsOfKeys
<1>5. ASSUME NEW r \in AdminCall \ {q} PROVE PairOK(q, r)' /\ PairOK(r, q)'
  <2>1. at'[r] = at[r] /\ call'[r] = call[r] /\ rows'[r] = rows[r]
    BY <1>3 DEF Alone
  <2>2. PairOK(q, r) /\ PairOK(r, q)
    BY DEF KInv
  <2>3. LockedKeys(q)' = {} /\ LockedKeys(r)' = LockedKeys(r)
    BY <1>3, <2>1 DEF LockedKeys
  <2> QED BY <1>3, <2>1, <2>2, <2>3 DEF PairOK, Subject
<1> QED BY <1>2, <1>3, <1>4, <1>5, QuietStep

LEMMA InsertKeyIsOK ==
    ASSUME KInv, NEW q \in AdminCall, InsertKey(q)
    PROVE  KInv'
<1>1. CASE account[Subject(q)] # "here"
  BY <1>1, FailIsOK DEF InsertKey, Subject
<1>2. CASE account[Subject(q)] = "here"
  <2>t. KeysTypeOK /\ at[q] = "insert" /\ Runs(q) /\ CallOK(q)
    BY DEF KInv, InsertKey
  <2>1. at' = [at EXCEPT ![q] = "commit"] /\ UNCHANGED <<rowsOfKeys, rows, call, before, shut>>
    BY <1>2 DEF InsertKey, MoveTo, Subject
  <2>2. KeysTypeOK'
    BY <2>t, <2>1 DEF KeysTypeOK, rowsOfKeys
  <2>3. /\ at'[q] = "commit" /\ call'[q] = call[q] /\ rows'[q] = rows[q] /\ before'[q] = before[q] /\ Alone(q)
    BY <2>t, <2>1 DEF KeysTypeOK, Alone
  <2>4. CallOK(q)'
    BY <1>2, <2>t, <2>1, <2>3 DEF CallOK, Rotates, Subject, rowsOfKeys
  <2>5. ASSUME NEW r \in AdminCall \ {q} PROVE PairOK(q, r)' /\ PairOK(r, q)'
    <3>1. at'[r] = at[r] /\ call'[r] = call[r] /\ rows'[r] = rows[r]
      BY <2>3 DEF Alone
    <3>2. PairOK(q, r) /\ PairOK(r, q)
      BY DEF KInv
    <3>3. LockedKeys(q)' = LockedKeys(q) /\ LockedKeys(r)' = LockedKeys(r)
      BY <2>t, <2>3, <3>1 DEF LockedKeys
    <3>4. at[r] = "cascade" => Subject(q) # Subject(r)
      BY <2>t DEF Runs, Waits, Subject
    <3> QED BY <2>3, <3>1, <3>2, <3>3, <3>4 DEF PairOK, Subject
  <2> QED BY <2>1, <2>2, <2>3, <2>4, <2>5, QuietStep
<1> QED BY <1>1, <1>2

LEMMA RevokeKeyIsOK ==
    ASSUME KInv, NEW q \in AdminCall, NEW a \in Account, RevokeKey(q, a)
    PROVE  KInv'
<1> USE KeysAssumption
<1> DEFINE o     == About("revoke", a)
           found == {k \in Of(a) : status[k] \in Revocable}
           valid == {k \in Of(a) : Usable(k)}
<1>t. KeysTypeOK /\ at[q] = "idle"
  BY DEF KInv, RevokeKey, Begin
<1>1. /\ at' = [at EXCEPT ![q] = "revoke"] /\ call' = [call EXCEPT ![q] = o]
      /\ rows' = [rows EXCEPT ![q] = found] /\ before' = [before EXCEPT ![q] = valid]
      /\ shut' = shut \union {a} /\ UNCHANGED rowsOfKeys
  BY DEF RevokeKey, Begin, MoveTo
<1>2. o = [kind |-> "revoke", account |-> a, key |-> None, grace |-> FALSE]
  BY DEF About
<1>3. found \in SUBSET Key /\ valid \in SUBSET Key
  BY DEF Of
<1>4. KeysTypeOK'
  <2>1. call' \in [AdminCall -> [kind : {None, "rotate", "revoke", "delete"}, account : Account \union {None},
                                 key : Key \union {None}, grace : BOOLEAN]]
    BY <1>t, <1>1 DEF KeysTypeOK, About
  <2>2. shut' \subseteq Account
    BY <1>t, <1>1 DEF KeysTypeOK
  <2> QED BY <1>t, <1>1, <1>3, <2>1, <2>2 DEF KeysTypeOK, rowsOfKeys
<1>5. at'[q] = "revoke" /\ call'[q] = o /\ rows'[q] = found /\ before'[q] = valid /\ Alone(q)
  BY <1>t, <1>1 DEF KeysTypeOK, Alone
<1>6. CallOK(q)'
  <2>1. valid \subseteq found
    BY DEF Usable, Revocable
  <2>2. \A k \in found : holder'[k] = a
    BY <1>1 DEF Of, rowsOfKeys
  <2>3. \A k \in valid : status'[k] # "none"
    BY <1>1 DEF Usable, rowsOfKeys
  <2>4. Subject(q)' = a
    BY <1>2, <1>5 DEF Subject
  <2> HIDE DEF o, found, valid
  <2> QED BY <1>1, <1>5, <2>1, <2>2, <2>3, <2>4 DEF CallOK, Rotates
<1>7. ASSUME NEW r \in AdminCall \ {q} PROVE PairOK(q, r)' /\ PairOK(r, q)'
  <2>1. at'[r] = at[r] /\ call'[r] = call[r] /\ rows'[r] = rows[r]
    BY <1>5 DEF Alone
  <2>2. LockedKeys(q)' = {} /\ call'[q].key = None
    BY <1>2, <1>5 DEF LockedKeys
  <2> QED BY <1>5, <2>1, <2>2 DEF PairOK
<1> QED BY <1>1, <1>4, <1>5, <1>6, <1>7, QuietStep

LEMMA DeleteAccountIsOK ==
    ASSUME KInv, NEW q \in AdminCall, NEW a \in Account, DeleteAccount(q, a)
    PROVE  KInv'
<1> USE KeysAssumption
<1> DEFINE o     == About("delete", a)
           found == {k \in Of(a) : status[k] # "gone"}
<1>t. KeysTypeOK /\ at[q] = "idle" /\ account[a] = "here" /\ before[q] = {}
  BY DEF KInv, CallOK, DeleteAccount, Begin
<1>1. /\ at' = [at EXCEPT ![q] = "cascade"] /\ call' = [call EXCEPT ![q] = o]
      /\ rows' = [rows EXCEPT ![q] = found] /\ UNCHANGED <<rowsOfKeys, before, shut>>
  BY DEF DeleteAccount, Begin, MoveTo
<1>2. o = [kind |-> "delete", account |-> a, key |-> None, grace |-> FALSE]
  BY DEF About
<1>3. found \in SUBSET Key
  BY DEF Of
<1>4. KeysTypeOK'
  <2>1. call' \in [AdminCall -> [kind : {None, "rotate", "revoke", "delete"}, account : Account \union {None},
                                 key : Key \union {None}, grace : BOOLEAN]]
    BY <1>t, <1>1 DEF KeysTypeOK, About
  <2> QED BY <1>t, <1>1, <1>3, <2>1 DEF KeysTypeOK, rowsOfKeys
<1>5. at'[q] = "cascade" /\ call'[q] = o /\ rows'[q] = found /\ before'[q] = {} /\ Alone(q)
  BY <1>t, <1>1 DEF KeysTypeOK, Alone
<1>6. CallOK(q)'
  <2>1. \A k \in Key : holder'[k] = a /\ status'[k] # "gone" => k \in found
    BY <1>1 DEF Of, rowsOfKeys
  <2>2. Subject(q)' = a
    BY <1>2, <1>5 DEF Subject
  <2> HIDE DEF o, found
  <2> QED BY <1>t, <1>1, <1>5, <2>1, <2>2 DEF CallOK, Rotates, rowsOfKeys
<1>7. ASSUME NEW r \in AdminCall \ {q} PROVE PairOK(q, r)' /\ PairOK(r, q)'
  <2>1. at'[r] = at[r] /\ call'[r] = call[r] /\ rows'[r] = rows[r]
    BY <1>5 DEF Alone
  <2>2. LockedKeys(q)' = {} /\ call'[q].key = None /\ call'[q].account = a
    BY <1>2, <1>5 DEF LockedKeys
  <2>3. at[r] \in {"commit", "cascade"} => call[r].account # a
    BY DEF DeleteAccount, LockedAccount
  <2> QED BY <1>5, <2>1, <2>2, <2>3 DEF PairOK, Subject
<1> QED BY <1>1, <1>4, <1>5, <1>6, <1>7, QuietStep
-----------------------------------------------------------------------------
(* The steps that change accounts and keys.                                *)

LEMMA CreateAccountIsOK ==
    ASSUME KInv, NEW a \in Account, NEW x \in Key, CreateAccount(a, x)
    PROVE  KInv' /\ Ages
<1> USE KeysAssumption
<1>t. KeysTypeOK /\ account[a] = "none" /\ status[x] = "none" /\ \A r \in AdminCall : call[r].key # x
  BY DEF KInv, CreateAccount, Fresh
<1>1. /\ status' = [status EXCEPT ![x] = "active"] /\ holder' = [holder EXCEPT ![x] = a]
      /\ account' = [account EXCEPT ![a] = "here"] /\ UNCHANGED <<calls, before, shut>>
  BY DEF CreateAccount
<1>2. KeysTypeOK'
  BY <1>t, <1>1 DEF KeysTypeOK, calls
<1>3. Ages
  BY <1>t, <1>1 DEF KeysTypeOK, Ages, Dead
<1>4. \A k \in Key : RowOK(k)'
  BY <1>t, <1>1 DEF KeysTypeOK, KInv, RowOK
<1>5. ASSUME NEW r \in AdminCall PROVE Kept(r)
  <2>1. CallOK(r) /\ LockedKeys(r) \subseteq Key
    BY <1>t DEF KInv, KeysTypeOK, LockedKeys
  <2>2. Rotates(r) => status'[call[r].key] = status[call[r].key]
    BY <1>t, <1>1, <2>1 DEF KeysTypeOK, CallOK
  <2>3. \A k \in LockedKeys(r) : status'[k] = status[k]
    BY <1>t, <1>1, <2>1 DEF KeysTypeOK, CallOK, LockedKeys
  <2>4. at[r] \in {"commit", "cascade"} => account'[Subject(r)] = account[Subject(r)] /\ Subject(r) # a
    BY <1>t, <1>1, <2>1 DEF KeysTypeOK, CallOK
  <2>5. at[r] = "cascade" => \A k \in Key : holder'[k] = Subject(r) => holder[k] = Subject(r)
    BY <1>t, <1>1, <2>4 DEF KeysTypeOK
  <2> QED BY <2>2, <2>3, <2>4, <2>5 DEF Kept
<1>6. \A r \in AdminCall : CallOK(r)'
  BY <1>1, <1>3, <1>5, CallStays DEF calls
<1>7. \A q, r \in AdminCall : PairOK(q, r)'
  BY <1>1 DEF KInv, PairOK, LockedKeys, Subject, calls
<1>8. NobodyIsLockedOut'
  <2> SUFFICES ASSUME NEW b \in Account, account'[b] = "here", b \notin shut' PROVE Active(b)' # {}
    BY DEF NobodyIsLockedOut
  <2>1. CASE b = a
    BY <1>t, <1>1, <2>1 DEF KeysTypeOK, Active, Of
  <2>2. CASE b # a
    <3>1. PICK k \in Active(b) : TRUE
      BY <1>t, <1>1, <2>2 DEF KInv, NobodyIsLockedOut, KeysTypeOK
    <3>2. k \in Active(b)'
      BY <1>t, <1>1, <3>1 DEF KeysTypeOK, Active, Of
    <3> QED BY <3>2
  <2> QED BY <2>1, <2>2
<1> QED BY <1>2, <1>3, <1>4, <1>6, <1>7, <1>8 DEF KInv

LEMMA ExpireIsOK ==
    ASSUME KInv, NEW x \in Key, Expire(x)
    PROVE  KInv' /\ Ages
<1>t. KeysTypeOK /\ status[x] = "grace"
  BY DEF KInv, Expire
<1>1. status' = [status EXCEPT ![x] = "expired"] /\ UNCHANGED <<account, holder, calls, before, shut>>
  BY DEF Expire
<1>2. KeysTypeOK'
  BY <1>t, <1>1 DEF KeysTypeOK, calls
<1>3. Ages
  BY <1>t, <1>1 DEF KeysTypeOK, Ages, Dead
<1>4. \A k \in Key : RowOK(k)'
  BY <1>t, <1>1 DEF KeysTypeOK, KInv, RowOK
<1>5. ASSUME NEW r \in AdminCall PROVE Kept(r)
  <2>1. CallOK(r) /\ LockedKeys(r) \subseteq Key
    BY <1>t DEF KInv, KeysTypeOK, LockedKeys
  <2>2. Rotates(r) => status'[call[r].key] = status[call[r].key]
    BY <1>t, <1>1, <2>1 DEF KeysTypeOK, CallOK
  <2>3. \A k \in LockedKeys(r) : status'[k] = status[k]
    BY <1>t, <1>1, <2>1 DEF KeysTypeOK, CallOK, LockedKeys
  <2> QED BY <1>1, <2>2, <2>3 DEF Kept
<1>6. \A r \in AdminCall : CallOK(r)'
  BY <1>1, <1>3, <1>5, CallStays DEF calls
<1>7. \A q, r \in AdminCall : PairOK(q, r)'
  BY <1>1 DEF KInv, PairOK, LockedKeys, Subject, calls
<1>8. NobodyIsLockedOut'
  <2>1. \A a \in Account : Active(a) \subseteq Active(a)'
    BY <1>t, <1>1 DEF KeysTypeOK, Active, Of
  <2> QED BY <1>1, <2>1 DEF KInv, NobodyIsLockedOut
<1> QED BY <1>2, <1>3, <1>4, <1>6, <1>7, <1>8 DEF KInv

\* A call that ends; what it has changed is given.
LEMMA LastStep ==
    ASSUME KInv, NEW q \in AdminCall, at[q] # "idle", MoveTo(q, "done"), rows' = [rows EXCEPT ![q] = {}],
           UNCHANGED <<call, before, shut>>, KeysTypeOK', Ages,
           \A r \in AdminCall \ {q} : Kept(r), \A k \in Key : RowOK(k)', NobodyIsLockedOut',
           \A k \in before[q] : status'[k] \in Dead
    PROVE  KInv'
<1>t. KeysTypeOK /\ CallOK(q) /\ before[q] \subseteq Key
  BY DEF KInv, KeysTypeOK
<1>1. /\ at'[q] = "done" /\ call'[q] = call[q] /\ rows'[q] = {} /\ before'[q] = before[q] /\ Alone(q)
  BY <1>t DEF KeysTypeOK, Alone, MoveTo
<1>2. CallOK(q)'
  BY <1>t, <1>1 DEF CallOK, Rotates, Dead
<1>3. ASSUME NEW r \in AdminCall \ {q} PROVE PairOK(q, r)' /\ PairOK(r, q)'
  <2>1. at'[r] = at[r] /\ call'[r] = call[r] /\ rows'[r] = rows[r]
    BY <1>1 DEF Alone
  <2>2. PairOK(q, r) /\ PairOK(r, q)
    BY DEF KInv
  <2>3. LockedKeys(q)' = {} /\ LockedKeys(r)' = LockedKeys(r)
    BY <1>1, <2>1 DEF LockedKeys
  <2> QED BY <1>1, <2>1, <2>2, <2>3 DEF PairOK, Subject
<1>4. (\A r \in AdminCall : CallOK(r)') /\ (\A r, s \in AdminCall : PairOK(r, s)')
  BY <1>1, <1>2, <1>3, OneMoves
<1> QED BY <1>4 DEF KInv

LEMMA CommitRotationIsOK ==
    ASSUME KInv, NEW q \in AdminCall, CommitRotation(q)
    PROVE  KInv' /\ Ages
<1> USE KeysAssumption
<1> DEFINE x == call[q].key
<1>t. KeysTypeOK /\ CallOK(q) /\ at[q] = "commit" /\ LockedKeys(q) = rows[q] /\ rows[q] \subseteq Key
  BY DEF KInv, KeysTypeOK, CommitRotation, LockedKeys
<1>1. /\ Subject(q) \in Account /\ x \in Key /\ status[x] = "none" /\ before[q] = {}
      /\ \A k \in rows[q] : holder[k] = Subject(q) /\ status[k] = "active"
      /\ account[Subject(q)] = "here"
  BY <1>t DEF CallOK, Rotates
<1>2. /\ \A k \in Key : status'[k] = IF k = x THEN "active" ELSE
                                     IF k \in rows[q] THEN IF call[q].grace THEN "grace" ELSE "revoked"
                                     ELSE status[k]
      /\ status' \in [Key -> {"none", "active", "grace", "expired", "revoked", "gone"}]
  BY <1>t, <1>1 DEF CommitRotation, Retired, KeysTypeOK
<1>3. /\ holder' = [holder EXCEPT ![x] = Subject(q)] /\ UNCHANGED <<account, call, before, shut>>
      /\ MoveTo(q, "done") /\ rows' = [rows EXCEPT ![q] = {}]
  BY DEF CommitRotation, Subject
<1>4. KeysTypeOK'
  BY <1>t, <1>1, <1>2, <1>3 DEF KeysTypeOK, MoveTo
<1>5. Ages
  BY <1>t, <1>1, <1>2, <1>3 DEF KeysTypeOK, Ages, Dead
<1>6. \A k \in Key : RowOK(k)'
  <2> SUFFICES ASSUME NEW k \in Key PROVE RowOK(k)'
    OBVIOUS
  <2>1. CASE k = x
    BY <1>t, <1>1, <1>2, <1>3, <2>1 DEF KeysTypeOK, RowOK
  <2>2. CASE k # x
    <3>1. holder'[k] = holder[k] /\ RowOK(k)
      BY <1>t, <1>3, <2>2 DEF KeysTypeOK, KInv
    <3> QED BY <1>1, <1>2, <2>2, <3>1 DEF RowOK
  <2> QED BY <2>1, <2>2
<1>7. ASSUME NEW r \in AdminCall \ {q} PROVE Kept(r)
  <2>1. CallOK(r) /\ PairOK(q, r) /\ PairOK(r, q) /\ LockedKeys(r) \subseteq Key
    BY <1>t DEF KInv, KeysTypeOK, LockedKeys
  <2>2. Rotates(r) => status'[call[r].key] = status[call[r].key]
    <3>1. Rotates(r) => call[r].key \in Key /\ call[r].key # x /\ call[r].key \notin rows[q]
      BY <1>1, <2>1 DEF CallOK, PairOK
    <3> QED BY <1>2, <3>1
  <2>3. \A k \in LockedKeys(r) : status'[k] = status[k]
    <3>1. \A k \in LockedKeys(r) : k \in Key /\ k \notin rows[q] /\ k # x
      BY <1>t, <1>1, <2>1 DEF PairOK, CallOK, LockedKeys
    <3> QED BY <1>2, <3>1
  <2>4. at[r] = "cascade" => \A k \in Key : holder'[k] = Subject(r) => holder[k] = Subject(r)
    BY <1>t, <1>3, <2>1 DEF PairOK, KeysTypeOK
  <2> QED BY <1>3, <2>2, <2>3, <2>4 DEF Kept
<1>8. NobodyIsLockedOut'
  <2> SUFFICES ASSUME NEW b \in Account, account'[b] = "here", b \notin shut' PROVE Active(b)' # {}
    BY DEF NobodyIsLockedOut
  <2>1. CASE b = Subject(q)
    BY <1>t, <1>1, <1>2, <1>3, <2>1 DEF KeysTypeOK, Active, Of
  <2>2. CASE b # Subject(q)
    <3>1. PICK k \in Active(b) : TRUE
      BY <1>3 DEF KInv, NobodyIsLockedOut
    <3>2. k \in Key /\ holder[k] = b /\ status[k] = "active"
      BY <3>1 DEF Active, Of
    <3>3. k # x /\ k \notin rows[q]
      BY <1>1, <2>2, <3>2
    <3>4. k \in Active(b)'
      BY <1>t, <1>2, <1>3, <3>2, <3>3 DEF KeysTypeOK, Active, Of
    <3> QED BY <3>4
  <2> QED BY <2>1, <2>2
<1> QED BY <1>t, <1>1, <1>3, <1>4, <1>5, <1>6, <1>7, <1>8, LastStep

LEMMA RevokeKeysIsOK ==
    ASSUME KInv, NEW q \in AdminCall, RevokeKeys(q)
    PROVE  KInv' /\ Ages
<1> USE KeysAssumption
<1>t. KeysTypeOK /\ CallOK(q) /\ at[q] = "revoke" /\ Runs(q) /\ rows[q] \subseteq Key
  BY DEF KInv, KeysTypeOK, RevokeKeys
<1>1. /\ Subject(q) \in shut /\ shut \subseteq Account /\ before[q] \subseteq rows[q]
      /\ \A k \in rows[q] : holder[k] = Subject(q) /\ status[k] # "none"
  BY <1>t DEF CallOK, KeysTypeOK, KInv, RowOK
<1>2. /\ \A k \in Key : status'[k] = IF k \in rows[q] /\ status[k] \in Revocable THEN "revoked" ELSE status[k]
      /\ status' \in [Key -> {"none", "active", "grace", "expired", "revoked", "gone"}]
  BY <1>t DEF RevokeKeys, KeysTypeOK
<1>3. /\ UNCHANGED <<account, holder, call, before, shut>>
      /\ MoveTo(q, "done") /\ rows' = [rows EXCEPT ![q] = {}]
  BY DEF RevokeKeys
<1>4. KeysTypeOK'
  BY <1>t, <1>2, <1>3 DEF KeysTypeOK, MoveTo
<1>5. Ages
  BY <1>t, <1>2, <1>3 DEF Ages, Dead, Revocable
<1>6. \A k \in Key : RowOK(k)'
  BY <1>t, <1>2, <1>3 DEF KInv, RowOK, Revocable
<1>7. ASSUME NEW r \in AdminCall \ {q} PROVE Kept(r)
  <2>1. CallOK(r) /\ LockedKeys(r) \subseteq Key /\ rows[q] \intersect LockedKeys(r) = {}
    BY <1>t DEF KInv, KeysTypeOK, LockedKeys, Runs, Waits
  <2>2. Rotates(r) => status'[call[r].key] = status[call[r].key]
    BY <1>2, <2>1 DEF CallOK, Revocable
  <2>3. \A k \in LockedKeys(r) : status'[k] = status[k]
    BY <1>2, <2>1
  <2> QED BY <1>3, <2>2, <2>3 DEF Kept
<1>8. NobodyIsLockedOut'
  <2> SUFFICES ASSUME NEW b \in Account, account'[b] = "here", b \notin shut' PROVE Active(b)' # {}
    BY DEF NobodyIsLockedOut
  <2>1. PICK k \in Active(b) : TRUE
    BY <1>3 DEF KInv, NobodyIsLockedOut
  <2>2. k \in Key /\ holder[k] = b /\ status[k] = "active"
    BY <2>1 DEF Active, Of
  <2>3. k \notin rows[q]
    BY <1>1, <1>3, <2>2
  <2>4. k \in Active(b)'
    BY <1>2, <1>3, <2>2, <2>3 DEF Active, Of
  <2> QED BY <2>4
<1>9. \A k \in before[q] : status'[k] \in Dead
  BY <1>t, <1>1, <1>2 DEF KeysTypeOK, Dead, Revocable
<1> QED BY <1>t, <1>3, <1>4, <1>5, <1>6, <1>7, <1>8, <1>9, LastStep

LEMMA CascadeIsOK ==
    ASSUME KInv, NEW q \in AdminCall, Cascade(q)
    PROVE  KInv' /\ Ages
<1> USE KeysAssumption
<1>t. KeysTypeOK /\ CallOK(q) /\ at[q] = "cascade" /\ Runs(q) /\ rows[q] \subseteq Key
  BY DEF KInv, KeysTypeOK, Cascade
<1>1. /\ Subject(q) \in Account /\ before[q] = {}
      /\ \A k \in Key : holder[k] = Subject(q) /\ status[k] # "gone" => k \in rows[q]
  BY <1>t DEF CallOK
<1>2. /\ \A k \in Key : status'[k] = IF holder[k] = Subject(q) THEN "gone" ELSE status[k]
      /\ status' \in [Key -> {"none", "active", "grace", "expired", "revoked", "gone"}]
  BY <1>t DEF Cascade, KeysTypeOK, Subject
<1>3. /\ account' = [account EXCEPT ![Subject(q)] = "gone"] /\ UNCHANGED <<holder, call, before, shut>>
      /\ MoveTo(q, "done") /\ rows' = [rows EXCEPT ![q] = {}]
  BY DEF Cascade, Subject
<1>4. KeysTypeOK'
  BY <1>t, <1>2, <1>3 DEF KeysTypeOK, MoveTo
<1>5. Ages
  BY <1>t, <1>2, <1>3 DEF Ages, Dead
<1>6. \A k \in Key : RowOK(k)'
  BY <1>t, <1>1, <1>2, <1>3 DEF KInv, RowOK
<1>7. ASSUME NEW r \in AdminCall \ {q} PROVE Kept(r)
  <2>1. CallOK(r) /\ LockedKeys(r) \subseteq Key /\ rows[q] \intersect LockedKeys(r) = {} /\ PairOK(q, r)
    BY <1>t DEF KInv, KeysTypeOK, LockedKeys, Runs, Waits
  <2>2. Rotates(r) => status'[call[r].key] = status[call[r].key]
    <3>1. Rotates(r) => call[r].key \in Key /\ holder[call[r].key] = None
      BY <2>1 DEF CallOK, KInv, RowOK
    <3> QED BY <1>1, <1>2, <3>1
  <2>3. \A k \in LockedKeys(r) : status'[k] = status[k]
    <3>1. \A k \in LockedKeys(r) : k \in Key /\ status[k] = "active"
      BY <2>1 DEF CallOK, LockedKeys
    <3> QED BY <1>1, <1>2, <2>1, <3>1
  <2>4. at[r] \in {"commit", "cascade"} => account'[Subject(r)] = account[Subject(r)]
    BY <1>t, <1>3, <2>1 DEF PairOK, KeysTypeOK
  <2> QED BY <1>3, <2>2, <2>3, <2>4 DEF Kept
<1>8. NobodyIsLockedOut'
  <2> SUFFICES ASSUME NEW b \in Account, account'[b] = "here", b \notin shut' PROVE Active(b)' # {}
    BY DEF NobodyIsLockedOut
  <2>1. b # Subject(q) /\ account[b] = "here"
    BY <1>t, <1>1, <1>3 DEF KeysTypeOK
  <2>2. PICK k \in Active(b) : TRUE
    BY <1>3, <2>1 DEF KInv, NobodyIsLockedOut
  <2>3. k \in Active(b)'
    BY <1>2, <1>3, <2>1, <2>2 DEF Active, Of
  <2> QED BY <2>3
<1> QED BY <1>t, <1>1, <1>3, <1>4, <1>5, <1>6, <1>7, <1>8, LastStep

LEMMA Steps == KInv /\ [KeysNext]_keyVars => KInv' /\ Ages
<1> SUFFICES ASSUME KInv, [KeysNext]_keyVars PROVE KInv' /\ Ages
  OBVIOUS
<1>1. CASE UNCHANGED keyVars
  <2>1. Ages
    BY <1>1 DEF keyVars, rowsOfKeys, Ages
  <2>2. KInv'
    BY <1>1 DEF keyVars, rowsOfKeys, calls, KInv, KeysTypeOK, RowOK, CallOK, PairOK, NobodyIsLockedOut,
               Active, Of, Rotates, Subject, LockedKeys
  <2> QED BY <2>1, <2>2
<1>2. ASSUME NEW q \in AdminCall, RetireKeys(q) \/ InsertKey(q) \/ Rollback(q) PROVE KInv' /\ Ages
  <2>1. UNCHANGED <<rowsOfKeys, shut>>
    BY <1>2 DEF RetireKeys, InsertKey, Rollback
  <2>2. Ages
    BY <2>1, RowsStay
  <2>3. KInv'
    BY <1>2, RetireKeysIsOK, InsertKeyIsOK, FailIsOK DEF Rollback
  <2> QED BY <2>2, <2>3
<1>3. ASSUME NEW q \in AdminCall, NEW a \in Account,
             RevokeKey(q, a) \/ DeleteAccount(q, a) \/ \E k \in Key, grace \in BOOLEAN : RotateKey(q, a, k, grace)
      PROVE  KInv' /\ Ages
  <2>1. UNCHANGED rowsOfKeys /\ shut \subseteq shut'
    BY <1>3 DEF RevokeKey, DeleteAccount, RotateKey, Begin
  <2>2. Ages
    BY <2>1, RowsStay
  <2>3. KInv'
    BY <1>3, RevokeKeyIsOK, DeleteAccountIsOK, RotateKeyIsOK
  <2> QED BY <2>2, <2>3
<1> QED BY <1>1, <1>2, <1>3, CreateAccountIsOK, ExpireIsOK, CommitRotationIsOK, RevokeKeysIsOK, CascadeIsOK
       DEF KeysNext

LEMMA KeysInvariant == KeysSpec => []KInv
<1>1. KInv /\ [KeysNext]_keyVars => KInv'
  BY Steps
<1> QED BY <1>1, Starts, PTL DEF KeysSpec

\* Every variable keeps its type.
THEOREM TypeCorrect == KeysSpec => []KeysTypeOK
<1>1. KInv => KeysTypeOK
  BY DEF KInv
<1> QED BY <1>1, KeysInvariant, PTL

\* No rotation, revocation or rollback brings back a key that has expired, was
\* revoked or is deleted, however many overlap.
THEOREM NoRevival == KeysSpec => RetiredForGood
<1>1. KInv /\ [KeysNext]_keyVars
        => [\A k \in Key : status[k] \in {"expired", "revoked", "gone"} => ~Usable(k)']_keyVars
  BY Steps DEF Ages, Dead, Usable
<1> QED BY <1>1, KeysInvariant, PTL DEF KeysSpec, RetiredForGood

\* Whatever was valid when a RevokeKey began is not once it has returned.
THEOREM Revoked == KeysSpec => []RevocationHolds
<1>1. KInv => RevocationHolds
  BY DEF KInv, CallOK, RevocationHolds, Usable, Dead
<1> QED BY <1>1, KeysInvariant, PTL

\* An account keeps an active key through failed and overlapping rotations.
THEOREM NotLockedOut == KeysSpec => []NobodyIsLockedOut
<1>1. KInv => NobodyIsLockedOut
  BY DEF KInv
<1> QED BY <1>1, KeysInvariant, PTL
=============================================================================
