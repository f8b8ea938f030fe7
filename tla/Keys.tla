-------------------------------- MODULE Keys --------------------------------
(***************************************************************************)
(* The API keys of system accounts (SystemAccountStore) and their          *)
(* validation.                                                             *)
(*                                                                         *)
(* RotateKey is a transaction at READ COMMITTED: an UPDATE that retires    *)
(* the active keys and an INSERT of a new one.  RevokeKey is one UPDATE,   *)
(* and the deletion of an account one DELETE that cascades to its keys.  A *)
(* statement works on the rows that match when it starts; a row that       *)
(* another transaction has locked it waits for, and then looks at again.   *)
(* It does not see rows that are inserted meanwhile.                       *)
(***************************************************************************)
EXTENDS Naturals

CONSTANTS
    Account,
    Key,        \* key hashes; GenerateAPIKey never returns one twice
    AdminCall,  \* bound: calls of AdminService
    First,      \* the key of an account that exists at the start, or None
    None

ASSUME KeysAssumption ==
    /\ None \notin Account \union Key
    /\ First \in [Account -> Key \union {None}]
    /\ \A a, b \in Account : First[a] = First[b] /\ First[a] # None => a = b

VARIABLES
    account,  \* "none" before INSERT, "here", "gone"
    status,   \* of a key row; "expired" is grace_period past its grace_expires_at
    holder,   \* account_id
    at,       \* where a call of AdminService is
    call,     \* what it is about
    rows,     \* the rows its statement works on
    before,   \* history: keys that were valid when a RevokeKey began
    shut      \* history: accounts whose keys somebody has revoked

rowsOfKeys == <<account, status, holder>>
calls      == <<at, call, rows>>
keyVars    == <<rowsOfKeys, calls, before, shut>>

About(kind, a) == [kind |-> kind, account |-> a, key |-> None, grace |-> FALSE]
NoCall == About(None, None)

KeysTypeOK ==
    /\ account \in [Account -> {"none", "here", "gone"}]
    /\ status \in [Key -> {"none", "active", "grace", "expired", "revoked", "gone"}]
    /\ holder \in [Key -> Account \union {None}]
    /\ at \in [AdminCall -> {"idle", "retire", "insert", "commit", "revoke", "cascade", "done", "failed"}]
    /\ call \in [AdminCall -> [kind : {None, "rotate", "revoke", "delete"}, account : Account \union {None},
                               key : Key \union {None}, grace : BOOLEAN]]
    /\ rows \in [AdminCall -> SUBSET Key]
    /\ before \in [AdminCall -> SUBSET Key]
    /\ shut \subseteq Account

KeysInit ==
    /\ account = [a \in Account |-> IF First[a] = None THEN "none" ELSE "here"]
    /\ status = [k \in Key |-> IF \E a \in Account : First[a] = k THEN "active" ELSE "none"]
    /\ holder = [k \in Key |-> IF \E a \in Account : First[a] = k
                               THEN CHOOSE a \in Account : First[a] = k ELSE None]
    /\ at = [q \in AdminCall |-> "idle"]
    /\ call = [q \in AdminCall |-> NoCall] /\ rows = [q \in AdminCall |-> {}]
    /\ before = [q \in AdminCall |-> {}] /\ shut = {}
-----------------------------------------------------------------------------
Of(a)     == {k \in Key : holder[k] = a}
Active(a) == {k \in Of(a) : status[k] = "active"}

\* LookupKeyHash: an active key, or one in its grace period.
Usable(k) == status[k] \in {"active", "grace"}

\* A rotation holds on to the rows it has retired, and to its account once it has
\* inserted a key; a deletion holds on to the account.
LockedKeys(q)    == IF at[q] \in {"insert", "commit"} THEN rows[q] ELSE {}
LockedAccount(q) == IF at[q] \in {"commit", "cascade"} THEN {call[q].account} ELSE {}

Waits(q, r) ==
    /\ q # r
    /\ \/ at[q] \in {"retire", "revoke", "cascade"} /\ rows[q] \intersect LockedKeys(r) # {}
       \/ at[q] = "insert" /\ at[r] = "cascade" /\ call[q].account = call[r].account
Runs(q) == \A r \in AdminCall : ~Waits(q, r)

MoveTo(q, l) == at' = [at EXCEPT ![q] = l]
Fail(q)    == MoveTo(q, "failed") /\ rows' = [rows EXCEPT ![q] = {}]
Fresh(k)   == status[k] = "none" /\ \A r \in AdminCall : call[r].key # k

\* Account and first key are inserted in one transaction.
CreateAccount(a, k) ==
    /\ account[a] = "none" /\ Fresh(k)
    /\ account' = [account EXCEPT ![a] = "here"]
    /\ status' = [status EXCEPT ![k] = "active"]
    /\ holder' = [holder EXCEPT ![k] = a]
    /\ UNCHANGED <<calls, before, shut>>

Begin(q, o, found, l) ==
    /\ at[q] = "idle"
    /\ call' = [call EXCEPT ![q] = o]
    /\ rows' = [rows EXCEPT ![q] = found]
    /\ MoveTo(q, l)
    /\ UNCHANGED rowsOfKeys

RotateKey(q, a, k, grace) ==
    /\ Fresh(k)
    /\ Begin(q, [kind |-> "rotate", account |-> a, key |-> k, grace |-> grace], Active(a), "retire")
    /\ UNCHANGED <<before, shut>>

\* Mutant: the keys are selected first and then updated by their ids.
StillActive_NotChecked(k) == TRUE
\* A key that is not active any more is passed over.
StillActive(k) == status[k] = "active"

\* Mutant: a status that the column does not have.
Retired_Unknown(q) == [k \in Key |-> IF k \in rows[q] THEN "rotated" ELSE status[k]]
Retired(q) == [k \in Key |-> IF k \in rows[q] THEN IF call[q].grace THEN "grace" ELSE "revoked"
                             ELSE status[k]]

\* Mutant: the two statements are not one transaction.
RetireKeys_Alone(q) ==
    /\ at[q] = "retire" /\ Runs(q)
    /\ status' = Retired(q)
    /\ rows' = [rows EXCEPT ![q] = {}]
    /\ MoveTo(q, "insert")
    /\ UNCHANGED <<account, holder, call, before, shut>>

RetireKeys(q) ==
    /\ at[q] = "retire" /\ Runs(q)
    /\ rows' = [rows EXCEPT ![q] = {k \in @ : StillActive(k)}]
    /\ MoveTo(q, "insert")
    /\ UNCHANGED <<rowsOfKeys, call, before, shut>>

\* The foreign key holds the account, unless it is gone.
InsertKey(q) ==
    /\ at[q] = "insert" /\ Runs(q)
    /\ IF account[call[q].account] = "here"
       THEN MoveTo(q, "commit") /\ UNCHANGED rows
       ELSE Fail(q)
    /\ UNCHANGED <<rowsOfKeys, call, before, shut>>

CommitRotation(q) ==
    /\ at[q] = "commit"
    /\ status' = [Retired(q) EXCEPT ![call[q].key] = "active"]
    /\ holder' = [holder EXCEPT ![call[q].key] = call[q].account]
    /\ MoveTo(q, "done") /\ rows' = [rows EXCEPT ![q] = {}]
    /\ UNCHANGED <<account, call, before, shut>>

\* Mutant: keys in their grace period are left alone.
Revocable_OnlyActive == {"active"}
Revocable == {"active", "grace", "expired"}

RevokeKey(q, a) ==
    /\ Begin(q, About("revoke", a), {k \in Of(a) : status[k] \in Revocable}, "revoke")
    /\ before' = [before EXCEPT ![q] = {k \in Of(a) : Usable(k)}]
    /\ shut' = shut \union {a}

RevokeKeys(q) ==
    /\ at[q] = "revoke" /\ Runs(q)
    /\ status' = [k \in Key |-> IF k \in rows[q] /\ status[k] \in Revocable THEN "revoked" ELSE status[k]]
    /\ MoveTo(q, "done") /\ rows' = [rows EXCEPT ![q] = {}]
    /\ UNCHANGED <<account, holder, call, before, shut>>

\* The row of the account is locked first, when no rotation holds on to it.
DeleteAccount(q, a) ==
    /\ account[a] = "here" /\ \A r \in AdminCall : a \notin LockedAccount(r)
    /\ Begin(q, About("delete", a), {k \in Of(a) : status[k] # "gone"}, "cascade")
    /\ UNCHANGED <<before, shut>>

Cascade(q) ==
    /\ at[q] = "cascade" /\ Runs(q)
    /\ account' = [account EXCEPT ![call[q].account] = "gone"]
    /\ status' = [k \in Key |-> IF holder[k] = call[q].account THEN "gone" ELSE status[k]]
    /\ MoveTo(q, "done") /\ rows' = [rows EXCEPT ![q] = {}]
    /\ UNCHANGED <<holder, call, before, shut>>

\* A lost connection, or one of two that wait for each other: rolled back.
Rollback(q) ==
    /\ at[q] \notin {"idle", "done", "failed"}
    /\ Fail(q)
    /\ UNCHANGED <<rowsOfKeys, call, before, shut>>

\* Time passes.
Expire(k) ==
    /\ status[k] = "grace"
    /\ status' = [status EXCEPT ![k] = "expired"]
    /\ UNCHANGED <<account, holder, calls, before, shut>>

KeysNext ==
    \/ \E a \in Account, k \in Key : CreateAccount(a, k)
    \/ \E k \in Key : Expire(k)
    \/ \E q \in AdminCall :
          \/ RetireKeys(q) \/ InsertKey(q) \/ CommitRotation(q)
          \/ RevokeKeys(q) \/ Cascade(q) \/ Rollback(q)
          \/ \E a \in Account :
                \/ RevokeKey(q, a) \/ DeleteAccount(q, a)
                \/ \E k \in Key, grace \in BOOLEAN : RotateKey(q, a, k, grace)

KeysSpec == KeysInit /\ [][KeysNext]_keyVars
-----------------------------------------------------------------------------
(* Properties.                                                             *)

\* A key that has expired, was revoked or whose account is gone is never accepted
\* again, whichever rotations and revocations are under way.
RetiredForGood ==
    [][\A k \in Key : status[k] \in {"expired", "revoked", "gone"} => ~Usable(k)']_keyVars

\* system_account.go:164: what was valid when a RevokeKey began is not once it has
\* returned, also when it overlaps with rotations; a key that a rotation inserts
\* meanwhile is another matter.
RevocationHolds ==
    \A q \in AdminCall : at[q] = "done" => \A k \in before[q] : ~Usable(k)

\* A rotation that fails or is lost halfway locks nobody out: an account has an
\* active key until its keys are revoked.
NobodyIsLockedOut ==
    \A a \in Account : account[a] = "here" /\ a \notin shut => Active(a) # {}
=============================================================================
