------------------------------ MODULE MCAccess ------------------------------
(* Small instances of Access for TLC. *)
EXTENDS Access, TLC

CONSTANTS a, u, v, g, t1, t2, d1, d2, c1, c2

\* Bound: calls of AdminService or requests, not both.
Apart == (\A q \in AdminCall : at[q] = "idle") \/ (\A r \in Request : step[r] = "idle")

\* Keys and requests are interchangeable.
Symmetric == Permutations(Key) \union Permutations(Request)

NoKey   == [b \in Account |-> None]
Groups  == (u :> {g}) @@ (v :> {})
\* The account owns t1; u administers t2, which v owns, through the group.
Owners  == (t1 :> a) @@ (t2 :> v)
Initially == [t \in Topic |-> [i \in Identity |-> IF t = t2 /\ i = g THEN "admin" ELSE "none"]]
Topics  == (d1 :> t1) @@ (d2 :> t2)
Docs    == (c1 :> d1) @@ (c2 :> d2)
C2First(c, d) == c = c2 /\ d = c1

Asks == {[NoAsk EXCEPT !.kind = "search"],
         [NoAsk EXCEPT !.kind = "search", !.topics = {t2}],
         [NoAsk EXCEPT !.kind = "context", !.doc = d2],
         [NoAsk EXCEPT !.kind = "grant", !.topics = {t2}, !.to = a, !.permission = "read"],
         [NoAsk EXCEPT !.kind = "revoke", !.topics = {t2}, !.to = a],
         [NoAsk EXCEPT !.kind = "delete", !.topics = {t2}],
         [NoAsk EXCEPT !.kind = "remove", !.doc = d2]}
=============================================================================
