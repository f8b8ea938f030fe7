------------------------------ MODULE MCConfigs ------------------------------
(* Small instances of Configs for TLC. *)
EXTENDS Configs, TLC

CONSTANTS k1, k2, l1, e1, e2, e3, p1, b1, m1, m2, t1, t2

\* One field at a time, or a prompt with its LLM.
Few == {b \in Binding : \A f, g \in Field \ {"llm"} : b[f] # None /\ b[g] # None => f = g}
Keys   == [c \in Keyed |-> k1]
Models == [c \in Keyed |-> IF c = e3 THEN m2 ELSE m1]
OneTopic ==
    (t2 :> None) @@ (t1 :> [llm |-> l1, emb |-> e1, prompt |-> None, backend |-> None])
=============================================================================
