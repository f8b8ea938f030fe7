----------------------------- MODULE Statements -----------------------------
(***************************************************************************)
(* SQL statements outside a transaction, as the stores of creel issue      *)
(* them: each takes effect or not, and its caller learns of it or not.     *)
(***************************************************************************)

\* How a statement can end, when `can` says whether the rows it needs exist,
\* `faulty` whether the database may fail it and `lossy` whether it may then have
\* taken effect: done, refused (a foreign key, no row to update), failed, or done
\* with its reply lost.
Ends(can, faulty, lossy) ==
    {o \in {"ok", "refused", "fault", "lost"} :
        \/ o = "ok" /\ can
        \/ o = "refused" /\ ~can
        \/ o = "fault" /\ faulty
        \/ o = "lost" /\ faulty /\ can /\ lossy}

Failed(o) == o \in {"fault", "lost"}

\* What the rows become, and where the caller goes next.
Written(o, new, old) == IF o \in {"ok", "lost"} THEN new ELSE old
After(o, next, err)  == IF o = "ok" THEN next ELSE err
=============================================================================
