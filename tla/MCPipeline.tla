----------------------------- MODULE MCPipeline -----------------------------
(* Small instances of Pipeline for TLC. *)
EXTENDS Pipeline

CONSTANTS d1, d2, r1, r2, w1, w2

OneRequest  == [r \in {r1} |-> d1]
OtherDoc    == [r \in {r1} |-> d2]
FirstOfR1   == {<<r1, 1>>}

AnyRow      == Doc \union Chunk
\* One chunk of the text of d1, one of the request.
DocsAndTwo  == Doc \union {<<d1, 2>>, <<r1, 1>>}

Anything == Body \union {"u.create", "u.save", "u.job", "i.create", "i.store", "i.set", "i.job",
                         "d.vec", "d.chunk", "claim", "x.start", "e.ready", "fail", "record"}
StepsOfProcess == Body
Nothing == {}
=============================================================================
