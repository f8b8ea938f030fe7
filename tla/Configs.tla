------------------------------ MODULE Configs ------------------------------
(***************************************************************************)
(* The processing configurations (API keys, LLMs, embeddings, extraction   *)
(* prompts, vector backends) and the topics bound to them.                 *)
(*                                                                         *)
(* The five stores share one shape.  Create with is_default and SetDefault *)
(* are transactions of two statements at READ COMMITTED: clear the flag    *)
(* where it is set, then set it on one row; a unique partial index admits  *)
(* one flagged row per table.  A row that a transaction has changed is     *)
(* locked until it ends, and so is an entry of the index.  The other calls *)
(* are one statement.  UpdateTopic checks a row it has read before, and    *)
(* writes without a transaction.                                           *)
(***************************************************************************)
EXTENDS Naturals

CONSTANTS
    ApiKey, LLM, Emb, Prompt, Backend,  \* ids of the five kinds of configurations
    Model,      \* a provider and a model of it
    Topic,
    Asked,      \* bound: the bindings that requests for topics ask for
    MaxCalls,   \* bound: calls that are made
    Initial,    \* the configurations that exist at the start
    Bound,      \* what the topics that exist at the start are bound to
    KeyOf,      \* the API key an LLM or embedding configuration starts with
    ModelOf,    \* the model it is created with
    None, Gone

Keyed  == LLM \union Emb
Kinds  == {ApiKey, LLM, Emb, Prompt, Backend}
Config == UNION Kinds

\* A call is of ConfigService, by a system account, or of TopicService, by an
\* admin of the topic; they are numbered in the order in which they start.
Call   == 1..MaxCalls

\* The columns of a topic that refer to a configuration.
Field     == {"llm", "emb", "prompt", "backend"}
FieldKind == [llm |-> LLM, emb |-> Emb, prompt |-> Prompt, backend |-> Backend]
Binding   == {b \in [Field -> Config \union {None}] :
                  \A f \in Field : b[f] \in FieldKind[f] \union {None}}

\* A prompt needs an LLM to run it.
Consistent(prompt, llm) == prompt # None => llm # None

ASSUME ConfigsAssumption ==
    /\ ApiKey \intersect (LLM \union Emb \union Prompt \union Backend) = {}
    /\ LLM \intersect (Emb \union Prompt \union Backend) = {}
    /\ Emb \intersect (Prompt \union Backend) = {} /\ Prompt \intersect Backend = {}
    /\ MaxCalls \in Nat
    /\ Asked \subseteq Binding
    /\ Initial \subseteq Config
    /\ KeyOf \in [Keyed -> ApiKey]
    /\ \A c \in Initial \intersect Keyed : KeyOf[c] \in Initial
    /\ ModelOf \in [Keyed -> Model]
    /\ Bound \in [Topic -> Binding \union {None}]
    /\ \A t \in Topic : Bound[t] # None =>
          /\ Consistent(Bound[t]["prompt"], Bound[t]["llm"])
          /\ \A f \in Field : Bound[t][f] \in Initial \union {None}
    /\ None \notin Config \union Model \union Binding \union {Gone} /\ Gone \notin Binding

VARIABLES
    row,      \* a configuration: "none" before INSERT, "here", "gone"
    dflt,     \* the rows with is_default
    key,      \* api_key_config_id
    model,    \* provider and model
    bind,     \* a topic's configurations: None before INSERT, Gone after DELETE
    pc,       \* where a call is
    op,       \* what a transaction is about
    old,      \* the flagged rows it found, then those it has cleared
    req,      \* what an UpdateTopic asks for and has read
    unbound,  \* history: topics that were without an embedding configuration
    unled     \* history: topics that lost their LLM configuration to a deletion

tables == <<row, dflt, key, model>>
topics == <<bind, unbound, unled>>
tx     == <<op, old>>
vars   == <<tables, topics, tx, pc, req>>

NoOp  == [cfg |-> None, new |-> FALSE, key |-> None]
NoReq == [topic |-> None, ask |-> None, emb |-> None, model |-> None]

TypeOK ==
    /\ row \in [Config -> {"none", "here", "gone"}]
    /\ dflt \subseteq Config
    /\ key \in [Keyed -> ApiKey]
    /\ model \in [Keyed -> Model]
    /\ bind \in [Topic -> Binding \union {None, Gone}]
    /\ pc \in [Call -> {"idle", "clear", "mark", "index", "commit",
                        "old", "new", "write", "done"}]
    /\ op \in [Call -> [cfg : Config \union {None}, new : BOOLEAN, key : ApiKey \union {None}]]
    /\ old \in [Call -> SUBSET Config]
    /\ req \in [Call -> [topic : Topic \union {None}, ask : Binding \union {None},
                         emb : Emb \union {None}, model : Model \union {None}]]
    /\ unbound \subseteq Topic /\ unled \subseteq Topic

Init ==
    /\ row = [c \in Config |-> IF c \in Initial THEN "here" ELSE "none"]
    /\ dflt = {}
    /\ key = KeyOf /\ model = ModelOf
    /\ bind = Bound
    /\ pc = [q \in Call |-> "idle"]
    /\ op = [q \in Call |-> NoOp] /\ old = [q \in Call |-> {}]
    /\ req = [q \in Call |-> NoReq]
    /\ unbound = {t \in Topic : Bound[t] # None /\ Bound[t]["emb"] = None}
    /\ unled = {}
-----------------------------------------------------------------------------
(* Transactions that move a default flag.                                  *)

SameKind(c, d) == \E K \in Kinds : c \in K /\ d \in K
Here(c) == row[c] = "here"

Cleared(q) == IF pc[q] \in {"mark", "index", "commit"} THEN old[q] ELSE {}
Locked(q)  == Cleared(q) \union
              (IF pc[q] \in {"index", "commit"} THEN {op[q].cfg} ELSE {})

\* A statement of q that changes row c has to wait for r.
RowWait(q, c, r) == r # q /\ c \in Locked(r)

\* So has the insertion of a flagged row into the index, when r has inserted
\* or removed one that is not committed yet.
IndexWait(q, r) ==
    /\ r # q /\ SameKind(op[q].cfg, op[r].cfg)
    /\ pc[r] = "commit" \/ Cleared(r) # {}

Waits(q, r) ==
    \/ pc[q] = "clear" /\ \E c \in old[q] : RowWait(q, c, r)
    \/ pc[q] = "mark" /\ RowWait(q, op[q].cfg, r)
    \/ pc[q] = "index" /\ IndexWait(q, r)

Runs(q) == \A r \in Call : ~Waits(q, r)

\* The next call; the handler first authenticates it and checks its arguments.
Starts(q) == pc[q] = "idle" /\ \A r \in 1..(q - 1) : pc[r] # "idle"

Goto(q, l) == pc' = [pc EXCEPT ![q] = l]
End(q) ==
    /\ Goto(q, "done")
    /\ op' = [op EXCEPT ![q] = NoOp] /\ old' = [old EXCEPT ![q] = {}]

\* BEGIN, and the rows that the clearing UPDATE finds flagged when it starts.
Begin(q, o) ==
    /\ Starts(q)
    /\ op' = [op EXCEPT ![q] = o]
    /\ old' = [old EXCEPT ![q] = {c \in dflt : SameKind(c, o.cfg)}]
    /\ Goto(q, "clear")
    /\ UNCHANGED <<tables, topics, req>>

SetDefault(q, c) == Begin(q, [cfg |-> c, new |-> FALSE, key |-> None])

CreateDefault(q, c, k) ==
    /\ row[c] = "none" /\ \A r \in Call : op[r].cfg # c
    /\ (c \in Keyed) = (k # None)
    /\ Begin(q, [cfg |-> c, new |-> TRUE, key |-> k])

\* Mutant: the two statements are not one transaction.
ClearDefault_Alone(q) ==
    /\ pc[q] = "clear" /\ Runs(q)
    /\ dflt' = dflt \ old[q]
    /\ old' = [old EXCEPT ![q] = {}]
    /\ Goto(q, IF op[q].new THEN "index" ELSE "mark")
    /\ UNCHANGED <<row, key, model, topics, op, req>>

\* The rows are locked; one that has lost its flag meanwhile is passed over.
ClearDefault(q) ==
    /\ pc[q] = "clear" /\ Runs(q)
    /\ old' = [old EXCEPT ![q] = @ \intersect dflt]
    /\ Goto(q, IF op[q].new THEN "index" ELSE "mark")
    /\ UNCHANGED <<tables, topics, op, req>>

\* Mutant: the transaction stays open when the row is not there.
Mark_LeftOpen(q) ==
    /\ pc[q] = "mark" /\ Runs(q)
    /\ Here(op[q].cfg)
    /\ Goto(q, "index")
    /\ UNCHANGED <<tables, topics, tx, req>>

\* The second UPDATE of SetDefault locks the row, if it is there.
Mark(q) ==
    /\ pc[q] = "mark" /\ Runs(q)
    /\ IF Here(op[q].cfg)
       THEN Goto(q, "index") /\ UNCHANGED tx
       ELSE End(q)
    /\ UNCHANGED <<tables, topics, req>>

\* Mutant: the index on is_default is not unique.
FlagFree_NoIndex(q) == TRUE

\* The unique index admits the row when no other of its kind is flagged.
FlagFree(q) ==
    \A c \in dflt : SameKind(c, op[q].cfg) => c \in old[q] \union {op[q].cfg}

\* The row enters the index; a new one then needs its API key.
Index(q) ==
    /\ pc[q] = "index" /\ Runs(q)
    /\ IF FlagFree(q) /\ (op[q].key # None => Here(op[q].key))
       THEN Goto(q, "commit") /\ UNCHANGED tx
       ELSE End(q)
    /\ UNCHANGED <<tables, topics, req>>

\* Mutant: the flag is set and never cleared.
Flagged_NotCleared(q) == dflt \union {op[q].cfg}
\* The rows it has cleared, and no other, lose the flag.
Flagged(q) == (dflt \ old[q]) \union {op[q].cfg}

Commit(q) ==
    /\ pc[q] = "commit"
    /\ dflt' = Flagged(q)
    /\ row' = [row EXCEPT ![op[q].cfg] = "here"]
    /\ key' = IF op[q].key = None THEN key ELSE [key EXCEPT ![op[q].cfg] = op[q].key]
    /\ End(q)
    /\ UNCHANGED <<model, topics, req>>

\* The connection or the process is lost: everything is rolled back.
Rollback(q) ==
    /\ pc[q] \in {"clear", "mark", "index", "commit"}
    /\ End(q)
    /\ UNCHANGED <<tables, topics, req>>

\* PostgreSQL ends one of two transactions that wait for each other.  (One that
\* has cleared a row is part of every cycle: there is one flagged row to clear.)
DeadlockVictim(q) ==
    /\ \E r \in Call : Waits(q, r) /\ Waits(r, q)
    /\ End(q)
    /\ UNCHANGED <<tables, topics, req>>
-----------------------------------------------------------------------------
(* Calls of one statement.                                                 *)

Once(q) == Starts(q) /\ Goto(q, "done") /\ UNCHANGED <<tx, req>>
Unlocked(c) == \A r \in Call : c \notin Locked(r)

Create(q, c, k) ==
    /\ Once(q)
    /\ row[c] = "none" /\ \A r \in Call : op[r].cfg # c
    /\ (c \in Keyed) = (k # None)
    /\ k # None => Here(k)
    /\ row' = [row EXCEPT ![c] = "here"]
    /\ key' = IF k = None THEN key ELSE [key EXCEPT ![c] = k]
    /\ UNCHANGED <<dflt, model, topics>>

\* Mutant: an embedding configuration can be given another model.
Remodel_Any(c, m) == c \in Keyed
Remodel(c, m) == c \in LLM

\* An LLM configuration can change its model, an embedding configuration cannot;
\* empty fields keep what is there (COALESCE).
Update(q, c, k, m) ==
    /\ Once(q)
    /\ Here(c) /\ Unlocked(c)
    /\ k # None => Here(k)
    /\ key' = IF k = None THEN key ELSE [key EXCEPT ![c] = k]
    /\ model' = IF Remodel(c, m) THEN [model EXCEPT ![c] = m] ELSE model
    /\ UNCHANGED <<row, dflt, topics>>

\* The foreign keys of the LLM and embedding configurations, which an INSERT that
\* is not committed yet holds on to as well.
Referenced(c) == \E d \in Keyed : Here(d) /\ key[d] = c
Held(c) == \E r \in Call : pc[r] = "commit" /\ op[r].key = c

\* Mutant: ON DELETE of the foreign key is not RESTRICT.
Deletable_Always(c) == Here(c)
Deletable(c) == Here(c) /\ ~Referenced(c)

Without(c) ==
    [t \in Topic |-> IF bind[t] \in {None, Gone} THEN bind[t]
                     ELSE [f \in Field |-> IF bind[t][f] = c THEN None ELSE bind[t][f]]]
BoundTo(c, f) == {t \in Topic : bind[t] \notin {None, Gone} /\ bind[t][f] = c}

\* The topics bound to it are not any more (ON DELETE SET NULL).
Delete(q, c) ==
    /\ Once(q)
    /\ Unlocked(c) /\ ~Held(c)
    /\ Deletable(c)
    /\ row' = [row EXCEPT ![c] = "gone"]
    /\ dflt' = dflt \ {c}
    /\ bind' = Without(c)
    /\ unbound' = unbound \union BoundTo(c, "emb")
    /\ unled' = unled \union BoundTo(c, "llm")
    /\ UNCHANGED <<key, model>>
-----------------------------------------------------------------------------
(* Topics.                                                                 *)

Known(b) == \A f \in Field : b[f] # None => Here(b[f])

CreateTopic(q, t, b) ==
    /\ Once(q)
    /\ bind[t] = None
    /\ Consistent(b["prompt"], b["llm"])
    /\ Known(b)
    /\ bind' = [bind EXCEPT ![t] = b]
    /\ unbound' = IF b["emb"] = None THEN unbound \union {t} ELSE unbound
    /\ UNCHANGED <<tables, unled>>

\* What the request leaves empty stays.
Coalesce(b, existing) == [f \in Field |-> IF b[f] # None THEN b[f] ELSE existing[f]]

EmbeddingChanges(b, existing) ==
    b["emb"] # None /\ existing["emb"] # None /\ b["emb"] # existing["emb"]

\* Mutant: UpdateTopic does not check what it leaves behind.
Effective_Unchecked(b, existing) == TRUE
Effective(b, existing) ==
    Consistent(Coalesce(b, existing)["prompt"], Coalesce(b, existing)["llm"])

\* Check, Get and the test of the prompt; a request that fails it is refused.
UpdateTopic(q, t, b) ==
    /\ Starts(q)
    /\ bind[t] \notin {None, Gone}
    /\ Effective(b, bind[t])
    /\ req' = [req EXCEPT ![q] = [topic |-> t, ask |-> b, emb |-> bind[t]["emb"], model |-> None]]
    /\ Goto(q, IF EmbeddingChanges(b, bind[t]) THEN "old" ELSE "write")
    /\ UNCHANGED <<tables, topics, tx>>

EndTopic(q) == Goto(q, "done") /\ req' = [req EXCEPT ![q] = NoReq] /\ UNCHANGED tx

\* The current embedding configuration, and then the new one.
GetOld(q) ==
    /\ pc[q] = "old"
    /\ IF Here(req[q].emb)
       THEN /\ req' = [req EXCEPT ![q].model = model[req[q].emb]]
            /\ Goto(q, "new") /\ UNCHANGED tx
       ELSE EndTopic(q)
    /\ UNCHANGED <<tables, topics>>

\* Mutant: the new configuration only has to exist.
SameModel_NotCompared(q) == TRUE
SameModel(q) == req[q].model = model[req[q].ask["emb"]]

GetNew(q) ==
    /\ pc[q] = "new"
    /\ IF Here(req[q].ask["emb"]) /\ SameModel(q)
       THEN Goto(q, "write") /\ UNCHANGED <<tx, req>>
       ELSE EndTopic(q)
    /\ UNCHANGED <<tables, topics>>

\* UPDATE topics, whatever has become of the row since.
Write(q) ==
    /\ pc[q] = "write"
    /\ LET t == req[q].topic
       IN bind' = IF bind[t] # Gone /\ Known(req[q].ask)
                  THEN [bind EXCEPT ![t] = Coalesce(req[q].ask, @)]
                  ELSE bind
    /\ EndTopic(q)
    /\ UNCHANGED <<tables, unbound, unled>>

DeleteTopic(q, t) ==
    /\ Once(q)
    /\ bind[t] \notin {None, Gone}
    /\ bind' = [bind EXCEPT ![t] = Gone]
    /\ UNCHANGED <<tables, unbound, unled>>
-----------------------------------------------------------------------------
Transaction(q) == ClearDefault(q) \/ Mark(q) \/ Index(q) \/ Commit(q) \/ DeadlockVictim(q)
Updating(q)    == GetOld(q) \/ GetNew(q) \/ Write(q)

\* ConfigService; what an Update of the other kinds changes is not modelled.
Moved(q, c)   == SetDefault(q, c) \/ Delete(q, c)
Made(q, c, k) == CreateDefault(q, c, k) \/ Create(q, c, k)

APIKeyCall(q)    == \E c \in ApiKey : Moved(q, c) \/ Made(q, c, None)
LLMCall(q)       == \E c \in LLM :
                       \/ Moved(q, c) \/ \E k \in ApiKey : Made(q, c, k)
                       \/ \E k \in ApiKey \union {None}, m \in Model : Update(q, c, k, m)
EmbeddingCall(q) == \E c \in Emb :
                       \/ Moved(q, c) \/ \E k \in ApiKey : Made(q, c, k)
                       \/ \E k \in ApiKey, m \in Model : Update(q, c, k, m)
PromptCall(q)    == \E c \in Prompt : Moved(q, c) \/ Made(q, c, None)
BackendCall(q)   == \E c \in Backend : Moved(q, c) \/ Made(q, c, None)

\* TopicService.
TopicCall(q) == \E t \in Topic :
    \/ DeleteTopic(q, t)
    \/ \E b \in Asked : CreateTopic(q, t, b) \/ UpdateTopic(q, t, b)

Next == \E q \in Call :
    \/ Transaction(q) \/ Rollback(q) \/ Updating(q)
    \/ APIKeyCall(q) \/ LLMCall(q) \/ EmbeddingCall(q) \/ PromptCall(q) \/ BackendCall(q)
    \/ TopicCall(q)

Spec == Init /\ [][Next]_vars

\* A handler that has started goes on, and the database detects deadlocks.
Fairness == \A q \in Call : WF_vars(Transaction(q) \/ Updating(q))

FairSpec == Spec /\ Fairness
-----------------------------------------------------------------------------
(* Properties.                                                             *)

\* API_REFERENCE.md:722: is_default is a singleton flag, also when several calls
\* set it at once: no two rows of a table have it.
OneDefault ==
    \A c, d \in dflt : SameKind(c, d) => c = d

\* Workers and searches fall back on the default of a kind: once there is one, only
\* deleting it takes it away, whatever transactions fail or are lost halfway.
DefaultIsKept ==
    [][\A c \in dflt : Here(c)' => \E d \in dflt' : SameKind(c, d)]_vars

\* A stored LLM or embedding configuration never refers to a deleted API key,
\* also when the key is deleted while a transaction inserts the configuration.
KeysExist ==
    \A c \in Keyed : Here(c) => Here(key[c])

\* topic.go:51, 162: a topic with an extraction prompt has an LLM to run it, also
\* when concurrent updates check rows they do not write; the exception is an LLM
\* configuration that was deleted under it.
PromptHasLLM ==
    \A t \in Topic :
        bind[t] \notin {None, Gone} /\ t \notin unled
            => Consistent(bind[t]["prompt"], bind[t]["llm"])

\* topic.go:178: all vectors of a topic are of one model.  Concurrent updates cannot
\* change it, as long as the topic has had an embedding configuration throughout.
ModelIsStable ==
    [][\A t \in Topic \ unbound' :
          bind[t] \notin {None, Gone} /\ bind'[t] # Gone
              => model[bind[t]["emb"]] = model'[bind'[t]["emb"]]]_vars

\* Every call that has started ends, also when transactions wait for each other.
EveryCallEnds == []<>(\A q \in Call : pc[q] \in {"idle", "done"})
=============================================================================
