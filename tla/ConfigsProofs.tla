--------------------------- MODULE ConfigsProofs ---------------------------
(***************************************************************************)
(* One default per kind, API keys that exist, and topics that keep their   *)
(* prompt and their model consistent, for any number of calls that overlap *)
(* in any order.                                                           *)
(***************************************************************************)
EXTENDS Configs, TLAPS

InTx(q)     == pc[q] \in {"clear", "mark", "index", "commit"}
Updates(q)  == pc[q] \in {"old", "new", "write"}
Live(t)     == bind[t] \notin {None, Gone}

TableTypes ==
    /\ row \in [Config -> {"none", "here", "gone"}]
    /\ dflt \subseteq Config
    /\ key \in [Keyed -> ApiKey]
    /\ model \in [Keyed -> Model]

TxTypes ==
    /\ pc \in [Call -> {"idle", "clear", "mark", "index", "commit", "old", "new", "write", "done"}]
    /\ op \in [Call -> [cfg : Config \union {None}, new : BOOLEAN, key : ApiKey \union {None}]]
    /\ old \in [Call -> SUBSET Config]

TopicTypes ==
    /\ bind \in [Topic -> Binding \union {None, Gone}]
    /\ req \in [Call -> [topic : Topic \union {None}, ask : Binding \union {None},
                         emb : Emb \union {None}, model : Model \union {None}]]
    /\ unbound \subseteq Topic /\ unled \subseteq Topic

\* A transaction on its way, and what it has seen when it commits.
TxOK(q) ==
    InTx(q) =>
        /\ op[q].cfg \in Config
        /\ \A c \in old[q] : SameKind(c, op[q].cfg)
        /\ op[q].new => row[op[q].cfg] = "none" /\ (op[q].cfg \in Keyed <=> op[q].key # None)
        /\ ~op[q].new => op[q].key = None /\ (pc[q] \in {"index", "commit"} => Here(op[q].cfg))
        /\ pc[q] = "commit" => /\ op[q].key # None => Here(op[q].key)
                               /\ FlagFree(q)

\* Two do not create one row, and do not both have a flagged row of one kind in
\* the index.
PairOK(q, r) ==
    q # r /\ InTx(q) /\ InTx(r) =>
        /\ op[q].new /\ op[r].new => op[q].cfg # op[r].cfg
        /\ pc[q] = "commit" /\ pc[r] = "commit" => ~SameKind(op[q].cfg, op[r].cfg)

TxInv ==
    /\ TableTypes /\ TxTypes
    /\ \A q \in Call : TxOK(q)
    /\ \A q, r \in Call : PairOK(q, r)
    /\ OneDefault /\ KeysExist
-----------------------------------------------------------------------------
LEMMA KindsAreKinds ==
    /\ \A c \in Config : SameKind(c, c)
    /\ \A c, d : SameKind(c, d) => SameKind(d, c)
    /\ \A c, d, e : SameKind(c, d) /\ SameKind(d, e) => SameKind(c, e)
    /\ \A c, d : SameKind(c, d) => c \in Config /\ d \in Config
    /\ Keyed \subseteq Config /\ ApiKey \subseteq Config /\ Keyed \intersect ApiKey = {}
    /\ Emb \intersect LLM = {} /\ None \notin Config
BY ConfigsAssumption DEF SameKind, Kinds, Config, Keyed

\* A transaction of r while something else goes on.
LEMMA TxStays ==
    ASSUME NEW r \in Call, TxOK(r), pc'[r] = pc[r], op'[r] = op[r], old'[r] = old[r],
           op[r].new /\ InTx(r) => row'[op[r].cfg] = row[op[r].cfg],
           ~op[r].new /\ pc[r] \in {"index", "commit"} => row'[op[r].cfg] = row[op[r].cfg],
           pc[r] = "commit" /\ op[r].key # None => row'[op[r].key] = row[op[r].key],
           pc[r] = "commit" => \A c \in dflt' \ dflt : ~SameKind(c, op[r].cfg)
    PROVE  TxOK(r)'
<1> SUFFICES ASSUME InTx(r) PROVE TxOK(r)'
  BY DEF TxOK, InTx
<1>1. pc[r] = "commit" => FlagFree(r)'
  BY DEF TxOK, FlagFree
<1> QED BY <1>1 DEF TxOK, InTx, Here

LEMMA PairStays ==
    ASSUME NEW q \in Call, NEW r \in Call, PairOK(q, r),
           pc'[q] = pc[q], op'[q] = op[q], pc'[r] = pc[r], op'[r] = op[r]
    PROVE  PairOK(q, r)'
BY DEF PairOK, InTx

\* A step of q that leaves the tables alone.
LEMMA QuietTx ==
    ASSUME TxInv, UNCHANGED tables, NEW q \in Call, TxTypes', TxOK(q)',
           \A r \in Call \ {q} : pc'[r] = pc[r] /\ op'[r] = op[r] /\ old'[r] = old[r],
           \A r \in Call \ {q} : PairOK(q, r)' /\ PairOK(r, q)'
    PROVE  TxInv'
<1>1. TableTypes' /\ OneDefault' /\ KeysExist'
  BY DEF TxInv, tables, TableTypes, OneDefault, KeysExist, Here
<1>2. ASSUME NEW r \in Call \ {q} PROVE TxOK(r)'
  BY TxStays DEF TxInv, tables
<1>3. ASSUME NEW r \in Call \ {q}, NEW s \in Call \ {q} PROVE PairOK(r, s)'
  BY PairStays DEF TxInv
<1>4. PairOK(q, q)'
  BY DEF PairOK
<1> QED BY <1>1, <1>2, <1>3, <1>4 DEF TxInv

\* A step that is not of a transaction and leaves the tables alone.
LEMMA OtherStep ==
    ASSUME TxInv, UNCHANGED <<tables, op, old>>, NEW q \in Call,
           NEW l \in {"idle", "old", "new", "write", "done"}, pc' = [pc EXCEPT ![q] = l]
    PROVE  TxInv'
<1>1. TxTypes'
  BY DEF TxInv, TxTypes
<1>2. pc'[q] = l /\ \A r \in Call \ {q} : pc'[r] = pc[r]
  BY DEF TxInv, TxTypes
<1>3. TxOK(q)'
  BY <1>2 DEF TxOK, InTx
<1>4. \A r \in Call \ {q} : PairOK(q, r)' /\ PairOK(r, q)'
  BY <1>2 DEF PairOK, InTx
<1> QED BY <1>1, <1>2, <1>3, <1>4, QuietTx

LEMMA EndIsOK ==
    ASSUME TxInv, NEW q \in Call, End(q), UNCHANGED tables
    PROVE  TxInv'
<1>1. /\ pc' = [pc EXCEPT ![q] = "done"] /\ op' = [op EXCEPT ![q] = NoOp] /\ old' = [old EXCEPT ![q] = {}]
  BY DEF End, Goto
<1>2. TxTypes'
  BY <1>1 DEF TxInv, TxTypes, NoOp
<1>3. pc'[q] = "done" /\ \A r \in Call \ {q} : pc'[r] = pc[r] /\ op'[r] = op[r] /\ old'[r] = old[r]
  BY <1>1 DEF TxInv, TxTypes
<1>4. TxOK(q)' /\ \A r \in Call \ {q} : PairOK(q, r)' /\ PairOK(r, q)'
  BY <1>3 DEF TxOK, PairOK, InTx
<1> QED BY <1>2, <1>3, <1>4, QuietTx

LEMMA BeginIsOK ==
    ASSUME TxInv, NEW q \in Call, NEW o, Begin(q, o), o \in [cfg : Config, new : BOOLEAN, key : ApiKey \union {None}],
           o.new => /\ row[o.cfg] = "none" /\ \A r \in Call : op[r].cfg # o.cfg
                    /\ (o.cfg \in Keyed <=> o.key # None),
           ~o.new => o.key = None
    PROVE  TxInv'
<1>1. /\ pc' = [pc EXCEPT ![q] = "clear"] /\ op' = [op EXCEPT ![q] = o]
      /\ old' = [old EXCEPT ![q] = {c \in dflt : SameKind(c, o.cfg)}] /\ UNCHANGED tables
  BY DEF Begin, Goto
<1>2. {c \in dflt : SameKind(c, o.cfg)} \in SUBSET Config
  BY DEF TxInv, TableTypes
<1>3. TxTypes'
  BY <1>1, <1>2 DEF TxInv, TxTypes
<1>4. /\ pc'[q] = "clear" /\ op'[q] = o /\ old'[q] = {c \in dflt : SameKind(c, o.cfg)}
      /\ \A r \in Call \ {q} : pc'[r] = pc[r] /\ op'[r] = op[r] /\ old'[r] = old[r]
  BY <1>1 DEF TxInv, TxTypes
<1>5. TxOK(q)'
  BY <1>1, <1>4 DEF TxOK, InTx, tables
<1>6. \A r \in Call \ {q} : PairOK(q, r)' /\ PairOK(r, q)'
  BY <1>4 DEF PairOK, InTx
<1> QED BY <1>1, <1>3, <1>4, <1>5, <1>6, QuietTx

LEMMA ClearIsOK ==
    ASSUME TxInv, NEW q \in Call, ClearDefault(q)
    PROVE  TxInv'
<1>t. TxTypes /\ TxOK(q) /\ pc[q] = "clear" /\ UNCHANGED <<tables, op>>
  BY DEF TxInv, ClearDefault
<1>1. PICK l \in {"mark", "index"} :
        /\ pc' = [pc EXCEPT ![q] = l] /\ old' = [old EXCEPT ![q] = old[q] \intersect dflt]
        /\ l = "index" => op[q].new
  BY DEF ClearDefault, Goto
<1>2. old[q] \intersect dflt \in SUBSET Config
  BY <1>t DEF TxTypes
<1>3. TxTypes'
  BY <1>t, <1>1, <1>2 DEF TxTypes
<1>4. /\ pc'[q] = l /\ old'[q] = old[q] \intersect dflt /\ op'[q] = op[q]
      /\ \A r \in Call \ {q} : pc'[r] = pc[r] /\ op'[r] = op[r] /\ old'[r] = old[r]
  BY <1>t, <1>1 DEF TxTypes
<1>5. TxOK(q)'
  BY <1>t, <1>1, <1>4 DEF TxOK, InTx, tables
<1>6. ASSUME NEW r \in Call \ {q} PROVE PairOK(q, r)' /\ PairOK(r, q)'
  <2>1. PairOK(q, r) /\ PairOK(r, q)
    BY DEF TxInv
  <2> QED BY <1>t, <1>1, <1>4, <2>1 DEF PairOK, InTx
<1> QED BY <1>t, <1>3, <1>4, <1>5, <1>6, QuietTx

LEMMA MarkIsOK ==
    ASSUME TxInv, NEW q \in Call, Mark(q)
    PROVE  TxInv'
<1>t. TxTypes /\ TxOK(q) /\ pc[q] = "mark" /\ UNCHANGED tables
  BY DEF TxInv, Mark
<1>1. CASE ~Here(op[q].cfg)
  BY <1>t, <1>1, EndIsOK DEF Mark
<1>2. CASE Here(op[q].cfg)
  <2>1. pc' = [pc EXCEPT ![q] = "index"] /\ UNCHANGED <<op, old>>
    BY <1>2 DEF Mark, Goto, tx
  <2>2. TxTypes'
    BY <1>t, <2>1 DEF TxTypes
  <2>3. pc'[q] = "index" /\ \A r \in Call \ {q} : pc'[r] = pc[r]
    BY <1>t, <2>1 DEF TxTypes
  <2>4. TxOK(q)'
    BY <1>t, <1>2, <2>1, <2>3 DEF TxOK, InTx, Here, tables
  <2>5. ASSUME NEW r \in Call \ {q} PROVE PairOK(q, r)' /\ PairOK(r, q)'
    <3>1. PairOK(q, r) /\ PairOK(r, q)
      BY DEF TxInv
    <3> QED BY <1>t, <2>1, <2>3, <3>1 DEF PairOK, InTx
  <2> QED BY <1>t, <2>1, <2>2, <2>3, <2>4, <2>5, QuietTx
<1> QED BY <1>1, <1>2

LEMMA IndexIsOK ==
    ASSUME TxInv, NEW q \in Call, Index(q)
    PROVE  TxInv'
<1>t. TxTypes /\ TxOK(q) /\ pc[q] = "index" /\ UNCHANGED tables /\ Runs(q)
  BY DEF TxInv, Index
<1> DEFINE admitted == FlagFree(q) /\ (op[q].key # None => Here(op[q].key))
<1>1. CASE ~admitted
  BY <1>t, <1>1, EndIsOK DEF Index
<1>2. CASE admitted
  <2>1. pc' = [pc EXCEPT ![q] = "commit"] /\ UNCHANGED <<op, old>>
    BY <1>2 DEF Index, Goto, tx
  <2>2. TxTypes'
    BY <1>t, <2>1 DEF TxTypes
  <2>3. pc'[q] = "commit" /\ \A r \in Call \ {q} : pc'[r] = pc[r]
    BY <1>t, <2>1 DEF TxTypes
  <2>4. TxOK(q)'
    <3>1. FlagFree(q)'
      BY <1>t, <1>2, <2>1 DEF FlagFree, tables
    <3> QED BY <1>t, <1>2, <2>1, <2>3, <3>1 DEF TxOK, InTx, Here, tables
  <2>5. ASSUME NEW r \in Call \ {q} PROVE PairOK(q, r)' /\ PairOK(r, q)'
    <3>1. PairOK(q, r) /\ PairOK(r, q)
      BY DEF TxInv
    <3>2. pc[r] = "commit" => ~SameKind(op[q].cfg, op[r].cfg)
      BY <1>t DEF Runs, Waits, IndexWait
    <3> QED BY <1>t, <2>1, <2>3, <3>1, <3>2, KindsAreKinds DEF PairOK, InTx
  <2> QED BY <1>t, <2>1, <2>2, <2>3, <2>4, <2>5, QuietTx
<1> QED BY <1>1, <1>2

LEMMA CommitIsOK ==
    ASSUME TxInv, NEW q \in Call, Commit(q)
    PROVE  TxInv'
<1> DEFINE x == op[q].cfg
           k == op[q].key
<1>t. TableTypes /\ TxTypes /\ TxOK(q) /\ pc[q] = "commit" /\ OneDefault /\ KeysExist
  BY DEF TxInv, Commit
<1>k. x \in Config /\ k \in ApiKey \union {None} /\ InTx(q) /\ old[q] \subseteq Config
  BY <1>t DEF TxOK, InTx, TxTypes
<1>1. /\ dflt' = (dflt \ old[q]) \union {x} /\ row' = [row EXCEPT ![x] = "here"]
      /\ key' = (IF k = None THEN key ELSE [key EXCEPT ![x] = k])
      /\ pc' = [pc EXCEPT ![q] = "done"] /\ op' = [op EXCEPT ![q] = NoOp] /\ old' = [old EXCEPT ![q] = {}]
      /\ model' = model
  BY DEF Commit, Flagged, End, Goto
<1>2. TxTypes'
  BY <1>t, <1>1 DEF TxTypes, NoOp
<1>3. TableTypes'
  BY <1>t, <1>k, <1>1 DEF TableTypes
<1>4. pc'[q] = "done" /\ \A r \in Call \ {q} : pc'[r] = pc[r] /\ op'[r] = op[r] /\ old'[r] = old[r]
  BY <1>t, <1>1 DEF TxTypes
<1>5. ASSUME NEW r \in Call \ {q} PROVE TxOK(r)'
  <2>1. TxOK(r) /\ PairOK(q, r) /\ PairOK(r, q)
    BY DEF TxInv
  <2>2. ~op[q].new => row[x] = "here"
    BY <1>t, <1>k DEF TxOK, Here
  <2>3. op[r].new /\ InTx(r) => op[r].cfg # x
    BY <1>k, <2>1, <2>2 DEF TxOK, PairOK
  <2>4. op[r].new /\ InTx(r) => row'[op[r].cfg] = row[op[r].cfg]
    BY <1>t, <1>1, <2>3 DEF TableTypes
  <2>5. ~op[r].new /\ pc[r] \in {"index", "commit"} => row'[op[r].cfg] = row[op[r].cfg]
    BY <1>t, <1>k, <1>1, <2>1 DEF TableTypes, TxOK, InTx, Here
  <2>6. pc[r] = "commit" /\ op[r].key # None => row'[op[r].key] = row[op[r].key]
    <3>1. pc[r] = "commit" /\ op[r].key # None => row[op[r].key] = "here" /\ op[r].key \in Config
      BY <1>t, <2>1, KindsAreKinds DEF TxOK, InTx, Here, TxTypes
    <3> QED BY <1>t, <1>1, <3>1 DEF TableTypes
  <2>7. pc[r] = "commit" => \A c \in dflt' \ dflt : ~SameKind(c, op[r].cfg)
    BY <1>t, <1>k, <1>1, <2>1 DEF PairOK, InTx
  <2> QED BY <1>4, <2>1, <2>4, <2>5, <2>6, <2>7, TxStays
<1>6. \A r \in Call : TxOK(r)'
  BY <1>4, <1>5 DEF TxOK, InTx
<1>7. \A r, s \in Call : PairOK(r, s)'
  <2>1. \A r, s \in Call : PairOK(r, s)
    BY DEF TxInv
  <2> QED BY <1>4, <2>1 DEF PairOK, InTx
<1>8. OneDefault'
  <2>1. \A c \in dflt : SameKind(c, x) => c \in old[q] \union {x}
    BY <1>t, <1>k DEF TxOK, FlagFree
  <2> SUFFICES ASSUME NEW c \in dflt', NEW d \in dflt', SameKind(c, d) PROVE c = d
    BY DEF OneDefault
  <2>2. CASE c \in dflt /\ d \in dflt
    BY <1>t, <2>2 DEF OneDefault
  <2>3. CASE c = x \/ d = x
    BY <1>1, <2>1, <2>3, KindsAreKinds
  <2> QED BY <1>1, <2>2, <2>3
<1>9. KeysExist'
  <2> SUFFICES ASSUME NEW c \in Keyed, row'[c] = "here" PROVE row'[key'[c]] = "here"
    BY DEF KeysExist, Here
  <2>1. \A b \in Config : row[b] = "here" => row'[b] = "here"
    BY <1>t, <1>1 DEF TableTypes
  <2>2. c \in Config /\ key[c] \in Config
    BY <1>t, KindsAreKinds DEF TableTypes
  <2>3. CASE c # x
    <3>1. key'[c] = key[c] /\ row[c] = "here"
      BY <1>t, <1>1, <2>2, <2>3 DEF TableTypes
    <3> QED BY <1>t, <2>1, <2>2, <3>1 DEF KeysExist, Here
  <2>4. CASE c = x /\ op[q].new
    <3>1. k # None /\ Here(k)
      BY <1>t, <1>k, <2>4 DEF TxOK
    <3>2. key'[c] = k /\ k \in Config
      BY <1>t, <1>k, <1>1, <2>4, <3>1, KindsAreKinds DEF TableTypes
    <3> QED BY <2>1, <3>1, <3>2 DEF Here
  <2>5. CASE c = x /\ ~op[q].new
    <3>1. k = None /\ row[x] = "here"
      BY <1>t, <1>k, <2>5 DEF TxOK, Here
    <3> QED BY <1>t, <1>1, <2>1, <2>2, <2>5, <3>1 DEF KeysExist, Here
  <2> QED BY <2>3, <2>4, <2>5
<1> QED BY <1>2, <1>3, <1>6, <1>7, <1>8, <1>9 DEF TxInv

\* A call of one statement of q.
LEMMA OnceIsOK ==
    ASSUME TxInv, NEW q \in Call, Once(q), TableTypes', KeysExist', dflt' \subseteq dflt,
           \A r \in Call \ {q} : InTx(r) =>
               /\ op[r].new => row'[op[r].cfg] = row[op[r].cfg]
               /\ ~op[r].new /\ pc[r] \in {"index", "commit"} => row'[op[r].cfg] = row[op[r].cfg]
               /\ pc[r] = "commit" /\ op[r].key # None => row'[op[r].key] = row[op[r].key]
    PROVE  TxInv'
<1>t. TxTypes /\ pc' = [pc EXCEPT ![q] = "done"] /\ UNCHANGED <<op, old>>
  BY DEF TxInv, Once, Goto, tx
<1>1. TxTypes' /\ pc'[q] = "done" /\ \A r \in Call \ {q} : pc'[r] = pc[r]
  BY <1>t DEF TxTypes
<1>2. ASSUME NEW r \in Call \ {q} PROVE TxOK(r)'
  BY <1>t, <1>1, TxStays DEF TxInv, InTx
<1>3. TxOK(q)'
  BY <1>1 DEF TxOK, InTx
<1>4. \A r, s \in Call : PairOK(r, s)'
  <2>1. \A r, s \in Call : PairOK(r, s)
    BY DEF TxInv
  <2> QED BY <1>t, <1>1, <2>1 DEF PairOK, InTx
<1>5. OneDefault'
  BY DEF TxInv, OneDefault
<1> QED BY <1>1, <1>2, <1>3, <1>4, <1>5 DEF TxInv

LEMMA CreateIsOK ==
    ASSUME TxInv, NEW q \in Call, NEW c \in Config, NEW k \in ApiKey \union {None}, Create(q, c, k)
    PROVE  TxInv'
<1>t. TableTypes /\ TxTypes /\ KeysExist /\ row[c] = "none" /\ \A r \in Call : op[r].cfg # c
  BY DEF TxInv, Create
<1>1. /\ row' = [row EXCEPT ![c] = "here"] /\ key' = (IF k = None THEN key ELSE [key EXCEPT ![c] = k])
      /\ UNCHANGED <<dflt, model>> /\ (c \in Keyed <=> k # None) /\ (k # None => Here(k)) /\ Once(q)
  BY DEF Create
<1>2. TableTypes'
  BY <1>t, <1>1 DEF TableTypes
<1>3. KeysExist'
  <2> SUFFICES ASSUME NEW d \in Keyed, row'[d] = "here" PROVE row'[key'[d]] = "here"
    BY DEF KeysExist, Here
  <2>1. \A b \in Config : row[b] = "here" => row'[b] = "here"
    BY <1>t, <1>1 DEF TableTypes
  <2>2. d \in Config /\ key[d] \in Config
    BY <1>t, KindsAreKinds DEF TableTypes
  <2>3. CASE d = c
    <3>1. key'[d] = k /\ k \in Config /\ row[k] = "here"
      BY <1>t, <1>1, <2>3, KindsAreKinds DEF TableTypes, Here
    <3> QED BY <2>1, <3>1
  <2>4. CASE d # c
    <3>1. key'[d] = key[d] /\ row[d] = "here"
      BY <1>t, <1>1, <2>2, <2>4 DEF TableTypes
    <3> QED BY <1>t, <2>1, <2>2, <3>1 DEF KeysExist, Here
  <2> QED BY <2>3, <2>4
<1>4. ASSUME NEW r \in Call \ {q}, InTx(r)
      PROVE  /\ row'[op[r].cfg] = row[op[r].cfg]
             /\ pc[r] = "commit" /\ op[r].key # None => row'[op[r].key] = row[op[r].key]
  <2>1. pc[r] = "commit" /\ op[r].key # None => row[op[r].key] = "here"
    BY <1>4 DEF TxInv, TxOK, Here
  <2>2. \A b \in Config : b # c => row'[b] = row[b]
    BY <1>t, <1>1 DEF TableTypes
  <2>3. op[r].cfg \in Config /\ (op[r].key # None => op[r].key \in Config)
    BY <1>t, <1>4, KindsAreKinds DEF TxInv, TxOK, TxTypes
  <2> QED BY <1>t, <2>1, <2>2, <2>3
<1> QED BY <1>1, <1>2, <1>3, <1>4, OnceIsOK

LEMMA UpdateIsOK ==
    ASSUME TxInv, NEW q \in Call, NEW c \in Keyed, NEW k \in ApiKey \union {None}, NEW m \in Model, Update(q, c, k, m)
    PROVE  TxInv'
<1>t. TableTypes /\ KeysExist /\ UNCHANGED <<row, dflt>> /\ Once(q)
  BY DEF TxInv, Update
<1>1. /\ key' = (IF k = None THEN key ELSE [key EXCEPT ![c] = k]) /\ (k # None => Here(k))
      /\ model' = (IF Remodel(c, m) THEN [model EXCEPT ![c] = m] ELSE model)
  BY DEF Update
<1>2. TableTypes'
  BY <1>t, <1>1 DEF TableTypes
<1>3. KeysExist'
  BY <1>t, <1>1 DEF TableTypes, KeysExist, Here
<1> QED BY <1>t, <1>2, <1>3, OnceIsOK

LEMMA DeleteIsOK ==
    ASSUME TxInv, NEW q \in Call, NEW c \in Config, Delete(q, c)
    PROVE  TxInv'
<1>t. TableTypes /\ TxTypes /\ KeysExist /\ Once(q) /\ Unlocked(c) /\ ~Held(c) /\ Here(c) /\ ~Referenced(c)
  BY DEF TxInv, Delete, Deletable
<1>1. row' = [row EXCEPT ![c] = "gone"] /\ dflt' = dflt \ {c} /\ UNCHANGED <<key, model>>
  BY DEF Delete
<1>2. TableTypes'
  BY <1>t, <1>1 DEF TableTypes
<1>3. \A b \in Config : b # c => row'[b] = row[b]
  BY <1>t, <1>1 DEF TableTypes
<1>4. KeysExist'
  <2> SUFFICES ASSUME NEW d \in Keyed, row'[d] = "here" PROVE row'[key[d]] = "here"
    BY <1>1 DEF KeysExist, Here
  <2>1. d \in Config /\ key[d] \in Config
    BY <1>t, KindsAreKinds DEF TableTypes
  <2>2. d # c
    BY <1>t, <1>1, <2>1 DEF TableTypes
  <2>3. row[d] = "here"
    BY <1>3, <2>1, <2>2
  <2>4. key[d] # c
    BY <1>t, <2>3 DEF Referenced, Here
  <2> QED BY <1>t, <1>3, <2>1, <2>3, <2>4 DEF KeysExist, Here
<1>5. ASSUME NEW r \in Call \ {q}, InTx(r)
      PROVE  /\ op[r].new => row'[op[r].cfg] = row[op[r].cfg]
             /\ ~op[r].new /\ pc[r] \in {"index", "commit"} => row'[op[r].cfg] = row[op[r].cfg]
             /\ pc[r] = "commit" /\ op[r].key # None => row'[op[r].key] = row[op[r].key]
  <2>1. op[r].cfg \in Config /\ (op[r].key # None => op[r].key \in Config) /\ TxOK(r)
    BY <1>t, <1>5, KindsAreKinds DEF TxInv, TxOK, TxTypes
  <2>2. op[r].new => op[r].cfg # c
    BY <1>t, <1>5, <2>1 DEF TxOK, Here
  <2>3. pc[r] \in {"index", "commit"} => op[r].cfg # c
    BY <1>t DEF Unlocked, Locked
  <2>4. pc[r] = "commit" => op[r].key # c
    BY <1>t DEF Held
  <2> QED BY <1>3, <2>1, <2>2, <2>3, <2>4
<1>6. dflt' \subseteq dflt
  BY <1>1
<1> QED BY <1>t, <1>2, <1>4, <1>5, <1>6, OnceIsOK
-----------------------------------------------------------------------------
(* Topics.                                                                 *)

Target(q) == req[q].topic
Wants(q)  == req[q].ask
EmbOf(t)  == bind[t]["emb"]

TopicOK(t) ==
    Live(t) => /\ EmbOf(t) = None => t \in unbound
               /\ t \notin unled => Consistent(bind[t]["prompt"], bind[t]["llm"])

\* What an UpdateTopic has checked still holds of the row it is to write, but
\* for what a deletion has taken from the row.
UpdateOK(q) ==
    Updates(q) =>
        /\ Target(q) \in Topic /\ Wants(q) \in Binding /\ bind[Target(q)] # None
        /\ pc[q] \in {"old", "new"} => req[q].emb \in Emb /\ Wants(q)["emb"] \in Emb
        /\ Live(Target(q)) /\ Target(q) \notin unled =>
              (Wants(q)["prompt"] # None => Wants(q)["llm"] # None \/ bind[Target(q)]["llm"] # None)
        /\ Live(Target(q)) /\ Target(q) \notin unbound =>
              /\ pc[q] \in {"old", "new"} => model[req[q].emb] = model[EmbOf(Target(q))]
              /\ pc[q] = "new" => req[q].model = model[req[q].emb]
              /\ pc[q] = "write" /\ Wants(q)["emb"] # None =>
                    model[Wants(q)["emb"]] = model[EmbOf(Target(q))]

TopicInv ==
    /\ TopicTypes
    /\ \A t \in Topic : TopicOK(t)
    /\ \A q \in Call : UpdateOK(q)

\* What no step does to a row, unless a deletion of a configuration has.
RowKept(t) ==
    bind[t] # None =>
        /\ bind'[t] # None
        /\ Live(t)' =>
              /\ Live(t)
              /\ t \notin unled' => t \notin unled /\ (bind[t]["llm"] # None => bind'[t]["llm"] # None)
              /\ t \notin unbound' => t \notin unbound /\ model'[EmbOf(t)] = model'[bind'[t]["emb"]]

EmbModels == \A e \in Emb : model'[e] = model[e]

LEMMA Fields ==
    \A b \in Binding : /\ b["emb"] \in Emb \union {None} /\ b["llm"] \in LLM \union {None}
                       /\ b["prompt"] \in Prompt \union {None} /\ b["backend"] \in Backend \union {None}
BY DEF Binding, Field, FieldKind

LEMMA LiveBinding ==
    ASSUME TopicTypes, NEW t \in Topic, Live(t)
    PROVE  bind[t] \in Binding
BY DEF TopicTypes, Live

LEMMA UpdateStays ==
    ASSUME TopicInv, EmbModels, \A t \in Topic : RowKept(t),
           NEW r \in Call, pc'[r] = pc[r], req'[r] = req[r]
    PROVE  UpdateOK(r)'
<1> SUFFICES ASSUME Updates(r) PROVE UpdateOK(r)'
  BY DEF UpdateOK, Updates
<1>1. UpdateOK(r) /\ Target(r) \in Topic /\ Wants(r) \in Binding /\ RowKept(Target(r))
  BY DEF TopicInv, UpdateOK
<1>2. Target(r)' = Target(r) /\ Wants(r)' = Wants(r) /\ bind[Target(r)] # None
  BY <1>1 DEF Target, Wants, UpdateOK
<1>3. bind'[Target(r)] # None
  BY <1>1, <1>2 DEF RowKept
<1>4. ASSUME bind'[Target(r)] \notin {None, Gone}
      PROVE  /\ Live(Target(r)) /\ bind[Target(r)] \in Binding
             /\ Target(r) \notin unled' => Target(r) \notin unled
                    /\ (bind[Target(r)]["llm"] # None => bind'[Target(r)]["llm"] # None)
             /\ Target(r) \notin unbound' => Target(r) \notin unbound
                    /\ model'[bind[Target(r)]["emb"]] = model'[bind'[Target(r)]["emb"]]
  BY <1>1, <1>2, <1>4, LiveBinding DEF RowKept, Live, EmbOf, TopicInv
<1>5. ASSUME bind'[Target(r)] \notin {None, Gone}, Target(r) \notin unbound'
      PROVE  /\ bind[Target(r)]["emb"] \in Emb
             /\ model'[bind[Target(r)]["emb"]] = model[bind[Target(r)]["emb"]]
  <2>1. bind[Target(r)]["emb"] \in Emb \union {None}
    BY <1>4, <1>5, Fields
  <2>2. bind[Target(r)]["emb"] # None
    BY <1>1, <1>4, <1>5 DEF TopicInv, TopicOK, EmbOf
  <2> QED BY <2>1, <2>2 DEF EmbModels
<1>6. ASSUME bind'[Target(r)] \notin {None, Gone}, Target(r) \notin unled'
      PROVE  Wants(r)["prompt"] # None => Wants(r)["llm"] # None \/ bind'[Target(r)]["llm"] # None
  BY <1>1, <1>4, <1>6 DEF UpdateOK
<1>7. ASSUME bind'[Target(r)] \notin {None, Gone}, Target(r) \notin unbound'
      PROVE  /\ pc[r] \in {"old", "new"} => model'[req[r].emb] = model'[bind'[Target(r)]["emb"]]
             /\ pc[r] = "new" => req[r].model = model'[req[r].emb]
             /\ pc[r] = "write" /\ Wants(r)["emb"] # None =>
                    model'[Wants(r)["emb"]] = model'[bind'[Target(r)]["emb"]]
  <2>1. CASE pc[r] \in {"old", "new"}
    <3>1. req[r].emb \in Emb /\ model'[req[r].emb] = model[req[r].emb]
      BY <1>1, <2>1 DEF UpdateOK, EmbModels
    <3> QED BY <1>1, <1>4, <1>5, <1>7, <2>1, <3>1 DEF UpdateOK, EmbOf
  <2>2. CASE pc[r] = "write"
    <3>1. Wants(r)["emb"] # None => model'[Wants(r)["emb"]] = model[Wants(r)["emb"]]
      BY <1>1, Fields DEF EmbModels
    <3> QED BY <1>1, <1>4, <1>5, <1>7, <2>2, <3>1 DEF UpdateOK, EmbOf
  <2> QED BY <2>1, <2>2 DEF Updates
<1> QED BY <1>1, <1>2, <1>3, <1>6, <1>7 DEF UpdateOK, Updates, Live, EmbOf, Target, Wants

\* A step that changes no row and no request.
LEMMA TopicsStay ==
    ASSUME TopicInv, EmbModels, UNCHANGED <<bind, unbound, unled, req>>,
           NEW q \in Call, ~Updates(q)', \A r \in Call \ {q} : pc'[r] = pc[r]
    PROVE  TopicInv' /\ \A t \in Topic : RowKept(t)
<1>1. TopicTypes' /\ \A t \in Topic : TopicOK(t)'
  BY DEF TopicInv, TopicTypes, TopicOK, Live, EmbOf
<1>2. \A t \in Topic : RowKept(t)
  BY DEF RowKept, Live, EmbOf
<1>3. ASSUME NEW r \in Call PROVE UpdateOK(r)'
  <2>1. CASE r = q
    BY <2>1 DEF UpdateOK
  <2>2. CASE r # q
    BY <1>2, <2>2, UpdateStays
  <2> QED BY <2>1, <2>2
<1> QED BY <1>1, <1>2, <1>3 DEF TopicInv
\* A step of q that may change rows.
LEMMA TopicStep ==
    ASSUME TopicInv, EmbModels, NEW q \in Call,
           \A r \in Call \ {q} : pc'[r] = pc[r] /\ req'[r] = req[r],
           TopicTypes', UpdateOK(q)', \A t \in Topic : RowKept(t) /\ TopicOK(t)'
    PROVE  TopicInv' /\ \A t \in Topic : RowKept(t)
<1>1. ASSUME NEW r \in Call PROVE UpdateOK(r)'
  <2>1. CASE r = q
    BY <2>1
  <2>2. CASE r # q
    BY <2>2, UpdateStays
  <2> QED BY <2>1, <2>2
<1> QED BY <1>1 DEF TopicInv

\* A call of one statement is over.
LEMMA OnceIsOver ==
    ASSUME TxTypes, NEW q \in Call, Once(q)
    PROVE  /\ ~Updates(q)' /\ \A r \in Call \ {q} : pc'[r] = pc[r]
           /\ req' = req /\ UpdateOK(q)'
<1>1. pc'[q] = "done" /\ (\A r \in Call \ {q} : pc'[r] = pc[r]) /\ req' = req
  BY DEF Once, Goto, TxTypes
<1> QED BY <1>1 DEF Updates, UpdateOK

LEMMA WithoutRow ==
    ASSUME TopicTypes, NEW t \in Topic, Live(t), NEW c \in Config
    PROVE  /\ Without(c)[t] \in Binding
           /\ \A f \in Field : Without(c)[t][f] = IF bind[t][f] = c THEN None ELSE bind[t][f]
<1>1. bind[t] \in Binding
  BY LiveBinding
<1>2. Without(c)[t] = [f \in Field |-> IF bind[t][f] = c THEN None ELSE bind[t][f]]
  BY DEF Without, Live
<1>3. \A f \in Field : bind[t][f] \in FieldKind[f] \union {None} /\ bind[t][f] \in Config \union {None}
  BY <1>1 DEF Binding
<1> QED BY <1>2, <1>3 DEF Binding

LEMMA DeleteTopics ==
    ASSUME TxTypes, TopicInv, NEW q \in Call, NEW c \in Config, Delete(q, c)
    PROVE  TopicInv' /\ EmbModels /\ \A t \in Topic : RowKept(t)
<1>1. /\ bind' = Without(c) /\ unbound' = unbound \union BoundTo(c, "emb")
      /\ unled' = unled \union BoundTo(c, "llm") /\ model' = model /\ Once(q)
  BY DEF Delete
<1>2. EmbModels
  BY <1>1 DEF EmbModels
<1>3. TopicTypes
  BY DEF TopicInv
<1>4. ASSUME NEW t \in Topic, ~Live(t) PROVE bind'[t] = bind[t]
  BY <1>1, <1>4 DEF Without, Live
<1>5. ASSUME NEW t \in Topic, Live(t)
      PROVE  /\ bind'[t] \in Binding
             /\ \A f \in Field : bind'[t][f] = IF bind[t][f] = c THEN None ELSE bind[t][f]
  BY <1>1, <1>3, <1>5, WithoutRow
<1>6. TopicTypes'
  <2>1. \A t \in Topic : bind'[t] \in Binding \union {None, Gone}
    BY <1>3, <1>4, <1>5 DEF TopicTypes
  <2>2. bind' \in [Topic -> Binding \union {None, Gone}]
    BY <1>1, <2>1 DEF Without
  <2> QED BY <1>1, <1>3, <2>2, OnceIsOver DEF TopicTypes, BoundTo
<1>7. None \notin Config /\ Gone # None
  BY ConfigsAssumption
<1>8. ASSUME NEW t \in Topic PROVE RowKept(t) /\ TopicOK(t)'
  <2>1. CASE ~Live(t)
    BY <1>4, <2>1 DEF RowKept, TopicOK, Live
  <2>2. CASE Live(t)
    <3>1. bind'[t] # None
      BY <1>5, <2>2, ConfigsAssumption
    <3>2. /\ bind'[t]["emb"] = IF bind[t]["emb"] = c THEN None ELSE bind[t]["emb"]
          /\ bind'[t]["llm"] = IF bind[t]["llm"] = c THEN None ELSE bind[t]["llm"]
          /\ bind'[t]["prompt"] = IF bind[t]["prompt"] = c THEN None ELSE bind[t]["prompt"]
      BY <1>5, <2>2 DEF Field
    <3>3. t \notin unbound' => t \notin unbound /\ bind[t]["emb"] # c
      BY <1>1, <2>2 DEF BoundTo, Live
    <3>4. t \notin unled' => t \notin unled /\ bind[t]["llm"] # c
      BY <1>1, <2>2 DEF BoundTo, Live
    <3>5. RowKept(t)
      BY <2>2, <3>1, <3>2, <3>3, <3>4 DEF RowKept, EmbOf
    <3>6. TopicOK(t)
      BY DEF TopicInv
    <3>7. TopicOK(t)'
      BY <2>2, <3>2, <3>3, <3>4, <3>6, <1>7 DEF TopicOK, Consistent, EmbOf
    <3> QED BY <3>5, <3>7
  <2> QED BY <2>1, <2>2
<1> QED BY <1>1, <1>2, <1>6, <1>8, OnceIsOver, TopicStep

\* A topic that is not there before, or not after.
LEMMA FreshTopics ==
    ASSUME TxTypes, TopicInv, NEW q \in Call, NEW t \in Topic, model' = model, Once(q),
           NEW b \in Binding \union {Gone}, bind' = [bind EXCEPT ![t] = b],
           b # Gone => bind[t] = None /\ Consistent(b["prompt"], b["llm"]),
           unbound' = IF b # Gone /\ b["emb"] = None THEN unbound \union {t} ELSE unbound,
           unled' = unled, b = Gone => Live(t)
    PROVE  TopicInv' /\ EmbModels /\ \A s \in Topic : RowKept(s)
<1>1. EmbModels
  BY DEF EmbModels
<1>2. TopicTypes
  BY DEF TopicInv
<1>3. TopicTypes'
  BY <1>2, OnceIsOver DEF TopicTypes
<1>4. bind'[t] = b /\ \A s \in Topic \ {t} : bind'[s] = bind[s]
  BY <1>2 DEF TopicTypes
<1>5. Gone # None
  BY ConfigsAssumption
<1>6. ASSUME NEW s \in Topic PROVE RowKept(s) /\ TopicOK(s)'
  <2>1. TopicOK(s)
    BY DEF TopicInv
  <2>2. CASE s # t
    <3>1. bind'[s] = bind[s] /\ (s \in unbound' <=> s \in unbound)
      BY <1>4, <2>2
    <3> QED BY <2>1, <3>1 DEF RowKept, TopicOK, Live, EmbOf
  <2>3. CASE s = t /\ b = Gone
    BY <1>4, <1>5, <2>3 DEF RowKept, TopicOK, Live
  <2>4. CASE s = t /\ b # Gone
    BY <1>4, <2>4 DEF RowKept, TopicOK, EmbOf
  <2> QED BY <2>2, <2>3, <2>4
<1> QED BY <1>1, <1>3, <1>6, OnceIsOver, TopicStep
\* A step of an UpdateTopic that changes no row.
LEMMA ReadStep ==
    ASSUME TopicInv, UNCHANGED <<tables, topics>>, NEW q \in Call,
           \A r \in Call \ {q} : pc'[r] = pc[r] /\ req'[r] = req[r],
           TopicTypes', UpdateOK(q)'
    PROVE  TopicInv' /\ EmbModels /\ \A t \in Topic : RowKept(t)
<1>1. EmbModels
  BY DEF EmbModels, tables
<1>2. ASSUME NEW t \in Topic PROVE RowKept(t) /\ TopicOK(t)'
  <2>1. TopicOK(t)
    BY DEF TopicInv
  <2> QED BY <2>1 DEF RowKept, TopicOK, Live, EmbOf, topics, tables
<1> QED BY <1>1, <1>2, TopicStep

LEMMA EndTopicIsOK ==
    ASSUME TxTypes, TopicInv, UNCHANGED <<tables, topics>>, NEW q \in Call, EndTopic(q)
    PROVE  TopicInv' /\ EmbModels /\ \A t \in Topic : RowKept(t)
<1>1. pc' = [pc EXCEPT ![q] = "done"] /\ req' = [req EXCEPT ![q] = NoReq]
  BY DEF EndTopic, Goto
<1>2. TopicTypes /\ NoReq \in [topic : Topic \union {None}, ask : Binding \union {None},
                               emb : Emb \union {None}, model : Model \union {None}]
  BY DEF TopicInv, NoReq
<1>3. TopicTypes'
  BY <1>1, <1>2 DEF TopicTypes, topics
<1>4. pc'[q] = "done" /\ \A r \in Call \ {q} : pc'[r] = pc[r] /\ req'[r] = req[r]
  BY <1>1, <1>2 DEF TxTypes, TopicTypes
<1>5. UpdateOK(q)'
  BY <1>4 DEF UpdateOK, Updates
<1> QED BY <1>3, <1>4, <1>5, ReadStep

LEMMA Coalesced ==
    ASSUME NEW b \in Binding, NEW e \in Binding
    PROVE  /\ Coalesce(b, e) \in Binding
           /\ \A f \in Field : Coalesce(b, e)[f] = IF b[f] # None THEN b[f] ELSE e[f]
BY DEF Coalesce, Binding

LEMMA UpdateTopicIsOK ==
    ASSUME TxTypes, TopicInv, NEW q \in Call, NEW t \in Topic, NEW b \in Binding, UpdateTopic(q, t, b)
    PROVE  TopicInv' /\ EmbModels /\ \A s \in Topic : RowKept(s)
<1> DEFINE r == [topic |-> t, ask |-> b, emb |-> bind[t]["emb"], model |-> None]
<1>1. PICK l \in {"old", "write"} :
        /\ pc' = [pc EXCEPT ![q] = l] /\ req' = [req EXCEPT ![q] = r] /\ UNCHANGED <<tables, topics>>
        /\ l = "old" <=> EmbeddingChanges(b, bind[t])
  BY DEF UpdateTopic, Goto
<1>2. TopicTypes /\ TopicOK(t) /\ Live(t) /\ Effective(b, bind[t])
  BY DEF TopicInv, UpdateTopic, Live
<1>3. bind[t] \in Binding
  BY <1>2, LiveBinding
<1>4. bind[t]["emb"] \in Emb \union {None} /\ b["emb"] \in Emb \union {None}
  BY <1>3, Fields
<1>5. TopicTypes'
  <2>1. r \in [topic : Topic \union {None}, ask : Binding \union {None},
               emb : Emb \union {None}, model : Model \union {None}]
    BY <1>4
  <2> QED BY <1>1, <1>2, <2>1 DEF TopicTypes, topics
<1>6. pc'[q] = l /\ req'[q] = r /\ \A s \in Call \ {q} : pc'[s] = pc[s] /\ req'[s] = req[s]
  BY <1>1, <1>2 DEF TxTypes, TopicTypes
<1>7. b["prompt"] # None => b["llm"] # None \/ bind[t]["llm"] # None
  BY <1>2, <1>3, Coalesced DEF Effective, Consistent, Field
<1>8. UpdateOK(q)'
  <2>1. t \notin unbound => bind[t]["emb"] # None
    BY <1>2 DEF TopicOK, EmbOf
  <2>2. bind' = bind /\ unbound' = unbound /\ unled' = unled /\ model' = model
    BY <1>1 DEF topics, tables
  <2>3. l = "old" => bind[t]["emb"] \in Emb /\ b["emb"] \in Emb
    BY <1>1, <1>4 DEF EmbeddingChanges
  <2>4. l = "write" /\ b["emb"] # None /\ t \notin unbound => b["emb"] = bind[t]["emb"]
    BY <1>1, <2>1 DEF EmbeddingChanges
  <2> QED BY <1>2, <1>6, <1>7, <2>2, <2>3, <2>4 DEF UpdateOK, Updates, Live, Target, Wants, EmbOf
<1> QED BY <1>1, <1>5, <1>6, <1>8, ReadStep

LEMMA GetOldIsOK ==
    ASSUME TableTypes, TxTypes, TopicInv, NEW q \in Call, GetOld(q)
    PROVE  TopicInv' /\ EmbModels /\ \A s \in Topic : RowKept(s)
<1>1. pc[q] = "old" /\ UNCHANGED <<tables, topics>> /\ TopicTypes /\ UpdateOK(q)
  BY DEF GetOld, TopicInv
<1>2. CASE ~Here(req[q].emb)
  BY <1>1, <1>2, EndTopicIsOK DEF GetOld
<1>3. CASE Here(req[q].emb)
  <2> DEFINE m == model[req[q].emb]
  <2>1. req[q].emb \in Emb /\ req[q].emb \in Keyed
    BY <1>1 DEF UpdateOK, Updates, Keyed
  <2>2. m \in Model \union {None}
    BY <2>1 DEF TableTypes
  <2>3. req' = [req EXCEPT ![q].model = m] /\ pc' = [pc EXCEPT ![q] = "new"]
    BY <1>3 DEF GetOld, Goto
  <2>4. /\ req' \in [Call -> [topic : Topic \union {None}, ask : Binding \union {None},
                              emb : Emb \union {None}, model : Model \union {None}]]
        /\ req'[q].topic = req[q].topic /\ req'[q].ask = req[q].ask /\ req'[q].emb = req[q].emb
        /\ req'[q].model = m /\ \A r \in Call \ {q} : req'[r] = req[r]
    <3> DEFINE A == Topic \union {None}
               B == Binding \union {None}
               E == Emb \union {None}
               M == Model \union {None}
    <3>1. req \in [Call -> [topic : A, ask : B, emb : E, model : M]] /\ m \in M
      BY <1>1, <2>2 DEF TopicTypes
    <3> HIDE DEF A, B, E, M, m
    <3>2. req' \in [Call -> [topic : A, ask : B, emb : E, model : M]]
      BY <2>3, <3>1
    <3>3. /\ req'[q].topic = req[q].topic /\ req'[q].ask = req[q].ask /\ req'[q].emb = req[q].emb
          /\ req'[q].model = m /\ \A r \in Call \ {q} : req'[r] = req[r]
      BY <2>3, <3>1
    <3> QED BY <3>2, <3>3 DEF A, B, E, M, m
  <2>5. TopicTypes'
    BY <1>1, <2>4 DEF TopicTypes, topics
  <2>6. pc'[q] = "new" /\ \A r \in Call \ {q} : pc'[r] = pc[r]
    BY <2>3 DEF TxTypes
  <2>7. UpdateOK(q)'
    BY <1>1, <2>4, <2>6 DEF UpdateOK, Updates, Live, Target, Wants, EmbOf, topics, tables
  <2> QED BY <1>1, <2>4, <2>5, <2>6, <2>7, ReadStep
<1> QED BY <1>2, <1>3

LEMMA GetNewIsOK ==
    ASSUME TxTypes, TopicInv, NEW q \in Call, GetNew(q)
    PROVE  TopicInv' /\ EmbModels /\ \A s \in Topic : RowKept(s)
<1>1. pc[q] = "new" /\ UNCHANGED <<tables, topics>> /\ TopicTypes /\ UpdateOK(q)
  BY DEF GetNew, TopicInv
<1> DEFINE same == Here(req[q].ask["emb"]) /\ SameModel(q)
<1>2. CASE ~same
  BY <1>1, <1>2, EndTopicIsOK DEF GetNew
<1>3. CASE same
  <2>1. req' = req /\ pc' = [pc EXCEPT ![q] = "write"]
    BY <1>3 DEF GetNew, Goto
  <2>2. pc'[q] = "write" /\ \A r \in Call \ {q} : pc'[r] = pc[r]
    BY <2>1 DEF TxTypes
  <2>3. TopicTypes'
    BY <1>1, <2>1 DEF TopicTypes, topics
  <2>4. UpdateOK(q)'
    BY <1>1, <1>3, <2>1, <2>2
    DEF UpdateOK, Updates, Live, Target, Wants, EmbOf, SameModel, topics, tables
  <2> QED BY <1>1, <2>1, <2>2, <2>3, <2>4, ReadStep
<1> QED BY <1>2, <1>3

LEMMA WriteIsOK ==
    ASSUME TxTypes, TopicInv, NEW q \in Call, Write(q)
    PROVE  TopicInv' /\ EmbModels /\ \A s \in Topic : RowKept(s)
<1>1. pc[q] = "write" /\ UNCHANGED <<tables, unbound, unled>> /\ TopicTypes /\ UpdateOK(q) /\ EndTopic(q)
  BY DEF Write, TopicInv
<1>p. PICK t \in Topic, b \in Binding : t = req[q].topic /\ b = req[q].ask
  BY <1>1 DEF UpdateOK, Updates, Target, Wants
<1>2. CASE ~(bind[t] # Gone /\ Known(b))
  BY <1>1, <1>p, <1>2, EndTopicIsOK DEF Write, topics
<1>3. CASE bind[t] # Gone /\ Known(b)
  <2>1. Live(t)
    BY <1>1, <1>p, <1>3 DEF UpdateOK, Updates, Target, Live
  <2>2. bind[t] \in Binding
    BY <1>1, <2>1, LiveBinding
  <2>3. bind' = [bind EXCEPT ![t] = Coalesce(b, bind[t])]
    BY <1>p, <1>3 DEF Write
  <2>4. bind'[t] = Coalesce(b, bind[t]) /\ \A s \in Topic \ {t} : bind'[s] = bind[s]
    BY <1>1, <2>1, <2>3 DEF TopicTypes
  <2>5. bind'[t] \in Binding /\ \A f \in Field : bind'[t][f] = IF b[f] # None THEN b[f] ELSE bind[t][f]
    BY <2>1, <2>2, <2>4, Coalesced
  <2>6. pc' = [pc EXCEPT ![q] = "done"] /\ req' = [req EXCEPT ![q] = NoReq]
    BY <1>1 DEF EndTopic, Goto
  <2>7. pc'[q] = "done" /\ \A r \in Call \ {q} : pc'[r] = pc[r] /\ req'[r] = req[r]
    BY <1>1, <2>6 DEF TxTypes, TopicTypes
  <2>8. TopicTypes'
    <3>1. NoReq \in [topic : Topic \union {None}, ask : Binding \union {None},
                     emb : Emb \union {None}, model : Model \union {None}]
      BY DEF NoReq
    <3>2. bind' \in [Topic -> Binding \union {None, Gone}]
      <4>1. Coalesce(b, bind[t]) \in Binding
        BY <2>4, <2>5
      <4> QED BY <1>1, <2>3, <4>1 DEF TopicTypes
    <3> QED BY <1>1, <2>6, <3>1, <3>2 DEF TopicTypes
  <2>9. UpdateOK(q)'
    BY <2>7 DEF UpdateOK, Updates
  <2>10. EmbModels
    BY <1>1 DEF EmbModels, tables
  <2>11. ASSUME NEW s \in Topic PROVE RowKept(s) /\ TopicOK(s)'
    <3>1. TopicOK(s)
      BY DEF TopicInv
    <3>2. CASE s # t
      BY <1>1, <2>4, <3>1, <3>2 DEF RowKept, TopicOK, Live, EmbOf
    <3>3. CASE s = t
      <4>1. /\ bind'[t]["emb"] = IF b["emb"] # None THEN b["emb"] ELSE bind[t]["emb"]
            /\ bind'[t]["llm"] = IF b["llm"] # None THEN b["llm"] ELSE bind[t]["llm"]
            /\ bind'[t]["prompt"] = IF b["prompt"] # None THEN b["prompt"] ELSE bind[t]["prompt"]
        BY <2>5 DEF Field
      <4>2. bind'[t] # None
        BY <2>5, ConfigsAssumption
      <4>3. t \notin unbound /\ b["emb"] # None => model[b["emb"]] = model[bind[t]["emb"]]
        BY <1>1, <1>p, <2>1 DEF UpdateOK, Updates, Target, Wants, EmbOf
      <4>4. t \notin unled /\ b["prompt"] # None => b["llm"] # None \/ bind[t]["llm"] # None
        BY <1>1, <1>p, <2>1 DEF UpdateOK, Updates, Target, Wants
      <4>5. RowKept(t)
        BY <1>1, <2>1, <4>1, <4>2, <4>3 DEF RowKept, EmbOf, tables
      <4>6. TopicOK(s)'
        BY <1>1, <2>1, <3>1, <3>3, <4>1, <4>4 DEF TopicOK, EmbOf, Consistent
      <4> QED BY <3>3, <4>5, <4>6
    <3> QED BY <3>2, <3>3
  <2> QED BY <2>7, <2>8, <2>9, <2>10, <2>11, TopicStep
<1> QED BY <1>2, <1>3
-----------------------------------------------------------------------------
(* All steps.                                                              *)

Inv == TxInv /\ TopicInv

FlagKept == \A c \in dflt : Here(c)' => \E d \in dflt' : SameKind(c, d)

\* What every step keeps.
Kept == EmbModels /\ FlagKept /\ \A t \in Topic : RowKept(t)

LEMMA SameFlags == ASSUME TxInv, dflt \subseteq dflt' PROVE FlagKept
BY KindsAreKinds DEF FlagKept, TxInv, TableTypes

\* Where a step of a transaction leads.
LEMMA TxGoes ==
    ASSUME TxInv, NEW q \in Call,
           Transaction(q) \/ Rollback(q) \/ (\E o : Begin(q, o))
    PROVE  /\ ~Updates(q)' /\ \A r \in Call \ {q} : pc'[r] = pc[r]
           /\ UNCHANGED <<bind, unbound, unled, req, model>>
<1>1. PICK l \in {"clear", "mark", "index", "commit", "done"} : pc' = [pc EXCEPT ![q] = l]
  BY DEF Transaction, ClearDefault, Mark, Index, Commit, DeadlockVictim, Rollback, Begin, End, Goto
<1>2. pc'[q] = l /\ \A r \in Call \ {q} : pc'[r] = pc[r]
  BY <1>1 DEF TxInv, TxTypes
<1>3. UNCHANGED <<bind, unbound, unled, req, model>>
  BY DEF Transaction, ClearDefault, Mark, Index, Commit, DeadlockVictim, Rollback, Begin, topics, tables
<1> QED BY <1>2, <1>3 DEF Updates

LEMMA TransactionSteps ==
    ASSUME Inv, NEW q \in Call, Transaction(q) \/ Rollback(q)
    PROVE  Inv' /\ Kept
<1>1. TxInv /\ TopicInv
  BY DEF Inv
<1>2. TopicInv' /\ EmbModels /\ \A t \in Topic : RowKept(t)
  <2>1. EmbModels
    BY <1>1, TxGoes DEF EmbModels
  <2> QED BY <1>1, <2>1, TxGoes, TopicsStay
<1>3. CASE ClearDefault(q) \/ Mark(q) \/ Index(q)
  <2>1. TxInv'
    BY <1>1, <1>3, ClearIsOK, MarkIsOK, IndexIsOK
  <2>2. FlagKept
    BY <1>1, <1>3, SameFlags DEF ClearDefault, Mark, Index, tables
  <2> QED BY <1>2, <2>1, <2>2 DEF Inv, Kept
<1>4. CASE DeadlockVictim(q) \/ Rollback(q)
  <2>1. TxInv'
    BY <1>1, <1>4, EndIsOK DEF DeadlockVictim, Rollback
  <2>2. FlagKept
    BY <1>1, <1>4, SameFlags DEF DeadlockVictim, Rollback, tables
  <2> QED BY <1>2, <2>1, <2>2 DEF Inv, Kept
<1>5. CASE Commit(q)
  <2>1. TxInv'
    BY <1>1, <1>5, CommitIsOK
  <2>2. dflt' = (dflt \ old[q]) \union {op[q].cfg} /\ TxOK(q) /\ InTx(q) /\ dflt \subseteq Config
    BY <1>1, <1>5 DEF Commit, Flagged, TxInv, InTx, TableTypes
  <2>3. FlagKept
    BY <2>2, KindsAreKinds DEF FlagKept, TxOK
  <2> QED BY <1>2, <2>1, <2>3 DEF Inv, Kept
<1> QED BY <1>3, <1>4, <1>5 DEF Transaction

LEMMA BeginSteps ==
    ASSUME Inv, NEW q \in Call, NEW c \in Config, NEW k \in ApiKey \union {None},
           SetDefault(q, c) \/ CreateDefault(q, c, k)
    PROVE  Inv' /\ Kept
<1>1. TxInv /\ TopicInv
  BY DEF Inv
<1>2. PICK o : Begin(q, o)
  BY DEF SetDefault, CreateDefault
<1>3. TopicInv' /\ EmbModels /\ \A t \in Topic : RowKept(t)
  <2>1. EmbModels
    BY <1>1, <1>2, TxGoes DEF EmbModels
  <2> QED BY <1>1, <1>2, <2>1, TxGoes, TopicsStay
<1>4. FlagKept
  BY <1>1, <1>2, SameFlags DEF Begin, tables
<1>5. CASE SetDefault(q, c)
  <2> DEFINE p == [cfg |-> c, new |-> FALSE, key |-> None]
  <2>1. Begin(q, p) /\ p \in [cfg : Config, new : BOOLEAN, key : ApiKey \union {None}] /\ ~p.new /\ p.key = None
    BY <1>5 DEF SetDefault
  <2>2. TxInv'
    <3> HIDE DEF p
    <3> QED BY <1>1, <2>1, BeginIsOK
  <2> QED BY <1>3, <1>4, <2>2 DEF Inv, Kept
<1>6. CASE CreateDefault(q, c, k)
  <2> DEFINE p == [cfg |-> c, new |-> TRUE, key |-> k]
  <2>1. Begin(q, p) /\ p \in [cfg : Config, new : BOOLEAN, key : ApiKey \union {None}] /\ p.new
    BY <1>6 DEF CreateDefault
  <2>2. /\ row[p.cfg] = "none" /\ \A r \in Call : op[r].cfg # p.cfg
        /\ p.cfg \in Keyed <=> p.key # None
    BY <1>6 DEF CreateDefault
  <2>3. TxInv'
    <3> HIDE DEF p
    <3> QED BY <1>1, <2>1, <2>2, BeginIsOK
  <2> QED BY <1>3, <1>4, <2>3 DEF Inv, Kept
<1> QED BY <1>5, <1>6

LEMMA ConfigSteps ==
    ASSUME Inv, NEW q \in Call, NEW c \in Config, NEW k \in ApiKey \union {None},
           Create(q, c, k) \/ Delete(q, c) \/ (c \in Keyed /\ \E m \in Model : Update(q, c, k, m))
    PROVE  Inv' /\ Kept
<1>1. TxInv /\ TopicInv /\ TxTypes /\ TableTypes
  BY DEF Inv, TxInv
<1>2. CASE Create(q, c, k)
  <2>1. TxInv'
    BY <1>1, <1>2, CreateIsOK
  <2>2. EmbModels /\ UNCHANGED <<bind, unbound, unled, dflt>> /\ Once(q)
    BY <1>2 DEF Create, EmbModels, topics
  <2>3. TopicInv' /\ \A t \in Topic : RowKept(t)
    BY <1>1, <2>2, OnceIsOver, TopicsStay
  <2>4. FlagKept
    BY <1>1, <2>2, SameFlags
  <2> QED BY <2>1, <2>2, <2>3, <2>4 DEF Inv, Kept
<1>3. ASSUME c \in Keyed, NEW m \in Model, Update(q, c, k, m) PROVE Inv' /\ Kept
  <2>1. TxInv'
    BY <1>1, <1>3, UpdateIsOK
  <2>2. UNCHANGED <<bind, unbound, unled, dflt>> /\ Once(q)
    BY <1>3 DEF Update, topics
  <2>3. EmbModels
    <3>1. model' = IF c \in LLM THEN [model EXCEPT ![c] = m] ELSE model
      BY <1>3 DEF Update, Remodel
    <3> QED BY <1>1, <3>1, KindsAreKinds DEF EmbModels, TableTypes
  <2>4. TopicInv' /\ \A t \in Topic : RowKept(t)
    BY <1>1, <2>2, <2>3, OnceIsOver, TopicsStay
  <2>5. FlagKept
    BY <1>1, <2>2, SameFlags
  <2> QED BY <2>1, <2>3, <2>4, <2>5 DEF Inv, Kept
<1>4. CASE Delete(q, c)
  <2>1. TxInv'
    BY <1>1, <1>4, DeleteIsOK
  <2>2. TopicInv' /\ EmbModels /\ \A t \in Topic : RowKept(t)
    BY <1>1, <1>4, DeleteTopics
  <2>3. row' = [row EXCEPT ![c] = "gone"] /\ dflt' = dflt \ {c}
    BY <1>4 DEF Delete
  <2>4. FlagKept
    BY <1>1, <2>3, KindsAreKinds DEF FlagKept, Here, TableTypes
  <2> QED BY <2>1, <2>2, <2>4 DEF Inv, Kept
<1> QED BY <1>2, <1>3, <1>4

LEMMA TopicCalls ==
    ASSUME Inv, NEW q \in Call, Updating(q) \/ TopicCall(q)
    PROVE  Inv' /\ Kept
<1>1. TxInv /\ TopicInv /\ TxTypes /\ TableTypes
  BY DEF Inv, TxInv
<1>2. UNCHANGED tables /\ UNCHANGED <<op, old>>
  BY DEF Updating, GetOld, GetNew, Write, TopicCall, DeleteTopic, CreateTopic, UpdateTopic,
         EndTopic, Once, tx, tables
<1>3. PICK l \in {"old", "new", "write", "done"} : pc' = [pc EXCEPT ![q] = l]
  BY DEF Updating, GetOld, GetNew, Write, TopicCall, DeleteTopic, CreateTopic, UpdateTopic, EndTopic, Once, Goto
<1>4. TxInv'
  BY <1>1, <1>2, <1>3, OtherStep
<1>5. FlagKept
  BY <1>1, <1>2, SameFlags DEF tables
<1>6. TopicInv' /\ EmbModels /\ \A t \in Topic : RowKept(t)
  <2>1. CASE Updating(q)
    BY <1>1, <2>1, GetOldIsOK, GetNewIsOK, WriteIsOK DEF Updating
  <2>2. ASSUME NEW t \in Topic, DeleteTopic(q, t)
        PROVE  TopicInv' /\ EmbModels /\ \A s \in Topic : RowKept(s)
    <3>1. /\ Once(q) /\ Live(t) /\ bind' = [bind EXCEPT ![t] = Gone]
          /\ model' = model /\ unbound' = unbound /\ unled' = unled
      BY <2>2 DEF DeleteTopic, Live, tables
    <3> DEFINE b == Gone
    <3>2. /\ b \in Binding \union {Gone} /\ bind' = [bind EXCEPT ![t] = b] /\ b = Gone
          /\ unbound' = IF b # Gone /\ b["emb"] = None THEN unbound \union {t} ELSE unbound
      BY <3>1
    <3> HIDE DEF b
    <3> QED BY <1>1, <3>1, <3>2, FreshTopics
  <2>3. ASSUME NEW t \in Topic, NEW b \in Asked, CreateTopic(q, t, b)
        PROVE  TopicInv' /\ EmbModels /\ \A s \in Topic : RowKept(s)
    <3>1. /\ Once(q) /\ bind[t] = None /\ Consistent(b["prompt"], b["llm"])
          /\ bind' = [bind EXCEPT ![t] = b] /\ model' = model /\ unled' = unled
          /\ unbound' = IF b["emb"] = None THEN unbound \union {t} ELSE unbound
      BY <2>3 DEF CreateTopic, tables
    <3>2. b \in Binding /\ b # Gone
      BY ConfigsAssumption
    <3>3. unbound' = IF b # Gone /\ b["emb"] = None THEN unbound \union {t} ELSE unbound
      BY <3>1, <3>2
    <3>4. /\ b \in Binding \union {Gone} /\ (b = Gone => Live(t))
          /\ b # Gone => bind[t] = None /\ Consistent(b["prompt"], b["llm"])
      BY <3>1, <3>2
    <3> QED BY <1>1, <3>1, <3>3, <3>4, FreshTopics, Zenon
  <2>4. ASSUME NEW t \in Topic, NEW b \in Asked, UpdateTopic(q, t, b)
        PROVE  TopicInv' /\ EmbModels /\ \A s \in Topic : RowKept(s)
    <3>1. b \in Binding
      BY ConfigsAssumption
    <3> QED BY <1>1, <2>4, <3>1, UpdateTopicIsOK
  <2> QED BY <2>1, <2>2, <2>3, <2>4 DEF TopicCall
<1> QED BY <1>4, <1>5, <1>6 DEF Inv, Kept

LEMMA NextIsOK == Inv /\ Next => Inv' /\ Kept
<1> SUFFICES ASSUME Inv, Next PROVE Inv' /\ Kept
  OBVIOUS
<1>1. PICK q \in Call :
        \/ Transaction(q) \/ Rollback(q) \/ Updating(q)
        \/ APIKeyCall(q) \/ LLMCall(q) \/ EmbeddingCall(q) \/ PromptCall(q) \/ BackendCall(q)
        \/ TopicCall(q)
  BY DEF Next
<1>2. CASE Transaction(q) \/ Rollback(q)
  BY <1>2, TransactionSteps
<1>3. CASE Updating(q) \/ TopicCall(q)
  BY <1>3, TopicCalls
<1>4. ASSUME NEW c \in Config, NEW k \in ApiKey \union {None}, Moved(q, c) \/ Made(q, c, k)
      PROVE  Inv' /\ Kept
  <2>1. CASE SetDefault(q, c) \/ CreateDefault(q, c, k)
    BY <2>1, BeginSteps
  <2>2. CASE Create(q, c, k) \/ Delete(q, c)
    BY <2>2, ConfigSteps
  <2> QED BY <1>4, <2>1, <2>2 DEF Moved, Made
<1>5. ASSUME NEW c \in Config, c \in Keyed, NEW k \in ApiKey \union {None}, NEW m \in Model, Update(q, c, k, m)
      PROVE  Inv' /\ Kept
  BY <1>5, ConfigSteps
<1>6. /\ ApiKey \subseteq Config /\ LLM \subseteq Config /\ Emb \subseteq Config
      /\ Prompt \subseteq Config /\ Backend \subseteq Config /\ LLM \subseteq Keyed /\ Emb \subseteq Keyed
  BY DEF Config, Kinds, Keyed
<1>7. CASE APIKeyCall(q) \/ PromptCall(q) \/ BackendCall(q)
  BY <1>4, <1>6, <1>7 DEF APIKeyCall, PromptCall, BackendCall
<1>8. CASE LLMCall(q)
  <2>1. PICK c \in LLM :
          \/ Moved(q, c) \/ \E k \in ApiKey : Made(q, c, k)
          \/ \E k \in ApiKey \union {None}, m \in Model : Update(q, c, k, m)
    BY <1>8 DEF LLMCall
  <2> QED BY <1>4, <1>5, <1>6, <2>1
<1>9. CASE EmbeddingCall(q)
  <2>1. PICK c \in Emb :
          \/ Moved(q, c) \/ \E k \in ApiKey : Made(q, c, k)
          \/ \E k \in ApiKey, m \in Model : Update(q, c, k, m)
    BY <1>9 DEF EmbeddingCall
  <2> QED BY <1>4, <1>5, <1>6, <2>1
<1> QED BY <1>1, <1>2, <1>3, <1>7, <1>8, <1>9

LEMMA InitIsOK == Init => Inv
<1> SUFFICES ASSUME Init PROVE Inv
  OBVIOUS
<1>1. TableTypes /\ TxTypes
  BY ConfigsAssumption DEF Init, TableTypes, TxTypes, NoOp
<1>2. \A q \in Call : pc[q] = "idle"
  BY DEF Init
<1>3. (\A q \in Call : TxOK(q)) /\ (\A q, r \in Call : PairOK(q, r)) /\ \A q \in Call : UpdateOK(q)
  BY <1>2 DEF TxOK, PairOK, UpdateOK, InTx, Updates
<1>4. OneDefault
  BY DEF Init, OneDefault
<1>5. KeysExist
  <2> SUFFICES ASSUME NEW c \in Keyed, row[c] = "here" PROVE row[key[c]] = "here"
    BY DEF KeysExist, Here
  <2>1. c \in Config /\ c \in Initial
    BY KindsAreKinds DEF Init
  <2>2. KeyOf[c] \in Initial /\ KeyOf[c] \in Config
    BY <2>1, ConfigsAssumption
  <2> QED BY <2>2 DEF Init
<1>6. TopicTypes
  <2>1. NoReq \in [topic : Topic \union {None}, ask : Binding \union {None},
                   emb : Emb \union {None}, model : Model \union {None}]
    BY DEF NoReq
  <2>2. bind \in [Topic -> Binding \union {None, Gone}]
    BY ConfigsAssumption DEF Init
  <2> QED BY <2>1, <2>2 DEF Init, TopicTypes
<1>7. ASSUME NEW t \in Topic PROVE TopicOK(t)
  <2>1. Bound[t] # None => Consistent(Bound[t]["prompt"], Bound[t]["llm"])
    BY ConfigsAssumption
  <2> QED BY <2>1 DEF TopicOK, Live, Init, EmbOf
<1> QED BY <1>1, <1>3, <1>4, <1>5, <1>6, <1>7 DEF Inv, TxInv, TopicInv

LEMMA Always == Spec => []Inv
<1>1. Inv /\ UNCHANGED vars => Inv'
  <2> SUFFICES ASSUME Inv, UNCHANGED vars PROVE Inv'
    OBVIOUS
  <2> USE DEF vars, tables, topics, tx
  <2>1. TableTypes' /\ TxTypes' /\ OneDefault' /\ KeysExist' /\ TopicTypes'
    BY DEF Inv, TxInv, TopicInv, TableTypes, TxTypes, TopicTypes, OneDefault, KeysExist, Here
  <2>2. ASSUME NEW q \in Call PROVE TxOK(q)' /\ UpdateOK(q)'
    <3>1. TxOK(q) /\ UpdateOK(q)
      BY DEF Inv, TxInv, TopicInv
    <3>2. TxOK(q)'
      BY <3>1 DEF TxOK, InTx, Here, FlagFree
    <3>3. UpdateOK(q)'
      BY <3>1 DEF UpdateOK, Updates, Target, Wants, Live, EmbOf
    <3> QED BY <3>2, <3>3
  <2>3. ASSUME NEW q \in Call, NEW r \in Call PROVE PairOK(q, r)'
    BY PairStays DEF Inv, TxInv
  <2>4. ASSUME NEW t \in Topic PROVE TopicOK(t)'
    <3>1. TopicOK(t)
      BY DEF Inv, TopicInv
    <3> QED BY <3>1 DEF TopicOK, Live, EmbOf
  <2> QED BY <2>1, <2>2, <2>3, <2>4 DEF Inv, TxInv, TopicInv
<1>2. Inv /\ [Next]_vars => Inv'
  BY <1>1, NextIsOK
<1> QED BY <1>2, InitIsOK, PTL DEF Spec

\* The types of the state.
THEOREM TypeCorrect == Spec => []TypeOK
<1>1. Inv => TypeOK
  BY DEF Inv, TxInv, TopicInv, TableTypes, TxTypes, TopicTypes, TypeOK
<1> QED BY <1>1, Always, PTL

\* However many calls set a default at once, no two rows of a kind have the flag
\* (API_REFERENCE.md:722).
THEOREM SingleDefault == Spec => []OneDefault
<1>1. Inv => OneDefault
  BY DEF Inv, TxInv
<1> QED BY <1>1, Always, PTL

\* A kind that has a default keeps one until that row is deleted, also when the
\* transaction that moves the flag fails, is lost or waits for another.
THEOREM DefaultStays == Spec => DefaultIsKept
<1>1. Inv /\ Next => \A c \in dflt : Here(c)' => \E d \in dflt' : SameKind(c, d)
  BY NextIsOK DEF Kept, FlagKept
<1>2. Inv /\ UNCHANGED vars => \A c \in dflt : Here(c)' => \E d \in dflt' : SameKind(c, d)
  BY SameFlags DEF Inv, FlagKept, vars, tables
<1>3. Inv /\ [Next]_vars => [\A c \in dflt : Here(c)' => \E d \in dflt' : SameKind(c, d)]_vars
  BY <1>1, <1>2
<1> QED BY <1>3, Always, PTL DEF Spec, DefaultIsKept

\* A configuration refers to an API key that exists, also when the key is deleted
\* while the configuration is being inserted.
THEOREM KeysStay == Spec => []KeysExist
<1>1. Inv => KeysExist
  BY DEF Inv, TxInv
<1> QED BY <1>1, Always, PTL

\* A topic with an extraction prompt has an LLM to run it, unless the LLM's
\* configuration has been deleted under it (topic.go:51, 162).
THEOREM PromptIsRun == Spec => []PromptHasLLM
<1>1. Inv => PromptHasLLM
  BY DEF Inv, TopicInv, TopicOK, PromptHasLLM, Live
<1> QED BY <1>1, Always, PTL

\* No interleaving of updates, each of which has checked a row that another one
\* may write, changes the model of a topic's vectors (topic.go:178).
THEOREM OneModel == Spec => ModelIsStable
<1> DEFINE A == \A t \in Topic \ unbound' :
                   bind[t] \notin {None, Gone} /\ bind'[t] # Gone
                     => model[bind[t]["emb"]] = model'[bind'[t]["emb"]]
<1>1. Inv /\ Next => A
  <2> SUFFICES ASSUME Inv, Next, NEW t \in Topic, t \notin unbound',
                      bind[t] \notin {None, Gone}, bind'[t] # Gone
               PROVE  model[bind[t]["emb"]] = model'[bind'[t]["emb"]]
    OBVIOUS
  <2>1. EmbModels /\ RowKept(t) /\ TopicOK(t) /\ TopicTypes
    BY NextIsOK DEF Kept, Inv, TopicInv
  <2>2. t \notin unbound /\ model'[bind[t]["emb"]] = model'[bind'[t]["emb"]]
    BY <2>1 DEF RowKept, Live, EmbOf
  <2>3. bind[t]["emb"] \in Emb
    BY <2>1, <2>2, LiveBinding, Fields DEF TopicOK, Live, EmbOf
  <2> QED BY <2>1, <2>2, <2>3 DEF EmbModels
<1>2. Inv /\ [Next]_vars => [A]_vars
  BY <1>1
<1> QED BY <1>2, Always, PTL DEF Spec, ModelIsStable
=============================================================================
