---------------------------- MODULE AccessProofs ----------------------------
(***************************************************************************)
(* Requests are carried out only on topics on which their caller had the   *)
(* permission for it, and a search misses nothing that its caller could    *)
(* have found, whatever runs between their queries; and what module        *)
(* KeysProofs shows of the keys holds next to the requests.                *)
(***************************************************************************)
EXTENDS Access, KeysProofs, FiniteSetTheorems, FunctionTheorems

Searching == {"grants", "owned", "chunks", "vectors", "rows", "topics"}
Checking  == {"doc", "owner", "check", "act"}

RequestTypes ==
    /\ topics \subseteq Topic
    /\ grants \in [Topic -> [Identity -> Permission]]
    /\ step \in [Request -> Searching \union Checking \union {"idle", "done", "failed"}]
    /\ ask \in [Request -> Ask \union {NoAsk}]
    /\ scope \in [Request -> SUBSET Topic]
    /\ found \in [Request -> SUBSET Chunk]
    /\ had \in [Request -> SUBSET Topic]
    /\ DOMAIN who = Request

\* The grants of a topic go with it.
GrantsOK == \A t \in Topic \ topics : \A i \in Identity : grants[t][i] = "none"

RequestOK(r) ==
    /\ step[r] \in Searching => ask[r].kind = "search"
    /\ step[r] \in Checking => ask[r].kind # "search"
    /\ step[r] \in Searching \ {"grants"} => scope[r] \subseteq had[r]
    /\ step[r] = "act" => scope[r] \subseteq had[r]
    /\ step[r] = "done" /\ ask[r].kind # "search" => scope[r] \subseteq had[r]
    /\ step[r] \in {"idle", "grants", "owned", "chunks"} => found[r] = {}
    /\ ask[r].kind = "search" => \A c \in found[r] : TopicOfChunk(c) \in had[r]

AInv == RequestTypes /\ GrantsOK /\ \A r \in Request : RequestOK(r)
-----------------------------------------------------------------------------
\* The steps of keys are those of module Keys, and the other ones leave them alone.
LEMMA KeySteps == Spec => KeysSpec
<1>1. Init => KeysInit
  BY DEF Init
<1>2. [Next]_vars => [KeysNext]_keyVars
  BY DEF Next, Step, vars
<1> QED BY <1>1, <1>2, PTL DEF Spec, KeysSpec

\* Next to the requests, what is retired stays retired, a revocation holds, and
\* an account has an active key until its keys are revoked.
THEOREM KeysHold == Spec => RetiredForGood /\ []RevocationHolds /\ []NobodyIsLockedOut
BY KeySteps, NoRevival, Revoked, NotLockedOut, PTL
-----------------------------------------------------------------------------
LEMMA StartsOK == Init => AInv
<1> SUFFICES ASSUME Init PROVE AInv
  OBVIOUS
<1>1. RequestTypes
  BY AccessAssumption DEF Init, RequestTypes
<1>2. GrantsOK
  BY DEF Init, GrantsOK
<1>3. \A r \in Request : RequestOK(r)
  BY DEF Init, RequestOK, Searching, Checking
<1> QED BY <1>1, <1>2, <1>3 DEF AInv

\* What is observed of a request is kept, and holds what it may do now.
LEMMA HadGrows ==
    ASSUME RequestTypes, Observe, topics' \subseteq Topic
    PROVE  /\ had' \in [Request -> SUBSET Topic]
           /\ \A r \in Request : had[r] \subseteq had'[r]
           /\ \A r \in Request : Running(r)' => Permitted(r)' \subseteq had'[r]
<1>1. \A r \in Request : Permitted(r)' \subseteq Topic
  BY DEF Permitted
<1> QED BY <1>1 DEF Observe, RequestTypes

LEMMA RequestStays ==
    ASSUME RequestTypes, NEW r \in Request, RequestOK(r), had[r] \subseteq had'[r],
           step'[r] = step[r], ask'[r] = ask[r], scope'[r] = scope[r], found'[r] = found[r]
    PROVE  RequestOK(r)'
BY DEF RequestOK

\* A request that moves, and stays right.
LEMMA OneRequest ==
    ASSUME AInv, Observe, RequestTypes', GrantsOK', NEW r \in Request, RequestOK(r)',
           \A s \in Request \ {r} : /\ step'[s] = step[s] /\ ask'[s] = ask[s]
                                    /\ scope'[s] = scope[s] /\ found'[s] = found[s]
    PROVE  AInv'
<1>1. \A s \in Request : had[s] \subseteq had'[s]
  BY HadGrows DEF AInv, RequestTypes
<1>2. ASSUME NEW s \in Request \ {r} PROVE RequestOK(s)'
  BY <1>1, RequestStays DEF AInv
<1> QED BY <1>2 DEF AInv

\* No request moves, and grants stay.
LEMMA NoRequest ==
    ASSUME AInv, Observe, UNCHANGED <<topics, grants, requests>>
    PROVE  AInv'
<1>1. /\ had' \in [Request -> SUBSET Topic] /\ \A s \in Request : had[s] \subseteq had'[s]
  BY HadGrows DEF AInv, RequestTypes
<1>2. RequestTypes' /\ GrantsOK'
  BY <1>1 DEF AInv, RequestTypes, GrantsOK, requests
<1>3. \A s \in Request : RequestOK(s)'
  BY <1>1, RequestStays DEF AInv, requests
<1> QED BY <1>2, <1>3 DEF AInv

\* Grants are looked up by the identities of the caller.
LEMMA ToPermitted ==
    ASSUME RequestTypes, NEW r \in Request, UNCHANGED <<topics, grants, who, ask>>
    PROVE  Permitted(r)' = Permitted(r)
BY DEF Permitted, Allowed, Owns, Grants
-----------------------------------------------------------------------------
LEMMA SearchIsOK ==
    ASSUME AInv, Observe, NEW r \in Request, Search(r)
    PROVE  AInv'
<1>t. RequestTypes /\ GrantsOK /\ RequestOK(r)
  BY DEF AInv
<1>1. UNCHANGED <<topics, grants, who, ask>> /\ step[r] \in Searching /\ ask[r].kind = "search"
  BY <1>t DEF Search, ReadGrants, ReadOwned, ReadChunkIDs, SearchVectors, ReadRows, ReadTopics, data,
             Searching, RequestOK
<1>2. /\ had' \in [Request -> SUBSET Topic] /\ \A s \in Request : had[s] \subseteq had'[s]
      /\ Running(r)' => Permitted(r) \subseteq had'[r]
  BY <1>t, <1>1, HadGrows, ToPermitted DEF RequestTypes
<1>3. Permitted(r) = {t \in topics : Owns(who[r], t) \/ Grants(who[r], t, "read")}
  BY <1>1 DEF Permitted, Allowed, Action
<1>4. GrantsOK'
  BY <1>t, <1>1 DEF GrantsOK
<1>5. ASSUME ReadGrants(r) PROVE AInv'
  <2> DEFINE ts == {t \in topics : Grants(who[r], t, "read")}
  <2>1. /\ step' = [step EXCEPT ![r] = "owned"] /\ scope' = [scope EXCEPT ![r] = ts] /\ found' = found
        /\ step[r] = "grants"
    BY <1>5 DEF ReadGrants, Goto, Scope
  <2>2. ts \subseteq Topic /\ ts \subseteq had'[r]
    BY <1>t, <1>2, <1>3, <2>1 DEF RequestTypes, Running
  <2> HIDE DEF ts
  <2>3. RequestTypes'
    BY <1>t, <1>1, <1>2, <2>1, <2>2 DEF RequestTypes, Searching
  <2>4. RequestOK(r)'
    BY <1>t, <1>1, <2>1, <2>2 DEF RequestTypes, RequestOK, Searching, Checking
  <2> QED BY <1>t, <1>1, <1>4, <2>1, <2>3, <2>4, OneRequest DEF RequestTypes
<1>6. ASSUME ReadOwned(r) PROVE AInv'
  <2> DEFINE ts == Resolved(r)
             l  == IF Resolved(r) = {} THEN "done" ELSE "chunks"
  <2>1. /\ step' = [step EXCEPT ![r] = l] /\ scope' = [scope EXCEPT ![r] = ts] /\ found' = found
        /\ step[r] = "owned"
    BY <1>6 DEF ReadOwned, Goto, Scope
  <2>2. ts \subseteq Topic /\ l \in {"done", "chunks"} /\ (l = "done" => ts = {})
    BY <1>t DEF Resolved, RequestTypes
  <2>3. step'[r] = l /\ scope'[r] = ts
    BY <1>t, <2>1 DEF RequestTypes
  <2>4. l = "chunks" => ts \subseteq had'[r]
    <3>1. ASSUME l = "chunks" PROVE Permitted(r) \subseteq had'[r] /\ scope[r] \subseteq had'[r]
      BY <1>t, <1>2, <2>1, <2>3, <3>1 DEF Running, RequestOK, Searching
    <3> QED BY <1>3, <3>1 DEF Resolved
  <2> HIDE DEF ts, l
  <2>5. RequestTypes'
    BY <1>t, <1>1, <1>2, <2>1, <2>2 DEF RequestTypes, Searching
  <2>6. RequestOK(r)'
    BY <1>t, <1>1, <2>1, <2>2, <2>3, <2>4 DEF RequestOK, Searching, Checking
  <2> QED BY <1>t, <1>1, <1>4, <2>1, <2>5, <2>6, OneRequest DEF RequestTypes
<1>7. ASSUME ReadChunkIDs(r) PROVE AInv'
  <2> DEFINE cs == {c \in Chunk : chunk[c] = "active" /\ TopicOfChunk(c) \in scope[r] /\ DocOf[c] # ask[r].doc}
             l  == IF cs = {} THEN "done" ELSE "vectors"
  <2>1. /\ step' = [step EXCEPT ![r] = l] /\ found' = [found EXCEPT ![r] = cs] /\ scope' = scope
        /\ step[r] = "chunks"
    BY <1>7 DEF ReadChunkIDs, Goto, Found
  <2>2. cs \subseteq Chunk /\ l \in {"done", "vectors"} /\ \A c \in cs : TopicOfChunk(c) \in scope[r]
    OBVIOUS
  <2> HIDE DEF cs, l
  <2>3. step'[r] = l /\ found'[r] = cs /\ scope[r] \subseteq had'[r]
    BY <1>t, <1>2, <2>1 DEF RequestTypes, RequestOK, Searching
  <2>4. RequestTypes'
    BY <1>t, <1>1, <1>2, <2>1, <2>2 DEF RequestTypes, Searching
  <2>5. RequestOK(r)'
    BY <1>t, <1>1, <2>1, <2>2, <2>3 DEF RequestOK, Searching, Checking, TopicOfChunk
  <2> QED BY <1>t, <1>1, <1>4, <2>1, <2>4, <2>5, OneRequest DEF RequestTypes
<1>8. ASSUME SearchVectors(r) \/ ReadRows(r) \/ ReadTopics(r) PROVE AInv'
  <2>1. PICK cs, l : /\ step' = [step EXCEPT ![r] = l] /\ found' = [found EXCEPT ![r] = cs]
                     /\ cs \subseteq found[r] /\ l \in {"rows", "topics", "done"}
    <3>1. CASE SearchVectors(r)
      <4> DEFINE cs == Nearest(found[r] \intersect index)
                 l  == IF cs = {} THEN "done" ELSE "rows"
      <4>1. /\ step' = [step EXCEPT ![r] = l] /\ found' = [found EXCEPT ![r] = cs]
            /\ cs \subseteq found[r] /\ l \in {"rows", "done"}
        BY <3>1 DEF SearchVectors, Goto, Found, Nearest
      <4> HIDE DEF cs, l
      <4> QED BY <4>1
    <3>2. CASE ReadRows(r)
      BY <3>2 DEF ReadRows, Goto, Found
    <3>3. CASE ReadTopics(r)
      BY <3>3 DEF ReadTopics, Goto, Found
    <3> QED BY <1>8, <3>1, <3>2, <3>3
  <2>2. scope' = scope /\ step[r] \in {"vectors", "rows", "topics"}
    BY <1>8 DEF SearchVectors, ReadRows, ReadTopics
  <2>3. step'[r] = l /\ found'[r] = cs /\ scope[r] \subseteq had'[r]
    BY <1>t, <1>2, <2>1, <2>2 DEF RequestTypes, RequestOK, Searching
  <2>4. RequestTypes'
    BY <1>t, <1>1, <1>2, <2>1, <2>2 DEF RequestTypes, Searching
  <2>5. \A c \in cs : TopicOfChunk(c) \in had'[r]
    BY <1>t, <1>1, <1>2, <2>1 DEF RequestOK
  <2>6. RequestOK(r)'
    BY <1>t, <1>1, <2>1, <2>2, <2>3, <2>5 DEF RequestOK, Searching, Checking, TopicOfChunk
  <2> QED BY <1>t, <1>1, <1>4, <2>1, <2>2, <2>4, <2>6, OneRequest DEF RequestTypes
<1> QED BY <1>5, <1>6, <1>7, <1>8 DEF Search
-----------------------------------------------------------------------------
\* Who has a sufficient grant may do it: the topic is there.
LEMMA GrantedIsAllowed ==
    ASSUME GrantsOK, NEW r \in Request, NEW t \in Topic, Grants(who[r], t, Action(ask[r].kind))
    PROVE  t \in Permitted(r)
<1>1. PICK i \in Identity : PermissionLevel(grants[t][i]) >= PermissionLevel(Action(ask[r].kind))
  BY DEF Grants
<1>2. PermissionLevel(Action(ask[r].kind)) \in {1, 3}
  BY DEF Action, PermissionLevel
<1>3. grants[t][i] # "none"
  <2>1. PermissionLevel("none") = 0
    BY DEF PermissionLevel
  <2> QED BY <1>1, <1>2, <2>1
<1>4. t \in topics
  BY <1>3 DEF GrantsOK
<1> QED BY <1>4 DEF Permitted, Allowed

\* A request that has been asked for an action on topics.
LEMMA CheckedIsOK ==
    ASSUME AInv, docs \subseteq Doc, Observe, NEW r \in Request, Checked(r)
    PROVE  AInv'
<1>t. /\ RequestTypes /\ GrantsOK /\ RequestOK(r) /\ scope[r] \subseteq Topic
      /\ ask[r] \in Ask \union {NoAsk}
  BY DEF AInv, RequestTypes
<1>1. UNCHANGED <<who, ask>> /\ step[r] \in Checking /\ ask[r].kind # "search"
  BY <1>t DEF Checked, ReadDocument, ReadOwner, CheckGrants, Act, GetContext, GrantAccess, RevokeAccess,
             DeleteTopic, DeleteDocument, Checking, RequestOK
<1>2. CASE UNCHANGED <<topics, grants>>
  <2>1. /\ had' \in [Request -> SUBSET Topic] /\ \A s \in Request : had[s] \subseteq had'[s]
        /\ Running(r)' => Permitted(r) \subseteq had'[r]
    BY <1>t, <1>1, <1>2, HadGrows, ToPermitted DEF RequestTypes
  <2>2. GrantsOK'
    BY <1>t, <1>2 DEF GrantsOK
  <2>3. ASSUME ReadDocument(r) PROVE AInv'
    <3>1. PICK l \in {"owner", "failed"} : step' = [step EXCEPT ![r] = l]
      BY <2>3 DEF ReadDocument, Goto
    <3>2. scope' = scope \/ (scope' = [scope EXCEPT ![r] = {TopicOf[ask[r].doc]}] /\ ask[r].doc \in docs)
      BY <2>3 DEF ReadDocument, Scope
    <3>3. step[r] = "doc" /\ UNCHANGED <<found, docs>>
      BY <2>3 DEF ReadDocument, data
    <3>4. scope' \in [Request -> SUBSET Topic] /\ \A q \in Request \ {r} : scope'[q] = scope[q]
      <4>1. CASE scope' = scope
        BY <1>t, <4>1 DEF RequestTypes
      <4>2. CASE scope' # scope
        <5>1. TopicOf[ask[r].doc] \in Topic
          BY <3>2, <4>2, AccessAssumption DEF RequestTypes
        <5> QED BY <1>t, <3>2, <4>2, <5>1 DEF RequestTypes
      <4> QED BY <4>1, <4>2
    <3>5. RequestTypes'
      BY <1>t, <1>1, <1>2, <2>1, <3>1, <3>3, <3>4 DEF RequestTypes, Checking
    <3>6. RequestOK(r)'
      BY <1>t, <1>1, <3>1, <3>3 DEF RequestTypes, RequestOK, Searching, Checking
    <3> QED BY <1>t, <1>1, <2>2, <3>1, <3>3, <3>4, <3>5, <3>6, OneRequest DEF RequestTypes
  <2>4. ASSUME NEW l \in {"act", "check", "failed", "done"}, step' = [step EXCEPT ![r] = l], scope' = scope,
               \A q \in Request \ {r} : found'[q] = found[q], found' \in [Request -> SUBSET Chunk],
               l \in {"act", "done"} => scope[r] \subseteq had'[r]
        PROVE  AInv'
    <3>1. step'[r] = l
      BY <1>t, <2>4 DEF RequestTypes
    <3>2. RequestTypes'
      BY <1>t, <1>1, <1>2, <2>1, <2>4 DEF RequestTypes, Checking
    <3>3. RequestOK(r)'
      BY <1>t, <1>1, <2>4, <3>1 DEF RequestOK, Searching, Checking
    <3> QED BY <1>t, <1>1, <2>2, <2>4, <3>2, <3>3, OneRequest DEF RequestTypes
  <2>5. ASSUME ReadOwner(r) PROVE AInv'
    <3> DEFINE l == IF scope[r] \subseteq topics
                    THEN IF \A t \in scope[r] : Owns(who[r], t) THEN "act" ELSE "check"
                    ELSE "failed"
    <3>1. step' = [step EXCEPT ![r] = l] /\ scope' = scope /\ found' = found
      BY <2>5 DEF ReadOwner, Goto
    <3>2. l = "act" => scope[r] \subseteq Permitted(r)
      BY DEF Permitted, Allowed
    <3>3. l \in {"act", "check", "failed"}
      OBVIOUS
    <3> HIDE DEF l
    <3>4. l = "act" => Running(r)'
      BY <1>t, <3>1 DEF Running, RequestTypes
    <3> QED BY <1>t, <2>1, <2>4, <3>1, <3>2, <3>3, <3>4 DEF RequestTypes
  <2>6. ASSUME CheckGrants(r) PROVE AInv'
    <3> DEFINE l == IF Sufficient(r) THEN "act" ELSE "failed"
    <3>1. step' = [step EXCEPT ![r] = l] /\ scope' = scope /\ found' = found
      BY <2>6 DEF CheckGrants, Goto
    <3>2. l = "act" => scope[r] \subseteq Permitted(r)
      BY <1>t, GrantedIsAllowed DEF Sufficient
    <3>3. l \in {"act", "failed"}
      OBVIOUS
    <3> HIDE DEF l
    <3>4. l = "act" => Running(r)'
      BY <1>t, <3>1 DEF Running, RequestTypes
    <3> QED BY <1>t, <2>1, <2>4, <3>1, <3>2, <3>3, <3>4 DEF RequestTypes
  <2>7. ASSUME GetContext(r) PROVE AInv'
    <3> DEFINE cs == {c \in Chunk : DocOf[c] = ask[r].doc /\ chunk[c] = "active"}
    <3>1. /\ step' = [step EXCEPT ![r] = "done"] /\ scope' = scope
          /\ found' = [found EXCEPT ![r] = cs] /\ step[r] = "act"
      BY <2>7 DEF GetContext, Goto, Found, Act
    <3>2. cs \in SUBSET Chunk
      OBVIOUS
    <3> HIDE DEF cs
    <3>3. scope[r] \subseteq had'[r]
      BY <1>t, <2>1, <3>1 DEF RequestOK
    <3> QED BY <1>t, <2>4, <3>1, <3>2, <3>3 DEF RequestTypes
  <2>8. ASSUME Act(r, ask[r].kind), NEW l \in {"done", "failed"}, step' = [step EXCEPT ![r] = l],
               UNCHANGED <<scope, found>>
        PROVE  AInv'
    <3>1. scope[r] \subseteq had'[r]
      BY <1>t, <2>1, <2>8 DEF RequestOK, Act
    <3> QED BY <1>t, <2>4, <2>8, <3>1 DEF RequestTypes
  <2>9. ASSUME GrantAccess(r) \/ RevokeAccess(r) \/ DeleteTopic(r) \/ DeleteDocument(r) PROVE AInv'
    <3>1. /\ Act(r, ask[r].kind) /\ UNCHANGED <<scope, found>>
          /\ \E l \in {"done", "failed"} : step' = [step EXCEPT ![r] = l]
      BY <2>9 DEF GrantAccess, RevokeAccess, DeleteTopic, DeleteDocument, Goto, Act
    <3> QED BY <2>8, <3>1
  <2> QED BY <2>3, <2>5, <2>6, <2>7, <2>9 DEF Checked
<1>3. CASE ~UNCHANGED <<topics, grants>>
  <2>1. GrantAccess(r) \/ RevokeAccess(r) \/ DeleteTopic(r)
    BY <1>3 DEF Checked, ReadDocument, ReadOwner, CheckGrants, GetContext, DeleteDocument, data
  <2>2. /\ step[r] = "act" /\ UNCHANGED <<scope, found>>
        /\ \E l \in {"done", "failed"} : step' = [step EXCEPT ![r] = l]
    BY <2>1 DEF GrantAccess, RevokeAccess, DeleteTopic, Goto, Act
  <2>3. topics' \subseteq topics /\ grants' \in [Topic -> [Identity -> Permission]] /\ GrantsOK'
    <3>1. CASE GrantAccess(r)
      <4>1. /\ grants' = [t \in Topic |-> IF t \in scope[r]
                             THEN [grants[t] EXCEPT ![ask[r].to] = ask[r].permission] ELSE grants[t]]
            /\ scope[r] \subseteq topics /\ topics' = topics
        BY <1>3, <3>1 DEF GrantAccess
      <4>2. ask[r].permission \in Permission
        BY <1>t, AccessAssumption DEF NoAsk, Permission
      <4>3. \A t \in Topic : [grants[t] EXCEPT ![ask[r].to] = ask[r].permission] \in [Identity -> Permission]
        BY <1>t, <4>2 DEF RequestTypes
      <4> QED BY <1>t, <4>1, <4>3 DEF RequestTypes, GrantsOK
    <3>2. CASE RevokeAccess(r)
      <4>1. /\ grants' = [t \in Topic |-> IF t \in scope[r] THEN [grants[t] EXCEPT ![ask[r].to] = "none"]
                                          ELSE grants[t]]
            /\ topics' = topics
        BY <3>2 DEF RevokeAccess
      <4>2. \A t \in Topic : [grants[t] EXCEPT ![ask[r].to] = "none"] \in [Identity -> Permission]
        BY <1>t DEF RequestTypes, Permission
      <4>3. \A t \in Topic \ topics : \A i \in Identity : [grants[t] EXCEPT ![ask[r].to] = "none"][i] = "none"
        BY <1>t DEF RequestTypes, GrantsOK
      <4> QED BY <1>t, <4>1, <4>2, <4>3 DEF RequestTypes, GrantsOK
    <3>3. CASE DeleteTopic(r)
      <4>1. /\ grants' = [t \in Topic |-> IF t \in scope[r] THEN [i \in Identity |-> "none"] ELSE grants[t]]
            /\ topics' = topics \ scope[r]
        BY <3>3 DEF DeleteTopic
      <4> QED BY <1>t, <4>1 DEF RequestTypes, GrantsOK, Permission
    <3> QED BY <2>1, <3>1, <3>2, <3>3
  <2>4. /\ had' \in [Request -> SUBSET Topic] /\ \A s \in Request : had[s] \subseteq had'[s]
    BY <1>t, <2>3, HadGrows DEF RequestTypes
  <2>5. RequestTypes'
    BY <1>t, <1>1, <2>2, <2>3, <2>4 DEF RequestTypes, Checking
  <2>6. RequestOK(r)'
    BY <1>t, <1>1, <2>2, <2>4 DEF RequestTypes, RequestOK, Searching, Checking
  <2> QED BY <1>t, <1>1, <2>2, <2>3, <2>5, <2>6, OneRequest DEF RequestTypes
<1> QED BY <1>2, <1>3

LEMMA EnterIsOK ==
    ASSUME AInv, Observe, NEW r \in Request, Enters(r)
    PROVE  AInv'
<1>t. RequestTypes /\ GrantsOK /\ RequestOK(r)
  BY DEF AInv
<1>0. PICK o \in Ask : \E p : Enter(r, o, p)
  BY DEF Enters, EnterByKey, EnterByToken
<1>1. PICK p : Enter(r, o, p)
  BY <1>0
<1>2. /\ step' = [step EXCEPT ![r] = FirstStep(o.kind)] /\ step[r] = "idle"
      /\ ask' = [ask EXCEPT ![r] = o] /\ who' = [who EXCEPT ![r] = p]
      /\ scope' = [scope EXCEPT ![r] = o.topics]
      /\ UNCHANGED <<topics, grants, found>>
  BY <1>1 DEF Enter, Goto, Scope, data
<1>3. /\ FirstStep(o.kind) \in {"grants", "doc", "owner"}
      /\ FirstStep(o.kind) = "grants" <=> o.kind = "search"
  BY DEF FirstStep
<1>4. o.topics \subseteq Topic
  BY AccessAssumption
<1>5. had' \in [Request -> SUBSET Topic] /\ GrantsOK'
  BY <1>t, <1>2, HadGrows DEF RequestTypes, GrantsOK
<1>6. RequestTypes'
  BY <1>t, <1>2, <1>3, <1>4, <1>5 DEF RequestTypes, Searching, Checking
<1>7. RequestOK(r)'
  BY <1>t, <1>2, <1>3 DEF RequestTypes, RequestOK, Searching, Checking
<1> QED BY <1>t, <1>2, <1>5, <1>6, <1>7, OneRequest DEF RequestTypes

LEMMA FailsIsOK ==
    ASSUME AInv, Observe, NEW r \in Request, Fails(r)
    PROVE  AInv'
<1>t. RequestTypes /\ GrantsOK /\ RequestOK(r)
  BY DEF AInv
<1>1. step' = [step EXCEPT ![r] = "failed"] /\ UNCHANGED <<topics, grants, ask, who, scope, found>>
  BY DEF Fails, Goto, data
<1>2. /\ had' \in [Request -> SUBSET Topic] /\ \A s \in Request : had[s] \subseteq had'[s]
  BY <1>t, <1>1, HadGrows DEF RequestTypes
<1>3. RequestTypes' /\ GrantsOK'
  BY <1>t, <1>1, <1>2 DEF RequestTypes, GrantsOK
<1>4. RequestOK(r)'
  BY <1>t, <1>1, <1>2 DEF RequestTypes, RequestOK, Searching, Checking
<1> QED BY <1>t, <1>1, <1>3, <1>4, OneRequest DEF RequestTypes

\* Documents are only deleted here.
LEMMA DocsShrink == [Next]_vars => docs' \subseteq docs
BY DEF Next, Step, vars, data, Enters, EnterByKey, EnterByToken, Enter, Search, ReadGrants, ReadOwned,
       ReadChunkIDs, SearchVectors, ReadRows, ReadTopics, Checked, ReadDocument, ReadOwner, CheckGrants,
       GetContext, GrantAccess, RevokeAccess, DeleteTopic, DeleteDocument, Drop, Fails, Work

LEMMA NextIsOK == AInv /\ docs \subseteq Doc /\ [Next]_vars => AInv'
<1> SUFFICES ASSUME AInv, docs \subseteq Doc, [Next]_vars PROVE AInv'
  OBVIOUS
<1>1. CASE UNCHANGED vars
  BY <1>1 DEF AInv, RequestTypes, GrantsOK, RequestOK, vars, data, requests
<1>2. CASE Next
  <2>1. Observe
    BY <1>2 DEF Next
  <2>2. ASSUME UNCHANGED <<topics, grants, requests>> PROVE AInv'
    BY <2>1, <2>2, NoRequest
  <2>3. \/ UNCHANGED <<topics, grants, requests>>
        \/ \E r \in Request : Enters(r) \/ Search(r) \/ Checked(r) \/ Fails(r)
    BY <1>2 DEF Next, Step, data, Work
  <2> QED BY <2>1, <2>2, <2>3, EnterIsOK, SearchIsOK, CheckedIsOK, FailsIsOK
<1> QED BY <1>1, <1>2

\* Whatever is granted, revoked or deleted between its queries, a search returns
\* chunks of topics that its caller could read at some moment of it, and another
\* request is carried out on topics on which its caller had the permission for it.
THEOREM AuthorizedAlways == Spec => []Authorized
<1>1. Init => AInv /\ docs \subseteq Doc
  BY StartsOK DEF Init
<1>2. AInv /\ docs \subseteq Doc /\ [Next]_vars => AInv' /\ (docs \subseteq Doc)'
  BY NextIsOK, DocsShrink
<1>3. AInv => Authorized
  BY DEF AInv, RequestOK, Authorized
<1> QED BY <1>1, <1>2, <1>3, PTL DEF Spec
-----------------------------------------------------------------------------
(* What a search finds.                                                    *)

DataTypes ==
    /\ docs \subseteq Doc /\ index \subseteq Chunk
    /\ chunk \in [Chunk -> {"none", "active", "compacted", "gone"}]
    /\ who \in [Request -> [id : Account \union User \union {None}, groups : SUBSET Group]]
    /\ could \in [Request -> SUBSET Chunk]

\* Chunks go with their document.
ChunksOK == \A c \in Chunk : DocOf[c] \notin docs => chunk[c] = "gone"

\* TopK others come before a chunk; some of them may be gone.
Behind(r, c) ==
    Cardinality({d \in Chunk : Nearer(d, c) /\ (d \in found[r] \/ chunk[d] = "gone")}) >= TopK

\* What a search still holds of the chunks that its caller could find all the time:
\* their topics, then the chunks, and at last those that are near enough.
CompleteOK(r) ==
    /\ Running(r) => could[r] \subseteq Findable(r)
    /\ step[r] = "owned" =>
          \A c \in could[r] : TopicOfChunk(c) \in scope[r] \/ Owns(who[r], TopicOfChunk(c))
    /\ step[r] = "chunks" => \A c \in could[r] : TopicOfChunk(c) \in scope[r]
    /\ step[r] = "vectors" => could[r] \subseteq found[r]
    /\ step[r] \in {"rows", "topics", "done"} /\ ask[r].kind = "search" =>
          \A c \in could[r] \ found[r] : Behind(r, c)
    /\ step[r] \in {"vectors", "rows", "topics"} => \A c \in found[r] : chunk[c] # "none"

CInv == DataTypes /\ ChunksOK /\ \A r \in Request : CompleteOK(r)
-----------------------------------------------------------------------------
\* The index returns TopK chunks that are nearer than one it leaves out: ranked by
\* how many are nearer, those nearer than it take every rank.
LEMMA NearestIsEnough ==
    ASSUME NEW S \in SUBSET Chunk, NEW c \in S, c \notin Nearest(S)
    PROVE  Cardinality({d \in Nearest(S) : Nearer(d, c)}) >= TopK
<1> DEFINE N == {d \in S : Nearer(d, c)}
<1> DEFINE Before(d) == {e \in N : Nearer(e, d)}
<1> DEFINE f == [d \in N |-> Cardinality(Before(d))]
<1> DEFINE T == 0..(Cardinality(N) - 1)
<1> DEFINE M == {d \in N : Cardinality(Before(d)) < TopK}
<1> DEFINE W == {d \in Nearest(S) : Nearer(d, c)}
<1>1. TopK \in Nat \ {0}
  BY AccessAssumption
<1>2. /\ N \in SUBSET Chunk /\ IsFiniteSet(N) /\ Cardinality(N) \in Nat /\ Cardinality(N) >= TopK
  <2>1. N \in SUBSET Chunk /\ ~(Cardinality(N) < TopK)
    BY DEF Nearest
  <2> HIDE DEF N
  <2>2. IsFiniteSet(N) /\ Cardinality(N) \in Nat
    BY <2>1, RankingAssumption, FS_Subset, FS_CardinalityType
  <2> QED BY <1>1, <2>1, <2>2
<1>3. ASSUME NEW d \in N
      PROVE  /\ IsFiniteSet(Before(d)) /\ Cardinality(Before(d)) \in Nat
             /\ Cardinality(Before(d)) < Cardinality(N)
  <2>1. Before(d) \in SUBSET N /\ d \notin Before(d)
    <3>1. d \in Chunk
      BY <1>2
    <3> QED BY <3>1, RankingAssumption
  <2> HIDE DEF Before, N
  <2>2. IsFiniteSet(Before(d)) /\ Cardinality(Before(d)) \in Nat
    BY <1>2, <2>1, FS_Subset, FS_CardinalityType
  <2>3. Cardinality(Before(d)) <= Cardinality(N) /\ Cardinality(Before(d)) # Cardinality(N)
    BY <1>2, <2>1, FS_Subset
  <2> QED BY <1>2, <2>2, <2>3
<1>4. ASSUME NEW d \in N, NEW e \in N, Nearer(d, e) PROVE Cardinality(Before(d)) < Cardinality(Before(e))
  <2>1. d \in Chunk /\ e \in Chunk /\ N \subseteq Chunk
    BY <1>2
  <2> HIDE DEF N
  <2>2. Before(d) \in SUBSET Before(e) /\ d \in Before(e) /\ d \notin Before(d)
    <3>1. \A x \in N : Nearer(x, d) => Nearer(x, e)
      BY <1>4, <2>1, RankingAssumption
    <3>2. ~Nearer(d, d)
      BY <2>1, RankingAssumption
    <3> QED BY <1>4, <3>1, <3>2
  <2>3. Before(d) # Before(e)
    BY <2>2
  <2> HIDE DEF Before
  <2>4. Cardinality(Before(d)) <= Cardinality(Before(e)) /\ Cardinality(Before(d)) # Cardinality(Before(e))
    BY <1>3, <2>2, <2>3, FS_Subset
  <2> QED BY <1>3, <2>4
<1>5. \A d \in M : d \in W
  <2> SUFFICES ASSUME NEW d \in N, Cardinality(Before(d)) < TopK PROVE d \in W
    OBVIOUS
  <2>1. {e \in S : Nearer(e, d)} = Before(d)
    <3>1. \A e \in S : Nearer(e, d) => Nearer(e, c)
      <4>1. Nearer(d, c) /\ d \in Chunk /\ c \in Chunk /\ S \subseteq Chunk
        OBVIOUS
      <4> QED BY <4>1, RankingAssumption
    <3> QED BY <3>1
  <2>2. d \in Nearest(S)
    BY <2>1 DEF Nearest
  <2> QED BY <2>2
<1>6. IsFiniteSet(W) /\ Cardinality(W) \in Nat
  <2>1. W \in SUBSET Chunk
    BY DEF Nearest
  <2> HIDE DEF W
  <2> QED BY <2>1, RankingAssumption, FS_Subset, FS_CardinalityType
<1> HIDE DEF Before, N, W
<1>7. IsFiniteSet(T) /\ Cardinality(T) = Cardinality(N)
  BY <1>2, FS_Interval
<1>8. \A d \in N : Cardinality(Before(d)) \in T
  BY <1>2, <1>3
<1>9. f \in Injection(N, T)
  <2>1. f \in [N -> T]
    BY <1>8
  <2>2. ASSUME NEW d \in N, NEW e \in N, f[d] = f[e] PROVE d = e
    <3>1. Cardinality(Before(d)) = Cardinality(Before(e)) /\ Cardinality(Before(d)) \in Nat
      BY <1>3, <2>2
    <3>2. ~Nearer(d, e) /\ ~Nearer(e, d)
      BY <1>4, <3>1
    <3> QED BY <1>2, <3>2, RankingAssumption
  <2> QED BY <2>1, <2>2, Fun_IsInj
<1>10. \A n \in T : \E d \in N : Cardinality(Before(d)) = n
  <2>1. f \in Surjection(N, T)
    <3> HIDE DEF f, T
    <3> QED BY <1>2, <1>7, <1>9, FS_Injection
  <2>2. \A n \in T : \E d \in N : f[d] = n
    <3> HIDE DEF f, T
    <3> QED BY <2>1, Fun_SurjectionProperties
  <2> QED BY <2>2
<1> DEFINE K == 0..(TopK - 1)
<1> DEFINE h == [d \in M |-> Cardinality(Before(d))]
<1>11. h \in Surjection(M, K)
  <2>1. h \in [M -> K]
    <3>1. \A d \in M : Cardinality(Before(d)) \in K
      BY <1>1, <1>3
    <3> QED BY <3>1
  <2>2. ASSUME NEW n \in K PROVE \E d \in M : h[d] = n
    <3>1. n \in T /\ n < TopK
      BY <1>1, <1>2
    <3>2. PICK d \in N : Cardinality(Before(d)) = n
      BY <1>10, <3>1
    <3> QED BY <3>1, <3>2
  <2> HIDE DEF h, K
  <2> QED BY <2>1, <2>2, Fun_IsSurj
<1>12. IsFiniteSet(M)
  <2>1. M \in SUBSET N
    OBVIOUS
  <2> QED BY <1>2, <2>1, FS_Subset
<1>13. Cardinality(K) = TopK
  BY <1>1, FS_Interval
<1>14. Cardinality(K) <= Cardinality(M)
  <2> HIDE DEF h, K, M
  <2> QED BY <1>11, <1>12, FS_Surjection
<1>15. Cardinality(M) <= Cardinality(W) /\ Cardinality(M) \in Nat
  <2>1. M \in SUBSET W
    BY <1>5
  <2> HIDE DEF M
  <2> QED BY <1>6, <1>12, <2>1, FS_Subset, FS_CardinalityType
<1> QED BY <1>1, <1>6, <1>13, <1>14, <1>15 DEF W

\* One request moves at a time.
LEMMA Others ==
    ASSUME RequestTypes, DataTypes, NEW r \in Request, NEW s \in Request \ {r},
           Enters(r) \/ Search(r) \/ Checked(r) \/ Fails(r)
    PROVE  /\ step'[s] = step[s] /\ ask'[s] = ask[s] /\ who'[s] = who[s]
           /\ scope'[s] = scope[s] /\ found'[s] = found[s]
<1>1. CASE Enters(r) \/ Fails(r)
  BY <1>1 DEF Enters, EnterByKey, EnterByToken, Enter, Fails, Goto, Scope, RequestTypes, DataTypes
<1>2. CASE Search(r)
  BY <1>2 DEF Search, ReadGrants, ReadOwned, ReadChunkIDs, SearchVectors, ReadRows, ReadTopics,
     Goto, Scope, Found, RequestTypes
<1>3. CASE Checked(r)
  BY <1>3 DEF Checked, ReadDocument, ReadOwner, CheckGrants, GetContext, GrantAccess, RevokeAccess,
     DeleteTopic, DeleteDocument, Goto, Scope, Found, RequestTypes
<1> QED BY <1>1, <1>2, <1>3

\* A request other than a search goes on, fails or is done.
LEMMA CheckedGoes ==
    ASSUME AInv, NEW r \in Request, Checked(r)
    PROVE  step'[r] \in Checking \union {"failed", "done"} /\ ask'[r].kind # "search"
<1>1. RequestTypes /\ RequestOK(r)
  BY DEF AInv
<1>2. ask' = ask /\ step[r] \in Checking
  BY DEF Checked, ReadDocument, ReadOwner, CheckGrants, Act, GetContext, GrantAccess, RevokeAccess,
     DeleteTopic, DeleteDocument, Checking
<1>3. \E l \in Checking \union {"failed", "done"} : step' = [step EXCEPT ![r] = l]
  BY DEF Checked, ReadDocument, ReadOwner, CheckGrants, GetContext, GrantAccess, RevokeAccess,
     DeleteTopic, DeleteDocument, Goto, Checking
<1> QED BY <1>1, <1>2, <1>3 DEF RequestTypes, RequestOK
-----------------------------------------------------------------------------
\* What the requests and workers do to documents and chunks: what is gone stays
\* gone, and no chunk goes back to before it was ingested.
Later ==
    /\ docs' \subseteq docs /\ index' \subseteq Chunk
    /\ chunk' \in [Chunk -> {"none", "active", "compacted", "gone"}]
    /\ \A c \in Chunk : /\ chunk[c] # "none" => chunk'[c] # "none"
                        /\ chunk[c] = "gone" => chunk'[c] = "gone"
    /\ ChunksOK'

LEMMA NoData == ASSUME DataTypes, ChunksOK, UNCHANGED <<docs, chunk, index>> PROVE Later
  BY DEF Later, DataTypes, ChunksOK

LEMMA DropIsLater == ASSUME DataTypes, ChunksOK, NEW ds, Drop(ds) PROVE Later
  BY DEF Drop, Later, DataTypes, ChunksOK

LEMMA WorkIsLater == ASSUME DataTypes, ChunksOK, NEW c \in Chunk, Work(c) PROVE Later
<1>1. /\ docs' = docs /\ docs \subseteq Doc /\ index \subseteq Chunk
      /\ chunk \in [Chunk -> {"none", "active", "compacted", "gone"}]
  BY DEF Work, DataTypes
<1>2. CASE Ingest(c)
  BY <1>1, <1>2 DEF Ingest, SetChunk, Later, ChunksOK
<1>3. CASE Embed(c)
  BY <1>1, <1>3 DEF Embed, Later, ChunksOK
<1>4. CASE Compact(c)
  BY <1>1, <1>4 DEF Compact, SetChunk, Later, ChunksOK
<1> QED BY <1>2, <1>3, <1>4 DEF Work

LEMMA StepIsLater == ASSUME DataTypes, ChunksOK, Step PROVE Later
<1>1. CASE UNCHANGED <<docs, chunk, index>>
  BY <1>1, NoData
<1>2. CASE \E c \in Chunk : Work(c)
  BY <1>2, WorkIsLater
<1>3. CASE \E ds : Drop(ds)
  BY <1>3, DropIsLater
<1>4. ASSUME NEW r \in Request, Enters(r) \/ Search(r) \/ Checked(r) \/ Fails(r)
      PROVE  UNCHANGED <<docs, chunk, index>> \/ \E ds : Drop(ds)
  <2>1. CASE Enters(r) \/ Search(r) \/ Fails(r)
    BY <2>1 DEF Enters, EnterByKey, EnterByToken, Enter, Search, ReadGrants, ReadOwned, ReadChunkIDs,
                SearchVectors, ReadRows, ReadTopics, Fails, data
  <2>2. CASE DeleteTopic(r) \/ DeleteDocument(r)
    BY <2>2 DEF DeleteTopic, DeleteDocument
  <2>3. CASE Checked(r) /\ ~(DeleteTopic(r) \/ DeleteDocument(r))
    BY <2>3 DEF Checked, ReadDocument, ReadOwner, CheckGrants, GetContext, GrantAccess, RevokeAccess, data
  <2> QED BY <1>4, <2>1, <2>2, <2>3
<1>5. CASE UNCHANGED data
  BY <1>1, <1>5 DEF data
<1> QED BY <1>1, <1>2, <1>3, <1>4, <1>5 DEF Step

\* What could be found all the time can be found now, and becomes less while a
\* request runs.
LEMMA CouldShrinks ==
    ASSUME DataTypes, Observe, index' \subseteq Chunk
    PROVE  /\ could' \in [Request -> SUBSET Chunk]
           /\ \A r \in Request : Running(r)' => could'[r] \subseteq Findable(r)'
           /\ \A r \in Request : Running(r) \/ ~Running(r)' => could'[r] \subseteq could[r]
<1>1. \A r \in Request : Findable(r)' \subseteq Chunk
  BY DEF Findable
<1>2. \A r \in Request :
        could'[r] = IF ~Running(r)' THEN could[r]
                    ELSE IF Running(r) THEN could[r] \intersect Findable(r)' ELSE Findable(r)'
  BY DEF Observe
<1>3. could \in [Request -> SUBSET Chunk] /\ DOMAIN could' = Request
  BY DEF DataTypes, Observe
<1>4. could' \in [Request -> SUBSET Chunk]
  <2>1. \A r \in Request : could'[r] \in SUBSET Chunk
    BY <1>1, <1>2, <1>3
  <2>2. could' = [r \in Request |-> could'[r]]
    BY DEF Observe
  <2> QED BY <2>1, <2>2
<1> QED BY <1>2, <1>4

\* Chunks that rank before another only become more.
LEMMA BehindStays ==
    ASSUME NEW r \in Request, NEW c \in Chunk, Behind(r, c), Later,
           \A d \in found[r] : d \in found'[r] \/ chunk'[d] = "gone"
    PROVE  Behind(r, c)'
<1> DEFINE D == {d \in Chunk : Nearer(d, c) /\ (d \in found[r] \/ chunk[d] = "gone")}
<1> DEFINE E == {d \in Chunk : Nearer(d, c) /\ (d \in found'[r] \/ chunk'[d] = "gone")}
<1>1. D \in SUBSET E /\ E \in SUBSET Chunk
  BY DEF Later
<1>2. Cardinality(D) >= TopK /\ TopK \in Nat
  BY AccessAssumption DEF Behind
<1> HIDE DEF D, E
<1>3. IsFiniteSet(E) /\ Cardinality(D) <= Cardinality(E)
  BY <1>1, RankingAssumption, FS_Subset
<1>4. Cardinality(D) \in Nat /\ Cardinality(E) \in Nat
  BY <1>1, <1>3, FS_Subset, FS_CardinalityType
<1>5. Cardinality(E) >= TopK
  BY <1>2, <1>3, <1>4
<1> QED BY <1>5 DEF E, Behind

LEMMA StillComplete ==
    ASSUME DataTypes, RequestTypes, Later, Observe, NEW r \in Request, CompleteOK(r),
           step'[r] = step[r], ask'[r] = ask[r], who'[r] = who[r], scope'[r] = scope[r], found'[r] = found[r]
    PROVE  CompleteOK(r)'
<1>1. could'[r] \subseteq could[r] /\ (Running(r)' => could'[r] \subseteq Findable(r)')
  BY CouldShrinks DEF Later, Running
<1>2. \A c \in Chunk : Behind(r, c) => Behind(r, c)'
  BY BehindStays
<1>3. could[r] \subseteq Chunk /\ found[r] \subseteq Chunk
  BY DEF DataTypes, RequestTypes
<1>4. step[r] \in {"rows", "topics", "done"} /\ ask[r].kind = "search" =>
        \A c \in could'[r] \ found'[r] : Behind(r, c)'
  BY <1>1, <1>2, <1>3 DEF CompleteOK
<1>5. step[r] \in {"vectors", "rows", "topics"} => \A c \in found'[r] : chunk'[c] # "none"
  BY <1>3 DEF CompleteOK, Later
<1>6. step[r] = "owned" => \A c \in could'[r] : TopicOfChunk(c) \in scope[r] \/ Owns(who[r], TopicOfChunk(c))
  BY <1>1 DEF CompleteOK
<1>7. /\ step[r] = "chunks" => \A c \in could'[r] : TopicOfChunk(c) \in scope[r]
      /\ step[r] = "vectors" => could'[r] \subseteq found[r]
  BY <1>1 DEF CompleteOK
<1> QED BY <1>1, <1>4, <1>5, <1>6, <1>7 DEF CompleteOK, Owns, TopicOfChunk

\* A request that starts, is no search, or has failed, has nothing to be held to yet.
LEMMA NothingYet ==
    ASSUME DataTypes, Later, Observe, NEW r \in Request,
           \/ step'[r] \in Checking \union {"idle", "grants", "failed"}
           \/ step'[r] = "done" /\ ask'[r].kind # "search"
    PROVE  CompleteOK(r)'
<1>1. Running(r)' => could'[r] \subseteq Findable(r)'
  BY CouldShrinks DEF Later
<1> QED BY <1>1 DEF CompleteOK, Checking
-----------------------------------------------------------------------------
\* The chunks that can be found, of a search: of topics that were asked for, and that
\* the caller owns or may read.
LEMMA OfASearch ==
    ASSUME NEW r \in Request, CompleteOK(r), Running(r), ask[r].kind = "search", NEW c \in could[r]
    PROVE  /\ c \in index /\ chunk[c] = "active" /\ DocOf[c] # ask[r].doc
           /\ TopicOfChunk(c) \in topics /\ Asked(r, TopicOfChunk(c))
           /\ Owns(who[r], TopicOfChunk(c)) \/ Grants(who[r], TopicOfChunk(c), "read")
<1>1. c \in Findable(r)
  BY DEF CompleteOK
<1> QED BY <1>1 DEF Findable, Permitted, Allowed, Action

LEMMA SearchIsCompleteStep ==
    ASSUME AInv, CInv, Observe, NEW r \in Request, Search(r)
    PROVE  CompleteOK(r)'
<1>t. RequestTypes /\ DataTypes /\ ChunksOK /\ RequestOK(r) /\ CompleteOK(r)
  BY DEF AInv, CInv
<1>1. /\ UNCHANGED <<topics, docs, chunk, index, who, ask>> /\ step[r] \in Searching
      /\ ask[r].kind = "search" /\ Running(r)
  BY <1>t DEF Search, ReadGrants, ReadOwned, ReadChunkIDs, SearchVectors, ReadRows, ReadTopics, data,
             Searching, RequestOK, Running
<1>2. Later
  BY <1>t, <1>1, NoData
<1>3. could'[r] \subseteq could[r] /\ (Running(r)' => could'[r] \subseteq Findable(r)')
  BY <1>t, <1>1, <1>2, CouldShrinks DEF Later
<1>4. /\ found[r] \subseteq Chunk /\ could[r] \subseteq Chunk /\ DOMAIN step = Request
      /\ DOMAIN found = Request /\ DOMAIN scope = Request
  BY <1>t DEF RequestTypes, DataTypes
<1>5. ASSUME ReadGrants(r) PROVE CompleteOK(r)'
  <2>1. /\ step'[r] = "owned"
        /\ scope'[r] = {t \in topics : Grants(who[r], t, "read")}
    BY <1>4, <1>5 DEF ReadGrants, Goto, Scope
  <2>2. \A c \in could'[r] : TopicOfChunk(c) \in scope'[r] \/ Owns(who[r], TopicOfChunk(c))
    BY <1>t, <1>1, <1>3, <2>1, OfASearch
  <2> QED BY <1>1, <1>3, <2>1, <2>2 DEF CompleteOK, Owns, TopicOfChunk
<1>6. ASSUME ReadOwned(r) PROVE CompleteOK(r)'
  <2>1. /\ step'[r] = IF Resolved(r) = {} THEN "done" ELSE "chunks"
        /\ scope'[r] = Resolved(r) /\ step[r] = "owned"
    BY <1>4, <1>6 DEF ReadOwned, Goto, Scope
  <2>2. \A c \in could[r] : TopicOfChunk(c) \in Resolved(r)
    <3>1. \A c \in could[r] : TopicOfChunk(c) \in scope[r] \/ Owns(who[r], TopicOfChunk(c))
      BY <1>t, <2>1 DEF CompleteOK
    <3> QED BY <1>t, <1>1, <3>1, OfASearch DEF Resolved
  <2>3. CASE Resolved(r) = {}
    <3>1. could'[r] = {} /\ step'[r] = "done"
      BY <1>3, <2>1, <2>2, <2>3
    <3> QED BY <1>3, <3>1 DEF CompleteOK
  <2>4. CASE Resolved(r) # {}
    <3>1. step'[r] = "chunks" /\ \A c \in could'[r] : TopicOfChunk(c) \in scope'[r]
      BY <1>3, <2>1, <2>2, <2>4
    <3> QED BY <1>3, <3>1 DEF CompleteOK, TopicOfChunk
  <2> QED BY <2>3, <2>4
<1>7. ASSUME ReadChunkIDs(r) PROVE CompleteOK(r)'
  <2> DEFINE cs == {c \in Chunk : chunk[c] = "active" /\ TopicOfChunk(c) \in scope[r] /\ DocOf[c] # ask[r].doc}
  <2>1. /\ step'[r] = IF cs = {} THEN "done" ELSE "vectors"
        /\ found'[r] = cs /\ step[r] = "chunks"
    BY <1>4, <1>7 DEF ReadChunkIDs, Goto, Found
  <2>2. could[r] \subseteq cs
    <3>1. \A c \in could[r] : TopicOfChunk(c) \in scope[r]
      BY <1>t, <2>1 DEF CompleteOK
    <3> QED BY <1>t, <1>1, <1>4, <3>1, OfASearch
  <2>3. \A c \in cs : chunk'[c] # "none"
    BY <1>1
  <2> HIDE DEF cs
  <2>4. CASE cs = {}
    <3>1. could'[r] = {} /\ step'[r] = "done"
      BY <1>3, <2>1, <2>2, <2>4
    <3> QED BY <1>3, <3>1 DEF CompleteOK
  <2>5. CASE cs # {}
    <3>1. step'[r] = "vectors" /\ could'[r] \subseteq found'[r]
      BY <1>3, <2>1, <2>2, <2>5
    <3> QED BY <1>3, <2>1, <2>3, <3>1 DEF CompleteOK
  <2> QED BY <2>4, <2>5
<1>8. ASSUME SearchVectors(r) PROVE CompleteOK(r)'
  <2> DEFINE S == found[r] \intersect index
             cs == Nearest(S)
  <2>1. /\ step'[r] = IF cs = {} THEN "done" ELSE "rows"
        /\ found'[r] = cs /\ step[r] = "vectors"
    BY <1>4, <1>8 DEF SearchVectors, Goto, Found
  <2>2. S \in SUBSET Chunk /\ cs \subseteq S
    BY <1>4 DEF Nearest
  <2>3. could[r] \subseteq S
    <3>1. could[r] \subseteq found[r]
      BY <1>t, <2>1 DEF CompleteOK
    <3> QED BY <1>t, <1>1, <3>1, OfASearch
  <2>4. ASSUME NEW c \in could'[r], c \notin found'[r] PROVE Behind(r, c)'
    <3> DEFINE D == {d \in cs : Nearer(d, c)}
    <3> DEFINE E == {d \in Chunk : Nearer(d, c) /\ (d \in found'[r] \/ chunk'[d] = "gone")}
    <3>1. c \in S /\ c \notin cs
      BY <1>3, <2>1, <2>3, <2>4
    <3>2. Cardinality(D) >= TopK
      <4> HIDE DEF S
      <4> QED BY <2>2, <3>1, NearestIsEnough
    <3>3. D \in SUBSET E /\ E \in SUBSET Chunk
      BY <2>1, <2>2
    <3> HIDE DEF D, E
    <3>4. IsFiniteSet(E) /\ Cardinality(D) <= Cardinality(E) /\ Cardinality(D) \in Nat /\ Cardinality(E) \in Nat
      BY <3>3, RankingAssumption, FS_Subset, FS_CardinalityType
    <3>5. Cardinality(E) >= TopK
      BY <3>2, <3>4, AccessAssumption
    <3> QED BY <3>5 DEF E, Behind
  <2>5. \A c \in found'[r] : chunk'[c] # "none"
    <3>1. \A c \in found[r] : chunk[c] # "none"
      BY <1>t, <2>1 DEF CompleteOK
    <3> QED BY <1>1, <2>1, <2>2, <3>1
  <2>6. step'[r] \in {"rows", "done"}
    BY <2>1
  <2> QED BY <1>3, <2>4, <2>5, <2>6 DEF CompleteOK
<1>9. ASSUME ReadRows(r) \/ ReadTopics(r) PROVE CompleteOK(r)'
  <2>1. /\ step[r] \in {"rows", "topics"} /\ step'[r] \in {"topics", "done"}
        /\ found'[r] = {c \in found[r] : Exists(c)} \/ found'[r] = {c \in found[r] : DocOf[c] \in docs}
    BY <1>4, <1>9 DEF ReadRows, ReadTopics, Goto, Found
  <2>2. \A c \in found[r] : chunk[c] # "none"
    BY <1>t, <2>1 DEF CompleteOK
  <2>3. \A d \in found[r] : d \in found'[r] \/ chunk'[d] = "gone"
    <3> SUFFICES ASSUME NEW d \in found[r], d \notin found'[r] PROVE chunk[d] = "gone"
      BY <1>1
    <3>1. d \in Chunk /\ chunk[d] \in {"active", "compacted", "gone"}
      BY <1>t, <1>4, <2>2 DEF DataTypes
    <3>2. ~Exists(d) \/ DocOf[d] \notin docs
      BY <2>1
    <3> QED BY <1>t, <3>1, <3>2 DEF Exists, ChunksOK
  <2>4. ASSUME NEW c \in could'[r], c \notin found'[r] PROVE Behind(r, c)'
    <3>1. c \in Chunk /\ c \in could[r]
      BY <1>3, <1>4
    <3>2. c \notin found[r]
      <4> SUFFICES ASSUME c \in found[r] PROVE FALSE
        OBVIOUS
      <4>1. chunk[c] = "gone"
        BY <1>1, <2>3, <2>4
      <4>2. chunk[c] = "active"
        BY <1>t, <1>1, <3>1, OfASearch
      <4> QED BY <4>1, <4>2
    <3>3. Behind(r, c)
      BY <1>t, <1>1, <2>1, <3>1, <3>2 DEF CompleteOK
    <3> QED BY <1>2, <2>3, <3>1, <3>3, BehindStays
  <2>5. \A c \in found'[r] : chunk'[c] # "none"
    BY <1>1, <2>1, <2>2
  <2> QED BY <1>3, <2>1, <2>4, <2>5 DEF CompleteOK
<1> QED BY <1>5, <1>6, <1>7, <1>8, <1>9 DEF Search
-----------------------------------------------------------------------------
\* Who comes in is a principal.
LEMMA CallersTyped ==
    ASSUME DataTypes, KeysTypeOK, Step
    PROVE  who' \in [Request -> [id : Account \union User \union {None}, groups : SUBSET Group]]
<1>1. who \in [Request -> [id : Account \union User \union {None}, groups : SUBSET Group]]
  BY DEF DataTypes
<1>2. ASSUME NEW r \in Request, Enters(r) PROVE who' \in [Request -> [id : Account \union User \union {None}, groups : SUBSET Group]]
  <2>1. PICK p \in [id : Account \union User \union {None}, groups : SUBSET Group] : who' = [who EXCEPT ![r] = p]
    <3>1. CASE \E o \in Ask, k \in Key : EnterByKey(r, o, k)
      <4>1. PICK o \in Ask, k \in Key : EnterByKey(r, o, k)
        BY <3>1
      <4>2. who' = [who EXCEPT ![r] = [id |-> holder[k], groups |-> {}]] /\ holder[k] \in Account \union {None}
        BY <4>1 DEF EnterByKey, Enter, KeysTypeOK
      <4>3. [id |-> holder[k], groups |-> {}] \in [id : Account \union User \union {None}, groups : SUBSET Group]
        BY <4>2
      <4> QED BY <4>2, <4>3
    <3>2. CASE \E o \in Ask, u \in User : EnterByToken(r, o, u)
      <4>1. PICK o \in Ask, u \in User : EnterByToken(r, o, u)
        BY <3>2
      <4>2. who' = [who EXCEPT ![r] = [id |-> u, groups |-> GroupsOf[u]]] /\ GroupsOf[u] \in SUBSET Group
        BY <4>1, AccessAssumption DEF EnterByToken, Enter
      <4>3. [id |-> u, groups |-> GroupsOf[u]] \in [id : Account \union User \union {None}, groups : SUBSET Group]
        BY <4>2
      <4> QED BY <4>2, <4>3
    <3> QED BY <1>2, <3>1, <3>2 DEF Enters
  <2> QED BY <1>1, <2>1
<1>3. ASSUME NEW r \in Request, Search(r) \/ Checked(r) \/ Fails(r) PROVE who' = who
  BY <1>3 DEF Search, ReadGrants, ReadOwned, ReadChunkIDs, SearchVectors, ReadRows, ReadTopics, Checked,
     ReadDocument, ReadOwner, CheckGrants, GetContext, GrantAccess, RevokeAccess, DeleteTopic, DeleteDocument, Fails
<1> QED BY <1>1, <1>2, <1>3 DEF Step, Work, requests

LEMMA StartsComplete == Init => CInv
<1> SUFFICES ASSUME Init PROVE CInv
  OBVIOUS
<1>1. DataTypes
  BY DEF Init, DataTypes, Nobody
<1>2. ChunksOK
  BY AccessAssumption DEF Init, ChunksOK
<1>3. \A r \in Request : CompleteOK(r)
  BY DEF Init, CompleteOK, Running
<1> QED BY <1>1, <1>2, <1>3 DEF CInv

LEMMA NextIsComplete == AInv /\ KeysTypeOK /\ CInv /\ [Next]_vars => CInv'
<1> SUFFICES ASSUME AInv, KeysTypeOK, CInv, [Next]_vars PROVE CInv'
  OBVIOUS
<1>1. CASE UNCHANGED vars
  <2>1. UNCHANGED <<topics, grants, docs, chunk, index, step, ask, who, scope, found, could>>
    BY <1>1 DEF vars, data, requests
  <2>2. DataTypes' /\ ChunksOK'
    BY <2>1 DEF CInv, DataTypes, ChunksOK
  <2>3. ASSUME NEW r \in Request PROVE CompleteOK(r)'
    <3>1. CompleteOK(r)
      BY DEF CInv
    <3>2. Findable(r)' = Findable(r) /\ Running(r)' = Running(r) /\ \A c : Behind(r, c)' = Behind(r, c)
      BY <2>1 DEF Findable, Permitted, Allowed, Owns, Grants, Asked, Running, Behind
    <3> QED BY <2>1, <3>1, <3>2 DEF CompleteOK, Owns
  <2> QED BY <2>2, <2>3 DEF CInv
<1>2. CASE Next
  <2>1. Step /\ Observe /\ RequestTypes /\ DataTypes /\ ChunksOK
    BY <1>2 DEF Next, AInv, CInv
  <2>2. Later
    BY <2>1, StepIsLater
  <2>3. DataTypes'
    BY <2>1, <2>2, CallersTyped, CouldShrinks DEF DataTypes, Later
  <2>4. ChunksOK'
    BY <2>2 DEF Later
  <2>5. ASSUME NEW r \in Request, step'[r] = step[r], ask'[r] = ask[r], who'[r] = who[r],
               scope'[r] = scope[r], found'[r] = found[r]
        PROVE  CompleteOK(r)'
    BY <2>1, <2>2, <2>5, StillComplete DEF CInv
  <2>6. CASE UNCHANGED requests
    BY <2>3, <2>4, <2>5, <2>6 DEF CInv, requests
  <2>7. ASSUME NEW r \in Request, Enters(r) \/ Search(r) \/ Checked(r) \/ Fails(r) PROVE CInv'
    <3>1. ASSUME NEW s \in Request \ {r} PROVE CompleteOK(s)'
      <4>1. /\ step'[s] = step[s] /\ ask'[s] = ask[s] /\ who'[s] = who[s]
            /\ scope'[s] = scope[s] /\ found'[s] = found[s]
        BY <2>1, <2>7, <3>1, Others
      <4> QED BY <2>5, <4>1
    <3>2. CompleteOK(r)'
      <4>1. CASE Search(r)
        BY <2>1, <4>1, SearchIsCompleteStep
      <4>2. CASE Enters(r)
        <5>1. step'[r] \in Checking \union {"grants"}
          BY <2>1, <4>2 DEF Enters, EnterByKey, EnterByToken, Enter, Goto, FirstStep, RequestTypes, Checking
        <5> QED BY <2>1, <2>2, <5>1, NothingYet
      <4>3. CASE Fails(r)
        <5>1. step'[r] = "failed"
          BY <2>1, <4>3 DEF Fails, Goto, RequestTypes
        <5> QED BY <2>1, <2>2, <5>1, NothingYet
      <4>4. CASE Checked(r)
        <5>1. step'[r] \in Checking \union {"failed", "done"} /\ ask'[r].kind # "search"
          BY <2>1, <4>4, CheckedGoes
        <5> QED BY <2>1, <2>2, <5>1, NothingYet
      <4> QED BY <2>7, <4>1, <4>2, <4>3, <4>4
    <3> QED BY <2>3, <2>4, <3>1, <3>2 DEF CInv
  <2>8. UNCHANGED requests \/ \E r \in Request : Enters(r) \/ Search(r) \/ Checked(r) \/ Fails(r)
    BY <2>1 DEF Step, Work
  <2> QED BY <2>6, <2>7, <2>8
<1> QED BY <1>1, <1>2

LEMMA AccessInvariant == Spec => [](AInv /\ KeysTypeOK /\ CInv)
<1>1. Init => AInv /\ CInv
  BY StartsOK, StartsComplete
<1>2. AInv /\ CInv /\ KeysTypeOK /\ [Next]_vars => AInv' /\ CInv'
  BY NextIsOK, NextIsComplete DEF CInv, DataTypes
<1> QED BY <1>1, <1>2, KeySteps, TypeCorrect, PTL DEF Spec

\* Every variable keeps its type.
THEOREM AccessTypes == Spec => []TypeOK
<1>1. AInv /\ KeysTypeOK /\ CInv => TypeOK
  BY DEF AInv, RequestTypes, CInv, DataTypes, TypeOK, Searching, Checking
<1> QED BY <1>1, AccessInvariant, PTL

\* search.go: a chunk that its caller could have found throughout a search is among
\* its results, unless TopK others rank before it, whatever is granted, ingested,
\* compacted or deleted between its queries: for every order of the chunks.
THEOREM NothingIsMissed == Spec => []SearchIsComplete
<1>1. CInv => SearchIsComplete
  BY DEF CInv, CompleteOK, Behind, SearchIsComplete
<1> QED BY <1>1, AccessInvariant, PTL
=============================================================================
