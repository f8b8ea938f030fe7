------------------------------- MODULE Access -------------------------------
(***************************************************************************)
(* Requests that read and share topics: Search, GetContext, GrantAccess,   *)
(* RevokeAccess, DeleteTopic, DeleteDocument.  Each is authenticated, by a *)
(* key of a system account (module Keys) or by the token of a user;        *)
(* authorized, by ownership and grants; and carried out, with one query    *)
(* after the other and no transaction around them, while other requests,   *)
(* revocations and the workers go on.                                      *)
(***************************************************************************)
EXTENDS Keys, FiniteSets

CONSTANTS
    User, Group, GroupsOf,           \* who comes with a token, and the groups it names
    Topic, OwnerOf, Granted,         \* topics, and the grants at the start
    Doc, TopicOf, Chunk, DocOf,
    Nearer(_, _),                    \* the order in which the index ranks chunks
    Request,                         \* bound: requests
    Ask,                             \* what a request asks for
    TopK                             \* top_k

Identity == Account \union User \union Group

\* authorizer.go: admin over write over read.
PermissionLevel(action) ==
    CASE action = "admin" -> 3 [] action = "write" -> 2 [] action = "read" -> 1 [] OTHER -> 0
Permission == {"none", "read", "write", "admin"}

Kind == {"search", "context", "grant", "revoke", "delete", "remove"}
\* What each kind of request has to be allowed to do.
Action(kind) ==
    IF kind \in {"search", "context"} THEN "read" ELSE "admin"

ASSUME AccessAssumption ==
    /\ GroupsOf \in [User -> SUBSET Group]
    /\ OwnerOf \in [Topic -> Account \union User]
    /\ Granted \in [Topic -> [Identity -> Permission]]
    /\ TopicOf \in [Doc -> Topic] /\ DocOf \in [Chunk -> Doc]
    /\ Ask \subseteq [kind : Kind, topics : SUBSET Topic, doc : Doc \union {None},
                      to : Identity \union {None}, permission : Permission]
    /\ TopK \in Nat \ {0}

\* Chunk ids are UUIDs, and ORDER BY puts all rows one after the other.
ASSUME RankingAssumption ==
    /\ IsFiniteSet(Chunk)
    /\ \A c \in Chunk : ~Nearer(c, c)
    /\ \A c, d \in Chunk : c # d => Nearer(c, d) \/ Nearer(d, c)
    /\ \A c, d, e \in Chunk : Nearer(c, d) /\ Nearer(d, e) => Nearer(c, e)

VARIABLES
    topics,   \* rows of topics
    grants,   \* topic_grants
    docs,     \* rows of documents
    chunk,    \* a chunk: "none", "active", "compacted", "gone"
    index,    \* chunks with a vector
    step,     \* where a request is
    ask,      \* what it asks for
    who,      \* its principal
    scope,    \* the topics it has resolved
    found,    \* the chunks it has so far
    had,      \* history: topics it was allowed what it asks for, at some moment
    could     \* history: chunks it could have found at every moment

data     == <<topics, grants, docs, chunk, index>>
requests == <<step, ask, who, scope, found>>
vars     == <<keyVars, data, requests, had, could>>

Nobody == [id |-> None, groups |-> {}]
NoAsk  == [kind |-> "none", topics |-> {}, doc |-> None, to |-> None, permission |-> "none"]

TypeOK ==
    /\ KeysTypeOK
    /\ topics \subseteq Topic /\ docs \subseteq Doc /\ index \subseteq Chunk
    /\ grants \in [Topic -> [Identity -> Permission]]
    /\ chunk \in [Chunk -> {"none", "active", "compacted", "gone"}]
    /\ step \in [Request -> {"idle", "grants", "owned", "chunks", "vectors", "rows", "topics",
                             "doc", "owner", "check", "act", "done", "failed"}]
    /\ ask \in [Request -> Ask \union {NoAsk}]
    /\ who \in [Request -> [id : Account \union User \union {None}, groups : SUBSET Group]]
    /\ scope \in [Request -> SUBSET Topic]
    /\ found \in [Request -> SUBSET Chunk]
    /\ had \in [Request -> SUBSET Topic]
    /\ could \in [Request -> SUBSET Chunk]

Init ==
    /\ KeysInit
    /\ topics = Topic /\ grants = Granted /\ docs = Doc
    /\ chunk = [c \in Chunk |-> "none"] /\ index = {}
    /\ step = [r \in Request |-> "idle"] /\ ask = [r \in Request |-> NoAsk]
    /\ who = [r \in Request |-> Nobody]
    /\ scope = [r \in Request |-> {}] /\ found = [r \in Request |-> {}]
    /\ had = [r \in Request |-> {}] /\ could = [r \in Request |-> {}]
-----------------------------------------------------------------------------
(* Principals and permissions.                                             *)

AllIdentities(p) == {p.id} \union p.groups

Grants(p, t, action) ==
    \E i \in AllIdentities(p) \intersect Identity :
        PermissionLevel(grants[t][i]) >= PermissionLevel(action)
Owns(p, t) == OwnerOf[t] = p.id

\* What Check and AccessibleTopics come to, when nothing changes meanwhile.
Allowed(p, t, action) == t \in topics /\ (Owns(p, t) \/ Grants(p, t, action))

TopicOfChunk(c) == TopicOf[DocOf[c]]
Exists(c)       == chunk[c] \in {"active", "compacted"}

Asked(r, t) == ask[r].kind = "search" => ask[r].topics = {} \/ t \in ask[r].topics
Running(r)  == step[r] \notin {"idle", "done", "failed"}

Goto(r, l) == step' = [step EXCEPT ![r] = l]
Found(r, cs) == found' = [found EXCEPT ![r] = cs]
Scope(r, ts) == scope' = [scope EXCEPT ![r] = ts]

\* The interceptor: a key that LookupKeyHash finds, or a valid token.
FirstStep(kind) ==
    CASE kind = "search" -> "grants" [] kind \in {"context", "remove"} -> "doc" [] OTHER -> "owner"

Enter(r, o, p) ==
    /\ step[r] = "idle"
    /\ ask' = [ask EXCEPT ![r] = o] /\ who' = [who EXCEPT ![r] = p]
    /\ Goto(r, FirstStep(o.kind))
    /\ Scope(r, o.topics) /\ UNCHANGED <<data, found>>

EnterByKey(r, o, k) == Usable(k) /\ Enter(r, o, [id |-> holder[k], groups |-> {}])
EnterByToken(r, o, u) == Enter(r, o, [id |-> u, groups |-> GroupsOf[u]])
-----------------------------------------------------------------------------
(* Search: one query for each step.                                        *)

\* AccessibleTopics reads the grants and then the topics that the caller owns.
ReadGrants(r) ==
    /\ step[r] = "grants"
    /\ Scope(r, {t \in topics : Grants(who[r], t, "read")})
    /\ Goto(r, "owned")
    /\ UNCHANGED <<data, ask, who, found>>

\* Mutant: the requested topics are searched as they are.
Resolved_Requested(r) == IF ask[r].topics = {} THEN scope[r] ELSE ask[r].topics
\* Those that were asked for, or all of them.
Resolved(r) == {t \in scope[r] \union {s \in topics : Owns(who[r], s)} : Asked(r, t)}

ReadOwned(r) ==
    /\ step[r] = "owned"
    /\ Scope(r, Resolved(r))
    /\ Goto(r, IF Resolved(r) = {} THEN "done" ELSE "chunks")
    /\ UNCHANGED <<data, ask, who, found>>

ReadChunkIDs(r) ==
    /\ step[r] = "chunks"
    /\ LET cs == {c \in Chunk : chunk[c] = "active" /\ TopicOfChunk(c) \in scope[r] /\ DocOf[c] # ask[r].doc}
       IN Found(r, cs) /\ Goto(r, IF cs = {} THEN "done" ELSE "vectors")
    /\ UNCHANGED <<data, ask, who, scope>>

\* Mutant: the index ranks all chunks and the filter comes after.
Nearest_FilterLast(cs) == {c \in cs : Cardinality({d \in index : Nearer(d, c)}) < TopK}
\* The first TopK of cs in the index.
Nearest(cs) == {c \in cs : Cardinality({d \in cs : Nearer(d, c)}) < TopK}

SearchVectors(r) ==
    /\ step[r] = "vectors"
    /\ LET cs == Nearest(found[r] \intersect index)
       IN Found(r, cs) /\ Goto(r, IF cs = {} THEN "done" ELSE "rows")
    /\ UNCHANGED <<data, ask, who, scope>>

\* The chunks, whatever their status, and then the topics of their documents;
\* what is gone by then is left out.
ReadRows(r) ==
    /\ step[r] = "rows"
    /\ Found(r, {c \in found[r] : Exists(c)}) /\ Goto(r, "topics")
    /\ UNCHANGED <<data, ask, who, scope>>

ReadTopics(r) ==
    /\ step[r] = "topics"
    /\ Found(r, {c \in found[r] : DocOf[c] \in docs}) /\ Goto(r, "done")
    /\ UNCHANGED <<data, ask, who, scope>>

Search(r) ==
    \/ ReadGrants(r) \/ ReadOwned(r) \/ ReadChunkIDs(r)
    \/ SearchVectors(r) \/ ReadRows(r) \/ ReadTopics(r)
-----------------------------------------------------------------------------
(* The other requests: Check, and then the statement.                      *)

ReadDocument(r) ==
    /\ step[r] = "doc"
    /\ IF ask[r].doc \in docs
       THEN Scope(r, {TopicOf[ask[r].doc]}) /\ Goto(r, "owner")
       ELSE Goto(r, "failed") /\ UNCHANGED scope
    /\ UNCHANGED <<data, ask, who, found>>

ReadOwner(r) ==
    /\ step[r] = "owner"
    /\ Goto(r, IF scope[r] \subseteq topics
               THEN IF \A t \in scope[r] : Owns(who[r], t) THEN "act" ELSE "check"
               ELSE "failed")
    /\ UNCHANGED <<data, ask, who, scope, found>>

\* Mutant: any grant on the topic will do.
Sufficient_AnyGrant(r) == \A t \in scope[r] : Grants(who[r], t, "read")
Sufficient(r) == \A t \in scope[r] : Grants(who[r], t, Action(ask[r].kind))

CheckGrants(r) ==
    /\ step[r] = "check"
    /\ Goto(r, IF Sufficient(r) THEN "act" ELSE "failed")
    /\ UNCHANGED <<data, ask, who, scope, found>>

Act(r, kind) == step[r] = "act" /\ ask[r].kind = kind

GetContext(r) ==
    /\ Act(r, "context")
    /\ Found(r, {c \in Chunk : DocOf[c] = ask[r].doc /\ chunk[c] = "active"})
    /\ Goto(r, "done")
    /\ UNCHANGED <<data, ask, who, scope>>

\* One row for a topic and a principal; the foreign key refuses a topic that is gone.
GrantAccess(r) ==
    /\ Act(r, "grant")
    /\ IF scope[r] \subseteq topics
       THEN /\ grants' = [t \in Topic |-> IF t \in scope[r]
                            THEN [grants[t] EXCEPT ![ask[r].to] = ask[r].permission] ELSE grants[t]]
            /\ Goto(r, "done")
       ELSE Goto(r, "failed") /\ UNCHANGED grants
    /\ UNCHANGED <<topics, docs, chunk, index, ask, who, scope, found>>

RevokeAccess(r) ==
    /\ Act(r, "revoke")
    /\ grants' = [t \in Topic |-> IF t \in scope[r]
                    THEN [grants[t] EXCEPT ![ask[r].to] = "none"] ELSE grants[t]]
    /\ Goto(r, IF \E t \in scope[r] : grants[t][ask[r].to] # "none" THEN "done" ELSE "failed")
    /\ UNCHANGED <<topics, docs, chunk, index, ask, who, scope, found>>

\* ON DELETE CASCADE from documents to chunks and from chunks to vectors.
Drop(ds) ==
    /\ docs' = docs \ ds
    /\ chunk' = [c \in Chunk |-> IF DocOf[c] \in ds THEN "gone" ELSE chunk[c]]
    /\ index' = {c \in index : DocOf[c] \notin ds}

DeleteTopic(r) ==
    /\ Act(r, "delete")
    /\ topics' = topics \ scope[r]
    /\ grants' = [t \in Topic |-> IF t \in scope[r] THEN [i \in Identity |-> "none"] ELSE grants[t]]
    /\ Drop({d \in Doc : TopicOf[d] \in scope[r]})
    /\ Goto(r, IF scope[r] \subseteq topics THEN "done" ELSE "failed")
    /\ UNCHANGED <<ask, who, scope, found>>

DeleteDocument(r) ==
    /\ Act(r, "remove")
    /\ Drop({ask[r].doc})
    /\ Goto(r, IF ask[r].doc \in docs THEN "done" ELSE "failed")
    /\ UNCHANGED <<topics, grants, ask, who, scope, found>>

Checked(r) ==
    \/ ReadDocument(r) \/ ReadOwner(r) \/ CheckGrants(r)
    \/ GetContext(r) \/ GrantAccess(r) \/ RevokeAccess(r) \/ DeleteTopic(r) \/ DeleteDocument(r)

\* A query fails, or the process dies.
Fails(r) == Running(r) /\ Goto(r, "failed") /\ UNCHANGED <<data, ask, who, scope, found>>
-----------------------------------------------------------------------------
(* Ingestion, the embedding worker and compaction, as far as they matter   *)
(* to a search (modules Pipeline and Compaction).                          *)

SetChunk(c, from, to) == chunk[c] = from /\ chunk' = [chunk EXCEPT ![c] = to]

Ingest(c)  == DocOf[c] \in docs /\ SetChunk(c, "none", "active") /\ UNCHANGED index
Embed(c)   == chunk[c] = "active" /\ index' = index \union {c} /\ UNCHANGED chunk
Compact(c) == SetChunk(c, "active", "compacted") /\ index' = index \ {c}

Work(c) == (Ingest(c) \/ Embed(c) \/ Compact(c)) /\ UNCHANGED <<topics, grants, docs, requests>>
-----------------------------------------------------------------------------
Enters(r) == \E o \in Ask :
    (\E k \in Key : EnterByKey(r, o, k)) \/ (\E u \in User : EnterByToken(r, o, u))

Step ==
    \/ KeysNext /\ UNCHANGED <<data, requests>>
    \/ /\ (\E r \in Request : Enters(r) \/ Search(r) \/ Checked(r) \/ Fails(r)) \/ (\E c \in Chunk : Work(c))
       /\ UNCHANGED keyVars

Permitted(r) == {t \in topics : Allowed(who[r], t, Action(ask[r].kind))}
Findable(r)  == {c \in index : /\ chunk[c] = "active" /\ DocOf[c] # ask[r].doc
                               /\ TopicOfChunk(c) \in Permitted(r) /\ Asked(r, TopicOfChunk(c))}

\* The history that a request is judged by.
Observe ==
    /\ had' = [r \in Request |-> IF Running(r)' THEN had[r] \union Permitted(r)' ELSE had[r]]
    /\ could' = [r \in Request |-> IF ~Running(r)' THEN could[r]
                                   ELSE IF Running(r) THEN could[r] \intersect Findable(r)' ELSE Findable(r)']

Next == Step /\ Observe

Spec == Init /\ [][Next]_vars
-----------------------------------------------------------------------------
(* Properties.  Those of the keys are in module Keys.                      *)

\* A search returns chunks of topics that its caller could read at some moment of
\* it, and another request is carried out on a topic on which its caller had the
\* permission for it at some moment of it, whatever is granted, revoked or deleted
\* between its queries.
Authorized ==
    \A r \in Request : step[r] = "done" =>
        IF ask[r].kind = "search" THEN \A c \in found[r] : TopicOfChunk(c) \in had[r]
                                  ELSE scope[r] \subseteq had[r]

\* A chunk that its caller could have found throughout a search is among the
\* results, unless TopK others rank before it; some of them may be gone by then.
SearchIsComplete ==
    \A r \in Request : step[r] = "done" /\ ask[r].kind = "search" =>
        \A c \in could[r] \ found[r] :
            Cardinality({d \in Chunk : Nearer(d, c) /\ (d \in found[r] \/ chunk[d] = "gone")}) >= TopK
=============================================================================
