----------------------------- MODULE JobListing -----------------------------
(***************************************************************************)
(* A client walks through the pages of ListJobs while documents are        *)
(* deleted, new jobs are inserted and others change their status.  A page  *)
(* token is the id of the last job of a page.                              *)
(*                                                                         *)
(* Jobs are numbered by created_at, which orders the listing; no two are   *)
(* inserted in the same microsecond.                                       *)
(***************************************************************************)
EXTENDS Naturals, Sequences, FiniteSets, SequencesExt

CONSTANTS
    Doc,
    LastJob,   \* bound: jobs
    Scopes,    \* what a client asks for: the documents of each topic it can
               \* read, of one topic, or a single document
    PageSizes, \* page_size, or 50 when the request has none
    Nothing

Entry == 1..LastJob

ASSUME ListingAssumption ==
    /\ LastJob \in Nat /\ PageSizes \subseteq Nat \ {0}
    /\ Scopes \subseteq Seq(SUBSET Doc)
    /\ Nothing \notin Doc \union Entry

VARIABLES
    doc,      \* document_id of a job
    status,   \* "none" before INSERT, "queued", "completed", "gone"
    walk,     \* the client: "before", "between" two pages, "end"
    scope,    \* what it asks for
    only,     \* the status it asks for, or Nothing
    pageSize,
    token,    \* page_token
    got,      \* the jobs it has been given, one page after the other
    stays     \* history: jobs that have matched since the first page

rows   == <<doc, status>>
client == <<walk, scope, only, pageSize, token, got>>
listingVars   == <<rows, client, stays>>

ListingTypeOK ==
    /\ doc \in [Entry -> Doc \union {Nothing}]
    /\ status \in [Entry -> {"none", "queued", "completed", "gone"}]
    /\ walk \in {"before", "between", "end"}
    /\ scope \in Scopes \union {<<>>}
    /\ only \in {Nothing, "queued", "completed"}
    /\ pageSize \in PageSizes \union {0}
    /\ token \in Entry \union {Nothing}
    /\ got \in Seq(Entry) /\ stays \subseteq Entry

ListingInit ==
    /\ doc \in [Entry -> Doc \union {Nothing}]
    /\ status = [j \in Entry |-> IF doc[j] = Nothing THEN "none" ELSE "queued"]
    /\ \A j, k \in Entry : j < k /\ doc[j] = Nothing => doc[k] = Nothing
    /\ walk = "before" /\ scope = <<>> /\ only = Nothing /\ pageSize = 0 /\ token = Nothing
    /\ got = <<>> /\ stays = {}
-----------------------------------------------------------------------------
Here       == {j \in Entry : status[j] \in {"queued", "completed"}}
In(D)      == {j \in Here : doc[j] \in D}
Matches(j) == only = Nothing \/ status[j] = only

\* Mutant: the token's job does not bound the page.
Before_Not(t) == {j \in Entry : j # t}
\* created_at <= (SELECT created_at ... WHERE id = token): nothing when that job
\* is gone.
Before(t) == {j \in Entry : t = Nothing \/ (t \in Here /\ j < t)}

\* JobStore.ListByTopicID and List: newest first, one job more than a page.
ListByTopic(D) ==
    LET S == {j \in In(D) \intersect Before(token) : Matches(j)}
        Newer(j) == Cardinality({k \in S : k > j})
    IN [i \in 1..(IF Cardinality(S) > pageSize THEN pageSize + 1 ELSE Cardinality(S)) |->
          CHOOSE j \in S : Newer(j) = i - 1]

\* JobServer.ListJobs: the lists of all topics one after the other.
Listed == FlattenSeq([i \in 1..Len(scope) |-> ListByTopic(scope[i])])

FirstRequest(s, f, n) ==
    /\ walk = "before"
    /\ walk' = "between" /\ scope' = s /\ only' = f /\ pageSize' = n
    /\ stays' = {j \in UNION {In(s[i]) : i \in 1..Len(s)} : f = Nothing \/ status[j] = f}
    /\ UNCHANGED <<rows, token, got>>

\* Mutant: the token is the first job of the next page.
Next_First == Listed[pageSize + 1]
NextToken == Listed[pageSize]

Page ==
    /\ walk = "between"
    /\ IF Len(Listed) > pageSize
       THEN /\ got' = got \o SubSeq(Listed, 1, pageSize)
            /\ token' = NextToken
            /\ UNCHANGED walk
       ELSE /\ got' = got \o Listed
            /\ walk' = "end"
            /\ UNCHANGED token
    /\ UNCHANGED <<rows, scope, only, pageSize, stays>>

\* A worker inserts the job of the next stage, or a client uploads.
Insert(j, d) ==
    /\ status[j] = "none" /\ \A k \in Entry : k < j => status[k] # "none"
    /\ doc' = [doc EXCEPT ![j] = d]
    /\ status' = [status EXCEPT ![j] = "queued"]
    /\ UNCHANGED <<client, stays>>

Complete(j) ==
    /\ status[j] = "queued"
    /\ status' = [status EXCEPT ![j] = "completed"]
    /\ stays' = IF only = "queued" THEN stays \ {j} ELSE stays
    /\ UNCHANGED <<doc, client>>

\* The deletion of a document cascades to its jobs.
DeleteDocument(d) ==
    /\ In({d}) # {}
    /\ status' = [j \in Entry |-> IF j \in In({d}) THEN "gone" ELSE status[j]]
    /\ stays' = stays \ In({d})
    /\ UNCHANGED <<doc, client>>

ListingNext ==
    \/ Page
    \/ \E s \in Scopes, f \in {Nothing, "queued", "completed"}, n \in PageSizes : FirstRequest(s, f, n)
    \/ \E j \in Entry : Complete(j) \/ \E d \in Doc : Insert(j, d)
    \/ \E d \in Doc : DeleteDocument(d)

ListingSpec == ListingInit /\ [][ListingNext]_listingVars
-----------------------------------------------------------------------------
(* Properties.                                                             *)

\* job.go:68: a client that follows the tokens to the end has been given each
\* job that matched all the time, and none twice.  Only when the job that a token
\* names is deleted, the walk ends early.
WalkIsComplete ==
    walk = "end" /\ (token = Nothing \/ token \in Here) =>
        /\ stays \subseteq {got[i] : i \in 1..Len(got)}
        /\ \A i, j \in 1..Len(got) : got[i] = got[j] => i = j
=============================================================================
