------------------------------ MODULE Registry ------------------------------
(***************************************************************************)
(* The cache of vector backends (vector.Registry): one for each            *)
(* configuration, made on demand by the factory of its type.  GetOrCreate  *)
(* looks under the read lock and, when it finds nothing, again under the   *)
(* write lock; between the two, other goroutines make, put and remove      *)
(* backends.  What happens under a lock is one action.  The fallback, for  *)
(* topics without a configuration, never changes and is left out.          *)
(***************************************************************************)
EXTENDS Naturals

CONSTANTS
    ConfigID, BackendType,
    Instance,     \* bound: backends that are made
    Goroutine,    \* bound: calls of GetOrCreate
    NoBackend

ASSUME RegistryAssumption == NoBackend \notin Instance \union ConfigID \union BackendType

VARIABLES
    backends,    \* the backend of a configuration
    factories,   \* the types that have one
    made,        \* backends made so far
    at,          \* a GetOrCreate: "idle", "missed" between the two locks, "done", "error"
    wants,       \* configID and backendType of it
    given        \* history: what has been returned for a configuration since it was
                 \* last put or removed

registryVars == <<backends, factories, made, at, wants, given>>

NoWish == [id |-> NoBackend, type |-> NoBackend]

RegistryTypeOK ==
    /\ backends \in [ConfigID -> Instance \union {NoBackend}]
    /\ factories \subseteq BackendType /\ made \subseteq Instance
    /\ at \in [Goroutine -> {"idle", "missed", "done", "error"}]
    /\ wants \in [Goroutine -> [id : ConfigID \union {NoBackend}, type : BackendType \union {NoBackend}]]
    /\ given \in [ConfigID -> SUBSET Instance]

RegistryInit ==
    /\ backends = [i \in ConfigID |-> NoBackend]
    /\ factories = {} /\ made = {}
    /\ at = [q \in Goroutine |-> "idle"] /\ wants = [q \in Goroutine |-> NoWish]
    /\ given = [i \in ConfigID |-> {}]
-----------------------------------------------------------------------------
Cached(i) == backends[i] # NoBackend

Make(i, b) ==
    /\ b \notin made /\ made' = made \union {b}
    /\ backends' = [backends EXCEPT ![i] = b]

RegisterFactory(t) ==
    /\ factories' = factories \union {t}
    /\ UNCHANGED <<backends, made, at, wants, given>>

\* Replaces what is there.
PutBackend(i, b) ==
    /\ Make(i, b)
    /\ given' = [given EXCEPT ![i] = {}]
    /\ UNCHANGED <<factories, at, wants>>

Evict(i) ==
    /\ Cached(i)
    /\ backends' = [backends EXCEPT ![i] = NoBackend]
    /\ given' = [given EXCEPT ![i] = {}]
    /\ UNCHANGED <<factories, made, at, wants>>

GetBackend(i) ==
    /\ Cached(i)
    /\ given' = [given EXCEPT ![i] = @ \union {backends[i]}]
    /\ UNCHANGED <<backends, factories, made, at, wants>>

Ends(q, l) == at' = [at EXCEPT ![q] = l] /\ wants' = [wants EXCEPT ![q] = NoWish]
Returns(q, i, b) == Ends(q, "done") /\ given' = [given EXCEPT ![i] = @ \union {b}]

\* GetOrCreate under the read lock.
Look(q, i, t) ==
    /\ at[q] = "idle"
    /\ IF Cached(i)
       THEN Returns(q, i, backends[i])
       ELSE /\ at' = [at EXCEPT ![q] = "missed"]
            /\ wants' = [wants EXCEPT ![q] = [id |-> i, type |-> t]]
            /\ UNCHANGED given
    /\ UNCHANGED <<backends, factories, made>>

\* Mutant: it does not look again.
FoundAgain_No(i) == FALSE
FoundAgain(i) == Cached(i)

\* GetOrCreate under the write lock: the factory may be missing, or fail.
Create(q) ==
    /\ at[q] = "missed"
    /\ LET i == wants[q].id
       IN IF FoundAgain(i)
          THEN Returns(q, i, backends[i]) /\ UNCHANGED <<backends, made>>
          ELSE \/ Ends(q, "error") /\ UNCHANGED <<backends, made, given>>
               \/ /\ wants[q].type \in factories
                  /\ \E b \in Instance : Make(i, b) /\ Returns(q, i, b)
    /\ UNCHANGED factories

RegistryNext ==
    \/ \E t \in BackendType : RegisterFactory(t)
    \/ \E i \in ConfigID : GetBackend(i) \/ Evict(i) \/ \E b \in Instance : PutBackend(i, b)
    \/ \E q \in Goroutine : Create(q) \/ \E i \in ConfigID, t \in BackendType : Look(q, i, t)

RegistrySpec == RegistryInit /\ [][RegistryNext]_registryVars
-----------------------------------------------------------------------------
(* Properties.                                                             *)

\* registry.go:79: whoever asks for the backend of a configuration, as the first or
\* while others make it, gets the one that is cached, until it is put or removed.
OneInstance ==
    \A i \in ConfigID : given[i] \subseteq {backends[i]}
=============================================================================
