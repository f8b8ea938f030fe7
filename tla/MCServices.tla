----------------------------- MODULE MCServices -----------------------------
(* Small instances, side by side, of the modules that stand on their own: one *)
(* of them runs, the others stay where they start.                           *)
EXTENDS Memory, JobListing, SplitText, Registry, TLC

CONSTANTS d1, d2, d3
VARIABLE part

\* One topic, a single document, and (not in a passing run) two topics.
OneTopic  == {<<{d1, d2}>>, <<{d1}>>}
TwoTopics == {<<{d1}, {d2}>>}

TypeOK == MemoryTypeOK /\ ListingTypeOK /\ SplitTypeOK /\ RegistryTypeOK

OnlyOneWindow == length = 0 /\ size = 1 /\ overlap = 0

Init ==
    /\ part \in {"memory", "listing", "split", "registry"}
    /\ MemoryInit /\ ListingInit /\ SplitInit /\ RegistryInit
    /\ part # "listing" => doc = [j \in Entry |-> Nothing]
    /\ part # "split" => OnlyOneWindow

Next ==
    /\ UNCHANGED part
    /\ \/ part = "memory" /\ MemoryNext /\ UNCHANGED <<listingVars, splitVars, registryVars>>
       \/ part = "listing" /\ ListingNext /\ UNCHANGED <<memoryVars, splitVars, registryVars>>
       \/ part = "split" /\ Cut /\ UNCHANGED <<memoryVars, listingVars, registryVars>>
       \/ part = "registry" /\ RegistryNext /\ UNCHANGED <<memoryVars, listingVars, splitVars>>

Spec == Init /\ [][Next]_<<part, memoryVars, listingVars, splitVars, registryVars>>

\* Loops, calls, memories and jobs are interchangeable.
Symmetric == Permutations(Memory) \union Permutations(Job) \union Permutations(Worker)
             \union Permutations(Principal) \union Permutations(Fact)
=============================================================================
