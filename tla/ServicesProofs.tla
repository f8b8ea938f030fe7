--------------------------- MODULE ServicesProofs ---------------------------
(***************************************************************************)
(* The parts that stand on their own: the registry of vector backends,     *)
(* SplitText and the listing of jobs, for every value of their constants.  *)
(* (Memory has a module of its own.)                                       *)
(***************************************************************************)
EXTENDS MCServices, MemoryProofs, SequenceTheorems, FiniteSetTheorems, FunctionTheorems, WellFoundedInduction

(* The registry of vector backends.                                        *)

\* Between the two locks a GetOrCreate knows what it wants; what has been returned
\* for a configuration is what is cached for it, so nothing when nothing is.
RInv ==
    /\ RegistryTypeOK
    /\ \A q \in Goroutine : at[q] = "missed" => wants[q] \in [id : ConfigID, type : BackendType]
    /\ OneInstance

LEMMA NothingReturned ==
    ASSUME RInv, NEW i \in ConfigID, ~Cached(i)
    PROVE  given[i] = {}
  BY RegistryAssumption DEF RInv, RegistryTypeOK, OneInstance, Cached

LEMMA CreateIsOK == ASSUME RInv, NEW q \in Goroutine, Create(q) PROVE RInv'
<1> DEFINE i == wants[q].id
<1>1. i \in ConfigID /\ wants[q].type \in BackendType
  BY DEF RInv, Create
<1>2. /\ at \in [Goroutine -> {"idle", "missed", "done", "error"}]
      /\ wants \in [Goroutine -> [id : ConfigID \union {NoBackend}, type : BackendType \union {NoBackend}]]
      /\ backends \in [ConfigID -> Instance \union {NoBackend}]
      /\ given \in [ConfigID -> SUBSET Instance]
      /\ factories \subseteq BackendType /\ made \subseteq Instance /\ factories' = factories
  BY DEF RInv, RegistryTypeOK, Create
<1>3. ASSUME NEW l \in {"done", "error"}, Ends(q, l)
      PROVE  /\ at' \in [Goroutine -> {"idle", "missed", "done", "error"}]
             /\ wants' \in [Goroutine -> [id : ConfigID \union {NoBackend}, type : BackendType \union {NoBackend}]]
             /\ \A p \in Goroutine : at'[p] = "missed" => wants'[p] \in [id : ConfigID, type : BackendType]
  <2>1. NoWish \in [id : ConfigID \union {NoBackend}, type : BackendType \union {NoBackend}]
    BY DEF NoWish
  <2>2. at' = [at EXCEPT ![q] = l] /\ wants' = [wants EXCEPT ![q] = NoWish]
    BY <1>3 DEF Ends
  <2>3. \A p \in Goroutine : at[p] = "missed" => wants[p] \in [id : ConfigID, type : BackendType]
    BY DEF RInv
  <2> QED BY <1>2, <2>1, <2>2, <2>3
<1>4. CASE FoundAgain(i)
  <2>1. Returns(q, i, backends[i]) /\ UNCHANGED <<backends, made>>
    BY <1>4 DEF Create
  <2>2. backends[i] \in Instance
    BY <1>1, <1>2, <1>4 DEF FoundAgain, Cached
  <2>3. given' = [given EXCEPT ![i] = given[i] \union {backends[i]}] /\ Ends(q, "done")
    BY <2>1 DEF Returns
  <2>4. given[i] \union {backends[i]} \in SUBSET Instance /\ given[i] \union {backends[i]} \subseteq {backends[i]}
    BY <1>1, <1>2, <2>2 DEF RInv, OneInstance
  <2>5. backends' = [backends EXCEPT ![i] = backends[i]]
    BY <1>2, <2>1
  <2>6. OneInstance' /\ given' \in [ConfigID -> SUBSET Instance]
    BY <1>1, <1>2, <2>2, <2>3, <2>4, <2>5 DEF RInv, OneInstance
  <2> QED BY <1>2, <1>3, <2>1, <2>3, <2>6 DEF RInv, RegistryTypeOK
<1>5. CASE Ends(q, "error") /\ UNCHANGED <<backends, made, given>>
  <2>1. OneInstance'
    BY <1>5 DEF RInv, OneInstance
  <2> QED BY <1>2, <1>3, <1>5, <2>1 DEF RInv, RegistryTypeOK
<1>6. ASSUME ~FoundAgain(i), NEW b \in Instance, Make(i, b), Returns(q, i, b) PROVE RInv'
  <2>1. /\ made' = made \union {b} /\ backends' = [backends EXCEPT ![i] = b]
        /\ given' = [given EXCEPT ![i] = given[i] \union {b}] /\ Ends(q, "done")
    BY <1>6 DEF Make, Returns
  <2>2. given[i] = {}
    BY <1>1, <1>6, NothingReturned DEF FoundAgain
  <2>3. /\ OneInstance' /\ given' \in [ConfigID -> SUBSET Instance]
        /\ backends' \in [ConfigID -> Instance \union {NoBackend}]
    BY <1>1, <1>2, <2>1, <2>2 DEF RInv, OneInstance
  <2> QED BY <1>2, <1>3, <2>1, <2>3 DEF RInv, RegistryTypeOK
<1> QED BY <1>4, <1>5, <1>6 DEF Create

LEMMA LookIsOK ==
    ASSUME RInv, NEW q \in Goroutine, NEW i \in ConfigID, NEW t \in BackendType, Look(q, i, t)
    PROVE  RInv'
<1>1. /\ at \in [Goroutine -> {"idle", "missed", "done", "error"}]
      /\ wants \in [Goroutine -> [id : ConfigID \union {NoBackend}, type : BackendType \union {NoBackend}]]
      /\ backends \in [ConfigID -> Instance \union {NoBackend}]
      /\ given \in [ConfigID -> SUBSET Instance]
      /\ \A p \in Goroutine : at[p] = "missed" => wants[p] \in [id : ConfigID, type : BackendType]
      /\ backends' = backends /\ factories' = factories /\ made' = made
  BY DEF RInv, RegistryTypeOK, Look
<1>2. CASE Cached(i)
  <2>1. /\ at' = [at EXCEPT ![q] = "done"] /\ wants' = [wants EXCEPT ![q] = NoWish]
        /\ given' = [given EXCEPT ![i] = given[i] \union {backends[i]}]
    BY <1>2 DEF Look, Returns, Ends
  <2>2. NoWish \in [id : ConfigID \union {NoBackend}, type : BackendType \union {NoBackend}]
    BY DEF NoWish
  <2>3. backends[i] \in Instance /\ backends' = [backends EXCEPT ![i] = backends[i]]
    BY <1>1, <1>2 DEF Cached
  <2>4. given[i] \union {backends[i]} \in SUBSET Instance /\ given[i] \union {backends[i]} \subseteq {backends[i]}
    BY <1>1, <2>3 DEF RInv, OneInstance
  <2>5. OneInstance' /\ given' \in [ConfigID -> SUBSET Instance]
    BY <1>1, <2>1, <2>3, <2>4 DEF RInv, OneInstance
  <2>6. /\ at' \in [Goroutine -> {"idle", "missed", "done", "error"}]
        /\ wants' \in [Goroutine -> [id : ConfigID \union {NoBackend}, type : BackendType \union {NoBackend}]]
        /\ \A p \in Goroutine : at'[p] = "missed" => wants'[p] \in [id : ConfigID, type : BackendType]
    BY <1>1, <2>1, <2>2
  <2> QED BY <1>1, <2>5, <2>6 DEF RInv, RegistryTypeOK
<1>3. CASE ~Cached(i)
  <2>1. /\ at' = [at EXCEPT ![q] = "missed"] /\ wants' = [wants EXCEPT ![q] = [id |-> i, type |-> t]]
        /\ given' = given
    BY <1>3 DEF Look
  <2>2. /\ at' \in [Goroutine -> {"idle", "missed", "done", "error"}]
        /\ wants' \in [Goroutine -> [id : ConfigID \union {NoBackend}, type : BackendType \union {NoBackend}]]
        /\ \A p \in Goroutine : at'[p] = "missed" => wants'[p] \in [id : ConfigID, type : BackendType]
    BY <1>1, <2>1
  <2> QED BY <1>1, <2>1, <2>2 DEF RInv, RegistryTypeOK, OneInstance
<1> QED BY <1>2, <1>3

LEMMA RegistryKeeps == RInv /\ [RegistryNext]_registryVars => RInv'
<1> SUFFICES ASSUME RInv, [RegistryNext]_registryVars PROVE RInv'
  OBVIOUS
<1>1. ASSUME NEW t \in BackendType, RegisterFactory(t) PROVE RInv'
  BY <1>1 DEF RegisterFactory, RInv, RegistryTypeOK, OneInstance
<1>2. ASSUME NEW i \in ConfigID, NEW b \in Instance, PutBackend(i, b) PROVE RInv'
  <2>1. /\ made' = made \union {b} /\ backends' = [backends EXCEPT ![i] = b]
        /\ given' = [given EXCEPT ![i] = {}] /\ UNCHANGED <<factories, at, wants>>
    BY <1>2 DEF PutBackend, Make
  <2>2. /\ OneInstance' /\ given' \in [ConfigID -> SUBSET Instance]
        /\ backends' \in [ConfigID -> Instance \union {NoBackend}]
    BY <2>1 DEF RInv, RegistryTypeOK, OneInstance
  <2> QED BY <2>1, <2>2 DEF RInv, RegistryTypeOK
<1>3. ASSUME NEW i \in ConfigID, Evict(i) PROVE RInv'
  <2>1. /\ backends' = [backends EXCEPT ![i] = NoBackend]
        /\ given' = [given EXCEPT ![i] = {}] /\ UNCHANGED <<factories, made, at, wants>>
    BY <1>3 DEF Evict
  <2>2. /\ OneInstance' /\ given' \in [ConfigID -> SUBSET Instance]
        /\ backends' \in [ConfigID -> Instance \union {NoBackend}]
    BY <2>1 DEF RInv, RegistryTypeOK, OneInstance
  <2> QED BY <2>1, <2>2 DEF RInv, RegistryTypeOK
<1>4. ASSUME NEW i \in ConfigID, GetBackend(i) PROVE RInv'
  <2>1. /\ given' = [given EXCEPT ![i] = given[i] \union {backends[i]}]
        /\ UNCHANGED <<backends, factories, made, at, wants>> /\ Cached(i)
    BY <1>4 DEF GetBackend
  <2>2. backends[i] \in Instance /\ backends' = [backends EXCEPT ![i] = backends[i]]
    BY <2>1 DEF Cached, RInv, RegistryTypeOK
  <2>3. given[i] \union {backends[i]} \in SUBSET Instance /\ given[i] \union {backends[i]} \subseteq {backends[i]}
    BY <2>2 DEF RInv, RegistryTypeOK, OneInstance
  <2>4. OneInstance' /\ given' \in [ConfigID -> SUBSET Instance]
    BY <2>1, <2>2, <2>3 DEF RInv, RegistryTypeOK, OneInstance
  <2> QED BY <2>1, <2>4 DEF RInv, RegistryTypeOK
<1>5. CASE UNCHANGED registryVars
  BY <1>5 DEF registryVars, RInv, RegistryTypeOK, OneInstance
<1> QED BY <1>1, <1>2, <1>3, <1>4, <1>5, CreateIsOK, LookIsOK DEF RegistryNext

LEMMA RegistryStarts == RegistryInit => RInv
  BY DEF RegistryInit, RInv, RegistryTypeOK, OneInstance, NoWish

\* registry.go:79: GetOrCreate looks again under the write lock, so whoever asks
\* for the backend of a configuration gets the one that is cached, for any number
\* of goroutines, configurations and backend types.
THEOREM OneBackend == RegistrySpec => []OneInstance
<1>1. RInv => OneInstance
  BY DEF RInv
<1> QED BY RegistryStarts, RegistryKeeps, <1>1, PTL DEF RegistrySpec
-----------------------------------------------------------------------------
(* SplitText.                                                              *)

\* How the loop stands: the next window begins overlap bytes before the end of
\* the last one, which was a whole one and did not reach the end of the text.
Cutting ==
    /\ length > size
    /\ start < length
    /\ windows = <<>> => start = 0
    /\ windows # <<>> =>
          LET last == windows[Len(windows)]
          IN last.last < length /\ start = last.last - overlap

SInv ==
    /\ SplitTypeOK
    /\ overlap < size
    /\ TextIsCovered
    /\ ~done => Cutting

LEMMA ParametersArePutRight ==
    ASSUME NEW s \in Int, NEW v \in Int
    PROVE  /\ Size(s) \in Nat \ {0}
           /\ Overlap(NotNegative(v), Size(s)) \in Nat
           /\ Overlap(NotNegative(v), Size(s)) < Size(s)
<1>1. Size(s) \in Nat \ {0}
  BY SplitAssumption DEF Size
<1>2. NotNegative(v) \in Nat
  BY DEF NotNegative
<1> QED BY <1>1, <1>2 DEF Overlap

LEMMA StartsCovered == SplitInit => SInv
<1> SUFFICES ASSUME SplitInit PROVE SInv
  OBVIOUS
<1>1. PICK s \in -1..MaxSize, v \in -1..MaxSize :
        size = Size(s) /\ overlap = Overlap(NotNegative(v), Size(s))
  BY DEF SplitInit
<1>2. size \in Nat \ {0} /\ overlap \in Nat /\ overlap < size
  <2>1. s \in Int /\ v \in Int
    BY SplitAssumption
  <2> QED BY <1>1, <2>1, ParametersArePutRight
<1>3. length \in Nat /\ start = 0
  BY SplitAssumption DEF SplitInit
<1>4. CASE length > size
  <2>1. done = FALSE /\ windows = <<>>
    BY <1>2, <1>3, <1>4 DEF SplitInit
  <2>2. SplitTypeOK
    BY <1>2, <1>3, <2>1, <<>> \in Seq([first : Nat, last : Nat]) DEF SplitTypeOK
  <2> QED BY <1>2, <1>3, <1>4, <2>1, <2>2 DEF SInv, TextIsCovered, Cutting
<1>5. CASE length = 0
  <2>1. done = TRUE /\ windows = <<>>
    BY <1>2, <1>3, <1>5 DEF SplitInit
  <2>2. SplitTypeOK
    BY <1>2, <1>3, <2>1, <<>> \in Seq([first : Nat, last : Nat]) DEF SplitTypeOK
  <2> QED BY <1>2, <1>3, <1>5, <2>1, <2>2 DEF SInv, TextIsCovered
<1>6. CASE length <= size /\ length # 0
  <2>1. done = TRUE /\ windows = <<Window(0, length)>>
    BY <1>2, <1>3, <1>6 DEF SplitInit
  <2>2. SplitTypeOK
    BY <1>2, <1>3, <2>1 DEF SplitTypeOK, Window
  <2> QED BY <1>2, <1>3, <1>6, <2>1, <2>2 DEF SInv, TextIsCovered, Window
<1> QED BY <1>2, <1>3, <1>4, <1>5, <1>6

LEMMA CutKeepsCovered == SInv /\ Cut => SInv'
<1> SUFFICES ASSUME SInv, Cut PROVE SInv'
  OBVIOUS
<1> DEFINE n == Len(windows)
<1> DEFINE w == Window(start, End)
<1>1. /\ length \in Nat /\ size \in Nat \ {0} /\ overlap \in Nat /\ overlap < size
      /\ start \in Nat /\ windows \in Seq([first : Nat, last : Nat])
      /\ Cutting /\ ~done
  BY DEF SInv, SplitTypeOK, Cut
<1>2. /\ End \in Nat /\ End <= length /\ End <= start + size /\ End > start
      /\ End # length => End = start + size
  BY <1>1 DEF End, Cutting
<1>3. w \in [first : Nat, last : Nat] /\ w.first = start /\ w.last = End
  BY <1>1, <1>2 DEF Window
<1>4. /\ windows' = Append(windows, w)
      /\ length' = length /\ size' = size /\ overlap' = overlap
  BY DEF Cut
<1>5. /\ windows' \in Seq([first : Nat, last : Nat])
      /\ n \in Nat /\ n = Len(windows) /\ Len(windows') = n + 1
      /\ \A i \in 1..n : windows'[i] = windows[i]
      /\ windows'[n + 1] = w
  BY <1>1, <1>3, <1>4
<1>6. n > 0 => windows[n].last < End /\ start = windows[n].last - overlap
  <2> SUFFICES ASSUME n > 0 PROVE windows[n].last < End /\ start = windows[n].last - overlap
    OBVIOUS
  <2>1. windows # <<>>
    BY <1>1
  <2>2. windows[n].last < length /\ start = windows[n].last - overlap
    BY <1>1, <2>1 DEF Cutting
  <2>3. windows[n].last \in Nat
    <3>1. n \in 1..Len(windows)
      BY <1>5
    <3>2. windows[n] \in [first : Nat, last : Nat]
      BY <1>1, <3>1, ElementOfSeq
    <3> QED BY <3>2
  <2> QED BY <1>1, <1>2, <2>2, <2>3
<1> HIDE DEF n, w
<1>7. SplitTypeOK'
  <2>1. CASE End = length
    BY <1>1, <1>4, <1>5, <2>1 DEF SplitTypeOK, Cut
  <2>2. CASE End # length
    <3>1. start' = End - overlap /\ done' = FALSE
      BY <1>1, <2>2 DEF Cut
    <3>2. start' \in Nat
      BY <1>1, <1>2, <2>2, <3>1
    <3> QED BY <1>1, <1>4, <1>5, <3>1, <3>2 DEF SplitTypeOK
  <2> QED BY <2>1, <2>2
<1>8. TextIsCovered'
  <2>1. ASSUME NEW i \in 1..Len(windows')
        PROVE  /\ windows'[i].last - windows'[i].first \in 1..size'
               /\ i > 1 => /\ windows'[i].first = windows'[i - 1].last - overlap'
                           /\ windows'[i].last > windows'[i - 1].last
    <3>1. CASE i \in 1..n
      <4>1. /\ windows[i].last - windows[i].first \in 1..size
            /\ i > 1 => /\ windows[i].first = windows[i - 1].last - overlap
                        /\ windows[i].last > windows[i - 1].last
        BY <1>5, <3>1 DEF SInv, TextIsCovered
      <4>2. windows'[i] = windows[i] /\ (i > 1 => windows'[i - 1] = windows[i - 1])
        <5>0. n \in Nat
          BY <1>5
        <5>1. i > 1 => i - 1 \in 1..n
          BY <3>1, <5>0
        <5>2. \A k \in 1..n : windows'[k] = windows[k]
          BY <1>5
        <5> QED BY <3>1, <5>1, <5>2
      <4> QED BY <1>4, <4>1, <4>2
    <3>2. CASE i = n + 1
      <4>1. w.last - w.first \in 1..size
        BY <1>1, <1>2, <1>3
      <4>2. i > 1 => windows'[i - 1] = windows[n] /\ n > 0
        BY <1>5, <3>2
      <4> QED BY <1>3, <1>4, <1>5, <1>6, <3>2, <4>1, <4>2
    <3> QED BY <1>5, <2>1, <3>1, <3>2
  <2>2. windows'[1].first = 0
    <3>1. CASE n = 0
      <4>1. windows = <<>>
        BY <1>1, <1>5, <3>1, EmptySeq
      <4>2. start = 0
        BY <1>1, <4>1 DEF Cutting
      <4> QED BY <1>3, <1>5, <3>1, <4>2
    <3>2. CASE n > 0
      BY <1>5, <3>2 DEF SInv, TextIsCovered
    <3> QED BY <1>5, <3>1, <3>2
  <2>3. done' => windows'[Len(windows')].last = length'
    <3>1. done' => End = length
      BY <1>1 DEF Cut
    <3> QED BY <1>3, <1>4, <1>5, <3>1
  <2> QED BY <1>5, <2>1, <2>2, <2>3 DEF TextIsCovered
<1>9. ~done' => Cutting'
  <2> SUFFICES ASSUME ~done' PROVE Cutting'
    OBVIOUS
  <2>1. End # length /\ start' = End - overlap
    BY DEF Cut
  <2>2. length' > size' /\ start' < length'
    BY <1>1, <1>2, <1>4, <2>1 DEF Cutting
  <2>3. windows' # <<>>
    BY <1>5
  <2>4. windows'[Len(windows')].last < length' /\ start' = windows'[Len(windows')].last - overlap'
    BY <1>1, <1>2, <1>3, <1>4, <1>5, <2>1
  <2> QED BY <2>2, <2>3, <2>4 DEF Cutting
<1> QED BY <1>1, <1>4, <1>7, <1>8, <1>9 DEF SInv

LEMMA SplitInvariant == SplitSpec => []SInv
<1>1. SInv /\ UNCHANGED splitVars => SInv'
  BY DEF SInv, SplitTypeOK, TextIsCovered, Cutting, splitVars
<1> QED BY StartsCovered, CutKeepsCovered, <1>1, PTL DEF SplitSpec

\* SplitText (chunking.go:147) leaves no byte out, goes on with every window and
\* makes none longer than asked: for every text, size and overlap.
THEOREM Covered == SplitSpec => []TextIsCovered
<1>1. SInv => TextIsCovered
  BY DEF SInv
<1> QED BY SplitInvariant, <1>1, PTL
-----------------------------------------------------------------------------
(* Counting, and induction without an operator.                            *)

\* What the library says of well-founded relations, for < on the naturals.
LEMMA LessIsWellFounded == IsWellFoundedOn({r \in Nat \X Nat : r[1] < r[2]}, Nat)
  BY NatLessThanWellFounded DEF OpToRel

\* Induction over a set of naturals: it stands for the property.
LEMMA SetInduction ==
    ASSUME NEW S \in SUBSET Nat, 0 \in S, \A n \in S : n + 1 \in S
    PROVE  S = Nat
<1> DEFINE T == Nat \ S
<1> DEFINE R == {r \in Nat \X Nat : r[1] < r[2]}
<1> SUFFICES ASSUME T # {} PROVE FALSE
  OBVIOUS
<1>1. PICK n \in T : \A m \in T : ~(<<m, n>> \in R)
  <2>1. IsWellFoundedOn(R, Nat)
    BY LessIsWellFounded
  <2> HIDE DEF R
  <2> QED BY <2>1, WFMin
<1>2. n \in Nat /\ n # 0 /\ n - 1 \in Nat
  OBVIOUS
<1>3. n - 1 \notin T
  <2>1. <<n - 1, n>> \in R
    BY <1>2
  <2> QED BY <1>1, <2>1
<1>4. n - 1 \in S /\ (n - 1) + 1 \in S
  BY <1>2, <1>3
<1> QED BY <1>2, <1>4
-----------------------------------------------------------------------------
(* The listing of jobs, for a client that asks for one topic or document.  *)

\* The jobs that the client asks for and that are there.
Wanted == {j \in In(scope[1]) : Matches(j)}

IsGiven(j) == \E i \in 1..Len(got) : got[i] = j

\* Newest first; the token is the last job that was given, and the client is still
\* to be given all that are older.
Walked ==
    /\ \A i, k \in 1..Len(got) : i < k => got[k] < got[i]
    /\ stays \subseteq Wanted
    /\ token # Nothing => status[token] # "none"
    /\ walk = "between" =>
          /\ token = Nothing => got = <<>>
          /\ token # Nothing => got # <<>> /\ token = got[Len(got)]
          /\ \A j \in stays : token = Nothing \/ IsGiven(j) \/ j < token
    /\ walk = "end" /\ (token = Nothing \/ token \in Here) => \A j \in stays : IsGiven(j)

LInv ==
    /\ ListingTypeOK
    /\ walk = "before" => scope = <<>> /\ token = Nothing /\ got = <<>> /\ stays = {}
    /\ walk # "before" => scope \in Scopes /\ pageSize \in PageSizes
    /\ Len(scope) = 1 => Walked

\* Ranking the jobs of a page.  The jobs of a set are ranked, newest first, by how
\* many of it are newer: no two have the same rank, and no rank is left out.
LEMMA Ranks ==
    ASSUME NEW S \in SUBSET Entry
    PROVE  /\ IsFiniteSet(S) /\ Cardinality(S) \in Nat
           /\ \A j \in S : Cardinality({k \in S : k > j}) \in 0..(Cardinality(S) - 1)
           /\ \A j, k \in S : j < k => Cardinality({l \in S : l > k}) < Cardinality({l \in S : l > j})
           /\ \A n \in 0..(Cardinality(S) - 1) : \E j \in S : Cardinality({k \in S : k > j}) = n
<1> DEFINE Newer(j) == {k \in S : k > j}
<1> DEFINE T == 0..(Cardinality(S) - 1)
<1> DEFINE f == [j \in S |-> Cardinality(Newer(j))]
<1>1. IsFiniteSet(S) /\ Cardinality(S) \in Nat
  <2>1. IsFiniteSet(Entry)
    BY ListingAssumption, FS_Interval DEF Entry
  <2> QED BY <2>1, FS_Subset, FS_CardinalityType
<1>2. ASSUME NEW j \in S
      PROVE  /\ IsFiniteSet(Newer(j)) /\ Cardinality(Newer(j)) \in Nat
             /\ Cardinality(Newer(j)) < Cardinality(S)
  <2>1. Newer(j) \in SUBSET S /\ j \notin Newer(j)
    BY DEF Entry
  <2> HIDE DEF Newer
  <2>2. IsFiniteSet(Newer(j)) /\ Cardinality(Newer(j)) \in Nat
    BY <1>1, <2>1, FS_Subset, FS_CardinalityType
  <2>3. Cardinality(Newer(j)) <= Cardinality(S) /\ Cardinality(Newer(j)) # Cardinality(S)
    BY <1>1, <2>1, FS_Subset
  <2> QED BY <1>1, <2>2, <2>3
<1>3. ASSUME NEW j \in S, NEW k \in S, j < k PROVE Cardinality(Newer(k)) < Cardinality(Newer(j))
  <2>1. Newer(k) \in SUBSET Newer(j) /\ k \in Newer(j) /\ k \notin Newer(k)
    <3>1. S \subseteq Int
      BY DEF Entry
    <3>2. \A l \in S : l > k => l > j
      BY <1>3, <3>1
    <3>3. k > j /\ ~(k > k)
      BY <1>3, <3>1
    <3> QED BY <3>2, <3>3
  <2>2. Newer(k) # Newer(j)
    BY <2>1
  <2> HIDE DEF Newer
  <2>3. Cardinality(Newer(k)) <= Cardinality(Newer(j)) /\ Cardinality(Newer(k)) # Cardinality(Newer(j))
    BY <1>2, <2>1, <2>2, FS_Subset
  <2> QED BY <1>2, <2>3
<1>4. IsFiniteSet(T) /\ Cardinality(T) = Cardinality(S)
  BY <1>1, FS_Interval
<1> HIDE DEF Newer
<1>5. \A j \in S : Cardinality(Newer(j)) \in T
  BY <1>1, <1>2
<1>6. f \in Injection(S, T)
  <2>1. f \in [S -> T]
    BY <1>5
  <2>2. ASSUME NEW j \in S, NEW k \in S, f[j] = f[k] PROVE j = k
    <3>1. Cardinality(Newer(j)) = Cardinality(Newer(k)) /\ Cardinality(Newer(j)) \in Nat
      BY <1>2, <2>2
    <3>2. ~(j < k) /\ ~(k < j)
      BY <1>3, <3>1
    <3> QED BY <3>2 DEF Entry
  <2> QED BY <2>1, <2>2, Fun_IsInj
<1>7. f \in Surjection(S, T)
  <2> HIDE DEF f, T
  <2> QED BY <1>1, <1>4, <1>6, FS_Injection
<1>8. \A n \in T : \E j \in S : Cardinality(Newer(j)) = n
  <2>1. \A n \in T : \E j \in S : f[j] = n
    <3> HIDE DEF f, T
    <3> QED BY <1>7, Fun_SurjectionProperties
  <2> QED BY <2>1
<1> QED BY <1>1, <1>3, <1>5, <1>8 DEF Newer

\* The list of a single topic is the whole answer.
LEMMA FlattenOne ==
    ASSUME NEW s, NEW seqs, seqs = [i \in 1..1 |-> s]
    PROVE  FlattenSeq(seqs) = s
<1>1. Len(seqs) = 1 /\ seqs[1] = s
  OBVIOUS
<1> DEFINE P(f) == f = [i \in 1..Len(seqs) |-> IF i = 1 THEN seqs[i] ELSE f[i - 1] \o seqs[i]]
<1>2. P([i \in 1..1 |-> s])
  BY <1>1
<1>3. P(CHOOSE f : P(f))
  <2> HIDE DEF P
  <2> QED BY <1>2
<1>4. (CHOOSE f : P(f))[1] = s
  BY <1>1, <1>3
<1> QED BY <1>1, <1>4 DEF FlattenSeq

\* The jobs that a page is taken from.
Left(D) == {j \in In(D) \intersect Before(token) : Matches(j)}

\* A list goes from the newest of them to older ones, and leaves none out that is
\* newer than its last but one.
LEMMA OneList ==
    ASSUME NEW D, NEW L, L = ListByTopic(D), pageSize \in Nat \ {0}
    PROVE  /\ L \in Seq(Entry)
           /\ \A i \in 1..Len(L) : L[i] \in Left(D)
           /\ \A i, k \in 1..Len(L) : i < k => L[k] < L[i]
           /\ Len(L) <= pageSize => \A j \in Left(D) : \E i \in 1..Len(L) : L[i] = j
           /\ Len(L) > pageSize =>
                 \A j \in Left(D) : (\E i \in 1..pageSize : L[i] = j) \/ j < L[pageSize]
<1> DEFINE S == Left(D)
<1> DEFINE Newer(j) == Cardinality({k \in S : k > j})
<1> DEFINE c == Cardinality(S)
<1> DEFINE m == IF c > pageSize THEN pageSize + 1 ELSE c
<1>1. S \in SUBSET Entry
  BY DEF Left, In, Here
<1>2. L = [i \in 1..m |-> CHOOSE j \in S : Newer(j) = i - 1]
  BY DEF ListByTopic, Left
<1> HIDE DEF S
<1>3. /\ c \in Nat
      /\ \A j \in S : Newer(j) \in 0..(c - 1)
      /\ \A j, k \in S : j < k => Newer(k) < Newer(j)
      /\ \A n \in 0..(c - 1) : \E j \in S : Newer(j) = n
  BY <1>1, Ranks
<1>4. S \subseteq Nat
  BY <1>1 DEF Entry
<1> HIDE DEF Newer, c
<1>5. m \in Nat /\ m <= c /\ (m <= pageSize => m = c) /\ (m > pageSize => m = pageSize + 1)
  BY <1>3
<1> HIDE DEF m
<1>6. ASSUME NEW i \in 1..m PROVE L[i] \in S /\ Newer(L[i]) = i - 1
  <2>1. i - 1 \in 0..(c - 1)
    BY <1>3, <1>5
  <2>2. \E j \in S : Newer(j) = i - 1
    BY <1>3, <2>1
  <2> QED BY <1>2, <2>2
<1>7. L \in Seq(Entry) /\ Len(L) = m
  <2>1. L = [i \in 1..m |-> L[i]]
    BY <1>2
  <2>2. \A i \in 1..m : L[i] \in Entry
    BY <1>1, <1>6
  <2> QED BY <1>5, <2>1, <2>2, IsASeq, LenProperties
<1>8. ASSUME NEW i \in 1..m, NEW k \in 1..m, i < k PROVE L[k] < L[i]
  <2>1. L[i] \in S /\ L[k] \in S /\ Newer(L[i]) = i - 1 /\ Newer(L[k]) = k - 1
    BY <1>6
  <2>2. L[i] # L[k]
    BY <1>5, <1>8, <2>1
  <2>3. ~(L[i] < L[k])
    <3>1. L[i] < L[k] => k - 1 < i - 1
      BY <1>3, <2>1
    <3> QED BY <1>5, <1>8, <3>1
  <2>4. L[i] \in Nat /\ L[k] \in Nat
    BY <1>4, <2>1
  <2> QED BY <2>2, <2>3, <2>4
<1>9. ASSUME NEW j \in S, Newer(j) + 1 <= m PROVE Newer(j) + 1 \in 1..m /\ L[Newer(j) + 1] = j
  <2>1. Newer(j) \in Nat /\ Newer(j) + 1 \in 1..m
    BY <1>3, <1>5, <1>9
  <2>2. L[Newer(j) + 1] \in S /\ Newer(L[Newer(j) + 1]) = Newer(j)
    <3>1. Newer(L[Newer(j) + 1]) = (Newer(j) + 1) - 1 /\ L[Newer(j) + 1] \in S
      BY <1>6, <2>1
    <3> QED BY <2>1, <3>1
  <2>3. \A k \in S : Newer(k) = Newer(j) => ~(k < j) /\ ~(j < k)
    BY <1>3, <2>1
  <2>4. L[Newer(j) + 1] \in Nat /\ j \in Nat
    BY <1>4, <2>2
  <2> QED BY <2>1, <2>2, <2>3, <2>4
<1>10. ASSUME m <= pageSize, NEW j \in S PROVE \E i \in 1..m : L[i] = j
  <2>1. Newer(j) + 1 <= m
    BY <1>3, <1>5, <1>10
  <2> QED BY <1>9, <2>1
<1>11. ASSUME m > pageSize, NEW j \in S PROVE (\E i \in 1..pageSize : L[i] = j) \/ j < L[pageSize]
  <2>1. Newer(j) \in Nat /\ m = pageSize + 1 /\ pageSize \in 1..m
    BY <1>3, <1>5, <1>11
  <2>2. L[pageSize] \in S /\ Newer(L[pageSize]) = pageSize - 1
    BY <1>6, <2>1
  <2>3. CASE Newer(j) + 1 <= pageSize
    <3>1. Newer(j) + 1 <= m /\ Newer(j) + 1 \in 1..pageSize
      BY <2>1, <2>3
    <3> QED BY <1>9, <3>1
  <2>4. CASE Newer(j) >= pageSize
    <3>1. j # L[pageSize] /\ ~(L[pageSize] < j)
      BY <1>3, <2>1, <2>2, <2>4
    <3>2. L[pageSize] \in Nat /\ j \in Nat
      BY <1>4, <2>2
    <3> QED BY <3>1, <3>2
  <2> QED BY <2>1, <2>3, <2>4
<1> QED BY <1>6, <1>7, <1>8, <1>10, <1>11 DEF S

\* The lists of any number of topics, one after the other, are a list of jobs.
LEMMA FlattenTyped ==
    ASSUME NEW n \in Nat, NEW seqs \in [1..n -> Seq(Entry)]
    PROVE  FlattenSeq(seqs) \in Seq(Entry)
<1> DEFINE Next1(g, i) == IF i = 1 THEN seqs[i] ELSE g[i - 1] \o seqs[i]
<1> DEFINE P(g) == g = [i \in 1..Len(seqs) |-> IF i = 1 THEN seqs[i] ELSE g[i - 1] \o seqs[i]]
<1> DEFINE f == CHOOSE g : P(g)
<1>1. Len(seqs) = n
  BY LenProperties, seqs = [i \in 1..n |-> seqs[i]]
<1>2. CASE n = 0
  <2>1. seqs = <<>>
    BY <1>2
  <2> QED BY <1>1, <1>2, <2>1 DEF FlattenSeq
<1>3. CASE n > 0
  <2> DEFINE Up(m) == \E g \in [1..m -> Seq(Entry)] : \A i \in 1..m : g[i] = Next1(g, i)
  <2> DEFINE S == {m \in Nat : m <= n => Up(m)}
  <2>1. 0 \in S
    <3> DEFINE z == [i \in 1..0 |-> <<>>]
    <3>1. z \in [1..0 -> Seq(Entry)] /\ \A i \in 1..0 : z[i] = Next1(z, i)
      <4>1. 1..0 = {}
        OBVIOUS
      <4> QED BY <4>1
    <3> HIDE DEF z, Next1
    <3>2. Up(0)
      BY <3>1
    <3> HIDE DEF Up
    <3> QED BY <3>2
  <2>2. ASSUME NEW m \in S PROVE m + 1 \in S
    <3> SUFFICES ASSUME m + 1 <= n PROVE Up(m + 1)
      <4> HIDE DEF Up
      <4> QED OBVIOUS
    <3>1. m \in Nat /\ m <= n
      <4> HIDE DEF Up
      <4> QED OBVIOUS
    <3>2. PICK g \in [1..m -> Seq(Entry)] : \A i \in 1..m : g[i] = Next1(g, i)
      <4>1. Up(m)
        <5> HIDE DEF Up
        <5> QED BY <3>1
      <4> QED BY <4>1
    <3> DEFINE h == [i \in 1..(m + 1) |-> IF i = m + 1 THEN Next1(g, m + 1) ELSE g[i]]
    <3>3. Next1(g, m + 1) \in Seq(Entry)
      <4>1. seqs[m + 1] \in Seq(Entry)
        BY <3>1
      <4>2. m # 0 => g[m] \in Seq(Entry)
        BY <3>1, <3>2
      <4>3. m # 0 => g[m] \o seqs[m + 1] \in Seq(Entry)
        BY <4>1, <4>2, ConcatProperties
      <4> QED BY <3>1, <4>1, <4>3
    <3>4. h \in [1..(m + 1) -> Seq(Entry)]
      <4> HIDE DEF Next1
      <4>1. \A i \in 1..(m + 1) : i # m + 1 => i \in 1..m
        BY <3>1
      <4> QED BY <3>3, <4>1
    <3>5. ASSUME NEW i \in 1..(m + 1) PROVE h[i] = Next1(h, i)
      <4>1. CASE i = m + 1
        <5>1. h[i] = Next1(g, m + 1)
          BY <4>1
        <5>2. m # 0 => h[m] = g[m]
          BY <3>1
        <5> QED BY <3>1, <4>1, <5>1, <5>2
      <4>2. CASE i # m + 1
        <5>1. i \in 1..m /\ h[i] = g[i]
          BY <3>1, <4>2
        <5>2. i # 1 => h[i - 1] = g[i - 1]
          BY <3>1, <5>1
        <5> QED BY <3>2, <5>1, <5>2
      <4> QED BY <4>1, <4>2
    <3> HIDE DEF h, Next1
    <3> QED BY <3>4, <3>5
  <2> HIDE DEF Up
  <2>3. n \in S
    <3>1. S = Nat
      <4>1. S \in SUBSET Nat
        OBVIOUS
      <4> HIDE DEF S
      <4> QED BY <2>1, <2>2, <4>1, SetInduction
    <3> QED BY <3>1
  <2>4. PICK g \in [1..n -> Seq(Entry)] : \A i \in 1..n : g[i] = Next1(g, i)
    BY <2>3 DEF Up
  <2>5. P(g)
    <3>1. g = [i \in 1..n |-> Next1(g, i)]
      <4> HIDE DEF Next1
      <4> QED BY <2>4
    <3> QED BY <1>1, <3>1
  <2>6. P(f)
    <3> HIDE DEF P
    <3> QED BY <2>5
  <2>7. \A i \in 1..n : f[i] = Next1(f, i)
    <3>1. f = [i \in 1..n |-> Next1(f, i)]
      BY <1>1, <2>6
    <3> HIDE DEF f, Next1
    <3> QED BY <3>1
  <2> HIDE DEF f
  <2> DEFINE U == {m \in Nat : m + 1 <= n => f[m + 1] \in Seq(Entry)}
  <2>8. 0 \in U
    BY <1>3, <2>7
  <2>9. ASSUME NEW m \in U PROVE m + 1 \in U
    <3> SUFFICES ASSUME m + 2 <= n PROVE f[m + 2] \in Seq(Entry)
      OBVIOUS
    <3>1. m + 2 \in 1..n /\ f[m + 1] \in Seq(Entry)
      OBVIOUS
    <3>2. f[m + 2] = f[m + 1] \o seqs[m + 2]
      <4>1. m + 2 # 1 /\ (m + 2) - 1 = m + 1
        OBVIOUS
      <4> QED BY <2>7, <3>1, <4>1
    <3>3. seqs[m + 2] \in Seq(Entry)
      BY <3>1
    <3> QED BY <3>1, <3>2, <3>3, ConcatProperties
  <2>10. U = Nat
    <3>1. U \in SUBSET Nat
      OBVIOUS
    <3> HIDE DEF U
    <3> QED BY <2>8, <2>9, <3>1, SetInduction
  <2>11. f[n] \in Seq(Entry)
    <3>1. n - 1 \in Nat /\ (n - 1) + 1 = n
      BY <1>3
    <3>2. n - 1 \in U
      <4> HIDE DEF U
      <4> QED BY <2>10, <3>1
    <3> QED BY <3>1, <3>2
  <2>12. FlattenSeq(seqs) = f[n]
    BY <1>1, <1>3 DEF FlattenSeq, f
  <2> QED BY <2>11, <2>12
<1> QED BY <1>2, <1>3

LEMMA ListedTyped == ASSUME LInv, walk # "before" PROVE Listed \in Seq(Entry)
<1>1. /\ Len(scope) \in Nat /\ pageSize \in Nat \ {0}
  BY ListingAssumption, LenProperties DEF LInv
<1>2. \A D : ListByTopic(D) \in Seq(Entry)
  BY <1>1, OneList
<1>3. [i \in 1..Len(scope) |-> ListByTopic(scope[i])] \in [1..Len(scope) -> Seq(Entry)]
  BY <1>2
<1> QED BY <1>1, <1>3, FlattenTyped DEF Listed

LEMMA ListedOfOne == ASSUME Len(scope) = 1 PROVE Listed = ListByTopic(scope[1])
<1>1. [i \in 1..Len(scope) |-> ListByTopic(scope[i])] = [i \in 1..1 |-> ListByTopic(scope[1])]
  OBVIOUS
<1> QED BY <1>1, FlattenOne DEF Listed

\* What a page adds.
LEMMA Added ==
    ASSUME LInv, Page
    PROVE  \E L \in Seq(Entry) :
              /\ got' = got \o L /\ got' \in Seq(Entry)
              /\ Len(got') = Len(got) + Len(L)
              /\ \A i \in 1..Len(got) : got'[i] = got[i]
              /\ \A i \in 1..Len(L) : got'[Len(got) + i] = L[i] /\ L[i] = Listed[i]
              /\ IF Len(Listed) > pageSize
                 THEN /\ Len(L) = pageSize /\ token' = Listed[pageSize]
                      /\ walk' = "between"
                 ELSE L = Listed /\ walk' = "end" /\ token' = token
<1>1. walk = "between" /\ pageSize \in Nat \ {0} /\ Listed \in Seq(Entry) /\ got \in Seq(Entry)
  BY ListedTyped, ListingAssumption DEF LInv, ListingTypeOK, Page
<1>2. ASSUME NEW L \in Seq(Entry), got' = got \o L
      PROVE  /\ got' \in Seq(Entry) /\ Len(got') = Len(got) + Len(L)
             /\ \A i \in 1..Len(got) : got'[i] = got[i]
             /\ \A i \in 1..Len(L) : got'[Len(got) + i] = L[i]
  <2>1. /\ got \o L \in Seq(Entry) /\ Len(got \o L) = Len(got) + Len(L)
        /\ \A i \in 1..(Len(got) + Len(L)) : (got \o L)[i] = IF i <= Len(got) THEN got[i] ELSE L[i - Len(got)]
    BY <1>1, ConcatProperties
  <2>2. Len(got) \in Nat /\ Len(L) \in Nat
    BY <1>1, LenProperties
  <2>3. ASSUME NEW i \in 1..Len(L) PROVE got'[Len(got) + i] = L[i]
    <3>1. Len(got) + i \in 1..(Len(got) + Len(L)) /\ ~(Len(got) + i <= Len(got)) /\ (Len(got) + i) - Len(got) = i
      BY <2>2
    <3> QED BY <1>2, <2>1, <3>1
  <2>4. ASSUME NEW i \in 1..Len(got) PROVE got'[i] = got[i]
    <3>1. i \in 1..(Len(got) + Len(L)) /\ i <= Len(got)
      BY <2>2
    <3> QED BY <1>2, <2>1, <3>1
  <2> QED BY <1>2, <2>1, <2>3, <2>4
<1>3. CASE Len(Listed) > pageSize
  <2> DEFINE L == SubSeq(Listed, 1, pageSize)
  <2>1. pageSize \in 1..Len(Listed)
    BY <1>1, <1>3, LenProperties
  <2>2. L \in Seq(Entry) /\ Len(L) = pageSize /\ \A i \in 1..Len(L) : L[i] = Listed[i]
    BY <1>1, <2>1
  <2>3. got' = got \o L /\ token' = Listed[pageSize] /\ walk' = "between"
    BY <1>1, <1>3 DEF Page, NextToken
  <2> HIDE DEF L
  <2> QED BY <1>2, <1>3, <2>2, <2>3
<1>4. CASE ~(Len(Listed) > pageSize)
  <2>1. got' = got \o Listed /\ walk' = "end" /\ token' = token
    BY <1>4 DEF Page
  <2> QED BY <1>1, <1>2, <1>4, <2>1
<1> QED BY <1>3, <1>4

\* Where the walk of one topic stands after a page.
LEMMA PageWalks == ASSUME LInv, Page, Len(scope) = 1 PROVE Walked'
<1> DEFINE n == Len(got)
<1> DEFINE S == Left(scope[1])
<1>1. /\ walk = "between" /\ pageSize \in Nat \ {0} /\ got \in Seq(Entry) /\ n \in Nat
      /\ doc' = doc /\ status' = status /\ scope' = scope /\ only' = only /\ stays' = stays
  BY ListingAssumption, LenProperties DEF LInv, ListingTypeOK, Page, rows
<1>2. /\ \A i, k \in 1..n : i < k => got[k] < got[i]
      /\ stays \subseteq Wanted
      /\ token = Nothing => got = <<>>
      /\ token # Nothing => got # <<>> /\ token = got[n]
      /\ \A j \in stays : token = Nothing \/ IsGiven(j) \/ j < token
  BY <1>1 DEF LInv, Walked
<1>3. /\ Listed \in Seq(Entry)
      /\ \A i \in 1..Len(Listed) : Listed[i] \in S
      /\ \A i, k \in 1..Len(Listed) : i < k => Listed[k] < Listed[i]
      /\ Len(Listed) <= pageSize => \A j \in S : \E i \in 1..Len(Listed) : Listed[i] = j
      /\ Len(Listed) > pageSize => \A j \in S : (\E i \in 1..pageSize : Listed[i] = j) \/ j < Listed[pageSize]
  BY <1>1, ListedOfOne, OneList
<1>4. PICK L \in Seq(Entry) :
          /\ got' = got \o L /\ got' \in Seq(Entry)
          /\ Len(got') = Len(got) + Len(L)
          /\ \A i \in 1..Len(got) : got'[i] = got[i]
          /\ \A i \in 1..Len(L) : got'[Len(got) + i] = L[i] /\ L[i] = Listed[i]
          /\ IF Len(Listed) > pageSize
             THEN /\ Len(L) = pageSize /\ token' = Listed[pageSize]
                  /\ walk' = "between"
             ELSE L = Listed /\ walk' = "end" /\ token' = token
  BY Added
<1> DEFINE l == Len(L)
<1>5. l \in Nat /\ Len(Listed) \in Nat /\ l <= Len(Listed)
  BY <1>1, <1>3, <1>4, LenProperties
<1>6. /\ \A j \in S : j \in Entry /\ (token # Nothing => j < token)
      /\ \A j \in Wanted : (token = Nothing \/ (token \in Here /\ j < token)) => j \in S
  BY DEF Left, Wanted, Before, In, Here
<1> HIDE DEF n, S, l
<1>7. ASSUME NEW i \in 1..n PROVE got'[i] = got[i] /\ got[i] \in Entry /\ (token # Nothing /\ token <= got[i])
  <2>1. got'[i] = got[i] /\ got[i] \in Entry
    BY <1>1, <1>4, <1>7, ElementOfSeq DEF n
  <2>2. got # <<>>
    BY <1>1, <1>7 DEF n
  <2>3. token = got[n] /\ n \in 1..n /\ token # Nothing
    BY <1>1, <1>2, <1>7, <2>2
  <2>4. token \in Entry
    BY <1>1, <2>3, ElementOfSeq DEF n
  <2>5. i = n \/ i < n
    BY <1>1
  <2>6. token = got[i] \/ token < got[i]
    BY <1>2, <2>3, <2>5
  <2>7. token \in Nat /\ got[i] \in Nat
    BY <2>1, <2>4 DEF Entry
  <2> QED BY <2>1, <2>3, <2>6, <2>7
<1>8. ASSUME NEW i \in 1..l PROVE got'[n + i] = Listed[i] /\ Listed[i] \in S /\ i \in 1..Len(Listed)
  BY <1>3, <1>4, <1>5 DEF n, l
<1>9. ASSUME NEW i \in 1..Len(got'), NEW k \in 1..Len(got'), i < k PROVE got'[k] < got'[i]
  <2>1. Len(got') = n + l
    BY <1>4 DEF n, l
  <2>2. CASE k \in 1..n
    <3>1. i \in 1..n
      BY <1>1, <1>9, <2>2
    <3> QED BY <1>2, <1>7, <1>9, <2>2, <3>1
  <2>3. CASE i \in 1..n /\ k \notin 1..n
    <3>1. k - n \in 1..l /\ n + (k - n) = k
      BY <1>1, <1>5, <2>1, <2>3
    <3>2. got'[k] = Listed[k - n] /\ Listed[k - n] \in S
      BY <1>8, <3>1
    <3>3. token # Nothing /\ token <= got[i] /\ got'[i] = got[i] /\ got[i] \in Entry
      BY <1>7, <2>3
    <3>4. got'[k] < token /\ got'[k] \in Entry
      BY <1>6, <3>2, <3>3
    <3>5. token \in Entry
      BY <3>3 DEF LInv, ListingTypeOK
    <3>6. got'[k] \in Nat /\ token \in Nat /\ got[i] \in Nat
      BY <3>3, <3>4, <3>5 DEF Entry
    <3> QED BY <3>3, <3>4, <3>6
  <2>4. CASE i \notin 1..n
    <3>1. i - n \in 1..l /\ n + (i - n) = i /\ k - n \in 1..l /\ n + (k - n) = k /\ i - n < k - n
      BY <1>1, <1>5, <1>9, <2>1, <2>4
    <3>2. got'[k] = Listed[k - n] /\ got'[i] = Listed[i - n] /\ i - n \in 1..Len(Listed) /\ k - n \in 1..Len(Listed)
      BY <1>8, <3>1
    <3> QED BY <1>3, <3>1, <3>2
  <2> QED BY <2>2, <2>3, <2>4
<1>10. \A j : IsGiven(j) => IsGiven(j)'
  <2> SUFFICES ASSUME NEW j, NEW i \in 1..Len(got), got[i] = j PROVE \E k \in 1..Len(got') : got'[k] = j
    BY DEF IsGiven
  <2>1. i \in 1..n /\ i \in 1..Len(got')
    BY <1>1, <1>4, <1>5 DEF n, l
  <2> QED BY <1>7, <2>1
<1>11. ASSUME NEW j, NEW i \in 1..l, Listed[i] = j PROVE IsGiven(j)'
  <2>1. n + i \in 1..Len(got')
    BY <1>1, <1>4, <1>5 DEF n, l
  <2> QED BY <1>8, <1>11, <2>1 DEF IsGiven
<1>12. \A j \in stays : IsGiven(j) \/ j \in S \/ ~(token = Nothing \/ token \in Here)
  BY <1>2, <1>6
<1>13. stays' \subseteq Wanted'
  BY <1>1, <1>2 DEF Wanted, In, Here, Matches
<1>14. CASE Len(Listed) > pageSize
  <2>1. l = pageSize /\ token' = Listed[pageSize] /\ walk' = "between" /\ pageSize \in 1..l
    BY <1>1, <1>4, <1>14 DEF l
  <2>2. got'[Len(got')] = token' /\ token' \in Entry /\ token' # Nothing /\ got' # <<>>
    <3>1. Len(got') = n + pageSize
      BY <1>4, <2>1 DEF n, l
    <3>2. got'[n + pageSize] = Listed[pageSize] /\ Listed[pageSize] \in S
      BY <1>8, <2>1
    <3>3. Len(got') # 0
      BY <1>1, <3>1
    <3> QED BY <1>6, <2>1, <3>1, <3>2, <3>3, ListingAssumption
  <2>3. token = Nothing \/ token \in Here
    <3>1. S # {}
      BY <1>8, <2>1
    <3> QED BY <3>1 DEF S, Left, Before
  <2>4. ASSUME NEW j \in stays' PROVE IsGiven(j)' \/ j < token'
    <3>1. CASE IsGiven(j)
      BY <1>10, <3>1
    <3>2. CASE j \in S
      <4>1. (\E i \in 1..pageSize : Listed[i] = j) \/ j < Listed[pageSize]
        BY <1>3, <1>14, <3>2
      <4> QED BY <1>11, <2>1, <4>1
    <3> QED BY <1>1, <1>12, <2>3, <3>1, <3>2
  <2>5. status'[token'] # "none"
    <3>1. token' \in S
      BY <1>8, <2>1
    <3> QED BY <1>1, <3>1 DEF S, Left, In, Here
  <2> QED BY <1>9, <1>13, <2>1, <2>2, <2>4, <2>5 DEF Walked
<1>15. CASE ~(Len(Listed) > pageSize)
  <2>1. l = Len(Listed) /\ walk' = "end" /\ token' = token /\ Len(Listed) <= pageSize
    BY <1>1, <1>4, <1>5, <1>15 DEF l
  <2>2. ASSUME token' = Nothing \/ token' \in Here', NEW j \in stays' PROVE IsGiven(j)'
    <3>1. token = Nothing \/ token \in Here
      BY <1>1, <2>1, <2>2 DEF Here
    <3>2. CASE IsGiven(j)
      BY <1>10, <3>2
    <3>3. CASE j \in S
      BY <1>3, <1>11, <2>1, <3>3
    <3> QED BY <1>1, <1>12, <3>1, <3>2, <3>3
  <2>3. token' # Nothing => status'[token'] # "none"
    BY <1>1, <2>1 DEF LInv, Walked
  <2> QED BY <1>9, <1>13, <2>1, <2>2, <2>3 DEF Walked
<1> QED BY <1>14, <1>15

LEMMA PageIsOK == ASSUME LInv, Page PROVE LInv'
<1>1. /\ walk = "between" /\ walk' \in {"between", "end"} /\ got' \in Seq(Entry)
      /\ doc' = doc /\ status' = status /\ scope' = scope /\ only' = only
      /\ pageSize' = pageSize /\ stays' = stays
  BY Added DEF Page, rows
<1>2. Listed \in Seq(Entry) /\ pageSize \in Nat \ {0}
  BY <1>1, ListedTyped, ListingAssumption DEF LInv
<1>3. token' \in Entry \union {Nothing}
  <2>1. CASE token' = token
    BY <2>1 DEF LInv, ListingTypeOK
  <2>2. CASE Len(Listed) > pageSize /\ token' = Listed[pageSize]
    <3>1. pageSize \in 1..Len(Listed)
      BY <1>2, <2>2, LenProperties
    <3> QED BY <1>2, <2>2, <3>1, ElementOfSeq
  <2> QED BY <2>1, <2>2 DEF Page, NextToken
<1>4. ListingTypeOK'
  BY <1>1, <1>3 DEF LInv, ListingTypeOK
<1>5. Len(scope') = 1 => Walked'
  BY <1>1, PageWalks
<1> QED BY <1>1, <1>4, <1>5 DEF LInv

\* While the client reads nothing, what it was given stays; jobs that were there
\* may go, and none that was gone comes back under its id.
LEMMA RowsChange ==
    ASSUME LInv, ListingTypeOK', UNCHANGED client, stays' \subseteq stays,
           \A j \in stays' : j \in Wanted',
           \A j \in Entry : status[j] # "none" => status'[j] # "none" /\ (j \in Here' => j \in Here)
    PROVE  LInv'
<1>1. /\ walk' = walk /\ scope' = scope /\ only' = only /\ pageSize' = pageSize
      /\ token' = token /\ got' = got
  BY DEF client
<1>2. ASSUME Len(scope) = 1, Walked PROVE Walked'
  <2>1. token # Nothing => token \in Entry /\ status[token] # "none"
    BY <1>2 DEF LInv, ListingTypeOK, Walked
  <2>2. token # Nothing => status'[token] # "none" /\ (token \in Here' => token \in Here)
    BY <2>1
  <2>3. \A j : IsGiven(j)' = IsGiven(j)
    BY <1>1 DEF IsGiven
  <2>4. (walk = "end" /\ (token = Nothing \/ token \in Here')) => \A j \in stays' : IsGiven(j)'
    BY <1>2, <2>1, <2>2, <2>3 DEF Walked
  <2>5. \A j \in stays' : j \in stays
    OBVIOUS
  <2>6. walk = "between" => \A j \in stays' : token = Nothing \/ IsGiven(j)' \/ j < token
    BY <1>2, <2>3, <2>5 DEF Walked
  <2>7. stays' \subseteq Wanted'
    OBVIOUS
  <2>8. /\ \A i, k \in 1..Len(got) : i < k => got[k] < got[i]
        /\ walk = "between" => /\ token = Nothing => got = <<>>
                               /\ token # Nothing => got # <<>> /\ token = got[Len(got)]
    BY <1>2 DEF Walked
  <2> QED BY <1>1, <2>2, <2>4, <2>6, <2>7, <2>8 DEF Walked
<1> QED BY <1>1, <1>2 DEF LInv

LEMMA InsertIsOK == ASSUME LInv, NEW j \in Entry, NEW d \in Doc, Insert(j, d) PROVE LInv'
<1>1. /\ doc \in [Entry -> Doc \union {Nothing}]
      /\ status \in [Entry -> {"none", "queued", "completed", "gone"}]
      /\ status[j] = "none" /\ doc' = [doc EXCEPT ![j] = d]
      /\ status' = [status EXCEPT ![j] = "queued"] /\ UNCHANGED <<client, stays>>
  BY DEF LInv, ListingTypeOK, Insert
<1>2. ListingTypeOK'
  BY <1>1 DEF LInv, ListingTypeOK, client
<1>3. \A k \in Entry : k # j => status'[k] = status[k] /\ doc'[k] = doc[k]
  BY <1>1
<1>4. \A k \in Wanted : k \in Wanted'
  <2>1. \A k \in Wanted : k \in Entry /\ k # j
    BY <1>1 DEF Wanted, In, Here
  <2> QED BY <1>1, <1>3, <2>1 DEF Wanted, In, Here, Matches, client
<1>5. \A k \in Entry : status[k] # "none" => status'[k] # "none" /\ (k \in Here' => k \in Here)
  BY <1>1, <1>3 DEF Here
<1>6. stays \subseteq Wanted \/ Len(scope) # 1
  BY DEF LInv, Walked
<1>7. CASE Len(scope) = 1
  BY <1>1, <1>2, <1>4, <1>5, <1>6, <1>7, RowsChange
<1>8. CASE Len(scope) # 1
  BY <1>1, <1>2, <1>8 DEF LInv, client
<1> QED BY <1>7, <1>8

LEMMA CompleteIsOK == ASSUME LInv, NEW j \in Entry, Complete(j) PROVE LInv'
<1>1. /\ status \in [Entry -> {"none", "queued", "completed", "gone"}]
      /\ status[j] = "queued" /\ status' = [status EXCEPT ![j] = "completed"]
      /\ UNCHANGED <<doc, client>>
      /\ stays' = IF only = "queued" THEN stays \ {j} ELSE stays
  BY DEF LInv, ListingTypeOK, Complete
<1>2. ListingTypeOK' /\ stays' \subseteq stays
  BY <1>1 DEF LInv, ListingTypeOK, client
<1>3. \A k \in Entry : k # j => status'[k] = status[k]
  BY <1>1
<1>4. \A k \in Wanted : (only = "queued" /\ k = j) \/ k \in Wanted'
  <2> SUFFICES ASSUME NEW k \in Wanted, ~(only = "queued" /\ k = j) PROVE k \in Wanted'
    OBVIOUS
  <2>1. k \in Here' /\ doc'[k] \in scope'[1]
    BY <1>1, <1>3 DEF Wanted, In, Here, client
  <2>2. CASE k # j
    BY <1>1, <1>3, <2>1, <2>2 DEF Wanted, In, Here, Matches, client
  <2>3. CASE k = j
    <3>1. only = Nothing
      BY <1>1, <2>3 DEF Wanted, Matches
    <3> QED BY <1>1, <2>1, <3>1 DEF Wanted, In, Here, Matches, client
  <2> QED BY <2>2, <2>3
<1>5. \A k \in Entry : status[k] # "none" => status'[k] # "none" /\ (k \in Here' => k \in Here)
  BY <1>1, <1>3 DEF Here
<1>6. stays \subseteq Wanted \/ Len(scope) # 1
  BY DEF LInv, Walked
<1>7. CASE Len(scope) = 1
  <2>1. \A k \in stays' : k \in Wanted'
    BY <1>1, <1>4, <1>6, <1>7
  <2> QED BY <1>1, <1>2, <1>5, <2>1, RowsChange
<1>8. CASE Len(scope) # 1
  BY <1>1, <1>2, <1>8 DEF LInv, client
<1> QED BY <1>7, <1>8

LEMMA DeleteIsOK == ASSUME LInv, NEW d \in Doc, DeleteDocument(d) PROVE LInv'
<1>1. /\ status \in [Entry -> {"none", "queued", "completed", "gone"}]
      /\ status' = [k \in Entry |-> IF k \in In({d}) THEN "gone" ELSE status[k]]
      /\ stays' = stays \ In({d}) /\ UNCHANGED <<doc, client>>
  BY DEF LInv, ListingTypeOK, DeleteDocument
<1>2. ListingTypeOK' /\ stays' \subseteq stays
  BY <1>1 DEF LInv, ListingTypeOK, client
<1>3. \A k \in Wanted : k \in In({d}) \/ k \in Wanted'
  BY <1>1 DEF Wanted, In, Here, Matches, client
<1>4. \A k \in Entry : status[k] # "none" => status'[k] # "none" /\ (k \in Here' => k \in Here)
  BY <1>1 DEF Here
<1>5. stays \subseteq Wanted \/ Len(scope) # 1
  BY DEF LInv, Walked
<1>6. CASE Len(scope) = 1
  <2>1. \A k \in stays' : k \in Wanted'
    BY <1>1, <1>3, <1>5, <1>6
  <2> QED BY <1>1, <1>2, <1>4, <2>1, RowsChange
<1>7. CASE Len(scope) # 1
  BY <1>1, <1>2, <1>7 DEF LInv, client
<1> QED BY <1>6, <1>7

LEMMA FirstRequestIsOK ==
    ASSUME LInv, NEW s \in Scopes, NEW f \in {Nothing, "queued", "completed"}, NEW n \in PageSizes,
           FirstRequest(s, f, n)
    PROVE  LInv'
<1>1. /\ walk = "before" /\ walk' = "between" /\ scope' = s /\ only' = f /\ pageSize' = n
      /\ stays' = {j \in UNION {In(s[i]) : i \in 1..Len(s)} : f = Nothing \/ status[j] = f}
      /\ token' = Nothing /\ got' = <<>> /\ doc' = doc /\ status' = status
  BY DEF FirstRequest, LInv, rows
<1>2. stays' \subseteq Entry
  BY <1>1 DEF In, Here
<1>3. ListingTypeOK'
  BY <1>1, <1>2 DEF LInv, ListingTypeOK
<1>4. ASSUME Len(s) = 1 PROVE Walked'
  <2>1. stays' \subseteq Wanted'
    BY <1>1, <1>4 DEF Wanted, In, Here, Matches
  <2> QED BY <1>1, <2>1 DEF Walked
<1> QED BY <1>1, <1>3, <1>4 DEF LInv

LEMMA ListingStarts == ListingInit => LInv
<1> SUFFICES ASSUME ListingInit PROVE LInv
  OBVIOUS
<1>1. ListingTypeOK
  BY <<>> \in Seq(Entry) DEF ListingInit, ListingTypeOK
<1> QED BY <1>1 DEF ListingInit, LInv

LEMMA ListingKeeps == LInv /\ [ListingNext]_listingVars => LInv'
<1> SUFFICES ASSUME LInv, [ListingNext]_listingVars PROVE LInv'
  OBVIOUS
<1>1. CASE UNCHANGED listingVars
  BY <1>1 DEF LInv, ListingTypeOK, Walked, Wanted, IsGiven, In, Here, Matches, listingVars, rows, client
<1> QED BY <1>1, PageIsOK, InsertIsOK, CompleteIsOK, DeleteIsOK, FirstRequestIsOK DEF ListingNext

LEMMA ListingInvariant == ListingSpec => []LInv
  BY ListingStarts, ListingKeeps, PTL DEF ListingSpec

\* job.go:68: whoever walks through the jobs of one topic or one document, for any
\* number of jobs and any page sizes, is given each job that matched all the time,
\* and none twice, whatever is inserted, completed or deleted meanwhile; unless the
\* job that a token names is deleted.
THEOREM OneTopicIsComplete == ListingSpec => [](Len(scope) = 1 => WalkIsComplete)
<1>1. LInv /\ Len(scope) = 1 => WalkIsComplete
  <2> SUFFICES ASSUME LInv, Len(scope) = 1, walk = "end", token = Nothing \/ token \in Here
               PROVE  /\ stays \subseteq {got[i] : i \in 1..Len(got)}
                      /\ \A i, j \in 1..Len(got) : got[i] = got[j] => i = j
    BY DEF WalkIsComplete
  <2>1. \A j \in stays : IsGiven(j)
    BY DEF LInv, Walked
  <2>2. ASSUME NEW i \in 1..Len(got), NEW j \in 1..Len(got), got[i] = got[j] PROVE i = j
    <3>1. got \in Seq(Entry) /\ Len(got) \in Nat
      BY LenProperties DEF LInv, ListingTypeOK
    <3>2. got[i] \in Nat /\ got[j] \in Nat
      <4>1. got[i] \in Entry /\ got[j] \in Entry
        BY <2>2, <3>1, ElementOfSeq
      <4> QED BY <4>1 DEF Entry
    <3>3. ~(i < j) /\ ~(j < i)
      BY <2>2, <3>2 DEF LInv, Walked
    <3> QED BY <3>1, <3>3
  <2> QED BY <2>1, <2>2 DEF IsGiven
<1> QED BY <1>1, ListingInvariant, PTL

\* The same when no client can ask for more than one topic.
THEOREM WalksAreComplete ==
    ASSUME \A s \in Scopes : Len(s) = 1
    PROVE  ListingSpec => []WalkIsComplete
<1>1. LInv /\ (Len(scope) = 1 => WalkIsComplete) => WalkIsComplete
  <2> SUFFICES ASSUME LInv, Len(scope) # 1, walk = "end" PROVE FALSE
    BY DEF WalkIsComplete
  <2> QED BY DEF LInv
<1> QED BY <1>1, ListingInvariant, OneTopicIsComplete, PTL
-----------------------------------------------------------------------------
(* The parts side by side.                                                 *)

LEMMA EachPart == Spec => MemorySpec /\ ListingSpec /\ SplitSpec /\ RegistrySpec
<1>1. Init => MemoryInit /\ ListingInit /\ SplitInit /\ RegistryInit
  BY DEF Init
<1>2. [Next]_<<part, memoryVars, listingVars, splitVars, registryVars>>
        => /\ [MemoryNext]_memoryVars /\ [ListingNext]_listingVars
           /\ [Cut]_splitVars /\ [RegistryNext]_registryVars
  BY DEF Next
<1> QED BY <1>1, <1>2, PTL DEF Spec, MemorySpec, ListingSpec, SplitSpec, RegistrySpec

\* Each part keeps its types, for any numbers of memories, jobs, topics, backends
\* and calls.
THEOREM TypesStay == Spec => []TypeOK
<1>1. LInv => ListingTypeOK
  BY DEF LInv
<1>2. SInv => SplitTypeOK
  BY DEF SInv
<1>3. RInv => RegistryTypeOK
  BY DEF RInv
<1>4. RegistrySpec => []RInv
  BY RegistryStarts, RegistryKeeps, PTL DEF RegistrySpec
<1>5. MemoryTypeOK /\ ListingTypeOK /\ SplitTypeOK /\ RegistryTypeOK => TypeOK
  BY DEF TypeOK
<1> QED BY EachPart, TypeCorrect, ListingInvariant, SplitInvariant, <1>1, <1>2, <1>3, <1>4, <1>5, PTL
=============================================================================
