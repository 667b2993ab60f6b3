---------------------------- MODULE RetrievalProofs ----------------------------
(***************************************************************************)
(* Proofs about searching a wiki, for any pages, rankings of the semantic  *)
(* index, weights, limits and budgets: the cache of the keyword search,    *)
(* the ranking of its results, and what becomes of a search.               *)
(***************************************************************************)
EXTENDS Retrieval, FiniteSetTheorems, NaturalsInduction, WellFoundedInduction, SequenceTheorems, TLAPS

-----------------------------------------------------------------------------
(* Numbers *)

\* A nonempty set of numbers up to n has a greatest one.
LEMMA HasGreatest ==
    ASSUME NEW n \in Nat, NEW S \in SUBSET (0..n), S # {}
    PROVE  \E i \in S : \A j \in S : j <= i
  <1> DEFINE T == {n - i : i \in S}
             R == OpToRel(<, Nat)
  <1>1. \A i \in S : i \in Nat /\ n - i \in Nat
    BY S \subseteq 0..n
  <1>2. IsWellFoundedOn(R, Nat)
    BY NatLessThanWellFounded
  <1>3. T \subseteq Nat /\ T # {}
    BY <1>1
  <1>4. PICK x \in T : \A y \in T : ~(<<y, x>> \in R)
    <2> HIDE DEF R, T
    <2> QED BY <1>2, <1>3, WFMin
  <1>5. \A y \in T : ~(y < x)
    BY <1>3, <1>4 DEF OpToRel
  <1>6. PICK i \in S : x = n - i
    OBVIOUS
  <1>7. \A j \in S : ~(n - j < n - i)
    BY <1>5, <1>6
  <1>8. \A j \in S : j <= i
    BY <1>1, <1>7
  <1> QED BY <1>8

LEMMA MaxIsGreatest ==
    ASSUME NEW n \in Nat, NEW S \in SUBSET (0..n), S # {}
    PROVE  Max(S) \in S /\ \A x \in S : x <= Max(S)
  <1>1. PICK i \in S : \A j \in S : j <= i
    BY HasGreatest
  <1>2. \A j \in S : i >= j
    BY <1>1
  <1>3. Max(S) \in S /\ \A y \in S : Max(S) >= y
    BY <1>2 DEF Max
  <1> QED BY <1>3

-----------------------------------------------------------------------------
(* The cache *)

Loading == [phase : {"list"}, fp : Nat \X Nat]
Reading == [phase : {"read"}, fp : Nat \X Nat, docs : [Page -> Unreadable..MaxTime], todo : SUBSET Page]
Resting == [phase : {"idle", "check", "ready", "failed"}]

\* Pages as they were at some time, up to which all that is there still is in docs, but for
\* what could not be read, or is going to be read.
UpToDate(docs, todo, until) == \A p \in Page : disk[p] > 0 /\ disk[p] <= until => p \in todo \/ docs[p] \in {disk[p], Unreadable}

\* Every write is later than the fingerprints there are, so what they vouch for stays so.
CacheInv ==
    /\ time \in 1..MaxTime /\ disk \in [Page -> 0..time]
    /\ cache \in [built : BOOLEAN, docs : [Page -> Unreadable..MaxTime], fp : Nat \X Nat]
    /\ cache.fp[2] <= time
    /\ cache.built => UpToDate(cache.docs, {}, cache.fp[2])
    /\ DOMAIN load = Caller
    /\ \A c \in Caller :
          /\ load[c] \in Resting \cup Loading \cup Reading
          /\ load[c].phase \in {"list", "read"} => load[c].fp[2] <= time
          /\ load[c].phase = "read" => UpToDate(load[c].docs, load[c].todo, load[c].fp[2])

\* The pages that are there, and the time of the newest.
LEMMA FingerprintIsTyped ==
    ASSUME CacheInv
    PROVE  /\ Fingerprint \in Nat \X Nat /\ Fingerprint[2] <= time
           /\ \A p \in Page : disk[p] <= Fingerprint[2]
  <1> DEFINE There == {p \in Page : disk[p] > 0}
             Times == {disk[p] : p \in Page}
  <1>1. Cardinality(There) \in Nat
    BY SearchIsConfigured, FS_Subset, FS_CardinalityType
  <1>2. time \in Nat /\ Times \subseteq 0..time /\ Times # {}
    BY SearchIsConfigured, SMTT(40) DEF CacheInv
  <1>3. Max(Times) \in Times /\ \A x \in Times : x <= Max(Times)
    <2> HIDE DEF Times
    <2> QED BY <1>2, MaxIsGreatest
  <1>4. Max(Times) \in Nat /\ Max(Times) <= time
    BY <1>2, <1>3
  <1> QED BY <1>1, <1>3, <1>4 DEF Fingerprint

LEMMA CacheInit == Init => CacheInv
  <1> SUFFICES ASSUME Init PROVE CacheInv
    OBVIOUS
  <1>1. MaxTime \in Nat \ {0}
    BY SearchIsConfigured
  <1> QED BY <1>1 DEF Init, CacheInv, UpToDate, Unloaded, Resting, Unreadable

-----------------------------------------------------------------------------
\* What a step leaves to be shown of the callers other than the one that takes it.
LEMMA OthersKeepLoading ==
    ASSUME CacheInv, NEW c \in Caller, NEW l \in Resting \cup Loading \cup Reading,
           load' = [load EXCEPT ![c] = l], UNCHANGED <<pages, cache>>,
           l.phase \in {"list", "read"} => l.fp[2] <= time,
           l.phase = "read" => UpToDate(l.docs, l.todo, l.fp[2])
    PROVE  CacheInv'
  BY DEF CacheInv, UpToDate, pages

LEMMA CacheWrite ==
    ASSUME CacheInv, NEW p \in Page, Write(p)
    PROVE  CacheInv'
  <1>1. time + 1 \in 1..MaxTime /\ time' = time + 1 /\ disk' = [disk EXCEPT ![p] = time + 1]
    BY SearchIsConfigured DEF CacheInv, Write
  <1>2. UNCHANGED <<cache, load>>
    BY DEF Write
  <1>3. \A docs, todo : \A until \in 0..time :
            UpToDate(docs, todo, until) => UpToDate(docs, todo, until)'
    BY <1>1 DEF CacheInv, UpToDate
  <1>4. disk' \in [Page -> 0..time']
    BY <1>1 DEF CacheInv
  <1>5. cache.built => UpToDate(cache.docs, {}, cache.fp[2])'
    <2>1. cache.fp[2] \in 0..time /\ (cache.built => UpToDate(cache.docs, {}, cache.fp[2]))
      BY DEF CacheInv
    <2> QED BY <1>2, <1>3, <2>1
  <1>6. ASSUME NEW c \in Caller
        PROVE  /\ load[c].phase \in {"list", "read"} => load[c].fp[2] <= time'
               /\ load[c].phase = "read" => UpToDate(load[c].docs, load[c].todo, load[c].fp[2])'
    <2>1. load[c].phase \in {"list", "read"} => load[c].fp[2] \in 0..time
      BY DEF CacheInv, Resting, Loading, Reading
    <2>2. load[c].phase = "read" => UpToDate(load[c].docs, load[c].todo, load[c].fp[2])
      BY DEF CacheInv
    <2>3. load[c].phase = "read" => UpToDate(load[c].docs, load[c].todo, load[c].fp[2])'
      BY <1>2, <1>3, <2>1, <2>2
    <2> QED BY <1>1, <2>1, <2>3 DEF CacheInv
  <1> QED BY <1>1, <1>2, <1>4, <1>5, <1>6 DEF CacheInv, UpToDate

LEMMA CacheDelete ==
    ASSUME CacheInv, NEW p \in Page, Delete(p)
    PROVE  CacheInv'
  <1>1. /\ disk' = [disk EXCEPT ![p] = 0]
        /\ UNCHANGED <<time, cache, load>>
    BY DEF Delete
  <1> QED BY <1>1 DEF CacheInv, UpToDate

LEMMA ReadyIsResting == \A c \in Caller : Ready(c) \in Resting
  BY DEF Ready, Resting, Unloaded

LEMMA CacheCheck ==
    ASSUME CacheInv, NEW c \in Caller, Check(c)
    PROVE  CacheInv'
  <1> DEFINE l == IF cache.built /\ Fingerprint = cache.fp THEN Ready(c)
                  ELSE [phase |-> "list", fp |-> Fingerprint]
  <1>1. l \in Resting \cup Loading /\ (l.phase = "list" => l.fp[2] <= time)
    BY FingerprintIsTyped, ReadyIsResting DEF Resting, Loading
  <1>2. load' = [load EXCEPT ![c] = l] /\ UNCHANGED <<pages, cache>>
    BY DEF Check
  <1>3. l.phase # "read"
    BY <1>1 DEF Resting, Loading
  <1> HIDE DEF l
  <1> QED BY <1>1, <1>2, <1>3, OthersKeepLoading

LEMMA CacheList ==
    ASSUME CacheInv, NEW c \in Caller, List(c)
    PROVE  CacheInv'
  <1> DEFINE l == [phase |-> "read", fp |-> load[c].fp, docs |-> [p \in Page |-> 0],
                   todo |-> {p \in Page : disk[p] > 0}]
  <1>1. load[c] \in Loading /\ load[c].fp[2] <= time
    BY DEF CacheInv, List, Resting, Loading, Reading
  <1>2. l \in Reading
    BY <1>1, SearchIsConfigured DEF Loading, Reading, Unreadable
  <1>3. UpToDate(l.docs, l.todo, l.fp[2])
    BY DEF UpToDate
  <1>4. load' = [load EXCEPT ![c] = l] /\ UNCHANGED <<pages, cache>>
    BY DEF List, CacheInv
  <1>5. l.fp = load[c].fp
    OBVIOUS
  <1> HIDE DEF l
  <1> QED BY <1>1, <1>2, <1>3, <1>4, <1>5, OthersKeepLoading

LEMMA CacheReadDoc ==
    ASSUME CacheInv, NEW c \in Caller, ReadDoc(c)
    PROVE  CacheInv'
  <1>1. load[c] \in Reading /\ load[c].fp[2] <= time /\ UpToDate(load[c].docs, load[c].todo, load[c].fp[2])
    BY DEF CacheInv, ReadDoc, Resting, Loading, Reading
  <1>2. PICK p \in load[c].todo : \E found \in {TRUE, p \notin Flaky} :
            load' = [load EXCEPT ![c].todo = @ \ {p}, ![c].docs[p] = IF found THEN disk[p] ELSE Unreadable]
    BY DEF ReadDoc
  <1>v. PICK v \in {disk[p], Unreadable} :
            load' = [load EXCEPT ![c].todo = @ \ {p}, ![c].docs[p] = v]
    BY <1>2
  <1> DEFINE l == [phase |-> "read", fp |-> load[c].fp, docs |-> [load[c].docs EXCEPT ![p] = v],
                   todo |-> load[c].todo \ {p}]
  <1>3. load' = [load EXCEPT ![c] = l]
    <2>1. DOMAIN load = Caller /\ DOMAIN load' = Caller
      BY <1>2 DEF CacheInv
    <2>2. load'[c] = l
      BY <1>1, <1>v, <2>1 DEF Reading
    <2>3. \A d \in Caller \ {c} : load'[d] = load[d]
      BY <1>2, <2>1
    <2>4. load' = [d \in Caller |-> load'[d]]
      BY <1>2, <2>1
    <2> HIDE DEF l
    <2> QED BY <2>1, <2>2, <2>3, <2>4
  <1>4. p \in Page /\ v \in Unreadable..MaxTime
    <2>1. p \in Page
      BY <1>1, <1>2 DEF Reading
    <2>2. time \in 1..MaxTime /\ MaxTime \in Nat /\ disk[p] \in 0..time
      BY <2>1, SearchIsConfigured DEF CacheInv
    <2> QED BY <1>v, <2>1, <2>2 DEF Unreadable
  <1>5. l \in Reading
    BY <1>1, <1>4 DEF Reading
  <1>6. UpToDate(l.docs, l.todo, l.fp[2])
    BY <1>1, <1>4, <1>v DEF UpToDate, Reading
  <1>7. UNCHANGED <<pages, cache>>
    BY DEF ReadDoc
  <1>8. l.fp = load[c].fp
    OBVIOUS
  <1> HIDE DEF l
  <1> QED BY <1>1, <1>3, <1>5, <1>6, <1>7, <1>8, OthersKeepLoading

LEMMA CacheInstall ==
    ASSUME CacheInv, NEW c \in Caller, Install(c)
    PROVE  CacheInv'
  <1>1. load[c] \in Reading /\ load[c].fp[2] <= time /\ UpToDate(load[c].docs, {}, load[c].fp[2])
    BY DEF CacheInv, Install, Resting, Loading, Reading
  <1>2. /\ cache' = [cache EXCEPT !.built = TRUE, !.docs = load[c].docs, !.fp = load[c].fp]
        /\ load' = [load EXCEPT ![c] = Ready(c)]
        /\ UNCHANGED pages
    BY DEF Install, InstalledFingerprint
  <1>3. cache' = [built |-> TRUE, docs |-> load[c].docs, fp |-> load[c].fp]
    BY <1>2 DEF CacheInv
  <1>4. cache' \in [built : BOOLEAN, docs : [Page -> Unreadable..MaxTime], fp : Nat \X Nat] /\ cache'.fp[2] <= time
    BY <1>1, <1>3 DEF Reading
  <1>5. UpToDate(cache.docs, {}, cache.fp[2])'
    BY <1>1, <1>2, <1>3 DEF UpToDate, pages
  <1>6. Ready(c) \in Resting
    BY ReadyIsResting
  <1> QED BY <1>2, <1>4, <1>5, <1>6 DEF CacheInv, UpToDate, pages, Resting

LEMMA CacheRests ==
    ASSUME CacheInv, NEW c \in Caller, NEW l \in Resting, load' = [load EXCEPT ![c] = l], UNCHANGED <<pages, cache>>
    PROVE  CacheInv'
  <1>1. l.phase \notin {"list", "read"}
    BY DEF Resting
  <1> QED BY <1>1, OthersKeepLoading

LEMMA CacheKept ==
    ASSUME CacheInv, UNCHANGED <<pages, cache, load>>
    PROVE  CacheInv'
  BY DEF CacheInv, UpToDate, pages

LEMMA CacheStart ==
    ASSUME CacheInv, NEW kind, NEW engine, Start(kind, engine)
    PROVE  CacheInv'
  <1>1. CASE engine = "vector"
    BY <1>1, CacheKept DEF Start
  <1>2. CASE engine # "vector"
    <2>1. [phase |-> "check"] \in Resting /\ "query" \in Caller
      BY DEF Resting, Caller
    <2> QED BY <1>2, <2>1, CacheRests DEF Start
  <1> QED BY <1>1, <1>2

LEMMA CacheStep == CacheInv /\ [Next]_vars => CacheInv'
  <1> SUFFICES ASSUME CacheInv, [Next]_vars PROVE CacheInv'
    OBVIOUS
  <1>1. CASE \E p \in Page : Write(p) \/ Delete(p)
    BY <1>1, CacheWrite, CacheDelete
  <1>2. CASE StaysFresh
    <2>1. "query" \in Caller
      BY DEF Caller
    <2> QED BY <1>2, <2>1, ReadyIsResting, CacheRests DEF StaysFresh
  <1>3. CASE \E c \in Caller : Ensure(c)
    BY <1>3, CacheCheck, CacheList, CacheReadDoc, CacheInstall DEF Ensure
  <1>4. CASE \E c \in Caller : LoadFails(c)
    <2>1. PICK c \in Caller : LoadFails(c)
      BY <1>4
    <2>2. (IF c = "query" THEN [phase |-> "failed"] ELSE Unloaded) \in Resting
      BY DEF Resting, Unloaded
    <2> QED BY <2>1, <2>2, CacheRests DEF LoadFails
  <1>5. CASE (\E text \in Text : Prompt(text)) \/ Ask
    BY <1>5, CacheStart DEF Prompt, Ask
  <1>6. CASE LexicalEnds
    <2>1. "query" \in Caller /\ Unloaded \in Resting
      BY DEF Caller, Resting, Unloaded
    <2> QED BY <1>6, <2>1, CacheRests DEF LexicalEnds
  <1>7. CASE Expire \/ SemanticEnds \/ Fuse \/ SearchEnds \/ SearchFails \/ Judgement
    BY <1>7, CacheKept DEF Expire, SemanticEnds, Fuse, SearchEnds, SearchFails, Judgement, JevAnswers, JevFails,
                           Retry, JevRefuses
  <1>8. CASE UNCHANGED vars
    BY <1>8, CacheKept DEF vars
  <1> QED BY <1>1, <1>2, <1>3, <1>4, <1>5, <1>6, <1>7, <1>8 DEF Next, QueryStep

\* What is vouched for by the fingerprint of now is every page there is.
LEMMA CacheCovers ==
    ASSUME CacheInv, cache.built, cache.fp = Fingerprint, NEW p \in Page, disk[p] > 0
    PROVE  cache.docs[p] \in {disk[p], Unreadable}
  BY FingerprintIsTyped DEF CacheInv, UpToDate

-----------------------------------------------------------------------------
(* The order of a ranking *)

IsKeyed(I, keys) == I \in SUBSET Nat /\ IsFiniteSet(I) /\ \A i \in I : keys[i] \in Int

\* An order of I lists all of it, nothing twice, and what precedes first.
Sorts(order, I, keys) ==
    /\ order \in [1..Cardinality(I) -> I]
    /\ \A k, l \in 1..Cardinality(I) : k < l => Precedes(keys, order[k], order[l])
    /\ \A k, l \in 1..Cardinality(I) : k # l => order[k] # order[l]
    /\ \A i \in I : \E k \in 1..Cardinality(I) : order[k] = i

LEMMA PrecedesIsTotal ==
    ASSUME NEW I, NEW keys, IsKeyed(I, keys)
    PROVE  \A i, j \in I : /\ i # j => Precedes(keys, i, j) \/ Precedes(keys, j, i)
                           /\ ~(Precedes(keys, i, j) /\ Precedes(keys, j, i))
                           /\ \A k \in I : Precedes(keys, i, j) /\ Precedes(keys, j, k) => Precedes(keys, i, k)
  BY DEF IsKeyed, Precedes

\* There is such an order: everything at the place that as many precede it as are before it.
LEMMA SortedOrderExists ==
    ASSUME NEW I, NEW keys, IsKeyed(I, keys)
    PROVE  \E order \in [1..Cardinality(I) -> I] :
              \A k, l \in DOMAIN order : k < l => Precedes(keys, order[k], order[l])
  <1> DEFINE n == Cardinality(I)
             Before(i) == {j \in I : Precedes(keys, j, i)}
             rank == [i \in I |-> Cardinality(Before(i)) + 1]
  <1>1. IsFiniteSet(I) /\ n \in Nat
    BY FS_CardinalityType DEF IsKeyed
  <1>2. \A i \in I : Before(i) \in SUBSET I /\ i \notin Before(i)
    BY PrecedesIsTotal
  <1>3. \A i \in I : IsFiniteSet(Before(i)) /\ Cardinality(Before(i)) \in Nat /\ Cardinality(Before(i)) < n
    <2>1. SUFFICES ASSUME NEW i \in I
                   PROVE  IsFiniteSet(Before(i)) /\ Cardinality(Before(i)) \in Nat /\ Cardinality(Before(i)) < n
      OBVIOUS
    <2>2. /\ IsFiniteSet(Before(i)) /\ Cardinality(Before(i)) <= n
          /\ n = Cardinality(Before(i)) => I = Before(i)
      BY <1>1, <1>2, FS_Subset
    <2>3. Cardinality(Before(i)) \in Nat
      BY <2>2, FS_CardinalityType
    <2> QED BY <1>1, <1>2, <2>2, <2>3
  <1>4. \A i, j \in I : Precedes(keys, i, j) => rank[i] < rank[j]
    <2>1. SUFFICES ASSUME NEW i \in I, NEW j \in I, Precedes(keys, i, j) PROVE rank[i] < rank[j]
      OBVIOUS
    <2>2. Before(i) \in SUBSET Before(j) /\ i \in Before(j) /\ i \notin Before(i)
      BY <2>1, PrecedesIsTotal
    <2>3. Cardinality(Before(i)) <= Cardinality(Before(j)) /\ Cardinality(Before(i)) # Cardinality(Before(j))
      BY <1>3, <2>2, FS_Subset
    <2>4. Cardinality(Before(i)) \in Nat /\ Cardinality(Before(j)) \in Nat
      BY <1>3
    <2> HIDE DEF Before
    <2> QED BY <2>3, <2>4
  <1>5. rank \in [I -> 1..n]
    BY <1>1, <1>3
  <1>6. \A i, j \in I : i # j => rank[i] # rank[j]
    <2>1. \A i \in I : rank[i] \in Int
      BY <1>1, <1>5
    <2> HIDE DEF rank
    <2> QED BY <1>4, <2>1, PrecedesIsTotal
  <1>7. rank \in Injection(I, 1..n)
    BY <1>5, <1>6 DEF Injection, IsInjective
  <1>8. IsFiniteSet(1..n) /\ Cardinality(1..n) = n
    BY <1>1, FS_Interval
  <1>9. rank \in Surjection(I, 1..n)
    BY <1>1, <1>7, <1>8, FS_Injection
  <1>10. \A k \in 1..n : \E i \in I : rank[i] = k
    BY <1>9 DEF Surjection
  <1> DEFINE order == [k \in 1..n |-> CHOOSE i \in I : rank[i] = k]
  <1> HIDE DEF rank
  <1>11. order \in [1..n -> I] /\ \A k \in 1..n : rank[order[k]] = k
    BY <1>10
  <1> HIDE DEF order
  <1>12. ASSUME NEW k \in 1..n, NEW l \in 1..n, k < l PROVE Precedes(keys, order[k], order[l])
    <2>1. order[k] \in I /\ order[l] \in I /\ order[k] # order[l] /\ ~(rank[order[l]] < rank[order[k]])
      BY <1>1, <1>11, <1>12
    <2> QED BY <1>4, <2>1, PrecedesIsTotal
  <1> QED BY <1>11, <1>12

LEMMA OrderSorts ==
    ASSUME NEW I, NEW keys, IsKeyed(I, keys)
    PROVE  Sorts(Order(I, keys), I, keys)
  <1> DEFINE n == Cardinality(I)
             order == Order(I, keys)
  <1>1. IsFiniteSet(I) /\ n \in Nat /\ IsFiniteSet(1..n) /\ Cardinality(1..n) = n
    BY FS_CardinalityType, FS_Interval DEF IsKeyed
  <1>2. order \in [1..n -> I] /\ \A k, l \in 1..n : k < l => Precedes(keys, order[k], order[l])
    <2>1. \E o \in [1..n -> I] : \A k, l \in DOMAIN o : k < l => Precedes(keys, o[k], o[l])
      BY SortedOrderExists
    <2>2. order \in [1..n -> I] /\ \A k, l \in DOMAIN order : k < l => Precedes(keys, order[k], order[l])
      BY <2>1 DEF Order
    <2> HIDE DEF order
    <2> QED BY <2>2
  <1> HIDE DEF order
  <1>3. \A k, l \in 1..n : k # l => order[k] # order[l]
    <2>1. \A k, l \in 1..n : k < l => order[k] # order[l]
      BY <1>2, PrecedesIsTotal
    <2>2. \A k, l \in 1..n : k # l => k < l \/ l < k
      BY <1>1
    <2> QED BY <2>1, <2>2
  <1>4. order \in Injection(1..n, I)
    BY <1>2, <1>3 DEF Injection, IsInjective
  <1>5. order \in Surjection(1..n, I)
    BY <1>1, <1>4, FS_Injection
  <1>6. \A i \in I : \E k \in 1..n : order[k] = i
    BY <1>5 DEF Surjection
  <1> QED BY <1>2, <1>3, <1>6 DEF Sorts, order

-----------------------------------------------------------------------------
\* Sequence t has the elements that s has at the indices in I, each once, in some order.
Lists(t, s, I, order) ==
    /\ DOMAIN t = 1..Cardinality(I) /\ Len(t) = Cardinality(I)
    /\ order \in [1..Cardinality(I) -> I]
    /\ \A k, l \in 1..Cardinality(I) : k # l => order[k] # order[l]
    /\ \A i \in I : \E k \in 1..Cardinality(I) : order[k] = i
    /\ \A k \in 1..Cardinality(I) : t[k] = s[order[k]]

LEMMA DomainIsFinite ==
    ASSUME NEW S, NEW s \in Seq(S)
    PROVE  /\ Len(s) \in Nat /\ DOMAIN s = 1..Len(s)
           /\ IsFiniteSet(DOMAIN s) /\ Cardinality(DOMAIN s) = Len(s)
  <1>1. Len(s) \in Nat /\ DOMAIN s = 1..Len(s)
    OBVIOUS
  <1>2. IsFiniteSet(1..Len(s)) /\ Cardinality(1..Len(s)) = (IF 1 > Len(s) THEN 0 ELSE Len(s) - 1 + 1)
    BY <1>1, FS_Interval, SMTT(40)
  <1> QED BY <1>1, <1>2

LEMMA AtLists ==
    ASSUME NEW S, NEW s \in Seq(S), NEW I \in SUBSET DOMAIN s, NEW keys, \A i \in I : keys[i] \in Int
    PROVE  LET order == Order(I, keys)
           IN  /\ Sorts(order, I, keys) /\ Cardinality(I) \in Nat
               /\ At(s, order) \in Seq(S) /\ Lists(At(s, order), s, I, order)
  <1> DEFINE order == Order(I, keys)
             n == Cardinality(I)
  <1>1. DOMAIN s = 1..Len(s) /\ Len(s) \in Nat /\ \A i \in I : s[i] \in S
    OBVIOUS
  <1>2. IsFiniteSet(I) /\ I \in SUBSET Nat /\ n \in Nat
    <2>1. IsFiniteSet(I)
      BY DomainIsFinite, FS_Subset
    <2> QED BY <1>1, <2>1, FS_CardinalityType
  <1>3. Sorts(order, I, keys)
    BY <1>2, OrderSorts DEF IsKeyed
  <1> HIDE DEF order, n
  <1>4. order \in [1..n -> I]
    BY <1>3 DEF Sorts, n
  <1>5. At(s, order) = [k \in 1..n |-> s[order[k]]]
    BY <1>4 DEF At
  <1>6. At(s, order) \in [1..n -> S]
    BY <1>1, <1>4, <1>5
  <1>7. At(s, order) \in Seq(S) /\ Len(At(s, order)) = n
    BY <1>2, <1>6, SeqDef
  <1>8. Lists(At(s, order), s, I, order)
    BY <1>3, <1>5, <1>7 DEF Lists, Sorts, n
  <1> QED BY <1>2, <1>3, <1>7, <1>8 DEF order, n

\* What is picked keeps its order.
LEMMA PickedLists ==
    ASSUME NEW S, NEW s \in Seq(S), NEW I \in SUBSET DOMAIN s
    PROVE  /\ Picked(s, I) \in Seq(S) /\ Cardinality(I) \in Nat
           /\ \E order : /\ Lists(Picked(s, I), s, I, order)
                         /\ \A k, l \in 1..Cardinality(I) : k < l => order[k] < order[l]
  <1> DEFINE keys == [i \in I |-> 0]
             order == Order(I, keys)
  <1>1. \A i \in I : keys[i] \in Int
    OBVIOUS
  <1>2. /\ Sorts(order, I, keys) /\ Cardinality(I) \in Nat
        /\ At(s, order) \in Seq(S) /\ Lists(At(s, order), s, I, order)
    <2> HIDE DEF keys
    <2> QED BY <1>1, AtLists
  <1>3. \A k, l \in 1..Cardinality(I) : k < l => order[k] < order[l]
    <2>1. \A k \in 1..Cardinality(I) : order[k] \in I
      BY <1>2 DEF Sorts
    <2> HIDE DEF order
    <2> QED BY <1>2, <2>1 DEF Sorts, Precedes
  <1> QED BY <1>2, <1>3 DEF Picked

\* A sequence that is sorted by score, or by relevance.
LEMMA ByScoreLists ==
    ASSUME NEW S, NEW hits \in Seq(S), \A i \in DOMAIN hits : hits[i].score \in Int
    PROVE  /\ ByScore(hits) \in Seq(S) /\ Len(ByScore(hits)) = Len(hits)
           /\ \E order : Lists(ByScore(hits), hits, DOMAIN hits, order)
           /\ \A k, l \in 1..Len(hits) : k < l => ByScore(hits)[k].score >= ByScore(hits)[l].score
  <1> DEFINE I == DOMAIN hits
             keys == [i \in I |-> hits[i].score]
             order == Order(I, keys)
             t == At(hits, order)
  <1>1. \A i \in I : keys[i] \in Int
    OBVIOUS
  <1>2. /\ Sorts(order, I, keys) /\ Cardinality(I) \in Nat /\ t \in Seq(S) /\ Lists(t, hits, I, order)
    <2> HIDE DEF keys
    <2> QED BY <1>1, AtLists
  <1>3. Len(hits) \in Nat /\ I = 1..Len(hits) /\ Cardinality(I) = Len(hits)
    BY DomainIsFinite
  <1>4. ASSUME NEW k \in 1..Len(hits), NEW l \in 1..Len(hits), k < l PROVE t[k].score >= t[l].score
    <2>1. order[k] \in I /\ order[l] \in I /\ Precedes(keys, order[k], order[l])
      BY <1>2, <1>3, <1>4 DEF Sorts
    <2>2. keys[order[k]] >= keys[order[l]]
      BY <1>1, <2>1 DEF Precedes
    <2>3. t[k] = hits[order[k]] /\ t[l] = hits[order[l]]
      BY <1>2, <1>3 DEF Lists
    <2> HIDE DEF order, t
    <2> QED BY <2>1, <2>2, <2>3
  <1>5. t = ByScore(hits)
    BY DEF ByScore
  <1>6. Len(t) = Len(hits)
    BY <1>2, <1>3 DEF Lists
  <1> HIDE DEF t, order
  <1> QED BY <1>2, <1>4, <1>5, <1>6

LEMMA ByRelevanceLists ==
    ASSUME NEW S, NEW hits \in Seq(S), \A i \in DOMAIN hits : hits[i].relevance \in Int
    PROVE  /\ ByRelevance(hits) \in Seq(S) /\ Len(ByRelevance(hits)) = Len(hits)
           /\ \E order : Lists(ByRelevance(hits), hits, DOMAIN hits, order)
           /\ \A k, l \in 1..Len(hits) : k < l => ByRelevance(hits)[k].relevance >= ByRelevance(hits)[l].relevance
  <1> DEFINE I == DOMAIN hits
             keys == [i \in I |-> hits[i].relevance]
             order == Order(I, keys)
             t == At(hits, order)
  <1>1. \A i \in I : keys[i] \in Int
    OBVIOUS
  <1>2. /\ Sorts(order, I, keys) /\ Cardinality(I) \in Nat /\ t \in Seq(S) /\ Lists(t, hits, I, order)
    <2> HIDE DEF keys
    <2> QED BY <1>1, AtLists
  <1>3. Len(hits) \in Nat /\ I = 1..Len(hits) /\ Cardinality(I) = Len(hits)
    BY DomainIsFinite
  <1>4. ASSUME NEW k \in 1..Len(hits), NEW l \in 1..Len(hits), k < l PROVE t[k].relevance >= t[l].relevance
    <2>1. order[k] \in I /\ order[l] \in I /\ Precedes(keys, order[k], order[l])
      BY <1>2, <1>3, <1>4 DEF Sorts
    <2>2. keys[order[k]] >= keys[order[l]]
      BY <1>1, <2>1 DEF Precedes
    <2>3. t[k] = hits[order[k]] /\ t[l] = hits[order[l]]
      BY <1>2, <1>3 DEF Lists
    <2> HIDE DEF order, t
    <2> QED BY <2>1, <2>2, <2>3
  <1>5. t = ByRelevance(hits)
    BY DEF ByRelevance
  <1>6. Len(t) = Len(hits)
    BY <1>2, <1>3 DEF Lists
  <1> HIDE DEF t, order
  <1> QED BY <1>2, <1>4, <1>5, <1>6

-----------------------------------------------------------------------------
(* Totals of scores *)

\* The units of the weights f[i] of the indices in I: TotalScore counts those of a sequence.
Units(f, I) == UNION {{i} \X (1..f[i]) : i \in I}
Total(f, I) == Cardinality(Units(f, I))

IsWeighed(f, I) == IsFiniteSet(I) /\ \A i \in I : f[i] \in Nat

LEMMA UnitsAre ==
    ASSUME NEW f, NEW I
    PROVE  \A x : x \in Units(f, I) <=> \E i \in I : \E u \in 1..f[i] : x = <<i, u>>
  BY DEF Units

LEMMA SomeAreWeighed ==
    ASSUME NEW f, NEW D, IsWeighed(f, D), NEW I \in SUBSET D
    PROVE  IsWeighed(f, I)
  BY FS_Subset DEF IsWeighed

LEMMA UnitsAreFinite ==
    ASSUME NEW f, NEW I, IsWeighed(f, I)
    PROVE  IsFiniteSet(Units(f, I)) /\ Total(f, I) \in Nat
  <1> DEFINE parts == {{i} \X (1..f[i]) : i \in I}
             part == [i \in I |-> {i} \X (1..f[i])]
  <1>1. part \in Surjection(I, parts)
    BY DEF Surjection
  <1>2. IsFiniteSet(parts)
    <2> HIDE DEF part, parts
    <2> QED BY <1>1, FS_Surjection DEF IsWeighed
  <1>3. ASSUME NEW T \in parts PROVE IsFiniteSet(T)
    <2>1. PICK i \in I : T = {i} \X (1..f[i])
      OBVIOUS
    <2>2. f[i] \in Nat
      BY DEF IsWeighed
    <2>3. IsFiniteSet({i})
      BY FS_Singleton
    <2>4. IsFiniteSet(1..f[i])
      BY <2>2, FS_Interval
    <2> QED BY <2>1, <2>3, <2>4, FS_Product
  <1>4. IsFiniteSet(UNION parts)
    <2> HIDE DEF parts
    <2> QED BY <1>2, <1>3, FS_UNION
  <1>5. Units(f, I) = UNION parts
    BY DEF Units
  <1> QED BY <1>4, <1>5, FS_CardinalityType DEF Total

\* Names b for the indices in I, under which the weights f are g.
Renames(b, f, I, g, J) ==
    /\ b \in [I -> J]
    /\ \A i, j \in I : i # j => b[i] # b[j]
    /\ \A k \in J : \E i \in I : b[i] = k
    /\ \A i \in I : g[b[i]] = f[i]

\* A total does not depend on how the indices are named.
LEMMA TotalRenamed ==
    ASSUME NEW f, NEW I, IsWeighed(f, I), NEW g, NEW J, NEW b, Renames(b, f, I, g, J)
    PROVE  Total(f, I) = Total(g, J)
  <1> USE DEF Renames
  <1> DEFINE B == [x \in Units(f, I) |-> <<b[x[1]], x[2]>>]
  <1>1. \A x \in Units(f, I) : /\ x[1] \in I /\ x[2] \in 1..f[x[1]] /\ x = <<x[1], x[2]>>
    BY UnitsAre
  <1>2. \A x \in Units(f, I) : B[x] \in Units(g, J)
    BY <1>1, UnitsAre
  <1>3. \A x, y \in Units(f, I) : B[x] = B[y] => x = y
    <2>1. SUFFICES ASSUME NEW x \in Units(f, I), NEW y \in Units(f, I), B[x] = B[y] PROVE x = y
      OBVIOUS
    <2>2. b[x[1]] = b[y[1]] /\ x[2] = y[2]
      BY <2>1
    <2>3. x[1] = y[1]
      BY <1>1, <2>2
    <2> QED BY <1>1, <2>2, <2>3
  <1>4. \A z \in Units(g, J) : \E x \in Units(f, I) : B[x] = z
    <2>1. SUFFICES ASSUME NEW z \in Units(g, J) PROVE \E x \in Units(f, I) : B[x] = z
      OBVIOUS
    <2>2. PICK k \in J : \E u \in 1..g[k] : z = <<k, u>>
      BY UnitsAre
    <2>3. PICK u \in 1..g[k] : z = <<k, u>>
      BY <2>2
    <2>4. PICK i \in I : b[i] = k
      OBVIOUS
    <2>5. u \in 1..f[i]
      BY <2>4
    <2>6. <<i, u>> \in Units(f, I)
      BY <2>5, UnitsAre
    <2> QED BY <2>3, <2>4, <2>6
  <1>5. B \in [Units(f, I) -> Units(g, J)]
    BY <1>2
  <1> HIDE DEF B
  <1>6. B \in Bijection(Units(f, I), Units(g, J))
    BY <1>3, <1>4, <1>5 DEF Bijection, Injection, Surjection, IsInjective
  <1>7. ExistsBijection(Units(f, I), Units(g, J))
    BY <1>6 DEF ExistsBijection
  <1> QED BY <1>7, UnitsAreFinite, FS_Bijection DEF Total

LEMMA TotalAgrees ==
    ASSUME NEW f, NEW g, NEW I, IsWeighed(f, I), \A i \in I : f[i] = g[i]
    PROVE  Total(f, I) = Total(g, I)
  BY DEF Total, Units

LEMMA TotalSplits ==
    ASSUME NEW f, NEW I, NEW J, IsWeighed(f, I), IsWeighed(f, J), I \cap J = {}
    PROVE  Total(f, I \cup J) = Total(f, I) + Total(f, J)
  <1>1. Units(f, I \cup J) = Units(f, I) \cup Units(f, J)
    BY DEF Units
  <1>2. Units(f, I) \cap Units(f, J) = {}
    BY UnitsAre
  <1>3. IsFiniteSet(Units(f, I)) /\ IsFiniteSet(Units(f, J)) /\ Total(f, I) \in Nat /\ Total(f, J) \in Nat
    BY UnitsAreFinite
  <1>4. Cardinality(Units(f, I) \cup Units(f, J))
            = Cardinality(Units(f, I)) + Cardinality(Units(f, J)) - Cardinality(Units(f, I) \cap Units(f, J))
    BY <1>3, FS_Union
  <1>5. Cardinality(Units(f, I) \cap Units(f, J)) = 0
    BY <1>2, FS_EmptySet
  <1>6. /\ Total(f, I \cup J) = Cardinality(Units(f, I) \cup Units(f, J))
        /\ Total(f, I) = Cardinality(Units(f, I)) /\ Total(f, J) = Cardinality(Units(f, J))
    BY <1>1 DEF Total
  <1> HIDE DEF Total
  <1> QED BY <1>3, <1>4, <1>5, <1>6

LEMMA TotalOfOne ==
    ASSUME NEW f, NEW i, f[i] \in Nat
    PROVE  Total(f, {i}) = f[i]
  <1> DEFINE B == [u \in 1..f[i] |-> <<i, u>>]
  <1>1. B \in Bijection(1..f[i], Units(f, {i}))
    <2>1. \A u \in 1..f[i] : B[u] \in Units(f, {i})
      BY UnitsAre
    <2>2. \A x \in Units(f, {i}) : \E u \in 1..f[i] : B[u] = x
      BY UnitsAre
    <2>3. \A u, v \in 1..f[i] : B[u] = B[v] => u = v
      OBVIOUS
    <2>4. B \in [1..f[i] -> Units(f, {i})]
      BY <2>1
    <2> HIDE DEF B
    <2> QED BY <2>2, <2>3, <2>4 DEF Bijection, Injection, Surjection, IsInjective
  <1>2. ExistsBijection(1..f[i], Units(f, {i}))
    BY <1>1 DEF ExistsBijection
  <1>3. IsFiniteSet(1..f[i]) /\ Cardinality(1..f[i]) = f[i]
    BY FS_Interval, SMTT(40)
  <1> QED BY <1>2, <1>3, FS_Bijection DEF Total

LEMMA TotalWithout ==
    ASSUME NEW f, NEW I, IsWeighed(f, I), NEW i \in I
    PROVE  Total(f, I) = Total(f, I \ {i}) + f[i] /\ Total(f, I \ {i}) \in Nat
  <1>1. IsWeighed(f, I \ {i}) /\ IsWeighed(f, {i})
    BY FS_RemoveElement, FS_Singleton DEF IsWeighed
  <1>2. I = (I \ {i}) \cup {i} /\ (I \ {i}) \cap {i} = {}
    OBVIOUS
  <1>3. Total(f, (I \ {i}) \cup {i}) = Total(f, I \ {i}) + Total(f, {i})
    BY <1>1, <1>2, TotalSplits
  <1> QED BY <1>1, <1>2, <1>3, TotalOfOne, UnitsAreFinite DEF IsWeighed

\* The total of a sequence of scored elements.
Scores(s) == [i \in DOMAIN s |-> s[i].score]
AreScored(s) == \E S : s \in Seq(S) /\ \A i \in DOMAIN s : s[i].score \in Nat

LEMMA TotalScoreIs ==
    ASSUME NEW s
    PROVE  TotalScore(s) = Total(Scores(s), DOMAIN s)
  BY DEF TotalScore, Total, Units, Scores

LEMMA ScoresAreWeights ==
    ASSUME NEW s, AreScored(s)
    PROVE  IsWeighed(Scores(s), DOMAIN s) /\ TotalScore(s) \in Nat
  <1>1. IsFiniteSet(DOMAIN s)
    BY DomainIsFinite DEF AreScored
  <1>2. IsWeighed(Scores(s), DOMAIN s)
    BY <1>1 DEF IsWeighed, Scores, AreScored
  <1> QED BY <1>2, UnitsAreFinite, TotalScoreIs

\* A listing of some elements has the total of their scores.
LEMMA ListedTotal ==
    ASSUME NEW s, AreScored(s), NEW I \in SUBSET DOMAIN s, NEW t, NEW order, Lists(t, s, I, order)
    PROVE  TotalScore(t) = Total(Scores(s), I)
  <1> DEFINE n == Cardinality(I)
  <1>1. IsFiniteSet(I) /\ n \in Nat /\ DOMAIN t = 1..n
    BY ScoresAreWeights, FS_Subset, FS_CardinalityType DEF IsWeighed, Lists
  <1>2. \A k \in 1..n : Scores(t)[k] = Scores(s)[order[k]] /\ Scores(t)[k] \in Nat
    BY <1>1 DEF Lists, Scores, AreScored
  <1>3. IsWeighed(Scores(t), 1..n)
    BY <1>1, <1>2, FS_Interval DEF IsWeighed
  <1>4. Total(Scores(t), 1..n) = Total(Scores(s), I)
    <2>1. order \in [1..n -> I]
      BY DEF Lists
    <2>2. \A k, l \in 1..n : k # l => order[k] # order[l]
      BY DEF Lists
    <2>3. \A i \in I : \E k \in 1..n : order[k] = i
      BY DEF Lists
    <2>4. \A k \in 1..n : Scores(s)[order[k]] = Scores(t)[k]
      BY <1>2
    <2>5. Renames(order, Scores(t), 1..n, Scores(s), I)
      BY <2>1, <2>2, <2>3, <2>4 DEF Renames
    <2> HIDE DEF n
    <2> QED BY <1>3, <2>5, TotalRenamed
  <1> QED BY <1>1, <1>4, TotalScoreIs

-----------------------------------------------------------------------------
(* Fusion *)

Hit == [page : Page, chunk : Nat]
Entry == [hit : Hit, score : Nat]

\* Hits that keep entries of their own.
Apart(h, g) == h # g /\ (h.page = g.page => h.chunk # 0 /\ g.chunk # 0)

\* A map of the entries, with the chunks that were ranked.
Merged(acc) ==
    /\ acc.entries \in Seq(Entry) /\ acc.chunks \in Seq(Hit)
    /\ \A i, j \in DOMAIN acc.entries : i # j => Apart(acc.entries[i].hit, acc.entries[j].hit)
    /\ \A i \in DOMAIN acc.entries :
          acc.entries[i].hit.chunk # 0 => \E k \in DOMAIN acc.chunks : acc.chunks[k] = acc.entries[i].hit
    /\ \A k \in DOMAIN acc.chunks : acc.chunks[k].chunk # 0

LEMMA EntriesAre ==
    ASSUME NEW s \in Seq(Entry), NEW i \in DOMAIN s
    PROVE  s[i] \in Entry /\ s[i].hit \in Hit /\ s[i].score \in Nat
  <1>1. s[i] \in Entry
    OBVIOUS
  <1> QED BY <1>1 DEF Entry

LEMMA EntriesAreScored == \A s \in Seq(Entry) : AreScored(s)
  BY EntriesAre DEF AreScored

LEMMA TotalOfAppended ==
    ASSUME NEW s \in Seq(Entry), NEW e \in Entry
    PROVE  TotalScore(s \o <<e>>) = TotalScore(s) + e.score
  <1> DEFINE t == s \o <<e>>
             n == Len(s)
  <1>1. n \in Nat /\ DOMAIN s = 1..n
    OBVIOUS
  <1>2. t \in Seq(Entry) /\ DOMAIN t = 1..(n + 1) /\ t[n + 1] = e /\ \A i \in 1..n : t[i] = s[i]
    OBVIOUS
  <1> HIDE DEF t, n
  <1>3. IsWeighed(Scores(t), DOMAIN t) /\ IsWeighed(Scores(s), DOMAIN s)
    BY <1>2, EntriesAreScored, ScoresAreWeights
  <1>4. n + 1 \in DOMAIN t /\ (DOMAIN t) \ {n + 1} = DOMAIN s
    BY <1>1, <1>2
  <1>5. Total(Scores(t), DOMAIN t) = Total(Scores(t), DOMAIN s) + Scores(t)[n + 1]
    BY <1>3, <1>4, TotalWithout
  <1>6. \A i \in DOMAIN s : Scores(s)[i] = Scores(t)[i]
    BY <1>1, <1>2 DEF Scores
  <1>7. Total(Scores(s), DOMAIN s) = Total(Scores(t), DOMAIN s)
    BY <1>3, <1>6, TotalAgrees
  <1>8. Scores(t)[n + 1] = e.score
    BY <1>2, <1>4 DEF Scores
  <1>9. TotalScore(t) = TotalScore(s) + e.score
    BY <1>5, <1>7, <1>8, TotalScoreIs
  <1> QED BY <1>9 DEF t

\* The hit that a result counts for.
CountsFor(acc, result) ==
    LET before == {i \in DOMAIN acc.chunks : acc.chunks[i].page = result.hit.page}
    IN  IF result.hit.chunk # 0 \/ before = {} THEN result.hit
        ELSE acc.chunks[CHOOSE i \in before : \A k \in before : k <= i]

LEMMA CountsForIsRanked ==
    ASSUME NEW acc, Merged(acc), NEW result \in Entry
    PROVE  LET h == CountsFor(acc, result)
               chunks == IF result.hit.chunk # 0 THEN Append(acc.chunks, h) ELSE acc.chunks
           IN  /\ h \in Hit /\ chunks \in Seq(Hit)
               /\ \A k \in DOMAIN acc.chunks : k \in DOMAIN chunks /\ chunks[k] = acc.chunks[k]
               /\ \A k \in DOMAIN chunks : chunks[k].chunk # 0
               /\ h.chunk # 0 => \E k \in DOMAIN chunks : chunks[k] = h
               /\ h.chunk = 0 => \A k \in DOMAIN acc.chunks : acc.chunks[k].page # h.page
  <1> DEFINE before == {i \in DOMAIN acc.chunks : acc.chunks[i].page = result.hit.page}
             h == CountsFor(acc, result)
             chunks == IF result.hit.chunk # 0 THEN Append(acc.chunks, h) ELSE acc.chunks
             n == Len(acc.chunks)
  <1>1. /\ n \in Nat /\ DOMAIN acc.chunks = 1..n /\ \A k \in 1..n : acc.chunks[k] \in Hit /\ acc.chunks[k].chunk # 0
        /\ result.hit \in Hit
    BY DEF Merged, Entry
  <1>2. CASE result.hit.chunk # 0
    <2>1. h = result.hit
      BY <1>2 DEF CountsFor
    <2>2. chunks = Append(acc.chunks, h)
      BY <1>2
    <2>3. /\ chunks \in Seq(Hit) /\ DOMAIN chunks = 1..(n + 1) /\ chunks[n + 1] = h
          /\ \A k \in 1..n : chunks[k] = acc.chunks[k]
      BY <1>1, <2>1, <2>2 DEF Merged
    <2> HIDE DEF h, chunks, n
    <2>4. /\ h.chunk # 0 /\ h \in Hit /\ n + 1 \in DOMAIN chunks
          /\ \A k \in DOMAIN chunks : k \in 1..n \/ k = n + 1
      BY <1>1, <1>2, <2>1, <2>3
    <2>5. \A k \in DOMAIN chunks : chunks[k].chunk # 0
      BY <1>1, <2>3, <2>4
    <2>6. \A k \in 1..n : k \in DOMAIN chunks
      BY <1>1, <2>3
    <2> QED BY <1>1, <2>3, <2>4, <2>5, <2>6 DEF h, chunks
  <1>3. CASE result.hit.chunk = 0 /\ before = {}
    <2>1. h = result.hit
      BY <1>3 DEF CountsFor
    <2> QED BY <1>1, <1>3, <2>1 DEF Merged
  <1>4. CASE result.hit.chunk = 0 /\ before # {}
    <2> DEFINE at == CHOOSE i \in before : \A k \in before : k <= i
    <2>1. before \in SUBSET (0..n)
      BY <1>1
    <2>2. \E i \in before : \A k \in before : k <= i
      BY <1>1, <1>4, <2>1, HasGreatest
    <2>3. at \in before
      BY <2>2
    <2>4. h = acc.chunks[at]
      BY <1>4 DEF CountsFor
    <2> HIDE DEF at
    <2> QED BY <1>1, <1>4, <2>3, <2>4 DEF Merged
  <1> QED BY <1>2, <1>3, <1>4

-----------------------------------------------------------------------------
\* A result that adds to an entry there is.
LEMMA AddsToEntry ==
    ASSUME NEW acc, Merged(acc), NEW result \in Entry, NEW i \in DOMAIN acc.entries,
           acc.entries[i].hit = CountsFor(acc, result)
    PROVE  LET entries == [acc.entries EXCEPT ![i].score = @ + result.score]
           IN  /\ entries \in Seq(Entry) /\ DOMAIN entries = DOMAIN acc.entries
               /\ \A k \in DOMAIN entries : entries[k].hit = acc.entries[k].hit
               /\ TotalScore(entries) = TotalScore(acc.entries) + result.score
  <1> DEFINE e == acc.entries
             d == [e EXCEPT ![i].score = @ + result.score]
             n == Len(e)
  <1>1. e \in Seq(Entry) /\ n \in Nat /\ DOMAIN e = 1..n /\ i \in 1..n /\ e[i] \in Entry
    BY DEF Merged
  <1> HIDE DEF e
  <1>2. d[i] \in Entry /\ d[i].hit = e[i].hit /\ d[i].score = e[i].score + result.score
    BY <1>1 DEF Entry
  <1>3. d \in Seq(Entry) /\ DOMAIN d = 1..n /\ \A k \in 1..n : k # i => d[k] = e[k]
    <2>1. d = [e EXCEPT ![i] = d[i]]
      BY <1>1
    <2>2. DOMAIN d = DOMAIN e /\ \A k \in DOMAIN e \ {i} : d[k] = e[k]
      OBVIOUS
    <2>3. d \in [1..n -> Entry]
      <3>1. d = [k \in 1..n |-> d[k]]
        BY <1>1
      <3>2. \A k \in 1..n : d[k] \in Entry
        BY <1>1, <1>2, <2>2
      <3> HIDE DEF d
      <3> QED BY <3>1, <3>2
    <2> HIDE DEF d, n
    <2> QED BY <1>1, <2>2, <2>3, SeqDef
  <1> HIDE DEF d, n
  <1>4. \A k \in 1..n : d[k].hit = e[k].hit
    BY <1>2, <1>3
  <1>5. IsWeighed(Scores(d), 1..n) /\ IsWeighed(Scores(e), 1..n)
    BY <1>1, <1>3, EntriesAreScored, ScoresAreWeights
  <1>6. /\ Total(Scores(d), 1..n) = Total(Scores(d), (1..n) \ {i}) + Scores(d)[i]
        /\ Total(Scores(e), 1..n) = Total(Scores(e), (1..n) \ {i}) + Scores(e)[i]
        /\ Total(Scores(e), (1..n) \ {i}) \in Nat
    BY <1>1, <1>5, TotalWithout
  <1>7. Total(Scores(d), (1..n) \ {i}) = Total(Scores(e), (1..n) \ {i})
    <2>1. IsWeighed(Scores(d), (1..n) \ {i})
      BY <1>5, FS_RemoveElement DEF IsWeighed
    <2>2. \A k \in (1..n) \ {i} : Scores(d)[k] = Scores(e)[k]
      BY <1>1, <1>3 DEF Scores
    <2> QED BY <2>1, <2>2, TotalAgrees
  <1>8. Scores(d)[i] = e[i].score + result.score /\ Scores(e)[i] = e[i].score /\ e[i].score \in Nat /\ result.score \in Nat
    BY <1>1, <1>2, <1>3 DEF Scores, Entry
  <1>9. TotalScore(d) = TotalScore(e) + result.score
    BY <1>1, <1>3, <1>6, <1>7, <1>8, TotalScoreIs
  <1> QED BY <1>1, <1>3, <1>4, <1>9 DEF d, e

\* The entry that a hit absorbs, if there is one, and the others.
Kept(acc, h) == DOMAIN acc.entries \ Absorbed(acc.entries, h)

Absorbs(acc, h) ==
    LET gone == Absorbed(acc.entries, h)
    IN  IF gone = {} THEN 0 ELSE acc.entries[CHOOSE i \in gone : TRUE].score

LEMMA AbsorbsWhatIsGone ==
    ASSUME NEW acc, Merged(acc), NEW h \in Hit
    PROVE  /\ Absorbs(acc, h) \in Nat
           /\ Total(Scores(acc.entries), Kept(acc, h)) + Absorbs(acc, h) = TotalScore(acc.entries)
           /\ Total(Scores(acc.entries), Kept(acc, h)) \in Nat
  <1> DEFINE e == acc.entries
             D == DOMAIN e
             gone == Absorbed(e, h)
  <1>1. e \in Seq(Entry) /\ \A i \in D : e[i].score \in Nat
    BY EntriesAre DEF Merged
  <1>2. IsWeighed(Scores(e), D) /\ TotalScore(e) = Total(Scores(e), D) /\ TotalScore(e) \in Nat
    BY <1>1, EntriesAreScored, ScoresAreWeights, TotalScoreIs
  <1>3. gone \subseteq D /\ \A i, j \in gone : i = j
    BY DEF Absorbed, Merged, Apart
  <1>4. CASE gone = {}
    BY <1>2, <1>4 DEF Absorbs, Kept
  <1>5. CASE gone # {}
    <2> DEFINE i == CHOOSE i \in gone : TRUE
    <2>1. i \in gone
      BY <1>5
    <2>2. Absorbs(acc, h) = e[i].score
      BY <1>5 DEF Absorbs
    <2> HIDE DEF i
    <2>3. Kept(acc, h) = D \ {i}
      <3>1. gone = {i}
        BY <1>3, <2>1
      <3> QED BY <3>1 DEF Kept
    <2>4. Total(Scores(e), D) = Total(Scores(e), D \ {i}) + Scores(e)[i] /\ Total(Scores(e), D \ {i}) \in Nat
      BY <1>2, <1>3, <2>1, TotalWithout
    <2>5. Scores(e)[i] = e[i].score /\ e[i].score \in Nat
      BY <1>1, <1>3, <2>1 DEF Scores
    <2> QED BY <1>2, <2>2, <2>3, <2>4, <2>5
  <1> QED BY <1>4, <1>5

\* What entries, which extend p by one, hold after a result that counts for h.
Added(acc, result, h, p, entries) ==
    /\ entries \in Seq(Entry) /\ Len(p) \in Nat /\ DOMAIN entries = 1..(Len(p) + 1)
    /\ entries[Len(p) + 1].hit = h
    /\ \E order \in [1..Len(p) -> DOMAIN acc.entries] :
          /\ \A k \in 1..Len(p) : entries[k] = acc.entries[order[k]] /\ Apart(entries[k].hit, h)
          /\ \A k, l \in 1..Len(p) : k # l => order[k] # order[l]
    /\ TotalScore(entries) = TotalScore(acc.entries) + result.score

\* A result that has an entry of its own.
LEMMA AddsNewEntry ==
    ASSUME NEW acc, Merged(acc), NEW result \in Entry, NEW h \in Hit, h = CountsFor(acc, result),
           \A i \in DOMAIN acc.entries : acc.entries[i].hit # h
    PROVE  Added(acc, result, h, Picked(acc.entries, Kept(acc, h)),
                 Picked(acc.entries, Kept(acc, h)) \o <<[hit |-> h, score |-> result.score + Absorbs(acc, h)]>>)
  <1> DEFINE e == acc.entries
             I == Kept(acc, h)
             p == Picked(e, I)
             entry == [hit |-> h, score |-> result.score + Absorbs(acc, h)]
             entries == p \o <<entry>>
             n == Len(p)
  <1>1. e \in Seq(Entry) /\ I \in SUBSET DOMAIN e
    BY DEF Merged, Kept
  <1>2. p \in Seq(Entry) /\ \E order : Lists(p, e, I, order)
    <2> HIDE DEF e, I, p
    <2> QED BY <1>1, PickedLists DEF p
  <1>3. PICK order : Lists(p, e, I, order)
    BY <1>2
  <1>4. entry \in Entry /\ entry.hit = h
    BY AbsorbsWhatIsGone DEF Entry
  <1> HIDE DEF entry, p
  <1>5. /\ n \in Nat /\ DOMAIN p = 1..n /\ entries \in Seq(Entry) /\ DOMAIN entries = 1..(n + 1)
        /\ entries[n + 1] = entry /\ \A k \in 1..n : entries[k] = p[k]
    BY <1>2, <1>4
  <1> HIDE DEF entries, I
  <1>6. /\ n = Cardinality(I) /\ order \in [1..n -> DOMAIN e] /\ \A k \in 1..n : order[k] \in I /\ p[k] = e[order[k]]
        /\ \A k, l \in 1..n : k # l => order[k] # order[l]
    BY <1>1, <1>3 DEF Lists
  <1> HIDE DEF n
  <1>7. ASSUME NEW i \in I PROVE Apart(e[i].hit, h)
    <2>1. e[i].hit # h /\ e[i].hit \in Hit /\ i \in DOMAIN e
      BY <1>1, EntriesAre
    <2>2. ASSUME e[i].hit.page = h.page PROVE e[i].hit.chunk # 0 /\ h.chunk # 0
      <3>1. CASE h.chunk = 0
        <4>1. \A k \in DOMAIN acc.chunks : acc.chunks[k].page # h.page
          BY <3>1, CountsForIsRanked
        <4>2. e[i].hit.chunk = 0
          BY <2>1, <2>2, <4>1 DEF Merged
        <4> QED BY <2>1, <2>2, <3>1, <4>2 DEF Hit
      <3>2. CASE h.chunk # 0 /\ e[i].hit.chunk = 0
        <4>1. e[i].hit = [page |-> h.page, chunk |-> 0]
          BY <2>1, <2>2, <3>2 DEF Hit
        <4> QED BY <2>1, <3>2, <4>1 DEF I, Kept, Absorbed
      <3> QED BY <3>1, <3>2
    <2> QED BY <2>1, <2>2 DEF Apart
  <1>8. TotalScore(entries) = TotalScore(e) + result.score
    <2>1. TotalScore(entries) = TotalScore(p) + entry.score
      BY <1>2, <1>4, TotalOfAppended DEF entries
    <2>2. TotalScore(p) = Total(Scores(e), I)
      BY <1>1, <1>3, EntriesAreScored, ListedTotal
    <2>3. /\ Absorbs(acc, h) \in Nat /\ Total(Scores(e), I) \in Nat
          /\ Total(Scores(e), I) + Absorbs(acc, h) = TotalScore(e)
      BY AbsorbsWhatIsGone DEF I
    <2>4. entry.score = result.score + Absorbs(acc, h) /\ result.score \in Nat
      BY DEF entry, Entry
    <2> QED BY <2>1, <2>2, <2>3, <2>4
  <1>9. \A k \in 1..n : entries[k] = e[order[k]] /\ Apart(entries[k].hit, h)
    BY <1>5, <1>6, <1>7
  <1>10. entries[n + 1].hit = h
    BY <1>4, <1>5, SMTT(40)
  <1>11. Added(acc, result, h, p, entries)
    BY <1>5, <1>6, <1>8, <1>9, <1>10 DEF Added, n
  <1> QED BY <1>11 DEF entries, p, I, entry

LEMMA AddResultIs ==
    ASSUME NEW acc, NEW result
    PROVE  LET h == CountsFor(acc, result)
               same == {i \in DOMAIN acc.entries : acc.entries[i].hit = h}
               sum == AddResult(acc, result)
           IN  /\ sum.entries =
                      IF same # {} THEN [acc.entries EXCEPT ![CHOOSE i \in same : TRUE].score = @ + result.score]
                      ELSE Picked(acc.entries, Kept(acc, h))
                               \o <<[hit |-> h, score |-> result.score + Absorbs(acc, h)]>>
               /\ sum.chunks = IF result.hit.chunk # 0 THEN Append(acc.chunks, h) ELSE acc.chunks
  BY ZenonT(60) DEF AddResult, CountsFor, Kept, Absorbs

\* Every result adds its score, and leaves the entries apart.
LEMMA AddResultMerges ==
    ASSUME NEW acc, Merged(acc), NEW result \in Entry
    PROVE  /\ Merged(AddResult(acc, result))
           /\ TotalScore(AddResult(acc, result).entries) = TotalScore(acc.entries) + result.score
  <1> DEFINE h == CountsFor(acc, result)
             same == {i \in DOMAIN acc.entries : acc.entries[i].hit = h}
             sum == AddResult(acc, result)
  <1>1. /\ h \in Hit /\ sum.chunks \in Seq(Hit)
        /\ \A k \in DOMAIN acc.chunks : k \in DOMAIN sum.chunks /\ sum.chunks[k] = acc.chunks[k]
        /\ \A k \in DOMAIN sum.chunks : sum.chunks[k].chunk # 0
        /\ h.chunk # 0 => \E k \in DOMAIN sum.chunks : sum.chunks[k] = h
    <2>1. sum.chunks = IF result.hit.chunk # 0 THEN Append(acc.chunks, h) ELSE acc.chunks
      BY AddResultIs
    <2> HIDE DEF sum
    <2> QED BY <2>1, CountsForIsRanked
  <1>2. CASE same # {}
    <2> DEFINE i == CHOOSE i \in same : TRUE
    <2>1. i \in DOMAIN acc.entries /\ acc.entries[i].hit = h
      BY <1>2
    <2>2. sum.entries = [acc.entries EXCEPT ![i].score = @ + result.score]
      BY <1>2, AddResultIs
    <2> HIDE DEF i, sum, h, same
    <2>3. /\ sum.entries \in Seq(Entry) /\ DOMAIN sum.entries = DOMAIN acc.entries
          /\ \A k \in DOMAIN sum.entries : sum.entries[k].hit = acc.entries[k].hit
          /\ TotalScore(sum.entries) = TotalScore(acc.entries) + result.score
      BY <2>1, <2>2, AddsToEntry DEF h
    <2>4. Merged(sum)
      BY <1>1, <2>3 DEF Merged
    <2> QED BY <2>3, <2>4 DEF sum
  <1>3. CASE same = {}
    <2> DEFINE n == Len(Picked(acc.entries, Kept(acc, h)))
    <2>1. sum.entries = Picked(acc.entries, Kept(acc, h))
                            \o <<[hit |-> h, score |-> result.score + Absorbs(acc, h)]>>
      BY <1>3, AddResultIs
    <2>2. \A i \in DOMAIN acc.entries : acc.entries[i].hit # h
      BY <1>3
    <2> HIDE DEF sum, h, same
    <2>3. /\ sum.entries \in Seq(Entry) /\ n \in Nat /\ DOMAIN sum.entries = 1..(n + 1)
          /\ sum.entries[n + 1].hit = h
          /\ \E order \in [1..n -> DOMAIN acc.entries] :
                /\ \A k \in 1..n : sum.entries[k] = acc.entries[order[k]] /\ Apart(sum.entries[k].hit, h)
                /\ \A k, l \in 1..n : k # l => order[k] # order[l]
          /\ TotalScore(sum.entries) = TotalScore(acc.entries) + result.score
      <3>1. h \in Hit /\ h = CountsFor(acc, result)
        BY <1>1 DEF h
      <3> DEFINE p == Picked(acc.entries, Kept(acc, h))
                 entries == p \o <<[hit |-> h, score |-> result.score + Absorbs(acc, h)]>>
      <3>2. Added(acc, result, h, p, entries)
        BY <2>2, <3>1, AddsNewEntry
      <3>3. sum.entries = entries
        BY <2>1
      <3>4. n = Len(p)
        BY DEF n
      <3> HIDE DEF entries, p, n
      <3> QED BY <3>2, <3>3, <3>4 DEF Added
    <2> HIDE DEF n
    <2>4. PICK order \in [1..n -> DOMAIN acc.entries] :
                /\ \A k \in 1..n : sum.entries[k] = acc.entries[order[k]] /\ Apart(sum.entries[k].hit, h)
                /\ \A k, l \in 1..n : k # l => order[k] # order[l]
      BY <2>3
    <2>5. ASSUME NEW k \in 1..(n + 1), NEW l \in 1..(n + 1), k # l
          PROVE  Apart(sum.entries[k].hit, sum.entries[l].hit)
      <3>1. CASE k \in 1..n /\ l \in 1..n
        BY <2>4, <2>5, <3>1 DEF Merged
      <3>2. CASE k \in 1..n /\ l = n + 1
        BY <2>3, <2>4, <3>2
      <3>3. CASE l \in 1..n /\ k = n + 1
        BY <2>3, <2>4, <3>3 DEF Apart
      <3> QED BY <2>3, <2>5, <3>1, <3>2, <3>3
    <2>6. ASSUME NEW k \in 1..(n + 1), sum.entries[k].hit.chunk # 0
          PROVE  \E j \in DOMAIN sum.chunks : sum.chunks[j] = sum.entries[k].hit
      <3>1. CASE k \in 1..n
        <4>1. order[k] \in DOMAIN acc.entries /\ sum.entries[k] = acc.entries[order[k]]
          BY <2>4, <3>1
        <4> QED BY <1>1, <2>6, <4>1 DEF Merged
      <3>2. CASE k = n + 1
        BY <1>1, <2>3, <2>6, <3>2
      <3> QED BY <2>3, <3>1, <3>2
    <2>7. Merged(sum)
      BY <1>1, <2>3, <2>5, <2>6 DEF Merged
    <2> QED BY <2>3, <2>7 DEF sum
  <1> QED BY <1>2, <1>3

-----------------------------------------------------------------------------
\* A set of numbers with 0 and what follows each of its elements, up to n.
LEMMA AllReached ==
    ASSUME NEW n \in Nat, NEW S \in SUBSET (0..n), 0 \in S, \A i \in S : i < n => i + 1 \in S
    PROVE  S = 0..n
  <1> DEFINE M == {m \in 0..n : 0..m \subseteq S}
  <1>1. 0 \in M /\ M \in SUBSET (0..n)
    OBVIOUS
  <1>2. PICK m \in M : \A k \in M : k <= m
    <2> HIDE DEF M
    <2> QED BY <1>1, HasGreatest
  <1>3. m \in 0..n /\ 0..m \subseteq S
    OBVIOUS
  <1>4. CASE m = n
    BY <1>3, <1>4
  <1>5. CASE m < n
    <2>1. m + 1 \in S /\ 0..(m + 1) = (0..m) \cup {m + 1}
      BY <1>3, <1>5
    <2>2. m + 1 \in M
      BY <1>3, <1>5, <2>1
    <2> HIDE DEF M
    <2> QED BY <1>2, <1>3, <2>2
  <1> QED BY <1>3, <1>4, <1>5

NothingFused == [entries |-> <<>>, chunks |-> <<>>]

\* The results are added one by one.
Accumulates(acc, results, n) ==
    acc = [i \in 0..n |-> IF i = 0 THEN NothingFused ELSE AddResult(acc[i - 1], results[i])]

LEMMA Accumulation ==
    ASSUME NEW results, NEW n \in Nat
    PROVE  \E acc : Accumulates(acc, results, n)
  <1> DEFINE S == {m \in 0..n : \E acc : Accumulates(acc, results, m)}
  <1>1. 0 \in S
    <2> DEFINE acc == [i \in 0..0 |-> NothingFused]
    <2>1. acc = [i \in 0..0 |-> IF i = 0 THEN NothingFused ELSE AddResult(acc[i - 1], results[i])]
      OBVIOUS
    <2>2. Accumulates(acc, results, 0)
      BY <2>1 DEF Accumulates
    <2> QED BY <2>2
  <1>2. ASSUME NEW m \in S, m < n PROVE m + 1 \in S
    <2>1. PICK f : Accumulates(f, results, m)
      OBVIOUS
    <2> DEFINE g == [i \in 0..(m + 1) |-> IF i = m + 1 THEN AddResult(f[m], results[m + 1]) ELSE f[i]]
    <2>2. m \in Nat /\ \A i \in 0..m : f[i] = IF i = 0 THEN NothingFused ELSE AddResult(f[i - 1], results[i])
      BY <2>1 DEF Accumulates
    <2>3. ASSUME NEW i \in 0..(m + 1)
          PROVE  g[i] = IF i = 0 THEN NothingFused ELSE AddResult(g[i - 1], results[i])
      <3>1. CASE i = m + 1
        BY <2>2, <3>1
      <3>2. CASE i \in 0..m /\ i # 0
        <4>1. i - 1 \in 0..(m + 1) /\ i - 1 # m + 1 /\ i # m + 1
          BY <2>2, <3>2
        <4>2. g[i] = f[i] /\ g[i - 1] = f[i - 1]
          BY <4>1
        <4> HIDE DEF g
        <4> QED BY <2>2, <3>2, <4>2
      <3>3. CASE i = 0
        BY <2>2, <3>3
      <3> QED BY <2>2, <3>1, <3>2, <3>3
    <2>4. Accumulates(g, results, m + 1)
      <3>1. g = [i \in 0..(m + 1) |-> g[i]]
        OBVIOUS
      <3> HIDE DEF g
      <3> QED BY <2>3, <3>1 DEF Accumulates
    <2>5. m + 1 \in 0..n
      BY <1>2, <2>2
    <2> HIDE DEF g
    <2> QED BY <2>4, <2>5
  <1>3. S \in SUBSET (0..n)
    OBVIOUS
  <1> HIDE DEF S
  <1>4. n \in S
    BY <1>1, <1>2, <1>3, AllReached
  <1> QED BY <1>4 DEF S

LEMMA FusionIs ==
    ASSUME NEW results, Len(results) \in Nat
    PROVE  Accumulates(Fusion(results), results, Len(results))
  <1>1. \E acc : acc = [i \in 0..Len(results) |->
                           IF i = 0 THEN [entries |-> <<>>, chunks |-> <<>>] ELSE AddResult(acc[i - 1], results[i])]
    BY Accumulation DEF Accumulates, NothingFused
  <1> QED BY <1>1 DEF Fusion, Accumulates, NothingFused

\* The entries of a fusion are apart, and have the scores of the results.
LEMMA FusionMerges ==
    ASSUME NEW results \in Seq(Entry)
    PROVE  LET fused == Fusion(results)[Len(results)]
           IN  Merged(fused) /\ TotalScore(fused.entries) = TotalScore(results)
  <1> DEFINE n == Len(results)
             F == Fusion(results)
             S == {i \in 0..n : Merged(F[i]) /\ TotalScore(F[i].entries) = Total(Scores(results), 1..i)}
  <1>1. n \in Nat /\ DOMAIN results = 1..n /\ \A i \in 1..n : results[i] \in Entry /\ results[i].score \in Nat
    BY EntriesAre
  <1>2. \A i \in 0..n : F[i] = IF i = 0 THEN NothingFused ELSE AddResult(F[i - 1], results[i])
    BY <1>1, FusionIs DEF Accumulates
  <1>3. 0 \in S
    <2>1. F[0] = NothingFused
      BY <1>1, <1>2
    <2>2. Merged(NothingFused)
      BY DEF Merged, NothingFused
    <2>3. TotalScore(NothingFused.entries) = Total(Scores(results), 1..0)
      <3>1. Units(Scores(results), 1..0) = {}
        BY DEF Units
      <3>2. UNION {{i} \X (1..(<<>>)[i].score) : i \in DOMAIN <<>>} = {}
        OBVIOUS
      <3> QED BY <3>1, <3>2 DEF Total, TotalScore, NothingFused
    <2> HIDE DEF F, n
    <2> QED BY <1>1, <2>1, <2>2, <2>3
  <1>4. ASSUME NEW i \in S, i < n PROVE i + 1 \in S
    <2>1. i \in Nat /\ i + 1 \in 1..n /\ (i + 1) - 1 = i
      BY <1>1, <1>4
    <2>2. F[i + 1] = AddResult(F[i], results[i + 1]) /\ results[i + 1] \in Entry
      BY <1>1, <1>2, <2>1
    <2> HIDE DEF F, n
    <2>3. /\ Merged(F[i + 1])
          /\ TotalScore(F[i + 1].entries) = Total(Scores(results), 1..i) + results[i + 1].score
      BY <2>2, AddResultMerges
    <2>4. Total(Scores(results), 1..(i + 1)) = Total(Scores(results), 1..i) + results[i + 1].score
      <3>1. IsWeighed(Scores(results), 1..(i + 1))
        <4>1. IsFiniteSet(1..(i + 1))
          BY <2>1, FS_Interval
        <4> QED BY <1>1, <2>1, <4>1 DEF IsWeighed, Scores
      <3>2. i + 1 \in 1..(i + 1) /\ (1..(i + 1)) \ {i + 1} = 1..i
        BY <2>1
      <3>3. Scores(results)[i + 1] = results[i + 1].score
        BY <1>1, <2>1 DEF Scores
      <3> QED BY <3>1, <3>2, <3>3, TotalWithout
    <2> QED BY <2>1, <2>3, <2>4
  <1>5. S \in SUBSET (0..n)
    OBVIOUS
  <1> HIDE DEF S
  <1>6. n \in S
    BY <1>1, <1>3, <1>4, <1>5, AllReached
  <1>7. Merged(F[n]) /\ TotalScore(F[n].entries) = Total(Scores(results), DOMAIN results)
    BY <1>1, <1>6 DEF S
  <1> QED BY <1>7, TotalScoreIs

-----------------------------------------------------------------------------
LEMMA TotalOfConcatenation ==
    ASSUME NEW s \in Seq(Entry), NEW t \in Seq(Entry)
    PROVE  TotalScore(s \o t) = TotalScore(s) + TotalScore(t)
  <1> DEFINE u == s \o t
             n == Len(s)
             m == Len(t)
             I == 1..n
             J == (n + 1)..(n + m)
             b == [k \in 1..m |-> n + k]
  <1>1. n \in Nat /\ m \in Nat /\ DOMAIN s = 1..n /\ DOMAIN t = 1..m
    OBVIOUS
  <1>2. u \in Seq(Entry) /\ DOMAIN u = 1..(n + m) /\ \A i \in 1..(n + m) : u[i] = IF i <= n THEN s[i] ELSE t[i - n]
    BY ConcatProperties, <1>1
  <1> HIDE DEF u, n, m
  <1>3. IsWeighed(Scores(u), DOMAIN u) /\ IsWeighed(Scores(s), I) /\ IsWeighed(Scores(t), 1..m)
    BY <1>1, <1>2, EntriesAreScored, ScoresAreWeights
  <1>4. DOMAIN u = I \cup J /\ I \cap J = {}
    BY <1>1, <1>2
  <1>5. IsWeighed(Scores(u), I) /\ IsWeighed(Scores(u), J)
    <2>1. I \in SUBSET DOMAIN u /\ J \in SUBSET DOMAIN u
      BY <1>4
    <2> HIDE DEF I, J
    <2> QED BY <1>3, <2>1, SomeAreWeighed
  <1>6. Total(Scores(u), DOMAIN u) = Total(Scores(u), I) + Total(Scores(u), J)
    <2> HIDE DEF I, J
    <2>1. Total(Scores(u), I \cup J) = Total(Scores(u), I) + Total(Scores(u), J)
      BY <1>4, <1>5, TotalSplits
    <2> QED BY <1>4, <2>1
  <1>7. Total(Scores(s), I) = Total(Scores(u), I)
    <2>1. \A i \in I : Scores(s)[i] = Scores(u)[i]
      BY <1>1, <1>2 DEF Scores
    <2> HIDE DEF I
    <2> QED BY <1>3, <2>1, TotalAgrees
  <1>8. Total(Scores(t), 1..m) = Total(Scores(u), J)
    <2>1. b \in [1..m -> J] /\ \A i, j \in 1..m : i # j => b[i] # b[j]
      BY <1>1
    <2>2. ASSUME NEW k \in J PROVE \E i \in 1..m : b[i] = k
      <3>1. k - n \in 1..m /\ n + (k - n) = k
        BY <1>1
      <3> QED BY <3>1
    <2>3. ASSUME NEW i \in 1..m PROVE Scores(u)[b[i]] = Scores(t)[i]
      <3>1. b[i] = n + i /\ n + i \in 1..(n + m) /\ ~(n + i <= n) /\ (n + i) - n = i
        BY <1>1
      <3> QED BY <1>1, <1>2, <3>1 DEF Scores
    <2>4. Renames(b, Scores(t), 1..m, Scores(u), J)
      BY <2>1, <2>2, <2>3 DEF Renames
    <2> HIDE DEF b, J
    <2> QED BY <1>3, <2>4, TotalRenamed
  <1>9. TotalScore(u) = TotalScore(s) + TotalScore(t)
    BY <1>1, <1>6, <1>7, <1>8, TotalScoreIs
  <1> QED BY <1>9 DEF u

\* A ranking that may be fused.
IsRanking(r) == r \in Seq(Hit) /\ Len(r) <= Len(Weights)

LEMMA WeighedIs ==
    ASSUME NEW r, IsRanking(r)
    PROVE  /\ Weighed(r, Weights) \in Seq(Entry) /\ Len(Weighed(r, Weights)) = Len(r)
           /\ DOMAIN Weighed(r, Weights) = DOMAIN r
           /\ \A i \in DOMAIN r : Weighed(r, Weights)[i].hit = r[i]
  <1> DEFINE w == Weighed(r, Weights)
             n == Len(r)
  <1>1. n \in Nat /\ DOMAIN r = 1..n /\ \A i \in 1..n : r[i] \in Hit
    BY DEF IsRanking
  <1>2. \A i \in 1..n : Weights[i] \in Nat
    <2>1. Weights \in Seq(Nat \ {0}) /\ Len(Weights) \in Nat /\ n <= Len(Weights)
      BY SearchIsConfigured DEF IsRanking
    <2> QED BY <1>1, <2>1
  <1>3. w = [i \in 1..n |-> [hit |-> r[i], score |-> Weights[i]]]
    BY <1>1 DEF Weighed
  <1>4. w \in [1..n -> Entry]
    BY <1>1, <1>2, <1>3 DEF Entry
  <1>5. w \in Seq(Entry) /\ Len(w) = n
    BY <1>1, <1>4, SeqDef
  <1> QED BY <1>1, <1>3, <1>5

\* The fusion of any two rankings is sound.
LEMMA RrfFuseIsSound ==
    ASSUME NEW r, IsRanking(r), NEW t, IsRanking(t)
    PROVE  rrfFuse(r, t, Weights) \in Seq(Entry) /\ FusesSoundly(rrfFuse(r, t, Weights), r, t, Weights)
  <1> DEFINE results == Results(r, t, Weights)
             e == Fusion(results)[Len(results)].entries
             fused == ByScore(e)
  <1>1. /\ results \in Seq(Entry)
        /\ TotalScore(results) = TotalScore(Weighed(r, Weights)) + TotalScore(Weighed(t, Weights))
    BY WeighedIs, TotalOfConcatenation DEF Results
  <1> HIDE DEF results
  <1>2. /\ Merged(Fusion(results)[Len(results)])
        /\ TotalScore(e) = TotalScore(results)
    BY <1>1, FusionMerges
  <1>3. e \in Seq(Entry) /\ \A i, j \in DOMAIN e : i # j => Apart(e[i].hit, e[j].hit)
    BY <1>2 DEF Merged
  <1>4. \A i \in DOMAIN e : e[i].score \in Int
    BY <1>3, EntriesAre
  <1> HIDE DEF e
  <1>5. /\ fused \in Seq(Entry) /\ Len(fused) = Len(e) /\ DOMAIN fused = 1..Len(e)
        /\ \E order : Lists(fused, e, DOMAIN e, order)
        /\ \A k, l \in 1..Len(e) : k < l => fused[k].score >= fused[l].score
    BY <1>3, <1>4, ByScoreLists
  <1>6. PICK order : Lists(fused, e, DOMAIN e, order)
    BY <1>5
  <1> HIDE DEF fused
  <1>7. Cardinality(DOMAIN e) = Len(e)
    BY <1>3, DomainIsFinite
  <1>8. TotalScore(fused) = TotalScore(e)
    BY <1>3, <1>6, EntriesAreScored, ListedTotal, TotalScoreIs
  <1>9. \A i, j \in DOMAIN fused : i # j => Apart(fused[i].hit, fused[j].hit)
    BY <1>3, <1>5, <1>6, <1>7, SMTT(40) DEF Lists
  <1>10. FusesSoundly(fused, r, t, Weights)
    BY <1>1, <1>2, <1>5, <1>8, <1>9 DEF FusesSoundly, Apart
  <1>11. fused = rrfFuse(r, t, Weights)
    BY DEF rrfFuse, fused, e, results
  <1> QED BY <1>5, <1>10, <1>11

-----------------------------------------------------------------------------
(* What is shown of a judgement *)

JudgedHit == [hit : Hit, score : Nat, relevance : 0..2]

FallsInRelevance(s) == \A k, l \in DOMAIN s : k < l => s[k].relevance >= s[l].relevance

LEMMA JudgedHitsAre ==
    ASSUME NEW s \in Seq(JudgedHit), NEW i \in DOMAIN s
    PROVE  s[i] \in JudgedHit /\ s[i].hit \in Hit /\ s[i].score \in Int /\ s[i].relevance \in Int
  <1>1. s[i] \in JudgedHit
    OBVIOUS
  <1> QED BY <1>1 DEF JudgedHit

\* A reranking shows every hit once, those of a higher relevance first.
Reranks(ranked, hits, answers) ==
    /\ ranked \in Seq(JudgedHit) /\ Len(ranked) = Len(hits) /\ FallsInRelevance(ranked)
    /\ \E place \in [DOMAIN hits -> DOMAIN hits] :
          /\ \A i \in DOMAIN hits : \E k \in DOMAIN hits : place[k] = i
          /\ \A k \in DOMAIN hits : /\ ranked[k].hit = hits[place[k]].hit
                                    /\ ranked[k].relevance = Relevance(answers, place[k])

LEMMA RerankedIs ==
    ASSUME NEW hits \in Seq(Entry), NEW answers, \A i \in DOMAIN answers : answers[i] \in 0..2
    PROVE  Reranks(Reranked(hits, answers), hits, answers)
  <1> DEFINE n == Len(hits)
             judged == [i \in DOMAIN hits |->
                           [hit |-> hits[i].hit, score |-> hits[i].score, relevance |-> Relevance(answers, i)]]
             scored == ByScore(judged)
             ranked == ByRelevance(scored)
  <1>1. n \in Nat /\ DOMAIN hits = 1..n /\ IsFiniteSet(1..n) /\ Cardinality(1..n) = n
    BY DomainIsFinite
  <1>2. \A i \in 1..n : Relevance(answers, i) \in 0..2
    BY DEF Relevance, Midpoint
  <1>3. judged \in Seq(JudgedHit) /\ Len(judged) = n /\ DOMAIN judged = 1..n
    <2>1. \A i \in 1..n : judged[i] \in JudgedHit
      BY <1>1, <1>2, EntriesAre DEF JudgedHit
    <2>2. judged \in [1..n -> JudgedHit]
      BY <1>1, <2>1
    <2> HIDE DEF judged, n
    <2> QED BY <1>1, <2>2, SeqDef
  <1>4. \A i \in 1..n : judged[i].hit = hits[i].hit /\ judged[i].relevance = Relevance(answers, i)
    BY <1>1
  <1> HIDE DEF judged
  <1>5. /\ scored \in Seq(JudgedHit) /\ Len(scored) = n /\ DOMAIN scored = 1..n
        /\ \E order : Lists(scored, judged, 1..n, order)
    BY <1>3, JudgedHitsAre, ByScoreLists
  <1>6. PICK first : Lists(scored, judged, 1..n, first)
    BY <1>5
  <1> HIDE DEF scored
  <1>7. /\ ranked \in Seq(JudgedHit) /\ Len(ranked) = n /\ DOMAIN ranked = 1..n
        /\ \E order : Lists(ranked, scored, 1..n, order)
        /\ \A k, l \in 1..n : k < l => ranked[k].relevance >= ranked[l].relevance
    BY <1>5, JudgedHitsAre, ByRelevanceLists
  <1>8. PICK second : Lists(ranked, scored, 1..n, second)
    BY <1>7
  <1> HIDE DEF ranked
  <1> DEFINE place == [k \in 1..n |-> first[second[k]]]
  <1>9. /\ first \in [1..n -> 1..n] /\ second \in [1..n -> 1..n]
        /\ \A i \in 1..n : \E k \in 1..n : first[k] = i
        /\ \A i \in 1..n : \E k \in 1..n : second[k] = i
        /\ \A k \in 1..n : scored[k] = judged[first[k]] /\ ranked[k] = scored[second[k]]
    BY <1>1, <1>6, <1>8 DEF Lists
  <1> HIDE DEF n
  <1>10. place \in [1..n -> 1..n] /\ \A i \in 1..n : \E k \in 1..n : place[k] = i
    <2>1. \A k \in 1..n : place[k] = first[second[k]] /\ place[k] \in 1..n
      BY <1>9
    <2>2. ASSUME NEW i \in 1..n PROVE \E k \in 1..n : place[k] = i
      <3>1. PICK j \in 1..n : first[j] = i
        BY <1>9
      <3>2. PICK k \in 1..n : second[k] = j
        BY <1>9
      <3> QED BY <2>1, <3>1, <3>2
    <2>3. place = [k \in 1..n |-> place[k]]
      OBVIOUS
    <2> HIDE DEF place
    <2> QED BY <2>1, <2>2, <2>3
  <1>11. \A k \in 1..n : ranked[k].hit = hits[place[k]].hit /\ ranked[k].relevance = Relevance(answers, place[k])
    <2>1. ASSUME NEW k \in 1..n
          PROVE  ranked[k].hit = hits[place[k]].hit /\ ranked[k].relevance = Relevance(answers, place[k])
      <3>1. place[k] \in 1..n /\ ranked[k] = judged[place[k]]
        BY <1>9
      <3> HIDE DEF place
      <3> QED BY <1>4, <3>1
    <2> HIDE DEF place
    <2> QED BY <2>1
  <1>12. FallsInRelevance(ranked)
    BY <1>7 DEF FallsInRelevance
  <1>13. ranked = Reranked(hits, answers)
    BY DEF Reranked, ranked, scored, judged
  <1> HIDE DEF place
  <1>14. /\ ranked \in Seq(JudgedHit) /\ Len(ranked) = Len(hits) /\ FallsInRelevance(ranked)
         /\ place \in [DOMAIN hits -> DOMAIN hits]
         /\ \A i \in DOMAIN hits : \E k \in DOMAIN hits : place[k] = i
         /\ \A k \in DOMAIN hits : /\ ranked[k].hit = hits[place[k]].hit
                                   /\ ranked[k].relevance = Relevance(answers, place[k])
    BY <1>1, <1>7, <1>10, <1>11, <1>12 DEF n
  <1>15. Reranks(ranked, hits, answers)
    BY <1>14 DEF Reranks
  <1> QED BY <1>13, <1>15

\* A nonempty set of indices has a first one.
LEMMA HasFirst ==
    ASSUME NEW n \in Nat, NEW S \in SUBSET (1..n), S # {}
    PROVE  \E i \in S : \A j \in S : i <= j
  <1> DEFINE T == {n - i : i \in S}
  <1>1. \A i \in S : i \in Nat /\ n - i \in 0..n
    BY S \subseteq 1..n
  <1>2. T \in SUBSET (0..n) /\ T # {}
    BY <1>1
  <1>3. PICK x \in T : \A y \in T : y <= x
    <2> HIDE DEF T
    <2> QED BY <1>2, HasGreatest
  <1>4. PICK i \in S : x = n - i
    OBVIOUS
  <1>5. \A j \in S : n - j <= n - i
    BY <1>3, <1>4
  <1>6. \A j \in S : i <= j
    BY <1>1, <1>5
  <1> QED BY <1>6

\* What is picked falls in relevance as the whole does.
LEMMA PickedHitsAre ==
    ASSUME NEW s \in Seq(JudgedHit), FallsInRelevance(s), NEW I \in SUBSET DOMAIN s
    PROVE  /\ Picked(s, I) \in Seq(JudgedHit) /\ FallsInRelevance(Picked(s, I))
           /\ \E order : /\ Lists(Picked(s, I), s, I, order)
                         /\ \A k, l \in DOMAIN Picked(s, I) : k < l => order[k] < order[l]
  <1>1. Picked(s, I) \in Seq(JudgedHit)
    BY PickedLists
  <1>2. PICK order : /\ Lists(Picked(s, I), s, I, order)
                     /\ \A k, l \in 1..Cardinality(I) : k < l => order[k] < order[l]
    BY PickedLists
  <1>3. \A k \in DOMAIN Picked(s, I) : order[k] \in DOMAIN s /\ Picked(s, I)[k] = s[order[k]]
    BY <1>2 DEF Lists
  <1>4. \A k, l \in DOMAIN Picked(s, I) : k < l => order[k] < order[l]
    BY <1>2 DEF Lists
  <1>5. FallsInRelevance(Picked(s, I))
    BY <1>3, <1>4 DEF FallsInRelevance
  <1> QED BY <1>1, <1>2, <1>4, <1>5

\* Of every page the best hit is kept, and no other.
LEMMA DedupeIs ==
    ASSUME NEW s \in Seq(JudgedHit), FallsInRelevance(s)
    PROVE  LET d == dedupeByPage(s)
           IN  /\ d \in Seq(JudgedHit) /\ FallsInRelevance(d)
               /\ \A k, l \in DOMAIN d : k # l => d[k].hit.page # d[l].hit.page
               /\ \A k \in DOMAIN d : \E x \in DOMAIN s : d[k] = s[x]
               /\ \A x \in DOMAIN s : \E k \in DOMAIN d : /\ d[k].hit.page = s[x].hit.page
                                                          /\ d[k].relevance >= s[x].relevance
  <1> DEFINE n == Len(s)
             I == {i \in DOMAIN s : \A k \in 1..(i - 1) : s[k].hit.page # s[i].hit.page}
             d == Picked(s, I)
  <1>1. n \in Nat /\ DOMAIN s = 1..n /\ I \in SUBSET DOMAIN s
    OBVIOUS
  <1>2. d \in Seq(JudgedHit) /\ FallsInRelevance(d)
    BY PickedHitsAre
  <1>3. PICK order : /\ Lists(d, s, I, order)
                     /\ \A k, l \in DOMAIN d : k < l => order[k] < order[l]
    BY PickedHitsAre
  <1> HIDE DEF d
  <1>4. /\ \A k \in DOMAIN d : order[k] \in I /\ d[k] = s[order[k]]
        /\ \A i \in I : \E k \in DOMAIN d : order[k] = i
        /\ DOMAIN d \subseteq Nat
    <2>1. DOMAIN d \subseteq Nat
      BY <1>2
    <2> HIDE DEF I
    <2>2. /\ \A k \in DOMAIN d : order[k] \in I /\ d[k] = s[order[k]]
          /\ \A i \in I : \E k \in DOMAIN d : order[k] = i
      BY <1>3 DEF Lists
    <2> QED BY <2>1, <2>2
  <1>5. ASSUME NEW k \in DOMAIN d, NEW l \in DOMAIN d, k < l PROVE d[k].hit.page # d[l].hit.page
    <2>1. order[k] \in 1..(order[l] - 1) /\ order[l] \in I
      <3> HIDE DEF I
      <3>1. order[k] \in I /\ order[l] \in I
        BY <1>4
      <3>2. order[k] \in 1..n /\ order[l] \in 1..n
        BY <1>1, <3>1
      <3>3. order[k] < order[l]
        BY <1>3, <1>5
      <3> QED BY <1>1, <3>1, <3>2, <3>3
    <2>2. s[order[k]].hit.page # s[order[l]].hit.page
      BY <2>1 DEF I
    <2> QED BY <1>4, <2>2
  <1>6. \A k, l \in DOMAIN d : k # l => d[k].hit.page # d[l].hit.page
    <2>1. \A k, l \in DOMAIN d : k # l => k < l \/ l < k
      BY <1>4
    <2> QED BY <1>5, <2>1
  <1>7. ASSUME NEW x \in DOMAIN s
        PROVE  \E k \in DOMAIN d : d[k].hit.page = s[x].hit.page /\ d[k].relevance >= s[x].relevance
    <2> DEFINE same == {i \in 1..n : s[i].hit.page = s[x].hit.page}
    <2>1. PICK i \in same : \A j \in same : i <= j
      <3>1. same \in SUBSET (1..n) /\ same # {}
        BY <1>1
      <3> HIDE DEF same
      <3> QED BY <1>1, <3>1, HasFirst
    <2>2. i \in 1..n /\ s[i].hit.page = s[x].hit.page /\ i <= x
      BY <1>1, <2>1
    <2>3. i \in I
      <3>1. ASSUME NEW k \in 1..(i - 1), s[k].hit.page = s[i].hit.page PROVE FALSE
        <4>1. k \in 1..n /\ k < i
          BY <1>1, <2>2
        <4>2. k \in same
          BY <2>2, <3>1, <4>1
        <4> HIDE DEF same
        <4>3. i <= k
          BY <2>1, <4>2
        <4> QED BY <2>2, <4>1, <4>3
      <3> QED BY <1>1, <2>2, <3>1
    <2>4. s[i].relevance >= s[x].relevance
      <3>1. CASE i = x
        BY <3>1, JudgedHitsAre
      <3>2. CASE i < x
        BY <1>1, <2>2, <3>2 DEF FallsInRelevance
      <3> QED BY <1>1, <2>2, <3>1, <3>2
    <2>5. PICK k \in DOMAIN d : order[k] = i
      BY <1>4, <2>3
    <2> QED BY <1>4, <2>2, <2>4, <2>5
  <1>8. \A k \in DOMAIN d : \E x \in DOMAIN s : d[k] = s[x]
    BY <1>1, <1>4
  <1>9. d = dedupeByPage(s)
    BY DEF dedupeByPage, d
  <1> HIDE DEF I
  <1> QED BY <1>2, <1>6, <1>7, <1>8, <1>9

-----------------------------------------------------------------------------
LEMMA UpToIs ==
    ASSUME NEW S, NEW s \in Seq(S), NEW r \in Nat
    PROVE  /\ UpTo(s, r) \in Seq(S)
           /\ Len(UpTo(s, r)) = IF Len(s) < r THEN Len(s) ELSE r
           /\ DOMAIN UpTo(s, r) \subseteq DOMAIN s
           /\ \A i \in DOMAIN UpTo(s, r) : UpTo(s, r)[i] = s[i]
  <1> DEFINE n == IF Len(s) < r THEN Len(s) ELSE r
             u == SubSeq(s, 1, n)
  <1>1. Len(s) \in Nat /\ n \in 0..Len(s) /\ DOMAIN s = 1..Len(s) /\ \A i \in 1..n : s[i] \in S
    OBVIOUS
  <1> HIDE DEF n
  <1>2. u \in Seq(S) /\ Len(u) = n /\ \A i \in 1..n : u[i] = s[i]
    <2>1. 1 \in Int /\ n \in Int
      BY <1>1
    <2>2. /\ u \in Seq(S) /\ Len(u) = (IF 1 <= n THEN n - 1 + 1 ELSE 0)
          /\ \A i \in 1..(n - 1 + 1) : u[i] = s[1 + i - 1]
      BY <1>1, <2>1, SubSeqProperties
    <2> HIDE DEF u
    <2>3. ASSUME NEW i \in 1..n PROVE u[i] = s[i]
      <3>1. i \in 1..(n - 1 + 1) /\ 1 + i - 1 = i
        BY <2>1
      <3> QED BY <2>2, <3>1
    <2> QED BY <1>1, <2>2, <2>3
  <1>3. DOMAIN u = 1..n
    BY <1>2
  <1>4. u = UpTo(s, r)
    BY DEF UpTo, n
  <1> HIDE DEF u
  <1>5. 1..n \subseteq DOMAIN s
    BY <1>1
  <1> QED BY <1>2, <1>3, <1>4, <1>5 DEF n

\* A brief has the best helpful hit of every page, as far as there is room.
LEMMA BriefIs ==
    ASSUME NEW judged \in Seq(JudgedHit), FallsInRelevance(judged), NEW room \in Nat
    PROVE  LET shown == Brief(judged, room)
           IN  /\ shown \in Seq(JudgedHit)
               /\ \A i \in DOMAIN shown : \E x \in DOMAIN judged :
                     shown[i] = judged[x] /\ judged[x].relevance >= Midpoint
               /\ \A x \in DOMAIN judged :
                     judged[x].relevance >= Midpoint =>
                         LET same == {i \in DOMAIN shown : shown[i].hit.page = judged[x].hit.page}
                             rivals == IF same = {} THEN DOMAIN shown ELSE same
                         IN  /\ Cardinality(same) <= 1 /\ (same = {} => Len(shown) >= room)
                             /\ \A i \in rivals : shown[i].relevance >= judged[x].relevance
  <1> DEFINE I == {i \in DOMAIN judged : judged[i].relevance >= Midpoint}
             helpful == Picked(judged, I)
             d == dedupeByPage(helpful)
             r == IF room < 1 THEN 1 ELSE room
             shown == UpTo(d, r)
  <1>1. /\ helpful \in Seq(JudgedHit) /\ FallsInRelevance(helpful)
        /\ \A k \in DOMAIN helpful : \E x \in I : helpful[k] = judged[x]
        /\ \A x \in I : \E k \in DOMAIN helpful : helpful[k] = judged[x]
    <2>1. I \in SUBSET DOMAIN judged
      OBVIOUS
    <2> HIDE DEF I, helpful
    <2>2. helpful \in Seq(JudgedHit) /\ FallsInRelevance(helpful)
      BY <2>1, PickedHitsAre DEF helpful
    <2>3. PICK order : Lists(helpful, judged, I, order)
      BY <2>1, PickedHitsAre DEF helpful
    <2> QED BY <2>2, <2>3, SMTT(40) DEF Lists
  <1> HIDE DEF helpful
  <1>2. /\ d \in Seq(JudgedHit) /\ FallsInRelevance(d)
        /\ \A k, l \in DOMAIN d : k # l => d[k].hit.page # d[l].hit.page
        /\ \A k \in DOMAIN d : \E x \in DOMAIN helpful : d[k] = helpful[x]
        /\ \A x \in DOMAIN helpful : \E k \in DOMAIN d : /\ d[k].hit.page = helpful[x].hit.page
                                                         /\ d[k].relevance >= helpful[x].relevance
    BY <1>1, DedupeIs
  <1> HIDE DEF d
  <1>3. r \in Nat /\ r >= room
    OBVIOUS
  <1> HIDE DEF r
  <1>4. /\ shown \in Seq(JudgedHit) /\ Len(shown) = (IF Len(d) < r THEN Len(d) ELSE r)
        /\ DOMAIN shown \subseteq DOMAIN d /\ \A i \in DOMAIN shown : shown[i] = d[i]
    BY <1>2, <1>3, UpToIs
  <1>5. Len(d) \in Nat /\ DOMAIN d = 1..Len(d) /\ DOMAIN shown = 1..Len(shown)
    BY <1>2, <1>4
  <1> HIDE DEF shown
  <1>6. \A i \in DOMAIN shown : \E x \in DOMAIN judged : shown[i] = judged[x] /\ judged[x].relevance >= Midpoint
    <2>1. \A i \in DOMAIN shown : \E x \in I : shown[i] = judged[x]
      BY <1>1, <1>2, <1>4
    <2> QED BY <2>1
  <1>7. ASSUME NEW x \in DOMAIN judged, judged[x].relevance >= Midpoint
        PROVE  LET same == {i \in DOMAIN shown : shown[i].hit.page = judged[x].hit.page}
                   rivals == IF same = {} THEN DOMAIN shown ELSE same
               IN  /\ Cardinality(same) <= 1 /\ (same = {} => Len(shown) >= room)
                   /\ \A i \in rivals : shown[i].relevance >= judged[x].relevance
    <2> DEFINE same == {i \in DOMAIN shown : shown[i].hit.page = judged[x].hit.page}
    <2>1. PICK y \in DOMAIN helpful : helpful[y] = judged[x]
      BY <1>1, <1>7
    <2>2. PICK k \in DOMAIN d : d[k].hit.page = judged[x].hit.page /\ d[k].relevance >= judged[x].relevance
      BY <1>2, <2>1
    <2>3. \A i \in same : i = k
      BY <1>2, <1>4, <2>2, SMTT(40)
    <2>4. Cardinality(same) <= 1
      <3>1. same = {} \/ same = {k}
        BY <2>3
      <3>2. Cardinality(same) = 0 \/ Cardinality(same) = 1
        BY <3>1, FS_EmptySet, FS_Singleton
      <3> HIDE DEF same
      <3> QED BY <3>2
    <2>5. CASE same = {}
      <3>1. k \notin DOMAIN shown
        BY <1>4, <2>2, <2>5
      <3>2. k \in 1..Len(d) /\ ~(k <= Len(shown)) /\ Len(shown) = r
        <4>1. k \in 1..Len(d) /\ k \notin 1..Len(shown) /\ Len(d) \in Nat /\ Len(shown) \in Nat
          BY <1>4, <1>5, <3>1
        <4>2. Len(shown) = (IF Len(d) < r THEN Len(d) ELSE r)
          BY <1>4
        <4> HIDE DEF same
        <4> QED BY <1>3, <4>1, <4>2
      <3>3. ASSUME NEW i \in DOMAIN shown PROVE shown[i].relevance >= judged[x].relevance
        <4>1. i \in DOMAIN d /\ i < k /\ shown[i] = d[i]
          BY <1>3, <1>4, <1>5, <3>2
        <4>2. d[i].relevance >= d[k].relevance
          BY <1>2, <4>1 DEF FallsInRelevance
        <4>3. d[i].relevance \in Int /\ d[k].relevance \in Int /\ judged[x].relevance \in Int
          BY <1>2, <4>1, JudgedHitsAre
        <4> QED BY <2>2, <4>1, <4>2, <4>3
      <3>4. Len(shown) >= room
        BY <1>3, <3>2
      <3> HIDE DEF same
      <3> QED BY <2>4, <2>5, <3>3, <3>4 DEF same
    <2>6. CASE same # {}
      <3>1. \A i \in same : shown[i].relevance >= judged[x].relevance
        BY <1>4, <2>2, <2>3
      <3> QED BY <2>4, <2>6, <3>1
    <2> QED BY <2>5, <2>6
  <1>8. shown = Brief(judged, room)
    BY DEF Brief, renderBrief, Helpful, shown, r, d, helpful
  <1> QED BY <1>4, <1>6, <1>7, <1>8, ZenonT(60)

-----------------------------------------------------------------------------
(* The tables of what may be found *)

LEMMA RankedIs ==
    ASSUME NEW found \in SUBSET Page, NEW ranking \in Ranked(found)
    PROVE  ranking \in Ranked(Page) /\ IsRanking(ranking)
  <1>1. PICK some \in SUBSET found :
            /\ Cardinality(some) <= 3 * Limit
            /\ \E r \in SetToSeqs(some) : ranking = [i \in DOMAIN r |-> [page |-> r[i], chunk |-> 0]]
    BY DEF Ranked
  <1>2. PICK r \in SetToSeqs(some) : ranking = [i \in DOMAIN r |-> [page |-> r[i], chunk |-> 0]]
    BY <1>1
  <1>3. some \in {set \in SUBSET Page : Cardinality(set) <= 3 * Limit}
    BY <1>1
  <1>4. ranking \in Ranked(Page)
    BY <1>2, <1>3 DEF Ranked
  <1> DEFINE n == Cardinality(some)
  <1>5. n \in Nat
    BY SearchIsConfigured, FS_Subset, FS_CardinalityType
  <1>6. r \in [1..n -> some]
    BY DEF SetToSeqs
  <1> HIDE DEF n
  <1>7. ranking \in [1..n -> Hit]
    BY <1>2, <1>6 DEF Hit
  <1>8. ranking \in Seq(Hit) /\ Len(ranking) = n
    BY <1>5, <1>7, SeqDef
  <1>9. n <= 3 * Limit /\ Len(Weights) >= 3 * Limit /\ Limit \in Nat /\ Len(Weights) \in Nat
    BY <1>1, SearchIsConfigured DEF n
  <1>10. n <= Len(Weights)
    <2>1. 3 * Limit \in Nat
      BY <1>9
    <2> QED BY <1>5, <1>9, <2>1
  <1> QED BY <1>4, <1>8, <1>10 DEF IsRanking

LEMMA NothingIsRanked == <<>> \in Ranked(Page) /\ <<>> \in Semantic
  <1>1. Cardinality({}) = 0 /\ Limit \in Nat
    BY SearchIsConfigured, FS_EmptySet
  <1>2. {} \in {set \in SUBSET Page : Cardinality(set) <= 3 * Limit}
    BY <1>1
  <1>3. <<>> \in SetToSeqs({})
    <2>1. <<>> \in [1..0 -> {}]
      OBVIOUS
    <2>2. \A i, j \in 1..0 : FALSE
      OBVIOUS
    <2> QED BY <1>1, <2>1, <2>2 DEF SetToSeqs
  <1>4. <<>> = [i \in DOMAIN <<>> |-> [page |-> (<<>>)[i], chunk |-> 0]]
    OBVIOUS
  <1>5. <<>> \in Ranked(Page)
    BY <1>2, <1>3, <1>4 DEF Ranked
  <1> QED BY <1>5, SearchIsConfigured

LEMMA SemanticIs ==
    ASSUME NEW ranking \in Semantic
    PROVE  IsRanking(ranking)
  <1>1. /\ ranking \in Seq(Hit) /\ Len(ranking) <= 3 * Limit /\ Len(ranking) \in Nat
        /\ Len(Weights) >= 3 * Limit /\ Limit \in Nat /\ Len(Weights) \in Nat
    <2>1. ranking \in Seq([page : Page, chunk : Nat]) /\ Len(ranking) <= 3 * Limit
      BY SearchIsConfigured
    <2>2. ranking \in Seq(Hit) /\ Len(ranking) \in Nat
      BY <2>1 DEF Hit
    <2>3. Len(Weights) >= 3 * Limit /\ Limit \in Nat /\ Len(Weights) \in Nat
      BY SearchIsConfigured
    <2> QED BY <2>1, <2>2, <2>3
  <1>2. 3 * Limit \in Nat
    BY <1>1
  <1> QED BY <1>1, <1>2 DEF IsRanking

LEMMA CandidatesAre ==
    ASSUME NEW hits \in Candidates
    PROVE  hits \in Seq(Entry)
  <1>1. Limit \in Nat
    BY SearchIsConfigured
  <1>2. CASE \E r \in Ranked(Page) \cup Semantic : hits = Alone(r)
    <2>1. PICK r \in Ranked(Page) \cup Semantic : hits = Alone(r)
      BY <1>2
    <2>2. IsRanking(r)
      BY RankedIs, SemanticIs
    <2> QED BY <1>1, <2>1, <2>2, WeighedIs, UpToIs DEF Alone
  <1>3. CASE \E f \in Fusions : hits = f.hits
    <2>1. PICK r \in Ranked(Page), t \in Semantic : hits = UpTo(rrfFuse(r, t, Weights), Limit)
      BY <1>3 DEF Fusions
    <2>2. rrfFuse(r, t, Weights) \in Seq(Entry)
      BY RankedIs, SemanticIs, RrfFuseIsSound
    <2> QED BY <1>1, <2>1, <2>2, UpToIs
  <1> QED BY <1>2, <1>3 DEF Candidates

LEMMA AloneIsCandidate ==
    /\ \A found \in SUBSET Page : \A r \in Ranked(found) : Alone(r) \in Candidates
    /\ \A r \in Semantic : Alone(r) \in Candidates
    /\ <<>> \in Candidates
  <1>1. \A r \in Ranked(Page) \cup Semantic : Alone(r) \in Candidates
    BY DEF Candidates
  <1>2. \A found \in SUBSET Page : \A r \in Ranked(found) : Alone(r) \in Candidates
    BY <1>1, RankedIs
  <1>3. Alone(<<>>) = <<>>
    <2>1. IsRanking(<<>>) /\ Limit \in Nat
      BY NothingIsRanked, SemanticIs, SearchIsConfigured
    <2>2. Weighed(<<>>, Weights) \in Seq(Entry) /\ Len(Weighed(<<>>, Weights)) = 0
      BY <2>1, WeighedIs
    <2>3. Alone(<<>>) \in Seq(Entry) /\ Len(Alone(<<>>)) = 0
      BY <2>1, <2>2, UpToIs DEF Alone
    <2> QED BY <2>3, EmptySeq
  <1> QED BY <1>1, <1>2, <1>3, NothingIsRanked

\* What a judgement is of.
LEMMA JudgementsAre ==
    ASSUME NEW judgement \in Judgements
    PROVE  LET hits == judgement.found
               answers == judgement.answers
           IN  /\ hits \in Seq(Entry) /\ answers \in [Judged(hits) -> 0..2]
               /\ judgement.ranked = Reranked(hits, answers)
               /\ judgement.brief = Brief(Reranked(hits, answers), Room)
               /\ hits # <<>> => answers # <<>>
  <1>1. PICK hits \in Candidates :
            judgement \in {[found |-> hits, answers |-> answers, ranked |-> Reranked(hits, answers),
                            brief |-> Brief(Reranked(hits, answers), Room)] : answers \in [Judged(hits) -> 0..2]}
    BY DEF Judgements
  <1>2. PICK answers \in [Judged(hits) -> 0..2] :
            judgement = [found |-> hits, answers |-> answers, ranked |-> Reranked(hits, answers),
                         brief |-> Brief(Reranked(hits, answers), Room)]
    BY <1>1
  <1>3. hits \in Seq(Entry)
    BY CandidatesAre
  <1>4. ASSUME hits # <<>> PROVE answers # <<>>
    <2>1. Len(hits) \in Nat \ {0} /\ MaxCandidates \in Nat \ {0}
      BY <1>3, <1>4, EmptySeq, SearchIsConfigured
    <2>2. 1 \in Judged(hits)
      BY <2>1 DEF Judged
    <2>3. 1 \in DOMAIN answers /\ 1 \notin DOMAIN <<>>
      BY <2>2
    <2> QED BY <2>3
  <1> QED BY <1>2, <1>3, <1>4

-----------------------------------------------------------------------------
(* One search *)

Kind == {"auto", "ask"}
HalfState == {"off", "running", "done", "failed"}

Searching ==
    [stage : {"search"}, kind : Kind, engine : Engine, lexical : [state : HalfState, ranking : Ranked(Page)],
     semantic : [state : HalfState, ranking : Semantic]]

BeingJudged ==
    [stage : {"judge"}, kind : Kind, rerank : BOOLEAN, found : Candidates \ {<<>>}, expired : BOOLEAN,
     asking : BOOLEAN, left : 0..MaxRetries]

\* An ask shows what it found, or what a judgement made of it.
IsAnswer(q) ==
    \/ q.shown = q.found /\ q.answers = <<>>
    \/ /\ q.found # <<>>
       /\ \E j \in Judgements : q.found = j.found /\ q.shown = j.ranked /\ q.answers = j.answers

\* The hook injects nothing, or the brief of a judgement.
IsInjection(q) ==
    \/ q.shown = <<>>
    \/ /\ q.found # <<>> /\ q.outcome = "injected"
       /\ \E j \in Judgements : q.found = j.found /\ q.shown = j.brief /\ q.answers = j.answers

IsOver(q) ==
    /\ q.stage = "ended" /\ q.kind \in Kind /\ q.found \in Candidates
    /\ q.kind = "ask" => IsAnswer(q)
    /\ q.kind = "auto" => IsInjection(q)

QueryInv == query = NoQuery \/ query \in Searching \/ query \in BeingJudged \/ IsOver(query)

SearchInv == CacheInv /\ QueryInv /\ last \in Text \cup {"none"}
\* What the stage of a search says of it.
LEMMA StagesAre ==
    ASSUME QueryInv
    PROVE  /\ query.stage \in {"none", "search", "judge", "ended"}
           /\ query.stage = "none" => query = NoQuery
           /\ query.stage = "search" => query \in Searching
           /\ query.stage = "judge" => query \in BeingJudged
           /\ query.stage = "ended" => IsOver(query)
  <1>1. CASE query = NoQuery
    BY <1>1 DEF NoQuery
  <1>2. CASE query \in Searching
    BY <1>2 DEF Searching
  <1>3. CASE query \in BeingJudged
    BY <1>3 DEF BeingJudged
  <1>4. CASE IsOver(query)
    <2>1. query.stage = "ended"
      BY <1>4 DEF IsOver
    <2> QED BY <1>4, <2>1
  <1> QED BY <1>1, <1>2, <1>3, <1>4 DEF QueryInv

LEMMA QueryStarts ==
    ASSUME NEW kind \in Kind, NEW engine \in Engine, Start(kind, engine)
    PROVE  QueryInv'
  <1>1. Nowhere \in [state : HalfState, ranking : Ranked(Page)] /\ Nowhere \in [state : HalfState, ranking : Semantic]
    BY NothingIsRanked DEF Nowhere, Half, HalfState
  <1>2. /\ Half("running", <<>>) \in [state : HalfState, ranking : Ranked(Page)]
        /\ Half("running", <<>>) \in [state : HalfState, ranking : Semantic]
    BY NothingIsRanked DEF Half, HalfState
  <1>3. query' \in Searching
    BY <1>1, <1>2 DEF Start, Searching
  <1> QED BY <1>3 DEF QueryInv

\* However a search ends that is an answer or an injection.
LEMMA EndedIsOver ==
    ASSUME query.kind \in Kind, NEW hits \in Candidates, NEW shown, NEW answers, NEW outcome,
           query' = Ended(hits, shown, answers, outcome),
           \/ shown = hits /\ answers = <<>> /\ query.kind = "ask"
           \/ shown = <<>> /\ query.kind = "auto"
           \/ /\ hits # <<>>
              /\ \E j \in Judgements :
                    /\ j.found = hits /\ j.answers = answers
                    /\ query.kind = "ask" => shown = j.ranked
                    /\ query.kind = "auto" => shown = j.brief /\ (shown # <<>> => outcome = "injected")
    PROVE  QueryInv'
  <1>1. /\ query'.stage = "ended" /\ query'.kind = query.kind /\ query'.found = hits /\ query'.shown = shown
        /\ query'.answers = answers /\ query'.outcome = outcome
    BY DEF Ended
  <1>2. query.kind = "ask" => IsAnswer(query')
    BY <1>1 DEF IsAnswer
  <1>3. query.kind = "auto" => IsInjection(query')
    BY <1>1 DEF IsInjection
  <1>4. IsOver(query')
    BY <1>1, <1>2, <1>3 DEF IsOver
  <1> QED BY <1>4 DEF QueryInv, IsOver, IsAnswer, IsInjection

LEMMA FoundIsKept ==
    ASSUME query.kind \in Kind, NEW hits \in Candidates, Found(hits)
    PROVE  QueryInv'
  <1>1. CASE hits = <<>> /\ query' = Ended(hits, hits, <<>>, "empty")
    BY <1>1, EndedIsOver DEF Kind
  <1>2. CASE hits # <<>> /\ query.kind = "ask" /\ query' = Ended(hits, hits, <<>>, "answered")
    BY <1>2, EndedIsOver
  <1>3. CASE \E rerank \in BOOLEAN :
                /\ hits # <<>>
                /\ query' = [stage |-> "judge", kind |-> query.kind, rerank |-> rerank, found |-> hits,
                             expired |-> FALSE, asking |-> TRUE, left |-> MaxRetries]
    <2>1. MaxRetries \in 0..MaxRetries
      BY SearchIsConfigured
    <2>2. query' \in BeingJudged
      BY <1>3, <2>1 DEF BeingJudged
    <2> QED BY <2>2 DEF QueryInv
  <1> QED BY <1>1, <1>2, <1>3 DEF Found

LEMMA UnjudgedIsOver ==
    ASSUME query \in BeingJudged, NEW outcome, query' = Unjudged(outcome)
    PROVE  QueryInv'
  <1>1. query.kind \in Kind /\ query.found \in Candidates
    BY DEF BeingJudged
  <1>2. CASE query.kind = "ask"
    BY <1>1, <1>2, EndedIsOver DEF Unjudged
  <1>3. CASE query.kind = "auto"
    BY <1>1, <1>3, EndedIsOver DEF Unjudged
  <1> QED BY <1>1, <1>2, <1>3 DEF Kind

LEMMA QueryLexicalEnds == QueryInv /\ LexicalEnds => QueryInv'
  <1> SUFFICES ASSUME QueryInv, LexicalEnds PROVE QueryInv'
    OBVIOUS
  <1>1. query \in Searching
    BY StagesAre DEF LexicalEnds
  <1>2. ASSUME NEW half \in [state : HalfState, ranking : Ranked(Page)], query' = [query EXCEPT !.lexical = half]
        PROVE  QueryInv'
    <2>1. query' \in Searching
      BY <1>1, <1>2 DEF Searching
    <2> QED BY <2>1 DEF QueryInv
  <1>3. CASE \E r \in Ranked({p \in Page : cache.docs[p] > 0}) : query' = [query EXCEPT !.lexical = Half("done", r)]
    <2>1. PICK r \in Ranked({p \in Page : cache.docs[p] > 0}) : query' = [query EXCEPT !.lexical = Half("done", r)]
      BY <1>3
    <2>2. r \in Ranked(Page)
      BY RankedIs
    <2>3. Half("done", r) \in [state : HalfState, ranking : Ranked(Page)]
      BY <2>2 DEF Half, HalfState
    <2> QED BY <1>2, <2>1, <2>3
  <1>4. CASE query' = [query EXCEPT !.lexical = Half("failed", <<>>)]
    <2>1. Half("failed", <<>>) \in [state : HalfState, ranking : Ranked(Page)]
      BY NothingIsRanked DEF Half, HalfState
    <2> QED BY <1>2, <1>4, <2>1
  <1> QED BY <1>3, <1>4 DEF LexicalEnds

LEMMA QuerySemanticEnds == QueryInv /\ SemanticEnds => QueryInv'
  <1> SUFFICES ASSUME QueryInv, SemanticEnds PROVE QueryInv'
    OBVIOUS
  <1>1. query \in Searching
    BY StagesAre DEF SemanticEnds
  <1>2. ASSUME NEW half \in [state : HalfState, ranking : Semantic], query' = [query EXCEPT !.semantic = half]
        PROVE  QueryInv'
    <2>1. query' \in Searching
      BY <1>1, <1>2 DEF Searching
    <2> QED BY <2>1 DEF QueryInv
  <1>3. \A r \in Semantic : /\ Half("done", r) \in [state : HalfState, ranking : Semantic]
                            /\ Half("failed", <<>>) \in [state : HalfState, ranking : Semantic]
    BY NothingIsRanked DEF Half, HalfState
  <1> QED BY <1>2, <1>3, NothingIsRanked DEF SemanticEnds

\* The search is over: with what it found, or with an error.
LEMMA QuerySearchEnds == QueryInv /\ (Fuse \/ SearchEnds \/ SearchFails) => QueryInv'
  <1> SUFFICES ASSUME QueryInv, Fuse \/ SearchEnds \/ SearchFails PROVE QueryInv'
    OBVIOUS
  <1>1. query \in Searching
    BY StagesAre DEF Fuse, SearchEnds, SearchFails
  <1>2. query.kind \in Kind /\ query.lexical.ranking \in Ranked(Page) /\ query.semantic.ranking \in Semantic
    BY <1>1 DEF Searching
  <1>3. CASE Fuse
    <2>1. PICK f \in Fusions : Found(f.hits)
      BY <1>3 DEF Fuse
    <2>2. f.hits \in Candidates
      BY DEF Candidates
    <2> QED BY <1>2, <2>1, <2>2, FoundIsKept
  <1>4. CASE SearchEnds
    <2>1. Alone(OnlyHalf.ranking) \in Candidates
      BY <1>2, AloneIsCandidate DEF OnlyHalf
    <2> QED BY <1>2, <1>4, <2>1, FoundIsKept DEF SearchEnds
  <1>5. CASE \E r \in Ranked(Page) : Found(Alone(r))
    BY <1>2, <1>5, AloneIsCandidate, FoundIsKept
  <1>6. CASE query.kind = "auto" /\ query' = Ended(<<>>, <<>>, <<>>, "error")
    BY <1>2, <1>6, AloneIsCandidate, EndedIsOver
  <1> QED BY <1>3, <1>4, <1>5, <1>6 DEF SearchFails

LEMMA QueryExpires == QueryInv /\ (Expire \/ Retry) => QueryInv'
  <1> SUFFICES ASSUME QueryInv, Expire \/ Retry PROVE QueryInv'
    OBVIOUS
  <1>1. query \in BeingJudged
    BY StagesAre DEF Expire, Retry
  <1>2. query' \in BeingJudged
    BY <1>1 DEF Expire, Retry, BeingJudged
  <1> QED BY <1>2 DEF QueryInv

LEMMA QueryAnswered == QueryInv /\ JevAnswers => QueryInv'
  <1> SUFFICES ASSUME QueryInv, JevAnswers PROVE QueryInv'
    OBVIOUS
  <1>1. query \in BeingJudged
    BY StagesAre DEF JevAnswers, Judging
  <1>2. CASE query' = Unjudged("below_gate")
    BY <1>1, <1>2, UnjudgedIsOver
  <1>3. CASE \E judgement \in Judgements :
                /\ judgement.found = query.found
                /\ query' = IF query.kind = "ask" THEN Show(judgement) ELSE Inject(judgement)
    <2>1. PICK judgement \in Judgements :
                /\ judgement.found = query.found
                /\ query' = IF query.kind = "ask" THEN Show(judgement) ELSE Inject(judgement)
      BY <1>3
    <2>2. query.kind \in Kind /\ query.found \in Candidates /\ query.found # <<>>
      BY <1>1 DEF BeingJudged
    <2>3. CASE query.kind = "ask"
      <3>1. query' = Ended(query.found, judgement.ranked, judgement.answers, "answered")
        BY <2>1, <2>3 DEF Show
      <3> QED BY <2>1, <2>2, <2>3, <3>1, EndedIsOver
    <2>4. CASE query.kind = "auto"
      <3> DEFINE outcome == IF judgement.brief = <<>> THEN "no_relevant_candidates" ELSE "injected"
      <3>1. query' = Ended(query.found, judgement.brief, judgement.answers, outcome)
        BY <2>1, <2>4 DEF Inject
      <3>2. judgement.brief # <<>> => outcome = "injected"
        OBVIOUS
      <3> HIDE DEF outcome
      <3> QED BY <2>1, <2>2, <2>4, <3>1, <3>2, EndedIsOver
    <2> QED BY <2>2, <2>3, <2>4 DEF Kind
  <1> QED BY <1>2, <1>3 DEF JevAnswers

LEMMA QueryUnanswered == QueryInv /\ (JevFails \/ JevRefuses) => QueryInv'
  <1> SUFFICES ASSUME QueryInv, JevFails \/ JevRefuses PROVE QueryInv'
    OBVIOUS
  <1>1. query \in BeingJudged
    BY StagesAre DEF JevFails, JevRefuses, Judging
  <1>2. CASE JevFails /\ RetriesLeft(query.left)
    <2>1. query' = [query EXCEPT !.asking = FALSE, !.left = OneRetryLess(@)]
      BY <1>2 DEF JevFails
    <2>2. query.left \in 0..MaxRetries /\ query.left > 0 /\ MaxRetries \in Nat
      BY <1>1, <1>2, SearchIsConfigured DEF BeingJudged, RetriesLeft
    <2>3. query.left - 1 \in 0..MaxRetries
      BY <2>2
    <2>4. query' \in BeingJudged
      BY <1>1, <2>1, <2>3 DEF BeingJudged, OneRetryLess
    <2> QED BY <2>4 DEF QueryInv
  <1>3. CASE JevFails /\ ~RetriesLeft(query.left)
    BY <1>1, <1>3, UnjudgedIsOver DEF JevFails
  <1>4. CASE JevRefuses
    BY <1>1, <1>4, UnjudgedIsOver DEF JevRefuses
  <1> QED BY <1>2, <1>3, <1>4

LEMMA QueryKept ==
    ASSUME QueryInv, UNCHANGED query
    PROVE  QueryInv'
  BY DEF QueryInv, IsOver, IsAnswer, IsInjection

LEMMA QueryStepKeeps == QueryInv /\ [Next]_vars => QueryInv'
  <1> SUFFICES ASSUME QueryInv, [Next]_vars PROVE QueryInv'
    OBVIOUS
  <1>1. CASE (\E p \in Page : Write(p) \/ Delete(p)) \/ StaysFresh \/ UNCHANGED vars
    BY <1>1, QueryKept DEF Write, Delete, StaysFresh, vars
  <1>2. CASE \E c \in Caller : Ensure(c) \/ LoadFails(c)
    BY <1>2, QueryKept DEF Ensure, Check, List, ReadDoc, Install, LoadFails
  <1>3. CASE (\E text \in Text : Prompt(text)) \/ Ask
    BY <1>3, QueryStarts DEF Prompt, Ask, Kind
  <1>4. CASE Expire \/ QueryStep
    BY <1>4, QueryLexicalEnds, QuerySemanticEnds, QuerySearchEnds, QueryExpires, QueryAnswered, QueryUnanswered
       DEF QueryStep, Judgement
  <1> QED BY <1>1, <1>2, <1>3, <1>4 DEF Next

-----------------------------------------------------------------------------
(* What holds of every search *)

LEMMA SearchInit == Init => SearchInv
  BY CacheInit, SMTT(40) DEF Init, SearchInv, QueryInv

LEMMA LastKept == last \in Text \cup {"none"} /\ [Next]_vars => last' \in Text \cup {"none"}
  BY DEF Next, Write, Delete, StaysFresh, Ensure, Check, List, ReadDoc, Install, LoadFails, Prompt, Ask, Expire,
         QueryStep, LexicalEnds, SemanticEnds, Fuse, SearchEnds, SearchFails, Judgement, JevAnswers, JevFails,
         Retry, JevRefuses, vars

LEMMA SearchNext == SearchInv /\ [Next]_vars => SearchInv'
  BY CacheStep, QueryStepKeeps, LastKept DEF SearchInv

LEMMA SearchIsTyped == SearchInv => TypeOK
  <1> SUFFICES ASSUME SearchInv PROVE TypeOK
    OBVIOUS
  <1>1. time \in 1..MaxTime /\ MaxTime \in Nat /\ disk \in [Page -> 0..time]
    BY SearchIsConfigured DEF SearchInv, CacheInv
  <1>2. disk \in [Page -> 0..MaxTime]
    BY <1>1
  <1>3. cache.built \in BOOLEAN /\ cache.docs \in [Page -> Unreadable..MaxTime]
    BY DEF SearchInv, CacheInv
  <1>4. \A c \in Caller : load[c].phase \in {"idle", "check", "list", "read", "ready", "failed"}
    <2>1. \A c \in Caller : load[c] \in Resting \cup Loading \cup Reading
      BY DEF SearchInv, CacheInv
    <2> QED BY <2>1 DEF Resting, Loading, Reading
  <1>5. /\ query.stage \in {"none", "search", "judge", "ended"}
        /\ query.stage = "judge" => query.left \in 0..MaxRetries
        /\ query.stage \in {"judge", "ended"} => query.found \in Candidates
    BY StagesAre DEF SearchInv, BeingJudged, IsOver
  <1> QED BY <1>1, <1>2, <1>3, <1>4, <1>5 DEF SearchInv, TypeOK

LEMMA SearchFusionIsSound == SearchInv => FusionIsSound
  <1> SUFFICES ASSUME SearchInv, query.stage = "search"
               PROVE  <<query.lexical.ranking, query.semantic.ranking>> \in SoundFusions
    BY DEF FusionIsSound
  <1> DEFINE r == query.lexical.ranking
             t == query.semantic.ranking
  <1>1. r \in Ranked(Page) /\ t \in Semantic
    BY StagesAre DEF SearchInv, Searching
  <1> HIDE DEF r, t
  <1>2. FusesSoundly(rrfFuse(r, t, Weights), r, t, Weights)
    BY <1>1, RankedIs, SemanticIs, RrfFuseIsSound
  <1>3. <<r, t>> \in Ranked(Page) \X Semantic /\ (<<r, t>>)[1] = r /\ (<<r, t>>)[2] = t
    BY <1>1
  <1>4. <<r, t>> \in SoundFusions
    BY <1>2, <1>3 DEF SoundFusions
  <1> QED BY <1>4 DEF r, t

\* What the hook injects after a judgement is backed by it.
LEMMA BriefIsBacked ==
    ASSUME NEW judgement \in Judgements
    PROVE  LET hits == judgement.found
               answers == judgement.answers
               shown == judgement.brief
           IN  /\ \A i \in DOMAIN shown :
                     \E k \in DOMAIN hits : hits[k].hit = shown[i].hit /\ (k \in DOMAIN answers => answers[k] # 0)
               /\ \A k \in DOMAIN hits :
                     Relevance(answers, k) >= Midpoint =>
                         LET same == {i \in DOMAIN shown : shown[i].hit.page = hits[k].hit.page}
                             rivals == IF same = {} THEN DOMAIN shown ELSE same
                         IN  /\ Cardinality(same) <= 1 /\ (same = {} => Len(shown) >= Room)
                             /\ \A i \in rivals : shown[i].relevance >= Relevance(answers, k)
  <1> DEFINE hits == judgement.found
             answers == judgement.answers
             ranked == Reranked(hits, answers)
             shown == Brief(ranked, Room)
  <1>1. hits \in Seq(Entry) /\ answers \in [Judged(hits) -> 0..2] /\ judgement.brief = shown
    BY JudgementsAre
  <1>2. \A i \in DOMAIN answers : answers[i] \in 0..2
    BY <1>1
  <1> HIDE DEF hits, answers
  <1>3. /\ ranked \in Seq(JudgedHit) /\ Len(ranked) = Len(hits) /\ FallsInRelevance(ranked)
        /\ \E place \in [DOMAIN hits -> DOMAIN hits] :
              /\ \A i \in DOMAIN hits : \E k \in DOMAIN hits : place[k] = i
              /\ \A k \in DOMAIN hits : /\ ranked[k].hit = hits[place[k]].hit
                                        /\ ranked[k].relevance = Relevance(answers, place[k])
    <2>1. Reranks(ranked, hits, answers)
      BY <1>1, <1>2, RerankedIs
    <2> HIDE DEF ranked
    <2> QED BY <2>1 DEF Reranks
  <1> HIDE DEF ranked
  <1>4. PICK place \in [DOMAIN hits -> DOMAIN hits] :
              /\ \A i \in DOMAIN hits : \E k \in DOMAIN hits : place[k] = i
              /\ \A k \in DOMAIN hits : /\ ranked[k].hit = hits[place[k]].hit
                                        /\ ranked[k].relevance = Relevance(answers, place[k])
    BY <1>3
  <1>5. DOMAIN ranked = DOMAIN hits
    BY <1>1, <1>3
  <1>6. Room \in Nat
    BY SearchIsConfigured
  <1>7. /\ \A i \in DOMAIN shown : \E x \in DOMAIN ranked :
                shown[i] = ranked[x] /\ ranked[x].relevance >= Midpoint
        /\ \A x \in DOMAIN ranked :
              ranked[x].relevance >= Midpoint =>
                  LET same == {i \in DOMAIN shown : shown[i].hit.page = ranked[x].hit.page}
                      rivals == IF same = {} THEN DOMAIN shown ELSE same
                  IN  /\ Cardinality(same) <= 1 /\ (same = {} => Len(shown) >= Room)
                      /\ \A i \in rivals : shown[i].relevance >= ranked[x].relevance
    BY <1>3, <1>6, BriefIs
  <1> HIDE DEF shown
  <1>8. ASSUME NEW i \in DOMAIN shown
        PROVE  \E k \in DOMAIN hits : hits[k].hit = shown[i].hit /\ (k \in DOMAIN answers => answers[k] # 0)
    <2>1. PICK x \in DOMAIN hits : shown[i] = ranked[x] /\ ranked[x].relevance >= Midpoint
      BY <1>5, <1>7
    <2>2. place[x] \in DOMAIN hits /\ shown[i].hit = hits[place[x]].hit /\ Relevance(answers, place[x]) >= 1
      BY <1>4, <2>1 DEF Midpoint
    <2>3. place[x] \in DOMAIN answers => answers[place[x]] # 0
      BY <2>2 DEF Relevance
    <2> QED BY <2>2, <2>3
  <1>9. ASSUME NEW k \in DOMAIN hits, Relevance(answers, k) >= Midpoint
        PROVE  LET same == {i \in DOMAIN shown : shown[i].hit.page = hits[k].hit.page}
                   rivals == IF same = {} THEN DOMAIN shown ELSE same
               IN  /\ Cardinality(same) <= 1 /\ (same = {} => Len(shown) >= Room)
                   /\ \A i \in rivals : shown[i].relevance >= Relevance(answers, k)
    <2>1. PICK x \in DOMAIN hits : place[x] = k
      BY <1>4
    <2>2. x \in DOMAIN ranked /\ ranked[x].hit = hits[k].hit /\ ranked[x].relevance = Relevance(answers, k)
      BY <1>4, <1>5, <2>1
    <2>3. ranked[x].relevance >= Midpoint
      BY <1>9, <2>2
    <2> QED BY <1>7, <2>2, <2>3, SMTT(40)
  <1> QED BY <1>1, <1>8, <1>9, ZenonT(60) DEF hits, answers

LEMMA SearchInjectedIsBacked == SearchInv => InjectedIsBacked
  <1> SUFFICES ASSUME SearchInv, query.stage = "ended", query.kind = "auto", query.shown # <<>>
               PROVE  /\ query.answers # <<>> /\ query.outcome = "injected"
                      /\ \A i \in DOMAIN query.shown :
                            \E k \in DOMAIN query.found :
                               /\ query.found[k].hit = query.shown[i].hit
                               /\ k \in DOMAIN query.answers => query.answers[k] # 0
                      /\ \A k \in DOMAIN query.found :
                            Relevance(query.answers, k) >= Midpoint =>
                                LET same == {i \in DOMAIN query.shown :
                                                query.shown[i].hit.page = query.found[k].hit.page}
                                    rivals == IF same = {} THEN DOMAIN query.shown ELSE same
                                IN  /\ Cardinality(same) <= 1 /\ (same = {} => Len(query.shown) >= Room)
                                    /\ \A i \in rivals : query.shown[i].relevance >= Relevance(query.answers, k)
    BY DEF InjectedIsBacked
  <1>1. IsInjection(query)
    BY StagesAre DEF SearchInv, IsOver
  <1>2. query.found # <<>> /\ query.outcome = "injected"
    BY <1>1 DEF IsInjection
  <1>3. PICK judgement \in Judgements :
            query.found = judgement.found /\ query.shown = judgement.brief /\ query.answers = judgement.answers
    BY <1>1 DEF IsInjection
  <1>4. query.answers # <<>>
    BY <1>2, <1>3, JudgementsAre
  <1> QED BY <1>2, <1>3, <1>4, BriefIsBacked, SMTT(40)

LEMMA SearchAsksDegrade == SearchInv => AsksDegrade
  <1> SUFFICES ASSUME SearchInv, query.stage = "ended", query.kind = "ask"
               PROVE  /\ {query.shown[i].hit : i \in DOMAIN query.shown}
                            = {query.found[i].hit : i \in DOMAIN query.found}
                      /\ Len(query.shown) = Len(query.found)
                      /\ query.answers = <<>> => query.shown = query.found
    BY DEF AsksDegrade
  <1>1. IsAnswer(query)
    BY StagesAre DEF SearchInv, IsOver
  <1>2. CASE query.shown = query.found
    BY <1>2
  <1>3. CASE \E j \in Judgements : /\ query.found # <<>> /\ query.found = j.found
                                   /\ query.shown = j.ranked /\ query.answers = j.answers
    <2> DEFINE hits == query.found
               answers == query.answers
               ranked == Reranked(hits, answers)
    <2>1. /\ hits \in Seq(Entry) /\ answers \in [Judged(hits) -> 0..2]
          /\ query.shown = ranked /\ answers # <<>>
      BY <1>3, JudgementsAre
    <2>2. \A i \in DOMAIN answers : answers[i] \in 0..2
      BY <2>1
    <2> HIDE DEF hits, answers
    <2>3. /\ ranked \in Seq(JudgedHit) /\ Len(ranked) = Len(hits)
          /\ \E place \in [DOMAIN hits -> DOMAIN hits] :
                /\ \A i \in DOMAIN hits : \E k \in DOMAIN hits : place[k] = i
                /\ \A k \in DOMAIN hits : ranked[k].hit = hits[place[k]].hit
      <3>1. Reranks(ranked, hits, answers)
        BY <2>1, <2>2, RerankedIs
      <3> HIDE DEF ranked
      <3> QED BY <3>1 DEF Reranks
    <2> HIDE DEF ranked
    <2>4. DOMAIN ranked = DOMAIN hits
      BY <2>1, <2>3
    <2>5. PICK place \in [DOMAIN hits -> DOMAIN hits] :
                /\ \A i \in DOMAIN hits : \E k \in DOMAIN hits : place[k] = i
                /\ \A k \in DOMAIN hits : ranked[k].hit = hits[place[k]].hit
      BY <2>3
    <2>6. {ranked[i].hit : i \in DOMAIN ranked} = {hits[i].hit : i \in DOMAIN hits}
      <3>1. ASSUME NEW k \in DOMAIN hits PROVE \E i \in DOMAIN hits : ranked[k].hit = hits[i].hit
        <4>1. place[k] \in DOMAIN hits /\ ranked[k].hit = hits[place[k]].hit
          BY <2>5
        <4> QED BY <4>1
      <3>2. ASSUME NEW i \in DOMAIN hits PROVE \E k \in DOMAIN hits : hits[i].hit = ranked[k].hit
        <4>1. PICK k \in DOMAIN hits : place[k] = i
          BY <2>5
        <4>2. ranked[k].hit = hits[i].hit
          BY <2>5, <4>1
        <4> QED BY <4>2
      <3> HIDE DEF hits
      <3>3. ASSUME NEW i \in DOMAIN ranked PROVE ranked[i].hit \in {hits[j].hit : j \in DOMAIN hits}
        <4>1. PICK j \in DOMAIN hits : ranked[i].hit = hits[j].hit
          BY <2>4, <3>1
        <4> QED BY <4>1
      <3>4. ASSUME NEW j \in DOMAIN hits PROVE hits[j].hit \in {ranked[i].hit : i \in DOMAIN ranked}
        <4>1. PICK i \in DOMAIN ranked : hits[j].hit = ranked[i].hit
          BY <2>4, <3>2
        <4> QED BY <4>1
      <3> QED BY <3>3, <3>4
    <2>7. {query.shown[i].hit : i \in DOMAIN query.shown} = {ranked[i].hit : i \in DOMAIN ranked}
      BY <2>1
    <2>8. Len(query.shown) = Len(hits) /\ answers # <<>>
      BY <2>1, <2>3
    <2> QED BY <2>6, <2>7, <2>8 DEF hits, answers
  <1> QED BY <1>1, <1>2, <1>3 DEF IsAnswer

\* What a search goes through, from the cache to what is shown: in every state the cache and
\* the loads of it vouch for no more than what they hold, and an ended search shows what it
\* found, a judgement of that, or nothing.
THEOREM SearchesAreSound == Spec => []SearchInv
  <1>1. Init => SearchInv
    BY SearchInit
  <1>2. SearchInv /\ [Next]_vars => SearchInv'
    BY SearchNext
  <1> QED BY <1>1, <1>2, PTL DEF Spec

\* The variables of a search have the values they are declared to have.
THEOREM SearchTypeCorrect == Spec => []TypeOK
  BY SearchesAreSound, SearchIsTyped, PTL

\* The cache of the keyword search, when it is taken for up to date, has every page that is
\* on disk as it is there, except those whose file could not be read when it was loaded
\* (search.ts:82-84): whatever was written and deleted meanwhile, and whoever loaded it.
THEOREM FreshCacheIsComplete == Spec => []CacheCoversTheWiki
  <1>1. SearchInv => CacheCoversTheWiki
    <2> SUFFICES ASSUME SearchInv PROVE CacheCoversTheWiki
      OBVIOUS
    <2>1. CacheInv
      BY DEF SearchInv
    <2> QED BY <2>1, SearchIsTyped, CacheCovers DEF CacheCoversTheWiki
  <1> QED BY <1>1, SearchesAreSound, PTL

\* The fusion of what the two halves of a search found keeps all they found and every part of
\* the scores, once, in the order of the scores, and has no page both as a whole and by chunk.
THEOREM FusionsAreSound == Spec => []FusionIsSound
  BY SearchesAreSound, SearchFusionIsSound, PTL

\* Nothing is injected without a judgement, and of the candidates it judged the best of each
\* page that is not unhelpful, in the order of relevance, as far as there is room.
THEOREM InjectionsAreBacked == Spec => []InjectedIsBacked
  BY SearchesAreSound, SearchInjectedIsBacked, PTL

\* An ask shows all that was found, and nothing else, whether or not it was judged.
THEOREM AsksShowWhatTheyFound == Spec => []AsksDegrade
  BY SearchesAreSound, SearchAsksDegrade, PTL
=============================================================================
