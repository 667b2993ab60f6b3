-------------------------- MODULE VectorIndexProofs --------------------------
(***************************************************************************)
(* Proofs about the semantic index.  Two things are shown of every step.   *)
(* Whatever the store or a run has to do with a name, the name is          *)
(* registered for just that root, unless it is shaky; and between the      *)
(* moments a run reads a page and stores its row, whatever would make the  *)
(* two disagree is counted as a disturbance of the run.                    *)
(***************************************************************************)
EXTENDS VectorIndex, Embedder, FiniteSetTheorems, NaturalsInduction, WellFoundedInduction, TLAPS

Entry == [name : Name, root : Root, enabled : BOOLEAN]

\* A registry names no root twice and gives no name twice.
WellFormed(R) ==
    /\ R \subseteq Entry
    /\ \A d, e \in R : d.name = e.name \/ d.root = e.root => d = e

\* A name that is kept keeps its root.
Carries(seen, written) == \A d \in seen, e \in written : d.name = e.name => d.root = e.root

Steps == {"scan", "prune", "embed", "finish"}

RegistryJob == [op : {"registry"}, seen : SUBSET Entry, written : SUBSET Entry, todo : SUBSET Root]
AdoptJob == [op : {"adopt"}, todo : SUBSET Root]
UnregisterJob == [op : {"unregister"}, wiki : Name]
Chunks == UNION {[xs -> Content] : xs \in SUBSET Page}
IndexJob == [op : {"index"}, step : Steps, wiki : Name, root : Root, fingerprint : Preset,
             todo : SUBSET Entry, scope : SUBSET Page, chunks : Chunks,
             pending : SUBSET Page, removed : SUBSET Page, disturbed : SUBSET Page]

AnyJob == {Idle} \cup RegistryJob \cup AdoptJob \cup UnregisterJob \cup IndexJob

\* What a job holds fits together.
Fits(j) ==
    /\ j.op = "registry" => WellFormed(j.seen) /\ WellFormed(j.written) /\ Carries(j.seen, j.written)
    /\ j.op = "index" => /\ DOMAIN j.chunks \subseteq j.scope
                         /\ \A x \in DOMAIN j.chunks : Active(j.chunks[x])
                         /\ j.pending \subseteq DOMAIN j.chunks
                         /\ j.removed \subseteq j.scope \ DOMAIN j.chunks

Types ==
    /\ pages \in [Root -> [Page -> Content]]
    /\ setting \in Preset \cup {"default"}
    /\ WellFormed(registry)
    /\ rows \in [Name -> [Page -> Row \cup {NoRow}]]
    /\ state \in [Name -> Preset \cup {"none"}]
    /\ job \in [Proc -> AnyJob]
    /\ exact \subseteq Name \X Root \X Preset \X Page \X BOOLEAN
    /\ shaky \subseteq Name
    /\ \A p \in Proc : Fits(job[p])

-----------------------------------------------------------------------------
(* Names and roots.                                                        *)

\* Among the registrations R is one of name n for root r.
Lists(R, n, r) == \E e \in R : e.name = n /\ e.root = r

\* Job j indexes, or will index, root r under name n.
Claims(j, n, r) ==
    /\ j.op = "index"
    /\ \/ j.wiki = n /\ j.root = r
       \/ Lists(j.todo, n, r)

\* Job j is taking name n out of the registry.
Ousts(j, n) ==
    \/ j.op = "unregister" /\ j.wiki = n
    \/ /\ j.op = "registry"
       /\ \E e \in j.seen : e.name = n
       /\ \A e \in j.written : e.name # n

Housed ==
    \A n \in Name \ shaky, r \in Root :
        \/ Lists(registry, n, r)
        \/ /\ \A x \in Page : rows[n][x] # NoRow => rows[n][x].root # r
           /\ \A p \in Proc : ~Claims(job[p], n, r)

\* A name is taken out when its rows are gone and no run has to do with it.
Vacated ==
    \A p \in Proc, n \in Name \ shaky : Ousts(job[p], n) =>
        /\ \A x \in Page : rows[n][x] = NoRow
        /\ \A q \in Proc, r \in Root : ~Claims(job[q], n, r)

-----------------------------------------------------------------------------
(* What a run has read, and the rows.                                      *)

\* What j read on page x is c, if that is an active claim.
Mirrors(j, x, c) == IF Active(c) THEN x \in DOMAIN j.chunks /\ j.chunks[x] = c ELSE x \notin DOMAIN j.chunks

\* The row of page x is as j will leave it, unless j still has to store or to remove it.
InHand(j, x, row) ==
    IF x \in DOMAIN j.chunks
    THEN \/ x \in j.pending /\ j.step # "finish"
         \/ row.text = j.chunks[x].text /\ row.fingerprint = j.fingerprint
    ELSE \/ x \in j.removed /\ j.step = "prune"
         \/ row = NoRow
         \/ row.fingerprint # j.fingerprint

RunsAreRight ==
    \A p \in Proc : job[p].op = "index" /\ job[p].step # "scan" =>
        \A x \in job[p].scope \ job[p].disturbed :
            /\ Mirrors(job[p], x, pages[job[p].root][x])
            /\ InHand(job[p], x, rows[job[p].wiki][x])

IndexInv == Types /\ Housed /\ Vacated /\ RunsAreRight /\ UndisturbedRunsAreExact

-----------------------------------------------------------------------------
(* Sets of numbers, and the first free name.                               *)

\* A set of natural numbers that is not empty has a first element.
LEMMA HasFirst ==
  ASSUME NEW S \in SUBSET Nat, S # {}
  PROVE  \E k \in S : \A j \in S : k <= j
<1> DEFINE R == OpToRel(<, Nat)
<1>1. IsWellFoundedOn(R, Nat)
  BY NatLessThanWellFounded
<1>2. PICK k \in S : \A j \in S : ~(<<j, k>> \in R)
  <2> HIDE DEF R
  <2> QED BY <1>1, WFMin
<1>3. \A j \in S : ~(j < k)
  BY <1>2 DEF OpToRel
<1> QED BY <1>3

\* There are more names than roots, so FreeName always finds one (registry.ts, uniqueName).
THEOREM FreeNameIsUnused ==
  ASSUME NEW seen, WellFormed(seen)
  PROVE  FreeName(seen) \in Name /\ \A e \in seen : e.name # FreeName(seen)
<1> DEFINE free == {n \in Name : \A e \in seen : e.name # n}
<1>1. Cardinality(Name) \in Nat /\ Name \in SUBSET Nat
  BY IndexIsConfigured, FS_CardinalityType
<1>2. free # {}
  <2> SUFFICES ASSUME free = {} PROVE FALSE
    OBVIOUS
  <2> DEFINE f == [n \in Name |-> (CHOOSE e \in seen : e.name = n).root]
  <2>1. \A n \in Name : \E e \in seen : e.name = n /\ e.root = f[n]
    OBVIOUS
  <2>2. f \in [Name -> Root]
    BY <2>1 DEF WellFormed, Entry
  <2>3. PICK x, y \in Name : x # y /\ f[x] = f[y]
    <3> HIDE DEF f
    <3> QED BY <2>2, FS_PigeonHole, IndexIsConfigured
  <2> HIDE DEF f
  <2> QED BY <2>1, <2>3 DEF WellFormed
<1>3. PICK k \in free : \A j \in free : k <= j
  BY <1>1, <1>2, HasFirst
<1>4. \A j \in 1..(k - 1) : j \in Name /\ j \notin free
  BY <1>1, <1>3, IndexIsConfigured
<1>5. k \in Name /\ (\A e \in seen : e.name # k) /\ \A j \in 1..(k - 1) : \E e \in seen : e.name = j
  BY <1>3, <1>4
<1> QED BY <1>5 DEF FreeName

\* What registering, enabling and removing make of a registry.
LEMMA RegisteredFits ==
  ASSUME NEW seen, WellFormed(seen), NEW r \in Root
  PROVE  /\ WellFormed(Registered(seen, r)) /\ Carries(seen, Registered(seen, r))
         /\ seen \subseteq Registered(seen, r)
<1>1. CASE \E e \in seen : e.root = r
  BY <1>1 DEF Registered, WellFormed, Carries
<1>2. CASE ~\E e \in seen : e.root = r
  <2> DEFINE new == [name |-> FreeName(seen), root |-> r, enabled |-> TRUE]
  <2>1. new \in Entry /\ new.root = r /\ \A e \in seen : e.name # new.name
    BY FreeNameIsUnused DEF Entry
  <2>2. Registered(seen, r) = seen \cup {new}
    BY <1>2 DEF Registered
  <2> HIDE DEF new
  <2> QED BY <1>2, <2>1, <2>2 DEF WellFormed, Carries
<1> QED BY <1>1, <1>2

LEMMA EnabledFits ==
  ASSUME NEW seen, WellFormed(seen), NEW n \in Name, NEW on \in BOOLEAN
  PROVE  /\ WellFormed(Enabled(seen, n, on)) /\ Carries(seen, Enabled(seen, n, on))
         /\ {e.name : e \in Enabled(seen, n, on)} = {e.name : e \in seen}
<1>1. \A d \in Enabled(seen, n, on) : d \in Entry /\ \E e \in seen :
         d.name = e.name /\ d.root = e.root /\ d.enabled = IF e.name = n THEN on ELSE e.enabled
  <2> SUFFICES ASSUME NEW e \in seen, NEW d, d = IF e.name = n THEN [e EXCEPT !.enabled = on] ELSE e
               PROVE  d \in Entry /\ d.name = e.name /\ d.root = e.root
                      /\ d.enabled = IF e.name = n THEN on ELSE e.enabled
    BY DEF Enabled
  <2>1. e \in Entry
    BY DEF WellFormed
  <2>2. CASE e.name = n
    BY <2>1, <2>2 DEF Entry
  <2>3. CASE e.name # n
    BY <2>1, <2>3 DEF Entry
  <2> QED BY <2>2, <2>3
<1>2. ASSUME NEW e \in seen PROVE \E d \in Enabled(seen, n, on) : d.name = e.name
  <2> DEFINE d == IF e.name = n THEN [e EXCEPT !.enabled = on] ELSE e
  <2>1. d \in Enabled(seen, n, on)
    BY DEF Enabled
  <2>2. d.name = e.name
    BY DEF WellFormed, Entry
  <2> QED BY <2>1, <2>2
<1>3. \A d, e \in Entry : d.name = e.name /\ d.root = e.root /\ d.enabled = e.enabled => d = e
  BY DEF Entry
<1>4. Enabled(seen, n, on) \subseteq Entry
  BY <1>1
<1>5. ASSUME NEW d \in Enabled(seen, n, on), NEW e \in Enabled(seen, n, on), d.name = e.name \/ d.root = e.root
      PROVE  d = e
  <2>1. PICK a \in seen : d.name = a.name /\ d.root = a.root /\ d.enabled = IF a.name = n THEN on ELSE a.enabled
    BY <1>1
  <2>2. PICK b \in seen : e.name = b.name /\ e.root = b.root /\ e.enabled = IF b.name = n THEN on ELSE b.enabled
    BY <1>1
  <2>3. a = b
    BY <1>5, <2>1, <2>2 DEF WellFormed
  <2> QED BY <1>3, <1>4, <2>1, <2>2, <2>3
<1>6. Carries(seen, Enabled(seen, n, on))
  BY <1>1 DEF Carries, WellFormed
<1> QED BY <1>1, <1>2, <1>4, <1>5, <1>6 DEF WellFormed

LEMMA UnregisteredFits ==
  ASSUME NEW seen, WellFormed(seen), NEW n
  PROVE  /\ WellFormed(Unregistered(seen, n)) /\ Carries(seen, Unregistered(seen, n))
         /\ \A e \in seen : e.name # n => e \in Unregistered(seen, n)
BY DEF Unregistered, WellFormed, Carries

-----------------------------------------------------------------------------
(* What a step does to the jobs.                                           *)

\* The run j is the run i, disturbed on the same pages or on more.
SameRun(i, j) ==
    /\ i \in IndexJob /\ j \in IndexJob
    /\ j.step = i.step /\ j.wiki = i.wiki /\ j.root = i.root /\ j.fingerprint = i.fingerprint
    /\ j.todo = i.todo /\ j.scope = i.scope /\ j.chunks = i.chunks
    /\ j.pending = i.pending /\ j.removed = i.removed
    /\ i.disturbed \subseteq j.disturbed

GoesOn(q) == job'[q] = job[q] \/ SameRun(job[q], job'[q])

\* q has to do with no other name than before.
NoMore(q) ==
    /\ \A n, r : Claims(job'[q], n, r) => Claims(job[q], n, r)
    /\ \A n : Ousts(job'[q], n) => Ousts(job[q], n)

LEMMA OpsDiffer ==
  ASSUME NEW j \in AnyJob
  PROVE  /\ j.op = "index" => j \in IndexJob
         /\ j.op = "registry" => j \in RegistryJob
         /\ j.op = "adopt" => j \in AdoptJob
         /\ j.op = "unregister" => j \in UnregisterJob
         /\ j.op = "idle" => j = Idle
BY DEF AnyJob, IndexJob, RegistryJob, AdoptJob, UnregisterJob, Idle

LEMMA SameRunFits ==
  ASSUME NEW i, NEW j, SameRun(i, j), Fits(i)
  PROVE  /\ Fits(j) /\ j.op = "index" /\ i.op = "index"
         /\ \A n, r : Claims(j, n, r) <=> Claims(i, n, r)
         /\ \A n : ~Ousts(j, n) /\ ~Ousts(i, n)
BY DEF SameRun, Fits, Claims, Ousts, IndexJob

\* One page more on which a run is disturbed, or several.
LEMMA DisturbedRun ==
  ASSUME NEW j \in IndexJob, NEW xs \in SUBSET Page
  PROVE  /\ SameRun(j, [j EXCEPT !.disturbed = @ \cup xs])
         /\ [j EXCEPT !.disturbed = @ \cup xs].disturbed = j.disturbed \cup xs
BY DEF SameRun, IndexJob

LEMMA DisturbDoes ==
  ASSUME Types, NEW p \in Proc, NEW n \in Name, NEW xs \in SUBSET Page, NEW next \in AnyJob, Fits(next),
         job' = [Disturb(p, n, xs) EXCEPT ![p] = next]
  PROVE  /\ job' \in [Proc -> AnyJob] /\ job'[p] = next
         /\ \A q \in Proc : Fits(job'[q])
         /\ \A q \in Proc \ {p} :
               /\ GoesOn(q)
               /\ job[q].op = "index" /\ job[q].wiki = n =>
                     \A x \in (xs \cap job[q].scope) \ job'[q].disturbed :
                        job[p].op = "index" /\ Agree(job[p], job[q], x)
<1> DEFINE more(q) == {x \in xs \cap job[q].scope : job[p].op # "index" \/ ~Agree(job[p], job[q], x)}
<1>1. /\ DOMAIN job' = Proc /\ job'[p] = next
      /\ \A q \in Proc \ {p} : job'[q] = IF job[q].op = "index" /\ job[q].wiki = n
                                        THEN [job[q] EXCEPT !.disturbed = @ \cup more(q)] ELSE job[q]
      /\ job' = [q \in Proc |-> job'[q]]
  BY DEF Disturb, Types
<1>2. ASSUME NEW q \in Proc \ {p}
      PROVE  /\ GoesOn(q) /\ job'[q] \in AnyJob /\ Fits(job'[q])
             /\ job[q].op = "index" /\ job[q].wiki = n =>
                   \A x \in (xs \cap job[q].scope) \ job'[q].disturbed :
                      job[p].op = "index" /\ Agree(job[p], job[q], x)
  <2>1. job[q] \in AnyJob /\ Fits(job[q])
    BY DEF Types
  <2>2. CASE job[q].op = "index" /\ job[q].wiki = n
    <3>1. more(q) \in SUBSET Page /\ job[q] \in IndexJob
      BY <2>1, <2>2, OpsDiffer
    <3>2. job'[q] = [job[q] EXCEPT !.disturbed = @ \cup more(q)]
      BY <1>1, <2>2
    <3>3. \A x \in (xs \cap job[q].scope) \ more(q) : job[p].op = "index" /\ Agree(job[p], job[q], x)
      OBVIOUS
    <3> HIDE DEF more
    <3>4. SameRun(job[q], job'[q]) /\ job'[q].disturbed = job[q].disturbed \cup more(q)
      BY <3>1, <3>2, DisturbedRun
    <3>5. job'[q] \in AnyJob
      BY <3>4 DEF SameRun, AnyJob
    <3> QED BY <2>1, <3>3, <3>4, <3>5, SameRunFits DEF GoesOn
  <2>3. CASE ~(job[q].op = "index" /\ job[q].wiki = n)
    <3>1. job'[q] = job[q]
      BY <1>1, <2>3
    <3> QED BY <2>1, <2>3, <3>1 DEF GoesOn
  <2> QED BY <2>2, <2>3
<1>3. job' \in [Proc -> AnyJob]
  <2>1. \A q \in Proc : job'[q] \in AnyJob
    BY <1>1, <1>2
  <2> QED BY <1>1, <2>1
<1> QED BY <1>1, <1>2, <1>3

\* p does next; whatever else there is goes on.
JobBecomes(p, next) ==
    /\ job' \in [Proc -> AnyJob] /\ job'[p] = next
    /\ \A q \in Proc : Fits(job'[q])
    /\ \A q \in Proc \ {p} : GoesOn(q)

LEMMA OneJob ==
  ASSUME Types, NEW p \in Proc, NEW next \in AnyJob, Fits(next), job' = [job EXCEPT ![p] = next]
  PROVE  JobBecomes(p, next) /\ \A q \in Proc \ {p} : job'[q] = job[q]
<1>1. /\ job' \in [Proc -> AnyJob] /\ job'[p] = next
      /\ \A q \in Proc \ {p} : job'[q] = job[q]
  BY DEF Types
<1>2. \A q \in Proc : Fits(job'[q])
  BY <1>1 DEF Types
<1> QED BY <1>1, <1>2 DEF JobBecomes, GoesOn

LEMMA RewritingFits ==
  ASSUME Types, NEW written, WellFormed(written), Carries(registry, written), NEW todo \in SUBSET Root
  PROVE  /\ Rewriting(written, todo) \in RegistryJob /\ Rewriting(written, todo) \in AnyJob
         /\ Fits(Rewriting(written, todo))
BY DEF Types, Rewriting, RegistryJob, AnyJob, Fits, WellFormed

LEMMA AdoptingFits ==
  ASSUME NEW todo \in SUBSET Root
  PROVE  /\ Adopting(todo) \in AnyJob /\ Fits(Adopting(todo))
         /\ \A n, r : ~Claims(Adopting(todo), n, r)
         /\ \A n : ~Ousts(Adopting(todo), n)
<1>1. CASE todo = {}
  BY <1>1 DEF Adopting, Idle, AnyJob, Fits, Claims, Ousts
<1>2. CASE todo # {}
  BY <1>2 DEF Adopting, AdoptJob, AnyJob, Fits, Claims, Ousts
<1> QED BY <1>1, <1>2

LEMMA RunFits ==
  ASSUME NEW e \in Entry, NEW scope \in SUBSET Page, NEW f \in Preset, NEW todo \in SUBSET Entry,
         NEW j, j = Run(e, scope, f, todo)
  PROVE  /\ j \in IndexJob /\ j \in AnyJob /\ Fits(j) /\ j.op = "index" /\ j.step = "scan"
         /\ \A n, r : Claims(j, n, r) => Lists(todo \cup {e}, n, r)
         /\ \A n : ~Ousts(j, n)
<1> DEFINE none == [x \in {} |-> Absent]
<1>1. none \in [{} -> Content] /\ DOMAIN none = {}
  OBVIOUS
<1>2. none \in Chunks
  BY <1>1 DEF Chunks
<1> HIDE DEF none
<1>3. j = [op |-> "index", step |-> "scan", wiki |-> e.name, root |-> e.root, fingerprint |-> f, todo |-> todo,
           scope |-> scope, chunks |-> none, pending |-> {}, removed |-> {}, disturbed |-> {}]
  BY DEF Run, none
<1>4. j \in IndexJob
  BY <1>2, <1>3 DEF IndexJob, Entry, Steps
<1>5. Fits(j)
  BY <1>1, <1>3 DEF Fits
<1>6. j.op = "index" /\ j.step = "scan" /\ j.wiki = e.name /\ j.root = e.root /\ j.todo = todo
  BY <1>3
<1>7. ASSUME NEW n, NEW r PROVE Claims(j, n, r) => Lists(todo \cup {e}, n, r)
  BY <1>6 DEF Claims, Lists
<1>8. ASSUME NEW n PROVE ~Ousts(j, n)
  BY <1>6 DEF Ousts
<1>9. j \in AnyJob
  BY <1>4 DEF AnyJob
<1> QED BY <1>4, <1>5, <1>6, <1>7, <1>8, <1>9

LEMMA AfterFits ==
  ASSUME Types, NEW j \in IndexJob, NEW next \in After(j)
  PROVE  /\ next \in AnyJob /\ Fits(next)
         /\ next.op = "index" => next.step = "scan"
         /\ next.op \in {"idle", "index"}
         /\ \A n, r : Claims(next, n, r) => Claims(j, n, r)
         /\ \A n : ~Ousts(next, n)
<1>1. CASE next = Idle
  BY <1>1 DEF Idle, AnyJob, Fits, Claims, Ousts
<1>2. CASE next # Idle
  <2>1. PICK e \in j.todo : next = Run(e, Page, j.fingerprint, j.todo \ {e})
    BY <1>2 DEF After
  <2>2. /\ j.todo \in SUBSET Entry /\ j.fingerprint \in Preset /\ j.op = "index"
        /\ e \in Entry /\ j.todo \ {e} \in SUBSET Entry /\ Page \in SUBSET Page
    BY DEF IndexJob
  <2> DEFINE rest == j.todo \ {e}
  <2>3. /\ next \in IndexJob /\ next \in AnyJob /\ Fits(next) /\ next.step = "scan"
        /\ \A n, r : Claims(next, n, r) => Lists(rest \cup {e}, n, r)
        /\ \A n : ~Ousts(next, n)
    <3>1. rest \in SUBSET Entry /\ next = Run(e, Page, j.fingerprint, rest)
      BY <2>1, <2>2
    <3>2. e \in Entry /\ j.fingerprint \in Preset /\ Page \in SUBSET Page
      BY <2>2
    <3> HIDE DEF rest
    <3>3. next \in IndexJob /\ next \in AnyJob /\ Fits(next)
      BY <3>1, <3>2, RunFits
    <3>4. next.step = "scan"
      BY <3>1, <3>2, RunFits
    <3>5. \A n : ~Ousts(next, n)
      BY <3>1, <3>2, RunFits
    <3>6. \A n, r : Claims(next, n, r) => Lists(rest \cup {e}, n, r)
      BY <3>1, <3>2, RunFits
    <3> QED BY <3>3, <3>4, <3>5, <3>6
  <2>4. next.op = "index"
    BY <2>3 DEF IndexJob
  <2>5. \A n, r : Claims(next, n, r) => Claims(j, n, r)
    BY <2>2, <2>3 DEF Claims, Lists
  <2> QED BY <2>3, <2>4, <2>5
<1> QED BY <1>1, <1>2

LEMMA FingerprintIsPreset ==
  ASSUME Types
  PROVE  Fingerprint \in Preset
BY IndexIsConfigured DEF Types, Fingerprint, NotChosen

LEMMA RowsFit ==
  ASSUME Types, NEW j \in IndexJob, Fits(j), NEW x \in j.pending
  PROVE  Embedded(j, x) \in Row
<1>1. x \in DOMAIN j.chunks /\ Active(j.chunks[x])
  BY DEF Fits, IndexJob
<1>2. j.chunks[x] \in Content
  BY <1>1 DEF IndexJob, Chunks
<1>3. j.chunks[x] # Absent
  BY <1>1 DEF Active, Absent
<1>4. j.chunks[x] \in [text : Nat \ {0}, status : STRING]
  BY <1>2, <1>3, IndexIsConfigured
<1> QED BY <1>1, <1>4 DEF Embedded, Row, Active, IndexJob

\* One registration too many for a name, or for a root, is one.
LEMMA EntriesFit ==
  ASSUME Types, NEW e \in registry
  PROVE  e \in Entry /\ e.name \in Name /\ e.root \in Root
BY DEF Types, WellFormed, Entry

\* What each kind of step makes of the jobs.
LEMMA EditDoes ==
  ASSUME Types, NEW r \in Root, NEW x \in Page, NEW c \in Content, Edit(r, x, c)
  PROVE  /\ job' \in [Proc -> AnyJob]
         /\ \A q \in Proc : Fits(job'[q]) /\ GoesOn(q)
         /\ \A q \in Proc : job'[q].op = "index" /\ job'[q].root = r /\ x \in job'[q].scope => x \in job'[q].disturbed
<1>1. ASSUME NEW q \in Proc
      PROVE  /\ job'[q] \in AnyJob /\ Fits(job'[q]) /\ GoesOn(q)
             /\ job'[q].op = "index" /\ job'[q].root = r /\ x \in job'[q].scope => x \in job'[q].disturbed
  <2>1. job[q] \in AnyJob /\ Fits(job[q])
    BY DEF Types
  <2>2. CASE job[q].op = "index" /\ job[q].root = r /\ x \in job[q].scope
    <3>1. job[q] \in IndexJob /\ {x} \in SUBSET Page
      BY <2>1, <2>2, OpsDiffer
    <3>2. job'[q] = [job[q] EXCEPT !.disturbed = @ \cup {x}]
      BY <2>2 DEF Edit
    <3>3. SameRun(job[q], job'[q]) /\ job'[q].disturbed = job[q].disturbed \cup {x}
      BY <3>1, <3>2, DisturbedRun
    <3>4. job'[q] \in AnyJob
      BY <3>3 DEF SameRun, AnyJob
    <3> QED BY <2>1, <3>3, <3>4, SameRunFits DEF GoesOn
  <2>3. CASE ~(job[q].op = "index" /\ job[q].root = r /\ x \in job[q].scope)
    <3>1. job'[q] = job[q]
      BY <2>3 DEF Edit
    <3> QED BY <2>1, <2>3, <3>1 DEF GoesOn
  <2> QED BY <2>2, <2>3
<1>2. job' \in [Proc -> AnyJob]
  <2>1. job' = [q \in Proc |-> job'[q]]
    BY DEF Edit
  <2> QED BY <1>1, <2>1
<1> QED BY <1>1, <1>2

LEMMA ResetDoes ==
  ASSUME Types, ResetStore
  PROVE  /\ job' \in [Proc -> AnyJob]
         /\ \A q \in Proc : /\ Fits(job'[q])
                            /\ job'[q].op = "index" => job'[q].disturbed = job'[q].scope
                            /\ NoMore(q)
<1>1. ASSUME NEW q \in Proc
      PROVE  /\ job'[q] \in AnyJob /\ Fits(job'[q])
             /\ job'[q].op = "index" => job'[q].disturbed = job'[q].scope
             /\ NoMore(q)
  <2>1. job[q] \in AnyJob /\ Fits(job[q])
    BY DEF Types
  <2>2. CASE job[q].op = "index"
    <3>1. job[q] \in IndexJob
      BY <2>1, <2>2, OpsDiffer
    <3>2. job'[q] = [job[q] EXCEPT !.disturbed = job[q].scope]
      BY <2>2 DEF ResetStore
    <3>3. /\ job'[q] \in IndexJob /\ job'[q].op = job[q].op /\ job'[q].wiki = job[q].wiki /\ job'[q].root = job[q].root
          /\ job'[q].todo = job[q].todo /\ job'[q].scope = job[q].scope /\ job'[q].chunks = job[q].chunks
          /\ job'[q].pending = job[q].pending /\ job'[q].removed = job[q].removed
          /\ job'[q].disturbed = job[q].scope
      BY <3>1, <3>2 DEF IndexJob
    <3>4. Fits(job'[q])
      BY <2>1, <2>2, <3>3 DEF Fits
    <3>5. job'[q] \in AnyJob
      BY <3>3 DEF AnyJob
    <3>6. \A n, r : Claims(job'[q], n, r) => Claims(job[q], n, r)
      BY <3>3 DEF Claims
    <3>7. \A n : Ousts(job'[q], n) => Ousts(job[q], n)
      BY <2>2, <3>3 DEF Ousts
    <3> QED BY <3>3, <3>4, <3>5, <3>6, <3>7 DEF NoMore
  <2>3. CASE job[q].op # "index"
    <3>1. job'[q] = job[q]
      BY <2>3 DEF ResetStore
    <3> QED BY <2>1, <2>3, <3>1 DEF NoMore
  <2> QED BY <2>2, <2>3
<1>2. job' \in [Proc -> AnyJob]
  <2>1. job' = [q \in Proc |-> job'[q]]
    BY DEF ResetStore
  <2> QED BY <1>1, <2>1
<1> QED BY <1>1, <1>2

\* The registry that p will write is one that follows from what it has read.
LEMMA ReadRegistryDoes ==
  ASSUME Types, NEW p \in Proc, NEW written, WellFormed(written), Carries(registry, written),
         \A e \in registry : \E d \in written : d.name = e.name, ReadRegistry(p, written)
  PROVE  /\ JobBecomes(p, Rewriting(written, {}))
         /\ NoMore(p)
<1>1. Rewriting(written, {}) \in AnyJob /\ Fits(Rewriting(written, {}))
  BY RewritingFits
<1>2. job' = [job EXCEPT ![p] = Rewriting(written, {})]
  BY DEF ReadRegistry
<1>3. JobBecomes(p, Rewriting(written, {}))
  <2> DEFINE next == Rewriting(written, {})
  <2>1. next \in AnyJob /\ Fits(next) /\ job' = [job EXCEPT ![p] = next]
    BY <1>1, <1>2
  <2> HIDE DEF next
  <2>2. JobBecomes(p, next)
    BY <2>1, OneJob
  <2> QED BY <2>2 DEF next
<1>4. job'[p] = Rewriting(written, {})
  BY <1>3 DEF JobBecomes
<1>5. job'[p].op = "registry" /\ job'[p].seen = registry /\ job'[p].written = written
  BY <1>4 DEF Rewriting
<1>6. \A n, r : ~Claims(job'[p], n, r)
  BY <1>5 DEF Claims
<1>7. \A n : ~Ousts(job'[p], n)
  BY <1>5 DEF Ousts
<1> QED BY <1>3, <1>6, <1>7 DEF NoMore

LEMMA GoesOnAsBefore ==
  ASSUME Types, NEW q \in Proc, GoesOn(q)
  PROVE  NoMore(q)
<1>1. CASE job'[q] = job[q]
  BY <1>1 DEF NoMore
<1>2. CASE SameRun(job[q], job'[q])
  <2>1. Fits(job[q])
    BY DEF Types
  <2>2. \A n, r : Claims(job'[q], n, r) <=> Claims(job[q], n, r)
    BY <1>2, <2>1, SameRunFits
  <2>3. \A n : ~Ousts(job'[q], n)
    BY <1>2, <2>1, SameRunFits
  <2> QED BY <2>2, <2>3 DEF NoMore
<1> QED BY <1>1, <1>2 DEF GoesOn

LEMMA DiscoverDoes ==
  ASSUME Types, NEW p \in Proc, Discover(p)
  PROVE  JobBecomes(p, Adopting(Discovered(registry))) /\ NoMore(p)
<1> DEFINE todo == Discovered(registry)
<1>1. todo \in SUBSET Root /\ job' = [job EXCEPT ![p] = Adopting(todo)]
  BY DEF Discovered, Discover
<1> HIDE DEF todo
<1>2. Adopting(todo) \in AnyJob /\ Fits(Adopting(todo))
  BY <1>1, AdoptingFits
<1>3. JobBecomes(p, Adopting(todo))
  BY <1>1, <1>2, OneJob
<1>4. job'[p] = Adopting(todo)
  BY <1>3 DEF JobBecomes
<1>5. \A n, r : ~Claims(job'[p], n, r)
  BY <1>1, <1>4, AdoptingFits
<1>6. \A n : ~Ousts(job'[p], n)
  BY <1>1, <1>4, AdoptingFits
<1>7. NoMore(p)
  BY <1>5, <1>6 DEF NoMore
<1> QED BY <1>3, <1>7 DEF todo

LEMMA AdoptDoes ==
  ASSUME Types, NEW p \in Proc, NEW r \in Root, Adopt(p, r)
  PROVE  job' \in [Proc -> AnyJob] /\ (\A q \in Proc : Fits(job'[q]) /\ (q # p => GoesOn(q))) /\ NoMore(p)
         /\ job'[p].op # "index"
<1> DEFINE rest == job[p].todo \ {r}
<1>1. rest \in SUBSET Root /\ WellFormed(registry)
  <2>1. job[p] \in AnyJob /\ job[p].op = "adopt"
    BY DEF Types, Adopt
  <2>2. job[p] \in AdoptJob
    BY <2>1, OpsDiffer
  <2> QED BY <2>2 DEF AdoptJob, Types
<1>2. \/ job' = [job EXCEPT ![p] = Adopting(rest)]
      \/ job' = [job EXCEPT ![p] = Rewriting(Registered(registry, r), rest)]
  BY DEF Adopt
<1> HIDE DEF rest
<1>3. CASE job' = [job EXCEPT ![p] = Adopting(rest)]
  <2>1. Adopting(rest) \in AnyJob /\ Fits(Adopting(rest)) /\ Adopting(rest).op # "index"
    BY <1>1, AdoptingFits DEF Adopting, Idle
  <2>2. JobBecomes(p, Adopting(rest))
    BY <1>3, <2>1, OneJob
  <2>3. job'[p] = Adopting(rest)
    BY <2>2 DEF JobBecomes
  <2>4. \A n, k : ~Claims(job'[p], n, k)
    BY <1>1, <2>3, AdoptingFits
  <2>5. \A n : ~Ousts(job'[p], n)
    BY <1>1, <2>3, AdoptingFits
  <2>6. NoMore(p)
    BY <2>4, <2>5 DEF NoMore
  <2> QED BY <2>1, <2>2, <2>3, <2>6 DEF JobBecomes
<1>4. CASE job' = [job EXCEPT ![p] = Rewriting(Registered(registry, r), rest)]
  <2> DEFINE next == Rewriting(Registered(registry, r), rest)
  <2>1. next \in AnyJob /\ Fits(next)
    BY <1>1, RegisteredFits, RewritingFits
  <2>2. next.op = "registry" /\ next.seen = registry /\ next.written = Registered(registry, r)
    BY DEF Rewriting
  <2>3. job' = [job EXCEPT ![p] = next]
    BY <1>4
  <2> HIDE DEF next
  <2>4. JobBecomes(p, next)
    BY <2>1, <2>3, OneJob
  <2>5. job'[p] = next
    BY <2>4 DEF JobBecomes
  <2>6. \A n, k : ~Claims(job'[p], n, k)
    BY <2>2, <2>5 DEF Claims
  <2>7. registry \subseteq Registered(registry, r)
    BY <1>1, RegisteredFits
  <2>8. \A n : ~Ousts(job'[p], n)
    BY <2>2, <2>5, <2>7 DEF Ousts
  <2>9. NoMore(p)
    BY <2>6, <2>8 DEF NoMore
  <2> QED BY <2>2, <2>4, <2>5, <2>9 DEF JobBecomes
<1> QED BY <1>2, <1>3, <1>4

LEMMA WriteRegistryDoes ==
  ASSUME Types, NEW p \in Proc, WriteRegistry(p)
  PROVE  /\ JobBecomes(p, Adopting(job[p].todo)) /\ \A q \in Proc \ {p} : job'[q] = job[q]
         /\ \A n, r : ~Claims(job'[p], n, r)
         /\ \A n : ~Ousts(job'[p], n)
         /\ job[p] \in RegistryJob /\ Fits(job[p])
<1>1. job[p] \in RegistryJob /\ Fits(job[p])
  <2>1. job[p] \in AnyJob /\ job[p].op = "registry"
    BY DEF Types, WriteRegistry
  <2> QED BY <2>1, OpsDiffer DEF Types
<1> DEFINE todo == job[p].todo
<1>2. todo \in SUBSET Root /\ job' = [job EXCEPT ![p] = Adopting(todo)]
  BY <1>1 DEF RegistryJob, WriteRegistry
<1> HIDE DEF todo
<1>3. Adopting(todo) \in AnyJob /\ Fits(Adopting(todo))
  BY <1>2, AdoptingFits
<1>4. JobBecomes(p, Adopting(todo)) /\ \A q \in Proc \ {p} : job'[q] = job[q]
  BY <1>2, <1>3, OneJob
<1>5. job'[p] = Adopting(todo)
  BY <1>4 DEF JobBecomes
<1>6. \A n, r : ~Claims(job'[p], n, r)
  BY <1>2, <1>5, AdoptingFits
<1>7. \A n : ~Ousts(job'[p], n)
  BY <1>2, <1>5, AdoptingFits
<1> QED BY <1>1, <1>4, <1>6, <1>7 DEF todo

LEMMA RemoveDoes ==
  ASSUME Types, NEW p \in Proc, NEW n \in Name, Remove(p, n)
  PROVE  /\ JobBecomes(p, [op |-> "unregister", wiki |-> n])
         /\ \A m, r : ~Claims(job'[p], m, r)
         /\ \A m : Ousts(job'[p], m) => m = n
         /\ \A q \in Proc \ {p} : job[q].op = "index" /\ job[q].wiki = n => job[q].scope \subseteq job'[q].disturbed
<1> DEFINE next == [op |-> "unregister", wiki |-> n]
<1>1. next \in AnyJob /\ Fits(next) /\ next.op = "unregister" /\ next.wiki = n
  BY DEF AnyJob, UnregisterJob, Fits
<1>2. job' = [Disturb(p, n, Page) EXCEPT ![p] = next] /\ Page \in SUBSET Page
  BY DEF Remove
<1> HIDE DEF next
<1>3. JobBecomes(p, next)
  BY <1>1, <1>2, DisturbDoes DEF JobBecomes
<1>4. job'[p] = next /\ job[p].op # "index"
  BY <1>3 DEF JobBecomes, Remove, Idle
<1>5. ASSUME NEW q \in Proc \ {p}, job[q].op = "index", job[q].wiki = n
      PROVE  job[q].scope \subseteq job'[q].disturbed
  <2>1. \A x \in (Page \cap job[q].scope) \ job'[q].disturbed : job[p].op = "index"
    BY <1>1, <1>2, <1>5, DisturbDoes, ZenonT(60)
  <2>2. job[q].scope \in SUBSET Page
    BY <1>5, OpsDiffer DEF Types, IndexJob
  <2> QED BY <1>4, <2>1, <2>2
<1>6. \A m, r : ~Claims(job'[p], m, r)
  BY <1>1, <1>4 DEF Claims
<1>7. \A m : Ousts(job'[p], m) => m = n
  BY <1>1, <1>4 DEF Ousts
<1> QED BY <1>3, <1>5, <1>6, <1>7 DEF next

LEMMA UnregisterDoes ==
  ASSUME Types, NEW p \in Proc, Unregister(p)
  PROVE  JobBecomes(p, Rewriting(Unregistered(registry, job[p].wiki), {})) /\ NoMore(p)
         /\ job'[p].op = "registry"
<1> DEFINE written == Unregistered(registry, job[p].wiki)
           next == Rewriting(written, {})
<1>1. WellFormed(registry)
  BY DEF Types
<1>2. next \in AnyJob /\ Fits(next)
  BY <1>1, UnregisteredFits, RewritingFits
<1>3. next.op = "registry" /\ next.seen = registry /\ next.written = written
  BY DEF Rewriting
<1>4. job' = [job EXCEPT ![p] = next] /\ job[p].op = "unregister"
  BY DEF Unregister
<1>5. \A e \in registry : e.name # job[p].wiki => e \in written
  BY <1>1, UnregisteredFits
<1> HIDE DEF next, written
<1>6. JobBecomes(p, next)
  BY <1>2, <1>4, OneJob
<1>7. job'[p] = next
  BY <1>6 DEF JobBecomes
<1>8. \A n, r : ~Claims(job'[p], n, r)
  BY <1>3, <1>7 DEF Claims
<1>9. \A n : Ousts(job'[p], n) => Ousts(job[p], n)
  BY <1>3, <1>4, <1>5, <1>7 DEF Ousts
<1>10. NoMore(p)
  BY <1>8, <1>9 DEF NoMore
<1> QED BY <1>3, <1>6, <1>7, <1>10 DEF next, written

\* A run begins: it has to do with its wiki, and with those that come after it.
LEMMA BeginDoes ==
  ASSUME Types, NEW p \in Proc, NEW e \in registry, NEW scope \in SUBSET Page, NEW todo \in SUBSET registry,
         job' = [job EXCEPT ![p] = Run(e, scope, Fingerprint, todo)]
  PROVE  /\ job' \in [Proc -> AnyJob]
         /\ \A q \in Proc : Fits(job'[q])
         /\ \A q \in Proc \ {p} : job'[q] = job[q]
         /\ job'[p].op = "index" /\ job'[p].step = "scan"
         /\ \A n, r : Claims(job'[p], n, r) => Lists(todo \cup {e}, n, r)
         /\ \A n : ~Ousts(job'[p], n)
<1> DEFINE next == Run(e, scope, Fingerprint, todo)
<1>1. e \in Entry /\ todo \in SUBSET Entry /\ Fingerprint \in Preset
  BY FingerprintIsPreset DEF Types, WellFormed
<1>2. next = Run(e, scope, Fingerprint, todo) /\ job' = [job EXCEPT ![p] = next]
  OBVIOUS
<1> HIDE DEF next
<1>3. next \in AnyJob /\ Fits(next)
  BY <1>1, <1>2, RunFits
<1>4. next.op = "index" /\ next.step = "scan"
  <2>1. next \in IndexJob
    BY <1>1, <1>2, RunFits
  <2>2. next.step = "scan"
    BY <1>2 DEF Run
  <2> QED BY <2>1, <2>2 DEF IndexJob
<1>5. \A n, r : Claims(next, n, r) => Lists(todo \cup {e}, n, r)
  BY <1>1, <1>2, RunFits
<1>6. \A n : ~Ousts(next, n)
  BY <1>1, <1>2, RunFits
<1>7. JobBecomes(p, next) /\ \A q \in Proc \ {p} : job'[q] = job[q]
  BY <1>2, <1>3, OneJob
<1>8. job'[p] = next
  BY <1>7 DEF JobBecomes
<1> QED BY <1>4, <1>5, <1>6, <1>7, <1>8 DEF JobBecomes

LEMMA AbandonDoes ==
  ASSUME Types, NEW p \in Proc, Abandon(p)
  PROVE  /\ job' \in [Proc -> AnyJob]
         /\ \A q \in Proc : Fits(job'[q])
         /\ \A q \in Proc \ {p} : job'[q] = job[q]
         /\ job'[p].op = "index" => job'[p].step = "scan"
         /\ NoMore(p)
<1>1. PICK next \in {Idle} \cup IF job[p].op = "index" THEN After(job[p]) ELSE {} :
         job' = [job EXCEPT ![p] = next]
  BY DEF Abandon
<1>2. /\ next \in AnyJob /\ Fits(next)
      /\ next.op = "index" => next.step = "scan"
      /\ \A n, r : Claims(next, n, r) => Claims(job[p], n, r)
      /\ \A n : ~Ousts(next, n)
  <2>1. CASE next = Idle
    BY <2>1 DEF Idle, AnyJob, Fits, Claims, Ousts
  <2>2. CASE job[p].op = "index" /\ next \in After(job[p])
    <3>1. job[p] \in IndexJob
      BY <2>2, OpsDiffer DEF Types
    <3>2. next \in AnyJob /\ Fits(next)
      BY <2>2, <3>1, AfterFits
    <3>3. next.op = "index" => next.step = "scan"
      BY <2>2, <3>1, AfterFits
    <3>4. \A n, r : Claims(next, n, r) => Claims(job[p], n, r)
      BY <2>2, <3>1, AfterFits
    <3>5. \A n : ~Ousts(next, n)
      BY <2>2, <3>1, AfterFits
    <3> QED BY <3>2, <3>3, <3>4, <3>5
  <2> QED BY <1>1, <2>1, <2>2
<1>3. JobBecomes(p, next) /\ \A q \in Proc \ {p} : job'[q] = job[q]
  BY <1>1, <1>2, OneJob
<1>4. job'[p] = next
  BY <1>3 DEF JobBecomes
<1>5. NoMore(p)
  BY <1>2, <1>4 DEF NoMore
<1> QED BY <1>2, <1>3, <1>4, <1>5 DEF JobBecomes

\* The same run, at another step.
LEMMA NextStep ==
  ASSUME NEW j \in IndexJob, Fits(j), NEW s \in Steps, NEW k, k = [j EXCEPT !.step = s]
  PROVE  /\ k \in IndexJob /\ k \in AnyJob /\ Fits(k) /\ k.op = "index" /\ k.step = s
         /\ k.wiki = j.wiki /\ k.root = j.root /\ k.fingerprint = j.fingerprint /\ k.todo = j.todo
         /\ k.scope = j.scope /\ k.chunks = j.chunks /\ k.pending = j.pending /\ k.removed = j.removed
         /\ k.disturbed = j.disturbed
         /\ \A n, r : Claims(k, n, r) => Claims(j, n, r)
         /\ \A n : ~Ousts(k, n)
<1>1. /\ k \in IndexJob /\ k.step = s /\ k.wiki = j.wiki /\ k.root = j.root /\ k.fingerprint = j.fingerprint
      /\ k.todo = j.todo /\ k.scope = j.scope /\ k.chunks = j.chunks /\ k.pending = j.pending
      /\ k.removed = j.removed /\ k.disturbed = j.disturbed /\ k.op = "index" /\ j.op = "index"
  BY DEF IndexJob
<1>2. Fits(k)
  BY <1>1 DEF Fits
<1>3. \A n, r : Claims(k, n, r) => Claims(j, n, r)
  BY <1>1 DEF Claims
<1>4. \A n : ~Ousts(k, n)
  BY <1>1 DEF Ousts
<1> QED BY <1>1, <1>2, <1>3, <1>4 DEF AnyJob

\* What a run that goes on keeps of itself, whether it is disturbed or takes a step.
Onward(i, j) ==
    /\ i \in IndexJob /\ j \in IndexJob /\ i.op = "index" /\ j.op = "index"
    /\ j.wiki = i.wiki /\ j.root = i.root /\ j.fingerprint = i.fingerprint /\ j.scope = i.scope
    /\ j.chunks = i.chunks /\ j.pending = i.pending /\ j.removed = i.removed /\ j.disturbed = i.disturbed

\* Between two steps of a run it changes rows of its wiki only, which are xs.
Stores(p, xs, s) ==
    /\ JobBecomes(p, [job[p] EXCEPT !.step = s])
    /\ Onward(job[p], job'[p]) /\ job'[p].step = s
    /\ Fits(job[p])
    /\ NoMore(p)
    /\ \A q \in Proc \ {p} : job[q].op = "index" /\ job[q].wiki = job[p].wiki =>
          \A x \in (xs \cap job[q].scope) \ job'[q].disturbed : Agree(job[p], job[q], x)

LEMMA StoresSo ==
  ASSUME Types, NEW p \in Proc, NEW xs \in SUBSET Page, NEW s \in Steps, job[p].op = "index",
         job' = [Disturb(p, job[p].wiki, xs) EXCEPT ![p].step = s]
  PROVE  Stores(p, xs, s)
<1> DEFINE next == [job[p] EXCEPT !.step = s]
<1>1. job[p] \in IndexJob /\ Fits(job[p]) /\ job[p].wiki \in Name
  BY OpsDiffer DEF Types, IndexJob
<1>2. next = [job[p] EXCEPT !.step = s]
  OBVIOUS
<1>3. job' = [Disturb(p, job[p].wiki, xs) EXCEPT ![p] = next]
  <2>1. Disturb(p, job[p].wiki, xs)[p] = job[p]
    BY DEF Disturb
  <2> QED BY <2>1
<1> HIDE DEF next
<1>4. next \in AnyJob /\ Fits(next)
  BY <1>1, <1>2, NextStep
<1>5. /\ next \in IndexJob /\ next.op = "index" /\ next.step = s
      /\ next.wiki = job[p].wiki /\ next.root = job[p].root /\ next.fingerprint = job[p].fingerprint
      /\ next.scope = job[p].scope /\ next.chunks = job[p].chunks
      /\ next.pending = job[p].pending /\ next.removed = job[p].removed /\ next.disturbed = job[p].disturbed
  BY <1>1, <1>2, NextStep
<1>6. JobBecomes(p, next)
  BY <1>1, <1>3, <1>4, DisturbDoes DEF JobBecomes
<1>7. job'[p] = next
  BY <1>6 DEF JobBecomes
<1>8. \A n, r : Claims(next, n, r) => Claims(job[p], n, r)
  BY <1>1, <1>2, NextStep
<1>9. \A n : ~Ousts(next, n)
  BY <1>1, <1>2, NextStep
<1>10. NoMore(p)
  BY <1>7, <1>8, <1>9 DEF NoMore
<1>11. ASSUME NEW q \in Proc \ {p}, job[q].op = "index", job[q].wiki = job[p].wiki,
              NEW x \in (xs \cap job[q].scope) \ job'[q].disturbed
       PROVE  Agree(job[p], job[q], x)
  BY <1>1, <1>3, <1>4, <1>11, DisturbDoes
<1>12. Onward(job[p], job'[p])
  BY <1>1, <1>5, <1>7 DEF Onward
<1> QED BY <1>1, <1>2, <1>5, <1>6, <1>7, <1>10, <1>11, <1>12 DEF Stores

LEMMA PruneDoes ==
  ASSUME Types, NEW p \in Proc, Prune(p)
  PROVE  /\ job[p].op = "index" /\ job[p].step = "prune" /\ Stores(p, job[p].removed, "embed")
         /\ rows' = [rows EXCEPT ![job[p].wiki] =
                        [x \in Page |-> IF x \in job[p].removed THEN NoRow ELSE rows[job[p].wiki][x]]]
<1>1. job[p].op = "index" /\ job[p].step = "prune"
  BY DEF Prune
<1>2. job[p].removed \in SUBSET Page
  BY <1>1, OpsDiffer DEF Types, IndexJob
<1>3. job' = [Disturb(p, job[p].wiki, job[p].removed) EXCEPT ![p].step = "embed"]
  BY DEF Prune
<1>4. Stores(p, job[p].removed, "embed")
  BY <1>1, <1>2, <1>3, StoresSo DEF Steps
<1> QED BY <1>1, <1>4 DEF Prune

LEMMA UpsertDoes ==
  ASSUME Types, NEW p \in Proc, Upsert(p)
  PROVE  /\ job[p].op = "index" /\ job[p].step = "embed" /\ Stores(p, job[p].pending, "finish")
         /\ rows' = [rows EXCEPT ![job[p].wiki] =
               [x \in Page |-> IF x \in job[p].pending THEN Embedded(job[p], x) ELSE rows[job[p].wiki][x]]]
<1>1. job[p].op = "index" /\ job[p].step = "embed"
  BY DEF Upsert
<1>2. job[p].pending \in SUBSET Page
  BY <1>1, OpsDiffer DEF Types, IndexJob
<1>3. job' = [Disturb(p, job[p].wiki, job[p].pending) EXCEPT ![p].step = "finish"]
  BY DEF Upsert
<1>4. Stores(p, job[p].pending, "finish")
  BY <1>1, <1>2, <1>3, StoresSo DEF Steps
<1> QED BY <1>1, <1>4 DEF Upsert

\* What a run has read, once it has.
Read(j, k) ==
    LET xs == {x \in j.scope : Active(pages[j.root][x])}
    IN  /\ k.chunks = [x \in xs |-> pages[j.root][x]]
        /\ k.pending = {x \in xs : ~UnchangedRow(j, x)}
        /\ k.removed = {x \in j.scope \ xs : rows[j.wiki][x].fingerprint = j.fingerprint}
        /\ k.disturbed = {}

LEMMA ScanDoes ==
  ASSUME Types, NEW p \in Proc, Scan(p)
  PROVE  /\ job' \in [Proc -> AnyJob]
         /\ \A q \in Proc : Fits(job'[q])
         /\ \A q \in Proc \ {p} : job'[q] = job[q]
         /\ NoMore(p)
         /\ job[p] \in IndexJob /\ job'[p] \in IndexJob
         /\ job'[p].step = "prune" /\ job'[p].wiki = job[p].wiki /\ job'[p].root = job[p].root
         /\ job'[p].fingerprint = job[p].fingerprint /\ job'[p].scope = job[p].scope
         /\ Read(job[p], job'[p])
<1> DEFINE j == job[p]
           xs == {x \in j.scope : Active(pages[j.root][x])}
           chunks == [x \in xs |-> pages[j.root][x]]
           pending == {x \in xs : ~UnchangedRow(j, x)}
           removed == {x \in j.scope \ xs : rows[j.wiki][x].fingerprint = j.fingerprint}
           k == [j EXCEPT !.step = "prune", !.disturbed = {}, !.chunks = chunks, !.pending = pending,
                          !.removed = removed]
<1>1. job' = [job EXCEPT ![p] = k] /\ j.op = "index"
  BY DEF Scan
<1>2. j \in IndexJob
  BY <1>1, OpsDiffer DEF Types
<1>3. j.scope \in SUBSET Page /\ j.root \in Root
  BY <1>2 DEF IndexJob
<1>4. xs \in SUBSET Page /\ xs \subseteq j.scope /\ \A x \in xs : pages[j.root][x] \in Content
  BY <1>3 DEF Types
<1>5. chunks \in [xs -> Content] /\ DOMAIN chunks = xs /\ \A x \in xs : Active(chunks[x])
  BY <1>4
<1>6. chunks \in Chunks
  <2> HIDE DEF xs, chunks
  <2> QED BY <1>4, <1>5 DEF Chunks
<1>7. pending \in SUBSET Page /\ pending \subseteq xs /\ removed \in SUBSET Page /\ removed \subseteq j.scope \ xs
  BY <1>3, <1>4
<1>8. \A x : x \in xs <=> x \in j.scope /\ Active(pages[j.root][x])
  OBVIOUS
<1>9. Read(j, [chunks |-> chunks, pending |-> pending, removed |-> removed, disturbed |-> {}])
  BY DEF Read
<1>10. k = [j EXCEPT !.step = "prune", !.disturbed = {}, !.chunks = chunks, !.pending = pending, !.removed = removed]
  OBVIOUS
<1> HIDE DEF xs, chunks, pending, removed, k
<1>11. /\ k \in IndexJob /\ k.op = "index" /\ k.step = "prune" /\ k.wiki = j.wiki /\ k.root = j.root
       /\ k.fingerprint = j.fingerprint /\ k.scope = j.scope /\ k.todo = j.todo
       /\ k.chunks = chunks /\ k.pending = pending /\ k.removed = removed /\ k.disturbed = {}
  <2> HIDE DEF j
  <2> QED BY <1>2, <1>6, <1>7, <1>10 DEF IndexJob, Steps
<1>12. Fits(k)
  BY <1>4, <1>5, <1>7, <1>11 DEF Fits
<1>13. k \in AnyJob
  BY <1>11 DEF AnyJob
<1>14. JobBecomes(p, k) /\ \A q \in Proc \ {p} : job'[q] = job[q]
  BY <1>1, <1>12, <1>13, OneJob
<1>15. job'[p] = k
  BY <1>14 DEF JobBecomes
<1>16. \A n, r : Claims(k, n, r) => Claims(j, n, r)
  BY <1>1, <1>11 DEF Claims
<1>17. \A n : ~Ousts(k, n)
  BY <1>11 DEF Ousts
<1>18. NoMore(p)
  BY <1>15, <1>16, <1>17 DEF NoMore
<1>19. Read(j, k)
  BY <1>9, <1>11 DEF Read
<1> QED BY <1>2, <1>11, <1>14, <1>15, <1>18, <1>19 DEF JobBecomes

\* The rows that the end of run j removes.
Gone(j) == {x \in Page : Purged(j)[x] # rows[j.wiki][x]}

LEMMA FinishDoes ==
  ASSUME Types, NEW p \in Proc, Finish(p)
  PROVE  /\ job[p] \in IndexJob /\ Fits(job[p]) /\ job[p].step = "finish"
         /\ job' \in [Proc -> AnyJob]
         /\ \A q \in Proc : Fits(job'[q])
         /\ \A q \in Proc \ {p} :
               /\ GoesOn(q)
               /\ job[q].op = "index" /\ job[q].wiki = job[p].wiki =>
                     \A x \in (Gone(job[p]) \cap job[q].scope) \ job'[q].disturbed : Agree(job[p], job[q], x)
         /\ job'[p].op = "index" => job'[p].step = "scan"
         /\ NoMore(p)
         /\ rows' = [rows EXCEPT ![job[p].wiki] = Purged(job[p])]
         /\ exact' = {e \in exact : e[1] # job[p].wiki \/ e[4] \notin Gone(job[p])}
                        \cup {<<job[p].wiki, job[p].root, job[p].fingerprint, x, job[p].scope = Page>> :
                                 x \in job[p].scope \ job[p].disturbed}
<1>1. job[p] \in IndexJob /\ Fits(job[p]) /\ job[p].step = "finish" /\ job[p].wiki \in Name
  BY OpsDiffer DEF Types, Finish, IndexJob
<1>2. Gone(job[p]) \in SUBSET Page
  BY DEF Gone
<1>3. PICK next \in After(job[p]) : job' = [Disturb(p, job[p].wiki, Gone(job[p])) EXCEPT ![p] = next]
  BY DEF Finish, Gone
<1>4. next \in AnyJob /\ Fits(next)
  BY <1>1, AfterFits
<1>5. next.op = "index" => next.step = "scan"
  BY <1>1, AfterFits
<1>6. \A n, r : Claims(next, n, r) => Claims(job[p], n, r)
  BY <1>1, AfterFits
<1>7. \A n : ~Ousts(next, n)
  BY <1>1, AfterFits
<1>8. job' \in [Proc -> AnyJob] /\ job'[p] = next /\ \A q \in Proc : Fits(job'[q])
  BY <1>1, <1>2, <1>3, <1>4, DisturbDoes
<1>9. ASSUME NEW q \in Proc \ {p} PROVE GoesOn(q)
  BY <1>1, <1>2, <1>3, <1>4, DisturbDoes
<1>10. ASSUME NEW q \in Proc \ {p}, job[q].op = "index", job[q].wiki = job[p].wiki,
              NEW x \in (Gone(job[p]) \cap job[q].scope) \ job'[q].disturbed
       PROVE  Agree(job[p], job[q], x)
  BY <1>1, <1>2, <1>3, <1>4, <1>10, DisturbDoes
<1>11. NoMore(p)
  BY <1>6, <1>7, <1>8 DEF NoMore
<1>12. /\ rows' = [rows EXCEPT ![job[p].wiki] = Purged(job[p])]
       /\ exact' = {e \in exact : e[1] # job[p].wiki \/ e[4] \notin Gone(job[p])}
                      \cup {<<job[p].wiki, job[p].root, job[p].fingerprint, x, job[p].scope = Page>> :
                               x \in job[p].scope \ job[p].disturbed}
  BY DEF Finish, Gone
<1> QED BY <1>1, <1>5, <1>8, <1>9, <1>10, <1>11, <1>12

\* The steps there are, one by one, with what the registry a session writes follows from.
StepOf(p) ==
    \/ \E written : /\ ReadRegistry(p, written) /\ WellFormed(written) /\ Carries(registry, written)
                    /\ \A e \in registry : \E d \in written : d.name = e.name
    \/ WriteRegistry(p) \/ Discover(p) \/ Unregister(p) \/ \E r \in Root : Adopt(p, r)
    \/ \E n \in Name : Remove(p, n)
    \/ \E e \in registry, todo \in SUBSET registry : Rebuild(p, e, todo)
    \/ \E e \in registry, scope \in SUBSET Page : Reindex(p, e, scope)
    \/ Scan(p) \/ Prune(p) \/ Upsert(p) \/ Finish(p) \/ Abandon(p)

LEMMA StepIsAnAction ==
  ASSUME Types, Next
  PROVE  \/ \E r \in Root, x \in Page, c \in Content : Edit(r, x, c)
         \/ \E f \in Preset : ChooseModel(f)
         \/ ResetStore
         \/ \E p \in Proc : StepOf(p)
<1>1. WellFormed(registry)
  BY DEF Types
<1>2. ASSUME NEW p \in Proc, NEW r \in Discovered(registry), ReadRegistry(p, Registered(registry, r))
      PROVE  StepOf(p)
  <2>1. r \in Root
    BY DEF Discovered
  <2>2. /\ WellFormed(Registered(registry, r)) /\ Carries(registry, Registered(registry, r))
        /\ registry \subseteq Registered(registry, r)
    BY <1>1, <2>1, RegisteredFits
  <2> QED BY <1>2, <2>2 DEF StepOf
<1>3. ASSUME NEW p \in Proc, NEW n \in Name, NEW on \in BOOLEAN, ReadRegistry(p, Enabled(registry, n, on))
      PROVE  StepOf(p)
  <2>1. WellFormed(Enabled(registry, n, on)) /\ Carries(registry, Enabled(registry, n, on))
    BY <1>1, EnabledFits
  <2>2. {e.name : e \in Enabled(registry, n, on)} = {e.name : e \in registry}
    BY <1>1, EnabledFits
  <2>3. \A e \in registry : \E d \in Enabled(registry, n, on) : d.name = e.name
    BY <2>2
  <2> QED BY <1>3, <2>1, <2>3 DEF StepOf
<1>4. ASSUME NEW p \in Proc, NEW e \in registry, Rebuild(p, e, {})
      PROVE  StepOf(p)
  BY <1>4 DEF StepOf
<1>5. ASSUME NEW p \in Proc, NEW e \in registry, Rebuild(p, e, {d \in registry : d.enabled} \ {e})
      PROVE  StepOf(p)
  <2>1. {d \in registry : d.enabled} \ {e} \in SUBSET registry
    OBVIOUS
  <2> QED BY <1>5, <2>1 DEF StepOf
<1>6. ASSUME NEW p \in Proc, NEW e \in registry, NEW scope \in (SUBSET Page) \ {{}, Page}, Reindex(p, e, scope)
      PROVE  StepOf(p)
  BY <1>6 DEF StepOf
<1>7. ASSUME NEW p \in Proc, \/ WriteRegistry(p) \/ Discover(p) \/ Unregister(p) \/ \E r \in Root : Adopt(p, r)
                             \/ \E n \in Name : Remove(p, n)
                             \/ Scan(p) \/ Prune(p) \/ Upsert(p) \/ Finish(p) \/ Abandon(p)
      PROVE  StepOf(p)
  BY <1>7 DEF StepOf
<1> QED BY <1>2, <1>3, <1>4, <1>5, <1>6, <1>7 DEF Next

-----------------------------------------------------------------------------
(* Types.                                                                  *)

\* What of Types is not about the jobs.
Data ==
    /\ pages \in [Root -> [Page -> Content]]
    /\ setting \in Preset \cup {"default"}
    /\ WellFormed(registry)
    /\ rows \in [Name -> [Page -> Row \cup {NoRow}]]
    /\ state \in [Name -> Preset \cup {"none"}]
    /\ exact \subseteq Name \X Root \X Preset \X Page \X BOOLEAN
    /\ shaky \subseteq Name

LEMMA Assembled ==
  /\ Types <=> Data /\ job \in [Proc -> AnyJob] /\ \A p \in Proc : Fits(job[p])
  /\ Types' <=> Data' /\ job' \in [Proc -> AnyJob] /\ \A p \in Proc : Fits(job'[p])
BY DEF Types, Data

\* One wiki's rows change.
LEMMA RowsChange ==
  ASSUME rows \in [Name -> [Page -> Row \cup {NoRow}]], NEW n \in Name, NEW R \in [Page -> Row \cup {NoRow}],
         rows' = [rows EXCEPT ![n] = R]
  PROVE  /\ rows' \in [Name -> [Page -> Row \cup {NoRow}]]
         /\ rows'[n] = R /\ \A m \in Name : m # n => rows'[m] = rows[m]
OBVIOUS

LEMMA OneWikisRows ==
  ASSUME Types, NEW n \in Name, NEW R, rows' = [rows EXCEPT ![n] = R]
  PROVE  rows'[n] = R /\ \A m \in Name : m # n => rows'[m] = rows[m]
BY DEF Types

LEMMA StateChanges ==
  ASSUME state \in [Name -> Preset \cup {"none"}], NEW n \in Name, NEW f \in Preset \cup {"none"},
         state' = [state EXCEPT ![n] = f]
  PROVE  state' \in [Name -> Preset \cup {"none"}]
OBVIOUS

LEMMA DataStep ==
  ASSUME Types, Next
  PROVE  Data'
<1>1. Data
  BY Assembled
<1>2. ASSUME NEW r \in Root, NEW x \in Page, NEW c \in Content, Edit(r, x, c) PROVE Data'
  <2>1. pages' \in [Root -> [Page -> Content]]
    BY <1>1, <1>2 DEF Edit, Data
  <2>2. exact' \subseteq exact /\ UNCHANGED <<setting, registry, rows, state, shaky>>
    BY <1>2 DEF Edit, store
  <2> QED BY <1>1, <2>1, <2>2 DEF Data, WellFormed
<1>3. ASSUME NEW f \in Preset, ChooseModel(f) PROVE Data'
  <2>1. setting' = f /\ UNCHANGED <<pages, registry, rows, state, exact, shaky>>
    BY <1>3 DEF ChooseModel, store, history
  <2> QED BY <1>1, <2>1 DEF Data, WellFormed
<1>4. ASSUME ResetStore PROVE Data'
  <2>1. EmptyStore \in [Name -> [Page -> Row \cup {NoRow}]]
    BY DEF EmptyStore
  <2>2. /\ rows' = EmptyStore /\ state' = [n \in Name |-> "none"] /\ exact' = {}
        /\ UNCHANGED <<pages, setting, registry, shaky>>
    BY <1>4 DEF ResetStore
  <2> QED BY <1>1, <2>1, <2>2 DEF Data, WellFormed
<1>5. ASSUME NEW p \in Proc, NEW written, ReadRegistry(p, written) PROVE Data'
  BY <1>1, <1>5 DEF Data, WellFormed, ReadRegistry, store, history
<1>6. ASSUME NEW p \in Proc, WriteRegistry(p) PROVE Data'
  <2>1. WellFormed(job[p].written)
    BY <1>6 DEF Types, Fits, WriteRegistry
  <2>2. job[p].seen \subseteq Entry /\ job[p].written \subseteq Entry /\ registry \subseteq Entry
    BY <1>1, <1>6, <2>1 DEF Types, Fits, WriteRegistry, WellFormed, Data
  <2>3. shaky' \subseteq Name
    <3>1. Touched(registry, job[p].seen) \subseteq Name /\ Touched(job[p].seen, job[p].written) \subseteq Name
      BY <2>2 DEF Touched, Entry
    <3> QED BY <1>1, <1>6, <3>1 DEF WriteRegistry, Data
  <2>4. registry' = job[p].written /\ UNCHANGED <<pages, setting, rows, state, exact>>
    BY <1>6 DEF WriteRegistry, store
  <2>5. WellFormed(registry)'
    BY <2>1, <2>4 DEF WellFormed
  <2> QED BY <1>1, <2>3, <2>4, <2>5 DEF Data
<1>7. ASSUME NEW p \in Proc, Discover(p) PROVE Data'
  BY <1>1, <1>7 DEF Data, WellFormed, Discover, store, history
<1>8. ASSUME NEW p \in Proc, NEW r \in Root, Adopt(p, r) PROVE Data'
  BY <1>1, <1>8 DEF Data, WellFormed, Adopt, store, history
<1>9. ASSUME NEW p \in Proc, NEW n \in Name, Remove(p, n) PROVE Data'
  <2>1. rows' = [rows EXCEPT ![n] = [x \in Page |-> NoRow]]
    BY <1>9 DEF Remove, WikiPurged
  <2>2. rows' \in [Name -> [Page -> Row \cup {NoRow}]]
    BY <1>1, <2>1 DEF Data
  <2>3. state' \in [Name -> Preset \cup {"none"}]
    BY <1>1, <1>9 DEF Data, Remove
  <2>4. exact' \subseteq exact /\ shaky' \subseteq shaky \cup {n} /\ UNCHANGED <<pages, setting, registry>>
    BY <1>9 DEF Remove, Shaken
  <2> QED BY <1>1, <2>2, <2>3, <2>4 DEF Data, WellFormed
<1>10. ASSUME NEW p \in Proc, Unregister(p) PROVE Data'
  BY <1>1, <1>10 DEF Data, WellFormed, Unregister, store, history
<1>11. ASSUME NEW p \in Proc, NEW e \in registry, NEW todo \in SUBSET registry, Rebuild(p, e, todo) PROVE Data'
  <2>1. shaky' \subseteq Name
    <3>1. e.name \in Name /\ \A d \in todo : d.name \in Name
      BY EntriesFit
    <3> QED BY <1>1, <1>11, <3>1 DEF Rebuild, Data
  <2> QED BY <1>1, <1>11, <2>1 DEF Data, WellFormed, Rebuild, store
<1>12. ASSUME NEW p \in Proc, NEW e \in registry, NEW scope \in SUBSET Page, Reindex(p, e, scope) PROVE Data'
  <2>1. shaky' \subseteq Name
    <3>1. e.name \in Name
      BY EntriesFit
    <3> QED BY <1>1, <1>12, <3>1 DEF Reindex, Shaken, Data
  <2> QED BY <1>1, <1>12, <2>1 DEF Data, WellFormed, Reindex, store
<1>13. ASSUME NEW p \in Proc, Scan(p) PROVE Data'
  BY <1>1, <1>13 DEF Data, WellFormed, Scan, store, history
<1>14. ASSUME NEW p \in Proc, Prune(p) PROVE Data'
  <2> DEFINE j == job[p]
             R == [x \in Page |-> IF x \in j.removed THEN NoRow ELSE rows[j.wiki][x]]
  <2>1. rows' = [rows EXCEPT ![j.wiki] = R]
    BY <1>14, PruneDoes
  <2>2. j.wiki \in Name
    BY <1>14, OpsDiffer DEF Types, Prune, IndexJob
  <2>3. R \in [Page -> Row \cup {NoRow}]
    BY <1>1, <2>2 DEF Data
  <2> HIDE DEF R
  <2>4. rows' \in [Name -> [Page -> Row \cup {NoRow}]]
    BY <1>1, <2>1, <2>2, <2>3, RowsChange DEF Data
  <2>5. exact' \subseteq exact /\ UNCHANGED <<pages, setting, registry, state, shaky>>
    BY <1>14 DEF Prune
  <2> QED BY <1>1, <2>4, <2>5 DEF Data, WellFormed
<1>15. ASSUME NEW p \in Proc, Upsert(p) PROVE Data'
  <2> DEFINE j == job[p]
             R == [x \in Page |-> IF x \in j.pending THEN Embedded(j, x) ELSE rows[j.wiki][x]]
  <2>1. rows' = [rows EXCEPT ![j.wiki] = R]
    BY <1>15, UpsertDoes
  <2>2. j \in IndexJob /\ Fits(j) /\ j.wiki \in Name
    BY <1>15, OpsDiffer DEF Types, Upsert, IndexJob
  <2>3. \A x \in j.pending : Embedded(j, x) \in Row
    BY <2>2, RowsFit
  <2>4. R \in [Page -> Row \cup {NoRow}]
    BY <1>1, <2>2, <2>3 DEF Data
  <2> HIDE DEF R
  <2>5. rows' \in [Name -> [Page -> Row \cup {NoRow}]]
    BY <1>1, <2>1, <2>2, <2>4, RowsChange DEF Data
  <2>6. exact' \subseteq exact /\ UNCHANGED <<pages, setting, registry, state, shaky>>
    BY <1>15 DEF Upsert
  <2> QED BY <1>1, <2>5, <2>6 DEF Data, WellFormed
<1>16. ASSUME NEW p \in Proc, Finish(p) PROVE Data'
  <2> DEFINE j == job[p]
  <2>1. j \in IndexJob /\ j.wiki \in Name /\ j.root \in Root /\ j.fingerprint \in Preset /\ j.scope \in SUBSET Page
    BY <1>16, FinishDoes DEF IndexJob
  <2>2. Purged(j) \in [Page -> Row \cup {NoRow}]
    BY <1>1, <2>1 DEF Purged, Data
  <2>3. rows' = [rows EXCEPT ![j.wiki] = Purged(j)]
    BY <1>16, FinishDoes
  <2>4. rows' \in [Name -> [Page -> Row \cup {NoRow}]]
    BY <1>1, <2>1, <2>2, <2>3, RowsChange DEF Data
  <2>5. state' \in [Name -> Preset \cup {"none"}]
    BY <1>1, <1>16, <2>1, StateChanges DEF Finish, SetState, Data
  <2>6. exact' \subseteq Name \X Root \X Preset \X Page \X BOOLEAN
    <3> DEFINE new == {<<j.wiki, j.root, j.fingerprint, x, j.scope = Page>> : x \in j.scope \ j.disturbed}
    <3>1. exact' \subseteq exact \cup new
      BY <1>16, FinishDoes
    <3>2. new \subseteq Name \X Root \X Preset \X Page \X BOOLEAN
      <4> SUFFICES ASSUME NEW x \in j.scope \ j.disturbed
                   PROVE  <<j.wiki, j.root, j.fingerprint, x, j.scope = Page>> \in Name \X Root \X Preset \X Page \X BOOLEAN
        OBVIOUS
      <4>1. x \in Page /\ (j.scope = Page) \in BOOLEAN
        BY <2>1
      <4> DEFINE b == j.scope = Page
      <4>2. b \in BOOLEAN
        OBVIOUS
      <4> HIDE DEF j, b
      <4>3. <<j.wiki, j.root, j.fingerprint, x, b>> \in Name \X Root \X Preset \X Page \X BOOLEAN
        BY <2>1, <4>1, <4>2
      <4> QED BY <4>3 DEF b
    <3> HIDE DEF new
    <3> QED BY <1>1, <3>1, <3>2 DEF Data
  <2>7. UNCHANGED <<pages, setting, registry, shaky>>
    BY <1>16 DEF Finish
  <2> QED BY <1>1, <2>4, <2>5, <2>6, <2>7 DEF Data, WellFormed
<1>17. ASSUME NEW p \in Proc, Abandon(p) PROVE Data'
  BY <1>1, <1>17 DEF Data, WellFormed, Abandon, store, history
<1> QED
  BY <1>2, <1>3, <1>4, <1>5, <1>6, <1>7, <1>8, <1>9, <1>10, <1>11, <1>12, <1>13, <1>14, <1>15, <1>16, <1>17,
     StepIsAnAction DEF StepOf

LEMMA TypesStep ==
  ASSUME Types, Next
  PROVE  Types'
<1>1. Data'
  BY DataStep
<1>2. ASSUME job' \in [Proc -> AnyJob], \A q \in Proc : Fits(job'[q]) PROVE Types'
  BY <1>1, <1>2, Assembled
<1>3. ASSUME NEW p \in Proc, NEW next, JobBecomes(p, next) PROVE Types'
  BY <1>2, <1>3 DEF JobBecomes
<1>4. ASSUME NEW r \in Root, NEW x \in Page, NEW c \in Content, Edit(r, x, c) PROVE Types'
  BY <1>2, <1>4, EditDoes
<1>5. ASSUME NEW f \in Preset, ChooseModel(f) PROVE Types'
  <2>1. UNCHANGED job
    BY <1>5 DEF ChooseModel
  <2> QED BY <1>2, <2>1 DEF Types
<1>6. CASE ResetStore
  BY <1>2, <1>6, ResetDoes
<1>7. ASSUME NEW p \in Proc, NEW written, ReadRegistry(p, written), WellFormed(written), Carries(registry, written),
             \A e \in registry : \E d \in written : d.name = e.name
      PROVE  Types'
  BY <1>3, <1>7, ReadRegistryDoes
<1>8. ASSUME NEW p \in Proc, WriteRegistry(p) PROVE Types'
  BY <1>3, <1>8, WriteRegistryDoes
<1>9. ASSUME NEW p \in Proc, Discover(p) PROVE Types'
  BY <1>3, <1>9, DiscoverDoes
<1>10. ASSUME NEW p \in Proc, NEW r \in Root, Adopt(p, r) PROVE Types'
  BY <1>2, <1>10, AdoptDoes
<1>11. ASSUME NEW p \in Proc, NEW n \in Name, Remove(p, n) PROVE Types'
  BY <1>3, <1>11, RemoveDoes, ZenonT(60)
<1>12. ASSUME NEW p \in Proc, Unregister(p) PROVE Types'
  BY <1>3, <1>12, UnregisterDoes
<1>13. ASSUME NEW p \in Proc, NEW e \in registry, NEW todo \in SUBSET registry, Rebuild(p, e, todo) PROVE Types'
  <2>1. job' = [job EXCEPT ![p] = Run(e, Page, Fingerprint, todo)] /\ Page \in SUBSET Page
    BY <1>13 DEF Rebuild
  <2> QED BY <1>2, <2>1, BeginDoes
<1>14. ASSUME NEW p \in Proc, NEW e \in registry, NEW scope \in SUBSET Page, Reindex(p, e, scope) PROVE Types'
  <2>1. job' = [job EXCEPT ![p] = Run(e, scope, Fingerprint, {})] /\ {} \in SUBSET registry
    BY <1>14 DEF Reindex
  <2> QED BY <1>2, <2>1, BeginDoes
<1>15. ASSUME NEW p \in Proc, Scan(p) PROVE Types'
  BY <1>2, <1>15, ScanDoes
<1>16. ASSUME NEW p \in Proc, Prune(p) PROVE Types'
  BY <1>3, <1>16, PruneDoes DEF Stores
<1>17. ASSUME NEW p \in Proc, Upsert(p) PROVE Types'
  BY <1>3, <1>17, UpsertDoes DEF Stores
<1>18. ASSUME NEW p \in Proc, Finish(p) PROVE Types'
  BY <1>2, <1>18, FinishDoes
<1>19. ASSUME NEW p \in Proc, Abandon(p) PROVE Types'
  BY <1>2, <1>19, AbandonDoes
<1> QED
  BY <1>4, <1>5, <1>6, <1>7, <1>8, <1>9, <1>10, <1>11, <1>12, <1>13, <1>14, <1>15, <1>16, <1>17, <1>18, <1>19,
     StepIsAnAction DEF StepOf

-----------------------------------------------------------------------------
(* Whatever has to do with a name has to do with its root.                 *)

\* Rows may go, and names may become shaky; nobody takes up another name.
LEMMA NothingNew ==
  ASSUME Housed, Vacated, UNCHANGED registry, shaky \subseteq shaky',
         \A q \in Proc : NoMore(q),
         \A n \in Name \ shaky', x \in Page : rows'[n][x] = rows[n][x] \/ rows'[n][x] = NoRow
  PROVE  Housed' /\ Vacated'
<1>1. Housed'
  <2> SUFFICES ASSUME NEW n \in Name \ shaky', NEW r \in Root, ~Lists(registry, n, r)
               PROVE  /\ \A x \in Page : rows'[n][x] # NoRow => rows'[n][x].root # r
                      /\ \A p \in Proc : ~Claims(job'[p], n, r)
    BY DEF Housed
  <2>1. /\ \A x \in Page : rows[n][x] # NoRow => rows[n][x].root # r
        /\ \A p \in Proc : ~Claims(job[p], n, r)
    BY DEF Housed
  <2> QED BY <2>1 DEF NoMore
<1>2. Vacated'
  <2> SUFFICES ASSUME NEW p \in Proc, NEW n \in Name \ shaky', Ousts(job'[p], n)
               PROVE  /\ \A x \in Page : rows'[n][x] = NoRow
                      /\ \A q \in Proc, r \in Root : ~Claims(job'[q], n, r)
    BY DEF Vacated
  <2>1. Ousts(job[p], n)
    BY DEF NoMore
  <2>2. /\ \A x \in Page : rows[n][x] = NoRow
        /\ \A q \in Proc, r \in Root : ~Claims(job[q], n, r)
    BY <2>1 DEF Vacated
  <2> QED BY <2>2 DEF NoMore
<1> QED BY <1>1, <1>2

\* Runs begin under names that are registered; those being taken out become shaky.
LEMMA RunsBegin ==
  ASSUME Types, Housed, Vacated, NEW p \in Proc, NEW e \in registry, NEW scope \in SUBSET Page,
         NEW todo \in SUBSET registry,
         job' = [job EXCEPT ![p] = Run(e, scope, Fingerprint, todo)],
         UNCHANGED <<registry, rows>>, shaky \subseteq shaky',
         \A d \in todo \cup {e} : Removing(d.name) => d.name \in shaky'
  PROVE  Housed' /\ Vacated'
<1>1. \A q \in Proc \ {p} : job'[q] = job[q]
  BY BeginDoes
<1>2. \A n, r : Claims(job'[p], n, r) => Lists(todo \cup {e}, n, r)
  BY BeginDoes
<1>3. \A n : ~Ousts(job'[p], n)
  BY BeginDoes
<1>4. \A n, r : Lists(todo \cup {e}, n, r) => Lists(registry, n, r) /\ \E d \in todo \cup {e} : d.name = n
  BY DEF Lists
<1>5. Housed'
  <2> SUFFICES ASSUME NEW n \in Name \ shaky', NEW r \in Root, ~Lists(registry, n, r)
               PROVE  /\ \A x \in Page : rows[n][x] # NoRow => rows[n][x].root # r
                      /\ \A q \in Proc : ~Claims(job'[q], n, r)
    BY DEF Housed
  <2>1. /\ \A x \in Page : rows[n][x] # NoRow => rows[n][x].root # r
        /\ \A q \in Proc : ~Claims(job[q], n, r)
    BY DEF Housed
  <2>2. ~Claims(job'[p], n, r)
    BY <1>2, <1>4
  <2> QED BY <1>1, <2>1, <2>2
<1>6. Vacated'
  <2> SUFFICES ASSUME NEW q \in Proc, NEW n \in Name \ shaky', Ousts(job'[q], n)
               PROVE  /\ \A x \in Page : rows[n][x] = NoRow
                      /\ \A s \in Proc, r \in Root : ~Claims(job'[s], n, r)
    BY DEF Vacated
  <2>1. q # p /\ job'[q] = job[q] /\ Ousts(job[q], n)
    BY <1>1, <1>3
  <2>2. /\ \A x \in Page : rows[n][x] = NoRow
        /\ \A s \in Proc, r \in Root : ~Claims(job[s], n, r)
    BY <2>1 DEF Vacated
  <2>3. Removing(n)
    BY <2>1 DEF Removing, Ousts
  <2>4. \A r \in Root : ~Claims(job'[p], n, r)
    BY <1>2, <1>4, <2>3
  <2> QED BY <1>1, <2>2, <2>4
<1> QED BY <1>5, <1>6

LEMMA HousedRemove ==
  ASSUME Types, Housed, Vacated, NEW p \in Proc, NEW n \in Name, Remove(p, n)
  PROVE  Housed' /\ Vacated'
<1>1. JobBecomes(p, [op |-> "unregister", wiki |-> n])
  BY RemoveDoes
<1>2. \A m, r : ~Claims(job'[p], m, r)
  BY RemoveDoes
<1>3. \A m : Ousts(job'[p], m) => m = n
  BY RemoveDoes
<1>4. \A q \in Proc \ {p} : NoMore(q)
  BY <1>1, GoesOnAsBefore DEF JobBecomes
<1>5. UNCHANGED registry /\ shaky \subseteq shaky' /\ (UnderWay(n) => n \in shaky')
  BY DEF Remove, Shaken
<1>6. \A m \in Name, x \in Page : /\ m # n => rows'[m][x] = rows[m][x]
                                  /\ m = n => rows'[m][x] = NoRow
  BY DEF Remove, WikiPurged, Types
<1>7. \A m, r : \A q \in Proc : Claims(job'[q], m, r) => Claims(job[q], m, r)
  BY <1>2, <1>4 DEF NoMore
<1>8. Housed'
  <2> SUFFICES ASSUME NEW m \in Name \ shaky', NEW r \in Root, ~Lists(registry, m, r)
               PROVE  /\ \A x \in Page : rows'[m][x] # NoRow => rows'[m][x].root # r
                      /\ \A q \in Proc : ~Claims(job'[q], m, r)
    BY <1>5 DEF Housed
  <2>1. /\ \A x \in Page : rows[m][x] # NoRow => rows[m][x].root # r
        /\ \A q \in Proc : ~Claims(job[q], m, r)
    BY <1>5 DEF Housed
  <2> QED BY <1>6, <1>7, <2>1
<1>9. Vacated'
  <2> SUFFICES ASSUME NEW q \in Proc, NEW m \in Name \ shaky', Ousts(job'[q], m)
               PROVE  /\ \A x \in Page : rows'[m][x] = NoRow
                      /\ \A s \in Proc, r \in Root : ~Claims(job'[s], m, r)
    BY DEF Vacated
  <2>1. CASE m = n
    <3>1. \A s \in Proc, r \in Root : ~Claims(job[s], m, r)
      <4> SUFFICES ASSUME NEW s \in Proc, NEW r \in Root, Claims(job[s], m, r) PROVE UnderWay(n)
        BY <1>5, <2>1
      <4> QED BY <2>1 DEF UnderWay, Claims, Lists
    <3> QED BY <1>6, <1>7, <2>1, <3>1
  <2>2. CASE m # n
    <3>1. q # p
      BY <1>3, <2>2
    <3>2. Ousts(job[q], m)
      BY <1>4, <3>1 DEF NoMore
    <3>3. /\ \A x \in Page : rows[m][x] = NoRow
          /\ \A s \in Proc, r \in Root : ~Claims(job[s], m, r)
      BY <1>5, <3>2 DEF Vacated
    <3> QED BY <1>6, <1>7, <2>2, <3>3
  <2> QED BY <2>1, <2>2
<1> QED BY <1>8, <1>9

\* wikis.json is written: what it said of a name that is not shaky follows from what it says.
LEMMA HousedWrite ==
  ASSUME Types, Housed, Vacated, NEW p \in Proc, WriteRegistry(p)
  PROVE  Housed' /\ Vacated'
<1> DEFINE seen == job[p].seen
           written == job[p].written
<1>1. \A q \in Proc \ {p} : job'[q] = job[q]
  BY WriteRegistryDoes
<1>2. \A n, r : ~Claims(job'[p], n, r)
  BY WriteRegistryDoes
<1>3. \A n : ~Ousts(job'[p], n)
  BY WriteRegistryDoes
<1>4. job[p] \in RegistryJob /\ Fits(job[p])
  BY WriteRegistryDoes
<1>5. /\ registry' = written /\ UNCHANGED rows /\ job[p].op = "registry"
      /\ shaky' = IF registry = seen THEN shaky
                  ELSE shaky \cup Touched(registry, seen) \cup Touched(seen, written)
  BY DEF WriteRegistry, store
<1>6. Carries(seen, written)
  BY <1>4, <1>5 DEF Fits
<1>7. \A n : (\E e \in seen : e.name = n) /\ (\A e \in written : e.name # n) => Ousts(job[p], n)
  BY <1>5 DEF Ousts
<1> HIDE DEF seen, written
<1>8. shaky \subseteq shaky'
  BY <1>5
<1>9. ASSUME NEW n \in Name \ shaky', NEW r, Lists(registry, n, r), ~Lists(written, n, r)
      PROVE  Ousts(job[p], n)
  <2>1. PICK e \in registry : e.name = n /\ e.root = r
    BY <1>9 DEF Lists
  <2>2. CASE registry = seen
    <3>1. \A d \in written : d.name # n
      BY <1>6, <1>9, <2>1, <2>2 DEF Lists, Carries
    <3> QED BY <1>7, <2>1, <2>2, <3>1
  <2>3. CASE registry # seen
    <3>1. n \notin Touched(registry, seen) /\ n \notin Touched(seen, written)
      BY <1>5, <2>3
    <3>2. e \in seen
      BY <2>1, <3>1 DEF Touched
    <3>3. e \in written
      BY <2>1, <3>1, <3>2 DEF Touched
    <3> QED BY <1>9, <2>1, <3>3 DEF Lists
  <2> QED BY <2>2, <2>3
<1>10. Housed'
  <2> SUFFICES ASSUME NEW n \in Name \ shaky', NEW r \in Root, ~Lists(written, n, r)
               PROVE  /\ \A x \in Page : rows[n][x] # NoRow => rows[n][x].root # r
                      /\ \A q \in Proc : ~Claims(job'[q], n, r)
    BY <1>5 DEF Housed
  <2>1. CASE Lists(registry, n, r)
    <3>1. Ousts(job[p], n)
      BY <1>9, <2>1
    <3>2. /\ \A x \in Page : rows[n][x] = NoRow
          /\ \A q \in Proc, k \in Root : ~Claims(job[q], n, k)
      BY <1>8, <3>1 DEF Vacated
    <3> QED BY <1>1, <1>2, <3>2
  <2>2. CASE ~Lists(registry, n, r)
    <3>1. /\ \A x \in Page : rows[n][x] # NoRow => rows[n][x].root # r
          /\ \A q \in Proc : ~Claims(job[q], n, r)
      BY <1>8, <2>2 DEF Housed
    <3> QED BY <1>1, <1>2, <3>1
  <2> QED BY <2>1, <2>2
<1>11. Vacated'
  <2> SUFFICES ASSUME NEW q \in Proc, NEW n \in Name \ shaky', Ousts(job'[q], n)
               PROVE  /\ \A x \in Page : rows[n][x] = NoRow
                      /\ \A s \in Proc, r \in Root : ~Claims(job'[s], n, r)
    BY <1>5 DEF Vacated
  <2>1. Ousts(job[q], n)
    BY <1>1, <1>3
  <2>2. /\ \A x \in Page : rows[n][x] = NoRow
        /\ \A s \in Proc, r \in Root : ~Claims(job[s], n, r)
    BY <1>8, <2>1 DEF Vacated
  <2> QED BY <1>1, <1>2, <2>2
<1> QED BY <1>10, <1>11

\* A run stores rows of its own root.
LEMMA HousedUpsert ==
  ASSUME Types, Housed, Vacated, NEW p \in Proc, Upsert(p)
  PROVE  Housed' /\ Vacated'
<1> DEFINE j == job[p]
<1>1. j.op = "index" /\ Stores(p, j.pending, "finish")
  BY UpsertDoes
<1>2. j.wiki \in Name /\ j.root \in Root
  BY <1>1, OpsDiffer DEF Types, IndexJob
<1>3. \A q \in Proc : NoMore(q)
  BY <1>1, GoesOnAsBefore DEF Stores, JobBecomes
<1>4. UNCHANGED <<registry, shaky>>
  BY DEF Upsert
<1>5. \A n \in Name, x \in Page :
         rows'[n][x] = IF n = j.wiki /\ x \in j.pending THEN Embedded(j, x) ELSE rows[n][x]
  <2> DEFINE R == [x \in Page |-> IF x \in j.pending THEN Embedded(j, x) ELSE rows[j.wiki][x]]
  <2>1. rows' = [rows EXCEPT ![j.wiki] = R]
    BY UpsertDoes
  <2>2. \A x \in Page : R[x] = IF x \in j.pending THEN Embedded(j, x) ELSE rows[j.wiki][x]
    OBVIOUS
  <2> HIDE DEF R, j
  <2>3. rows'[j.wiki] = R /\ \A m \in Name : m # j.wiki => rows'[m] = rows[m]
    BY <1>2, <2>1, OneWikisRows
  <2> QED BY <2>2, <2>3
<1>6. Claims(j, j.wiki, j.root)
  BY <1>1 DEF Claims
<1>7. \A x : Embedded(j, x).root = j.root
  BY DEF Embedded
<1> HIDE DEF j
<1>8. Housed'
  <2> SUFFICES ASSUME NEW n \in Name \ shaky, NEW r \in Root, ~Lists(registry, n, r)
               PROVE  /\ \A x \in Page : rows'[n][x] # NoRow => rows'[n][x].root # r
                      /\ \A q \in Proc : ~Claims(job'[q], n, r)
    BY <1>4 DEF Housed
  <2>1. /\ \A x \in Page : rows[n][x] # NoRow => rows[n][x].root # r
        /\ \A q \in Proc : ~Claims(job[q], n, r)
    BY DEF Housed
  <2>2. n = j.wiki => j.root # r
    BY <1>6, <2>1 DEF j
  <2>3. ASSUME NEW x \in Page, rows'[n][x] # NoRow PROVE rows'[n][x].root # r
    <3>1. CASE n = j.wiki /\ x \in j.pending
      BY <1>5, <1>7, <2>2, <3>1
    <3>2. CASE ~(n = j.wiki /\ x \in j.pending)
      <4>1. rows'[n][x] = rows[n][x]
        BY <1>5, <3>2
      <4> QED BY <2>1, <2>3, <4>1
    <3> QED BY <3>1, <3>2
  <2>4. \A q \in Proc : ~Claims(job'[q], n, r)
    BY <1>3, <2>1 DEF NoMore
  <2> QED BY <2>3, <2>4
<1>9. Vacated'
  <2> SUFFICES ASSUME NEW q \in Proc, NEW n \in Name \ shaky, Ousts(job'[q], n)
               PROVE  /\ \A x \in Page : rows'[n][x] = NoRow
                      /\ \A s \in Proc, r \in Root : ~Claims(job'[s], n, r)
    BY <1>4 DEF Vacated
  <2>1. Ousts(job[q], n)
    BY <1>3 DEF NoMore
  <2>2. /\ \A x \in Page : rows[n][x] = NoRow
        /\ \A s \in Proc, r \in Root : ~Claims(job[s], n, r)
    BY <2>1 DEF Vacated
  <2>3. n # j.wiki
    BY <1>2, <1>6, <2>2 DEF j
  <2>4. \A x \in Page : rows'[n][x] = rows[n][x]
    BY <1>5, <2>3
  <2> QED BY <1>3, <2>2, <2>4 DEF NoMore
<1> QED BY <1>8, <1>9

LEMMA HousedStep ==
  ASSUME Types, Housed, Vacated, Next
  PROVE  Housed' /\ Vacated'
<1>1. ASSUME NEW q \in Proc, GoesOn(q) PROVE NoMore(q)
  BY <1>1, GoesOnAsBefore
<1>2. ASSUME UNCHANGED <<registry, rows, shaky>>, \A q \in Proc : NoMore(q) PROVE Housed' /\ Vacated'
  BY <1>2, NothingNew
<1>3. ASSUME NEW p \in Proc, UNCHANGED <<registry, rows, shaky>>, NoMore(p), \A q \in Proc \ {p} : GoesOn(q)
      PROVE  Housed' /\ Vacated'
  BY <1>1, <1>2, <1>3
<1>4. ASSUME NEW r \in Root, NEW x \in Page, NEW c \in Content, Edit(r, x, c) PROVE Housed' /\ Vacated'
  <2>1. UNCHANGED <<registry, rows, shaky>>
    BY <1>4 DEF Edit, store
  <2> QED BY <1>1, <1>2, <1>4, <2>1, EditDoes
<1>5. ASSUME NEW f \in Preset, ChooseModel(f) PROVE Housed' /\ Vacated'
  <2>1. UNCHANGED <<registry, rows, shaky, job>>
    BY <1>5 DEF ChooseModel, store, history
  <2> QED BY <1>1, <1>2, <2>1 DEF GoesOn
<1>6. ASSUME ResetStore PROVE Housed' /\ Vacated'
  <2>1. \A q \in Proc : NoMore(q)
    BY <1>6, ResetDoes
  <2>2. UNCHANGED <<registry, shaky>> /\ \A n \in Name, x \in Page : rows'[n][x] = NoRow
    BY <1>6 DEF ResetStore, EmptyStore
  <2> QED BY <2>1, <2>2, NothingNew
<1>7. ASSUME NEW p \in Proc, NEW written, ReadRegistry(p, written), WellFormed(written), Carries(registry, written),
             \A e \in registry : \E d \in written : d.name = e.name
      PROVE  Housed' /\ Vacated'
  <2>1. JobBecomes(p, Rewriting(written, {})) /\ NoMore(p)
    BY <1>7, ReadRegistryDoes
  <2>2. UNCHANGED <<registry, rows, shaky>>
    BY <1>7 DEF ReadRegistry, store, history
  <2> QED BY <1>3, <2>1, <2>2 DEF JobBecomes
<1>8. ASSUME NEW p \in Proc, WriteRegistry(p) PROVE Housed' /\ Vacated'
  BY <1>8, HousedWrite
<1>9. ASSUME NEW p \in Proc, Discover(p) PROVE Housed' /\ Vacated'
  <2>1. JobBecomes(p, Adopting(Discovered(registry))) /\ NoMore(p)
    BY <1>9, DiscoverDoes
  <2>2. UNCHANGED <<registry, rows, shaky>>
    BY <1>9 DEF Discover, store, history
  <2> QED BY <1>3, <2>1, <2>2 DEF JobBecomes
<1>10. ASSUME NEW p \in Proc, NEW r \in Root, Adopt(p, r) PROVE Housed' /\ Vacated'
  <2>1. NoMore(p) /\ \A q \in Proc \ {p} : GoesOn(q)
    BY <1>10, AdoptDoes
  <2>2. UNCHANGED <<registry, rows, shaky>>
    BY <1>10 DEF Adopt, store, history
  <2> QED BY <1>3, <2>1, <2>2
<1>11. ASSUME NEW p \in Proc, NEW n \in Name, Remove(p, n) PROVE Housed' /\ Vacated'
  BY <1>11, HousedRemove
<1>12. ASSUME NEW p \in Proc, Unregister(p) PROVE Housed' /\ Vacated'
  <2>1. JobBecomes(p, Rewriting(Unregistered(registry, job[p].wiki), {})) /\ NoMore(p)
    BY <1>12, UnregisterDoes
  <2>2. UNCHANGED <<registry, rows, shaky>>
    BY <1>12 DEF Unregister, store, history
  <2> QED BY <1>3, <2>1, <2>2 DEF JobBecomes
<1>13. ASSUME NEW p \in Proc, NEW e \in registry, NEW todo \in SUBSET registry, Rebuild(p, e, todo)
       PROVE  Housed' /\ Vacated'
  <2>1. /\ job' = [job EXCEPT ![p] = Run(e, Page, Fingerprint, todo)] /\ Page \in SUBSET Page
        /\ UNCHANGED <<registry, rows>> /\ shaky \subseteq shaky'
    BY <1>13 DEF Rebuild, store
  <2>2. \A d \in todo \cup {e} : Removing(d.name) => d.name \in shaky'
    BY <1>13 DEF Rebuild
  <2> QED BY <2>1, <2>2, RunsBegin
<1>14. ASSUME NEW p \in Proc, NEW e \in registry, NEW scope \in SUBSET Page, Reindex(p, e, scope)
       PROVE  Housed' /\ Vacated'
  <2>1. /\ job' = [job EXCEPT ![p] = Run(e, scope, Fingerprint, {})] /\ {} \in SUBSET registry
        /\ UNCHANGED <<registry, rows>> /\ shaky \subseteq shaky'
    BY <1>14 DEF Reindex, Shaken, store
  <2>2. \A d \in {} \cup {e} : Removing(d.name) => d.name \in shaky'
    BY <1>14 DEF Reindex, Shaken
  <2> QED BY <2>1, <2>2, RunsBegin
<1>15. ASSUME NEW p \in Proc, Scan(p) PROVE Housed' /\ Vacated'
  <2>1. NoMore(p) /\ \A q \in Proc \ {p} : GoesOn(q)
    BY <1>15, ScanDoes DEF GoesOn
  <2>2. UNCHANGED <<registry, rows, shaky>>
    BY <1>15 DEF Scan, store, history
  <2> QED BY <1>3, <2>1, <2>2
<1>16. ASSUME NEW p \in Proc, Prune(p) PROVE Housed' /\ Vacated'
  <2>1. Stores(p, job[p].removed, "embed") /\ job[p].op = "index"
    BY <1>16, PruneDoes
  <2>2. \A q \in Proc : NoMore(q)
    BY <1>1, <2>1 DEF Stores, JobBecomes
  <2>3. job[p].wiki \in Name
    BY <2>1, OpsDiffer DEF Types, IndexJob
  <2>4. \A n \in Name, x \in Page : rows'[n][x] = rows[n][x] \/ rows'[n][x] = NoRow
    <3> DEFINE R == [x \in Page |-> IF x \in job[p].removed THEN NoRow ELSE rows[job[p].wiki][x]]
    <3>1. rows' = [rows EXCEPT ![job[p].wiki] = R]
      BY <1>16, PruneDoes
    <3>2. \A x \in Page : R[x] = rows[job[p].wiki][x] \/ R[x] = NoRow
      OBVIOUS
    <3> HIDE DEF R
    <3>3. rows'[job[p].wiki] = R /\ \A m \in Name : m # job[p].wiki => rows'[m] = rows[m]
      BY <2>3, <3>1, OneWikisRows
    <3> QED BY <3>2, <3>3
  <2>5. UNCHANGED <<registry, shaky>>
    BY <1>16 DEF Prune
  <2> QED BY <2>2, <2>4, <2>5, NothingNew
<1>17. ASSUME NEW p \in Proc, Upsert(p) PROVE Housed' /\ Vacated'
  BY <1>17, HousedUpsert
<1>18. ASSUME NEW p \in Proc, Finish(p) PROVE Housed' /\ Vacated'
  <2>1. /\ job[p] \in IndexJob /\ NoMore(p) /\ \A q \in Proc \ {p} : GoesOn(q)
        /\ rows' = [rows EXCEPT ![job[p].wiki] = Purged(job[p])]
    BY <1>18, FinishDoes
  <2>2. \A q \in Proc : NoMore(q)
    BY <1>1, <2>1
  <2>3. job[p].wiki \in Name
    BY <2>1 DEF IndexJob
  <2>4. \A n \in Name, x \in Page : rows'[n][x] = rows[n][x] \/ rows'[n][x] = NoRow
    BY <2>1, <2>3 DEF Types, Purged
  <2>5. UNCHANGED <<registry, shaky>>
    BY <1>18 DEF Finish
  <2> QED BY <2>2, <2>4, <2>5, NothingNew
<1>19. ASSUME NEW p \in Proc, Abandon(p) PROVE Housed' /\ Vacated'
  <2>1. NoMore(p) /\ \A q \in Proc \ {p} : GoesOn(q)
    BY <1>19, AbandonDoes DEF GoesOn
  <2>2. UNCHANGED <<registry, rows, shaky>>
    BY <1>19 DEF Abandon, store, history
  <2> QED BY <1>3, <2>1, <2>2
<1> QED
  BY <1>4, <1>5, <1>6, <1>7, <1>8, <1>9, <1>10, <1>11, <1>12, <1>13, <1>14, <1>15, <1>16, <1>17, <1>18, <1>19,
     StepIsAnAction DEF StepOf

-----------------------------------------------------------------------------
(* What an undisturbed run has read and stored.                            *)

\* A run that is right about page x, if it goes on, does so as it was.
LEMMA AsItWas ==
  ASSUME Types, RunsAreRight, NEW q \in Proc, GoesOn(q), job'[q].op = "index", job'[q].step # "scan",
         NEW x \in job'[q].scope \ job'[q].disturbed
  PROVE  /\ job[q] \in IndexJob /\ job[q].op = "index" /\ Fits(job[q])
         /\ x \in job[q].scope \ job[q].disturbed /\ x \in Page
         /\ job'[q].wiki = job[q].wiki /\ job'[q].root = job[q].root
         /\ Mirrors(job'[q], x, pages[job[q].root][x])
         /\ InHand(job'[q], x, rows[job[q].wiki][x])
         /\ job'[q].chunks = job[q].chunks /\ job'[q].fingerprint = job[q].fingerprint
         /\ job'[q].pending = job[q].pending /\ job'[q].step = job[q].step
<1>1. /\ job'[q].step = job[q].step /\ job'[q].wiki = job[q].wiki /\ job'[q].root = job[q].root
      /\ job'[q].fingerprint = job[q].fingerprint /\ job'[q].scope = job[q].scope
      /\ job'[q].chunks = job[q].chunks /\ job'[q].pending = job[q].pending
      /\ job'[q].removed = job[q].removed /\ job[q].disturbed \subseteq job'[q].disturbed
      /\ job[q].op = "index"
  BY DEF GoesOn, SameRun, IndexJob
<1>2. job[q] \in IndexJob /\ Fits(job[q])
  BY <1>1, OpsDiffer DEF Types
<1>3. x \in job[q].scope \ job[q].disturbed /\ x \in Page
  BY <1>1, <1>2 DEF IndexJob
<1>4. Mirrors(job[q], x, pages[job[q].root][x]) /\ InHand(job[q], x, rows[job[q].wiki][x])
  BY <1>1, <1>3 DEF RunsAreRight
<1>5. Mirrors(job'[q], x, pages[job[q].root][x])
  BY <1>1, <1>4 DEF Mirrors
<1>6. InHand(job'[q], x, rows[job[q].wiki][x])
  BY <1>1, <1>4 DEF InHand
<1> QED BY <1>1, <1>2, <1>3, <1>5, <1>6

\* So it is enough to look at the pages and rows that change.
LEMMA RightIf ==
  ASSUME \A q \in Proc : job'[q].op = "index" /\ job'[q].step # "scan" =>
            \A x \in job'[q].scope \ job'[q].disturbed :
               /\ Mirrors(job'[q], x, pages'[job'[q].root][x])
               /\ InHand(job'[q], x, rows'[job'[q].wiki][x])
  PROVE  RunsAreRight'
BY DEF RunsAreRight

\* No page and no row changes, and no run gets further.
LEMMA QuietStep ==
  ASSUME Types, RunsAreRight, UNCHANGED <<pages, rows>>,
         \A q \in Proc : GoesOn(q) \/ job'[q].op # "index" \/ job'[q].step = "scan"
  PROVE  RunsAreRight'
<1>1. ASSUME NEW q \in Proc, job'[q].op = "index", job'[q].step # "scan",
             NEW x \in job'[q].scope \ job'[q].disturbed
      PROVE  /\ Mirrors(job'[q], x, pages'[job'[q].root][x])
             /\ InHand(job'[q], x, rows'[job'[q].wiki][x])
  <2>1. GoesOn(q)
    BY <1>1
  <2>2. /\ job'[q].wiki = job[q].wiki /\ job'[q].root = job[q].root
        /\ Mirrors(job'[q], x, pages[job[q].root][x])
        /\ InHand(job'[q], x, rows[job[q].wiki][x])
    BY <1>1, <2>1, AsItWas
  <2> QED BY <2>2
<1> QED BY <1>1, RightIf

LEMMA EditIsRight ==
  ASSUME Types, RunsAreRight, NEW r \in Root, NEW y \in Page, NEW c \in Content, Edit(r, y, c)
  PROVE  RunsAreRight'
<1>1. ASSUME NEW q \in Proc, job'[q].op = "index", job'[q].step # "scan",
             NEW x \in job'[q].scope \ job'[q].disturbed
      PROVE  /\ Mirrors(job'[q], x, pages'[job'[q].root][x])
             /\ InHand(job'[q], x, rows'[job'[q].wiki][x])
  <2>1. GoesOn(q)
    BY EditDoes
  <2>2. ~(job'[q].root = r /\ x = y)
    BY <1>1, EditDoes
  <2>3. /\ job'[q].wiki = job[q].wiki /\ job'[q].root = job[q].root
        /\ Mirrors(job'[q], x, pages[job[q].root][x])
        /\ InHand(job'[q], x, rows[job[q].wiki][x])
    BY <1>1, <2>1, AsItWas
  <2>4. job[q] \in IndexJob /\ x \in Page
    BY <1>1, <2>1, AsItWas
  <2>5. pages'[job[q].root][x] = pages[job[q].root][x]
    BY <2>2, <2>3, <2>4 DEF Edit, Types, IndexJob
  <2>6. UNCHANGED rows
    BY DEF Edit, store
  <2> QED BY <2>3, <2>5, <2>6
<1> QED BY <1>1, RightIf

LEMMA RemoveIsRight ==
  ASSUME Types, RunsAreRight, NEW p \in Proc, NEW n \in Name, Remove(p, n)
  PROVE  RunsAreRight'
<1>1. JobBecomes(p, [op |-> "unregister", wiki |-> n])
  BY RemoveDoes
<1>2. job'[p].op # "index" /\ \A q \in Proc \ {p} : GoesOn(q)
  BY <1>1 DEF JobBecomes
<1>3. UNCHANGED pages /\ \A m \in Name : m # n => rows'[m] = rows[m]
  BY DEF Remove, WikiPurged, Types
<1>4. ASSUME NEW q \in Proc, job'[q].op = "index", job'[q].step # "scan",
             NEW x \in job'[q].scope \ job'[q].disturbed
      PROVE  /\ Mirrors(job'[q], x, pages'[job'[q].root][x])
             /\ InHand(job'[q], x, rows'[job'[q].wiki][x])
  <2>1. q # p /\ GoesOn(q)
    BY <1>2, <1>4
  <2>2. /\ job'[q].wiki = job[q].wiki /\ job'[q].root = job[q].root
        /\ Mirrors(job'[q], x, pages[job[q].root][x])
        /\ InHand(job'[q], x, rows[job[q].wiki][x])
    BY <1>4, <2>1, AsItWas
  <2>3. job[q] \in IndexJob /\ job[q].op = "index" /\ x \in job[q].scope
    BY <1>4, <2>1, AsItWas
  <2>4. job[q].wiki # n
    BY <1>4, <2>1, <2>3, RemoveDoes
  <2>5. job[q].wiki \in Name
    BY <2>3 DEF IndexJob
  <2> QED BY <1>3, <2>2, <2>4, <2>5
<1> QED BY <1>4, RightIf

LEMMA ScanIsRight ==
  ASSUME Types, RunsAreRight, NEW p \in Proc, Scan(p)
  PROVE  RunsAreRight'
<1>1. UNCHANGED <<pages, rows>>
  BY DEF Scan, store
<1>2. /\ job[p] \in IndexJob /\ \A q \in Proc \ {p} : job'[q] = job[q]
      /\ job'[p].wiki = job[p].wiki /\ job'[p].root = job[p].root
      /\ job'[p].fingerprint = job[p].fingerprint /\ job'[p].scope = job[p].scope
  BY ScanDoes
<1>3. Read(job[p], job'[p])
  BY ScanDoes
<1>4. job'[p].step = "prune"
  BY ScanDoes
<1>5. ASSUME NEW x \in job'[p].scope
      PROVE  /\ Mirrors(job'[p], x, pages[job[p].root][x])
             /\ InHand(job'[p], x, rows[job[p].wiki][x])
  <2> DEFINE c == pages[job[p].root][x]
             row == rows[job[p].wiki][x]
  <2>1. CASE Active(c)
    <3>1. x \in DOMAIN job'[p].chunks /\ job'[p].chunks[x] = c
      BY <1>2, <1>3, <1>5, <2>1 DEF Read
    <3>2. x \in job'[p].pending \/ UnchangedRow(job[p], x)
      BY <1>2, <1>3, <1>5, <2>1 DEF Read
    <3>3. UnchangedRow(job[p], x) => row.text = c.text /\ row.fingerprint = job[p].fingerprint
      BY DEF UnchangedRow
    <3> HIDE DEF c, row
    <3>4. Mirrors(job'[p], x, c) /\ InHand(job'[p], x, row)
      BY <1>2, <1>4, <2>1, <3>1, <3>2, <3>3 DEF Mirrors, InHand
    <3> QED BY <3>4 DEF c, row
  <2>2. CASE ~Active(c)
    <3>1. x \notin DOMAIN job'[p].chunks
      BY <1>2, <1>3, <1>5, <2>2 DEF Read
    <3>2. x \in job'[p].removed \/ row.fingerprint # job[p].fingerprint
      BY <1>2, <1>3, <1>5, <2>2 DEF Read
    <3> HIDE DEF c, row
    <3>3. Mirrors(job'[p], x, c) /\ InHand(job'[p], x, row)
      BY <1>2, <1>4, <2>2, <3>1, <3>2 DEF Mirrors, InHand
    <3> QED BY <3>3 DEF c, row
  <2> QED BY <2>1, <2>2
<1>6. ASSUME NEW q \in Proc, job'[q].op = "index", job'[q].step # "scan",
             NEW x \in job'[q].scope \ job'[q].disturbed
      PROVE  /\ Mirrors(job'[q], x, pages'[job'[q].root][x])
             /\ InHand(job'[q], x, rows'[job'[q].wiki][x])
  <2>1. CASE q = p
    BY <1>1, <1>2, <1>5, <1>6, <2>1
  <2>2. CASE q # p
    <3>1. GoesOn(q)
      BY <1>2, <2>2 DEF GoesOn
    <3>2. /\ job'[q].wiki = job[q].wiki /\ job'[q].root = job[q].root
          /\ Mirrors(job'[q], x, pages[job[q].root][x])
          /\ InHand(job'[q], x, rows[job[q].wiki][x])
      BY <1>6, <3>1, AsItWas
    <3> QED BY <1>1, <3>2
  <2> QED BY <2>1, <2>2
<1> QED BY <1>6, RightIf

\* A run takes its next step: what it had read and what there was of the rows.
LEMMA AsItHad ==
  ASSUME Types, RunsAreRight, NEW p \in Proc, NEW xs, NEW s, Stores(p, xs, s), job[p].step # "scan",
         NEW x \in job'[p].scope \ job'[p].disturbed
  PROVE  /\ job[p] \in IndexJob /\ job'[p].wiki = job[p].wiki /\ job'[p].root = job[p].root
         /\ x \in Page /\ x \in job[p].scope
         /\ Mirrors(job'[p], x, pages[job[p].root][x])
         /\ InHand(job[p], x, rows[job[p].wiki][x])
<1>1. /\ job[p] \in IndexJob /\ job[p].op = "index"
      /\ job'[p].wiki = job[p].wiki /\ job'[p].root = job[p].root
      /\ job'[p].scope = job[p].scope /\ job'[p].chunks = job[p].chunks /\ job'[p].disturbed = job[p].disturbed
  BY DEF Stores, Onward
<1>2. x \in job[p].scope \ job[p].disturbed /\ x \in Page
  BY <1>1 DEF IndexJob
<1>3. Mirrors(job[p], x, pages[job[p].root][x]) /\ InHand(job[p], x, rows[job[p].wiki][x])
  BY <1>1, <1>2 DEF RunsAreRight
<1>4. Mirrors(job'[p], x, pages[job[p].root][x])
  BY <1>1, <1>3 DEF Mirrors
<1> QED BY <1>1, <1>2, <1>3, <1>4

LEMMA PruneIsRight ==
  ASSUME Types, RunsAreRight, NEW p \in Proc, Prune(p)
  PROVE  RunsAreRight'
<1> DEFINE n == job[p].wiki
           R == [x \in Page |-> IF x \in job[p].removed THEN NoRow ELSE rows[n][x]]
<1>1. job[p].step = "prune" /\ Stores(p, job[p].removed, "embed")
  BY PruneDoes
<1>2. /\ job[p] \in IndexJob /\ Fits(job[p]) /\ n \in Name
      /\ job'[p].step = "embed" /\ job'[p].chunks = job[p].chunks /\ job'[p].pending = job[p].pending
      /\ job'[p].fingerprint = job[p].fingerprint
      /\ job[p].op = "index" /\ \A q \in Proc \ {p} : GoesOn(q)
  BY <1>1 DEF Stores, Onward, JobBecomes, IndexJob
<1>3. job[p].removed \subseteq job[p].scope \ DOMAIN job[p].chunks
  BY <1>2 DEF Fits
<1>4. UNCHANGED pages
  BY DEF Prune
<1>5. rows' = [rows EXCEPT ![n] = R]
  BY PruneDoes
<1>6. \A x \in Page : R[x] = IF x \in job[p].removed THEN NoRow ELSE rows[n][x]
  OBVIOUS
<1> HIDE DEF R
<1>7. rows'[n] = R /\ \A m \in Name : m # n => rows'[m] = rows[m]
  BY <1>2, <1>5, OneWikisRows
<1>8. ASSUME NEW x \in job'[p].scope \ job'[p].disturbed
      PROVE  /\ Mirrors(job'[p], x, pages[job'[p].root][x])
             /\ InHand(job'[p], x, rows'[job'[p].wiki][x])
  <2>1. /\ job'[p].wiki = n /\ job'[p].root = job[p].root /\ x \in Page
        /\ Mirrors(job'[p], x, pages[job[p].root][x])
        /\ InHand(job[p], x, rows[n][x])
    BY <1>1, <1>8, AsItHad
  <2>2. rows'[n][x] = IF x \in job[p].removed THEN NoRow ELSE rows[n][x]
    BY <1>6, <1>7, <2>1
  <2>3. InHand(job'[p], x, rows'[n][x])
    BY <1>1, <1>2, <1>3, <2>1, <2>2 DEF InHand
  <2> QED BY <2>1, <2>3
<1>9. ASSUME NEW q \in Proc \ {p}, job'[q].op = "index", job'[q].step # "scan",
             NEW x \in job'[q].scope \ job'[q].disturbed
      PROVE  /\ Mirrors(job'[q], x, pages[job'[q].root][x])
             /\ InHand(job'[q], x, rows'[job'[q].wiki][x])
  <2>1. GoesOn(q)
    BY <1>2
  <2>2. /\ job'[q].wiki = job[q].wiki /\ job'[q].root = job[q].root
        /\ Mirrors(job'[q], x, pages[job[q].root][x])
        /\ InHand(job'[q], x, rows[job[q].wiki][x])
    BY <1>9, <2>1, AsItWas
  <2>3. /\ job[q] \in IndexJob /\ job[q].op = "index" /\ x \in job[q].scope /\ x \in Page
        /\ job'[q].chunks = job[q].chunks
    BY <1>9, <2>1, AsItWas
  <2>4. job[q].wiki \in Name
    BY <2>3 DEF IndexJob
  <2>5. CASE job[q].wiki = n /\ x \in job[p].removed
    <3>1. Agree(job[p], job[q], x)
      BY <1>1, <1>9, <2>3, <2>5 DEF Stores
    <3>2. x \notin DOMAIN job'[q].chunks
      BY <1>3, <2>3, <2>5, <3>1 DEF Agree
    <3>3. rows'[job'[q].wiki][x] = NoRow
      BY <1>6, <1>7, <2>2, <2>3, <2>5
    <3> QED BY <2>2, <3>2, <3>3 DEF InHand
  <2>6. CASE ~(job[q].wiki = n /\ x \in job[p].removed)
    <3>1. rows'[job[q].wiki][x] = rows[job[q].wiki][x]
      BY <1>6, <1>7, <2>3, <2>4, <2>6
    <3> QED BY <2>2, <3>1
  <2> QED BY <2>5, <2>6
<1>10. ASSUME NEW q \in Proc, job'[q].op = "index", job'[q].step # "scan",
              NEW x \in job'[q].scope \ job'[q].disturbed
       PROVE  /\ Mirrors(job'[q], x, pages'[job'[q].root][x])
              /\ InHand(job'[q], x, rows'[job'[q].wiki][x])
  BY <1>4, <1>8, <1>9, <1>10
<1> QED BY <1>10, RightIf

LEMMA UpsertIsRight ==
  ASSUME Types, RunsAreRight, NEW p \in Proc, Upsert(p)
  PROVE  RunsAreRight'
<1> DEFINE n == job[p].wiki
           R == [x \in Page |-> IF x \in job[p].pending THEN Embedded(job[p], x) ELSE rows[n][x]]
<1>1. job[p].step = "embed" /\ Stores(p, job[p].pending, "finish")
  BY UpsertDoes
<1>2. /\ job[p] \in IndexJob /\ Fits(job[p]) /\ n \in Name
      /\ job'[p].step = "finish" /\ job'[p].chunks = job[p].chunks /\ job'[p].pending = job[p].pending
      /\ job'[p].fingerprint = job[p].fingerprint
      /\ job[p].op = "index" /\ \A q \in Proc \ {p} : GoesOn(q)
  BY <1>1 DEF Stores, Onward, JobBecomes, IndexJob
<1>3. job[p].pending \subseteq DOMAIN job[p].chunks
  BY <1>2 DEF Fits
<1>4. UNCHANGED pages
  BY DEF Upsert
<1>5. rows' = [rows EXCEPT ![n] = R]
  BY UpsertDoes
<1>6. \A x \in Page : R[x] = IF x \in job[p].pending THEN Embedded(job[p], x) ELSE rows[n][x]
  OBVIOUS
<1> HIDE DEF R
<1>7. rows'[n] = R /\ \A m \in Name : m # n => rows'[m] = rows[m]
  BY <1>2, <1>5, OneWikisRows
<1>8. \A x : /\ Embedded(job[p], x).text = job[p].chunks[x].text
             /\ Embedded(job[p], x).fingerprint = job[p].fingerprint
  BY DEF Embedded
<1>9. ASSUME NEW x \in job'[p].scope \ job'[p].disturbed
      PROVE  /\ Mirrors(job'[p], x, pages[job'[p].root][x])
             /\ InHand(job'[p], x, rows'[job'[p].wiki][x])
  <2>1. /\ job'[p].wiki = n /\ job'[p].root = job[p].root /\ x \in Page
        /\ Mirrors(job'[p], x, pages[job[p].root][x])
        /\ InHand(job[p], x, rows[n][x])
    BY <1>1, <1>9, AsItHad
  <2>2. CASE x \in job[p].pending
    <3>1. rows'[n][x] = Embedded(job[p], x)
      BY <1>6, <1>7, <2>1, <2>2
    <3>2. rows'[n][x].text = job[p].chunks[x].text /\ rows'[n][x].fingerprint = job[p].fingerprint
      BY <1>8, <3>1
    <3>3. InHand(job'[p], x, rows'[n][x])
      BY <1>2, <1>3, <2>2, <3>2 DEF InHand
    <3> QED BY <2>1, <3>3
  <2>3. CASE x \notin job[p].pending
    <3>1. rows'[n][x] = rows[n][x]
      BY <1>6, <1>7, <2>1, <2>3
    <3>2. InHand(job'[p], x, rows[n][x])
      BY <1>1, <1>2, <2>1, <2>3 DEF InHand
    <3> QED BY <2>1, <3>1, <3>2
  <2> QED BY <2>2, <2>3
<1>10. ASSUME NEW q \in Proc \ {p}, job'[q].op = "index", job'[q].step # "scan",
              NEW x \in job'[q].scope \ job'[q].disturbed
       PROVE  /\ Mirrors(job'[q], x, pages[job'[q].root][x])
              /\ InHand(job'[q], x, rows'[job'[q].wiki][x])
  <2>1. GoesOn(q)
    BY <1>2
  <2>2. /\ job'[q].wiki = job[q].wiki /\ job'[q].root = job[q].root
        /\ Mirrors(job'[q], x, pages[job[q].root][x])
        /\ InHand(job'[q], x, rows[job[q].wiki][x])
    BY <1>10, <2>1, AsItWas
  <2>3. /\ job[q] \in IndexJob /\ job[q].op = "index" /\ x \in job[q].scope /\ x \in Page
        /\ job'[q].chunks = job[q].chunks /\ job'[q].fingerprint = job[q].fingerprint
    BY <1>10, <2>1, AsItWas
  <2>4. job[q].wiki \in Name
    BY <2>3 DEF IndexJob
  <2>5. CASE job[q].wiki = n /\ x \in job[p].pending
    <3>1. Agree(job[p], job[q], x)
      BY <1>1, <1>10, <2>3, <2>5 DEF Stores
    <3>2. /\ x \in DOMAIN job'[q].chunks /\ job'[q].chunks[x] = job[p].chunks[x]
          /\ job'[q].fingerprint = job[p].fingerprint
      BY <1>3, <2>3, <2>5, <3>1 DEF Agree
    <3>3. rows'[job'[q].wiki][x] = Embedded(job[p], x)
      BY <1>6, <1>7, <2>2, <2>3, <2>5
    <3>4. /\ rows'[job'[q].wiki][x].text = job'[q].chunks[x].text
          /\ rows'[job'[q].wiki][x].fingerprint = job'[q].fingerprint
      BY <1>8, <3>2, <3>3
    <3>5. InHand(job'[q], x, rows'[job'[q].wiki][x])
      BY <3>2, <3>4 DEF InHand
    <3> QED BY <2>2, <3>5
  <2>6. CASE ~(job[q].wiki = n /\ x \in job[p].pending)
    <3>1. rows'[job[q].wiki][x] = rows[job[q].wiki][x]
      BY <1>6, <1>7, <2>3, <2>4, <2>6
    <3> QED BY <2>2, <3>1
  <2> QED BY <2>5, <2>6
<1>11. ASSUME NEW q \in Proc, job'[q].op = "index", job'[q].step # "scan",
              NEW x \in job'[q].scope \ job'[q].disturbed
       PROVE  /\ Mirrors(job'[q], x, pages'[job'[q].root][x])
              /\ InHand(job'[q], x, rows'[job'[q].wiki][x])
  BY <1>4, <1>9, <1>10, <1>11
<1> QED BY <1>11, RightIf

LEMMA GoneDoes ==
  ASSUME Types, NEW p \in Proc, Finish(p), NEW x \in Page
  PROVE  /\ rows'[job[p].wiki][x] = IF x \in Gone(job[p]) THEN NoRow ELSE rows[job[p].wiki][x]
         /\ x \in Gone(job[p]) => rows[job[p].wiki][x].fingerprint # job[p].fingerprint
         /\ job[p].scope = Page => rows'[job[p].wiki][x] = NoRow
                                   \/ rows'[job[p].wiki][x].fingerprint = job[p].fingerprint
<1> DEFINE n == job[p].wiki
           row == rows[n][x]
<1>1. n \in Name
  BY FinishDoes DEF IndexJob
<1>2. rows' = [rows EXCEPT ![n] = Purged(job[p])]
  BY FinishDoes
<1>3. rows'[n] = Purged(job[p])
  BY <1>1, <1>2, OneWikisRows
<1>4. Purged(job[p])[x] = IF job[p].scope = Page /\ row.fingerprint # job[p].fingerprint THEN NoRow ELSE row
  BY DEF Purged
<1>5. x \in Gone(job[p]) <=> Purged(job[p])[x] # row
  BY DEF Gone
<1> HIDE DEF row
<1>6. rows'[n][x] = IF x \in Gone(job[p]) THEN NoRow ELSE row
  BY <1>3, <1>4, <1>5
<1>7. x \in Gone(job[p]) => row.fingerprint # job[p].fingerprint
  BY <1>4, <1>5
<1>8. job[p].scope = Page => rows'[n][x] = NoRow \/ rows'[n][x].fingerprint = job[p].fingerprint
  BY <1>3, <1>4
<1> QED BY <1>6, <1>7, <1>8 DEF row

LEMMA FinishIsRight ==
  ASSUME Types, RunsAreRight, NEW p \in Proc, Finish(p)
  PROVE  RunsAreRight'
<1> DEFINE n == job[p].wiki
<1>1. /\ n \in Name /\ \A q \in Proc \ {p} : GoesOn(q)
      /\ job'[p].op = "index" => job'[p].step = "scan"
  BY FinishDoes DEF IndexJob
<1>2. UNCHANGED pages
  BY DEF Finish
<1>3. \A m \in Name : m # n => rows'[m] = rows[m]
  <2>1. rows' = [rows EXCEPT ![n] = Purged(job[p])]
    BY FinishDoes
  <2> QED BY <1>1, <2>1, OneWikisRows
<1>4. ASSUME NEW q \in Proc, job'[q].op = "index", job'[q].step # "scan",
             NEW x \in job'[q].scope \ job'[q].disturbed
      PROVE  /\ Mirrors(job'[q], x, pages'[job'[q].root][x])
             /\ InHand(job'[q], x, rows'[job'[q].wiki][x])
  <2>1. q # p /\ GoesOn(q)
    BY <1>1, <1>4
  <2>2. /\ job'[q].wiki = job[q].wiki /\ job'[q].root = job[q].root
        /\ Mirrors(job'[q], x, pages[job[q].root][x])
        /\ InHand(job'[q], x, rows[job[q].wiki][x])
    BY <1>4, <2>1, AsItWas
  <2>3. /\ job[q] \in IndexJob /\ job[q].op = "index" /\ x \in job[q].scope /\ x \in Page
        /\ job'[q].fingerprint = job[q].fingerprint
    BY <1>4, <2>1, AsItWas
  <2>4. job[q].wiki \in Name
    BY <2>3 DEF IndexJob
  <2>5. CASE job[q].wiki = n /\ x \in Gone(job[p])
    <3>1. Agree(job[p], job[q], x)
      BY <1>4, <2>1, <2>3, <2>5, FinishDoes
    <3>2. job'[q].fingerprint = job[p].fingerprint
      BY <2>3, <3>1 DEF Agree
    <3>3. rows'[job'[q].wiki][x] = NoRow /\ rows[job[q].wiki][x].fingerprint # job[p].fingerprint
      BY <2>2, <2>3, <2>5, GoneDoes
    <3>4. InHand(job'[q], x, rows'[job'[q].wiki][x])
      BY <2>2, <3>2, <3>3 DEF InHand
    <3> QED BY <1>2, <2>2, <3>4
  <2>6. CASE ~(job[q].wiki = n /\ x \in Gone(job[p]))
    <3>1. rows'[job[q].wiki][x] = rows[job[q].wiki][x]
      BY <1>3, <2>3, <2>4, <2>6, GoneDoes
    <3> QED BY <1>2, <2>2, <3>1
  <2> QED BY <2>5, <2>6
<1> QED BY <1>4, RightIf

LEMMA RightStep ==
  ASSUME Types, RunsAreRight, Next
  PROVE  RunsAreRight'
<1>1. ASSUME NEW r \in Root, NEW x \in Page, NEW c \in Content, Edit(r, x, c) PROVE RunsAreRight'
  BY <1>1, EditIsRight
<1>2. ASSUME NEW f \in Preset, ChooseModel(f) PROVE RunsAreRight'
  <2>1. UNCHANGED <<pages, rows, job>>
    BY <1>2 DEF ChooseModel, store
  <2> QED BY <2>1, QuietStep DEF GoesOn
<1>3. ASSUME ResetStore PROVE RunsAreRight'
  <2>1. \A q \in Proc : job'[q].op = "index" => job'[q].disturbed = job'[q].scope
    BY <1>3, ResetDoes
  <2> QED BY <2>1, RightIf
<1>4. ASSUME UNCHANGED <<pages, rows>>, NEW p \in Proc,
             \A q \in Proc \ {p} : GoesOn(q), job'[p].op # "index" \/ job'[p].step = "scan"
      PROVE  RunsAreRight'
  <2>1. \A q \in Proc : GoesOn(q) \/ job'[q].op # "index" \/ job'[q].step = "scan"
    BY <1>4
  <2> QED BY <1>4, <2>1, QuietStep
<1>5. ASSUME NEW p \in Proc, NEW written, ReadRegistry(p, written), WellFormed(written), Carries(registry, written),
             \A e \in registry : \E d \in written : d.name = e.name
      PROVE  RunsAreRight'
  <2>1. JobBecomes(p, Rewriting(written, {}))
    BY <1>5, ReadRegistryDoes
  <2>2. job'[p].op # "index" /\ \A q \in Proc \ {p} : GoesOn(q)
    BY <2>1 DEF JobBecomes, Rewriting
  <2>3. UNCHANGED <<pages, rows>>
    BY <1>5 DEF ReadRegistry, store
  <2> QED BY <1>4, <2>2, <2>3
<1>6. ASSUME NEW p \in Proc, WriteRegistry(p) PROVE RunsAreRight'
  <2>1. JobBecomes(p, Adopting(job[p].todo))
    BY <1>6, WriteRegistryDoes
  <2>2. job'[p].op # "index" /\ \A q \in Proc \ {p} : GoesOn(q)
    BY <2>1 DEF JobBecomes, Adopting, Idle
  <2>3. UNCHANGED <<pages, rows>>
    BY <1>6 DEF WriteRegistry, store
  <2> QED BY <1>4, <2>2, <2>3
<1>7. ASSUME NEW p \in Proc, Discover(p) PROVE RunsAreRight'
  <2>1. JobBecomes(p, Adopting(Discovered(registry)))
    BY <1>7, DiscoverDoes
  <2>2. job'[p].op # "index" /\ \A q \in Proc \ {p} : GoesOn(q)
    BY <2>1 DEF JobBecomes, Adopting, Idle
  <2>3. UNCHANGED <<pages, rows>>
    BY <1>7 DEF Discover, store
  <2> QED BY <1>4, <2>2, <2>3
<1>8. ASSUME NEW p \in Proc, NEW r \in Root, Adopt(p, r) PROVE RunsAreRight'
  <2>1. job'[p].op # "index" /\ \A q \in Proc \ {p} : GoesOn(q)
    BY <1>8, AdoptDoes
  <2>2. UNCHANGED <<pages, rows>>
    BY <1>8 DEF Adopt, store
  <2> QED BY <1>4, <2>1, <2>2
<1>9. ASSUME NEW p \in Proc, NEW n \in Name, Remove(p, n) PROVE RunsAreRight'
  BY <1>9, RemoveIsRight
<1>10. ASSUME NEW p \in Proc, Unregister(p) PROVE RunsAreRight'
  <2>1. JobBecomes(p, Rewriting(Unregistered(registry, job[p].wiki), {})) /\ job'[p].op = "registry"
    BY <1>10, UnregisterDoes
  <2>2. \A q \in Proc \ {p} : GoesOn(q)
    BY <2>1 DEF JobBecomes
  <2>3. UNCHANGED <<pages, rows>>
    BY <1>10 DEF Unregister, store
  <2> QED BY <1>4, <2>1, <2>2, <2>3
<1>11. ASSUME NEW p \in Proc, NEW e \in registry, NEW scope \in SUBSET Page, NEW todo \in SUBSET registry,
              job' = [job EXCEPT ![p] = Run(e, scope, Fingerprint, todo)], UNCHANGED <<pages, rows>>
       PROVE  RunsAreRight'
  <2>1. job'[p].step = "scan" /\ \A q \in Proc \ {p} : GoesOn(q)
    BY <1>11, BeginDoes DEF GoesOn
  <2> QED BY <1>4, <1>11, <2>1
<1>12. ASSUME NEW p \in Proc, NEW e \in registry, NEW todo \in SUBSET registry, Rebuild(p, e, todo)
       PROVE  RunsAreRight'
  <2>1. job' = [job EXCEPT ![p] = Run(e, Page, Fingerprint, todo)] /\ Page \in SUBSET Page
    BY <1>12 DEF Rebuild
  <2>2. UNCHANGED <<pages, rows>>
    BY <1>12 DEF Rebuild, store
  <2> QED BY <1>11, <2>1, <2>2
<1>13. ASSUME NEW p \in Proc, NEW e \in registry, NEW scope \in SUBSET Page, Reindex(p, e, scope)
       PROVE  RunsAreRight'
  <2>1. job' = [job EXCEPT ![p] = Run(e, scope, Fingerprint, {})] /\ {} \in SUBSET registry
    BY <1>13 DEF Reindex
  <2>2. UNCHANGED <<pages, rows>>
    BY <1>13 DEF Reindex, store
  <2> QED BY <1>11, <2>1, <2>2
<1>14. ASSUME NEW p \in Proc, Scan(p) PROVE RunsAreRight'
  BY <1>14, ScanIsRight
<1>15. ASSUME NEW p \in Proc, Prune(p) PROVE RunsAreRight'
  BY <1>15, PruneIsRight
<1>16. ASSUME NEW p \in Proc, Upsert(p) PROVE RunsAreRight'
  BY <1>16, UpsertIsRight
<1>17. ASSUME NEW p \in Proc, Finish(p) PROVE RunsAreRight'
  BY <1>17, FinishIsRight
<1>18. ASSUME NEW p \in Proc, Abandon(p) PROVE RunsAreRight'
  <2>1. (job'[p].op # "index" \/ job'[p].step = "scan") /\ \A q \in Proc \ {p} : GoesOn(q)
    BY <1>18, AbandonDoes DEF GoesOn
  <2>2. UNCHANGED <<pages, rows>>
    BY <1>18 DEF Abandon, store
  <2> QED BY <1>4, <2>1, <2>2
<1> QED
  BY <1>1, <1>2, <1>3, <1>5, <1>6, <1>7, <1>8, <1>9, <1>10, <1>12, <1>13, <1>14, <1>15, <1>16, <1>17, <1>18,
     StepIsAnAction DEF StepOf

-----------------------------------------------------------------------------
(* What an undisturbed run has left.                                       *)

\* A page that holds c and its row, after a run under identity f, of the whole wiki or not.
Good(c, row, f, whole) ==
    IF Active(c) THEN row.text = c.text /\ row.fingerprint = f
    ELSE row = NoRow \/ (~whole /\ row.fingerprint # f)

LEMMA ExactIsGood ==
  ASSUME Types
  PROVE  /\ \A e \in exact : e[1] \in Name /\ e[2] \in Root /\ e[4] \in Page
         /\ UndisturbedRunsAreExact => \A e \in exact : Good(pages[e[2]][e[4]], rows[e[1]][e[4]], e[3], e[5])
         /\ (\A e \in exact' : Good(pages'[e[2]][e[4]], rows'[e[1]][e[4]], e[3], e[5]))
               => UndisturbedRunsAreExact'
<1>1. \A e \in exact : e[1] \in Name /\ e[2] \in Root /\ e[4] \in Page
  BY DEF Types
<1>2. UndisturbedRunsAreExact => \A e \in exact : Good(pages[e[2]][e[4]], rows[e[1]][e[4]], e[3], e[5])
  BY DEF UndisturbedRunsAreExact, Good
<1>3. (\A e \in exact' : Good(pages'[e[2]][e[4]], rows'[e[1]][e[4]], e[3], e[5])) => UndisturbedRunsAreExact'
  BY DEF UndisturbedRunsAreExact, Good
<1> QED BY <1>1, <1>2, <1>3

\* It stays so where neither the page nor the row changes.
LEMMA ExactStays ==
  ASSUME Types, UndisturbedRunsAreExact, exact' \subseteq exact,
         \A e \in exact' : pages'[e[2]][e[4]] = pages[e[2]][e[4]] /\ rows'[e[1]][e[4]] = rows[e[1]][e[4]]
  PROVE  UndisturbedRunsAreExact'
<1>1. \A e \in exact' : Good(pages'[e[2]][e[4]], rows'[e[1]][e[4]], e[3], e[5])
  BY ExactIsGood
<1> QED BY <1>1, ExactIsGood

\* What a run removes or stores is taken from the history.
LEMMA ExactElsewhere ==
  ASSUME Types, UndisturbedRunsAreExact, NEW n \in Name, NEW xs, UNCHANGED pages, exact' \subseteq exact,
         \A e \in exact' : e[1] # n \/ e[4] \notin xs,
         \A x \in Page \ xs : rows'[n][x] = rows[n][x],
         \A m \in Name : m # n => rows'[m] = rows[m]
  PROVE  UndisturbedRunsAreExact'
<1>1. ASSUME NEW e \in exact' PROVE rows'[e[1]][e[4]] = rows[e[1]][e[4]]
  <2>1. e[1] \in Name /\ e[4] \in Page /\ (e[1] # n \/ e[4] \notin xs)
    BY ExactIsGood
  <2> QED BY <2>1
<1> QED BY <1>1, ExactStays

LEMMA FinishIsExact ==
  ASSUME Types, RunsAreRight, UndisturbedRunsAreExact, NEW p \in Proc, Finish(p)
  PROVE  UndisturbedRunsAreExact'
<1> DEFINE j == job[p]
           new(x) == <<j.wiki, j.root, j.fingerprint, x, j.scope = Page>>
<1>1. /\ j \in IndexJob /\ j.step = "finish" /\ j.wiki \in Name /\ j.scope \in SUBSET Page /\ j.op = "index"
      /\ UNCHANGED pages
  BY FinishDoes, ZenonT(60) DEF IndexJob, Finish
<1>2. \A m \in Name : m # j.wiki => rows'[m] = rows[m]
  <2>1. rows' = [rows EXCEPT ![j.wiki] = Purged(j)]
    BY FinishDoes
  <2> QED BY <1>1, <2>1, OneWikisRows
<1>3. \A e \in exact' : \/ e \in exact /\ (e[1] # j.wiki \/ e[4] \notin Gone(j))
                        \/ \E x \in j.scope \ j.disturbed : e = new(x)
  BY FinishDoes
<1>4. ASSUME NEW e \in exact, e[1] # j.wiki \/ e[4] \notin Gone(j)
      PROVE  Good(pages'[e[2]][e[4]], rows'[e[1]][e[4]], e[3], e[5])
  <2>1. e[1] \in Name /\ e[4] \in Page /\ Good(pages[e[2]][e[4]], rows[e[1]][e[4]], e[3], e[5])
    BY ExactIsGood
  <2>2. rows'[e[1]][e[4]] = rows[e[1]][e[4]]
    BY <1>2, <1>4, <2>1, GoneDoes
  <2> QED BY <1>1, <2>1, <2>2
<1>5. ASSUME NEW x \in j.scope \ j.disturbed
      PROVE  Good(pages'[j.root][x], rows'[j.wiki][x], j.fingerprint, j.scope = Page)
  <2> DEFINE c == pages[j.root][x]
             row == rows[j.wiki][x]
             next == rows'[j.wiki][x]
  <2>1. Mirrors(j, x, c) /\ InHand(j, x, row) /\ x \in Page
    BY <1>1, <1>5 DEF RunsAreRight
  <2>2. /\ next = IF x \in Gone(j) THEN NoRow ELSE row
        /\ x \in Gone(j) => row.fingerprint # j.fingerprint
        /\ j.scope = Page => next = NoRow \/ next.fingerprint = j.fingerprint
    BY <2>1, GoneDoes
  <2>3. pages'[j.root][x] = c
    BY <1>1
  <2> HIDE DEF c, row, next
  <2>4. CASE Active(c)
    <3>1. row.text = c.text /\ row.fingerprint = j.fingerprint
      BY <1>1, <2>1, <2>4 DEF Mirrors, InHand
    <3>2. next = row
      BY <2>2, <3>1
    <3> QED BY <2>3, <2>4, <3>1, <3>2 DEF Good, next
  <2>5. CASE ~Active(c)
    <3>1. row = NoRow \/ row.fingerprint # j.fingerprint
      BY <1>1, <2>1, <2>5 DEF Mirrors, InHand
    <3>2. next = NoRow \/ (j.scope # Page /\ next.fingerprint # j.fingerprint)
      BY <2>2, <3>1
    <3> QED BY <2>3, <2>5, <3>2 DEF Good, next
  <2> QED BY <2>4, <2>5
<1>6. ASSUME NEW e \in exact' PROVE Good(pages'[e[2]][e[4]], rows'[e[1]][e[4]], e[3], e[5])
  <2>1. CASE e \in exact /\ (e[1] # j.wiki \/ e[4] \notin Gone(j))
    BY <1>4, <2>1
  <2>2. CASE \E x \in j.scope \ j.disturbed : e = new(x)
    <3>1. PICK x \in j.scope \ j.disturbed : e = new(x)
      BY <2>2
    <3>2. e[1] = j.wiki /\ e[2] = j.root /\ e[3] = j.fingerprint /\ e[4] = x
      BY <3>1
    <3>3. e[5] = (j.scope = Page)
      BY <3>1
    <3>4. Good(pages'[j.root][x], rows'[j.wiki][x], j.fingerprint, j.scope = Page)
      BY <1>5, <3>1
    <3> QED BY <3>2, <3>3, <3>4
  <2> QED BY <1>3, <2>1, <2>2
<1> QED BY <1>6, ExactIsGood, SMTT(40)

LEMMA ExactStep ==
  ASSUME Types, RunsAreRight, UndisturbedRunsAreExact, Next
  PROVE  UndisturbedRunsAreExact'
<1>1. ASSUME NEW r \in Root, NEW x \in Page, NEW c \in Content, Edit(r, x, c) PROVE UndisturbedRunsAreExact'
  <2>1. /\ exact' = {e \in exact : e[2] # r \/ e[4] # x} /\ UNCHANGED rows
        /\ pages' = [pages EXCEPT ![r][x] = c]
    BY <1>1 DEF Edit, store
  <2>2. ASSUME NEW e \in exact' PROVE pages'[e[2]][e[4]] = pages[e[2]][e[4]]
    <3>1. e[2] \in Root /\ e[4] \in Page /\ (e[2] # r \/ e[4] # x)
      BY <2>1, ExactIsGood
    <3> QED BY <2>1, <3>1 DEF Types
  <2> QED BY <2>1, <2>2, ExactStays
<1>2. ASSUME UNCHANGED <<pages, rows, exact>> PROVE UndisturbedRunsAreExact'
  BY <1>2, ExactStays
<1>3. ASSUME NEW f \in Preset, ChooseModel(f) PROVE UndisturbedRunsAreExact'
  BY <1>2, <1>3 DEF ChooseModel, store, history
<1>4. ASSUME ResetStore PROVE UndisturbedRunsAreExact'
  <2>1. exact' = {}
    BY <1>4 DEF ResetStore
  <2> QED BY <2>1 DEF UndisturbedRunsAreExact
<1>5. ASSUME NEW p \in Proc, NEW written, ReadRegistry(p, written) PROVE UndisturbedRunsAreExact'
  BY <1>2, <1>5 DEF ReadRegistry, store, history
<1>6. ASSUME NEW p \in Proc, WriteRegistry(p) \/ Discover(p) \/ Unregister(p) PROVE UndisturbedRunsAreExact'
  BY <1>2, <1>6 DEF WriteRegistry, Discover, Unregister, store, history
<1>7. ASSUME NEW p \in Proc, NEW r \in Root, Adopt(p, r) PROVE UndisturbedRunsAreExact'
  BY <1>2, <1>7 DEF Adopt, store, history
<1>8. ASSUME NEW p \in Proc, NEW n \in Name, Remove(p, n) PROVE UndisturbedRunsAreExact'
  <2>1. /\ exact' = {e \in exact : e[1] # n} /\ UNCHANGED pages
        /\ rows' = [rows EXCEPT ![n] = [x \in Page |-> NoRow]]
    BY <1>8 DEF Remove, WikiPurged
  <2>2. ASSUME NEW e \in exact' PROVE rows'[e[1]] = rows[e[1]]
    BY <2>1, ExactIsGood DEF Types
  <2> QED BY <2>1, <2>2, ExactStays
<1>9. ASSUME NEW p \in Proc, NEW e \in registry, NEW todo \in SUBSET registry, Rebuild(p, e, todo)
      PROVE  UndisturbedRunsAreExact'
  BY <1>2, <1>9 DEF Rebuild, store
<1>10. ASSUME NEW p \in Proc, NEW e \in registry, NEW scope \in SUBSET Page, Reindex(p, e, scope)
       PROVE  UndisturbedRunsAreExact'
  BY <1>2, <1>10 DEF Reindex, store
<1>11. ASSUME NEW p \in Proc, Scan(p) PROVE UndisturbedRunsAreExact'
  BY <1>2, <1>11 DEF Scan, store, history
<1>13. ASSUME NEW p \in Proc, Prune(p) PROVE UndisturbedRunsAreExact'
  <2> DEFINE n == job[p].wiki
             xs == job[p].removed
             R == [x \in Page |-> IF x \in xs THEN NoRow ELSE rows[n][x]]
  <2>1. rows' = [rows EXCEPT ![n] = R] /\ Stores(p, job[p].removed, "embed")
    BY <1>13, PruneDoes
  <2>2. n \in Name
    BY <2>1 DEF Stores, Onward, IndexJob
  <2>3. \A x \in Page \ xs : R[x] = rows[n][x]
    OBVIOUS
  <2>4. UNCHANGED pages /\ exact' \subseteq exact /\ \A e \in exact' : e[1] # n \/ e[4] \notin xs
    BY <1>13 DEF Prune
  <2> HIDE DEF R, n, xs
  <2>5. rows'[n] = R /\ \A m \in Name : m # n => rows'[m] = rows[m]
    BY <2>1, <2>2, OneWikisRows
  <2>6. \A x \in Page \ xs : rows'[n][x] = rows[n][x]
    BY <2>3, <2>5
  <2> QED BY <2>2, <2>4, <2>5, <2>6, ExactElsewhere
<1>14. ASSUME NEW p \in Proc, Upsert(p) PROVE UndisturbedRunsAreExact'
  <2> DEFINE n == job[p].wiki
             xs == job[p].pending
             R == [x \in Page |-> IF x \in xs THEN Embedded(job[p], x) ELSE rows[n][x]]
  <2>1. rows' = [rows EXCEPT ![n] = R] /\ Stores(p, job[p].pending, "finish")
    BY <1>14, UpsertDoes
  <2>2. n \in Name
    BY <2>1 DEF Stores, Onward, IndexJob
  <2>3. \A x \in Page \ xs : R[x] = rows[n][x]
    OBVIOUS
  <2>4. UNCHANGED pages /\ exact' \subseteq exact /\ \A e \in exact' : e[1] # n \/ e[4] \notin xs
    BY <1>14 DEF Upsert
  <2> HIDE DEF R, n, xs
  <2>5. rows'[n] = R /\ \A m \in Name : m # n => rows'[m] = rows[m]
    BY <2>1, <2>2, OneWikisRows
  <2>6. \A x \in Page \ xs : rows'[n][x] = rows[n][x]
    BY <2>3, <2>5
  <2> QED BY <2>2, <2>4, <2>5, <2>6, ExactElsewhere
<1>15. ASSUME NEW p \in Proc, Finish(p) PROVE UndisturbedRunsAreExact'
  BY <1>15, FinishIsExact
<1>16. ASSUME NEW p \in Proc, Abandon(p) PROVE UndisturbedRunsAreExact'
  BY <1>2, <1>16 DEF Abandon, store, history
<1> QED
  BY <1>1, <1>3, <1>4, <1>5, <1>6, <1>7, <1>8, <1>9, <1>10, <1>11, <1>13, <1>14, <1>15, <1>16, StepIsAnAction
     DEF StepOf

-----------------------------------------------------------------------------
(* The inductive invariant.                                                *)

LEMMA InitInv ==
  ASSUME Init
  PROVE  IndexInv
<1>1. /\ pages = Initially /\ setting \in Settings /\ registry = Registry /\ rows = EmptyStore
      /\ state = [n \in Name |-> "none"] /\ job = [p \in Proc |-> Idle] /\ exact = {} /\ shaky = {}
  BY DEF Init
<1>2. \A p \in Proc : job[p] = Idle /\ job[p].op = "idle"
  BY <1>1 DEF Idle
<1>3. \A n \in Name, x \in Page : rows[n][x] = NoRow
  BY <1>1 DEF EmptyStore
<1>4. Types
  <2>1. job \in [Proc -> AnyJob] /\ \A p \in Proc : Fits(job[p])
    BY <1>1, <1>2 DEF AnyJob, Fits
  <2>2. rows \in [Name -> [Page -> Row \cup {NoRow}]]
    BY <1>1 DEF EmptyStore
  <2>3. WellFormed(registry)
    BY <1>1, IndexIsConfigured DEF WellFormed, Entry
  <2>4. pages \in [Root -> [Page -> Content]] /\ setting \in Preset \cup {"default"}
    BY <1>1, IndexIsConfigured
  <2>5. state \in [Name -> Preset \cup {"none"}]
    BY <1>1
  <2> QED BY <1>1, <2>1, <2>2, <2>3, <2>4, <2>5 DEF Types
<1>5. Housed /\ Vacated
  BY <1>2, <1>3 DEF Housed, Vacated, Claims
<1>6. RunsAreRight /\ UndisturbedRunsAreExact
  BY <1>1, <1>2 DEF RunsAreRight, UndisturbedRunsAreExact
<1> QED BY <1>4, <1>5, <1>6 DEF IndexInv

LEMMA StepInv ==
  ASSUME IndexInv, [Next]_vars
  PROVE  IndexInv'
<1>1. Types /\ Housed /\ Vacated /\ RunsAreRight /\ UndisturbedRunsAreExact
  BY DEF IndexInv
<1>2. CASE Next
  <2>1. Types'
    BY <1>1, <1>2, TypesStep
  <2>2. Housed' /\ Vacated'
    BY <1>1, <1>2, HousedStep
  <2>3. RunsAreRight'
    BY <1>1, <1>2, RightStep
  <2>4. UndisturbedRunsAreExact'
    BY <1>1, <1>2, ExactStep
  <2> QED BY <2>1, <2>2, <2>3, <2>4 DEF IndexInv
<1>3. CASE UNCHANGED vars
  <2>1. UNCHANGED <<pages, setting, registry, rows, state, job, exact, shaky>>
    BY <1>3 DEF vars, store, history
  <2>2. Types'
    BY <1>1, <2>1 DEF Types, WellFormed
  <2>3. Housed'
    BY <1>1, <2>1 DEF Housed
  <2>4. Vacated'
    BY <1>1, <2>1 DEF Vacated
  <2>5. RunsAreRight'
    BY <1>1, <2>1 DEF RunsAreRight
  <2>6. UndisturbedRunsAreExact'
    BY <1>1, <2>1 DEF UndisturbedRunsAreExact
  <2> QED BY <2>2, <2>3, <2>4, <2>5, <2>6 DEF IndexInv
<1> QED BY <1>2, <1>3

\* Names and roots stay together, and runs are right, whatever is registered, removed,
\* edited, indexed, lost or abandoned, and in whatever order.
THEOREM IndexIsKept == Spec => []IndexInv
<1>1. Init => IndexInv
  BY InitInv
<1>2. IndexInv /\ [Next]_vars => IndexInv'
  BY StepInv
<1> QED BY <1>1, <1>2, PTL DEF Spec

\* Every variable of the index has its type: the registry holds entries, and each row is
\* one that an embedder of the presets made of an active claim, or there is none.
THEOREM IndexTypeCorrect == Spec => []TypeOK
<1>1. IndexInv => TypeOK
  <2> SUFFICES ASSUME IndexInv PROVE TypeOK
    OBVIOUS
  <2>1. /\ pages \in [Root -> [Page -> Content]] /\ setting \in Preset \cup {"default"}
        /\ rows \in [Name -> [Page -> Row \cup {NoRow}]] /\ state \in [Name -> Preset \cup {"none"}]
        /\ job \in [Proc -> AnyJob]
    BY DEF IndexInv, Types
  <2>2. registry \subseteq [name : Name, root : Root, enabled : BOOLEAN]
    BY DEF IndexInv, Types, WellFormed, Entry
  <2>3. \A p \in Proc : job[p].op \in {"idle", "registry", "adopt", "unregister", "index"}
    BY <2>1 DEF AnyJob, Idle, RegistryJob, AdoptJob, UnregisterJob, IndexJob
  <2>4. \A n \in Name : state[n] \in Preset \cup {"none"} /\ \A x \in Page : rows[n][x] \in Row \cup {NoRow}
    BY <2>1
  <2> QED BY <2>1, <2>2, <2>3, <2>4 DEF TypeOK
<1> QED BY <1>1, IndexIsKept, PTL

\* The rows found under the name of a wiki are of its own pages, and no other wiki has its
\* name, unless an update of the registry was lost or the wiki was removed under a run.
THEOREM RowsAreOfTheirWiki == Spec => []RowsStayHome
<1>1. IndexInv /\ TypeOK => RowsStayHome
  <2> SUFFICES ASSUME IndexInv, TypeOK PROVE RowsStayHome
    OBVIOUS
  <2>1. WellFormed(registry) /\ Housed /\ rows \in [Name -> [Page -> Row \cup {NoRow}]]
    BY DEF IndexInv, Types
  <2>2. ASSUME NEW e \in registry, e.name \notin shaky, NEW x \in Page, rows[e.name][x] # NoRow
        PROVE  rows[e.name][x].root = e.root
    <3>1. e.name \in Name /\ e.root \in Root
      BY <2>1 DEF WellFormed, Entry
    <3>2. rows[e.name][x].root \in Root
      BY <2>1, <2>2, <3>1 DEF Row
    <3>3. Lists(registry, e.name, rows[e.name][x].root)
      BY <2>1, <2>2, <3>1, <3>2 DEF Housed
    <3> QED BY <2>1, <3>3 DEF Lists, WellFormed
  <2>3. \A d, e \in registry : d.name = e.name \/ d.root = e.root => d = e
    BY <2>1 DEF WellFormed
  <2> QED BY <2>2, <2>3 DEF RowsStayHome
<1> QED BY <1>1, IndexIsKept, IndexTypeCorrect, PTL

\* What an undisturbed run left stays exact until the page or the row changes: the row of
\* an active claim holds its text under the identity of the run, and there is no row of
\* that identity for a page without one.
THEOREM UndisturbedRunsRepair == Spec => []UndisturbedRunsAreExact
<1>1. IndexInv => UndisturbedRunsAreExact
  BY DEF IndexInv
<1> QED BY <1>1, IndexIsKept, PTL

-----------------------------------------------------------------------------
(* The shared embedder, for any daemons, clients, models and number of     *)
(* faults.                                                                 *)

-----------------------------------------------------------------------------
(* Types *)

LEMMA EmbedderTypeInit == EmbedderInit => EmbedderTypeOK
  BY MaxFaultsIsNat, NoOneAndDead
     DEF EmbedderInit, EmbedderTypeOK, Owner, Starting, Serves

\* Of EmbedderTypeOK, the variables of the clients.
ClientsTyped ==
    /\ conn \in [Client -> Daemon \cup {NoOne}] /\ greeted \in [Client -> Daemon \cup {NoOne}]
    /\ sent \in [Caller -> Daemon \cup {NoOne}]
    /\ link \in [Client -> {"none", "reach", "check", "spawn", "wait", "verify"}]
    /\ call \in [Caller -> {"none", "join", "request"}]
    /\ retried \subseteq Caller /\ unvetted \subseteq Caller /\ vetted \subseteq Client
    /\ \A c \in Client : greeted[c] # NoOne => conn[c] # NoOne

ConnectedServe ==
    /\ \A c \in Client : conn[c] # NoOne => Serves(conn[c])
    /\ \A c \in Client : greeted[c] # NoOne => Serves(greeted[c])
    /\ \A k \in Caller : sent[k] # NoOne => Serves(sent[k])

LEMMA LoseTyped ==
    ASSUME ClientsTyped, NEW D, NEW F, NEW G, Lose(D, F, G)
    PROVE  ClientsTyped'
  BY DEF ClientsTyped, Lose

\* What is lost leaves no connection, and nothing is connected anew.
Lost(D, G) ==
    /\ \A c \in Client : c \in D => conn'[c] = NoOne /\ greeted'[c] = NoOne
    /\ \A c \in Client : c \notin D => conn'[c] = conn[c]
    /\ \A c \in Client : greeted'[c] \in {greeted[c], NoOne} /\ greeted'[c] \notin G
    /\ \A k \in Caller : sent'[k] \in {sent[k], NoOne} /\ sent'[k] \notin G
    /\ vetted' = vetted \ D
    /\ \A k \in Caller : k \in unvetted /\ k \notin unvetted' => sent'[k] = NoOne

LEMMA LoseFacts ==
    ASSUME ClientsTyped, NEW D, NEW F, NEW G \in SUBSET Daemon, Lose(D, F, G)
    PROVE  Lost(D, G)
  BY NoOneAndDead DEF ClientsTyped, Lose, Lost

\* Dropping sockets while the daemons stay as they are.
LEMMA DropServes ==
    ASSUME EmbedderTypeOK, NEW D, NEW F, Lose(D, F, {}), stage' = stage
    PROVE  ClientsTyped' /\ ConnectedServe'
  <1>1. ClientsTyped
    BY DEF EmbedderTypeOK, ClientsTyped
  <1>2. ClientsTyped'
    BY <1>1, LoseTyped
  <1>3. {} \in SUBSET Daemon
    OBVIOUS
  <1>4. Lost(D, {})
    BY <1>1, <1>3, LoseFacts
  <1> QED BY <1>2, <1>4 DEF EmbedderTypeOK, ConnectedServe, Serves, Lost

LEMMA VanishServes ==
    ASSUME EmbedderTypeOK, NEW d \in Daemon, Vanish(d), NEW s, Become(d, s)
    PROVE  /\ ClientsTyped' /\ ConnectedServe'
           /\ asked' \subseteq {e \in Daemon : Serves(e)'}
  <1>1. ClientsTyped
    BY DEF EmbedderTypeOK, ClientsTyped
  <1>2. PICK D : D = {c \in Client : conn[c] = d}
    OBVIOUS
  <1>3. PICK F : F = {c \in D : link[c] = "verify"}
    OBVIOUS
  <1>4. Lose(D, F, {d}) /\ {d} \in SUBSET Daemon
    BY <1>2, <1>3 DEF Vanish, Drop
  <1>5. ClientsTyped'
    BY <1>1, <1>4, LoseTyped
  <1>6. Lost(D, {d})
    BY <1>1, <1>4, LoseFacts
  <1>7. \A e \in Daemon : e # d => stage'[e] = stage[e]
    BY DEF EmbedderTypeOK, Become
  <1>8. ConnectedServe'
    <2>1. \A c \in Client : conn'[c] # NoOne => conn'[c] = conn[c] /\ conn'[c] # d
      BY <1>2, <1>6 DEF Lost
    <2>2. \A c \in Client : greeted'[c] # NoOne => greeted'[c] = greeted[c] /\ greeted'[c] # d
      BY <1>6 DEF Lost
    <2>3. \A k \in Caller : sent'[k] # NoOne => sent'[k] = sent[k] /\ sent'[k] # d
      BY <1>6 DEF Lost
    <2> QED BY <1>7, <2>1, <2>2, <2>3 DEF EmbedderTypeOK, ConnectedServe, Serves
  <1>9. asked' \subseteq {e \in Daemon : Serves(e)'}
    BY <1>7 DEF EmbedderTypeOK, Vanish, Serves
  <1> QED BY <1>5, <1>8, <1>9

LEMMA EndTyped ==
    ASSUME EmbedderTypeOK, NEW d \in Daemon, End(d)
    PROVE  /\ lock' \in Owner /\ path' \in Owner
           /\ stage' \in [Daemon -> Starting \cup {"free", "serve", "unlock"}]
           /\ asked' \subseteq {e \in Daemon : Serves(e)'}
           /\ ClientsTyped' /\ ConnectedServe'
  <1>1. /\ lock' \in Owner /\ path' \in Owner
        /\ stage' \in [Daemon -> Starting \cup {"free", "serve", "unlock"}]
    BY DEF EmbedderTypeOK, End, Become, Owner
  <1> QED BY <1>1, VanishServes DEF End

\* The parts of the type invariant put together.
LEMMA EmbedderTyped ==
    ASSUME ClientsTyped', ConnectedServe',
           lock' \in Owner, path' \in Owner,
           stage' \in [Daemon -> Starting \cup {"free", "serve", "unlock"}],
           model' \in [Daemon -> Identity],
           asked' \subseteq {e \in Daemon : Serves(e)'},
           killed' \in BOOLEAN, faults' \in 0 .. MaxFaults
    PROVE  EmbedderTypeOK'
  BY DEF EmbedderTypeOK, ClientsTyped, ConnectedServe

LEMMA BecomeTyped ==
    ASSUME EmbedderTypeOK, NEW d \in Daemon, ~Serves(d),
           NEW s \in Starting \cup {"free", "serve", "unlock"}, Become(d, s)
    PROVE  /\ stage' \in [Daemon -> Starting \cup {"free", "serve", "unlock"}]
           /\ \A e \in Daemon : Serves(e) => Serves(e)'
  BY DEF EmbedderTypeOK, Become, Starting, Serves

LEMMA EmbedderTypeStep == EmbedderTypeOK /\ [EmbedderNext]_embedderVars => EmbedderTypeOK'
  <1> SUFFICES ASSUME EmbedderTypeOK, [EmbedderNext]_embedderVars
               PROVE  EmbedderTypeOK'
    OBVIOUS
  <1> USE NoOneAndDead, MaxFaultsIsNat
  <1>1. ASSUME NEW d \in Daemon, DaemonStep(d)
        PROVE  EmbedderTypeOK'
    <2>1. CASE Loaded(d)
      BY <2>1, BecomeTyped DEF EmbedderTypeOK, Loaded, clientVars, callVars, Owner, Starting, Serves
    <2>2. CASE ReadPid(d)
      <3>1. CASE lock \in Daemon
        BY <2>2, <3>1, EndTyped, EmbedderTyped DEF EmbedderTypeOK, ReadPid, clientVars, callVars, Serves
      <3>2. CASE lock \notin Daemon
        BY <2>2, <3>2, BecomeTyped DEF EmbedderTypeOK, ReadPid, clientVars, callVars, Starting, Serves
      <3> QED BY <3>1, <3>2
    <2>3. CASE RemoveLock(d)
      BY <2>3, BecomeTyped DEF EmbedderTypeOK, RemoveLock, clientVars, callVars, Owner, Starting, Serves
    <2>4. CASE CreateLock(d)
      <3>1. CASE lock = NoOne
        BY <2>4, <3>1, BecomeTyped DEF EmbedderTypeOK, CreateLock, clientVars, callVars, Owner, Starting, Serves
      <3>2. CASE lock # NoOne
        BY <2>4, <3>2, EndTyped, EmbedderTyped DEF EmbedderTypeOK, CreateLock, clientVars, callVars, Serves
      <3> QED BY <3>1, <3>2
    <2>5. CASE Listen(d)
      BY <2>5, BecomeTyped DEF EmbedderTypeOK, Listen, clientVars, callVars, Owner, Starting, Serves
    <2>6. CASE Probe(d)
      <3>1. CASE StaleSocket
        BY <2>6, <3>1, BecomeTyped DEF EmbedderTypeOK, Probe, clientVars, callVars, Starting, Serves
      <3>2. CASE ~StaleSocket
        BY <2>6, <3>2, EndTyped, EmbedderTyped DEF EmbedderTypeOK, Probe, clientVars, callVars, Serves
      <3> QED BY <3>1, <3>2
    <2>7. CASE Unlink(d)
      <3>1. CASE path # NoOne
        BY <2>7, <3>1, BecomeTyped DEF EmbedderTypeOK, Unlink, clientVars, callVars, Owner, Starting, Serves
      <3>2. CASE path = NoOne
        BY <2>7, <3>2, EndTyped, EmbedderTyped DEF EmbedderTypeOK, Unlink, clientVars, callVars, Serves
      <3> QED BY <3>1, <3>2
    <2>8. CASE Relisten(d)
      <3>1. CASE path = NoOne
        BY <2>8, <3>1, BecomeTyped DEF EmbedderTypeOK, Relisten, clientVars, callVars, Owner, Starting, Serves
      <3>2. CASE path # NoOne
        BY <2>8, <3>2, EndTyped, EmbedderTyped DEF EmbedderTypeOK, Relisten, clientVars, callVars, Serves
      <3> QED BY <3>1, <3>2
    <2>9. CASE Unlock(d)
      BY <2>9, BecomeTyped DEF EmbedderTypeOK, Unlock, clientVars, callVars, Owner, Starting, Serves
    <2> QED BY <1>1, <2>1, <2>2, <2>3, <2>4, <2>5, <2>6, <2>7, <2>8, <2>9 DEF DaemonStep
  <1>2. ASSUME NEW d \in Daemon, Stop(d)
        PROVE  EmbedderTypeOK'
    <2>1. ClientsTyped' /\ ConnectedServe' /\ asked' \subseteq {e \in Daemon : Serves(e)'}
      BY <1>2, VanishServes DEF Stop
    <2>2. stage' \in [Daemon -> Starting \cup {"free", "serve", "unlock"}] /\ path' \in Owner
      BY <1>2 DEF EmbedderTypeOK, Stop, Become, Owner
    <2> QED BY <1>2, <2>1, <2>2, EmbedderTyped DEF EmbedderTypeOK, Stop
  <1>3. ASSUME NEW d \in Daemon, Kill(d)
        PROVE  EmbedderTypeOK'
    <2>1. killed' \in BOOLEAN /\ faults' \in 0 .. MaxFaults /\ model' \in [Daemon -> Identity]
      BY <1>3 DEF EmbedderTypeOK, Kill
    <2> QED BY <1>3, <2>1, EndTyped, EmbedderTyped DEF Kill
  <1>4. ASSUME NEW k \in Caller, Embed(k)
        PROVE  EmbedderTypeOK'
    <2>1. Host[k] \in Client
      BY CallersHaveClients
    <2> QED BY <1>4, <2>1 DEF EmbedderTypeOK, Embed, Proceed, serverVars, Serves
  <1>s. ASSUME NEW c \in Client, Succeed(c), greeted[c] # NoOne, UNCHANGED <<stage, asked, lock, path, model, killed, faults>>
        PROVE  EmbedderTypeOK'
    BY <1>s DEF EmbedderTypeOK, Succeed, Proceed, Serves
  <1>d. ASSUME NEW D, NEW F, Lose(D, F, {}), UNCHANGED <<stage, lock, path, model, killed>>,
               asked' \subseteq {e \in Daemon : Serves(e)}, faults' \in 0 .. MaxFaults
        PROVE  EmbedderTypeOK'
    <2>1. ClientsTyped' /\ ConnectedServe'
      BY <1>d, DropServes
    <2>2. asked' \subseteq {e \in Daemon : Serves(e)'}
      BY <1>d DEF Serves
    <2> QED BY <1>d, <2>1, <2>2, EmbedderTyped DEF EmbedderTypeOK
  <1>e. ASSUME NEW c \in Client, Drop({c}, {}), UNCHANGED <<stage, lock, path, model, killed>>,
               asked' \subseteq {e \in Daemon : Serves(e)}, faults' \in 0 .. MaxFaults
        PROVE  EmbedderTypeOK'
    <2>1. PICK F : F = {x \in {c} : link[x] = "verify"}
      OBVIOUS
    <2> QED BY <1>d, <1>e, <2>1 DEF Drop
  <1>5. ASSUME NEW c \in Client, ClientStep(c)
        PROVE  EmbedderTypeOK'
    <2>1. CASE Attach(c)
      BY <2>1 DEF EmbedderTypeOK, Attach, Attached, Proceed, Reachable, serverVars, callVars, Serves
    <2>2. CASE ReachFails(c)
      BY <2>2 DEF EmbedderTypeOK, ReachFails, Proceed, serverVars, callVars, Serves
    <2>3. CASE Check(c)
      <3>1. CASE Matches(c)
        BY <2>3, <3>1, <1>s DEF Check, Matches
      <3>2. CASE ~Matches(c)
        <4>1. asked' \subseteq {e \in Daemon : Serves(e)}
          BY <2>3, <3>2 DEF Check, EmbedderTypeOK
        <4> QED BY <2>3, <3>2, <4>1, <1>e DEF Check, EmbedderTypeOK
      <3> QED BY <3>1, <3>2
    <2>4. CASE Spawn(c)
      <3>1. PICK d \in Daemon : /\ ~Running(d)
                                /\ Become(d, "load")
                                /\ model' = [model EXCEPT ![d] = Wanted[c]]
        BY <2>4 DEF Spawn
      <3>2. ~Serves(d) /\ "load" \in Starting
        BY <3>1 DEF Running, Serves, Starting
      <3>3. model' \in [Daemon -> Identity]
        BY <3>1, WantedIdentities DEF EmbedderTypeOK
      <3> QED BY <2>4, <3>1, <3>2, <3>3, BecomeTyped DEF EmbedderTypeOK, Spawn, Proceed, callVars, Serves
    <2>5. CASE Verify(c)
      <3>1. CASE Matches(c)
        BY <2>5, <3>1, <1>s DEF Verify, Matches, serverVars
      <3>2. CASE ~Matches(c)
        BY <2>5, <3>2, <1>e DEF Verify, EmbedderTypeOK, serverVars
      <3> QED BY <3>1, <3>2
    <2>6. CASE GiveUp(c)
      <3>1. PICK D : Lose(D, {c}, {})
        BY <2>6 DEF GiveUp
      <3>2. PICK F : F = {c}
        OBVIOUS
      <3> QED BY <2>6, <3>1, <3>2, <1>d DEF GiveUp, EmbedderTypeOK, serverVars
    <2> QED BY <1>5, <2>1, <2>2, <2>3, <2>4, <2>5, <2>6 DEF ClientStep
  <1>r. ASSUME NEW k \in Caller, Return(k), UNCHANGED serverVars, faults' \in 0 .. MaxFaults
        PROVE  EmbedderTypeOK'
    BY <1>r DEF EmbedderTypeOK, Return, serverVars, Serves
  <1>6. ASSUME NEW k \in Caller, Answer(k)
        PROVE  EmbedderTypeOK'
    BY <1>6, <1>r DEF Answer, EmbedderTypeOK
  <1>7. ASSUME NEW k \in Caller, RequestFails(k)
        PROVE  EmbedderTypeOK'
    <2>1. faults' \in 0 .. MaxFaults
      BY <1>7 DEF EmbedderTypeOK, RequestFails, Fault
    <2>2. PICK c \in Client : c = Host[k]
      BY CallersHaveClients
    <2>3. Return(k) \/ Drop({c}, {})
      BY <1>7, <2>2 DEF RequestFails
    <2> QED BY <1>7, <2>1, <2>3, <1>r, <1>e DEF RequestFails, EmbedderTypeOK, serverVars
  <1>8. ASSUME NEW c \in Client, Peek(c)
        PROVE  EmbedderTypeOK'
    <2>1. CASE Reachable
      BY <1>8, <2>1 DEF EmbedderTypeOK, Peek, Attached, Reachable, serverVars, callVars, Serves
    <2>2. CASE ~Reachable
      BY <1>8, <2>2, <1>e DEF Peek, EmbedderTypeOK, serverVars
    <2> QED BY <2>1, <2>2
  <1>9. ASSUME NEW c \in Client, HelloFails(c)
        PROVE  EmbedderTypeOK'
    <2>1. faults' \in 0 .. MaxFaults
      BY <1>9 DEF EmbedderTypeOK, HelloFails, Fault
    <2> QED BY <1>9, <2>1, <1>e DEF HelloFails, EmbedderTypeOK, serverVars
  <1>10. ASSUME NEW c \in Client, StopEmbedder(c)
        PROVE  EmbedderTypeOK'
    <2>1. faults' \in 0 .. MaxFaults /\ asked' \subseteq {e \in Daemon : Serves(e)}
      BY <1>10 DEF EmbedderTypeOK, StopEmbedder, Fault, Reachable
    <2> QED BY <1>10, <2>1, <1>e DEF StopEmbedder, EmbedderTypeOK
  <1>11. CASE UNCHANGED embedderVars
    BY <1>11 DEF EmbedderTypeOK, embedderVars, serverVars, clientVars, callVars, Serves
  <1> QED BY <1>1, <1>2, <1>3, <1>4, <1>5, <1>6, <1>7, <1>8, <1>9, <1>10, <1>11 DEF EmbedderNext

\* Every variable keeps its type; what a client is connected to, and what is asked to
\* shut down, serves.
THEOREM EmbedderTypeCorrect == EmbedderSpec => []EmbedderTypeOK
  BY EmbedderTypeInit, EmbedderTypeStep, PTL DEF EmbedderSpec

-----------------------------------------------------------------------------
(* The handshake *)

\* What keeps foreign vectors away: a client whose connection was compared is connected to
\* a daemon of its own identity and attempts nothing, and a client that never peeks has
\* compared its connection or is about to.
ConnectionsAreChecked ==
    /\ \A c \in vetted : conn[c] # NoOne /\ link[c] = "none" /\ model[conn[c]] = Wanted[c]
    /\ \A c \in Client \ Peeking :
          /\ conn[c] # NoOne => c \in vetted \/ link[c] \in {"check", "verify"}
          /\ greeted[c] # NoOne => greeted[c] = conn[c]

VectorsMatch ==
    \A k \in Caller \ unvetted : sent[k] # NoOne => model[sent[k]] = Wanted[Host[k]]

HandshakeInv == EmbedderTypeOK /\ ConnectionsAreChecked /\ VectorsMatch

LEMMA HandshakeInit == EmbedderInit => HandshakeInv
  BY EmbedderTypeInit DEF EmbedderInit, HandshakeInv, ConnectionsAreChecked, VectorsMatch

\* Losing connections leaves those that stay as they are.
LEMMA LoseKeeps ==
    ASSUME HandshakeInv, model' = model,
           NEW D, NEW F, NEW G \in SUBSET Daemon, Lose(D, F, G),
           \A c \in F \cap Client : c \in D \/ link[c] = "wait"
    PROVE  ConnectionsAreChecked' /\ VectorsMatch'
  <1>t. ClientsTyped
    BY DEF HandshakeInv, EmbedderTypeOK, ClientsTyped
  <1>1. Lost(D, G)
    BY <1>t, LoseFacts
  <1>2. \A c \in Client : c \notin D /\ link[c] # "wait" => link'[c] = link[c]
    BY <1>t DEF Lose, ClientsTyped
  <1>3. VectorsMatch'
    BY <1>1 DEF HandshakeInv, VectorsMatch, Lost
  <1>4. ASSUME NEW c \in vetted'
        PROVE  conn'[c] # NoOne /\ link'[c] = "none" /\ model'[conn'[c]] = Wanted[c]
    <2>1. c \in vetted /\ c \in Client /\ c \notin D
      BY <1>1, <1>t, <1>4 DEF ClientsTyped, Lost
    <2>2. conn[c] # NoOne /\ link[c] = "none" /\ model[conn[c]] = Wanted[c]
      BY <2>1 DEF HandshakeInv, ConnectionsAreChecked
    <2>3. conn'[c] = conn[c] /\ link'[c] = link[c]
      BY <1>1, <1>2, <2>1, <2>2 DEF Lost
    <2> QED BY <2>2, <2>3
  <1>5. ASSUME NEW c \in Client \ Peeking, conn'[c] # NoOne
        PROVE  c \in vetted' \/ link'[c] \in {"check", "verify"}
    <2>1. c \notin D /\ conn[c] # NoOne
      BY <1>1, <1>5 DEF Lost
    <2>2. c \in vetted \/ link[c] \in {"check", "verify"}
      BY <2>1 DEF HandshakeInv, ConnectionsAreChecked
    <2>3. c \in vetted => c \in vetted'
      BY <1>1, <2>1 DEF Lost
    <2>4. link[c] \in {"check", "verify"} => link'[c] = link[c]
      BY <1>2, <2>1
    <2> QED BY <2>2, <2>3, <2>4
  <1>6. ASSUME NEW c \in Client \ Peeking, greeted'[c] # NoOne
        PROVE  greeted'[c] = conn'[c]
    <2>1. c \notin D /\ greeted'[c] = greeted[c] /\ conn'[c] = conn[c]
      BY <1>1, <1>6 DEF Lost
    <2>2. greeted[c] = conn[c]
      BY <1>6, <2>1 DEF HandshakeInv, ConnectionsAreChecked
    <2> QED BY <2>1, <2>2
  <1> QED BY <1>3, <1>4, <1>5, <1>6 DEF ConnectionsAreChecked

LEMMA DropKeeps ==
    ASSUME HandshakeInv, model' = model, NEW c \in Client, Drop({c}, {})
    PROVE  ConnectionsAreChecked' /\ VectorsMatch'
  <1>1. PICK D : D = {c}
    OBVIOUS
  <1>2. PICK F : F = {x \in D : link[x] = "verify"}
    OBVIOUS
  <1>3. {} \in SUBSET Daemon
    OBVIOUS
  <1> QED BY <1>1, <1>2, <1>3, LoseKeeps DEF Drop

LEMMA VanishKeeps ==
    ASSUME HandshakeInv, model' = model, NEW d \in Daemon, Vanish(d)
    PROVE  ConnectionsAreChecked' /\ VectorsMatch'
  <1>1. PICK D : D = {c \in Client : conn[c] = d}
    OBVIOUS
  <1>2. PICK F : F = {x \in D : link[x] = "verify"}
    OBVIOUS
  <1>3. Lose(D, F, {d}) /\ {d} \in SUBSET Daemon
    BY <1>1, <1>2 DEF Vanish, Drop
  <1> QED BY <1>2, <1>3, LoseKeeps

LEMMA DaemonStepDrops ==
    ASSUME NEW d \in Daemon, DaemonStep(d) \/ Stop(d) \/ Kill(d)
    PROVE  model' = model /\ (Vanish(d) \/ UNCHANGED clientVars)
  <1>1. CASE DaemonStep(d)
    BY <1>1 DEF DaemonStep, Loaded, ReadPid, RemoveLock, CreateLock, Listen, Probe, Unlink,
                Relisten, Unlock, End
  <1>2. CASE Stop(d)
    BY <1>2 DEF Stop
  <1>3. CASE Kill(d)
    BY <1>3 DEF Kill, End
  <1> QED BY <1>1, <1>2, <1>3

\* The calls that waited for an attempt use the connection that was compared, or are known
\* not to.
LEMMA SuccessKeeps ==
    ASSUME HandshakeInv, model' = model, NEW c \in Client, Matches(c), Succeed(c)
    PROVE  ConnectionsAreChecked' /\ VectorsMatch'
  <1>t. EmbedderTypeOK /\ Host \in [Caller -> Client]
    BY CallersHaveClients DEF HandshakeInv
  <1>1. \A x \in Client : x # c => link'[x] = link[x] /\ greeted'[x] = greeted[x]
    BY <1>t DEF Succeed, Proceed, EmbedderTypeOK
  <1>2. link'[c] = "none" /\ greeted'[c] = NoOne /\ conn' = conn /\ conn[c] # NoOne
    BY <1>t DEF Succeed, Proceed, EmbedderTypeOK, Matches
  <1>3. \A x \in Client : x # c => (x \in vetted' <=> x \in vetted)
    BY DEF Succeed
  <1>4. c \in vetted' => model[conn[c]] = Wanted[c]
    BY DEF Succeed, Matches, HandshakeInv, ConnectionsAreChecked
  <1>5. c \notin Peeking => c \in vetted'
    BY DEF Succeed, Matches, HandshakeInv, ConnectionsAreChecked
  <1>6. vetted' \subseteq Client
    BY <1>t DEF Succeed, EmbedderTypeOK
  <1>7. ConnectionsAreChecked'
    BY <1>1, <1>2, <1>3, <1>4, <1>5, <1>6 DEF HandshakeInv, ConnectionsAreChecked
  <1>8. ASSUME NEW k \in Caller \ unvetted', sent'[k] # NoOne
        PROVE  model[sent'[k]] = Wanted[Host[k]]
    <2>0. k \notin unvetted
      BY <1>8 DEF Succeed
    <2>1. CASE Host[k] = c /\ call[k] = "join"
      <3>1. conn[c] = greeted[c]
        BY <1>8, <2>1 DEF Succeed
      <3> QED BY <2>1, <3>1, <1>t DEF Succeed, EmbedderTypeOK, Matches
    <2>2. CASE ~(Host[k] = c /\ call[k] = "join")
      <3>1. sent'[k] = sent[k]
        BY <2>2, <1>t DEF Succeed, EmbedderTypeOK
      <3> QED BY <1>8, <2>0, <3>1 DEF HandshakeInv, VectorsMatch
    <2> QED BY <2>1, <2>2
  <1> QED BY <1>7, <1>8 DEF VectorsMatch

LEMMA HandshakeStep == HandshakeInv /\ [EmbedderNext]_embedderVars => HandshakeInv'
  <1> SUFFICES ASSUME HandshakeInv, [EmbedderNext]_embedderVars
               PROVE  ConnectionsAreChecked' /\ VectorsMatch'
    BY EmbedderTypeStep DEF HandshakeInv
  <1>t. EmbedderTypeOK /\ Host \in [Caller -> Client]
    BY CallersHaveClients DEF HandshakeInv
  <1>u. ASSUME UNCHANGED <<model, clientVars>>
        PROVE  ConnectionsAreChecked' /\ VectorsMatch'
    BY <1>u DEF HandshakeInv, ConnectionsAreChecked, VectorsMatch, clientVars, callVars
  <1>1. ASSUME NEW d \in Daemon, DaemonStep(d) \/ Stop(d) \/ Kill(d)
        PROVE  ConnectionsAreChecked' /\ VectorsMatch'
    BY <1>1, <1>u, DaemonStepDrops, VanishKeeps
  <1>2. ASSUME NEW k \in Caller, Embed(k)
        PROVE  ConnectionsAreChecked' /\ VectorsMatch'
    <2>1. UNCHANGED <<conn, greeted, vetted, model>>
      BY <1>2 DEF Embed, serverVars
    <2>2. \A c \in Client : conn[c] # NoOne \/ link[c] # "none" => link'[c] = link[c]
      BY <1>2, <1>t DEF Embed, Proceed, EmbedderTypeOK
    <2>3. vetted \subseteq Client
      BY <1>t DEF EmbedderTypeOK
    <2>4. ConnectionsAreChecked'
      BY <2>1, <2>2, <2>3 DEF HandshakeInv, ConnectionsAreChecked
    <2>5. ASSUME NEW j \in Caller \ unvetted', sent'[j] # NoOne
          PROVE  model[sent'[j]] = Wanted[Host[j]]
      <3>1. CASE j = k
        <4>1. sent'[k] = conn[Host[k]] /\ Host[k] \in vetted
          BY <1>2, <1>t, <2>5, <3>1 DEF Embed, EmbedderTypeOK
        <4> QED BY <3>1, <4>1 DEF HandshakeInv, ConnectionsAreChecked
      <3>2. CASE j # k
        <4>1. sent'[j] = sent[j] /\ j \notin unvetted
          BY <1>2, <1>t, <2>5, <3>2 DEF Embed, EmbedderTypeOK
        <4> QED BY <2>5, <4>1 DEF HandshakeInv, VectorsMatch
      <3> QED BY <3>1, <3>2
    <2> QED BY <2>1, <2>4, <2>5 DEF VectorsMatch
  <1>3. ASSUME NEW c \in Client, Attach(c)
        PROVE  ConnectionsAreChecked' /\ VectorsMatch'
    <2>1. UNCHANGED <<vetted, sent, unvetted, model>> /\ c \notin vetted
      BY <1>3 DEF Attach, serverVars, callVars, HandshakeInv, ConnectionsAreChecked
    <2>2. \A x \in Client : x # c => link'[x] = link[x] /\ greeted'[x] = greeted[x] /\ conn'[x] = conn[x]
      BY <1>3, <1>t DEF Attach, Attached, Proceed, EmbedderTypeOK
    <2>3. link'[c] \in {"check", "verify"} /\ greeted'[c] = conn'[c]
      BY <1>3, <1>t DEF Attach, Attached, Proceed, EmbedderTypeOK
    <2>4. vetted \subseteq Client
      BY <1>t DEF EmbedderTypeOK
    <2> QED BY <2>1, <2>2, <2>3, <2>4 DEF HandshakeInv, ConnectionsAreChecked, VectorsMatch
  <1>4. ASSUME NEW c \in Client, ReachFails(c)
        PROVE  ConnectionsAreChecked' /\ VectorsMatch'
    <2>1. UNCHANGED <<conn, greeted, vetted, sent, unvetted, model>> /\ c \notin vetted
      BY <1>4 DEF ReachFails, serverVars, callVars, HandshakeInv, ConnectionsAreChecked
    <2>2. \A x \in Client : x # c => link'[x] = link[x]
      BY <1>4, <1>t DEF ReachFails, Proceed, EmbedderTypeOK
    <2>3. c \notin Peeking => conn[c] = NoOne
      BY <1>4, <2>1 DEF ReachFails, HandshakeInv, ConnectionsAreChecked
    <2>4. vetted \subseteq Client
      BY <1>t DEF EmbedderTypeOK
    <2> QED BY <2>1, <2>2, <2>3, <2>4 DEF HandshakeInv, ConnectionsAreChecked, VectorsMatch
  <1>5. ASSUME NEW c \in Client, Check(c)
        PROVE  ConnectionsAreChecked' /\ VectorsMatch'
    BY <1>5, SuccessKeeps, DropKeeps DEF Check
  <1>6. ASSUME NEW c \in Client, Spawn(c)
        PROVE  ConnectionsAreChecked' /\ VectorsMatch'
    <2>1. PICK d \in Daemon : ~Running(d) /\ model' = [model EXCEPT ![d] = Wanted[c]]
      BY <1>6 DEF Spawn
    <2>2. \A x \in Client : conn[x] # NoOne => model'[conn[x]] = model[conn[x]]
      BY <2>1, <1>t DEF EmbedderTypeOK, Running, Serves
    <2>3. \A k \in Caller : sent[k] # NoOne => model'[sent[k]] = model[sent[k]]
      BY <2>1, <1>t DEF EmbedderTypeOK, Running, Serves
    <2>4. UNCHANGED <<conn, greeted, vetted, sent, unvetted>> /\ c \notin vetted
      BY <1>6 DEF Spawn, callVars, HandshakeInv, ConnectionsAreChecked
    <2>5. \A x \in Client : x # c => link'[x] = link[x]
      BY <1>6, <1>t DEF Spawn, Proceed, EmbedderTypeOK
    <2>6. c \notin Peeking => conn[c] = NoOne
      BY <1>6, <2>4 DEF Spawn, HandshakeInv, ConnectionsAreChecked
    <2>7. vetted \subseteq Client
      BY <1>t DEF EmbedderTypeOK
    <2> QED BY <2>2, <2>3, <2>4, <2>5, <2>6, <2>7 DEF HandshakeInv, ConnectionsAreChecked, VectorsMatch
  <1>7. ASSUME NEW c \in Client, Verify(c)
        PROVE  ConnectionsAreChecked' /\ VectorsMatch'
    BY <1>7, SuccessKeeps, DropKeeps DEF Verify, serverVars
  <1>8. ASSUME NEW c \in Client, GiveUp(c)
        PROVE  ConnectionsAreChecked' /\ VectorsMatch'
    <2>1. PICK D : Lose(D, {c}, {})
      BY <1>8 DEF GiveUp
    <2>2. PICK F : F = {c}
      OBVIOUS
    <2>3. {} \in SUBSET Daemon
      OBVIOUS
    <2> QED BY <1>8, <2>1, <2>2, <2>3, LoseKeeps DEF GiveUp, serverVars
  <1>r. ASSUME NEW k \in Caller, Return(k), model' = model
        PROVE  ConnectionsAreChecked' /\ VectorsMatch'
    BY <1>r, <1>t DEF EmbedderTypeOK, Return, HandshakeInv, ConnectionsAreChecked, VectorsMatch
  <1>9. ASSUME NEW k \in Caller, Answer(k)
        PROVE  ConnectionsAreChecked' /\ VectorsMatch'
    BY <1>9, <1>r DEF Answer, serverVars
  <1>10. ASSUME NEW k \in Caller, RequestFails(k)
         PROVE  ConnectionsAreChecked' /\ VectorsMatch'
    <2>1. PICK c \in Client : c = Host[k]
      BY <1>t
    <2>2. Return(k) \/ Drop({c}, {})
      BY <1>10, <2>1 DEF RequestFails
    <2> QED BY <1>10, <2>2, <1>r, DropKeeps DEF RequestFails, serverVars
  <1>11. ASSUME NEW c \in Client, Peek(c)
         PROVE  ConnectionsAreChecked' /\ VectorsMatch'
    <2>1. CASE Reachable
      <3>1. /\ c \in Peeking /\ UNCHANGED <<model, link, greeted, sent, unvetted>>
            /\ \A x \in Client \ {c} : conn'[x] = conn[x] /\ (x \in vetted' <=> x \in vetted)
            /\ c \in vetted' => c \in vetted /\ conn'[c] = conn[c]
            /\ vetted' \subseteq Client
        BY <1>11, <2>1, <1>t DEF EmbedderTypeOK, Peek, Attached, serverVars, callVars
      <3> QED BY <3>1 DEF HandshakeInv, ConnectionsAreChecked, VectorsMatch
    <2>2. CASE ~Reachable
      BY <1>11, <2>2, DropKeeps DEF Peek, serverVars
    <2> QED BY <2>1, <2>2
  <1>12. ASSUME NEW c \in Client, HelloFails(c) \/ StopEmbedder(c)
         PROVE  ConnectionsAreChecked' /\ VectorsMatch'
    BY <1>12, DropKeeps DEF HelloFails, StopEmbedder, serverVars
  <1>13. CASE UNCHANGED embedderVars
    BY <1>13, <1>u DEF embedderVars, serverVars
  <1> QED BY <1>1, <1>2, <1>3, <1>4, <1>5, <1>6, <1>7, <1>8, <1>9, <1>10, <1>11, <1>12, <1>13
          DEF EmbedderNext, ClientStep

\* A request gets vectors of a model its session is not configured for only if it went over
\* a connection nobody had compared, and where no status is asked for, a foreign daemon is
\* connected only as long as its hello is under way, for any number of sessions and of calls
\* in each (client.ts:274-334).
THEOREM HandshakeProtects == EmbedderSpec => []CheckedVectorsMatch
  <1>1. HandshakeInv => CheckedVectorsMatch
    BY DEF HandshakeInv, ConnectionsAreChecked, VectorsMatch, CheckedVectorsMatch
  <1> QED BY <1>1, HandshakeInit, HandshakeStep, PTL DEF EmbedderSpec

-----------------------------------------------------------------------------
(* The election *)

\* As long as no daemon is killed, a socket file is its daemon's from the binding to the
\* deletion, so nobody finds a stale one and replaces it.
SocketsAreLive ==
    /\ path # Dead
    /\ path \in Daemon => Serves(path)
    /\ \A d \in Daemon : stage[d] \notin {"unlink", "relisten"}
    /\ SocketsAreTheirs

ElectionInv == EmbedderTypeOK /\ (~killed => SocketsAreLive)

LEMMA ElectionInit == EmbedderInit => ElectionInv
  BY EmbedderTypeInit, NoOneAndDead DEF EmbedderInit, ElectionInv, SocketsAreLive, SocketsAreTheirs, Serves

\* A daemon that gives up before it serves had no socket.
LEMMA EndBeforeServing ==
    ASSUME EmbedderTypeOK, SocketsAreLive, NEW d \in Daemon, ~Serves(d), End(d)
    PROVE  SocketsAreLive'
  <1>1. path' = path /\ path # d
    BY DEF SocketsAreLive, End
  <1>2. /\ stage'[d] = "free"
        /\ \A e \in Daemon : e # d => stage'[e] = stage[e]
    BY DEF EmbedderTypeOK, End, Become
  <1> QED BY <1>1, <1>2 DEF SocketsAreLive, SocketsAreTheirs, Serves

LEMMA ElectionStep == ElectionInv /\ [EmbedderNext]_embedderVars => ElectionInv'
  <1> SUFFICES ASSUME ElectionInv, [EmbedderNext]_embedderVars, ~killed'
               PROVE  SocketsAreLive'
    BY EmbedderTypeStep DEF ElectionInv
  <1>t. EmbedderTypeOK
    BY DEF ElectionInv
  <1>k. killed' = killed \/ \E d \in Daemon : Kill(d)
    BY DEF EmbedderNext, DaemonStep, ClientStep, Loaded, ReadPid, RemoveLock, CreateLock, Listen, Probe,
           Unlink, Relisten, Unlock, Stop, Embed, Attach, ReachFails, Check, Spawn, Verify,
           GiveUp, Answer, RequestFails, Peek, HelloFails, StopEmbedder, serverVars, embedderVars
  <1>l. SocketsAreLive
    BY <1>k DEF ElectionInv, Kill
  <1> USE DEF SocketsAreLive, SocketsAreTheirs, Serves
  <1>1. ASSUME NEW d \in Daemon, DaemonStep(d)
        PROVE  SocketsAreLive'
    <2>1. CASE Loaded(d) \/ RemoveLock(d) \/ Unlock(d)
      BY <2>1, <1>t, <1>l DEF EmbedderTypeOK, Loaded, RemoveLock, Unlock, Become
    <2>2. CASE ReadPid(d)
      BY <2>2, <1>t, <1>l, EndBeforeServing DEF EmbedderTypeOK, ReadPid, Become
    <2>3. CASE CreateLock(d)
      BY <2>3, <1>t, <1>l, EndBeforeServing DEF EmbedderTypeOK, CreateLock, Become
    <2>4. CASE Listen(d)
      BY <2>4, <1>t, <1>l, NoOneAndDead DEF EmbedderTypeOK, Listen, Become
    <2>5. CASE Probe(d)
      BY <2>5, <1>t, <1>l, EndBeforeServing DEF Probe, StaleSocket
    <2>6. CASE Unlink(d) \/ Relisten(d)
      BY <2>6, <1>l DEF Unlink, Relisten
    <2> QED BY <1>1, <2>1, <2>2, <2>3, <2>4, <2>5, <2>6 DEF DaemonStep
  <1>2. ASSUME NEW d \in Daemon, Stop(d)
        PROVE  SocketsAreLive'
    BY <1>2, <1>t, <1>l, NoOneAndDead DEF EmbedderTypeOK, Stop, Become
  <1>3. ASSUME NEW d \in Daemon, Kill(d)
        PROVE  FALSE
    BY <1>3 DEF Kill
  <1>4. ASSUME NEW c \in Client, Spawn(c)
        PROVE  SocketsAreLive'
    BY <1>4, <1>t, <1>l DEF EmbedderTypeOK, Spawn, Become, Running
  <1>5. ASSUME \/ \E c \in Client : \/ Attach(c) \/ ReachFails(c) \/ Check(c) \/ Verify(c)
                                     \/ GiveUp(c) \/ Peek(c) \/ HelloFails(c) \/ StopEmbedder(c)
               \/ \E k \in Caller : Embed(k) \/ Answer(k) \/ RequestFails(k)
        PROVE  SocketsAreLive'
    <2>1. UNCHANGED <<path, stage>>
      BY <1>5 DEF Embed, Attach, ReachFails, Check, Verify, GiveUp, Answer, RequestFails, Peek,
                  HelloFails, StopEmbedder, serverVars
    <2> QED BY <2>1, <1>l
  <1>6. CASE UNCHANGED embedderVars
    BY <1>6, <1>l DEF embedderVars, serverVars
  <1> QED BY <1>1, <1>2, <1>3, <1>4, <1>5, <1>6 DEF EmbedderNext, ClientStep

\* Until a daemon is killed, a daemon that serves is the one that clients reach, so there
\* is one: the socket decides what the lock file leaves open (server.ts:60-74, 263-273).
THEOREM SocketElectsOne == EmbedderSpec => []OneEmbedderServes
  <1>1. ElectionInv => OneEmbedderServes
    BY DEF ElectionInv, SocketsAreLive, OneEmbedderServes
  <1> QED BY <1>1, ElectionInit, ElectionStep, PTL DEF EmbedderSpec
=============================================================================
