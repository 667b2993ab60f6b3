---------------------------- MODULE VectorIndex ----------------------------
(***************************************************************************)
(* The semantic index (src/src/vector): a registry of wikis, wikis.json,   *)
(* that every session rewrites without a lock, and one SQLite store of     *)
(* rows, one per chunk, with the identity of the embedder that made it.    *)
(* indexWiki brings the rows of a wiki up to date with its pages; it       *)
(* spends minutes in the embedder between reading the pages and writing    *)
(* the rows, while pages are edited, other sessions index and wikis come   *)
(* and go.                                                                 *)
(*                                                                         *)
(* A page holds one claim here, so its path is the key of its chunk, and   *)
(* the text of a claim stands for the hash of its chunk.  The roots are of *)
(* projects with the same directory name: name k stands for name-k.        *)
(***************************************************************************)
EXTENDS Integers, FiniteSets

CONSTANTS
    Proc,           \* the pi processes
    Root,           \* the wiki roots
    Page,           \* the page paths
    Content,        \* what a page may hold, as claims [text, status]
    Initially,      \* Initially[r][x]: what page x of root r holds at first
    Preset,         \* the embedding presets: one embedder identity each
    Settings,       \* what the user's configuration may name at first
    Name,           \* the names of wikis, 1..n
    Registry,       \* the wikis that are registered at first
    \* Bounds, the first one for each root.
    MaxEdits, MaxRuns, MaxChoices, MaxChanges, MaxMishaps

Absent == [text |-> 0, status |-> "absent"]
NoRow == [text |-> 0, status |-> "absent", fingerprint |-> "none", root |-> "none"]
EmptyStore == [n \in Name |-> [x \in Page |-> NoRow]]

ASSUME IndexIsConfigured ==
    /\ Page # {} /\ "default" \notin Preset /\ "performance" \in Preset
    /\ Settings \subseteq Preset \cup {"default"}
    /\ IsFiniteSet(Root) /\ IsFiniteSet(Name)
    /\ Name = 1..Cardinality(Name) /\ Cardinality(Name) > Cardinality(Root)
    /\ Registry \subseteq [name : Name, root : Root, enabled : BOOLEAN]
    /\ \A d, e \in Registry : d.name = e.name \/ d.root = e.root => d = e
    /\ Absent \in Content /\ Content \ {Absent} \subseteq [text : Nat \ {0}, status : STRING]
    /\ Initially \in [Root -> [Page -> Content]]

VARIABLES
    pages,      \* pages[r][x]: the claim page x of root r holds, or Absent
    setting,    \* search.vector.model of the user, "default" until it is chosen
    registry,   \* wikis.json, a set of [name, root, enabled]
    rows,       \* rows[n][x]: the row of the store with that primary key, or NoRow
    state,      \* state[n]: the fingerprint in index_state, or "none"
    job,        \* job[p]: what p is doing, see Idle and the records below
    edits, runs, choices, changes, mishaps,
    exact,      \* history: <<n, r, f, x, b>>, rows nobody touched since a run that was
                \* undisturbed, over the whole wiki or not
    shaky       \* history: the names for which a registration was lost or removed under a run
store == <<rows, state>>
bounds == <<edits, runs, choices, changes, mishaps>>
history == <<exact, shaky>>
vars == <<pages, setting, registry, store, job, bounds, history>>

Idle == [op |-> "idle"]

Init ==
    /\ pages = Initially
    /\ setting \in Settings
    /\ registry = Registry
    /\ rows = EmptyStore
    /\ state = [n \in Name |-> "none"]
    /\ job = [p \in Proc |-> Idle]
    /\ edits = [r \in Root |-> 0] /\ runs = 0 /\ choices = 0 /\ changes = 0 /\ mishaps = 0
    /\ exact = {} /\ shaky = {}

-----------------------------------------------------------------------------
(* Pages and settings.                                                     *)

Edit(r, x, c) ==
    /\ edits[r] < MaxEdits[r] /\ c # pages[r][x]
    /\ edits' = [edits EXCEPT ![r] = @ + 1]
    /\ pages' = [pages EXCEPT ![r][x] = c]
    /\ exact' = {e \in exact : e[2] # r \/ e[4] # x}
    /\ job' = [p \in Proc |-> IF job[p].op = "index" /\ job[p].root = r /\ x \in job[p].scope
                              THEN [job[p] EXCEPT !.disturbed = @ \cup {x}] ELSE job[p]]
    /\ UNCHANGED <<setting, registry, store, runs, choices, changes, mishaps, shaky>>

\* modelChoiceSource: no configuration names a preset.
NotChosen == setting = "default"

\* fingerprintFor: decided by the configuration alone.
Fingerprint == IF NotChosen THEN "performance" ELSE setting

\* wiki_index action=model; what it then says of stale indexes is advice.
ChooseModel(f) ==
    /\ choices < MaxChoices /\ f # setting
    /\ choices' = choices + 1
    /\ setting' = f
    /\ UNCHANGED <<pages, registry, store, job, edits, runs, changes, mishaps, history>>

-----------------------------------------------------------------------------
(* The registry: read, then written as a whole.                            *)

FreeName(seen) == CHOOSE n \in Name : /\ \A e \in seen : e.name # n
                                      /\ \A k \in 1..(n - 1) : \E e \in seen : e.name = k

Registered(seen, r) ==
    IF \E e \in seen : e.root = r THEN seen
    ELSE seen \cup {[name |-> FreeName(seen), root |-> r, enabled |-> TRUE]}

Enabled(seen, n, on) == {IF e.name = n THEN [e EXCEPT !.enabled = on] ELSE e : e \in seen}

Unregistered(seen, n) == {e \in seen : e.name # n}

\* discoverWikis: the roots on the disk that are not registered.
Discovered(seen) == {r \in Root : \A e \in seen : e.root # r}

\* A registry p has read and will write; afterwards it adopts the roots of todo.
Rewriting(written, todo) == [op |-> "registry", seen |-> registry, written |-> written, todo |-> todo]

\* registerWiki, which searches, captures, syncs and wiki_index add call; setWikiEnabled.
ReadRegistry(p, written) ==
    /\ job[p] = Idle /\ changes < MaxChanges
    /\ written # registry
    /\ changes' = changes + 1
    /\ job' = [job EXCEPT ![p] = Rewriting(written, {})]
    /\ UNCHANGED <<pages, setting, registry, store, edits, runs, choices, mishaps, history>>

Adopting(todo) == IF todo = {} THEN Idle ELSE [op |-> "adopt", todo |-> todo]

\* wiki_index action=discover register=true: the machine is searched for roots that were
\* not registered when it began, and then each of them is, if it still is not.
Discover(p) ==
    /\ job[p] = Idle /\ changes < MaxChanges
    /\ Discovered(registry) # {}
    /\ changes' = changes + 1
    /\ job' = [job EXCEPT ![p] = Adopting(Discovered(registry))]
    /\ UNCHANGED <<pages, setting, registry, store, edits, runs, choices, mishaps, history>>

Adopt(p, r) ==
    /\ job[p].op = "adopt" /\ r \in job[p].todo
    /\ LET written == Registered(registry, r) rest == job[p].todo \ {r}
       IN  job' = [job EXCEPT ![p] = IF written = registry THEN Adopting(rest) ELSE Rewriting(written, rest)]
    /\ UNCHANGED <<pages, setting, registry, store, bounds, history>>

\* The names the two versions of the registry do not agree on.
Touched(a, b) == {e.name : e \in (a \ b) \cup (b \ a)}

\* A run is indexing under name n, or will after the wikis that come before.
UnderWay(n) ==
    \E p \in Proc : job[p].op = "index" /\ n \in {job[p].wiki} \cup {e.name : e \in job[p].todo}

\* writeRegistry.  When another update is lost with this one, names are shaky from now on.
WriteRegistry(p) ==
    /\ job[p].op = "registry"
    /\ registry' = job[p].written
    /\ job' = [job EXCEPT ![p] = Adopting(job[p].todo)]
    /\ shaky' = IF registry = job[p].seen THEN shaky
                ELSE shaky \cup Touched(registry, job[p].seen) \cup Touched(job[p].seen, job[p].written)
    /\ UNCHANGED <<pages, setting, store, bounds, exact>>

-----------------------------------------------------------------------------
(* The store.                                                              *)

\* Two runs that read the same on page x.
Agree(i, j, x) ==
    /\ i.root = j.root /\ i.fingerprint = j.fingerprint
    /\ IF x \in DOMAIN i.chunks THEN x \in DOMAIN j.chunks /\ i.chunks[x] = j.chunks[x]
       ELSE x \notin DOMAIN j.chunks

\* What p does to the rows xs of wiki n disturbs the other runs there, unless they agree.
Disturb(p, n, xs) ==
    [q \in Proc |->
        IF q # p /\ job[q].op = "index" /\ job[q].wiki = n
        THEN [job[q] EXCEPT !.disturbed = @ \cup
                 {x \in xs \cap job[q].scope : job[p].op # "index" \/ ~Agree(job[p], job[q], x)}]
        ELSE job[q]]

\* Mutant: only index_state is cleared.
StateCleared(n) == rows

WikiPurged(n) == [rows EXCEPT ![n] = [x \in Page |-> NoRow]]

\* The name of a wiki is shaky when it is removed under a run.
Shaken(n, overlap) == IF overlap THEN shaky \cup {n} ELSE shaky

Removing(n) ==
    \E p \in Proc : \/ job[p].op = "unregister" /\ job[p].wiki = n
                    \/ /\ job[p].op = "registry" /\ n \in {e.name : e \in job[p].seen}
                       /\ n \notin {e.name : e \in job[p].written}

\* wiki_index action=remove: forgetWikiIndex, then unregisterWiki.
Remove(p, n) ==
    /\ job[p] = Idle /\ changes < MaxChanges
    /\ \E e \in registry : e.name = n
    /\ changes' = changes + 1
    /\ rows' = WikiPurged(n)
    /\ state' = [state EXCEPT ![n] = "none"]
    /\ exact' = {e \in exact : e[1] # n}
    /\ shaky' = Shaken(n, UnderWay(n))
    /\ job' = [Disturb(p, n, Page) EXCEPT ![p] = [op |-> "unregister", wiki |-> n]]
    /\ UNCHANGED <<pages, setting, registry, edits, runs, choices, mishaps>>

Unregister(p) ==
    /\ job[p].op = "unregister"
    /\ job' = [job EXCEPT ![p] = Rewriting(Unregistered(registry, job[p].wiki), {})]
    /\ UNCHANGED <<pages, setting, registry, store, bounds, history>>

\* wiki_index action=reset: the file is deleted, and created again by the next operation.
ResetStore ==
    /\ mishaps < MaxMishaps
    /\ mishaps' = mishaps + 1
    /\ rows' = EmptyStore
    /\ state' = [n \in Name |-> "none"]
    /\ exact' = {}
    /\ job' = [p \in Proc |-> IF job[p].op = "index" THEN [job[p] EXCEPT !.disturbed = job[p].scope] ELSE job[p]]
    /\ UNCHANGED <<pages, setting, registry, edits, runs, choices, changes, shaky>>

IndexExists == \E n \in Name, x \in Page : rows[n][x] # NoRow

\* A group of the counts by wiki and identity.
Counted(n, f) == \E x \in Page : rows[n][x].fingerprint = f

HasWarmIndex(n, f) == state[n] = f \/ Counted(n, f)

\* The search of wiki n with an embedder of identity f can return the row of page x (knn).
Searched(n, f, x) ==
    rows[n][x].fingerprint = f /\ rows[n][x].status \in {"verified", "user_stated", "needs_recheck"}

-----------------------------------------------------------------------------
(* indexWiki.                                                              *)

\* chunkPage: a claim is indexed while its status is active.
Active(c) == c.status \in {"verified", "user-stated", "needs_recheck"}

Run(e, scope, f, todo) ==
    [op |-> "index", step |-> "scan", wiki |-> e.name, root |-> e.root, fingerprint |-> f, todo |-> todo,
     scope |-> scope, chunks |-> [x \in {} |-> Absent], pending |-> {}, removed |-> {}, disturbed |-> {}]

\* wiki_index action=rebuild, of one wiki, or of those that are enabled when it begins.
Rebuild(p, e, todo) ==
    /\ job[p] = Idle /\ runs + Cardinality(todo) < MaxRuns
    /\ ~NotChosen \/ IndexExists
    /\ runs' = runs + Cardinality(todo) + 1
    /\ shaky' = shaky \cup {n \in {e.name} \cup {d.name : d \in todo} : Removing(n)}
    /\ job' = [job EXCEPT ![p] = Run(e, Page, Fingerprint, todo)]
    /\ UNCHANGED <<pages, setting, registry, store, edits, choices, changes, mishaps, exact>>

\* wiki_finalize indexes the pages it was given when the index is warm.
Reindex(p, e, scope) ==
    /\ job[p] = Idle /\ runs < MaxRuns
    /\ HasWarmIndex(e.name, Fingerprint)
    /\ runs' = runs + 1
    /\ shaky' = Shaken(e.name, Removing(e.name))
    /\ job' = [job EXCEPT ![p] = Run(e, scope, Fingerprint, {})]
    /\ UNCHANGED <<pages, setting, registry, store, edits, choices, changes, mishaps, exact>>

\* Mutant: a chunk that has a row is not embedded again.
UnchangedByKey(j, x) == rows[j.wiki][x].fingerprint = j.fingerprint

\* Rows of the run's identity with the hash of the chunk are kept.
UnchangedRow(j, x) ==
    rows[j.wiki][x].fingerprint = j.fingerprint /\ rows[j.wiki][x].text = pages[j.root][x].text

\* The pages and the hashes are read.  (Between the two nothing can happen to one that
\* could not have happened after both.)
Scan(p) ==
    LET j == job[p]
        xs == {x \in j.scope : Active(pages[j.root][x])}
    IN  /\ j.op = "index" /\ j.step = "scan"
        /\ job' = [job EXCEPT ![p] =
              [j EXCEPT !.step = "prune", !.disturbed = {},
                        !.chunks = [x \in xs |-> pages[j.root][x]],
                        !.pending = {x \in xs : ~UnchangedRow(j, x)},
                        !.removed = {x \in j.scope \ xs : rows[j.wiki][x].fingerprint = j.fingerprint}]]
        /\ UNCHANGED <<pages, setting, registry, store, bounds, history>>

\* deleteKeys.
Prune(p) ==
    LET j == job[p]
    IN  /\ j.op = "index" /\ j.step = "prune"
        /\ rows' = [rows EXCEPT ![j.wiki] = [x \in Page |-> IF x \in j.removed THEN NoRow ELSE @[x]]]
        /\ exact' = {e \in exact : e[1] # j.wiki \/ e[4] \notin j.removed}
        /\ job' = [Disturb(p, j.wiki, j.removed) EXCEPT ![p].step = "embed"]
        /\ UNCHANGED <<pages, setting, registry, state, bounds, shaky>>

\* The pending chunks are embedded, in groups, all before any is stored.
Embedded(j, x) ==
    [text |-> j.chunks[x].text, status |-> j.chunks[x].status, fingerprint |-> j.fingerprint, root |-> j.root]

\* One transaction.
Upsert(p) ==
    LET j == job[p]
    IN  /\ j.op = "index" /\ j.step = "embed"
        /\ rows' = [rows EXCEPT ![j.wiki] = [x \in Page |-> IF x \in j.pending THEN Embedded(j, x) ELSE @[x]]]
        /\ exact' = {e \in exact : e[1] # j.wiki \/ e[4] \notin j.pending}
        /\ job' = [Disturb(p, j.wiki, j.pending) EXCEPT ![p].step = "finish"]
        /\ UNCHANGED <<pages, setting, registry, state, bounds, shaky>>

\* purgeOtherIdentities, by a run without a scope.
Purged(j) ==
    [x \in Page |-> IF j.scope = Page /\ rows[j.wiki][x].fingerprint # j.fingerprint
                    THEN NoRow ELSE rows[j.wiki][x]]

SetState(j) == [state EXCEPT ![j.wiki] = j.fingerprint]

\* What p does after the run j: the next wiki of a rebuild of all.
After(j) ==
    IF j.todo = {} THEN {Idle} ELSE {Run(e, Page, j.fingerprint, j.todo \ {e}) : e \in j.todo}

Finish(p) ==
    LET j == job[p]
        gone == {x \in Page : Purged(j)[x] # rows[j.wiki][x]}
    IN  /\ j.op = "index" /\ j.step = "finish"
        /\ rows' = [rows EXCEPT ![j.wiki] = Purged(j)]
        /\ state' = SetState(j)
        /\ exact' = {e \in exact : e[1] # j.wiki \/ e[4] \notin gone}
                       \cup {<<j.wiki, j.root, j.fingerprint, x, j.scope = Page>> : x \in j.scope \ j.disturbed}
        /\ \E next \in After(j) : job' = [Disturb(p, j.wiki, gone) EXCEPT ![p] = next]
        /\ UNCHANGED <<pages, setting, registry, bounds, shaky>>

\* The embedder or the store fails, after which a rebuild of all goes on with the next
\* wiki, or the process dies.
Abandon(p) ==
    /\ job[p] # Idle /\ mishaps < MaxMishaps
    /\ mishaps' = mishaps + 1
    /\ \E next \in {Idle} \cup IF job[p].op = "index" THEN After(job[p]) ELSE {} :
          job' = [job EXCEPT ![p] = next]
    /\ UNCHANGED <<pages, setting, registry, store, edits, runs, choices, changes, history>>

-----------------------------------------------------------------------------

Next ==
    \/ \E r \in Root, x \in Page, c \in Content : Edit(r, x, c)
    \/ \E f \in Preset : ChooseModel(f)
    \/ ResetStore
    \/ \E p \in Proc :
          \/ \E r \in Discovered(registry) : ReadRegistry(p, Registered(registry, r))
          \/ \E n \in Name, on \in BOOLEAN : ReadRegistry(p, Enabled(registry, n, on))
          \/ WriteRegistry(p)
          \/ Discover(p)
          \/ \E r \in Root : Adopt(p, r)
          \/ \E n \in Name : Remove(p, n)
          \/ Unregister(p)
          \/ \E e \in registry : \/ Rebuild(p, e, {})
                                 \/ e.enabled /\ Rebuild(p, e, {d \in registry : d.enabled} \ {e})
                                 \/ \E scope \in (SUBSET Page) \ {{}, Page} : Reindex(p, e, scope)
          \/ Scan(p) \/ Prune(p) \/ Upsert(p) \/ Finish(p) \/ Abandon(p)

Spec == Init /\ [][Next]_vars

-----------------------------------------------------------------------------

Row == [text : Nat \ {0}, status : {"verified", "user-stated", "needs_recheck"},
        fingerprint : Preset, root : Root]

TypeOK ==
    /\ pages \in [Root -> [Page -> Content]]
    /\ setting \in Preset \cup {"default"}
    /\ registry \subseteq [name : Name, root : Root, enabled : BOOLEAN]
    /\ \A n \in Name : /\ state[n] \in Preset \cup {"none"}
                       /\ \A x \in Page : rows[n][x] \in Row \cup {NoRow}
    /\ \A p \in Proc : job[p].op \in {"idle", "registry", "adopt", "unregister", "index"}

\* "Session wiki only" (auto-retrieve.ts:9): the rows found under the name of a wiki are
\* of its own pages, and its name is nobody else's, whatever is registered, removed and
\* indexed, unless a registry update was lost (registry.ts is read and rewritten without
\* a lock), or the wiki was removed while it was being indexed or waited for its turn in a
\* rebuild of all, whose list is not read again.
RowsStayHome ==
    /\ TypeOK
    /\ \A e \in registry :
          \/ e.name \in shaky
          \/ /\ \A x \in Page : rows[e.name][x] # NoRow => rows[e.name][x].root = e.root
             /\ \A d \in registry : d.name = e.name \/ d.root = e.root => d = e

\* A run that nobody disturbs repairs whatever earlier runs left, after failures, under
\* other identities and for removed pages: until the page or the store changes again, the
\* rows of its pages are the active claims.  Other runs over the same pages do not disturb.
UndisturbedRunsAreExact ==
    \A e \in exact :
        LET n == e[1] c == pages[e[2]][e[4]] row == rows[n][e[4]]
        IN  IF Active(c) THEN row.text = c.text /\ row.fingerprint = e[3]
            ELSE row = NoRow \/ (~e[5] /\ row.fingerprint # e[3])

\* "one chunk per active claim" (chunks.ts:2), of a status in ACTIVE_CLAIM_STATUSES: what is
\* indexed while it is active can be found after an undisturbed run.
ActiveClaimsAreFound ==
    \A e \in exact :
        e[1] \notin shaky /\ Active(pages[e[2]][e[4]]) => Searched(e[1], e[3], e[4])
=============================================================================
