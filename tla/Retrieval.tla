----------------------------- MODULE Retrieval -----------------------------
(***************************************************************************)
(* Searching a wiki: wiki_ask, and the automatic retrieval before a prompt *)
(* (src/src/extension.ts, src/src/auto-retrieve.ts).  Both search by       *)
(* keyword, over a cache of the pages that is loaded again when the        *)
(* directory looks different, and by meaning, fuse the two rankings, and   *)
(* have Jev judge the candidates.  An ask shows what was found whatever    *)
(* becomes of the judgement; automatic retrieval injects nothing without   *)
(* one that holds.                                                         *)
(*                                                                         *)
(* The pages change while they are read, and while another search of the   *)
(* same process loads the cache.  A write gives a page a time of its own;  *)
(* a page that is moved in with an old one is not modelled.                *)
(***************************************************************************)
EXTENDS Ranking, FiniteSetsExt, SequencesExt

CONSTANTS
    Page,           \* the pages of the wiki
    Existing,       \* those it has at first
    Flaky,          \* those whose file cannot be read at times
    Text,           \* what may be searched for, with the session it is searched in
    Semantic,       \* the rankings the semantic index may return, of hits [page, chunk]
    Weights,        \* what the ranks contribute to a fusion
    Limit,          \* the limit of a search
    MaxCandidates,  \* search.jev.maxCandidates
    Room,           \* the lines a brief has room for
    MaxRetries,     \* how often a request to Jev is repeated
    MaxTime         \* bound: writes to the pages

ASSUME SearchIsConfigured ==
    /\ Page # {} /\ IsFiniteSet(Page) /\ Existing \subseteq Page /\ Flaky \subseteq Page /\ "none" \notin Text
    /\ {Limit, MaxCandidates, MaxTime} \subseteq Nat \ {0} /\ {MaxRetries, Room} \subseteq Nat
    /\ <<>> \in Semantic /\ \A r \in Semantic : r \in Seq([page : Page, chunk : Nat]) /\ Len(r) <= 3 * Limit
    /\ Weights \in Seq(Nat \ {0}) /\ Len(Weights) >= 3 * Limit

Caller == {"query", "rival"}
Engine == {"bm25", "vector", "hybrid"}

VARIABLES
    disk,   \* disk[p]: when page p was last written, which also says what it holds; 0: no such page
    time,   \* when the last write was
    cache,  \* the index of the keyword search: its pages, and the fingerprint they were loaded for
    load,   \* load[c]: what caller c has of the cache it is loading
    query,  \* the search that is under way
    last    \* what the hook searched for last
pages == <<disk, time>>
vars == <<pages, cache, load, query, last>>

\* In the cache: no such page, but because its file could not be read.
Unreadable == -1

Unloaded == [phase |-> "idle"]
Half(state, ranking) == [state |-> state, ranking |-> ranking]
Nowhere == Half("off", <<>>)
NoQuery == [stage |-> "none"]

Init ==
    /\ disk = [p \in Page |-> IF p \in Existing THEN 1 ELSE 0]
    /\ time = 1
    /\ cache = [built |-> FALSE, docs |-> [p \in Page |-> 0], fp |-> <<0, 0>>]
    /\ load = [c \in Caller |-> Unloaded]
    /\ query = NoQuery /\ last = "none"

-----------------------------------------------------------------------------
(* The pages, and the cache of them.                                       *)

Write(p) ==
    /\ time < MaxTime
    /\ disk' = [disk EXCEPT ![p] = time + 1]
    /\ time' = time + 1
    /\ UNCHANGED <<cache, load, query, last>>

Delete(p) ==
    /\ disk[p] > 0
    /\ disk' = [disk EXCEPT ![p] = 0]
    /\ UNCHANGED <<time, cache, load, query, last>>

\* directoryFingerprint: how many pages there are, and the time of the newest.
Fingerprint == <<Cardinality({p \in Page : disk[p] > 0}), Max({disk[p] : p \in Page})>>

\* Mutant: the fingerprint of the directory as it is when the pages have been read.
FingerprintNow(l) == Fingerprint

InstalledFingerprint(l) == l.fp

Ready(c) == IF c = "query" THEN [phase |-> "ready"] ELSE Unloaded

\* A search asks for the cache: query when it starts, the rival at any time.
Wants(c) == load[c].phase = (IF c = "query" THEN "check" ELSE "idle")

\* ensure: for two seconds after a check the cache is used as it is.
StaysFresh == Wants("query") /\ cache.built /\ load' = [load EXCEPT !["query"] = Ready("query")]
                /\ UNCHANGED <<pages, cache, query, last>>

Check(c) ==
    /\ Wants(c)
    /\ load' = [load EXCEPT ![c] = IF cache.built /\ Fingerprint = cache.fp THEN Ready(c)
                                   ELSE [phase |-> "list", fp |-> Fingerprint]]
    /\ UNCHANGED <<pages, cache, query, last>>

\* loadDocs: the pages are listed, and then read one at a time.
List(c) ==
    /\ load[c].phase = "list"
    /\ load' = [load EXCEPT ![c] = [phase |-> "read", fp |-> @.fp, docs |-> [p \in Page |-> 0],
                                    todo |-> {p \in Page : disk[p] > 0}]]
    /\ UNCHANGED <<pages, cache, query, last>>

\* A file that cannot be read is left out, and so is a page that is gone by then.
ReadDoc(c) ==
    /\ load[c].phase = "read"
    /\ \E p \in load[c].todo : \E found \in {TRUE, p \notin Flaky} :
          load' = [load EXCEPT ![c].todo = @ \ {p}, ![c].docs[p] = IF found THEN disk[p] ELSE Unreadable]
    /\ UNCHANGED <<pages, cache, query, last>>

Install(c) ==
    /\ load[c].phase = "read" /\ load[c].todo = {}
    /\ cache' = [cache EXCEPT !.built = TRUE, !.docs = load[c].docs, !.fp = InstalledFingerprint(load[c])]
    /\ load' = [load EXCEPT ![c] = Ready(c)]
    /\ UNCHANGED <<pages, query, last>>

\* The index of the wiki, which names the pages and has their titles, cannot be read.
LoadFails(c) ==
    /\ load[c].phase = "list"
    /\ load' = [load EXCEPT ![c] = IF c = "query" THEN [phase |-> "failed"] ELSE Unloaded]
    /\ UNCHANGED <<pages, cache, query, last>>

Ensure(c) == Check(c) \/ List(c) \/ ReadDoc(c) \/ Install(c)

-----------------------------------------------------------------------------
(* What a search may find, and what a judgement makes of it, as tables.    *)

\* What pages of a set can be ranked as, by scores that are not modelled: none of them twice,
\* and no more than are asked for.
Ranked(found) ==
    UNION {{[i \in DOMAIN r |-> [page |-> r[i], chunk |-> 0]] : r \in SetToSeqs(some)} :
              some \in {set \in SUBSET found : Cardinality(set) <= 3 * Limit}}

\* What is left of a ranking by one engine, or of a fusion.
Alone(ranking) == UpTo(Weighed(ranking, Weights), Limit)

Fusions == {[lexical |-> r, semantic |-> t, hits |-> UpTo(rrfFuse(r, t, Weights), Limit)] :
              r \in Ranked(Page), t \in Semantic}

Candidates == {Alone(r) : r \in Ranked(Page) \cup Semantic} \cup {f.hits : f \in Fusions}

\* The candidates that are judged are the first ones.
Judged(hits) == 1..(IF Len(hits) < MaxCandidates THEN Len(hits) ELSE MaxCandidates)

\* What a judgement of them makes an ask show, and the hook inject.
Judgements ==
    UNION {{[found |-> hits, answers |-> answers, ranked |-> Reranked(hits, answers),
             brief |-> Brief(Reranked(hits, answers), Room)] : answers \in [Judged(hits) -> 0..2]} :
              hits \in Candidates}

-----------------------------------------------------------------------------
(* One search.                                                             *)

\* createSearchEngine, for the engine that is configured or asked for.
Start(kind, engine) ==
    /\ query.stage \in {"none", "ended"}
    /\ query' = [stage |-> "search", kind |-> kind, engine |-> engine,
                 lexical |-> IF engine = "vector" THEN Nowhere ELSE Half("running", <<>>),
                 semantic |-> IF engine = "bm25" THEN Nowhere ELSE Half("running", <<>>)]
    /\ load' = IF engine = "vector" THEN load ELSE [load EXCEPT !["query"] = [phase |-> "check"]]
    /\ UNCHANGED <<pages, cache>>

\* before_agent_start: not for the query the hook searched for last, which it remembers
\* before it has found anything.
Prompt(text) ==
    /\ last # text
    /\ \E engine \in Engine : Start("auto", engine)
    /\ last' = text

\* wiki_ask
Ask == (\E engine \in Engine : Start("ask", engine)) /\ UNCHANGED last

LexicalEnds ==
    /\ query.stage = "search" /\ query.lexical.state = "running"
    /\ UNCHANGED <<pages, cache, last>>
    /\ \/ /\ load["query"].phase = "ready"
          /\ \E r \in Ranked({p \in Page : cache.docs[p] > 0}) :
                query' = [query EXCEPT !.lexical = Half("done", r)]
       \/ /\ load["query"].phase = "failed"
          /\ query' = [query EXCEPT !.lexical = Half("failed", <<>>)]
    /\ load' = [load EXCEPT !["query"] = Unloaded]

\* vectorSearch: nothing from a cold index or one of another embedder; the embedder and the
\* store may fail.
SemanticEnds ==
    /\ query.stage = "search" /\ query.semantic.state = "running"
    /\ UNCHANGED <<pages, cache, load, last>>
    /\ \/ \E r \in Semantic : query' = [query EXCEPT !.semantic = Half("done", r)]
       \/ query' = [query EXCEPT !.semantic = Half("failed", <<>>)]

Settled(half) == half.state # "running"

Ended(hits, shown, answers, outcome) ==
    [stage |-> "ended", kind |-> query.kind, found |-> hits, shown |-> shown, answers |-> answers,
     outcome |-> outcome]

\* Without a result the search is over, and so is an ask that is configured to do without
\* a judgement, or goes on to one, which may rerank the results.
Found(hits) ==
    \/ hits = <<>> /\ query' = Ended(hits, hits, <<>>, "empty")
    \/ hits # <<>> /\ query.kind = "ask" /\ query' = Ended(hits, hits, <<>>, "answered")
    \/ \E rerank \in BOOLEAN :
          /\ hits # <<>> /\ (query.kind = "auto" => rerank)
          /\ query' = [stage |-> "judge", kind |-> query.kind, rerank |-> rerank, found |-> hits,
                       expired |-> FALSE, asking |-> TRUE, left |-> MaxRetries]

\* HybridSearchEngine makes do with the other half when one fails.
Fuse ==
    /\ query.stage = "search" /\ query.engine = "hybrid"
    /\ UNCHANGED <<pages, cache, load, last>>
    /\ Settled(query.lexical) /\ Settled(query.semantic)
    /\ \E f \in Fusions : /\ f.lexical = query.lexical.ranking /\ f.semantic = query.semantic.ranking
                          /\ Found(f.hits)

\* The only half of a search by keyword or by meaning.
OnlyHalf == IF query.engine = "bm25" THEN query.lexical ELSE query.semantic

SearchEnds ==
    /\ query.stage = "search" /\ query.engine # "hybrid" /\ OnlyHalf.state = "done"
    /\ UNCHANGED <<pages, cache, load, last>>
    /\ Found(Alone(OnlyHalf.ranking))

\* Mutant: an ask fails closed, too.
FailsClosed(outcome) == Ended(query.found, <<>>, <<>>, outcome)

\* How a search ends without a judgement: an ask shows what it found, the hook nothing.
Unjudged(outcome) ==
    IF query.kind = "ask" THEN Ended(query.found, query.found, <<>>, "answered")
    ELSE Ended(query.found, <<>>, <<>>, outcome)

\* A search fails: an ask falls back to the titles and summaries of the index.
SearchFails ==
    /\ query.stage = "search" /\ query.engine # "hybrid" /\ OnlyHalf.state = "failed"
    /\ UNCHANGED <<pages, cache, load, last>>
    /\ \/ /\ query.kind = "ask"
          /\ \E r \in Ranked(Page) : Found(Alone(r))
       \/ /\ query.kind = "auto"
          /\ query' = Ended(<<>>, <<>>, <<>>, "error")

-----------------------------------------------------------------------------
(* The judgement (systemOne of src/src/jev.ts).                            *)

Judging == query.stage = "judge" /\ query.asking

\* The hook injects what is helpful of the candidates.
Inject(judgement) ==
    Ended(query.found, judgement.brief, judgement.answers,
          IF judgement.brief = <<>> THEN "no_relevant_candidates" ELSE "injected")

\* An ask shows the candidates in the order of their relevance.
Show(judgement) == Ended(query.found, judgement.ranked, judgement.answers, "answered")

\* Jev finds the evidence insufficient, or does not answer that question, and the hook gives
\* up; an ask that reranks nothing shows that only in a note.
JevAnswers ==
    /\ Judging /\ ~query.expired
    /\ UNCHANGED <<pages, cache, load, last>>
    /\ \/ (query.kind = "auto" \/ ~query.rerank) /\ query' = Unjudged("below_gate")
       \/ /\ query.rerank
          /\ \E judgement \in Judgements :
                /\ judgement.found = query.found
                /\ query' = IF query.kind = "ask" THEN Show(judgement) ELSE Inject(judgement)

\* The budget of the hook runs out, or the turn is aborted.  Nothing notices while the search
\* is under way, so it may as well happen after it.
Expire ==
    /\ query.stage = "judge" /\ ~query.expired
    /\ query' = [query EXCEPT !.expired = TRUE]
    /\ UNCHANGED <<pages, cache, load, last>>

RetriesLeft(left) == left > 0

\* Mutant: an attempt that is not counted.
SameRetries(left) == left

OneRetryLess(left) == left - 1

\* No connection, a timeout, an overload or a failure of the server, or a request that was
\* aborted: the client waits, and asks again.
JevFails ==
    /\ Judging
    /\ UNCHANGED <<pages, cache, load, last>>
    /\ query' = IF RetriesLeft(query.left) THEN [query EXCEPT !.asking = FALSE, !.left = OneRetryLess(@)]
                ELSE Unjudged("error")

Retry ==
    /\ query.stage = "judge" /\ ~query.asking
    /\ UNCHANGED <<pages, cache, load, last>>
    /\ query' = [query EXCEPT !.asking = TRUE]

\* A refusal is final, and so is an answer that breaks off, or that cannot be parsed.
JevRefuses ==
    /\ Judging
    /\ UNCHANGED <<pages, cache, load, last>>
    /\ \/ query' = Unjudged("error")
       \/ query.expired /\ query' = Unjudged("timeout")

-----------------------------------------------------------------------------

Judgement == JevAnswers \/ JevFails \/ Retry \/ JevRefuses
QueryStep == LexicalEnds \/ SemanticEnds \/ Fuse \/ SearchEnds \/ SearchFails \/ Judgement

Next ==
    \/ \E p \in Page : Write(p) \/ Delete(p)
    \/ StaysFresh
    \/ \E c \in Caller : Ensure(c) \/ LoadFails(c)
    \/ (\E text \in Text : Prompt(text)) \/ Ask \/ Expire \/ QueryStep

\* The file system, the embedder client and the fetch of a request answer or give up.
Spec == Init /\ [][Next]_vars /\ WF_vars(Ensure("query")) /\ WF_vars(QueryStep)

-----------------------------------------------------------------------------

TypeOK ==
    /\ disk \in [Page -> 0..MaxTime] /\ time \in 1..MaxTime
    /\ cache.built \in BOOLEAN /\ cache.docs \in [Page -> Unreadable..MaxTime]
    /\ \A c \in Caller : load[c].phase \in {"idle", "check", "list", "read", "ready", "failed"}
    /\ query.stage \in {"none", "search", "judge", "ended"}
    /\ query.stage = "judge" => query.left \in 0..MaxRetries
    /\ query.stage \in {"judge", "ended"} => query.found \in Candidates
    /\ last \in Text \cup {"none"}

\* While the directory looks as it did when the cache was loaded, every page is in the cache
\* as it is on disk, whatever was written and deleted while the pages were read, except the
\* pages that could not be read then: these are left out until something is written, since
\* the fingerprint is installed all the same (search.ts:82-84, 136).  (A page that was
\* created and deleted again meanwhile may be there still.)
CacheCoversTheWiki ==
    /\ TypeOK
    /\ cache.built /\ cache.fp = Fingerprint =>
          \A p \in Page : disk[p] > 0 => cache.docs[p] \in {disk[p], Unreadable}

\* Fusion neither loses nor counts twice what the two halves of a search returned, and a
\* page has an entry as a whole only when none of its chunks has one.
SoundFusions ==
    {p \in Ranked(Page) \X Semantic : FusesSoundly(rrfFuse(p[1], p[2], Weights), p[1], p[2], Weights)}

FusionIsSound ==
    query.stage = "search" /\ query.engine = "hybrid" /\ Settled(query.lexical) /\ Settled(query.semantic) =>
        <<query.lexical.ranking, query.semantic.ranking>> \in SoundFusions

\* Only a judgement that found the evidence sufficient has anything injected, and of the
\* candidates only those that it did not find unhelpful ("Fail closed. No sufficiency
\* verdict, a low verdict, or a timeout means no injection", auto-retrieve.ts:11).  Of a
\* page it is the best of its candidates, and a page with a candidate that is not unhelpful
\* is left out only when the brief is full, of pages that are as good.  That is so also of a
\* search whose semantic half failed or found nothing: it is injected with a note, although
\* AUTO-RETRIEVAL.md:154 says such a run "must not inject".
InjectedIsBacked ==
    query.stage = "ended" /\ query.kind = "auto" /\ query.shown # <<>> =>
        /\ query.answers # <<>> /\ query.outcome = "injected"
        /\ \A i \in DOMAIN query.shown :
              \E k \in DOMAIN query.found :
                 /\ query.found[k].hit = query.shown[i].hit
                 /\ k \in DOMAIN query.answers => query.answers[k] # 0
        /\ \A k \in DOMAIN query.found :
              Relevance(query.answers, k) >= Midpoint =>
                  LET same == {i \in DOMAIN query.shown : query.shown[i].hit.page = query.found[k].hit.page}
                      rivals == IF same = {} THEN DOMAIN query.shown ELSE same
                  IN  /\ Cardinality(same) <= 1 /\ (same = {} => Len(query.shown) >= Room)
                      /\ \A i \in rivals : query.shown[i].relevance >= Relevance(query.answers, k)

\* An ask shows exactly what was found, in whatever order, whatever becomes of the
\* judgement, and in the order it was found without one.
AsksDegrade ==
    query.stage = "ended" /\ query.kind = "ask" =>
        /\ {query.shown[i].hit : i \in DOMAIN query.shown} = {query.found[i].hit : i \in DOMAIN query.found}
        /\ Len(query.shown) = Len(query.found)
        /\ query.answers = <<>> => query.shown = query.found

\* Every search ends: whatever fails, and however the pages change under it.
EveryQueryEnds == query.stage = "search" ~> query.stage = "ended"
=============================================================================
