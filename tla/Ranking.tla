------------------------------ MODULE Ranking ------------------------------
(***************************************************************************)
(* How search results are ranked: the fusion of a keyword and a semantic   *)
(* ranking (rrfFuse in src/src/wiki/search.ts), the order after Jev has    *)
(* judged the candidates (src/src/vector/judgments.ts), and what automatic *)
(* retrieval injects of them (src/src/auto-retrieve.ts).                   *)
(*                                                                         *)
(* A hit names a page and a chunk of it, chunk 0 for the page as a whole.  *)
(* weights[i] is what rank i contributes, 1/(k + i) in the code, scaled to *)
(* a whole number.  Relevance is 0, 1 or 2, with 1 for the midpoint.       *)
(***************************************************************************)
EXTENDS Integers, FiniteSets, Sequences

Midpoint == 1

\* The indices in I in the order of keys, the highest first, and otherwise as they are.
Precedes(keys, i, j) == keys[i] > keys[j] \/ (keys[i] = keys[j] /\ i < j)

Order(I, keys) ==
    CHOOSE order \in [1..Cardinality(I) -> I] : \A k, l \in DOMAIN order : k < l => Precedes(keys, order[k], order[l])

\* A sequence at some of its indices, in a given order.
At(s, order) == [k \in DOMAIN order |-> s[order[k]]]

\* Those elements of s that have their index in I (filter).
Picked(s, I) == At(s, Order(I, [i \in I |-> 0]))

ByScore(hits) == At(hits, Order(DOMAIN hits, [i \in DOMAIN hits |-> hits[i].score]))

ByRelevance(hits) == At(hits, Order(DOMAIN hits, [i \in DOMAIN hits |-> hits[i].relevance]))

\* Mutant: the page-level entry stays where it is.
NotAbsorbed(entries, hit) == {}

\* A hit of a chunk absorbs the entry of its page as a whole.
Absorbed(entries, hit) ==
    {i \in DOMAIN entries : hit.chunk # 0 /\ entries[i].hit = [page |-> hit.page, chunk |-> 0]}

\* One more result: a hit of a page as a whole counts for the chunk of the page that was
\* ranked last, if one was.
AddResult(acc, result) ==
    LET before == {i \in DOMAIN acc.chunks : acc.chunks[i].page = result.hit.page}
        hit == IF result.hit.chunk # 0 \/ before = {} THEN result.hit
               ELSE acc.chunks[CHOOSE i \in before : \A k \in before : k <= i]
        same == {i \in DOMAIN acc.entries : acc.entries[i].hit = hit}
        gone == Absorbed(acc.entries, hit)
        absorbed == IF gone = {} THEN 0 ELSE acc.entries[CHOOSE i \in gone : TRUE].score
    IN  [entries |->
            IF same # {}
            THEN [acc.entries EXCEPT ![CHOOSE i \in same : TRUE].score = @ + result.score]
            ELSE Picked(acc.entries, DOMAIN acc.entries \ gone)
                    \o <<[hit |-> hit, score |-> result.score + absorbed]>>,
         chunks |-> IF result.hit.chunk # 0 THEN Append(acc.chunks, hit) ELSE acc.chunks]

Weighed(ranking, weights) == [i \in DOMAIN ranking |-> [hit |-> ranking[i], score |-> weights[i]]]

Results(first, second, weights) == Weighed(first, weights) \o Weighed(second, weights)

\* The map of the entries, and the chunks that were ranked, after each of the results.
Fusion(results) ==
    LET acc[i \in 0..Len(results)] ==
            IF i = 0 THEN [entries |-> <<>>, chunks |-> <<>>] ELSE AddResult(acc[i - 1], results[i])
    IN  acc

rrfFuse(first, second, weights) ==
    LET results == Results(first, second, weights)
    IN  ByScore(Fusion(results)[Len(results)].entries)

\* The first n of a sequence (slice).
UpTo(s, n) == SubSeq(s, 1, IF Len(s) < n THEN Len(s) ELSE n)

\* The relevance of result i: what Jev answered, and the midpoint where it was not asked (as
\* where it was asked and did not answer).
Relevance(answers, i) == IF i \in DOMAIN answers THEN answers[i] ELSE Midpoint

\* judgeRetrieval: relevance first, then the score.
Reranked(hits, answers) ==
    LET judged == [i \in DOMAIN hits |->
                      [hit |-> hits[i].hit, score |-> hits[i].score, relevance |-> Relevance(answers, i)]]
    IN  ByRelevance(ByScore(judged))

Helpful(hits) == Picked(hits, {i \in DOMAIN hits : hits[i].relevance >= Midpoint})

\* Mutant: the last hit of a page, for the best one.
LastOfPage(hits) ==
    Picked(hits, {i \in DOMAIN hits : \A k \in (i + 1)..Len(hits) : hits[k].hit.page # hits[i].hit.page})

\* dedupeByPage: the best hit of each page.
dedupeByPage(hits) ==
    Picked(hits, {i \in DOMAIN hits : \A k \in 1..(i - 1) : hits[k].hit.page # hits[i].hit.page})

\* renderBrief: the first hit, and as many more as the budget has room for.
renderBrief(hits, room) == UpTo(hits, IF room < 1 THEN 1 ELSE room)

\* What is injected of the judged hits.
Brief(judged, room) == renderBrief(dedupeByPage(Helpful(judged)), room)

-----------------------------------------------------------------------------

\* The total of the scores, as the number of their units.
TotalScore(entries) == Cardinality(UNION {{i} \X (1..entries[i].score) : i \in DOMAIN entries})

\* Nothing is lost or counted twice in a fusion; a chunk has one entry, and a page has an
\* entry as a whole only when none of its chunks has one ("a page-level hit and a
\* claim-level hit for the same page merge into one entry", search.ts:325).
FusesSoundly(fused, first, second, weights) ==
    /\ TotalScore(fused) = TotalScore(Weighed(first, weights)) + TotalScore(Weighed(second, weights))
    /\ \A i, j \in DOMAIN fused :
          i # j => /\ fused[i].hit # fused[j].hit
                   /\ fused[i].hit.page = fused[j].hit.page => fused[i].hit.chunk # 0
    /\ \A i, j \in DOMAIN fused : i < j => fused[i].score >= fused[j].score
=============================================================================
