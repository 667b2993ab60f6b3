--------------------------- MODULE InsightsProofs ---------------------------
(***************************************************************************)
(* Proofs about what becomes of claims, for any calls, sources, answers,   *)
(* thresholds and bounds.  First the decisions about one claim             *)
(* (Adjudication), for all answers; then, on top of them, the calls.       *)
(***************************************************************************)
EXTENDS Insights, FiniteSetTheorems, NaturalsInduction, SequenceTheorems,
        WellFoundedInduction, TLAPS

LEMMA ScoresAreNumbers == Score \subseteq Nat
BY DEF Score

LEMMA ThresholdTypes ==
    /\ AutoAccept \in Nat /\ MinSupport \in Nat /\ MinDerivable \in Nat
    /\ FramingImportance \in Nat /\ EscalateCriticality \in Nat
    /\ MinFit \in Nat /\ NewPageConfidence \in Nat /\ MinImportance \in Nat
BY ThresholdsAreScores, ScoresAreNumbers DEF Score

LEMMA VerdictTypes ==
    ASSUME NEW v \in Verdict
    PROVE  /\ v.sensitive \in Nat /\ v.derivable \in Nat /\ v.grounded \in Nat
           /\ v.durable \in Nat /\ v.alreadyKnown \in Nat /\ v.importance \in Nat
           /\ v.importanceNorm \in Nat /\ v.criticalityNorm \in Nat
           /\ v.trustTier \in {"user_stated", "verified_in_repo", "none"}
BY ScoresAreNumbers DEF Verdict, Score

\* Every answer leads to one of the eight actions.
THEOREM DecisionIsAnAction == \A v \in Verdict : decideClaim(v) \in Action
BY DEF decideClaim, DecideGrounded, DecideSupported, DecideUnsupported, Action, Accepted,
       Filed, Rejected

\* A claim is accepted only when it is neither sensitive, derivable nor known, matters
\* enough, and is well grounded or rests on the word of the user or the repository
\* (decideClaim): no order of the tests lets another one through.
THEOREM AcceptedIsBacked == \A v \in Verdict : decideClaim(v) \in Accepted => Backed(v)
<1> SUFFICES ASSUME NEW v \in Verdict, decideClaim(v) \in Accepted PROVE Backed(v)
    OBVIOUS
<1> USE ThresholdTypes, VerdictTypes DEF Accepted, Filed
<1>1. v.sensitive < 90 /\ v.derivable < MinDerivable /\ v.alreadyKnown < 90
    BY DEF decideClaim
<1>2. decideClaim(v) =
        IF v.grounded >= AutoAccept /\ v.importance >= MinImportance THEN DecideGrounded(v)
        ELSE IF v.grounded >= MinSupport THEN DecideSupported(v) ELSE DecideUnsupported(v)
    BY <1>1 DEF decideClaim
<1>3. CASE v.grounded >= AutoAccept /\ v.importance >= MinImportance
    BY <1>1, <1>3 DEF Backed
<1>4. CASE ~(v.grounded >= AutoAccept /\ v.importance >= MinImportance) /\ v.grounded >= MinSupport
    <2>1. decideClaim(v) = DecideSupported(v)  BY <1>2, <1>4
    <2>2. v.trustTier = "user_stated" /\ WorthKeeping(v)  BY <2>1 DEF DecideSupported
    <2> QED  BY <1>1, <2>2 DEF Backed, WorthKeeping
<1>5. CASE ~(v.grounded >= AutoAccept /\ v.importance >= MinImportance) /\ ~(v.grounded >= MinSupport)
    <2>1. decideClaim(v) = DecideUnsupported(v)  BY <1>2, <1>5
    <2>2. WorthKeeping(v) /\ v.trustTier # "none"  BY <2>1 DEF DecideUnsupported
    <2> QED  BY <1>1, <2>2 DEF Backed, WorthKeeping
<1> QED  BY <1>3, <1>4, <1>5

\* A claim with a high sensitivity is never put before anyone: it is turned down before
\* any test that could send it to review.
THEOREM SensitiveIsRejected ==
    \A v \in Verdict : v.sensitive >= 90 => decideClaim(v) \in Rejected
BY DEF decideClaim, Rejected

\* Where nobody vouches for a claim, better grounding never turns an accepted claim into
\* one that is not: the tests of support are monotone.
THEOREM GroundingIsMonotone ==
    ASSUME NEW v \in Verdict, NEW g \in Score, g >= v.grounded, v.trustTier = "none",
           decideClaim(v) \in Accepted
    PROVE  decideClaim([v EXCEPT !.grounded = g]) \in Accepted
<1> DEFINE w == [v EXCEPT !.grounded = g]
<1> USE ThresholdTypes, VerdictTypes, ScoresAreNumbers
<1>1. /\ w.sensitive = v.sensitive /\ w.derivable = v.derivable /\ w.grounded = g
      /\ w.durable = v.durable /\ w.alreadyKnown = v.alreadyKnown
      /\ w.importance = v.importance /\ w.importanceNorm = v.importanceNorm
      /\ w.relation = v.relation
    BY DEF Verdict
<1>2. Backed(v)  BY AcceptedIsBacked
<1>3. v.grounded >= AutoAccept /\ v.importance >= MinImportance  BY <1>2 DEF Backed
<1>4. decideClaim(v) = DecideGrounded(v)
    BY <1>2, <1>3 DEF decideClaim, Backed
<1>5. w.grounded >= AutoAccept /\ w.importance >= MinImportance  BY <1>1, <1>3, g \in Nat, v.grounded \in Nat
<1>6. decideClaim(w) = DecideGrounded(w)
    BY <1>1, <1>2, <1>5 DEF decideClaim, Backed
<1>7. DecideGrounded(w) = DecideGrounded(v)  BY <1>1 DEF DecideGrounded, Reinforces
<1> QED  BY <1>4, <1>6, <1>7

-----------------------------------------------------------------------------

ShardAnswers == [best : STRING, anyFit : Score, confidence : Score]

\* chooseTarget names a page that was a candidate and that a question rated as fitting,
\* or asks for a new page, whatever the shards and the final question answer.
THEOREM TargetFits ==
    ASSUME NEW candidates, NEW shards \in SUBSET ShardAnswers, NEW final \in [choice : STRING, fit : Score],
           chooseTarget(shards, candidates, final) # NewPage
    PROVE  /\ chooseTarget(shards, candidates, final) \in candidates
           /\ \E s \in shards : /\ s.best = chooseTarget(shards, candidates, final)
                                /\ s.anyFit >= MinFit
<1> DEFINE w == Winners(shards, candidates)
           t == chooseTarget(shards, candidates, final)
<1>1. w # {}  BY DEF chooseTarget
<1>2. CASE Cardinality(w) = 1
    <2> DEFINE only == CHOOSE s \in w : TRUE
    <2>1. only \in w  BY <1>1
    <2>2. t = only.best  BY <1>1, <1>2 DEF chooseTarget
    <2> QED  BY <2>1, <2>2 DEF Winners
<1>3. CASE Cardinality(w) # 1
    <2>1. t = final.choice /\ final.choice \in {s.best : s \in w}  BY <1>1, <1>3 DEF chooseTarget
    <2> QED  BY <2>1 DEF Winners
<1> QED  BY <1>2, <1>3

\* The code's second look at a single winner's confidence never applies: a winner fits, so
\* newPageConfidence has no effect on any placement (adjudicate.ts:197).
THEOREM NewPageConfidenceIsUnused ==
    ASSUME NEW candidates, NEW shards \in SUBSET ShardAnswers, NEW s \in Winners(shards, candidates)
    PROVE  ~(s.confidence < NewPageConfidence /\ s.anyFit < MinFit)
<1>1. s \in shards /\ s.anyFit >= MinFit  BY DEF Winners
<1>2. s.anyFit \in Nat  BY <1>1, ScoresAreNumbers DEF ShardAnswers
<1> QED  BY <1>1, <1>2, ThresholdTypes

-----------------------------------------------------------------------------

Modes == {"guided", "draft", "auto"}

\* No batch with a claim that is critical to escalate is written without a person:
\* from there on the mode is never "auto", and from 95 on always "guided".
THEOREM CriticalIsNotAutomatic ==
    ASSUME NEW requested \in Modes, NEW worst \in Nat, worst >= EscalateCriticality
    PROVE  /\ resolveWriterMode(requested, worst) \in {"guided", "draft"}
           /\ worst >= 95 => resolveWriterMode(requested, worst) = "guided"
BY DEF resolveWriterMode, Modes

-----------------------------------------------------------------------------

(***************************************************************************)
(* The calls.  Types of everything, with what the control of a call        *)
(* guarantees: a call without claims yet has no jobs; past its batch all   *)
(* of them are done; and a job past "judge" was decided.                   *)
(***************************************************************************)

Target == Page \cup {NewPage}
Status == {"verified", "user-stated", "superseded"}
ClaimRec == [text : Text, status : Status, confirmed : BOOLEAN]
Copy == Page \X SUBSET ClaimRec
Stage == {"judge", "review", "dispute", "reinforce", "supersede", "log", "done", "reinforcing",
          "superseding", "failed"}
JobRec == [text : Text, stage : Stage, is : Outcomes \cup {Undecided}, target : Target, base : SUBSET Copy]
FileName == {NameOf(d, k) : d \in DOMAIN Title, k \in Nat}
Point == {"ready", "name", "store", "index", "extract", "jobs", "raise", "note", "write", "group",
          "ask", "flag"} \cup Over
CallRec == [pc : Point, name : FileName \cup {<<>>}, jobs : Seq(JobRec), shown : SUBSET Page,
            known : SUBSET (Page \X Text), due : Seq(Text), todo : SUBSET Target, group : Target,
            base : SUBSET Copy, written : SUBSET Page, flagged : SUBSET Page]

IsAMap(f) == f = [x \in DOMAIN f |-> f[x]]

Types ==
    /\ DOMAIN pages \subseteq Page /\ pages \in [DOMAIN pages -> SUBSET ClaimRec]
    /\ listed \subseteq DOMAIN pages
    /\ queue \subseteq [kind : {"claim_review", "dispute"}, text : Text \cup {"invented"}, page : Target]
    /\ log \in Seq([text : Text, action : Action \cup {"promoted"}])
    /\ IsFiniteSet(DOMAIN raw) /\ IsAMap(raw)
    /\ DOMAIN rawIndex \subseteq {Input[c] : c \in Ingest} /\ IsAMap(rawIndex)
    /\ call \in [Call -> CallRec]
    /\ faults \in 0..MaxFaults

\* Before its batch.
Early(c) ==
    \/ call[c].pc \in {"ready", "extract", "duplicate"}
    \/ c \in Ingest /\ call[c].pc \in {"name", "store", "index"}

\* How far the jobs of a call are, and what is certain at the point it is at.
JobControl(c) ==
    \A i \in DOMAIN call[c].jobs :
        /\ ~AtStage(c, i, "judge") /\ ~AtStage(c, i, "failed") => call[c].jobs[i].is \in Outcomes
        /\ AtStage(c, i, "failed") => faults > 0
        /\ AtStage(c, i, "log") => c \in Capture

PointControl(c) ==
    /\ Early(c) => call[c].jobs = <<>>
    /\ call[c].pc \notin {"jobs", "failed"} => \A i \in DOMAIN call[c].jobs : AtStage(c, i, "done")
    /\ call[c].pc \in {"index", "extract"} => c \in Ingest
    /\ call[c].pc \in {"raise", "note", "write"} => c \in Capture
    /\ call[c].pc \in {"raise", "note"} => call[c].due # <<>>
    /\ call[c].pc = "failed" => faults > 0
    /\ call[c].written \subseteq DOMAIN pages

Control == \A c \in Call : JobControl(c) /\ PointControl(c)

\* A claim that is on a page p by right: it was there at first, or a batch that is over
\* and that may be written without a person has filed it.
Backs(p, x) ==
    \/ p \in DOMAIN Held /\ x.text \in Held[p]
    \/ \E c \in Call :
          /\ \A i \in DOMAIN call[c].jobs : AtStage(c, i, "done")
          /\ \E i \in FiledJobs(c) :
                /\ call[c].jobs[i].text = x.text /\ call[c].jobs[i].is.backed
                /\ RequestedMode = "auto" /\ Worst(c) < EscalateCriticality
                /\ x.status # "superseded" =>
                      (x.status = "user-stated" <=> call[c].jobs[i].is.said)

CopyBacked(b) == \A x \in b[2] : Backs(b[1], x)

\* Also what a call has read of pages, and will write back, is there by right.
WorkRight(c) ==
    /\ \A b \in call[c].base : CopyBacked(b)
    /\ \A i \in DOMAIN call[c].jobs : \A b \in call[c].jobs[i].base : CopyBacked(b)
    /\ call[c].pc \in {"group", "ask"} => Mode(c) # "guided"
    /\ call[c].pc = "ask" => \A b \in call[c].base : b[1] = call[c].group

PagesRight == \A p \in DOMAIN pages : \A x \in pages[p] : Backs(p, x)

Rightful == PagesRight /\ \A c \in Call : WorkRight(c)

Queued(kind, t) == \E x \in queue : x.kind = kind /\ x.text = t

\* What is behind a job is done; what writing has flagged is queued before the call ends.
JobAsked(c) ==
    \A i \in DOMAIN call[c].jobs :
        LET j == call[c].jobs[i]
        IN  /\ j.is.action = "review" /\ j.stage \notin {"judge", "review", "failed"}
                  => Queued("claim_review", j.text)
            /\ j.is.relation = "contradicts" /\ j.stage \notin {"judge", "review", "dispute", "failed"}
                  => Queued("dispute", j.text)

FlagAsked(c) ==
    /\ call[c].pc \notin {"group", "ask", "flag", "end", "failed"} => call[c].flagged = {}
    /\ call[c].pc = "end" =>
          \A p \in call[c].flagged : Enqueued("claim_review", "invented", p) \in queue

Asked == \A c \in Call : JobAsked(c) /\ FlagAsked(c)

\* Call c is still going to look at the log, or has seen the group of t in it.
Minds(c, t) ==
    \/ call[c].pc = "jobs"
    \/ call[c].pc \in {"raise", "note"} /\ \E k \in DOMAIN call[c].due : call[c].due[k] \in Alike[t]

Minded(t) == \E c \in Capture : Minds(c, t)

\* What came up often enough and was neither taken nor raised.
Unsettled(t) ==
    /\ Cardinality(Group(t)) >= Recurs
    /\ \A k \in Group(t) : log[k].action \notin Accepted \cup {"promoted"}

Noted ==
    /\ \A k \in DOMAIN log : log[k].action = "promoted" => Queued("claim_review", log[k].text)
    /\ \A c \in Call : call[c].pc = "note" => Queued("claim_review", Head(call[c].due))

Promoting == Noted /\ (faults = 0 => \A t \in Text : Unsettled(t) => Minded(t))

\* The call has its file's name, or will never have one.
Named(c) ==
    /\ call[c].pc \notin {"ready", "name"}
    /\ c \in Capture => call[c].pc \notin {"jobs", "raise", "note"}

\* File n holds the source d, or two calls took its name.
Holds(n, d) ==
    \/ n \in DOMAIN raw /\ raw[n] = d
    \/ \E c, e \in Call : /\ Named(c) /\ Named(e) /\ call[c].name = n /\ call[e].name = n
                          /\ Input[c] # Input[e]

Past == {"extract", "jobs", "group", "ask", "flag", "end"}

\* An ingest that is past the raw index is in it, and takes all claims of its source.
IngestKept(c) ==
    /\ call[c].pc \in Past \cup {"duplicate"} => Input[c] \in DOMAIN rawIndex
    /\ call[c].pc = "index" => Holds(call[c].name, Input[c])
    /\ faults = 0 /\ call[c].pc \in Past \ {"extract"} => Len(call[c].jobs) = Len(Items[Input[c]])

\* An entry of the raw index was made by a call that is past it.
EntryKept(d) ==
    /\ Holds(rawIndex[d], d)
    /\ \E e \in Ingest : /\ Input[e] = d /\ Named(e) /\ call[e].name = rawIndex[d]
                         /\ call[e].pc \in Past \cup {"failed"}
    /\ faults = 0 => \E e \in Ingest : Input[e] = d /\ call[e].pc \in Past

Kept == (\A c \in Ingest : IngestKept(c)) /\ (\A d \in DOMAIN rawIndex : EntryKept(d))

InsightsInv == Types /\ Control /\ Rightful /\ Asked /\ Promoting /\ Kept

-----------------------------------------------------------------------------
(* Facts about the operators.                                              *)

\* A set of numbers has a least element, and one with a bound has a greatest.
LEMMA HasFirst ==
  ASSUME NEW S \in SUBSET Nat, S # {}
  PROVE  \E i \in S : \A j \in S : i <= j
<1> DEFINE R == OpToRel(<, Nat)
<1>1. IsWellFoundedOn(R, Nat)
  BY NatLessThanWellFounded
<1>2. PICK x \in S : \A y \in S : ~(<<y, x>> \in R)
  <2> HIDE DEF R
  <2> QED BY <1>1, WFMin
<1>3. \A y \in S : ~(y < x)
  BY <1>2 DEF OpToRel
<1> QED BY <1>3

LEMMA HasLast ==
  ASSUME NEW n \in Nat, NEW S \in SUBSET (0..n), S # {}
  PROVE  \E i \in S : \A j \in S : j <= i
<1> DEFINE T == {n - i : i \in S}
<1>1. \A i \in S : i \in Nat /\ n - i \in Nat
  BY S \subseteq 0..n
<1>2. PICK x \in T : \A y \in T : x <= y
  <2>1. T \in SUBSET Nat /\ T # {}
    BY <1>1
  <2> HIDE DEF T
  <2> QED BY <2>1, HasFirst
<1>3. PICK i \in S : x = n - i
  OBVIOUS
<1>4. \A j \in S : n - i <= n - j
  BY <1>2, <1>3
<1> QED BY <1>1, <1>4

LEMMA SameBound ==
  ASSUME NEW m \in Nat, NEW n \in Nat, 1..m = 1..n
  PROVE  m = n
<1>1. m \in 1..m \/ m = 0
  OBVIOUS
<1>2. n \in 1..n \/ n = 0
  OBVIOUS
<1>3. m <= n
  <2>1. m \in 1..n \/ m = 0
    BY <1>1
  <2> QED BY <2>1
<1>4. n <= m
  <2>1. n \in 1..m \/ n = 0
    BY <1>2
  <2> QED BY <2>1
<1> QED BY <1>3, <1>4

\* What a verdict comes to: an action, and a ground where the claim is accepted.
LEMMA OutcomeTypes ==
  ASSUME NEW o \in Outcomes
  PROVE  /\ o.action \in Action /\ o.critical \in 0..100
         /\ o.action \in Accepted => o.backed
<1>1. PICK v \in Verdict : o = Outcome(v)
  BY InputsAreGiven DEF Outcomes
<1>2. /\ o.action = decideClaim(v) /\ o.critical = v.criticalityNorm /\ o.backed = Backed(v)
  BY <1>1 DEF Outcome
<1>3. v.criticalityNorm \in 0..100
  BY DEF Verdict, Score
<1> QED BY <1>2, <1>3, DecisionIsAnAction, AcceptedIsBacked

LEMMA OutcomesAreOutcomes == OutcomesAlone \subseteq Outcomes
BY DEF Outcomes, OutcomesAlone

Leaving == {"judge", "review", "dispute", "reinforce", "supersede", "log"}

\* s may be the next stage that is due for a job j of c that leaves from.
StopsAt(c, from, j, s) ==
    /\ s = "log" => c \in Capture
    /\ s \in {"review", "dispute", "reinforce", "supersede", "log", "done"}
    /\ from = "judge" /\ j.is.action = "review" => s = "review"
    /\ from \in {"judge", "review"} /\ j.is.relation = "contradicts" => s \in {"review", "dispute"}
    /\ from # "judge" => s # "review"

\* Job i of call c is replaced by j.
Replaces(c, i, j) == call' = [call EXCEPT ![c].jobs[i] = j]

LEMMA PassesOn ==
  ASSUME NEW c, NEW i, NEW from \in Leaving, NEW j, Passes(c, i, from, j)
  PROVE  \E s : /\ StopsAt(c, from, j, s)
                /\ Replaces(c, i, [j EXCEPT !.stage = s, !.base = {}])
<1> DEFINE at == CHOOSE k \in DOMAIN Stages : Stages[k] = from
           next == {k \in DOMAIN Stages : k > at /\ Due(c, j, Stages[k])}
           first == CHOOSE k \in next : \A n \in next : k <= n
<1>1. /\ DOMAIN Stages = 1..7
      /\ Stages[1] = "judge" /\ Stages[2] = "review" /\ Stages[3] = "dispute"
      /\ Stages[4] = "reinforce" /\ Stages[5] = "supersede" /\ Stages[6] = "log"
      /\ Stages[7] = "done"
  BY DEF Stages
<1>2. at \in 1..6 /\ Stages[at] = from
  <2>1. \E k \in DOMAIN Stages : Stages[k] = from
    BY <1>1 DEF Leaving
  <2>2. at \in 1..7 /\ Stages[at] = from
    BY <1>1, <2>1
  <2> QED BY <1>1, <2>2 DEF Leaving
<1>3. Replaces(c, i, [j EXCEPT !.stage = Stages[first], !.base = {}])
  BY DEF Passes, Replaces
<1> HIDE DEF at
<1>4. 7 \in next
  BY <1>1, <1>2 DEF Due
<1>5. first \in next /\ \A n \in next : first <= n
  <2>1. next \in SUBSET Nat /\ next # {}
    BY <1>1, <1>4
  <2>2. \E k \in next : \A n \in next : k <= n
    <3> HIDE DEF next
    <3> QED BY <2>1, HasFirst
  <2> QED BY <2>2
<1> HIDE DEF first
<1>6. first \in 1..7 /\ first > at
  BY <1>1, <1>5
<1>7. /\ from = "judge" => at = 1
      /\ from = "review" => at = 2
      /\ from # "judge" => at > 1
  BY <1>1, <1>2
<1>8. j.is.action = "review" /\ at = 1 => first = 2
  <2>1. j.is.action = "review" => Due(c, j, "review")
    BY DEF Due
  <2>2. j.is.action = "review" /\ at = 1 => 2 \in next
    BY <1>1, <2>1
  <2> HIDE DEF next
  <2> QED BY <1>5, <1>6, <2>2
<1>9. j.is.relation = "contradicts" /\ at \in {1, 2} => first \in {2, 3}
  <2>1. j.is.relation = "contradicts" => Due(c, j, "dispute")
    BY DEF Due
  <2>2. j.is.relation = "contradicts" /\ at \in {1, 2} => 3 \in next
    BY <1>1, <2>1
  <2> HIDE DEF next
  <2> QED BY <1>5, <1>6, <2>2
<1>10. Stages[first] = "log" => c \in Capture
  <2>1. Due(c, j, Stages[first])
    BY <1>5
  <2> QED BY <2>1 DEF Due
<1> HIDE DEF next
<1>11. StopsAt(c, from, j, Stages[first])
  BY <1>1, <1>2, <1>6, <1>7, <1>8, <1>9, <1>10 DEF StopsAt
<1> DEFINE s == Stages[first]
<1> HIDE DEF s
<1> QED BY <1>3, <1>11, Zenon DEF s

\* Nothing but job i of call c is other than before: it is j.
JobBecomes(c, i, j) ==
    /\ call' \in [Call -> CallRec]
    /\ \A e \in Call :
          /\ call'[e] = [call[e] EXCEPT !.jobs = call'[e].jobs]
          /\ e # c => call'[e] = call[e]
          /\ Len(call'[e].jobs) = Len(call[e].jobs) /\ DOMAIN call'[e].jobs = DOMAIN call[e].jobs
          /\ \A k \in DOMAIN call[e].jobs :
                call'[e].jobs[k] = IF e = c /\ k = i THEN j ELSE call[e].jobs[k]

LEMMA JobUpdate ==
  ASSUME call \in [Call -> CallRec], NEW c \in Call, NEW i \in DOMAIN call[c].jobs, NEW j \in JobRec,
         Replaces(c, i, j)
  PROVE  JobBecomes(c, i, j)
<1> DEFINE js == [call[c].jobs EXCEPT ![i] = j]
<1>1. call[c] \in CallRec /\ call[c].jobs \in Seq(JobRec)
  BY DEF CallRec
<1>2. i \in 1..Len(call[c].jobs)
  BY <1>1, LenProperties
<1>3. js \in Seq(JobRec) /\ Len(js) = Len(call[c].jobs)
      /\ \A k \in 1..Len(call[c].jobs) : js[k] = IF k = i THEN j ELSE call[c].jobs[k]
  BY <1>1, <1>2, ExceptSeq
<1>4. call' = [call EXCEPT ![c] = [call[c] EXCEPT !.jobs = js]]
  BY DEF Replaces
<1> HIDE DEF js
<1>5. [call[c] EXCEPT !.jobs = js] \in CallRec /\ [call[c] EXCEPT !.jobs = js].jobs = js
  BY <1>1, <1>3 DEF CallRec
<1>6. call' \in [Call -> CallRec] /\ call'[c] = [call[c] EXCEPT !.jobs = js] /\ call'[c].jobs = js
      /\ \A e \in Call : e # c => call'[e] = call[e]
  BY <1>4, <1>5
<1>7. DOMAIN js = DOMAIN call[c].jobs /\ DOMAIN js = 1..Len(call[c].jobs)
  BY <1>1, <1>3, LenProperties
<1>8. \A e \in Call : call[e] = [call[e] EXCEPT !.jobs = call[e].jobs]
  BY DEF CallRec
<1> QED BY <1>3, <1>6, <1>7, <1>8 DEF JobBecomes

\* The same of a job that passes on from a stage.
LEMMA JobPasses ==
  ASSUME call \in [Call -> CallRec], NEW c \in Call, NEW i \in DOMAIN call[c].jobs,
         NEW from \in Leaving, NEW j \in JobRec, Passes(c, i, from, j)
  PROVE  \E s : StopsAt(c, from, j, s) /\ JobBecomes(c, i, [j EXCEPT !.stage = s, !.base = {}])
<1>1. PICK s : /\ StopsAt(c, from, j, s)
               /\ Replaces(c, i, [j EXCEPT !.stage = s, !.base = {}])
  BY PassesOn
<1> DEFINE k == [j EXCEPT !.stage = s, !.base = {}]
<1>2. k \in JobRec
  BY <1>1 DEF JobRec, Stage, StopsAt
<1>3. JobBecomes(c, i, k)
  <2> HIDE DEF k
  <2>1. Replaces(c, i, k)
    BY <1>1 DEF k
  <2> QED BY <1>2, <2>1, JobUpdate
<1> QED BY <1>1, <1>3

\* The worst criticality of a batch is a number.
LEMMA WorstIsANumber ==
  ASSUME call \in [Call -> CallRec], NEW c \in Call
  PROVE  Worst(c) \in Nat
<1> DEFINE levels == {call[c].jobs[i].is.critical : i \in FiledJobs(c)} \cup {0}
<1>1. \A i \in FiledJobs(c) : call[c].jobs[i].is.critical \in 0..100
  <2> SUFFICES ASSUME NEW i \in FiledJobs(c) PROVE call[c].jobs[i].is.critical \in 0..100
    OBVIOUS
  <2>1. call[c].jobs \in Seq(JobRec) /\ i \in DOMAIN call[c].jobs
    BY DEF FiledJobs, CallRec
  <2>2. call[c].jobs[i] \in JobRec
    BY <2>1, LenProperties, ElementOfSeq
  <2>3. call[c].jobs[i].is \in Outcomes \cup {Undecided}
    BY <2>2 DEF JobRec
  <2> QED BY <2>3, OutcomeTypes, SMTT(40) DEF Undecided
<1>2. levels \in SUBSET (0..100) /\ levels # {}
  BY <1>1
<1>3. \E l \in levels : \A k \in levels : k <= l
  <2> HIDE DEF levels
  <2> QED BY <1>2, HasLast, ZenonT(60)
<1>4. (CHOOSE l \in levels : \A k \in levels : k <= l) \in levels
  <2> HIDE DEF levels
  <2> QED BY <1>3
<1>5. Worst(c) \in levels
  BY <1>4, Zenon DEF Worst
<1> QED BY <1>2, <1>5

-----------------------------------------------------------------------------
(* Types.                                                                  *)

LEMMA InitTypes == Init => Types /\ Control
<1> SUFFICES ASSUME Init PROVE Types /\ Control
  OBVIOUS
<1> USE InputsAreGiven
<1>1. /\ pages = [p \in DOMAIN Held |-> {Claim(t, "verified") : t \in Held[p]}]
      /\ \A p \in DOMAIN Held : \A t \in Held[p] : Claim(t, "verified") \in ClaimRec
  BY DEF Init, Claim, ClaimRec, Status
<1>2. DOMAIN pages \subseteq Page /\ pages \in [DOMAIN pages -> SUBSET ClaimRec] /\ listed \subseteq DOMAIN pages
  BY <1>1 DEF Init
<1>3. Unstarted \in CallRec
  BY EmptySeq DEF Unstarted, CallRec, Point, Over, Target
<1>4. call \in [Call -> CallRec] /\ \A c \in Call : call[c] = Unstarted
  BY <1>3 DEF Init
<1>5. IsFiniteSet(DOMAIN raw) /\ IsAMap(raw) /\ IsAMap(rawIndex)
  BY FS_EmptySet DEF Init, IsAMap
<1>6. Types
  BY <1>2, <1>4, <1>5, EmptySeq DEF Init, Types
<1>7. Control
  BY <1>4 DEF Control, JobControl, PointControl, Unstarted, Early
<1> QED BY <1>6, <1>7

LEMMA JobTypes ==
  ASSUME call \in [Call -> CallRec], NEW c \in Call, NEW i \in DOMAIN call[c].jobs
  PROVE  call[c].jobs[i] \in JobRec
<1>1. call[c].jobs \in Seq(JobRec)
  BY DEF CallRec
<1> QED BY <1>1, LenProperties, ElementOfSeq

\* A call goes to another point and nothing else of it changes.
LEMMA GotoTypes ==
  ASSUME call \in [Call -> CallRec], NEW c \in Call, NEW pc \in Point, Goto(c, pc)
  PROVE  /\ call' \in [Call -> CallRec]
         /\ \A e \in Call : e # c => call'[e] = call[e]
         /\ call'[c] = [call[c] EXCEPT !.pc = pc]
<1>1. call' = [call EXCEPT ![c] = [call[c] EXCEPT !.pc = pc]]
  BY DEF Goto
<1>2. [call[c] EXCEPT !.pc = pc] \in CallRec
  BY ZenonT(60) DEF CallRec
<1> QED BY <1>1, <1>2

\* The claims of a batch are put up.
LEMMA CollectTypes ==
  ASSUME Types, NEW c \in Call, NEW items \in Seq(Text), Collect(c, items)
  PROVE  /\ call' \in [Call -> CallRec]
         /\ \A e \in Call : e # c => call'[e] = call[e]
         /\ call'[c] = [call[c] EXCEPT !.jobs = call'[c].jobs, !.pc = "jobs",
                                       !.shown = call'[c].shown, !.known = call'[c].known]
         /\ Len(call'[c].jobs) = Len(items) /\ DOMAIN call'[c].jobs = DOMAIN items
         /\ \A i \in DOMAIN items : call'[c].jobs[i] = Job(items[i])
<1> DEFINE js == [i \in DOMAIN items |-> Job(items[i])]
           known == UNION {{<<p, x.text>> : x \in pages[p]} : p \in DOMAIN pages}
<1>1. DOMAIN items = 1..Len(items) /\ Len(items) \in Nat /\ \A i \in 1..Len(items) : items[i] \in Text
  BY LenProperties, ElementOfSeq
<1>2. \A t \in Text : Job(t) \in JobRec
  BY DEF Job, JobRec, Stage, Target
<1>3. js \in Seq(JobRec) /\ Len(js) = Len(items) /\ DOMAIN js = DOMAIN items
      /\ \A i \in DOMAIN items : js[i] = Job(items[i])
  <2>1. js \in [1..Len(items) -> JobRec] /\ \A i \in DOMAIN items : js[i] = Job(items[i])
    BY <1>1, <1>2
  <2> HIDE DEF js
  <2>2. js \in Seq(JobRec) /\ DOMAIN js = 1..Len(items)
    BY <1>1, <2>1
  <2>3. Len(js) \in Nat /\ 1..Len(js) = 1..Len(items)
    BY <2>2, LenProperties
  <2>4. Len(js) = Len(items)
    BY <1>1, <2>3, SameBound
  <2> QED BY <1>1, <2>1, <2>2, <2>4
<1>4. known \subseteq Page \X Text
  BY DEF Types, ClaimRec
<1>5. listed \subseteq Page
  BY DEF Types
<1>6. call' = [call EXCEPT ![c] = [call[c] EXCEPT !.jobs = js, !.shown = listed, !.known = known, !.pc = "jobs"]]
  BY DEF Collect
<1> HIDE DEF js, known
<1>7. [call[c] EXCEPT !.jobs = js, !.shown = listed, !.known = known, !.pc = "jobs"] \in CallRec
  <2>1. call[c] \in CallRec
    BY DEF Types
  <2> QED BY <1>3, <1>4, <1>5, <2>1 DEF CallRec, Point
<1> DEFINE r == [call[c] EXCEPT !.jobs = js, !.shown = listed, !.known = known, !.pc = "jobs"]
<1>8. /\ r.jobs = js
      /\ r = [call[c] EXCEPT !.jobs = r.jobs, !.pc = "jobs", !.shown = r.shown, !.known = r.known]
  BY ZenonT(60) DEF Types, CallRec
<1>9. /\ call' \in [Call -> CallRec] /\ call'[c] = r
      /\ \A e \in Call : e # c => call'[e] = call[e]
  <2> HIDE DEF r
  <2>1. call' = [call EXCEPT ![c] = r] /\ r \in CallRec
    BY <1>6, <1>7 DEF r
  <2> QED BY <2>1 DEF Types
<1> HIDE DEF r
<1> QED BY <1>3, <1>8, <1>9

\* Of the names that a source may get, no two are the same.
LEMMA NamesDiffer ==
  ASSUME NEW d, NEW j \in Nat, NEW k \in Nat, NameOf(d, j) = NameOf(d, k)
  PROVE  j = k
<1>1. \A n \in Nat : Len(NameOf(d, n)) = IF n = 0 THEN 1 ELSE IF n = 1 THEN 2 ELSE 3
  <2> SUFFICES ASSUME NEW n \in Nat PROVE Len(NameOf(d, n)) = IF n = 0 THEN 1 ELSE IF n = 1 THEN 2 ELSE 3
    OBVIOUS
  <2>1. CASE n = 0  BY <2>1 DEF NameOf
  <2>2. CASE n = 1  BY <2>2 DEF NameOf
  <2>3. CASE n # 0 /\ n # 1
    <3>1. NameOf(d, n) = <<Title[d], d, n>>  BY <2>3 DEF NameOf
    <3> QED BY <2>3, <3>1
  <2> QED BY <2>1, <2>2, <2>3
<1>2. \A n \in Nat : n # 0 /\ n # 1 => NameOf(d, n)[3] = n
  <2> SUFFICES ASSUME NEW n \in Nat, n # 0, n # 1 PROVE NameOf(d, n)[3] = n
    OBVIOUS
  <2>1. NameOf(d, n) = <<Title[d], d, n>>  BY DEF NameOf
  <2> QED BY <2>1
<1> QED BY <1>1, <1>2

\* A name is found that no file has, however many there are (the loop of writeRawSource,
\* layout.ts:99-106, ends).
THEOREM FreeNameIsFree ==
  ASSUME IsFiniteSet(DOMAIN raw), NEW d \in DOMAIN Title
  PROVE  FreeName(d) \in FileName /\ FreeName(d) \notin DOMAIN raw
<1> DEFINE n == Cardinality(DOMAIN raw)
           free == {k \in 0..n : NameOf(d, k) \notin DOMAIN raw}
           first == CHOOSE k \in free : \A j \in free : k <= j
<1>1. n \in Nat
  BY FS_CardinalityType
<1>2. free # {}
  <2> SUFFICES ASSUME free = {} PROVE FALSE
    OBVIOUS
  <2> DEFINE S == 0..n
             T == DOMAIN raw
             f == [k \in S |-> NameOf(d, k)]
  <2>1. f \in [S -> T]
    BY \A k \in 0..n : NameOf(d, k) \in DOMAIN raw
  <2>2. IsFiniteSet(S) /\ Cardinality(S) = n + 1
    BY <1>1, FS_Interval
  <2>3. IsFiniteSet(T) /\ Cardinality(T) < Cardinality(S)
    BY <1>1, <2>2
  <2>4. \E x, y \in S : x # y /\ f[x] = f[y]
    <3> HIDE DEF f, S, T
    <3> QED BY <2>1, <2>2, <2>3, FS_PigeonHole
  <2>5. PICK x, y \in S : x # y /\ f[x] = f[y]
    BY <2>4
  <2>6. x \in Nat /\ y \in Nat /\ NameOf(d, x) = NameOf(d, y)
    BY <1>1, <2>5
  <2> QED BY <2>5, <2>6, NamesDiffer
<1>3. free \in SUBSET Nat
  BY <1>1
<1>4. first \in free
  <2> HIDE DEF free
  <2>1. \E k \in free : \A j \in free : k <= j
    BY <1>2, <1>3, HasFirst
  <2> QED BY <2>1
<1>5. FreeName(d) = NameOf(d, first)
  BY DEF FreeName
<1>6. first \in Nat /\ NameOf(d, first) \notin DOMAIN raw
  BY <1>3, <1>4
<1> HIDE DEF first
<1> QED BY <1>5, <1>6 DEF FileName

\* A file under raw/ is written; the raw index gets an entry.
LEMMA RawGrows ==
  ASSUME NEW k, NEW v, raw' = With(raw, k, v)
  PROVE  /\ DOMAIN raw' = DOMAIN raw \cup {k} /\ raw'[k] = v
         /\ \A x \in DOMAIN raw : x # k => raw'[x] = raw[x]
         /\ IsAMap(raw')
BY DEF With, IsAMap

LEMMA IndexGrows ==
  ASSUME NEW k, NEW v, rawIndex' = With(rawIndex, k, v)
  PROVE  /\ DOMAIN rawIndex' = DOMAIN rawIndex \cup {k} /\ rawIndex'[k] = v
         /\ \A x \in DOMAIN rawIndex : x # k => rawIndex'[x] = rawIndex[x]
         /\ IsAMap(rawIndex')
BY DEF With, IsAMap

Files == <<listed, queue, log, raw, rawIndex>>

LEMMA TypesUnchanged ==
  ASSUME Types, UNCHANGED <<pages, Files>>, call' \in [Call -> CallRec], faults' \in 0..MaxFaults
  PROVE  Types'
<1>1. /\ DOMAIN pages' = DOMAIN pages /\ pages' = pages /\ listed' = listed /\ queue' = queue
      /\ log' = log /\ raw' = raw /\ rawIndex' = rawIndex
  BY SMTT(40) DEF Files
<1> QED BY <1>1 DEF Types

\* Judging a claim.
LEMMA JudgeTypes ==
  ASSUME Types, NEW c \in Call, NEW i \in DOMAIN call[c].jobs, Judge(c, i)
  PROVE  \E j \in JobRec : \E s :
            /\ j.is \in Outcomes /\ j.text = call[c].jobs[i].text
            /\ StopsAt(c, "judge", j, s) /\ JobBecomes(c, i, [j EXCEPT !.stage = s, !.base = {}])
<1>0. PICK o \in Outcomes : \E p \in Targets(c, call[c].jobs[i].text, o.action) :
          Passes(c, i, "judge", [call[c].jobs[i] EXCEPT !.is = o, !.target = p])
  BY OutcomesAreOutcomes DEF Judge
<1>1. PICK p \in Targets(c, call[c].jobs[i].text, o.action) :
          Passes(c, i, "judge", [call[c].jobs[i] EXCEPT !.is = o, !.target = p])
  BY <1>0
<1>2. call[c] \in CallRec /\ call[c].jobs[i] \in JobRec
  BY JobTypes DEF Types
<1>3. p \in Target
  BY <1>2 DEF Targets, KnownAlike, CallRec, Target
<1> DEFINE j == [call[c].jobs[i] EXCEPT !.is = o, !.target = p]
<1>4. j \in JobRec /\ j.is = o /\ j.text = call[c].jobs[i].text
  BY <1>2, <1>3 DEF JobRec
<1> HIDE DEF j
<1>5. Passes(c, i, "judge", j)
  BY <1>1 DEF j
<1>6. "judge" \in Leaving
  BY DEF Leaving
<1>7. \E s : StopsAt(c, "judge", j, s) /\ JobBecomes(c, i, [j EXCEPT !.stage = s, !.base = {}])
  BY <1>4, <1>5, <1>6, JobPasses DEF Types
<1> QED BY <1>4, <1>7, ZenonT(60)

LEMMA PassesAsItIs ==
  ASSUME Types, NEW c \in Call, NEW i \in DOMAIN call[c].jobs, NEW from \in Leaving,
         Passes(c, i, from, call[c].jobs[i])
  PROVE  \E s : /\ StopsAt(c, from, call[c].jobs[i], s)
                /\ JobBecomes(c, i, [call[c].jobs[i] EXCEPT !.stage = s, !.base = {}])
<1>1. call \in [Call -> CallRec] /\ call[c].jobs[i] \in JobRec
  BY JobTypes DEF Types
<1> QED BY <1>1, JobPasses

\* The last entry of a group of the log is one of its entries.
LEMMA LatestIsOfGroup ==
  ASSUME Types, NEW t, Group(t) # {}
  PROVE  \E k \in Group(t) : Latest(Group(t)) = log[k].text
<1>1. Len(log) \in Nat /\ DOMAIN log = 1..Len(log)
  BY LenProperties DEF Types
<1>2. Group(t) \in SUBSET (0..Len(log))
  BY <1>1 DEF Group
<1> DEFINE g == Group(t)
           last == CHOOSE k \in g : \A j \in g : j <= k
<1>3. last \in g
  <2> HIDE DEF g
  <2>1. \E l \in g : \A j \in g : j <= l
    BY <1>1, <1>2, HasLast DEF g
  <2> QED BY <2>1
<1>4. Latest(g) = log[last].text
  BY Zenon DEF Latest
<1> HIDE DEF last
<1> QED BY <1>3, <1>4

LEMMA GroupIsNotEmpty ==
  ASSUME NEW t, Cardinality(Group(t)) >= Recurs
  PROVE  Group(t) # {}
<1>1. Recurs \in Nat /\ Recurs > 0
  BY InputsAreGiven
<1> SUFFICES ASSUME Group(t) = {} PROVE FALSE
  OBVIOUS
<1>2. Cardinality(Group(t)) = 0
  BY FS_EmptySet
<1> QED BY <1>1, <1>2

LEMMA RecurringTypes ==
  ASSUME Types
  PROVE  /\ Recurring \subseteq Text
         /\ IsFiniteSet(Recurring) /\ Cardinality(Recurring) \in Nat
<1> DEFINE texts == {log[k].text : k \in DOMAIN log}
           f == [k \in DOMAIN log |-> log[k].text]
<1>1. Len(log) \in Nat /\ DOMAIN log = 1..Len(log)
      /\ \A k \in DOMAIN log : log[k] \in [text : Text, action : Action \cup {"promoted"}]
  <2> DEFINE LogRec == [text : Text, action : Action \cup {"promoted"}]
  <2>1. log \in Seq(LogRec)
    BY DEF Types
  <2> HIDE DEF LogRec
  <2>2. Len(log) \in Nat /\ DOMAIN log = 1..Len(log) /\ \A k \in DOMAIN log : log[k] \in LogRec
    BY <2>1, LenProperties, ElementOfSeq
  <2> QED BY <2>2 DEF LogRec
<1>2. IsFiniteSet(DOMAIN log)
  BY <1>1, FS_Interval
<1>3. f \in Surjection(DOMAIN log, texts)
  BY DEF Surjection
<1>4. IsFiniteSet(texts)
  <2> HIDE DEF f, texts
  <2> QED BY <1>2, <1>3, FS_Surjection
<1>5. Recurring \subseteq texts
  <2> SUFFICES ASSUME NEW t \in Text, Cardinality(Group(t)) >= Recurs PROVE Latest(Group(t)) \in texts
    BY DEF Recurring
  <2>1. \E k \in Group(t) : Latest(Group(t)) = log[k].text
    BY GroupIsNotEmpty, LatestIsOfGroup
  <2> QED BY <2>1 DEF Group
<1>6. texts \subseteq Text
  BY <1>1
<1>7. IsFiniteSet(Recurring)
  <2> HIDE DEF texts
  <2> QED BY <1>4, <1>5, FS_Subset
<1> QED BY <1>5, <1>6, <1>7, FS_CardinalityType

\* The log grows at its end.
LEMMA LogGrows ==
  ASSUME Types, NEW t \in Text, NEW a \in Action \cup {"promoted"}, log' = Append(log, Entry(t, a))
  PROVE  /\ log' \in Seq([text : Text, action : Action \cup {"promoted"}])
         /\ DOMAIN log = 1..Len(log) /\ Len(log) \in Nat /\ DOMAIN log' = 1..(Len(log) + 1)
         /\ log'[Len(log) + 1] = [text |-> t, action |-> a]
         /\ \A k \in DOMAIN log : log'[k] = log[k]
<1> DEFINE LogRec == [text : Text, action : Action \cup {"promoted"}]
<1>1. log \in Seq(LogRec) /\ [text |-> t, action |-> a] \in LogRec
  BY DEF Types
<1>2. log' = Append(log, [text |-> t, action |-> a])
  BY DEF Entry
<1> HIDE DEF LogRec
<1>3. log' \in Seq(LogRec) /\ Len(log) \in Nat /\ Len(log') = Len(log) + 1
      /\ DOMAIN log = 1..Len(log) /\ DOMAIN log' = 1..(Len(log) + 1)
      /\ log'[Len(log) + 1] = [text |-> t, action |-> a]
      /\ \A k \in 1..Len(log) : log'[k] = log[k]
  BY <1>1, <1>2
<1> QED BY <1>3 DEF LogRec

\* What a call writes to a page.
LEMMA ClaimTypes ==
  ASSUME Types, NEW c \in Call
  PROVE  PageClaims(c) \subseteq ClaimRec
<1>1. call[c] \in CallRec /\ \A i \in DOMAIN call[c].jobs : call[c].jobs[i] \in JobRec
  BY JobTypes DEF Types
<1>2. Records(c) \subseteq ClaimRec
  <2> SUFFICES ASSUME NEW i \in GroupJobs(c)
               PROVE  \A s \in {"user-stated", "verified"} : Claim(call[c].jobs[i].text, s) \in ClaimRec
    BY DEF Records
  <2>1. call[c].jobs[i].text \in Text
    BY <1>1 DEF GroupJobs, FiledJobs, JobRec
  <2> QED BY <2>1 DEF Claim, ClaimRec, Status
<1>3. \A b \in call[c].base : b[2] \subseteq ClaimRec
  BY <1>1 DEF CallRec, Copy
<1> DEFINE read == UNION {b[2] : b \in call[c].base}
<1>4. read \subseteq ClaimRec
  BY <1>3, Zenon
<1>5. PageClaims(c) = read \cup Records(c)
  BY Zenon DEF PageClaims
<1> HIDE DEF read
<1> QED BY <1>2, <1>4, <1>5

LEMMA AmendedTypes ==
  ASSUME NEW S \in SUBSET ClaimRec, NEW x \in S, NEW stage
  PROVE  Amended(S, x, stage) \in SUBSET ClaimRec
<1>1. [x EXCEPT !.confirmed = TRUE] \in ClaimRec /\ [x EXCEPT !.status = "superseded"] \in ClaimRec
  BY DEF ClaimRec, Status
<1> QED BY <1>1 DEF Amended

\* A page gets claims.
LEMMA PageWritten ==
  ASSUME Types, NEW p \in Page, NEW S \in SUBSET ClaimRec, pages' = With(pages, p, S)
  PROVE  /\ DOMAIN pages' \subseteq Page /\ pages' \in [DOMAIN pages' -> SUBSET ClaimRec]
         /\ DOMAIN pages \subseteq DOMAIN pages'
BY DEF Types, With

LEMMA TypesStep ==
  ASSUME Types, Control, [Next]_vars
  PROVE  Types'
<1> DEFINE Goal == Types'
<1> USE DEF store, Files
<1>1. faults \in Nat /\ MaxFaults \in Nat /\ (faults < MaxFaults => faults + 1 \in 0..MaxFaults)
  BY InputsAreGiven DEF Types
<1>2. \A c \in Call : call[c] \in CallRec /\ Input[c] \in DOMAIN Title /\ Items[Input[c]] \in Seq(Text)
  BY InputsAreGiven DEF Types
<1>3. ASSUME NEW c \in Call, CheckDuplicate(c) PROVE Goal
  <2>1. call' \in [Call -> CallRec]
    BY <1>3, GotoTypes DEF CheckDuplicate, Point, Over, Types
  <2> QED BY <1>3, <2>1, TypesUnchanged DEF CheckDuplicate, Types
<1>4. ASSUME NEW c \in Call, BeginCapture(c) PROVE Goal
  BY <1>2, <1>4, CollectTypes, TypesUnchanged DEF BeginCapture, Types
<1>5. ASSUME NEW c \in Call, ChooseName(c) PROVE Goal
  <2>1. FreeName(Input[c]) \in FileName
    BY <1>2, FreeNameIsFree DEF Types
  <2>2. [call[c] EXCEPT !.name = FreeName(Input[c]), !.pc = "store"] \in CallRec
    BY <1>2, <2>1, ZenonT(60) DEF CallRec, Point
  <2>3. call' = [call EXCEPT ![c] = [call[c] EXCEPT !.name = FreeName(Input[c]), !.pc = "store"]]
    BY <1>5 DEF ChooseName
  <2>4. call' \in [Call -> CallRec]
    BY <2>2, <2>3 DEF Types
  <2> QED BY <1>5, <2>4, TypesUnchanged DEF ChooseName, Types
<1>6. ASSUME NEW c \in Call, StoreRaw(c) PROVE Goal
  <2>1. call' \in [Call -> CallRec]
    BY <1>6, GotoTypes DEF StoreRaw, Point, Types
  <2>2. raw' = With(raw, call[c].name, Input[c])
    BY <1>6 DEF StoreRaw
  <2>3. DOMAIN raw' = DOMAIN raw \cup {call[c].name} /\ IsAMap(raw')
    BY <2>2, RawGrows
  <2>4. IsFiniteSet(DOMAIN raw')
    <3>1. IsFiniteSet(DOMAIN raw)
      BY DEF Types
    <3>2. IsFiniteSet(DOMAIN raw \cup {call[c].name})
      BY <3>1, FS_AddElement
    <3> QED BY <2>3, <3>2
  <2> QED BY <1>6, <2>1, <2>3, <2>4 DEF StoreRaw, Types
<1>7. ASSUME NEW c \in Call, IndexRaw(c) PROVE Goal
  <2>1. call' \in [Call -> CallRec]
    BY <1>7, GotoTypes DEF IndexRaw, Point, Types
  <2>2. rawIndex' = With(rawIndex, Input[c], call[c].name) /\ c \in Ingest
    BY <1>7 DEF IndexRaw, Control, JobControl, PointControl
  <2>3. /\ DOMAIN rawIndex' = DOMAIN rawIndex \cup {Input[c]}
        /\ IsAMap(rawIndex')
    BY <2>2, IndexGrows
  <2>4. DOMAIN rawIndex' \subseteq {Input[e] : e \in Ingest}
    BY <2>2, <2>3 DEF Types
  <2> QED BY <1>7, <2>1, <2>3, <2>4 DEF IndexRaw, Types
<1>8. ASSUME NEW c \in Call, Extract(c) PROVE Goal
  <2>1. call' \in [Call -> CallRec]
    BY <1>2, <1>8, EmptySeq, CollectTypes DEF Extract
  <2>2. faults' \in 0..MaxFaults
    BY <1>1, <1>8 DEF Extract, Types
  <2> QED BY <1>8, <2>1, <2>2, TypesUnchanged DEF Extract
<1>9. ASSUME NEW c \in Call, ReadLog(c) PROVE Goal
  <2>1. PICK s \in [1..Cardinality(Recurring) -> Recurring] :
           call' = [call EXCEPT ![c].due = s, ![c].pc = IF s = <<>> THEN "name" ELSE "raise"]
    BY <1>9 DEF ReadLog
  <2>2. s \in Seq(Text)
    BY <2>1, RecurringTypes
  <2> DEFINE pc == IF s = <<>> THEN "name" ELSE "raise"
             r == [call[c] EXCEPT !.due = s, !.pc = pc]
  <2>3. r \in CallRec
    <3>1. pc \in Point
      BY DEF Point
    <3> HIDE DEF pc
    <3> QED BY <1>2, <2>2, <3>1, ZenonT(60) DEF CallRec
  <2>4. call' \in [Call -> CallRec]
    BY <2>1, <2>3 DEF Types
  <2> QED BY <1>9, <2>4, TypesUnchanged DEF ReadLog, Types
<1>10. ASSUME NEW c \in Call, RaiseRecurring(c) PROVE Goal
  <2>1. call' \in [Call -> CallRec]
    BY <1>10, GotoTypes DEF RaiseRecurring, Point, Types
  <2>2. call[c].due \in Seq(Text) /\ call[c].due # <<>>
    BY <1>2, <1>10 DEF RaiseRecurring, Control, JobControl, PointControl, CallRec
  <2>3. Head(call[c].due) \in Text
    BY <2>2, HeadTailProperties
  <2>4. queue' \subseteq [kind : {"claim_review", "dispute"}, text : Text \cup {"invented"}, page : Target]
    BY <1>10, <2>3 DEF RaiseRecurring, Enqueued, Target, Types
  <2> QED BY <1>10, <2>1, <2>4 DEF RaiseRecurring, Types
<1>11. ASSUME NEW c \in Call, NotePromoted(c) PROVE Goal
  <2>1. call[c].due \in Seq(Text) /\ call[c].due # <<>>
    BY <1>2, <1>11 DEF NotePromoted, Control, JobControl, PointControl, CallRec
  <2>2. Head(call[c].due) \in Text /\ Tail(call[c].due) \in Seq(Text)
    BY <2>1, HeadTailProperties
  <2> DEFINE pc == IF Len(call[c].due) = 1 THEN "name" ELSE "raise"
             rest == Tail(call[c].due)
             r == [call[c] EXCEPT !.due = rest, !.pc = pc]
  <2>3. r \in CallRec
    <3>1. pc \in Point
      BY DEF Point
    <3> HIDE DEF pc, rest
    <3> QED BY <1>2, <2>2, <3>1, ZenonT(60) DEF CallRec, rest
  <2>4. call' = [call EXCEPT ![c] = r]
    BY <1>11 DEF NotePromoted
  <2>5. call' \in [Call -> CallRec]
    <3> HIDE DEF r
    <3> QED BY <2>3, <2>4 DEF Types
  <2>6. log' \in Seq([text : Text, action : Action \cup {"promoted"}])
    BY <1>11, <2>2, LogGrows DEF NotePromoted
  <2> QED BY <1>11, <2>5, <2>6 DEF NotePromoted, Types
<1>12. ASSUME NEW c \in Call, StartWriting(c) PROVE Goal
  <2>1. \A i \in DOMAIN call[c].jobs : call[c].jobs[i].target \in Target
    BY JobTypes DEF JobRec, Types
  <2>2. Plan(c) \subseteq Target
    BY <2>1 DEF Plan, FiledJobs
  <2> DEFINE pc == IF Plan(c) = {} THEN "end" ELSE "group"
             r == [call[c] EXCEPT !.todo = Plan(c), !.pc = pc]
  <2>3. r \in CallRec
    <3>1. pc \in Point
      BY DEF Point, Over
    <3> HIDE DEF pc
    <3> QED BY <1>2, <2>2, <3>1, ZenonT(60) DEF CallRec
  <2>4. call' = [call EXCEPT ![c] = r]
    BY <1>12 DEF StartWriting
  <2>5. call' \in [Call -> CallRec]
    <3> HIDE DEF r
    <3> QED BY <2>3, <2>4 DEF Types
  <2> QED BY <1>12, <2>5, TypesUnchanged DEF StartWriting, Types
<1>13. ASSUME NEW c \in Call, ReadTarget(c) PROVE Goal
  <2>1. PICK g \in call[c].todo :
          call' = [call EXCEPT ![c].group = g, ![c].todo = @ \ {g}, ![c].pc = "ask",
                               ![c].base = IF g \in DOMAIN pages THEN {<<g, pages[g]>>} ELSE {}]
    BY <1>13 DEF ReadTarget
  <2> DEFINE rest == call[c].todo \ {g}
             read == IF g \in DOMAIN pages THEN {<<g, pages[g]>>} ELSE {}
             r == [call[c] EXCEPT !.group = g, !.todo = rest, !.pc = "ask", !.base = read]
  <2>2. g \in Target /\ rest \in SUBSET Target
    BY <1>2 DEF CallRec
  <2>3. read \in SUBSET Copy
    BY DEF Copy, Types
  <2>4. r \in CallRec
    <3>1. "ask" \in Point
      BY DEF Point
    <3> HIDE DEF rest, read
    <3> QED BY <1>2, <2>2, <2>3, <3>1, ZenonT(60) DEF CallRec
  <2>5. call' = [call EXCEPT ![c] = r]
    BY <2>1
  <2>6. call' \in [Call -> CallRec]
    <3> HIDE DEF r
    <3> QED BY <2>4, <2>5, SMTT(40) DEF Types
  <2> QED BY <1>13, <2>6, TypesUnchanged DEF ReadTarget, Types
<1>14. ASSUME NEW c \in Call, WriteGroup(c) PROVE Goal
  <2> DEFINE back == [call[c] EXCEPT !.pc = "group", !.base = {}, !.group = NewPage]
  <2>1. CASE call' = [call EXCEPT ![c].pc = "group", ![c].base = {}, ![c].group = NewPage] /\ UNCHANGED pages
    <3>1. back \in CallRec
      BY <1>2, ZenonT(60) DEF CallRec, Point, Target
    <3>2. call' = [call EXCEPT ![c] = back]
      BY <2>1
    <3>3. call' \in [Call -> CallRec]
      <4> HIDE DEF back
      <4> QED BY <3>1, <3>2 DEF Types
    <3> QED BY <1>14, <2>1, <3>3, TypesUnchanged DEF WriteGroup, Types
  <2>2. CASE \E p \in IF call[c].group = NewPage THEN Page ELSE {call[c].group} :
             /\ pages' = IF Mode(c) = "draft" THEN pages ELSE With(pages, p, PageClaims(c))
             /\ call' = [call EXCEPT
                   ![c].pc = "group", ![c].base = {}, ![c].group = NewPage,
                   ![c].written = IF Mode(c) = "draft" THEN @ ELSE @ \cup {p},
                   ![c].flagged = IF Ungrounded(c) THEN @ \cup {p} ELSE @]
    <3>1. PICK p \in IF call[c].group = NewPage THEN Page ELSE {call[c].group} :
             /\ pages' = IF Mode(c) = "draft" THEN pages ELSE With(pages, p, PageClaims(c))
             /\ call' = [call EXCEPT
                   ![c].pc = "group", ![c].base = {}, ![c].group = NewPage,
                   ![c].written = IF Mode(c) = "draft" THEN @ ELSE @ \cup {p},
                   ![c].flagged = IF Ungrounded(c) THEN @ \cup {p} ELSE @]
      BY <2>2
    <3>2. p \in Page
      BY <1>2, <3>1 DEF CallRec, Target
    <3> DEFINE written == IF Mode(c) = "draft" THEN call[c].written ELSE call[c].written \cup {p}
               flagged == IF Ungrounded(c) THEN call[c].flagged \cup {p} ELSE call[c].flagged
               r == [call[c] EXCEPT !.pc = "group", !.base = {}, !.group = NewPage,
                                    !.written = written, !.flagged = flagged]
    <3>3. r \in CallRec
      <4>1. written \in SUBSET Page /\ flagged \in SUBSET Page
        BY <1>2, <3>2 DEF CallRec
      <4>2. "group" \in Point /\ NewPage \in Target
        BY DEF Point, Target
      <4> HIDE DEF written, flagged
      <4> QED BY <1>2, <4>1, <4>2, ZenonT(60) DEF CallRec
    <3>4. call' = [call EXCEPT ![c] = r]
      BY <3>1
    <3>5. call' \in [Call -> CallRec]
      <4> HIDE DEF r
      <4> QED BY <3>3, <3>4 DEF Types
    <3>6. /\ DOMAIN pages' \subseteq Page /\ pages' \in [DOMAIN pages' -> SUBSET ClaimRec]
          /\ DOMAIN pages \subseteq DOMAIN pages'
      <4>1. CASE Mode(c) = "draft"
        BY <3>1, <4>1 DEF Types
      <4>2. CASE Mode(c) # "draft"
        BY <3>1, <3>2, <4>2, ClaimTypes, PageWritten
      <4> QED BY <4>1, <4>2
    <3>7. UNCHANGED <<listed, queue, log, raw, rawIndex, faults>>
      BY <1>14 DEF WriteGroup
    <3> QED BY <3>5, <3>6, <3>7 DEF Types
  <2> QED BY <1>14, <2>1, <2>2 DEF WriteGroup
<1>15. ASSUME NEW c \in Call, ListWritten(c) PROVE Goal
  <2>1. call' \in [Call -> CallRec]
    BY <1>15, GotoTypes DEF ListWritten, Point, Over, Types
  <2>2. listed' \subseteq DOMAIN pages
    BY <1>15 DEF ListWritten, Control, JobControl, PointControl, Types
  <2> QED BY <1>15, <2>1, <2>2 DEF ListWritten, Types
<1>16. ASSUME NEW c \in Call, FlagWritten(c) PROVE Goal
  <2>1. call' \in [Call -> CallRec]
    BY <1>16, GotoTypes DEF FlagWritten, Point, Over, Types
  <2>2. call[c].flagged \subseteq Page
    BY <1>2 DEF CallRec
  <2>3. queue' \subseteq [kind : {"claim_review", "dispute"}, text : Text \cup {"invented"}, page : Target]
    BY <1>16, <2>2 DEF FlagWritten, Enqueued, Target, Types
  <2> QED BY <1>16, <2>1, <2>3 DEF FlagWritten, Types
<1>17. ASSUME NEW c \in Call, FailCall(c) PROVE Goal
  <2>1. call' \in [Call -> CallRec]
    BY <1>17, GotoTypes DEF FailCall, Point, Over, Types
  <2> QED BY <1>1, <1>17, <2>1, TypesUnchanged DEF FailCall
<1>18. ASSUME NEW c \in Call, NEW i \in DOMAIN call[c].jobs, FailJob(c, i) PROVE Goal
  <2> DEFINE k == [call[c].jobs[i] EXCEPT !.stage = "failed"]
             js == [call[c].jobs EXCEPT ![i] = k]
             r == [call[c] EXCEPT !.pc = "failed", !.jobs = js]
  <2>1. k \in JobRec
    BY JobTypes, ZenonT(60) DEF Types, JobRec, Stage
  <2>2. js \in Seq(JobRec)
    <3>1. call[c].jobs \in Seq(JobRec) /\ i \in 1..Len(call[c].jobs)
      BY <1>2, LenProperties DEF CallRec
    <3> HIDE DEF k
    <3> QED BY <2>1, <3>1, ExceptSeq
  <2>3. call' = [call EXCEPT ![c] = r]
    BY <1>18 DEF FailJob
  <2>4. "failed" \in Point
    BY DEF Point, Over
  <2> HIDE DEF js
  <2>5. r \in CallRec
    BY <1>2, <2>2, <2>4, ZenonT(60) DEF CallRec
  <2>6. call' \in [Call -> CallRec]
    <3> HIDE DEF r
    <3> QED BY <2>3, <2>5 DEF Types
  <2> QED BY <1>1, <1>18, <2>6, TypesUnchanged DEF FailJob
<1>19. ASSUME NEW c \in Call, NEW i \in DOMAIN call[c].jobs, Judge(c, i) PROVE Goal
  BY <1>19, JudgeTypes, TypesUnchanged DEF Judge, JobBecomes, Types
<1>20. ASSUME NEW c \in Call, NEW i \in DOMAIN call[c].jobs, QueueClaim(c, i) PROVE Goal
  <2>1. PICK s \in {<<"review", "claim_review">>, <<"dispute", "dispute">>} :
          /\ AtStage(c, i, s[1])
          /\ queue' = queue \cup {Enqueued(s[2], call[c].jobs[i].text, call[c].jobs[i].target)}
          /\ Passes(c, i, s[1], call[c].jobs[i])
    BY <1>20 DEF QueueClaim
  <2>2. s[1] \in Leaving /\ s[2] \in {"claim_review", "dispute"}
    BY <2>1, SMTT(40) DEF Leaving
  <2>3. call' \in [Call -> CallRec]
    BY <2>1, <2>2, PassesAsItIs, ZenonT(60) DEF JobBecomes
  <2>4. call[c].jobs[i] \in JobRec
    BY JobTypes DEF Types
  <2>5. queue' \subseteq [kind : {"claim_review", "dispute"}, text : Text \cup {"invented"}, page : Target]
    BY <2>1, <2>2, <2>4, SMTT(40) DEF Enqueued, JobRec, Types
  <2> QED BY <1>20, <2>3, <2>5 DEF QueueClaim, Types
<1>21. ASSUME NEW c \in Call, NEW i \in DOMAIN call[c].jobs, ReadToAmend(c, i) PROVE Goal
  <2> DEFINE job == call[c].jobs[i]
  <2>1. job \in JobRec
    BY JobTypes DEF Types
  <2>2. PICK stage \in {"reinforce", "supersede"} :
           \/ Passes(c, i, stage, job)
           \/ \E p \in DOMAIN pages :
                 call' = [call EXCEPT ![c].jobs[i].base = {<<p, pages[p]>>},
                                      ![c].jobs[i].stage = Amending(stage)]
    BY <1>21, ZenonT(60) DEF ReadToAmend
  <2>3. CASE Passes(c, i, stage, job)
    <3>1. call' \in [Call -> CallRec]
      BY <2>2, <2>3, PassesAsItIs, ZenonT(60) DEF JobBecomes, Leaving
    <3> QED BY <1>21, <3>1, TypesUnchanged, SMTT(40) DEF ReadToAmend, Types
  <2>4. ASSUME NEW p \in DOMAIN pages,
               call' = [call EXCEPT ![c].jobs[i].base = {<<p, pages[p]>>},
                                    ![c].jobs[i].stage = Amending(stage)]
        PROVE  Goal
    <3>1. Replaces(c, i, [job EXCEPT !.base = {<<p, pages[p]>>}, !.stage = Amending(stage)])
      BY <2>4, ZenonT(60) DEF Replaces, Types
    <3>2. Amending(stage) \in Stage /\ {<<p, pages[p]>>} \in SUBSET Copy
      BY <2>2 DEF Amending, Stage, Copy, Types
    <3>3. [job EXCEPT !.base = {<<p, pages[p]>>}, !.stage = Amending(stage)] \in JobRec
      BY <2>1, <3>2 DEF JobRec
    <3>4. call' \in [Call -> CallRec]
      BY <3>1, <3>3, JobUpdate DEF JobBecomes, Types
    <3> QED BY <1>21, <3>4, TypesUnchanged DEF ReadToAmend, Types
  <2> QED BY <2>2, <2>3, <2>4
<1>22. ASSUME NEW c \in Call, NEW i \in DOMAIN call[c].jobs, WriteAmended(c, i) PROVE Goal
  <2>1. PICK stage \in {"reinforce", "supersede"} :
          /\ \E b \in call[c].jobs[i].base : \E x \in Live(b[2], call[c].jobs[i].text) :
                pages' = With(pages, b[1], Amended(b[2], x, stage))
          /\ Passes(c, i, stage, call[c].jobs[i])
    BY <1>22 DEF WriteAmended
  <2>2. PICK b \in call[c].jobs[i].base : \E x \in Live(b[2], call[c].jobs[i].text) :
                pages' = With(pages, b[1], Amended(b[2], x, stage))
    BY <2>1
  <2>3. PICK x \in Live(b[2], call[c].jobs[i].text) : pages' = With(pages, b[1], Amended(b[2], x, stage))
    BY <2>2
  <2>4. call[c].jobs[i] \in JobRec
    BY JobTypes DEF Types
  <2>5. b[1] \in Page /\ b[2] \in SUBSET ClaimRec /\ x \in b[2]
    BY <2>4 DEF JobRec, Copy, Live
  <2>6. /\ DOMAIN pages' \subseteq Page /\ pages' \in [DOMAIN pages' -> SUBSET ClaimRec]
        /\ DOMAIN pages \subseteq DOMAIN pages'
    BY <2>3, <2>5, AmendedTypes, PageWritten, SMTT(40)
  <2>7. call' \in [Call -> CallRec]
    BY <2>1, PassesAsItIs, ZenonT(60) DEF JobBecomes, Leaving
  <2>8. UNCHANGED <<listed, queue, log, raw, rawIndex, faults>>
    BY <1>22 DEF WriteAmended
  <2> QED BY <2>6, <2>7, <2>8 DEF Types
<1>23. ASSUME NEW c \in Call, NEW i \in DOMAIN call[c].jobs, LogClaim(c, i) PROVE Goal
  <2>1. call' \in [Call -> CallRec]
    BY <1>23, PassesAsItIs, ZenonT(60) DEF LogClaim, Leaving, JobBecomes
  <2>2. call[c].jobs[i] \in JobRec
    BY JobTypes DEF Types
  <2>3. call[c].jobs[i].is \in Outcomes
    BY <1>23 DEF LogClaim, AtStage, Control, JobControl, PointControl
  <2>4. call[c].jobs[i].is.action \in Action /\ call[c].jobs[i].text \in Text
    BY <2>2, <2>3, OutcomeTypes, SMTT(40) DEF JobRec
  <2>5. log' \in Seq([text : Text, action : Action \cup {"promoted"}])
    BY <1>23, <2>4, LogGrows DEF LogClaim
  <2> QED BY <1>23, <2>1, <2>5, SMTT(40) DEF LogClaim, Types
<1>24. CASE UNCHANGED vars
  BY <1>24, TypesUnchanged DEF vars, Types
<1> HIDE DEF Goal
<1>25. ASSUME NEW c \in Call, NEW i \in DOMAIN call[c].jobs, JobStep(c, i) PROVE Goal
  BY <1>19, <1>20, <1>21, <1>22, <1>23, <1>25 DEF JobStep
<1>26. ASSUME NEW c \in Call, CallStep(c) PROVE Goal
  BY <1>5, <1>6, <1>7, <1>8, <1>9, <1>10, <1>11, <1>12, <1>13, <1>14, <1>15, <1>16, <1>25, <1>26
     DEF CallStep
<1>27. ASSUME Next PROVE Goal
  BY <1>3, <1>4, <1>17, <1>18, <1>26, <1>27 DEF Next
<1> QED BY <1>24, <1>27 DEF Goal

-----------------------------------------------------------------------------
(* What steps do to the calls.                                             *)

Others(c) == \A e \in Call : e # c => call'[e] = call[e]

\* Call c goes on at pc, with another name, batch, list to raise, page in work or result
\* where that is not excluded.
SameName(c) == call'[c].name = call[c].name
SameJobs(c) == call'[c].jobs = call[c].jobs
SameDue(c) == call'[c].due = call[c].due
SameWork(c) == call'[c].group = call[c].group /\ call'[c].base = call[c].base
SameResult(c) == call'[c].written = call[c].written /\ call'[c].flagged = call[c].flagged

Walks(c, pc) ==
    /\ Others(c) /\ call'[c].pc = pc
    /\ SameName(c) /\ SameJobs(c) /\ SameDue(c) /\ SameWork(c) /\ SameResult(c)

USE DEF SameName, SameJobs, SameDue, SameWork, SameResult

LEMMA Changed ==
  ASSUME Types, NEW c \in Call, NEW r, call' = [call EXCEPT ![c] = r]
  PROVE  Others(c) /\ call'[c] = r
BY DEF Types, Others

LEMMA GotoWalks ==
  ASSUME Types, NEW c \in Call, NEW pc, Goto(c, pc)
  PROVE  Walks(c, pc)
<1>1. call' = [call EXCEPT ![c] = [call[c] EXCEPT !.pc = pc]]
  BY DEF Goto
<1>2. Others(c) /\ call'[c] = [call[c] EXCEPT !.pc = pc]
  BY <1>1, Changed
<1>3. call[c] \in CallRec
  BY DEF Types
<1> QED BY <1>2, <1>3 DEF Walks, CallRec

\* A file name is taken; the batch is put up; the log is read; an entry is noted.
LEMMA ChooseNameDoes ==
  ASSUME Types, NEW c \in Call, ChooseName(c)
  PROVE  /\ Others(c) /\ call'[c].pc = "store" /\ call'[c].name = FreeName(Input[c])
         /\ SameJobs(c) /\ SameDue(c) /\ SameWork(c) /\ SameResult(c)
<1> DEFINE name == FreeName(Input[c])
           r == [call[c] EXCEPT !.name = name, !.pc = "store"]
<1>1. call' = [call EXCEPT ![c] = r]
  BY DEF ChooseName
<1>2. Others(c) /\ call'[c] = r
  <2> HIDE DEF r
  <2> QED BY <1>1, Changed
<1>3. call[c] \in CallRec
  BY DEF Types
<1> HIDE DEF name
<1>4. /\ r.pc = "store" /\ r.name = name /\ r.jobs = call[c].jobs /\ r.due = call[c].due
      /\ r.group = call[c].group /\ r.base = call[c].base /\ r.written = call[c].written
      /\ r.flagged = call[c].flagged
  BY <1>3 DEF CallRec
<1> QED BY <1>2, <1>4 DEF name

LEMMA CollectDoes ==
  ASSUME Types, NEW c \in Call, NEW items \in Seq(Text), Collect(c, items)
  PROVE  /\ Others(c) /\ call'[c].pc = "jobs"
         /\ SameName(c) /\ SameDue(c) /\ SameWork(c) /\ SameResult(c)
         /\ Len(call'[c].jobs) = Len(items)
         /\ \A i \in DOMAIN call'[c].jobs :
               call'[c].jobs[i].stage = "judge" /\ call'[c].jobs[i].base = {}
<1>1. call[c] \in CallRec
  BY DEF Types
<1>2. /\ \A e \in Call : e # c => call'[e] = call[e]
      /\ Len(call'[c].jobs) = Len(items) /\ DOMAIN call'[c].jobs = DOMAIN items
      /\ \A i \in DOMAIN items : call'[c].jobs[i] = Job(items[i])
  BY CollectTypes
<1> DEFINE jobs == call'[c].jobs
           shown == call'[c].shown
           known == call'[c].known
<1>3. call'[c] = [call[c] EXCEPT !.jobs = jobs, !.pc = "jobs", !.shown = shown, !.known = known]
  BY CollectTypes
<1>4. /\ call'[c].pc = "jobs" /\ SameName(c) /\ SameDue(c) /\ SameWork(c) /\ SameResult(c)
  <2> HIDE DEF jobs, shown, known
  <2> QED BY <1>1, <1>3 DEF CallRec
<1>5. \A i \in DOMAIN jobs : jobs[i].stage = "judge" /\ jobs[i].base = {}
  <2> SUFFICES ASSUME NEW i \in DOMAIN jobs PROVE jobs[i].stage = "judge" /\ jobs[i].base = {}
    OBVIOUS
  <2>1. jobs[i] = Job(items[i])
    BY <1>2
  <2> QED BY <2>1 DEF Job
<1> QED BY <1>2, <1>4, <1>5 DEF Others

LEMMA ReadLogDoes ==
  ASSUME Types, NEW c \in Call, ReadLog(c)
  PROVE  /\ Others(c) /\ call'[c].pc = IF call'[c].due = <<>> THEN "name" ELSE "raise"
         /\ SameName(c) /\ SameJobs(c) /\ SameWork(c) /\ SameResult(c)
         /\ \A t \in Recurring : \E k \in DOMAIN call'[c].due : call'[c].due[k] = t
<1>1. PICK s \in [1..Cardinality(Recurring) -> Recurring] :
          /\ \A t \in Recurring : \E k \in DOMAIN s : s[k] = t
          /\ call' = [call EXCEPT ![c].due = s, ![c].pc = IF s = <<>> THEN "name" ELSE "raise"]
  BY DEF ReadLog
<1> DEFINE pc == IF s = <<>> THEN "name" ELSE "raise"
           r == [call[c] EXCEPT !.due = s, !.pc = pc]
<1>2. call' = [call EXCEPT ![c] = r]
  BY <1>1
<1>3. Others(c) /\ call'[c] = r
  <2> HIDE DEF r
  <2> QED BY <1>2, Changed
<1>4. call[c] \in CallRec
  BY DEF Types
<1>5. /\ r.pc = pc /\ r.due = s /\ r.name = call[c].name /\ r.jobs = call[c].jobs
      /\ r.group = call[c].group /\ r.base = call[c].base /\ r.written = call[c].written
      /\ r.flagged = call[c].flagged
  <2> HIDE DEF pc
  <2> QED BY <1>4 DEF CallRec
<1>6. \A t \in Recurring : \E k \in DOMAIN s : s[k] = t
  BY <1>1
<1> HIDE DEF r
<1> QED BY <1>3, <1>5, <1>6

LEMMA NotePromotedDoes ==
  ASSUME Types, NEW c \in Call, NotePromoted(c)
  PROVE  /\ Others(c) /\ call'[c].pc = IF Len(call[c].due) = 1 THEN "name" ELSE "raise"
         /\ call'[c].due = Tail(call[c].due)
         /\ SameName(c) /\ SameJobs(c) /\ SameWork(c) /\ SameResult(c)
<1> DEFINE pc == IF Len(call[c].due) = 1 THEN "name" ELSE "raise"
           rest == Tail(call[c].due)
           r == [call[c] EXCEPT !.due = rest, !.pc = pc]
<1>1. call' = [call EXCEPT ![c] = r]
  BY DEF NotePromoted
<1>2. Others(c) /\ call'[c] = r
  <2> HIDE DEF r
  <2> QED BY <1>1, Changed
<1>3. call[c] \in CallRec
  BY DEF Types
<1>4. /\ r.pc = pc /\ r.due = rest /\ r.name = call[c].name /\ r.jobs = call[c].jobs
      /\ r.group = call[c].group /\ r.base = call[c].base /\ r.written = call[c].written
      /\ r.flagged = call[c].flagged
  <2> HIDE DEF pc, rest
  <2> QED BY <1>3 DEF CallRec
<1> HIDE DEF r
<1> QED BY <1>2, <1>4

\* The writer starts; it reads a page; it writes one, or gives up.
LEMMA StartWritingDoes ==
  ASSUME Types, NEW c \in Call, StartWriting(c)
  PROVE  Walks(c, IF Plan(c) = {} THEN "end" ELSE "group")
<1> DEFINE pc == IF Plan(c) = {} THEN "end" ELSE "group"
           rest == Plan(c)
           r == [call[c] EXCEPT !.todo = rest, !.pc = pc]
<1>1. call' = [call EXCEPT ![c] = r]
  BY DEF StartWriting
<1>2. Others(c) /\ call'[c] = r
  <2> HIDE DEF r
  <2> QED BY <1>1, Changed
<1>3. call[c] \in CallRec
  BY DEF Types
<1>4. Walks(c, pc)
  <2> HIDE DEF pc, rest
  <2> QED BY <1>2, <1>3 DEF Walks, CallRec
<1> QED BY <1>4

LEMMA ReadTargetDoes ==
  ASSUME Types, NEW c \in Call, ReadTarget(c)
  PROVE  /\ Others(c) /\ call'[c].pc = "ask"
         /\ call'[c].base \subseteq {<<p, pages[p]>> : p \in DOMAIN pages \cap {call'[c].group}}
         /\ SameName(c) /\ SameJobs(c) /\ SameDue(c) /\ SameResult(c)
<1>1. PICK g \in call[c].todo :
         call' = [call EXCEPT ![c].group = g, ![c].todo = @ \ {g}, ![c].pc = "ask",
                              ![c].base = IF g \in DOMAIN pages THEN {<<g, pages[g]>>} ELSE {}]
  BY DEF ReadTarget
<1> DEFINE rest == call[c].todo \ {g}
           read == IF g \in DOMAIN pages THEN {<<g, pages[g]>>} ELSE {}
           r == [call[c] EXCEPT !.group = g, !.todo = rest, !.pc = "ask", !.base = read]
<1>2. call' = [call EXCEPT ![c] = r]
  BY <1>1
<1>3. Others(c) /\ call'[c] = r
  <2> HIDE DEF r
  <2> QED BY <1>2, Changed
<1>4. call[c] \in CallRec
  BY DEF Types
<1>5. read \subseteq {<<p, pages[p]>> : p \in DOMAIN pages \cap {g}}
  OBVIOUS
<1>6. /\ r.pc = "ask" /\ r.group = g /\ r.base = read /\ r.name = call[c].name
      /\ r.jobs = call[c].jobs /\ r.due = call[c].due /\ r.written = call[c].written
      /\ r.flagged = call[c].flagged
  <2> HIDE DEF rest, read
  <2> QED BY <1>4, SMTT(40) DEF CallRec
<1> HIDE DEF r, read
<1> QED BY <1>3, <1>5, <1>6

LEMMA WriteGroupDoes ==
  ASSUME Types, NEW c \in Call, WriteGroup(c)
  PROVE  /\ Others(c) /\ call'[c].pc = "group" /\ call'[c].base = {}
         /\ SameName(c) /\ SameJobs(c) /\ SameDue(c)
         /\ \/ SameResult(c) /\ UNCHANGED pages
            \/ \E p \in Page :
                 /\ call[c].group # NewPage => p = call[c].group
                 /\ \/ UNCHANGED pages /\ call'[c].written = call[c].written
                    \/ /\ Mode(c) # "draft" /\ pages' = With(pages, p, PageClaims(c))
                       /\ call'[c].written = call[c].written \cup {p}
<1>1. call[c] \in CallRec
  BY DEF Types
<1>2. CASE call' = [call EXCEPT ![c].pc = "group", ![c].base = {}, ![c].group = NewPage] /\ UNCHANGED pages
  <2> DEFINE r == [call[c] EXCEPT !.pc = "group", !.base = {}, !.group = NewPage]
  <2>1. call' = [call EXCEPT ![c] = r]
    BY <1>2
  <2>2. Others(c) /\ call'[c] = r
    <3> HIDE DEF r
    <3> QED BY <2>1, Changed
  <2>3. /\ r.pc = "group" /\ r.base = {} /\ r.name = call[c].name /\ r.jobs = call[c].jobs
        /\ r.due = call[c].due /\ r.written = call[c].written /\ r.flagged = call[c].flagged
    BY <1>1 DEF CallRec
  <2> HIDE DEF r
  <2> QED BY <1>2, <2>2, <2>3
<1>3. CASE \E p \in IF call[c].group = NewPage THEN Page ELSE {call[c].group} :
             /\ pages' = IF Mode(c) = "draft" THEN pages ELSE With(pages, p, PageClaims(c))
             /\ call' = [call EXCEPT
                   ![c].pc = "group", ![c].base = {}, ![c].group = NewPage,
                   ![c].written = IF Mode(c) = "draft" THEN @ ELSE @ \cup {p},
                   ![c].flagged = IF Ungrounded(c) THEN @ \cup {p} ELSE @]
  <2>1. PICK p \in IF call[c].group = NewPage THEN Page ELSE {call[c].group} :
             /\ pages' = IF Mode(c) = "draft" THEN pages ELSE With(pages, p, PageClaims(c))
             /\ call' = [call EXCEPT
                   ![c].pc = "group", ![c].base = {}, ![c].group = NewPage,
                   ![c].written = IF Mode(c) = "draft" THEN @ ELSE @ \cup {p},
                   ![c].flagged = IF Ungrounded(c) THEN @ \cup {p} ELSE @]
    BY <1>3
  <2>2. p \in Page /\ (call[c].group # NewPage => p = call[c].group)
    BY <1>1, <2>1 DEF CallRec, Target
  <2> DEFINE written == IF Mode(c) = "draft" THEN call[c].written ELSE call[c].written \cup {p}
             flagged == IF Ungrounded(c) THEN call[c].flagged \cup {p} ELSE call[c].flagged
             r == [call[c] EXCEPT !.pc = "group", !.base = {}, !.group = NewPage,
                                  !.written = written, !.flagged = flagged]
  <2>3. call' = [call EXCEPT ![c] = r]
    BY <2>1
  <2>4. Others(c) /\ call'[c] = r
    <3> HIDE DEF r
    <3> QED BY <2>3, Changed
  <2>5. /\ r.pc = "group" /\ r.base = {} /\ r.name = call[c].name /\ r.jobs = call[c].jobs
        /\ r.due = call[c].due /\ r.written = written
    <3> HIDE DEF written, flagged
    <3> QED BY <1>1 DEF CallRec
  <2>6. \/ pages' = pages /\ written = call[c].written
        \/ /\ Mode(c) # "draft" /\ pages' = With(pages, p, PageClaims(c))
           /\ written = call[c].written \cup {p}
    BY <2>1
  <2> HIDE DEF r, written
  <2> QED BY <2>2, <2>4, <2>5, <2>6
<1> QED BY <1>2, <1>3 DEF WriteGroup

\* A job fails with its call.
LEMMA FailJobDoes ==
  ASSUME Types, NEW c \in Call, NEW i \in DOMAIN call[c].jobs, FailJob(c, i)
  PROVE  /\ Others(c) /\ call'[c].pc = "failed"
         /\ SameName(c) /\ SameDue(c) /\ SameWork(c) /\ SameResult(c)
         /\ DOMAIN call'[c].jobs = DOMAIN call[c].jobs
         /\ \A k \in DOMAIN call[c].jobs :
               IF k = i THEN /\ call'[c].jobs[k].stage = "failed"
                             /\ call'[c].jobs[k].base = call[c].jobs[k].base
               ELSE call'[c].jobs[k] = call[c].jobs[k]
<1> DEFINE k == [call[c].jobs[i] EXCEPT !.stage = "failed"]
           js == [call[c].jobs EXCEPT ![i] = k]
           r == [call[c] EXCEPT !.pc = "failed", !.jobs = js]
<1>1. call[c] \in CallRec /\ call[c].jobs[i] \in JobRec
  BY JobTypes DEF Types
<1>2. call' = [call EXCEPT ![c] = r]
  BY DEF FailJob
<1>3. Others(c) /\ call'[c] = r
  <2> HIDE DEF r
  <2> QED BY <1>2, Changed
<1>4. k.stage = "failed" /\ k.base = call[c].jobs[i].base
  BY <1>1 DEF JobRec
<1> HIDE DEF k
<1>5. DOMAIN js = DOMAIN call[c].jobs
      /\ \A l \in DOMAIN call[c].jobs : js[l] = IF l = i THEN k ELSE call[c].jobs[l]
  OBVIOUS
<1> HIDE DEF js
<1>6. /\ r.pc = "failed" /\ r.jobs = js /\ r.name = call[c].name /\ r.due = call[c].due
      /\ r.group = call[c].group /\ r.base = call[c].base /\ r.written = call[c].written
      /\ r.flagged = call[c].flagged
  BY <1>1 DEF CallRec
<1> HIDE DEF r
<1> QED BY <1>3, <1>4, <1>5, <1>6

\* A question about t is in the queue after the step.
QueuedThen(kind, t) == \E x \in queue' : x.kind = kind /\ x.text = t

\* A step of job i, which becomes j: what it must have passed is behind it.
JobMoves(c, i, j) ==
    LET job == call[c].jobs[i]
    IN  /\ JobBecomes(c, i, j)
        /\ j.text = job.text /\ j.is \in Outcomes /\ j.stage \notin {"judge", "failed"}
        /\ j.stage = "log" => c \in Capture
        /\ job.stage \notin {"done", "failed"}
        /\ job.stage # "judge" => j.is = job.is
        /\ j.is.action = "review" /\ j.stage # "review" =>
              job.stage # "judge" /\ (job.stage = "review" => QueuedThen("claim_review", j.text))
        /\ j.is.relation = "contradicts" /\ j.stage \notin {"review", "dispute"} =>
              /\ job.stage \notin {"judge", "review"}
              /\ job.stage = "dispute" => QueuedThen("dispute", j.text)
        /\ j.base \subseteq {<<p, pages[p]>> : p \in DOMAIN pages}

\* Of a job that passes on as it is.
LEMMA PassesMoves ==
  ASSUME Types, Control, NEW c \in Call, NEW i \in DOMAIN call[c].jobs,
         NEW from \in Leaving \ {"judge"}, Passes(c, i, from, call[c].jobs[i]),
         call[c].jobs[i].stage \in {from, Amending(from)}, from = "review" => QueuedThen("claim_review", call[c].jobs[i].text),
         from = "dispute" => QueuedThen("dispute", call[c].jobs[i].text),
         from \in {"reinforce", "supersede"} \/ call[c].jobs[i].stage = from
  PROVE  \E j : JobMoves(c, i, j)
<1> DEFINE job == call[c].jobs[i]
<1>0. /\ from = "review" => QueuedThen("claim_review", job.text)
      /\ from = "dispute" => QueuedThen("dispute", job.text)
  BY SMTT(40)
<1>1. PICK s : StopsAt(c, from, job, s) /\ JobBecomes(c, i, [job EXCEPT !.stage = s, !.base = {}])
  BY PassesAsItIs
<1> DEFINE j == [job EXCEPT !.stage = s, !.base = {}]
<1>2. job \in JobRec
  BY JobTypes DEF Types
<1>3. /\ j.stage = s /\ j.base = {} /\ j.is = job.is /\ j.text = job.text
  BY <1>2 DEF JobRec
<1>4. JobBecomes(c, i, j)
  BY <1>1
<1> HIDE DEF j
<1>5. /\ job.stage \notin {"judge", "done", "failed"}
      /\ from = "review" <=> job.stage = "review"
      /\ from = "dispute" <=> job.stage = "dispute"
  BY DEF Leaving, Amending
<1>6. job.is \in Outcomes
  BY <1>5 DEF Control, JobControl, AtStage
<1>7. /\ s \notin {"judge", "failed", "review"} /\ (s = "log" => c \in Capture)
      /\ from = "review" /\ job.is.relation = "contradicts" => s = "dispute"
  BY <1>1, <1>5 DEF StopsAt
<1>8. JobMoves(c, i, j)
  BY <1>0, <1>3, <1>4, <1>5, <1>6, <1>7 DEF JobMoves
<1> QED BY <1>8

LEMMA JobStepMoves ==
  ASSUME Types, Control, NEW c \in Call, NEW i \in DOMAIN call[c].jobs, JobStep(c, i)
  PROVE  \E j : JobMoves(c, i, j)
<1> DEFINE job == call[c].jobs[i]
<1>1. CASE Judge(c, i)
  <2>1. PICK j \in JobRec : \E s :
            /\ j.is \in Outcomes /\ j.text = job.text
            /\ StopsAt(c, "judge", j, s) /\ JobBecomes(c, i, [j EXCEPT !.stage = s, !.base = {}])
    BY <1>1, JudgeTypes
  <2>2. PICK s : StopsAt(c, "judge", j, s) /\ JobBecomes(c, i, [j EXCEPT !.stage = s, !.base = {}])
    BY <2>1
  <2> DEFINE k == [j EXCEPT !.stage = s, !.base = {}]
  <2>3. k.stage = s /\ k.base = {} /\ k.is = j.is /\ k.text = j.text
    BY DEF JobRec
  <2>4. JobBecomes(c, i, k)
    BY <2>2
  <2> HIDE DEF k
  <2>5. /\ s \notin {"judge", "failed"} /\ (s = "log" => c \in Capture) /\ (j.is.action = "review" => s = "review")
        /\ j.is.relation = "contradicts" => s \in {"review", "dispute"}
    BY <2>2 DEF StopsAt
  <2>6. job.stage = "judge"
    BY <1>1 DEF Judge, AtStage
  <2>7. JobMoves(c, i, k)
    BY <2>1, <2>3, <2>4, <2>5, <2>6 DEF JobMoves
  <2> QED BY <2>7, SMTT(40)
<1>2. CASE QueueClaim(c, i)
  <2>1. PICK s \in {<<"review", "claim_review">>, <<"dispute", "dispute">>} :
          /\ AtStage(c, i, s[1])
          /\ queue' = queue \cup {Enqueued(s[2], job.text, job.target)}
          /\ Passes(c, i, s[1], job)
    BY <1>2 DEF QueueClaim
  <2>2. QueuedThen(s[2], job.text)
    <3>1. Enqueued(s[2], job.text, job.target) \in queue'
      BY <2>1
    <3>2. \E x \in queue' : x.kind = s[2] /\ x.text = job.text
      BY <3>1 DEF Enqueued
    <3> QED BY <3>2 DEF QueuedThen
  <2>3. s[1] \in Leaving \ {"judge"} /\ job.stage = s[1]
        /\ (s[1] = "review" => s[2] = "claim_review") /\ (s[1] = "dispute" => s[2] = "dispute")
    BY <2>1, SMTT(40) DEF Leaving, AtStage
  <2> QED BY <2>1, <2>2, <2>3, PassesMoves
<1>3. CASE ReadToAmend(c, i)
  <2>1. job \in JobRec
    BY JobTypes DEF Types
  <2>2. PICK stage \in {"reinforce", "supersede"} :
           /\ AtStage(c, i, stage)
           /\ \/ Passes(c, i, stage, job)
              \/ \E p \in DOMAIN pages :
                   call' = [call EXCEPT ![c].jobs[i].base = {<<p, pages[p]>>},
                                        ![c].jobs[i].stage = Amending(stage)]
    BY <1>3, ZenonT(60) DEF ReadToAmend
  <2>3. CASE Passes(c, i, stage, job)
    BY <2>2, <2>3, PassesMoves DEF AtStage, Leaving
  <2>4. ASSUME NEW p \in DOMAIN pages,
               call' = [call EXCEPT ![c].jobs[i].base = {<<p, pages[p]>>},
                                    ![c].jobs[i].stage = Amending(stage)]
        PROVE  \E j : JobMoves(c, i, j)
    <3> DEFINE j == [job EXCEPT !.base = {<<p, pages[p]>>}, !.stage = Amending(stage)]
    <3>1. Replaces(c, i, j)
      BY <2>4, ZenonT(60) DEF Replaces, Types
    <3>2. Amending(stage) \in Stage /\ {<<p, pages[p]>>} \in SUBSET Copy
      BY <2>2 DEF Amending, Stage, Copy, Types
    <3>3. j \in JobRec /\ j.text = job.text /\ j.is = job.is /\ j.stage = Amending(stage)
          /\ j.base = {<<p, pages[p]>>}
      BY <2>1, <3>2 DEF JobRec
    <3> HIDE DEF j
    <3>4. JobBecomes(c, i, j)
      BY <3>1, <3>3, JobUpdate DEF Types
    <3>5. job.stage = stage /\ stage \in {"reinforce", "supersede"}
          /\ Amending(stage) \in {"reinforcing", "superseding"}
      BY <2>2 DEF AtStage, Amending
    <3>6. job.is \in Outcomes
      BY <3>5 DEF Control, JobControl, AtStage
    <3>7. j.base \subseteq {<<q, pages[q]>> : q \in DOMAIN pages}
      BY <3>3
    <3>8. JobMoves(c, i, j)
      BY <3>3, <3>4, <3>5, <3>6, <3>7 DEF JobMoves
    <3> QED BY <3>8
  <2> QED BY <2>2, <2>3, <2>4, ZenonT(60)
<1>4. CASE WriteAmended(c, i)
  <2>1. PICK stage \in {"reinforce", "supersede"} :
          AtStage(c, i, Amending(stage)) /\ Passes(c, i, stage, job)
    BY <1>4 DEF WriteAmended
  <2> QED BY <2>1, PassesMoves DEF AtStage, Leaving
<1>5. CASE LogClaim(c, i)
  BY <1>5, PassesMoves DEF LogClaim, AtStage, Leaving
<1> QED BY <1>1, <1>2, <1>3, <1>4, <1>5 DEF JobStep

\* Pages, questions and failures only come to be more.
Grows ==
    /\ DOMAIN pages \subseteq DOMAIN pages'
    /\ queue \subseteq queue'
    /\ faults \in Nat /\ faults' \in Nat /\ faults <= faults'

LEMMA StepGrows ==
  ASSUME Types, [Next]_vars
  PROVE  Grows
<1>1. faults \in Nat
  BY InputsAreGiven DEF Types
<1> USE DEF store
<1>2. ASSUME NEW c \in Call, CheckDuplicate(c) \/ BeginCapture(c) \/ FailCall(c) PROVE Grows
  BY <1>1, <1>2 DEF CheckDuplicate, BeginCapture, FailCall, Grows
<1>3. ASSUME NEW c \in Call, NEW i, FailJob(c, i) PROVE Grows
  BY <1>1, <1>3 DEF FailJob, Grows
<1>4. ASSUME NEW c \in Call, NEW i, JobStep(c, i) PROVE Grows
  <2>1. CASE Judge(c, i)
    BY <1>1, <2>1 DEF Judge, Grows
  <2>2. CASE QueueClaim(c, i)
    BY <1>1, <2>2, SMTT(40) DEF QueueClaim, Grows
  <2>3. CASE ReadToAmend(c, i)
    BY <1>1, <2>3 DEF ReadToAmend, Grows
  <2>4. CASE WriteAmended(c, i)
    <3>1. PICK p, S : pages' = With(pages, p, S)
      BY <2>4 DEF WriteAmended
    <3>2. DOMAIN pages \subseteq DOMAIN pages'
      BY <3>1 DEF With
    <3>3. UNCHANGED <<queue, faults>>
      BY <2>4 DEF WriteAmended
    <3> QED BY <1>1, <3>2, <3>3 DEF Grows
  <2>5. CASE LogClaim(c, i)
    BY <1>1, <2>5 DEF LogClaim, Grows
  <2> QED BY <1>4, <2>1, <2>2, <2>3, <2>4, <2>5 DEF JobStep
<1>5. ASSUME NEW c \in Call, WriteGroup(c) PROVE Grows
  <2>1. UNCHANGED <<queue, faults>>
    BY <1>5 DEF WriteGroup
  <2>2. UNCHANGED pages \/ \E p : pages' = With(pages, p, PageClaims(c))
    BY <1>5, WriteGroupDoes
  <2>3. DOMAIN pages \subseteq DOMAIN pages'
    BY <2>2 DEF With
  <2> QED BY <1>1, <2>1, <2>3 DEF Grows
<1>6. ASSUME NEW c \in Call, ChooseName(c) \/ StoreRaw(c) \/ IndexRaw(c) \/ Extract(c) \/ ReadLog(c)
      PROVE Grows
  BY <1>1, <1>6 DEF ChooseName, StoreRaw, IndexRaw, Extract, ReadLog, Grows
<1>7. ASSUME NEW c \in Call, RaiseRecurring(c) \/ NotePromoted(c) \/ StartWriting(c) \/ ReadTarget(c)
      PROVE Grows
  <2>1. CASE RaiseRecurring(c)
    BY <1>1, <2>1 DEF RaiseRecurring, Grows
  <2>2. CASE ~RaiseRecurring(c)
    <3>1. UNCHANGED <<pages, queue, faults>>
      BY <1>7, <2>2 DEF NotePromoted, StartWriting, ReadTarget
    <3> QED BY <1>1, <3>1, SMTT(40) DEF Grows
  <2> QED BY <2>1, <2>2
<1>8. ASSUME NEW c \in Call, ListWritten(c) \/ FlagWritten(c) PROVE Grows
  BY <1>1, <1>8 DEF ListWritten, FlagWritten, Grows
<1>9. CASE UNCHANGED vars
  BY <1>1, <1>9 DEF vars, Grows
<1> QED BY <1>2, <1>3, <1>4, <1>5, <1>6, <1>7, <1>8, <1>9 DEF Next, CallStep

LEMMA MoreThanOne ==
  ASSUME NEW S, NEW s \in Seq(S), s # <<>>, Len(s) # 1
  PROVE  Tail(s) # <<>>
<1>1. Len(s) \in Nat /\ Len(s) # 0
  BY EmptySeq, LenProperties
<1>2. Len(Tail(s)) = Len(s) - 1
  BY <1>1, HeadTailProperties
<1>3. Len(<<>>) = 0
  OBVIOUS
<1>4. Len(Tail(s)) # 0
  BY <1>1, <1>2
<1> QED BY <1>3, <1>4, Zenon

LEMMA ControlStep ==
  ASSUME Types, Control, [Next]_vars
  PROVE  Control'
<1>1. Grows
  BY StepGrows
<1>2. \A e \in Call : JobControl(e) /\ PointControl(e) /\ e \in Ingest \cup Capture
  BY DEF Control, Call
\* What holds of the calls that are not at work.
<1>3. \A e \in Call : call'[e] = call[e] => JobControl(e)' /\ PointControl(e)'
  BY <1>1, <1>2 DEF JobControl, PointControl, Early, AtStage, Grows
<1>4. ASSUME NEW c \in Call, Others(c), JobControl(c)', PointControl(c)' PROVE Control'
  BY <1>3, <1>4 DEF Control, Others
\* A call that keeps its batch.
<1>5. ASSUME NEW c \in Call, SameJobs(c) PROVE JobControl(c)'
  BY <1>1, <1>2, <1>5 DEF JobControl, AtStage, Grows
<1>6. ASSUME NEW c \in Call, SameJobs(c), call'[c].written \subseteq DOMAIN pages',
             call'[c].pc \in {"name", "store", "write", "group", "ask", "flag", "end", "raise", "note", "index",
                             "extract", "duplicate"},
             Early(c)' => Early(c), call[c].pc \notin {"jobs", "failed"} \/ BatchDone(c),
             call'[c].pc \in {"index", "extract"} => c \in Ingest,
             call'[c].pc \in {"raise", "note", "write"} => c \in Capture,
             call'[c].pc \in {"raise", "note"} => call'[c].due # <<>>
      PROVE  PointControl(c)'
  <2>1. Early(c)' => call'[c].jobs = <<>>
    BY <1>2, <1>6 DEF PointControl
  <2>2. \A i \in DOMAIN call[c].jobs : call[c].jobs[i].stage = "done"
    BY <1>2, <1>6 DEF PointControl, BatchDone, AtStage
  <2> QED BY <1>6, <2>1, <2>2 DEF PointControl, AtStage
<1>7. \A c \in Call : call[c].written \subseteq DOMAIN pages'
  BY <1>1, <1>2 DEF Grows, PointControl
<1>8. ASSUME NEW c \in Call, CheckDuplicate(c) PROVE Control'
  <2>1. Walks(c, "duplicate") \/ Walks(c, "name")
    BY <1>8, GotoWalks DEF CheckDuplicate
  <2>2. c \in Ingest /\ call[c].pc = "ready"
    BY <1>8 DEF CheckDuplicate, MayStart
  <2>3. JobControl(c)' /\ PointControl(c)'
    BY <1>5, <1>6, <1>7, <2>1, <2>2 DEF Walks, Early
  <2> QED BY <1>4, <2>1, <2>3 DEF Walks
<1>9. ASSUME NEW c \in Call, NEW items \in Seq(Text), Collect(c, items) PROVE Control'
  <2>1. /\ Others(c) /\ call'[c].pc = "jobs" /\ SameResult(c)
        /\ \A i \in DOMAIN call'[c].jobs : call'[c].jobs[i].stage = "judge"
    BY <1>9, CollectDoes
  <2>2. JobControl(c)'
    BY <2>1 DEF JobControl, AtStage
  <2>3. PointControl(c)'
    BY <1>7, <2>1 DEF PointControl, Early
  <2> QED BY <1>4, <2>1, <2>2, <2>3
<1>10. ASSUME NEW c \in Call, ChooseName(c) PROVE Control'
  <2>1. call[c].pc = "name"
    BY <1>10 DEF ChooseName
  <2>2. JobControl(c)' /\ PointControl(c)'
    BY <1>5, <1>6, <1>7, <1>10, <2>1, ChooseNameDoes DEF Early
  <2> QED BY <1>4, <1>10, <2>2, ChooseNameDoes
<1>11. ASSUME NEW c \in Call, StoreRaw(c) PROVE Control'
  <2>1. call[c].pc = "store" /\ Walks(c, IF c \in Ingest THEN "index" ELSE "write")
    BY <1>11, GotoWalks DEF StoreRaw
  <2>2. JobControl(c)' /\ PointControl(c)'
    BY <1>2, <1>5, <1>6, <1>7, <2>1 DEF Walks, Early
  <2> QED BY <1>4, <2>1, <2>2 DEF Walks
<1>12. ASSUME NEW c \in Call, IndexRaw(c) PROVE Control'
  <2>1. call[c].pc = "index" /\ Walks(c, "extract") /\ c \in Ingest
    BY <1>2, <1>12, GotoWalks DEF IndexRaw, PointControl
  <2>2. JobControl(c)' /\ PointControl(c)'
    BY <1>5, <1>6, <1>7, <2>1 DEF Walks, Early
  <2> QED BY <1>4, <2>1, <2>2 DEF Walks
<1>13. ASSUME NEW c \in Call, ReadLog(c) PROVE Control'
  <2>1. c \in Capture /\ c \notin Ingest /\ BatchDone(c)
    BY <1>13, InputsAreGiven DEF ReadLog
  <2>2. JobControl(c)' /\ PointControl(c)'
    BY <1>5, <1>6, <1>7, <1>13, <2>1, ReadLogDoes DEF Early
  <2> QED BY <1>4, <1>13, <2>2, ReadLogDoes
<1>14. ASSUME NEW c \in Call, RaiseRecurring(c) PROVE Control'
  <2>1. call[c].pc = "raise" /\ Walks(c, "note")
    BY <1>14, GotoWalks DEF RaiseRecurring
  <2>2. c \in Capture /\ call[c].due # <<>>
    BY <1>2, <2>1 DEF PointControl
  <2>3. JobControl(c)' /\ PointControl(c)'
    BY <1>5, <1>6, <1>7, <2>1, <2>2 DEF Walks, Early
  <2> QED BY <1>4, <2>1, <2>3 DEF Walks
<1>15. ASSUME NEW c \in Call, NotePromoted(c) PROVE Control'
  <2>1. call[c].pc = "note"
    BY <1>15 DEF NotePromoted
  <2>2. c \in Capture /\ c \notin Ingest /\ call[c].due # <<>> /\ call[c].due \in Seq(Text)
    BY <1>2, <2>1, InputsAreGiven DEF PointControl, Types, CallRec
  <2>3. Len(call[c].due) # 1 => Tail(call[c].due) # <<>>
    BY <2>2, MoreThanOne
  <2>4. JobControl(c)' /\ PointControl(c)'
    BY <1>5, <1>6, <1>7, <1>15, <2>1, <2>2, <2>3, NotePromotedDoes DEF Early
  <2> QED BY <1>4, <1>15, <2>4, NotePromotedDoes
<1>16. ASSUME NEW c \in Call, StartWriting(c) PROVE Control'
  <2>1. Walks(c, "end") \/ Walks(c, "group")
    BY <1>16, StartWritingDoes
  <2>2. call[c].pc = "write" \/ BatchDone(c)
    BY <1>16 DEF StartWriting
  <2>3. JobControl(c)' /\ PointControl(c)'
    BY <1>5, <1>6, <1>7, <2>1, <2>2 DEF Walks, Early
  <2> QED BY <1>4, <2>1, <2>3 DEF Walks
<1>17. ASSUME NEW c \in Call, ReadTarget(c) PROVE Control'
  <2>1. call[c].pc = "group"
    BY <1>17 DEF ReadTarget
  <2>2. JobControl(c)' /\ PointControl(c)'
    BY <1>5, <1>6, <1>7, <1>17, <2>1, ReadTargetDoes DEF Early
  <2> QED BY <1>4, <1>17, <2>2, ReadTargetDoes
<1>18. ASSUME NEW c \in Call, WriteGroup(c) PROVE Control'
  <2>1. call[c].pc = "ask" /\ Others(c) /\ call'[c].pc = "group" /\ SameJobs(c)
    BY <1>18, WriteGroupDoes, ZenonT(60) DEF WriteGroup
  <2>2. \/ call'[c].written = call[c].written
        \/ \E p : /\ pages' = With(pages, p, PageClaims(c))
                  /\ call'[c].written = call[c].written \cup {p}
    BY <1>18, WriteGroupDoes
  <2>3. call'[c].written \subseteq DOMAIN pages'
    BY <1>7, <2>2, ZenonT(60) DEF With
  <2>4. JobControl(c)' /\ PointControl(c)'
    BY <1>5, <1>6, <2>1, <2>3 DEF Early
  <2> QED BY <1>4, <2>1, <2>4, SMTT(40)
<1>19. ASSUME NEW c \in Call, ListWritten(c) \/ FlagWritten(c) PROVE Control'
  <2>1. call[c].pc \in {"group", "flag"} /\ (Walks(c, "end") \/ Walks(c, "flag"))
    BY <1>19, GotoWalks DEF ListWritten, FlagWritten
  <2>2. JobControl(c)' /\ PointControl(c)'
    BY <1>5, <1>6, <1>7, <2>1 DEF Walks, Early
  <2> QED BY <1>4, <2>1, <2>2 DEF Walks
<1>20. ASSUME NEW c \in Call, FailCall(c) PROVE Control'
  <2>1. Walks(c, "failed") /\ faults' > 0
    BY <1>1, <1>20, GotoWalks DEF FailCall, Grows
  <2>2. JobControl(c)' /\ PointControl(c)'
    BY <1>5, <1>7, <2>1 DEF Walks, Early, PointControl
  <2> QED BY <1>4, <2>1, <2>2 DEF Walks
<1>21. ASSUME NEW c \in Call, NEW i \in DOMAIN call[c].jobs, FailJob(c, i) PROVE Control'
  <2>1. faults' > 0
    BY <1>1, <1>21 DEF FailJob, Grows
  <2>2. JobControl(c)'
    BY <1>2, <1>21, <2>1, FailJobDoes DEF JobControl, AtStage
  <2>3. PointControl(c)'
    BY <1>7, <1>21, <2>1, FailJobDoes DEF PointControl, Early
  <2> QED BY <1>4, <1>21, <2>2, <2>3, FailJobDoes
<1>22. ASSUME NEW c \in Call, NEW i \in DOMAIN call[c].jobs, JobStep(c, i) PROVE Control'
  <2>1. PICK j : JobMoves(c, i, j)
    BY <1>22, JobStepMoves
  <2>2. /\ JobBecomes(c, i, j) /\ j.is \in Outcomes /\ j.stage \notin {"judge", "failed"}
        /\ call[c].jobs[i].stage # "done" /\ (j.stage = "log" => c \in Capture)
    BY <2>1 DEF JobMoves
  <2>3. call[c].pc \in {"jobs", "failed"}
    BY <1>2, <2>2 DEF PointControl, AtStage
  <2>4. call'[c].pc = call[c].pc /\ call'[c].written = call[c].written
    <3> DEFINE js == call'[c].jobs
    <3>1. call'[c] = [call[c] EXCEPT !.jobs = js] /\ call[c] \in CallRec
      BY <2>2 DEF JobBecomes, Types
    <3> HIDE DEF js
    <3> QED BY <3>1 DEF CallRec
  <2>5. JobControl(c)'
    BY <1>1, <1>2, <2>2, SMTT(40) DEF JobBecomes, JobControl, AtStage, Grows
  <2>6. PointControl(c)'
    BY <1>1, <1>2, <1>7, <2>3, <2>4 DEF PointControl, Early, Grows
  <2> QED BY <1>4, <2>2, <2>5, <2>6 DEF JobBecomes, Others
<1>23. CASE UNCHANGED vars
  BY <1>3, <1>23 DEF vars, Control
<1>24. ASSUME NEW c \in Call, BeginCapture(c) \/ Extract(c) PROVE Control'
  <2>1. \E items \in Seq(Text) : Collect(c, items)
    BY <1>24, InputsAreGiven, EmptySeq DEF BeginCapture, Extract
  <2> QED BY <1>9, <2>1
<1> QED BY <1>8, <1>10, <1>11, <1>12, <1>13, <1>14, <1>15, <1>16, <1>17, <1>18, <1>19, <1>20,
           <1>21, <1>22, <1>23, <1>24 DEF Next, CallStep

\* The claims of a batch that is over stay as they were decided.
LEMMA BatchStays ==
  ASSUME Types, Control, [Next]_vars, NEW c \in Call, DOMAIN call[c].jobs # {},
         \A i \in DOMAIN call[c].jobs : AtStage(c, i, "done")
  PROVE  SameJobs(c)
<1>1. \A e \in Call : Others(e) => e = c \/ SameJobs(c)
  BY DEF Others
<1>2. ASSUME NEW e \in Call, NEW pc, Walks(e, pc) PROVE SameJobs(c)
  BY <1>1, <1>2 DEF Walks
<1>3. ASSUME NEW e \in Call, Others(e), SameJobs(e) PROVE SameJobs(c)
  BY <1>1, <1>3
<1>4. ASSUME NEW e \in Call, BeginCapture(e) \/ Extract(e) PROVE SameJobs(c)
  <2>1. PICK items \in Seq(Text) : Collect(e, items)
    BY <1>4, InputsAreGiven, EmptySeq DEF BeginCapture, Extract
  <2>2. Early(e)
    BY <1>4 DEF BeginCapture, Extract, MayStart, Early
  <2>3. call[e].jobs = <<>>
    BY <2>2 DEF Control, PointControl
  <2>4. e # c
    BY <2>3
  <2> QED BY <1>1, <2>1, <2>4, CollectDoes
<1>5. ASSUME NEW e \in Call, CheckDuplicate(e) \/ StoreRaw(e) \/ IndexRaw(e) \/ RaiseRecurring(e)
             \/ ListWritten(e) \/ FlagWritten(e) \/ FailCall(e)
      PROVE  SameJobs(c)
  <2>1. \E pc : Goto(e, pc)
    BY <1>5 DEF CheckDuplicate, StoreRaw, IndexRaw, RaiseRecurring, ListWritten, FlagWritten, FailCall
  <2> QED BY <1>2, <2>1, GotoWalks
<1>6. ASSUME NEW e \in Call, ChooseName(e) \/ ReadLog(e) \/ NotePromoted(e) \/ ReadTarget(e) \/ WriteGroup(e)
      PROVE  SameJobs(c)
  <2>1. Others(e) /\ SameJobs(e)
    BY <1>6, ChooseNameDoes, ReadLogDoes, NotePromotedDoes, ReadTargetDoes, WriteGroupDoes
  <2> QED BY <1>3, <2>1
<1>7. ASSUME NEW e \in Call, StartWriting(e) PROVE SameJobs(c)
  BY <1>2, <1>7, StartWritingDoes
<1>8. ASSUME NEW e \in Call, NEW i \in DOMAIN call[e].jobs, FailJob(e, i) PROVE SameJobs(c)
  <2>1. e # c
    BY <1>8 DEF FailJob, AtStage
  <2> QED BY <1>1, <1>8, <2>1, FailJobDoes
<1>9. ASSUME NEW e \in Call, NEW i \in DOMAIN call[e].jobs, JobStep(e, i) PROVE SameJobs(c)
  <2>1. PICK j : JobMoves(e, i, j)
    BY <1>9, JobStepMoves
  <2>2. JobBecomes(e, i, j) /\ call[e].jobs[i].stage # "done"
    BY <2>1 DEF JobMoves
  <2>3. e # c
    BY <2>2 DEF AtStage
  <2> QED BY <2>2, <2>3 DEF JobBecomes
<1>10. CASE UNCHANGED vars
  BY <1>10, SMTT(40) DEF vars
<1> QED BY <1>4, <1>5, <1>6, <1>7, <1>8, <1>9, <1>10 DEF Next, CallStep

\* Right does not lapse, and what a page holds by right an amendment leaves right.
LEMMA BacksStay ==
  ASSUME Types, Control, [Next]_vars, NEW p, NEW x, Backs(p, x)
  PROVE  Backs(p, x)'
<1>1. CASE p \in DOMAIN Held /\ x.text \in Held[p]
  BY <1>1, SMTT(40) DEF Backs
<1>2. CASE \E c \in Call :
          /\ \A i \in DOMAIN call[c].jobs : AtStage(c, i, "done")
          /\ \E i \in FiledJobs(c) :
                /\ call[c].jobs[i].text = x.text /\ call[c].jobs[i].is.backed
                /\ RequestedMode = "auto" /\ Worst(c) < EscalateCriticality
                /\ x.status # "superseded" =>
                      (x.status = "user-stated" <=> call[c].jobs[i].is.said)
  <2>1. PICK c \in Call :
          /\ \A i \in DOMAIN call[c].jobs : AtStage(c, i, "done")
          /\ \E i \in FiledJobs(c) :
                /\ call[c].jobs[i].text = x.text /\ call[c].jobs[i].is.backed
                /\ RequestedMode = "auto" /\ Worst(c) < EscalateCriticality
                /\ x.status # "superseded" =>
                      (x.status = "user-stated" <=> call[c].jobs[i].is.said)
    BY <1>2
  <2>2. DOMAIN call[c].jobs # {}
    BY <2>1 DEF FiledJobs
  <2>3. SameJobs(c)
    BY <2>1, <2>2, BatchStays
  <2>4. FiledJobs(c)' = FiledJobs(c)
    BY <2>3 DEF FiledJobs
  <2>5. Worst(c)' = Worst(c)
    BY <2>3, <2>4 DEF Worst
  <2> QED BY <2>1, <2>3, <2>4, <2>5 DEF Backs, AtStage
<1> QED BY <1>1, <1>2 DEF Backs

LEMMA AmendedStays ==
  ASSUME NEW p, NEW S \in SUBSET ClaimRec, NEW x \in S, NEW stage, \A y \in S : Backs(p, y)
  PROVE  \A y \in Amended(S, x, stage) : Backs(p, y)
<1>1. /\ [x EXCEPT !.confirmed = TRUE].text = x.text /\ [x EXCEPT !.confirmed = TRUE].status = x.status
      /\ [x EXCEPT !.status = "superseded"].text = x.text
      /\ [x EXCEPT !.status = "superseded"].status = "superseded"
  BY DEF ClaimRec
<1>2. Backs(p, x)
  OBVIOUS
<1>3. \A y : y.text = x.text /\ y.status \in {x.status, "superseded"} => Backs(p, y)
  BY <1>2 DEF Backs
<1> QED BY <1>1, <1>3 DEF Amended

LEMMA SameMode ==
  ASSUME NEW c, SameJobs(c)
  PROVE  FiledJobs(c)' = FiledJobs(c) /\ Worst(c)' = Worst(c) /\ Mode(c)' = Mode(c)
<1>1. FiledJobs(c)' = FiledJobs(c)
  BY DEF FiledJobs
<1>2. Worst(c)' = Worst(c)
  BY <1>1 DEF Worst
<1> QED BY <1>1, <1>2 DEF Mode

\* Only a batch that nobody has to see is written without asking.
LEMMA AutomaticIsHarmless ==
  ASSUME Types, NEW c \in Call, Mode(c) \notin {"guided", "draft"}
  PROVE  RequestedMode = "auto" /\ Worst(c) < EscalateCriticality
<1>1. Worst(c) \in Nat /\ EscalateCriticality \in Nat
  BY WorstIsANumber, ThresholdTypes DEF Types
<1>2. RequestedMode \in Modes
  BY InputsAreGiven DEF Modes
<1>3. ~(Worst(c) >= EscalateCriticality)
  BY <1>1, <1>2, CriticalIsNotAutomatic DEF Mode
<1>4. RequestedMode = "auto"
  BY <1>1, <1>2, <1>3 DEF Mode, Modes, resolveWriterMode
<1> QED BY <1>1, <1>3, <1>4

\* What the writer puts on a page p is there by right.
LEMMA WrittenIsRight ==
  ASSUME Types, Control, Rightful, NEW c \in Call, call[c].pc = "ask", Mode(c) # "draft",
         NEW p \in Page, call[c].group # NewPage => p = call[c].group
  PROVE  \A x \in PageClaims(c) : Backs(p, x)
<1>1. /\ \A b \in call[c].base : CopyBacked(b) /\ b[1] = call[c].group
      /\ Mode(c) \notin {"guided", "draft"}
  BY DEF Rightful, WorkRight
<1>2. \A b \in call[c].base : b[1] = p
  <2>1. call[c].base \subseteq Copy
    BY DEF Types, CallRec
  <2>2. \A b \in call[c].base : b[1] \in Page
    BY <2>1 DEF Copy
  <2> QED BY <1>1, <2>2, InputsAreGiven
<1>3. \A b \in call[c].base : \A x \in b[2] : Backs(p, x)
  BY <1>1, <1>2 DEF CopyBacked
<1>4. \A i \in DOMAIN call[c].jobs : AtStage(c, i, "done") /\ call[c].jobs[i].is \in Outcomes
  BY DEF Control, JobControl, PointControl, AtStage
<1>5. RequestedMode = "auto" /\ Worst(c) < EscalateCriticality
  BY <1>1, AutomaticIsHarmless
<1>6. ASSUME NEW i \in GroupJobs(c)
      PROVE  Backs(p, Claim(call[c].jobs[i].text, IF call[c].jobs[i].is.said THEN "user-stated" ELSE "verified"))
  <2>1. i \in FiledJobs(c) /\ i \in DOMAIN call[c].jobs /\ call[c].jobs[i].is.action \in Filed
    BY DEF GroupJobs, FiledJobs
  <2>2. call[c].jobs[i].is.action \in Accepted
    BY <2>1 DEF Accepted
  <2>3. call[c].jobs[i].is.backed
    BY <1>4, <2>1, <2>2, OutcomeTypes
  <2> DEFINE x == Claim(call[c].jobs[i].text, IF call[c].jobs[i].is.said THEN "user-stated" ELSE "verified")
  <2>4. /\ x.text = call[c].jobs[i].text
        /\ x.status = "user-stated" <=> call[c].jobs[i].is.said
    BY DEF Claim
  <2> HIDE DEF x
  <2>5. Backs(p, x)
    BY <1>4, <1>5, <2>1, <2>3, <2>4 DEF Backs
  <2> QED BY <2>5 DEF x
<1>7. \A x \in Records(c) : Backs(p, x)
  BY <1>6, Zenon DEF Records
<1>8. \A x \in PageClaims(c) : x \in Records(c) \/ \E b \in call[c].base : x \in b[2]
  BY Zenon DEF PageClaims
<1> QED BY <1>3, <1>7, <1>8

LEMMA RightfulStep ==
  ASSUME Types, Control, Rightful, [Next]_vars
  PROVE  Rightful'
<1>1. \A b : CopyBacked(b) => \A x \in b[2] : Backs(b[1], x)'
  BY BacksStay DEF CopyBacked
<1>2. \A b : CopyBacked(b) => CopyBacked(b)'
  BY <1>1 DEF CopyBacked
<1>3. \A p \in DOMAIN pages : \A x \in pages[p] : Backs(p, x) /\ Backs(p, x)'
  BY BacksStay DEF Rightful, PagesRight
<1>4. \A b \in {<<p, pages[p]>> : p \in DOMAIN pages} : CopyBacked(b)'
  <2> SUFFICES ASSUME NEW b \in {<<p, pages[p]>> : p \in DOMAIN pages} PROVE CopyBacked(b)'
    OBVIOUS
  <2>1. b[1] \in DOMAIN pages /\ b[2] = pages[b[1]]
    OBVIOUS
  <2>2. \A x \in b[2] : Backs(b[1], x)'
    BY <1>3, <2>1
  <2> QED BY <2>2 DEF CopyBacked
<1>5. UNCHANGED pages => PagesRight'
  BY <1>3 DEF PagesRight
<1>6. ASSUME NEW p, NEW S, pages' = With(pages, p, S), \A x \in S : Backs(p, x) PROVE PagesRight'
  <2>1. \A x \in S : Backs(p, x)'
    BY <1>6, BacksStay
  <2>2. DOMAIN pages' = DOMAIN pages \cup {p} /\ pages'[p] = S
        /\ \A q \in DOMAIN pages : q # p => pages'[q] = pages[q]
    BY <1>6 DEF With
  <2> QED BY <1>3, <2>1, <2>2 DEF PagesRight
\* The calls that are not at work; one that keeps what it has read.
<1>7. ASSUME NEW e \in Call, SameJobs(e), SameWork(e),
             call'[e].pc \in {"group", "ask"} => Mode(e) # "guided",
             call'[e].pc = "ask" => call[e].pc = "ask"
      PROVE  WorkRight(e)'
  <2>1. WorkRight(e) /\ Mode(e)' = Mode(e)
    BY <1>7, SameMode DEF Rightful
  <2> QED BY <1>2, <1>7, <2>1 DEF WorkRight
<1>8. \A e \in Call : call'[e] = call[e] => WorkRight(e)'
  BY <1>7 DEF Rightful, WorkRight
<1>9. ASSUME NEW c \in Call, Others(c), WorkRight(c)' PROVE \A e \in Call : WorkRight(e)'
  BY <1>8, <1>9 DEF Others
<1>10. ASSUME NEW c \in Call, NEW pc, Walks(c, pc), pc \in {"group", "ask"} => pc = "group" /\ Mode(c) # "guided"
       PROVE  \A e \in Call : WorkRight(e)'
  <2>1. WorkRight(c)'
    BY <1>7, <1>10 DEF Walks
  <2> QED BY <1>9, <1>10, <2>1 DEF Walks
<1> USE DEF store
<1>11. ASSUME NEW c \in Call, CheckDuplicate(c) \/ StoreRaw(c) \/ IndexRaw(c) \/ RaiseRecurring(c)
              \/ ListWritten(c) \/ FlagWritten(c) \/ FailCall(c)
       PROVE  Rightful'
  <2>1. \E pc : Goto(c, pc) /\ pc \notin {"group", "ask"}
    BY <1>11 DEF CheckDuplicate, StoreRaw, IndexRaw, RaiseRecurring, ListWritten, FlagWritten, FailCall
  <2>2. UNCHANGED pages
    BY <1>11 DEF CheckDuplicate, StoreRaw, IndexRaw, RaiseRecurring, ListWritten, FlagWritten, FailCall
  <2> QED BY <1>5, <1>10, <2>1, <2>2, GotoWalks DEF Rightful
<1>12. ASSUME NEW c \in Call, BeginCapture(c) \/ Extract(c) PROVE Rightful'
  <2>1. PICK items \in Seq(Text) : Collect(c, items)
    BY <1>12, InputsAreGiven, EmptySeq DEF BeginCapture, Extract
  <2>2. /\ Others(c) /\ call'[c].pc = "jobs" /\ SameWork(c)
        /\ \A i \in DOMAIN call'[c].jobs : call'[c].jobs[i].base = {}
    BY <2>1, CollectDoes
  <2>3. WorkRight(c)'
    BY <1>2, <2>2 DEF WorkRight, Rightful
  <2>4. UNCHANGED pages
    BY <1>12 DEF BeginCapture, Extract
  <2> QED BY <1>5, <1>9, <2>2, <2>3, <2>4 DEF Rightful
<1>13. ASSUME NEW c \in Call, ChooseName(c) \/ ReadLog(c) \/ NotePromoted(c) PROVE Rightful'
  <2>1. Others(c) /\ SameJobs(c) /\ SameWork(c) /\ call'[c].pc \in {"store", "name", "raise"}
    BY <1>13, ChooseNameDoes, ReadLogDoes, NotePromotedDoes
  <2>2. UNCHANGED pages
    BY <1>13 DEF ChooseName, ReadLog, NotePromoted
  <2>3. WorkRight(c)'
    BY <1>7, <2>1
  <2> QED BY <1>5, <1>9, <2>1, <2>2, <2>3 DEF Rightful
<1>14. ASSUME NEW c \in Call, StartWriting(c) PROVE Rightful'
  <2>1. Walks(c, IF Plan(c) = {} THEN "end" ELSE "group")
    BY <1>14, StartWritingDoes
  <2>2. Plan(c) # {} => Mode(c) # "guided"
    BY DEF Plan
  <2>3. UNCHANGED pages
    BY <1>14 DEF StartWriting
  <2> QED BY <1>5, <1>10, <2>1, <2>2, <2>3 DEF Rightful
<1>15. ASSUME NEW c \in Call, ReadTarget(c) PROVE Rightful'
  <2>1. /\ Others(c) /\ call'[c].pc = "ask" /\ SameJobs(c)
        /\ call'[c].base \subseteq {<<p, pages[p]>> : p \in DOMAIN pages \cap {call'[c].group}}
    BY <1>15, ReadTargetDoes
  <2>2. \A b \in call'[c].base : b \in {<<p, pages[p]>> : p \in DOMAIN pages} /\ b[1] = call'[c].group
    BY <2>1
  <2>3. Mode(c)' # "guided"
    BY <1>15, <2>1, SameMode DEF ReadTarget, Rightful, WorkRight
  <2>4. WorkRight(c)'
    BY <1>2, <1>4, <2>1, <2>2, <2>3 DEF WorkRight, Rightful
  <2>5. UNCHANGED pages
    BY <1>15 DEF ReadTarget
  <2> QED BY <1>5, <1>9, <2>1, <2>4, <2>5 DEF Rightful
<1>16. ASSUME NEW c \in Call, WriteGroup(c) PROVE Rightful'
  <2>1. /\ Others(c) /\ call'[c].pc = "group" /\ call'[c].base = {} /\ SameJobs(c)
        /\ \/ UNCHANGED pages
           \/ \E p \in Page : /\ call[c].group # NewPage => p = call[c].group
                              /\ Mode(c) # "draft" /\ pages' = With(pages, p, PageClaims(c))
    BY <1>16, WriteGroupDoes
  <2>2. call[c].pc = "ask"
    BY <1>16 DEF WriteGroup
  <2>3. PagesRight'
    BY <1>5, <1>6, <2>1, <2>2, WrittenIsRight
  <2>4. Mode(c)' # "guided"
    BY <2>1, <2>2, SameMode DEF Rightful, WorkRight
  <2>5. WorkRight(c)'
    BY <1>2, <2>1, <2>4 DEF WorkRight, Rightful
  <2> QED BY <1>9, <2>1, <2>3, <2>5 DEF Rightful
<1>17. ASSUME NEW c \in Call, NEW i \in DOMAIN call[c].jobs, FailJob(c, i) PROVE Rightful'
  <2>1. UNCHANGED pages
    BY <1>17 DEF FailJob
  <2>2. \A k \in DOMAIN call[c].jobs : call'[c].jobs[k].base = call[c].jobs[k].base
    BY <1>17, FailJobDoes
  <2>3. WorkRight(c)'
    BY <1>2, <1>17, <2>2, FailJobDoes DEF WorkRight, Rightful
  <2> QED BY <1>5, <1>9, <1>17, <2>1, <2>3, FailJobDoes DEF Rightful
<1>18. ASSUME NEW c \in Call, NEW i \in DOMAIN call[c].jobs, JobStep(c, i) PROVE Rightful'
  <2>1. PICK j : JobMoves(c, i, j)
    BY <1>18, JobStepMoves
  <2>2. /\ JobBecomes(c, i, j) /\ call[c].jobs[i].stage # "done"
        /\ j.base \subseteq {<<p, pages[p]>> : p \in DOMAIN pages}
    BY <2>1 DEF JobMoves
  <2>3. call[c].pc \in {"jobs", "failed"}
    BY <2>2 DEF Control, PointControl, AtStage
  <2>4. call'[c].pc = call[c].pc /\ SameWork(c)
    <3> DEFINE js == call'[c].jobs
    <3>1. call'[c] = [call[c] EXCEPT !.jobs = js] /\ call[c] \in CallRec
      BY <2>2 DEF JobBecomes, Types
    <3> HIDE DEF js
    <3> QED BY <3>1 DEF CallRec
  <2>5. \A k \in DOMAIN call'[c].jobs : \A b \in call'[c].jobs[k].base : CopyBacked(b)'
    <3> SUFFICES ASSUME NEW k \in DOMAIN call'[c].jobs, NEW b \in call'[c].jobs[k].base
                 PROVE  CopyBacked(b)'
      OBVIOUS
    <3>1. k \in DOMAIN call[c].jobs /\ call'[c].jobs[k] = IF k = i THEN j ELSE call[c].jobs[k]
      BY <2>2 DEF JobBecomes
    <3>2. k # i => CopyBacked(b)
      BY <3>1 DEF Rightful, WorkRight
    <3>3. k = i => b \in {<<p, pages[p]>> : p \in DOMAIN pages}
      BY <2>2, <3>1
    <3> QED BY <1>2, <1>4, <3>2, <3>3
  <2>6. WorkRight(c)'
    BY <1>2, <2>3, <2>4, <2>5 DEF WorkRight, Rightful
  <2>7. PagesRight'
    <3>1. CASE WriteAmended(c, i)
      <4>0. PICK stage \in {"reinforce", "supersede"} :
               \E b \in call[c].jobs[i].base : \E x \in Live(b[2], call[c].jobs[i].text) :
                  pages' = With(pages, b[1], Amended(b[2], x, stage))
        BY <3>1 DEF WriteAmended
      <4>1. PICK b \in call[c].jobs[i].base : \E x \in Live(b[2], call[c].jobs[i].text) :
                pages' = With(pages, b[1], Amended(b[2], x, stage))
        BY <4>0
      <4>2. PICK x \in Live(b[2], call[c].jobs[i].text) : pages' = With(pages, b[1], Amended(b[2], x, stage))
        BY <4>1
      <4>3. b[2] \in SUBSET ClaimRec /\ x \in b[2]
        BY JobTypes DEF Types, JobRec, Copy, Live
      <4>4. \A y \in b[2] : Backs(b[1], y)
        BY DEF Rightful, WorkRight, CopyBacked
      <4>5. \A y \in Amended(b[2], x, stage) : Backs(b[1], y)
        BY <4>3, <4>4, AmendedStays
      <4> QED BY <1>6, <4>2, <4>5
    <3>2. CASE ~WriteAmended(c, i)
      <4>1. UNCHANGED pages
        BY <1>18, <3>2, ZenonT(60) DEF JobStep, Judge, QueueClaim, ReadToAmend, LogClaim
      <4> QED BY <1>5, <4>1, SMTT(40)
    <3> QED BY <3>1, <3>2
  <2> QED BY <1>9, <2>2, <2>6, <2>7 DEF JobBecomes, Others, Rightful
<1>19. CASE UNCHANGED vars
  BY <1>5, <1>8, <1>19 DEF vars, Rightful
<1> QED BY <1>11, <1>12, <1>13, <1>14, <1>15, <1>16, <1>17, <1>18, <1>19 DEF Next, CallStep

\* What job steps leave alone.
LEMMA JobMovesKeep ==
  ASSUME Types, NEW c \in Call, NEW i, NEW j, JobBecomes(c, i, j)
  PROVE  /\ Others(c) /\ call'[c].pc = call[c].pc
         /\ SameName(c) /\ SameDue(c) /\ SameWork(c) /\ SameResult(c)
<1> DEFINE js == call'[c].jobs
<1>1. call'[c] = [call[c] EXCEPT !.jobs = js] /\ call[c] \in CallRec
  BY DEF JobBecomes, Types
<1>2. Others(c)
  BY DEF JobBecomes, Others
<1> HIDE DEF js
<1> QED BY <1>1, <1>2 DEF CallRec

LEMMA AskedStep ==
  ASSUME Types, Control, Asked, [Next]_vars
  PROVE  Asked'
<1>1. queue \subseteq queue'
  BY StepGrows DEF Grows
<1>2. \A kind, t : Queued(kind, t) => QueuedThen(kind, t)
  BY <1>1 DEF Queued, QueuedThen
<1>3. \A kind, t : QueuedThen(kind, t) => Queued(kind, t)'
  BY DEF Queued, QueuedThen
<1>4. ASSUME NEW e \in Call, SameJobs(e) PROVE JobAsked(e)'
  <2> SUFFICES ASSUME NEW i \in DOMAIN call[e].jobs
               PROVE  LET j == call[e].jobs[i]
                      IN  /\ j.is.action = "review" /\ j.stage \notin {"judge", "review", "failed"}
                                => QueuedThen("claim_review", j.text)
                          /\ j.is.relation = "contradicts" /\ j.stage \notin {"judge", "review", "dispute", "failed"}
                                => QueuedThen("dispute", j.text)
    BY <1>4 DEF JobAsked, Queued, QueuedThen
  <2>1. JobAsked(e)
    BY DEF Asked
  <2> QED BY <1>2, <2>1 DEF JobAsked
<1>5. ASSUME NEW e \in Call, SameResult(e), call'[e].pc = call[e].pc PROVE FlagAsked(e)'
  BY <1>1, <1>5 DEF FlagAsked, Asked
<1>6. \A e \in Call : call'[e] = call[e] => JobAsked(e)' /\ FlagAsked(e)'
  BY <1>4, <1>5
<1>7. ASSUME NEW c \in Call, Others(c), JobAsked(c)', FlagAsked(c)' PROVE Asked'
  BY <1>6, <1>7 DEF Others, Asked
<1>8. ASSUME NEW c \in Call, Others(c), SameJobs(c), FlagAsked(c)' PROVE Asked'
  BY <1>4, <1>7, <1>8
\* A call that has nothing flagged goes on without.
<1>9. ASSUME NEW c \in Call, SameResult(c), call[c].pc \notin {"group", "ask", "flag", "end", "failed"}
      PROVE  FlagAsked(c)'
  BY <1>9 DEF FlagAsked, Asked
<1>10. ASSUME NEW c \in Call, CheckDuplicate(c) \/ StoreRaw(c) \/ IndexRaw(c) \/ RaiseRecurring(c)
       PROVE  Asked'
  <2>1. call[c].pc \in {"ready", "store", "index", "raise"} /\ \E pc : Goto(c, pc)
    BY <1>10 DEF CheckDuplicate, MayStart, StoreRaw, IndexRaw, RaiseRecurring
  <2>2. \E pc : Walks(c, pc)
    BY <2>1, GotoWalks
  <2> QED BY <1>8, <1>9, <2>1, <2>2 DEF Walks
<1>11. ASSUME NEW c \in Call, BeginCapture(c) \/ Extract(c) PROVE Asked'
  <2>1. PICK items \in Seq(Text) : Collect(c, items)
    BY <1>11, InputsAreGiven, EmptySeq DEF BeginCapture, Extract
  <2>2. call[c].pc \in {"ready", "extract"}
    BY <1>11 DEF BeginCapture, Extract, MayStart
  <2>3. Others(c) /\ SameResult(c) /\ \A i \in DOMAIN call'[c].jobs : call'[c].jobs[i].stage = "judge"
    BY <2>1, CollectDoes
  <2>4. JobAsked(c)'
    BY <2>3 DEF JobAsked
  <2> QED BY <1>7, <1>9, <2>2, <2>3, <2>4
<1>12. ASSUME NEW c \in Call, ChooseName(c) \/ ReadLog(c) \/ NotePromoted(c) PROVE Asked'
  <2>1. Others(c) /\ SameJobs(c) /\ SameResult(c)
    BY <1>12, ChooseNameDoes, ReadLogDoes, NotePromotedDoes
  <2>2. call[c].pc \in {"name", "jobs", "note"}
    BY <1>12 DEF ChooseName, ReadLog, NotePromoted, BatchDone
  <2> QED BY <1>8, <1>9, <2>1, <2>2
<1>13. ASSUME NEW c \in Call, StartWriting(c) PROVE Asked'
  <2>1. \E pc : Walks(c, pc)
    BY <1>13, StartWritingDoes
  <2>2. call[c].pc \in {"jobs", "write"}
    BY <1>13 DEF StartWriting, BatchDone
  <2> QED BY <1>8, <1>9, <2>1, <2>2 DEF Walks
<1>14. ASSUME NEW c \in Call, ReadTarget(c) \/ WriteGroup(c) PROVE Asked'
  <2>1. Others(c) /\ SameJobs(c) /\ call'[c].pc \in {"ask", "group"}
    BY <1>14, ReadTargetDoes, WriteGroupDoes
  <2>2. FlagAsked(c)'
    BY <2>1 DEF FlagAsked
  <2> QED BY <1>8, <2>1, <2>2
<1>15. ASSUME NEW c \in Call, ListWritten(c) PROVE Asked'
  <2>1. Walks(c, IF call[c].flagged = {} THEN "end" ELSE "flag")
    BY <1>15, GotoWalks DEF ListWritten
  <2>2. FlagAsked(c)'
    BY <2>1 DEF FlagAsked, Walks
  <2> QED BY <1>8, <2>1, <2>2 DEF Walks
<1>16. ASSUME NEW c \in Call, FlagWritten(c) PROVE Asked'
  <2>1. Walks(c, "end") /\ \A p \in call[c].flagged : Enqueued("claim_review", "invented", p) \in queue'
    BY <1>16, GotoWalks DEF FlagWritten
  <2>2. FlagAsked(c)'
    BY <2>1 DEF FlagAsked, Walks, Enqueued
  <2> QED BY <1>8, <2>1, <2>2 DEF Walks
<1>17. ASSUME NEW c \in Call, FailCall(c) PROVE Asked'
  <2>1. Walks(c, "failed")
    BY <1>17, GotoWalks DEF FailCall
  <2>2. FlagAsked(c)'
    BY <2>1 DEF FlagAsked, Walks
  <2> QED BY <1>8, <2>1, <2>2 DEF Walks
<1>18. ASSUME NEW c \in Call, NEW i \in DOMAIN call[c].jobs, FailJob(c, i) PROVE Asked'
  <2>1. FlagAsked(c)'
    BY <1>18, FailJobDoes DEF FlagAsked
  <2>2. ASSUME NEW k \in DOMAIN call'[c].jobs, k # i
        PROVE  /\ k \in DOMAIN call[c].jobs /\ call'[c].jobs[k] = call[c].jobs[k]
               /\ LET j == call[c].jobs[k]
                  IN  /\ j.is.action = "review" /\ j.stage \notin {"judge", "review", "failed"}
                            => QueuedThen("claim_review", j.text)
                      /\ j.is.relation = "contradicts" /\ j.stage \notin {"judge", "review", "dispute", "failed"}
                            => QueuedThen("dispute", j.text)
    <3>1. k \in DOMAIN call[c].jobs /\ call'[c].jobs[k] = call[c].jobs[k]
      BY <1>18, <2>2, FailJobDoes
    <3> QED BY <1>2, <3>1 DEF Asked, JobAsked
  <2>3. i \in DOMAIN call'[c].jobs => call'[c].jobs[i].stage = "failed"
    BY <1>18, FailJobDoes
  <2>4. JobAsked(c)'
    BY <2>2, <2>3 DEF JobAsked, Queued, QueuedThen
  <2> QED BY <1>7, <1>18, <2>1, <2>4, FailJobDoes
<1>19. ASSUME NEW c \in Call, NEW i \in DOMAIN call[c].jobs, JobStep(c, i) PROVE Asked'
  <2>1. PICK j : JobMoves(c, i, j)
    BY <1>19, JobStepMoves
  <2>2. JobBecomes(c, i, j)
    BY <2>1 DEF JobMoves
  <2>3. FlagAsked(c)' /\ Others(c)
    BY <1>5, <2>2, JobMovesKeep
  <2> DEFINE Fine(x) ==
        /\ x.is.action = "review" /\ x.stage \notin {"judge", "review", "failed"}
              => QueuedThen("claim_review", x.text)
        /\ x.is.relation = "contradicts" /\ x.stage \notin {"judge", "review", "dispute", "failed"}
              => QueuedThen("dispute", x.text)
  <2>4. \A k \in DOMAIN call[c].jobs : Fine(call[c].jobs[k])
    BY <1>2 DEF Asked, JobAsked
  <2>5. Fine(j)
    BY <2>1, <2>4 DEF JobMoves
  <2>6. \A k \in DOMAIN call'[c].jobs : Fine(call'[c].jobs[k])
    <3> HIDE DEF Fine
    <3> QED BY <2>2, <2>4, <2>5 DEF JobBecomes
  <2>7. JobAsked(c)'
    BY <2>6 DEF JobAsked, Queued, QueuedThen
  <2> QED BY <1>7, <2>3, <2>7
<1>20. CASE UNCHANGED vars
  BY <1>6, <1>20 DEF vars, Asked
<1> QED BY <1>10, <1>11, <1>12, <1>13, <1>14, <1>15, <1>16, <1>17, <1>18, <1>19, <1>20 DEF Next, CallStep

LEMMA PromotedIsNoAction == "promoted" \notin Action
BY DEF Action, Accepted, Filed, Rejected

LEMMA NotedStep ==
  ASSUME Types, Control, Noted, [Next]_vars
  PROVE  Noted'
<1>1. queue \subseteq queue'
  BY StepGrows DEF Grows
<1>2. \A kind, t : Queued(kind, t) => QueuedThen(kind, t)
  BY <1>1 DEF Queued, QueuedThen
<1> DEFINE LogNoted == \A k \in DOMAIN log' : log'[k].action = "promoted" => QueuedThen("claim_review", log'[k].text)
           CallNoted(e) == call'[e].pc = "note" => QueuedThen("claim_review", Head(call'[e].due))
<1>3. ASSUME LogNoted, \A e \in Call : CallNoted(e) PROVE Noted'
  BY <1>3 DEF Noted, Queued, QueuedThen
<1>4. UNCHANGED log => LogNoted
  BY <1>2 DEF Noted
<1>5. \A e \in Call : call'[e] = call[e] => CallNoted(e)
  BY <1>2 DEF Noted
<1>6. ASSUME NEW c \in Call, Others(c), CallNoted(c), LogNoted PROVE Noted'
  BY <1>3, <1>5, <1>6 DEF Others
<1>7. ASSUME NEW c \in Call, Others(c), call'[c].pc # "note", UNCHANGED log PROVE Noted'
  BY <1>4, <1>6, <1>7
<1> HIDE DEF CallNoted, LogNoted
<1> USE DEF store
<1>8. ASSUME NEW c \in Call, CheckDuplicate(c) \/ StoreRaw(c) \/ IndexRaw(c)
              \/ ListWritten(c) \/ FlagWritten(c) \/ FailCall(c)
      PROVE  Noted'
  <2>1. \E pc : Goto(c, pc) /\ pc # "note"
    BY <1>8 DEF CheckDuplicate, StoreRaw, IndexRaw, ListWritten, FlagWritten, FailCall
  <2>2. UNCHANGED log
    BY <1>8 DEF CheckDuplicate, StoreRaw, IndexRaw, ListWritten, FlagWritten, FailCall
  <2> QED BY <1>7, <2>1, <2>2, GotoWalks DEF Walks
<1>9. ASSUME NEW c \in Call, BeginCapture(c) \/ Extract(c) PROVE Noted'
  <2>1. \E items \in Seq(Text) : Collect(c, items)
    BY <1>9, InputsAreGiven, EmptySeq DEF BeginCapture, Extract
  <2>2. UNCHANGED log
    BY <1>9 DEF BeginCapture, Extract
  <2>3. Others(c) /\ call'[c].pc = "jobs"
    BY <2>1, CollectDoes
  <2> QED BY <1>7, <2>2, <2>3
<1>10. ASSUME NEW c \in Call, ChooseName(c) \/ ReadLog(c) PROVE Noted'
  <2>1. Others(c) /\ call'[c].pc \in {"store", "name", "raise"}
    BY <1>10, ChooseNameDoes, ReadLogDoes
  <2>2. UNCHANGED log
    BY <1>10 DEF ChooseName, ReadLog
  <2> QED BY <1>7, <2>1, <2>2
<1>11. ASSUME NEW c \in Call, RaiseRecurring(c) PROVE Noted'
  <2>1. Walks(c, "note") /\ UNCHANGED log
    BY <1>11, GotoWalks DEF RaiseRecurring
  <2> DEFINE x == Enqueued("claim_review", Head(call[c].due), NewPage)
  <2>2. x \in queue' /\ x.kind = "claim_review" /\ x.text = Head(call[c].due)
    BY <1>11 DEF RaiseRecurring, Enqueued
  <2> HIDE DEF x
  <2>3. QueuedThen("claim_review", Head(call[c].due))
    BY <2>2 DEF QueuedThen
  <2>4. CallNoted(c)
    BY <2>1, <2>3 DEF CallNoted, Walks
  <2> QED BY <1>4, <1>6, <2>1, <2>4 DEF Walks
<1>12. ASSUME NEW c \in Call, NotePromoted(c) PROVE Noted'
  <2>1. call[c].pc = "note"
    BY <1>12 DEF NotePromoted
  <2>2. call[c].due # <<>> /\ call[c].due \in Seq(Text)
    BY <2>1 DEF Control, PointControl, Types, CallRec
  <2>3. Head(call[c].due) \in Text /\ QueuedThen("claim_review", Head(call[c].due))
    BY <1>2, <2>1, <2>2, HeadTailProperties DEF Noted
  <2>4. /\ DOMAIN log = 1..Len(log) /\ Len(log) \in Nat /\ DOMAIN log' = 1..(Len(log) + 1)
        /\ log'[Len(log) + 1] = [text |-> Head(call[c].due), action |-> "promoted"]
        /\ \A k \in DOMAIN log : log'[k] = log[k]
    BY <1>12, <2>3, LogGrows DEF NotePromoted
  <2>5. LogNoted
    <3> SUFFICES ASSUME NEW k \in 1..(Len(log) + 1), log'[k].action = "promoted"
                 PROVE  QueuedThen("claim_review", log'[k].text)
      BY <2>4 DEF LogNoted
    <3>1. CASE k \in DOMAIN log
      BY <1>2, <2>4, <3>1 DEF Noted
    <3>2. CASE k \notin DOMAIN log
      <4>1. k = Len(log) + 1
        BY <2>4, <3>2
      <4> QED BY <2>3, <2>4, <4>1
    <3> QED BY <3>1, <3>2
  <2>6. Others(c) /\ CallNoted(c)
    BY <1>12, NotePromotedDoes DEF CallNoted
  <2> QED BY <1>6, <2>5, <2>6
<1>13. ASSUME NEW c \in Call, StartWriting(c) PROVE Noted'
  <2>1. UNCHANGED log
    BY <1>13 DEF StartWriting
  <2> QED BY <1>7, <1>13, <2>1, StartWritingDoes DEF Walks
<1>14. ASSUME NEW c \in Call, ReadTarget(c) \/ WriteGroup(c) PROVE Noted'
  <2>1. UNCHANGED log
    BY <1>14 DEF ReadTarget, WriteGroup
  <2>2. Others(c) /\ call'[c].pc # "note"
    BY <1>14, ReadTargetDoes, WriteGroupDoes
  <2> QED BY <1>7, <2>1, <2>2, SMTT(40)
<1>15. ASSUME NEW c \in Call, NEW i \in DOMAIN call[c].jobs, FailJob(c, i) PROVE Noted'
  <2>1. UNCHANGED log
    BY <1>15 DEF FailJob
  <2>2. Others(c) /\ call'[c].pc # "note"
    BY <1>15, FailJobDoes
  <2> QED BY <1>7, <2>1, <2>2
<1>16. ASSUME NEW c \in Call, NEW i \in DOMAIN call[c].jobs, JobStep(c, i) PROVE Noted'
  <2>1. PICK j : JobMoves(c, i, j)
    BY <1>16, JobStepMoves
  <2>2. Others(c) /\ call'[c].pc = call[c].pc /\ SameDue(c)
    BY <2>1, JobMovesKeep DEF JobMoves
  <2>3. CallNoted(c)
    BY <1>2, <2>2 DEF CallNoted, Noted
  <2>4. LogNoted
    <3>1. CASE LogClaim(c, i)
      <4>1. call[c].jobs[i] \in JobRec /\ call[c].jobs[i].is \in Outcomes
        BY <3>1, JobTypes DEF LogClaim, Control, JobControl, AtStage, Types
      <4> DEFINE act == call[c].jobs[i].is.action
                 txt == call[c].jobs[i].text
      <4>2. act \in Action /\ act # "promoted" /\ txt \in Text
        BY <4>1, OutcomeTypes, PromotedIsNoAction DEF JobRec
      <4>3. log' = Append(log, Entry(txt, act))
        BY <3>1 DEF LogClaim
      <4> HIDE DEF act, txt
      <4>4. /\ DOMAIN log = 1..Len(log) /\ Len(log) \in Nat /\ DOMAIN log' = 1..(Len(log) + 1)
            /\ log'[Len(log) + 1] = [text |-> txt, action |-> act]
            /\ \A k \in DOMAIN log : log'[k] = log[k]
        BY <4>2, <4>3, LogGrows
      <4>5. ASSUME NEW k \in DOMAIN log', log'[k].action = "promoted" PROVE k \in DOMAIN log
        BY <4>2, <4>4, <4>5
      <4> QED BY <1>2, <4>4, <4>5 DEF LogNoted, Noted
    <3>2. CASE ~LogClaim(c, i)
      <4>1. UNCHANGED log
        BY <1>16, <3>2, ZenonT(60) DEF JobStep, Judge, QueueClaim, ReadToAmend, WriteAmended
      <4> QED BY <1>4, <4>1, SMTT(40)
    <3> QED BY <3>1, <3>2
  <2> QED BY <1>6, <2>2, <2>3, <2>4
<1>17. CASE UNCHANGED vars
  BY <1>3, <1>4, <1>5, <1>17 DEF vars
<1> QED BY <1>8, <1>9, <1>10, <1>11, <1>12, <1>13, <1>14, <1>15, <1>16, <1>17 DEF Next, CallStep

\* An unsettled group is among those that a look at the log finds.
LEMMA UnsettledRecurs ==
  ASSUME Types, NEW t \in Text, Unsettled(t)
  PROVE  \E r \in Recurring : r \in Alike[t]
<1>1. Group(t) \in {h \in {Group(u) : u \in Text} : Cardinality(h) >= Recurs /\ ~Settled(h)}
  BY DEF Unsettled, Settled
<1>2. Latest(Group(t)) \in Recurring
  BY <1>1 DEF Recurring
<1>3. Latest(Group(t)) \in Alike[t]
  BY GroupIsNotEmpty, LatestIsOfGroup DEF Unsettled, Group
<1> QED BY <1>2, <1>3

LEMMA MindedStep ==
  ASSUME Types, Control, Promoting, [Next]_vars, faults' = 0, NEW t \in Text, Unsettled(t)'
  PROVE  Minded(t)'
<1> DEFINE Then(e) ==
        \/ call'[e].pc = "jobs"
        \/ call'[e].pc \in {"raise", "note"} /\ \E k \in DOMAIN call'[e].due : call'[e].due[k] \in Alike[t]
<1>1. faults = 0
  BY StepGrows DEF Grows
<1>2. \A e \in Capture : Then(e) => Minded(t)'
  BY DEF Minded, Minds
<1>3. Unsettled(t) => \E e \in Capture : Minds(e, t)
  BY <1>1 DEF Promoting, Minded
<1>4. \A e \in Call : call'[e] = call[e] /\ Minds(e, t) => Then(e)
  BY DEF Minds
<1>5. UNCHANGED log => Unsettled(t)
  BY DEF Unsettled, Group
<1>6. \A e \in Capture : e \in Call /\ e \notin Ingest
  BY InputsAreGiven DEF Call
<1> HIDE DEF Then
<1>7. ASSUME NEW c \in Call, Others(c), Unsettled(t), c \in Capture /\ Minds(c, t) => Then(c) PROVE Minded(t)'
  BY <1>2, <1>3, <1>4, <1>6, <1>7 DEF Others
<1> USE DEF store
<1>8. ASSUME NEW c \in Call, Others(c), UNCHANGED log, call[c].pc \notin {"jobs", "raise", "note"} \/ c \notin Capture
      PROVE  Minded(t)'
  BY <1>5, <1>7, <1>8 DEF Minds
<1>9. ASSUME NEW c \in Call, CheckDuplicate(c) \/ StoreRaw(c) \/ IndexRaw(c) \/ ListWritten(c) \/ FlagWritten(c)
      PROVE  Minded(t)'
  <2>1. (\E pc : Goto(c, pc)) /\ call[c].pc \notin {"jobs", "raise", "note"}
    BY <1>9 DEF CheckDuplicate, MayStart, StoreRaw, IndexRaw, ListWritten, FlagWritten
  <2>2. UNCHANGED log
    BY <1>9 DEF CheckDuplicate, StoreRaw, IndexRaw, ListWritten, FlagWritten
  <2> QED BY <1>8, <2>1, <2>2, GotoWalks DEF Walks
<1>10. ASSUME NEW c \in Call, BeginCapture(c) \/ Extract(c) PROVE Minded(t)'
  <2>1. \E items \in Seq(Text) : Collect(c, items)
    BY <1>10, InputsAreGiven, EmptySeq DEF BeginCapture, Extract
  <2>2. UNCHANGED log /\ call[c].pc \notin {"jobs", "raise", "note"}
    BY <1>10 DEF BeginCapture, Extract, MayStart
  <2> QED BY <1>8, <2>1, <2>2, CollectDoes
<1>11. ASSUME NEW c \in Call, ChooseName(c) \/ ReadTarget(c) \/ WriteGroup(c) PROVE Minded(t)'
  <2>1. UNCHANGED log /\ call[c].pc \notin {"jobs", "raise", "note"}
    BY <1>11 DEF ChooseName, ReadTarget, WriteGroup
  <2> QED BY <1>8, <1>11, <2>1, ChooseNameDoes, ReadTargetDoes, WriteGroupDoes
<1>12. ASSUME NEW c \in Call, StartWriting(c) PROVE Minded(t)'
  <2>1. UNCHANGED log /\ (call[c].pc \notin {"jobs", "raise", "note"} \/ c \notin Capture)
    BY <1>6, <1>12 DEF StartWriting
  <2> QED BY <1>8, <1>12, <2>1, StartWritingDoes DEF Walks
<1>13. ASSUME NEW c \in Call, ReadLog(c) PROVE Minded(t)'
  <2>1. UNCHANGED log
    BY <1>13 DEF ReadLog
  <2>2. /\ Others(c) /\ call'[c].pc = IF call'[c].due = <<>> THEN "name" ELSE "raise"
        /\ \A r \in Recurring : \E k \in DOMAIN call'[c].due : call'[c].due[k] = r
    BY <1>13, ReadLogDoes
  <2>3. \E k \in DOMAIN call'[c].due : call'[c].due[k] \in Alike[t]
    BY <1>5, <2>1, <2>2, UnsettledRecurs
  <2>4. call'[c].due # <<>>
    BY <2>3
  <2>5. Then(c)
    BY <2>2, <2>3, <2>4 DEF Then
  <2> QED BY <1>5, <1>7, <2>1, <2>2, <2>5
<1>14. ASSUME NEW c \in Call, RaiseRecurring(c) PROVE Minded(t)'
  <2>1. Walks(c, "note") /\ UNCHANGED log /\ call[c].pc = "raise"
    BY <1>14, GotoWalks DEF RaiseRecurring
  <2>2. Minds(c, t) => Then(c)
    BY <2>1 DEF Minds, Then, Walks
  <2> QED BY <1>5, <1>7, <2>1, <2>2 DEF Walks
<1>15. ASSUME NEW c \in Call, NotePromoted(c) PROVE Minded(t)'
  <2>1. call[c].pc = "note"
    BY <1>15 DEF NotePromoted
  <2>2. call[c].due # <<>> /\ call[c].due \in Seq(Text)
    BY <2>1 DEF Control, PointControl, Types, CallRec
  <2> DEFINE head == Head(call[c].due)
             last == Len(log) + 1
  <2>3. head \in Text
    BY <2>2, HeadTailProperties
  <2>4. /\ DOMAIN log = 1..Len(log) /\ Len(log) \in Nat /\ DOMAIN log' = 1..last
        /\ log'[last] = [text |-> head, action |-> "promoted"]
        /\ \A k \in DOMAIN log : log'[k] = log[k]
    BY <1>15, <2>3, LogGrows DEF NotePromoted
  <2> HIDE DEF head
  <2>5. last \in DOMAIN log' /\ last \notin DOMAIN log /\ \A k \in DOMAIN log' : k \in DOMAIN log \/ k = last
    BY <2>4
  <2> HIDE DEF last
  <2>6. head \notin Alike[t]
    <3> SUFFICES ASSUME head \in Alike[t] PROVE FALSE
      OBVIOUS
    <3>1. last \in Group(t)'
      BY <2>4, <2>5 DEF Group
    <3> QED BY <2>4, <3>1 DEF Unsettled
  <2>7. Group(t)' = Group(t)
    BY <2>4, <2>5, <2>6 DEF Group
  <2>8. \A k \in Group(t) : log'[k] = log[k]
    BY <2>4 DEF Group
  <2>9. Unsettled(t)
    BY <2>7, <2>8 DEF Unsettled
  <2>10. Minds(c, t) => Then(c)
    <3> SUFFICES ASSUME NEW k \in DOMAIN call[c].due, call[c].due[k] \in Alike[t] PROVE Then(c)
      BY <2>1 DEF Minds
    <3> DEFINE due == call[c].due
    <3>1. due \in Seq(Text) /\ due # <<>> /\ Len(due) \in Nat /\ k \in 1..Len(due) /\ head = due[1]
      BY <2>2, LenProperties, HeadTailProperties DEF head
    <3>2. k # 1
      BY <2>6, <3>1
    <3>3. k - 1 \in 1..(Len(due) - 1) /\ Len(due) # 1
      BY <3>1, <3>2
    <3> HIDE DEF due
    <3>4. Len(Tail(due)) = Len(due) - 1 /\ Tail(due) \in Seq(Text) /\ \A j \in 1..Len(Tail(due)) : Tail(due)[j] = due[j + 1]
      BY <3>1, HeadTailProperties
    <3>5. k - 1 \in DOMAIN Tail(due)
      BY <3>3, <3>4, LenProperties
    <3>6. Tail(due)[k - 1] = due[k]
      BY <3>1, <3>3, <3>4
    <3>7. call'[c].pc = "raise" /\ call'[c].due = Tail(due)
      BY <1>15, <3>3, NotePromotedDoes DEF due
    <3>8. due[k] \in Alike[t]
      BY DEF due
    <3> QED BY <3>5, <3>6, <3>7, <3>8 DEF Then
  <2> QED BY <1>7, <1>15, <2>9, <2>10, NotePromotedDoes
<1>16. ASSUME NEW c \in Call, NEW i \in DOMAIN call[c].jobs, JobStep(c, i) PROVE Minded(t)'
  <2>1. PICK j : JobMoves(c, i, j)
    BY <1>16, JobStepMoves
  <2>2. Others(c) /\ call'[c].pc = call[c].pc /\ SameDue(c)
    BY <2>1, JobMovesKeep DEF JobMoves
  <2>3. CASE LogClaim(c, i)
    <3>1. AtStage(c, i, "log")
      BY <2>3 DEF LogClaim
    <3>2. c \in Capture /\ call[c].pc \in {"jobs", "failed"}
      BY <3>1 DEF Control, JobControl, PointControl, AtStage
    <3>3. call[c].pc = "jobs"
      BY <1>1, <3>2 DEF Control, PointControl
    <3> QED BY <1>2, <2>2, <3>2, <3>3 DEF Then
  <2>4. CASE ~LogClaim(c, i)
    <3>1. UNCHANGED log
      BY <1>16, <2>4, ZenonT(60) DEF JobStep, Judge, QueueClaim, ReadToAmend, WriteAmended
    <3>2. Minds(c, t) => Then(c)
      BY <2>2 DEF Minds, Then
    <3> QED BY <1>5, <1>7, <2>2, <3>1, <3>2, SMTT(40)
  <2> QED BY <2>3, <2>4
<1>17. ASSUME NEW c \in Call, FailCall(c) \/ \E i \in DOMAIN call[c].jobs : FailJob(c, i) PROVE Minded(t)'
  <2>1. faults' = faults + 1
    BY <1>17 DEF FailCall, FailJob
  <2> QED BY <1>1, <2>1
<1>18. CASE UNCHANGED vars
  BY <1>2, <1>3, <1>4, <1>5, <1>6, <1>18 DEF vars
<1> QED BY <1>9, <1>10, <1>11, <1>12, <1>13, <1>14, <1>15, <1>16, <1>17, <1>18 DEF Next, CallStep

LEMMA PromotingStep ==
  ASSUME Types, Control, Promoting, [Next]_vars
  PROVE  Promoting'
<1>1. Noted'
  BY NotedStep DEF Promoting
<1>2. ASSUME faults' = 0, NEW t \in Text, Unsettled(t)' PROVE Minded(t)'
  BY <1>2, MindedStep
<1> QED BY <1>1, <1>2 DEF Promoting

\* A call keeps its file's name; an ingest that is past the raw index stays past it.
Onwards(e) ==
    /\ Named(e) => Named(e)' /\ SameName(e)
    /\ e \in Ingest /\ call[e].pc \in Past \cup {"failed"} => call'[e].pc \in Past \cup {"failed"}

LEMMA StepsGoOn ==
  ASSUME Types, Control, [Next]_vars
  PROVE  \A e \in Call : Onwards(e)
<1>1. \A e \in Call : call'[e] = call[e] => Onwards(e)
  BY DEF Onwards, Named
<1>2. ASSUME NEW c \in Call, Others(c), Onwards(c) PROVE \A e \in Call : Onwards(e)
  BY <1>1, <1>2 DEF Others
<1>3. \A c \in Ingest : c \notin Capture /\ c \in Call
  BY InputsAreGiven DEF Call
<1>4. \A c \in Call : call[c].pc \in {"raise", "note"} => c \in Capture /\ c \notin Ingest
  BY <1>3 DEF Control, PointControl
<1> DEFINE Goal == \A e \in Call : Onwards(e)
<1> HIDE DEF Goal
<1>5. ASSUME NEW c \in Call, Others(c), Onwards(c) PROVE Goal
  BY <1>2, <1>5 DEF Goal
<1> USE DEF Named, Past
<1>6. ASSUME NEW c \in Call, CheckDuplicate(c) PROVE Goal
  <2>1. call[c].pc = "ready" /\ \E pc : Walks(c, pc)
    BY <1>6, GotoWalks DEF CheckDuplicate, MayStart
  <2> QED BY <1>5, <2>1 DEF Onwards, Walks
<1>7. ASSUME NEW c \in Call, BeginCapture(c) \/ Extract(c) PROVE Goal
  <2>1. \E items \in Seq(Text) : Collect(c, items)
    BY <1>7, InputsAreGiven, EmptySeq DEF BeginCapture, Extract
  <2>2. call[c].pc \in {"ready", "extract"} /\ (call[c].pc = "extract" => c \notin Capture)
    <3>1. call[c].pc \in {"ready", "extract"}
      BY <1>7 DEF BeginCapture, Extract, MayStart
    <3>2. call[c].pc = "extract" => c \in Ingest
      BY DEF Control, PointControl
    <3> QED BY <1>3, <3>1, <3>2
  <2>3. Others(c) /\ call'[c].pc = "jobs" /\ SameName(c)
    BY <2>1, CollectDoes
  <2> QED BY <1>5, <2>2, <2>3 DEF Onwards
<1>8. ASSUME NEW c \in Call, ChooseName(c) PROVE Goal
  <2>1. call[c].pc = "name"
    BY <1>8 DEF ChooseName
  <2> QED BY <1>5, <1>8, <2>1, ChooseNameDoes DEF Onwards
<1>9. ASSUME NEW c \in Call, StoreRaw(c) PROVE Goal
  <2>1. call[c].pc = "store" /\ Walks(c, IF c \in Ingest THEN "index" ELSE "write")
    BY <1>9, GotoWalks DEF StoreRaw
  <2> QED BY <1>3, <1>5, <2>1 DEF Onwards, Walks
<1>10. ASSUME NEW c \in Call, IndexRaw(c) PROVE Goal
  <2>1. call[c].pc = "index" /\ Walks(c, "extract")
    BY <1>10, GotoWalks DEF IndexRaw
  <2> QED BY <1>5, <2>1 DEF Onwards, Walks
<1>11. ASSUME NEW c \in Call, ReadLog(c) PROVE Goal
  <2>1. call[c].pc = "jobs" /\ c \in Capture /\ c \notin Ingest
    BY <1>3, <1>11 DEF ReadLog, BatchDone
  <2> QED BY <1>5, <1>11, <2>1, ReadLogDoes DEF Onwards
<1>12. ASSUME NEW c \in Call, RaiseRecurring(c) PROVE Goal
  <2>1. call[c].pc = "raise" /\ c \in Capture /\ c \notin Ingest /\ Walks(c, "note")
    BY <1>4, <1>12, GotoWalks DEF RaiseRecurring
  <2> QED BY <1>5, <2>1 DEF Onwards, Walks
<1>13. ASSUME NEW c \in Call, NotePromoted(c) PROVE Goal
  <2>1. call[c].pc = "note" /\ c \in Capture /\ c \notin Ingest
    BY <1>4, <1>13 DEF NotePromoted
  <2> QED BY <1>5, <1>13, <2>1, NotePromotedDoes DEF Onwards
<1>14. ASSUME NEW c \in Call, StartWriting(c) PROVE Goal
  <2>1. Walks(c, IF Plan(c) = {} THEN "end" ELSE "group")
    BY <1>14, StartWritingDoes
  <2> QED BY <1>5, <2>1 DEF Onwards, Walks
<1>15. ASSUME NEW c \in Call, ReadTarget(c) \/ WriteGroup(c) PROVE Goal
  <2>1. Others(c) /\ call'[c].pc \in {"ask", "group"} /\ SameName(c)
    BY <1>15, ReadTargetDoes, WriteGroupDoes
  <2> QED BY <1>5, <2>1 DEF Onwards
<1>16. ASSUME NEW c \in Call, ListWritten(c) \/ FlagWritten(c) \/ FailCall(c) PROVE Goal
  <2>1. Walks(c, "end") \/ Walks(c, "flag") \/ Walks(c, "failed")
    BY <1>16, GotoWalks DEF ListWritten, FlagWritten, FailCall
  <2> QED BY <1>5, <2>1 DEF Onwards, Walks
<1>17. ASSUME NEW c \in Call, NEW i \in DOMAIN call[c].jobs, FailJob(c, i) PROVE Goal
  BY <1>5, <1>17, FailJobDoes DEF Onwards
<1>18. ASSUME NEW c \in Call, NEW i \in DOMAIN call[c].jobs, JobStep(c, i) PROVE Goal
  <2>1. \E j : JobBecomes(c, i, j)
    BY <1>18, JobStepMoves DEF JobMoves
  <2>2. Others(c) /\ call'[c].pc = call[c].pc /\ SameName(c)
    BY <2>1, JobMovesKeep
  <2> QED BY <1>5, <2>2 DEF Onwards
<1>19. CASE UNCHANGED vars
  BY <1>1, <1>19 DEF vars, Goal
<1> QED BY <1>6, <1>7, <1>8, <1>9, <1>10, <1>11, <1>12, <1>13, <1>14, <1>15, <1>16, <1>17, <1>18, <1>19
       DEF Next, CallStep, Goal

\* Only StoreRaw writes a file under raw/, only IndexRaw its index.
LEMMA RawChanges ==
  ASSUME [Next]_vars
  PROVE  /\ UNCHANGED raw \/ \E c \in Call : StoreRaw(c)
         /\ UNCHANGED rawIndex \/ \E c \in Call : IndexRaw(c)
<1> USE DEF store
<1>1. ASSUME NEW c \in Call, CheckDuplicate(c) \/ BeginCapture(c) \/ FailCall(c) PROVE UNCHANGED <<raw, rawIndex>>
  BY <1>1 DEF CheckDuplicate, BeginCapture, FailCall
<1>2. ASSUME NEW c \in Call, NEW i, FailJob(c, i) PROVE UNCHANGED <<raw, rawIndex>>
  BY <1>2, SMTT(40) DEF FailJob
<1>3. ASSUME NEW c \in Call, NEW i, JobStep(c, i) PROVE UNCHANGED <<raw, rawIndex>>
  BY <1>3, ZenonT(60) DEF JobStep, Judge, QueueClaim, ReadToAmend, WriteAmended, LogClaim
<1>4. ASSUME NEW c \in Call, StoreRaw(c) PROVE UNCHANGED rawIndex
  BY <1>4 DEF StoreRaw
<1>5. ASSUME NEW c \in Call, IndexRaw(c) PROVE UNCHANGED raw
  BY <1>5 DEF IndexRaw
<1>6. ASSUME NEW c \in Call, ChooseName(c) \/ Extract(c) \/ ReadLog(c) \/ RaiseRecurring(c) \/ NotePromoted(c)
      PROVE UNCHANGED <<raw, rawIndex>>
  BY <1>6, SMTT(40) DEF ChooseName, Extract, ReadLog, RaiseRecurring, NotePromoted
<1>7. ASSUME NEW c \in Call, StartWriting(c) \/ ReadTarget(c) \/ WriteGroup(c) \/ ListWritten(c) \/ FlagWritten(c)
      PROVE UNCHANGED <<raw, rawIndex>>
  BY <1>7 DEF StartWriting, ReadTarget, WriteGroup, ListWritten, FlagWritten
<1>8. CASE UNCHANGED vars
  BY <1>8 DEF vars
<1> QED BY <1>1, <1>2, <1>3, <1>4, <1>5, <1>6, <1>7, <1>8 DEF Next, CallStep

\* A file is only overwritten by a call that took the same name.
LEMMA HoldsStay ==
  ASSUME Types, Control, [Next]_vars, NEW n, NEW d, Holds(n, d),
         NEW e \in Call, Named(e), call[e].name = n, Input[e] = d
  PROVE  Holds(n, d)'
<1>1. \A c \in Call : Named(c) => Named(c)' /\ SameName(c)
  BY StepsGoOn DEF Onwards
<1>2. ASSUME NEW c \in Call, NEW f \in Call, Named(c), Named(f), call[c].name = n, call[f].name = n,
             Input[c] # Input[f]
      PROVE  Holds(n, d)'
  <2>1. Named(c)' /\ Named(f)' /\ call'[c].name = n /\ call'[f].name = n
    BY <1>1, <1>2
  <2> QED BY <1>2, <2>1 DEF Holds
<1>3. CASE n \in DOMAIN raw /\ raw[n] = d
  <2>1. CASE UNCHANGED raw
    BY <1>3, <2>1 DEF Holds
  <2>2. ASSUME NEW c \in Call, StoreRaw(c) PROVE Holds(n, d)'
    <3>1. raw' = With(raw, call[c].name, Input[c]) /\ Named(c)
      BY <2>2 DEF StoreRaw, Named
    <3>2. n \in DOMAIN raw' /\ raw'[n] = IF n = call[c].name THEN Input[c] ELSE d
      BY <1>3, <3>1 DEF With
    <3>3. CASE n = call[c].name /\ Input[c] # d
      BY <1>2, <3>1, <3>3
    <3>4. CASE n # call[c].name \/ Input[c] = d
      BY <3>2, <3>4 DEF Holds
    <3> QED BY <3>3, <3>4
  <2> QED BY <2>1, <2>2, RawChanges
<1> QED BY <1>2, <1>3 DEF Holds

LEMMA IngestKeptStep ==
  ASSUME Types, Control, Kept, [Next]_vars, NEW c \in Ingest
  PROVE  IngestKept(c)'
<1>0. c \in Call /\ c \notin Capture
  BY InputsAreGiven DEF Call
<1>1. DOMAIN rawIndex \subseteq DOMAIN rawIndex'
  <2>1. \A f \in Call : IndexRaw(f) => DOMAIN rawIndex \subseteq DOMAIN rawIndex'
    BY DEF IndexRaw, With
  <2> QED BY <2>1, RawChanges
<1>2. faults' = 0 => faults = 0
  BY StepGrows DEF Grows
<1>3. IngestKept(c)
  BY DEF Kept
<1>4. CASE call'[c] = call[c]
  <2>1. PICK m : m = call[c].name
    OBVIOUS
  <2>2. call[c].pc = "index" => Holds(m, Input[c])'
    BY <1>0, <1>3, <2>1, HoldsStay DEF IngestKept, Named
  <2>3. call'[c].pc = "index" => Holds(call[c].name, Input[c])'
    BY <1>4, <2>1, <2>2 DEF Holds
  <2> QED BY <1>1, <1>2, <1>3, <1>4, <2>3 DEF IngestKept
\* From a point past the raw index to another.
<1>5. ASSUME call[c].pc \in Past \ {"extract"}, call'[c].pc # "index", Len(call'[c].jobs) = Len(call[c].jobs)
      PROVE  IngestKept(c)'
  BY <1>1, <1>2, <1>3, <1>5 DEF IngestKept, Past
<1>6. ASSUME call'[c].pc \notin Past \cup {"duplicate", "index"} PROVE IngestKept(c)'
  BY <1>6 DEF IngestKept, Past
<1>7. ASSUME NEW f \in Call, Others(f), f = c => IngestKept(c)' PROVE IngestKept(c)'
  BY <1>0, <1>4, <1>7 DEF Others
<1> USE DEF Past
<1>8. ASSUME NEW f \in Call, CheckDuplicate(f) PROVE IngestKept(c)'
  <2>1. Walks(f, IF Input[f] \in DOMAIN rawIndex THEN "duplicate" ELSE "name")
    BY <1>8, GotoWalks DEF CheckDuplicate
  <2>2. CASE f = c
    BY <1>1, <1>6, <2>1, <2>2 DEF Walks, IngestKept
  <2> QED BY <1>7, <2>1, <2>2 DEF Walks
<1>9. ASSUME NEW f \in Call, BeginCapture(f) PROVE IngestKept(c)'
  <2>1. f # c
    BY <1>0, <1>9 DEF BeginCapture
  <2>2. \E items \in Seq(Text) : Collect(f, items)
    BY <1>9, InputsAreGiven DEF BeginCapture
  <2> QED BY <1>7, <2>1, <2>2, CollectDoes
<1>10. ASSUME NEW f \in Call, Extract(f) PROVE IngestKept(c)'
  <2>1. PICK items \in Seq(Text) : Collect(f, items) /\ (items = Items[Input[f]] \/ faults' = faults + 1)
    BY <1>10, InputsAreGiven, EmptySeq DEF Extract
  <2>2. Others(f) /\ call'[f].pc = "jobs" /\ Len(call'[f].jobs) = Len(items)
    BY <2>1, CollectDoes
  <2>3. faults' = 0 => items = Items[Input[f]]
    BY <2>1, StepGrows DEF Grows
  <2>4. call[f].pc = "extract"
    BY <1>10 DEF Extract
  <2>5. CASE f = c
    BY <1>1, <1>3, <2>2, <2>3, <2>4, <2>5 DEF IngestKept
  <2> QED BY <1>7, <2>2, <2>5
<1>11. ASSUME NEW f \in Call, ChooseName(f) PROVE IngestKept(c)'
  BY <1>6, <1>7, <1>11, ChooseNameDoes
<1>12. ASSUME NEW f \in Call, StoreRaw(f) PROVE IngestKept(c)'
  <2>1. Walks(f, IF f \in Ingest THEN "index" ELSE "write") /\ raw' = With(raw, call[f].name, Input[f])
    BY <1>12, GotoWalks DEF StoreRaw
  <2>2. CASE f = c
    <3>1. call[c].name \in DOMAIN raw' /\ raw'[call[c].name] = Input[c] /\ call'[c].pc = "index"
          /\ call'[c].name = call[c].name
      BY <2>1, <2>2 DEF With, Walks
    <3> QED BY <3>1 DEF IngestKept, Holds
  <2> QED BY <1>7, <2>1, <2>2 DEF Walks
<1>13. ASSUME NEW f \in Call, IndexRaw(f) PROVE IngestKept(c)'
  <2>1. Walks(f, "extract") /\ rawIndex' = With(rawIndex, Input[f], call[f].name)
    BY <1>13, GotoWalks DEF IndexRaw
  <2>2. CASE f = c
    <3>1. Input[c] \in DOMAIN rawIndex'
      BY <2>1, <2>2 DEF With
    <3> QED BY <2>1, <2>2, <3>1 DEF IngestKept, Walks
  <2> QED BY <1>7, <2>1, <2>2 DEF Walks
<1>14. ASSUME NEW f \in Call, ReadLog(f) \/ NotePromoted(f) PROVE IngestKept(c)'
  <2>1. Others(f) /\ call'[f].pc \in {"name", "raise"}
    BY <1>14, ReadLogDoes, NotePromotedDoes
  <2> QED BY <1>6, <1>7, <2>1
<1>15. ASSUME NEW f \in Call, RaiseRecurring(f) PROVE IngestKept(c)'
  <2>1. Walks(f, "note")
    BY <1>15, GotoWalks DEF RaiseRecurring
  <2> QED BY <1>6, <1>7, <2>1 DEF Walks
<1>16. ASSUME NEW f \in Call, StartWriting(f) PROVE IngestKept(c)'
  <2>1. Walks(f, IF Plan(f) = {} THEN "end" ELSE "group")
    BY <1>16, StartWritingDoes
  <2>2. f = c => call[f].pc = "jobs"
    BY <1>16 DEF StartWriting, BatchDone
  <2> QED BY <1>5, <1>7, <2>1, <2>2 DEF Walks
<1>17. ASSUME NEW f \in Call, ReadTarget(f) \/ WriteGroup(f) PROVE IngestKept(c)'
  <2>1. Others(f) /\ call'[f].pc \in {"ask", "group"} /\ SameJobs(f)
    BY <1>17, ReadTargetDoes, WriteGroupDoes, SMTT(40)
  <2>2. call[f].pc \in {"ask", "group"}
    BY <1>17 DEF ReadTarget, WriteGroup
  <2> QED BY <1>5, <1>7, <2>1, <2>2
<1>18. ASSUME NEW f \in Call, ListWritten(f) \/ FlagWritten(f) PROVE IngestKept(c)'
  <2>1. Walks(f, "end") \/ Walks(f, "flag")
    BY <1>18, GotoWalks DEF ListWritten, FlagWritten
  <2>2. call[f].pc \in {"group", "flag"}
    BY <1>18 DEF ListWritten, FlagWritten
  <2> QED BY <1>5, <1>7, <2>1, <2>2 DEF Walks
<1>19. ASSUME NEW f \in Call, FailCall(f) PROVE IngestKept(c)'
  <2>1. Walks(f, "failed")
    BY <1>19, GotoWalks DEF FailCall
  <2> QED BY <1>6, <1>7, <2>1 DEF Walks
<1>20. ASSUME NEW f \in Call, NEW i \in DOMAIN call[f].jobs, FailJob(f, i) PROVE IngestKept(c)'
  BY <1>6, <1>7, <1>20, FailJobDoes
<1>21. ASSUME NEW f \in Call, NEW i \in DOMAIN call[f].jobs, JobStep(f, i) PROVE IngestKept(c)'
  <2>1. PICK j : JobMoves(f, i, j)
    BY <1>21, JobStepMoves
  <2>2. JobBecomes(f, i, j) /\ call[f].jobs[i].stage # "done"
    BY <2>1 DEF JobMoves
  <2>3. Others(f) /\ call'[f].pc = call[f].pc /\ Len(call'[f].jobs) = Len(call[f].jobs)
    <3>1. Len(call'[f].jobs) = Len(call[f].jobs)
      BY <2>2 DEF JobBecomes
    <3> QED BY <2>2, <3>1, JobMovesKeep
  <2>4. call[f].pc \in {"jobs", "failed"}
    BY <2>2 DEF Control, PointControl, AtStage
  <2> QED BY <1>5, <1>6, <1>7, <2>3, <2>4
<1>22. CASE UNCHANGED vars
  BY <1>4, <1>22 DEF vars
<1> QED BY <1>8, <1>9, <1>10, <1>11, <1>12, <1>13, <1>14, <1>15, <1>16, <1>17, <1>18, <1>19, <1>20, <1>21, <1>22
       DEF Next, CallStep

LEMMA EntryKeptStep ==
  ASSUME Types, Control, Control', Kept, [Next]_vars, NEW d \in DOMAIN rawIndex'
  PROVE  EntryKept(d)'
<1>1. \A e \in Ingest : e \in Call /\ e \notin Capture
  BY InputsAreGiven DEF Call
<1>2. \A e \in Ingest : Onwards(e)
  BY <1>1, StepsGoOn
<1>3. faults' = 0 => faults = 0 /\ \A e \in Ingest : call'[e].pc # "failed"
  <2>1. \A e \in Call : call'[e].pc = "failed" => faults' > 0
    BY DEF Control, PointControl
  <2>2. faults' = 0 => faults = 0
    BY StepGrows DEF Grows
  <2> QED BY <1>1, <2>1, <2>2
\* An entry as it was before.
<1>4. ASSUME d \in DOMAIN rawIndex, rawIndex'[d] = rawIndex[d] PROVE EntryKept(d)'
  <2>1. EntryKept(d)
    BY <1>4 DEF Kept
  <2>2. PICK e \in Ingest : /\ Input[e] = d /\ Named(e) /\ call[e].name = rawIndex[d]
                            /\ call[e].pc \in Past \cup {"failed"}
    BY <2>1 DEF EntryKept
  <2>3. /\ Named(e)' /\ call'[e].name = rawIndex'[d] /\ call'[e].pc \in Past \cup {"failed"}
    BY <1>2, <1>4, <2>2 DEF Onwards
  <2> DEFINE n == rawIndex[d]
  <2>4. Holds(n, d)
    BY <2>1 DEF EntryKept
  <2>5. \A m : Holds(m, d) /\ call[e].name = m => Holds(m, d)'
    BY <1>1, <2>2, HoldsStay
  <2>6. Holds(rawIndex[d], d)'
    <3>1. PICK m : m = rawIndex[d]
      OBVIOUS
    <3>2. Holds(m, d)'
      BY <2>2, <2>4, <2>5, <3>1
    <3>3. rawIndex'[d] = m
      BY <1>4, <3>1
    <3> QED BY <3>2, <3>3 DEF Holds
  <2>7. faults' = 0 => \E f \in Ingest : Input[f] = d /\ call'[f].pc \in Past
    <3> SUFFICES ASSUME faults' = 0 PROVE \E f \in Ingest : Input[f] = d /\ call'[f].pc \in Past
      OBVIOUS
    <3>1. PICK f \in Ingest : Input[f] = d /\ call[f].pc \in Past
      BY <1>3, <2>1 DEF EntryKept
    <3>2. call'[f].pc \in Past \cup {"failed"}
      BY <1>2, <3>1 DEF Onwards
    <3> QED BY <1>3, <3>1, <3>2
  <2> QED BY <2>2, <2>3, <2>6, <2>7 DEF EntryKept
<1>5. CASE UNCHANGED rawIndex
  BY <1>4, <1>5
<1>6. ASSUME NEW c \in Call, IndexRaw(c) PROVE EntryKept(d)'
  <2>1. call[c].pc = "index" /\ rawIndex' = With(rawIndex, Input[c], call[c].name) /\ Walks(c, "extract")
        /\ UNCHANGED raw
    BY <1>6, GotoWalks DEF IndexRaw
  <2>2. c \in Ingest /\ c \notin Capture
    BY <1>1, <2>1 DEF Control, PointControl
  <2>3. CASE d # Input[c]
    <3>1. d \in DOMAIN rawIndex /\ rawIndex'[d] = rawIndex[d]
      BY <2>1, <2>3 DEF With
    <3> QED BY <1>4, <3>1
  <2>4. CASE d = Input[c]
    <3>1. rawIndex'[d] = call[c].name
      BY <2>1, <2>4 DEF With
    <3>2. Named(c)
      BY <2>1, <2>2 DEF Named
    <3>3. Holds(call[c].name, d)
      BY <2>1, <2>2, <2>4 DEF Kept, IngestKept
    <3>4. PICK m : m = call[c].name
      OBVIOUS
    <3>5. Holds(m, d)'
      BY <2>4, <3>2, <3>3, <3>4, HoldsStay
    <3>6. Holds(rawIndex[d], d)'
      BY <3>1, <3>4, <3>5 DEF Holds
    <3>7. call'[c].pc = "extract" /\ call'[c].name = rawIndex'[d] /\ Named(c)'
      BY <1>2, <2>1, <2>2, <3>1, <3>2 DEF Walks, Onwards
    <3> QED BY <2>2, <2>4, <3>6, <3>7 DEF EntryKept, Past
  <2> QED BY <2>3, <2>4
<1> QED BY <1>5, <1>6, RawChanges

LEMMA KeptStep ==
  ASSUME Types, Control, Control', Kept, [Next]_vars
  PROVE  Kept'
BY IngestKeptStep, EntryKeptStep DEF Kept

-----------------------------------------------------------------------------
(* The theorems about the calls.                                           *)

LEMMA InitInv == Init => InsightsInv
<1> SUFFICES ASSUME Init PROVE InsightsInv
  OBVIOUS
<1>1. Types /\ Control
  BY InitTypes
<1>2. \A c \in Call : call[c] = Unstarted
  BY DEF Init
<1>3. Rightful
  <2>1. PagesRight
    <3>1. pages = [p \in DOMAIN Held |-> {Claim(t, "verified") : t \in Held[p]}]
      BY DEF Init
    <3> QED BY <3>1 DEF PagesRight, Backs, Claim
  <2>2. \A c \in Call : WorkRight(c)
    BY <1>2 DEF WorkRight, Unstarted
  <2> QED BY <2>1, <2>2 DEF Rightful
<1>4. Asked
  BY <1>2 DEF Asked, JobAsked, FlagAsked, Unstarted
<1>5. Promoting
  <2>1. log = <<>>
    BY DEF Init
  <2>2. Noted
    BY <1>2, <2>1 DEF Noted, Unstarted
  <2>3. \A t \in Text : Group(t) = {}
    BY <2>1 DEF Group
  <2>4. \A t \in Text : ~Unsettled(t)
    BY <2>3, GroupIsNotEmpty DEF Unsettled
  <2> QED BY <2>2, <2>4 DEF Promoting
<1>6. Kept
  <2>1. DOMAIN rawIndex = {}
    BY DEF Init
  <2>2. \A c \in Ingest : call[c].pc = "ready"
    BY <1>2 DEF Unstarted, Call
  <2>3. \A c \in Ingest : IngestKept(c)
    BY <2>2 DEF IngestKept, Past
  <2> QED BY <2>1, <2>3 DEF Kept
<1> QED BY <1>1, <1>3, <1>4, <1>5, <1>6 DEF InsightsInv

LEMMA StepInv ==
  ASSUME InsightsInv, [Next]_vars
  PROVE  InsightsInv'
<1>1. Types' /\ Control'
  BY TypesStep, ControlStep DEF InsightsInv
<1> QED BY <1>1, RightfulStep, AskedStep, PromotingStep, KeptStep DEF InsightsInv

THEOREM InsightsAreKept == Spec => []InsightsInv
BY InitInv, StepInv, PTL DEF Spec

\* Whatever interleaves and whatever fails, the files hold what they should and every
\* call's batch is made of claims of its source with decisions about them.
THEOREM InsightsTypeCorrect == Spec => []TypeOK
<1>1. InsightsInv => TypeOK
  <2> SUFFICES ASSUME InsightsInv PROVE TypeOK
    OBVIOUS
  <2>1. Types
    BY DEF InsightsInv
  <2>2. \A p \in DOMAIN pages : \A x \in pages[p] :
          /\ x.text \in Text /\ x.confirmed \in BOOLEAN
          /\ x.status \in {"verified", "user-stated", "superseded"}
    BY <2>1 DEF Types, ClaimRec, Status
  <2>3. \A x \in queue : x.page \in Page \cup {NewPage}
    BY <2>1 DEF Types, Target
  <2>4. \A k \in DOMAIN log : log[k].text \in Text /\ log[k].action \in Action \cup {"promoted"}
    <3> DEFINE LogRec == [text : Text, action : Action \cup {"promoted"}]
    <3>1. log \in Seq(LogRec)
      BY <2>1 DEF Types
    <3> HIDE DEF LogRec
    <3>2. \A k \in DOMAIN log : log[k] \in LogRec
      BY <3>1, LenProperties, ElementOfSeq
    <3> QED BY <3>2 DEF LogRec
  <2>5. ASSUME NEW c \in Call, NEW i \in DOMAIN call[c].jobs
        PROVE  LET j == call[c].jobs[i]
               IN  [text |-> j.text, stage |-> j.stage, is |-> j.is, target |-> j.target] \in JobType
    <3>1. call[c].jobs[i] \in JobRec
      BY <2>1, JobTypes DEF Types
    <3>2. Stage \subseteq {Stages[k] : k \in DOMAIN Stages} \cup {"reinforcing", "superseding", "failed"}
      <4>1. /\ DOMAIN Stages = 1..7
            /\ Stages[1] = "judge" /\ Stages[2] = "review" /\ Stages[3] = "dispute"
            /\ Stages[4] = "reinforce" /\ Stages[5] = "supersede" /\ Stages[6] = "log"
            /\ Stages[7] = "done"
        BY DEF Stages
      <4>2. {Stages[1], Stages[2], Stages[3], Stages[4], Stages[5], Stages[6], Stages[7]}
               \subseteq {Stages[k] : k \in DOMAIN Stages}
        BY <4>1
      <4> QED BY <4>1, <4>2 DEF Stage
    <3> QED BY <3>1, <3>2 DEF JobRec, JobType, Target
  <2> QED BY <2>1, <2>2, <2>3, <2>4, <2>5 DEF TypeOK, Types
<1> QED BY <1>1, InsightsAreKept, PTL

\* Nothing is on a page that was not there at first, or was filed on evidence or on somebody's
\* word in a batch without a critical claim, and a word is never verified on its way to the
\* page or on it, whatever other calls read and write meanwhile.
THEOREM WrittenClaimsAreBacked == Spec => []PagesAreBacked
<1>1. Rightful /\ TypeOK => PagesAreBacked
  BY DEF Rightful, PagesRight, Backs, PagesAreBacked
<1>2. InsightsInv => Rightful
  BY DEF InsightsInv
<1> QED BY <1>1, <1>2, InsightsTypeCorrect, InsightsAreKept, PTL

\* A call ends with every open question in the review queue.
THEOREM QuestionsAreQueued == Spec => []OpenQuestionsAreQueued
<1>1. Asked /\ Control => OpenQuestionsAreQueued
  <2> SUFFICES ASSUME Asked, Control, NEW c \in Call, call[c].pc = "end" PROVE
          /\ \A i \in DOMAIN call[c].jobs :
                /\ call[c].jobs[i].is.action = "review" => Queued("claim_review", call[c].jobs[i].text)
                /\ call[c].jobs[i].is.relation = "contradicts" => Queued("dispute", call[c].jobs[i].text)
          /\ \A p \in call[c].flagged : Enqueued("claim_review", "invented", p) \in queue
    BY DEF OpenQuestionsAreQueued, Queued
  <2>1. \A i \in DOMAIN call[c].jobs : call[c].jobs[i].stage = "done"
    BY DEF Control, PointControl, AtStage
  <2>2. JobAsked(c) /\ FlagAsked(c)
    BY DEF Asked
  <2> QED BY <2>1, <2>2 DEF JobAsked, FlagAsked
<1>2. InsightsInv => Asked /\ Control
  BY DEF InsightsInv
<1> QED BY <1>1, <1>2, InsightsAreKept, PTL

\* A claim that keeps coming up is raised for review by whichever call looks last.
THEOREM RecurringIsPromoted == Spec => []RecurringIsRaised
<1>1. Promoting => RecurringIsRaised
  <2> SUFFICES ASSUME Promoting, faults = 0, \A c \in Call : call[c].pc \in Over \cup {"ready"},
                      NEW t \in Text, Cardinality(Group(t)) >= Recurs,
                      \A k \in Group(t) : log[k].action \notin Accepted
               PROVE  /\ \E k \in Group(t) : log[k].action = "promoted"
                      /\ \E x \in queue : x.kind = "claim_review" /\ x.text \in Alike[t]
    BY DEF RecurringIsRaised
  <2>1. \A c \in Capture : ~Minds(c, t)
    BY DEF Minds, Over, Call
  <2>2. ~Unsettled(t)
    BY <2>1 DEF Promoting, Minded
  <2>3. PICK k \in Group(t) : log[k].action = "promoted"
    BY <2>2 DEF Unsettled
  <2>4. k \in DOMAIN log /\ log[k].text \in Alike[t]
    BY DEF Group
  <2>5. Queued("claim_review", log[k].text)
    BY <2>3, <2>4 DEF Promoting, Noted
  <2> QED BY <2>3, <2>4, <2>5 DEF Queued
<1>2. InsightsInv => Promoting
  BY DEF InsightsInv
<1> QED BY <1>1, <1>2, InsightsAreKept, PTL

\* The duplicate test drops no claim, and the raw index leads to the source.
THEOREM IngestedIsKept == Spec => []NothingIngestedIsDropped
<1>1. Kept => NothingIngestedIsDropped
  <2> SUFFICES ASSUME Kept PROVE NothingIngestedIsDropped
    OBVIOUS
  <2>1. ASSUME NEW c \in Ingest, call[c].pc \in {"end", "duplicate"}
        PROVE  /\ Input[c] \in DOMAIN rawIndex
               /\ faults = 0 => \E e \in Ingest :
                     /\ Input[e] = Input[c]
                     /\ call[e].pc \in {"extract", "jobs", "write", "group", "ask", "flag", "end"}
                     /\ call[e].pc = "end" => Len(call[e].jobs) = Len(Items[Input[c]])
    <3>1. Input[c] \in DOMAIN rawIndex
      BY <2>1 DEF Kept, IngestKept, Past
    <3>2. ASSUME faults = 0
          PROVE \E e \in Ingest :
                   /\ Input[e] = Input[c]
                   /\ call[e].pc \in {"extract", "jobs", "write", "group", "ask", "flag", "end"}
                   /\ call[e].pc = "end" => Len(call[e].jobs) = Len(Items[Input[c]])
      <4>1. EntryKept(Input[c])
        BY <3>1 DEF Kept
      <4>2. PICK e \in Ingest : Input[e] = Input[c] /\ call[e].pc \in Past
        BY <3>2, <4>1 DEF EntryKept
      <4>3. call[e].pc = "end" => Len(call[e].jobs) = Len(Items[Input[e]])
        BY <3>2, <4>2 DEF Kept, IngestKept, Past
      <4> QED BY <4>2, <4>3 DEF Past
    <3> QED BY <3>1, <3>2
  <2>2. ASSUME NEW d \in DOMAIN rawIndex
        PROVE  \/ rawIndex[d] \in DOMAIN raw /\ raw[rawIndex[d]] = d
               \/ \E c, e \in Call : /\ c # e /\ call[c].name = call[e].name
                                     /\ call[c].name = rawIndex[d] /\ Input[c] # Input[e]
    <3>1. Holds(rawIndex[d], d)
      BY <2>2 DEF Kept, EntryKept
    <3> QED BY <3>1 DEF Holds
  <2> QED BY <2>1, <2>2 DEF NothingIngestedIsDropped
<1>2. InsightsInv => Kept
  BY DEF InsightsInv
<1> QED BY <1>1, <1>2, InsightsAreKept, PTL

-----------------------------------------------------------------------------
(* What a write may lose.                                                  *)

\* x is still there, and as much retired and confirmed as it was.
Survives(x, S) ==
    \E y \in S : /\ y.text = x.text
                 /\ x.status = "superseded" => y.status = "superseded"
                 /\ x.confirmed => y.confirmed

LEMMA AmendmentsLoseNothing ==
  ASSUME NEW S \in SUBSET ClaimRec, NEW x \in S, NEW stage, NEW z \in S
  PROVE  Survives(z, Amended(S, x, stage))
<1>1. CASE z # x
  <2>1. z \in Amended(S, x, stage)
    BY <1>1 DEF Amended
  <2> QED BY <2>1 DEF Survives
<1>2. CASE z = x /\ stage = "reinforce"
  <2> DEFINE y == [x EXCEPT !.confirmed = TRUE]
  <2>1. y \in Amended(S, x, stage)
    BY <1>2 DEF Amended
  <2>2. y.text = x.text /\ y.status = x.status /\ y.confirmed = TRUE
    BY DEF ClaimRec
  <2> HIDE DEF y
  <2> QED BY <1>2, <2>1, <2>2 DEF Survives
<1>3. CASE z = x /\ stage # "reinforce"
  <2> DEFINE y == [x EXCEPT !.status = "superseded"]
  <2>1. y \in Amended(S, x, stage)
    BY <1>3 DEF Amended
  <2>2. y.text = x.text /\ y.status = "superseded" /\ y.confirmed = x.confirmed
    BY DEF ClaimRec
  <2> HIDE DEF y
  <2> QED BY <1>3, <2>1, <2>2 DEF Survives
<1> QED BY <1>1, <1>2, <1>3

LEMMA LosesNot ==
  ASSUME NEW p, \A x \in pages[p] : Survives(x, pages'[p])
  PROVE  ~Loses(p)
<1> SUFFICES ASSUME NEW x \in pages[p],
                    \A y \in pages'[p] : \/ y.text # x.text
                                         \/ x.status = "superseded" /\ y.status # "superseded"
                                         \/ x.confirmed /\ ~y.confirmed
             PROVE  FALSE
  BY DEF Loses
<1>1. PICK y \in pages'[p] : /\ y.text = x.text
                             /\ x.status = "superseded" => y.status = "superseded"
                             /\ x.confirmed => y.confirmed
  BY DEF Survives
<1> QED BY <1>1, Zenon

\* The step c takes loses claims of p to what it had read of p, or did not read.
Stale(p, c) ==
    \/ StaleWrite(p, call[c].base, call'[c].base)
    \/ \E i \in DOMAIN call[c].jobs : StaleWrite(p, call[c].jobs[i].base, call'[c].jobs[i].base)
    \/ call[c].pc = "ask" /\ call'[c].pc = "group" /\ p \in call'[c].written
          /\ ~\E b \in call[c].base : b[1] = p

LEMMA WriterLosses ==
  ASSUME Types, NEW c \in Call, WriteGroup(c), NEW p \in DOMAIN pages, Loses(p)
  PROVE  Stale(p, c)
<1>1. ~UNCHANGED pages
  BY LosesNot DEF Survives
<1>2. PICK q \in Page : /\ pages' = With(pages, q, PageClaims(c))
                        /\ call'[c].written = call[c].written \cup {q}
  BY <1>1, WriteGroupDoes, SMTT(40)
<1>3. call'[c].pc = "group" /\ call'[c].base = {} /\ call[c].pc = "ask"
  BY WriteGroupDoes, ZenonT(60) DEF WriteGroup
<1>4. CASE p # q
  <2>1. pages'[p] = pages[p]
    BY <1>2, <1>4 DEF With
  <2> QED BY <2>1, LosesNot DEF Survives
<1>5. CASE p = q /\ \E b \in call[c].base : b[1] = p
  <2>1. PICK b \in call[c].base : b[1] = p
    BY <1>5
  <2>2. pages'[p] = PageClaims(c)
    BY <1>2, <1>5 DEF With
  <2>3. b[2] \subseteq PageClaims(c)
    BY <2>1, Zenon DEF PageClaims
  <2>4. b[2] # pages[p]
    BY <2>2, <2>3, LosesNot DEF Survives
  <2>5. StaleWrite(p, call[c].base, call'[c].base)
    BY <1>3, <2>1, <2>4 DEF StaleWrite
  <2> QED BY <2>5 DEF Stale
<1>6. CASE p = q /\ ~\E b \in call[c].base : b[1] = p
  BY <1>2, <1>3, <1>6 DEF Stale
<1> QED BY <1>4, <1>5, <1>6

LEMMA AmenderLosses ==
  ASSUME Types, NEW c \in Call, NEW i \in DOMAIN call[c].jobs, WriteAmended(c, i), NEW p \in DOMAIN pages, Loses(p)
  PROVE  Stale(p, c)
<1> DEFINE job == call[c].jobs[i]
<1>1. PICK stage \in {"reinforce", "supersede"} :
          /\ \E b \in job.base : \E x \in Live(b[2], job.text) :
                pages' = With(pages, b[1], Amended(b[2], x, stage))
          /\ Passes(c, i, stage, job)
  BY DEF WriteAmended
<1>2. PICK b \in job.base : \E x \in Live(b[2], job.text) :
          pages' = With(pages, b[1], Amended(b[2], x, stage))
  BY <1>1
<1>3. PICK x \in Live(b[2], job.text) : pages' = With(pages, b[1], Amended(b[2], x, stage))
  BY <1>2
<1>4. b[2] \in SUBSET ClaimRec /\ x \in b[2] /\ job \in JobRec
  BY JobTypes DEF Types, JobRec, Copy, Live
<1>5. call'[c].jobs[i].base = {}
  <2>1. PICK s : JobBecomes(c, i, [job EXCEPT !.stage = s, !.base = {}])
    BY <1>1, PassesAsItIs, ZenonT(60) DEF Leaving
  <2>2. [job EXCEPT !.stage = s, !.base = {}].base = {}
    BY <1>4 DEF JobRec
  <2> DEFINE j == [job EXCEPT !.stage = s, !.base = {}]
  <2> HIDE DEF j
  <2>3. JobBecomes(c, i, j) /\ j.base = {}
    BY <2>1, <2>2 DEF j
  <2> QED BY <2>3, SMTT(40) DEF JobBecomes
<1>6. CASE p # b[1]
  <2>1. pages'[p] = pages[p]
    BY <1>3, <1>6 DEF With
  <2> QED BY <2>1, LosesNot DEF Survives
<1>7. CASE p = b[1]
  <2>1. pages'[p] = Amended(b[2], x, stage)
    BY <1>3, <1>7 DEF With
  <2>2. b[2] # pages[p]
    <3> SUFFICES ASSUME b[2] = pages[p] PROVE FALSE
      OBVIOUS
    <3>1. \A z \in pages[p] : Survives(z, pages'[p])
      BY <1>4, <2>1, AmendmentsLoseNothing
    <3> QED BY <3>1, LosesNot
  <2>3. StaleWrite(p, job.base, call'[c].jobs[i].base)
    BY <1>5, <1>7, <2>2 DEF StaleWrite
  <2> QED BY <2>3 DEF Stale
<1> QED BY <1>6, <1>7

\* Only the writer and the amendments write pages.
LEMMA PagesChange ==
  ASSUME [Next]_vars
  PROVE  \/ UNCHANGED pages
         \/ \E c \in Call : WriteGroup(c) \/ \E i \in DOMAIN call[c].jobs : WriteAmended(c, i)
<1> USE DEF store
<1>1. ASSUME NEW c \in Call, CheckDuplicate(c) \/ BeginCapture(c) \/ FailCall(c) PROVE UNCHANGED pages
  BY <1>1 DEF CheckDuplicate, BeginCapture, FailCall
<1>2. ASSUME NEW c \in Call, NEW i, FailJob(c, i) PROVE UNCHANGED pages
  BY <1>2, SMTT(40) DEF FailJob
<1>3. ASSUME NEW c \in Call, NEW i, JobStep(c, i), ~WriteAmended(c, i) PROVE UNCHANGED pages
  BY <1>3, ZenonT(60) DEF JobStep, Judge, QueueClaim, ReadToAmend, LogClaim
<1>4. ASSUME NEW c \in Call, ChooseName(c) \/ StoreRaw(c) \/ IndexRaw(c) \/ Extract(c) \/ ReadLog(c)
      PROVE UNCHANGED pages
  BY <1>4, SMTT(40) DEF ChooseName, StoreRaw, IndexRaw, Extract, ReadLog
<1>5. ASSUME NEW c \in Call, RaiseRecurring(c) \/ NotePromoted(c) \/ StartWriting(c) \/ ReadTarget(c)
             \/ ListWritten(c) \/ FlagWritten(c)
      PROVE UNCHANGED pages
  BY <1>5 DEF RaiseRecurring, NotePromoted, StartWriting, ReadTarget, ListWritten, FlagWritten
<1>6. CASE UNCHANGED vars
  BY <1>6 DEF vars
<1> QED BY <1>1, <1>2, <1>3, <1>4, <1>5, <1>6 DEF Next, CallStep

\* A page loses a claim, a supersession or a confirmation only to a writer that had read
\* it before it changed, or that gave its name to a new page unread.
THEOREM OnlyStaleWritesLose == Spec => LossesAreStaleWrites
<1>1. ASSUME InsightsInv, [Next]_vars, NEW p \in DOMAIN pages, Loses(p)
      PROVE  \E c \in Call : Stale(p, c)
  <2>1. ~UNCHANGED pages
    BY <1>1, LosesNot DEF Survives
  <2>2. Types
    BY <1>1 DEF InsightsInv
  <2> QED BY <1>1, <2>1, <2>2, PagesChange, WriterLosses, AmenderLosses
<1>2. InsightsInv /\ [Next]_vars =>
        [\A p \in DOMAIN pages : Loses(p) =>
            \E c \in Call :
                \/ StaleWrite(p, call[c].base, call'[c].base)
                \/ \E i \in DOMAIN call[c].jobs : StaleWrite(p, call[c].jobs[i].base, call'[c].jobs[i].base)
                \/ call[c].pc = "ask" /\ call'[c].pc = "group" /\ p \in call'[c].written
                      /\ ~\E b \in call[c].base : b[1] = p]_vars
  BY <1>1 DEF Stale
<1> QED BY <1>2, InsightsAreKept, PTL DEF Spec, LossesAreStaleWrites

=============================================================================
