---------------------------- MODULE Adjudication ----------------------------
(***************************************************************************)
(* What the code decides about a claim from Jev's answers: whether it is   *)
(* filed, reinforces a known claim, goes to review or is turned down       *)
(* (decideClaim), which page takes it (chooseTarget), and how far the      *)
(* writer may go on its own (resolveWriterMode).  Scores, which the code   *)
(* has between 0 and 1, are hundredths here; the composite score, which    *)
(* only orders reports, is left out.                                       *)
(***************************************************************************)
EXTENDS Naturals, FiniteSets

CONSTANTS
    AutoAccept, MinSupport, MinDerivable, FramingImportance, MinImportance,
                            \* config.thresholds
    AutoAcceptUserStated, EscalateCriticality,      \* config.review
    MinFit, NewPageConfidence                       \* config.routing

Score == 0..100

ASSUME ThresholdsAreScores ==
    /\ {AutoAccept, MinSupport, MinDerivable, FramingImportance, EscalateCriticality,
        MinFit, NewPageConfidence} \subseteq Score
    /\ MinImportance \in 0..3
    /\ AutoAcceptUserStated \in BOOLEAN
    /\ MinSupport <= AutoAccept

\* Jev's answers about one claim, with the fallbacks of an answer that is missing:
\* zero for a noul or a score, "none" for a choice.
Verdict == [sensitive : Score, derivable : Score, grounded : Score, durable : Score,
            alreadyKnown : Score, importance : 0..3, importanceNorm : Score,
            criticalityNorm : Score, kind : {"framing", "other"},
            trustTier : {"user_stated", "verified_in_repo", "none"},
            relation : {"consistent", "extends", "contradicts", "supersedes", "none"}]

\* What a call may answer: without known claims to compare with, Jev is not asked
\* whether the claim is known or how it relates to them.
Askable(v, someKnown) == someKnown \/ (v.alreadyKnown = 0 /\ v.relation = "none")

-----------------------------------------------------------------------------

\* Architecture, invariant and decision claims that matter and are half grounded.
Framing(v) ==
    /\ v.kind = "framing"
    /\ v.importanceNorm >= FramingImportance
    /\ v.grounded >= 50

Reinforces(v) == v.relation \in {"extends", "consistent"}
WorthKeeping(v) == v.durable >= 50 /\ v.importance >= MinImportance

\* Grounded well enough to be taken without anyone's word.
DecideGrounded(v) ==
    IF Reinforces(v) THEN "reinforce"
    ELSE IF v.durable < 50 /\ v.importanceNorm < 50 THEN "review"
    ELSE "file"

\* Between minSupport and that, or important too little.
DecideSupported(v) ==
    IF AutoAcceptUserStated /\ v.trustTier = "user_stated" /\ WorthKeeping(v)
    THEN "file_user_stated"
    ELSE "review"

DecideUnsupported(v) ==
    IF ~WorthKeeping(v) THEN "reject_unsupported"
    ELSE CASE v.trustTier = "user_stated"      -> "file_user_stated"
           [] v.trustTier = "verified_in_repo" -> "file"
           [] OTHER                            -> "reject_unsupported"

decideClaim(v) ==
    IF v.sensitive >= 90 THEN "reject_sensitive"
    ELSE IF v.derivable >= MinDerivable THEN IF Framing(v) THEN "review" ELSE "reject_derivable"
    ELSE IF v.alreadyKnown >= 90 THEN "reject_duplicate"
    ELSE IF v.grounded >= AutoAccept /\ v.importance >= MinImportance THEN DecideGrounded(v)
    ELSE IF v.grounded >= MinSupport THEN DecideSupported(v)
    ELSE DecideUnsupported(v)

Filed == {"file", "file_user_stated"}
Accepted == Filed \cup {"reinforce"}
Rejected == {"reject_sensitive", "reject_derivable", "reject_duplicate", "reject_unsupported"}
Action == Accepted \cup Rejected \cup {"review"}

\* On what an accepted claim rests, said without the order of the tests.
Backed(v) ==
    /\ v.sensitive < 90 /\ v.derivable < MinDerivable /\ v.alreadyKnown < 90
    /\ v.importance >= MinImportance
    /\ v.grounded >= AutoAccept \/ (v.trustTier # "none" /\ v.durable >= 50)

-----------------------------------------------------------------------------
\* chooseTarget: each shard of the candidate pages names its best page and says
\* whether any fits; the winners of several shards meet in a final question.

NewPage == "add_new_page"

\* Mutant: a shard's nomination counts whatever its fit.
AllNominees(shards, pages) == {s \in shards : s.best \in pages}

Winners(shards, pages) ==
    {s \in shards : s.best \in pages /\ s.anyFit >= MinFit}

\* The target, a page or NewPage.  The test of the confidence for a single winner
\* cannot fail: a winner's fit is no less than minFit.
chooseTarget(shards, pages, final) ==
    LET w == Winners(shards, pages)
    IN  IF w = {} THEN NewPage
        ELSE IF Cardinality(w) = 1
        THEN LET only == CHOOSE s \in w : TRUE
             IN  IF only.confidence < NewPageConfidence /\ only.anyFit < MinFit
                 THEN NewPage ELSE only.best
        ELSE IF final.choice \notin {s.best : s \in w} \/ final.fit < MinFit
        THEN NewPage
        ELSE final.choice

-----------------------------------------------------------------------------

\* Mutant: the batch's criticality is not looked at.
IgnoresCriticality(requested, worst) == requested

\* The writer's mode from the worst criticality of the batch.
resolveWriterMode(requested, worst) ==
    IF worst >= 95 THEN "guided"
    ELSE IF worst >= EscalateCriticality
    THEN CASE requested = "auto"  -> "draft"
           [] requested = "draft" -> "guided"
           [] OTHER               -> requested
    ELSE requested
=============================================================================
