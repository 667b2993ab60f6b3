----------------------------- MODULE MCInsights -----------------------------
\* A small instance of the batches for TLC: captures of one and of two insights,
\* and three ingests, of which two have the same source and two the same title.
EXTENDS Insights, TLC

MCInput == [i1 |-> "d1", i2 |-> "d1", i3 |-> "d2", k1 |-> "k1", k2 |-> "k2", k3 |-> "k3"]
MCTitle == [d1 |-> "notes", d2 |-> "notes", k1 |-> "session", k2 |-> "session", k3 |-> "session"]
MCItems == [d1 |-> <<"a">>, d2 |-> <<"z">>, k1 |-> <<"b">>, k2 |-> <<"a">>, k3 |-> <<"a", "b">>]
Class == {"old", "a", "b"}
MCAlike == [t \in Class \cup {"z"} |-> IF t \in Class THEN Class ELSE {t}]
MCHeld == [home |-> {"old"}]

Plain == [sensitive |-> 0, derivable |-> 0, grounded |-> 90, durable |-> 60, alreadyKnown |-> 0,
          importance |-> 2, importanceNorm |-> 67, criticalityNorm |-> 20, kind |-> "other",
          trustTier |-> "none", relation |-> "none"]
\* An answer for each way a claim can go.
MCAnswers == {
    Plain,
    [Plain EXCEPT !.criticalityNorm = 90],
    [Plain EXCEPT !.grounded = 50, !.trustTier = "user_stated", !.relation = "contradicts"],
    [Plain EXCEPT !.relation = "extends"],
    [Plain EXCEPT !.relation = "supersedes"],
    [Plain EXCEPT !.grounded = 75, !.relation = "supersedes"],
    [Plain EXCEPT !.derivable = 80, !.kind = "framing", !.relation = "contradicts"]}
=============================================================================
