----------------------------- MODULE MCWikiLint -----------------------------
\* Two claims on two pages, of one file and much alike, one of them without an id; and one
\* that was filed before: entries about it hold "c1", the id of the other claim of its page,
\* and not its own, which has an upper-case letter.
EXTENDS WikiLint, TLC
CONSTANTS p1, p2, c1, c2, C10

TwoPages == {p1, p2}
ThreeClaims == {c1, c2, C10}
TwoOnOnePage == c1 :> p1 @@ c2 :> p2 @@ C10 :> p1
FoundById == c1 :> {c1} @@ c2 :> {} @@ C10 :> {c1}
FoundByWords == [c \in Claim |-> {c}]
FirstThenSecond == p1 :> 1 @@ p2 :> 2
BothOfOneFile == {{c1, c2}}
ReportOrFix == {<<FALSE, FALSE>>, <<TRUE, TRUE>>}
TwoAlike == [a \in Claim |-> [b \in Claim |->
                IF a = b THEN 100 ELSE IF C10 \in {a, b} THEN 10 ELSE 80]]
=============================================================================
