------------------------------ MODULE WikiLint ------------------------------
(***************************************************************************)
(* wiki_lint (src/src/lint.ts) on the claims of the pages: claims without  *)
(* an accepted ledger entry are queued for review, pairs of claims are     *)
(* judged by Jev, and the pages of a contradiction are read and written    *)
(* again; next to it claims are filed, written by hand, synced, reviewed.  *)
(*                                                                         *)
(* A claim is known by its text.  The ledger only grows; the model keeps   *)
(* what lint looks for in it: the claims of accepting entries, and the     *)
(* claims that lint takes for reviewed because the words of some entry     *)
(* hold the path of their page and their id, or the beginning of their     *)
(* text, be it meant for them or not.  Table of contents: WikiToc; the     *)
(* file of the review queue: WikiStore; the windows of sync and of a       *)
(* review: WikiUpkeep.  One agent reviews; the words of its notes, and of  *)
(* insights, are left out.                                                 *)
(***************************************************************************)
EXTENDS Integers, FiniteSets

CONSTANTS
    Page, Claim, Linter,
    PageOf,       \* the page of each claim
    Place,        \* the places of the pages in the listing
    Loose,        \* the claims found in any entry with the path of their page: they have no
                  \* id, or one that is a part of such a path (c1 of topic/rfc1.md)
    Mentions,     \* Mentions[c]: the claims of its page found in an entry with the page and
                  \* the id of c: theirs is the same id, or a part of it (c1 of c10)
    Quotes,       \* Quotes[c]: those found in one with the page and the beginning of c
    ByHand,       \* the claims written past the pipeline; the others are accepted first
    Filed,        \* those of the others that are on the pages at first
    Shares,       \* the pairs {a, b} of claims that have a file in common
    Overlap,      \* Overlap[a][b]: how much of their words two claims share, in %
    Modes,        \* the combinations <<autoFix, contradictions>> that are asked for
    MaxPairs,     \* maxContradictionPairs, 8
    MaxMerges     \* how many pairs are considered for merging, 6

ASSUME LintConstants ==
    /\ PageOf \in [Claim -> Page] /\ Place \in [Page -> Nat]
    /\ {Loose, ByHand} \subseteq SUBSET Claim
    /\ Filed \subseteq Claim \ ByHand
    /\ {Mentions, Quotes} \subseteq [Claim -> SUBSET Claim]
    /\ \A c \in Claim, d \in Claim : d \in Mentions[c] \cup Quotes[c] => PageOf[d] = PageOf[c]
    /\ \A pr \in Shares : pr \subseteq Claim /\ Cardinality(pr) = 2
    /\ Overlap \in [Claim -> [Claim -> 0 .. 100]]
    /\ {MaxPairs, MaxMerges} \subseteq Nat
    /\ Modes \subseteq BOOLEAN \X BOOLEAN

VARIABLES
    page,      \* the status of each claim on its page
    filing,    \* the accepted claims whose page is being written
    accepted,  \* ledger: the claims of accepting entries
    named,     \* ledger: the claims that entries name, as lint understands it
    open,      \* the reason of the open review item of each claim and kind, and whom it is about
    review,    \* what the reviewing agent is doing
    step, fix, judge, writing, seen, raise, pairs, marked, fresh,  \* of each lint
    decided,   \* history: the claims that an entry of a sync or a review is taken to be about
    late       \* history: what changed since a lint read a page again

ledgerVars == <<accepted, named>>
lintVars == <<step, fix, judge, writing, seen, raise, pairs, marked, fresh>>
vars == <<page, filing, ledgerVars, open, review, lintVars, decided, late>>

None == "none"
Kind == {"claim_review", "dispute"}
NoItem == [why |-> None, of |-> None]
NoEntry == [why |-> "unbacked", of |-> None]
Reason == {NoItem, NoEntry} \cup [why : {"duplicate", "contradiction"}, of : Claim]
Status == {"absent", "verified", "retired"}  \* retired: superseded or rejected
Resolution == {"accept", "reject", "defer", "out_of_scope"}  \* reject: or supersede
Item == [claim : Claim, kind : Kind, reason : Reason]
Pair == {pr \in SUBSET Claim : Cardinality(pr) = 2}
Trace == {"accepted", "named", "silent", "none"}  \* what a resolution leaves in the ledger
Reviewing == [at : {"resolve", "record"}, claim : Claim, kind : Kind, trace : Trace, reason : Reason]
NoReview == [at |-> "idle"]

TypeOK ==
    /\ page \in [Claim -> Status]
    /\ filing \subseteq Claim /\ accepted \subseteq Claim /\ {named, decided} \subseteq SUBSET Claim
    /\ open \in [Claim -> [Kind -> Reason]]
    /\ review \in Reviewing \cup {NoReview}
    /\ step \in [Linter -> {"idle", "ledger", "relate", "write", "merge"}]
    /\ {fix, judge} \subseteq [Linter -> BOOLEAN]
    /\ writing \in [Linter -> SUBSET Page]
    /\ seen \in [Linter -> SUBSET Claim]
    /\ fresh \in [Linter -> [Claim -> Status]]
    /\ raise \in [Linter -> SUBSET Item]
    /\ pairs \in [Linter -> SUBSET Pair]
    /\ marked \in [Linter -> SUBSET Page]
    /\ late \in [Linter -> SUBSET Claim]
    /\ \A s \in Linter :
          /\ step[s] \in {"idle", "ledger"} => raise[s] = {} /\ pairs[s] = {} /\ marked[s] = {}
          /\ writing[s] \subseteq marked[s]
          /\ step[s] = "write" <=> writing[s] # {}

\* Mutant: an entry that names the page stands for a review of all its claims.
OnPage(p) == {c \in Claim : PageOf[c] = p}

\* What lint finds in an entry that holds the path of a page, whatever it is about, ...
OnlyPage(p) == {c \in Loose : PageOf[c] = p}

\* ... in one that holds the page and the id of a claim, ...
PageAndId(c) == OnlyPage(PageOf[c]) \cup Mentions[c]

\* ... and in one that holds the page and the first words of a claim.
PageAndWords(c) == OnlyPage(PageOf[c]) \cup Quotes[c]

NoClaims == [c \in Claim |-> "absent"]

Init ==
    /\ page = [c \in Claim |-> IF c \in Filed THEN "verified" ELSE "absent"]
    /\ filing = {} /\ decided = {}
    /\ accepted = Filed /\ named = UNION {OnlyPage(PageOf[c]) : c \in Filed}
    /\ open = [c \in Claim |-> [k \in Kind |-> NoItem]]
    /\ review = NoReview
    /\ step = [s \in Linter |-> "idle"]
    /\ fix = [s \in Linter |-> FALSE] /\ judge = [s \in Linter |-> FALSE]
    /\ writing = [s \in Linter |-> {}]
    /\ seen = [s \in Linter |-> {}] /\ fresh = [s \in Linter |-> NoClaims]
    /\ raise = [s \in Linter |-> {}] /\ pairs = [s \in Linter |-> {}]
    /\ marked = [s \in Linter |-> {}]
    /\ late = [s \in Linter |-> {}]

\* What changes on the pages now is late for a lint that has read a page again.
Noticed(s) ==
    IF step[s] = "write" THEN late[s] \cup {c \in Claim : page'[c] # page[c]} ELSE late[s]

\* Someone writes a claim's status on its page.
Put(c, status) ==
    /\ page' = [page EXCEPT ![c] = status]
    /\ late' = [s \in Linter |-> Noticed(s)]

-----------------------------------------------------------------------------
\* The others.

\* Mutant: the ledger entry of the decision has an action lint does not know.
AcceptOtherwise(c) ==
    /\ c \notin ByHand /\ page[c] = "absent" /\ c \notin filing
    /\ filing' = filing \cup {c}
    /\ UNCHANGED <<page, ledgerVars, open, review, lintVars, decided, late>>

\* The pipeline accepts a claim: the ledger entry comes first ...
Accept(c) ==
    /\ c \notin ByHand /\ page[c] = "absent" /\ c \notin filing
    /\ filing' = filing \cup {c}
    /\ accepted' = accepted \cup {c}
    /\ UNCHANGED <<page, named, open, review, lintVars, decided, late>>

\* ... then the page is written ...
File(c) ==
    /\ c \in filing /\ page[c] = "absent"
    /\ Put(c, "verified")
    /\ UNCHANGED <<filing, ledgerVars, open, review, lintVars, decided>>

\* ... and an entry names it.
FileRecord(c) ==
    /\ c \in filing /\ page[c] # "absent"
    /\ filing' = filing \ {c}
    /\ named' = named \cup OnlyPage(PageOf[c])
    /\ UNCHANGED <<page, accepted, open, review, lintVars, decided, late>>

\* The agent, or the user, writes a claim into the page itself.
WriteByHand(c) ==
    /\ c \in ByHand /\ page[c] = "absent"
    /\ Put(c, "verified")
    /\ UNCHANGED <<filing, ledgerVars, open, review, lintVars, decided>>

\* wiki_finalize names the page in the ledger, and the claims filed against advice.
Finalize(p, overridden) ==
    /\ \A c \in overridden : PageOf[c] = p
    /\ \E c \in Claim : PageOf[c] = p /\ page[c] # "absent"
    /\ named' = named \cup OnlyPage(p)
    /\ accepted' = accepted \cup overridden
    /\ UNCHANGED <<page, filing, open, review, lintVars, decided, late>>

\* wiki_sync finds that a change does not affect the claim; its ledger names it.
SyncChecks(c) ==
    /\ page[c] = "verified"
    /\ named' = named \cup PageAndId(c)
    /\ decided' = decided \cup (Mentions[c] \ Loose)
    /\ UNCHANGED <<page, filing, accepted, open, review, lintVars, late>>

Resolved(resolution, old) ==
    IF old = "absent" THEN old
    ELSE CASE resolution = "accept" -> "verified"
           [] resolution = "reject" -> "retired"
           [] OTHER                 -> old

\* The ledger entries of a resolution: an accepted claim is backed from now on, and
\* the outcome "defer applied to page#id" names the claim, unless it is "out of scope".
TraceOf(resolution) ==
    CASE resolution = "accept"       -> "accepted"
      [] resolution = "out_of_scope" -> "silent"
      [] OTHER                       -> "named"

\* wiki_review resolve, up to applyReviewResolution, whose read and write are one step
\* here.  A critical dispute may be deferred over the agent's head: that changes no
\* page and leaves nothing in the ledger.
ReviewApply(c, kind, resolution, declined) ==
    /\ review = NoReview
    /\ open[c][kind] # NoItem
    /\ declined => kind = "dispute" /\ resolution # "defer"
    /\ IF declined THEN UNCHANGED <<page, late>> ELSE Put(c, Resolved(resolution, page[c]))
    /\ review' = [at |-> "resolve", claim |-> c, kind |-> kind,
                  trace |-> IF declined THEN "none" ELSE TraceOf(resolution), reason |-> open[c][kind]]
    /\ UNCHANGED <<filing, ledgerVars, open, lintVars, decided>>

ReviewResolve ==
    /\ review.at = "resolve"
    /\ open' = [open EXCEPT ![review.claim][review.kind] = NoItem]
    /\ review' = IF review.trace = "none" THEN NoReview
                 ELSE [review EXCEPT !.at = "record", !.kind = "claim_review"]
    /\ UNCHANGED <<page, filing, ledgerVars, lintVars, decided, late>>

\* The outcome names the claim, unless it is "out of scope".  Without a note of the agent's
\* the reason of the item is repeated: that of a duplicate has the other claim's page and
\* first words, that of a contradiction its page.
ById == IF review.trace = "silent" THEN {} ELSE {review.claim}
ByWords(noted) == IF ~noted /\ review.reason.why = "duplicate" THEN {review.reason.of} ELSE {}
ByPage(noted) == IF ~noted /\ review.reason.of # None THEN {PageOf[review.reason.of]} ELSE {}

\* Mutant: the entry of a review holds the item's id and not what became of the claim.
ReviewRecordsTheItem(noted) ==
    /\ review.at = "record"
    /\ accepted' = IF review.trace = "accepted" THEN accepted \cup {review.claim} ELSE accepted
    /\ review' = NoReview
    /\ UNCHANGED <<page, filing, named, open, lintVars, decided, late>>

\* The resolution is entered in the ledger.
ReviewRecord(noted) ==
    /\ review.at = "record"
    /\ accepted' = IF review.trace = "accepted" THEN accepted \cup {review.claim} ELSE accepted
    /\ named' = named \cup UNION ({PageAndId(c) : c \in ById} \cup {PageAndWords(c) : c \in ByWords(noted)}
                                  \cup {OnlyPage(p) : p \in ByPage(noted)})
    /\ decided' = decided \cup (UNION ({Mentions[c] : c \in ById} \cup {Quotes[c] : c \in ByWords(noted)})
                                \ Loose)
    /\ review' = NoReview
    /\ UNCHANGED <<page, filing, open, lintVars, late>>

-----------------------------------------------------------------------------
\* lintWiki.

Active(status) == status = "verified"

\* Among the accepted subjects is one with the claim's words, or half of them.
Backed(c) == \E d \in accepted : d = c \/ Overlap[c][d] >= 50

\* Two claims of different pages and of one file, unless they say nearly the same.
Suspect(s) ==
    {pr \in Shares : /\ pr \subseteq seen[s]
                     /\ \E a, b \in pr : PageOf[a] # PageOf[b] /\ Overlap[a][b] < 90}

Alike(s) ==
    {pr \in Pair : /\ pr \subseteq seen[s]
                   /\ \E a, b \in pr : PageOf[a] # PageOf[b] /\ Overlap[a][b] >= 72}

\* The first n of the candidates, in the order of the pages.
FirstOf(n, candidates) ==
    {some \in SUBSET candidates :
        \/ Cardinality(some) = n
        \/ some = candidates /\ Cardinality(some) <= n}

Forget(s) ==
    /\ step' = [step EXCEPT ![s] = "idle"]
    /\ fix' = [fix EXCEPT ![s] = FALSE] /\ judge' = [judge EXCEPT ![s] = FALSE]
    /\ writing' = [writing EXCEPT ![s] = {}]
    /\ seen' = [seen EXCEPT ![s] = {}] /\ fresh' = [fresh EXCEPT ![s] = NoClaims]
    /\ raise' = [raise EXCEPT ![s] = {}] /\ pairs' = [pairs EXCEPT ![s] = {}]
    /\ marked' = [marked EXCEPT ![s] = {}]
    /\ late' = [late EXCEPT ![s] = {}]

others == <<page, filing, review, decided>>

\* wiki_lint, with autoFix or without, with the contradiction checks or without, reads
\* the pages: one after the other, which makes no difference to a single claim.
Start(s, autoFix, contradictions) ==
    /\ step[s] = "idle"
    /\ step' = [step EXCEPT ![s] = "ledger"]
    /\ fix' = [fix EXCEPT ![s] = autoFix] /\ judge' = [judge EXCEPT ![s] = contradictions]
    /\ seen' = [seen EXCEPT ![s] = {c \in Claim : Active(page[c])}]
    /\ UNCHANGED <<others, ledgerVars, open, writing, raise, pairs, marked, fresh, late>>

\* The ledger is read after the pages.
ReadLedger(s, chosen) ==
    LET unbacked == {c \in seen[s] : ~Backed(c) /\ c \notin named}
    IN  /\ step[s] = "ledger"
        /\ chosen \in IF judge[s] THEN FirstOf(MaxPairs, Suspect(s)) ELSE {{}}
        /\ raise' = [raise EXCEPT ![s] =
              IF fix[s] THEN [claim : unbacked, kind : {"claim_review"}, reason : {NoEntry}]
              ELSE {}]
        /\ pairs' = [pairs EXCEPT ![s] = chosen]
        /\ step' = [step EXCEPT ![s] = "relate"]
        /\ UNCHANGED <<others, ledgerVars, open, fix, judge, writing, seen, marked, fresh, late>>

\* enqueueReview, under the lock: nothing happens if the claim has such an item.
Enqueue(s, item) ==
    /\ item \in raise[s]
    /\ raise' = [raise EXCEPT ![s] = @ \ {item}]
    /\ open' = [open EXCEPT ![item.claim][item.kind] = IF @ = NoItem THEN item.reason ELSE @]
    /\ UNCHANGED <<others, ledgerVars, step, fix, judge, writing, seen, pairs, marked, fresh, late>>

NamesPages(pr) == named' = named \cup UNION {OnlyPage(PageOf[c]) : c \in pr}

Dispute(c, d) == [claim |-> c, kind |-> "dispute", reason |-> [why |-> "contradiction", of |-> d]]
Duplicate(c, d) == [claim |-> c, kind |-> "claim_review", reason |-> [why |-> "duplicate", of |-> d]]

\* Jev relates two claims.  For a contradiction it is sure of, both claims are to be
\* disputed: in the copy lint holds, where nobody will see it, and in the queue.
Relate(s, pr, contradict) ==
    LET dispute == contradict /\ fix[s]
    IN  /\ step[s] = "relate" /\ raise[s] = {}
        /\ pr \in pairs[s]
        /\ NamesPages(pr)
        /\ pairs' = [pairs EXCEPT ![s] = @ \ {pr}]
        /\ marked' = [marked EXCEPT ![s] = IF dispute THEN @ \cup {PageOf[c] : c \in pr} ELSE @]
        /\ raise' = [raise EXCEPT ![s] =
              IF dispute THEN {Dispute(o[1], o[2]) : o \in {o \in pr \X pr : o[1] # o[2]}} ELSE {}]
        /\ UNCHANGED <<others, accepted, open, step, fix, judge, writing, seen, fresh, late>>

\* A marked page is read again ...
Reread(s, p) ==
    /\ step[s] = "relate" /\ raise[s] = {} /\ pairs[s] = {}
    /\ p \in marked[s]
    /\ step' = [step EXCEPT ![s] = "write"]
    /\ writing' = [writing EXCEPT ![s] = {p}]
    /\ fresh' = [fresh EXCEPT ![s] = [c \in Claim |-> IF PageOf[c] = p THEN page[c] ELSE "absent"]]
    /\ UNCHANGED <<others, ledgerVars, open, fix, judge, seen, raise, pairs, marked, late>>

\* Mutant: what is written is the copy in which the claims were disputed.
RewriteSnapshot(s) ==
    /\ step[s] = "write"
    /\ page' = [c \in Claim |-> IF PageOf[c] \in writing[s] /\ c \in seen[s] THEN "verified"
                            ELSE page[c]]
    /\ marked' = [marked EXCEPT ![s] = @ \ writing[s]]
    /\ writing' = [writing EXCEPT ![s] = {}]
    /\ fresh' = [fresh EXCEPT ![s] = NoClaims]
    /\ step' = [step EXCEPT ![s] = "relate"]
    /\ late' = [t \in Linter |-> IF t = s THEN {} ELSE Noticed(t)]
    /\ UNCHANGED <<filing, review, decided, ledgerVars, open, fix, judge, seen, raise, pairs>>

\* ... and what was read is written back.
Rewrite(s) ==
    /\ step[s] = "write"
    /\ page' = [c \in Claim |-> IF PageOf[c] \in writing[s] THEN fresh[s][c] ELSE page[c]]
    /\ marked' = [marked EXCEPT ![s] = @ \ writing[s]]
    /\ writing' = [writing EXCEPT ![s] = {}]
    /\ fresh' = [fresh EXCEPT ![s] = NoClaims]
    /\ step' = [step EXCEPT ![s] = "relate"]
    /\ late' = [t \in Linter |-> IF t = s THEN {} ELSE Noticed(t)]
    /\ UNCHANGED <<filing, review, decided, ledgerVars, open, fix, judge, seen, raise, pairs>>

\* The pairs that might be one claim.
Compare(s, chosen) ==
    /\ step[s] = "relate" /\ raise[s] = {} /\ pairs[s] = {} /\ marked[s] = {}
    /\ judge[s]
    /\ chosen \in FirstOf(MaxMerges, Alike(s))
    /\ pairs' = [pairs EXCEPT ![s] = chosen]
    /\ seen' = [seen EXCEPT ![s] = {}]
    /\ step' = [step EXCEPT ![s] = "merge"]
    /\ UNCHANGED <<others, ledgerVars, open, fix, judge, writing, raise, marked, fresh, late>>

\* Jev finds two claims the same; the one of the first page is queued.
Merge(s, pr, first, same) ==
    /\ step[s] = "merge" /\ raise[s] = {}
    /\ pr \in pairs[s] /\ first \in pr
    /\ \A c \in pr : Place[PageOf[first]] <= Place[PageOf[c]]
    /\ NamesPages(pr)
    /\ pairs' = [pairs EXCEPT ![s] = @ \ {pr}]
    /\ raise' = [raise EXCEPT ![s] =
          IF same /\ fix[s] THEN {Duplicate(first, other) : other \in pr \ {first}} ELSE {}]
    /\ UNCHANGED <<others, accepted, open, step, fix, judge, writing, seen, marked, fresh, late>>

Finish(s) ==
    /\ raise[s] = {} /\ pairs[s] = {}
    /\ step[s] = IF judge[s] THEN "merge" ELSE "relate"
    /\ Forget(s)
    /\ UNCHANGED <<others, ledgerVars, open>>

\* Jev, the lock or a file fails; what was done stays done.
Fail(s) ==
    /\ step[s] # "idle"
    /\ Forget(s)
    /\ UNCHANGED <<others, ledgerVars, open>>

Proceed(s) ==
    \/ \E p \in marked[s] : Reread(s, p)
    \/ \E chosen \in SUBSET Shares : ReadLedger(s, chosen)
    \/ \E item \in raise[s] : Enqueue(s, item)
    \/ \E pr \in pairs[s], yes \in BOOLEAN : Relate(s, pr, yes)
    \/ Rewrite(s)
    \/ \E chosen \in SUBSET Pair : Compare(s, chosen)
    \/ \E pr \in pairs[s], first \in Claim, yes \in BOOLEAN : Merge(s, pr, first, yes)
    \/ Finish(s)

Next ==
    \/ \E c \in Claim : Accept(c) \/ File(c) \/ FileRecord(c) \/ WriteByHand(c) \/ SyncChecks(c)
    \/ \E p \in Page, o \in SUBSET Claim : Finalize(p, o)
    \/ \E c \in Claim, k \in Kind, r \in Resolution, no \in BOOLEAN : ReviewApply(c, k, r, no)
    \/ ReviewResolve \/ \E noted \in BOOLEAN : ReviewRecord(noted)
    \/ \E s \in Linter :
          \/ \E mode \in Modes : Start(s, mode[1], mode[2])
          \/ Proceed(s) \/ Fail(s)

\* A lint goes on or fails, but does not for ever fail before it has read the ledger or
\* queued a claim; the agent asks for one with autoFix again and again and works every
\* open item of the queue.
Fairness ==
    /\ \A s \in Linter :
          /\ WF_vars(Proceed(s))
          /\ SF_vars(\E mode \in Modes : mode[1] /\ Start(s, TRUE, mode[2]))
          /\ SF_vars(fix[s] /\ \E chosen \in SUBSET Shares : ReadLedger(s, chosen))
          /\ SF_vars(\E item \in raise[s] : Enqueue(s, item))
    /\ \A c \in Claim : SF_vars(\E r \in Resolution : ReviewApply(c, "claim_review", r, FALSE))
    /\ WF_vars(ReviewResolve \/ \E noted \in BOOLEAN : ReviewRecord(noted))

Spec == Init /\ [][Next]_vars /\ Fairness

-----------------------------------------------------------------------------
\* Writing a page back (lint.ts:331-335) undoes only what was written after lint read
\* it again, by another lint too; whatever happened to the claims during its Jev calls
\* is kept.
RewritesLoseOnlyLateEdits ==
    [][\A s \in Linter : step[s] = "write" /\ step'[s] = "relate"
          => \A c \in Claim : page'[c] = page[c] \/ c \in late[s]]_vars

\* Only a claim somebody wrote past the pipeline is ever queued for want of a ledger
\* entry (lint.ts:188-236): an accepted one is in the ledger before it is on the page
\* and lint reads the pages before the ledger.
FiledClaimsAreNotQueued ==
    /\ TypeOK
    /\ \A c \in Claim : open[c]["claim_review"] = NoEntry => c \in ByHand

\* "Unbacked claims are queued as review items"
\* (docs/wiki/wiki/decisions/lint-queues-unbacked-claims.md): one written past the pipeline
\* that lint can tell from its page gets an item, unless an entry of a sync or of a review
\* is, or is taken to be, about it: about a claim of its page with the same id, an id this
\* one is a part of, or the same first words (value.includes, lint.ts:219-222).
UnbackedAreRaised ==
    \A c \in ByHand \ Loose :
        Active(page[c]) /\ ~Backed(c) /\ c \notin decided
            ~> (open[c]["claim_review"] # NoItem \/ Backed(c) \/ c \in decided \/ ~Active(page[c]))

\* The loop of lint and review comes to rest for every claim that is found in the entries
\* about it (one whose id has an upper-case letter is not: lint.ts:221 looks for it in
\* values without any): if the agent stops answering "out of scope", there is a last time
\* it is queued for want of a ledger entry.
UnbackedSettle ==
    <>[](review = NoReview \/ review.trace # "silent")
        => <>[](\A c \in Claim : c \in PageAndId(c) => open[c]["claim_review"] # NoEntry)
=============================================================================
