------------------------------ MODULE Insights ------------------------------
(***************************************************************************)
(* wiki_ingest and wiki_insights (automatic captures too): what a call     *)
(* does with a batch of claims.  Jev judges each claim (Adjudication),     *)
(* four at a time; what is doubtful or contradicts the wiki goes   *)
(* to the review queue; a capture confirms or retires claims that are      *)
(* already on a page; at the end the writer puts the accepted claims on    *)
(* their pages.  No lock is held over a page: a page is read, a model may  *)
(* be asked, and the page is written.                                      *)
(*                                                                         *)
(* Calls run in any number of sessions; the file system is their only      *)
(* common state.  The review queue, the raw index and the index are        *)
(* updated under the wiki lock, so each such update is one step (WikiStore *)
(* shows when that holds).  That two texts share enough words is the       *)
(* relation Alike, one for all the thresholds of the code.                 *)
(***************************************************************************)
EXTENDS Adjudication, Sequences, FiniteSetsExt

CONSTANTS
    Ingest, Capture,    \* the calls of wiki_ingest; of wiki_insights and the hooks
    Input,              \* Input[c]: the source an ingest is given, c for a capture
    Title,              \* Title[d]: the name under raw/ a source or a record asks for
    Items,              \* Items[d]: the claims of a source, the insights of a capture
    Page, Held,         \* page paths; Held[p]: the texts on p when p exists at first
    Alike,              \* Alike[t]: the texts that share enough words with t
    Invented,           \* texts in whose prose the writer puts a number of its own
    Answers,            \* the verdicts Jev may return
    RequestedMode,      \* "guided", "draft" or "auto"
    Recurs,             \* the occurrences that make a text recurrent, 3 in the code
    MaxItems, MaxFaults \* bounds: claims in all calls that are made, steps that fail

Call == Ingest \cup Capture
Text == UNION {Alike[t] : t \in DOMAIN Alike}

ASSUME InputsAreGiven ==
    /\ Answers \subseteq Verdict /\ RequestedMode \in {"guided", "draft", "auto"}
    /\ Recurs \in Nat \ {0} /\ MaxFaults \in Nat
    /\ Ingest \cap Capture = {}
    /\ \A c \in Call : Input[c] \in DOMAIN Title \cap DOMAIN Items
    /\ \A c \in Capture : Input[c] = c
    /\ \A d \in DOMAIN Items : Items[d] \in Seq(Text)
    /\ NewPage \notin Page /\ DOMAIN Held \subseteq Page /\ \A p \in DOMAIN Held : Held[p] \subseteq Text
    /\ \A t \in Text : t \in Alike[t] /\ \A u \in Alike[t] : Alike[u] = Alike[t]

Outcome(v) == [action |-> decideClaim(v), relation |-> v.relation, critical |-> v.criticalityNorm,
               said |-> v.trustTier = "user_stated", backed |-> Backed(v)]
Outcomes == {Outcome(v) : v \in Answers}
OutcomesAlone == {Outcome(v) : v \in {a \in Answers : Askable(a, FALSE)}}
Undecided == [action |-> "none", relation |-> "none", critical |-> 0, said |-> FALSE, backed |-> FALSE]

Unstarted == [pc |-> "ready", name |-> <<>>, jobs |-> <<>>, shown |-> {}, known |-> {},
              due |-> <<>>, todo |-> {}, group |-> NewPage, base |-> {}, written |-> {},
              flagged |-> {}]
Over == {"end", "failed", "duplicate"}

VARIABLES
    pages,      \* the claims of each page that exists
    listed,     \* the pages of the index
    queue,      \* the open review items
    log,        \* session-log.jsonl
    raw,        \* the files under raw/, each with the source it holds
    rawIndex,   \* raw-index.json: the file of a source
    call,       \* what each call is at
    faults
vars == <<pages, listed, queue, log, raw, rawIndex, call, faults>>
store == <<pages, listed, queue, log, raw, rawIndex>>

Claim(t, s) == [text |-> t, status |-> s, confirmed |-> FALSE]

Init ==
    /\ pages = [p \in DOMAIN Held |-> {Claim(t, "verified") : t \in Held[p]}]
    /\ listed = DOMAIN Held
    /\ queue = {} /\ log = <<>>
    /\ raw = << >> /\ rawIndex = << >>
    /\ call = [c \in Call |-> Unstarted]
    /\ faults = 0

With(f, k, v) == [x \in DOMAIN f \cup {k} |-> IF x = k THEN v ELSE f[x]]
Goto(c, pc) == call' = [call EXCEPT ![c].pc = pc]
Started == {c \in Call : call[c].pc # "ready"}
MayStart(c) ==
    /\ call[c].pc = "ready"
    /\ FoldSet(LAMBDA e, n : n + Len(Items[Input[e]]), 0, Started \cup {c}) <= MaxItems

-----------------------------------------------------------------------------
(* The raw copy of a source, the record of a capture.                      *)

\* Mutant: a source counts as known when a file has its name.
CheckName(c) ==
    /\ c \in Ingest /\ MayStart(c)
    /\ Goto(c, IF <<Title[Input[c]]>> \in DOMAIN raw THEN "duplicate" ELSE "name")
    /\ UNCHANGED <<store, faults>>

CheckDuplicate(c) ==
    /\ c \in Ingest /\ MayStart(c)
    /\ Goto(c, IF Input[c] \in DOMAIN rawIndex THEN "duplicate" ELSE "name")
    /\ UNCHANGED <<store, faults>>

\* The names tried one after the other: the title's, with the hash, with a number from 2.
NameOf(d, k) == CASE k = 0 -> <<Title[d]>> [] k = 1 -> <<Title[d], d>> [] OTHER -> <<Title[d], d, k>>

\* The first that no file has; one of so many is free.
FreeName(d) ==
    LET free == {k \in 0..Cardinality(DOMAIN raw) : NameOf(d, k) \notin DOMAIN raw}
    IN  NameOf(d, CHOOSE k \in free : \A j \in free : k <= j)

ChooseName(c) ==
    /\ call[c].pc = "name"
    /\ call' = [call EXCEPT ![c].name = FreeName(Input[c]), ![c].pc = "store"]
    /\ UNCHANGED <<store, faults>>

StoreRaw(c) ==
    /\ call[c].pc = "store"
    /\ raw' = With(raw, call[c].name, Input[c])
    /\ Goto(c, IF c \in Ingest THEN "index" ELSE "write")
    /\ UNCHANGED <<pages, listed, queue, log, rawIndex, faults>>

IndexRaw(c) ==
    /\ call[c].pc = "index"
    /\ rawIndex' = With(rawIndex, Input[c], call[c].name)
    /\ Goto(c, "extract")
    /\ UNCHANGED <<pages, listed, queue, log, raw, faults>>

-----------------------------------------------------------------------------
(* The batch, no larger than the four claims mapLimitLocal has in work at  *)
(* once.  shown and known: the pages and the claims Jev is given.          *)

Job(t) == [text |-> t, stage |-> "judge", is |-> Undecided, target |-> NewPage, base |-> {}]

Collect(c, items) ==
    call' = [call EXCEPT ![c].jobs = [i \in DOMAIN items |-> Job(items[i])],
                         ![c].shown = listed,
                         ![c].known = UNION {{<<p, x.text>> : x \in pages[p]} : p \in DOMAIN pages},
                         ![c].pc = "jobs"]

BeginCapture(c) ==
    /\ c \in Capture /\ MayStart(c)
    /\ Collect(c, Items[Input[c]])
    /\ UNCHANGED <<store, faults>>

\* An answer that is no JSON counts as one without claims.
Extract(c) ==
    /\ call[c].pc = "extract"
    /\ \/ Collect(c, Items[Input[c]]) /\ UNCHANGED faults
       \/ Collect(c, <<>>) /\ faults < MaxFaults /\ faults' = faults + 1
    /\ UNCHANGED store

AtStage(c, i, stage) == call[c].jobs[i].stage = stage

Stages == <<"judge", "review", "dispute", "reinforce", "supersede", "log", "done">>

\* Mutant: a dispute is queued for what is accepted only.
DueIfAccepted(c, job, stage) ==
    CASE stage = "review"    -> job.is.action = "review"
      [] stage = "dispute"   -> job.is.relation = "contradicts" /\ job.is.action \in Accepted
      [] stage = "reinforce" -> c \in Capture /\ job.is.action \in {"file", "reinforce"} /\ job.target # NewPage
      [] stage = "supersede" -> c \in Capture /\ job.is.relation = "supersedes"
      [] stage = "log"       -> c \in Capture
      [] OTHER               -> TRUE

Due(c, job, stage) ==
    CASE stage = "review"    -> job.is.action = "review"
      [] stage = "dispute"   -> job.is.relation = "contradicts"
      [] stage = "reinforce" -> c \in Capture /\ job.is.action \in {"file", "reinforce"} /\ job.target # NewPage
      [] stage = "supersede" -> c \in Capture /\ job.is.relation = "supersedes"
      [] stage = "log"       -> c \in Capture
      [] OTHER               -> TRUE

\* The job, changed to j, leaves the stage it is at for the next that is due.
Passes(c, i, from, j) ==
    LET at == CHOOSE k \in DOMAIN Stages : Stages[k] = from
        next == {k \in DOMAIN Stages : k > at /\ Due(c, j, Stages[k])}
        first == CHOOSE k \in next : \A n \in next : k <= n
    IN  call' = [call EXCEPT ![c].jobs[i] = [j EXCEPT !.stage = Stages[first], !.base = {}]]

KnownAlike(c, t) == {k[1] : k \in {k \in call[c].known : k[2] \in Alike[t]}}

\* The pages a claim may be given: chooseTarget's answer for what is filed or reinforces
\* on evidence; a reinforcement without one falls back on the page of the likest claim.
Targets(c, t, action) ==
    IF action \notin {"file", "reinforce"} THEN {NewPage}
    ELSE call[c].shown \cup
         IF action = "reinforce" /\ KnownAlike(c, t) # {} THEN KnownAlike(c, t) ELSE {NewPage}

\* Jev's one or two calls, which see only what the batch was shown.
Judge(c, i) ==
    /\ AtStage(c, i, "judge")
    /\ \E o \in IF call[c].known # {} THEN Outcomes ELSE OutcomesAlone :
       \E p \in Targets(c, call[c].jobs[i].text, o.action) :
          Passes(c, i, "judge", [call[c].jobs[i] EXCEPT !.is = o, !.target = p])
    /\ UNCHANGED <<store, faults>>

Enqueued(kind, t, p) == [kind |-> kind, text |-> t, page |-> p]

QueueClaim(c, i) ==
    /\ \E s \in {<<"review", "claim_review">>, <<"dispute", "dispute">>} :
          /\ AtStage(c, i, s[1])
          /\ queue' = queue \cup {Enqueued(s[2], call[c].jobs[i].text, call[c].jobs[i].target)}
          /\ Passes(c, i, s[1], call[c].jobs[i])
    /\ UNCHANGED <<pages, listed, log, raw, rawIndex, faults>>

Amending(stage) == IF stage = "reinforce" THEN "reinforcing" ELSE "superseding"

Live(claims, t) == {x \in claims : x.text \in Alike[t] /\ x.status # "superseded"}

\* applyReinforcement and applySupersession read the page; a page without a live
\* claim like the text is left alone.
ReadToAmend(c, i) ==
    /\ \E stage \in {"reinforce", "supersede"} :
          /\ AtStage(c, i, stage)
          /\ LET job == call[c].jobs[i]
                 likest == KnownAlike(c, job.text)
                 from == IF stage = "reinforce" THEN {job.target} ELSE likest
                 good == {p \in from \cap DOMAIN pages : Live(pages[p], job.text) # {}}
             IN  \/ \E p \in good :
                       call' = [call EXCEPT ![c].jobs[i].base = {<<p, pages[p]>>},
                                            ![c].jobs[i].stage = Amending(stage)]
                 \/ (from = {} \/ from \ good # {}) /\ Passes(c, i, stage, job)
    /\ UNCHANGED <<store, faults>>

\* Mutant: the claim that is retired leaves the page.
AmendedOrDropped(claims, x, stage) ==
    (claims \ {x}) \cup
        IF stage = "reinforce" THEN {[x EXCEPT !.confirmed = TRUE]} ELSE {}

Amended(claims, x, stage) ==
    (claims \ {x}) \cup
        {IF stage = "reinforce" THEN [x EXCEPT !.confirmed = TRUE]
                                ELSE [x EXCEPT !.status = "superseded"]}

WriteAmended(c, i) ==
    /\ \E stage \in {"reinforce", "supersede"} :
          /\ AtStage(c, i, Amending(stage))
          /\ \E b \in call[c].jobs[i].base : \E x \in Live(b[2], call[c].jobs[i].text) :
                pages' = With(pages, b[1], Amended(b[2], x, stage))
          /\ Passes(c, i, stage, call[c].jobs[i])
    /\ UNCHANGED <<listed, queue, log, raw, rawIndex, faults>>

Entry(t, action) == [text |-> t, action |-> action]

LogClaim(c, i) ==
    /\ AtStage(c, i, "log")
    /\ log' = Append(log, Entry(call[c].jobs[i].text, call[c].jobs[i].is.action))
    /\ Passes(c, i, "log", call[c].jobs[i])
    /\ UNCHANGED <<pages, listed, queue, raw, rawIndex, faults>>

BatchDone(c) == call[c].pc = "jobs" /\ \A i \in DOMAIN call[c].jobs : AtStage(c, i, "done")

-----------------------------------------------------------------------------
(* promoteRecurring: what came up Recurs times and was never taken.        *)

Group(t) == {k \in DOMAIN log : log[k].text \in Alike[t]}
Settled(g) == \E k \in g : log[k].action \in Accepted \cup {"promoted"}
Latest(g) == log[CHOOSE k \in g : \A j \in g : j <= k].text

\* Mutant: one occurrence more is asked for.
RecurringLater == {Latest(g) : g \in {h \in {Group(t) : t \in Text} : Cardinality(h) > Recurs /\ ~Settled(h)}}

Recurring == {Latest(g) : g \in {h \in {Group(t) : t \in Text} : Cardinality(h) >= Recurs /\ ~Settled(h)}}

ReadLog(c) ==
    /\ c \in Capture /\ BatchDone(c)
    /\ \E s \in [1..Cardinality(Recurring) -> Recurring] :
          /\ \A t \in Recurring : \E k \in DOMAIN s : s[k] = t
          /\ call' = [call EXCEPT ![c].due = s, ![c].pc = IF s = <<>> THEN "name" ELSE "raise"]
    /\ UNCHANGED <<store, faults>>

RaiseRecurring(c) ==
    /\ call[c].pc = "raise"
    /\ queue' = queue \cup {Enqueued("claim_review", Head(call[c].due), NewPage)}
    /\ Goto(c, "note")
    /\ UNCHANGED <<pages, listed, log, raw, rawIndex, faults>>

NotePromoted(c) ==
    /\ call[c].pc = "note"
    /\ log' = Append(log, Entry(Head(call[c].due), "promoted"))
    /\ call' = [call EXCEPT ![c].due = Tail(@), ![c].pc = IF Len(call[c].due) = 1 THEN "name" ELSE "raise"]
    /\ UNCHANGED <<pages, listed, queue, raw, rawIndex, faults>>

-----------------------------------------------------------------------------
(* writeAcceptedPages.  The claims of a batch that were not placed share    *)
(* their page type and topic, so they form one group, with a new page.     *)

FiledJobs(c) == {i \in DOMAIN call[c].jobs : call[c].jobs[i].is.action \in Filed}

Worst(c) ==
    LET levels == {call[c].jobs[i].is.critical : i \in FiledJobs(c)} \cup {0}
    IN  CHOOSE l \in levels : \A k \in levels : k <= l

Mode(c) == resolveWriterMode(RequestedMode, Worst(c))

\* The pages the writer is asked for, in the order of the claims or any other.
Plan(c) == IF Mode(c) = "guided" THEN {} ELSE {call[c].jobs[i].target : i \in FiledJobs(c)}

\* An ingest ends with the writer, a capture goes to it from its record.
StartWriting(c) ==
    /\ IF c \in Ingest THEN BatchDone(c) ELSE call[c].pc = "write"
    /\ call' = [call EXCEPT ![c].todo = Plan(c), ![c].pc = IF Plan(c) = {} THEN "end" ELSE "group"]
    /\ UNCHANGED <<store, faults>>

ReadTarget(c) ==
    /\ call[c].pc = "group"
    /\ \E g \in call[c].todo :
          call' = [call EXCEPT ![c].group = g, ![c].todo = @ \ {g}, ![c].pc = "ask",
                               ![c].base = IF g \in DOMAIN pages THEN {<<g, pages[g]>>} ELSE {}]
    /\ UNCHANGED <<store, faults>>

GroupJobs(c) == {i \in FiledJobs(c) : call[c].jobs[i].target = call[c].group}

\* Mutant: whatever was accepted counts as verified.
VerifiedRecords(c) == {Claim(call[c].jobs[i].text, "verified") : i \in GroupJobs(c)}

Records(c) ==
    {Claim(call[c].jobs[i].text, IF call[c].jobs[i].is.said THEN "user-stated" ELSE "verified") :
        i \in GroupJobs(c)}

PageClaims(c) == (UNION {b[2] : b \in call[c].base}) \cup Records(c)

\* The body has a number or a link that is in none of the claims nor in the source.
Ungrounded(c) == \E i \in GroupJobs(c) : call[c].jobs[i].text \in Invented

\* The model's answer gives the body, and the name of a new page: that name may be
\* a page's already, whose claims nobody has read.  Without a body nothing is written.
WriteGroup(c) ==
    /\ call[c].pc = "ask"
    /\ \/ /\ call' = [call EXCEPT ![c].pc = "group", ![c].base = {}, ![c].group = NewPage]
          /\ UNCHANGED pages
       \/ \E p \in IF call[c].group = NewPage THEN Page ELSE {call[c].group} :
             /\ pages' = IF Mode(c) = "draft" THEN pages ELSE With(pages, p, PageClaims(c))
             /\ call' = [call EXCEPT
                   ![c].pc = "group", ![c].base = {}, ![c].group = NewPage,
                   ![c].written = IF Mode(c) = "draft" THEN @ ELSE @ \cup {p},
                   ![c].flagged = IF Ungrounded(c) THEN @ \cup {p} ELSE @]
    /\ UNCHANGED <<listed, queue, log, raw, rawIndex, faults>>

ListWritten(c) ==
    /\ call[c].pc = "group" /\ call[c].todo = {}
    /\ listed' = listed \cup call[c].written
    /\ Goto(c, IF call[c].flagged = {} THEN "end" ELSE "flag")
    /\ UNCHANGED <<pages, queue, log, raw, rawIndex, faults>>

FlagWritten(c) ==
    /\ call[c].pc = "flag"
    /\ queue' = queue \cup {Enqueued("claim_review", "invented", p) : p \in call[c].flagged}
    /\ Goto(c, "end")
    /\ UNCHANGED <<pages, listed, log, raw, rawIndex, faults>>

-----------------------------------------------------------------------------

\* Jev, the model, the lock or the disk fails the call.
FailCall(c) ==
    /\ call[c].pc \notin Over \cup {"ready", "jobs"}
    /\ faults < MaxFaults
    /\ faults' = faults + 1
    /\ Goto(c, "failed")
    /\ UNCHANGED store

\* Inside the batch the call fails at once; the other workers go on without it.
FailJob(c, i) ==
    /\ call[c].jobs[i].stage \notin {"done", "failed", "log"}
    /\ faults < MaxFaults
    /\ faults' = faults + 1
    /\ call' = [call EXCEPT ![c].pc = "failed", ![c].jobs[i].stage = "failed"]
    /\ UNCHANGED store

JobStep(c, i) ==
    \/ Judge(c, i) \/ QueueClaim(c, i)
    \/ ReadToAmend(c, i) \/ WriteAmended(c, i) \/ LogClaim(c, i)

CallStep(c) ==
    \/ ChooseName(c) \/ StoreRaw(c) \/ IndexRaw(c) \/ Extract(c)
    \/ ReadLog(c) \/ RaiseRecurring(c) \/ NotePromoted(c)
    \/ StartWriting(c) \/ ReadTarget(c) \/ WriteGroup(c) \/ ListWritten(c) \/ FlagWritten(c)
    \/ \E i \in DOMAIN call[c].jobs : JobStep(c, i)

Next ==
    \E c \in Call :
        \/ CheckDuplicate(c) \/ BeginCapture(c)
        \/ CallStep(c)
        \/ FailCall(c)
        \/ \E i \in DOMAIN call[c].jobs : FailJob(c, i)

Spec == Init /\ [][Next]_vars

-----------------------------------------------------------------------------

JobType == [text : Text, stage : {Stages[k] : k \in DOMAIN Stages} \cup {"reinforcing", "superseding", "failed"},
            is : Outcomes \cup {Undecided}, target : Page \cup {NewPage}]

\* What each file holds and how far a call can be.
TypeOK ==
    /\ DOMAIN pages \subseteq Page /\ listed \subseteq DOMAIN pages
    /\ \A p \in DOMAIN pages : \A x \in pages[p] :
          /\ x.text \in Text /\ x.confirmed \in BOOLEAN
          /\ x.status \in {"verified", "user-stated", "superseded"}
    /\ \A x \in queue : x.page \in Page \cup {NewPage}
    /\ \A k \in DOMAIN log : log[k].text \in Text /\ log[k].action \in Action \cup {"promoted"}
    /\ DOMAIN rawIndex \subseteq {Input[c] : c \in Ingest}
    /\ \A c \in Call : \A i \in DOMAIN call[c].jobs :
          LET j == call[c].jobs[i]
          IN  [text |-> j.text, stage |-> j.stage, is |-> j.is, target |-> j.target] \in JobType
    /\ faults \in 0..MaxFaults

\* What the writer put on a page on its own was filed, on evidence or on somebody's
\* word, in a batch none of whose filed claims is critical.  What was filed on somebody's
\* word stands there as user-stated, and nothing else does, until it is superseded:
\* nobody's word turns into a verified claim, whichever stale copies are written back
\* (decideClaim, resolveWriterMode, claimRecords in write.ts).
PagesAreBacked ==
    /\ TypeOK
    /\ \A p \in DOMAIN pages : \A x \in pages[p] :
          \/ p \in DOMAIN Held /\ x.text \in Held[p]
          \/ \E c \in Call : \E i \in FiledJobs(c) :
                /\ call[c].jobs[i].text = x.text /\ call[c].jobs[i].is.backed
                /\ RequestedMode = "auto" /\ Worst(c) < EscalateCriticality
                /\ x.status # "superseded" =>
                      (x.status = "user-stated" <=> call[c].jobs[i].is.said)

\* Once a call has ended, every claim it left undecided, every contradiction Jev saw,
\* also that of a claim that was turned down, and every page with invented numbers
\* waits in the review queue.
OpenQuestionsAreQueued ==
    \A c \in Call : call[c].pc = "end" =>
        /\ \A i \in DOMAIN call[c].jobs :
              LET j == call[c].jobs[i]
                  Queued(kind) == \E x \in queue : x.kind = kind /\ x.text = j.text
              IN  /\ j.is.action = "review" => Queued("claim_review")
                  /\ j.is.relation = "contradicts" => Queued("dispute")
        /\ \A p \in call[c].flagged : Enqueued("claim_review", "invented", p) \in queue

\* When all calls are over and none failed, what came up Recurs times in whatever
\* sessions and was never taken has been raised for review (promoteRecurring).
RecurringIsRaised ==
    faults = 0 /\ (\A c \in Call : call[c].pc \in Over \cup {"ready"}) =>
        \A t \in Text :
            LET g == Group(t)
            IN  Cardinality(g) >= Recurs /\ (\A k \in g : log[k].action \notin Accepted) =>
                    /\ \E k \in g : log[k].action = "promoted"
                    /\ \E x \in queue : x.kind = "claim_review" /\ x.text \in Alike[t]

\* A source that an ingest is done with is in the raw index; and unless a step failed,
\* every claim of it was adjudicated by an ingest, or is about to be: the duplicate
\* test drops nothing.  The raw index leads from a source to a file that holds it, unless
\* another call chose the same free name before either wrote its file (writeRawSource).
NothingIngestedIsDropped ==
    /\ \A c \in Ingest : call[c].pc \in {"end", "duplicate"} =>
          /\ Input[c] \in DOMAIN rawIndex
          /\ faults = 0 => \E e \in Ingest :
                /\ Input[e] = Input[c]
                /\ call[e].pc \in {"extract", "jobs", "write", "group", "ask", "flag", "end"}
                /\ call[e].pc = "end" => Len(call[e].jobs) = Len(Items[Input[c]])
    /\ \A d \in DOMAIN rawIndex :
          \/ rawIndex[d] \in DOMAIN raw /\ raw[rawIndex[d]] = d
          \/ \E c, e \in Call : /\ c # e /\ call[c].name = call[e].name
                               /\ call[c].name = rawIndex[d] /\ Input[c] # Input[e]

Loses(p) ==
    \E x \in pages[p] : \A y \in pages'[p] :
        \/ y.text # x.text
        \/ x.status = "superseded" /\ y.status # "superseded"
        \/ x.confirmed /\ ~y.confirmed

StaleWrite(p, held, heldNext) ==
    heldNext = {} /\ \E b \in held : b[1] = p /\ b[2] # pages[p]

\* A page loses a claim, a supersession or a confirmation only to a call that had read
\* it before it changed, or to a new page that took its name unread: one call at a time, on its own pages, keeps everything it finds.
LossesAreStaleWrites ==
    [][\A p \in DOMAIN pages : Loses(p) =>
          \E c \in Call :
              \/ StaleWrite(p, call[c].base, call'[c].base)
              \/ \E i \in DOMAIN call[c].jobs : StaleWrite(p, call[c].jobs[i].base, call'[c].jobs[i].base)
              \/ call[c].pc = "ask" /\ call'[c].pc = "group" /\ p \in call'[c].written
                    /\ ~\E b \in call[c].base : b[1] = p]_vars
=============================================================================
