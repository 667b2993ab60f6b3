----------------------------- MODULE WikiUpkeep -----------------------------
(***************************************************************************)
(* The upkeep of a page's claims: wiki_sync re-checks the claims whose     *)
(* files changed since the last synced commit (src/src/sync.ts, git.ts),   *)
(* and wiki_review applies the resolutions of queued items                 *)
(* (src/src/extension.ts, src/src/review.ts).                              *)
(*                                                                         *)
(* Both keep a copy of the page across awaits (Jev calls, a user's         *)
(* confirmation) and write it back without a lock; the review queue is     *)
(* updated atomically (WikiStore).  All claims are on one page.  History   *)
(* is linear, and no commit brings a file back to a content it had before. *)
(***************************************************************************)
EXTENDS Integers, Sequences, FiniteSets

CONSTANTS
    Claim,
    UserStated,  \* the claims filed as user-stated
    Session,
    WithUI,      \* the sessions that can ask the user
    MaxClaims,   \* options.maxClaims: how many claims one sync checks
    Verdicts,    \* the impacts Jev may find
    Asked,       \* the resolutions the agents ask for
    MaxCommits,  \* bound on the commits
    MaxFiles,    \* bound on the claims whose files one commit touches
    MaxItems     \* bound on the review items

ASSUME UpkeepBoundsAreNat == {MaxClaims, MaxCommits, MaxFiles, MaxItems} \subseteq Nat
ASSUME UserStatedAreClaims == UserStated \subseteq Claim

VARIABLES
    commits,   \* the claims whose files each commit writes, and those whose files it
               \* deletes or renames
    baseline,  \* state.lastSyncCommit, None before the first sync
    page,      \* the status of each claim in the page's frontmatter
    queue,     \* the review items, in the order of their creation
    step,      \* what each session does next
    target,    \* sync: headCommit when it began
    seenHead,  \* sync: HEAD when it computed the changed files
    data,      \* the page each session read
    toCheck,   \* sync: the claims left to check
    checking,  \* sync: the claims this run checks
    omitted,   \* sync: the claims with changes this run does not look at
    item,      \* review: the index of the item
    wanted,    \* review: the resolution asked for
    approved,  \* review: whether the user confirmed it
    settled    \* history: the commit up to which each claim is checked or was left out by
               \* a sync that moved the baseline there

upkeepVars == <<commits, baseline, page, queue, step, target, seenHead, data, toCheck,
                checking, omitted, item, wanted, approved, settled>>

None == -1
HEAD == Len(commits)

Diff == {d \in [writes : SUBSET Claim, deletes : SUBSET Claim] : d.writes \cap d.deletes = {}}

Status == {"verified", "user-stated", "needs_recheck", "superseded", "disputed", "rejected"}
Impact == {"no_impact", "needs_recheck", "supersede", "contradict"}
Resolution == {"accept", "reject", "supersede", "defer", "out_of_scope"}
Item == [claim : Claim, kind : {"needs_recheck", "dispute"}, critical : BOOLEAN,
         status : {"open", "resolved", "deferred"}]

ASSUME InputsAreAnswers == Verdicts \subseteq Impact /\ Asked \subseteq Resolution

Steps == {"idle", "diff", "collect", "judge", "write", "finish",
          "confirm", "read", "apply", "resolve"}

TypeOK ==
    /\ commits \in Seq(Diff)
    /\ baseline \in None .. HEAD
    /\ page \in [Claim -> Status]
    /\ queue \in Seq(Item)
    /\ step \in [Session -> Steps]
    /\ {target, seenHead} \subseteq [Session -> 0 .. HEAD]
    /\ data \in [Session -> [Claim -> Status]]
    /\ {toCheck, checking, omitted} \subseteq [Session -> SUBSET Claim]
    /\ item \in [Session -> 0 .. Len(queue)]
    /\ wanted \in [Session -> Resolution]
    /\ approved \in [Session -> BOOLEAN]
    /\ settled \in [Claim -> 0 .. HEAD]
    /\ \A s \in Session :
          item[s] \in DOMAIN queue <=> step[s] \in {"confirm", "read", "apply", "resolve"}

Filed == [c \in Claim |-> IF c \in UserStated THEN "user-stated" ELSE "verified"]

Init ==
    /\ commits = <<>>
    /\ baseline = None
    /\ page = Filed
    /\ queue = <<>>
    /\ step = [s \in Session |-> "idle"]
    /\ target = [s \in Session |-> 0] /\ seenHead = [s \in Session |-> 0]
    /\ data = [s \in Session |-> Filed]
    /\ toCheck = [s \in Session |-> {}] /\ checking = [s \in Session |-> {}]
    /\ omitted = [s \in Session |-> {}]
    /\ item = [s \in Session |-> 0]
    /\ wanted = [s \in Session |-> "defer"]
    /\ approved = [s \in Session |-> FALSE]
    /\ settled = [c \in Claim |-> 0]

WrittenIn(from, to) == {c \in Claim : \E n \in from + 1 .. to : c \in commits[n].writes}

Exists(c, at) ==
    \A n \in 1 .. at : c \in commits[n].deletes => \E m \in n + 1 .. at : c \in commits[m].writes

\* git diff --name-only --diff-filter=ACMR from..to: the files whose content differs
\* and that are there in the end; a deleted file and the old name of a renamed one
\* are not listed.
Changed(from, to) == {c \in WrittenIn(from, to) : Exists(c, to)}

Goto(s, st) == step' = [step EXCEPT ![s] = st]

\* A call ends, or is cut short, and forgets what it held.
Forget(s) ==
    /\ Goto(s, "idle")
    /\ target' = [target EXCEPT ![s] = 0]
    /\ seenHead' = [seenHead EXCEPT ![s] = 0]
    /\ data' = [data EXCEPT ![s] = Filed]
    /\ toCheck' = [toCheck EXCEPT ![s] = {}]
    /\ checking' = [checking EXCEPT ![s] = {}]
    /\ omitted' = [omitted EXCEPT ![s] = {}]
    /\ item' = [item EXCEPT ![s] = 0]
    /\ wanted' = [wanted EXCEPT ![s] = "defer"]
    /\ approved' = [approved EXCEPT ![s] = FALSE]

syncLocals == <<target, seenHead, toCheck, checking, omitted>>
reviewLocals == <<item, wanted, approved>>

-----------------------------------------------------------------------------

Commit(diff) ==
    /\ HEAD < MaxCommits
    /\ Cardinality(diff.writes \cup diff.deletes) \in 1 .. MaxFiles
    /\ \A c \in diff.deletes : Exists(c, HEAD)
    /\ commits' = Append(commits, diff)
    /\ UNCHANGED <<baseline, page, queue, step, data, syncLocals, reviewLocals, settled>>

\* headCommit, before the state is read.
SyncStart(s) ==
    /\ step[s] = "idle"
    /\ Goto(s, "diff")
    /\ target' = [target EXCEPT ![s] = HEAD]
    /\ UNCHANGED <<commits, baseline, page, queue, seenHead, data, toCheck, checking, omitted,
                   reviewLocals, settled>>

Later(m, n) == IF m < n THEN n ELSE m

Settle(claims, at) ==
    [c \in Claim |-> IF c \in claims THEN Later(settled[c], at) ELSE settled[c]]

\* readSyncState, and changedFiles from the baseline, or from a ref the agent gives, to
\* HEAD.  The first sync of a wiki takes the claims as they are and only sets the
\* baseline; a git failure looks like no change at all.
SyncDiff(s, given, ok) ==
    LET from == IF given = None THEN baseline ELSE given
        changed == IF ok /\ from # None THEN Changed(from, HEAD) ELSE {}
    IN  /\ step[s] = "diff"
        /\ given <= HEAD
        /\ toCheck' = [toCheck EXCEPT ![s] = changed]
        /\ seenHead' = [seenHead EXCEPT ![s] = IF changed = {} THEN 0 ELSE HEAD]
        /\ omitted' = [omitted EXCEPT ![s] =
               IF from = None THEN {}
               ELSE WrittenIn(Later(baseline, 0), IF ok THEN from ELSE HEAD)]
        /\ Goto(s, IF changed = {} THEN "finish" ELSE "collect")
        /\ settled' = IF from = None THEN Settle(Claim, target[s]) ELSE settled
        /\ UNCHANGED <<commits, baseline, page, queue, target, data, checking, reviewLocals>>

\* collectMappedClaims reads the page; of the affected claims the first MaxClaims
\* are checked.
SyncCollect(s, affected) ==
    /\ step[s] = "collect"
    /\ affected \subseteq toCheck[s]
    /\ \/ affected = toCheck[s] /\ Cardinality(affected) <= MaxClaims
       \/ Cardinality(affected) = MaxClaims
    /\ data' = [data EXCEPT ![s] = page]
    /\ toCheck' = [toCheck EXCEPT ![s] = affected]
    /\ checking' = [checking EXCEPT ![s] = affected]
    /\ omitted' = [omitted EXCEPT ![s] = @ \cup (toCheck[s] \ affected)]
    /\ Goto(s, "judge")
    /\ UNCHANGED <<commits, baseline, page, queue, target, seenHead, reviewLocals, settled>>

\* A page that cannot be read is skipped, with all its claims.
SyncSkip(s) ==
    /\ step[s] = "collect"
    /\ toCheck' = [toCheck EXCEPT ![s] = {}]
    /\ omitted' = [omitted EXCEPT ![s] = @ \cup toCheck[s]]
    /\ seenHead' = [seenHead EXCEPT ![s] = 0]
    /\ Goto(s, "finish")
    /\ UNCHANGED <<commits, baseline, page, queue, target, data, checking, reviewLocals, settled>>

StatusAfter(impact, old) ==
    CASE impact = "no_impact"     -> old
      [] impact = "needs_recheck" -> "needs_recheck"
      [] impact = "supersede"     -> "superseded"
      [] impact = "contradict"    -> "disputed"

KindOf(impact) == IF impact = "contradict" THEN "dispute" ELSE "needs_recheck"

HasOpenItem(c, kind) ==
    \E i \in DOMAIN queue : queue[i].claim = c /\ queue[i].kind = kind /\ queue[i].status = "open"

\* Mutant: two items of one kind are duplicates whatever their claims.
EnqueueOncePerKind(c, kind, critical) ==
    IF \E i \in DOMAIN queue : queue[i].kind = kind /\ queue[i].status = "open"
    THEN UNCHANGED queue
    ELSE /\ Len(queue) < MaxItems
         /\ queue' = Append(queue, [claim |-> c, kind |-> kind, critical |-> critical,
                                    status |-> "open"])

\* enqueueReview, under the lock: nothing happens if such an item is open.
Enqueue(c, kind, critical) ==
    IF HasOpenItem(c, kind)
    THEN UNCHANGED queue
    ELSE /\ Len(queue) < MaxItems
         /\ queue' = Append(queue, [claim |-> c, kind |-> kind, critical |-> critical,
                                    status |-> "open"])

\* Jev answers for one claim; the verdict goes into the copy of the page and, if
\* there is an impact, into the queue.  A contradiction is critical by definition.
SyncJudge(s, c, impact, critical) ==
    /\ step[s] = "judge"
    /\ c \in toCheck[s]
    /\ impact = "contradict" => critical
    /\ IF impact = "no_impact" THEN UNCHANGED queue ELSE Enqueue(c, KindOf(impact), critical)
    /\ data' = [data EXCEPT ![s][c] = StatusAfter(impact, @)]
    /\ toCheck' = [toCheck EXCEPT ![s] = @ \ {c}]
    /\ Goto(s, IF toCheck[s] = {c} THEN "write" ELSE "judge")
    /\ UNCHANGED <<commits, baseline, page, target, seenHead, checking, omitted, reviewLocals,
                   settled>>

\* The body is read again, the frontmatter is the one collected at the start; what
\* the session no longer needs is forgotten.
SyncWritePage(s) ==
    /\ step[s] = "write"
    /\ page' = data[s]
    /\ settled' = Settle(checking[s], seenHead[s])
    /\ Goto(s, "finish")
    /\ data' = [data EXCEPT ![s] = Filed]
    /\ seenHead' = [seenHead EXCEPT ![s] = 0]
    /\ checking' = [checking EXCEPT ![s] = {}]
    /\ UNCHANGED <<commits, baseline, queue, target, toCheck, omitted, reviewLocals>>

\* Mutant: HEAD is asked for when the sync ends.
SyncFinishAtHead(s) ==
    /\ step[s] = "finish"
    /\ baseline' = HEAD
    /\ settled' = Settle(omitted[s], target[s])
    /\ Forget(s)
    /\ UNCHANGED <<commits, page, queue>>

\* writeSyncState, with the commit that was HEAD when the sync began.
SyncFinish(s) ==
    /\ step[s] = "finish"
    /\ baseline' = target[s]
    /\ settled' = Settle(omitted[s], target[s])
    /\ Forget(s)
    /\ UNCHANGED <<commits, page, queue>>

-----------------------------------------------------------------------------

\* The agent asks for a resolution of some item, closed ones included; a critical one
\* is not applied without the user.
ReviewStart(s, i, resolution) ==
    /\ step[s] = "idle"
    /\ item' = [item EXCEPT ![s] = i]
    /\ IF queue[i].critical /\ resolution # "defer"
       THEN /\ wanted' = [wanted EXCEPT ![s] = IF s \in WithUI THEN resolution ELSE "defer"]
            /\ Goto(s, IF s \in WithUI THEN "confirm" ELSE "resolve")
       ELSE /\ wanted' = [wanted EXCEPT ![s] = resolution]
            /\ Goto(s, IF resolution = "out_of_scope" THEN "resolve" ELSE "read")
    /\ UNCHANGED <<commits, baseline, page, queue, data, syncLocals, approved, settled>>

\* Mutant: the answer of ctx.ui.confirm is ignored.
UserAnswersUnheard(s, yes) ==
    /\ step[s] = "confirm"
    /\ approved' = [approved EXCEPT ![s] = yes]
    /\ Goto(s, IF wanted[s] # "out_of_scope" THEN "read" ELSE "resolve")
    /\ UNCHANGED <<commits, baseline, page, queue, data, syncLocals, item, wanted, settled>>

\* The user confirms the resolution, or declines and the item is deferred.
UserAnswers(s, yes) ==
    /\ step[s] = "confirm"
    /\ approved' = [approved EXCEPT ![s] = yes]
    /\ wanted' = [wanted EXCEPT ![s] = IF yes THEN @ ELSE "defer"]
    /\ Goto(s, IF yes /\ wanted[s] # "out_of_scope" THEN "read" ELSE "resolve")
    /\ UNCHANGED <<commits, baseline, page, queue, data, syncLocals, item, settled>>

\* applyReviewResolution reads the page ...
ReviewRead(s) ==
    /\ step[s] = "read"
    /\ data' = [data EXCEPT ![s] = page]
    /\ Goto(s, "apply")
    /\ UNCHANGED <<commits, baseline, page, queue, syncLocals, reviewLocals, settled>>

Resolved(resolution, old) ==
    CASE resolution = "accept"    -> IF old = "user-stated" THEN old ELSE "verified"
      [] resolution = "reject"    -> "rejected"
      [] resolution = "supersede" -> "superseded"
      [] OTHER                    -> old

\* ... and writes it with the claim's new status.
ReviewApply(s) ==
    LET c == queue[item[s]].claim
    IN  /\ step[s] = "apply"
        /\ page' = [data[s] EXCEPT ![c] = Resolved(wanted[s], @)]
        /\ data' = [data EXCEPT ![s] = Filed]
        /\ Goto(s, "resolve")
        /\ UNCHANGED <<commits, baseline, queue, syncLocals, reviewLocals, settled>>

\* resolveReview, under the lock: whatever has become of the item meanwhile.
ReviewResolve(s) ==
    /\ step[s] = "resolve"
    /\ queue' = [queue EXCEPT ![item[s]].status =
                    IF wanted[s] = "defer" THEN "deferred" ELSE "resolved"]
    /\ Forget(s)
    /\ UNCHANGED <<commits, baseline, page, settled>>

\* The session dies, or an await of the call throws (Jev, git, a write).
Abandon(s) ==
    /\ step[s] # "idle"
    /\ Forget(s)
    /\ UNCHANGED <<commits, baseline, page, queue, settled>>

Next ==
    \/ \E diff \in Diff : Commit(diff)
    \/ \E s \in Session :
          \/ SyncStart(s)
          \/ \E given \in None .. MaxCommits, ok \in BOOLEAN : SyncDiff(s, given, ok)
          \/ \E affected \in SUBSET Claim : SyncCollect(s, affected)
          \/ SyncSkip(s)
          \/ \E c \in Claim, impact \in Verdicts, critical \in BOOLEAN :
                SyncJudge(s, c, impact, critical)
          \/ SyncWritePage(s) \/ SyncFinish(s)
          \/ \E i \in DOMAIN queue, r \in Asked : ReviewStart(s, i, r)
          \/ \E yes \in BOOLEAN : UserAnswers(s, yes)
          \/ ReviewRead(s) \/ ReviewApply(s) \/ ReviewResolve(s) \/ Abandon(s)

Spec == Init /\ [][Next]_upkeepVars

-----------------------------------------------------------------------------

\* The baseline passes no change of a claim's files unnoticed, however syncs and
\* commits overlap: the claim was checked at that commit or later, a sync that moved the
\* baseline there had left the claim out (more than MaxClaims, a page or a diff that
\* could not be read, a ref given by the agent), or the files were deleted since and
\* git does not list them.  sync.ts:140-157 sets the baseline to the commit it asked
\* for before it computed the diff.
BaselineIsChecked ==
    \A c \in Claim : \A n \in 1 .. baseline :
        c \in commits[n].writes =>
            \/ n <= settled[c]
            \/ \E m \in n + 1 .. HEAD : c \in commits[m].deletes

\* As long as no review has closed an item, a claim that a sync invalidated on the
\* page has an open item in the queue, so somebody is asked about it (sync.ts:221-256,
\* 270-275): the queue is written before the page, whatever dies in between.
InvalidatedIsQueued ==
    (\A i \in DOMAIN queue : queue[i].status = "open") =>
        \A c \in Claim : page[c] \in {"needs_recheck", "superseded", "disputed"}
            => \E kind \in {"needs_recheck", "dispute"} : HasOpenItem(c, kind)

\* A critical item is closed other than by deferring it only in a session whose
\* user confirmed that resolution (extension.ts:1551-1570).
CriticalItemsAreConfirmed ==
    [][\A i \in DOMAIN queue :
          queue[i].critical /\ queue[i].status # "resolved" /\ queue'[i].status = "resolved"
            => \E s \in WithUI : item[s] = i /\ approved[s] /\ item'[s] = 0]_upkeepVars

=============================================================================
