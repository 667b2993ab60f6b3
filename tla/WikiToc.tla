------------------------------- MODULE WikiToc -------------------------------
(***************************************************************************)
(* The pages of a wiki and the table of contents that describes them:      *)
(* wiki_finalize and wiki_remove (src/src/extension.ts), the TOC           *)
(* reconciliation of wiki_lint with autoFix (src/src/lint.ts) and          *)
(* updateIndex (src/src/wiki/toc.ts).                                      *)
(*                                                                         *)
(* A page is read, compared or deleted before updateIndex takes the lock,  *)
(* so what a session puts into the index may be out of date by the time it *)
(* gets there.  The lock is taken as exclusive here; WikiStore says when   *)
(* it is.                                                                  *)
(*                                                                         *)
(* A page's version stands for what an index entry is compared by: its     *)
(* updated date and its summary.                                           *)
(***************************************************************************)
EXTENDS Integers, FiniteSets

CONSTANTS
    Session, PageFile,
    Unheld,       \* the wiki lock is free
    MaxVersion,  \* bound: how often a page is written
    MaxFailures  \* bound: how many calls are cut short

ASSUME UnheldIsNoSession == Unheld \notin Session
ASSUME TocBoundsAreNat == MaxVersion \in Nat /\ MaxFailures \in Nat

VARIABLES
    pages,     \* the version in each page's file, 0 if there is none
    written,   \* how often each page was written
    index,     \* the version each entry of index.md describes, 0 if none
    lock,      \* the holder of the wiki lock
    step,      \* what each session does next
    todo,      \* the files its lint has listed and not read yet
    upserts,   \* the entries it is going to put into the index, 0 for none
    deletes,   \* the entries it is going to take out
    failures   \* how many calls were cut short

tocVars == <<pages, written, index, lock, step, todo, upserts, deletes, failures>>

Version == 0 .. MaxVersion
NoEntries == [p \in PageFile |-> 0]

TocTypeOK ==
    /\ {pages, written, index} \subseteq [PageFile -> Version]
    /\ lock \in Session \cup {Unheld}
    /\ step \in [Session -> {"idle", "scan", "update", "manifest"}]
    /\ todo \in [Session -> SUBSET PageFile]
    /\ upserts \in [Session -> [PageFile -> Version]]
    /\ deletes \in [Session -> SUBSET PageFile]
    /\ failures \in 0 .. MaxFailures
    /\ \A s \in Session : lock = s <=> step[s] = "manifest"

TocInit ==
    /\ pages = NoEntries /\ written = NoEntries
    /\ index = NoEntries
    /\ lock = Unheld
    /\ step = [s \in Session |-> "idle"]
    /\ todo = [s \in Session |-> {}]
    /\ upserts = [s \in Session |-> NoEntries]
    /\ deletes = [s \in Session |-> {}]
    /\ failures = 0

Exists(p) == pages[p] # 0

-----------------------------------------------------------------------------

\* writePage: by the agent, the writer, sync or a review; none holds the lock.
WritePage(p) ==
    /\ written[p] < MaxVersion
    /\ written' = [written EXCEPT ![p] = @ + 1]
    /\ pages' = [pages EXCEPT ![p] = written[p] + 1]
    /\ UNCHANGED <<index, lock, step, todo, upserts, deletes, failures>>

\* wiki_finalize up to its call of updateIndex: a missing page is reported as
\* broken and contributes no entry, but the index is rewritten all the same.
Finalize(s, p) ==
    /\ step[s] = "idle"
    /\ upserts' = [upserts EXCEPT ![s][p] = pages[p]]
    /\ step' = [step EXCEPT ![s] = "update"]
    /\ UNCHANGED <<pages, written, index, lock, todo, deletes, failures>>

\* wiki_remove up to its call of updateIndex.  A page whose file is missing is
\* refused, so its entry, if it has one, is not taken out.
Remove(s, p) ==
    /\ step[s] = "idle"
    /\ deletes' = [deletes EXCEPT ![s] = IF Exists(p) THEN {p} ELSE {}]
    /\ pages' = [pages EXCEPT ![p] = 0]
    /\ step' = [step EXCEPT ![s] = "update"]
    /\ UNCHANGED <<written, index, lock, todo, upserts, failures>>

\* runLint lists the files, then reads them one by one.
LintLists(s) ==
    /\ step[s] = "idle"
    /\ todo' = [todo EXCEPT ![s] = {p \in PageFile : Exists(p)}]
    /\ step' = [step EXCEPT ![s] = "scan"]
    /\ UNCHANGED <<pages, written, index, lock, upserts, deletes, failures>>

LintReads(s, p) ==
    /\ step[s] = "scan"
    /\ p \in todo[s]
    /\ todo' = [todo EXCEPT ![s] = @ \ {p}]
    /\ upserts' = [upserts EXCEPT ![s][p] = pages[p]]
    /\ UNCHANGED <<pages, written, index, lock, step, deletes, failures>>

\* Mutant: only missing entries are put in, outdated ones are left.
LintComparesPaths(s) ==
    LET fresh == [p \in PageFile |-> IF index[p] # 0 THEN 0 ELSE upserts[s][p]]
    IN  /\ step[s] = "scan"
        /\ todo[s] = {}
        /\ upserts' = [upserts EXCEPT ![s] = fresh]
        /\ step' = [step EXCEPT ![s] = IF fresh = NoEntries THEN "idle" ELSE "update"]
        /\ UNCHANGED <<pages, written, index, lock, todo, deletes, failures>>

\* It compares them with the index, read without the lock, and keeps the entries
\* that are missing or differ.  Entries without a file are only reported.
LintCompares(s) ==
    LET fresh == [p \in PageFile |-> IF upserts[s][p] = index[p] THEN 0 ELSE upserts[s][p]]
    IN  /\ step[s] = "scan"
        /\ todo[s] = {}
        /\ upserts' = [upserts EXCEPT ![s] = fresh]
        /\ step' = [step EXCEPT ![s] = IF fresh = NoEntries THEN "idle" ELSE "update"]
        /\ UNCHANGED <<pages, written, index, lock, todo, deletes, failures>>

\* updateIndex takes the lock, reads the index, applies the mutator and writes
\* index.md; toc.md, the shards and the manifest follow under the same lock.
Updated(s, p) ==
    IF p \in deletes[s] THEN 0
    ELSE IF upserts[s][p] # 0 THEN upserts[s][p]
    ELSE index[p]

\* Mutant: updateIndex without withWikiLock.
UpdateIndexUnlocked(s) ==
    /\ step[s] = "update"
    /\ lock' = s
    /\ index' = [p \in PageFile |-> Updated(s, p)]
    /\ upserts' = [upserts EXCEPT ![s] = NoEntries]
    /\ deletes' = [deletes EXCEPT ![s] = {}]
    /\ step' = [step EXCEPT ![s] = "manifest"]
    /\ UNCHANGED <<pages, written, todo, failures>>

UpdateIndex(s) ==
    /\ step[s] = "update"
    /\ lock = Unheld
    /\ lock' = s
    /\ index' = [p \in PageFile |-> Updated(s, p)]
    /\ upserts' = [upserts EXCEPT ![s] = NoEntries]
    /\ deletes' = [deletes EXCEPT ![s] = {}]
    /\ step' = [step EXCEPT ![s] = "manifest"]
    /\ UNCHANGED <<pages, written, todo, failures>>

\* Its last write, the manifest; the lock is released after it.
FinishUpdate(s) ==
    /\ step[s] = "manifest"
    /\ lock' = Unheld
    /\ step' = [step EXCEPT ![s] = "idle"]
    /\ UNCHANGED <<pages, written, index, todo, upserts, deletes, failures>>

\* The call is cut short: the session dies (its lock is then taken over and another
\* session takes its place), a write throws, or the wait for the lock times out.
Fail(s) ==
    /\ failures < MaxFailures
    /\ step[s] # "idle"
    /\ failures' = failures + 1
    /\ lock' = IF lock = s THEN Unheld ELSE lock
    /\ step' = [step EXCEPT ![s] = "idle"]
    /\ todo' = [todo EXCEPT ![s] = {}]
    /\ upserts' = [upserts EXCEPT ![s] = NoEntries]
    /\ deletes' = [deletes EXCEPT ![s] = {}]
    /\ UNCHANGED <<pages, written, index>>

Continue(s) ==
    \/ \E p \in PageFile : LintReads(s, p)
    \/ LintCompares(s) \/ UpdateIndex(s) \/ FinishUpdate(s)

TocNext ==
    \/ \E p \in PageFile : WritePage(p)
    \/ \E s \in Session :
          \/ \E p \in PageFile : Finalize(s, p) \/ Remove(s, p)
          \/ LintLists(s) \/ Continue(s) \/ Fail(s)

TocSpec == TocInit /\ [][TocNext]_tocVars

\* A call that has begun goes on unless it is one of those that fail; nobody is
\* obliged to begin one.  Weak fairness is enough: a lock that is held is released.
TocFairSpec == TocSpec /\ \A s \in Session : WF_tocVars(Continue(s))

-----------------------------------------------------------------------------

\* However finalizes and lints with outdated entries overtake each other, once
\* the pages rest and linting goes on, every page is listed with what it says
\* (lint.ts:133-154, toc.ts:138-182).
IndexConverges ==
    (\E s \in Session : []<>(step[s] = "scan"))
        => <>[](\A p \in PageFile : Exists(p) => index[p] = pages[p])

=============================================================================
