----------------------------- MODULE WikiStore -----------------------------
(***************************************************************************)
(* The shared files of a wiki and the updates made to them under the wiki  *)
(* lock: updateIndex and appendLog (src/src/wiki/toc.ts), enqueueReview    *)
(* and resolveReview (src/src/review.ts).                                  *)
(*                                                                         *)
(* Each update is a read, a computation on the private copy and a write,   *)
(* inside withWikiLock; updateIndex goes on to write toc.md with its       *)
(* shards and the manifest, each by its own rename.  The lock is the one   *)
(* of WikiLock, with its takeovers, so two updates can overlap.            *)
(***************************************************************************)
EXTENDS WikiLock

CONSTANTS
    Page, Key,  \* as in AtomicStore; a caller appends one log block and
                \* enqueues one review item, both named after it
    NoJob       \* the update of a caller that has none

VARIABLES
    store,     \* index.md, log.md and the review queue
    toc,       \* the pages of toc.md and its shards
    manifest,  \* the pages the manifest was computed from
    job,       \* the update each caller makes, from its read on
    stage,     \* what it does next inside the lock
    copy,      \* what it read
    torn,      \* history: the last updateIndex that wrote index.md did not finish
    lost       \* history: some caller's lock was deleted under it

Atomic == INSTANCE AtomicStore WITH Block <- Proc, ItemId <- Proc

storeVars == <<store, toc, manifest, job, stage, copy, torn, lost>>
allVars == <<vars, storeVars>>

Stages == {"read", "write", "toc", "manifest", "done"}

Fact == Page \cup Proc \cup Atomic!Item

Content(r) ==
    CASE r = "index" -> Page
      [] r = "log"   -> Proc
      [] r = "queue" -> Atomic!Item

File(p) == Atomic!ResourceOf(job[p])

\* An updateIndex between its write of index.md and its last one.
MidUpdate(p) == stage[p] \in {"toc", "manifest"}

StoreTypeOK ==
    /\ store \in [Atomic!Resource -> SUBSET Fact]
    /\ \A r \in Atomic!Resource : store[r] \subseteq Content(r)
    /\ toc \subseteq Page
    /\ manifest \subseteq Page
    /\ job \in [Proc -> Atomic!Update \cup {NoJob}]
    /\ stage \in [Proc -> Stages]
    /\ copy \in [Proc -> SUBSET Fact]
    /\ \A p \in Proc : stage[p] # "read" =>
          pc[p] = "fn" /\ job[p] \in Atomic!Update /\ copy[p] \subseteq Content(File(p))
    /\ \A p \in Proc : MidUpdate(p) => File(p) = "index"
    /\ torn \in BOOLEAN
    /\ lost \in BOOLEAN

StoreInit ==
    /\ Init
    /\ Atomic!Init
    /\ toc = {}
    /\ manifest = {}
    /\ job = [p \in Proc |-> NoJob]
    /\ stage = [p \in Proc |-> "read"]
    /\ copy = [p \in Proc |-> {}]
    /\ torn = FALSE
    /\ lost = FALSE

\* The updates p may make now: its own block or item once, or any other.
MayMake(p, u) ==
    /\ u.op = "append" => u.block = p
    /\ u.op = "enqueue" => u.id = p /\ \A i \in store["queue"] : i.id # p

Forget(p) ==
    /\ job' = [job EXCEPT ![p] = NoJob]
    /\ stage' = [stage EXCEPT ![p] = "read"]
    /\ copy' = [copy EXCEPT ![p] = {}]

-----------------------------------------------------------------------------

\* The steps of the lock itself: nothing is read or written before it is held.
LockStep(p) ==
    /\ \/ Begin(p) \/ OpenSucceeds(p) \/ OpenFindsFile(p) \/ WriteInfo(p) \/ WriteFails(p)
       \/ ReadLock(p) \/ Decide(p) \/ RemoveFound(p) \/ Release(p)
    /\ UNCHANGED <<store, toc, manifest, job, stage, copy, torn>>

In(p, s) == pc[p] = "fn" /\ stage[p] = s

\* Mutant: the file is read before the lock is taken.
ReadFileEarly(p) ==
    /\ pc[p] \in {"open", "fn"} /\ stage[p] = "read"
    /\ \E u \in Atomic!Update : MayMake(p, u) /\ job' = [job EXCEPT ![p] = u]
    /\ copy' = [copy EXCEPT ![p] = store[File(p)']]
    /\ stage' = [stage EXCEPT ![p] = "write"]
    /\ UNCHANGED <<vars, store, toc, manifest, torn>>

ReadFile(p) ==
    /\ In(p, "read")
    /\ \E u \in Atomic!Update : MayMake(p, u) /\ job' = [job EXCEPT ![p] = u]
    /\ copy' = [copy EXCEPT ![p] = store[File(p)']]
    /\ stage' = [stage EXCEPT ![p] = "write"]
    /\ UNCHANGED <<vars, store, toc, manifest, torn>>

WriteFile(p) ==
    /\ In(p, "write")
    /\ store' = [store EXCEPT ![File(p)] = Atomic!Apply(job[p], copy[p])]
    /\ stage' = [stage EXCEPT ![p] = IF File(p) = "index" THEN "toc" ELSE "done"]
    /\ UNCHANGED <<vars, toc, manifest, job, copy, torn>>

\* Mutant: toc.md is made from the entries as they were read.
WriteTocUnchanged(p) ==
    /\ In(p, "toc")
    /\ toc' = copy[p]
    /\ stage' = [stage EXCEPT ![p] = "manifest"]
    /\ UNCHANGED <<vars, store, manifest, job, copy, torn>>

WriteToc(p) ==
    /\ In(p, "toc")
    /\ toc' = Atomic!Apply(job[p], copy[p])
    /\ stage' = [stage EXCEPT ![p] = "manifest"]
    /\ UNCHANGED <<vars, store, manifest, job, copy, torn>>

WriteManifest(p) ==
    /\ In(p, "manifest")
    /\ manifest' = Atomic!Apply(job[p], copy[p])
    /\ stage' = [stage EXCEPT ![p] = "done"]
    /\ torn' = FALSE
    /\ UNCHANGED <<vars, store, toc, job, copy>>

\* The update returns, or one of its reads or writes throws; the lock's finally
\* block releases the lock in both cases.
FnReturns(p) ==
    /\ FnEnds(p)
    /\ Forget(p)
    /\ torn' = (torn \/ MidUpdate(p))
    /\ UNCHANGED <<store, toc, manifest>>

Dies(p) ==
    /\ Crash(p)
    /\ Forget(p)
    /\ torn' = (torn \/ MidUpdate(p))
    /\ UNCHANGED <<store, toc, manifest>>

TimePasses == Tick /\ UNCHANGED <<store, toc, manifest, job, stage, copy, torn>>

Body(p) == ReadFile(p) \/ WriteFile(p) \/ WriteToc(p) \/ WriteManifest(p) \/ FnReturns(p)

StoreNext ==
    /\ \/ \E p \in Proc : LockStep(p) \/ Body(p) \/ Dies(p)
       \/ TimePasses
    /\ lost' = (lost \/ evicted' # {})

StoreSpec == StoreInit /\ [][StoreNext]_allVars

-----------------------------------------------------------------------------

\* As long as nobody's lock is deleted under it, every write of a shared file is
\* one atomic update of its current content: no update is lost, whatever crashes
\* (CHANGELOG.md:423; toc.ts:169-182, 195-207; review.ts:62-109).
UpdatesAreAtomic == [][lost' \/ Atomic!Next]_store

\* index.md, toc.md and the manifest describe the same pages whenever no
\* updateIndex is at work and the last one that touched index.md was not cut
\* short (toc.ts:177-178).
TocFollowsIndex ==
    ~lost /\ ~torn /\ (\A p \in Proc : ~MidUpdate(p))
        => toc = store["index"] /\ manifest = store["index"]

\* The duplicate test of enqueueReview and its write are one critical section: a
\* claim is never open twice (review.ts:66-80).
OneOpenItemPerKey ==
    ~lost => \A i, j \in store["queue"] :
                i.status = "open" /\ j.status = "open" /\ i.key = j.key => i = j
=============================================================================
