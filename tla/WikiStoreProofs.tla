-------------------------- MODULE WikiStoreProofs --------------------------
(***************************************************************************)
(* Proofs about the wiki lock and the files it protects, for any sets of   *)
(* callers, pages and keys and any bounds.  The lock: its types, who owns  *)
(* the lock file, and that every overlap of two mutations and every        *)
(* release of somebody else's lock goes back to the takeover.  The files:  *)
(* until a caller's lock is deleted under it, every write is an atomic     *)
(* update, toc.md and the manifest follow the index, and no claim is open  *)
(* twice in the review queue.                                              *)
(***************************************************************************)
EXTENDS WikiStore, WikiToc, TLAPS

\* Every variable of the lock keeps its type (lock.ts:44-86).
THEOREM TypeCorrect == Spec => []TypeOK
<1>1. Init => TypeOK
  BY BoundsAreNat DEF Init, TypeOK, NoFile, NothingSeen, Age, Wait, Phases
<1>2. TypeOK /\ [Next]_vars => TypeOK'
  <2> SUFFICES ASSUME TypeOK, [Next]_vars PROVE TypeOK'
    OBVIOUS
  <2> USE BoundsAreNat DEF TypeOK, Phases, Age, Wait
  <2>1. ASSUME NEW p \in Proc, Begin(p) PROVE TypeOK'
    BY <2>1 DEF Begin, Goto
  <2>2. ASSUME NEW p \in Proc, OpenSucceeds(p) PROVE TypeOK'
    BY <2>2 DEF OpenSucceeds, Goto
  <2>3. ASSUME NEW p \in Proc, OpenFindsFile(p) PROVE TypeOK'
    BY <2>3 DEF OpenFindsFile, Goto
  <2>4. ASSUME NEW p \in Proc, WriteInfo(p) PROVE TypeOK'
    BY <2>4 DEF WriteInfo, Goto
  <2>5. ASSUME NEW p \in Proc, WriteFails(p) PROVE TypeOK'
    BY <2>5 DEF WriteFails, Goto
  <2>6. ASSUME NEW p \in Proc, FnEnds(p) PROVE TypeOK'
    BY <2>6 DEF FnEnds, Goto
  <2>7. ASSUME NEW p \in Proc, Release(p) PROVE TypeOK'
    BY <2>7 DEF Release, RemoveFile, NoFile, Goto
  <2>8. ASSUME NEW p \in Proc, ReadLock(p) PROVE TypeOK'
    BY <2>8 DEF ReadLock, Goto
  <2>9. ASSUME NEW p \in Proc, Decide(p) PROVE TypeOK'
    BY <2>9, SMTT(40) DEF Decide, NothingSeen, Goto
  <2>10. ASSUME NEW p \in Proc, RemoveFound(p) PROVE TypeOK'
    BY <2>10 DEF RemoveFound, RemoveFile, NoFile, Goto
  <2>11. ASSUME NEW p \in Proc, Crash(p) PROVE TypeOK'
    BY <2>11 DEF Crash, NothingSeen, Goto
  <2>12. CASE Tick
    <3>1. \A bound \in Nat : \A age \in 0 .. bound + 1 : Older(age, bound) \in 0 .. bound + 1
      BY DEF Older
    <3>2. file' \in [by : Proc \cup {NoOne}, written : BOOLEAN, age : Age]
      BY <2>12, <3>1 DEF Tick
    <3>3. waited' \in [Proc -> Wait]
      BY <2>12, <3>1 DEF Tick
    <3>4. seen' \in [Proc -> [kind : {"nothing", "unreadable", "info"}, age : Age]]
      BY <2>12, <3>1 DEF Tick
    <3> QED BY <2>12, <3>2, <3>3, <3>4 DEF Tick
  <2>13. CASE UNCHANGED vars
    BY <2>13 DEF vars
  <2> QED
    BY <2>1, <2>2, <2>3, <2>4, <2>5, <2>6, <2>7, <2>8, <2>9, <2>10, <2>11, <2>12, <2>13
       DEF Next, Step
<1> QED BY <1>1, <1>2, PTL DEF Spec

-----------------------------------------------------------------------------

(***************************************************************************)
(* OwnsFileOrEvicted is inductive together with the types.  The exclusive  *)
(* create finds no file, so at that moment every other holder is already   *)
(* in evicted; and whoever deletes a file puts its holder there.           *)
(***************************************************************************)

LEMMA OwnershipInit == Init => OwnsFileOrEvicted
  BY DEF Init, OwnsFileOrEvicted, Holder, HolderPhases

LEMMA OwnershipStep ==
  ASSUME TypeOK, OwnsFileOrEvicted, [Next]_vars PROVE OwnsFileOrEvicted'
<1> USE NoOneIsNoProc DEF TypeOK, OwnsFileOrEvicted, Holder, HolderPhases
<1>1. ASSUME NEW p \in Proc, Begin(p) PROVE OwnsFileOrEvicted'
  BY <1>1 DEF Begin, Goto
<1>2. ASSUME NEW p \in Proc, OpenSucceeds(p) PROVE OwnsFileOrEvicted'
  BY <1>2 DEF OpenSucceeds, Goto
<1>3. ASSUME NEW p \in Proc, OpenFindsFile(p) PROVE OwnsFileOrEvicted'
  BY <1>3 DEF OpenFindsFile, Goto
<1>4. ASSUME NEW p \in Proc, WriteInfo(p) PROVE OwnsFileOrEvicted'
  BY <1>4 DEF WriteInfo, Goto
<1>5. ASSUME NEW p \in Proc, WriteFails(p) PROVE OwnsFileOrEvicted'
  BY <1>5 DEF WriteFails, Goto
<1>6. ASSUME NEW p \in Proc, FnEnds(p) PROVE OwnsFileOrEvicted'
  BY <1>6 DEF FnEnds, Goto
<1>7. ASSUME NEW p \in Proc, Release(p) PROVE OwnsFileOrEvicted'
  BY <1>7 DEF Release, RemoveFile, NoFile, Goto
<1>8. ASSUME NEW p \in Proc, ReadLock(p) PROVE OwnsFileOrEvicted'
  BY <1>8 DEF ReadLock, Goto
<1>9. ASSUME NEW p \in Proc, Decide(p) PROVE OwnsFileOrEvicted'
  BY <1>9 DEF Decide, Goto
<1>10. ASSUME NEW p \in Proc, RemoveFound(p) PROVE OwnsFileOrEvicted'
  BY <1>10 DEF RemoveFound, RemoveFile, NoFile, Goto
<1>11. ASSUME NEW p \in Proc, Crash(p) PROVE OwnsFileOrEvicted'
  BY <1>11 DEF Crash, Goto
<1>12. CASE Tick
  BY <1>12 DEF Tick
<1>13. CASE UNCHANGED vars
  BY <1>13 DEF vars
<1> QED
  BY <1>1, <1>2, <1>3, <1>4, <1>5, <1>6, <1>7, <1>8, <1>9, <1>10, <1>11, <1>12, <1>13
     DEF Next, Step

\* A holder whose file nobody deleted owns the file under the lock's name
\* (lock.ts:54-55, 68, 84).
THEOREM Ownership == Spec => []OwnsFileOrEvicted
<1>1. TypeOK /\ OwnsFileOrEvicted /\ [Next]_vars => OwnsFileOrEvicted'
  BY OwnershipStep
<1> QED BY <1>1, OwnershipInit, TypeCorrect, PTL DEF Spec

\* Mutual exclusion up to the takeover: of two callers inside their mutation one
\* has had its lock deleted (lock.ts:54, 60-70).
THEOREM OverlapNeedsEviction == Spec => []OverlapOnlyAfterEviction
<1>1. OwnsFileOrEvicted => OverlapOnlyAfterEviction
  BY DEF OwnsFileOrEvicted, OverlapOnlyAfterEviction, Holder, HolderPhases
<1> QED BY <1>1, Ownership, PTL

\* A release deletes another caller's lock only if the releaser's own lock was
\* deleted first (lock.ts:84).
THEOREM ReleaseIsInnocent == Spec => ReleaseEvictsOnlyAfterEviction
<1> DEFINE Innocent ==
      \A p \in Proc : pc[p] = "release" /\ pc'[p] = "idle" /\ p \notin evicted
         => evicted' \subseteq evicted
<1>1. TypeOK /\ OwnsFileOrEvicted /\ [Next]_vars => [Innocent]_vars
  <2> SUFFICES ASSUME TypeOK, OwnsFileOrEvicted, Next,
                      NEW p \in Proc, pc[p] = "release", pc'[p] = "idle", p \notin evicted
               PROVE  evicted' \subseteq evicted
    BY DEF vars
  <2> USE DEF TypeOK
  <2>1. file.by = p
    BY DEF OwnsFileOrEvicted, Holder, HolderPhases
  <2>2. ASSUME NEW q \in Proc, Release(q) PROVE evicted' \subseteq evicted
    <3>1. q = p
      BY <2>2 DEF Release, Goto
    <3> QED BY <2>1, <2>2, <3>1 DEF Release, RemoveFile
  <2>3. ASSUME NEW q \in Proc, RemoveFound(q) PROVE FALSE
    BY <2>3 DEF RemoveFound, Goto
  <2>4. ASSUME NEW q \in Proc,
               Begin(q) \/ OpenSucceeds(q) \/ OpenFindsFile(q) \/ WriteInfo(q)
                 \/ WriteFails(q) \/ FnEnds(q) \/ ReadLock(q) \/ Decide(q) \/ Crash(q)
        PROVE  evicted' \subseteq evicted
    BY <2>4 DEF Begin, OpenSucceeds, OpenFindsFile, WriteInfo, WriteFails, FnEnds,
                ReadLock, Decide, Crash
  <2>5. CASE Tick
    BY <2>5 DEF Tick
  <2> QED BY <2>2, <2>3, <2>4, <2>5 DEF Next, Step
<1> QED BY <1>1, TypeCorrect, Ownership, PTL DEF Spec, ReleaseEvictsOnlyAfterEviction

-----------------------------------------------------------------------------

(***************************************************************************)
(* A step of the store is a step of the lock or leaves the lock alone, so  *)
(* the lock's invariants carry over.  The rest is the invariant Inside:    *)
(* what a caller inside its mutation has read is what the file still       *)
(* holds.                                                                  *)
(***************************************************************************)

LEMMA StoreStepIsLockStep == [StoreNext]_allVars => [Next]_vars
  BY DEF StoreNext, LockStep, Body, ReadFile, WriteFile, WriteToc, WriteManifest,
         FnReturns, Dies, TimePasses, Next, Step, allVars, vars

LEMMA StoreImplementsLock == StoreSpec => Spec
<1>1. StoreInit => Init
  BY DEF StoreInit
<1> QED BY <1>1, StoreStepIsLockStep, PTL DEF StoreSpec, Spec

-----------------------------------------------------------------------------

(***************************************************************************)
(* What an update makes of a file's content.                               *)
(***************************************************************************)

LEMMA ResourceOfUpdate ==
  ASSUME NEW u \in Atomic!Update PROVE Atomic!ResourceOf(u) \in Atomic!Resource
  BY DEF Atomic!Update, Atomic!ResourceOf, Atomic!Resource

LEMMA ApplyTyped ==
  ASSUME NEW u \in Atomic!Update, NEW c, c \subseteq Content(Atomic!ResourceOf(u))
  PROVE  Atomic!Apply(u, c) \subseteq Content(Atomic!ResourceOf(u))
<1> USE DEF Content, Atomic!ResourceOf, Atomic!Apply
<1>1. CASE u \in [op : {"upsert", "remove"}, page : Page]
  BY <1>1
<1>2. CASE u \in [op : {"append"}, block : Proc]
  BY <1>2
<1>3. CASE u \in [op : {"enqueue"}, id : Proc, key : Key]
  BY <1>3 DEF Atomic!Enqueue, Atomic!Item
<1>4. CASE u \in [op : {"resolve"}, id : Proc, status : {"resolved", "deferred"}]
  BY <1>4 DEF Atomic!Resolve, Atomic!Item
<1> QED BY <1>1, <1>2, <1>3, <1>4 DEF Atomic!Update

OneOpen(items) ==
    \A i, j \in items :
        i.status = "open" /\ j.status = "open" /\ i.key = j.key => i = j

LEMMA ApplyKeepsOneOpen ==
  ASSUME NEW u \in Atomic!Update, NEW c \in SUBSET Atomic!Item, OneOpen(c),
         Atomic!ResourceOf(u) = "queue"
  PROVE  OneOpen(Atomic!Apply(u, c))
<1> USE DEF OneOpen, Atomic!ResourceOf, Atomic!Apply
<1>1. CASE u \in [op : {"enqueue"}, id : Proc, key : Key]
  BY <1>1 DEF Atomic!Enqueue, Atomic!Item
<1>2. CASE u \in [op : {"resolve"}, id : Proc, status : {"resolved", "deferred"}]
  BY <1>2 DEF Atomic!Resolve, Atomic!Item
<1> QED BY <1>1, <1>2 DEF Atomic!Update

-----------------------------------------------------------------------------

\* The store's variables keep their types: an update never writes into a file
\* what belongs in another (toc.ts:169-207, review.ts:62-109).
LEMMA StoreTypeStep ==
  ASSUME StoreTypeOK, TypeOK, [StoreNext]_allVars PROVE StoreTypeOK'
<1> USE DEF StoreTypeOK, Stages, File, MidUpdate
<1>1. ASSUME NEW p \in Proc, LockStep(p), lost' = (lost \/ evicted' # {}) PROVE StoreTypeOK'
  BY <1>1 DEF LockStep, TypeOK, Begin, OpenSucceeds, OpenFindsFile, WriteInfo, WriteFails,
              ReadLock, Decide, RemoveFound, Release, Goto
<1>2. ASSUME NEW p \in Proc, ReadFile(p), lost' = (lost \/ evicted' # {}) PROVE StoreTypeOK'
  <2>1. PICK u \in Atomic!Update : job' = [job EXCEPT ![p] = u]
    BY <1>2 DEF ReadFile
  <2>2. Atomic!ResourceOf(u) \in Atomic!Resource
    BY ResourceOfUpdate
  <2>3. copy' = [copy EXCEPT ![p] = store[Atomic!ResourceOf(u)]]
    BY <1>2, <2>1 DEF ReadFile
  <2>4. UNCHANGED <<store, toc, manifest, torn, pc>> /\ pc[p] = "fn"
           /\ stage' = [stage EXCEPT ![p] = "write"]
    BY <1>2 DEF ReadFile, In, vars
  <2> QED BY <1>2, <2>1, <2>2, <2>3, <2>4
<1>3. ASSUME NEW p \in Proc, WriteFile(p), lost' = (lost \/ evicted' # {}) PROVE StoreTypeOK'
  <2>1. /\ job[p] \in Atomic!Update /\ copy[p] \subseteq Content(File(p))
        /\ File(p) \in Atomic!Resource
    BY <1>3, ResourceOfUpdate DEF WriteFile, In
  <2>2. Atomic!Apply(job[p], copy[p]) \subseteq Content(File(p))
    BY <2>1, ApplyTyped
  <2>3. Content(File(p)) \subseteq Fact
    BY <2>1 DEF Content, Fact, Atomic!Resource
  <2> QED BY <1>3, <2>1, <2>2, <2>3 DEF WriteFile, In, vars
<1>4. ASSUME NEW p \in Proc, MidUpdate(p)
      PROVE  Atomic!Apply(job[p], copy[p]) \subseteq Page
  BY <1>4, ApplyTyped DEF Content
<1>5. ASSUME NEW p \in Proc, WriteToc(p), lost' = (lost \/ evicted' # {}) PROVE StoreTypeOK'
  <2>1. Atomic!Apply(job[p], copy[p]) \subseteq Page
    BY <1>4, <1>5 DEF WriteToc, In
  <2> QED BY <1>5, <2>1 DEF WriteToc, In, vars
<1>6. ASSUME NEW p \in Proc, WriteManifest(p), lost' = (lost \/ evicted' # {}) PROVE StoreTypeOK'
  <2>1. Atomic!Apply(job[p], copy[p]) \subseteq Page
    BY <1>4, <1>6 DEF WriteManifest, In
  <2> QED BY <1>6, <2>1 DEF WriteManifest, In, vars
<1>7. ASSUME NEW p \in Proc, FnReturns(p) \/ Dies(p), lost' = (lost \/ evicted' # {})
      PROVE  StoreTypeOK'
  <2>1. torn' \in BOOLEAN /\ lost' \in BOOLEAN
    BY <1>7, Zenon DEF FnReturns, Dies
  <2>2. /\ pc \in [Proc -> Phases] /\ \E s : pc' = [pc EXCEPT ![p] = s]
        /\ Forget(p) /\ UNCHANGED <<store, toc, manifest>>
    BY <1>7 DEF FnReturns, Dies, FnEnds, Crash, Goto, TypeOK
  <2> QED BY <2>1, <2>2 DEF Forget
<1>8. ASSUME TimePasses, lost' = (lost \/ evicted' # {}) PROVE StoreTypeOK'
  BY <1>8 DEF TimePasses, Tick
<1>9. CASE UNCHANGED allVars
  BY <1>9 DEF allVars, vars, storeVars
<1> QED
  BY <1>1, <1>2, <1>3, <1>5, <1>6, <1>7, <1>8, <1>9 DEF StoreNext, Body

\* Every variable of the store keeps its type (toc.ts:169-207, review.ts:62-109).
THEOREM StoreTypeCorrect == StoreSpec => []StoreTypeOK
<1>1. StoreInit => StoreTypeOK
  BY DEF StoreInit, StoreTypeOK, Init, MidUpdate, Stages, Atomic!Init, Atomic!Resource
<1>2. StoreTypeOK /\ TypeOK /\ [StoreNext]_allVars => StoreTypeOK'
  BY StoreTypeStep
<1> QED BY <1>1, <1>2, StoreImplementsLock, TypeCorrect, PTL DEF StoreSpec

-----------------------------------------------------------------------------

(***************************************************************************)
(* Until an eviction, one caller at most is inside its mutation; what it   *)
(* read is current until it writes, and what it wrote stays until its last *)
(* write.                                                                  *)
(***************************************************************************)

EvictionIsLost == evicted # {} => lost

Inside ==
    ~lost => \A p \in Proc :
        /\ stage[p] = "write" => copy[p] = store[File(p)]
        /\ MidUpdate(p) => store["index"] = Atomic!Apply(job[p], copy[p])
        /\ stage[p] = "manifest" => toc = store["index"]

TypesAndLock == TypeOK /\ OwnsFileOrEvicted /\ StoreTypeOK /\ EvictionIsLost

LEMMA Alone ==
  ASSUME TypesAndLock, ~lost,
         NEW p \in Proc, NEW q \in Proc, pc[p] = "fn", pc[q] = "fn"
  PROVE  p = q
  BY DEF TypesAndLock, EvictionIsLost, OwnsFileOrEvicted, Holder, HolderPhases

LEMMA InsideStep ==
  ASSUME TypesAndLock, Inside, [StoreNext]_allVars PROVE Inside'
<1> SUFFICES ASSUME ~lost', NEW q \in Proc
             PROVE  /\ stage'[q] = "write" => copy'[q] = store'[File(q)']
                    /\ MidUpdate(q)' => store'["index"] = Atomic!Apply(job'[q], copy'[q])
                    /\ stage'[q] = "manifest" => toc' = store'["index"]
  BY DEF Inside
<1> USE DEF Inside, TypesAndLock, StoreTypeOK, File, MidUpdate, Stages
<1>1. ~lost
  BY DEF StoreNext, allVars, storeVars

<1> DEFINE Goal == /\ stage'[q] = "write" => copy'[q] = store'[File(q)']
                   /\ MidUpdate(q)' => store'["index"] = Atomic!Apply(job'[q], copy'[q])
                   /\ stage'[q] = "manifest" => toc' = store'["index"]
<1>2. CASE UNCHANGED <<store, toc, job, stage, copy>>
  BY <1>1, <1>2
<1>3. ASSUME NEW p \in Proc, ReadFile(p) PROVE Goal
  BY <1>1, <1>3 DEF ReadFile
<1>4. ASSUME NEW p \in Proc, WriteFile(p) PROVE Goal
  <2>1. q # p => stage[q] = "read"
    BY <1>1, <1>4, Alone DEF WriteFile, In
  <2>2. File(p) \in Atomic!Resource
    BY <1>4, ResourceOfUpdate DEF WriteFile, In
  <2>3. CASE q = p
    BY <1>4, <2>2, <2>3 DEF WriteFile, In
  <2> QED BY <1>4, <2>1, <2>3 DEF WriteFile, In
<1>5. ASSUME NEW p \in Proc, WriteToc(p) PROVE Goal
  <2>1. q # p => stage[q] = "read"
    BY <1>1, <1>5, Alone DEF WriteToc, In
  <2> QED BY <1>1, <1>5, <2>1 DEF WriteToc, In
<1>6. ASSUME NEW p \in Proc, WriteManifest(p) PROVE Goal
  BY <1>1, <1>6 DEF WriteManifest, In
<1>7. ASSUME NEW p \in Proc, FnReturns(p) \/ Dies(p) PROVE Goal
  BY <1>1, <1>7 DEF FnReturns, Dies, Forget
<1> QED
  BY <1>2, <1>3, <1>4, <1>5, <1>6, <1>7
     DEF StoreNext, Body, LockStep, TimePasses, allVars, storeVars

StoreInv == TypesAndLock /\ Inside

LEMMA StoreInvariant == StoreSpec => []StoreInv
<1>1. StoreInit => StoreInv
  <2>1. StoreInit => Init
    BY DEF StoreInit
  <2>2. StoreInit => EvictionIsLost /\ Inside
    BY DEF StoreInit, Init, EvictionIsLost, Inside, MidUpdate
  <2>3. StoreInit => StoreTypeOK
    BY DEF StoreInit, StoreTypeOK, Init, MidUpdate, Stages, Atomic!Init, Atomic!Resource
  <2>4. Init => TypeOK
    BY BoundsAreNat DEF Init, TypeOK, NoFile, NothingSeen, Age, Wait, Phases
  <2> QED BY <2>1, <2>2, <2>3, <2>4, OwnershipInit DEF StoreInv, TypesAndLock
<1>2. EvictionIsLost /\ [StoreNext]_allVars => EvictionIsLost'
  BY DEF EvictionIsLost, StoreNext, allVars, vars, storeVars
<1>3. TypesAndLock /\ Inside /\ [StoreNext]_allVars => Inside'
  BY InsideStep
<1> QED
  BY <1>1, <1>2, <1>3, StoreTypeCorrect, StoreImplementsLock, TypeCorrect, Ownership, PTL
     DEF StoreSpec, StoreInv, TypesAndLock

\* Until a caller's lock is deleted under it, each write of index.md, log.md or the
\* review queue is one atomic update of what the file holds (toc.ts:169-182,
\* 195-207; review.ts:62-109): the store implements AtomicStore.
THEOREM UpdatesImplementAtomicStore == StoreSpec => UpdatesAreAtomic
<1>1. StoreInv /\ [StoreNext]_allVars => [lost' \/ Atomic!Next]_store
  <2> SUFFICES ASSUME StoreInv, StoreNext, ~lost', store' # store PROVE Atomic!Next
    BY DEF allVars, storeVars
  <2>1. ~lost
    BY DEF StoreNext
  <2>2. PICK p \in Proc : WriteFile(p)
    BY DEF StoreNext, LockStep, Body, ReadFile, WriteToc, WriteManifest, FnReturns,
           Dies, TimePasses
  <2>3. job[p] \in Atomic!Update /\ copy[p] = store[File(p)]
    BY <2>1, <2>2 DEF WriteFile, In, StoreInv, TypesAndLock, StoreTypeOK, Inside
  <2>4. Atomic!Perform(job[p])
    BY <2>2, <2>3 DEF WriteFile, File, Atomic!Perform
  <2> QED BY <2>3, <2>4 DEF Atomic!Next
<1> QED BY <1>1, StoreInvariant, PTL DEF StoreSpec, UpdatesAreAtomic

\* toc.md and the manifest describe the pages of index.md whenever no updateIndex
\* is at work and none was cut short (toc.ts:150-182).
THEOREM TocFollows == StoreSpec => []TocFollowsIndex
<1>1. StoreInit => TocFollowsIndex
  BY DEF StoreInit, TocFollowsIndex, Atomic!Init, Atomic!Resource
<1>2. StoreInv /\ TocFollowsIndex /\ [StoreNext]_allVars => TocFollowsIndex'
  <2> SUFFICES ASSUME StoreInv, TocFollowsIndex, [StoreNext]_allVars,
                      ~lost', ~torn', \A q \in Proc : ~MidUpdate(q)'
               PROVE  toc' = store'["index"] /\ manifest' = store'["index"]
    BY DEF TocFollowsIndex
  <2> USE DEF StoreInv, TypesAndLock, StoreTypeOK, TocFollowsIndex, MidUpdate, Stages
  <2>1. ~lost
    BY DEF StoreNext, allVars, storeVars
  <2>2. CASE UNCHANGED <<store, toc, manifest, stage, torn>>
    BY <2>1, <2>2
  <2>3. ASSUME NEW p \in Proc, ReadFile(p) PROVE toc' = store'["index"] /\ manifest' = store'["index"]
    BY <2>1, <2>3 DEF ReadFile, In
  <2>4. ASSUME NEW p \in Proc, WriteFile(p) PROVE toc' = store'["index"] /\ manifest' = store'["index"]
    <3>1. File(p) # "index"
      BY <2>4 DEF WriteFile
    <3>2. \A q \in Proc : ~MidUpdate(q)
      BY <2>1, <2>4, Alone DEF WriteFile, In
    <3> QED BY <2>1, <2>4, <3>1, <3>2 DEF WriteFile
  <2>5. ASSUME NEW p \in Proc, WriteToc(p) PROVE FALSE
    BY <2>5 DEF WriteToc
  <2>6. ASSUME NEW p \in Proc, WriteManifest(p) PROVE toc' = store'["index"] /\ manifest' = store'["index"]
    BY <2>1, <2>6 DEF WriteManifest, In, Inside
  <2>7. ASSUME NEW p \in Proc, FnReturns(p) \/ Dies(p) PROVE toc' = store'["index"] /\ manifest' = store'["index"]
    <3>1. ~torn /\ ~MidUpdate(p)
      BY <2>7 DEF FnReturns, Dies
    <3>2. \A q \in Proc : ~MidUpdate(q)
      BY <2>7, <3>1 DEF FnReturns, Dies, Forget
    <3> QED BY <2>1, <2>7, <3>1, <3>2 DEF FnReturns, Dies
  <2> QED
    BY <2>2, <2>3, <2>4, <2>5, <2>6, <2>7
       DEF StoreNext, Body, LockStep, TimePasses, allVars, storeVars
<1> QED BY <1>1, <1>2, StoreInvariant, PTL DEF StoreSpec

\* No two open items of the review queue are about the same claim: the duplicate
\* test and the write are one critical section (review.ts:66-80).
THEOREM NoClaimOpenTwice == StoreSpec => []OneOpenItemPerKey
<1>1. StoreInit => OneOpenItemPerKey
  BY DEF StoreInit, OneOpenItemPerKey, Atomic!Init, Atomic!Resource
<1>2. StoreInv /\ OneOpenItemPerKey /\ [StoreNext]_allVars => OneOpenItemPerKey'
  <2> SUFFICES ASSUME StoreInv, ~lost', OneOpen(store["queue"]), [StoreNext]_allVars
               PROVE  OneOpen(store'["queue"])
    BY DEF OneOpenItemPerKey, OneOpen, StoreNext, allVars, storeVars
  <2>1. ~lost
    BY DEF StoreNext, allVars, storeVars
  <2>2. CASE UNCHANGED store
    BY <2>2
  <2>3. ASSUME NEW p \in Proc, WriteFile(p) PROVE OneOpen(store'["queue"])
    <3>1. /\ job[p] \in Atomic!Update /\ copy[p] = store[File(p)]
          /\ copy[p] \subseteq Content(File(p)) /\ store \in [Atomic!Resource -> SUBSET Fact]
      BY <2>1, <2>3 DEF WriteFile, In, StoreInv, TypesAndLock, StoreTypeOK, Inside
    <3>2. store' = [store EXCEPT ![File(p)] = Atomic!Apply(job[p], copy[p])]
      BY <2>3 DEF WriteFile
    <3>3. CASE File(p) = "queue"
      <4>1. OneOpen(Atomic!Apply(job[p], copy[p]))
        BY <3>1, <3>3, ApplyKeepsOneOpen DEF File, Content
      <4>2. store'["queue"] = Atomic!Apply(job[p], copy[p])
        BY <3>1, <3>2, <3>3 DEF Atomic!Resource
      <4> QED BY <4>1, <4>2
    <3>4. CASE File(p) # "queue"
      <4>1. store'["queue"] = store["queue"]
        BY <3>1, <3>2, <3>4 DEF Atomic!Resource
      <4> QED BY <4>1
    <3> QED BY <3>3, <3>4
  <2> QED
    BY <2>2, <2>3 DEF StoreNext, LockStep, Body, ReadFile, WriteToc, WriteManifest,
                      FnReturns, Dies, TimePasses, allVars, storeVars
<1> QED BY <1>1, <1>2, StoreInvariant, PTL DEF StoreSpec

-----------------------------------------------------------------------------
(* The table of contents, for any sessions, pages, number of versions and  *)
(* failures.                                                               *)

LEMMA TocTypeInit == TocInit => TocTypeOK
  BY UnheldIsNoSession, TocBoundsAreNat DEF TocInit, TocTypeOK, NoEntries, Version

LEMMA TocTypeStep == TocTypeOK /\ [TocNext]_tocVars => TocTypeOK'
  <1> SUFFICES ASSUME TocTypeOK, [TocNext]_tocVars
               PROVE  TocTypeOK'
    OBVIOUS
  <1> USE UnheldIsNoSession, TocBoundsAreNat DEF TocTypeOK, Version
  <1>n. NoEntries \in [PageFile -> Version]
    BY DEF NoEntries
  <1>1. ASSUME NEW p \in PageFile, WritePage(p)
        PROVE  TocTypeOK'
    <2>1. written[p] + 1 \in Version
      BY <1>1 DEF WritePage
    <2> QED BY <2>1, <1>1 DEF WritePage
  <1>2. ASSUME NEW s \in Session, NEW p \in PageFile, Finalize(s, p)
        PROVE  TocTypeOK'
    <2>1. upserts' \in [Session -> [PageFile -> Version]]
      BY <1>2 DEF Finalize
    <2> QED BY <2>1, <1>2 DEF Finalize
  <1>3. ASSUME NEW s \in Session, NEW p \in PageFile, Remove(s, p)
        PROVE  TocTypeOK'
    <2>1. deletes' \in [Session -> SUBSET PageFile] /\ pages' \in [PageFile -> Version]
      BY <1>3 DEF Remove
    <2> QED BY <2>1, <1>3 DEF Remove
  <1>4. ASSUME NEW s \in Session, LintLists(s)
        PROVE  TocTypeOK'
    <2>1. todo' \in [Session -> SUBSET PageFile]
      BY <1>4 DEF LintLists
    <2> QED BY <2>1, <1>4 DEF LintLists
  <1>5. ASSUME NEW s \in Session, NEW p \in PageFile, LintReads(s, p)
        PROVE  TocTypeOK'
    <2>1. todo' \in [Session -> SUBSET PageFile]
      BY <1>5 DEF LintReads
    <2>2. upserts' \in [Session -> [PageFile -> Version]]
      BY <1>5 DEF LintReads
    <2> QED BY <2>1, <2>2, <1>5 DEF LintReads
  <1>6. ASSUME NEW s \in Session, LintCompares(s)
        PROVE  TocTypeOK'
    <2> DEFINE fresh == [p \in PageFile |-> IF upserts[s][p] = index[p] THEN 0 ELSE upserts[s][p]]
    <2>1. fresh \in [PageFile -> Version]
      OBVIOUS
    <2>2. /\ upserts' = [upserts EXCEPT ![s] = fresh]
          /\ step' = [step EXCEPT ![s] = IF fresh = NoEntries THEN "idle" ELSE "update"]
          /\ step[s] = "scan" /\ UNCHANGED <<pages, written, index, lock, todo, deletes, failures>>
      BY <1>6 DEF LintCompares
    <2> HIDE DEF fresh
    <2>3. upserts' \in [Session -> [PageFile -> Version]]
      BY <2>1, <2>2
    <2> QED BY <2>2, <2>3
  <1>7. ASSUME NEW s \in Session, UpdateIndex(s)
        PROVE  TocTypeOK'
    <2>1. index' \in [PageFile -> Version]
      BY <1>7 DEF UpdateIndex, Updated
    <2>2. upserts' \in [Session -> [PageFile -> Version]] /\ deletes' \in [Session -> SUBSET PageFile]
      BY <1>7, <1>n DEF UpdateIndex
    <2> QED BY <2>1, <2>2, <1>7 DEF UpdateIndex
  <1>8. ASSUME NEW s \in Session, FinishUpdate(s)
        PROVE  TocTypeOK'
    BY <1>8 DEF FinishUpdate
  <1>9. ASSUME NEW s \in Session, Fail(s)
        PROVE  TocTypeOK'
    <2>1. /\ upserts' \in [Session -> [PageFile -> Version]]
          /\ todo' \in [Session -> SUBSET PageFile] /\ deletes' \in [Session -> SUBSET PageFile]
      BY <1>9, <1>n DEF Fail
    <2> QED BY <2>1, <1>9 DEF Fail
  <1>10. CASE UNCHANGED tocVars
    BY <1>10 DEF tocVars
  <1> QED BY <1>1, <1>2, <1>3, <1>4, <1>5, <1>6, <1>7, <1>8, <1>9, <1>10 DEF TocNext, Continue

\* Every variable keeps its type, and the lock is held by the session that has written the
\* index and not yet the manifest (toc.ts:138-182).
THEOREM TocTypeCorrect == TocSpec => []TocTypeOK
  BY TocTypeInit, TocTypeStep, PTL DEF TocSpec
=============================================================================
