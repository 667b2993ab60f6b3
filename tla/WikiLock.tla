------------------------------ MODULE WikiLock ------------------------------
(***************************************************************************)
(* The cross-process wiki lock (src/src/wiki/lock.ts).                     *)
(*                                                                         *)
(* withWikiLock creates <stateDir>/lock exclusively, writes {pid, ts} into *)
(* it, runs the caller's mutation and deletes the file.  A caller that     *)
(* finds the file reads it: a stale or unreadable one is deleted and the   *)
(* creation retried, a fresh one is waited for until timeoutMs.  Every     *)
(* await is a point where other callers run, so each file operation is an  *)
(* action of its own.  A member of Proc is one chain of calls: a session,  *)
(* or one of the concurrent tasks of a session (ingest adjudicates four    *)
(* claims at a time, and each may enqueue a review under this lock).       *)
(*                                                                         *)
(* Time is relative: Date.now() - ts is an age that saturates one above    *)
(* StaleMs, Date.now() - started a wait that saturates one above           *)
(* TimeoutMs.  The code only compares them with these bounds, so this is   *)
(* exact and the clock needs no limit.                                     *)
(***************************************************************************)
EXTENDS Integers

CONSTANTS
    Proc,       \* the callers of withWikiLock
    Crashable,  \* the callers whose process may die inside a call
    NoOne,      \* "there is no lock file"
    StaleMs,    \* options.staleMs, in ticks
    TimeoutMs   \* options.timeoutMs, in ticks

ASSUME NoOneIsNoProc == NoOne \notin Proc
ASSUME CrashableAreProcs == Crashable \subseteq Proc
ASSUME BoundsAreNat == StaleMs \in Nat /\ TimeoutMs \in Nat

VARIABLES
    file,     \* the lock file: who created it, whether {pid, ts} is in it, its age
    pc,       \* where each caller is inside withWikiLock
    waited,   \* Date.now() - started
    seen,     \* what readFile(path) returned in the takeover check
    evicted   \* history: the holders whose own lock file somebody else deleted

vars == <<file, pc, waited, seen, evicted>>

Age  == 0 .. StaleMs + 1
Wait == 0 .. TimeoutMs + 1

\* "open": about to open(path, "wx").   "write": created it, content still empty.
\* "fn": running the mutation.          "release": fn returned or threw.
\* "read": open failed with EEXIST.     "decide": readFile settled.
\* "remove": about to rm the lock it found.
Phases == {"idle", "open", "write", "fn", "release", "read", "decide", "remove", "crashed"}

HolderPhases == {"write", "fn", "release"}

TypeOK ==
    /\ file \in [by : Proc \cup {NoOne}, written : BOOLEAN, age : Age]
    /\ pc \in [Proc -> Phases]
    /\ waited \in [Proc -> Wait]
    /\ seen \in [Proc -> [kind : {"nothing", "unreadable", "info"}, age : Age]]
    /\ evicted \in SUBSET Proc

NoFile == [by |-> NoOne, written |-> FALSE, age |-> 0]
NothingSeen == [kind |-> "nothing", age |-> 0]

Init ==
    /\ file = NoFile
    /\ pc = [p \in Proc |-> "idle"]
    /\ waited = [p \in Proc |-> 0]
    /\ seen = [p \in Proc |-> NothingSeen]
    /\ evicted = {}

Holder(p) == pc[p] \in HolderPhases
InCall(p) == pc[p] \notin {"idle", "crashed"}

-----------------------------------------------------------------------------

Goto(p, phase) == pc' = [pc EXCEPT ![p] = phase]

\* rm(path, { force: true }) by p: it deletes whatever file has the name now.
RemoveFile(p) ==
    /\ file' = NoFile
    /\ evicted' = (evicted \ {p})
                    \cup {q \in Proc : q # p /\ file.by = q /\ Holder(q)}

Begin(p) ==
    /\ pc[p] = "idle"
    /\ Goto(p, "open")
    /\ waited' = [waited EXCEPT ![p] = 0]
    /\ UNCHANGED <<file, seen, evicted>>

\* Mutant: open(path, "w").
OpenNotExclusive(p) ==
    /\ pc[p] = "open"
    /\ file' = [by |-> p, written |-> FALSE, age |-> 0]
    /\ Goto(p, "write")
    /\ UNCHANGED <<waited, seen, evicted>>

OpenSucceeds(p) ==
    /\ pc[p] = "open"
    /\ file.by = NoOne
    /\ file' = [by |-> p, written |-> FALSE, age |-> 0]
    /\ Goto(p, "write")
    /\ UNCHANGED <<waited, seen, evicted>>

OpenFindsFile(p) ==
    /\ pc[p] = "open"
    /\ file.by # NoOne
    /\ Goto(p, "read")
    /\ UNCHANGED <<file, waited, seen, evicted>>

\* handle.writeFile goes to the file p created, which may no longer have the name.
WriteInfo(p) ==
    /\ pc[p] = "write"
    /\ file' = IF file.by = p THEN [by |-> p, written |-> TRUE, age |-> 0] ELSE file
    /\ Goto(p, "fn")
    /\ UNCHANGED <<waited, seen, evicted>>

\* The write fails (a full disk): its error is not EEXIST, so it is thrown and
\* the empty lock file stays behind.
WriteFails(p) ==
    /\ pc[p] = "write"
    /\ Goto(p, "idle")
    /\ evicted' = evicted \ {p}
    /\ UNCHANGED <<file, waited, seen>>

FnEnds(p) ==
    /\ pc[p] = "fn"
    /\ Goto(p, "release")
    /\ UNCHANGED <<file, waited, seen, evicted>>

Release(p) ==
    /\ pc[p] = "release"
    /\ RemoveFile(p)
    /\ Goto(p, "idle")
    /\ UNCHANGED <<waited, seen>>

\* readFile: the file may be gone (ENOENT) or still empty (JSON.parse throws);
\* the code treats both alike.
ReadLock(p) ==
    /\ pc[p] = "read"
    /\ seen' = [seen EXCEPT ![p] =
                  IF file.by # NoOne /\ file.written
                  THEN [kind |-> "info", age |-> file.age]
                  ELSE [kind |-> "unreadable", age |-> 0]]
    /\ Goto(p, "decide")
    /\ UNCHANGED <<file, waited, evicted>>

\* Mutant: the age of a readable lock is not looked at.
TakesOverUnreadable(p) == seen[p].kind = "unreadable"

TakesOver(p) == seen[p].kind = "unreadable" \/ seen[p].age > StaleMs

TimedOut(p) == waited[p] > TimeoutMs

\* Mutant: an unreadable lock is retried, not removed.
DecideRetries(p) ==
    /\ pc[p] = "decide"
    /\ \/ seen[p].kind = "unreadable" /\ Goto(p, "open")
       \/ seen[p].kind = "info" /\ TakesOver(p) /\ Goto(p, "remove")
       \/ ~TakesOver(p) /\ TimedOut(p) /\ Goto(p, "idle")
       \/ ~TakesOver(p) /\ ~TimedOut(p) /\ Goto(p, "open")
    /\ seen' = [seen EXCEPT ![p] = NothingSeen]
    /\ UNCHANGED <<file, waited, evicted>>

\* The age is tested first; only a fresh lock is waited for, and only then can
\* the call time out (WikiLockError).  The 100-250 ms sleep leads back to "open".
Decide(p) ==
    /\ pc[p] = "decide"
    /\ \/ TakesOver(p) /\ Goto(p, "remove")
       \/ ~TakesOver(p) /\ TimedOut(p) /\ Goto(p, "idle")
       \/ ~TakesOver(p) /\ ~TimedOut(p) /\ Goto(p, "open")
    /\ seen' = [seen EXCEPT ![p] = NothingSeen]
    /\ UNCHANGED <<file, waited, evicted>>

RemoveFound(p) ==
    /\ pc[p] = "remove"
    /\ RemoveFile(p)
    /\ Goto(p, "open")
    /\ UNCHANGED <<waited, seen>>

\* The process dies inside the call; its file, if any, stays.
Crash(p) ==
    /\ p \in Crashable
    /\ InCall(p)
    /\ Goto(p, "crashed")
    /\ seen' = [seen EXCEPT ![p] = NothingSeen]
    /\ evicted' = evicted \ {p}
    /\ UNCHANGED <<file, waited>>

Older(age, bound) == IF age > bound THEN age ELSE age + 1

Tick ==
    /\ file' = IF file.written THEN [file EXCEPT !.age = Older(file.age, StaleMs)] ELSE file
    /\ waited' = [p \in Proc |-> IF InCall(p) THEN Older(waited[p], TimeoutMs) ELSE waited[p]]
    /\ seen' = [p \in Proc |->
                  IF seen[p].kind = "info"
                  THEN [kind |-> "info", age |-> Older(seen[p].age, StaleMs)]
                  ELSE seen[p]]
    /\ UNCHANGED <<pc, evicted>>

Step(p) ==
    \/ OpenSucceeds(p) \/ OpenFindsFile(p) \/ WriteInfo(p) \/ FnEnds(p) \/ Release(p)
    \/ ReadLock(p) \/ Decide(p) \/ RemoveFound(p)

Next ==
    \/ \E p \in Proc : Begin(p) \/ Step(p) \/ WriteFails(p) \/ Crash(p)
    \/ Tick

Spec == Init /\ [][Next]_vars

\* A live process keeps executing its awaits (fn is a short mutation) and time
\* passes; nobody is obliged to call the lock, to fail or to crash.
Fairness ==
    /\ \A p \in Proc : WF_vars(Step(p))
    /\ WF_vars(Tick)

FairSpec == Spec /\ Fairness

-----------------------------------------------------------------------------

\* A caller between its exclusive create and its release owns the file that has
\* the name, unless somebody deleted that file (lock.ts:54-55, 84).
OwnsFileOrEvicted ==
    /\ \A p \in Proc : Holder(p) /\ p \notin evicted => file.by = p
    /\ \A p \in evicted : Holder(p)

\* Two mutations overlap only after a caller's lock was deleted under it: the
\* exclusive create itself (lock.ts:54) never admits two.
OverlapOnlyAfterEviction ==
    \A p, q \in Proc :
        p # q /\ pc[p] = "fn" /\ pc[q] = "fn" => p \in evicted \/ q \in evicted

\* The unconditional rm of the release (lock.ts:84) deletes the lock of another
\* caller only when the releaser's own lock had been deleted before: the first
\* eviction is always the work of the takeover branch (lock.ts:60-70).
ReleaseEvictsOnlyAfterEviction ==
    [][\A p \in Proc : pc[p] = "release" /\ pc'[p] = "idle" /\ p \notin evicted
          => evicted' \subseteq evicted]_vars

\* Once the others stop calling, a call returns or throws, whatever died in the
\* meantime: nobody waits for ever on a lock nobody releases (lock.ts:52-78).
CallTerminates ==
    \A p \in Proc \ Crashable :
        <>[](\A q \in Proc \ {p} : ~InCall(q)) => (InCall(p) ~> ~InCall(p))

\* A lock file its creator left behind (a crash, a failed write) is deleted as
\* long as some live session keeps calling: the stale takeover (lock.ts:63-69).
OrphanedLockIsReclaimed ==
    (\E p \in Proc \ Crashable : []<>InCall(p))
        => \A c \in Proc : (file.by = c /\ ~InCall(c)) ~> file.by # c
=============================================================================
