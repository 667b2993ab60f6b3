----------------------------- MODULE AutoCapture -----------------------------
(***************************************************************************)
(* Automatic capture (src/src/extension.ts, from session_start on): when a *)
(* task settles, when a commit was made, or before a compaction, a pi      *)
(* process screens its session, extracts insights, routes them to a wiki   *)
(* and has them adjudicated (Insights); what is accepted becomes a brief,  *)
(* kept in that wiki's pending-capture.md and, if the process has a UI,    *)
(* shown to the session, until its agent has written the pages and calls   *)
(* wiki_finalize.                                                          *)
(*                                                                         *)
(* The guards are variables of the process: they outlive a session, not a  *)
(* restart.  The pending files and the repository are common to all the    *)
(* processes.  The ten minutes of the debounce are the time between a      *)
(* capture and CoolDown.                                                   *)
(***************************************************************************)
EXTENDS Integers, Sequences, FiniteSets

CONSTANTS
    Proc,           \* the pi processes
    Wiki,           \* the registered wikis
    Home,           \* Home[p]: the wiki of the directory p runs in
    Cadences,       \* the cadences p may be configured with: "task", "commit", "manual"
    OnCompact,      \* the processes whose configuration has capture.onCompact
    Headless,       \* the processes that may run without a UI (print or JSON mode)
    Enough,         \* the messages a capture needs, 3 in the code
    \* Bounds, the first three for each process.
    MaxMessages, MaxEdits, MaxSessions, MaxCommits, MaxBriefs, MaxEvents

ASSUME CaptureIsConfigured ==
    /\ Home \in [Proc -> Wiki]
    /\ Cadences \in [Proc -> SUBSET {"task", "commit", "manual"}]
    /\ Enough \in Nat \ {0}
    /\ {MaxMessages, MaxEdits} \subseteq [Proc -> Nat]
    /\ MaxSessions \in [Proc -> Nat \ {0}]
    /\ {MaxCommits, MaxBriefs, MaxEvents} \subseteq Nat

None == "none"

VARIABLES
    cadence,    \* cadence[p]: capture.cadence in the configuration of p
    hasUI,      \* hasUI[p]: ctx.hasUI in p
    head,       \* HEAD of the repository, a number
    session,    \* session[p]: which session of p this is, its messages and its edits
    guard,      \* guard[p]: lastAutoCaptureMessageCount, and whether the debounce lasts
    lastCommitSeen,
    autoCaptureInFlight,
    captures,   \* captures[p]: the calls of autoCapture that have not returned
    briefs,     \* the briefs made so far, and how far each has come
    pending,    \* pending[w]: the brief in the wiki's pending-capture.md, 0 without one
    told,       \* told[p]: the briefs shown to the session
    events,     \* compactions and failures so far
    worked,     \* history: <<p, n, w>> when session n of p edited files of w
    strays,     \* history: <<p, n>> when session n of p was left with a capture in flight
    swept       \* history: briefs whose file was deleted by somebody who had not seen them
flight == <<autoCaptureInFlight, captures>>
own == <<session, guard, lastCommitSeen>>
store == <<briefs, pending, told, swept>>
config == <<cadence, hasUI>>
rest == <<config, head, events, worked, strays>>
vars == <<own, flight, store, rest>>

NewSession(n) == [number |-> n, messages |-> 0, editedFiles |-> {}]
Cold == [count |-> 0, cooling |-> FALSE]

Init ==
    /\ cadence \in {f \in [Proc -> {"task", "commit", "manual"}] : \A p \in Proc : f[p] \in Cadences[p]}
    /\ hasUI \in {f \in [Proc -> BOOLEAN] : \A p \in Proc \ Headless : f[p]}
    /\ head = 0
    /\ session = [p \in Proc |-> NewSession(1)]
    /\ guard = [p \in Proc |-> Cold]
    /\ lastCommitSeen = [p \in Proc |-> 0]
    /\ autoCaptureInFlight = [p \in Proc |-> FALSE]
    /\ captures = [p \in Proc |-> {}]
    /\ briefs = <<>>
    /\ pending = [w \in Wiki |-> 0]
    /\ told = [p \in Proc |-> {}]
    /\ events = 0
    /\ worked = {} /\ strays = {} /\ swept = {}

-----------------------------------------------------------------------------
(* The session and its surroundings.                                       *)

Message(p) ==
    /\ session[p].messages < MaxMessages[p]
    /\ session' = [session EXCEPT ![p].messages = @ + 1]
    /\ UNCHANGED <<guard, lastCommitSeen, flight, store, rest>>

\* tool_call of edit or write.  Of a file only the wiki that owns it counts.
Edit(p, w) ==
    /\ Cardinality(session[p].editedFiles) < MaxEdits[p]
    /\ session' = [session EXCEPT ![p].editedFiles = @ \cup {w}]
    /\ worked' = worked \cup {<<p, session[p].number, w>>}
    /\ UNCHANGED <<guard, lastCommitSeen, flight, store, config, head, events, strays>>

Commit ==
    /\ head < MaxCommits
    /\ head' = head + 1
    /\ UNCHANGED <<own, flight, store, config, events, worked, strays>>

CoolDown(p) ==
    /\ guard[p].cooling
    /\ guard' = [guard EXCEPT ![p].cooling = FALSE]
    /\ UNCHANGED <<session, lastCommitSeen, flight, store, rest>>

\* Mutant: editedFiles is not cleared.
KeepEdits(n, p) == [number |-> n, messages |-> 0, editedFiles |-> session[p].editedFiles]

ClearEdits(n, p) == NewSession(n)

\* session_start.
Enter(p) ==
    /\ session[p].number < MaxSessions[p]
    /\ session' = [session EXCEPT ![p] = ClearEdits(@.number + 1, p)]
    /\ lastCommitSeen' = [lastCommitSeen EXCEPT ![p] = head]
    /\ told' = [told EXCEPT ![p] = {}]

\* The user goes to another session.  The guards stay, and so does what is in flight.
SwitchSession(p) ==
    /\ Enter(p)
    /\ strays' = IF captures[p] = {} THEN strays ELSE strays \cup {<<p, session[p].number>>}
    /\ UNCHANGED <<guard, flight, briefs, pending, swept, config, head, events, worked>>

\* The process ends, or dies, and another starts.
Restart(p) ==
    /\ session[p].number < MaxSessions[p]
    /\ session' = [session EXCEPT ![p] = NewSession(@.number + 1)]
    /\ lastCommitSeen' = [lastCommitSeen EXCEPT ![p] = head]
    /\ told' = [told EXCEPT ![p] = {}]
    /\ guard' = [guard EXCEPT ![p] = Cold]
    /\ autoCaptureInFlight' = [autoCaptureInFlight EXCEPT ![p] = FALSE]
    /\ captures' = [captures EXCEPT ![p] = {}]
    /\ briefs' = [b \in DOMAIN briefs |->
                     CASE briefs[b].proc = p /\ briefs[b].at = "made" -> [briefs[b] EXCEPT !.at = "lost"]
                       [] briefs[b].proc = p /\ briefs[b].at = "file" -> [briefs[b] EXCEPT !.at = "left"]
                       [] OTHER -> briefs[b]]
    /\ UNCHANGED <<pending, swept, rest>>

-----------------------------------------------------------------------------
(* autoCapture.                                                            *)

\* Mutant: a capture in flight does not keep out another.
MayCaptureTwice(p, source, count) ==
    /\ count >= Enough /\ count # guard[p].count
    /\ source = "commit" \/ ~guard[p].cooling

MayCapture(p, source, count) ==
    /\ count >= Enough /\ count # guard[p].count
    /\ source = "commit" \/ ~guard[p].cooling
    /\ ~autoCaptureInFlight[p]

Begin(p, source, count) ==
    /\ Len(briefs) < MaxBriefs
    /\ autoCaptureInFlight' = [autoCaptureInFlight EXCEPT ![p] = TRUE]
    /\ captures' = [captures EXCEPT ![p] = @ \cup
          {[stage |-> "sift", source |-> source, count |-> count,
            session |-> session[p].number, wiki |-> Home[p]]}]

\* agent_settled with cadence task: the whole branch, debounced.
SettleTask(p) ==
    /\ cadence[p] = "task"
    /\ MayCapture(p, "settled", session[p].messages)
    /\ Begin(p, "settled", session[p].messages)
    /\ UNCHANGED <<own, store, rest>>

\* With cadence commit: the commit counts as seen, captured or not.
SettleCommit(p) ==
    /\ cadence[p] = "commit" /\ head # lastCommitSeen[p]
    /\ lastCommitSeen' = [lastCommitSeen EXCEPT ![p] = head]
    /\ IF MayCapture(p, "commit", session[p].messages)
       THEN Begin(p, "commit", session[p].messages)
       ELSE UNCHANGED flight
    /\ UNCHANGED <<session, guard, store, rest>>

\* session_before_compact: the messages that are about to be summarized.
Compact(p, count) ==
    /\ p \in OnCompact /\ events < MaxEvents
    /\ events' = events + 1
    /\ MayCapture(p, "compact", count) /\ Begin(p, "compact", count)
    /\ UNCHANGED <<own, store, config, head, worked, strays>>

\* Mutant: the flag comes down only after a capture that went well.
ReturnsInFlight(p, c, ok) ==
    /\ captures' = [captures EXCEPT ![p] = @ \ {c}]
    /\ autoCaptureInFlight' = [autoCaptureInFlight EXCEPT ![p] = @ /\ ~ok]

Returns(p, c, ok) ==
    /\ captures' = [captures EXCEPT ![p] = @ \ {c}]
    /\ autoCaptureInFlight' = [autoCaptureInFlight EXCEPT ![p] = FALSE]

\* A capture that went well, with whatever result, advances the guards.
Advance(p, c) ==
    /\ guard' = [guard EXCEPT ![p] = [count |-> c.count, cooling |-> TRUE]]
    /\ Returns(p, c, TRUE)
    /\ UNCHANGED <<session, lastCommitSeen, rest>>

\* At "sift": not worth capturing, or extractInsights returns no insights (no text, no
\* model, an answer without any, or that does not parse).  At "process": none accepted.
FindNothing(p, c) == Advance(p, c) /\ UNCHANGED store

\* matchRegisteredWikis: the wikis that own files the session edited.
EditedWikis(p) == session[p].editedFiles

\* resolveCaptureRuntime: the one wiki that owns the edited files, else the session's.
SubjectWiki(p) ==
    IF \E w \in Wiki : EditedWikis(p) = {w} THEN CHOOSE w \in Wiki : EditedWikis(p) = {w} ELSE Home[p]

\* The pre-screen says yes and extraction finds insights: they are routed.
Proceed(p, c) ==
    /\ c.stage = "sift"
    /\ captures' = [captures EXCEPT ![p] =
          (@ \ {c}) \cup {[c EXCEPT !.stage = "process", !.wiki = SubjectWiki(p)]}]
    /\ UNCHANGED <<autoCaptureInFlight, own, store, rest>>

\* processInsights accepted some.
Accept(p, c) ==
    /\ c.stage = "process"
    /\ briefs' = Append(briefs, [proc |-> p, session |-> c.session, wiki |-> c.wiki, at |-> "made"])
    /\ Advance(p, c)
    /\ UNCHANGED <<pending, told, swept>>

\* Jev, the model or the disk fails: the guards stay as they are.
FailCapture(p, c) ==
    /\ events < MaxEvents
    /\ events' = events + 1
    /\ Returns(p, c, FALSE)
    /\ UNCHANGED <<own, store, config, head, worked, strays>>

-----------------------------------------------------------------------------
(* The brief.                                                              *)

Moved(b, place) == [briefs EXCEPT ![b].at = place]

\* Over whatever brief the file holds.
WritePending(p, b) ==
    /\ briefs[b].proc = p /\ briefs[b].at = "made"
    /\ pending' = [pending EXCEPT ![briefs[b].wiki] = b]
    /\ briefs' = Moved(b, "file")
    /\ UNCHANGED <<own, flight, told, swept, rest>>

\* Mutant: one brief at a time.
ShowFirst(p, b) == IF told[p] = {} THEN {b} ELSE told[p]

Show(p, b) == told[p] \cup {b}

\* sendMessage: to the session the process is in by now.
Tell(p, b) ==
    /\ hasUI[p]
    /\ briefs[b].proc = p /\ briefs[b].at = "file"
    /\ told' = [told EXCEPT ![p] = Show(p, b)]
    /\ briefs' = Moved(b, "told")
    /\ UNCHANGED <<own, flight, pending, swept, rest>>

\* Without a UI the brief is in the file and nowhere else.
TellNobody(p, b) ==
    /\ ~hasUI[p]
    /\ briefs[b].proc = p /\ briefs[b].at = "file"
    /\ briefs' = Moved(b, "left")
    /\ UNCHANGED <<own, flight, pending, told, swept, rest>>

\* The file cannot be written, and the brief is not shown either.
FailPending(p, b) ==
    /\ briefs[b].proc = p /\ briefs[b].at = "made"
    /\ events < MaxEvents
    /\ events' = events + 1
    /\ briefs' = Moved(b, "lost")
    /\ UNCHANGED <<own, flight, pending, told, swept, config, head, worked, strays>>

\* wiki_finalize, for the briefs the session was shown or for any other pages of w:
\* the pending file goes with it.
Finalize(p, w) ==
    LET seen == {b \in told[p] : briefs[b].wiki = w}
        held == {pending[w]} \ {0}
    IN  /\ seen \cup held # {}
        /\ pending' = [pending EXCEPT ![w] = 0]
        /\ told' = [told EXCEPT ![p] = @ \ seen]
        /\ briefs' = [b \in DOMAIN briefs |->
                         IF b \in seen THEN [briefs[b] EXCEPT !.at = "written"] ELSE briefs[b]]
        /\ swept' = swept \cup (held \ seen)
        /\ UNCHANGED <<own, flight, rest>>

-----------------------------------------------------------------------------

CaptureStep(p) ==
    \E c \in captures[p] : Proceed(p, c) \/ FindNothing(p, c) \/ Accept(p, c)

Deliver(p) == \E b \in DOMAIN briefs : WritePending(p, b) \/ Tell(p, b) \/ TellNobody(p, b)

Next ==
    \/ Commit
    \/ \E p \in Proc :
          \/ Message(p) \/ CoolDown(p) \/ SwitchSession(p) \/ Restart(p)
          \/ SettleTask(p) \/ SettleCommit(p)
          \/ \E count \in 0..session[p].messages : Compact(p, count)
          \/ CaptureStep(p) \/ Deliver(p)
          \/ \E c \in captures[p] : FailCapture(p, c)
          \/ \E b \in DOMAIN briefs : FailPending(p, b)
          \/ \E w \in Wiki : Edit(p, w)
          \/ \E w \in Wiki : Finalize(p, w)

Spec == Init /\ [][Next]_vars

\* Jev and the model answer or time out, tasks go on settling, and time passes.
FairSpec ==
    /\ Spec
    /\ \A p \in Proc : /\ WF_vars(CaptureStep(p)) /\ WF_vars(Deliver(p))
                       /\ WF_vars(SettleTask(p)) /\ WF_vars(CoolDown(p))

-----------------------------------------------------------------------------

Capture(p) == [stage : {"sift", "process"}, source : {"settled", "commit", "compact"},
               count : Enough..MaxMessages[p], session : 1..session[p].number, wiki : Wiki]

\* Guards, captures and briefs of a process; at most one capture is in flight.
TypeOK ==
    /\ head \in 0..MaxCommits /\ lastCommitSeen \in [Proc -> 0..head]
    /\ \A p \in Proc :
          /\ guard[p].count \in 0..MaxMessages[p] /\ guard[p].cooling \in BOOLEAN
          /\ session[p].messages \in 0..MaxMessages[p] /\ session[p].number \in 1..MaxSessions[p]
          /\ session[p].editedFiles \subseteq Wiki
          /\ captures[p] \subseteq Capture(p)
          /\ told[p] \subseteq DOMAIN briefs
    /\ \A b \in DOMAIN briefs : briefs[b].at \in {"made", "file", "told", "written", "left", "lost"}
    /\ pending \in [Wiki -> {0} \cup DOMAIN briefs]

\* "debounced (10 minutes, and never twice for the same transcript)" (DESIGN.md:465):
\* whatever the triggers and however long a capture takes, the guards advance for a
\* settled task or a compaction only when the last advance is ten minutes ago, and
\* never twice in a row for the same count of messages.
CapturesArePaced ==
    [][\A p \in Proc : \A c \in captures[p] :
          c \notin captures'[p] /\ guard'[p].cooling /\ guard'[p].count = c.count
                /\ Cardinality(captures'[p]) < Cardinality(captures[p]) =>
             /\ c.source = "commit" \/ ~guard[p].cooling
             /\ c.count # guard[p].count]_vars

\* A capture is filed in another wiki than that of the directory only when its session
\* edited files there, unless the session was left while it was in flight: then it is
\* routed by the edits of the next one (editedFiles, resolveCaptureRuntime).
RoutedByItsEdits ==
    \A b \in DOMAIN briefs :
        LET by == <<briefs[b].proc, briefs[b].session>>
        IN  briefs[b].wiki = Home[by[1]] \/ <<by[1], by[2], briefs[b].wiki>> \in worked \/ by \in strays

\* Accepted insights wait until an agent files them: on their way to the user, shown in
\* a live session, or in the pending file.  They are lost only with a dying process or
\* a failing disk, or when the file is overwritten by another brief or deleted by a
\* finalize of somebody who has not seen it; and that harms no brief of a session that
\* goes on in a process with a UI, which was shown it (if (ctx.hasUI), extension.ts:2502
\* and 2529).
BriefsWait ==
    /\ TypeOK
    /\ \A b \in DOMAIN briefs :
          \/ briefs[b].at \in {"made", "file", "written", "lost"}
          \/ b \in told[briefs[b].proc] \/ pending[briefs[b].wiki] = b
          \/ /\ session[briefs[b].proc].number > briefs[b].session \/ ~hasUI[briefs[b].proc]
             /\ b \in swept \/ \E c \in DOMAIN briefs \ {b} : briefs[c].wiki = briefs[b].wiki

\* The triggers leave nothing behind: the messages of a session that settles its tasks
\* are captured in the end, also after failures and after compactions.
TasksAreCaptured ==
    \A p \in Proc :
        cadence[p] = "task" /\ session[p].messages >= Enough /\ Len(briefs) < MaxBriefs
          ~> session[p].messages \in {0, guard[p].count} \/ Len(briefs) >= MaxBriefs
=============================================================================
