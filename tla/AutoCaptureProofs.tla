-------------------------- MODULE AutoCaptureProofs --------------------------
(***************************************************************************)
(* Proofs about automatic capture, for any processes, wikis and            *)
(* configurations, and for any number of sessions, captures and briefs.    *)
(* One capture is in flight at a time: that is what paces the captures,    *)
(* and what makes it enough to mark a session as left when it is left.     *)
(***************************************************************************)
EXTENDS AutoCapture, TLAPS

Places == {"made", "file", "told", "written", "left", "lost"}
SessionOf(p) == [number : 1..MaxSessions[p], messages : 0..MaxMessages[p], editedFiles : SUBSET Wiki]
GuardOf(p) == [count : 0..MaxMessages[p], cooling : BOOLEAN]
BriefRecord == [proc : Proc, session : Nat \ {0}, wiki : Wiki, at : Places]

\* The processes; at most one capture of each is in flight, and none without the flag.
ProcsTyped ==
    /\ head \in 0..MaxCommits /\ lastCommitSeen \in [Proc -> 0..head]
    /\ DOMAIN session = Proc /\ DOMAIN guard = Proc /\ DOMAIN captures = Proc
    /\ autoCaptureInFlight \in [Proc -> BOOLEAN]
    /\ \A p \in Proc :
          /\ session[p] \in SessionOf(p) /\ guard[p] \in GuardOf(p)
          /\ captures[p] \subseteq Capture(p)
          /\ \A c, d \in captures[p] : c = d
          /\ captures[p] # {} => autoCaptureInFlight[p]

BriefsTyped ==
    /\ briefs \in Seq(BriefRecord)
    /\ pending \in [Wiki -> {0} \cup DOMAIN briefs]
    /\ told \in [Proc -> SUBSET DOMAIN briefs]

\* What a capture in flight is going to be filed under, and what its session has to do with it.
CapturesRouted ==
    \A p \in Proc :
        /\ \A w \in session[p].editedFiles : <<p, session[p].number, w>> \in worked
        /\ \A c \in captures[p] :
              /\ c.session = session[p].number \/ <<p, c.session>> \in strays
              /\ c.wiki = Home[p] \/ <<p, c.session, c.wiki>> \in worked \/ <<p, c.session>> \in strays

\* A capture in flight passed the guards, and they have not advanced since.
CapturesGuarded ==
    \A p \in Proc : \A c \in captures[p] :
        c.count # guard[p].count /\ (c.source = "commit" \/ ~guard[p].cooling)

Over(b) == session[briefs[b].proc].number > briefs[b].session
Alone(b) == Over(b) \/ ~hasUI[briefs[b].proc]
Replaced(b) == \E c \in DOMAIN briefs \ {b} : briefs[c].wiki = briefs[b].wiki

\* A brief that reached the file is there until somebody deletes or overwrites it, and one
\* that was shown is kept in mind until its session is over.  Nobody keeps in mind one whose
\* session is over or is in a process without a UI.
BriefsKept ==
    \A b \in DOMAIN briefs :
        /\ briefs[b].session <= session[briefs[b].proc].number
        /\ briefs[b].at \in {"file", "told", "left"} =>
              pending[briefs[b].wiki] = b \/ b \in swept \/ Replaced(b)
        /\ briefs[b].at = "told" => b \in told[briefs[b].proc] \/ Over(b)
        /\ briefs[b].at = "left" => Alone(b)

CaptureInv ==
    /\ ProcsTyped /\ BriefsTyped
    /\ CapturesRouted /\ RoutedByItsEdits
    /\ CapturesGuarded /\ BriefsKept

-----------------------------------------------------------------------------
(* The processes.                                                          *)

\* A capture that begins is the only one.
LEMMA BeginIsAlone ==
    ASSUME ProcsTyped, NEW p \in Proc, NEW source \in {"settled", "commit", "compact"},
           NEW count \in 0..session[p].messages, MayCapture(p, source, count), Begin(p, source, count)
    PROVE  LET c == [stage |-> "sift", source |-> source, count |-> count,
                     session |-> session[p].number, wiki |-> Home[p]]
           IN  /\ c \in Capture(p)
               /\ captures' = [captures EXCEPT ![p] = {c}]
               /\ autoCaptureInFlight' = [autoCaptureInFlight EXCEPT ![p] = TRUE]
<1> DEFINE c == [stage |-> "sift", source |-> source, count |-> count,
                 session |-> session[p].number, wiki |-> Home[p]]
<1>1. captures[p] = {} /\ session[p] \in SessionOf(p)
  BY DEF ProcsTyped, MayCapture
<1>2. Home[p] \in Wiki /\ Enough \in Nat /\ MaxMessages[p] \in Nat /\ MaxSessions[p] \in Nat /\ count >= Enough
  BY CaptureIsConfigured DEF MayCapture
<1>3. c \in Capture(p)
  BY <1>1, <1>2 DEF Capture, SessionOf
<1>4. captures' = [captures EXCEPT ![p] = {c}]
  BY <1>1 DEF Begin, ProcsTyped
<1> QED BY <1>3, <1>4 DEF Begin

\* A step of process p leaves the others as they are.
OnlyOf(p) ==
    /\ DOMAIN session' = Proc /\ DOMAIN guard' = Proc /\ DOMAIN captures' = Proc
    /\ autoCaptureInFlight' \in [Proc -> BOOLEAN]
    /\ \A q \in Proc \ {p} : /\ session'[q] = session[q] /\ guard'[q] = guard[q]
                             /\ captures'[q] = captures[q]
                             /\ autoCaptureInFlight'[q] = autoCaptureInFlight[q]

LEMMA ProcTyped ==
    ASSUME ProcsTyped, NEW p \in Proc, OnlyOf(p),
           head' \in 0..MaxCommits, lastCommitSeen' \in [Proc -> 0..head'],
           session'[p] \in SessionOf(p), guard'[p] \in GuardOf(p),
           captures'[p] \subseteq Capture(p)', \A c, d \in captures'[p] : c = d,
           captures'[p] # {} => autoCaptureInFlight'[p]
    PROVE  ProcsTyped'
<1>1. ASSUME NEW q \in Proc, q # p
      PROVE  /\ session'[q] \in SessionOf(q) /\ guard'[q] \in GuardOf(q)
             /\ captures'[q] \subseteq Capture(q)'
             /\ \A c, d \in captures'[q] : c = d
             /\ captures'[q] # {} => autoCaptureInFlight'[q]
  <2>1. /\ session'[q] = session[q] /\ guard'[q] = guard[q] /\ captures'[q] = captures[q]
        /\ autoCaptureInFlight'[q] = autoCaptureInFlight[q]
    BY <1>1 DEF OnlyOf
  <2>2. Capture(q)' = Capture(q)
    BY <2>1 DEF Capture
  <2> QED BY <2>1, <2>2 DEF ProcsTyped
<1> QED BY <1>1 DEF ProcsTyped, OnlyOf, SessionOf, GuardOf

\* A call of autoCapture goes on, or returns.
LEMMA CaptureGoesOn ==
    ASSUME ProcsTyped, NEW p \in Proc, NEW c \in captures[p], Proceed(p, c)
    PROVE  LET d == [c EXCEPT !.stage = "process", !.wiki = SubjectWiki(p)]
           IN  d \in Capture(p) /\ captures' = [captures EXCEPT ![p] = {d}]
<1> DEFINE d == [c EXCEPT !.stage = "process", !.wiki = SubjectWiki(p)]
<1>1. SubjectWiki(p) \in Wiki
  BY CaptureIsConfigured DEF SubjectWiki
<1>2. c \in Capture(p) /\ captures[p] = {c}
  BY DEF ProcsTyped
<1>3. d \in Capture(p)
  BY <1>1, <1>2 DEF Capture
<1>4. captures' = [captures EXCEPT ![p] = {d}]
  BY <1>2, ZenonT(60) DEF Proceed, ProcsTyped
<1> QED BY <1>3, <1>4

LEMMA CaptureReturns ==
    ASSUME ProcsTyped, NEW p \in Proc, NEW c \in captures[p], NEW ok, Returns(p, c, ok)
    PROVE  /\ captures' = [captures EXCEPT ![p] = {}]
           /\ autoCaptureInFlight' = [autoCaptureInFlight EXCEPT ![p] = FALSE]
<1>1. \A d \in captures[p] : d = c
  BY DEF ProcsTyped
<1>2. captures[p] \ {c} = {}
  BY <1>1
<1> QED BY <1>2 DEF Returns, ProcsTyped

\* The steps of the processes that have nothing to do with a brief.
LEMMA ProcsStep ==
    ASSUME ProcsTyped, [Next]_vars
    PROVE  ProcsTyped'
<1> USE CaptureIsConfigured
<1>1. CASE Commit
  <2>1. /\ head' \in 0..MaxCommits /\ lastCommitSeen' \in [Proc -> 0..head']
    BY <1>1 DEF Commit, own, ProcsTyped
  <2>2. /\ session' = session /\ guard' = guard /\ captures' = captures
        /\ autoCaptureInFlight' = autoCaptureInFlight
    BY <1>1 DEF Commit, own, flight
  <2>3. \A p \in Proc : Capture(p)' = Capture(p)
    BY <2>2 DEF Capture
  <2> QED BY <2>1, <2>2, <2>3 DEF ProcsTyped, SessionOf, GuardOf
<1>2. ASSUME NEW p \in Proc, Message(p)
      PROVE  ProcsTyped'
  <2>1. session[p] \in SessionOf(p) /\ session[p].messages < MaxMessages[p] /\ MaxMessages[p] \in Nat
    BY <1>2 DEF Message, ProcsTyped
  <2>2. session'[p] = [session[p] EXCEPT !.messages = @ + 1] /\ session'[p] \in SessionOf(p)
    BY <1>2, <2>1, SMTT(40) DEF Message, SessionOf, ProcsTyped
  <2>3. OnlyOf(p) /\ guard' = guard /\ captures' = captures /\ autoCaptureInFlight' = autoCaptureInFlight
    BY <1>2 DEF Message, OnlyOf, flight, ProcsTyped
  <2>4. Capture(p)' = Capture(p)
    BY <2>1, <2>2 DEF Capture, SessionOf
  <2> QED BY <1>2, <2>2, <2>3, <2>4, ProcTyped DEF Message, rest, ProcsTyped
<1>3. ASSUME NEW p \in Proc, NEW w \in Wiki, Edit(p, w)
      PROVE  ProcsTyped'
  <2>1. session[p] \in SessionOf(p)
    BY DEF ProcsTyped
  <2>2. /\ session'[p] = [session[p] EXCEPT !.editedFiles = @ \cup {w}]
        /\ session'[p] \in SessionOf(p)
    BY <1>3, <2>1 DEF Edit, SessionOf, ProcsTyped
  <2>3. OnlyOf(p) /\ guard' = guard /\ captures' = captures /\ autoCaptureInFlight' = autoCaptureInFlight
    BY <1>3 DEF Edit, OnlyOf, flight, ProcsTyped
  <2>4. Capture(p)' = Capture(p)
    BY <2>1, <2>2 DEF Capture, SessionOf
  <2>5. head' = head /\ lastCommitSeen' = lastCommitSeen
    BY <1>3 DEF Edit
  <2> QED BY <2>2, <2>3, <2>4, <2>5, ProcTyped DEF ProcsTyped
<1>4. ASSUME NEW p \in Proc, CoolDown(p)
      PROVE  ProcsTyped'
  <2>1. guard[p] \in GuardOf(p) /\ guard'[p] = [guard[p] EXCEPT !.cooling = FALSE]
    BY <1>4 DEF CoolDown, ProcsTyped
  <2>2. /\ session' = session /\ captures' = captures /\ autoCaptureInFlight' = autoCaptureInFlight
        /\ head' = head /\ lastCommitSeen' = lastCommitSeen
    BY <1>4 DEF CoolDown, flight, rest
  <2>4. guard'[p] \in GuardOf(p) /\ OnlyOf(p)
    BY <1>4, <2>1, <2>2 DEF CoolDown, GuardOf, OnlyOf, ProcsTyped
  <2>3. Capture(p)' = Capture(p)
    BY <2>2 DEF Capture
  <2> QED BY <2>2, <2>3, <2>4, ProcTyped DEF ProcsTyped
<1>5. ASSUME NEW p \in Proc, session[p].number < MaxSessions[p],
             session' = [session EXCEPT ![p] = NewSession(@.number + 1)],
             lastCommitSeen' = [lastCommitSeen EXCEPT ![p] = head], head' = head
      PROVE  /\ session'[p] \in SessionOf(p) /\ Capture(p) \subseteq Capture(p)'
             /\ lastCommitSeen' \in [Proc -> 0..head'] /\ head' \in 0..MaxCommits
  <2>1. session[p] \in SessionOf(p) /\ MaxSessions[p] \in Nat /\ MaxMessages[p] \in Nat
    BY DEF ProcsTyped
  <2>2. session'[p] = NewSession(session[p].number + 1)
    BY <1>5 DEF ProcsTyped
  <2>3. session'[p] \in SessionOf(p) /\ session'[p].number = session[p].number + 1
    BY <1>5, <2>1, <2>2 DEF NewSession, SessionOf
  <2>4. Capture(p) \subseteq Capture(p)'
    BY <2>1, <2>3 DEF Capture, SessionOf
  <2> QED BY <1>5, <2>3, <2>4 DEF ProcsTyped
<1>6. ASSUME NEW p \in Proc, SwitchSession(p)
      PROVE  ProcsTyped'
  <2>1. /\ session'[p] \in SessionOf(p) /\ Capture(p) \subseteq Capture(p)'
        /\ lastCommitSeen' \in [Proc -> 0..head'] /\ head' \in 0..MaxCommits
    BY <1>5, <1>6 DEF SwitchSession, Enter, ClearEdits
  <2>2. OnlyOf(p) /\ guard' = guard /\ captures' = captures /\ autoCaptureInFlight' = autoCaptureInFlight
    BY <1>6 DEF SwitchSession, Enter, OnlyOf, flight, ProcsTyped
  <2>3. captures[p] \subseteq Capture(p)'
    BY <2>1 DEF ProcsTyped
  <2> QED BY <2>1, <2>2, <2>3, ProcTyped DEF ProcsTyped
<1>7. ASSUME NEW p \in Proc, Restart(p)
      PROVE  ProcsTyped'
  <2>1. /\ session'[p] \in SessionOf(p) /\ lastCommitSeen' \in [Proc -> 0..head'] /\ head' \in 0..MaxCommits
    BY <1>5, <1>7 DEF Restart, rest
  <2>2. OnlyOf(p) /\ captures'[p] = {} /\ guard'[p] = Cold
    BY <1>7 DEF Restart, OnlyOf, ProcsTyped
  <2>3. Cold \in GuardOf(p)
    BY DEF Cold, GuardOf
  <2> QED BY <2>1, <2>2, <2>3, ProcTyped
<1>8. ASSUME NEW p \in Proc, NEW source \in {"settled", "commit", "compact"},
             NEW count \in 0..session[p].messages, MayCapture(p, source, count), Begin(p, source, count),
             session' = session, guard' = guard, head' \in 0..MaxCommits, lastCommitSeen' \in [Proc -> 0..head']
      PROVE  ProcsTyped'
  <2>1. PICK c \in Capture(p) : /\ captures' = [captures EXCEPT ![p] = {c}]
                                /\ autoCaptureInFlight' = [autoCaptureInFlight EXCEPT ![p] = TRUE]
    BY <1>8, BeginIsAlone
  <2>2. OnlyOf(p) /\ captures'[p] = {c} /\ autoCaptureInFlight'[p]
    BY <1>8, <2>1 DEF OnlyOf, ProcsTyped
  <2>3. Capture(p)' = Capture(p)
    BY <1>8 DEF Capture
  <2> QED BY <1>8, <2>2, <2>3, ProcTyped DEF ProcsTyped
<1>9. ASSUME NEW p \in Proc, SettleTask(p) \/ SettleCommit(p) \/ \E count \in 0..session[p].messages : Compact(p, count)
      PROVE  ProcsTyped'
  <2>1. session[p].messages \in 0..session[p].messages
    BY DEF ProcsTyped, SessionOf
  <2>2. CASE SettleTask(p)
    BY <2>1, <2>2, <1>8 DEF SettleTask, own, rest, ProcsTyped
  <2>3. CASE SettleCommit(p)
    <3>1. /\ session' = session /\ guard' = guard /\ head' \in 0..MaxCommits
          /\ lastCommitSeen' \in [Proc -> 0..head']
      BY <2>3 DEF SettleCommit, rest, ProcsTyped
    <3>2. CASE MayCapture(p, "commit", session[p].messages)
      BY <2>1, <2>3, <3>1, <3>2, <1>8 DEF SettleCommit
    <3>3. CASE ~MayCapture(p, "commit", session[p].messages)
      <4>1. captures' = captures /\ autoCaptureInFlight' = autoCaptureInFlight
        BY <2>3, <3>3 DEF SettleCommit, flight
      <4>2. \A q \in Proc : Capture(q)' = Capture(q)
        BY <3>1 DEF Capture
      <4> QED BY <3>1, <4>1, <4>2 DEF ProcsTyped, SessionOf, GuardOf
    <3> QED BY <3>2, <3>3
  <2>4. CASE \E count \in 0..session[p].messages : Compact(p, count)
    BY <2>4, <1>8 DEF Compact, own, ProcsTyped
  <2> QED BY <1>9, <2>2, <2>3, <2>4
<1>10. ASSUME NEW p \in Proc, NEW c \in captures[p], Proceed(p, c)
       PROVE  ProcsTyped'
  <2>1. PICK d \in Capture(p) : captures' = [captures EXCEPT ![p] = {d}]
    BY <1>10, CaptureGoesOn
  <2>2. /\ OnlyOf(p) /\ captures'[p] = {d} /\ session' = session /\ guard' = guard
        /\ autoCaptureInFlight'[p] /\ head' = head /\ lastCommitSeen' = lastCommitSeen
    BY <1>10, <2>1 DEF Proceed, OnlyOf, own, rest, ProcsTyped
  <2>3. Capture(p)' = Capture(p)
    BY <2>2 DEF Capture
  <2> QED BY <2>2, <2>3, ProcTyped DEF ProcsTyped
<1>11. ASSUME NEW p \in Proc, NEW c \in captures[p], Advance(p, c)
       PROVE  ProcsTyped'
  <2>1. captures' = [captures EXCEPT ![p] = {}] /\ autoCaptureInFlight' = [autoCaptureInFlight EXCEPT ![p] = FALSE]
    BY <1>11, CaptureReturns DEF Advance
  <2>2. c \in Capture(p) /\ Enough \in Nat
    BY DEF ProcsTyped
  <2>3. guard'[p] = [count |-> c.count, cooling |-> TRUE] /\ guard'[p] \in GuardOf(p)
    BY <1>11, <2>2 DEF Advance, Capture, GuardOf, ProcsTyped
  <2>4. OnlyOf(p) /\ session' = session /\ head' = head /\ lastCommitSeen' = lastCommitSeen /\ captures'[p] = {}
    BY <1>11, <2>1 DEF Advance, OnlyOf, rest, ProcsTyped
  <2> QED BY <2>3, <2>4, ProcTyped DEF ProcsTyped
<1>12. ASSUME NEW p \in Proc, NEW c \in captures[p], FailCapture(p, c)
       PROVE  ProcsTyped'
  <2>1. captures' = [captures EXCEPT ![p] = {}] /\ autoCaptureInFlight' = [autoCaptureInFlight EXCEPT ![p] = FALSE]
    BY <1>12, CaptureReturns DEF FailCapture
  <2>2. /\ OnlyOf(p) /\ session' = session /\ guard' = guard /\ head' = head
        /\ lastCommitSeen' = lastCommitSeen /\ captures'[p] = {}
    BY <1>12, <2>1 DEF FailCapture, own, OnlyOf, ProcsTyped
  <2> QED BY <2>2, ProcTyped DEF ProcsTyped
<1>13. CASE UNCHANGED <<own, flight, head>>
  <2>1. \A p \in Proc : Capture(p)' = Capture(p)
    BY <1>13 DEF own, Capture
  <2> QED BY <1>13, <2>1 DEF own, flight, ProcsTyped, SessionOf, GuardOf
<1>14. ASSUME NEW p \in Proc,
              \/ Deliver(p) \/ \E b \in DOMAIN briefs : FailPending(p, b)
              \/ \E w \in Wiki : Finalize(p, w)
       PROVE  UNCHANGED <<own, flight, head>>
  BY <1>14 DEF Deliver, WritePending, Tell, TellNobody, FailPending, Finalize, rest
<1>15. CASE UNCHANGED vars
  BY <1>13, <1>15 DEF vars, rest
<1>16. ASSUME NEW p \in Proc, CaptureStep(p)
       PROVE  ProcsTyped'
  BY <1>16, <1>10, <1>11 DEF CaptureStep, FindNothing, Accept
<1> QED BY <1>1, <1>2, <1>3, <1>4, <1>6, <1>7, <1>9, <1>12, <1>13, <1>14, <1>15, <1>16 DEF Next

-----------------------------------------------------------------------------
(* The briefs.                                                             *)

\* No brief disappears or changes hands.
Keeps ==
    /\ briefs' \in Seq(BriefRecord) /\ DOMAIN briefs \subseteq DOMAIN briefs'
    /\ \A b \in DOMAIN briefs : /\ briefs'[b].proc = briefs[b].proc
                                /\ briefs'[b].session = briefs[b].session
                                /\ briefs'[b].wiki = briefs[b].wiki

LEMMA BriefIndices ==
    ASSUME BriefsTyped
    PROVE  /\ Len(briefs) \in Nat /\ DOMAIN briefs = 1..Len(briefs)
           /\ \A b \in DOMAIN briefs : briefs[b] \in BriefRecord
  BY DEF BriefsTyped

LEMMA MovedKeeps ==
    ASSUME BriefsTyped, NEW b \in DOMAIN briefs, NEW place \in Places, briefs' = Moved(b, place)
    PROVE  /\ Keeps /\ DOMAIN briefs' = DOMAIN briefs /\ briefs'[b].at = place
           /\ \A c \in DOMAIN briefs \ {b} : briefs'[c] = briefs[c]
<1>1. /\ DOMAIN briefs' = DOMAIN briefs /\ briefs'[b] = [briefs[b] EXCEPT !.at = place]
      /\ \A c \in DOMAIN briefs \ {b} : briefs'[c] = briefs[c]
  BY BriefIndices DEF Moved, BriefsTyped
<1>2. briefs'[b] \in BriefRecord
  BY <1>1, BriefIndices DEF BriefRecord
<1>3. briefs' \in Seq(BriefRecord)
  BY <1>1, <1>2, BriefIndices DEF Moved, BriefsTyped
<1> QED BY <1>1, <1>2, <1>3, BriefIndices DEF Keeps, BriefRecord

LEMMA RestartKeeps ==
    ASSUME BriefsTyped, NEW p \in Proc, Restart(p)
    PROVE  /\ Keeps /\ DOMAIN briefs' = DOMAIN briefs
           /\ \A b \in DOMAIN briefs :
                 \/ briefs'[b].at = briefs[b].at
                 \/ briefs[b].proc = p /\ briefs'[b].at = "lost"
                 \/ briefs[b].proc = p /\ briefs[b].at = "file" /\ briefs'[b].at = "left"
<1> DEFINE after(b) == CASE briefs[b].proc = p /\ briefs[b].at = "made" -> [briefs[b] EXCEPT !.at = "lost"]
                         [] briefs[b].proc = p /\ briefs[b].at = "file" -> [briefs[b] EXCEPT !.at = "left"]
                         [] OTHER -> briefs[b]
<1>1. briefs' = [b \in DOMAIN briefs |-> after(b)]
  BY DEF Restart
<1>2. ASSUME NEW b \in DOMAIN briefs
      PROVE  /\ after(b) \in BriefRecord
             /\ after(b).proc = briefs[b].proc /\ after(b).session = briefs[b].session
             /\ after(b).wiki = briefs[b].wiki
             /\ \/ after(b).at = briefs[b].at
                \/ briefs[b].proc = p /\ after(b).at = "lost"
                \/ briefs[b].proc = p /\ briefs[b].at = "file" /\ after(b).at = "left"
  BY BriefIndices DEF BriefRecord, Places
<1> HIDE DEF after
<1>3. briefs' \in Seq(BriefRecord)
  BY <1>1, <1>2, BriefIndices
<1> QED BY <1>1, <1>2, <1>3 DEF Keeps

LEMMA FinalizeKeeps ==
    ASSUME BriefsTyped, NEW p \in Proc, NEW w \in Wiki, Finalize(p, w)
    PROVE  /\ Keeps /\ DOMAIN briefs' = DOMAIN briefs
           /\ \A b \in DOMAIN briefs :
                 briefs'[b].at = IF b \in told[p] /\ briefs[b].wiki = w THEN "written" ELSE briefs[b].at
<1> DEFINE seen == {b \in told[p] : briefs[b].wiki = w}
           after(b) == IF b \in seen THEN [briefs[b] EXCEPT !.at = "written"] ELSE briefs[b]
<1>1. briefs' = [b \in DOMAIN briefs |-> after(b)]
  BY DEF Finalize
<1>2. ASSUME NEW b \in DOMAIN briefs
      PROVE  /\ after(b) \in BriefRecord
             /\ after(b).proc = briefs[b].proc /\ after(b).session = briefs[b].session
             /\ after(b).wiki = briefs[b].wiki
             /\ after(b).at = IF b \in seen THEN "written" ELSE briefs[b].at
  BY BriefIndices DEF BriefRecord, Places
<1> HIDE DEF after
<1>3. briefs' \in Seq(BriefRecord)
  BY <1>1, <1>2, BriefIndices
<1> QED BY <1>1, <1>2, <1>3 DEF Keeps

LEMMA AcceptKeeps ==
    ASSUME ProcsTyped, BriefsTyped, NEW p \in Proc, NEW c \in captures[p], Accept(p, c)
    PROVE  LET n == Len(briefs) + 1
           IN  /\ Keeps /\ DOMAIN briefs' = DOMAIN briefs \cup {n} /\ n \notin DOMAIN briefs
               /\ \A b \in DOMAIN briefs : briefs'[b] = briefs[b]
               /\ briefs'[n] = [proc |-> p, session |-> c.session, wiki |-> c.wiki, at |-> "made"]
<1> DEFINE new == [proc |-> p, session |-> c.session, wiki |-> c.wiki, at |-> "made"]
<1>1. c \in Capture(p) /\ session[p] \in SessionOf(p) /\ MaxSessions[p] \in Nat
  BY CaptureIsConfigured DEF ProcsTyped
<1>2. new \in BriefRecord
  BY <1>1 DEF Capture, SessionOf, BriefRecord, Places
<1>3. briefs' = Append(briefs, new)
  BY DEF Accept
<1> HIDE DEF new
<1>4. /\ DOMAIN briefs' = 1..(Len(briefs) + 1) /\ briefs'[Len(briefs) + 1] = new
      /\ \A b \in DOMAIN briefs : briefs'[b] = briefs[b]
  BY <1>2, <1>3, BriefIndices DEF BriefsTyped
<1>5. briefs' \in Seq(BriefRecord)
  BY <1>2, <1>3 DEF BriefsTyped
<1> QED BY <1>4, <1>5, BriefIndices DEF Keeps, new

\* A step of a process or of the repository that has nothing to do with the briefs, or only
\* with what the session was shown of them.
LEMMA QuietSteps ==
    ASSUME NEW p \in Proc,
           \/ Commit \/ Message(p) \/ CoolDown(p) \/ SettleTask(p) \/ SettleCommit(p)
           \/ \E count \in 0..session[p].messages : Compact(p, count)
           \/ \E c \in captures[p] : Proceed(p, c) \/ FindNothing(p, c) \/ FailCapture(p, c)
           \/ \E w \in Wiki : Edit(p, w)
    PROVE  UNCHANGED store
  BY DEF Commit, Message, CoolDown, SettleTask, SettleCommit, Compact, Proceed, FindNothing, FailCapture, Edit

LEMMA BriefsStep ==
    ASSUME ProcsTyped, BriefsTyped, [Next]_vars
    PROVE  BriefsTyped' /\ Keeps
<1>1. CASE UNCHANGED store
  BY <1>1, BriefIndices DEF store, BriefsTyped, Keeps
<1>2. ASSUME NEW p \in Proc, SwitchSession(p)
      PROVE  BriefsTyped' /\ Keeps
  BY <1>2, BriefIndices DEF SwitchSession, Enter, BriefsTyped, Keeps
<1>3. ASSUME NEW p \in Proc, Restart(p)
      PROVE  BriefsTyped' /\ Keeps
  <2>1. Keeps /\ DOMAIN briefs' = DOMAIN briefs
    BY <1>3, RestartKeeps
  <2>2. pending' = pending /\ told' = [told EXCEPT ![p] = {}]
    BY <1>3 DEF Restart
  <2> QED BY <2>1, <2>2 DEF BriefsTyped, Keeps
<1>4. ASSUME NEW p \in Proc, NEW c \in captures[p], Accept(p, c)
      PROVE  BriefsTyped' /\ Keeps
  <2>1. Keeps /\ DOMAIN briefs \subseteq DOMAIN briefs'
    BY <1>4, AcceptKeeps DEF Keeps
  <2>2. pending' = pending /\ told' = told
    BY <1>4 DEF Accept
  <2> QED BY <2>1, <2>2 DEF BriefsTyped, Keeps
<1>5. ASSUME NEW p \in Proc, NEW b \in DOMAIN briefs, WritePending(p, b) \/ Tell(p, b) \/ TellNobody(p, b) \/ FailPending(p, b)
      PROVE  BriefsTyped' /\ Keeps
  <2>1. Keeps /\ DOMAIN briefs' = DOMAIN briefs
    <3>1. \E place \in Places : briefs' = Moved(b, place)
      BY <1>5 DEF WritePending, Tell, TellNobody, FailPending, Places
    <3> QED BY <3>1, MovedKeeps
  <2>2. pending' \in [Wiki -> {0} \cup DOMAIN briefs] /\ told' \in [Proc -> SUBSET DOMAIN briefs]
    BY <1>5 DEF WritePending, Tell, TellNobody, FailPending, Show, BriefsTyped
  <2> QED BY <2>1, <2>2 DEF BriefsTyped, Keeps
<1>6. ASSUME NEW p \in Proc, NEW w \in Wiki, Finalize(p, w)
      PROVE  BriefsTyped' /\ Keeps
  <2>1. Keeps /\ DOMAIN briefs' = DOMAIN briefs
    BY <1>6, FinalizeKeeps
  <2>2. pending' \in [Wiki -> {0} \cup DOMAIN briefs]
    BY <1>6 DEF Finalize, BriefsTyped
  <2>3. told' \in [Proc -> SUBSET DOMAIN briefs]
    BY <1>6 DEF Finalize, BriefsTyped
  <2> QED BY <2>1, <2>2, <2>3 DEF BriefsTyped, Keeps
<1>7. CASE UNCHANGED vars
  BY <1>1, <1>7 DEF vars
<1>8. CASE Commit
  BY <1>1, <1>8 DEF Commit
<1> QED BY <1>1, <1>2, <1>3, <1>4, <1>5, <1>6, <1>7, <1>8, QuietSteps DEF Next, CaptureStep, Deliver

-----------------------------------------------------------------------------
(* Where a capture is filed.                                               *)

\* Histories only grow, and a session is left with its number unless it goes on.
LEMMA HistoriesGrow ==
    ASSUME [Next]_vars
    PROVE  worked \subseteq worked' /\ strays \subseteq strays' /\ swept \subseteq swept'
<1>1. ASSUME NEW p \in Proc,
             \/ Message(p) \/ CoolDown(p) \/ SwitchSession(p) \/ Restart(p)
             \/ SettleTask(p) \/ SettleCommit(p)
             \/ \E count \in 0..session[p].messages : Compact(p, count)
             \/ CaptureStep(p) \/ \E c \in captures[p] : FailCapture(p, c)
             \/ \E w \in Wiki : Edit(p, w)
      PROVE  worked \subseteq worked' /\ strays \subseteq strays' /\ swept \subseteq swept'
  BY <1>1 DEF rest, store, Message, CoolDown, SwitchSession, Restart, SettleTask, SettleCommit, Compact,
              CaptureStep, Proceed, FindNothing, Advance, Accept, FailCapture, Edit
<1>2. ASSUME NEW p \in Proc,
             \/ Deliver(p) \/ \E b \in DOMAIN briefs : FailPending(p, b)
             \/ \E w \in Wiki : Finalize(p, w)
      PROVE  worked \subseteq worked' /\ strays \subseteq strays' /\ swept \subseteq swept'
  BY <1>2 DEF rest, Deliver, WritePending, Tell, TellNobody, FailPending, Finalize
<1> QED BY <1>1, <1>2 DEF Next, vars, rest, store, Commit

LEMMA UIStays ==
    ASSUME [Next]_vars
    PROVE  hasUI' = hasUI
  BY ZenonT(60) DEF Next, vars, rest, config, Commit, Message, CoolDown, SwitchSession, Restart, SettleTask, SettleCommit,
         Compact, CaptureStep, Proceed, FindNothing, Advance, Accept, Deliver, WritePending, Tell, TellNobody,
         FailCapture, FailPending, Edit, Finalize

\* What the captures in flight of a step come from.
LEMMA CapturesStep ==
    ASSUME ProcsTyped, [Next]_vars, NEW p \in Proc, NEW d \in captures'[p]
    PROVE  /\ guard'[p] # guard[p] => guard'[p] = [guard[p] EXCEPT !.cooling = FALSE]
           /\ \/ d \in captures[p]
              \/ /\ session'[p] = session[p] /\ guard'[p] = guard[p]
                 /\ \E c \in captures[p] : d = [c EXCEPT !.stage = "process", !.wiki = SubjectWiki(p)]
              \/ /\ session'[p] = session[p] /\ guard'[p] = guard[p]
                 /\ d.session = session[p].number /\ d.wiki = Home[p]
                 /\ MayCapture(p, d.source, d.count)
<1> DEFINE Result == /\ guard'[p] # guard[p] => guard'[p] = [guard[p] EXCEPT !.cooling = FALSE]
                     /\ \/ d \in captures[p]
                        \/ /\ session'[p] = session[p] /\ guard'[p] = guard[p]
                           /\ \E c \in captures[p] : d = [c EXCEPT !.stage = "process", !.wiki = SubjectWiki(p)]
                        \/ /\ session'[p] = session[p] /\ guard'[p] = guard[p]
                           /\ d.session = session[p].number /\ d.wiki = Home[p]
                           /\ MayCapture(p, d.source, d.count)
<1>1. CASE UNCHANGED <<guard, captures>>
  BY <1>1
<1>2. CASE Commit \/ UNCHANGED vars
  BY <1>1, <1>2 DEF Commit, vars, own, flight
<1>3. ASSUME NEW q \in Proc,
             \/ Message(q) \/ SwitchSession(q) \/ Deliver(q) \/ \E b \in DOMAIN briefs : FailPending(q, b)
             \/ \E w \in Wiki : Edit(q, w) \/ Finalize(q, w)
      PROVE  UNCHANGED <<guard, captures>>
  BY <1>3 DEF Message, SwitchSession, Deliver, WritePending, Tell, TellNobody, FailPending, Edit, Finalize, own, flight
<1>4. ASSUME NEW q \in Proc, CoolDown(q)
      PROVE  Result
  <2>1. captures' = captures /\ guard' = [guard EXCEPT ![q].cooling = FALSE]
    BY <1>4 DEF CoolDown, flight
  <2> QED BY <2>1 DEF ProcsTyped
<1>5. ASSUME NEW q \in Proc, Restart(q)
      PROVE  Result
  <2>1. captures' = [captures EXCEPT ![q] = {}] /\ guard' = [guard EXCEPT ![q] = Cold]
    BY <1>5 DEF Restart
  <2>2. p # q
    BY <2>1 DEF ProcsTyped
  <2> QED BY <2>1, <2>2 DEF ProcsTyped
<1>6. ASSUME NEW q \in Proc, NEW source \in {"settled", "commit", "compact"},
             NEW count \in 0..session[q].messages, MayCapture(q, source, count), Begin(q, source, count),
             session' = session, guard' = guard
      PROVE  Result
  <2> DEFINE c == [stage |-> "sift", source |-> source, count |-> count,
                   session |-> session[q].number, wiki |-> Home[q]]
  <2>1. captures' = [captures EXCEPT ![q] = {c}]
    <3>1. captures[q] = {}
      BY <1>6 DEF ProcsTyped, MayCapture
    <3>2. captures' = [captures EXCEPT ![q] = captures[q] \cup {c}]
      BY <1>6 DEF Begin, ProcsTyped
    <3> HIDE DEF c
    <3> QED BY <3>1, <3>2
  <2>2. CASE p = q
    <3>1. d = c
      BY <2>1, <2>2 DEF ProcsTyped
    <3>2. d.session = session[p].number /\ d.wiki = Home[p] /\ d.source = source /\ d.count = count
      BY <2>2, <3>1
    <3> QED BY <1>6, <2>2, <3>2
  <2>3. CASE p # q
    BY <1>6, <2>1, <2>3 DEF ProcsTyped
  <2> QED BY <2>2, <2>3
<1>7. ASSUME NEW q \in Proc, SettleTask(q) \/ SettleCommit(q) \/ \E count \in 0..session[q].messages : Compact(q, count)
      PROVE  Result
  <2>1. session[q].messages \in 0..session[q].messages
    BY DEF ProcsTyped, SessionOf
  <2>2. CASE SettleTask(q)
    BY <2>1, <2>2, <1>6, ZenonT(60) DEF SettleTask, own
  <2>3. CASE SettleCommit(q)
    BY <2>1, <2>3, <1>1, <1>6 DEF SettleCommit, flight
  <2>4. CASE \E count \in 0..session[q].messages : Compact(q, count)
    BY <2>4, <1>6 DEF Compact, own
  <2> QED BY <1>7, <2>2, <2>3, <2>4
<1>8. ASSUME NEW q \in Proc, NEW c \in captures[q], Proceed(q, c)
      PROVE  Result
  <2>1. /\ captures' = [captures EXCEPT ![q] = {[c EXCEPT !.stage = "process", !.wiki = SubjectWiki(q)]}]
        /\ session' = session /\ guard' = guard
    BY <1>8, CaptureGoesOn DEF Proceed, own
  <2> QED BY <2>1 DEF ProcsTyped
<1>9. ASSUME NEW q \in Proc, NEW c \in captures[q], Advance(q, c) \/ FailCapture(q, c)
      PROVE  Result
  <2>1. /\ captures' = [captures EXCEPT ![q] = {}]
        /\ \A r \in Proc \ {q} : guard'[r] = guard[r]
    BY <1>9, CaptureReturns DEF Advance, FailCapture, own, ProcsTyped
  <2>2. p # q
    BY <2>1 DEF ProcsTyped
  <2> QED BY <2>1, <2>2 DEF ProcsTyped
<1> HIDE DEF Result
<1>10. ASSUME NEW q \in Proc, CaptureStep(q)
       PROVE  Result
  BY <1>10, <1>8, <1>9 DEF CaptureStep, FindNothing, Accept
<1>11. Result
  BY <1>1, <1>2, <1>3, <1>4, <1>5, <1>7, <1>9, <1>10 DEF Next, Result
<1> QED BY <1>11 DEF Result

\* What a step does to a session: it goes on, or another one begins, and then it is a stray
\* if a capture is in flight.
LEMMA SessionsStep ==
    ASSUME ProcsTyped, [Next]_vars, NEW p \in Proc
    PROVE  \/ /\ session'[p].number = session[p].number
              /\ \A w \in session'[p].editedFiles \ session[p].editedFiles :
                    <<p, session[p].number, w>> \in worked'
           \/ /\ session'[p].number = session[p].number + 1 /\ session'[p].editedFiles = {}
              /\ captures'[p] # {} => captures' = captures /\ <<p, session[p].number>> \in strays'
<1> DEFINE Result == \/ /\ session'[p].number = session[p].number
                        /\ \A w \in session'[p].editedFiles \ session[p].editedFiles :
                              <<p, session[p].number, w>> \in worked'
                     \/ /\ session'[p].number = session[p].number + 1 /\ session'[p].editedFiles = {}
                        /\ captures'[p] # {} => captures' = captures /\ <<p, session[p].number>> \in strays'
<1>t. \A q \in Proc : session[q] \in SessionOf(q)
  BY DEF ProcsTyped
<1>1. CASE UNCHANGED session
  BY <1>1
<1>2. ASSUME NEW q \in Proc, Message(q)
      PROVE  Result
  BY <1>2, <1>t DEF Message, SessionOf, ProcsTyped
<1>3. ASSUME NEW q \in Proc, NEW w \in Wiki, Edit(q, w)
      PROVE  Result
  <2>1. /\ session' = [session EXCEPT ![q].editedFiles = @ \cup {w}]
        /\ worked' = worked \cup {<<q, session[q].number, w>>}
    BY <1>3 DEF Edit
  <2>2. CASE p = q
    BY <2>1, <2>2, <1>t DEF SessionOf, ProcsTyped
  <2>3. CASE p # q
    BY <2>1, <2>3 DEF ProcsTyped
  <2> QED BY <2>2, <2>3
<1>4. ASSUME NEW q \in Proc, SwitchSession(q)
      PROVE  Result
  <2>1. /\ session' = [session EXCEPT ![q] = NewSession(session[q].number + 1)] /\ captures' = captures
        /\ strays' = IF captures[q] = {} THEN strays ELSE strays \cup {<<q, session[q].number>>}
    BY <1>4 DEF SwitchSession, Enter, ClearEdits, flight
  <2>2. CASE p = q
    <3>1. session'[p] = NewSession(session[p].number + 1)
      BY <2>1, <2>2 DEF ProcsTyped
    <3> QED BY <2>1, <2>2, <3>1 DEF NewSession
  <2>3. CASE p # q
    BY <2>1, <2>3 DEF ProcsTyped
  <2> QED BY <2>2, <2>3
<1>5. ASSUME NEW q \in Proc, Restart(q)
      PROVE  Result
  <2>1. /\ session' = [session EXCEPT ![q] = NewSession(session[q].number + 1)]
        /\ captures' = [captures EXCEPT ![q] = {}]
    BY <1>5 DEF Restart
  <2>2. CASE p = q
    <3>1. session'[p] = NewSession(session[p].number + 1) /\ captures'[p] = {}
      BY <2>1, <2>2 DEF ProcsTyped
    <3> QED BY <2>1, <2>2, <3>1 DEF NewSession
  <2>3. CASE p # q
    BY <2>1, <2>3 DEF ProcsTyped
  <2> QED BY <2>2, <2>3
<1> HIDE DEF Result
<1>6. ASSUME NEW q \in Proc,
             \/ CoolDown(q) \/ SettleTask(q) \/ SettleCommit(q)
             \/ \E count \in 0..session[q].messages : Compact(q, count)
             \/ CaptureStep(q) \/ Deliver(q)
             \/ \E c \in captures[q] : FailCapture(q, c)
             \/ \E b \in DOMAIN briefs : FailPending(q, b)
             \/ \E w \in Wiki : Finalize(q, w)
      PROVE  UNCHANGED session
  BY <1>6 DEF CoolDown, SettleTask, SettleCommit, Compact, CaptureStep, Deliver, FailCapture, FailPending,
              Finalize, Proceed, FindNothing, Accept, Advance, WritePending, Tell, TellNobody, own
<1>7. CASE UNCHANGED vars \/ Commit
  BY <1>1, <1>7 DEF vars, own, Commit
<1>8. Result
  BY <1>1, <1>2, <1>3, <1>4, <1>5, <1>6, <1>7 DEF Next, Result
<1> QED BY <1>8 DEF Result

\* A brief that is new is of a capture in flight.
LEMMA NewBriefs ==
    ASSUME ProcsTyped, BriefsTyped, [Next]_vars, NEW b \in DOMAIN briefs', b \notin DOMAIN briefs
    PROVE  \E p \in Proc : \E c \in captures[p] :
              briefs'[b] = [proc |-> p, session |-> c.session, wiki |-> c.wiki, at |-> "made"]
<1>1. ASSUME NEW p \in Proc, NEW c \in captures[p], Accept(p, c)
      PROVE  briefs'[b] = [proc |-> p, session |-> c.session, wiki |-> c.wiki, at |-> "made"]
  BY <1>1, AcceptKeeps
<1>2. ASSUME NEW p \in Proc,
             \/ Restart(p) \/ Deliver(p) \/ \E x \in DOMAIN briefs : FailPending(p, x)
             \/ \E w \in Wiki : Finalize(p, w)
      PROVE  DOMAIN briefs' = DOMAIN briefs
  <2>1. ASSUME NEW x \in DOMAIN briefs, WritePending(p, x) \/ Tell(p, x) \/ TellNobody(p, x) \/ FailPending(p, x)
        PROVE  DOMAIN briefs' = DOMAIN briefs
    <3>1. \E place \in Places : briefs' = Moved(x, place)
      BY <2>1 DEF WritePending, Tell, TellNobody, FailPending, Places
    <3> QED BY <3>1, MovedKeeps
  <2> QED BY <1>2, <2>1, RestartKeeps, FinalizeKeeps DEF Deliver
<1>3. ASSUME UNCHANGED store
      PROVE  DOMAIN briefs' = DOMAIN briefs
  BY <1>3 DEF store
<1>4. ASSUME NEW p \in Proc, SwitchSession(p)
      PROVE  DOMAIN briefs' = DOMAIN briefs
  BY <1>4 DEF SwitchSession
<1>5. UNCHANGED vars \/ Commit => UNCHANGED store
  BY DEF vars, Commit
<1> QED BY <1>1, <1>2, <1>3, <1>4, <1>5, QuietSteps DEF Next, CaptureStep

LEMMA RoutedStep ==
    ASSUME ProcsTyped, BriefsTyped, CapturesRouted, RoutedByItsEdits, [Next]_vars
    PROVE  CapturesRouted' /\ RoutedByItsEdits'
<1> USE HistoriesGrow
<1>1. ASSUME NEW p \in Proc, NEW w \in session'[p].editedFiles
      PROVE  <<p, session'[p].number, w>> \in worked'
  BY <1>1, SessionsStep DEF CapturesRouted
<1>2. ASSUME NEW p \in Proc, NEW d \in captures[p]
      PROVE  /\ d \in captures'[p] => d.session = session'[p].number \/ <<p, d.session>> \in strays'
             /\ d.wiki = Home[p] \/ <<p, d.session, d.wiki>> \in worked' \/ <<p, d.session>> \in strays'
  BY <1>2, SessionsStep DEF CapturesRouted
<1>3. ASSUME NEW p \in Proc, NEW d \in captures'[p]
      PROVE  /\ d.session = session'[p].number \/ <<p, d.session>> \in strays'
             /\ d.wiki = Home[p] \/ <<p, d.session, d.wiki>> \in worked' \/ <<p, d.session>> \in strays'
  <2>1. CASE d \in captures[p]
    BY <1>2, <2>1
  <2>2. ASSUME session'[p] = session[p], NEW c \in captures[p],
               d = [c EXCEPT !.stage = "process", !.wiki = SubjectWiki(p)]
        PROVE  /\ d.session = session'[p].number \/ <<p, d.session>> \in strays'
               /\ d.wiki = Home[p] \/ <<p, d.session, d.wiki>> \in worked' \/ <<p, d.session>> \in strays'
    <3>1. SubjectWiki(p) = Home[p] \/ SubjectWiki(p) \in session[p].editedFiles
      BY DEF SubjectWiki, EditedWikis
    <3>2. d.session = c.session /\ d.wiki = SubjectWiki(p)
      BY <2>2 DEF ProcsTyped, Capture
    <3> QED BY <1>1, <2>2, <3>1, <3>2 DEF CapturesRouted
  <2>3. CASE session'[p] = session[p] /\ d.session = session[p].number /\ d.wiki = Home[p]
    BY <2>3
  <2> QED BY <2>1, <2>2, <2>3, CapturesStep
<1>4. ASSUME NEW b \in DOMAIN briefs'
      PROVE  LET by == <<briefs'[b].proc, briefs'[b].session>>
             IN  briefs'[b].wiki = Home[by[1]] \/ <<by[1], by[2], briefs'[b].wiki>> \in worked' \/ by \in strays'
  <2>1. CASE b \in DOMAIN briefs
    BY <2>1, BriefsStep DEF Keeps, RoutedByItsEdits
  <2>2. CASE b \notin DOMAIN briefs
    BY <2>2, <1>2, NewBriefs DEF CapturesRouted
  <2> QED BY <2>1, <2>2
<1> QED BY <1>1, <1>3, <1>4 DEF CapturesRouted, RoutedByItsEdits

-----------------------------------------------------------------------------
(* The guards.                                                             *)

LEMMA GuardedStep ==
    ASSUME ProcsTyped, CapturesGuarded, [Next]_vars
    PROVE  CapturesGuarded'
<1> SUFFICES ASSUME NEW p \in Proc, NEW d \in captures'[p]
             PROVE  d.count # guard'[p].count /\ (d.source = "commit" \/ ~guard'[p].cooling)
  BY DEF CapturesGuarded
<1>1. guard'[p].count = guard[p].count /\ (guard'[p].cooling => guard[p].cooling)
  <2>1. guard[p] \in GuardOf(p)
    BY DEF ProcsTyped
  <2>2. guard'[p] = guard[p] \/ guard'[p] = [guard[p] EXCEPT !.cooling = FALSE]
    BY CapturesStep
  <2> QED BY <2>1, <2>2 DEF GuardOf
<1>2. CASE d \in captures[p]
  BY <1>1, <1>2 DEF CapturesGuarded
<1>3. ASSUME NEW c \in captures[p], d = [c EXCEPT !.stage = "process", !.wiki = SubjectWiki(p)]
      PROVE  d.count # guard'[p].count /\ (d.source = "commit" \/ ~guard'[p].cooling)
  <2>1. d.count = c.count /\ d.source = c.source
    BY <1>3 DEF ProcsTyped, Capture
  <2> QED BY <1>1, <2>1 DEF CapturesGuarded
<1>4. CASE MayCapture(p, d.source, d.count)
  BY <1>1, <1>4 DEF MayCapture
<1> QED BY <1>2, <1>3, <1>4, CapturesStep

-----------------------------------------------------------------------------
(* What becomes of a brief.                                                *)

\* Who files a brief, by whom it is swept and by what it is replaced.
LEMMA PendingStep ==
    ASSUME ProcsTyped, BriefsTyped, BriefsKept, [Next]_vars, NEW b \in DOMAIN briefs,
           pending[briefs[b].wiki] = b, pending'[briefs[b].wiki] # b
    PROVE  briefs'[b].at = "written" \/ b \in swept' \/ Replaced(b)'
<1>w. briefs[b].wiki \in Wiki /\ b # 0
  BY BriefIndices DEF BriefRecord
<1>1. ASSUME NEW p \in Proc, NEW x \in DOMAIN briefs, WritePending(p, x)
      PROVE  Replaced(b)'
  <2>1. pending' = [pending EXCEPT ![briefs[x].wiki] = x]
    BY <1>1 DEF WritePending
  <2>2. briefs[x].wiki = briefs[b].wiki /\ x # b
    BY <1>w, <2>1 DEF BriefsTyped
  <2> QED BY <2>2, BriefsStep DEF Replaced, Keeps
<1>2. ASSUME NEW p \in Proc, NEW w \in Wiki, Finalize(p, w)
      PROVE  briefs'[b].at = "written" \/ b \in swept'
  <2>1. w = briefs[b].wiki
    BY <1>2, <1>w DEF Finalize, BriefsTyped
  <2>2. CASE b \in told[p]
    BY <1>2, <2>1, <2>2, FinalizeKeeps
  <2>3. CASE b \notin told[p]
    BY <1>2, <1>w, <2>1, <2>3 DEF Finalize
  <2> QED BY <2>2, <2>3
<1>3. ASSUME NEW p \in Proc,
             \/ SwitchSession(p) \/ Restart(p)
             \/ \E c \in captures[p] : Accept(p, c)
             \/ \E x \in DOMAIN briefs : Tell(p, x) \/ TellNobody(p, x) \/ FailPending(p, x)
      PROVE  UNCHANGED pending
  BY <1>3 DEF SwitchSession, Restart, Accept, Tell, TellNobody, FailPending
<1>4. UNCHANGED vars \/ Commit => UNCHANGED pending
  BY DEF vars, store, Commit
<1>5. UNCHANGED store => UNCHANGED pending
  BY DEF store
<1> QED BY <1>1, <1>2, <1>3, <1>4, <1>5, QuietSteps DEF Next, CaptureStep, Deliver

\* How the place of a brief changes: to the file, from there to the session, and to the end.
LEMMA PlaceStep ==
    ASSUME ProcsTyped, BriefsTyped, [Next]_vars, NEW b \in DOMAIN briefs, briefs'[b].at # briefs[b].at
    PROVE  \/ briefs'[b].at \in {"lost", "written"}
           \/ briefs'[b].at = "file" /\ pending'[briefs[b].wiki] = b
           \/ briefs'[b].at = "told" /\ briefs[b].at = "file" /\ b \in told'[briefs[b].proc]
           \/ /\ briefs'[b].at = "left" /\ briefs[b].at = "file"
              /\ \/ session'[briefs[b].proc].number = session[briefs[b].proc].number + 1
                 \/ ~hasUI[briefs[b].proc]
<1>b. briefs[b] \in BriefRecord
  BY BriefIndices
<1>1. ASSUME NEW p \in Proc, NEW x \in DOMAIN briefs, WritePending(p, x)
      PROVE  b = x /\ briefs'[b].at = "file" /\ pending'[briefs[b].wiki] = b
  <2>1. b = x /\ briefs'[b].at = "file"
    BY <1>1, MovedKeeps DEF WritePending, Places
  <2> QED BY <1>1, <1>b, <2>1 DEF WritePending, BriefsTyped, BriefRecord
<1>2. ASSUME NEW p \in Proc, NEW x \in DOMAIN briefs, Tell(p, x)
      PROVE  briefs'[b].at = "told" /\ briefs[b].at = "file" /\ b \in told'[briefs[b].proc]
  <2>1. b = x /\ briefs'[b].at = "told"
    BY <1>2, MovedKeeps DEF Tell, Places
  <2> QED BY <1>2, <2>1 DEF Tell, Show, BriefsTyped
<1>2a. ASSUME NEW p \in Proc, NEW x \in DOMAIN briefs, TellNobody(p, x)
       PROVE  briefs'[b].at = "left" /\ briefs[b].at = "file" /\ ~hasUI[briefs[b].proc]
  <2>1. b = x /\ briefs'[b].at = "left"
    BY <1>2a, MovedKeeps DEF TellNobody, Places
  <2> QED BY <1>2a, <2>1 DEF TellNobody
<1>3. ASSUME NEW p \in Proc, NEW x \in DOMAIN briefs, FailPending(p, x)
      PROVE  briefs'[b].at = "lost"
  BY <1>3, MovedKeeps DEF FailPending, Places
<1>4. ASSUME NEW p \in Proc, Restart(p)
      PROVE  \/ briefs'[b].at = "lost"
             \/ /\ briefs'[b].at = "left" /\ briefs[b].at = "file"
                /\ session'[briefs[b].proc].number = session[briefs[b].proc].number + 1
  <2>1. session'[p].number = session[p].number + 1
    BY <1>4 DEF Restart, NewSession, ProcsTyped
  <2> QED BY <1>4, <2>1, RestartKeeps
<1>5. ASSUME NEW p \in Proc, NEW w \in Wiki, Finalize(p, w)
      PROVE  briefs'[b].at = "written"
  BY <1>5, FinalizeKeeps
<1>6. ASSUME NEW p \in Proc, SwitchSession(p) \/ \E c \in captures[p] : Accept(p, c)
      PROVE  briefs'[b] = briefs[b]
  BY <1>6, AcceptKeeps DEF SwitchSession
<1>7. UNCHANGED vars \/ Commit => UNCHANGED store
  BY DEF vars, Commit
<1>8. UNCHANGED store => briefs'[b] = briefs[b]
  BY DEF store
<1> QED BY <1>1, <1>2, <1>2a, <1>3, <1>4, <1>5, <1>6, <1>7, <1>8, QuietSteps DEF Next, CaptureStep, Deliver

\* A session forgets what it was shown only when it files it, or when it is over.
LEMMA ToldStep ==
    ASSUME ProcsTyped, BriefsTyped, [Next]_vars, NEW b \in DOMAIN briefs, NEW q \in Proc,
           b \in told[q], b \notin told'[q]
    PROVE  briefs'[b].at = "written" \/ session'[q].number = session[q].number + 1
<1>1. ASSUME NEW p \in Proc, NEW w \in Wiki, Finalize(p, w)
      PROVE  briefs'[b].at = "written"
  <2>1. told' = [told EXCEPT ![p] = @ \ {x \in told[p] : briefs[x].wiki = w}]
    BY <1>1 DEF Finalize
  <2>2. p = q /\ briefs[b].wiki = w
    BY <2>1 DEF BriefsTyped
  <2> QED BY <1>1, <2>2, FinalizeKeeps
<1>2. ASSUME NEW p \in Proc, SwitchSession(p) \/ Restart(p)
      PROVE  session'[q].number = session[q].number + 1
  <2>1. /\ told' = [told EXCEPT ![p] = {}]
        /\ session' = [session EXCEPT ![p] = NewSession(@.number + 1)]
    BY <1>2 DEF SwitchSession, Enter, ClearEdits, Restart
  <2>2. p = q
    BY <2>1 DEF BriefsTyped
  <2> QED BY <2>1, <2>2 DEF NewSession, ProcsTyped
<1>3. ASSUME NEW p \in Proc,
             \/ \E c \in captures[p] : Accept(p, c)
             \/ \E x \in DOMAIN briefs : WritePending(p, x) \/ Tell(p, x) \/ TellNobody(p, x) \/ FailPending(p, x)
      PROVE  b \in told'[q]
  BY <1>3, ZenonT(60) DEF Accept, WritePending, Tell, TellNobody, Show, FailPending, BriefsTyped
<1>4. UNCHANGED vars \/ Commit => UNCHANGED store
  BY DEF vars, Commit
<1>5. UNCHANGED store => UNCHANGED told
  BY DEF store
<1> QED BY <1>1, <1>2, <1>3, <1>4, <1>5, QuietSteps DEF Next, CaptureStep, Deliver

LEMMA KeptStep ==
    ASSUME ProcsTyped, BriefsTyped, BriefsKept, [Next]_vars
    PROVE  BriefsKept'
<1>1. ASSUME NEW p \in Proc
      PROVE  /\ session[p].number \in Nat /\ session'[p].number \in Nat
             /\ session'[p].number >= session[p].number
  <2>1. session[p] \in SessionOf(p) /\ MaxSessions[p] \in Nat
    BY CaptureIsConfigured DEF ProcsTyped
  <2>2. session[p].number \in Nat
    BY <2>1 DEF SessionOf
  <2>3. session'[p].number = session[p].number \/ session'[p].number = session[p].number + 1
    BY SessionsStep
  <2> QED BY <2>2, <2>3
<1>2. ASSUME NEW b \in DOMAIN briefs
      PROVE  /\ briefs'[b].session <= session'[briefs'[b].proc].number
             /\ briefs'[b].at \in {"file", "told", "left"} =>
                   pending'[briefs'[b].wiki] = b \/ b \in swept' \/ Replaced(b)'
             /\ briefs'[b].at = "told" => b \in told'[briefs'[b].proc] \/ Over(b)'
             /\ briefs'[b].at = "left" => Alone(b)'
  <2>1. /\ briefs[b] \in BriefRecord /\ briefs'[b].proc = briefs[b].proc
        /\ briefs'[b].session = briefs[b].session /\ briefs'[b].wiki = briefs[b].wiki
    BY BriefIndices, BriefsStep DEF Keeps
  <2> DEFINE p == briefs[b].proc
  <2>2. p \in Proc /\ briefs[b].session \in Nat
    BY <2>1 DEF BriefRecord
  <2>3. /\ session[p].number \in Nat /\ session'[p].number \in Nat
        /\ session'[p].number >= session[p].number
    BY <1>1, <2>2
  <2>4. briefs[b].session <= session[p].number
    BY DEF BriefsKept
  <2>5. Over(b) => Over(b)'
    BY <2>1, <2>2, <2>3 DEF Over
  <2>5a. Alone(b) => Alone(b)'
    BY <2>1, <2>5, UIStays DEF Alone
  <2>6. session'[p].number = session[p].number + 1 => Over(b)'
    BY <2>1, <2>2, <2>3, <2>4 DEF Over
  <2>7. Replaced(b) => Replaced(b)'
    BY BriefsStep DEF Replaced, Keeps
  <2>8. ASSUME briefs[b].at \in {"file", "told", "left"}, briefs'[b].at # "written"
        PROVE  pending'[briefs[b].wiki] = b \/ b \in swept' \/ Replaced(b)'
    <3>1. pending[briefs[b].wiki] = b \/ b \in swept \/ Replaced(b)
      BY <2>8 DEF BriefsKept
    <3> QED BY <2>7, <2>8, <3>1, HistoriesGrow, PendingStep
  <2>9. briefs'[b].session <= session'[briefs'[b].proc].number
    BY <2>1, <2>2, <2>3, <2>4
  <2>10. CASE briefs'[b].at = briefs[b].at
    <3>1. briefs'[b].at \in {"file", "told", "left"} =>
             pending'[briefs'[b].wiki] = b \/ b \in swept' \/ Replaced(b)'
      BY <2>1, <2>8, <2>10
    <3>2. briefs'[b].at = "told" => b \in told'[briefs'[b].proc] \/ Over(b)'
      BY <2>1, <2>2, <2>5, <2>6, <2>10, ToldStep DEF BriefsKept
    <3>3. briefs'[b].at = "left" => Alone(b)'
      BY <2>5a, <2>10 DEF BriefsKept
    <3> QED BY <2>9, <3>1, <3>2, <3>3
  <2>11. CASE briefs'[b].at # briefs[b].at
    <3>1. CASE briefs'[b].at \in {"lost", "written"}
      BY <2>9, <3>1
    <3>2. CASE briefs'[b].at = "file" /\ pending'[briefs[b].wiki] = b
      BY <2>1, <2>9, <3>2
    <3>3. CASE briefs'[b].at = "told" /\ briefs[b].at = "file" /\ b \in told'[briefs[b].proc]
      BY <2>1, <2>8, <2>9, <3>3
    <3>4. CASE /\ briefs'[b].at = "left" /\ briefs[b].at = "file"
               /\ \/ session'[briefs[b].proc].number = session[briefs[b].proc].number + 1
                  \/ ~hasUI[briefs[b].proc]
      <4>1. Alone(b)'
        BY <2>1, <2>6, <3>4, UIStays DEF Alone
      <4> QED BY <2>1, <2>8, <2>9, <3>4, <4>1
    <3> QED BY <2>11, <3>1, <3>2, <3>3, <3>4, PlaceStep
  <2> QED BY <2>10, <2>11
<1>3. ASSUME NEW b \in DOMAIN briefs', b \notin DOMAIN briefs
      PROVE  briefs'[b].session <= session'[briefs'[b].proc].number /\ briefs'[b].at = "made"
  <2>1. PICK p \in Proc : \E c \in captures[p] :
           briefs'[b] = [proc |-> p, session |-> c.session, wiki |-> c.wiki, at |-> "made"]
    BY <1>3, NewBriefs
  <2>2. PICK c \in captures[p] :
           briefs'[b] = [proc |-> p, session |-> c.session, wiki |-> c.wiki, at |-> "made"]
    BY <2>1
  <2>3. c.session \in Nat /\ c.session <= session[p].number
    BY <1>1 DEF ProcsTyped, Capture
  <2> QED BY <1>1, <2>2, <2>3
<1> QED BY <1>2, <1>3 DEF BriefsKept

-----------------------------------------------------------------------------
(* The theorems.                                                           *)

LEMMA CaptureInit ==
    ASSUME Init
    PROVE  CaptureInv
<1> USE CaptureIsConfigured
<1>1. ProcsTyped
  <2>1. \A p \in Proc : NewSession(1) \in SessionOf(p) /\ Cold \in GuardOf(p)
    BY DEF NewSession, SessionOf, Cold, GuardOf
  <2> QED BY <2>1 DEF Init, ProcsTyped
<1>2. BriefsTyped /\ DOMAIN briefs = {}
  BY DEF Init, BriefsTyped
<1>3. \A p \in Proc : session[p].editedFiles = {} /\ captures[p] = {}
  BY DEF Init, NewSession
<1> QED BY <1>1, <1>2, <1>3 DEF CaptureInv, CapturesRouted, RoutedByItsEdits, CapturesGuarded, BriefsKept

LEMMA CaptureStepKeepsInv ==
    ASSUME CaptureInv, [Next]_vars
    PROVE  CaptureInv'
  BY ProcsStep, BriefsStep, RoutedStep, GuardedStep, KeptStep DEF CaptureInv

\* What a capture goes through, from the guards to the file: captures and briefs are of
\* sessions there were, routed by what those edited, each brief is where the capture that
\* accepted it is going to look for it, and the guards are as the last capture left them
\* (autoCapture and its hooks, extension.ts:2338-2519).
THEOREM CapturesAreKept == Spec => []CaptureInv
<1>1. Init => CaptureInv
  BY CaptureInit
<1>2. CaptureInv /\ [Next]_vars => CaptureInv'
  BY CaptureStepKeepsInv
<1> QED BY <1>1, <1>2, PTL DEF Spec

\* Guards, captures and briefs keep their types, and at most one capture of a process is in
\* flight, whatever sessions are left and whatever triggers meet (autoCaptureInFlight).
THEOREM CaptureTypeCorrect == Spec => []TypeOK
<1>1. CaptureInv => TypeOK
  <2> SUFFICES ASSUME CaptureInv PROVE TypeOK
    OBVIOUS
  <2> USE DEF CaptureInv
  <2>1. \A p \in Proc : session[p] \in SessionOf(p) /\ guard[p] \in GuardOf(p)
    BY DEF ProcsTyped
  <2>2. \A p \in Proc :
           /\ guard[p].count \in 0..MaxMessages[p] /\ guard[p].cooling \in BOOLEAN
           /\ session[p].messages \in 0..MaxMessages[p] /\ session[p].number \in 1..MaxSessions[p]
           /\ session[p].editedFiles \subseteq Wiki
    BY <2>1 DEF SessionOf, GuardOf
  <2>3. \A b \in DOMAIN briefs : briefs[b].at \in Places
    BY BriefIndices DEF BriefRecord
  <2> QED BY <2>2, <2>3 DEF TypeOK, ProcsTyped, BriefsTyped, Places
<1> QED BY <1>1, CapturesAreKept, PTL

\* However sessions follow each other while a capture takes its time, it is filed in another
\* wiki than that of the directory only when its own session edited files there, or was left
\* with the capture in flight (resolveCaptureRuntime and editedFiles, extension.ts:2338-2405).
THEOREM CapturesFollowEdits == Spec => []RoutedByItsEdits
<1>1. CaptureInv => RoutedByItsEdits
  BY DEF CaptureInv
<1> QED BY <1>1, CapturesAreKept, PTL

\* An accepted brief is on its way, shown, in the file, filed, or lost with a process or a
\* disk; one whose session is over, or whose process has no UI and so never showed it, may
\* have been overwritten by another brief of the wiki or deleted by somebody's wiki_finalize,
\* and by nothing else (extension.ts:2485-2545, 1370-1380).
THEOREM AcceptedBriefsWait == Spec => []BriefsWait
<1>1. CaptureInv /\ TypeOK => BriefsWait
  <2> SUFFICES ASSUME CaptureInv, TypeOK, NEW b \in DOMAIN briefs
               PROVE  \/ briefs[b].at \in {"made", "file", "written", "lost"}
                      \/ b \in told[briefs[b].proc] \/ pending[briefs[b].wiki] = b
                      \/ /\ session[briefs[b].proc].number > briefs[b].session \/ ~hasUI[briefs[b].proc]
                         /\ b \in swept \/ \E c \in DOMAIN briefs \ {b} : briefs[c].wiki = briefs[b].wiki
    BY DEF BriefsWait
  <2> QED BY DEF CaptureInv, BriefsKept, Alone, Over, Replaced, TypeOK
<1> QED BY <1>1, CapturesAreKept, CaptureTypeCorrect, PTL

\* Whenever the guards advance for a capture, the last advance is ten minutes ago, unless it
\* was a commit's, and was for another count of messages, however long the capture took and
\* whatever was triggered meanwhile (extension.ts:2407-2475).
THEOREM CapturesKeepTheirPace == Spec => CapturesArePaced
<1>1. CaptureInv =>
         \A p \in Proc : \A c \in captures[p] :
            c.count # guard[p].count /\ (c.source = "commit" \/ ~guard[p].cooling)
  BY DEF CaptureInv, CapturesGuarded
<1>2. CaptureInv /\ [Next]_vars =>
         [\A p \in Proc : \A c \in captures[p] :
             c \notin captures'[p] /\ guard'[p].cooling /\ guard'[p].count = c.count
                   /\ Cardinality(captures'[p]) < Cardinality(captures[p]) =>
                /\ c.source = "commit" \/ ~guard[p].cooling
                /\ c.count # guard[p].count]_vars
  BY <1>1
<1> QED BY <1>2, CapturesAreKept, PTL DEF Spec, CapturesArePaced
=============================================================================
