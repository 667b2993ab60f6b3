-------------------------- MODULE WikiUpkeepProofs --------------------------
(***************************************************************************)
(* Theorems about the upkeep of claims, for any claims, sessions and       *)
(* bounds.                                                                 *)
(***************************************************************************)
EXTENDS WikiUpkeep, FiniteSetTheorems, TLAPS

-----------------------------------------------------------------------------
(* Types *)

LEMMA StatusAfterTyped ==
    ASSUME NEW impact \in Impact, NEW old \in Status
    PROVE  StatusAfter(impact, old) \in Status
  BY DEF Impact, Status, StatusAfter

LEMMA ResolvedTyped ==
    ASSUME NEW resolution \in Resolution, NEW old \in Status
    PROVE  Resolved(resolution, old) \in Status
  BY DEF Resolution, Status, Resolved

LEMMA SettleTyped ==
    ASSUME TypeOK, NEW claims, NEW n \in 0 .. HEAD
    PROVE  /\ Settle(claims, n) \in [Claim -> 0 .. HEAD]
           /\ \A c \in Claim : /\ settled[c] <= Settle(claims, n)[c]
                               /\ c \in claims => n <= Settle(claims, n)[c]
  <1>1. HEAD \in Nat /\ \A c \in Claim : settled[c] \in 0 .. HEAD
    BY DEF TypeOK, HEAD
  <1> QED BY <1>1 DEF Settle, Later

LEMMA QueueTyped ==
    ASSUME TypeOK, NEW i \in DOMAIN queue
    PROVE  /\ queue[i] \in Item
           /\ queue[i].claim \in Claim
           /\ \A st \in {"open", "resolved", "deferred"} : [queue[i] EXCEPT !.status = st] \in Item
  <1>1. queue[i] \in Item
    BY DEF TypeOK
  <1> QED BY <1>1 DEF Item

LEMMA TypeInit == Init => TypeOK
  BY UserStatedAreClaims DEF Init, TypeOK, Filed, Status, None, HEAD, Steps, Resolution, Item, Diff

LEMMA ForgetTyped ==
    ASSUME TypeOK, HEAD' = HEAD, NEW s \in Session, Forget(s)
    PROVE  /\ step' \in [Session -> Steps]
           /\ target' \in [Session -> 0 .. HEAD'] /\ seenHead' \in [Session -> 0 .. HEAD']
           /\ data' \in [Session -> [Claim -> Status]]
           /\ toCheck' \in [Session -> SUBSET Claim] /\ checking' \in [Session -> SUBSET Claim]
           /\ omitted' \in [Session -> SUBSET Claim]
           /\ item' \in [Session -> 0 .. Len(queue)]
           /\ wanted' \in [Session -> Resolution]
           /\ approved' \in [Session -> BOOLEAN]
  <1>1. Filed \in [Claim -> Status]
    BY DEF Filed, Status
  <1>2. HEAD \in Nat /\ Len(queue) \in Nat
    BY DEF TypeOK, HEAD
  <1> QED BY <1>1, <1>2 DEF TypeOK, Forget, Goto, Steps, Resolution

LEMMA EnqueueTyped ==
    ASSUME TypeOK, NEW c \in Claim, NEW impact \in Impact, NEW critical \in BOOLEAN,
           Enqueue(c, KindOf(impact), critical)
    PROVE  /\ queue' \in Seq(Item)
           /\ Len(queue) <= Len(queue')
           /\ \A i \in DOMAIN queue : queue'[i] = queue[i]
           /\ \A i \in DOMAIN queue' \ DOMAIN queue : queue'[i].status = "open"
           /\ HasOpenItem(c, KindOf(impact))'
  <1> DEFINE new == [claim |-> c, kind |-> KindOf(impact), critical |-> critical, status |-> "open"]
  <1>1. KindOf(impact) \in {"needs_recheck", "dispute"}
    BY DEF KindOf
  <1>2. new \in Item /\ queue \in Seq(Item)
    BY <1>1 DEF Item, TypeOK
  <1>3. CASE HasOpenItem(c, KindOf(impact))
    BY <1>2, <1>3 DEF Enqueue, HasOpenItem
  <1>4. CASE ~HasOpenItem(c, KindOf(impact))
    <2>1. queue' = Append(queue, new)
      BY <1>4 DEF Enqueue
    <2>2. /\ queue' \in Seq(Item)
          /\ Len(queue') = Len(queue) + 1
          /\ \A i \in DOMAIN queue : queue'[i] = queue[i]
          /\ queue'[Len(queue')] = new
          /\ Len(queue') \in DOMAIN queue'
          /\ DOMAIN queue' \ DOMAIN queue = {Len(queue')}
      BY <2>1, <1>2
    <2> QED BY <2>2, <1>2 DEF HasOpenItem
  <1> QED BY <1>3, <1>4

\* The steps of the specification, with any inputs of the right types.
LEMMA AnyStep ==
    ASSUME [Next]_upkeepVars
    PROVE  \/ UNCHANGED upkeepVars
           \/ \E diff \in Diff : Commit(diff)
           \/ \E s \in Session :
                 \/ SyncStart(s)
                 \/ \E given \in Int, ok \in BOOLEAN : SyncDiff(s, given, ok)
                 \/ \E affected \in SUBSET Claim : SyncCollect(s, affected)
                 \/ SyncSkip(s)
                 \/ \E c \in Claim, impact \in Impact, critical \in BOOLEAN :
                       SyncJudge(s, c, impact, critical)
                 \/ SyncWritePage(s) \/ SyncFinish(s)
                 \/ \E i \in DOMAIN queue, r \in Resolution : ReviewStart(s, i, r)
                 \/ \E yes \in BOOLEAN : UserAnswers(s, yes)
                 \/ ReviewRead(s) \/ ReviewApply(s) \/ ReviewResolve(s) \/ Abandon(s)
  <1>1. None .. MaxCommits \subseteq Int
    BY UpkeepBoundsAreNat DEF None
  <1> QED BY <1>1, InputsAreAnswers DEF Next

LEMMA TypeStep == TypeOK /\ [Next]_upkeepVars => TypeOK'
  <1> SUFFICES ASSUME TypeOK, [Next]_upkeepVars
               PROVE  TypeOK'
    OBVIOUS
  <1>n. HEAD \in Nat /\ Len(queue) \in Nat
    BY DEF TypeOK, HEAD
  <1>1. ASSUME NEW diff \in Diff, Commit(diff)
        PROVE  TypeOK'
    <2>1. commits' \in Seq(Diff) /\ HEAD' = HEAD + 1
      BY <1>1 DEF TypeOK, Commit, HEAD
    <2> QED BY <2>1, <1>1, <1>n, SMTT(40) DEF TypeOK, Commit, syncLocals, reviewLocals, None
  <1>2. ASSUME NEW s \in Session, SyncStart(s)
        PROVE  TypeOK'
    <2>1. HEAD' = HEAD
      BY <1>2 DEF SyncStart, HEAD
    <2> QED BY <2>1, <1>2, <1>n, SMTT(40) DEF TypeOK, SyncStart, Goto, reviewLocals, Steps
  <1>3. ASSUME NEW s \in Session, NEW given \in Int, NEW ok \in BOOLEAN, SyncDiff(s, given, ok)
        PROVE  TypeOK'
    <2>1. HEAD' = HEAD
      BY <1>3 DEF SyncDiff, HEAD
    <2>2. /\ toCheck' \in [Session -> SUBSET Claim] /\ omitted' \in [Session -> SUBSET Claim]
          /\ seenHead' \in [Session -> 0 .. HEAD]
      BY <1>3, <1>n DEF SyncDiff, TypeOK, Changed, WrittenIn
    <2>3. settled' \in [Claim -> 0 .. HEAD]
      <3>1. target[s] \in 0 .. HEAD
        BY DEF TypeOK
      <3> QED BY <3>1, <1>3, SettleTyped DEF SyncDiff, TypeOK
    <2> QED BY <2>1, <2>2, <2>3, <1>3, SMTT(40) DEF TypeOK, SyncDiff, Goto, reviewLocals, Steps
  <1>4. ASSUME NEW s \in Session, NEW affected \in SUBSET Claim, SyncCollect(s, affected)
        PROVE  TypeOK'
    <2>1. HEAD' = HEAD
      BY <1>4 DEF SyncCollect, HEAD
    <2>2. /\ data' \in [Session -> [Claim -> Status]]
          /\ toCheck' \in [Session -> SUBSET Claim] /\ checking' \in [Session -> SUBSET Claim]
          /\ omitted' \in [Session -> SUBSET Claim]
      BY <1>4 DEF SyncCollect, TypeOK
    <2>3. /\ step' \in [Session -> Steps]
          /\ \A t \in Session :
                item'[t] \in DOMAIN queue' <=> step'[t] \in {"confirm", "read", "apply", "resolve"}
      BY <1>4 DEF TypeOK, SyncCollect, Goto, Steps, reviewLocals
    <2> QED BY <2>1, <2>2, <2>3, <1>4 DEF TypeOK, SyncCollect, reviewLocals
  <1>15. ASSUME NEW s \in Session, SyncSkip(s)
         PROVE  TypeOK'
    <2>1. HEAD' = HEAD
      BY <1>15 DEF SyncSkip, HEAD
    <2> QED BY <2>1, <1>15, <1>n, SMTT(40) DEF TypeOK, SyncSkip, Goto, reviewLocals, Steps
  <1>5. ASSUME NEW s \in Session, NEW c \in Claim, NEW impact \in Impact,
               NEW critical \in BOOLEAN, SyncJudge(s, c, impact, critical)
        PROVE  TypeOK'
    <2>1. HEAD' = HEAD
      BY <1>5 DEF SyncJudge, HEAD
    <2>2. queue' \in Seq(Item) /\ Len(queue) <= Len(queue')
      <3>1. CASE impact = "no_impact"
        BY <3>1, <1>5, <1>n DEF SyncJudge, TypeOK
      <3>2. CASE impact # "no_impact"
        BY <3>2, <1>5, EnqueueTyped DEF SyncJudge
      <3> QED BY <3>1, <3>2
    <2>3. data' \in [Session -> [Claim -> Status]]
      BY <1>5, StatusAfterTyped DEF SyncJudge, TypeOK
    <2>4. toCheck' \in [Session -> SUBSET Claim] /\ step' \in [Session -> Steps]
      BY <1>5 DEF SyncJudge, TypeOK, Goto, Steps
    <2>5. /\ item' \in [Session -> 0 .. Len(queue')]
          /\ \A t \in Session :
                item'[t] \in DOMAIN queue' <=> step'[t] \in {"confirm", "read", "apply", "resolve"}
      <3>1. \A t \in Session : item[t] \in DOMAIN queue <=> item[t] \in DOMAIN queue'
        BY <2>2, <1>n, SMTT(40) DEF TypeOK
      <3>2. \A t \in Session : step'[t] \in {"confirm", "read", "apply", "resolve"}
                                <=> step[t] \in {"confirm", "read", "apply", "resolve"}
        BY <1>5 DEF SyncJudge, TypeOK, Goto
      <3> QED BY <3>1, <3>2, <2>2, <1>5, <1>n, SMTT(40) DEF TypeOK, SyncJudge, reviewLocals
    <2> QED BY <2>1, <2>2, <2>3, <2>4, <2>5, <1>5 DEF TypeOK, SyncJudge, reviewLocals
  <1>6. ASSUME NEW s \in Session, SyncWritePage(s)
        PROVE  TypeOK'
    <2>1. HEAD' = HEAD
      BY <1>6 DEF SyncWritePage, HEAD
    <2>2. Filed \in [Claim -> Status]
      BY DEF Filed, Status
    <2>3. settled' \in [Claim -> 0 .. HEAD]
      <3>1. seenHead[s] \in 0 .. HEAD
        BY DEF TypeOK
      <3> QED BY <3>1, <1>6, SettleTyped DEF SyncWritePage
    <2>4. /\ data' \in [Session -> [Claim -> Status]]
          /\ seenHead' \in [Session -> 0 .. HEAD]
          /\ checking' \in [Session -> SUBSET Claim]
          /\ page' \in [Claim -> Status]
      BY <2>2, <1>6, <1>n DEF TypeOK, SyncWritePage
    <2>5. /\ step' \in [Session -> Steps]
          /\ \A t \in Session :
                item'[t] \in DOMAIN queue' <=> step'[t] \in {"confirm", "read", "apply", "resolve"}
      BY <1>6 DEF TypeOK, SyncWritePage, Goto, Steps, reviewLocals
    <2> QED BY <2>1, <2>3, <2>4, <2>5, <1>6 DEF TypeOK, SyncWritePage, reviewLocals
  <1>7. ASSUME NEW s \in Session, SyncFinish(s)
        PROVE  TypeOK'
    <2>1. HEAD' = HEAD
      BY <1>7 DEF SyncFinish, HEAD
    <2>2. \A t \in Session : item'[t] \in DOMAIN queue' <=> step'[t] \in {"confirm", "read", "apply", "resolve"}
      BY <1>7, <1>n DEF SyncFinish, Forget, Goto, TypeOK
    <2>3. Forget(s) /\ UNCHANGED <<commits, page, queue>>
      BY <1>7 DEF SyncFinish
    <2>4. baseline' \in None .. HEAD /\ settled' \in [Claim -> 0 .. HEAD]
      <3>1. target[s] \in 0 .. HEAD
        BY DEF TypeOK
      <3> QED BY <3>1, <1>7, <1>n, SettleTyped DEF SyncFinish, None
    <2> QED BY <2>1, <2>2, <2>3, <2>4, ForgetTyped DEF TypeOK
  <1>8. ASSUME NEW s \in Session, NEW i \in DOMAIN queue, NEW r \in Resolution, ReviewStart(s, i, r)
        PROVE  TypeOK'
    <2>1. HEAD' = HEAD
      BY <1>8 DEF ReviewStart, HEAD
    <2>2. wanted' \in [Session -> Resolution] /\ step' \in [Session -> Steps]
      BY <1>8, ZenonT(60) DEF ReviewStart, TypeOK, Goto, Steps, Resolution
    <2>3. step'[s] \in {"confirm", "read", "apply", "resolve"} /\ \A t \in Session \ {s} : step'[t] = step[t]
      BY <1>8 DEF ReviewStart, TypeOK, Goto
    <2>4. item' \in [Session -> 0 .. Len(queue)] /\ item'[s] = i /\ \A t \in Session \ {s} : item'[t] = item[t]
      BY <1>8, <1>n DEF ReviewStart, TypeOK
    <2> QED BY <2>1, <2>2, <2>3, <2>4, <1>8 DEF TypeOK, ReviewStart, syncLocals
  <1>9. ASSUME NEW s \in Session, NEW yes \in BOOLEAN, UserAnswers(s, yes)
        PROVE  TypeOK'
    <2>1. HEAD' = HEAD
      BY <1>9 DEF UserAnswers, HEAD
    <2> QED BY <2>1, <1>9 DEF TypeOK, UserAnswers, syncLocals, Goto, Steps, Resolution
  <1>10. ASSUME NEW s \in Session, ReviewRead(s)
         PROVE  TypeOK'
    <2>1. HEAD' = HEAD
      BY <1>10 DEF ReviewRead, HEAD
    <2> QED BY <2>1, <1>10 DEF TypeOK, ReviewRead, syncLocals, reviewLocals, Goto, Steps
  <1>11. ASSUME NEW s \in Session, ReviewApply(s)
         PROVE  TypeOK'
    <2>1. HEAD' = HEAD
      BY <1>11 DEF ReviewApply, HEAD
    <2>2. Filed \in [Claim -> Status]
      BY DEF Filed, Status
    <2>3. page' \in [Claim -> Status]
      <3>1. item[s] \in DOMAIN queue /\ wanted[s] \in Resolution /\ data[s] \in [Claim -> Status]
        BY <1>11 DEF ReviewApply, TypeOK
      <3>2. queue[item[s]].claim \in Claim
        BY <3>1, QueueTyped
      <3>3. Resolved(wanted[s], data[s][queue[item[s]].claim]) \in Status
        BY <3>1, <3>2, ResolvedTyped
      <3>4. page' = [data[s] EXCEPT ![queue[item[s]].claim] =
                        Resolved(wanted[s], data[s][queue[item[s]].claim])]
        BY <1>11 DEF ReviewApply
      <3> QED BY <3>1, <3>2, <3>3, <3>4
    <2> QED BY <2>1, <2>2, <2>3, <1>11 DEF TypeOK, ReviewApply, syncLocals, reviewLocals, Goto, Steps
  <1>12. ASSUME NEW s \in Session, ReviewResolve(s)
         PROVE  TypeOK'
    <2>1. HEAD' = HEAD
      BY <1>12 DEF ReviewResolve, HEAD
    <2>2. queue' \in Seq(Item) /\ Len(queue') = Len(queue) /\ DOMAIN queue' = DOMAIN queue
      <3>1. item[s] \in DOMAIN queue /\ queue \in Seq(Item)
        BY <1>12 DEF ReviewResolve, TypeOK
      <3>2. PICK st \in {"open", "resolved", "deferred"} :
                   queue' = [queue EXCEPT ![item[s]].status = st]
        BY <1>12 DEF ReviewResolve
      <3>3. [queue[item[s]] EXCEPT !.status = st] \in Item
        BY <3>1, QueueTyped
      <3>4. queue' = [queue EXCEPT ![item[s]] = [queue[item[s]] EXCEPT !.status = st]]
        BY <3>2
      <3>5. queue \in [1 .. Len(queue) -> Item] /\ Len(queue) \in Nat
        BY <3>1
      <3>6. queue' \in [1 .. Len(queue) -> Item]
        BY <3>3, <3>4, <3>5
      <3>7. queue' \in Seq(Item) /\ Len(queue') = Len(queue)
        BY <3>5, <3>6
      <3> QED BY <3>1, <3>7
    <2>3. \A t \in Session : item'[t] \in DOMAIN queue' <=> step'[t] \in {"confirm", "read", "apply", "resolve"}
      BY <2>2, <1>12, <1>n DEF ReviewResolve, Forget, Goto, TypeOK
    <2> QED BY <2>1, <2>2, <2>3, <1>12, <1>n, ForgetTyped DEF TypeOK, ReviewResolve
  <1>13. ASSUME NEW s \in Session, Abandon(s)
         PROVE  TypeOK'
    <2>1. HEAD' = HEAD
      BY <1>13 DEF Abandon, HEAD
    <2>2. \A t \in Session : item'[t] \in DOMAIN queue' <=> step'[t] \in {"confirm", "read", "apply", "resolve"}
      BY <1>13, <1>n DEF Abandon, Forget, Goto, TypeOK
    <2> QED BY <2>1, <2>2, <1>13, <1>n, ForgetTyped DEF TypeOK, Abandon
  <1>14. CASE UNCHANGED upkeepVars
    BY <1>14 DEF upkeepVars, TypeOK, HEAD
  <1> QED BY <1>1, <1>2, <1>3, <1>4, <1>5, <1>6, <1>7, <1>8, <1>9, <1>10, <1>11, <1>12, <1>13, <1>14, <1>15, AnyStep

\* The statuses, the queue and the sessions' locals keep their types.
THEOREM UpkeepTypeCorrect == Spec => []TypeOK
  BY TypeInit, TypeStep, PTL DEF Spec

-----------------------------------------------------------------------------
(* The queue *)

AllOpen == \A i \in DOMAIN queue : queue[i].status = "open"

\* The queue changes when a sync has judged a claim and when a review is resolved.
LEMMA OnlySomeQueue ==
    ASSUME [Next]_upkeepVars
    PROVE  \/ UNCHANGED queue
           \/ \E s \in Session, c \in Claim, impact \in Impact, critical \in BOOLEAN :
                 SyncJudge(s, c, impact, critical)
           \/ \E s \in Session : ReviewResolve(s)
  <1>1. ASSUME NEW diff \in Diff, Commit(diff)
        PROVE  UNCHANGED queue
    BY <1>1 DEF Commit
  <1>2. ASSUME NEW s \in Session,
               \/ SyncStart(s) \/ SyncSkip(s) \/ SyncWritePage(s) \/ SyncFinish(s) \/ Abandon(s)
        PROVE  UNCHANGED queue
    BY <1>2 DEF SyncStart, SyncSkip, SyncWritePage, SyncFinish, Abandon
  <1>3. ASSUME NEW s \in Session,
               \/ \E given \in Int, ok \in BOOLEAN : SyncDiff(s, given, ok)
               \/ \E affected \in SUBSET Claim : SyncCollect(s, affected)
        PROVE  UNCHANGED queue
    BY <1>3 DEF SyncDiff, SyncCollect
  <1>4. ASSUME NEW s \in Session,
               \/ \E i \in DOMAIN queue, r \in Resolution : ReviewStart(s, i, r)
               \/ \E yes \in BOOLEAN : UserAnswers(s, yes)
               \/ ReviewRead(s) \/ ReviewApply(s)
        PROVE  UNCHANGED queue
    BY <1>4 DEF ReviewStart, UserAnswers, ReviewRead, ReviewApply
  <1>5. UNCHANGED upkeepVars => UNCHANGED queue
    BY DEF upkeepVars
  <1> QED BY <1>1, <1>2, <1>3, <1>4, <1>5, AnyStep

\* Items are only appended, and what they say about a claim never changes; if all are
\* open after a step, the step closed none.
LEMMA QueueStep ==
    ASSUME TypeOK, [Next]_upkeepVars
    PROVE  /\ \A i \in DOMAIN queue :
                 /\ i \in DOMAIN queue'
                 /\ queue'[i].claim = queue[i].claim
                 /\ queue'[i].kind = queue[i].kind
                 /\ queue'[i].critical = queue[i].critical
           /\ AllOpen' => \A i \in DOMAIN queue : queue'[i] = queue[i]
  <1>1. ASSUME NEW s \in Session, NEW c \in Claim, NEW impact \in Impact,
               NEW critical \in BOOLEAN, SyncJudge(s, c, impact, critical)
        PROVE  queue' = queue \/ \A i \in DOMAIN queue : i \in DOMAIN queue' /\ queue'[i] = queue[i]
    <2>1. CASE impact = "no_impact"
      BY <2>1, <1>1 DEF SyncJudge
    <2>2. CASE impact # "no_impact"
      <3>1. /\ queue' \in Seq(Item) /\ Len(queue) <= Len(queue')
            /\ \A i \in DOMAIN queue : queue'[i] = queue[i]
        BY <2>2, <1>1, EnqueueTyped DEF SyncJudge
      <3>2. queue \in Seq(Item)
        BY DEF TypeOK
      <3>3. DOMAIN queue \subseteq DOMAIN queue'
        BY <3>1, <3>2
      <3> QED BY <3>1, <3>3
    <2> QED BY <2>1, <2>2
  <1>2. ASSUME NEW s \in Session, ReviewResolve(s)
        PROVE  /\ DOMAIN queue' = DOMAIN queue
               /\ \A i \in DOMAIN queue : /\ queue'[i].claim = queue[i].claim
                                           /\ queue'[i].kind = queue[i].kind
                                           /\ queue'[i].critical = queue[i].critical
               /\ ~AllOpen'
    <2>1. item[s] \in DOMAIN queue
      BY <1>2 DEF ReviewResolve, TypeOK
    <2>2. PICK st \in {"resolved", "deferred"} : queue' = [queue EXCEPT ![item[s]].status = st]
      BY <1>2 DEF ReviewResolve
    <2>3. DOMAIN queue' = DOMAIN queue
      BY <2>2
    <2>4. ASSUME NEW i \in DOMAIN queue
          PROVE  /\ queue'[i].claim = queue[i].claim /\ queue'[i].kind = queue[i].kind
                 /\ queue'[i].critical = queue[i].critical
                 /\ i = item[s] => queue'[i].status = st
      <3>1. queue[i] \in Item
        BY QueueTyped
      <3>2. queue'[i] = IF i = item[s] THEN [queue[i] EXCEPT !.status = st] ELSE queue[i]
        BY <2>2
      <3> QED BY <3>1, <3>2 DEF Item
    <2>5. queue'[item[s]].status # "open"
      BY <2>1, <2>4
    <2> QED BY <2>1, <2>3, <2>4, <2>5 DEF AllOpen
  <1>3. ASSUME UNCHANGED queue
        PROVE  \A i \in DOMAIN queue : i \in DOMAIN queue' /\ queue'[i] = queue[i]
    BY <1>3
  <1>4. \/ UNCHANGED queue
        \/ \E s \in Session, c \in Claim, impact \in Impact, critical \in BOOLEAN :
              SyncJudge(s, c, impact, critical)
        \/ \E s \in Session : ReviewResolve(s)
    BY OnlySomeQueue
  <1> QED BY <1>1, <1>2, <1>3, <1>4

-----------------------------------------------------------------------------
(* Confirmation of critical items *)

\* Whoever is past the gate with a critical item and a resolution that is not a
\* deferral has asked a user.
PastTheGate ==
    \A s \in Session :
        /\ step[s] = "confirm" => s \in WithUI
        /\ /\ step[s] \in {"read", "apply", "resolve"}
           /\ queue[item[s]].critical
           /\ wanted[s] # "defer"
           => s \in WithUI /\ approved[s]

LEMMA PastTheGateStep == TypeOK /\ PastTheGate /\ [Next]_upkeepVars => PastTheGate'
  <1> SUFFICES ASSUME TypeOK, PastTheGate, [Next]_upkeepVars, NEW t \in Session
               PROVE  /\ step'[t] = "confirm" => t \in WithUI
                      /\ /\ step'[t] \in {"read", "apply", "resolve"}
                         /\ queue'[item'[t]].critical
                         /\ wanted'[t] # "defer"
                         => t \in WithUI /\ approved'[t]
    BY DEF PastTheGate
  <1>1. CASE /\ step'[t] = step[t] /\ item'[t] = item[t]
             /\ wanted'[t] = wanted[t] /\ approved'[t] = approved[t]
    <2>1. step[t] \in {"read", "apply", "resolve"} => item[t] \in DOMAIN queue
      BY DEF TypeOK
    <2>2. step[t] \in {"read", "apply", "resolve"} => queue'[item[t]].critical = queue[item[t]].critical
      BY <2>1, QueueStep
    <2> QED BY <1>1, <2>2 DEF PastTheGate
  <1>2. CASE step'[t] \in {"idle", "diff", "collect", "judge", "write", "finish"}
    BY <1>2
  <1>3. ASSUME NEW i \in DOMAIN queue, NEW r \in Resolution, ReviewStart(t, i, r)
        PROVE  /\ step'[t] = "confirm" => t \in WithUI
               /\ /\ step'[t] \in {"read", "apply", "resolve"}
                  /\ queue'[item'[t]].critical
                  /\ wanted'[t] # "defer"
                  => t \in WithUI /\ approved'[t]
    <2>1. queue' = queue /\ item'[t] = i
      BY <1>3 DEF ReviewStart, TypeOK
    <2>2. CASE queue[i].critical /\ r # "defer"
      BY <2>1, <2>2, <1>3 DEF ReviewStart, TypeOK, Goto
    <2>3. CASE ~(queue[i].critical /\ r # "defer")
      BY <2>1, <2>3, <1>3 DEF ReviewStart, TypeOK, Goto
    <2> QED BY <2>2, <2>3
  <1>4. ASSUME NEW yes \in BOOLEAN, UserAnswers(t, yes)
        PROVE  /\ step'[t] = "confirm" => t \in WithUI
               /\ wanted'[t] # "defer" => t \in WithUI /\ approved'[t]
    <2>1. t \in WithUI
      BY <1>4 DEF UserAnswers, PastTheGate
    <2>2. approved'[t] = yes /\ (~yes => wanted'[t] = "defer")
      BY <1>4 DEF UserAnswers, TypeOK
    <2> QED BY <2>1, <2>2
  <1>5. ASSUME ReviewRead(t) \/ ReviewApply(t)
        PROVE  /\ step'[t] \in {"apply", "resolve"}
               /\ step[t] \in {"read", "apply"}
               /\ UNCHANGED <<queue, item, wanted, approved>>
    BY <1>5 DEF ReviewRead, ReviewApply, TypeOK, Goto, reviewLocals
  <1>6. \A s \in Session : s # t =>
          /\ (\E i \in DOMAIN queue, r \in Resolution : ReviewStart(s, i, r))
                \/ (\E yes \in BOOLEAN : UserAnswers(s, yes)) \/ ReviewRead(s) \/ ReviewApply(s)
             => /\ step'[t] = step[t] /\ item'[t] = item[t]
                /\ wanted'[t] = wanted[t] /\ approved'[t] = approved[t]
    BY DEF ReviewStart, UserAnswers, ReviewRead, ReviewApply, Goto, TypeOK, reviewLocals
  <1>7. ASSUME NEW s \in Session, ReviewResolve(s) \/ Abandon(s) \/ SyncFinish(s)
        PROVE  \/ s = t /\ step'[t] = "idle"
               \/ /\ step'[t] = step[t] /\ item'[t] = item[t]
                  /\ wanted'[t] = wanted[t] /\ approved'[t] = approved[t]
    BY <1>7 DEF ReviewResolve, Abandon, SyncFinish, Forget, Goto, TypeOK
  <1>8. ASSUME NEW s \in Session,
               \/ SyncStart(s)
               \/ \E given \in Int, ok \in BOOLEAN : SyncDiff(s, given, ok)
               \/ \E affected \in SUBSET Claim : SyncCollect(s, affected)
               \/ SyncSkip(s)
               \/ \E c \in Claim, impact \in Impact, critical \in BOOLEAN :
                     SyncJudge(s, c, impact, critical)
               \/ SyncWritePage(s)
        PROVE  \/ step'[t] \in {"diff", "collect", "judge", "write", "finish"}
               \/ /\ step'[t] = step[t] /\ item'[t] = item[t]
                  /\ wanted'[t] = wanted[t] /\ approved'[t] = approved[t]
    BY <1>8 DEF SyncStart, SyncDiff, SyncCollect, SyncSkip, SyncJudge, SyncWritePage, Goto, TypeOK, reviewLocals
  <1>9. ASSUME UNCHANGED upkeepVars \/ \E diff \in Diff : Commit(diff)
        PROVE  /\ step'[t] = step[t] /\ item'[t] = item[t]
               /\ wanted'[t] = wanted[t] /\ approved'[t] = approved[t]
    BY <1>9 DEF upkeepVars, Commit, reviewLocals
  <1>10. CASE ReviewRead(t) \/ ReviewApply(t)
    BY <1>5, <1>10 DEF PastTheGate
  <1> QED BY <1>1, <1>2, <1>3, <1>4, <1>6, <1>7, <1>8, <1>9, <1>10, AnyStep

\* A critical item is closed other than by a deferral only in a session whose user
\* confirmed that resolution: the gate of wiki_review.
THEOREM CriticalItemsNeedTheUser == Spec => CriticalItemsAreConfirmed
  <1>1. Init => PastTheGate
    BY DEF Init, PastTheGate
  <1>2. TypeOK /\ PastTheGate /\ [Next]_upkeepVars =>
          [\A i \in DOMAIN queue :
              queue[i].critical /\ queue[i].status # "resolved" /\ queue'[i].status = "resolved"
                => \E s \in WithUI : item[s] = i /\ approved[s] /\ item'[s] = 0]_upkeepVars
    <2> SUFFICES ASSUME TypeOK, PastTheGate, Next, NEW i \in DOMAIN queue,
                        queue[i].critical, queue[i].status # "resolved", queue'[i].status = "resolved"
                 PROVE  \E s \in WithUI : item[s] = i /\ approved[s] /\ item'[s] = 0
      OBVIOUS
    <2>1. PICK s \in Session : ReviewResolve(s)
      <3>1. queue' # queue
        OBVIOUS
      <3>2. ASSUME NEW s \in Session, NEW c \in Claim, NEW impact \in Impact,
                   NEW critical \in BOOLEAN, SyncJudge(s, c, impact, critical)
            PROVE  FALSE
        <4>1. CASE impact = "no_impact"
          BY <4>1, <3>1, <3>2 DEF SyncJudge
        <4>2. CASE impact # "no_impact"
          BY <4>2, <3>2, EnqueueTyped DEF SyncJudge
        <4> QED BY <4>1, <4>2
      <3> QED BY <3>1, <3>2, OnlySomeQueue
    <2>2. item[s] \in DOMAIN queue /\ step[s] = "resolve"
      BY <2>1 DEF ReviewResolve, TypeOK
    <2>3. PICK st \in {"resolved", "deferred"} :
                 /\ queue' = [queue EXCEPT ![item[s]].status = st]
                 /\ st = "resolved" => wanted[s] # "defer"
      BY <2>1 DEF ReviewResolve
    <2>4. i = item[s] /\ st = "resolved"
      <3>1. queue'[i] = IF i = item[s] THEN [queue[i] EXCEPT !.status = st] ELSE queue[i]
        BY <2>3
      <3>2. queue[i] \in Item
        BY QueueTyped
      <3> QED BY <3>1, <3>2 DEF Item
    <2>5. s \in WithUI /\ approved[s]
      BY <2>2, <2>3, <2>4 DEF PastTheGate
    <2>6. item'[s] = 0
      BY <2>1 DEF ReviewResolve, Forget, TypeOK
    <2> QED BY <2>4, <2>5, <2>6
  <1> QED BY <1>1, <1>2, UpkeepTypeCorrect, PastTheGateStep, PTL DEF Spec, CriticalItemsAreConfirmed

-----------------------------------------------------------------------------
(* Invalidated claims are queued *)

Bad == {"needs_recheck", "superseded", "disputed"}

Covered(c) == \E kind \in {"needs_recheck", "dispute"} : HasOpenItem(c, kind)

\* Not only the page but every copy of it a session holds.
CopiesAreQueued ==
    AllOpen => \A c \in Claim :
        /\ page[c] \in Bad => Covered(c)
        /\ \A s \in Session : data[s][c] \in Bad => Covered(c)

LEMMA FiledIsGood == \A c \in Claim : Filed[c] \notin Bad
  BY DEF Filed, Bad

LEMMA CoveredStep ==
    ASSUME TypeOK, [Next]_upkeepVars, AllOpen', NEW c \in Claim
    PROVE  AllOpen /\ (Covered(c) => Covered(c)')
  <1>1. \A i \in DOMAIN queue : i \in DOMAIN queue' /\ queue'[i] = queue[i]
    BY QueueStep
  <1> QED BY <1>1 DEF AllOpen, Covered, HasOpenItem

LEMMA CopiesAreQueuedStep == TypeOK /\ CopiesAreQueued /\ [Next]_upkeepVars => CopiesAreQueued'
  <1> SUFFICES ASSUME TypeOK, CopiesAreQueued, [Next]_upkeepVars, AllOpen', NEW c \in Claim
               PROVE  /\ page'[c] \in Bad => Covered(c)'
                      /\ \A t \in Session : data'[t][c] \in Bad => Covered(c)'
    BY DEF CopiesAreQueued
  <1>1. /\ page[c] \in Bad => Covered(c)'
        /\ \A t \in Session : data[t][c] \in Bad => Covered(c)'
    BY CoveredStep DEF CopiesAreQueued
  <1>2. Filed[c] \notin Bad
    BY FiledIsGood
  <1>3. ASSUME NEW s \in Session, NEW d \in Claim, NEW impact \in Impact,
               NEW critical \in BOOLEAN, SyncJudge(s, d, impact, critical)
        PROVE  page' = page /\ \A t \in Session : data'[t][c] \in Bad => Covered(c)'
    <2>1. \A t \in Session : data'[t][c] = IF t = s /\ c = d THEN StatusAfter(impact, data[s][d])
                                                              ELSE data[t][c]
      BY <1>3 DEF SyncJudge, TypeOK
    <2>2. page' = page
      BY <1>3 DEF SyncJudge
    <2>3. CASE impact = "no_impact"
      BY <2>1, <2>2, <2>3, <1>1 DEF StatusAfter
    <2>4. CASE impact # "no_impact"
      <3>1. HasOpenItem(d, KindOf(impact))'
        BY <2>4, <1>3, EnqueueTyped DEF SyncJudge
      <3>2. KindOf(impact) \in {"needs_recheck", "dispute"}
        BY DEF KindOf
      <3>3. Covered(d)'
        BY <3>1, <3>2 DEF Covered
      <3> QED BY <2>1, <2>2, <3>3, <1>1
    <2> QED BY <2>3, <2>4
  <1>4. ASSUME NEW s \in Session, ReviewApply(s)
        PROVE  /\ page'[c] \in Bad => Covered(c)'
               /\ \A t \in Session : data'[t][c] = data[t][c] \/ data'[t][c] = Filed[c]
    <2>1. PICK i \in DOMAIN queue : i = item[s]
      BY <1>4 DEF ReviewApply, TypeOK
    <2>2. PICK d \in Claim : d = queue[i].claim
      BY QueueTyped
    <2>3. Covered(d)'
      <3>1. queue[i].status = "open"
        BY CoveredStep DEF AllOpen
      <3>2. PICK kind \in {"needs_recheck", "dispute"} : kind = queue[i].kind
        BY QueueTyped DEF Item
      <3>3. queue' = queue
        BY <1>4 DEF ReviewApply
      <3>4. HasOpenItem(d, kind)'
        BY <2>2, <3>1, <3>2, <3>3 DEF HasOpenItem
      <3> QED BY <3>4 DEF Covered
    <2>4. page' = [data[s] EXCEPT ![d] = Resolved(wanted[s], data[s][d])]
      BY <1>4, <2>1, <2>2 DEF ReviewApply
    <2>5. c # d => page'[c] = data[s][c]
      <3>1. data[s] \in [Claim -> Status]
        BY DEF TypeOK
      <3> QED BY <2>4, <3>1
    <2>6. \A t \in Session : data'[t] = data[t] \/ data'[t] = Filed
      BY <1>4 DEF ReviewApply, TypeOK
    <2>7. c = d \/ c # d
      OBVIOUS
    <2> QED BY <2>3, <2>5, <2>6, <2>7, <1>1
  <1>5. ASSUME NEW s \in Session, SyncWritePage(s)
        PROVE  page'[c] = data[s][c] /\ \A t \in Session : data'[t] = data[t] \/ data'[t] = Filed
    BY <1>5 DEF SyncWritePage, TypeOK
  <1>6. ASSUME NEW s \in Session,
               ReviewRead(s) \/ \E affected \in SUBSET Claim : SyncCollect(s, affected)
        PROVE  page' = page /\ \A t \in Session : data'[t] = data[t] \/ data'[t] = page
    BY <1>6, SMTT(40) DEF ReviewRead, SyncCollect, TypeOK
  <1>7. ASSUME NEW s \in Session, SyncFinish(s) \/ ReviewResolve(s) \/ Abandon(s)
        PROVE  page' = page /\ \A t \in Session : data'[t] = data[t] \/ data'[t] = Filed
    BY <1>7 DEF SyncFinish, ReviewResolve, Abandon, Forget, TypeOK
  <1>8. ASSUME \/ UNCHANGED upkeepVars
               \/ \E diff \in Diff : Commit(diff)
               \/ \E s \in Session :
                    \/ SyncStart(s)
                    \/ \E given \in Int, ok \in BOOLEAN : SyncDiff(s, given, ok)
                    \/ SyncSkip(s)
                    \/ \E i \in DOMAIN queue, r \in Resolution : ReviewStart(s, i, r)
                    \/ \E yes \in BOOLEAN : UserAnswers(s, yes)
        PROVE  page' = page /\ data' = data
    BY <1>8, ZenonT(60) DEF upkeepVars, Commit, SyncStart, SyncDiff, SyncSkip, ReviewStart, UserAnswers
  <1> QED BY <1>1, <1>2, <1>3, <1>4, <1>5, <1>6, <1>7, <1>8, AnyStep

\* A claim that is invalid on the page has an open item as long as no item was closed,
\* whichever sync died where.
THEOREM InvalidatedClaimsAreQueued == Spec => []InvalidatedIsQueued
  <1>1. Init => CopiesAreQueued
    BY FiledIsGood DEF Init, CopiesAreQueued
  <1>2. CopiesAreQueued => InvalidatedIsQueued
    BY DEF CopiesAreQueued, InvalidatedIsQueued, AllOpen, Covered, Bad
  <1> QED BY <1>1, <1>2, UpkeepTypeCorrect, CopiesAreQueuedStep, PTL DEF Spec

-----------------------------------------------------------------------------
(* The baseline *)

\* What commits up to n wrote of c's files is settled, or deleted since.
Clean(c, n) ==
    \A k \in 1 .. n : c \in commits[k].writes =>
        k <= settled[c] \/ \E m \in k + 1 .. HEAD : c \in commits[m].deletes

\* What a sync still has to check, or leaves out, is all that is not clean at the HEAD it
\* saw, and that HEAD is not before the commit it will make the baseline.
SyncsAreSound ==
    \A s \in Session :
        /\ step[s] = "collect" =>
              /\ target[s] <= seenHead[s]
              /\ \A c \in Claim \ (toCheck[s] \cup omitted[s]) : Clean(c, seenHead[s])
        /\ step[s] \in {"judge", "write"} =>
              /\ target[s] <= seenHead[s]
              /\ \A c \in Claim \ (checking[s] \cup omitted[s]) : Clean(c, seenHead[s])
        /\ step[s] = "finish" => \A c \in Claim \ omitted[s] : Clean(c, target[s])

BaselineInv == BaselineIsChecked /\ SyncsAreSound

LEMMA BaselineIsClean == BaselineIsChecked <=> \A c \in Claim : Clean(c, baseline)
  BY DEF BaselineIsChecked, Clean

\* Only a commit changes the history, only the end of a sync the baseline.
LEMMA HistoryAndBaseline ==
    ASSUME [Next]_upkeepVars
    PROVE  /\ commits' = commits \/ \E diff \in Diff : Commit(diff)
           /\ baseline' = baseline \/ \E s \in Session : SyncFinish(s)
  <1>1. ASSUME NEW diff, Commit(diff)
        PROVE  baseline' = baseline
    BY <1>1 DEF Commit
  <1>2. ASSUME NEW s \in Session, SyncFinish(s)
        PROVE  commits' = commits
    BY <1>2 DEF SyncFinish
  <1>3. ASSUME NEW s \in Session, SyncStart(s) \/ SyncSkip(s) \/ SyncWritePage(s) \/ ReviewRead(s)
               \/ ReviewApply(s) \/ ReviewResolve(s) \/ Abandon(s)
        PROVE  UNCHANGED <<commits, baseline>>
    BY <1>3 DEF SyncStart, SyncSkip, SyncWritePage, ReviewRead, ReviewApply, ReviewResolve, Abandon
  <1>4. ASSUME NEW s \in Session, NEW given \in Int, NEW ok \in BOOLEAN,
               SyncDiff(s, given, ok) \/ UserAnswers(s, ok)
        PROVE  UNCHANGED <<commits, baseline>>
    BY <1>4 DEF SyncDiff, UserAnswers
  <1>5. ASSUME NEW s \in Session, NEW affected, SyncCollect(s, affected)
        PROVE  UNCHANGED <<commits, baseline>>
    BY <1>5 DEF SyncCollect
  <1>6. ASSUME NEW s \in Session, NEW c, NEW impact, NEW critical, SyncJudge(s, c, impact, critical)
        PROVE  UNCHANGED <<commits, baseline>>
    BY <1>6 DEF SyncJudge
  <1>7. ASSUME NEW s \in Session, NEW i, NEW r, ReviewStart(s, i, r)
        PROVE  UNCHANGED <<commits, baseline>>
    BY <1>7 DEF ReviewStart
  <1>8. CASE UNCHANGED upkeepVars
    BY <1>8 DEF upkeepVars
  <1> QED BY <1>1, <1>2, <1>3, <1>4, <1>5, <1>6, <1>7, <1>8, AnyStep

\* What is settled stays so.
LEMMA SettledGrows ==
    ASSUME TypeOK, [Next]_upkeepVars, NEW c \in Claim
    PROVE  settled'[c] \in Int /\ settled[c] <= settled'[c]
  <1>1. settled[c] \in Int
    BY DEF TypeOK
  <1>2. \A claims : \A n \in 0 .. HEAD :
           Settle(claims, n)[c] \in Int /\ settled[c] <= Settle(claims, n)[c]
    BY SettleTyped
  <1>3. ASSUME NEW s \in Session, NEW given \in Int, NEW ok \in BOOLEAN, SyncDiff(s, given, ok)
        PROVE  settled' = settled \/ settled' = Settle(Claim, target[s])
    BY <1>3 DEF SyncDiff
  <1>4. ASSUME NEW s \in Session, SyncWritePage(s) \/ SyncFinish(s)
        PROVE  settled' = Settle(checking[s], seenHead[s]) \/ settled' = Settle(omitted[s], target[s])
    BY <1>4 DEF SyncWritePage, SyncFinish
  <1>5. \A s \in Session : target[s] \in 0 .. HEAD /\ seenHead[s] \in 0 .. HEAD
    BY DEF TypeOK
  <1>6. \/ settled' = settled
        \/ \E s \in Session, given \in Int, ok \in BOOLEAN : SyncDiff(s, given, ok)
        \/ \E s \in Session : SyncWritePage(s) \/ SyncFinish(s)
    <2>1. ASSUME NEW diff, Commit(diff) PROVE settled' = settled
      BY <2>1 DEF Commit
    <2>2. ASSUME NEW s, SyncStart(s) \/ SyncSkip(s) PROVE settled' = settled
      BY <2>2 DEF SyncStart, SyncSkip
    <2>3. ASSUME NEW s, NEW affected, SyncCollect(s, affected) PROVE settled' = settled
      BY <2>3 DEF SyncCollect
    <2>4. ASSUME NEW s, NEW d, NEW impact, NEW critical, SyncJudge(s, d, impact, critical)
          PROVE  settled' = settled
      BY <2>4 DEF SyncJudge
    <2>5. ASSUME NEW s, NEW i, NEW r, ReviewStart(s, i, r) PROVE settled' = settled
      BY <2>5 DEF ReviewStart
    <2>6. ASSUME NEW s, NEW yes, UserAnswers(s, yes) PROVE settled' = settled
      BY <2>6 DEF UserAnswers
    <2>7. ASSUME NEW s, ReviewRead(s) \/ ReviewApply(s) \/ ReviewResolve(s) \/ Abandon(s)
          PROVE  settled' = settled
      BY <2>7 DEF ReviewRead, ReviewApply, ReviewResolve, Abandon
    <2>8. UNCHANGED upkeepVars => settled' = settled
      BY DEF upkeepVars
    <2> QED BY <2>1, <2>2, <2>3, <2>4, <2>5, <2>6, <2>7, <2>8, AnyStep
  <1> QED BY <1>1, <1>2, <1>3, <1>4, <1>5, <1>6

\* A step unsettles nothing and rewrites no history.
LEMMA CleanStep ==
    ASSUME TypeOK, [Next]_upkeepVars, NEW c \in Claim, NEW n \in None .. HEAD, Clean(c, n)
    PROVE  Clean(c, n)'
  <1>1. /\ settled[c] \in Int /\ settled'[c] \in Int /\ settled[c] <= settled'[c]
        /\ HEAD \in Nat /\ n \in Int
    BY SettledGrows DEF TypeOK, HEAD, None
  <1>2. HEAD' \in Nat /\ HEAD <= HEAD' /\ \A k \in 1 .. HEAD : commits'[k] = commits[k]
    <2>1. commits' = commits \/ \E diff \in Diff : Commit(diff)
      BY HistoryAndBaseline
    <2>2. commits \in Seq(Diff)
      BY DEF TypeOK
    <2>3. ASSUME NEW diff \in Diff, Commit(diff)
          PROVE  Len(commits') = Len(commits) + 1 /\ \A k \in 1 .. Len(commits) : commits'[k] = commits[k]
      BY <2>2, <2>3 DEF Commit
    <2> QED BY <2>1, <2>2, <2>3 DEF HEAD
  <1> SUFFICES ASSUME NEW k \in 1 .. n, c \in commits'[k].writes
               PROVE  k <= settled'[c] \/ \E m \in k + 1 .. HEAD' : c \in commits'[m].deletes
    BY DEF Clean
  <1>3. k \in 1 .. HEAD /\ c \in commits[k].writes
    BY <1>1, <1>2
  <1>4. CASE k <= settled[c]
    BY <1>1, <1>4
  <1>5. ASSUME NEW m \in k + 1 .. HEAD, c \in commits[m].deletes
        PROVE  m \in k + 1 .. HEAD' /\ c \in commits'[m].deletes
    BY <1>1, <1>2, <1>5
  <1> QED BY <1>3, <1>4, <1>5 DEF Clean

\* A claim that git does not list is clean at HEAD if it was at the baseline, and if the
\* sync does not begin after a change.
LEMMA UnlistedIsClean ==
    ASSUME TypeOK, NEW c \in Claim, NEW from \in 0 .. HEAD, Clean(c, baseline),
           c \notin WrittenIn(Later(baseline, 0), from), c \notin Changed(from, HEAD)
    PROVE  Clean(c, HEAD)
  <1> SUFFICES ASSUME NEW k \in 1 .. HEAD, c \in commits[k].writes
               PROVE  k <= settled[c] \/ \E m \in k + 1 .. HEAD : c \in commits[m].deletes
    BY DEF Clean
  <1>n. HEAD \in Nat /\ baseline \in Int
    BY DEF TypeOK, HEAD, None
  <1>1. CASE k <= baseline
    BY <1>1, <1>n DEF Clean
  <1>2. CASE k > baseline
    <2>1. k > from
      BY <1>2, <1>n DEF WrittenIn, Later
    <2>2. c \in WrittenIn(from, HEAD)
      BY <2>1, <1>n DEF WrittenIn
    <2>3. PICK m \in 1 .. HEAD :
             c \in commits[m].deletes /\ \A l \in m + 1 .. HEAD : c \notin commits[l].writes
      BY <2>2 DEF Changed, Exists
    <2>4. commits[k].writes \cap commits[k].deletes = {}
      BY DEF TypeOK, Diff, HEAD
    <2>5. m \in k + 1 .. HEAD
      BY <2>3, <2>4, <1>n
    <2> QED BY <2>3, <2>5
  <1> QED BY <1>1, <1>2, <1>n

LEMMA BaselineStep ==
    ASSUME TypeOK, BaselineInv, [Next]_upkeepVars
    PROVE  BaselineInv'
  <1>n. /\ HEAD \in Nat
        /\ \A s \in Session : target[s] \in 0 .. HEAD /\ seenHead[s] \in 0 .. HEAD
        /\ baseline \in None .. HEAD /\ None = -1
    BY DEF TypeOK, HEAD, None
  <1>b. \A c \in Claim : Clean(c, baseline)
    BY BaselineIsClean DEF BaselineInv
  <1>2. BaselineIsChecked'
    <2>1. CASE baseline' = baseline
      <3>1. \A c \in Claim : Clean(c, baseline)'
        <4> SUFFICES ASSUME NEW c \in Claim
                     PROVE  Clean(c, baseline)'
          OBVIOUS
        <4>1. PICK n \in None .. HEAD : n = baseline
          BY <1>n
        <4>2. Clean(c, n)'
          BY <4>1, <1>b, CleanStep
        <4> QED BY <4>1, <4>2, <2>1 DEF Clean
      <3> QED BY <3>1 DEF BaselineIsChecked, Clean
    <2>2. ASSUME NEW s \in Session, SyncFinish(s)
          PROVE  BaselineIsChecked'
      <3>1. PICK n \in None .. HEAD : n = target[s]
        BY <1>n
      <3>2. baseline' = n /\ step[s] = "finish" /\ settled' = Settle(omitted[s], n) /\ n \in 0 .. HEAD
        BY <2>2, <3>1, <1>n DEF SyncFinish
      <3>3. ASSUME NEW c \in Claim
            PROVE  Clean(c, n)'
        <4>1. CASE c \in omitted[s]
          <5>1. n <= settled'[c] /\ settled'[c] \in Int
            BY <4>1, <3>2, SettleTyped, SettledGrows
          <5> QED BY <5>1, <3>2 DEF Clean
        <4>2. CASE c \notin omitted[s]
          <5>1. Clean(c, n)
            BY <4>2, <3>1, <3>2 DEF BaselineInv, SyncsAreSound
          <5> QED BY <5>1, CleanStep
        <4> QED BY <4>1, <4>2
      <3> QED BY <3>2, <3>3 DEF BaselineIsChecked, Clean
    <2>3. baseline' = baseline \/ \E s \in Session : SyncFinish(s)
      BY HistoryAndBaseline
    <2> QED BY <2>1, <2>2, <2>3
  <1>3. SyncsAreSound'
    <2> DEFINE Sound(t) ==
                 /\ step[t] = "collect" =>
                       /\ target[t] <= seenHead[t]
                       /\ \A c \in Claim \ (toCheck[t] \cup omitted[t]) : Clean(c, seenHead[t])
                 /\ step[t] \in {"judge", "write"} =>
                       /\ target[t] <= seenHead[t]
                       /\ \A c \in Claim \ (checking[t] \cup omitted[t]) : Clean(c, seenHead[t])
                 /\ step[t] = "finish" => \A c \in Claim \ omitted[t] : Clean(c, target[t])
    <2> SUFFICES ASSUME NEW t \in Session
                 PROVE  Sound(t)'
      BY DEF SyncsAreSound
    <2>1. Sound(t)
      BY DEF BaselineInv, SyncsAreSound
    <2>2. PICK h \in None .. HEAD : h = seenHead[t] /\ h \in 0 .. HEAD
      BY <1>n
    <2>3. PICK g \in None .. HEAD : g = target[t] /\ g \in 0 .. HEAD
      BY <1>n
    <2>4. CASE /\ step'[t] = step[t] /\ target'[t] = target[t] /\ seenHead'[t] = seenHead[t]
               /\ step[t] = "collect" => toCheck'[t] = toCheck[t]
               /\ checking'[t] = checking[t] /\ omitted'[t] = omitted[t]
      <3>1. CASE step[t] = "collect"
        <4>1. \A c \in Claim \ (toCheck[t] \cup omitted[t]) : Clean(c, h)'
          BY <3>1, <2>1, <2>2, CleanStep
        <4> QED BY <4>1, <3>1, <2>1, <2>2, <2>4 DEF Clean
      <3>2. CASE step[t] \in {"judge", "write"}
        <4>1. \A c \in Claim \ (checking[t] \cup omitted[t]) : Clean(c, h)'
          BY <3>2, <2>1, <2>2, CleanStep
        <4> QED BY <4>1, <3>2, <2>1, <2>2, <2>4 DEF Clean
      <3>3. CASE step[t] = "finish"
        <4>1. \A c \in Claim \ omitted[t] : Clean(c, g)'
          BY <3>3, <2>1, <2>3, CleanStep
        <4> QED BY <4>1, <3>3, <2>3, <2>4 DEF Clean
      <3> QED BY <3>1, <3>2, <3>3, <2>4
    <2>5. CASE step'[t] \in {"idle", "diff", "confirm", "read", "apply", "resolve"}
      BY <2>5
    <2>6. ASSUME NEW given \in Int, NEW ok \in BOOLEAN, SyncDiff(t, given, ok)
          PROVE  Sound(t)'
      <3> DEFINE from == IF given = None THEN baseline ELSE given
                 changed == IF ok /\ from # None THEN Changed(from, HEAD) ELSE {}
      <3>1. /\ given <= HEAD
            /\ step'[t] = IF changed = {} THEN "finish" ELSE "collect"
            /\ toCheck'[t] = changed /\ target' = target
            /\ seenHead'[t] = IF changed = {} THEN 0 ELSE HEAD
            /\ omitted'[t] = IF from = None THEN {}
                             ELSE WrittenIn(Later(baseline, 0), IF ok THEN from ELSE HEAD)
            /\ settled' = IF from = None THEN Settle(Claim, target[t]) ELSE settled
            /\ commits' = commits
        BY <2>6 DEF SyncDiff, Goto, TypeOK
      <3>2. CASE from = None
        <4>1. step'[t] = "finish"
          BY <3>1, <3>2
        <4>2. \A c \in Claim : settled'[c] \in Int /\ g <= settled'[c]
          BY <3>1, <3>2, <2>3, SettleTyped, SettledGrows
        <4>3. \A c \in Claim : Clean(c, g)'
          BY <4>2, <2>3 DEF Clean
        <4> QED BY <4>1, <4>3, <3>1, <2>3 DEF Clean
      <3>3. CASE from # None
        <4>1. ASSUME NEW c \in Claim, c \notin changed, c \notin omitted'[t]
              PROVE  Clean(c, HEAD)
          <5>1. CASE ok
            <6>1. CASE from \in 0 .. HEAD
              BY <6>1, <5>1, <4>1, <3>1, <3>3, <1>b, UnlistedIsClean
            <6>2. CASE from \notin 0 .. HEAD
              <7>1. from < 0 /\ from \in Int
                BY <6>2, <3>1, <3>3, <1>n
              <7>2. /\ c \notin Changed(from, HEAD)
                    /\ \A n \in 1 .. HEAD : c \in commits[n].writes => c \in WrittenIn(from, HEAD)
                BY <7>1, <5>1, <4>1, <3>3, <1>n DEF WrittenIn
              <7>3. c \notin Changed(0, HEAD)
                BY <7>2, <1>n DEF Changed, WrittenIn
              <7>4. c \notin WrittenIn(Later(baseline, 0), 0)
                BY <1>n DEF WrittenIn, Later
              <7> QED BY <7>3, <7>4, <1>b, <1>n, UnlistedIsClean
            <6> QED BY <6>1, <6>2
          <5>2. CASE ~ok
            <6>1. c \notin WrittenIn(Later(baseline, 0), HEAD)
              BY <5>2, <4>1, <3>1, <3>3
            <6>2. c \notin Changed(HEAD, HEAD)
              BY <1>n DEF Changed, WrittenIn
            <6> QED BY <6>1, <6>2, <1>b, <1>n, UnlistedIsClean
          <5> QED BY <5>1, <5>2
        <4>2. settled' = settled
          BY <3>1, <3>3
        <4>3. \A c \in Claim : Clean(c, HEAD) => Clean(c, g)
          BY <2>3, <1>n DEF Clean
        <4> HIDE DEF from, changed
        <4>4. CASE changed = {}
          <5>1. step'[t] = "finish" /\ \A c \in Claim \ omitted'[t] : Clean(c, g)
            BY <4>1, <4>3, <4>4, <3>1
          <5>2. \A c \in Claim \ omitted'[t] : Clean(c, g)'
            BY <5>1, CleanStep
          <5> QED BY <5>1, <5>2, <3>1, <2>3 DEF Clean
        <4>5. CASE changed # {}
          <5>1. /\ step'[t] = "collect" /\ seenHead'[t] = HEAD /\ toCheck'[t] = changed
                /\ target'[t] <= HEAD
            BY <3>1, <4>5, <1>n
          <5>2. \A c \in Claim \ (changed \cup omitted'[t]) : Clean(c, HEAD)
            BY <4>1
          <5> QED BY <5>1, <5>2, <4>2, <3>1 DEF Clean, HEAD
        <4> QED BY <4>4, <4>5
      <3> QED BY <3>2, <3>3
    <2>7. ASSUME NEW affected \in SUBSET Claim, SyncCollect(t, affected)
          PROVE  Sound(t)'
      <3>1. /\ step[t] = "collect" /\ step'[t] = "judge"
            /\ UNCHANGED <<target, seenHead, settled, commits>>
            /\ checking'[t] = affected /\ affected \subseteq toCheck[t]
            /\ omitted'[t] = omitted[t] \cup (toCheck[t] \ affected)
        BY <2>7 DEF SyncCollect, TypeOK, Goto
      <3>2. \A c \in Claim \ (checking'[t] \cup omitted'[t]) : Clean(c, h)
        BY <3>1, <2>1, <2>2
      <3> QED BY <3>1, <3>2, <2>1, <2>2 DEF Clean, HEAD
    <2>13. ASSUME SyncSkip(t)
           PROVE  Sound(t)'
      <3>1. /\ step[t] = "collect" /\ step'[t] = "finish"
            /\ UNCHANGED <<target, settled, commits>>
            /\ omitted'[t] = omitted[t] \cup toCheck[t]
        BY <2>13 DEF SyncSkip, TypeOK, Goto
      <3>2. \A c \in Claim \ omitted'[t] : Clean(c, h) /\ g <= h
        BY <3>1, <2>1, <2>2, <2>3
      <3>3. \A c \in Claim \ omitted'[t] : Clean(c, g)
        BY <3>2, <2>2, <2>3 DEF Clean
      <3> QED BY <3>1, <3>3, <2>3 DEF Clean, HEAD
    <2>8. ASSUME SyncWritePage(t)
          PROVE  Sound(t)'
      <3>1. /\ step[t] = "write" /\ step'[t] = "finish" /\ target' = target
            /\ omitted' = omitted /\ settled' = Settle(checking[t], h)
        BY <2>8, <2>2 DEF SyncWritePage, TypeOK, Goto
      <3>2. g <= h /\ \A c \in Claim \ (checking[t] \cup omitted[t]) : Clean(c, h)
        BY <3>1, <2>1, <2>2, <2>3
      <3>3. ASSUME NEW c \in Claim \ omitted[t]
            PROVE  Clean(c, g)'
        <4>1. CASE c \in checking[t]
          <5>1. settled'[c] \in Int /\ g <= settled'[c]
            BY <4>1, <3>1, <3>2, <2>2, <2>3, SettleTyped, SettledGrows
          <5> QED BY <5>1, <2>3 DEF Clean
        <4>2. CASE c \notin checking[t]
          <5>1. Clean(c, g)
            BY <4>2, <3>2, <2>2, <2>3 DEF Clean
          <5> QED BY <5>1, CleanStep
        <4> QED BY <4>1, <4>2
      <3> QED BY <3>1, <3>3, <2>3 DEF Clean
    <2>9. ASSUME NEW c \in Claim, NEW impact \in Impact, NEW critical \in BOOLEAN,
                 SyncJudge(t, c, impact, critical)
          PROVE  Sound(t)'
      <3>1. /\ step[t] = "judge" /\ step'[t] \in {"judge", "write"}
            /\ UNCHANGED <<target, seenHead, checking, omitted, settled, commits>>
        BY <2>9 DEF SyncJudge, TypeOK, Goto
      <3> QED BY <3>1, <2>1 DEF Clean, HEAD
    <2>10. ASSUME NEW s \in Session, s # t,
                  \/ SyncStart(s)
                  \/ \E given \in Int, ok \in BOOLEAN : SyncDiff(s, given, ok)
                  \/ \E affected \in SUBSET Claim : SyncCollect(s, affected)
                  \/ SyncSkip(s)
                  \/ \E c \in Claim, impact \in Impact, critical \in BOOLEAN :
                        SyncJudge(s, c, impact, critical)
                  \/ SyncWritePage(s) \/ SyncFinish(s)
                  \/ \E i \in DOMAIN queue, r \in Resolution : ReviewStart(s, i, r)
                  \/ \E yes \in BOOLEAN : UserAnswers(s, yes)
                  \/ ReviewRead(s) \/ ReviewApply(s) \/ ReviewResolve(s) \/ Abandon(s)
           PROVE  /\ step'[t] = step[t] /\ target'[t] = target[t] /\ seenHead'[t] = seenHead[t]
                  /\ toCheck'[t] = toCheck[t] /\ checking'[t] = checking[t]
                  /\ omitted'[t] = omitted[t]
      BY <2>10, SMTT(40) DEF SyncStart, SyncDiff, SyncCollect, SyncSkip, SyncJudge, SyncWritePage, SyncFinish,
                   ReviewStart, UserAnswers, ReviewRead, ReviewApply, ReviewResolve, Abandon, Forget,
                   Goto, syncLocals, TypeOK
    <2>11. ASSUME \/ SyncStart(t) \/ SyncFinish(t)
                  \/ \E i \in DOMAIN queue, r \in Resolution : ReviewStart(t, i, r)
                  \/ \E yes \in BOOLEAN : UserAnswers(t, yes)
                  \/ ReviewRead(t) \/ ReviewApply(t) \/ ReviewResolve(t) \/ Abandon(t)
           PROVE  step'[t] \in {"idle", "diff", "confirm", "read", "apply", "resolve"}
      BY <2>11, SMTT(40) DEF SyncStart, SyncFinish, ReviewStart, UserAnswers, ReviewRead, ReviewApply,
                   ReviewResolve, Abandon, Forget, Goto, TypeOK
    <2>12. ASSUME UNCHANGED upkeepVars \/ \E diff \in Diff : Commit(diff)
           PROVE  UNCHANGED <<step, target, seenHead, toCheck, checking, omitted>>
      BY <2>12 DEF upkeepVars, Commit, syncLocals
    <2> HIDE DEF Sound
    <2> QED BY <2>4, <2>5, <2>6, <2>7, <2>8, <2>9, <2>10, <2>11, <2>12, <2>13, AnyStep
  <1> QED BY <1>2, <1>3 DEF BaselineInv

\* The baseline never passes a change of a claim's files that was not checked, unless a
\* sync left the claim out or the files are gone; however the syncs and commits overlap.
THEOREM BaselineNeverPassesUncheckedClaims == Spec => []BaselineIsChecked
  <1>1. Init => BaselineInv
    BY DEF Init, BaselineInv, BaselineIsChecked, SyncsAreSound, None
  <1>2. BaselineInv => BaselineIsChecked
    BY DEF BaselineInv
  <1>3. TypeOK /\ BaselineInv /\ [Next]_upkeepVars => BaselineInv'
    BY BaselineStep
  <1> QED BY <1>1, <1>2, <1>3, UpkeepTypeCorrect, PTL DEF Spec
=============================================================================
