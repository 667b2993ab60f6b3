---------------------------- MODULE EvalRunProofs ----------------------------
(***************************************************************************)
(* Theorems about the A/B harness, for any cards, arms, repeats, samples   *)
(* and number of faults.                                                   *)
(***************************************************************************)
EXTENDS EvalRun, FiniteSetTheorems, SequenceTheorems, WellFoundedInduction, TLAPS

-----------------------------------------------------------------------------
(* Numbers and sets *)

\* A nonempty set of indices has a last one.
LEMMA HasLast ==
    ASSUME NEW n \in Nat, NEW S \in SUBSET (1 .. n), S # {}
    PROVE  \E i \in S : \A j \in S : j <= i
  <1> DEFINE T == {n - i : i \in S}
             R == OpToRel(<, Nat)
  <1>1. \A i \in S : i \in Nat /\ n - i \in Nat
    BY S \subseteq 1 .. n
  <1>2. IsWellFoundedOn(R, Nat)
    BY NatLessThanWellFounded
  <1>3. T \subseteq Nat /\ T # {}
    BY <1>1
  <1>4. PICK x \in T : \A y \in T : ~(<<y, x>> \in R)
    <2> HIDE DEF R, T
    <2> QED BY <1>2, <1>3, WFMin
  <1>5. \A y \in T : ~(y < x)
    BY <1>3, <1>4 DEF OpToRel
  <1>6. PICK i \in S : x = n - i
    OBVIOUS
  <1>7. \A j \in S : ~(n - j < n - i)
    BY <1>5, <1>6
  <1>8. \A j \in S : j <= i
    BY <1>1, <1>7
  <1> QED BY <1>8

\* How much of the plan there is; its arithmetic matters to no lemma below.
Planned == Tasks * PerTask

LEMMA PlannedIsNat == Planned \in Nat
  <1>1. Len(Arms) \in Nat /\ Repeats \in Nat /\ Tasks \in Nat
    BY EvalConstants
  <1>2. \A m, n \in Nat : m * n \in Nat
    OBVIOUS
  <1>3. Len(Arms) * Repeats \in Nat
    BY <1>1, <1>2
  <1> QED BY <1>1, <1>2, <1>3 DEF Planned, PerTask

LEMMA PlannedCells == \A n \in 0 .. Planned - 1 : Plan(n) \in Cells
  BY DEF Planned, Cells

LEMMA Quotient ==
    ASSUME NEW t \in Nat, NEW p \in Nat, NEW n \in 0 .. t * p - 1
    PROVE  n \div p \in 0 .. t - 1
  <1>1. n \in Nat /\ n < t * p
    BY t * p \in Nat
  <1>2. p > 0
    BY <1>1
  <1>3. n \div p \in Nat /\ p * (n \div p) <= n
    BY <1>1, <1>2
  <1>4. \A q \in Nat : q >= t => p * q >= t * p
    BY <1>2
  <1> QED BY <1>1, <1>3, <1>4

LEMMA Factors ==
    ASSUME NEW t \in Nat, NEW l \in Nat, NEW r \in Nat, t * (l * r) > 0
    PROVE  r > 0
  OBVIOUS

LEMMA CellsTyped ==
    ASSUME NEW c \in Cells
    PROVE  c.task \in 1 .. Tasks /\ c.repeat \in 1 .. Repeats
  <1>n. Len(Arms) \in Nat /\ Repeats \in Nat /\ Tasks \in Nat /\ PerTask = Len(Arms) * Repeats
    BY EvalConstants DEF PerTask
  <1>1. PICK n \in 0 .. Tasks * PerTask - 1 : c = Plan(n)
    BY DEF Cells
  <1>2. c.task = (n \div PerTask) + 1 /\ c.repeat = (n % Repeats) + 1
    BY <1>1 DEF Plan
  <1>3. PerTask \in Nat /\ Tasks * PerTask \in Nat
    BY <1>n
  <1>4. n \div PerTask \in 0 .. Tasks - 1
    BY <1>n, <1>3, Quotient
  <1>5. n \in Nat /\ Tasks * PerTask > 0
    BY <1>3
  <1>6. Repeats > 0
    BY <1>n, <1>5, Factors
  <1>7. n % Repeats \in 0 .. Repeats - 1
    BY <1>n, <1>5, <1>6
  <1> QED BY <1>2, <1>4, <1>7, <1>n

LEMMA MishapsAreNat == \A mishaps \in SUBSET Mishap : Cardinality(mishaps) \in Nat
  <1>1. IsFiniteSet({})
    BY FS_EmptySet
  <1>2. IsFiniteSet({"session"})
    BY <1>1, FS_AddElement, {"session"} = {} \cup {"session"}
  <1>3. IsFiniteSet({"session", "reached"})
    BY <1>2, FS_AddElement, {"session", "reached"} = {"session"} \cup {"reached"}
  <1>4. IsFiniteSet({"session", "reached", "install"})
    BY <1>3, FS_AddElement,
       {"session", "reached", "install"} = {"session", "reached"} \cup {"install"}
  <1>5. IsFiniteSet(Mishap)
    BY <1>4, FS_AddElement,
       {"session", "reached", "install", "commit"} = {"session", "reached", "install"} \cup {"commit"}
       DEF Mishap
  <1> QED BY <1>5, FS_Subset, FS_CardinalityType

LEMMA LatestIsARow ==
    ASSUME rows \in Seq(Row), NEW c \in Cells, RowsOf(c) # {}
    PROVE  \E i \in DOMAIN rows : rows[i].cell = c /\ Latest(c) = rows[i]
  <1>1. Len(rows) \in Nat /\ DOMAIN rows = 1 .. Len(rows)
    OBVIOUS
  <1>2. RowsOf(c) \in SUBSET (1 .. Len(rows))
    BY <1>1 DEF RowsOf
  <1>3. \E i \in RowsOf(c) : \A j \in RowsOf(c) : j <= i
    BY <1>1, <1>2, HasLast
  <1> DEFINE last == CHOOSE i \in RowsOf(c) : \A j \in RowsOf(c) : j <= i
  <1>4. last \in RowsOf(c)
    BY <1>3
  <1> QED BY <1>4 DEF Latest, RowsOf

-----------------------------------------------------------------------------
(* Types *)

Ran == {"agent", "patch", "quality", "graders", "grade", "append"}
Saved == {"quality", "graders", "grade", "append"}

\* What the types rest on: the cell at hand is one of the plan, a copy is untouched until
\* the agent works in it, and where there is a row there is a patch.
Sound ==
    /\ at \notin {"off", "preflight", "next"} => cell \in 0 .. Planned - 1
    /\ at \in {"exclude", "strip", "check", "agent"} => copy \cap {"work", "committed"} = {}
    /\ at \in Ran => attempt >= 1
    /\ at \in Saved => patches[Now].attempt = attempt
    /\ \A i \in DOMAIN rows : patches[rows[i].cell].attempt >= 1
    /\ \A c \in Cells : judge.attempts[c] # 0 => patches[c].attempt >= 1

TypeInv == TypeOK /\ Sound

LEMMA TypeInit == Init => TypeInv
  <1> SUFFICES ASSUME Init
               PROVE  TypeInv
    OBVIOUS
  <1> USE DEF Init
  <1>1. rows \in Seq(Row) /\ Len(rows) = 0 /\ DOMAIN rows = {}
    BY EmptySeq
  <1>2. patches \in [Cells -> Patch]
    BY DEF Patch
  <1>3. judge \in [attempts : [Cells -> 0 .. attempt], done : SUBSET Sample, on : BOOLEAN]
    BY DEF NoJudge
  <1>4. cell \in 0 .. Tasks * PerTask
    BY PlannedIsNat DEF Planned
  <1>5. TypeOK
    BY <1>1, <1>2, <1>3, <1>4 DEF TypeOK, Steps
  <1>6. Sound
    BY <1>1 DEF Sound, Ran, Saved, NoJudge
  <1> QED BY <1>5, <1>6 DEF TypeInv

\* More attempts and installations make room for more rows, patches and judgements.
LEMMA RecordsGrow ==
    ASSUME TypeOK, attempt' \in Nat, attempt <= attempt', deps' \in Nat, deps <= deps'
    PROVE  /\ rows \in Seq(Row')
           /\ Patch \subseteq Patch'
           /\ Judgement \subseteq Judgement'
           /\ 0 .. attempt \subseteq 0 .. attempt' /\ 0 .. deps \subseteq 0 .. deps'
  <1>1. /\ 0 .. attempt \subseteq 0 .. attempt' /\ 0 .. deps \subseteq 0 .. deps'
        /\ 1 .. attempt \subseteq 1 .. attempt'
    BY DEF TypeOK
  <1>2. Row \subseteq Row' /\ Patch \subseteq Patch' /\ Judgement \subseteq Judgement'
    BY <1>1 DEF Row, Patch, Judgement
  <1>3. rows \in Seq(Row')
    BY <1>2, SeqMonotonic DEF TypeOK
  <1> QED BY <1>1, <1>2, <1>3

LEMMA EndTyped ==
    ASSUME End
    PROVE  /\ at' \in Steps /\ cell' \in 0 .. Tasks * PerTask /\ skip' \subseteq Cells
           /\ copy' \subseteq Thing /\ before' = 0 /\ tools' \subseteq Tool /\ did' \subseteq Mishap
           /\ copy' # {} => at' \in InCopy
           /\ "committed" \in copy' => "work" \notin copy'
           /\ at' = "off"
  BY PlannedIsNat DEF End, Goto, Steps, Planned

\* A step that leaves the records and what was counted alone.
LEMMA RunnerTyped ==
    ASSUME TypeOK, UNCHANGED <<rows, patches, deps, judgeVars, attempt, since>>,
           faults' \in Nat,
           at' \in Steps, cell' \in 0 .. Tasks * PerTask, skip' \subseteq Cells,
           copy' \subseteq Thing, before' \in 0 .. deps, tools' \subseteq Tool, did' \subseteq Mishap,
           copy' # {} => at' \in InCopy,
           "committed" \in copy' => "work" \notin copy'
    PROVE  TypeOK'
  BY DEF TypeOK, judgeVars, Row, Patch, Judgement

LEMMA FaultTyped ==
    ASSUME TypeOK, NEW n \in Nat, Fault(n)
    PROVE  faults' \in Nat
  BY DEF TypeOK, Fault

\* The steps before the agent works and after it is done, and those that end a run.
LEMMA RunnerStep ==
    ASSUME TypeInv,
           \/ Preflight \/ NextCell \/ Clone \/ Exclude \/ Strip \/ InstallGraders \/ Finish \/ Abort
    PROVE  TypeInv'
  <1> USE DEF TypeInv
  <1>t. TypeOK /\ Sound
    OBVIOUS
  <1>n. Planned \in Nat /\ Planned = Tasks * PerTask
    BY PlannedIsNat DEF Planned
  <1>z. 0 \in 0 .. deps
    BY DEF TypeOK
  <1>u. UNCHANGED <<rows, patches, deps, judgeVars, attempt, since>>
    BY DEF Preflight, NextCell, Clone, Exclude, Strip, InstallGraders, Finish, Abort, copyOnly
  <1>1. CASE Preflight
    <2>1. faults' \in Nat
      <3>1. \A one, other \in BOOLEAN :
               (IF one THEN 0 ELSE 1) + (IF other THEN 0 ELSE 1) \in Nat
        OBVIOUS
      <3> QED BY <1>1, <1>t, <3>1, FaultTyped DEF Preflight
    <2>2. CASE End
      BY <1>t, <1>u, <1>z, <2>1, <2>2, EndTyped, RunnerTyped DEF Sound, Ran, Saved, judgeVars
    <2>3. CASE Goto("next") /\ UNCHANGED <<cell, skip, copy, before, tools, did>> /\ at = "preflight"
      <3>1. TypeOK'
        BY <1>t, <1>u, <2>1, <2>3, RunnerTyped DEF TypeOK, Goto, Steps, InCopy
      <3> QED BY <3>1, <1>t, <1>u, <2>3 DEF Sound, Ran, Saved, Goto, judgeVars
    <2> QED BY <1>1, <2>2, <2>3 DEF Preflight
  <1>2. CASE NextCell
    <2>1. TypeOK'
      BY <1>t, <1>u, <1>n, <1>2, RunnerTyped, SMTT(40) DEF TypeOK, NextCell, Goto, Steps, InCopy
    <2> QED BY <2>1, <1>t, <1>u, <1>n, <1>2 DEF TypeOK, Sound, Ran, Saved, NextCell, Goto, judgeVars
  <1>3. CASE Clone
    <2>1. copy' \subseteq {"target", "remote", "wiki", "notes", "grader"}
      BY <1>3 DEF Clone
    <2>2. faults' \in Nat
      BY <1>3, <1>t, FaultTyped DEF Clone, TypeOK
    <2>3. TypeOK'
      BY <1>t, <1>u, <1>3, <2>1, <2>2, RunnerTyped
         DEF TypeOK, Clone, Goto, Steps, InCopy, Thing, copyOnly
    <2> QED BY <2>1, <2>3, <1>t, <1>u, <1>3 DEF Sound, Ran, Saved, Clone, Goto, copyOnly, judgeVars
  <1>4. CASE Exclude
    <2>1. copy' \subseteq copy
      BY <1>4 DEF Exclude
    <2>2. TypeOK'
      BY <1>t, <1>u, <1>4, <2>1, RunnerTyped DEF TypeOK, Exclude, Goto, Steps, InCopy, copyOnly
    <2> QED BY <2>1, <2>2, <1>t, <1>u, <1>4 DEF Sound, Ran, Saved, Exclude, Goto, copyOnly, judgeVars
  <1>5. CASE Strip
    <2>1. copy' \subseteq copy \cup {"config", "packages"}
      BY <1>5 DEF Strip, Configured
    <2>2. faults' \in Nat
      BY <1>5, <1>t, FaultTyped DEF Strip, TypeOK
    <2>3. TypeOK'
      BY <1>t, <1>u, <1>5, <2>1, <2>2, RunnerTyped
         DEF TypeOK, Strip, Goto, Steps, InCopy, Thing, copyOnly
    <2> QED BY <2>1, <2>3, <1>t, <1>u, <1>5 DEF Sound, Ran, Saved, Strip, Goto, copyOnly, judgeVars
  <1>6. CASE InstallGraders
    <2>1. copy' \subseteq Thing /\ ("committed" \in copy' => "work" \notin copy')
      BY <1>6, <1>t DEF InstallGraders, TypeOK, Thing
    <2>2. TypeOK'
      BY <1>t, <1>u, <1>6, <2>1, RunnerTyped DEF TypeOK, InstallGraders, Goto, Steps, InCopy, copyOnly
    <2> QED BY <2>2, <1>t, <1>u, <1>6
            DEF Sound, Ran, Saved, Now, InstallGraders, Goto, copyOnly, judgeVars
  <1>7. CASE Finish \/ Abort
    <2>1. End /\ faults' \in Nat
      BY <1>7, <1>t, FaultTyped DEF Finish, Abort, TypeOK
    <2> QED BY <1>t, <1>u, <1>z, <2>1, EndTyped, RunnerTyped DEF Sound, Ran, Saved, judgeVars
  <1> QED BY <1>1, <1>2, <1>3, <1>4, <1>5, <1>6, <1>7

LEMMA InvokeStep ==
    ASSUME TypeInv, Invoke
    PROVE  TypeInv'
  <1>1. skip' \subseteq Cells /\ since' \in 0 .. Len(rows)
    BY DEF TypeInv, TypeOK, Invoke, AlreadyRun
  <1>2. TypeOK'
    BY <1>1 DEF TypeInv, TypeOK, Invoke, Goto, Steps, InCopy, judgeVars, Row, Patch, Judgement
  <1> QED BY <1>2 DEF TypeInv, Sound, Invoke, Goto, Ran, Saved, judgeVars

LEMMA CheckStep ==
    ASSUME TypeInv, Check
    PROVE  TypeInv'
  <1>t. TypeOK /\ Sound
    BY DEF TypeInv
  <1>1. CASE End /\ UNCHANGED attempt
    <2>1. 0 \in 0 .. deps
      BY <1>t DEF TypeOK
    <2>2. TypeOK'
      BY <1>t, <1>1, <2>1, EndTyped, RunnerTyped DEF Check, TypeOK
    <2> QED BY <2>2, <1>t, <1>1, EndTyped DEF TypeInv, Sound, Ran, Saved, Check, judgeVars
  <1>2. CASE Goto("agent") /\ before' = deps /\ attempt' = attempt + 1
             /\ UNCHANGED <<cell, skip, copy, tools, did>>
    <2>1. attempt' \in Nat /\ attempt <= attempt' /\ deps' \in Nat /\ deps <= deps'
      BY <1>t, <1>2 DEF TypeOK, Check
    <2>2. /\ rows' \in Seq(Row') /\ patches' \in [Cells -> Patch'] /\ judged' \subseteq Judgement'
          /\ asked' \subseteq Judgement'
          /\ judge' \in [attempts : [Cells -> 0 .. attempt'], done : SUBSET Sample, on : BOOLEAN]
      BY <1>t, <2>1, RecordsGrow DEF TypeOK, Check, judgeVars
    <2>3. TypeOK'
      BY <1>t, <1>2, <2>1, <2>2 DEF TypeOK, Check, Goto, Steps, InCopy
    <2> QED BY <2>3, <1>t, <1>2 DEF TypeInv, TypeOK, Sound, Ran, Saved, Check, Goto, judgeVars
  <1> QED BY <1>1, <1>2 DEF Check

\* A step in which packages may be installed.
LEMMA InstallStep ==
    ASSUME TypeInv, Agent \/ Quality \/ Grade
    PROVE  TypeInv'
  <1>t. TypeOK /\ Sound
    BY DEF TypeInv
  <1>1. deps' \in Nat /\ deps <= deps'
    BY <1>t DEF TypeOK, Agent, Quality, Grade, Command, Installed
  <1>2. faults' \in Nat
    <2>1. CASE Quality \/ Grade
      BY <2>1, <1>t, FaultTyped DEF Quality, Grade, Command, TypeOK
    <2>2. CASE Agent
      <3>1. PICK mishaps \in SUBSET Mishap, loaded \in SUBSET Tool :
               Fault(Cardinality(mishaps) + (IF loaded = Loads(Now.arm) THEN 0 ELSE 1))
        BY <2>2 DEF Agent
      <3>2. Cardinality(mishaps) + (IF loaded = Loads(Now.arm) THEN 0 ELSE 1) \in Nat
        BY MishapsAreNat
      <3> QED BY <3>1, <3>2, <1>t, FaultTyped
    <2> QED BY <2>1, <2>2
  <1>3. UNCHANGED <<rows, patches, cell, skip, before, judgeVars, attempt, since>>
    BY DEF Agent, Quality, Grade
  <1>4. /\ rows' \in Seq(Row') /\ patches' \in [Cells -> Patch'] /\ judged' \subseteq Judgement'
        /\ asked' \subseteq Judgement' /\ before' \in 0 .. deps'
        /\ judge' \in [attempts : [Cells -> 0 .. attempt'], done : SUBSET Sample, on : BOOLEAN]
    BY <1>t, <1>1, <1>3, RecordsGrow DEF TypeOK, judgeVars
  <1>5. /\ copy' \subseteq Thing /\ tools' \subseteq Tool /\ did' \subseteq Mishap
        /\ "committed" \in copy' => "work" \notin copy'
    <2>1. CASE Quality \/ Grade
      BY <2>1, <1>t DEF Quality, Grade, TypeOK
    <2>2. CASE Agent
      <3>1. PICK mishaps \in SUBSET Mishap, loaded \in SUBSET Tool :
               /\ did' = mishaps
               /\ tools' = IF "session" \in mishaps THEN {} ELSE loaded
               /\ copy' = copy \cup {IF "commit" \in mishaps THEN "committed" ELSE "work"}
                               \cup (IF "wiki_read" \in loaded THEN {"tooling"} ELSE {})
        BY <2>2 DEF Agent
      <3>2. copy \cap {"work", "committed"} = {} /\ copy \subseteq Thing
        BY <2>2, <1>t DEF Agent, Sound, TypeOK
      <3>3. did' \subseteq Mishap /\ tools' \subseteq Tool
        BY <3>1
      <3>4. copy' \subseteq Thing
        BY <3>1, <3>2 DEF Thing
      <3> QED BY <3>1, <3>2, <3>3, <3>4
    <2> QED BY <2>1, <2>2
  <1>6. /\ at \in Ran /\ at' \in {"patch", "graders", "append"}
        /\ at' \in Saved => at \in Saved
        /\ at \notin {"off", "preflight", "next"}
    BY DEF Agent, Quality, Grade, Goto, Ran, Saved
  <1>7. TypeOK'
    BY <1>t, <1>1, <1>2, <1>3, <1>4, <1>5, <1>6 DEF TypeOK, judgeVars, Steps, InCopy
  <1> QED BY <1>7, <1>t, <1>3, <1>6 DEF TypeInv, Sound, Now, Ran, Saved, judgeVars

LEMMA SavePatchStep ==
    ASSUME TypeInv, SavePatch
    PROVE  TypeInv'
  <1>t. TypeOK /\ Sound /\ at = "patch"
    BY DEF TypeInv, SavePatch
  <1>1. Now \in Cells /\ attempt >= 1
    BY <1>t, PlannedCells DEF Sound, Now, Ran
  <1>2. [attempt |-> attempt, has |-> Staged] \in Patch
    BY <1>t DEF TypeOK, Patch, Staged, Unhidden, Thing
  <1>3. /\ patches' \in [Cells -> Patch]
        /\ patches'[Now].attempt = attempt
        /\ \A c \in Cells : c # Now => patches'[c] = patches[c]
    BY <1>t, <1>1, <1>2 DEF TypeOK, SavePatch
  <1>4. UNCHANGED <<rows, deps, cell, skip, copy, before, tools, did, judgeVars, attempt, since, faults>>
        /\ at' = "quality"
    BY DEF SavePatch, Goto
  <1>5. TypeOK'
    BY <1>t, <1>3, <1>4 DEF TypeOK, judgeVars, Steps, InCopy, Row, Patch, Judgement
  <1>6. \A i \in DOMAIN rows : rows[i].cell \in Cells
    <2>1. \A i \in DOMAIN rows : rows[i] \in Row
      BY <1>t DEF TypeOK
    <2> QED BY <2>1 DEF Row
  <1>7. \A c \in Cells : patches[c].attempt >= 1 => patches'[c].attempt >= 1
    BY <1>1, <1>3
  <1>8. Now' = Now
    BY <1>4 DEF Now
  <1> QED BY <1>t, <1>1, <1>3, <1>4, <1>5, <1>6, <1>7, <1>8
          DEF TypeInv, Sound, Ran, Saved, judgeVars

LEMMA AppendRowStep ==
    ASSUME TypeInv, AppendRow
    PROVE  TypeInv'
  <1>t. TypeOK /\ Sound /\ at = "append"
    BY DEF TypeInv, AppendRow
  <1>1. Now \in Cells /\ attempt \in 1 .. attempt /\ cell \in 0 .. Planned - 1
    BY <1>t, PlannedCells DEF TypeOK, Sound, Now, Ran
  <1>2. patches[Now].attempt = attempt
    BY <1>t DEF Sound, Saved
  <1>3. NewRow \in Row /\ NewRow.cell = Now
    BY <1>t, <1>1 DEF TypeOK, NewRow, Row, LoadoutProblem, Measured, Clean
  <1>4. rows \in Seq(Row) /\ rows' = Append(rows, NewRow)
    BY <1>t DEF TypeOK, AppendRow
  <1>5. /\ rows' \in Seq(Row) /\ Len(rows') = Len(rows) + 1 /\ Len(rows) \in Nat
        /\ DOMAIN rows = 1 .. Len(rows) /\ DOMAIN rows' = 1 .. Len(rows')
        /\ \A i \in DOMAIN rows : rows'[i] = rows[i]
        /\ rows'[Len(rows')] = NewRow
    BY <1>3, <1>4, AppendProperties
  <1>6. UNCHANGED <<patches, deps, judgeVars, attempt, since, faults>>
    BY DEF AppendRow
  <1>7. since' \in 0 .. Len(rows')
    BY <1>t, <1>5, <1>6 DEF TypeOK
  <1>8. /\ at' \in {"off", "next"} /\ cell' \in 0 .. Tasks * PerTask /\ skip' \subseteq Cells
        /\ copy' = {} /\ before' \in 0 .. deps /\ tools' = {} /\ did' = {}
    <2>1. CASE NewRow.valid
      BY <2>1, <1>t, <1>1, PlannedIsNat DEF AppendRow, Goto, TypeOK, Planned
    <2>2. CASE ~NewRow.valid
      BY <2>2, <1>t, EndTyped DEF AppendRow, End, Goto, TypeOK
    <2> QED BY <2>1, <2>2
  <1>9. TypeOK'
    BY <1>t, <1>5, <1>6, <1>7, <1>8 DEF TypeOK, judgeVars, Steps, InCopy, Row, Patch, Judgement
  <1>10. \A i \in DOMAIN rows' : patches'[rows'[i].cell].attempt >= 1
    BY <1>t, <1>1, <1>2, <1>3, <1>5, <1>6 DEF Sound
  <1> QED BY <1>t, <1>6, <1>8, <1>9, <1>10 DEF TypeInv, Sound, Ran, Saved, judgeVars

LEMMA JudgeStep ==
    ASSUME TypeInv,
           \/ JudgeStart \/ JudgeEnd
           \/ \E s \in Sample : JudgeSample(s)
           \/ \E record \in asked : JudgeAppend(record)
    PROVE  TypeInv'
  <1>t. TypeOK /\ Sound
    BY DEF TypeInv
  <1>u. UNCHANGED <<rows, patches, deps, runnerVars, attempt, since, faults>>
    BY DEF JudgeStart, JudgeEnd, JudgeSample, JudgeAppend
  <1>1. ASSUME judged' \subseteq Judgement, asked' \subseteq Judgement,
               judge' \in [attempts : [Cells -> 0 .. attempt], done : SUBSET Sample, on : BOOLEAN],
               \A c \in Cells : judge'.attempts[c] # 0 => patches[c].attempt >= 1
        PROVE  TypeInv'
    <2>1. TypeOK'
      BY <1>t, <1>u, <1>1 DEF TypeOK, runnerVars, Row, Patch, Judgement
    <2> QED BY <1>t, <1>u, <1>1, <2>1 DEF TypeInv, Sound, Now, runnerVars
  <1>2. CASE JudgeStart
    <2> DEFINE found == [c \in Cells |-> IF Counted(c) THEN Latest(c).attempt ELSE 0]
               done == {[task |-> j.cell.task, repeat |-> j.cell.repeat, sample |-> j.sample] :
                           j \in judged}
    <2>1. ASSUME NEW c \in Cells, Counted(c)
          PROVE  Latest(c).attempt \in 0 .. attempt /\ patches[c].attempt >= 1
      <3>1. PICK i \in DOMAIN rows : rows[i].cell = c /\ Latest(c) = rows[i]
        BY <1>t, <2>1, LatestIsARow DEF TypeOK, Counted
      <3>2. rows[i] \in Row
        BY <1>t DEF TypeOK
      <3> QED BY <1>t, <3>1, <3>2 DEF Sound, Row
    <2>2. found \in [Cells -> 0 .. attempt]
      BY <1>t, <2>1 DEF TypeOK
    <2>3. done \subseteq Sample
      <3>1. ASSUME NEW j \in judged
            PROVE  j.cell.task \in 1 .. Tasks /\ j.cell.repeat \in 1 .. Repeats
                   /\ j.sample \in 1 .. Samples
        <4>1. j.cell \in Cells /\ j.sample \in 1 .. Samples
          BY <1>t DEF TypeOK, Judgement
        <4> QED BY <4>1, CellsTyped
      <3> QED BY <3>1 DEF Sample
    <2>4. judge' = [attempts |-> found, done |-> done, on |-> TRUE]
      BY <1>2 DEF JudgeStart
    <2>5. \A c \in Cells : found[c] # 0 => patches[c].attempt >= 1
      BY <2>1
    <2> HIDE DEF found, done
    <2> QED BY <1>1, <1>2, <1>t, <2>2, <2>3, <2>4, <2>5 DEF JudgeStart, TypeOK
  <1>3. CASE JudgeEnd
    BY <1>1, <1>3, <1>t DEF JudgeEnd, NoJudge, TypeOK
  <1>4. ASSUME NEW s \in Sample, JudgeSample(s)
        PROVE  TypeInv'
    <2> DEFINE group == {c \in Cells : c.task = s.task /\ c.repeat = s.repeat /\ judge.attempts[c] # 0}
    <2>1. PICK label \in Labelled(group) : \E scored \in SUBSET DOMAIN label :
              asked' = {[cell |-> c, sample |-> s.sample, shown |-> Shown(c),
                         attempt |-> patches[c].attempt] : c \in {label[l] : l \in scored}}
      BY <1>4 DEF JudgeSample
    <2>2. label \in [1 .. Cardinality(group) -> group]
      BY DEF Labelled
    <2>3. ASSUME NEW c \in group
          PROVE  [cell |-> c, sample |-> s.sample, shown |-> Shown(c),
                  attempt |-> patches[c].attempt] \in Judgement
      <3>1. patches[c] \in Patch /\ patches[c].attempt >= 1
        BY <1>t DEF TypeOK, Sound
      <3> QED BY <1>t, <3>1 DEF TypeOK, Judgement, Patch, Sample, Shown
    <2>4. asked' \subseteq Judgement
      <3> HIDE DEF group
      <3> QED BY <2>1, <2>2, <2>3
    <2>5. /\ judge' \in [attempts : [Cells -> 0 .. attempt], done : SUBSET Sample, on : BOOLEAN]
          /\ judge'.attempts = judge.attempts /\ judged' = judged
      BY <1>4, <1>t DEF JudgeSample, TypeOK
    <2> QED BY <1>1, <1>t, <2>4, <2>5 DEF TypeOK, Sound
  <1>5. ASSUME NEW record \in asked, JudgeAppend(record)
        PROVE  TypeInv'
    BY <1>1, <1>5, <1>t DEF JudgeAppend, TypeOK, Sound
  <1> QED BY <1>2, <1>3, <1>4, <1>5

LEMMA TypeStep == TypeInv /\ [Next]_vars => TypeInv'
  <1>1. CASE UNCHANGED vars
    BY <1>1, ZenonT(60) DEF TypeInv, TypeOK, Sound, Now, vars, runnerVars, judgeVars, Row, Patch, Judgement
  <1>2. CASE Next
    BY <1>2, RunnerStep, InvokeStep, CheckStep, InstallStep, SavePatchStep, AppendRowStep, JudgeStep
       DEF Next, Runner
  <1> QED BY <1>1, <1>2

\* Every variable keeps its type: among others, a row and a judgement are of an attempt there
\* was, and nothing is left of a copy when a run ends.
THEOREM HarnessTypeCorrect == Spec => []TypeOK
  <1>1. TypeInv => TypeOK
    BY DEF TypeInv
  <1> QED BY <1>1, TypeInit, TypeStep, PTL DEF Spec

-----------------------------------------------------------------------------
(* What an agent and the judge see *)

\* Whatever the preparation finds and whichever of its steps fails, what the next step
\* relies on holds: the arm's wiki from the exclusion on, and behind the last check no
\* answer; the grader comes after the patch.
Prepared ==
    /\ at = "exclude" => "wiki" \in copy
    /\ at \in {"strip", "check", "agent"} => ("wiki" \in copy <=> KeepsWiki(Now.arm))
    /\ at = "agent" => copy \cap {"target", "remote", "grader", "notes"} = {}
    /\ at = "patch" => "grader" \notin copy

PatchesAreWork ==
    /\ \A c \in Cells : patches[c].has \subseteq {"work", "tooling"} \cup Unhidden
    /\ \A j \in judged \cup asked : j.shown \subseteq {"work"} \cup Unhidden

HiddenInv == TypeInv /\ Prepared /\ PatchesAreWork

LEMMA HiddenInit == Init => HiddenInv
  BY TypeInit DEF Init, HiddenInv, Prepared, PatchesAreWork

LEMMA PreparedStep ==
    ASSUME HiddenInv, [Next]_vars
    PROVE  Prepared'
  <1>t. TypeOK /\ Prepared
    BY DEF HiddenInv, TypeInv
  <1> USE DEF Prepared
  <1>1. CASE Clone
    BY <1>1 DEF Clone, Goto
  <1>2. CASE Exclude
    BY <1>2, <1>t DEF Exclude, Goto, copyOnly, Now
  <1>3. CASE Strip
    BY <1>3, <1>t DEF Strip, Goto, Configured, copyOnly, Now
  <1>4. CASE Check
    BY <1>4, <1>t DEF Check, Goto, End, Refuse, Now
  <1>5. CASE Agent
    <2>1. at = "agent" /\ at' = "patch" /\ copy' \subseteq copy \cup {"work", "committed", "tooling"}
      BY <1>5 DEF Agent, Goto
    <2> QED BY <2>1, <1>t
  <1>6. CASE Invoke \/ Preflight \/ NextCell \/ Finish \/ Abort \/ SavePatch \/ Quality
             \/ InstallGraders \/ Grade \/ AppendRow
    <2>1. at' \notin {"exclude", "strip", "check", "agent", "patch"}
      BY <1>6, <1>t DEF Invoke, Preflight, NextCell, Finish, Abort, SavePatch, Quality, InstallGraders,
                        Grade, AppendRow, End, Goto
    <2> QED BY <2>1
  <1>7. CASE JudgeStart \/ JudgeEnd \/ (\E s \in Sample : JudgeSample(s))
             \/ (\E record \in asked : JudgeAppend(record)) \/ UNCHANGED vars
    <2>1. UNCHANGED <<at, copy, cell>>
      BY <1>7 DEF JudgeStart, JudgeEnd, JudgeSample, JudgeAppend, runnerVars, vars
    <2> QED BY <2>1, <1>t DEF Now
  <1> QED BY <1>1, <1>2, <1>3, <1>4, <1>5, <1>6, <1>7 DEF Next, Runner

LEMMA PatchesStep ==
    ASSUME HiddenInv, [Next]_vars
    PROVE  PatchesAreWork'
  <1>t. TypeOK /\ Sound /\ Prepared /\ PatchesAreWork
    BY DEF HiddenInv, TypeInv
  <1> USE DEF PatchesAreWork
  <1>1. CASE SavePatch
    <2>1. Staged \subseteq {"work", "tooling"} \cup Unhidden
      BY <1>1, <1>t DEF SavePatch, Prepared, Staged
    <2>2. Now \in Cells
      BY <1>1, <1>t, PlannedCells DEF SavePatch, Sound, Now
    <2> QED BY <1>1, <1>t, <2>1, <2>2 DEF SavePatch, judgeVars, TypeOK
  <1>2. ASSUME NEW s \in Sample, JudgeSample(s)
        PROVE  PatchesAreWork'
    <2> DEFINE group == {c \in Cells : c.task = s.task /\ c.repeat = s.repeat /\ judge.attempts[c] # 0}
    <2>1. PICK label \in Labelled(group) : \E scored \in SUBSET DOMAIN label :
              asked' = {[cell |-> c, sample |-> s.sample, shown |-> Shown(c),
                         attempt |-> patches[c].attempt] : c \in {label[l] : l \in scored}}
      BY <1>2 DEF JudgeSample
    <2>2. label \in [1 .. Cardinality(group) -> group]
      BY DEF Labelled
    <2>3. \A c \in group : Shown(c) \subseteq {"work"} \cup Unhidden
      BY <1>t DEF Shown
    <2>4. \A j \in asked' : j.shown \subseteq {"work"} \cup Unhidden
      <3> HIDE DEF group
      <3> QED BY <2>1, <2>2, <2>3
    <2>5. UNCHANGED <<patches, judged>>
      BY <1>2 DEF JudgeSample
    <2> QED BY <1>t, <2>4, <2>5
  <1>3. CASE JudgeStart \/ JudgeEnd \/ (\E record \in asked : JudgeAppend(record))
    BY <1>3, <1>t DEF JudgeStart, JudgeEnd, JudgeAppend
  <1>4. CASE Invoke \/ Preflight \/ NextCell \/ Clone \/ Exclude \/ Strip \/ Check \/ Agent \/ Quality
             \/ InstallGraders \/ Grade \/ AppendRow \/ Finish \/ Abort \/ UNCHANGED vars
    <2>1. UNCHANGED <<patches, judged, asked>>
      BY <1>4 DEF Invoke, Preflight, NextCell, Clone, Exclude, Strip, Check, Agent, Quality,
                  InstallGraders, Grade, AppendRow, Finish, Abort, copyOnly, judgeVars, vars
    <2> QED BY <2>1, <1>t
  <1> QED BY <1>1, <1>2, <1>3, <1>4 DEF Next, Runner

LEMMA HiddenStep == HiddenInv /\ [Next]_vars => HiddenInv'
  BY TypeStep, PreparedStep, PatchesStep DEF HiddenInv

\* No agent stands in a copy from which it could reach the answer, the grader or the notes,
\* or in a control arm's copy with the wiki (arms.mjs:356-420, run.mjs:316-345).
THEOREM AnswerStaysHidden == Spec => []AnswerIsHidden
  <1>1. HiddenInv => AnswerIsHidden
    BY DEF HiddenInv, TypeInv, Prepared, AnswerIsHidden
  <1> QED BY <1>1, HiddenInit, HiddenStep, PTL DEF Spec

\* Of what the harness puts into a copy, graders and settings are in no patch, and the judge
\* is not shown what the tooling wrote (arms.mjs:308-330, judge.mjs:11-40); dependencies are,
\* unless git ignores them (arms.mjs:424).
THEOREM PatchesLeaveOutTheHarness == Spec => []PatchIsTheAgents
  <1>1. HiddenInv => PatchIsTheAgents
    BY DEF HiddenInv, PatchesAreWork, PatchIsTheAgents
  <1> QED BY <1>1, HiddenInit, HiddenStep, PTL DEF Spec

-----------------------------------------------------------------------------
(* Dependencies *)

\* What the valid rows of a run ran with is what the next agent will find, or the one at
\* work has found.
DepsStand ==
    /\ \A i \in since + 1 .. Len(rows) :
          rows[i].valid => /\ rows[i].graded = rows[i].deps
                           /\ at # "off" => rows[i].deps = IF at \in Ran THEN before ELSE deps
    /\ \A i, j \in since + 1 .. Len(rows) :
          rows[i].valid /\ rows[j].valid => rows[i].deps = rows[j].deps

DepsInv == TypeInv /\ DepsStand

LEMMA DepsInit == Init => DepsInv
  BY TypeInit DEF Init, DepsInv, DepsStand

LEMMA DepsStep == DepsInv /\ [Next]_vars => DepsInv'
  <1> SUFFICES ASSUME DepsInv, [Next]_vars
               PROVE  DepsStand'
    BY TypeStep DEF DepsInv
  <1>t. TypeOK /\ DepsStand
    BY DEF DepsInv, TypeInv
  <1> USE DEF DepsStand, Ran
  <1>1. CASE Invoke
    <2>1. since' = Len(rows) /\ rows' = rows /\ Len(rows) \in Nat
      BY <1>1, <1>t DEF Invoke, TypeOK
    <2> QED BY <2>1
  <1>2. CASE Preflight \/ NextCell \/ Clone \/ Exclude \/ Strip \/ Finish \/ Abort
    <2>1. /\ UNCHANGED <<rows, deps, since>>
          /\ at' = "off" \/ (at # "off" /\ at \notin Ran /\ at' \notin Ran)
      BY <1>2 DEF Preflight, NextCell, Clone, Exclude, Strip, Finish, Abort, End, Goto, copyOnly
    <2> QED BY <2>1, <1>t
  <1>3. CASE Check
    <2>1. /\ UNCHANGED <<rows, deps, since>>
          /\ at = "check" /\ (at' = "off" \/ (at' = "agent" /\ before' = deps))
      BY <1>3 DEF Check, End, Goto
    <2> QED BY <2>1, <1>t
  <1>4. CASE Agent \/ SavePatch \/ Quality \/ InstallGraders \/ Grade
    <2>1. UNCHANGED <<rows, before, since>> /\ at \in Ran /\ at' \in Ran
      BY <1>4 DEF Agent, SavePatch, Quality, InstallGraders, Grade, Goto, copyOnly
    <2> QED BY <2>1, <1>t
  <1>5. CASE AppendRow
    <2>1. rows \in Seq(Row) /\ rows' = Append(rows, NewRow) /\ at = "append" /\ since' = since
          /\ deps' = deps /\ since \in 0 .. Len(rows)
      BY <1>5, <1>t DEF AppendRow, TypeOK
    <2>2. /\ Len(rows') = Len(rows) + 1 /\ Len(rows) \in Nat
          /\ \A i \in since + 1 .. Len(rows) : rows'[i] = rows[i]
          /\ rows'[Len(rows')] = NewRow
      BY <2>1
    <2>3. /\ NewRow.deps = before /\ NewRow.graded = deps
          /\ NewRow.valid => deps = before
          /\ IF NewRow.valid THEN at' = "next" ELSE at' = "off"
      BY <1>5 DEF NewRow, AppendRow, Goto, End
    <2>4. \A i \in since + 1 .. Len(rows') : i = Len(rows') \/ i \in since + 1 .. Len(rows)
      BY <2>1, <2>2
    <2>5. \A i \in since + 1 .. Len(rows) :
             rows[i].valid => rows[i].graded = rows[i].deps /\ rows[i].deps = before
      BY <2>1, <1>t
    <2>6. \A i \in since' + 1 .. Len(rows') :
             rows'[i].valid => rows'[i].graded = rows'[i].deps /\ rows'[i].deps = before
      BY <2>1, <2>2, <2>3, <2>4, <2>5
    <2>7. \/ at' = "off"
          \/ at' = "next" /\ deps' = before
      BY <2>1, <2>3
    <2> QED BY <2>6, <2>7
  <1>6. CASE JudgeStart \/ JudgeEnd \/ (\E s \in Sample : JudgeSample(s))
             \/ (\E record \in asked : JudgeAppend(record)) \/ UNCHANGED vars
    <2>1. UNCHANGED <<rows, deps, since, at, before>>
      BY <1>6 DEF JudgeStart, JudgeEnd, JudgeSample, JudgeAppend, runnerVars, vars
    <2> QED BY <2>1, <1>t
  <1> QED BY <1>1, <1>2, <1>3, <1>4, <1>5, <1>6 DEF Next, Runner

\* What one run of the harness adds and the report counts was measured with the same
\* dependencies: a row that changed them is not valid and ends the run (run.mjs:441-486).
THEOREM PairsShareTheirDependencies == Spec => []PairsShareDependencies
  <1>1. DepsInv => PairsShareDependencies
    BY DEF DepsInv, DepsStand, PairsShareDependencies
  <1> QED BY <1>1, DepsInit, DepsStep, PTL DEF Spec

-----------------------------------------------------------------------------
(* What the judge compares *)

\* --arms may name an arm twice: the plan then has its cells twice.
ArmsNamedOnce == \A i, j \in DOMAIN Arms : Arms[i] = Arms[j] => i = j

\* Division has one result.
LEMMA DivisionIsUnique ==
    ASSUME NEW d \in Nat, NEW q1 \in Int, NEW q2 \in Int,
           NEW r1 \in 0 .. d - 1, NEW r2 \in 0 .. d - 1, d * q1 + r1 = d * q2 + r2
    PROVE  q1 = q2 /\ r1 = r2
  <1>1. \A k \in Nat : k >= 1 => d * k >= d
    OBVIOUS
  <1>2. ASSUME NEW a \in Int, NEW b \in Int, NEW r \in 0 .. d - 1, NEW s \in 0 .. d - 1,
               d * a + r = d * b + s, a < b
        PROVE  FALSE
    <2>1. b - a \in Nat /\ b - a >= 1
      BY <1>2
    <2>2. d * (b - a) >= d
      BY <1>1, <2>1
    <2>3. d * (b - a) = d * b - d * a
      OBVIOUS
    <2>4. d * a \in Int /\ d * b \in Int /\ r - s < d
      OBVIOUS
    <2> QED BY <1>2, <2>2, <2>3, <2>4
  <1>3. ~(q1 < q2) /\ ~(q2 < q1)
    BY <1>2
  <1>4. q1 = q2
    BY <1>3
  <1> QED BY <1>4

LEMMA Division ==
    ASSUME NEW n \in Nat, NEW d \in Nat, d > 0
    PROVE  n \div d \in Nat /\ n % d \in 0 .. d - 1 /\ n = d * (n \div d) + (n % d)
  OBVIOUS

\* The remainder by a factor of d is that of the remainder by d.
LEMMA RemainderByFactor ==
    ASSUME NEW n \in Nat, NEW l \in Nat, NEW r \in Nat, l > 0, r > 0
    PROVE  n % r = (n % (l * r)) % r
  <1> DEFINE m == n % (l * r)
             q == n \div (l * r)
  <1>1. l * r \in Nat /\ l * r > 0
    OBVIOUS
  <1>2. q \in Nat /\ m \in 0 .. l * r - 1 /\ n = (l * r) * q + m
    BY <1>1, Division
  <1>3. m \in Nat
    BY <1>1, <1>2
  <1> HIDE DEF m, q
  <1>4. m \div r \in Nat /\ m % r \in 0 .. r - 1 /\ m = r * (m \div r) + (m % r)
    BY <1>3, Division
  <1>5. n \div r \in Nat /\ n % r \in 0 .. r - 1 /\ n = r * (n \div r) + (n % r)
    BY Division
  <1> DEFINE k == l * q + (m \div r)
  <1>6. l * q \in Nat
    BY <1>2
  <1>7. k \in Nat
    BY <1>4, <1>6
  <1>8. (l * r) * q = r * (l * q)
    BY <1>2
  <1>9. r * k = r * (l * q) + r * (m \div r)
    BY <1>4, <1>6
  <1>10. n = r * k + (m % r)
    BY <1>2, <1>4, <1>8, <1>9, <1>6
  <1> HIDE DEF k
  <1> DEFINE j == n \div r
             s == n % r
             u == m % r
  <1>11. /\ j \in Int /\ k \in Int /\ s \in 0 .. r - 1 /\ u \in 0 .. r - 1
         /\ r * j + s = r * k + u
    BY <1>4, <1>5, <1>7, <1>10
  <1>12. s = u
    <2> HIDE DEF j, s, u
    <2> QED BY <1>11, DivisionIsUnique
  <1> QED BY <1>12 DEF m

\* Rotating by t, two of l places stay two.
LEMMA RotationKeepsApart ==
    ASSUME NEW l \in Nat, NEW a \in 0 .. l - 1, NEW b \in 0 .. l - 1, NEW t \in Nat,
           (a + t) % l = (b + t) % l
    PROVE  a = b
  <1>1. l > 0 /\ a \in Nat /\ b \in Nat /\ a + t \in Nat /\ b + t \in Nat
    OBVIOUS
  <1> DEFINE p == (a + t) \div l
             q == (b + t) \div l
  <1>2. p \in Nat /\ q \in Nat
    BY <1>1, Division
  <1>3. a + t = l * p + ((a + t) % l) /\ b + t = l * q + ((b + t) % l)
    BY <1>1, Division
  <1>4. (a + t) % l \in 0 .. l - 1
    BY <1>1, Division
  <1> HIDE DEF p, q
  <1>5. l * p \in Int /\ l * q \in Int
    BY <1>2
  <1>6. a - b = l * p - l * q
    BY <1>1, <1>3, <1>4, <1>5
  <1>7. l * p + b = l * q + a
    BY <1>1, <1>5, <1>6
  <1> QED BY <1>2, <1>7, DivisionIsUnique

\* The rotation of the arms (run.mjs:365-371) gives each cell one place in the plan.
THEOREM PlanIsInjective ==
    ASSUME ArmsNamedOnce, NEW n1 \in 0 .. Planned - 1, NEW n2 \in 0 .. Planned - 1,
           Plan(n1) = Plan(n2)
    PROVE  n1 = n2
  <1> DEFINE l == Len(Arms)
  <1>1. l \in Nat /\ Repeats \in Nat /\ Tasks \in Nat /\ PerTask = l * Repeats
        /\ Arms \in Seq(KnownArms) /\ DOMAIN Arms = 1 .. l
    BY EvalConstants DEF PerTask
  <1>2. PerTask \in Nat /\ n1 \in Nat /\ n2 \in Nat
        /\ n1 \in 0 .. Tasks * PerTask - 1 /\ n2 \in 0 .. Tasks * PerTask - 1
    BY <1>1, PlannedIsNat DEF Planned
  <1> HIDE DEF l
  <1>3. PerTask > 0
    BY <1>1, <1>2, Factors, Tasks * (PerTask * 1) > 0
  <1>4. Repeats > 0
    BY <1>1, <1>3
  <1>5. l > 0
    BY <1>1, <1>3
  <1>6. ASSUME NEW n \in Nat
        PROVE  /\ n \div PerTask \in Nat
               /\ n % PerTask \in 0 .. l * Repeats - 1
               /\ n % PerTask \in Nat
               /\ n = PerTask * (n \div PerTask) + (n % PerTask)
               /\ (n % PerTask) \div Repeats \in 0 .. l - 1
               /\ n % PerTask = Repeats * ((n % PerTask) \div Repeats) + (n % Repeats)
    <2> DEFINE m == n % PerTask
    <2>1. n \div PerTask \in Nat /\ m \in 0 .. PerTask - 1 /\ n = PerTask * (n \div PerTask) + m
      BY <1>2, <1>3, Division
    <2>2. m \in Nat /\ m \in 0 .. l * Repeats - 1
      BY <1>1, <1>2, <2>1
    <2>3. n % Repeats = m % Repeats
      BY <1>1, <1>4, <1>5, RemainderByFactor
    <2> HIDE DEF m
    <2>4. m \div Repeats \in 0 .. l - 1
      BY <1>1, <2>2, Quotient
    <2>5. m = Repeats * (m \div Repeats) + (m % Repeats)
      BY <1>1, <1>4, <2>2, Division
    <2> QED BY <2>1, <2>2, <2>3, <2>4, <2>5 DEF m
  <1> DEFINE place(n) == (n % PerTask) \div Repeats
             turned(n) == ((place(n) + (n \div PerTask)) % l) + 1
  <1>7. /\ (n1 \div PerTask) + 1 = (n2 \div PerTask) + 1
        /\ (n1 % Repeats) + 1 = (n2 % Repeats) + 1
        /\ Arms[turned(n1)] = Arms[turned(n2)]
    BY DEF Plan, l
  <1>8. n1 \div PerTask = n2 \div PerTask /\ n1 % Repeats = n2 % Repeats
    <2>1. n1 \div PerTask \in Nat /\ n2 \div PerTask \in Nat
      BY <1>2, <1>6
    <2>2. n1 % Repeats \in Nat /\ n2 % Repeats \in Nat
      BY <1>1, <1>2, <1>4, Division
    <2> QED BY <1>7, <2>1, <2>2
  <1>9. /\ place(n1) \in 0 .. l - 1 /\ place(n2) \in 0 .. l - 1
        /\ n1 \div PerTask \in Nat /\ n2 \div PerTask \in Nat
    BY <1>2, <1>6
  <1> HIDE DEF place
  <1>10. /\ (place(n1) + (n1 \div PerTask)) % l \in 0 .. l - 1
         /\ (place(n2) + (n2 \div PerTask)) % l \in 0 .. l - 1
    <2>1. place(n1) + (n1 \div PerTask) \in Nat /\ place(n2) + (n2 \div PerTask) \in Nat
      BY <1>1, <1>9, SMTT(40)
    <2> QED BY <1>1, <1>5, <2>1, Division
  <1>11. turned(n1) \in DOMAIN Arms /\ turned(n2) \in DOMAIN Arms
    BY <1>1, <1>10
  <1>12. turned(n1) = turned(n2)
    <2> HIDE DEF turned
    <2> QED BY <1>7, <1>11 DEF ArmsNamedOnce
  <1>13. (place(n1) + (n1 \div PerTask)) % l = (place(n2) + (n1 \div PerTask)) % l
    BY <1>8, <1>10, <1>12
  <1>14. place(n1) = place(n2)
    <2> DEFINE a == place(n1)
               b == place(n2)
               t == n1 \div PerTask
    <2>1. l \in Nat /\ a \in 0 .. l - 1 /\ b \in 0 .. l - 1 /\ t \in Nat /\ (a + t) % l = (b + t) % l
      BY <1>1, <1>9, <1>13
    <2> HIDE DEF a, b, t
    <2>2. a = b
      BY <2>1, RotationKeepsApart
    <2> QED BY <2>2 DEF a, b
  <1>15. n1 % PerTask = n2 % PerTask
    BY <1>2, <1>6, <1>8, <1>14 DEF place
  <1> QED BY <1>2, <1>6, <1>8, <1>15

\* What is measured is not run again: the runner does not come to a cell that has a valid
\* row, in its file or by now.
NotRunAgain ==
    /\ at # "off" => \A n \in cell .. Planned - 1 : Plan(n) \in AlreadyRun => Plan(n) \in skip
    /\ at \notin {"off", "preflight", "next"} => Now \notin skip

\* So the patch of a row that counts is not replaced, and neither is the row.
PatchesAreOfCounted == \A c \in Cells : Counted(c) => patches[c].attempt = Latest(c).attempt

ComparedAreCounted ==
    /\ \A c \in Cells : judge.attempts[c] # 0 => Counted(c)
    /\ \A j \in judged \cup asked : Counted(j.cell) /\ Latest(j.cell).attempt = j.attempt

CountedInv ==
    TypeInv /\ ArmsNamedOnce /\ NotRunAgain /\ PatchesAreOfCounted /\ ComparedAreCounted

LEMMA CountedInit == Init /\ ArmsNamedOnce => CountedInv
  <1> SUFFICES ASSUME Init, ArmsNamedOnce
               PROVE  CountedInv
    OBVIOUS
  <1>1. DOMAIN rows = {}
    BY DEF Init
  <1>2. \A c \in Cells : ~Counted(c)
    BY <1>1 DEF Counted, RowsOf
  <1>3. at = "off" /\ judged = {} /\ asked = {} /\ \A c \in Cells : judge.attempts[c] = 0
    BY DEF Init, NoJudge
  <1> QED BY TypeInit, <1>2, <1>3 DEF CountedInv, NotRunAgain, PatchesAreOfCounted, ComparedAreCounted

LEMMA CountedIsAlreadyRun ==
    ASSUME TypeInv, NEW c \in Cells, Counted(c)
    PROVE  c \in AlreadyRun
  <1>1. rows \in Seq(Row) /\ RowsOf(c) # {}
    BY DEF TypeInv, TypeOK, Counted
  <1>2. PICK i \in DOMAIN rows : rows[i].cell = c /\ Latest(c) = rows[i]
    BY <1>1, LatestIsARow
  <1> QED BY <1>2 DEF Counted, AlreadyRun, RowsOf

\* The cell at work has no valid row.
LEMMA NowIsNotCounted ==
    ASSUME CountedInv, at \notin {"off", "preflight", "next"}
    PROVE  Now \in Cells /\ Now \notin AlreadyRun /\ ~Counted(Now)
  <1>1. cell \in 0 .. Planned - 1 /\ Now = Plan(cell)
    BY DEF CountedInv, TypeInv, Sound, Now
  <1>2. Now \in Cells
    BY <1>1, PlannedCells
  <1>3. cell \in cell .. Planned - 1
    BY <1>1, PlannedIsNat
  <1>4. Now \notin AlreadyRun
    BY <1>1, <1>3 DEF CountedInv, NotRunAgain
  <1> QED BY <1>2, <1>4, CountedIsAlreadyRun DEF CountedInv

\* A new row is the last of its cell and leaves those of the others alone.
LEMMA RowAppended ==
    ASSUME rows \in Seq(Row), NEW row, rows' = Append(rows, row), NEW c \in Cells
    PROVE  /\ row.cell # c => RowsOf(c)' = RowsOf(c)
           /\ row.cell # c /\ RowsOf(c) # {} => Latest(c)' = Latest(c)
           /\ row.cell = c => Latest(c)' = row
  <1>1. /\ Len(rows) \in Nat /\ DOMAIN rows = 1 .. Len(rows) /\ DOMAIN rows' = 1 .. Len(rows) + 1
        /\ \A i \in DOMAIN rows : rows'[i] = rows[i]
        /\ rows'[Len(rows) + 1] = row
    BY AppendProperties
  <1>2. ASSUME row.cell # c
        PROVE  RowsOf(c)' = RowsOf(c)
    BY <1>1, <1>2 DEF RowsOf
  <1>3. ASSUME row.cell # c, RowsOf(c) # {}
        PROVE  Latest(c)' = Latest(c)
    <2> DEFINE last(S) == CHOOSE i \in S : \A j \in S : j <= i
    <2>1. RowsOf(c) \in SUBSET (1 .. Len(rows))
      BY <1>1 DEF RowsOf
    <2>2. last(RowsOf(c)) \in RowsOf(c)
      BY <1>1, <1>3, <2>1, HasLast
    <2>3. last(RowsOf(c)) \in DOMAIN rows
      BY <1>1, <2>1, <2>2
    <2>4. RowsOf(c)' = RowsOf(c)
      BY <1>2, <1>3
    <2>5. Latest(c) = rows[last(RowsOf(c))] /\ Latest(c)' = rows'[last(RowsOf(c)')]
      BY DEF Latest
    <2> HIDE DEF last
    <2> QED BY <1>1, <2>3, <2>4, <2>5
  <1>4. ASSUME row.cell = c
        PROVE  Latest(c)' = row
    <2>1. Len(rows) + 1 \in RowsOf(c)' /\ RowsOf(c)' \subseteq 1 .. Len(rows) + 1
      BY <1>1, <1>4 DEF RowsOf
    <2> DEFINE last == CHOOSE i \in RowsOf(c)' : \A j \in RowsOf(c)' : j <= i
    <2>2. last \in RowsOf(c)' /\ \A j \in RowsOf(c)' : j <= last
      <3>1. \A j \in RowsOf(c)' : j <= Len(rows) + 1
        BY <1>1, <2>1
      <3> QED BY <2>1, <3>1
    <2>3. last = Len(rows) + 1
      <3> HIDE DEF last
      <3> QED BY <1>1, <2>1, <2>2
    <2>4. Latest(c)' = rows'[last]
      BY DEF Latest
    <2> QED BY <1>1, <2>3, <2>4
  <1> QED BY <1>2, <1>3, <1>4

LEMMA RowsUnchanged ==
    ASSUME rows' = rows
    PROVE  /\ AlreadyRun' = AlreadyRun
           /\ \A c \in Cells : (Counted(c)' <=> Counted(c)) /\ Latest(c)' = Latest(c)
  <1>1. \A c \in Cells : RowsOf(c)' = RowsOf(c)
    BY DEF RowsOf
  <1>2. \A c \in Cells : Latest(c)' = Latest(c)
    BY <1>1 DEF Latest
  <1>3. \A c \in Cells : Counted(c)' <=> Counted(c)
    BY <1>1, <1>2 DEF Counted
  <1>4. AlreadyRun' = AlreadyRun
    BY <1>1 DEF AlreadyRun
  <1> QED BY <1>2, <1>3, <1>4

\* What counts goes on to count, with the same attempt.
LEMMA CountedStays ==
    ASSUME CountedInv, [Next]_vars, NEW c \in Cells, Counted(c)
    PROVE  Counted(c)' /\ Latest(c)' = Latest(c)
  <1>1. CASE AppendRow
    <2>1. rows \in Seq(Row) /\ rows' = Append(rows, NewRow) /\ at = "append" /\ NewRow.cell = Now
      BY <1>1 DEF CountedInv, TypeInv, TypeOK, AppendRow, NewRow
    <2>2. NewRow.cell # c
      BY <2>1, NowIsNotCounted
    <2>3. RowsOf(c) # {} /\ RowsOf(c)' = RowsOf(c) /\ Latest(c)' = Latest(c)
      BY <2>1, <2>2, RowAppended DEF Counted
    <2> QED BY <2>3 DEF Counted
  <1>2. CASE rows' = rows
    BY <1>2, RowsUnchanged
  <1>3. AppendRow \/ rows' = rows
    BY DEF Next, Runner, Invoke, Preflight, NextCell, Clone, Exclude, Strip, Check, Agent, SavePatch,
           Quality, InstallGraders, Grade, Finish, Abort, JudgeStart, JudgeEnd, JudgeSample,
           JudgeAppend, copyOnly, vars
  <1> QED BY <1>1, <1>2, <1>3

LEMMA NotRunAgainStep ==
    ASSUME CountedInv, [Next]_vars
    PROVE  NotRunAgain'
  <1>t. TypeOK /\ Sound /\ NotRunAgain
    BY DEF CountedInv, TypeInv
  <1>p. Planned' = Planned /\ Planned \in Nat /\ Planned = Tasks * PerTask
    BY PlannedIsNat DEF Planned
  <1>1. CASE AppendRow
    <2>1. rows \in Seq(Row) /\ rows' = Append(rows, NewRow) /\ at = "append" /\ NewRow.cell = Now
      BY <1>1, <1>t DEF TypeOK, AppendRow, NewRow
    <2>2. cell \in 0 .. Planned - 1 /\ Now = Plan(cell)
      BY <1>t, <2>1 DEF Sound, Now
    <2>3. CASE NewRow.valid
      <3>1. at' = "next" /\ cell' = cell + 1 /\ skip' = skip
        BY <1>1, <2>3 DEF AppendRow, Goto
      <3>2. ASSUME NEW n \in cell + 1 .. Planned - 1, Plan(n) \in AlreadyRun'
            PROVE  Plan(n) \in skip
        <4>1. n \in 0 .. Planned - 1 /\ n # cell /\ n \in cell .. Planned - 1
          BY <1>p, <2>2
        <4>2. Plan(n) # Now /\ Plan(n) \in Cells
          BY <2>2, <4>1, PlanIsInjective, PlannedCells DEF CountedInv
        <4> DEFINE c == Plan(n)
        <4>3. c \in Cells /\ RowsOf(c)' = RowsOf(c)
          BY <2>1, <4>2, RowAppended
        <4>4. \A i \in RowsOf(c) : rows'[i] = rows[i]
          BY <2>1, AppendProperties DEF RowsOf
        <4>5. c \in AlreadyRun'
          BY <3>2
        <4>6. c \in AlreadyRun
          <5> HIDE DEF c
          <5>1. PICK i \in RowsOf(c)' : rows'[i].valid
            BY <4>5 DEF AlreadyRun
          <5>2. i \in RowsOf(c) /\ rows[i].valid
            BY <4>3, <4>4, <5>1
          <5> QED BY <4>3, <5>2 DEF AlreadyRun
        <4> QED BY <1>t, <2>1, <4>1, <4>6 DEF NotRunAgain
      <3> QED BY <1>p, <3>1, <3>2 DEF NotRunAgain
    <2>4. CASE ~NewRow.valid
      BY <1>1, <2>4 DEF AppendRow, End, Goto, NotRunAgain
    <2> QED BY <2>3, <2>4
  <1>2. CASE Invoke
    <2>1. rows' = rows /\ skip' = AlreadyRun /\ at' = "preflight"
      BY <1>2 DEF Invoke, Goto
    <2> QED BY <2>1, RowsUnchanged DEF NotRunAgain
  <1>3. CASE NextCell
    <2>1. /\ rows' = rows /\ skip' = skip /\ at = "next"
          /\ \/ at' = "next" /\ cell' = cell + 1
             \/ at' = "clone" /\ cell' = cell /\ Now \notin skip
      BY <1>3 DEF NextCell, Goto
    <2>2. cell' \in Int /\ cell' >= cell /\ cell \in Int
      BY <1>t, <1>p, <2>1 DEF TypeOK
    <2>3. \A n \in cell' .. Planned' - 1 : n \in cell .. Planned - 1
      BY <1>p, <2>2
    <2>4. AlreadyRun' = AlreadyRun
      BY <2>1, RowsUnchanged
    <2> QED BY <1>t, <2>1, <2>3, <2>4 DEF NotRunAgain, Now
  <1>4. CASE Preflight \/ Clone \/ Exclude \/ Strip \/ Check \/ Agent \/ SavePatch \/ Quality
             \/ InstallGraders \/ Grade \/ Finish \/ Abort
    <2>1. /\ rows' = rows
          /\ \/ at' = "off"
             \/ UNCHANGED <<cell, skip>> /\ at # "off"
                /\ (at' = "next" \/ at \notin {"off", "preflight", "next"})
      BY <1>4 DEF Preflight, Clone, Exclude, Strip, Check, Agent, SavePatch, Quality, InstallGraders,
                  Grade, Finish, Abort, End, Goto, copyOnly
    <2>2. AlreadyRun' = AlreadyRun
      BY <2>1, RowsUnchanged
    <2> QED BY <1>t, <1>p, <2>1, <2>2 DEF NotRunAgain, Now
  <1>5. CASE JudgeStart \/ JudgeEnd \/ (\E s \in Sample : JudgeSample(s))
             \/ (\E record \in asked : JudgeAppend(record)) \/ UNCHANGED vars
    <2>1. UNCHANGED <<rows, at, cell, skip>>
      BY <1>5 DEF JudgeStart, JudgeEnd, JudgeSample, JudgeAppend, runnerVars, vars
    <2>2. AlreadyRun' = AlreadyRun
      BY <2>1, RowsUnchanged
    <2> QED BY <1>t, <1>p, <2>1, <2>2 DEF NotRunAgain, Now
  <1> QED BY <1>1, <1>2, <1>3, <1>4, <1>5 DEF Next, Runner

LEMMA PatchesOfCountedStep ==
    ASSUME CountedInv, [Next]_vars
    PROVE  PatchesAreOfCounted'
  <1>t. TypeOK /\ Sound /\ PatchesAreOfCounted
    BY DEF CountedInv, TypeInv
  <1>1. CASE AppendRow
    <2>1. rows \in Seq(Row) /\ rows' = Append(rows, NewRow) /\ at = "append" /\ patches' = patches
          /\ NewRow.cell = Now /\ NewRow.attempt = attempt /\ patches[Now].attempt = attempt
      BY <1>1, <1>t DEF TypeOK, Sound, Saved, AppendRow, NewRow
    <2>2. ASSUME NEW c \in Cells, Counted(c)'
          PROVE  patches'[c].attempt = Latest(c)'.attempt
      <3>1. CASE c = Now
        <4>1. Latest(c)' = NewRow
          BY <2>1, <3>1, RowAppended
        <4> QED BY <2>1, <3>1, <4>1
      <3>2. CASE c # Now
        <4>1. RowsOf(c)' = RowsOf(c) /\ RowsOf(c) # {}
          BY <2>1, <2>2, <3>2, RowAppended DEF Counted
        <4>2. Latest(c)' = Latest(c)
          BY <2>1, <3>2, <4>1, RowAppended
        <4>3. Counted(c)
          BY <2>2, <4>1, <4>2 DEF Counted
        <4> QED BY <1>t, <2>1, <4>2, <4>3 DEF PatchesAreOfCounted
      <3> QED BY <3>1, <3>2
    <2> QED BY <2>2 DEF PatchesAreOfCounted
  <1>2. CASE SavePatch
    <2>1. ~Counted(Now) /\ rows' = rows
      BY <1>2, NowIsNotCounted DEF SavePatch
    <2>2. \A c \in Cells : c # Now => patches'[c] = patches[c]
      BY <1>2, <1>t DEF SavePatch, TypeOK
    <2> QED BY <1>t, <2>1, <2>2, RowsUnchanged DEF PatchesAreOfCounted
  <1>3. CASE Invoke \/ Preflight \/ NextCell \/ Clone \/ Exclude \/ Strip \/ Check \/ Agent
             \/ Quality \/ InstallGraders \/ Grade \/ Finish \/ Abort \/ JudgeStart \/ JudgeEnd
             \/ (\E s \in Sample : JudgeSample(s)) \/ (\E record \in asked : JudgeAppend(record))
             \/ UNCHANGED vars
    <2>1. UNCHANGED <<rows, patches>>
      BY <1>3 DEF Invoke, Preflight, NextCell, Clone, Exclude, Strip, Check, Agent, Quality,
                  InstallGraders, Grade, Finish, Abort, JudgeStart, JudgeEnd, JudgeSample,
                  JudgeAppend, copyOnly, vars
    <2> QED BY <1>t, <2>1, RowsUnchanged DEF PatchesAreOfCounted
  <1> QED BY <1>1, <1>2, <1>3 DEF Next, Runner

LEMMA ComparedStep ==
    ASSUME CountedInv, [Next]_vars
    PROVE  ComparedAreCounted'
  <1>t. TypeOK /\ PatchesAreOfCounted /\ ComparedAreCounted
    BY DEF CountedInv, TypeInv
  <1>c. \A j \in judged \cup asked : j.cell \in Cells
    BY <1>t DEF TypeOK, Judgement
  <1>1. ASSUME \A c \in Cells : judge'.attempts[c] # 0 => Counted(c),
               \A j \in judged' \cup asked' :
                  j.cell \in Cells /\ Counted(j.cell) /\ Latest(j.cell).attempt = j.attempt
        PROVE  ComparedAreCounted'
    <2>1. \A c \in Cells : Counted(c) => Counted(c)' /\ Latest(c)' = Latest(c)
      BY CountedStays
    <2> QED BY <1>1, <2>1 DEF ComparedAreCounted
  <1>2. CASE JudgeStart
    <2>1. judge'.attempts = [c \in Cells |-> IF Counted(c) THEN Latest(c).attempt ELSE 0]
          /\ UNCHANGED <<judged, asked>>
      BY <1>2 DEF JudgeStart
    <2>2. \A c \in Cells : judge'.attempts[c] # 0 => Counted(c)
      BY <2>1
    <2> QED BY <1>1, <1>c, <1>t, <2>1, <2>2 DEF ComparedAreCounted
  <1>3. CASE JudgeEnd
    <2>1. (\A c \in Cells : judge'.attempts[c] = 0) /\ judged' = judged /\ asked' = {}
      BY <1>3 DEF JudgeEnd, NoJudge
    <2> QED BY <1>1, <1>c, <1>t, <2>1 DEF ComparedAreCounted
  <1>4. ASSUME NEW s \in Sample, JudgeSample(s)
        PROVE  ComparedAreCounted'
    <2> DEFINE group == {c \in Cells : c.task = s.task /\ c.repeat = s.repeat /\ judge.attempts[c] # 0}
    <2>1. PICK label \in Labelled(group) : \E scored \in SUBSET DOMAIN label :
              asked' = {[cell |-> c, sample |-> s.sample, shown |-> Shown(c),
                         attempt |-> patches[c].attempt] : c \in {label[l] : l \in scored}}
      BY <1>4 DEF JudgeSample
    <2>2. label \in [1 .. Cardinality(group) -> group]
      BY DEF Labelled
    <2>3. \A c \in group : c \in Cells /\ Counted(c) /\ Latest(c).attempt = patches[c].attempt
      BY <1>t DEF ComparedAreCounted, PatchesAreOfCounted
    <2>4. \A j \in asked' : j.cell \in group /\ j.attempt = patches[j.cell].attempt
      <3> HIDE DEF group
      <3> QED BY <2>1, <2>2
    <2>5. judged' = judged /\ judge'.attempts = judge.attempts
      BY <1>4, <1>t DEF JudgeSample, TypeOK
    <2> HIDE DEF group
    <2>6. \A j \in asked' : j.cell \in Cells /\ Counted(j.cell) /\ Latest(j.cell).attempt = j.attempt
      BY <2>3, <2>4
    <2> QED BY <1>1, <1>c, <1>t, <2>5, <2>6 DEF ComparedAreCounted
  <1>5. ASSUME NEW record \in asked, JudgeAppend(record)
        PROVE  ComparedAreCounted'
    <2>1. judged' \cup asked' \subseteq judged \cup asked /\ judge' = judge
      BY <1>5 DEF JudgeAppend
    <2> QED BY <1>1, <1>c, <1>t, <2>1 DEF ComparedAreCounted
  <1>6. CASE UNCHANGED judgeVars
    BY <1>1, <1>6, <1>c, <1>t DEF judgeVars, ComparedAreCounted
  <1>7. \/ UNCHANGED judgeVars \/ JudgeStart \/ JudgeEnd \/ \E s \in Sample : JudgeSample(s)
        \/ \E record \in asked : JudgeAppend(record)
    BY DEF Next, Runner, Invoke, Preflight, NextCell, Clone, Exclude, Strip, Check, Agent, SavePatch,
           Quality, InstallGraders, Grade, AppendRow, Finish, Abort, copyOnly, vars
  <1> QED BY <1>2, <1>3, <1>4, <1>5, <1>6, <1>7

\* If no arm is named twice, a judgement is of the attempt that counts, and so is the patch of
\* a cell that counts, though both are found by the cell's name, and whatever dies and is
\* resumed in between (run.mjs:298-308, judge.mjs:101-131).
THEOREM JudgementsAreOfWhatCounts == ArmsNamedOnce /\ Spec => []JudgedIsCounted
  <1>1. CountedInv => JudgedIsCounted
    BY DEF CountedInv, PatchesAreOfCounted, ComparedAreCounted, JudgedIsCounted
  <1>2. CountedInv /\ [Next]_vars => CountedInv'
    <2> SUFFICES ASSUME CountedInv, [Next]_vars
                 PROVE  CountedInv'
      OBVIOUS
    <2>1. TypeInv' /\ ArmsNamedOnce'
      BY TypeStep DEF CountedInv, ArmsNamedOnce
    <2> QED BY <2>1, NotRunAgainStep, PatchesOfCountedStep, ComparedStep DEF CountedInv
  <1> QED BY <1>1, <1>2, CountedInit, PTL DEF Spec
=============================================================================
