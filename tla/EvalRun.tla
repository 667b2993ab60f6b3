------------------------------ MODULE EvalRun ------------------------------
(***************************************************************************)
(* The A/B harness (src/eval): run.mjs runs every cell, a task by an arm   *)
(* and a repeat, in a throwaway copy of the repository and appends a row   *)
(* per attempt to results.jsonl; it may fail or die anywhere and is        *)
(* started again with --resume.  judge.mjs has the diffs of the rows that  *)
(* count compared; report.mjs reads both files (Latest, Counted).          *)
(*                                                                         *)
(* A copy is the set of the things in it that matter.  An attempt is known *)
(* by the number of agents that ran before it, the shared dependencies by  *)
(* how often something was installed into them.  One runner and one judge  *)
(* at a time, --allow-unverified-arm is not given, and what is run again   *)
(* under its name is run with --resume.                                    *)
(***************************************************************************)
EXTENDS Integers, Sequences, FiniteSets

CONSTANTS
    Tasks,      \* how many cards; a task is its place in --tasks
    Arms,       \* --arms, in their order
    Repeats,
    Samples,    \* how often the judge is asked about a task and repeat
    LinkDeps,   \* whether the copies share the repository's dependencies
    DepsIgnored,\* whether git ignores them in a copy; node_modules/ matches no link
    MaxFaults   \* bound on what goes wrong, see Fault

KnownArms == {"off", "brief", "wiki", "wiki-nocapture"}

ASSUME EvalConstants ==
    /\ {Tasks, Repeats, Samples, MaxFaults} \subseteq Nat
    /\ Arms \in Seq(KnownArms)
    /\ {LinkDeps, DepsIgnored} \subseteq BOOLEAN

VARIABLES
    rows,     \* results.jsonl
    patches,  \* diffs/<task>-<arm>-rep<n>.patch
    judged,   \* judgements.jsonl
    deps,     \* the repository's dependency directories
    at,       \* what the runner does next
    cell,     \* its place in the plan
    skip,     \* the cells it found recorded
    copy,     \* what is in the copy
    before,   \* the dependencies when its agent started
    tools,    \* the tools its agent loaded
    did,      \* what the agent did besides its work
    judge,    \* what the judge found: the attempts to compare, the samples taken
    asked,    \* the records of the sample it is writing down
    attempt,  \* the number of agents that ran
    since,    \* history: the rows there were when the runner started
    faults    \* bound: what went wrong so far

runnerVars == <<at, cell, skip, copy, before, tools, did>>
judgeVars == <<judge, asked, judged>>
vars == <<rows, patches, deps, runnerVars, judgeVars, attempt, since, faults>>

\* The order of the runs: the arms of a task rotate by its place.
PerTask == Len(Arms) * Repeats
Plan(n) ==
    LET t == n \div PerTask
    IN  [task |-> t + 1, repeat |-> (n % Repeats) + 1,
         arm |-> Arms[((((n % PerTask) \div Repeats) + t) % Len(Arms)) + 1]]
Cells == {Plan(n) : n \in 0 .. Tasks * PerTask - 1}

KeepsWiki(arm) == arm \in {"wiki", "wiki-nocapture"}

\* tooling: what the wiki of a copy writes into it; packages: the dependencies of the
\* repository, linked or copied.
Thing == {"target", "remote", "wiki", "notes", "grader", "config", "packages",
          "work", "tooling", "committed"}
Patch == [attempt : 0 .. attempt, has : SUBSET Thing]

\* What an agent does, seldom: leave no session or one that cannot be measured, reach
\* what it should not, install packages, commit its work.
Mishap == {"session", "reached", "install", "commit"}
Tool == {"common", "wiki_read", "wiki_write"}

Row == [cell : Cells, attempt : 1 .. attempt, valid : BOOLEAN, clean : BOOLEAN,
        deps : 0 .. deps, graded : 0 .. deps]
Sample == [task : 1 .. Tasks, repeat : 1 .. Repeats, sample : 1 .. Samples]
Judgement == [cell : Cells, sample : 1 .. Samples, attempt : 1 .. attempt, shown : SUBSET Thing]

Steps == {"off", "preflight", "next", "clone", "exclude", "strip", "check", "agent",
          "patch", "quality", "graders", "grade", "append"}
InCopy == Steps \ {"off", "preflight", "next", "clone"}
NoJudge == [attempts |-> [c \in Cells |-> 0], done |-> {}, on |-> FALSE]

TypeOK ==
    /\ rows \in Seq(Row)
    /\ patches \in [Cells -> Patch]
    /\ judged \subseteq Judgement
    /\ {deps, faults} \subseteq Nat /\ attempt \in Nat
    /\ at \in Steps
    /\ cell \in 0 .. Tasks * PerTask
    /\ skip \subseteq Cells
    /\ copy \subseteq Thing
    /\ before \in 0 .. deps
    /\ tools \subseteq Tool /\ did \subseteq Mishap
    /\ judge \in [attempts : [Cells -> 0 .. attempt], done : SUBSET Sample, on : BOOLEAN]
    /\ asked \subseteq Judgement
    /\ since \in 0 .. Len(rows)
    /\ copy # {} => at \in InCopy
    /\ "committed" \in copy => "work" \notin copy

Init ==
    /\ rows = <<>> /\ judged = {} /\ deps = 0
    /\ patches = [c \in Cells |-> [attempt |-> 0, has |-> {}]]
    /\ at = "off" /\ cell = 0 /\ skip = {} /\ copy = {} /\ before = 0 /\ tools = {} /\ did = {}
    /\ judge = NoJudge /\ asked = {}
    /\ attempt = 0 /\ since = 0 /\ faults = 0

-----------------------------------------------------------------------------
\* report.mjs: of the rows of a cell the last one stands.

RowsOf(c) == {i \in DOMAIN rows : rows[i].cell = c}
Latest(c) == rows[CHOOSE i \in RowsOf(c) : \A j \in RowsOf(c) : j <= i]
Counted(c) == RowsOf(c) # {} /\ Latest(c).valid /\ Latest(c).clean

-----------------------------------------------------------------------------
\* run.mjs.

Now == Plan(cell)
Goto(step) == at' = step
\* n more things go wrong.
Fault(n) == faults + n <= MaxFaults /\ faults' = faults + n

\* Mutant: whatever is recorded counts as finished.
RecordedCells == {c \in Cells : RowsOf(c) # {}}

\* Mutant: the last line is taken for one that was cut short.
CellsBeforeLast == {c \in Cells : \E i \in RowsOf(c) \ {Len(rows)} : rows[i].valid}

\* The cells that --resume passes over.
AlreadyRun == {c \in Cells : \E i \in RowsOf(c) : rows[i].valid}

Invoke ==
    /\ at = "off"
    /\ skip' = AlreadyRun
    /\ since' = Len(rows)
    /\ Goto("preflight")
    /\ UNCHANGED <<rows, patches, deps, cell, copy, before, tools, did, judgeVars, attempt, faults>>

\* What an arm loads: its agent dir is the user's, with or without the wiki package.
AgentDir(arm) == {"common"} \cup IF KeepsWiki(arm) THEN {"wiki_read", "wiki_write"} ELSE {}

\* ... of which the read-only arm is refused the tools to write that the wiki arm showed.
ReadOnly(shown) == AgentDir("wiki-nocapture") \ (shown \cap {"wiki_write"})
Loads(arm) == IF arm = "wiki-nocapture" THEN ReadOnly({"wiki_write"}) ELSE AgentDir(arm)

\* The wiki tools an arm has and should not have, or the other way round.
LoadoutProblem(arm, loaded) ==
    IF ~KeepsWiki(arm) THEN loaded \cap {"wiki_read", "wiki_write"} # {}
    ELSE \/ loaded \cap {"wiki_read", "wiki_write"} = {}
         \/ arm = "wiki-nocapture" /\ "wiki_write" \in loaded

\* compareToolsets: but for the wiki's, two arms load the same tools.
Comparable(one, other) == one \ {"wiki_read", "wiki_write"} = other \ {"wiki_read", "wiki_write"}

\* The runner ends: its copy is removed, or lies about where nobody looks for it.
End ==
    /\ Goto("off")
    /\ cell' = 0 /\ skip' = {} /\ copy' = {} /\ before' = 0 /\ tools' = {} /\ did' = {}

\* A call of the control and of the wiki arm shows what they load, now and then something
\* else than later; if they differ in more than the wiki's tools, nothing is measured.
Preflight ==
    /\ at = "preflight"
    /\ \E off, wiki \in SUBSET Tool :
          /\ Fault((IF off = Loads("off") THEN 0 ELSE 1) + (IF wiki = Loads("wiki") THEN 0 ELSE 1))
          /\ IF \/ off = {} \/ wiki = {} \/ ~Comparable(off, wiki)
                \/ /\ \E i \in DOMAIN Arms : Arms[i] = "wiki-nocapture"
                   /\ LoadoutProblem("wiki-nocapture", ReadOnly(wiki))
             THEN End
             ELSE Goto("next") /\ UNCHANGED <<cell, skip, copy, before, tools, did>>
    /\ UNCHANGED <<rows, patches, deps, judgeVars, attempt, since>>

NextCell ==
    /\ at = "next" /\ cell < Tasks * PerTask
    /\ IF Now \in skip
       THEN cell' = cell + 1 /\ UNCHANGED at
       ELSE Goto("clone") /\ UNCHANGED cell
    /\ UNCHANGED <<rows, patches, deps, skip, copy, before, tools, did, judgeVars, attempt, since, faults>>

Finish ==
    /\ at = "next" /\ cell = Tasks * PerTask
    /\ End
    /\ UNCHANGED <<rows, patches, deps, judgeVars, attempt, since, faults>>

copyOnly == <<rows, patches, deps, cell, skip, before, tools, did, judgeVars, attempt, since>>

\* prepareTaskCopy: a clone has the whole history and knows where it came from; what a
\* flawed card does not exclude is in it, until somebody puts the card right ...
Clone ==
    /\ at = "clone"
    /\ \E found \in SUBSET {"notes", "grader"} :
          /\ IF found = {} THEN UNCHANGED faults ELSE Fault(1)
          /\ copy' = {"target", "remote", "wiki"} \cup found
    /\ Goto("exclude")
    /\ UNCHANGED copyOnly

\* ... the control arms are to see no wiki ...
Exclude ==
    /\ at = "exclude"
    /\ copy' = IF KeepsWiki(Now.arm) THEN copy ELSE copy \ {"wiki"}
    /\ Goto("strip")
    /\ UNCHANGED <<copyOnly, faults>>

\* configureCapture: the read-only arm's setting, written where git does not look.
Configured == IF Now.arm = "wiki-nocapture" THEN {"config"} ELSE {}

\* ... remotes and refs are removed, and what they led to if git gc succeeds; what the
\* clone lacks of the dependencies is put beside the code (linkDependencies).
Strip ==
    /\ at = "strip"
    /\ \E collected \in BOOLEAN :
          /\ IF collected THEN UNCHANGED faults ELSE Fault(1)
          /\ copy' = (copy \ (IF collected THEN {"remote", "target"} ELSE {"remote"}))
                        \cup Configured \cup {"packages"}
    /\ Goto("check")
    /\ UNCHANGED copyOnly

\* Mutant: that git pruned the target commit is taken for granted.
RefuseUnlessPruned == copy \cap {"remote", "grader", "notes"} # {}

\* Seen from where the agent will stand.
Refuse == copy \cap {"target", "remote", "grader", "notes"} # {}

Check ==
    /\ at = "check"
    /\ IF Refuse
       THEN End /\ UNCHANGED attempt
       ELSE /\ Goto("agent")
            /\ before' = deps
            /\ attempt' = attempt + 1
            /\ UNCHANGED <<cell, skip, copy, tools, did>>
    /\ UNCHANGED <<rows, patches, deps, judgeVars, since, faults>>

\* Something is installed: into the repository's own directories if they were linked.
Installed == IF LinkDeps THEN deps + 1 ELSE deps

\* pi works in the copy until it is done or its time is up.
Agent ==
    /\ at = "agent"
    /\ \E mishaps \in SUBSET Mishap, loaded \in SUBSET Tool :
          /\ Fault(Cardinality(mishaps) + (IF loaded = Loads(Now.arm) THEN 0 ELSE 1))
          /\ did' = mishaps
          /\ tools' = IF "session" \in mishaps THEN {} ELSE loaded
          /\ deps' = IF "install" \in mishaps THEN Installed ELSE deps
          /\ copy' = copy \cup {IF "commit" \in mishaps THEN "committed" ELSE "work"}
                          \cup (IF "wiki_read" \in loaded THEN {"tooling"} ELSE {})
    /\ Goto("patch")
    /\ UNCHANGED <<rows, patches, cell, skip, before, judgeVars, attempt, since>>

\* What nothing hides from git of what linkDependencies left.
Unhidden == IF DepsIgnored THEN {} ELSE {"packages"}

\* Mutant: the harness's own settings are not hidden from git.
StagedWithConfig == copy \cap ({"work", "tooling", "grader", "config"} \cup Unhidden)

\* What git diff --cached HEAD shows once everything is staged.
Staged == copy \cap ({"work", "tooling", "grader"} \cup Unhidden)

\* savePatch, over the patch of an earlier attempt.
SavePatch ==
    /\ at = "patch"
    /\ patches' = [patches EXCEPT ![Now] = [attempt |-> attempt, has |-> Staged]]
    /\ Goto("quality")
    /\ UNCHANGED <<rows, deps, cell, skip, copy, before, tools, did, judgeVars, attempt, since, faults>>

\* A command of the card, which may install something too.
Command == \/ UNCHANGED <<deps, faults>>
           \/ Fault(1) /\ deps' = Installed

\* The project's own checks, on the agent's work alone.
Quality ==
    /\ at = "quality"
    /\ Command
    /\ Goto("graders")
    /\ UNCHANGED <<rows, patches, cell, skip, copy, before, tools, did, judgeVars, attempt, since>>

InstallGraders ==
    /\ at = "graders"
    /\ copy' = copy \cup {"grader"}
    /\ Goto("grade")
    /\ UNCHANGED <<copyOnly, faults>>

\* The task's test command.
Grade ==
    /\ at = "grade"
    /\ Command
    /\ Goto("append")
    /\ UNCHANGED <<rows, patches, cell, skip, copy, before, tools, did, judgeVars, attempt, since>>

Measured == "session" \notin did

\* scanSession, for the paths and the canary the agent came across.
Clean == did \cap {"reached", "session"} = {}

NewRow == [cell |-> Now, attempt |-> attempt, deps |-> before, graded |-> deps,
           valid |-> ~LoadoutProblem(Now.arm, tools) /\ Measured /\ deps = before,
           clean |-> Clean]

\* Mutant: an invalid row is recorded and the run goes on.
AppendAndGoOn ==
    /\ at = "append"
    /\ rows' = Append(rows, NewRow)
    /\ Goto("next") /\ cell' = cell + 1 /\ copy' = {} /\ before' = 0 /\ tools' = {} /\ did' = {}
    /\ UNCHANGED <<patches, deps, skip, judgeVars, attempt, since, faults>>

\* The row is written; an invalid one stops the run.
AppendRow ==
    /\ at = "append"
    /\ rows' = Append(rows, NewRow)
    /\ IF NewRow.valid
       THEN Goto("next") /\ cell' = cell + 1 /\ copy' = {} /\ before' = 0 /\ tools' = {} /\ did' = {}
                         /\ UNCHANGED skip
       ELSE End
    /\ UNCHANGED <<patches, deps, judgeVars, attempt, since, faults>>

\* git, a file or a missing grader ends the run, or it is killed.
Abort ==
    /\ at # "off"
    /\ Fault(1)
    /\ End
    /\ UNCHANGED <<rows, patches, deps, judgeVars, attempt, since>>

-----------------------------------------------------------------------------
\* judge.mjs.

JudgeStart ==
    /\ ~judge.on
    /\ judge' = [attempts |-> [c \in Cells |-> IF Counted(c) THEN Latest(c).attempt ELSE 0],
                 done |-> {[task |-> j.cell.task, repeat |-> j.cell.repeat, sample |-> j.sample] :
                              j \in judged},
                 on |-> TRUE]
    /\ UNCHANGED <<rows, patches, deps, runnerVars, asked, judged, attempt, since, faults>>

\* codeOnlyPatch: the judge does not see what the tooling wrote.
Shown(c) == patches[c].has \ {"tooling", "config"}

\* blindOrder: the labels of a sample, in any order.
Labelled(group) ==
    {label \in [1 .. Cardinality(group) -> group] :
        \A a, b \in 1 .. Cardinality(group) : label[a] = label[b] => a = b}

\* A sample: the diffs of a task and repeat are compared under blind labels; the answer
\* may leave some out, or be nothing one can parse.
JudgeSample(s) ==
    LET group == {c \in Cells : c.task = s.task /\ c.repeat = s.repeat /\ judge.attempts[c] # 0}
    IN  /\ judge.on /\ asked = {} /\ s \notin judge.done
        /\ group # {}
        /\ \E label \in Labelled(group) : \E scored \in SUBSET DOMAIN label :
              asked' = {[cell |-> c, sample |-> s.sample, shown |-> Shown(c),
                         attempt |-> patches[c].attempt] : c \in {label[l] : l \in scored}}
        /\ judge' = [judge EXCEPT !.done = @ \cup {s}]
        /\ UNCHANGED <<rows, patches, deps, runnerVars, judged, attempt, since, faults>>

JudgeAppend(record) ==
    /\ record \in asked
    /\ judged' = judged \cup {record}
    /\ asked' = asked \ {record}
    /\ UNCHANGED <<rows, patches, deps, runnerVars, judge, attempt, since, faults>>

\* The judge is done, fails or dies.
JudgeEnd ==
    /\ judge.on
    /\ judge' = NoJudge /\ asked' = {}
    /\ UNCHANGED <<rows, patches, deps, runnerVars, judged, attempt, since, faults>>

-----------------------------------------------------------------------------

Runner == \/ Preflight \/ NextCell \/ Clone \/ Exclude \/ Strip \/ Check \/ Agent
          \/ SavePatch \/ Quality \/ InstallGraders \/ Grade \/ AppendRow \/ Finish

Next == \/ Invoke \/ Runner \/ Abort
        \/ JudgeStart \/ JudgeEnd
        \/ \E s \in Sample : JudgeSample(s)
        \/ \E record \in asked : JudgeAppend(record)

\* The runner goes on, and the user starts it again with --resume.
Spec == Init /\ [][Next]_vars /\ WF_vars(Runner) /\ WF_vars(Invoke)

-----------------------------------------------------------------------------
\* "The answer is unreachable" and "the grader is hidden until the agent is done"
\* (eval/README.md, run.mjs:8-9): whichever step of the preparation failed, an agent
\* never stands in a copy with the target commit, a remote, a grader or the notes, nor
\* in a control arm's copy with the wiki.
AnswerIsHidden ==
    /\ TypeOK
    /\ at = "agent" => /\ copy \cap {"target", "remote", "grader", "notes"} = {}
                       /\ "wiki" \in copy <=> KeepsWiki(Now.arm)

\* The graders and the settings that the harness puts into the tree of the agent are in no
\* patch, and nothing the tooling wrote is before the judge.  This is less than "the patch
\* is the agent's work and nothing else" (arms.mjs:308-310) and "code-only diffs"
\* (judge.mjs:11-14): dependencies that git does not ignore are in both.
PatchIsTheAgents ==
    /\ \A c \in Cells : patches[c].has \subseteq {"work", "tooling"} \cup Unhidden
    /\ \A j \in judged : j.shown \subseteq {"work"} \cup Unhidden

\* "Both arms get the same dependency state" (arms.mjs:14-15): of the rows that one run
\* of the harness adds, those the report counts ran and were graded with the same.
PairsShareDependencies ==
    \A i, j \in since + 1 .. Len(rows) :
        rows[i].valid /\ rows[j].valid =>
            {rows[i].deps, rows[i].graded} = {rows[j].deps, rows[j].graded}

\* Patches are found by the cell's name and judgements are matched by the arm's: still a
\* judgement, and the patch of a row that counts, is of the attempt the row is of, however
\* runs, resumed runs and judges interleave (run.mjs:300-308, judge.mjs:101-131).
JudgedIsCounted ==
    /\ \A j \in judged : Counted(j.cell) /\ Latest(j.cell).attempt = j.attempt
    /\ \A c \in Cells : Counted(c) => patches[c].attempt = Latest(c).attempt

\* If the runner is resumed again and again and things go wrong only so often, and flawed
\* cards are put right, every cell is measured (run.mjs:297-308, 436-486).
EveryCellIsMeasured == \A c \in Cells : <>(\E i \in RowsOf(c) : rows[i].valid)
=============================================================================
