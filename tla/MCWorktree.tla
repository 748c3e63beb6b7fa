----------------------------- MODULE MCWorktree -----------------------------
(* What the bridge does to the working tree and to files of rules, for TLC:  *)
(* patches through git apply, ghost commits, the search of files, and rules  *)
(* of execution policies.  The components do not step together: a behaviour  *)
(* is one of one component, on an instance of its own, and one run checks    *)
(* them all.                                                                 *)
EXTENDS GitApply, ExecPolicy, TLC

CONSTANTS
  Unused,            \* not used in this behaviour
  orig, new, local,  \* contents of files
  p1, p2             \* processes that append rules

plain  == <<102>>           \* f
tabbed == <<103, 9, 104>>   \* g, a tab, h

TwoNames == {plain, tabbed}

Change == [from |-> orig, to |-> new]
Create == [from |-> Absent, to |-> new]
Delete == [from |-> orig, to |-> Absent]

\* A file changed next to one that is changed, new or deleted, and one alone.
TwoFiles == {(plain :> Change) @@ (tabbed :> c) : c \in {Change, Create, Delete}}
              \cup {plain :> c : c \in {Create, Delete}}

srcB  == <<"src", "b">>
srcC  == <<"src", "c">>
built == <<"dist", "d">>
lib   == <<"lib">>

push   == <<"git", "push">>
status == <<"git", "status">>
gitCmd == <<"git">>
hg     == <<"hg", "push">>

FourWords    == {"git", "hg", "push", "status"}
AllCommands  == {push, status, gitCmd, hg, <<"git", "push", "status">>}
ThreePrefixes == {push, gitCmd, <<>>}

RuleCall(pattern, decision, match, not_match) ==
  [pattern |-> pattern, decision |-> decision, match |-> match, not_match |-> not_match]

PushCall == RuleCall(<<{"git", "hg"}, {"push"}>>, "prompt", {push, hg}, {status})
GitCall  == RuleCall(<<{"git"}>>, "prompt", {status, gitCmd}, {hg})
TwoCall  == RuleCall(<<{"git"}, {"push", "status"}>>, "forbidden", {push}, {gitCmd})
\* Calls whose examples fail.
HalfCall == RuleCall(<<{"git"}, {"push"}>>, "forbidden", {push, status}, {})
NotCall  == RuleCall(<<{"git"}, {"push"}>>, "forbidden", {}, {push})
LongCall == RuleCall(<<{"git"}, {"push"}>>, "prompt", {gitCmd, push}, {})

UserCalls == {PushCall, GitCall, TwoCall, HalfCall, NotCall, LongCall}
NoCalls   == {{}}
SomeBases == {{}, {PushCall}, {GitCall, TwoCall}, {HalfCall}, {NotCall, PushCall}, {LongCall}}
LastCases == {[lines |-> <<>>, ended |-> TRUE],
              [lines |-> <<<<GitCall>>>>, ended |-> FALSE],
              [lines |-> <<<<AllowCall(push)>>>>, ended |-> FALSE],
              [lines |-> <<<<PushCall>>, <<TwoCall>>>>, ended |-> TRUE]}

VARIABLE part   \* the component this behaviour is of; the others rest

\* Patches that say nothing of blobs, and a file git ignores.
VARIABLES foreWork, foreIndex, foreCall, foreApplied, foreChecked, foreLast,
          foreEdits
foreVars == <<foreWork, foreIndex, foreCall, foreApplied, foreChecked,
              foreLast, foreEdits>>
Foretold == INSTANCE GitApply WITH
  Names <- {plain, tabbed}, Ignored <- {tabbed}, Patches <- TwoFiles,
  Contents <- {orig, new, local}, Blobs <- FALSE, MaxEdits <- 1,
  work <- foreWork, index <- foreIndex, call <- foreCall,
  applied <- foreApplied, checked <- foreChecked, last <- foreLast,
  edits <- foreEdits

\* Rules of several files.
VARIABLES judgeBase, judgeDir, judgeLines, judgeEnded, judgeLock, judgePc,
          judgePrefix, judgeSeen, judgePolicy
judgeVars == <<judgeBase, judgeDir, judgeLines, judgeEnded, judgeLock,
               judgePc, judgePrefix, judgeSeen, judgePolicy>>
Judging == INSTANCE ExecPolicy WITH
  Processes <- {p1}, Approvable <- {push, status}, BaseFiles <- SomeBases,
  base <- judgeBase, dir <- judgeDir, lines <- judgeLines,
  ended <- judgeEnded, lock <- judgeLock, pc <- judgePc,
  prefix <- judgePrefix, seen <- judgeSeen, policy <- judgePolicy

\* What git prints of an apply.
VARIABLES outApplied, outSkipped, outConflicted, outLastSeen, outLines
outVars == <<outApplied, outSkipped, outConflicted, outLastSeen, outLines>>
Output == INSTANCE ApplyOutput WITH
  Paths <- {1, 2}, NoPath <- Unused, MaxLines <- 4, applied <- outApplied,
  skipped <- outSkipped, conflicted <- outConflicted, lastSeen <- outLastSeen,
  lines <- outLines

\* Ghost commits of a working tree.
VARIABLES ghostWork, ghostIndex, ghostHead, ghostIgnored, ghostGhosts,
          ghostUndo, ghostOutcome, ghostEdits
ghostVars == <<ghostWork, ghostIndex, ghostHead, ghostIgnored, ghostGhosts,
               ghostUndo, ghostOutcome, ghostEdits>>
Undo == INSTANCE GhostCommits WITH
  Paths <- {<<"a">>, srcB}, Repos <- {},
  IgnoredNames <- {"dist", "node_modules"}, Scope <- <<>>, Force <- {},
  Contents <- {"x", "y"}, Large <- {}, DirLimit <- 3, NoFile <- Unused,
  Edits <- {"write", "delete", "stage", "commit"}, MaxEdits <- 2,
  MaxGhosts <- 2, work <- ghostWork, index <- ghostIndex, head <- ghostHead,
  ignored <- ghostIgnored, ghosts <- ghostGhosts, undo <- ghostUndo,
  outcome <- ghostOutcome, edits <- ghostEdits
Artifacts == INSTANCE GhostCommits WITH
  Paths <- {<<"a">>, built, lib}, Repos <- {lib},
  IgnoredNames <- {"dist", "node_modules"}, Scope <- <<>>, Force <- {},
  Contents <- {"x", "big"}, Large <- {"big"}, DirLimit <- 3, NoFile <- Unused,
  Edits <- {"write", "delete", "ignore", "unstage"}, MaxEdits <- 2,
  MaxGhosts <- 1, work <- ghostWork, index <- ghostIndex, head <- ghostHead,
  ignored <- ghostIgnored, ghosts <- ghostGhosts, undo <- ghostUndo,
  outcome <- ghostOutcome, edits <- ghostEdits
Below == INSTANCE GhostCommits WITH
  Paths <- {<<"a">>, srcB, srcC}, Repos <- {},
  IgnoredNames <- {"dist", "node_modules"}, Scope <- <<"src">>,
  Force <- {srcB}, Contents <- {"x", "big"}, Large <- {"big"}, DirLimit <- 2,
  NoFile <- Unused, Edits <- {"write", "delete"}, MaxEdits <- 3,
  MaxGhosts <- 1, work <- ghostWork, index <- ghostIndex, head <- ghostHead,
  ignored <- ghostIgnored, ghosts <- ghostGhosts, undo <- ghostUndo,
  outcome <- ghostOutcome, edits <- ghostEdits

\* The search of files.
VARIABLES findAsked, findCancelled, findShutdown, findLeft, findSince,
          findWalked, findQueue, findLast, findArmed, findComplete, findEnded,
          findEngine, findShown, findTold, findAnswer
findVars == <<findAsked, findCancelled, findShutdown, findLeft, findSince,
              findWalked, findQueue, findLast, findArmed, findComplete,
              findEnded, findEngine, findShown, findTold, findAnswer>>
Session == INSTANCE FileSearch WITH
  Files <- {"f", "g"}, Walkers <- {"w"}, CheckEvery <- 2, MaxQueries <- 2,
  Cancels <- TRUE, OneShot <- FALSE, asked <- findAsked,
  cancelled <- findCancelled, shutdown <- findShutdown, left <- findLeft,
  since <- findSince, walked <- findWalked, queue <- findQueue,
  last <- findLast, armed <- findArmed, complete <- findComplete,
  ended <- findEnded, engine <- findEngine, shown <- findShown,
  told <- findTold, answer <- findAnswer
Run == INSTANCE FileSearch WITH
  Files <- {"f", "g"}, Walkers <- {"w", "v"}, CheckEvery <- 2,
  MaxQueries <- 1, Cancels <- TRUE, OneShot <- TRUE, asked <- findAsked,
  cancelled <- findCancelled, shutdown <- findShutdown, left <- findLeft,
  since <- findSince, walked <- findWalked, queue <- findQueue,
  last <- findLast, armed <- findArmed, complete <- findComplete,
  ended <- findEnded, engine <- findEngine, shown <- findShown,
  told <- findTold, answer <- findAnswer

\* The values the instances are given are as their modules ask.
ASSUME InstanceConstants ==
  /\ Foretold!ApplyConstants
  /\ Judging!PolicyConstants
  /\ Output!ApplyConstants
  /\ Undo!GhostConstants
  /\ Artifacts!GhostConstants
  /\ Below!GhostConstants
  /\ Session!FileSearchConstants
  /\ Run!FileSearchConstants

-----------------------------------------------------------------------------
AllParts == {"patches", "rules", "foretold", "judging", "output", "undo",
             "artifacts", "below", "session", "run"}

InPatches == part = "patches" /\ UNCHANGED <<part, policyVars, foreVars,
    judgeVars, outVars, ghostVars, findVars>>
InRules == part = "rules" /\ UNCHANGED <<part, vars, foreVars, judgeVars,
    outVars, ghostVars, findVars>>
InForetold == part = "foretold" /\ UNCHANGED <<part, vars, policyVars,
    judgeVars, outVars, ghostVars, findVars>>
InJudging == part = "judging" /\ UNCHANGED <<part, vars, policyVars, foreVars,
    outVars, ghostVars, findVars>>
InOutput == part = "output" /\ UNCHANGED <<part, vars, policyVars, foreVars,
    judgeVars, ghostVars, findVars>>
InUndo == part = "undo" /\ UNCHANGED <<part, vars, policyVars, foreVars,
    judgeVars, outVars, findVars>>
InArtifacts == part = "artifacts" /\ UNCHANGED <<part, vars, policyVars,
    foreVars, judgeVars, outVars, findVars>>
InBelow == part = "below" /\ UNCHANGED <<part, vars, policyVars, foreVars,
    judgeVars, outVars, findVars>>
InSession == part = "session" /\ UNCHANGED <<part, vars, policyVars, foreVars,
    judgeVars, outVars, ghostVars>>
InRun == part = "run" /\ UNCHANGED <<part, vars, policyVars, foreVars,
    judgeVars, outVars, ghostVars>>

MCInit ==
  /\ part \in AllParts
  /\ Init /\ (part # "patches" => work = [p \in Names |-> orig])
  /\ PolicyInit /\ (part # "rules" => dir /\ lines = <<>>)
  /\ IF part = "foretold" THEN Foretold!Init
     ELSE /\ foreWork = Unused /\ foreIndex = Unused /\ foreCall = Unused
          /\ foreApplied = Unused /\ foreChecked = Unused /\ foreLast = Unused
          /\ foreEdits = Unused
  /\ IF part = "judging" THEN Judging!PolicyInit
     ELSE /\ judgeBase = Unused /\ judgeDir = Unused /\ judgeLines = Unused
          /\ judgeEnded = Unused /\ judgeLock = Unused /\ judgePc = Unused
          /\ judgePrefix = Unused /\ judgeSeen = Unused
          /\ judgePolicy = Unused
  /\ Output!Init
  /\ IF part = "undo" THEN Undo!Init
     ELSE IF part = "artifacts" THEN Artifacts!Init
     ELSE IF part = "below" THEN Below!Init
     ELSE /\ ghostWork = Unused /\ ghostIndex = Unused /\ ghostHead = Unused
          /\ ghostIgnored = Unused /\ ghostGhosts = Unused
          /\ ghostUndo = Unused /\ ghostOutcome = Unused
          /\ ghostEdits = Unused
  /\ IF part = "session" THEN Session!Init
     ELSE IF part = "run" THEN Run!Init
     ELSE /\ findAsked = Unused /\ findCancelled = Unused
          /\ findShutdown = Unused /\ findLeft = Unused /\ findSince = Unused
          /\ findWalked = Unused /\ findQueue = Unused /\ findLast = Unused
          /\ findArmed = Unused /\ findComplete = Unused /\ findEnded = Unused
          /\ findEngine = Unused /\ findShown = Unused /\ findTold = Unused
          /\ findAnswer = Unused

MCNext ==
  \/ InPatches /\ \E q \in Patches : Apply(q)
  \/ InPatches /\ \E q \in Patches : StagePaths(q)
  \/ InPatches /\ \E q \in Patches : Revert(q)
  \/ InPatches /\ \E q \in Patches, back \in BOOLEAN : Preflight([patch |-> q, revert |-> back])
  \/ InPatches /\ \E q \in Patches, back \in BOOLEAN : NotRun([patch |-> q, revert |-> back])
  \/ InPatches /\ \E p \in Names, c \in Held : Write(p, c)
  \/ InPatches /\ \E p \in Names, c \in Held : Stage(p, c)
  \/ InRules /\ \E p \in Processes : Load(p)
  \/ InRules /\ \E p \in Processes : CreateDir(p)
  \/ InRules /\ \E p \in Processes : Lock(p)
  \/ InRules /\ \E p \in Processes : ReadAll(p)
  \/ InRules /\ \E p \in Processes : FoundThere(p)
  \/ InRules /\ \E p \in Processes : EndLine(p)
  \/ InRules /\ \E p \in Processes : WriteLine(p)
  \/ InRules /\ \E p \in Processes : AddToPolicy(p)
  \/ InRules /\ \E p \in Processes : Fails(p)
  \/ InRules /\ \E p \in Processes : Exit(p)
  \/ InRules /\ \E p \in Processes, x \in Approvable : Approve(p, x)
  \/ InForetold /\ Foretold!Next
  \/ InJudging /\ Judging!PolicyNext
  \/ InOutput /\ \E p \in {1, 2} : Output!Checking(p)
  \/ InOutput /\ \E p \in {1, 2} : Output!AppliedCleanly(p)
  \/ InOutput /\ \E p \in {1, 2} : Output!Conflicts(p)
  \/ InOutput /\ \E p \in {1, 2} : Output!Hint(p)
  \/ InOutput /\ \E p \in {1, 2} : Output!Skips(p)
  \/ InOutput /\ Output!ThreeWayFailed
  \/ InUndo /\ Undo!Create
  \/ InUndo /\ \E i \in DOMAIN ghostGhosts : Undo!RestoreBegins(i)
  \/ InUndo /\ Undo!GitRestore
  \/ InUndo /\ \E p \in {<<"a">>, srcB} : Undo!RemoveNew(p)
  \/ InUndo /\ Undo!RestoreEnds
  \/ InUndo /\ \E p \in {<<"a">>, srcB}, c \in {"x", "y"} : Undo!Write(p, c)
  \/ InUndo /\ \E p \in {<<"a">>, srcB} : Undo!Delete(p)
  \/ InUndo /\ \E p \in {<<"a">>, srcB} : Undo!Stage(p)
  \/ InUndo /\ Undo!Commit
  \/ InArtifacts /\ Artifacts!Create
  \/ InArtifacts /\ \E i \in DOMAIN ghostGhosts : Artifacts!RestoreBegins(i)
  \/ InArtifacts /\ Artifacts!GitRestore
  \/ InArtifacts /\ \E p \in {<<"a">>, built, lib} : Artifacts!RemoveNew(p)
  \/ InArtifacts /\ Artifacts!RemoveFails
  \/ InArtifacts /\ Artifacts!RestoreEnds
  \/ InArtifacts /\ \E p \in {<<"a">>, built, lib}, c \in {"x", "big"} : Artifacts!Write(p, c)
  \/ InArtifacts /\ \E p \in {<<"a">>, built, lib} : Artifacts!Delete(p)
  \/ InArtifacts /\ \E p \in {<<"a">>, built} : Artifacts!Unstage(p)
  \/ InArtifacts /\ \E p \in {<<"a">>, built, lib} : Artifacts!IgnoreRule(p)
  \/ InBelow /\ Below!Next
  \/ InSession /\ Session!UpdateQuery
  \/ InSession /\ Session!Cancel
  \/ InSession /\ Session!Drop
  \/ InSession /\ \E f \in {"f", "g"} : Session!Visit("w", f)
  \/ InSession /\ Session!WalkEnds
  \/ InSession /\ Session!EngineNotifies
  \/ InSession /\ Session!TakeSignal
  \/ InSession /\ Session!Tick(TRUE)
  \/ InSession /\ Session!Tick(FALSE)
  \/ InSession /\ Session!TimeOut
  \/ InRun /\ Run!Next

allVars == <<part, vars, policyVars, foreVars, judgeVars, outVars, ghostVars,
    findVars>>
MCSpec == MCInit /\ [][MCNext]_allVars

Users == Permutations(Processes)

-----------------------------------------------------------------------------
(* Properties, beside those of GitApply and ExecPolicy.                      *)

\* A preflight foretells how a patch ends on files that are as the index has them,
\* and the groups it reports are disjoint, with each path where its last line puts
\* it.
PatchesForetold ==
  /\ part = "patches" => TypeOK
  /\ part = "foretold" => Foretold!TypeOK /\ Foretold!PreflightForetells
  /\ part = "output" => Output!TypeOK /\ Output!EachInOneGroup /\ Output!LastLineCounts

\* Processes that share a file hold no lock they do not use, and the rules each holds
\* decide as those it would load, whoever else appends and whichever approvals fail;
\* examples hold, and of several commands the strictest counts.
RulesHold ==
  /\ part = "rules" => LockIsGivenBack /\ MemoryIsFile
  /\ part = "judging" => /\ Judging!MemoryIsFile /\ Judging!ExamplesMatch
                         /\ Judging!EachCommandCounts

\* Undoing to a ghost commit gives back what it was made of and removes what is
\* new, but leaves artifacts, ignored files and what is outside of its scope.
SnapshotsUndo ==
  /\ part = "undo" => Undo!TypeOK /\ Undo!WasRestored
  /\ part = "artifacts" => Artifacts!NewRemoved /\ Artifacts!ArtifactsKept
  /\ part = "below" => Below!WasRestored /\ Below!NewRemoved /\ Below!OutsideUntouched

\* What a search returns or calls complete are all files that match, if it was not
\* cancelled.
SearchesFindAll ==
  /\ [](/\ part = "session" => Session!TypeOK
        /\ part = "run" => Run!RunReturnsAll)
  /\ [][part = "session" /\ findTold' # findTold /\ ~findEnded'
          => findShown' = Session!Result(findLast, {"f", "g"})]_findVars
=============================================================================
