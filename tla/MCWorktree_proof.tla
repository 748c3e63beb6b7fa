-------------------------- MODULE MCWorktree_proof --------------------------
(***************************************************************************)
(* Proofs about the composition MCWorktree: that what Worktree_proof shows *)
(* of each component holds of the behaviours in which it is the one that   *)
(* steps, for every value of the constants.                                *)
(***************************************************************************)
EXTENDS MCWorktree, Worktree_proof

\* What is proved of GitApply, ExecPolicy, ApplyOutput and GhostCommits, about the
\* instances of MCWorktree: of its instances Foretold, Judging, Output and Undo.
K == INSTANCE Worktree_proof WITH
  Names <- {plain, tabbed}, Ignored <- {tabbed}, Patches <- TwoFiles,
  Contents <- {orig, new, local}, Blobs <- FALSE, MaxEdits <- 1,
  work <- foreWork, index <- foreIndex, call <- foreCall,
  applied <- foreApplied, checked <- foreChecked, last <- foreLast,
  edits <- foreEdits,
  Processes <- {p1}, Approvable <- {push, status}, BaseFiles <- SomeBases,
  base <- judgeBase, dir <- judgeDir, lines <- judgeLines,
  ended <- judgeEnded, lock <- judgeLock, pc <- judgePc,
  prefix <- judgePrefix, seen <- judgeSeen, policy <- judgePolicy,
  OutPaths <- {1, 2}, NoPath <- Unused, MaxLines <- 4, gitApplied <- outApplied,
  gitSkipped <- outSkipped, gitConflicted <- outConflicted, gitLastSeen <- outLastSeen,
  gitLines <- outLines,
  SnapPaths <- {<<"a">>, srcB}, SnapRepos <- {}, SnapScope <- <<>>, SnapForce <- {},
  SnapIgnoredNames <- {"dist", "node_modules"}, SnapContents <- {"x", "y"},
  SnapLarge <- {}, SnapDirLimit <- 3, SnapNoFile <- Unused,
  SnapEdits <- {"write", "delete", "stage", "commit"}, SnapMaxEdits <- 2,
  SnapMaxGhosts <- 2, snapWork <- ghostWork, snapIndex <- ghostIndex,
  snapHead <- ghostHead, snapIgnored <- ghostIgnored, snapGhosts <- ghostGhosts,
  snapUndo <- ghostUndo, snapOutcome <- ghostOutcome, snapEdits <- ghostEdits

\* Of GhostCommits, about its instances Artifacts and Below.
KA == INSTANCE Worktree_proof WITH
  SnapPaths <- {<<"a">>, built, lib}, SnapRepos <- {lib}, SnapScope <- <<>>, SnapForce <- {},
  SnapIgnoredNames <- {"dist", "node_modules"}, SnapContents <- {"x", "big"},
  SnapLarge <- {"big"}, SnapDirLimit <- 3, SnapNoFile <- Unused,
  SnapEdits <- {"write", "delete", "ignore", "unstage"}, SnapMaxEdits <- 2,
  SnapMaxGhosts <- 1, snapWork <- ghostWork, snapIndex <- ghostIndex,
  snapHead <- ghostHead, snapIgnored <- ghostIgnored, snapGhosts <- ghostGhosts,
  snapUndo <- ghostUndo, snapOutcome <- ghostOutcome, snapEdits <- ghostEdits
KB == INSTANCE Worktree_proof WITH
  SnapPaths <- {<<"a">>, srcB, srcC}, SnapRepos <- {}, SnapScope <- <<"src">>,
  SnapForce <- {srcB}, SnapIgnoredNames <- {"dist", "node_modules"},
  SnapContents <- {"x", "big"}, SnapLarge <- {"big"}, SnapDirLimit <- 2,
  SnapNoFile <- Unused, SnapEdits <- {"write", "delete"}, SnapMaxEdits <- 3,
  SnapMaxGhosts <- 1, snapWork <- ghostWork, snapIndex <- ghostIndex,
  snapHead <- ghostHead, snapIgnored <- ghostIgnored, snapGhosts <- ghostGhosts,
  snapUndo <- ghostUndo, snapOutcome <- ghostOutcome, snapEdits <- ghostEdits

-----------------------------------------------------------------------------
(* The constants of the instances are as their modules ask. *)

LEMMA KApply == K!ApplyConstants
  BY InstanceConstants DEF K!Held, Foretold!Held, K!Changes, Foretold!Changes

LEMMA KPolicy == K!PolicyConstants
  BY InstanceConstants DEF K!AllCalls, Judging!AllCalls, K!AllowCall, Judging!AllowCall,
    K!Decisions, Judging!Decisions

LEMMA KOutput == K!Out!ApplyConstants
  BY InstanceConstants DEF K!Out!ApplyConstants, Output!ApplyConstants

-----------------------------------------------------------------------------
(* A step is one of the component the behaviour is of. *)

LEMMA StepsOfParts ==
  ASSUME MCNext
  PROVE  \/ InPatches /\ Next
         \/ InRules /\ PolicyNext
         \/ InForetold /\ Foretold!Next
         \/ InJudging /\ Judging!PolicyNext
         \/ InOutput /\ Output!Next
         \/ InUndo /\ Undo!Next
         \/ InArtifacts /\ Artifacts!Next
         \/ InBelow /\ Below!Next
         \/ InSession \/ InRun
<1>1. /\ Undo!Files = {<<"a">>, srcB}
      /\ {<<"a">>, built} \subseteq Artifacts!Files
  BY DEF Undo!Files, Artifacts!Files, built, lib
<1>2. QED
  BY <1>1 DEF MCNext, Next, PolicyNext, Output!Next, Undo!Next, Artifacts!Next

\* The components of the other parts rest.
LEMMA OthersRest ==
  ASSUME [MCNext]_allVars
  PROVE  /\ part' = part
         /\ [Next]_vars /\ [PolicyNext]_policyVars /\ [Output!Next]_outVars
         /\ part = "foretold" => [Foretold!Next]_foreVars
         /\ part = "judging" => [Judging!PolicyNext]_judgeVars
         /\ part = "undo" => [Undo!Next]_ghostVars
         /\ part = "artifacts" => [Artifacts!Next]_ghostVars
         /\ part = "below" => [Below!Next]_ghostVars
<1>1. CASE InPatches /\ Next
  BY <1>1 DEF InPatches
<1>2. CASE InRules /\ PolicyNext
  BY <1>2 DEF InRules
<1>3. CASE InForetold /\ Foretold!Next
  BY <1>3 DEF InForetold
<1>4. CASE InJudging /\ Judging!PolicyNext
  BY <1>4 DEF InJudging
<1>5. CASE InOutput /\ Output!Next
  BY <1>5 DEF InOutput
<1>6. CASE \/ InUndo /\ Undo!Next
           \/ InArtifacts /\ Artifacts!Next
           \/ InBelow /\ Below!Next
           \/ InSession \/ InRun
  BY <1>6 DEF InUndo, InArtifacts, InBelow, InSession, InRun
<1>7. CASE UNCHANGED allVars
  BY <1>7 DEF allVars
<1>8. QED
  BY <1>1, <1>2, <1>3, <1>4, <1>5, <1>6, <1>7, StepsOfParts
-----------------------------------------------------------------------------
(* The instances are the ones of MCWorktree. *)

LEMMA SameForetold ==
  /\ Foretold!Init <=> K!Init
  /\ Foretold!TypeOK <=> K!TypeOK
  /\ Foretold!PreflightForetells <=> K!PreflightForetells
  /\ [Foretold!Next]_foreVars => [K!Next]_(K!vars)
<1>1. Foretold!Init <=> K!Init
  BY DEF Foretold!Init, K!Init, Foretold!Held, K!Held, Foretold!NoCall, K!NoCall,
    Foretold!NoEnd, K!NoEnd
<1>2. Foretold!TypeOK <=> K!TypeOK
  BY DEF Foretold!TypeOK, K!TypeOK, Foretold!Held, K!Held, Foretold!Requests, K!Requests,
    Foretold!Ends, K!Ends
<1>3. Foretold!PreflightForetells <=> K!PreflightForetells
  BY DEF Foretold!PreflightForetells, K!PreflightForetells
<1>4. /\ \A r, end, real : Foretold!Ended(r, end, real) <=> K!Ended(r, end, real)
      /\ Foretold!Idle <=> K!Idle
      /\ Foretold!NoCall = K!NoCall /\ Foretold!NoEnd = K!NoEnd /\ Foretold!Held = K!Held
      /\ \A r : Foretold!CheckArgs(r) <=> K!CheckArgs(r)
  BY DEF Foretold!Ended, K!Ended, Foretold!Idle, K!Idle, Foretold!NoCall, K!NoCall,
    Foretold!NoEnd, K!NoEnd, Foretold!Held, K!Held, Foretold!CheckArgs, K!CheckArgs,
    Foretold!Checks, K!Checks, Foretold!From, K!From
<1>5. \A r : Foretold!GitApplies(r) <=> K!GitApplies(r)
  <2> SUFFICES ASSUME NEW r PROVE Foretold!GitApplies(r) <=> K!GitApplies(r)
    OBVIOUS
  <2>1. \A p : Foretold!To(r, p) = K!To(r, p) /\ Foretold!From(r, p) = K!From(r, p)
    BY DEF Foretold!To, K!To, Foretold!From, K!From
  <2>2. \A p : Foretold!InIndex(p) <=> K!InIndex(p)
    BY DEF Foretold!InIndex, K!InIndex
  <2>3. Foretold!Restored(r) = K!Restored(r)
    BY DEF Foretold!Restored, K!Restored, Foretold!InIndex, K!InIndex
  <2>4. Foretold!Conflicts(r) = K!Conflicts(r)
    BY DEF Foretold!Conflicts, K!Conflicts, Foretold!Matches, K!Matches, Foretold!To, K!To,
      Foretold!From, K!From, Foretold!InIndex, K!InIndex, Foretold!Restored, K!Restored
  <2>5. Foretold!TakesAll(r) <=> K!TakesAll(r)
    BY <2>1, <2>2, <2>3 DEF Foretold!TakesAll, K!TakesAll, Foretold!Takes, K!Takes,
      Foretold!Matches, K!Matches, Foretold!Merges, K!Merges
  <2>6. \A tree, mark : Foretold!Patched(r, tree, mark) = K!Patched(r, tree, mark)
    BY DEF Foretold!Patched, K!Patched, Foretold!Conflicts, K!Conflicts, Foretold!Matches,
      K!Matches, Foretold!To, K!To, Foretold!From, K!From, Foretold!InIndex, K!InIndex,
      Foretold!Restored, K!Restored
  <2>7. QED
    BY <1>4, <2>3, <2>4, <2>5, <2>6 DEF Foretold!GitApplies, K!GitApplies, Foretold!Succeeds,
      K!Succeeds, Foretold!Refused, K!Refused
<1>6. \A q : Foretold!Staged(q) = K!Staged(q)
  <2>1. \A n : Foretold!FirstWord(n) = K!FirstWord(n)
    BY DEF Foretold!FirstWord, K!FirstWord, Foretold!Space, K!Space, Foretold!SelectInSeq,
      K!SelectInSeq, Foretold!Min, K!Min
  <2>2. \A n : Foretold!AfterWord(n) = K!AfterWord(n)
    BY <2>1 DEF Foretold!AfterWord, K!AfterWord
  <2>3. \A n : Foretold!Bytes(n) = K!Bytes(n)
    BY DEF Foretold!Bytes, K!Bytes, Foretold!FlattenSeq, K!FlattenSeq
  <2>4. \A n : Foretold!HeaderNames(n) = K!HeaderNames(n)
    BY <2>1, <2>2, <2>3 DEF Foretold!HeaderNames, K!HeaderNames, Foretold!Quoted, K!Quoted,
      Foretold!Unescape, K!Unescape, Foretold!Space, K!Space, Foretold!ToSet, K!ToSet
  <2>5. \A q : Foretold!PathsOf(q) = K!PathsOf(q)
    BY <2>4 DEF Foretold!PathsOf, K!PathsOf
  <2>6. QED
    BY <2>5 DEF Foretold!Staged, K!Staged, Foretold!Add, K!Add
<1>7. ASSUME NEW q
      PROVE  /\ Foretold!Apply(q) => K!Apply(q)
             /\ Foretold!Revert(q) => K!Revert(q)
             /\ Foretold!StagePaths(q) => K!StagePaths(q)
  BY <1>4, <1>5, <1>6 DEF Foretold!Apply, K!Apply, Foretold!Revert, K!Revert,
    Foretold!StagePaths, K!StagePaths
<1>8. ASSUME NEW r
      PROVE  /\ Foretold!Preflight(r) => K!Preflight(r)
             /\ Foretold!NotRun(r) => K!NotRun(r)
  BY <1>4 DEF Foretold!Preflight, K!Preflight, Foretold!NotRun, K!NotRun
<1>9. ASSUME NEW p, NEW c
      PROVE  /\ Foretold!Write(p, c) => K!Write(p, c)
             /\ Foretold!Stage(p, c) => K!Stage(p, c)
  BY <1>4 DEF Foretold!Write, K!Write, Foretold!Stage, K!Stage, Foretold!Edited, K!Edited,
    Foretold!Leaves, K!Leaves
<1>10. Foretold!Next => K!Next
  BY <1>4, <1>7, <1>8, <1>9 DEF Foretold!Next, K!Next
<1>11. QED
  BY <1>1, <1>2, <1>3, <1>10 DEF foreVars, K!vars

LEMMA SameJudging ==
  /\ Judging!PolicyInit <=> K!PolicyInit
  /\ Judging!MemoryIsFile <=> K!MemoryIsFile
  /\ Judging!ExamplesMatch <=> K!ExamplesMatch
  /\ Judging!EachCommandCounts <=> K!EachCommandCounts
  /\ [Judging!PolicyNext]_judgeVars => [K!PolicyNext]_(K!policyVars)
<1>1. Judging!PolicyInit <=> K!PolicyInit
  BY DEF Judging!PolicyInit, K!PolicyInit
<1>2. /\ Judging!Decisions = K!Decisions /\ Judging!LoadedCalls = K!LoadedCalls
      /\ Judging!file = K!file
      /\ \A x : Judging!AllowCall(x) = K!AllowCall(x)
      /\ \A c : Judging!RulesOf(c) = K!RulesOf(c)
      /\ \A p, step : Judging!Goto(p, step) <=> K!Goto(p, step)
      /\ \A p : Judging!Close(p) <=> K!Close(p)
  BY DEF Judging!Decisions, K!Decisions, Judging!LoadedCalls, K!LoadedCalls, Judging!file, K!file,
    Judging!AllowCall, K!AllowCall, Judging!RulesOf, K!RulesOf, Judging!Goto, K!Goto,
    Judging!Close, K!Close
<1>3. \A r, c : Judging!PrefixMatches(r, c) <=> K!PrefixMatches(r, c)
  BY DEF Judging!PrefixMatches, K!PrefixMatches
<1>4. \A rules, c : Judging!Matching(rules, c) = K!Matching(rules, c)
  BY DEF Judging!Matching, K!Matching, Judging!PrefixMatches, K!PrefixMatches
<1>5. \A d : Judging!Severity(d) = K!Severity(d)
  BY DEF Judging!Severity, K!Severity
<1>6. \A ds : Judging!Strictest(ds) = K!Strictest(ds)
  BY DEF Judging!Strictest, K!Strictest, Judging!Severity, K!Severity
<1>7. \A rules, c, h : /\ Judging!MatchesForCommand(rules, c, h) = K!MatchesForCommand(rules, c, h)
                       /\ Judging!Check(rules, c, h) = K!Check(rules, c, h)
  BY <1>4, <1>6 DEF Judging!MatchesForCommand, K!MatchesForCommand, Judging!Check, K!Check
<1>8. \A rules, cs, h : Judging!CheckMultiple(rules, cs, h) = K!CheckMultiple(rules, cs, h)
  BY <1>4, <1>6 DEF Judging!CheckMultiple, K!CheckMultiple, Judging!MatchesForCommand,
    K!MatchesForCommand
<1>9. Judging!MemoryIsFile <=> K!MemoryIsFile
  BY DEF Judging!MemoryIsFile, K!MemoryIsFile, Judging!LoadedCalls, K!LoadedCalls,
    Judging!RulesOf, K!RulesOf, Judging!Decisions, K!Decisions, Judging!Matching, K!Matching,
    Judging!PrefixMatches, K!PrefixMatches, Judging!Check, K!Check, Judging!Strictest, K!Strictest,
    Judging!MatchesForCommand, K!MatchesForCommand, Judging!Severity, K!Severity
<1>10. Judging!ExamplesMatch <=> K!ExamplesMatch
  BY <1>2, <1>5, <1>7 DEF Judging!ExamplesMatch, K!ExamplesMatch
<1>11. Judging!EachCommandCounts <=> K!EachCommandCounts
  BY <1>2, <1>6, <1>7, <1>8 DEF Judging!EachCommandCounts, K!EachCommandCounts
<1>12. /\ \A c : Judging!Evaluates(c) <=> K!Evaluates(c)
       /\ \A line : Judging!Parses(line) <=> K!Parses(line)
  BY <1>2, <1>3 DEF Judging!Evaluates, K!Evaluates, Judging!Parses, K!Parses,
    Judging!ExamplesHold, K!ExamplesHold
<1>13. \A contents, x : Judging!Has(contents, x) <=> K!Has(contents, x)
  BY <1>2 DEF Judging!Has, K!Has
<1>14. ASSUME NEW p, Judging!Load(p) PROVE K!Load(p)
  BY <1>2, <1>12, <1>14 DEF Judging!Load, K!Load, Judging!file, K!file
<1>15. ASSUME NEW p, NEW x, Judging!Approve(p, x) PROVE K!Approve(p, x)
  BY <1>2, <1>15 DEF Judging!Approve, K!Approve, Judging!file, K!file
<1>16. ASSUME NEW p
       PROVE  /\ Judging!CreateDir(p) => K!CreateDir(p)
              /\ Judging!Lock(p) => K!Lock(p)
              /\ Judging!ReadAll(p) => K!ReadAll(p)
  BY <1>2 DEF Judging!CreateDir, K!CreateDir, Judging!Lock, K!Lock, Judging!ReadAll, K!ReadAll,
    Judging!file, K!file
<1>17. ASSUME NEW p
       PROVE  /\ Judging!FoundThere(p) => K!FoundThere(p)
              /\ Judging!EndLine(p) => K!EndLine(p)
              /\ Judging!Fails(p) => K!Fails(p)
  BY <1>2, <1>13 DEF Judging!FoundThere, K!FoundThere, Judging!EndLine, K!EndLine,
    Judging!Fails, K!Fails, Judging!file, K!file
<1>18. ASSUME NEW p
       PROVE  /\ Judging!WriteLine(p) => K!WriteLine(p)
              /\ Judging!AddToPolicy(p) => K!AddToPolicy(p)
              /\ Judging!Exit(p) => K!Exit(p)
  BY <1>2 DEF Judging!WriteLine, K!WriteLine, Judging!AddToPolicy, K!AddToPolicy,
    Judging!Exit, K!Exit, Judging!file, K!file
<1>19. Judging!PolicyNext => K!PolicyNext
  BY <1>14, <1>15, <1>16, <1>17, <1>18 DEF Judging!PolicyNext, K!PolicyNext
<1>20. QED
  BY <1>1, <1>9, <1>10, <1>11, <1>19 DEF judgeVars, K!policyVars
LEMMA SameOutput ==
  /\ Output!Init <=> K!Out!Init
  /\ Output!TypeOK <=> K!Out!TypeOK
  /\ Output!EachInOneGroup <=> K!Out!EachInOneGroup
  /\ Output!LastLineCounts <=> K!Out!LastLineCounts
  /\ [Output!Next]_outVars => [K!Out!Next]_(K!Out!vars)
<1>1. /\ Output!Lines = K!Out!Lines /\ Output!Result = K!Out!Result
      /\ \A i : Output!PathOf(i) = K!Out!PathOf(i)
      /\ \A p : Output!SaysOf(p) = K!Out!SaysOf(p)
      /\ \A S : Output!Max(S) = K!Out!Max(S)
      /\ \A kind : Output!GroupOf(kind) = K!Out!GroupOf(kind)
  BY DEF Output!Lines, K!Out!Lines, Output!Kinds, K!Out!Kinds, Output!Result, K!Out!Result,
    Output!PathOf, K!Out!PathOf, Output!Named, K!Out!Named, Output!SaysOf, K!Out!SaysOf,
    Output!Max, K!Out!Max, Output!GroupOf, K!Out!GroupOf
<1>2. (Output!Init <=> K!Out!Init) /\ (Output!TypeOK <=> K!Out!TypeOK)
  BY <1>1 DEF Output!Init, K!Out!Init, Output!TypeOK, K!Out!TypeOK
<1>3. Output!EachInOneGroup <=> K!Out!EachInOneGroup
  BY <1>1 DEF Output!EachInOneGroup, K!Out!EachInOneGroup, Output!Cardinality, K!Out!Cardinality
<1>4. Output!LastLineCounts <=> K!Out!LastLineCounts
  BY <1>1 DEF Output!LastLineCounts, K!Out!LastLineCounts
<1>5. \A kind, p : Output!Read(kind, p) <=> K!Out!Read(kind, p)
  BY DEF Output!Read, K!Out!Read
<1>6. ASSUME NEW p
      PROVE  /\ Output!Checking(p) => K!Out!Checking(p)
             /\ Output!Hint(p) => K!Out!Hint(p)
             /\ Output!AppliedCleanly(p) => K!Out!AppliedCleanly(p)
             /\ Output!Conflicts(p) => K!Out!Conflicts(p)
             /\ Output!Skips(p) => K!Out!Skips(p)
  BY <1>5 DEF Output!Checking, K!Out!Checking, Output!Hint, K!Out!Hint, Output!AppliedCleanly,
    K!Out!AppliedCleanly, Output!Conflicts, K!Out!Conflicts, Output!Skips, K!Out!Skips,
    Output!Cleared, K!Out!Cleared, Output!Noted, K!Out!Noted, Output!Max, K!Out!Max
<1>7. Output!ThreeWayFailed => K!Out!ThreeWayFailed
  BY <1>5 DEF Output!ThreeWayFailed, K!Out!ThreeWayFailed
<1>8. Output!Next => K!Out!Next
  BY <1>6, <1>7 DEF Output!Next, K!Out!Next
<1>9. QED
  BY <1>2, <1>3, <1>4, <1>8 DEF outVars, K!Out!vars

-----------------------------------------------------------------------------
(* What holds of the composition. *)

\* The parts of PatchesForetold that a step keeps.
ForetoldInv ==
  /\ TypeOK /\ K!OutInv
  /\ part = "foretold" => K!TypeOK /\ K!ForeInv

\* Of every patch, contents and model value: a preflight foretells how a patch ends, and
\* what git prints is sorted into groups that are disjoint, each path where its last line
\* puts it (apply.rs:76-101, 345-600).
THEOREM PatchesAreForetold == MCSpec => []PatchesForetold
<1>1. MCInit => ForetoldInv
  <2> SUFFICES ASSUME MCInit PROVE ForetoldInv
    OBVIOUS
  <2>1. TypeOK /\ K!Out!Init
    BY InitTypeOK, SameOutput DEF MCInit
  <2>2. K!OutInv
    BY <2>1, K!InitOutInv, KApply, KPolicy, KOutput
  <2>3. ASSUME part = "foretold" PROVE K!TypeOK /\ K!ForeInv
    <3>1. K!Init
      BY <2>3, SameForetold DEF MCInit
    <3>2. QED
      BY <3>1, K!InitTypeOK, K!InitForeInv, KApply, KPolicy
  <2>4. QED
    BY <2>1, <2>2, <2>3 DEF ForetoldInv
<1>2. ForetoldInv /\ [MCNext]_allVars => ForetoldInv'
  <2> SUFFICES ASSUME ForetoldInv, [MCNext]_allVars PROVE ForetoldInv'
    OBVIOUS
  <2>1. TypeOK'
    BY OthersRest, NextTypeOK DEF ForetoldInv
  <2>2. (K!OutInv)'
    <3>1. K!OutInv /\ [K!Out!Next]_(K!Out!vars)
      BY OthersRest, SameOutput DEF ForetoldInv
    <3>2. QED
      BY <3>1, K!NextOutInv, KApply, KPolicy, KOutput
  <2>3. ASSUME part' = "foretold" PROVE (K!TypeOK)' /\ (K!ForeInv)'
    <3>1. K!TypeOK /\ K!ForeInv /\ [K!Next]_(K!vars)
      BY <2>3, OthersRest, SameForetold DEF ForetoldInv
    <3>2. QED
      BY <3>1, K!NextTypeOK, K!NextForeInv, KApply, KPolicy
  <2>4. QED
    BY <2>1, <2>2, <2>3 DEF ForetoldInv
<1>3. ForetoldInv => PatchesForetold
  <2> SUFFICES ASSUME ForetoldInv PROVE PatchesForetold
    OBVIOUS
  <2>1. K!Out!TypeOK /\ K!Out!EachInOneGroup /\ K!Out!LastLineCounts
    BY K!GroupsHold, KApply, KPolicy, KOutput DEF ForetoldInv, K!OutInv
  <2>2. part = "foretold" => K!TypeOK /\ K!PreflightForetells
    BY DEF ForetoldInv, K!ForeInv
  <2>3. QED
    BY <2>1, <2>2, SameForetold, SameOutput DEF ForetoldInv, PatchesForetold
<1>4. QED
  BY <1>1, <1>2, <1>3, PTL DEF MCSpec

\* The parts of RulesHold that a step keeps.
JudgedInv ==
  /\ RulesInv /\ HeldInv
  /\ part = "judging" => K!RulesInv /\ K!HeldInv

\* Of every set of calls, commands and lines, and of any number of processes that share the
\* last file: a lock is held by who appends only, a process judges as one that would load
\* the files again, examples hold, and of several commands each counts (policy.rs, amend.rs).
THEOREM RulesAlwaysHold == MCSpec => []RulesHold
<1>1. MCInit => JudgedInv
  <2> SUFFICES ASSUME MCInit PROVE JudgedInv
    OBVIOUS
  <2>1. RulesInv /\ HeldInv
    BY InitRulesInv, InitHeldInv DEF MCInit
  <2>2. ASSUME part = "judging" PROVE K!RulesInv /\ K!HeldInv
    <3>1. K!PolicyInit
      BY <2>2, SameJudging DEF MCInit
    <3>2. QED
      BY <3>1, K!InitRulesInv, K!InitHeldInv, KApply, KPolicy
  <2>3. QED
    BY <2>1, <2>2 DEF JudgedInv
<1>2. JudgedInv /\ [MCNext]_allVars => JudgedInv'
  <2> SUFFICES ASSUME JudgedInv, [MCNext]_allVars PROVE JudgedInv'
    OBVIOUS
  <2>1. RulesInv' /\ HeldInv'
    BY OthersRest, NextRulesInv, NextHeldInv DEF JudgedInv
  <2>2. ASSUME part' = "judging" PROVE (K!RulesInv)' /\ (K!HeldInv)'
    <3>1. K!RulesInv /\ K!HeldInv /\ [K!PolicyNext]_(K!policyVars)
      BY <2>2, OthersRest, SameJudging DEF JudgedInv
    <3>2. QED
      BY <3>1, K!NextRulesInv, K!NextHeldInv, KApply, KPolicy
  <2>3. QED
    BY <2>1, <2>2 DEF JudgedInv
<1>3. JudgedInv => RulesHold
  <2> SUFFICES ASSUME JudgedInv PROVE RulesHold
    OBVIOUS
  <2>1. LockIsGivenBack /\ MemoryIsFile
    BY HeldJudges DEF JudgedInv
  <2>2. ASSUME part = "judging"
        PROVE  K!MemoryIsFile /\ K!ExamplesMatch /\ K!EachCommandCounts
    BY <2>2, K!HeldJudges, KApply, KPolicy DEF JudgedInv
  <2>3. QED
    BY <2>1, <2>2, SameJudging DEF RulesHold
<1>4. QED
  BY <1>1, <1>2, <1>3, PTL DEF MCSpec

-----------------------------------------------------------------------------
(* Ghost commits. *)

LEMMA SameUndo ==
  /\ Undo!GhostConstants => K!Snap!GhostConstants
  /\ Undo!Init => K!Snap!Init
  /\ [Undo!Next]_ghostVars => [K!Snap!Next]_(K!Snap!vars)
  /\ K!Snap!TypeOK => Undo!TypeOK
  /\ K!Snap!WasRestored => Undo!WasRestored
  /\ K!Snap!NewRemoved => Undo!NewRemoved
  /\ K!Snap!ArtifactsKept => Undo!ArtifactsKept
  /\ K!Snap!OutsideUntouched => Undo!OutsideUntouched
<1>1. /\ Undo!Files = K!Snap!Files
      /\ Undo!Trees = K!Snap!Trees
      /\ Undo!InScope = K!Snap!InScope
      /\ Undo!Ghost = K!Snap!Ghost
      /\ Undo!NoUndo = K!Snap!NoUndo
      /\ Undo!RestoredPaths = K!Snap!RestoredPaths
      /\ Undo!Idle <=> K!Snap!Idle
      /\ \A p : Undo!IgnoredByName(p) <=> K!Snap!IgnoredByName(p)
      /\ \A p, dirs : Undo!Under(p, dirs) <=> K!Snap!Under(p, dirs)
      /\ \A tree, p : Undo!Restored(tree, p) = K!Snap!Restored(tree, p)
      /\ \A k : Undo!Edit(k) <=> K!Snap!Edit(k)
  BY DEF Undo!Files, K!Snap!Files, Undo!Trees, K!Snap!Trees, Undo!Empty, K!Snap!Empty,
    Undo!InScope, K!Snap!InScope, Undo!Ghost, K!Snap!Ghost, Undo!NoUndo, K!Snap!NoUndo,
    Undo!RestoredPaths, K!Snap!RestoredPaths, Undo!Idle, K!Snap!Idle, Undo!IgnoredByName,
    K!Snap!IgnoredByName, Undo!Under, K!Snap!Under, Undo!IsPrefix, K!Snap!IsPrefix,
    Undo!Restored, K!Snap!Restored, Undo!Edit, K!Snap!Edit
<1>2. \A tree : Undo!Untracked(tree) = K!Snap!Untracked(tree)
  BY <1>1 DEF Undo!Untracked, K!Snap!Untracked
<1>3. \A tree : Undo!LargeDirs(tree) = K!Snap!LargeDirs(tree)
  <2>1. /\ \A p : Undo!Front(p) = K!Snap!Front(p)
        /\ \A S : Undo!Cardinality(S) = K!Snap!Cardinality(S)
    BY DEF Undo!Front, K!Snap!Front, Undo!Cardinality, K!Snap!Cardinality
  <2>2. QED
    BY <1>1, <1>2, <2>1 DEF Undo!LargeDirs, K!Snap!LargeDirs
<1>4. Undo!Listed = K!Snap!Listed
  BY <1>1, <1>2, <1>3 DEF Undo!Listed, K!Snap!Listed
<1>5. /\ \A force : Undo!LargeFiles(force) = K!Snap!LargeFiles(force)
      /\ \A force : Undo!UntrackedFiles(force) = K!Snap!UntrackedFiles(force)
      /\ Undo!UntrackedDirs = K!Snap!UntrackedDirs
  BY <1>1, <1>4 DEF Undo!LargeFiles, K!Snap!LargeFiles, Undo!UntrackedFiles,
    K!Snap!UntrackedFiles, Undo!UntrackedDirs, K!Snap!UntrackedDirs
<1>6. /\ Undo!TrackedPaths = K!Snap!TrackedPaths
      /\ Undo!IndexPaths = K!Snap!IndexPaths
      /\ Undo!PreservedFiles = K!Snap!PreservedFiles
      /\ Undo!Removable = K!Snap!Removable
      /\ \A g, p : Undo!ShouldPreserve(g, p) <=> K!Snap!ShouldPreserve(g, p)
  BY <1>1, <1>5 DEF Undo!TrackedPaths, K!Snap!TrackedPaths, Undo!IndexPaths, K!Snap!IndexPaths,
    Undo!PreservedFiles, K!Snap!PreservedFiles, Undo!Removable, K!Snap!Removable,
    Undo!ShouldPreserve, K!Snap!ShouldPreserve
<1>7. Undo!Snapshot = K!Snap!Snapshot
  BY <1>3, <1>5, <1>6 DEF Undo!Snapshot, K!Snap!Snapshot
<1>8. Undo!Create => K!Snap!Create
  BY <1>1, <1>6, <1>7 DEF Undo!Create, K!Snap!Create, Undo!AddRefuses, K!Snap!AddRefuses,
    Undo!ForceAddRefuses, K!Snap!ForceAddRefuses
<1>9. /\ \A i : Undo!RestoreBegins(i) => K!Snap!RestoreBegins(i)
      /\ Undo!GitRestore => K!Snap!GitRestore
      /\ \A p : Undo!RemoveNew(p) => K!Snap!RemoveNew(p)
  BY <1>1, <1>6 DEF Undo!RestoreBegins, K!Snap!RestoreBegins, Undo!GitRestore, K!Snap!GitRestore,
    Undo!RemoveNew, K!Snap!RemoveNew
<1>10. /\ Undo!RemoveFails => K!Snap!RemoveFails
       /\ Undo!RestoreEnds => K!Snap!RestoreEnds
  BY <1>1 DEF Undo!RemoveFails, K!Snap!RemoveFails, Undo!RestoreEnds, K!Snap!RestoreEnds,
    Undo!RestoreDone, K!Snap!RestoreDone
<1>11. /\ \A p, c : Undo!Write(p, c) => K!Snap!Write(p, c)
       /\ \A p : /\ Undo!Delete(p) => K!Snap!Delete(p)
                 /\ Undo!Stage(p) => K!Snap!Stage(p)
                 /\ Undo!Unstage(p) => K!Snap!Unstage(p)
                 /\ Undo!IgnoreRule(p) => K!Snap!IgnoreRule(p)
       /\ Undo!Commit => K!Snap!Commit
  BY <1>1 DEF Undo!Write, K!Snap!Write, Undo!Delete, K!Snap!Delete, Undo!Stage, K!Snap!Stage,
    Undo!Unstage, K!Snap!Unstage, Undo!IgnoreRule, K!Snap!IgnoreRule, Undo!Commit, K!Snap!Commit
<1>12. Undo!Next => K!Snap!Next
  BY <1>1, <1>8, <1>9, <1>10, <1>11 DEF Undo!Next, K!Snap!Next
<1>13. Undo!Init => K!Snap!Init
  BY <1>1 DEF Undo!Init, K!Snap!Init
<1>14. Undo!GhostConstants => K!Snap!GhostConstants
  BY DEF Undo!GhostConstants, K!Snap!GhostConstants, Undo!ToSet, K!Snap!ToSet
<1>15. K!Snap!TypeOK => Undo!TypeOK
  BY <1>1 DEF Undo!TypeOK, K!Snap!TypeOK
<1>16. \A p : Undo!Artifact(p) <=> K!Snap!Artifact(p)
  BY <1>1, <1>3 DEF Undo!Artifact, K!Snap!Artifact
<1>17. /\ K!Snap!WasRestored => Undo!WasRestored
       /\ K!Snap!NewRemoved => Undo!NewRemoved
       /\ K!Snap!ArtifactsKept => Undo!ArtifactsKept
       /\ K!Snap!OutsideUntouched => Undo!OutsideUntouched
  BY <1>1, <1>16 DEF Undo!WasRestored, K!Snap!WasRestored, Undo!NewRemoved, K!Snap!NewRemoved,
    Undo!ArtifactsKept, K!Snap!ArtifactsKept, Undo!OutsideUntouched, K!Snap!OutsideUntouched,
    Undo!RestoreDone, K!Snap!RestoreDone
<1>18. QED
  BY <1>12, <1>13, <1>14, <1>15, <1>17 DEF ghostVars, K!Snap!vars

LEMMA SameArtifacts ==
  /\ Artifacts!GhostConstants => KA!Snap!GhostConstants
  /\ Artifacts!Init => KA!Snap!Init
  /\ [Artifacts!Next]_ghostVars => [KA!Snap!Next]_(KA!Snap!vars)
  /\ KA!Snap!TypeOK => Artifacts!TypeOK
  /\ KA!Snap!WasRestored => Artifacts!WasRestored
  /\ KA!Snap!NewRemoved => Artifacts!NewRemoved
  /\ KA!Snap!ArtifactsKept => Artifacts!ArtifactsKept
  /\ KA!Snap!OutsideUntouched => Artifacts!OutsideUntouched
<1>1. /\ Artifacts!Files = KA!Snap!Files
      /\ Artifacts!Trees = KA!Snap!Trees
      /\ Artifacts!InScope = KA!Snap!InScope
      /\ Artifacts!Ghost = KA!Snap!Ghost
      /\ Artifacts!NoUndo = KA!Snap!NoUndo
      /\ Artifacts!RestoredPaths = KA!Snap!RestoredPaths
      /\ Artifacts!Idle <=> KA!Snap!Idle
      /\ \A p : Artifacts!IgnoredByName(p) <=> KA!Snap!IgnoredByName(p)
      /\ \A p, dirs : Artifacts!Under(p, dirs) <=> KA!Snap!Under(p, dirs)
      /\ \A tree, p : Artifacts!Restored(tree, p) = KA!Snap!Restored(tree, p)
      /\ \A k : Artifacts!Edit(k) <=> KA!Snap!Edit(k)
  BY DEF Artifacts!Files, KA!Snap!Files, Artifacts!Trees, KA!Snap!Trees, Artifacts!Empty,
    KA!Snap!Empty, Artifacts!InScope, KA!Snap!InScope, Artifacts!Ghost, KA!Snap!Ghost,
    Artifacts!NoUndo, KA!Snap!NoUndo, Artifacts!RestoredPaths, KA!Snap!RestoredPaths,
    Artifacts!Idle, KA!Snap!Idle, Artifacts!IgnoredByName, KA!Snap!IgnoredByName,
    Artifacts!Under, KA!Snap!Under, Artifacts!IsPrefix, KA!Snap!IsPrefix, Artifacts!Restored,
    KA!Snap!Restored, Artifacts!Edit, KA!Snap!Edit
<1>2. \A tree : Artifacts!Untracked(tree) = KA!Snap!Untracked(tree)
  BY <1>1 DEF Artifacts!Untracked, KA!Snap!Untracked
<1>3. \A tree : Artifacts!LargeDirs(tree) = KA!Snap!LargeDirs(tree)
  <2>1. /\ \A p : Artifacts!Front(p) = KA!Snap!Front(p)
        /\ \A S : Artifacts!Cardinality(S) = KA!Snap!Cardinality(S)
    BY DEF Artifacts!Front, KA!Snap!Front, Artifacts!Cardinality, KA!Snap!Cardinality
  <2>2. QED
    BY <1>1, <1>2, <2>1 DEF Artifacts!LargeDirs, KA!Snap!LargeDirs
<1>4. Artifacts!Listed = KA!Snap!Listed
  BY <1>1, <1>2, <1>3 DEF Artifacts!Listed, KA!Snap!Listed
<1>5. /\ \A force : Artifacts!LargeFiles(force) = KA!Snap!LargeFiles(force)
      /\ \A force : Artifacts!UntrackedFiles(force) = KA!Snap!UntrackedFiles(force)
      /\ Artifacts!UntrackedDirs = KA!Snap!UntrackedDirs
  BY <1>1, <1>4 DEF Artifacts!LargeFiles, KA!Snap!LargeFiles, Artifacts!UntrackedFiles,
    KA!Snap!UntrackedFiles, Artifacts!UntrackedDirs, KA!Snap!UntrackedDirs
<1>6. /\ Artifacts!TrackedPaths = KA!Snap!TrackedPaths
      /\ Artifacts!IndexPaths = KA!Snap!IndexPaths
      /\ Artifacts!PreservedFiles = KA!Snap!PreservedFiles
      /\ Artifacts!Removable = KA!Snap!Removable
      /\ \A g, p : Artifacts!ShouldPreserve(g, p) <=> KA!Snap!ShouldPreserve(g, p)
  BY <1>1, <1>5 DEF Artifacts!TrackedPaths, KA!Snap!TrackedPaths, Artifacts!IndexPaths,
    KA!Snap!IndexPaths, Artifacts!PreservedFiles, KA!Snap!PreservedFiles, Artifacts!Removable,
    KA!Snap!Removable, Artifacts!ShouldPreserve, KA!Snap!ShouldPreserve
<1>7. Artifacts!Snapshot = KA!Snap!Snapshot
  BY <1>3, <1>5, <1>6 DEF Artifacts!Snapshot, KA!Snap!Snapshot
<1>8. Artifacts!Create => KA!Snap!Create
  BY <1>1, <1>6, <1>7 DEF Artifacts!Create, KA!Snap!Create, Artifacts!AddRefuses,
    KA!Snap!AddRefuses, Artifacts!ForceAddRefuses, KA!Snap!ForceAddRefuses
<1>9. /\ \A i : Artifacts!RestoreBegins(i) => KA!Snap!RestoreBegins(i)
      /\ Artifacts!GitRestore => KA!Snap!GitRestore
      /\ \A p : Artifacts!RemoveNew(p) => KA!Snap!RemoveNew(p)
  BY <1>1, <1>6 DEF Artifacts!RestoreBegins, KA!Snap!RestoreBegins, Artifacts!GitRestore,
    KA!Snap!GitRestore, Artifacts!RemoveNew, KA!Snap!RemoveNew
<1>10. /\ Artifacts!RemoveFails => KA!Snap!RemoveFails
       /\ Artifacts!RestoreEnds => KA!Snap!RestoreEnds
  BY <1>1 DEF Artifacts!RemoveFails, KA!Snap!RemoveFails, Artifacts!RestoreEnds,
    KA!Snap!RestoreEnds, Artifacts!RestoreDone, KA!Snap!RestoreDone
<1>11. /\ \A p, c : Artifacts!Write(p, c) => KA!Snap!Write(p, c)
       /\ \A p : /\ Artifacts!Delete(p) => KA!Snap!Delete(p)
                 /\ Artifacts!Stage(p) => KA!Snap!Stage(p)
                 /\ Artifacts!Unstage(p) => KA!Snap!Unstage(p)
                 /\ Artifacts!IgnoreRule(p) => KA!Snap!IgnoreRule(p)
       /\ Artifacts!Commit => KA!Snap!Commit
  BY <1>1 DEF Artifacts!Write, KA!Snap!Write, Artifacts!Delete, KA!Snap!Delete, Artifacts!Stage,
    KA!Snap!Stage, Artifacts!Unstage, KA!Snap!Unstage, Artifacts!IgnoreRule, KA!Snap!IgnoreRule,
    Artifacts!Commit, KA!Snap!Commit
<1>12. Artifacts!Next => KA!Snap!Next
  BY <1>1, <1>8, <1>9, <1>10, <1>11 DEF Artifacts!Next, KA!Snap!Next
<1>13. Artifacts!Init => KA!Snap!Init
  BY <1>1 DEF Artifacts!Init, KA!Snap!Init
<1>14. Artifacts!GhostConstants => KA!Snap!GhostConstants
  BY DEF Artifacts!GhostConstants, KA!Snap!GhostConstants, Artifacts!ToSet, KA!Snap!ToSet
<1>15. KA!Snap!TypeOK => Artifacts!TypeOK
  BY <1>1 DEF Artifacts!TypeOK, KA!Snap!TypeOK
<1>16. \A p : Artifacts!Artifact(p) <=> KA!Snap!Artifact(p)
  BY <1>1, <1>3 DEF Artifacts!Artifact, KA!Snap!Artifact
<1>17. /\ KA!Snap!WasRestored => Artifacts!WasRestored
       /\ KA!Snap!NewRemoved => Artifacts!NewRemoved
       /\ KA!Snap!ArtifactsKept => Artifacts!ArtifactsKept
       /\ KA!Snap!OutsideUntouched => Artifacts!OutsideUntouched
  BY <1>1, <1>16 DEF Artifacts!WasRestored, KA!Snap!WasRestored, Artifacts!NewRemoved,
    KA!Snap!NewRemoved, Artifacts!ArtifactsKept, KA!Snap!ArtifactsKept,
    Artifacts!OutsideUntouched, KA!Snap!OutsideUntouched, Artifacts!RestoreDone,
    KA!Snap!RestoreDone
<1>18. QED
  BY <1>12, <1>13, <1>14, <1>15, <1>17 DEF ghostVars, KA!Snap!vars

LEMMA SameBelow ==
  /\ Below!GhostConstants => KB!Snap!GhostConstants
  /\ Below!Init => KB!Snap!Init
  /\ [Below!Next]_ghostVars => [KB!Snap!Next]_(KB!Snap!vars)
  /\ KB!Snap!TypeOK => Below!TypeOK
  /\ KB!Snap!WasRestored => Below!WasRestored
  /\ KB!Snap!NewRemoved => Below!NewRemoved
  /\ KB!Snap!ArtifactsKept => Below!ArtifactsKept
  /\ KB!Snap!OutsideUntouched => Below!OutsideUntouched
<1>1. /\ Below!Files = KB!Snap!Files
      /\ Below!Trees = KB!Snap!Trees
      /\ Below!InScope = KB!Snap!InScope
      /\ Below!Ghost = KB!Snap!Ghost
      /\ Below!NoUndo = KB!Snap!NoUndo
      /\ Below!RestoredPaths = KB!Snap!RestoredPaths
      /\ Below!Idle <=> KB!Snap!Idle
      /\ \A p : Below!IgnoredByName(p) <=> KB!Snap!IgnoredByName(p)
      /\ \A p, dirs : Below!Under(p, dirs) <=> KB!Snap!Under(p, dirs)
      /\ \A tree, p : Below!Restored(tree, p) = KB!Snap!Restored(tree, p)
      /\ \A k : Below!Edit(k) <=> KB!Snap!Edit(k)
  BY DEF Below!Files, KB!Snap!Files, Below!Trees, KB!Snap!Trees, Below!Empty, KB!Snap!Empty,
    Below!InScope, KB!Snap!InScope, Below!Ghost, KB!Snap!Ghost, Below!NoUndo, KB!Snap!NoUndo,
    Below!RestoredPaths, KB!Snap!RestoredPaths, Below!Idle, KB!Snap!Idle, Below!IgnoredByName,
    KB!Snap!IgnoredByName, Below!Under, KB!Snap!Under, Below!IsPrefix, KB!Snap!IsPrefix,
    Below!Restored, KB!Snap!Restored, Below!Edit, KB!Snap!Edit
<1>2. \A tree : Below!Untracked(tree) = KB!Snap!Untracked(tree)
  BY <1>1 DEF Below!Untracked, KB!Snap!Untracked
<1>3. \A tree : Below!LargeDirs(tree) = KB!Snap!LargeDirs(tree)
  <2>1. /\ \A p : Below!Front(p) = KB!Snap!Front(p)
        /\ \A S : Below!Cardinality(S) = KB!Snap!Cardinality(S)
    BY DEF Below!Front, KB!Snap!Front, Below!Cardinality, KB!Snap!Cardinality
  <2>2. QED
    BY <1>1, <1>2, <2>1 DEF Below!LargeDirs, KB!Snap!LargeDirs
<1>4. Below!Listed = KB!Snap!Listed
  BY <1>1, <1>2, <1>3 DEF Below!Listed, KB!Snap!Listed
<1>5. /\ \A force : Below!LargeFiles(force) = KB!Snap!LargeFiles(force)
      /\ \A force : Below!UntrackedFiles(force) = KB!Snap!UntrackedFiles(force)
      /\ Below!UntrackedDirs = KB!Snap!UntrackedDirs
  BY <1>1, <1>4 DEF Below!LargeFiles, KB!Snap!LargeFiles, Below!UntrackedFiles,
    KB!Snap!UntrackedFiles, Below!UntrackedDirs, KB!Snap!UntrackedDirs
<1>6. /\ Below!TrackedPaths = KB!Snap!TrackedPaths
      /\ Below!IndexPaths = KB!Snap!IndexPaths
      /\ Below!PreservedFiles = KB!Snap!PreservedFiles
      /\ Below!Removable = KB!Snap!Removable
      /\ \A g, p : Below!ShouldPreserve(g, p) <=> KB!Snap!ShouldPreserve(g, p)
  BY <1>1, <1>5 DEF Below!TrackedPaths, KB!Snap!TrackedPaths, Below!IndexPaths,
    KB!Snap!IndexPaths, Below!PreservedFiles, KB!Snap!PreservedFiles, Below!Removable,
    KB!Snap!Removable, Below!ShouldPreserve, KB!Snap!ShouldPreserve
<1>7. Below!Snapshot = KB!Snap!Snapshot
  BY <1>3, <1>5, <1>6 DEF Below!Snapshot, KB!Snap!Snapshot
<1>8. Below!Create => KB!Snap!Create
  BY <1>1, <1>6, <1>7 DEF Below!Create, KB!Snap!Create, Below!AddRefuses, KB!Snap!AddRefuses,
    Below!ForceAddRefuses, KB!Snap!ForceAddRefuses
<1>9. /\ \A i : Below!RestoreBegins(i) => KB!Snap!RestoreBegins(i)
      /\ Below!GitRestore => KB!Snap!GitRestore
      /\ \A p : Below!RemoveNew(p) => KB!Snap!RemoveNew(p)
  BY <1>1, <1>6 DEF Below!RestoreBegins, KB!Snap!RestoreBegins, Below!GitRestore,
    KB!Snap!GitRestore, Below!RemoveNew, KB!Snap!RemoveNew
<1>10. /\ Below!RemoveFails => KB!Snap!RemoveFails
       /\ Below!RestoreEnds => KB!Snap!RestoreEnds
  BY <1>1 DEF Below!RemoveFails, KB!Snap!RemoveFails, Below!RestoreEnds, KB!Snap!RestoreEnds,
    Below!RestoreDone, KB!Snap!RestoreDone
<1>11. /\ \A p, c : Below!Write(p, c) => KB!Snap!Write(p, c)
       /\ \A p : /\ Below!Delete(p) => KB!Snap!Delete(p)
                 /\ Below!Stage(p) => KB!Snap!Stage(p)
                 /\ Below!Unstage(p) => KB!Snap!Unstage(p)
                 /\ Below!IgnoreRule(p) => KB!Snap!IgnoreRule(p)
       /\ Below!Commit => KB!Snap!Commit
  BY <1>1 DEF Below!Write, KB!Snap!Write, Below!Delete, KB!Snap!Delete, Below!Stage,
    KB!Snap!Stage, Below!Unstage, KB!Snap!Unstage, Below!IgnoreRule, KB!Snap!IgnoreRule,
    Below!Commit, KB!Snap!Commit
<1>12. Below!Next => KB!Snap!Next
  BY <1>1, <1>8, <1>9, <1>10, <1>11 DEF Below!Next, KB!Snap!Next
<1>13. Below!Init => KB!Snap!Init
  BY <1>1 DEF Below!Init, KB!Snap!Init
<1>14. Below!GhostConstants => KB!Snap!GhostConstants
  BY DEF Below!GhostConstants, KB!Snap!GhostConstants, Below!ToSet, KB!Snap!ToSet
<1>15. KB!Snap!TypeOK => Below!TypeOK
  BY <1>1 DEF Below!TypeOK, KB!Snap!TypeOK
<1>16. \A p : Below!Artifact(p) <=> KB!Snap!Artifact(p)
  BY <1>1, <1>3 DEF Below!Artifact, KB!Snap!Artifact
<1>17. /\ KB!Snap!WasRestored => Below!WasRestored
       /\ KB!Snap!NewRemoved => Below!NewRemoved
       /\ KB!Snap!ArtifactsKept => Below!ArtifactsKept
       /\ KB!Snap!OutsideUntouched => Below!OutsideUntouched
  BY <1>1, <1>16 DEF Below!WasRestored, KB!Snap!WasRestored, Below!NewRemoved,
    KB!Snap!NewRemoved, Below!ArtifactsKept, KB!Snap!ArtifactsKept, Below!OutsideUntouched,
    KB!Snap!OutsideUntouched, Below!RestoreDone, KB!Snap!RestoreDone
<1>18. QED
  BY <1>12, <1>13, <1>14, <1>15, <1>17 DEF ghostVars, KB!Snap!vars

\* What is kept of the restores of each instance.
RestoredInv ==
  /\ part = "undo" => K!UndoInv /\ K!QuietInv
  /\ part = "artifacts" => KA!UndoInv
  /\ part = "below" => KB!UndoInv /\ KB!QuietInv

LEMMA KRest == /\ KA!ApplyConstants /\ KA!PolicyConstants
               /\ KB!ApplyConstants /\ KB!PolicyConstants
  BY ApplyConstants, PolicyConstants DEF Held, KA!Held, KB!Held, Changes, KA!Changes,
    KB!Changes, AllCalls, KA!AllCalls, KB!AllCalls, AllowCall, KA!AllowCall, KB!AllowCall,
    Decisions, KA!Decisions, KB!Decisions

LEMMA KGhosts == K!Snap!GhostConstants /\ KA!Snap!GhostConstants /\ KB!Snap!GhostConstants
  BY InstanceConstants, SameUndo, SameArtifacts, SameBelow

\* Of the paths of Undo none is passed over; those of Below are never staged.
LEMMA KQuiet == K!QuietEdits /\ KB!QuietEdits
<1>1. K!NothingPassedOver
  <2>1. \A p \in {<<"a">>, srcB} : ~K!Snap!IgnoredByName(p)
    BY DEF K!Snap!IgnoredByName, srcB
  <2>2. IsFiniteSet({<<"a">>, srcB}) /\ Cardinality({<<"a">>, srcB}) < 3
    <3>1. IsFiniteSet({srcB}) /\ Cardinality({srcB}) = 1
      BY FS_Singleton
    <3>2. /\ IsFiniteSet({srcB} \cup {<<"a">>})
          /\ Cardinality({srcB} \cup {<<"a">>}) \in {1, 2}
      BY <3>1, FS_AddElement
    <3>3. {srcB} \cup {<<"a">>} = {<<"a">>, srcB}
      OBVIOUS
    <3>4. QED
      BY <3>2, <3>3
  <2>3. QED
    BY <2>1, <2>2 DEF K!NothingPassedOver, K!Cardinality, Cardinality, K!IsFiniteSet, IsFiniteSet
<1>2. QED
  BY <1>1 DEF K!QuietEdits, KB!QuietEdits

\* Of every snapshot that is restored, whatever was edited before: new files are removed,
\* what there was is given back, artifacts and what is out of scope stay
\* (ghost_commits.rs).
THEOREM SnapshotsAlwaysUndo == MCSpec => []SnapshotsUndo
<1>1. MCInit => RestoredInv
  <2> SUFFICES ASSUME MCInit PROVE RestoredInv
    OBVIOUS
  <2>1. /\ part = "undo" => K!Snap!Init
        /\ part = "artifacts" => KA!Snap!Init
        /\ part = "below" => KB!Snap!Init
    BY SameUndo, SameArtifacts, SameBelow DEF MCInit
  <2>2. QED
    BY <2>1, KGhosts, KQuiet, K!InitGhosts, KA!InitGhosts, KB!InitGhosts, K!InitQuietInv,
      KB!InitQuietInv, KApply, KPolicy, KRest DEF RestoredInv
<1>2. RestoredInv /\ [MCNext]_allVars => RestoredInv'
  <2> SUFFICES ASSUME RestoredInv, [MCNext]_allVars PROVE RestoredInv'
    OBVIOUS
  <2>1. ASSUME part' = "undo" PROVE (K!UndoInv)' /\ (K!QuietInv)'
    <3>1. K!UndoInv /\ K!QuietInv /\ [K!Snap!Next]_(K!Snap!vars)
      BY <2>1, OthersRest, SameUndo DEF RestoredInv
    <3>2. QED
      BY <3>1, KGhosts, KQuiet, K!NextUndoInv, K!NextQuietInv, KApply, KPolicy
  <2>2. ASSUME part' = "artifacts" PROVE (KA!UndoInv)'
    <3>1. KA!UndoInv /\ [KA!Snap!Next]_(KA!Snap!vars)
      BY <2>2, OthersRest, SameArtifacts DEF RestoredInv
    <3>2. QED
      BY <3>1, KGhosts, KA!NextUndoInv, KRest
  <2>3. ASSUME part' = "below" PROVE (KB!UndoInv)' /\ (KB!QuietInv)'
    <3>1. KB!UndoInv /\ KB!QuietInv /\ [KB!Snap!Next]_(KB!Snap!vars)
      BY <2>3, OthersRest, SameBelow DEF RestoredInv
    <3>2. QED
      BY <3>1, KGhosts, KQuiet, KB!NextUndoInv, KB!NextQuietInv, KRest
  <2>4. QED
    BY <2>1, <2>2, <2>3 DEF RestoredInv
<1>3. RestoredInv => SnapshotsUndo
  <2> SUFFICES ASSUME RestoredInv PROVE SnapshotsUndo
    OBVIOUS
  <2>1. ASSUME part = "undo" PROVE Undo!TypeOK /\ Undo!WasRestored
    <3>1. K!UndoInv /\ K!Snap!WasRestored
      BY <2>1, K!WasGivenBack, KApply, KPolicy DEF RestoredInv
    <3>2. QED
      BY <3>1, SameUndo DEF K!UndoInv, K!GhostTypeInv
  <2>2. ASSUME part = "artifacts" PROVE Artifacts!NewRemoved /\ Artifacts!ArtifactsKept
    BY <2>2, SameArtifacts, KA!NewGoes, KA!ArtifactsStay, KRest DEF RestoredInv
  <2>3. ASSUME part = "below"
        PROVE  Below!WasRestored /\ Below!NewRemoved /\ Below!OutsideUntouched
    BY <2>3, SameBelow, KB!WasGivenBack, KB!NewGoes, KB!OutsideKept, KRest
      DEF RestoredInv
  <2>4. QED
    BY <2>1, <2>2, <2>3 DEF SnapshotsUndo
<1>4. QED
  BY <1>1, <1>2, <1>3, PTL DEF MCSpec
=============================================================================
