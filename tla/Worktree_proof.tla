--------------------------- MODULE Worktree_proof ---------------------------
(***************************************************************************)
(* Proofs about GitApply: for patches of any number of files and any       *)
(* contents, a call touches the files of its patch alone, a patch that was *)
(* applied and left alone is taken back, if the names in its headers are   *)
(* read as they were written and no ignore rule matches its files, and a   *)
(* preflight foretells how the call ends.                                  *)
(*                                                                         *)
(* Proofs about ExecPolicy: for every set of processes, of prefixes and of *)
(* files, approvals append each rule once, leave a file that loads a file  *)
(* that loads, and a process decides as one that would load it again.      *)
(*                                                                         *)
(* Proofs about ApplyOutput: whatever git prints, and of any number of     *)
(* paths, each path is where the last line about it puts it.               *)
(*                                                                         *)
(* Proofs about GhostCommits: for every set of paths and of contents, the  *)
(* undo of a turn leaves alone what its snapshot passed over, and gives    *)
(* back what it held if git's index and its ignore rules are left alone.   *)
(***************************************************************************)
EXTENDS GitApply, ExecPolicy, FiniteSetTheorems, TLAPS

\* The names have no spaces and no characters beyond ASCII.
ReadRight == \A n \in Names : HeaderNames(n) = {n}

\* The files of the patch that can be taken back are as it left them, and those it has
\* removed are not another file in the index.
AppliedInv ==
  applied # NoPatch =>
    \A p \in DOMAIN applied :
      /\ work[p] = applied[p].to
      /\ applied[p].to = Absent => index[p] \in {Absent, applied[p].from}

\* While it is taken back, index and worktree agree on its files.
StagedInv ==
  call.patch # NoPatch /\ applied = call.patch =>
    \A p \in DOMAIN applied : work[p] # Absent => index[p] = work[p]

PatchInv == AppliedInv /\ StagedInv /\ RevertUndoes

-----------------------------------------------------------------------------
(* Patches and requests. *)

\* What a patch asks of one of its files.
LEMMA PatchType ==
  ASSUME NEW q \in Patches, NEW p \in DOMAIN q
  PROVE  /\ p \in Names /\ q # NoPatch
         /\ q[p].from \in Held /\ q[p].to \in Held /\ q[p].from # q[p].to
BY ApplyConstants DEF Changes

\* The values that stand for no contents differ from contents and from one another.
LEMMA Distinct ==
  /\ Absent \notin Contents /\ Marks \notin Contents /\ Unmerged \notin Contents
  /\ Absent # Unmerged
BY ApplyConstants

-----------------------------------------------------------------------------
(* Types. *)

LEMMA InitTypeOK == Init => TypeOK
  BY ApplyConstants DEF Init, TypeOK, NoEnd, NoCall, Requests, Ends, Held

LEMMA PatchedType ==
  ASSUME NEW q \in Patches, NEW back \in BOOLEAN, NEW S, NEW tree \in [Names -> S],
         NEW mark \in S, Held \subseteq S
  PROVE  Patched([patch |-> q, revert |-> back], tree, mark) \in [Names -> S]
<1> DEFINE r == [patch |-> q, revert |-> back]
<1>1. \A p \in DOMAIN r.patch : To(r, p) \in S
  BY PatchType DEF To
<1>2. QED
  BY <1>1 DEF Patched

\* What is kept of a call that has ended.
LEMMA EndedFields ==
  ASSUME NEW r, NEW end, NEW real \in BOOLEAN, Ended(r, end, real)
  PROVE  /\ last'.request = r /\ last'.end = end
         /\ last'.undoes = (real /\ r.revert /\ applied = r.patch)
         /\ last'.foretold = (real /\ checked = r)
  BY DEF Ended

LEMMA EndedType ==
  ASSUME NEW r \in Requests, NEW end \in Ends, NEW real \in BOOLEAN, Ended(r, end, real)
  PROVE  last' \in [request : Requests, end : Ends, undoes : BOOLEAN, foretold : BOOLEAN]
<1> DEFINE undoes == real /\ r.revert /\ applied = r.patch
           foretold == real /\ checked = r
<1>1. undoes \in BOOLEAN /\ foretold \in BOOLEAN
  OBVIOUS
<1>2. last' = [request |-> r, end |-> end, undoes |-> undoes, foretold |-> foretold]
  BY DEF Ended
<1> HIDE DEF undoes, foretold
<1>3. QED
  BY <1>1, <1>2

\* git apply ends a call in one of two ways.
LEMMA GitEnds ==
  ASSUME NEW r, GitApplies(r)
  PROVE  /\ call' = NoCall /\ applied' \in {r.patch, NoPatch} /\ edits' = edits
         /\ last'.request = r /\ (last'.undoes => r.revert /\ applied = r.patch)
<1>1. \E end \in Ends : Ended(r, end, TRUE)
  BY DEF GitApplies, Succeeds, Refused, Ends
<1>2. last'.request = r /\ last'.undoes = (TRUE /\ r.revert /\ applied = r.patch)
  BY <1>1, EndedFields
<1>3. QED
  BY <1>2 DEF GitApplies, Succeeds, Refused

LEMMA GitAppliesType ==
  ASSUME TypeOK, NEW q \in Patches, NEW back \in BOOLEAN,
         GitApplies([patch |-> q, revert |-> back])
  PROVE  TypeOK'
<1> DEFINE r == [patch |-> q, revert |-> back]
<1>1. r \in Requests
  BY DEF Requests
<1>2. call' = NoCall /\ checked' = NoCall /\ edits' = edits
  BY DEF GitApplies
<1>3. work' \in [Names -> Held \cup {Marks}]
  <2>1. CASE Succeeds(r)
    BY <2>1, PatchedType DEF Succeeds, TypeOK
  <2>2. CASE Refused(r)
    BY <2>2 DEF Refused, TypeOK, Restored, InIndex
  <2>3. QED
    BY <2>1, <2>2 DEF GitApplies
<1>4. index' \in [Names -> Held \cup {Marks, Unmerged}]
  <2>1. CASE Succeeds(r)
    BY <2>1, PatchedType DEF Succeeds, TypeOK
  <2>2. CASE Refused(r)
    BY <2>2 DEF Refused, TypeOK
  <2>3. QED
    BY <2>1, <2>2 DEF GitApplies
<1>5. last' \in [request : Requests, end : Ends, undoes : BOOLEAN, foretold : BOOLEAN]
  <2>1. \E end \in Ends : Ended(r, end, TRUE)
    BY DEF GitApplies, Succeeds, Refused, Ends
  <2>2. QED
    BY <1>1, <2>1, EndedType
<1>6. applied' \in Patches \cup {NoPatch}
  BY DEF GitApplies, Succeeds, Refused
<1>7. QED
  BY <1>2, <1>3, <1>4, <1>5, <1>6 DEF TypeOK, NoCall, Requests

LEMMA NextTypeOK == TypeOK /\ [Next]_vars => TypeOK'
<1> SUFFICES ASSUME TypeOK, [Next]_vars PROVE TypeOK'
  OBVIOUS
<1>1. ASSUME NEW q \in Patches, Apply(q) PROVE TypeOK'
  BY <1>1, GitAppliesType DEF Apply
<1>2. ASSUME NEW q \in Patches, StagePaths(q) PROVE TypeOK'
  BY <1>2, PatchType DEF StagePaths, TypeOK, Staged, Add, Requests
<1>3. ASSUME NEW q \in Patches, Revert(q) PROVE TypeOK'
  BY <1>3, GitAppliesType DEF Revert
<1>4. ASSUME NEW q \in Patches, NEW back \in BOOLEAN, Preflight([patch |-> q, revert |-> back])
      PROVE  TypeOK'
  BY <1>4 DEF Preflight, Ended, TypeOK, Requests, NoCall, Ends
<1>5. ASSUME NEW q \in Patches, NEW back \in BOOLEAN, NotRun([patch |-> q, revert |-> back])
      PROVE  TypeOK'
  BY <1>5 DEF NotRun, Ended, TypeOK, Requests, NoCall, Ends
<1>6. ASSUME NEW p \in Names, NEW c \in Held, Edited(p) PROVE /\ edits' \in 0..MaxEdits
        /\ last' \in [request : Requests, end : Ends, undoes : BOOLEAN, foretold : BOOLEAN]
        /\ checked' \in Requests
  <2>1. edits' \in 0..MaxEdits
    BY <1>6, ApplyConstants DEF Edited, TypeOK
  <2>2. last' = NoEnd /\ checked' \in {checked, NoCall}
    BY <1>6 DEF Edited
  <2>3. NoCall \in Requests /\ checked \in Requests
    BY DEF TypeOK, Requests, NoCall
  <2>4. NoEnd \in [request : Requests, end : Ends, undoes : BOOLEAN, foretold : BOOLEAN]
    BY <2>3 DEF NoEnd, Ends
  <2>5. QED
    BY <2>1, <2>2, <2>3, <2>4
<1>7. ASSUME NEW p \in Names, NEW c \in Held, Write(p, c) PROVE TypeOK'
  BY <1>6, <1>7 DEF Write, Leaves, TypeOK
<1>8. ASSUME NEW p \in Names, NEW c \in Held, Stage(p, c) PROVE TypeOK'
  BY <1>6, <1>8 DEF Stage, Leaves, TypeOK
<1>9. CASE UNCHANGED vars
  BY <1>9 DEF vars, TypeOK
<1>10. QED
  BY <1>1, <1>2, <1>3, <1>4, <1>5, <1>7, <1>8, <1>9 DEF Next

LEMMA Types == Spec => []TypeOK
  BY InitTypeOK, NextTypeOK, PTL DEF Spec

-----------------------------------------------------------------------------
(* A call touches the files of its patch alone. *)

LEMMA PathsAreItsFiles ==
  ASSUME ReadRight, NEW q \in Patches
  PROVE  PathsOf(q) = DOMAIN q
<1>1. \A n \in DOMAIN q : HeaderNames(n) = {n}
  BY PatchType DEF ReadRight
<1>2. QED
  BY <1>1 DEF PathsOf

\* The files of a request are all that git apply changes.
LEMMA GitTouches ==
  ASSUME TypeOK, NEW q \in Patches, NEW back \in BOOLEAN,
         GitApplies([patch |-> q, revert |-> back]), NEW p \in Names \ DOMAIN q
  PROVE  work'[p] = work[p] /\ index'[p] = index[p]
BY DEF TypeOK, GitApplies, Succeeds, Refused, Patched, Restored

\* No call changes a file or an index entry that its patch is not about, whatever patches,
\* files and ignore rules there are, if the names of the files are read right: the files
\* that a revert stages are taken from the headers (apply.rs:193-212, 319-342).
THEOREM CallsTouchTheirFiles == ASSUME ReadRight PROVE Spec => OnlyItsFiles
<1> DEFINE Touches ==
      edits' = edits =>
        LET q == IF Idle' THEN last'.request.patch ELSE call'.patch
        IN  \A p \in Names : work'[p] # work[p] \/ index'[p] # index[p] => p \in DOMAIN q
<1>1. TypeOK /\ [Next]_vars => [Touches]_vars
  <2> SUFFICES ASSUME TypeOK, Next PROVE Touches
    OBVIOUS
  <2>1. ASSUME NEW q \in Patches, Apply(q) PROVE Touches
    <3>1. Idle' /\ last'.request.patch = q
      BY <2>1, GitEnds DEF Apply, Idle
    <3>2. QED
      BY <2>1, <3>1, GitTouches DEF Apply
  <2>2. ASSUME NEW q \in Patches, Revert(q) PROVE Touches
    <3>1. Idle' /\ last'.request.patch = q
      BY <2>2, GitEnds DEF Revert, Idle
    <3>2. QED
      BY <2>2, <3>1, GitTouches DEF Revert
  <2>3. ASSUME NEW q \in Patches, StagePaths(q) PROVE Touches
    <3>1. ~Idle' /\ call'.patch = q
      BY <2>3, PatchType, ApplyConstants DEF StagePaths, Idle, NoCall
    <3>2. \A p \in Names : p \notin DOMAIN q => index'[p] = index[p]
      BY <2>3, PathsAreItsFiles DEF StagePaths, Staged, Add
    <3>3. QED
      BY <2>3, <3>1, <3>2 DEF StagePaths
  <2>4. ASSUME NEW r, Preflight(r) \/ NotRun(r) PROVE Touches
    BY <2>4 DEF Preflight, NotRun
  <2>5. ASSUME NEW p \in Names, NEW c \in Held, Write(p, c) \/ Stage(p, c) PROVE Touches
    BY <2>5, ApplyConstants DEF Write, Stage, Edited, TypeOK
  <2>6. QED
    BY <2>1, <2>2, <2>3, <2>4, <2>5 DEF Next
<1>2. QED
  BY <1>1, Types, PTL DEF Spec, OnlyItsFiles

-----------------------------------------------------------------------------
(* What was applied is taken back. *)

LEMMA InitPatchInv == Init => PatchInv
  BY DEF Init, PatchInv, AppliedInv, StagedInv, RevertUndoes, NoEnd, NoCall

\* After git apply has taken a patch, its files are as it left them.
LEMMA ApplyStep ==
  ASSUME TypeOK, NEW q \in Patches, Apply(q)
  PROVE  PatchInv'
<1> DEFINE r == [patch |-> q, revert |-> FALSE]
<1>1. call' = NoCall /\ ~last'.undoes
  <2>1. GitApplies(r) /\ ~r.revert
    BY DEF Apply
  <2>2. QED
    BY <2>1, GitEnds
<1>2. ASSUME applied' # NoPatch, NEW p \in DOMAIN applied'
      PROVE  work'[p] = applied'[p].to /\ index'[p] = applied'[p].to
  <2>1. applied' = q /\ Succeeds(r) /\ Conflicts(r) = {} /\ p \in Names
    BY <1>2, PatchType DEF Apply, GitApplies, Succeeds, Refused
  <2>2. QED
    BY <1>2, <2>1 DEF Succeeds, Patched, To
<1>3. QED
  BY <1>1, <1>2 DEF PatchInv, AppliedInv, StagedInv, RevertUndoes, NoCall

\* The revert of a patch whose files were left alone takes all of them, without conflict.
LEMMA RevertTakes ==
  ASSUME TypeOK, PatchInv, NEW q \in Patches, call = [patch |-> q, revert |-> TRUE], applied = q
  PROVE  TakesAll(call) /\ Conflicts(call) = {}
<1>1. ASSUME NEW p \in DOMAIN q
      PROVE  Takes(call, p) /\ (Matches(call, p) => index[p] \in {From(call, p), To(call, p)})
  <2>1. /\ p \in Names /\ q # NoPatch /\ q[p].from \in Held /\ q[p].to \in Held
        /\ q[p].from # q[p].to
    BY PatchType
  <2>2. /\ call.patch = q /\ From(call, p) = q[p].to /\ To(call, p) = q[p].from
    BY DEF From, To
  <2>3. work[p] = q[p].to
    BY <2>1 DEF PatchInv, AppliedInv
  <2>4. CASE q[p].to # Absent
    <3>1. index[p] = q[p].to
      BY <2>1, <2>2, <2>3, <2>4 DEF PatchInv, StagedInv
    <3>2. InIndex(p)
      BY <2>1, <2>4, <3>1, Distinct DEF InIndex, Held
    <3>3. Restored(call)[p] = work[p]
      BY <2>1, <2>3, <2>4 DEF Restored
    <3>4. QED
      BY <2>2, <2>3, <3>1, <3>2, <3>3 DEF Takes, Matches
  <2>5. CASE q[p].to = Absent
    <3>1. index[p] \in {Absent, q[p].from}
      BY <2>1, <2>5 DEF PatchInv, AppliedInv
    <3>2. CASE index[p] = Absent
      BY <2>2, <2>3, <2>5, <3>2 DEF Takes, Matches, InIndex
    <3>3. CASE index[p] = q[p].from
      <4>1. InIndex(p)
        BY <2>1, <2>5, <3>3, Distinct DEF InIndex, Held
      <4>2. Restored(call)[p] = index[p]
        BY <2>1, <2>2, <2>3, <2>5, <4>1 DEF Restored
      <4>3. QED
        BY <2>2, <2>5, <3>3, <4>1, <4>2 DEF Takes, Matches, Merges
    <3>4. QED
      BY <3>1, <3>2, <3>3
  <2>6. QED
    BY <2>4, <2>5
<1>2. QED
  BY <1>1 DEF TakesAll, Conflicts

LEMMA RevertStep ==
  ASSUME TypeOK, PatchInv, NEW q \in Patches, Revert(q)
  PROVE  PatchInv'
<1>1. call = [patch |-> q, revert |-> TRUE] /\ call' = NoCall /\ applied' = NoPatch
  BY DEF Revert, GitApplies, Succeeds, Refused
<1>2. ASSUME last'.undoes
      PROVE  last'.end = "ok" /\ \A p \in DOMAIN last'.request.patch :
                                    work'[p] = last'.request.patch[p].from
  <2>1. applied = q /\ last'.request = call
    <3>1. GitApplies(call) /\ call.patch = q
      BY <1>1 DEF Revert
    <3>2. QED
      BY <1>2, <3>1, GitEnds
  <2>2. TakesAll(call) /\ Conflicts(call) = {}
    BY <1>1, <2>1, RevertTakes
  <2>3. Succeeds(call)
    BY <2>2 DEF Revert, GitApplies, Refused
  <2>4. last'.end = "ok"
    BY <2>2, <2>3 DEF Succeeds, Ended
  <2>5. ASSUME NEW p \in DOMAIN q PROVE work'[p] = q[p].from
    BY <1>1, <2>2, <2>3, <2>5, PatchType DEF Succeeds, Patched, To
  <2>6. QED
    BY <1>1, <2>1, <2>4, <2>5
<1>3. QED
  BY <1>1, <1>2 DEF PatchInv, AppliedInv, StagedInv, RevertUndoes, NoCall

\* Staging the files that are there keeps what is known of those that are not.
LEMMA StagePathsStep ==
  ASSUME ReadRight, Ignored = {}, TypeOK, PatchInv, NEW q \in Patches, StagePaths(q)
  PROVE  PatchInv'
<1>1. /\ work' = work /\ applied' = applied /\ last' = last
      /\ call' = [patch |-> q, revert |-> TRUE]
  BY DEF StagePaths
<1>2. \A p \in Names : index'[p] = IF p \in DOMAIN q /\ work[p] # Absent THEN work[p] ELSE index[p]
  BY PathsAreItsFiles DEF StagePaths, Staged, Add
<1>3. AppliedInv'
  <2> SUFFICES ASSUME applied # NoPatch, NEW p \in DOMAIN applied, applied[p].to = Absent
               PROVE  index'[p] \in {Absent, applied[p].from}
    BY <1>1 DEF PatchInv, AppliedInv
  <2>1. p \in Names /\ work[p] = Absent
    BY PatchType DEF TypeOK, PatchInv, AppliedInv
  <2>2. QED
    BY <1>2, <2>1 DEF PatchInv, AppliedInv
<1>4. StagedInv'
  BY <1>1, <1>2, PatchType DEF StagedInv
<1>5. RevertUndoes'
  BY <1>1 DEF PatchInv, RevertUndoes
<1>6. QED
  BY <1>3, <1>4, <1>5 DEF PatchInv

\* The user writes a file: the patch it is of, if it was applied, is let go.
LEMMA WriteStep ==
  ASSUME TypeOK, PatchInv, NEW p \in Names, NEW c \in Held, Write(p, c)
  PROVE  PatchInv'
<1>1. /\ index' = index /\ call' = call /\ last' = NoEnd
      /\ \A n \in Names \ {p} : work'[n] = work[n]
  BY DEF Write, Edited, TypeOK
<1>2. CASE applied' = NoPatch
  BY <1>1, <1>2 DEF PatchInv, AppliedInv, StagedInv, RevertUndoes, NoEnd
<1>3. CASE applied' # NoPatch
  <2>1. applied' = applied /\ p \notin DOMAIN applied /\ applied \in Patches
    BY <1>3 DEF Write, Leaves, TypeOK
  <2>2. \A n \in DOMAIN applied : work'[n] = work[n]
    BY <1>1, <2>1, PatchType
  <2>3. QED
    BY <1>1, <1>3, <2>1, <2>2 DEF PatchInv, AppliedInv, StagedInv, RevertUndoes, NoEnd
<1>4. QED
  BY <1>2, <1>3

\* The user changes an index entry: of the applied patch, only while nothing stages it.
LEMMA StageStep ==
  ASSUME TypeOK, PatchInv, NEW p \in Names, NEW c \in Held, Stage(p, c)
  PROVE  PatchInv'
<1>1. /\ work' = work /\ call' = call /\ last' = NoEnd
      /\ index'[p] = c /\ \A n \in Names \ {p} : index'[n] = index[n]
  BY DEF Stage, Edited, TypeOK
<1>2. CASE applied' = NoPatch
  BY <1>1, <1>2 DEF PatchInv, AppliedInv, StagedInv, RevertUndoes, NoEnd
<1>3. CASE applied' # NoPatch
  <2>1. applied' = applied /\ applied \in Patches /\ DOMAIN applied \subseteq Names
    BY <1>3, PatchType DEF Stage, Leaves, TypeOK
  <2>2. CASE p \notin DOMAIN applied
    <3>1. \A n \in DOMAIN applied : index'[n] = index[n]
      BY <1>1, <2>1, <2>2
    <3>2. QED
      BY <1>1, <1>3, <2>1, <3>1 DEF PatchInv, AppliedInv, StagedInv, RevertUndoes, NoEnd
  <2>3. CASE p \in DOMAIN applied
    <3>1. Idle /\ (applied[p].to # Absent \/ c \in {Absent, applied[p].from})
      BY <1>3, <2>1, <2>3 DEF Stage, Leaves
    <3>2. AppliedInv'
      BY <1>1, <2>1, <3>1 DEF PatchInv, AppliedInv
    <3>3. QED
      BY <1>1, <3>1, <3>2 DEF PatchInv, StagedInv, RevertUndoes, NoEnd, Idle, NoCall
  <2>4. QED
    BY <2>2, <2>3
<1>4. QED
  BY <1>2, <1>3

LEMMA NextPatchInv ==
  ASSUME ReadRight, Ignored = {}
  PROVE  TypeOK /\ PatchInv /\ [Next]_vars => PatchInv'
<1> SUFFICES ASSUME TypeOK, PatchInv, [Next]_vars PROVE PatchInv'
  OBVIOUS
<1>1. ASSUME NEW q \in Patches, Apply(q) \/ StagePaths(q) \/ Revert(q) PROVE PatchInv'
  BY <1>1, ApplyStep, StagePathsStep, RevertStep
<1>2. ASSUME NEW r, Preflight(r) PROVE PatchInv'
  BY <1>2 DEF Preflight, Ended, PatchInv, AppliedInv, StagedInv, RevertUndoes
<1>3. ASSUME NEW r, NotRun(r) PROVE PatchInv'
  BY <1>3 DEF NotRun, Ended, PatchInv, AppliedInv, StagedInv, RevertUndoes, NoCall
<1>4. ASSUME NEW p \in Names, NEW c \in Held, Write(p, c) \/ Stage(p, c) PROVE PatchInv'
  BY <1>4, WriteStep, StageStep
<1>5. CASE UNCHANGED vars
  BY <1>5 DEF vars, PatchInv, AppliedInv, StagedInv, RevertUndoes
<1>6. QED
  BY <1>1, <1>2, <1>3, <1>4, <1>5 DEF Next

\* Every patch that was applied, and whose files were left alone since, is taken back by a
\* revert: of any number of files, changed, new and removed, whatever the user has staged,
\* unstaged and committed meanwhile (apply.rs:49-52, 319-342).
THEOREM AppliedIsTakenBack ==
  ASSUME ReadRight, Ignored = {} PROVE Spec => []RevertUndoes
<1>1. Init => PatchInv
  BY InitPatchInv
<1>2. TypeOK /\ PatchInv /\ [Next]_vars => PatchInv'
  BY NextPatchInv
<1>3. PatchInv => RevertUndoes
  BY DEF PatchInv
<1>4. QED
  BY <1>1, <1>2, <1>3, Types, PTL DEF Spec

-----------------------------------------------------------------------------
(* A preflight foretells how its call ends. *)

\* While a preflight counts, the files of its patch are what the patch is made from, and
\* are so in the index.
CheckedInv ==
  checked.patch # NoPatch =>
    \A p \in DOMAIN checked.patch : work[p] = From(checked, p) /\ index[p] = work[p]

ForeInv == CheckedInv /\ PreflightForetells

LEMMA InitForeInv == Init => ForeInv
  BY DEF Init, ForeInv, CheckedInv, PreflightForetells, NoEnd, NoCall

\* git apply takes all files that are so, and without conflict.
LEMMA CheckedTakes ==
  ASSUME TypeOK, ForeInv, NEW q \in Patches, NEW back \in BOOLEAN,
         checked = [patch |-> q, revert |-> back]
  PROVE  TakesAll(checked) /\ Conflicts(checked) = {}
<1>1. checked.patch = q /\ q # NoPatch
  BY ApplyConstants
<1>2. ASSUME NEW p \in DOMAIN q
      PROVE  Takes(checked, p) /\ index[p] = From(checked, p)
  <2>1. p \in Names /\ From(checked, p) \in Held
    BY <1>1, <1>2, PatchType DEF From
  <2>2. work[p] = From(checked, p) /\ index[p] = From(checked, p)
    BY <1>1, <1>2 DEF ForeInv, CheckedInv
  <2>3. CASE From(checked, p) = Absent
    BY <2>2, <2>3 DEF Takes, InIndex
  <2>4. CASE From(checked, p) # Absent
    <3>1. InIndex(p)
      BY <2>1, <2>2, <2>4, Distinct DEF InIndex, Held
    <3>2. Restored(checked)[p] = index[p]
      BY <2>1, <2>2, <2>4 DEF Restored
    <3>3. QED
      BY <2>2, <3>1, <3>2 DEF Takes, Matches
  <2>5. QED
    BY <2>2, <2>3, <2>4
<1>3. QED
  BY <1>1, <1>2 DEF TakesAll, Conflicts

LEMMA GitAppliesForeStep ==
  ASSUME TypeOK, ForeInv, NEW q \in Patches, NEW back \in BOOLEAN,
         GitApplies([patch |-> q, revert |-> back])
  PROVE  ForeInv'
<1> DEFINE r == [patch |-> q, revert |-> back]
<1>1. checked' = NoCall /\ (Succeeds(r) \/ Refused(r))
  BY DEF GitApplies
<1>2. ASSUME last'.foretold PROVE last'.end = "ok"
  <2>1. \E end : Ended(r, end, TRUE)
    BY <1>1 DEF Succeeds, Refused
  <2>2. checked = r
    BY <1>2, <2>1, EndedFields
  <2>3. TakesAll(r) /\ Conflicts(r) = {}
    BY <2>2, CheckedTakes
  <2>4. Ended(r, "ok", TRUE)
    BY <1>1, <2>3 DEF Succeeds, Refused
  <2>5. QED
    BY <2>4, EndedFields
<1>3. QED
  BY <1>1, <1>2 DEF ForeInv, CheckedInv, PreflightForetells, NoCall

\* A call that does not change files keeps what is known of them, and is none foretold.
LEMMA PreflightForeStep ==
  ASSUME ForeInv, NEW r, Preflight(r)
  PROVE  ForeInv'
<1>1. work' = work /\ index' = index /\ ~last'.foretold
  BY EndedFields DEF Preflight
<1>2. checked' \in {r, NoCall}
  BY DEF Preflight
<1>3. ASSUME checked' # NoCall, NEW p \in DOMAIN r.patch
      PROVE  work[p] = From(r, p) /\ index[p] = work[p]
  BY <1>3 DEF Preflight, CheckArgs, Checks
<1>4. CASE checked' = NoCall
  BY <1>1, <1>4 DEF ForeInv, CheckedInv, PreflightForetells, NoCall
<1>5. CASE checked' = r /\ checked' # NoCall
  BY <1>1, <1>3, <1>5 DEF ForeInv, CheckedInv, PreflightForetells, From
<1>6. QED
  BY <1>2, <1>4, <1>5

\* The user changes a file or an index entry: a preflight that is about it counts no more.
LEMMA EditForeStep ==
  ASSUME TypeOK, ForeInv, NEW p \in Names, NEW c \in Held, Write(p, c) \/ Stage(p, c)
  PROVE  ForeInv'
<1>1. ~last'.foretold
  BY DEF Write, Stage, Edited, NoEnd
<1>2. \A n \in Names \ {p} : work'[n] = work[n] /\ index'[n] = index[n]
  BY DEF Write, Stage, TypeOK
<1>3. checked' = IF checked # NoCall /\ p \in DOMAIN checked.patch THEN NoCall ELSE checked
  BY DEF Write, Stage, Edited
<1>4. ASSUME checked'.patch # NoPatch, NEW n \in DOMAIN checked'.patch
      PROVE  work'[n] = From(checked', n) /\ index'[n] = work'[n]
  <2>1. checked' = checked /\ checked.patch \in Patches /\ p \notin DOMAIN checked.patch
    BY <1>3, <1>4 DEF NoCall, TypeOK, Requests
  <2>2. n \in Names \ {p}
    BY <1>4, <2>1, PatchType
  <2>3. work[n] = From(checked, n) /\ index[n] = work[n]
    BY <1>4, <2>1 DEF ForeInv, CheckedInv
  <2>4. QED
    BY <1>2, <2>1, <2>2, <2>3 DEF From
<1>5. QED
  BY <1>1, <1>4 DEF ForeInv, CheckedInv, PreflightForetells

\* What is staged was as the index had it.
LEMMA StagePathsForeStep ==
  ASSUME TypeOK, ForeInv, NEW q \in Patches, StagePaths(q)
  PROVE  ForeInv'
<1>1. work' = work /\ checked' = checked /\ last' = last /\ index' = Staged(q)
  BY DEF StagePaths
<1>2. ASSUME checked.patch # NoPatch, NEW p \in DOMAIN checked.patch
      PROVE  work[p] = From(checked, p) /\ index'[p] = work[p]
  <2>1. p \in Names
    BY <1>2, PatchType DEF TypeOK, Requests
  <2>2. work[p] = From(checked, p) /\ index[p] = work[p]
    BY <1>2 DEF ForeInv, CheckedInv
  <2>3. QED
    BY <1>1, <2>1, <2>2 DEF Staged, Add
<1>3. QED
  BY <1>1, <1>2 DEF ForeInv, CheckedInv, PreflightForetells, From

LEMMA NextForeInv == TypeOK /\ ForeInv /\ [Next]_vars => ForeInv'
<1> SUFFICES ASSUME TypeOK, ForeInv, [Next]_vars PROVE ForeInv'
  OBVIOUS
<1>1. ASSUME NEW q \in Patches, Apply(q) PROVE ForeInv'
  BY <1>1, GitAppliesForeStep DEF Apply
<1>2. ASSUME NEW q \in Patches, Revert(q) PROVE ForeInv'
  BY <1>2, GitAppliesForeStep DEF Revert
<1>3. ASSUME NEW q \in Patches, StagePaths(q) PROVE ForeInv'
  BY <1>3, StagePathsForeStep
<1>4. ASSUME NEW r, Preflight(r) PROVE ForeInv'
  BY <1>4, PreflightForeStep
<1>5. ASSUME NEW r, NotRun(r) PROVE ForeInv'
  BY <1>5, EndedFields DEF NotRun, ForeInv, CheckedInv, PreflightForetells, From
<1>6. ASSUME NEW p \in Names, NEW c \in Held, Write(p, c) \/ Stage(p, c) PROVE ForeInv'
  BY <1>6, EditForeStep
<1>7. CASE UNCHANGED vars
  BY <1>7 DEF vars, ForeInv, CheckedInv, PreflightForetells, From
<1>8. QED
  BY <1>1, <1>2, <1>3, <1>4, <1>5, <1>6, <1>7 DEF Next

\* A call that a preflight found to apply, or to be taken back, ends well, whatever was
\* done to other files meanwhile: of every patch, with or without its blobs in the
\* repository, and with names read right or not (apply.rs:76-101).
THEOREM PreflightsForetell == Spec => []PreflightForetells
<1>1. TypeOK /\ ForeInv /\ [Next]_vars => ForeInv'
  BY NextForeInv
<1>2. ForeInv => PreflightForetells
  BY DEF ForeInv
<1>3. QED
  BY <1>1, <1>2, InitForeInv, Types, PTL DEF Spec

-----------------------------------------------------------------------------
(* Rules of execution policies.                                            *)

Holding == {"read", "compare", "write"}
Approving == {"dir", "open"} \cup Holding

\* What the steps keep: the file is lines of calls, ended when it is empty.
FileInv == /\ lines \in Seq(Seq(AllCalls)) /\ ended \in BOOLEAN
           /\ lines = <<>> => ended

\* A process in the locked part holds the lock, what it has read is the file, and when it
\* writes the last line is ended and the rule is not there.
ProcessInv ==
  /\ pc \in [Processes -> {"idle", "appended"} \cup Approving]
  /\ DOMAIN prefix = Processes /\ DOMAIN seen = Processes
  /\ \A p \in Processes :
       /\ pc[p] \in Approving => prefix[p] \in Approvable \ {<<>>}
       /\ pc[p] \in Holding <=> lock = p
       /\ pc[p] = "compare" => seen[p] = file
       /\ pc[p] = "write" => ended /\ ~Has(file, prefix[p])

RulesInv == FileInv /\ ProcessInv /\ AppendedOnce

-----------------------------------------------------------------------------
(* The rule of an approval. *)

\* A rule written for a prefix can be loaded: no token is empty and it has no examples.
LEMMA AllowCallParses ==
  ASSUME NEW x \in Approvable, x # <<>>
  PROVE  Parses(<<AllowCall(x)>>)
<1>1. x \in Seq(Words) /\ Len(x) \in Nat /\ DOMAIN x = 1..Len(x)
  BY PolicyConstants
<1>2. 1 \in DOMAIN x
  BY <1>1
<1> DEFINE c == AllowCall(x)
<1>3. c.pattern = [i \in DOMAIN x |-> {x[i]}] /\ c.match = {} /\ c.not_match = {}
  BY DEF AllowCall
<1>4. c.pattern # <<>>
  <2>1. DOMAIN c.pattern = DOMAIN x
    BY <1>3
  <2>2. DOMAIN <<>> = {}
    OBVIOUS
  <2>3. QED
    BY <2>1, <2>2, <1>2
<1>5. \A i \in DOMAIN c.pattern : c.pattern[i] # {}
  BY <1>3
<1>6. ExamplesHold(c)
  BY <1>3 DEF ExamplesHold
<1>7. Evaluates(c)
  BY <1>4, <1>5, <1>6 DEF Evaluates
<1> HIDE DEF c
<1>8. Len(<<c>>) = 1 /\ <<c>>[1] = c
  OBVIOUS
<1>9. QED
  BY <1>7, <1>8 DEF Parses, c

-----------------------------------------------------------------------------
(* The invariant. *)

LEMMA InitRulesInv == PolicyInit => RulesInv
<1> SUFFICES ASSUME PolicyInit PROVE RulesInv
  OBVIOUS
<1>1. PICK f \in LastFiles : lines = f.lines /\ ended = f.ended
  BY DEF PolicyInit
<1>2. /\ f \in [lines : Seq(Seq(AllCalls)), ended : BOOLEAN]
      /\ f.lines = <<>> => f.ended
      /\ \A i, j \in DOMAIN f.lines : f.lines[i] = f.lines[j] => i = j
  BY PolicyConstants
<1>3. FileInv
  BY <1>1, <1>2 DEF FileInv
<1>4. ProcessInv
  BY PolicyConstants DEF PolicyInit, ProcessInv, Approving, Holding
<1>5. AppendedOnce
  BY <1>1, <1>2 DEF AppendedOnce
<1>6. QED
  BY <1>3, <1>4, <1>5 DEF RulesInv

\* WriteLine: the process holds the lock, so the file is what it compared.
LEMMA WriteLineStep ==
  ASSUME RulesInv, NEW p \in Processes, WriteLine(p)
  PROVE  /\ lines' = Append(lines, <<AllowCall(prefix[p])>>)
         /\ prefix[p] \in Approvable \ {<<>>}
         /\ RulesInv'
<1>1. /\ pc[p] = "write" /\ ended /\ ~Has(file, prefix[p]) /\ lock = p
      /\ prefix[p] \in Approvable \ {<<>>}
  BY DEF RulesInv, ProcessInv, WriteLine, Holding, Approving
<1> DEFINE c == AllowCall(prefix[p])
<1>2. lines' = Append(lines, <<c>>) /\ ended' = TRUE
  BY <1>1 DEF WriteLine
<1>3. c \in AllCalls
  BY <1>1 DEF AllCalls
<1>4. lines \in Seq(Seq(AllCalls))
  BY DEF RulesInv, FileInv
<1>5. \A i \in DOMAIN lines : lines[i] # <<c>>
  BY <1>1 DEF Has, file
<1> HIDE DEF c
<1>6. <<c>> \in Seq(AllCalls)
  BY <1>3
<1>7. /\ lines' \in Seq(Seq(AllCalls)) /\ Len(lines') = Len(lines) + 1
      /\ DOMAIN lines' = 1..(Len(lines) + 1) /\ DOMAIN lines = 1..Len(lines)
      /\ Len(lines) \in Nat
      /\ \A i \in 1..Len(lines) : lines'[i] = lines[i]
      /\ lines'[Len(lines) + 1] = <<c>>
  BY <1>2, <1>4, <1>6
<1>8. FileInv'
  BY <1>2, <1>7 DEF FileInv
<1>9. ProcessInv'
  <2>1. /\ pc' = [pc EXCEPT ![p] = "appended"] /\ lock' = Nobody
        /\ UNCHANGED <<prefix, seen>>
    BY <1>1 DEF WriteLine, Goto, Close
  <2>2. \A q \in Processes \ {p} : pc[q] \notin Holding
    BY <1>1 DEF RulesInv, ProcessInv
  <2>3. \A q \in Processes \ {p} : pc'[q] = pc[q]
    BY <2>1 DEF RulesInv, ProcessInv
  <2>4. pc' \in [Processes -> {"idle", "appended"} \cup Approving] /\ pc'[p] = "appended"
    BY <2>1 DEF RulesInv, ProcessInv
  <2>5. \A q \in Processes : pc'[q] \notin Holding
    BY <2>2, <2>3, <2>4 DEF Holding
  <2>6. \A q \in Processes : pc'[q] \in Approving => prefix'[q] \in Approvable \ {<<>>}
    BY <2>1, <2>3, <2>4 DEF RulesInv, ProcessInv, Approving, Holding
  <2>7. \A q \in Processes : lock' # q
    BY <2>1, PolicyConstants
  <2>8. QED
    BY <2>1, <2>4, <2>5, <2>6, <2>7 DEF RulesInv, ProcessInv, Holding
<1>10. AppendedOnce'
  <2> SUFFICES ASSUME NEW x \in Approvable, NEW i \in DOMAIN lines', NEW j \in DOMAIN lines',
                      lines'[i] = <<AllowCall(x)>>, lines'[j] = <<AllowCall(x)>>
               PROVE  i = j
    BY DEF AppendedOnce
  <2>1. CASE i \in 1..Len(lines) /\ j \in 1..Len(lines)
    BY <2>1, <1>7 DEF RulesInv, AppendedOnce
  <2>2. CASE i = Len(lines) + 1 /\ j \in 1..Len(lines)
    BY <2>2, <1>5, <1>7
  <2>3. CASE j = Len(lines) + 1 /\ i \in 1..Len(lines)
    BY <2>3, <1>5, <1>7
  <2>4. i \in 1..(Len(lines) + 1) /\ j \in 1..(Len(lines) + 1)
    BY <1>7
  <2>5. QED
    BY <2>1, <2>2, <2>3, <2>4, <1>7
<1>11. QED
  BY <1>1, <1>2, <1>8, <1>9, <1>10 DEF RulesInv, c

\* The other steps leave the lines alone.
LEMMA OtherSteps ==
  ASSUME RulesInv, NEW p \in Processes,
         \/ Load(p) \/ \E x \in Approvable : Approve(p, x)
         \/ CreateDir(p) \/ Lock(p) \/ ReadAll(p) \/ FoundThere(p) \/ EndLine(p)
         \/ AddToPolicy(p) \/ Fails(p) \/ Exit(p)
  PROVE  lines' = lines /\ RulesInv'
<1> USE DEF RulesInv, FileInv, ProcessInv, Holding, Approving, Goto
<1>1. CASE Load(p)
  BY <1>1 DEF Load, file, Has, AppendedOnce
<1>2. CASE \E x \in Approvable : Approve(p, x)
  <2>1. PICK x \in Approvable : Approve(p, x)
    BY <1>2
  <2>2. QED
    BY <2>1 DEF Approve, file, Has, AppendedOnce
<1>3. CASE CreateDir(p)
  BY <1>3 DEF CreateDir, file, Has, AppendedOnce
<1>4. CASE Lock(p)
  <2>1. \A q \in Processes : pc[q] \notin Holding
    BY <1>4, PolicyConstants DEF Lock
  <2>2. QED
    BY <1>4, <2>1 DEF Lock, file, Has, AppendedOnce
<1>5. CASE ReadAll(p)
  BY <1>5 DEF ReadAll, file, Has, AppendedOnce
<1>6. CASE FoundThere(p)
  BY <1>6, PolicyConstants DEF FoundThere, Close, file, Has, AppendedOnce
<1>7. CASE EndLine(p)
  <2>1. lock = p /\ seen[p] = <<lines, ended>> /\ pc[p] = "compare"
    BY <1>7 DEF EndLine, file
  <2>2. seen[p][1] = lines /\ seen[p][2] = ended
    BY <2>1
  <2>3. ended' = TRUE /\ lines' = lines
    BY <1>7, <2>2 DEF EndLine
  <2>4. \A q \in Processes \ {p} : pc[q] \notin Holding
    BY <2>1
  <2>5. ~Has(file, prefix[p])'
    BY <1>7, <2>2, <2>3 DEF EndLine, Has, file
  <2>6. FileInv' /\ AppendedOnce'
    BY <2>3 DEF AppendedOnce
  <2>7. ProcessInv'
    BY <1>7, <2>1, <2>3, <2>4, <2>5 DEF EndLine
  <2>8. QED
    BY <2>3, <2>6, <2>7
<1>8. CASE AddToPolicy(p)
  BY <1>8 DEF AddToPolicy, file, Has, AppendedOnce
<1>9. CASE Exit(p)
  BY <1>9, PolicyConstants DEF Exit, Close, file, Has, AppendedOnce
<1>10. CASE Fails(p)
  BY <1>10, PolicyConstants DEF Fails, Close, file, Has, AppendedOnce
<1>11. QED
  BY <1>1, <1>2, <1>3, <1>4, <1>5, <1>6, <1>7, <1>8, <1>9, <1>10

LEMMA NextRulesInv == RulesInv /\ [PolicyNext]_policyVars => RulesInv'
<1> SUFFICES ASSUME RulesInv, [PolicyNext]_policyVars PROVE RulesInv'
  OBVIOUS
<1>1. CASE PolicyNext
  <2>1. PICK p \in Processes :
          \/ Load(p) \/ \E x \in Approvable : Approve(p, x)
          \/ CreateDir(p) \/ Lock(p) \/ ReadAll(p) \/ FoundThere(p) \/ EndLine(p)
          \/ WriteLine(p) \/ AddToPolicy(p) \/ Fails(p) \/ Exit(p)
    BY <1>1 DEF PolicyNext
  <2>2. QED
    BY <2>1, WriteLineStep, OtherSteps
<1>2. CASE UNCHANGED policyVars
  BY <1>2 DEF RulesInv, FileInv, ProcessInv, AppendedOnce, Has, policyVars, file
<1>3. QED
  BY <1>1, <1>2

LEMMA RulesInvariance == PolicySpec => []RulesInv
<1>1. QED
  BY InitRulesInv, NextRulesInv, PTL DEF PolicySpec

\* Approving a prefix any number of times, in any number of processes that share the file
\* and may end at any point, gives one line of it.
THEOREM RulesAppendedOnce == PolicySpec => []AppendedOnce
<1>1. RulesInv => AppendedOnce
  BY DEF RulesInv
<1>2. QED
  BY <1>1, RulesInvariance, PTL

\* No step spoils a file that loads: a rule is written on a line of its
\* own and is one that can be loaded.
THEOREM FilesStillLoad == PolicySpec => StillLoads
<1> DEFINE Loads == \A i \in DOMAIN lines : Parses(lines[i])
           Keeps == Loads => \A i \in DOMAIN lines' : Parses(lines'[i])
<1>1. ASSUME RulesInv, [PolicyNext]_policyVars PROVE [Keeps]_policyVars
  <2>1. CASE UNCHANGED policyVars
    BY <2>1
  <2>2. ASSUME NEW p \in Processes, WriteLine(p) PROVE Keeps
    <3>1. /\ lines' = Append(lines, <<AllowCall(prefix[p])>>)
          /\ Parses(<<AllowCall(prefix[p])>>)
          /\ lines \in Seq(Seq(AllCalls))
      BY <1>1, <2>2, WriteLineStep, AllowCallParses DEF RulesInv, FileInv
    <3>2. /\ DOMAIN lines' = 1..(Len(lines) + 1) /\ DOMAIN lines = 1..Len(lines)
          /\ \A i \in 1..Len(lines) : lines'[i] = lines[i]
          /\ lines'[Len(lines) + 1] = <<AllowCall(prefix[p])>>
          /\ Len(lines) \in Nat
      BY <3>1
    <3>3. SUFFICES ASSUME Loads, NEW i \in DOMAIN lines' PROVE Parses(lines'[i])
      OBVIOUS
    <3>4. i \in 1..Len(lines) \/ i = Len(lines) + 1
      BY <3>2
    <3>5. QED
      BY <3>1, <3>2, <3>3, <3>4
  <2>3. ASSUME lines' = lines PROVE Keeps
    BY <2>3
  <2>4. CASE PolicyNext
    <3>1. PICK p \in Processes :
            \/ Load(p) \/ \E x \in Approvable : Approve(p, x)
            \/ CreateDir(p) \/ Lock(p) \/ ReadAll(p) \/ FoundThere(p) \/ EndLine(p)
            \/ WriteLine(p) \/ AddToPolicy(p) \/ Fails(p) \/ Exit(p)
      BY <2>4 DEF PolicyNext
    <3>2. CASE WriteLine(p)
      BY <3>2, <2>2
    <3>3. CASE ~WriteLine(p)
      <4>1. lines' = lines
        BY <3>1, <3>3, <1>1, OtherSteps
      <4>2. QED
        BY <4>1, <2>3
    <3>4. QED
      BY <3>2, <3>3
  <2>5. QED
    BY <1>1, <2>1, <2>4
<1>2. QED
  BY <1>1, RulesInvariance, PTL DEF PolicySpec, StillLoads
-----------------------------------------------------------------------------
(* How commands are judged. *)

LEMMA SeverityOrders ==
  /\ \A d \in Decisions : Severity(d) \in 0..2
  /\ \A d, e \in Decisions : Severity(d) = Severity(e) => d = e
  /\ \A d \in Decisions : Severity("allow") <= Severity(d)
<1>1. Severity("allow") = 0 /\ Severity("prompt") = 1 /\ Severity("forbidden") = 2
  BY DEF Severity
<1>2. \A d \in Decisions : d = "allow" \/ d = "prompt" \/ d = "forbidden"
  BY DEF Decisions
<1>3. QED
  BY <1>1, <1>2

\* The strictest of some decisions is one of them, and no other is as strict.
LEMMA StrictestOf ==
  ASSUME NEW D \in SUBSET Decisions, D # {}
  PROVE  /\ Strictest(D) \in D
         /\ \A e \in D : Severity(Strictest(D)) >= Severity(e)
         /\ \A d \in D : (\A e \in D : Severity(d) >= Severity(e)) => d = Strictest(D)
<1>1. \E d \in D : \A e \in D : Severity(d) >= Severity(e)
  <2>1. CASE "forbidden" \in D
    BY <2>1 DEF Decisions, Severity
  <2>2. CASE "forbidden" \notin D /\ "prompt" \in D
    BY <2>2 DEF Decisions, Severity
  <2>3. CASE "forbidden" \notin D /\ "prompt" \notin D
    BY <2>3 DEF Decisions, Severity
  <2>4. QED
    BY <2>1, <2>2, <2>3
<1>2. Strictest(D) \in D /\ \A e \in D : Severity(Strictest(D)) >= Severity(e)
  BY <1>1, Zenon DEF Strictest
<1>3. ASSUME NEW d \in D, \A e \in D : Severity(d) >= Severity(e) PROVE d = Strictest(D)
  <2>1. /\ Severity(d) >= Severity(Strictest(D)) /\ Severity(Strictest(D)) >= Severity(d)
        /\ Severity(d) \in 0..2 /\ Severity(Strictest(D)) \in 0..2
    BY <1>2, <1>3, SeverityOrders
  <2>2. Severity(d) = Severity(Strictest(D))
    BY <2>1
  <2>3. QED
    BY <1>2, <2>2, SeverityOrders
<1>4. QED
  BY <1>2, <1>3

DecisionsOf(rules) == {r.decision : r \in rules}

\* A command has a decision, whatever rules match it.
LEMMA MatchesDecide ==
  ASSUME NEW rules, DecisionsOf(rules) \subseteq Decisions, NEW c, NEW h \in Decisions
  PROVE  /\ MatchesForCommand(rules, c, h) \in SUBSET Decisions
         /\ MatchesForCommand(rules, c, h) # {}
  BY DEF MatchesForCommand, Matching, DecisionsOf

\* Rules that only allow change no decision of a command that other rules match.
LEMMA AllowingChangesNothing ==
  ASSUME NEW rules, NEW more, rules \subseteq more, DecisionsOf(more) \subseteq Decisions,
         \A r \in more : r \in rules \/ r.decision = "allow",
         NEW c, NEW h \in Decisions, Matching(rules, c) # {}
  PROVE  Check(rules, c, h) = Check(more, c, h)
<1> DEFINE D == MatchesForCommand(rules, c, h)
           E == MatchesForCommand(more, c, h)
<1>1. /\ D = {r.decision : r \in Matching(rules, c)} /\ D # {}
      /\ E = {r.decision : r \in Matching(more, c)}
  BY DEF MatchesForCommand, Matching
<1>2. E \in SUBSET Decisions /\ E # {}
  BY MatchesDecide
<1>3. D \subseteq E
  BY <1>1 DEF Matching
<1>4. \A e \in E : e \in D \/ e = "allow"
  BY <1>1 DEF Matching
<1> HIDE DEF D, E
<1>5. Strictest(D) \in D /\ \A e \in D : Severity(Strictest(D)) >= Severity(e)
  BY <1>1, <1>2, <1>3, StrictestOf
<1>6. \A e \in E : Severity(Strictest(D)) >= Severity(e)
  BY <1>2, <1>3, <1>4, <1>5, SeverityOrders
<1>7. Strictest(D) = Strictest(E)
  BY <1>2, <1>3, <1>5, <1>6, StrictestOf
<1>8. QED
  BY <1>7 DEF Check, D, E

\* Of two commands the strictest decision is the stricter of theirs.
LEMMA StricterOfTwo ==
  ASSUME NEW rules, DecisionsOf(rules) \subseteq Decisions,
         NEW c, NEW d, NEW h \in [{c, d} -> Decisions]
  PROVE  CheckMultiple(rules, {c, d}, h) =
           Strictest({Check(rules, c, h[c]), Check(rules, d, h[d])})
<1> DEFINE C == MatchesForCommand(rules, c, h[c])
           D == MatchesForCommand(rules, d, h[d])
           both == UNION {MatchesForCommand(rules, x, h[x]) : x \in {c, d}}
<1>1. C \in SUBSET Decisions /\ C # {} /\ D \in SUBSET Decisions /\ D # {}
  BY MatchesDecide
<1>2. both = C \cup D
  OBVIOUS
<1> HIDE DEF C, D, both
<1>3. /\ Strictest(C) \in C /\ \A e \in C : Severity(Strictest(C)) >= Severity(e)
      /\ Strictest(D) \in D /\ \A e \in D : Severity(Strictest(D)) >= Severity(e)
  BY <1>1, StrictestOf
<1> DEFINE two == {Strictest(C), Strictest(D)}
<1>4. two \in SUBSET Decisions /\ two # {} /\ two \subseteq both
  BY <1>1, <1>2, <1>3
<1>5. /\ Strictest(two) \in two /\ Severity(Strictest(two)) >= Severity(Strictest(C))
      /\ Severity(Strictest(two)) >= Severity(Strictest(D))
  BY <1>4, StrictestOf
<1>6. /\ Strictest(C) \in Decisions /\ Strictest(D) \in Decisions
      /\ Strictest(two) \in Decisions /\ both \in SUBSET Decisions /\ both # {}
  BY <1>1, <1>2, <1>3, <1>4, <1>5
<1> HIDE DEF two
<1>7. \A e \in both : Severity(Strictest(two)) >= Severity(e)
  <2> TAKE e \in both
  <2>1. /\ Severity(e) \in 0..2 /\ Severity(Strictest(two)) \in 0..2
        /\ Severity(Strictest(C)) \in 0..2 /\ Severity(Strictest(D)) \in 0..2
    BY <1>6, SeverityOrders
  <2>2. Severity(Strictest(C)) >= Severity(e) \/ Severity(Strictest(D)) >= Severity(e)
    BY <1>2, <1>3
  <2>3. QED
    BY <1>5, <2>1, <2>2
<1>8. Strictest(two) = Strictest(both)
  BY <1>4, <1>5, <1>6, <1>7, StrictestOf
<1>9. QED
  BY <1>8 DEF CheckMultiple, Check, two, both, C, D

-----------------------------------------------------------------------------
(* What a process holds, against the files. *)

Reloaded == UNION {RulesOf(c) : c \in LoadedCalls}

\* A process holds rules of the files; what it does not hold of them was appended since it
\* loaded them.  A rule it has appended, or found there, is in the last file.
HeldInv ==
  /\ DOMAIN policy = Processes /\ base \in BaseFiles
  /\ \A p \in Processes :
       /\ pc[p] # "idle" => policy[p] # NoPolicy
       /\ pc[p] = "appended" => AllowCall(prefix[p]) \in LoadedCalls
       /\ policy[p] # NoPolicy =>
            /\ policy[p] \subseteq Reloaded
            /\ \A c \in LoadedCalls :
                 /\ c \in AllCalls
                 /\ \/ ExamplesHold(c) /\ RulesOf(c) \subseteq policy[p]
                    \/ \E x \in Approvable : c = AllowCall(x)

LEMMA InitHeldInv == PolicyInit => HeldInv
  BY DEF PolicyInit, HeldInv

LEMMA FirstOfOne ==
  ASSUME NEW S, NEW s \in Seq(S), Len(s) = 1
  PROVE  s[1] \in S
OBVIOUS

\* Loading.
LEMMA LoadStep ==
  ASSUME RulesInv, HeldInv, NEW p \in Processes, Load(p)
  PROVE  HeldInv'
<1>1. /\ policy' = [policy EXCEPT ![p] = Reloaded] /\ LoadedCalls' = LoadedCalls
      /\ Reloaded' = Reloaded /\ UNCHANGED <<base, pc, prefix>>
  BY DEF Load, Reloaded, LoadedCalls, file
<1>2. ASSUME NEW c \in LoadedCalls
      PROVE  c \in AllCalls /\ ExamplesHold(c) /\ RulesOf(c) \subseteq Reloaded
  <2>1. CASE c \in base
    BY <2>1, PolicyConstants DEF Load, Evaluates, HeldInv, AllCalls, Reloaded
  <2>2. CASE c \notin base
    <3>1. PICK i \in DOMAIN lines : c = lines[i][1]
      BY <2>2 DEF LoadedCalls
    <3>2. lines[i] \in Seq(AllCalls) /\ Len(lines[i]) = 1 /\ Evaluates(lines[i][1])
      BY <3>1 DEF RulesInv, FileInv, Load, Parses
    <3>3. c \in AllCalls
      BY <3>1, <3>2, FirstOfOne
    <3>4. QED
      BY <3>1, <3>2, <3>3 DEF Evaluates, Reloaded
  <2>3. QED
    BY <2>1, <2>2
<1>3. policy'[p] = Reloaded /\ \A q \in Processes \ {p} : policy'[q] = policy[q]
  BY <1>1 DEF HeldInv
<1>4. pc[p] = "idle"
  BY DEF Load
<1>5. QED
  BY <1>1, <1>2, <1>3, <1>4 DEF HeldInv

\* The line of a rule is written.
LEMMA WriteHeldStep ==
  ASSUME RulesInv, HeldInv, NEW p \in Processes, WriteLine(p)
  PROVE  HeldInv'
<1> DEFINE c == AllowCall(prefix[p])
<1>1. /\ lines' = Append(lines, <<c>>) /\ c \in AllCalls /\ prefix[p] \in Approvable
      /\ lines \in Seq(Seq(AllCalls))
  BY WriteLineStep DEF AllCalls, RulesInv, FileInv
<1>2. /\ UNCHANGED <<base, prefix, policy>> /\ pc' = [pc EXCEPT ![p] = "appended"]
      /\ pc[p] = "write"
  BY DEF WriteLine, Goto
<1>3. LoadedCalls' = LoadedCalls \cup {c}
  <2> HIDE DEF c
  <2>1. /\ DOMAIN lines' = 1..(Len(lines) + 1) /\ DOMAIN lines = 1..Len(lines)
        /\ Len(lines) \in Nat
        /\ \A i \in 1..Len(lines) : lines'[i] = lines[i]
        /\ lines'[Len(lines) + 1] = <<c>>
    BY <1>1
  <2>2. {lines'[i][1] : i \in DOMAIN lines'} = {lines[i][1] : i \in DOMAIN lines} \cup {c}
    <3>1. \A i \in DOMAIN lines' : i \in DOMAIN lines \/ i = Len(lines) + 1
      BY <2>1
    <3>2. \A i \in DOMAIN lines : i \in DOMAIN lines' /\ lines'[i][1] = lines[i][1]
      BY <2>1
    <3>3. Len(lines) + 1 \in DOMAIN lines' /\ lines'[Len(lines) + 1][1] = c
      BY <2>1
    <3>4. QED
      BY <3>1, <3>2, <3>3
  <2>3. QED
    BY <1>2, <2>2 DEF LoadedCalls
<1>4. Reloaded \subseteq Reloaded'
  BY <1>3 DEF Reloaded
<1>5. \A q \in Processes : pc'[q] = IF q = p THEN "appended" ELSE pc[q]
  BY <1>2 DEF RulesInv, ProcessInv
<1> HIDE DEF c
<1>6. \A q \in Processes : pc'[q] = "appended" => AllowCall(prefix'[q]) \in LoadedCalls'
  BY <1>2, <1>3, <1>5 DEF HeldInv, c
<1>7. \A q \in Processes : pc'[q] # "idle" => policy'[q] # NoPolicy
  BY <1>2, <1>5 DEF HeldInv
<1>8. ASSUME NEW q \in Processes, policy[q] # NoPolicy
      PROVE  /\ policy[q] \subseteq Reloaded'
             /\ \A d \in LoadedCalls' :
                  /\ d \in AllCalls
                  /\ \/ ExamplesHold(d) /\ RulesOf(d) \subseteq policy[q]
                     \/ \E x \in Approvable : d = AllowCall(x)
  <2>1. policy[q] \subseteq Reloaded'
    BY <1>4, <1>8 DEF HeldInv
  <2>2. c \in AllCalls /\ \E x \in Approvable : c = AllowCall(x)
    BY <1>1 DEF c
  <2>3. QED
    BY <1>3, <1>8, <2>1, <2>2 DEF HeldInv
<1>9. QED
  BY <1>2, <1>6, <1>7, <1>8 DEF HeldInv

\* The other steps of an approval, and the end of a process.
LEMMA ApprovalHeldStep ==
  ASSUME RulesInv, HeldInv, NEW p \in Processes,
         \/ \E x \in Approvable : Approve(p, x)
         \/ CreateDir(p) \/ Lock(p) \/ ReadAll(p) \/ FoundThere(p) \/ EndLine(p)
         \/ AddToPolicy(p) \/ Fails(p) \/ Exit(p)
  PROVE  HeldInv'
<1>1. lines' = lines /\ base' = base
  BY OtherSteps
     DEF Approve, CreateDir, Lock, ReadAll, FoundThere, EndLine, AddToPolicy, Fails, Exit
<1>2. LoadedCalls' = LoadedCalls /\ Reloaded' = Reloaded
  BY <1>1 DEF LoadedCalls, Reloaded
<1>3. CASE \E x \in Approvable : Approve(p, x)
  BY <1>1, <1>2, <1>3 DEF Approve, Goto, HeldInv, RulesInv, ProcessInv
<1>4. CASE CreateDir(p) \/ Lock(p) \/ ReadAll(p) \/ EndLine(p)
  BY <1>1, <1>2, <1>4
     DEF CreateDir, Lock, ReadAll, EndLine, Goto, HeldInv, RulesInv, ProcessInv
<1>5. CASE FoundThere(p)
  <2>1. PICK i \in DOMAIN seen[p][1] : seen[p][1][i] = <<AllowCall(prefix[p])>>
    BY <1>5 DEF FoundThere, Has
  <2>2. seen[p] = <<lines, ended>>
    BY <1>5 DEF FoundThere, RulesInv, ProcessInv, file
  <2>3. i \in DOMAIN lines /\ lines[i] = <<AllowCall(prefix[p])>>
    BY <2>1, <2>2
  <2>4. lines[i][1] = AllowCall(prefix[p])
    BY <2>3
  <2>5. AllowCall(prefix[p]) \in LoadedCalls
    BY <2>3, <2>4 DEF LoadedCalls
  <2>6. QED
    BY <1>1, <1>2, <1>5, <2>5 DEF FoundThere, Goto, HeldInv, RulesInv, ProcessInv
<1>6. CASE AddToPolicy(p)
  <2>1. /\ policy[p] # NoPolicy /\ AllowCall(prefix[p]) \in LoadedCalls
        /\ UNCHANGED prefix /\ pc' = [pc EXCEPT ![p] = "idle"]
    BY <1>6 DEF AddToPolicy, Goto, HeldInv
  <2>2. /\ policy'[p] = policy[p] \cup RulesOf(AllowCall(prefix[p]))
        /\ \A q \in Processes \ {p} : policy'[q] = policy[q]
        /\ DOMAIN policy' = Processes
    BY <1>6 DEF AddToPolicy, HeldInv
  <2>3. RulesOf(AllowCall(prefix[p])) \subseteq Reloaded
    BY <2>1 DEF Reloaded
  <2>4. \A q \in Processes : pc'[q] = IF q = p THEN "idle" ELSE pc[q]
    BY <2>1 DEF RulesInv, ProcessInv
  <2>5. policy'[p] \subseteq Reloaded /\ policy[p] \subseteq policy'[p]
    BY <2>1, <2>2, <2>3 DEF HeldInv
  <2>6. ASSUME NEW c \in LoadedCalls
        PROVE  /\ c \in AllCalls
               /\ \/ ExamplesHold(c) /\ RulesOf(c) \subseteq policy'[p]
                  \/ \E x \in Approvable : c = AllowCall(x)
    BY <2>1, <2>5 DEF HeldInv
  <2>7. QED
    BY <1>1, <1>2, <2>1, <2>2, <2>4, <2>5, <2>6 DEF HeldInv
<1>7. CASE Fails(p) \/ Exit(p)
  BY <1>1, <1>2, <1>7 DEF Fails, Exit, Goto, HeldInv, RulesInv, ProcessInv
<1>8. QED
  BY <1>3, <1>4, <1>5, <1>6, <1>7

LEMMA NextHeldInv == RulesInv /\ HeldInv /\ [PolicyNext]_policyVars => HeldInv'
<1> SUFFICES ASSUME RulesInv, HeldInv, [PolicyNext]_policyVars PROVE HeldInv'
  OBVIOUS
<1>1. CASE UNCHANGED policyVars
  BY <1>1 DEF HeldInv, LoadedCalls, Reloaded, policyVars, file
<1>2. QED
  BY <1>1, LoadStep, WriteHeldStep, ApprovalHeldStep DEF PolicyNext

\* What follows for the commands a process judges.
LEMMA HeldJudges ==
  ASSUME RulesInv, HeldInv
  PROVE  LockIsGivenBack /\ MemoryIsFile /\ ExamplesMatch /\ EachCommandCounts
<1>1. LockIsGivenBack
  BY DEF LockIsGivenBack, RulesInv, ProcessInv, Holding
<1>2. ASSUME NEW p \in Processes, policy[p] # NoPolicy
      PROVE  /\ policy[p] \subseteq Reloaded
             /\ \A r \in Reloaded : r \in policy[p] \/ r.decision = "allow"
             /\ DecisionsOf(Reloaded) \subseteq Decisions
             /\ DecisionsOf(policy[p]) \subseteq Decisions
  <2>1. policy[p] \subseteq Reloaded
    BY <1>2 DEF HeldInv
  <2>2. ASSUME NEW r \in Reloaded
        PROVE  r.decision \in Decisions /\ (r \in policy[p] \/ r.decision = "allow")
    <3>1. PICK c \in LoadedCalls : r \in RulesOf(c)
      BY DEF Reloaded
    <3>2. r.decision = c.decision /\ c \in AllCalls
      BY <1>2, <3>1 DEF RulesOf, HeldInv
    <3>3. \A x : AllowCall(x).decision = "allow"
      BY DEF AllowCall
    <3>4. c.decision \in Decisions
      BY <3>2, <3>3, PolicyConstants DEF AllCalls, Decisions
    <3>5. r \in policy[p] \/ c.decision = "allow"
      BY <1>2, <3>1, <3>3 DEF HeldInv
    <3>6. QED
      BY <3>2, <3>4, <3>5
  <2>3. QED
    BY <2>1, <2>2 DEF DecisionsOf
<1>3. MemoryIsFile
  <2>1. ASSUME NEW p \in Processes, policy[p] # NoPolicy, NEW c \in Commands, NEW h \in Decisions
        PROVE  /\ Matching(policy[p], c) # {} => Check(policy[p], c, h) = Check(Reloaded, c, h)
               /\ pc[p] = "idle" => policy[p] \subseteq Reloaded
    BY <1>2, <2>1, AllowingChangesNothing
  <2>2. QED
    BY <2>1 DEF MemoryIsFile, Reloaded
<1>4. ExamplesMatch
  <2> SUFFICES ASSUME NEW p \in Processes, policy[p] # NoPolicy, NEW given \in LoadedCalls,
                      NEW e \in given.match, NEW h \in Decisions
               PROVE  Severity(Check(policy[p], e, h)) >= Severity(given.decision)
    BY DEF ExamplesMatch
  <2>1. \A x \in Approvable : given # AllowCall(x)
    BY DEF AllowCall
  <2>2. ExamplesHold(given) /\ RulesOf(given) \subseteq policy[p]
    BY <2>1 DEF HeldInv
  <2>3. PICK r \in RulesOf(given) : PrefixMatches(r, e)
    BY <2>2 DEF ExamplesHold
  <2>4. r \in Matching(policy[p], e) /\ r.decision = given.decision
    BY <2>2, <2>3 DEF Matching, RulesOf
  <2>5. given.decision \in MatchesForCommand(policy[p], e, h)
    BY <2>4 DEF MatchesForCommand
  <2>6. MatchesForCommand(policy[p], e, h) \in SUBSET Decisions
    BY <1>2, MatchesDecide
  <2>7. QED
    BY <2>5, <2>6, StrictestOf DEF Check
<1>5. EachCommandCounts
  <2> SUFFICES ASSUME NEW p \in Processes, policy[p] # NoPolicy,
                      NEW c \in Commands, NEW d \in Commands, NEW h \in [{c, d} -> Decisions]
               PROVE  CheckMultiple(policy[p], {c, d}, h) =
                        Strictest({Check(policy[p], c, h[c]), Check(policy[p], d, h[d])})
    BY DEF EachCommandCounts
  <2>1. DecisionsOf(policy[p]) \subseteq Decisions
    BY <1>2
  <2>2. QED
    BY <2>1, StricterOfTwo
<1>6. QED
  BY <1>1, <1>3, <1>4, <1>5

\* A process goes on with the rules it would load again, as far as its decisions show,
\* whatever other processes have appended since it loaded them; it judges every example as
\* strictly as the call that gives it, and of several commands each by itself.  An approval
\* that fails adds nothing to its rules and leaves no lock behind.
THEOREM RulesAreJudged ==
  PolicySpec => [](LockIsGivenBack /\ MemoryIsFile /\ ExamplesMatch /\ EachCommandCounts)
  BY InitRulesInv, NextRulesInv, InitHeldInv, NextHeldInv, HeldJudges, PTL DEF PolicySpec

-----------------------------------------------------------------------------
(* What git apply printed (ApplyOutput), under names of its own. *)

CONSTANTS OutPaths, NoPath, MaxLines

VARIABLES gitApplied, gitSkipped, gitConflicted, gitLastSeen, gitLines

Out == INSTANCE ApplyOutput WITH
  Paths <- OutPaths, NoPath <- NoPath, MaxLines <- MaxLines, applied <- gitApplied,
  skipped <- gitSkipped, conflicted <- gitConflicted, lastSeen <- gitLastSeen,
  lines <- gitLines

\* Every set of some of these numbers has a greatest one.
HasMax(S) == \E m \in S : \A x \in S : m >= x
Maxed(S)  == \A T \in SUBSET S : T # {} => HasMax(T)

Seen == gitApplied \cup gitSkipped \cup gitConflicted

\* A path of which a line said how it went is in a group.
GroupsInv ==
  /\ Maxed(gitApplied) /\ Maxed(gitSkipped) /\ Maxed(gitConflicted) /\ Maxed(DOMAIN gitLines)
  /\ \A i \in DOMAIN gitLines :
       gitLines[i].kind \notin {"checking", "failed"} => gitLines[i].path \in Seen

InOrder ==
  \A i \in 2..Len(gitLines) : Out!PathOf(i - 1) # NoPath => Out!PathOf(i) >= Out!PathOf(i - 1)

\* While git goes through the files in order, the path seen last is that of the last line,
\* and no path in a group is after it.
OrderInv ==
  InOrder =>
    /\ gitLastSeen = IF gitLines = <<>> THEN NoPath ELSE Out!PathOf(Len(gitLines))
    /\ \A p \in Seen : gitLastSeen # NoPath /\ gitLastSeen >= p

OutInv == Out!TypeOK /\ GroupsInv /\ OrderInv /\ Out!LastLineCounts

LEMMA MaxIs ==
  ASSUME NEW S, HasMax(S)
  PROVE  Out!Max(S) \in S /\ \A x \in S : Out!Max(S) >= x
BY DEF Out!Max, HasMax

LEMMA MaxOne ==
  ASSUME NEW S \in SUBSET Nat, NEW m \in S, \A x \in S : m >= x
  PROVE  Out!Max(S) = m
<1>1. Out!Max(S) \in S /\ Out!Max(S) >= m
  BY MaxIs DEF HasMax
<1>2. Out!Max(S) \in Nat /\ m \in Nat /\ m >= Out!Max(S)
  BY <1>1
<1>3. QED
  BY ONLY <1>1, <1>2

LEMMA MaxedWith ==
  ASSUME NEW S \in SUBSET Nat, Maxed(S), NEW p \in Nat
  PROVE  Maxed(S \cup {p})
<1> SUFFICES ASSUME NEW T \in SUBSET (S \cup {p}), T # {} PROVE HasMax(T)
  BY DEF Maxed
<1>1. CASE T \subseteq S
  BY <1>1 DEF Maxed
<1>2. CASE T \ {p} = {}
  <2>1. p \in T /\ \A x \in T : x = p
    BY <1>2
  <2>2. p >= p
    OBVIOUS
  <2>3. QED
    BY <2>1, <2>2 DEF HasMax
<1>3. CASE p \in T /\ T \ {p} # {}
  <2>1. PICK m \in T \ {p} : \A x \in T \ {p} : m >= x
    <3>1. (T \ {p}) \in SUBSET S
      OBVIOUS
    <3>2. QED
      BY <1>3, <3>1 DEF Maxed, HasMax
  <2>2. CASE m >= p
    BY <2>1, <2>2 DEF HasMax
  <2>3. CASE ~(m >= p)
    <3>1. \A x \in T : p >= x
      BY <2>1, <2>3
    <3>2. QED
      BY <1>3, <3>1 DEF HasMax
  <2>4. QED
    BY <2>2, <2>3
<1>4. QED
  BY <1>1, <1>2, <1>3

LEMMA MaxedIn == ASSUME NEW S, Maxed(S), NEW T \in SUBSET S PROVE Maxed(T)
BY DEF Maxed

LEMMA InitOutInv == ASSUME Out!ApplyConstants PROVE Out!Init => OutInv
<1> SUFFICES ASSUME Out!Init PROVE OutInv
  OBVIOUS
<1>1. gitLines = <<>> /\ Len(gitLines) = 0 /\ DOMAIN gitLines = {} /\ Seen = {}
  BY DEF Out!Init, Seen
<1>2. Out!TypeOK
  BY <1>1 DEF Out!Init, Out!TypeOK, Out!ApplyConstants
<1>3. GroupsInv
  BY <1>1 DEF Out!Init, GroupsInv, Maxed
<1>4. OrderInv
  BY <1>1 DEF Out!Init, OrderInv
<1>5. \A p \in OutPaths : {i \in Out!SaysOf(p) : gitLines[i].kind # "hint"} = {}
  BY <1>1 DEF Out!SaysOf
<1>6. Out!LastLineCounts
  BY <1>5 DEF Out!LastLineCounts
<1>7. QED
  BY <1>2, <1>3, <1>4, <1>6 DEF OutInv

\* A line is read: the lines before it are about what they were about.
LEMMA LinesRead ==
  ASSUME Out!ApplyConstants, Out!TypeOK, NEW kind, NEW p \in OutPaths \cup {NoPath},
         Out!Read(kind, p), NEW n, n = Len(gitLines)
  PROVE  /\ n \in Nat /\ DOMAIN gitLines = 1..n /\ Len(gitLines') = n + 1
         /\ DOMAIN (gitLines') = 1..(n + 1)
         /\ \A i \in 1..n : gitLines'[i] = gitLines[i]
         /\ gitLines'[n + 1] = [kind |-> kind, path |-> p]
BY DEF Out!Read, Out!TypeOK
LEMMA PathsRead ==
  ASSUME Out!ApplyConstants, Out!TypeOK, GroupsInv, NEW kind, NEW p \in OutPaths \cup {NoPath},
         Out!Read(kind, p), NEW n, n = Len(gitLines)
  PROVE  /\ \A i \in 1..n : (Out!PathOf(i))' = Out!PathOf(i)
         /\ (Out!PathOf(n + 1))' = IF p # NoPath THEN p
                                   ELSE IF n = 0 THEN NoPath ELSE Out!PathOf(n)
<1>0. Out!ApplyConstants /\ Out!TypeOK /\ Out!Read(kind, p) /\ n = Len(gitLines)
  OBVIOUS
<1>1. /\ n \in Nat /\ DOMAIN gitLines = 1..n /\ Len(gitLines') = n + 1
      /\ DOMAIN (gitLines') = 1..(n + 1)
      /\ \A i \in 1..n : gitLines'[i] = gitLines[i]
      /\ gitLines'[n + 1] = [kind |-> kind, path |-> p]
  BY ONLY <1>0, LinesRead, p \in OutPaths \cup {NoPath}
<1>2. ASSUME NEW i \in 1..n PROVE (Out!PathOf(i))' = Out!PathOf(i)
  <2>1. (Out!Named(i))' = Out!Named(i) /\ Out!Named(i) \in SUBSET (1..n)
    BY <1>1 DEF Out!Named
  <2>2. CASE Out!Named(i) = {}
    BY <2>1, <2>2 DEF Out!PathOf
  <2>3. CASE Out!Named(i) # {}
    <3>1. Out!Max(Out!Named(i)) \in 1..n
      BY <1>1, <2>1, <2>3, MaxIs DEF GroupsInv, Maxed
    <3>2. QED
      BY <1>1, <2>1, <2>3, <3>1 DEF Out!PathOf
  <2>4. QED
    BY <2>2, <2>3
<1>3. CASE p # NoPath
  <2>1. /\ n + 1 \in (Out!Named(n + 1))' /\ (Out!Named(n + 1))' \in SUBSET Nat
        /\ \A x \in (Out!Named(n + 1))' : n + 1 >= x
    BY <1>1, <1>3 DEF Out!Named
  <2>2. Out!Max((Out!Named(n + 1))') = n + 1
    BY <2>1, MaxOne
  <2>3. (Out!PathOf(n + 1))' = gitLines'[n + 1].path
    BY <2>1, <2>2 DEF Out!PathOf
  <2>4. QED
    BY <1>1, <1>2, <1>3, <2>3
<1>4. CASE p = NoPath /\ n = 0
  <2>1. (Out!Named(n + 1))' = {}
    BY <1>1, <1>4 DEF Out!Named
  <2>2. QED
    BY <1>2, <1>4, <2>1 DEF Out!PathOf
<1>5. CASE p = NoPath /\ n # 0
  <2>1. (Out!Named(n + 1))' = Out!Named(n) /\ n \in 1..n
    BY <1>1, <1>5 DEF Out!Named
  <2>2. (Out!PathOf(n + 1))' = (Out!PathOf(n))'
    <3>1. (Out!Named(n))' = Out!Named(n)
      BY <1>1 DEF Out!Named
    <3>2. QED
      BY <2>1, <3>1 DEF Out!PathOf
  <2>3. QED
    BY <1>2, <1>5, <2>1, <2>2
<1>6. QED
  BY <1>3, <1>4, <1>5

\* The path of a line is one, or none.
LEMMA PathIs ==
  ASSUME Out!ApplyConstants, Out!TypeOK, GroupsInv, NEW i \in DOMAIN gitLines
  PROVE  /\ Out!PathOf(i) \in OutPaths \cup {NoPath}
         /\ gitLines[i].path # NoPath => Out!PathOf(i) = gitLines[i].path
<1>1. /\ \A k \in DOMAIN gitLines : gitLines[k].path \in OutPaths \cup {NoPath}
      /\ DOMAIN gitLines = 1..Len(gitLines) /\ Len(gitLines) \in Nat
  BY DEF Out!TypeOK, Out!Lines
<1>2. Out!Named(i) \in SUBSET (1..i) /\ Out!Named(i) \in SUBSET (DOMAIN gitLines)
  BY <1>1 DEF Out!Named
<1>3. CASE Out!Named(i) = {}
  BY <1>1, <1>3 DEF Out!PathOf, Out!Named
<1>4. CASE Out!Named(i) # {}
  <2>1. Out!Max(Out!Named(i)) \in DOMAIN gitLines
    BY <1>2, <1>4, MaxIs DEF GroupsInv, Maxed
  <2>2. ASSUME gitLines[i].path # NoPath PROVE Out!Max(Out!Named(i)) = i
    <3>1. i \in Out!Named(i) /\ Out!Named(i) \in SUBSET Nat /\ \A x \in Out!Named(i) : i >= x
      BY <1>1, <1>2, <2>2 DEF Out!Named
    <3>2. QED
      BY <3>1, MaxOne
  <2>3. QED
    BY <1>1, <1>4, <2>1, <2>2 DEF Out!PathOf
<1>5. QED
  BY <1>3, <1>4

\* What a line of a kind does to the groups: to its path, and to no other.
Moves(kind, q) ==
  /\ \A x \in OutPaths \ {q} : /\ x \in gitApplied' <=> x \in gitApplied
                               /\ x \in gitSkipped' <=> x \in gitSkipped
                               /\ x \in gitConflicted' <=> x \in gitConflicted
  /\ CASE kind = "checking" -> /\ q \in gitApplied' <=> q \in gitApplied
                               /\ q \in gitSkipped' <=> q \in gitSkipped
                               /\ q \in gitConflicted' <=> q \in gitConflicted
       [] kind = "clean"    -> q \in gitApplied' /\ q \notin gitConflicted'
       [] kind = "conflict" -> q \in gitConflicted'
       [] kind = "hint"     -> /\ q \in gitApplied' <=> q \in gitApplied
                               /\ q \in gitConflicted' <=> q \in gitConflicted
                               /\ q \in gitSkipped'
       [] OTHER             -> /\ q # NoPath => q \in gitSkipped'
                               /\ q \notin gitApplied' /\ q \notin gitConflicted'

\* The lines that count for a path, and that it is where the last of them puts it.
Said(x)  == {i \in Out!SaysOf(x) : gitLines[i].kind # "hint"}
IsSaid(x) == Said(x) # {} => x \in Out!Result[Out!GroupOf(gitLines[Out!Max(Said(x))].kind)]

LEMMA AllAreSaid ==
  /\ Out!LastLineCounts <=> (InOrder => \A x \in OutPaths : IsSaid(x))
  /\ Out!LastLineCounts' <=> (InOrder' => \A x \in OutPaths : IsSaid(x)')
BY DEF Out!LastLineCounts, InOrder, IsSaid, Said

\* A path that a line moves is where this line puts it, and each other where it was.
LEMMA LastLineStep ==
  ASSUME Out!ApplyConstants, OutInv, NEW kind \in Out!Kinds, NEW p \in OutPaths \cup {NoPath},
         p = NoPath => kind = "failed", Out!Read(kind, p), NEW n, n = Len(gitLines),
         NEW q, q = (Out!PathOf(n + 1))', InOrder, Moves(kind, q)
  PROVE  (Out!LastLineCounts)'
<1>0. Out!ApplyConstants /\ Out!TypeOK /\ GroupsInv /\ Out!Read(kind, p) /\ n = Len(gitLines)
  BY DEF OutInv
<1>1. /\ n \in Nat /\ DOMAIN gitLines = 1..n /\ Len(gitLines') = n + 1
      /\ DOMAIN (gitLines') = 1..(n + 1)
      /\ \A i \in 1..n : gitLines'[i] = gitLines[i]
      /\ gitLines'[n + 1] = [kind |-> kind, path |-> p]
  BY ONLY <1>0, LinesRead, p \in OutPaths \cup {NoPath}
<1>2. \A i \in 1..n : (Out!PathOf(i))' = Out!PathOf(i)
  BY ONLY <1>0, PathsRead, p \in OutPaths \cup {NoPath}
<1> SUFFICES ASSUME NEW x \in OutPaths, (Said(x))' # {}
             PROVE  (x \in Out!Result[Out!GroupOf(gitLines[Out!Max(Said(x))].kind)])'
  BY AllAreSaid DEF IsSaid
<1>3. /\ (Said(x))' \in SUBSET (1..(n + 1)) /\ Said(x) \in SUBSET (1..n)
      /\ \A i \in 1..n : i \in (Said(x))' <=> i \in Said(x)
  BY <1>1, <1>2 DEF Out!SaysOf, Said
<1>4. n + 1 \in (Said(x))' <=> x = q /\ kind \notin {"checking", "hint"}
  BY <1>1 DEF Out!SaysOf, Said
<1>5. CASE x = q /\ kind \notin {"checking", "hint"}
  <2>1. Out!Max((Said(x))') = n + 1
    BY <1>1, <1>3, <1>4, <1>5, MaxOne
  <2>2. gitLines'[n + 1].kind = kind /\ q # NoPath
    BY <1>1, <1>5 DEF Out!ApplyConstants
  <2>3. QED
    BY <1>5, <2>1, <2>2 DEF Moves, Out!Result, Out!GroupOf, Out!Kinds
<1>6. CASE ~(x = q /\ kind \notin {"checking", "hint"})
  <2>1. (Said(x))' = Said(x) /\ Said(x) \in SUBSET (1..n)
    <3>1. n + 1 \notin (Said(x))'
      BY <1>4, <1>6
    <3>2. \A i \in 1..(n + 1) : i = n + 1 \/ i \in 1..n
      BY <1>1
    <3>3. QED
      BY <1>3, <3>1, <3>2
  <2>2. Out!Max(Said(x)) \in 1..n
    BY <1>1, <2>1, MaxIs DEF OutInv, GroupsInv, Maxed
  <2>3. x \in Out!Result[Out!GroupOf(gitLines[Out!Max(Said(x))].kind)]
    BY <2>1, AllAreSaid DEF OutInv, IsSaid
  <2>4. gitLines'[Out!Max((Said(x))')].kind = gitLines[Out!Max(Said(x))].kind
    BY <1>1, <2>1, <2>2
  <2>5. /\ x \in gitApplied' <=> x \in gitApplied
        /\ x \in gitConflicted' <=> x \in gitConflicted
        /\ x \in gitSkipped => x \in gitSkipped'
        /\ x \in gitSkipped' => x \in gitSkipped \/ kind = "hint"
    BY <1>6 DEF Moves, Out!Kinds
  <2>6. QED
    BY <2>3, <2>4, <2>5 DEF Out!Result, Out!GroupOf
<1>7. QED
  BY <1>5, <1>6

\* While the lines stay in order, a line that names a path names none before the last.
LEMMA StillInOrder ==
  ASSUME Out!ApplyConstants, OutInv, NEW kind, NEW p \in OutPaths \cup {NoPath},
         Out!Read(kind, p), InOrder'
  PROVE  /\ InOrder
         /\ p # NoPath /\ gitLastSeen # NoPath => p >= gitLastSeen
         /\ (Out!PathOf(Len(gitLines)))' = IF p # NoPath THEN p ELSE gitLastSeen
<1>1. PICK n : n = Len(gitLines)
  OBVIOUS
<1>2. Out!ApplyConstants /\ Out!TypeOK /\ GroupsInv /\ Out!Read(kind, p)
  BY DEF OutInv
<1>3. n \in Nat /\ Len(gitLines') = n + 1
  BY ONLY <1>1, <1>2, LinesRead, p \in OutPaths \cup {NoPath}
<1>4. /\ \A i \in 1..n : (Out!PathOf(i))' = Out!PathOf(i)
      /\ (Out!PathOf(n + 1))' = IF p # NoPath THEN p ELSE IF n = 0 THEN NoPath ELSE Out!PathOf(n)
  BY ONLY <1>1, <1>2, PathsRead, p \in OutPaths \cup {NoPath}
<1>5. \A i \in 2..(n + 1) :
        (Out!PathOf(i - 1))' # NoPath => (Out!PathOf(i))' >= (Out!PathOf(i - 1))'
  BY <1>3 DEF InOrder
<1>6. InOrder
  BY <1>1, <1>3, <1>4, <1>5 DEF InOrder
<1>7. gitLastSeen = IF n = 0 THEN NoPath ELSE Out!PathOf(n)
  <2>1. gitLines = <<>> <=> n = 0
    BY <1>1 DEF OutInv, Out!TypeOK
  <2>2. QED
    BY <1>1, <1>6, <2>1 DEF OutInv, OrderInv
<1>8. ASSUME p # NoPath, gitLastSeen # NoPath PROVE p >= gitLastSeen
  <2>1. n # 0 /\ n + 1 \in 2..(n + 1) /\ n \in 1..n /\ (n + 1) - 1 = n
    BY <1>3, <1>7, <1>8
  <2>2. (Out!PathOf(n))' # NoPath => (Out!PathOf(n + 1))' >= (Out!PathOf(n))'
    BY <1>5, <2>1
  <2>3. QED
    BY <1>4, <1>7, <1>8, <2>1, <2>2
<1>9. QED
  BY <1>3, <1>4, <1>6, <1>7, <1>8

\* The path that the other groups are cleared of.
LEMMA ClearedIs ==
  ASSUME Out!ApplyConstants, NEW set \in SUBSET OutPaths, Maxed(set), NEW p \in OutPaths
  PROVE  /\ Out!Cleared(set \cup {p}) \in set \cup {p}
         /\ (\A x \in set : p >= x) => Out!Cleared(set \cup {p}) = p
<1>1. set \in SUBSET Nat /\ p \in Nat
  BY DEF Out!ApplyConstants
<1>2. HasMax(set \cup {p})
  <2>1. Maxed(set \cup {p})
    BY <1>1, MaxedWith
  <2>2. (set \cup {p}) \in SUBSET (set \cup {p}) /\ set \cup {p} # {}
    OBVIOUS
  <2>3. QED
    BY <2>1, <2>2 DEF Maxed
<1>3. (\A x \in set : p >= x) => \A x \in set \cup {p} : p >= x
  BY <1>1
<1>4. QED
  BY <1>1, <1>2, <1>3, MaxIs, MaxOne DEF Out!Cleared

\* A line that adds to the groups at most one path, and takes none out of all of them.
LEMMA GroupsStep ==
  ASSUME Out!ApplyConstants, Out!TypeOK, GroupsInv, NEW kind, NEW p \in OutPaths \cup {NoPath},
         Out!Read(kind, p), NEW s \in Nat,
         gitApplied' \subseteq gitApplied \cup {s}, gitSkipped' \subseteq gitSkipped \cup {s},
         gitConflicted' \subseteq gitConflicted \cup {s},
         Seen \subseteq Seen', kind \notin {"checking", "failed"} => p \in Seen'
  PROVE  GroupsInv'
<1>1. s \in Nat /\ gitApplied \in SUBSET Nat /\ gitSkipped \in SUBSET Nat /\ gitConflicted \in SUBSET Nat
  BY DEF Out!ApplyConstants, Out!TypeOK
<1>2. Maxed(gitApplied \cup {s}) /\ Maxed(gitSkipped \cup {s}) /\ Maxed(gitConflicted \cup {s})
  BY <1>1, MaxedWith DEF GroupsInv
<1>3. Maxed(gitApplied') /\ Maxed(gitSkipped') /\ Maxed(gitConflicted')
  BY <1>2, MaxedIn
<1>4. PICK n : n = Len(gitLines)
  OBVIOUS
<1>5. /\ n \in Nat /\ DOMAIN gitLines = 1..n /\ DOMAIN (gitLines') = 1..(n + 1)
      /\ \A i \in 1..n : gitLines'[i] = gitLines[i]
      /\ gitLines'[n + 1] = [kind |-> kind, path |-> p]
  BY ONLY <1>4, LinesRead, Out!ApplyConstants, Out!TypeOK, Out!Read(kind, p),
     p \in OutPaths \cup {NoPath}
<1>6. Maxed(DOMAIN (gitLines'))
  <2>1. Maxed((1..n) \cup {n + 1})
    BY <1>5, MaxedWith DEF GroupsInv
  <2>2. 1..(n + 1) = (1..n) \cup {n + 1}
    BY <1>5
  <2>3. QED
    BY <1>5, <2>1, <2>2
<1>7. ASSUME NEW i \in DOMAIN (gitLines'), gitLines'[i].kind \notin {"checking", "failed"}
      PROVE  gitLines'[i].path \in Seen'
  <2>1. CASE i \in 1..n
    BY <1>5, <1>7, <2>1 DEF GroupsInv
  <2>2. CASE i = n + 1
    BY <1>5, <1>7, <2>2
  <2>3. QED
    BY <1>5, <1>7, <2>1, <2>2
<1>8. QED
  BY <1>3, <1>6, <1>7 DEF GroupsInv, Maxed, HasMax
\* What a line has to do to the groups and to the path seen last.
LEMMA LineStep ==
  ASSUME Out!ApplyConstants, OutInv, NEW kind \in Out!Kinds, NEW p \in OutPaths \cup {NoPath},
         p = NoPath <=> kind = "failed", Out!Read(kind, p), NEW s \in Nat,
         gitApplied' \subseteq gitApplied \cup {s}, gitSkipped' \subseteq gitSkipped \cup {s},
         gitConflicted' \subseteq gitConflicted \cup {s}, Seen' \subseteq OutPaths,
         Seen \subseteq Seen', kind \notin {"checking", "failed"} => p \in Seen',
         gitLastSeen' \in OutPaths \cup {NoPath},
         gitLastSeen' = NoPath => gitLastSeen = NoPath /\ kind = "failed",
         InOrder' => /\ gitLastSeen' = IF p # NoPath THEN p ELSE gitLastSeen
                     /\ Moves(kind, gitLastSeen')
                     /\ \A x \in Seen' : gitLastSeen' # NoPath /\ gitLastSeen' >= x
  PROVE  OutInv'
<1>1. PICK n : n = Len(gitLines)
  OBVIOUS
<1>2. Out!ApplyConstants /\ Out!TypeOK /\ GroupsInv /\ Out!Read(kind, p)
  BY DEF OutInv
<1>3. /\ n \in Nat /\ DOMAIN gitLines = 1..n /\ Len(gitLines') = n + 1
      /\ DOMAIN (gitLines') = 1..(n + 1)
      /\ \A i \in 1..n : gitLines'[i] = gitLines[i]
      /\ gitLines'[n + 1] = [kind |-> kind, path |-> p]
  BY ONLY <1>1, <1>2, LinesRead, p \in OutPaths \cup {NoPath}
<1>4. (Out!TypeOK)'
  <2>1. gitLines' = Append(gitLines, [kind |-> kind, path |-> p]) /\ n < MaxLines
    BY <1>1 DEF Out!Read
  <2>2. [kind |-> kind, path |-> p] \in Out!Lines
    BY DEF Out!Lines, Out!Kinds
  <2>3. gitLines \in Seq(Out!Lines) /\ MaxLines \in Nat
    BY <1>2 DEF Out!TypeOK, Out!ApplyConstants
  <2>4. gitLines' \in Seq(Out!Lines) /\ Len(gitLines') <= MaxLines
    BY ONLY <1>3, <2>1, <2>2, <2>3
  <2>5. ASSUME gitLastSeen' = NoPath, NEW i \in DOMAIN (gitLines')
        PROVE  gitLines'[i].kind = "failed"
    <3>1. CASE i \in 1..n
      BY <1>2, <1>3, <2>5, <3>1 DEF Out!TypeOK
    <3>2. CASE i = n + 1
      BY <1>3, <2>5, <3>2
    <3>3. QED
      BY <1>3, <2>5, <3>1, <3>2
  <2>6. /\ gitApplied' \subseteq OutPaths /\ gitSkipped' \subseteq OutPaths
        /\ gitConflicted' \subseteq OutPaths
    BY DEF Seen
  <2>7. QED
    BY <2>4, <2>5, <2>6 DEF Out!TypeOK
<1>5. GroupsInv'
  BY <1>2, GroupsStep
<1>6. ASSUME InOrder'
      PROVE  /\ InOrder /\ (Out!PathOf(n + 1))' = gitLastSeen'
             /\ Moves(kind, gitLastSeen')
             /\ \A x \in Seen' : gitLastSeen' # NoPath /\ gitLastSeen' >= x
  <2>1. /\ InOrder
        /\ (Out!PathOf(Len(gitLines)))' = IF p # NoPath THEN p ELSE gitLastSeen
    BY <1>2, <1>6, StillInOrder
  <2>2. QED
    BY <1>3, <1>6, <2>1
<1>7. OrderInv'
  <2>1. gitLines' # <<>>
    BY <1>3
  <2>2. QED
    BY <1>3, <1>6, <2>1 DEF OrderInv
<1>8. (Out!LastLineCounts)'
  <2>1. CASE InOrder'
    <3>1. PICK q : q = (Out!PathOf(n + 1))'
      OBVIOUS
    <3>2. InOrder /\ Moves(kind, q)
      BY <1>6, <2>1, <3>1
    <3>3. p = NoPath => kind = "failed"
      OBVIOUS
    <3>4. QED
      BY ONLY <1>1, <1>2, <3>1, <3>2, <3>3, LastLineStep, OutInv, kind \in Out!Kinds,
         p \in OutPaths \cup {NoPath}
  <2>2. CASE ~InOrder'
    BY <2>2, AllAreSaid
  <2>3. QED
    BY <2>1, <2>2
<1>9. QED
  BY <1>4, <1>5, <1>7, <1>8 DEF OutInv

\* While the lines stay in order, no path of a group is after the one that is named.
LEMMA AllBefore ==
  ASSUME Out!ApplyConstants, OutInv, NEW kind, NEW p \in OutPaths, Out!Read(kind, p), InOrder'
  PROVE  \A x \in Seen : p >= x
<1> SUFFICES ASSUME NEW x \in Seen PROVE p >= x
  OBVIOUS
<1>1. p \in Nat /\ p # NoPath
  BY DEF Out!ApplyConstants
<1>2. InOrder /\ (gitLastSeen # NoPath => p >= gitLastSeen)
  BY <1>1, StillInOrder
<1>3. gitLastSeen # NoPath /\ gitLastSeen >= x
  BY <1>2 DEF OutInv, OrderInv
<1>4. gitLastSeen \in Nat /\ x \in Nat
  BY <1>3 DEF Seen, OutInv, Out!TypeOK, Out!ApplyConstants
<1>5. QED
  BY <1>1, <1>2, <1>3, <1>4

LEMMA CheckingStep ==
  ASSUME Out!ApplyConstants, OutInv, NEW p \in OutPaths, Out!Checking(p)
  PROVE  OutInv'
<1>1. /\ Out!Read("checking", p) /\ p # NoPath /\ p \in Nat /\ gitLastSeen' = p
      /\ gitApplied' = gitApplied /\ gitSkipped' = gitSkipped /\ gitConflicted' = gitConflicted
  BY DEF Out!Checking, Out!ApplyConstants
<1>2. Seen' = Seen /\ Seen \subseteq OutPaths
  BY <1>1 DEF Seen, OutInv, Out!TypeOK
<1>3. InOrder' => Moves("checking", p) /\ \A x \in Seen : p >= x
  BY <1>1, AllBefore DEF Moves
<1>4. "checking" \in Out!Kinds
  BY DEF Out!Kinds
<1>5. QED
  BY <1>1, <1>2, <1>3, <1>4, LineStep
LEMMA HintStep ==
  ASSUME Out!ApplyConstants, OutInv, NEW p \in OutPaths, Out!Hint(p)
  PROVE  OutInv'
<1>1. /\ Out!Read("hint", p) /\ p # NoPath /\ p \in Nat /\ gitLastSeen' = p
      /\ gitApplied' = gitApplied /\ gitSkipped' = gitSkipped \cup {p}
      /\ gitConflicted' = gitConflicted
  BY DEF Out!Hint, Out!ApplyConstants
<1>2. Seen' = Seen \cup {p} /\ Seen \subseteq OutPaths
  BY <1>1 DEF Seen, OutInv, Out!TypeOK
<1>3. InOrder' => Moves("hint", p) /\ \A x \in Seen' : p >= x
  BY <1>1, <1>2, AllBefore DEF Moves
<1>4. "hint" \in Out!Kinds
  BY DEF Out!Kinds
<1>5. QED
  BY <1>1, <1>2, <1>3, <1>4, LineStep

\* The path a line clears the other groups of is its own, while the lines stay in order,
\* and is in the group it was added to in any case.
LEMMA ClearingStep ==
  ASSUME Out!ApplyConstants, OutInv, NEW kind \in Out!Kinds \ {"failed"}, NEW p \in OutPaths,
         Out!Read(kind, p), NEW set \in SUBSET Seen, Maxed(set),
         gitLastSeen' = Out!Cleared(set \cup {p})
  PROVE  /\ p # NoPath /\ p \in Nat /\ Seen \subseteq OutPaths
         /\ gitLastSeen' \in set \cup {p} /\ gitLastSeen' \in OutPaths
         /\ InOrder' => gitLastSeen' = p /\ \A x \in Seen \cup {p} : p >= x
<1>1. Seen \subseteq OutPaths /\ p # NoPath /\ p \in Nat /\ set \in SUBSET OutPaths
  BY DEF Seen, OutInv, Out!TypeOK, Out!ApplyConstants
<1>2. /\ gitLastSeen' \in set \cup {p}
      /\ (\A x \in set : p >= x) => gitLastSeen' = p
  BY <1>1, ClearedIs
<1>3. InOrder' => \A x \in Seen : p >= x
  BY AllBefore
<1>4. QED
  BY <1>1, <1>2, <1>3

LEMMA CleanStep ==
  ASSUME Out!ApplyConstants, OutInv, NEW p \in OutPaths, Out!AppliedCleanly(p)
  PROVE  OutInv'
<1>1. /\ Out!Read("clean", p) /\ "clean" \in Out!Kinds \ {"failed"}
      /\ gitApplied' = gitApplied \cup {p} /\ gitLastSeen' = Out!Cleared(gitApplied \cup {p})
      /\ gitSkipped' = gitSkipped \ {gitLastSeen'}
      /\ gitConflicted' = gitConflicted \ {gitLastSeen'}
  BY DEF Out!AppliedCleanly, Out!Kinds
<1>2. gitApplied \in SUBSET Seen /\ Maxed(gitApplied)
  BY DEF Seen, OutInv, GroupsInv
<1>3. /\ p # NoPath /\ p \in Nat /\ Seen \subseteq OutPaths
      /\ gitLastSeen' \in gitApplied \cup {p} /\ gitLastSeen' \in OutPaths
      /\ InOrder' => gitLastSeen' = p /\ \A x \in Seen \cup {p} : p >= x
  BY <1>1, <1>2, ClearingStep
<1>4. Seen' = Seen \cup {p}
  BY <1>1, <1>3 DEF Seen
<1>5. InOrder' => Moves("clean", p)
  BY <1>1, <1>3 DEF Moves
<1>6. gitLastSeen' # NoPath
  BY <1>3 DEF Out!ApplyConstants
<1>7. QED
  BY <1>1, <1>3, <1>4, <1>5, <1>6, LineStep

LEMMA ConflictsStep ==
  ASSUME Out!ApplyConstants, OutInv, NEW p \in OutPaths, Out!Conflicts(p)
  PROVE  OutInv'
<1>1. /\ Out!Read("conflict", p) /\ "conflict" \in Out!Kinds \ {"failed"}
      /\ gitConflicted' = gitConflicted \cup {p}
      /\ gitLastSeen' = Out!Cleared(gitConflicted \cup {p})
      /\ gitSkipped' = gitSkipped \ {gitLastSeen'}
      /\ gitApplied' = gitApplied \ {gitLastSeen'}
  BY DEF Out!Conflicts, Out!Noted, Out!Kinds
<1>2. gitConflicted \in SUBSET Seen /\ Maxed(gitConflicted)
  BY DEF Seen, OutInv, GroupsInv
<1>3. /\ p # NoPath /\ p \in Nat /\ Seen \subseteq OutPaths
      /\ gitLastSeen' \in gitConflicted \cup {p} /\ gitLastSeen' \in OutPaths
      /\ InOrder' => gitLastSeen' = p /\ \A x \in Seen \cup {p} : p >= x
  BY <1>1, <1>2, ClearingStep
<1>4. Seen' = Seen \cup {p}
  BY <1>1, <1>3 DEF Seen
<1>5. InOrder' => Moves("conflict", p)
  BY <1>1, <1>3 DEF Moves
<1>6. gitLastSeen' # NoPath
  BY <1>3 DEF Out!ApplyConstants
<1>7. QED
  BY <1>1, <1>3, <1>4, <1>5, <1>6, LineStep

LEMMA SkipsStep ==
  ASSUME Out!ApplyConstants, OutInv, NEW p \in OutPaths, Out!Skips(p)
  PROVE  OutInv'
<1>1. /\ Out!Read("skip", p) /\ "skip" \in Out!Kinds \ {"failed"}
      /\ gitSkipped' = gitSkipped \cup {p} /\ gitLastSeen' = Out!Cleared(gitSkipped \cup {p})
      /\ gitApplied' = gitApplied \ {gitLastSeen'}
      /\ gitConflicted' = gitConflicted \ {gitLastSeen'}
  BY DEF Out!Skips, Out!Kinds
<1>2. gitSkipped \in SUBSET Seen /\ Maxed(gitSkipped)
  BY DEF Seen, OutInv, GroupsInv
<1>3. /\ p # NoPath /\ p \in Nat /\ Seen \subseteq OutPaths
      /\ gitLastSeen' \in gitSkipped \cup {p} /\ gitLastSeen' \in OutPaths
      /\ InOrder' => gitLastSeen' = p /\ \A x \in Seen \cup {p} : p >= x
  BY <1>1, <1>2, ClearingStep
<1>4. Seen' = Seen \cup {p}
  BY <1>1, <1>3 DEF Seen
<1>5. InOrder' => Moves("skip", p)
  BY <1>1, <1>3 DEF Moves
<1>6. gitLastSeen' # NoPath
  BY <1>3 DEF Out!ApplyConstants
<1>7. QED
  BY <1>1, <1>3, <1>4, <1>5, <1>6, LineStep

\* A merge that failed is that of the path seen last, if there is one.
LEMMA FailedStep ==
  ASSUME Out!ApplyConstants, OutInv, Out!ThreeWayFailed
  PROVE  OutInv'
<1>1. /\ Out!Read("failed", NoPath) /\ "failed" \in Out!Kinds /\ gitLastSeen' = gitLastSeen
      /\ gitSkipped' = gitSkipped \cup ({gitLastSeen} \ {NoPath})
      /\ gitApplied' = gitApplied \ {gitLastSeen}
      /\ gitConflicted' = gitConflicted \ {gitLastSeen}
  BY DEF Out!ThreeWayFailed, Out!Kinds
<1>2. /\ Seen \subseteq OutPaths /\ NoPath \notin OutPaths /\ OutPaths \subseteq Nat
      /\ gitLastSeen \in OutPaths \cup {NoPath}
  BY DEF Seen, OutInv, Out!TypeOK, Out!ApplyConstants
<1>3. Seen' = Seen \cup ({gitLastSeen} \ {NoPath})
  BY <1>1, <1>2 DEF Seen
<1>4. InOrder' => \A x \in Seen : gitLastSeen # NoPath /\ gitLastSeen >= x
  BY <1>1, StillInOrder DEF OutInv, OrderInv
<1>5. Moves("failed", gitLastSeen)
  BY <1>1, <1>2 DEF Moves, Seen
<1>6. InOrder' => \A x \in Seen' : gitLastSeen # NoPath /\ gitLastSeen >= x
  BY <1>2, <1>3, <1>4
<1>7. PICK s \in Nat : {gitLastSeen} \ {NoPath} \subseteq {s}
  BY <1>2
<1>8. /\ gitApplied' \subseteq gitApplied \cup {s} /\ gitSkipped' \subseteq gitSkipped \cup {s}
      /\ gitConflicted' \subseteq gitConflicted \cup {s}
  BY <1>1, <1>7
<1>9. Seen' \subseteq OutPaths /\ Seen \subseteq Seen'
  BY <1>2, <1>3
<1>10. QED
  BY <1>1, <1>2, <1>5, <1>6, <1>8, <1>9, LineStep

LEMMA NextOutInv == ASSUME Out!ApplyConstants PROVE OutInv /\ [Out!Next]_(Out!vars) => OutInv'
<1> SUFFICES ASSUME OutInv, [Out!Next]_(Out!vars) PROVE OutInv'
  OBVIOUS
<1>1. ASSUME NEW p \in OutPaths, Out!Checking(p) PROVE OutInv'
  BY <1>1, CheckingStep
<1>2. ASSUME NEW p \in OutPaths, Out!AppliedCleanly(p) PROVE OutInv'
  BY <1>2, CleanStep
<1>3. ASSUME NEW p \in OutPaths, Out!Conflicts(p) PROVE OutInv'
  BY <1>3, ConflictsStep
<1>4. ASSUME NEW p \in OutPaths, Out!Hint(p) PROVE OutInv'
  BY <1>4, HintStep
<1>5. ASSUME NEW p \in OutPaths, Out!Skips(p) PROVE OutInv'
  BY <1>5, SkipsStep
<1>6. CASE Out!ThreeWayFailed
  BY <1>6, FailedStep
<1>7. CASE UNCHANGED (Out!vars)
  <2>1. /\ UNCHANGED <<gitApplied, gitSkipped, gitConflicted, gitLastSeen, gitLines>>
    BY <1>7 DEF Out!vars
  <2>2. \A i : (Out!PathOf(i))' = Out!PathOf(i)
    BY <2>1 DEF Out!PathOf, Out!Named
  <2>3. (InOrder <=> InOrder') /\ Seen' = Seen
    BY <2>1, <2>2 DEF InOrder, Seen
  <2>4. (Out!TypeOK)' /\ GroupsInv' /\ OrderInv'
    BY <2>1, <2>2, <2>3 DEF OutInv, Out!TypeOK, GroupsInv, OrderInv
  <2>5. ASSUME NEW x \in OutPaths PROVE (Said(x))' = Said(x)
    BY <2>1, <2>2 DEF Said, Out!SaysOf
  <2>6. (Out!LastLineCounts)'
    BY <2>1, <2>3, <2>5, AllAreSaid DEF OutInv, IsSaid, Out!Result
  <2>7. QED
    BY <2>4, <2>6 DEF OutInv
<1>8. QED
  BY <1>1, <1>2, <1>3, <1>4, <1>5, <1>6, <1>7 DEF Out!Next
\* A path is in one group of the result, or in none.
LEMMA OneGroup ==
  ASSUME NEW p, p \in Seen
  PROVE  \E g \in DOMAIN Out!Result : {h \in DOMAIN Out!Result : p \in Out!Result[h]} = {g}
<1>1. /\ DOMAIN Out!Result = {"applied", "skipped", "conflicted"}
      /\ p \in Out!Result["applied"] <=> p \in gitApplied /\ p \notin gitConflicted
      /\ p \in Out!Result["skipped"] <=> /\ p \in gitSkipped /\ p \notin gitConflicted
                                         /\ p \notin gitApplied
      /\ p \in Out!Result["conflicted"] <=> p \in gitConflicted
  BY DEF Out!Result
<1>2. CASE p \in gitConflicted
  <2>1. {h \in DOMAIN Out!Result : p \in Out!Result[h]} = {"conflicted"}
    BY <1>1, <1>2
  <2>2. QED
    BY <1>1, <2>1
<1>3. CASE p \in gitApplied /\ p \notin gitConflicted
  <2>1. {h \in DOMAIN Out!Result : p \in Out!Result[h]} = {"applied"}
    BY <1>1, <1>3
  <2>2. QED
    BY <1>1, <2>1
<1>4. CASE p \in gitSkipped /\ p \notin gitApplied /\ p \notin gitConflicted
  <2>1. {h \in DOMAIN Out!Result : p \in Out!Result[h]} = {"skipped"}
    BY <1>1, <1>4
  <2>2. QED
    BY <1>1, <2>1
<1>5. QED
  BY <1>2, <1>3, <1>4 DEF Seen

LEMMA GroupsHold == ASSUME Out!ApplyConstants PROVE OutInv => Out!EachInOneGroup
<1> SUFFICES ASSUME OutInv, NEW p \in OutPaths, NEW i \in Out!SaysOf(p), gitLines[i].kind # "failed"
             PROVE  Out!Cardinality({g \in DOMAIN Out!Result : p \in Out!Result[g]}) = 1
  BY DEF Out!EachInOneGroup
<1>1. i \in DOMAIN gitLines /\ Out!PathOf(i) = p /\ gitLines[i].kind # "checking"
  BY DEF Out!SaysOf
<1>2. gitLines[i] \in Out!Lines /\ gitLines[i].path # NoPath
  <2>1. gitLines[i] \in Out!Lines
    BY <1>1 DEF OutInv, Out!TypeOK
  <2>2. QED
    BY <2>1 DEF Out!Lines, Out!ApplyConstants
<1>3. gitLines[i].path = p
  BY <1>1, <1>2, PathIs DEF OutInv
<1>4. p \in Seen
  BY <1>1, <1>3 DEF OutInv, GroupsInv
<1>5. PICK g \in DOMAIN Out!Result : {h \in DOMAIN Out!Result : p \in Out!Result[h]} = {g}
  BY <1>4, OneGroup
<1>6. Cardinality({g}) = 1
  BY FS_Singleton
<1>7. QED
  BY <1>5, <1>6 DEF Cardinality, Out!Cardinality

\* Whatever git prints, and of any number of paths: a path of which it said how it went is
\* in one group of the result and in no two, and, while git goes through the files in
\* order, in that of the last line about it (apply.rs:345-600).
THEOREM OutputIsSorted ==
  ASSUME Out!ApplyConstants
  PROVE  Out!Init /\ [][Out!Next]_(Out!vars) => [](Out!EachInOneGroup /\ Out!LastLineCounts)
<1>1. Out!Init => OutInv
  BY InitOutInv
<1>2. OutInv /\ [Out!Next]_(Out!vars) => OutInv'
  BY NextOutInv
<1>3. OutInv => Out!EachInOneGroup /\ Out!LastLineCounts
  BY GroupsHold DEF OutInv
<1>4. QED
  BY <1>1, <1>2, <1>3, PTL
-----------------------------------------------------------------------------
(* Ghost commits. *)

CONSTANTS SnapPaths, SnapRepos, SnapIgnoredNames, SnapScope, SnapForce, SnapContents,
          SnapLarge, SnapDirLimit, SnapNoFile, SnapEdits, SnapMaxEdits, SnapMaxGhosts

VARIABLES snapWork, snapIndex, snapHead, snapIgnored, snapGhosts, snapUndo, snapOutcome,
          snapEdits

Snap == INSTANCE GhostCommits WITH
  Paths <- SnapPaths, Repos <- SnapRepos, IgnoredNames <- SnapIgnoredNames,
  Scope <- SnapScope, Force <- SnapForce, Contents <- SnapContents, Large <- SnapLarge,
  DirLimit <- SnapDirLimit, NoFile <- SnapNoFile, Edits <- SnapEdits,
  MaxEdits <- SnapMaxEdits, MaxGhosts <- SnapMaxGhosts, work <- snapWork,
  index <- snapIndex, head <- snapHead, ignored <- snapIgnored, ghosts <- snapGhosts,
  undo <- snapUndo, outcome <- snapOutcome, edits <- snapEdits

\* A snapshot, with lists of paths and of directories.
GhostTypes == [tree : Snap!Trees, was : Snap!Trees, files : SUBSET Snap!InScope,
               dirs : SUBSET (SnapPaths \cup {Snap!Front(p) : p \in Snap!Files})]

UndoTypes == [ghost : Nat, step : {"none", "restore", "remove"}, remove : SUBSET Snap!InScope,
              before : Snap!Trees]

GhostTypeInv ==
  /\ Snap!TypeOK
  /\ snapGhosts \in Seq(GhostTypes) /\ snapUndo \in UndoTypes
  /\ ~Snap!Idle => snapUndo.ghost \in DOMAIN snapGhosts /\ snapUndo.step # "none"
  /\ Snap!Idle => snapUndo.step = "none"

\* A snapshot holds what was there, or nothing.
CapturedInv ==
  \A i \in DOMAIN snapGhosts : \A p \in Snap!InScope :
    snapGhosts[i].tree[p] \in {snapGhosts[i].was[p], SnapNoFile}

\* What a restore removes of the worktree it found.
Removed ==
  {p \in Snap!InScope :
     /\ snapUndo.before[p] # SnapNoFile /\ snapIndex[p] = SnapNoFile
     /\ ~Snap!Artifact(p) /\ ~Snap!ShouldPreserve(Snap!Ghost, p)}

RestoreInv ==
  /\ snapUndo.step = "restore" => snapWork = snapUndo.before /\ snapUndo.remove = Removed
  /\ snapUndo.step = "remove" =>
       /\ snapUndo.remove \subseteq Removed
       /\ \A p \in SnapPaths :
            snapWork[p] = IF p \in Removed \ snapUndo.remove THEN SnapNoFile
                      ELSE IF p \notin Snap!InScope THEN snapUndo.before[p]
                      ELSE IF Snap!Ghost.tree[p] # SnapNoFile THEN Snap!Ghost.tree[p]
                      ELSE IF snapIndex[p] # SnapNoFile THEN SnapNoFile ELSE snapUndo.before[p]

UndoInv == GhostTypeInv /\ CapturedInv /\ RestoreInv

\* Nothing is large, has a name that is ignored, or is a repository.
NothingPassedOver ==
  /\ SnapRepos = {} /\ SnapLarge = {} /\ \A p \in SnapPaths : ~Snap!IgnoredByName(p)
  /\ IsFiniteSet(SnapPaths) /\ Cardinality(SnapPaths) < SnapDirLimit

\* Rules and index do not change so that a file is no longer what it was taken for.
QuietEdits ==
  /\ "unstage" \notin SnapEdits /\ "ignore" \notin SnapEdits
  /\ "stage" \notin SnapEdits \/ NothingPassedOver

Listing(g, p) == p \in g.files \/ Snap!Under(p, g.dirs) \/ Snap!IgnoredByName(p)

\* What a snapshot holds or passed over is tracked or on its lists.
QuietInv ==
  /\ snapIgnored = {}
  /\ \A p \in SnapPaths : snapHead[p] # SnapNoFile => snapIndex[p] # SnapNoFile
  /\ \A i \in DOMAIN snapGhosts : \A p \in Snap!InScope : snapGhosts[i].was[p] # SnapNoFile =>
       /\ snapIndex[p] # SnapNoFile \/ Listing(snapGhosts[i], p)
       /\ snapGhosts[i].tree[p] = SnapNoFile => snapIndex[p] = SnapNoFile /\ ~NothingPassedOver
-----------------------------------------------------------------------------
(* Types. *)

LEMMA InitGhosts == ASSUME Snap!GhostConstants PROVE Snap!Init => UndoInv
<1> SUFFICES ASSUME Snap!Init PROVE UndoInv
  OBVIOUS
<1>1. Snap!TypeOK
  <2>1. \A p \in SnapRepos : snapHead[p] = SnapNoFile
    BY DEF Snap!GhostConstants, Snap!Init, Snap!Files, Snap!Trees
  <2>2. snapIgnored \subseteq SnapPaths
    BY DEF Snap!Init
  <2>3. snapHead \in Snap!Trees /\ snapWork \in Snap!Trees /\ snapIndex = snapHead
        /\ snapUndo = Snap!NoUndo /\ snapGhosts = <<>>
        /\ snapOutcome = "ok" /\ snapEdits = 0
    BY DEF Snap!Init
  <2>4. Snap!NoUndo.before \in Snap!Trees
    BY DEF Snap!NoUndo, Snap!Empty, Snap!Trees
  <2>5. QED
    BY <2>1, <2>2, <2>3, <2>4 DEF Snap!GhostConstants, Snap!TypeOK, Snap!NoUndo
<1>2. snapUndo \in UndoTypes
  BY DEF Snap!Init, Snap!NoUndo, UndoTypes, Snap!Empty, Snap!Trees
<1>3. QED
  BY <1>1, <1>2 DEF Snap!Init, UndoInv, GhostTypeInv, Snap!Idle, Snap!NoUndo, CapturedInv,
    RestoreInv

\* A snapshot is of the types it should be.
LEMMA SnapshotType ==
  ASSUME UndoInv
  PROVE  /\ Snap!Snapshot \in GhostTypes
         /\ \A p \in Snap!Snapshot.files : Snap!Snapshot.was[p] # SnapNoFile
         /\ \A p \in Snap!InScope : Snap!Snapshot.tree[p] \in {Snap!Snapshot.was[p], SnapNoFile}
<1>1. Snap!Snapshot.tree \in Snap!Trees /\ Snap!Snapshot.was \in Snap!Trees
  BY DEF Snap!Snapshot, Snap!Trees, UndoInv, GhostTypeInv, Snap!TypeOK
<1>2. Snap!Snapshot.files \subseteq Snap!InScope /\ \A p \in Snap!Snapshot.files :
      snapWork[p] # SnapNoFile
  BY DEF Snap!Snapshot, Snap!PreservedFiles, Snap!UntrackedFiles, Snap!LargeFiles, Snap!Listed,
    Snap!Untracked
<1>3. Snap!Snapshot.dirs \subseteq SnapPaths \cup {Snap!Front(p) : p \in Snap!Files}
  BY DEF Snap!Snapshot, Snap!UntrackedDirs, Snap!LargeDirs, Snap!Listed, Snap!Untracked,
    Snap!InScope
<1>4. ASSUME NEW p \in Snap!InScope PROVE Snap!Snapshot.tree[p] \in {snapWork[p], SnapNoFile}
  <2>1. CASE p \in Snap!IndexPaths \cup SnapForce
    BY <2>1 DEF Snap!Snapshot, Snap!InScope
  <2>2. CASE p \notin Snap!IndexPaths \cup SnapForce
    BY <2>2 DEF Snap!Snapshot, Snap!InScope, Snap!IndexPaths, Snap!TrackedPaths
  <2>3. QED
    BY <2>1, <2>2
<1>5. Snap!Snapshot = [tree |-> Snap!Snapshot.tree, files |-> Snap!Snapshot.files,
      dirs |-> Snap!Snapshot.dirs,
                  was |-> Snap!Snapshot.was] /\ Snap!Snapshot.was = snapWork
  BY DEF Snap!Snapshot
<1>6. QED
  BY <1>1, <1>2, <1>3, <1>4, <1>5 DEF GhostTypes

-----------------------------------------------------------------------------
(* Each step, with what it does to snapshots and restores. *)

LEMMA CreateKeepsUndo ==
  ASSUME UndoInv, Snap!Create
  PROVE  UndoInv'
<1>1. Snap!Idle /\ UNCHANGED <<snapWork, snapIndex, snapHead, snapIgnored, snapUndo, snapEdits>>
      /\ Snap!Idle'
  BY DEF Snap!Create, Snap!Idle, Snap!NoUndo, Snap!Empty
<1>2. CASE UNCHANGED snapGhosts
  BY <1>1, <1>2 DEF UndoInv, GhostTypeInv, Snap!TypeOK, Snap!Idle, CapturedInv,
    RestoreInv, Snap!NoUndo, Snap!Create
<1>3. CASE snapGhosts' = Append(snapGhosts, Snap!Snapshot) /\ snapOutcome' = "ok"
  <2>1. /\ snapGhosts \in Seq(GhostTypes) /\ snapGhosts' \in Seq(GhostTypes)
           /\ Len(snapGhosts') = Len(snapGhosts) + 1
        /\ \A i \in DOMAIN snapGhosts' : snapGhosts'[i] = Snap!Snapshot \/ (i \in DOMAIN snapGhosts
           /\ snapGhosts'[i] = snapGhosts[i])
    BY <1>3, SnapshotType DEF UndoInv, GhostTypeInv
  <2>2. \A i \in DOMAIN snapGhosts' :
          /\ snapGhosts'[i].tree \in Snap!Trees /\ snapGhosts'[i].was \in Snap!Trees
             /\ snapGhosts'[i].files \subseteq Snap!InScope
          /\ \A p \in snapGhosts'[i].files : snapGhosts'[i].was[p] # SnapNoFile
          /\ \A p \in Snap!InScope : snapGhosts'[i].tree[p] \in {snapGhosts'[i].was[p], SnapNoFile}
    <3> SUFFICES ASSUME NEW i \in DOMAIN snapGhosts'
                 PROVE  /\ snapGhosts'[i].tree \in Snap!Trees /\ snapGhosts'[i].was \in Snap!Trees
                        /\ snapGhosts'[i].files \subseteq Snap!InScope
                        /\ \A p \in snapGhosts'[i].files : snapGhosts'[i].was[p] # SnapNoFile
                        /\ \A p \in Snap!InScope :
                           snapGhosts'[i].tree[p] \in {snapGhosts'[i].was[p], SnapNoFile}
      OBVIOUS
    <3>1. CASE snapGhosts'[i] = Snap!Snapshot
      BY <3>1, SnapshotType DEF GhostTypes
    <3>2. CASE i \in DOMAIN snapGhosts /\ snapGhosts'[i] = snapGhosts[i]
      BY <3>2 DEF UndoInv, GhostTypeInv, Snap!TypeOK, CapturedInv
    <3>3. QED
      BY <2>1, <3>1, <3>2
  <2>3. snapUndo.ghost \in 0..Len(snapGhosts')
    BY <1>1, <2>1 DEF Snap!Idle, Snap!NoUndo
  <2>4. Snap!TypeOK'
    BY <1>1, <1>3, <2>2, <2>3 DEF UndoInv, GhostTypeInv, Snap!TypeOK
  <2>5. QED
    BY <1>1, <2>1, <2>2, <2>4 DEF UndoInv, GhostTypeInv, CapturedInv, RestoreInv, Snap!Idle,
      Snap!NoUndo
<1>4. QED
  BY <1>2, <1>3 DEF Snap!Create

LEMMA BeginKeepsUndo ==
  ASSUME UndoInv, NEW i \in DOMAIN snapGhosts, Snap!RestoreBegins(i)
  PROVE  UndoInv'
<1> DEFINE spared == {p \in Snap!Removable : ~Snap!ShouldPreserve(snapGhosts[i], p)}
<1>1. /\ snapUndo' = [ghost |-> i, step |-> "restore", before |-> snapWork, remove |-> spared]
      /\ UNCHANGED <<snapWork, snapIndex, snapHead, snapIgnored, snapGhosts, snapOutcome,
         snapEdits>>
  BY DEF Snap!RestoreBegins
<1>2. spared \subseteq Snap!InScope
  BY DEF Snap!Removable, Snap!UntrackedFiles, Snap!UntrackedDirs, Snap!Listed, Snap!Untracked
<1>3. snapUndo' \in UndoTypes /\ snapUndo'.ghost \in DOMAIN snapGhosts'
      /\ snapUndo'.ghost \in 0..Len(snapGhosts')
  <2>1. i \in 1..Len(snapGhosts) /\ Len(snapGhosts) \in Nat /\ snapWork \in Snap!Trees
    <3>1. snapGhosts \in Seq(GhostTypes) /\ snapWork \in Snap!Trees
      BY DEF UndoInv, GhostTypeInv, Snap!TypeOK
    <3>2. QED
      BY <3>1
  <2>2. QED
    BY <1>1, <1>2, <2>1 DEF UndoTypes
<1>4. GhostTypeInv'
  <2>1. snapUndo' # Snap!NoUndo /\ snapUndo'.step = "restore"
        /\ snapUndo'.remove \subseteq Snap!InScope
        /\ snapUndo'.before \in Snap!Trees
    BY <1>1, <1>2 DEF Snap!NoUndo, UndoInv, GhostTypeInv, Snap!TypeOK
  <2>2. Snap!TypeOK'
    BY <1>1, <1>3, <2>1 DEF UndoInv, GhostTypeInv, Snap!TypeOK
  <2>3. QED
    BY <1>1, <1>3, <2>1, <2>2 DEF UndoInv, GhostTypeInv, Snap!Idle
<1>5. spared = Removed'
  <2>1. \A p : (p \in spared) <=> (p \in Snap!Removable /\ ~Snap!ShouldPreserve(snapGhosts[i], p))
    OBVIOUS
  <2>2. \A p : p \in Snap!Removable <=>
          /\ p \in Snap!InScope /\ snapWork[p] # SnapNoFile /\ snapIndex[p] = SnapNoFile
             /\ p \notin snapIgnored
          /\ ~Snap!IgnoredByName(p) /\ ~Snap!Under(p, Snap!LargeDirs(snapWork))
          /\ ~(p \in Snap!Files /\ snapWork[p] \in SnapLarge)
    BY DEF Snap!Removable, Snap!UntrackedFiles, Snap!LargeFiles, Snap!UntrackedDirs, Snap!Listed,
      Snap!Untracked, Snap!Files, Snap!InScope
  <2>3. (Snap!LargeDirs(snapUndo.before))' = Snap!LargeDirs(snapWork)
    BY <1>1 DEF Snap!LargeDirs, Snap!Untracked
  <2>4. /\ snapUndo'.before = snapWork /\ Snap!Ghost' = snapGhosts[i]
    BY <1>1 DEF Snap!Ghost
  <2>5. \A p :
          /\ Snap!Under(p, Snap!LargeDirs(snapUndo.before))' <=>
             Snap!Under(p, Snap!LargeDirs(snapWork))
          /\ Snap!ShouldPreserve(Snap!Ghost, p)' <=> Snap!ShouldPreserve(snapGhosts[i], p)
    BY <2>3, <2>4 DEF Snap!Under, Snap!ShouldPreserve
  <2>6. \A p : p \in Removed' <=> p \in spared
    BY <1>1, <2>2, <2>4, <2>5 DEF Removed, Snap!Artifact
  <2>7. QED
    BY <2>6
<1>6. RestoreInv'
  BY <1>1, <1>5 DEF RestoreInv
<1>7. QED
  BY <1>1, <1>4, <1>6 DEF UndoInv, CapturedInv

LEMMA NoUndoType ==
  ASSUME UndoInv
  PROVE  /\ Snap!NoUndo \in UndoTypes /\ Snap!NoUndo.ghost = 0 /\ Snap!NoUndo.step = "none"
         /\ Snap!NoUndo.remove = {} /\ Snap!NoUndo.before \in Snap!Trees
         /\ 0 \in 0..Len(snapGhosts)
<1>1. snapGhosts \in Seq(GhostTypes)
  BY DEF UndoInv, GhostTypeInv
<1>2. Len(snapGhosts) \in Nat
  BY <1>1
<1>3. QED
  BY <1>2 DEF Snap!NoUndo, UndoTypes, Snap!Empty, Snap!Trees

LEMMA RestoreKeepsUndo ==
  ASSUME UndoInv, Snap!GitRestore
  PROVE  UndoInv'
<1>1. /\ snapUndo.step = "restore" /\ snapUndo.ghost \in DOMAIN snapGhosts /\ ~Snap!Idle
      /\ UNCHANGED <<snapIndex, snapHead, snapIgnored, snapGhosts, snapEdits>>
      /\ snapUndo.remove = Removed /\ snapWork = snapUndo.before
  BY DEF Snap!GitRestore, UndoInv, GhostTypeInv, RestoreInv, Snap!Idle, Snap!NoUndo
<1> DEFINE restored ==
             [p \in SnapPaths |-> IF p \in Snap!RestoredPaths THEN Snap!Restored(Snap!Ghost.tree, p)
                                   ELSE snapWork[p]]
<1>2. CASE snapWork' = restored /\ snapUndo' = [snapUndo EXCEPT !.step = "remove"]
      /\ UNCHANGED snapOutcome
  <2>1. /\ snapUndo' \in UndoTypes /\ snapUndo'.step = "remove" /\ snapUndo'.ghost = snapUndo.ghost
        /\ snapUndo'.remove = snapUndo.remove /\ snapUndo'.before = snapUndo.before
           /\ snapUndo' # Snap!NoUndo
    BY <1>2 DEF UndoInv, GhostTypeInv, UndoTypes, Snap!NoUndo
  <2>2. Snap!Ghost.tree \in Snap!Trees
    BY <1>1 DEF Snap!Ghost, UndoInv, GhostTypeInv, Snap!TypeOK
  <2>3. snapWork' \in Snap!Trees
    BY <1>2, <2>2 DEF Snap!Trees, Snap!Restored, UndoInv, GhostTypeInv, Snap!TypeOK
  <2>4. Snap!TypeOK'
    BY <1>1, <1>2, <2>1, <2>3 DEF UndoInv, GhostTypeInv, Snap!TypeOK
  <2>5. Removed' = Removed /\ Snap!Ghost' = Snap!Ghost
    BY <1>1, <2>1 DEF Removed, Snap!Ghost, Snap!Artifact, Snap!ShouldPreserve, Snap!LargeDirs,
      Snap!Untracked
  <2>6. \A p \in SnapPaths : snapWork'[p] = IF p \in Snap!InScope
        THEN Snap!Restored(Snap!Ghost.tree, p) ELSE snapWork[p]
    BY <1>2 DEF Snap!RestoredPaths
  <2>7. RestoreInv'
    BY <1>1, <2>1, <2>5, <2>6 DEF RestoreInv, Snap!Restored
  <2>8. QED
    BY <1>1, <2>1, <2>4, <2>7 DEF UndoInv, GhostTypeInv, Snap!Idle, CapturedInv
<1>3. CASE snapUndo' = Snap!NoUndo /\ snapOutcome' = "refused" /\ UNCHANGED snapWork
  <2>1. QED
    BY <1>1, <1>3, NoUndoType DEF UndoInv, GhostTypeInv, Snap!TypeOK, Snap!Idle, CapturedInv,
      RestoreInv
<1>4. QED
  BY <1>2, <1>3 DEF Snap!GitRestore

LEMMA RemoveKeepsUndo ==
  ASSUME UndoInv, NEW q \in SnapPaths, Snap!RemoveNew(q)
  PROVE  UndoInv'
<1>1. /\ snapUndo.step = "remove" /\ snapUndo.ghost \in DOMAIN snapGhosts /\ ~Snap!Idle
         /\ q \in snapUndo.remove
      /\ snapWork' = [snapWork EXCEPT ![q] = SnapNoFile]
         /\ snapUndo' = [snapUndo EXCEPT !.remove = @ \ {q}]
      /\ UNCHANGED <<snapIndex, snapHead, snapIgnored, snapGhosts, snapOutcome, snapEdits>>
  BY DEF Snap!RemoveNew, UndoInv, GhostTypeInv, Snap!Idle, Snap!NoUndo
<1>2. /\ snapUndo' \in UndoTypes /\ snapUndo'.step = "remove" /\ snapUndo'.ghost = snapUndo.ghost
      /\ snapUndo'.remove = snapUndo.remove \ {q} /\ snapUndo'.before = snapUndo.before
         /\ snapUndo' # Snap!NoUndo
  BY <1>1 DEF UndoInv, GhostTypeInv, UndoTypes, Snap!NoUndo
<1>3. snapWork' \in Snap!Trees
  BY <1>1 DEF Snap!Trees, UndoInv, GhostTypeInv, Snap!TypeOK
<1>4. Snap!TypeOK'
  BY <1>1, <1>2, <1>3 DEF UndoInv, GhostTypeInv, Snap!TypeOK
<1>5. Removed' = Removed /\ Snap!Ghost' = Snap!Ghost
  BY <1>1, <1>2 DEF Removed, Snap!Ghost, Snap!Artifact, Snap!ShouldPreserve, Snap!LargeDirs,
    Snap!Untracked
<1>6. RestoreInv'
  <2>1. snapUndo'.remove \subseteq Removed' /\ q \in Removed
    BY <1>1, <1>2, <1>5 DEF RestoreInv, UndoInv
  <2>2. \A p \in SnapPaths : snapWork'[p] = IF p = q THEN SnapNoFile ELSE snapWork[p]
    BY <1>1 DEF UndoInv, GhostTypeInv, Snap!TypeOK, Snap!Trees
  <2>3. QED
    BY <1>1, <1>2, <1>5, <2>1, <2>2 DEF RestoreInv, UndoInv
<1>7. QED
  BY <1>1, <1>2, <1>4, <1>6 DEF UndoInv, GhostTypeInv, Snap!Idle, CapturedInv

\* A restore that ends or stops leaves nothing to say of it.
LEMMA EndKeepsUndo ==
  ASSUME UndoInv, Snap!RemoveFails \/ Snap!RestoreEnds
  PROVE  UndoInv'
<1>1. /\ snapUndo' = Snap!NoUndo /\ snapOutcome' \in {"ok", "stopped"}
      /\ UNCHANGED <<snapWork, snapIndex, snapHead, snapIgnored, snapGhosts, snapEdits>>
  BY DEF Snap!RemoveFails, Snap!RestoreEnds
<1>2. QED
  BY <1>1, NoUndoType DEF UndoInv, GhostTypeInv, Snap!TypeOK, Snap!Idle, CapturedInv, RestoreInv

-----------------------------------------------------------------------------
(* The session's own edits come while nothing is restored. *)

TreeEdited ==
  \/ \E p \in SnapPaths, c \in SnapContents : Snap!Write(p, c)
  \/ \E p \in SnapPaths : Snap!Delete(p) \/ Snap!IgnoreRule(p)
  \/ \E p \in Snap!Files : Snap!Stage(p) \/ Snap!Unstage(p)
  \/ Snap!Commit

LEMMA EditKeepsUndo ==
  ASSUME Snap!GhostConstants, UndoInv, TreeEdited
  PROVE  UndoInv'
<1>1. Snap!Idle /\ UNCHANGED <<snapGhosts, snapUndo, snapOutcome>> /\ snapEdits' = snapEdits + 1
      /\ snapEdits < SnapMaxEdits
  BY DEF TreeEdited, Snap!Write, Snap!Delete, Snap!IgnoreRule, Snap!Stage, Snap!Unstage,
    Snap!Commit, Snap!Edit
<1>2. snapEdits' \in 0..SnapMaxEdits
  <2>1. snapEdits \in 0..SnapMaxEdits
    BY DEF UndoInv, GhostTypeInv, Snap!TypeOK
  <2>2. SnapMaxEdits \in Nat
    BY DEF Snap!GhostConstants
  <2>3. QED
    BY <1>1, <2>1, <2>2
<1>3. snapWork' \in Snap!Trees
  BY DEF TreeEdited, Snap!Write, Snap!Delete, Snap!IgnoreRule, Snap!Stage, Snap!Unstage,
    Snap!Commit, UndoInv, GhostTypeInv, Snap!TypeOK, Snap!Trees
<1>4. snapIndex' \in Snap!Trees /\ \A p \in SnapRepos : snapIndex'[p] = SnapNoFile
  <2>1. /\ snapIndex \in [SnapPaths -> SnapContents \cup {SnapNoFile}]
           /\ snapHead \in [SnapPaths -> SnapContents \cup {SnapNoFile}]
        /\ snapWork \in [SnapPaths -> SnapContents \cup {SnapNoFile}]
        /\ \A p \in SnapRepos : snapIndex[p] = SnapNoFile
    BY DEF UndoInv, GhostTypeInv, Snap!TypeOK, Snap!Trees
  <2>2. snapIndex' = snapIndex \/ \E p \in Snap!Files, c \in SnapContents \cup {SnapNoFile} :
        snapIndex' = [snapIndex EXCEPT ![p] = c]
    <3>1. ASSUME NEW p \in Snap!Files, Snap!Stage(p)
          PROVE  \E c \in SnapContents \cup {SnapNoFile} : snapIndex' = [snapIndex EXCEPT ![p] = c]
      BY <2>1, <3>1 DEF Snap!Stage, Snap!Files
    <3>2. ASSUME NEW p \in Snap!Files, Snap!Unstage(p)
          PROVE  \E c \in SnapContents \cup {SnapNoFile} : snapIndex' = [snapIndex EXCEPT ![p] = c]
      BY <2>1, <3>2 DEF Snap!Unstage, Snap!Files
    <3>3. QED
      BY <3>1, <3>2 DEF TreeEdited, Snap!Write, Snap!Delete, Snap!IgnoreRule, Snap!Commit
  <2>3. ASSUME NEW p \in Snap!Files, NEW c \in SnapContents \cup {SnapNoFile},
               snapIndex' = [snapIndex EXCEPT ![p] = c]
        PROVE  snapIndex' \in Snap!Trees /\ \A r \in SnapRepos : snapIndex'[r] = SnapNoFile
    <3>1. p \notin SnapRepos /\ p \in SnapPaths
      BY DEF Snap!Files
    <3>2. snapIndex' \in Snap!Trees
      BY <2>1, <2>3, <3>1 DEF Snap!Trees
    <3>3. \A r \in SnapRepos : snapIndex'[r] = snapIndex[r]
      BY <2>1, <2>3, <3>1
    <3>4. QED
      BY <2>1, <3>2, <3>3
  <2>4. QED
    BY <2>1, <2>2, <2>3 DEF Snap!Trees
<1>5. snapHead' \in {snapHead, snapIndex}
  BY DEF TreeEdited, Snap!Write, Snap!Delete, Snap!IgnoreRule, Snap!Stage, Snap!Unstage, Snap!Commit
<1>6. snapIgnored' \subseteq SnapPaths
  BY DEF TreeEdited, Snap!Write, Snap!Delete, Snap!IgnoreRule, Snap!Stage, Snap!Unstage,
    Snap!Commit, UndoInv, GhostTypeInv, Snap!TypeOK
<1>7. Snap!TypeOK'
  BY <1>1, <1>2, <1>3, <1>4, <1>5, <1>6 DEF UndoInv, GhostTypeInv, Snap!TypeOK
<1>8. QED
  BY <1>1, <1>7 DEF UndoInv, GhostTypeInv, Snap!Idle, Snap!NoUndo, CapturedInv, RestoreInv

LEMMA GhostSteps ==
  ASSUME [Snap!Next]_(Snap!vars)
  PROVE  \/ Snap!Create \/ \E i \in DOMAIN snapGhosts : Snap!RestoreBegins(i)
         \/ Snap!GitRestore \/ \E p \in SnapPaths : Snap!RemoveNew(p)
         \/ Snap!RemoveFails \/ Snap!RestoreEnds
         \/ TreeEdited \/ UNCHANGED Snap!vars
  BY DEF Snap!Next, TreeEdited

LEMMA NextUndoInv == ASSUME Snap!GhostConstants PROVE UndoInv /\ [Snap!Next]_(Snap!vars) => UndoInv'
<1> SUFFICES ASSUME UndoInv, [Snap!Next]_(Snap!vars) PROVE UndoInv'
  OBVIOUS
<1>1. CASE UNCHANGED Snap!vars
  <2>1. Removed' = Removed /\ Snap!Ghost' = Snap!Ghost
    BY <1>1 DEF Snap!vars, Removed, Snap!Ghost, Snap!Artifact, Snap!ShouldPreserve, Snap!LargeDirs,
      Snap!Untracked
  <2>2. QED
    BY <1>1, <2>1 DEF Snap!vars, UndoInv, GhostTypeInv, Snap!TypeOK, Snap!Idle, CapturedInv,
      RestoreInv
<1>2. QED
  BY <1>1, GhostSteps, CreateKeepsUndo, BeginKeepsUndo, RestoreKeepsUndo, RemoveKeepsUndo,
    EndKeepsUndo,
    EditKeepsUndo
-----------------------------------------------------------------------------
(* What is new goes, artifacts and what is out of scope stay. *)

LEMMA OutsideKept == UndoInv => Snap!OutsideUntouched
<1> SUFFICES ASSUME UndoInv, ~Snap!Idle, NEW p \in SnapPaths \ Snap!InScope
             PROVE  snapWork[p] = snapUndo.before[p]
  BY DEF Snap!OutsideUntouched
<1>1. snapUndo.step \in {"restore", "remove"} /\ p \notin Removed
  BY DEF UndoInv, GhostTypeInv, Snap!TypeOK, Removed
<1>2. QED
  BY <1>1 DEF UndoInv, RestoreInv

LEMMA ArtifactsStay == UndoInv => Snap!ArtifactsKept
<1> SUFFICES ASSUME UndoInv, ~Snap!Idle, NEW p \in Snap!InScope, Snap!Artifact(p),
                    snapIndex[p] = SnapNoFile,
                    Snap!Ghost.tree[p] = SnapNoFile
             PROVE  snapWork[p] = snapUndo.before[p]
  BY DEF Snap!ArtifactsKept
<1>1. snapUndo.step \in {"restore", "remove"} /\ p \notin Removed /\ p \in SnapPaths
  BY DEF UndoInv, GhostTypeInv, Snap!TypeOK, Removed, Snap!InScope
<1>2. QED
  BY <1>1 DEF UndoInv, RestoreInv

LEMMA NewGoes == UndoInv => Snap!NewRemoved
<1> SUFFICES ASSUME UndoInv, Snap!RestoreDone, NEW p \in Snap!InScope,
                    Snap!Ghost.was[p] = SnapNoFile
             PROVE  snapWork[p] = SnapNoFile \/ (snapWork[p] = snapUndo.before[p]
                    /\ (Snap!Artifact(p) \/ Snap!Under(p, Snap!Ghost.dirs)))
  BY DEF Snap!NewRemoved
<1>1. /\ snapUndo.ghost \in DOMAIN snapGhosts /\ p \in SnapPaths
      /\ snapUndo.step = "remove" /\ snapUndo.remove = {}
  BY DEF Snap!RestoreDone, UndoInv, GhostTypeInv, Snap!Idle, Snap!NoUndo, Snap!InScope
<1>2. Snap!Ghost.tree[p] = SnapNoFile /\ p \notin Snap!Ghost.files
  BY <1>1 DEF Snap!Ghost, UndoInv, CapturedInv, GhostTypeInv, Snap!TypeOK
<1>3. snapWork[p] = IF p \in Removed THEN SnapNoFile
                ELSE IF snapIndex[p] # SnapNoFile THEN SnapNoFile ELSE snapUndo.before[p]
  BY <1>1, <1>2 DEF UndoInv, RestoreInv
<1>4. CASE p \notin Removed /\ snapIndex[p] = SnapNoFile /\ snapUndo.before[p] # SnapNoFile
  BY <1>2, <1>3, <1>4 DEF Removed, Snap!ShouldPreserve
<1>5. QED
  BY <1>3, <1>4

LEMMA UndoInvariance == ASSUME Snap!GhostConstants PROVE Snap!Spec => []UndoInv
<1>1. Snap!Init => UndoInv
  BY InitGhosts
<1>2. UndoInv /\ [Snap!Next]_(Snap!vars) => UndoInv'
  BY NextUndoInv
<1>3. QED
  BY <1>1, <1>2, PTL DEF Snap!Spec

\* Whatever files come and go and are staged, committed and ignored, an undo that ends has
\* removed what is new; artifacts that were not captured are never touched, nor is what is
\* out of scope (restore_ghost_commit_with_options, remove_new_untracked).
THEOREM UndoLeavesTheRest ==
  ASSUME Snap!GhostConstants
  PROVE  Snap!Spec => [](Snap!TypeOK /\ Snap!NewRemoved /\ Snap!ArtifactsKept
         /\ Snap!OutsideUntouched)
<1>1. UndoInv => Snap!TypeOK /\ Snap!NewRemoved /\ Snap!ArtifactsKept /\ Snap!OutsideUntouched
  BY OutsideKept, ArtifactsStay, NewGoes DEF UndoInv, GhostTypeInv
<1>2. QED
  BY <1>1, UndoInvariance, PTL

-----------------------------------------------------------------------------
(* What there was is given back. *)

\* Of fewer files than DirLimit, no directory holds many.
LEMMA NoLargeDirs == ASSUME NothingPassedOver, SnapDirLimit \in Nat, NEW tree
  PROVE Snap!LargeDirs(tree) = {}
<1> SUFFICES ASSUME NEW d, Cardinality({p \in Snap!Untracked(tree) \cap Snap!Files :
                    Snap!Front(p) = d}) >= SnapDirLimit
             PROVE  FALSE
  <2>1. \A S : Snap!Cardinality(S) = Cardinality(S)
    BY DEF Snap!Cardinality, Cardinality
  <2>2. QED
    BY <2>1 DEF Snap!LargeDirs
<1> DEFINE here == {p \in Snap!Untracked(tree) \cap Snap!Files : Snap!Front(p) = d}
<1>1. here \subseteq SnapPaths
  BY DEF Snap!Files
<1>2. IsFiniteSet(SnapPaths) /\ Cardinality(SnapPaths) < SnapDirLimit
  BY DEF NothingPassedOver
<1>3. /\ IsFiniteSet(here) /\ Cardinality(here) <= Cardinality(SnapPaths)
      /\ Cardinality(here) \in Nat /\ Cardinality(SnapPaths) \in Nat
  BY <1>1, <1>2, FS_Subset, FS_CardinalityType
<1>4. QED
  BY <1>2, <1>3

LEMMA RepoUnderItself ==
  ASSUME Snap!GhostConstants, NEW p \in SnapPaths, NEW dirs, p \in dirs
  PROVE  Snap!Under(p, dirs)
<1>1. p \in Seq(Snap!ToSet(p))
  BY DEF Snap!GhostConstants
<1>2. Len(p) \in Nat
  BY <1>1
<1>3. QED
  BY <1>2 DEF Snap!Under, Snap!IsPrefix

LEMMA SnapshotLists ==
  ASSUME Snap!GhostConstants, UndoInv, QuietInv, NEW p \in Snap!InScope, snapWork[p] # SnapNoFile
  PROVE  /\ snapIndex[p] # SnapNoFile \/ Listing(Snap!Snapshot, p)
         /\ Snap!Snapshot.tree[p] = SnapNoFile => snapIndex[p] = SnapNoFile /\ ~NothingPassedOver
<1>1. /\ p \in SnapPaths /\ Snap!Snapshot.files = Snap!PreservedFiles
      /\ Snap!Snapshot.dirs = Snap!UntrackedDirs \cup Snap!LargeDirs(snapWork)
      /\ Snap!Snapshot.tree[p] = IF p \in Snap!IndexPaths \cup SnapForce THEN snapWork[p]
         ELSE snapHead[p]
  BY DEF Snap!Snapshot, Snap!InScope
<1>2. ASSUME snapIndex[p] = SnapNoFile, ~Snap!IgnoredByName(p)
      PROVE  /\ p \in Snap!PreservedFiles \/ Snap!Under(p, Snap!Snapshot.dirs)
             /\ NothingPassedOver => p \in Snap!IndexPaths
  <2>1. p \in Snap!Untracked(snapWork)
    BY <1>2 DEF Snap!Untracked, QuietInv
  <2>2. CASE Snap!Under(p, Snap!LargeDirs(snapWork))
    <3>1. Snap!Under(p, Snap!Snapshot.dirs)
      BY <1>1, <2>2 DEF Snap!Under
    <3>2. ~NothingPassedOver
      <4>1. Snap!LargeDirs(snapWork) # {}
        BY <2>2 DEF Snap!Under
      <4>2. SnapDirLimit \in Nat
        BY DEF Snap!GhostConstants
      <4>3. QED
        BY <4>1, <4>2, NoLargeDirs
    <3>3. QED
      BY <3>1, <3>2
  <2>3. CASE p \in Snap!Listed /\ p \in Snap!Files
    <3>1. p \in Snap!UntrackedFiles(SnapForce) \/ (p \in Snap!LargeFiles(SnapForce)
          /\ snapWork[p] \in SnapLarge)
      BY <2>3 DEF Snap!UntrackedFiles, Snap!LargeFiles
    <3>2. QED
      BY <3>1 DEF Snap!PreservedFiles, Snap!IndexPaths, NothingPassedOver
  <2>4. CASE p \in Snap!Listed /\ p \in SnapRepos
    <3>1. p \in Snap!Snapshot.dirs
      BY <1>1, <2>4 DEF Snap!UntrackedDirs
    <3>2. QED
      BY <1>1, <2>4, <3>1, RepoUnderItself DEF NothingPassedOver
  <2>5. QED
    BY <1>1, <2>1, <2>2, <2>3, <2>4 DEF Snap!Listed, Snap!Files
<1>3. ASSUME Snap!Snapshot.tree[p] = SnapNoFile PROVE snapIndex[p] = SnapNoFile
             /\ ~NothingPassedOver
  <2>1. p \notin Snap!IndexPaths /\ snapHead[p] = SnapNoFile
    BY <1>1, <1>3
  <2>2. snapIndex[p] = SnapNoFile
    BY <2>1 DEF Snap!IndexPaths, Snap!TrackedPaths
  <2>3. QED
    BY <1>1, <1>2, <2>1, <2>2 DEF NothingPassedOver
<1>4. QED
  BY <1>1, <1>2, <1>3 DEF Listing

LEMMA InitQuietInv == ASSUME QuietEdits PROVE Snap!Init => QuietInv
  BY DEF Snap!Init, QuietEdits, QuietInv

LEMMA NextQuietInv ==
  ASSUME Snap!GhostConstants, QuietEdits
  PROVE  UndoInv /\ QuietInv /\ [Snap!Next]_(Snap!vars) => QuietInv'
<1> SUFFICES ASSUME UndoInv, QuietInv, [Snap!Next]_(Snap!vars) PROVE QuietInv'
  OBVIOUS
<1>1. CASE Snap!Create
  <2>1. UNCHANGED <<snapWork, snapIndex, snapHead, snapIgnored>>
    BY <1>1 DEF Snap!Create
  <2>2. CASE UNCHANGED snapGhosts
    BY <2>1, <2>2 DEF QuietInv, Listing
  <2>3. CASE snapGhosts' = Append(snapGhosts, Snap!Snapshot)
    <3>1. \A i \in DOMAIN snapGhosts' : snapGhosts'[i] = Snap!Snapshot \/ (i \in DOMAIN snapGhosts
          /\ snapGhosts'[i] = snapGhosts[i])
      BY <2>3, SnapshotType DEF UndoInv, GhostTypeInv
    <3>2. Snap!Snapshot.was = snapWork
      BY DEF Snap!Snapshot
    <3>3. \A p \in Snap!InScope : Snap!Snapshot.was[p] # SnapNoFile =>
            /\ snapIndex[p] # SnapNoFile \/ Listing(Snap!Snapshot, p)
            /\ Snap!Snapshot.tree[p] = SnapNoFile => snapIndex[p] = SnapNoFile /\ ~NothingPassedOver
      BY <3>2, SnapshotLists
    <3>4. \A i \in DOMAIN snapGhosts' : \A p \in Snap!InScope :
          snapGhosts'[i].was[p] # SnapNoFile =>
            /\ snapIndex[p] # SnapNoFile \/ Listing(snapGhosts'[i], p)
            /\ snapGhosts'[i].tree[p] = SnapNoFile => snapIndex[p] = SnapNoFile
               /\ ~NothingPassedOver
      BY <3>1, <3>3 DEF QuietInv
    <3>5. QED
      BY <2>1, <3>4 DEF QuietInv
  <2>4. QED
    BY <1>1, <2>2, <2>3 DEF Snap!Create
<1>2. CASE ~Snap!Create
  <2>1. snapIgnored' = snapIgnored /\ snapGhosts' = snapGhosts
        /\ snapHead' \in {snapHead, snapIndex}
    BY <1>2, GhostSteps DEF QuietEdits, TreeEdited, Snap!RestoreBegins, Snap!GitRestore,
      Snap!RemoveNew, Snap!RemoveFails, Snap!RestoreEnds,
      Snap!Write, Snap!Delete, Snap!IgnoreRule, Snap!Stage, Snap!Unstage, Snap!Commit, Snap!Edit,
        Snap!vars
  <2>2. \/ snapIndex' = snapIndex
        \/ snapHead' = snapHead /\ NothingPassedOver /\ \E p \in Snap!Files :
           snapIndex' = [snapIndex EXCEPT ![p] = snapWork[p]] /\ snapWork[p] # SnapNoFile
    BY <1>2, GhostSteps DEF QuietEdits, TreeEdited, Snap!RestoreBegins, Snap!GitRestore,
      Snap!RemoveNew, Snap!RemoveFails, Snap!RestoreEnds,
      Snap!Write, Snap!Delete, Snap!IgnoreRule, Snap!Stage, Snap!Unstage, Snap!Commit, Snap!Edit,
        Snap!vars
  <2>3. CASE snapIndex' = snapIndex
    BY <2>1, <2>3 DEF QuietInv, Listing
  <2>4. CASE snapHead' = snapHead /\ NothingPassedOver
             /\ \E p \in Snap!Files : snapIndex' = [snapIndex EXCEPT ![p] = snapWork[p]]
                /\ snapWork[p] # SnapNoFile
    <3>1. \A p \in SnapPaths : snapIndex[p] # SnapNoFile => snapIndex'[p] # SnapNoFile
      BY <2>4 DEF UndoInv, GhostTypeInv, Snap!TypeOK, Snap!Trees
    <3>2. QED
      BY <2>1, <2>4, <3>1 DEF QuietInv, Listing, Snap!InScope
  <2>5. QED
    BY <2>2, <2>3, <2>4
<1>3. QED
  BY <1>1, <1>2

LEMMA WasGivenBack == UndoInv /\ QuietInv => Snap!WasRestored
<1> SUFFICES ASSUME UndoInv, QuietInv, Snap!RestoreDone, NEW p \in Snap!InScope,
                    Snap!Ghost.was[p] # SnapNoFile
             PROVE  snapWork[p] = Snap!Ghost.was[p] \/ (Snap!Ghost.tree[p] = SnapNoFile
                    /\ snapWork[p] = snapUndo.before[p])
  BY DEF Snap!WasRestored
<1>1. /\ snapUndo.ghost \in DOMAIN snapGhosts /\ p \in SnapPaths
      /\ snapUndo.step = "remove" /\ snapUndo.remove = {}
  BY DEF Snap!RestoreDone, UndoInv, GhostTypeInv, Snap!Idle, Snap!NoUndo, Snap!InScope
<1>2. /\ Snap!Ghost.tree[p] \in {Snap!Ghost.was[p], SnapNoFile}
      /\ snapIndex[p] # SnapNoFile \/ Listing(Snap!Ghost, p)
      /\ Snap!Ghost.tree[p] = SnapNoFile => snapIndex[p] = SnapNoFile
  BY <1>1 DEF Snap!Ghost, UndoInv, CapturedInv, QuietInv
<1>3. p \notin Removed
  BY <1>2 DEF Removed, Snap!Artifact, Snap!ShouldPreserve, Listing
<1>4. snapWork[p] = IF Snap!Ghost.tree[p] # SnapNoFile THEN Snap!Ghost.tree[p]
                ELSE IF snapIndex[p] # SnapNoFile THEN SnapNoFile ELSE snapUndo.before[p]
  BY <1>1, <1>3 DEF UndoInv, RestoreInv
<1>5. QED
  BY <1>2, <1>4

\* And it gives back what the snapshot captured, and leaves what that passed over, as long
\* as nothing is unstaged, no rule of what is ignored changes, and nothing is staged that
\* could have been passed over (create_ghost_commit_with_report, remove_new_untracked).
THEOREM UndoGivesBack ==
  ASSUME Snap!GhostConstants, QuietEdits PROVE Snap!Spec => []Snap!WasRestored
<1>1. Snap!Init => QuietInv
  BY InitQuietInv
<1>2. UndoInv /\ QuietInv /\ [Snap!Next]_(Snap!vars) => QuietInv'
  BY NextQuietInv
<1>3. QED
  BY <1>1, <1>2, UndoInvariance, WasGivenBack, PTL DEF Snap!Spec
=============================================================================
