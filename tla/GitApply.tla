------------------------------ MODULE GitApply ------------------------------
(***************************************************************************)
(* Patches applied to a worktree and taken back (apply_git_patch in        *)
(* crates/utils/git/src/apply.rs).  A patch is applied with git apply      *)
(* --3way, which asks that index and worktree agree, so a revert stages    *)
(* the files of the patch first; a preflight only runs git apply --check.  *)
(* Between calls, and between the two commands of a revert, the user       *)
(* writes files and changes the index.                                     *)
(*                                                                         *)
(* A name is the sequence of its characters, for the code reads the names  *)
(* of a patch out of its headers.  What git does is external: it was       *)
(* tried on each state of one file that the constants allow.               *)
(***************************************************************************)
EXTENDS Naturals, Sequences, SequencesExt

CONSTANTS
  Names,       \* the files
  Ignored,     \* those the ignore rules match
  Patches,     \* functions of some names to what they are made from and made to
  Contents,    \* what a file may hold
  Absent,      \* no file, no entry in the index
  Marks,       \* a file with the marks of a conflict
  Unmerged,    \* the index entry of such a file
  Blobs,       \* the repository has the blobs the patches name
  NoPatch,
  MaxEdits     \* bound: what the user does

Held    == Contents \cup {Absent}
Changes == {c \in [from : Held, to : Held] : c.from # c.to}

ASSUME ApplyConstants ==
  /\ Ignored \subseteq Names /\ Blobs \in BOOLEAN /\ MaxEdits \in Nat
  /\ {Absent, Marks, Unmerged} \cap Contents = {} /\ Absent # Unmerged /\ Marks \notin {Absent, Unmerged}
  /\ \A q \in Patches : DOMAIN q \subseteq Names /\ \A p \in DOMAIN q : q[p] \in Changes
  /\ NoPatch \notin Patches

VARIABLES
  work, index,
  call,        \* the revert that has staged its files and not run git apply yet
  applied,     \* the patch that was applied and whose files the user has left alone since
  checked,     \* the preflight that succeeded on files as the index has them, nothing since
  last,        \* how the last call ended, and if nothing came in its way
  edits

vars == <<work, index, call, applied, checked, last, edits>>

Requests == [patch : Patches \cup {NoPatch}, revert : BOOLEAN]
NoCall   == [patch |-> NoPatch, revert |-> FALSE]
Ends     == {"none", "ok", "failed", "not run"}

TypeOK ==
  /\ work \in [Names -> Held \cup {Marks}]
  /\ index \in [Names -> Held \cup {Marks, Unmerged}]
  /\ call \in Requests /\ checked \in Requests
  /\ call.patch # NoPatch => call.revert
  /\ applied \in Patches \cup {NoPatch}
  /\ last \in [request : Requests, end : Ends, undoes : BOOLEAN, foretold : BOOLEAN]
  /\ edits \in 0..MaxEdits

-----------------------------------------------------------------------------
(* The names of a patch. *)

Space == 32

\* git writes a name in quotes, with escapes, if it has characters that are none of
\* printable ASCII; a space alone is none of these.
Quoted(n) == \E i \in DOMAIN n : n[i] < 32 \/ n[i] >= 127 \/ n[i] \in {34, 92}

\* The bytes of a name, of characters of at most two bytes.
Bytes(n) == FlattenSeq([i \in DOMAIN n |-> IF n[i] < 128 THEN <<n[i]>>
                                           ELSE <<192 + (n[i] \div 64), 128 + (n[i] % 64)>>])

\* An escape of octal digits stands for a byte, and is read as a character.
Unescape(n) == Bytes(n)

FirstWord(n) == LET k == SelectInSeq(n, LAMBDA c : c = Space)
                IN  IF k = 0 THEN n ELSE SubSeq(n, 1, k - 1)
AfterWord(n) == SubSeq(n, Len(FirstWord(n)) + 2, Len(n))

\* The two names of a header diff --git a/n b/n: a name without quotes ends at a space.
HeaderNames(n) ==
  IF Quoted(n) THEN {Unescape(n)}
  ELSE IF Space \in ToSet(n) THEN {FirstWord(n), FirstWord(AfterWord(n))}
  ELSE {n}

\* mistake: only the files a patch leaves are looked for
PathsLeft(q) == UNION {HeaderNames(n) : n \in {m \in DOMAIN q : q[m].from # Absent}}

PathsOf(q) == UNION {HeaderNames(n) : n \in DOMAIN q}

-----------------------------------------------------------------------------
(* git. *)

\* What a patch makes of a file, in the direction asked for.
From(r, p) == IF r.revert THEN r.patch[p].to ELSE r.patch[p].from
To(r, p)   == IF r.revert THEN r.patch[p].from ELSE r.patch[p].to

\* git add: an ignored file that the index does not have is refused, the others are added.
Add(names) == [p \in Names |-> IF p \in names /\ (p \in Ignored => index[p] # Absent)
                               THEN work[p] ELSE index[p]]

\* git apply --check looks at the worktree alone.
Checks(r) == \A p \in DOMAIN r.patch : work[p] = From(r, p)

InIndex(p) == index[p] \notin {Absent, Unmerged}

\* Files that are gone are taken from the index before the patch is tried.
Restored(r) == [p \in Names |-> IF p \in DOMAIN r.patch /\ work[p] = Absent /\ InIndex(p)
                                THEN index[p] ELSE work[p]]

\* git apply --3way takes a file as the index has it, or a new one there is no file of.
\* One that is neither as it was before the patch nor as it is after can be merged if it
\* is changed and the blobs are there, and if it is new to the patch alone.
Matches(r, p) == InIndex(p) /\ Restored(r)[p] = index[p]
Merges(r, p)  == From(r, p) = Absent \/ (To(r, p) # Absent /\ Blobs)
Takes(r, p)   == \/ Matches(r, p) /\ (index[p] = From(r, p) \/ Merges(r, p))
                 \/ From(r, p) = Absent /\ ~InIndex(p) /\ work[p] = Absent

Conflicts(r) == {p \in DOMAIN r.patch : Matches(r, p) /\ index[p] \notin {From(r, p), To(r, p)}}

TakesAll(r) == \A p \in DOMAIN r.patch : Takes(r, p)

Patched(r, tree, mark) ==
  [p \in Names |-> IF p \notin DOMAIN r.patch THEN tree[p]
                   ELSE IF p \in Conflicts(r) THEN mark ELSE To(r, p)]

-----------------------------------------------------------------------------
(* Calls. *)

NoEnd == [request |-> NoCall, end |-> "none", undoes |-> FALSE, foretold |-> FALSE]

Init ==
  /\ work \in [Names -> Held] /\ index = work
  /\ call = NoCall /\ applied = NoPatch /\ checked = NoCall /\ edits = 0
  /\ last = NoEnd

Idle == call = NoCall

Ended(r, end, real) ==
  last' = [request |-> r, end |-> end,
           undoes   |-> real /\ r.revert /\ applied = r.patch,
           foretold |-> real /\ checked = r]

\* No root is found, or git cannot be run.
NotRun(r) ==
  /\ call \in {NoCall, r}
  /\ Ended(r, "not run", FALSE)
  /\ call' = NoCall
  /\ UNCHANGED <<work, index, applied, checked, edits>>

\* mistake: a revert is checked as if it were to be applied
CheckForward(r) == r.patch # NoPatch /\ Checks([r EXCEPT !.revert = FALSE])

CheckArgs(r) == r.patch # NoPatch /\ Checks(r)

Preflight(r) ==
  /\ Idle
  /\ Ended(r, IF CheckArgs(r) THEN "ok" ELSE "failed", FALSE)
  /\ checked' = IF CheckArgs(r) /\ \A p \in DOMAIN r.patch : index[p] = work[p]
                THEN r ELSE NoCall
  /\ UNCHANGED <<work, index, call, applied, edits>>

\* Only the paths that are there are staged, and a failure is passed over.
\* mistake: all that is there is staged
AllStaged(q) == Add({p \in Names : work[p] # Absent})

Staged(q) == Add({p \in PathsOf(q) \cap Names : work[p] # Absent})

StagePaths(q) ==
  /\ Idle
  /\ index' = Staged(q)
  /\ call' = [patch |-> q, revert |-> TRUE]
  /\ UNCHANGED <<work, applied, checked, last, edits>>

\* git apply has taken all of the patch, some of it with conflicts.
Succeeds(r) ==
  /\ TakesAll(r)
  /\ work' = Patched(r, work, Marks)
  /\ index' = Patched(r, index, Unmerged)
  /\ Ended(r, IF Conflicts(r) = {} THEN "ok" ELSE "failed", TRUE)
  /\ applied' = IF Conflicts(r) = {} /\ ~r.revert THEN r.patch ELSE NoPatch

Refused(r) ==
  /\ ~TakesAll(r)
  /\ work' = Restored(r)
  /\ UNCHANGED index
  /\ Ended(r, "failed", TRUE)
  /\ applied' = NoPatch

GitApplies(r) == (Succeeds(r) \/ Refused(r)) /\ call' = NoCall /\ checked' = NoCall /\ UNCHANGED edits

Apply(q)  == Idle /\ GitApplies([patch |-> q, revert |-> FALSE])
Revert(q) == call = [patch |-> q, revert |-> TRUE] /\ GitApplies(call)

-----------------------------------------------------------------------------
(* The user. *)

Edited(p) ==
  /\ edits < MaxEdits /\ edits' = edits + 1
  /\ last' = NoEnd
  /\ checked' = IF checked # NoCall /\ p \in DOMAIN checked.patch THEN NoCall ELSE checked

Leaves(p) == applied' = IF applied # NoPatch /\ p \in DOMAIN applied THEN NoPatch ELSE applied

Write(p, c) ==
  /\ work[p] # c /\ work' = [work EXCEPT ![p] = c]
  /\ Edited(p) /\ Leaves(p)
  /\ UNCHANGED <<index, call>>

\* Files are staged, in part too, unstaged, and the index is reset to other commits.
\* A file the patch has removed must not come to be another one there.
Stage(p, c) ==
  /\ index[p] # c /\ index' = [index EXCEPT ![p] = c]
  /\ Edited(p)
  /\ IF /\ Idle /\ applied # NoPatch /\ p \in DOMAIN applied
        /\ applied[p].to # Absent \/ c \in {Absent, applied[p].from}
     THEN UNCHANGED applied ELSE Leaves(p)
  /\ UNCHANGED <<work, call>>

Next ==
  \/ \E q \in Patches : \/ Apply(q) \/ StagePaths(q) \/ Revert(q)
                        \/ \E back \in BOOLEAN : \/ Preflight([patch |-> q, revert |-> back])
                                                 \/ NotRun([patch |-> q, revert |-> back])
  \/ \E p \in Names, c \in Held : Write(p, c) \/ Stage(p, c)

Spec == Init /\ [][Next]_vars

-----------------------------------------------------------------------------
(* Properties. *)

\* A patch that was applied and whose files were left alone since is taken back by a
\* revert, whatever the user has staged, unstaged or committed of them and has done to
\* other files: each file is what the patch was made from again (apply.rs:49-52).
RevertUndoes ==
  last.undoes => /\ last.end = "ok"
                 /\ \A p \in DOMAIN last.request.patch : work[p] = last.request.patch[p].from

\* If a preflight finds that a patch applies, or can be taken back, to files that are as
\* the index has them, and nothing has been done to them since, then the call that
\* does it succeeds (apply.rs:76-101).
PreflightForetells == last.foretold => last.end = "ok"

\* The same of any files.
\* The code does not keep this: see README.
PreflightShows ==
  [][\A r \in Requests :
       /\ last.request = r /\ last.end = "ok" /\ CheckArgs(r) /\ ~r.revert
       /\ last'.request = r /\ edits' = edits
       => last'.end # "failed"]_vars

\* A call changes no file and no index entry but those of its patch (apply.rs:193, 319).
OnlyItsFiles ==
  [][edits' = edits =>
       LET q == IF Idle' THEN last'.request.patch ELSE call'.patch
       IN  \A p \in Names : work'[p] # work[p] \/ index'[p] # index[p] => p \in DOMAIN q]_vars
=============================================================================
