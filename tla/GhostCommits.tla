---------------------------- MODULE GhostCommits ----------------------------
(***************************************************************************)
(* Snapshots of a working tree and the undo that restores them             *)
(* (crates/utils/git/src/ghost_commits.rs and operations.rs).              *)
(*                                                                         *)
(* A snapshot is a commit on no branch, made over a temporary index, with  *)
(* the lists of untracked files and directories there were.  Restoring it  *)
(* takes three steps: read the status, let git restore the worktree to the *)
(* commit, remove the untracked files the status showed that the lists do  *)
(* not name.  Between snapshots and restores files are written, deleted,   *)
(* staged, unstaged and committed, and ignore rules change.                *)
(*                                                                         *)
(* A path is the sequence of its names.  What git does on the commands     *)
(* that are given to it is external.                                       *)
(***************************************************************************)
EXTENDS Naturals, Sequences, SequencesExt, FiniteSets

CONSTANTS
  Paths,         \* the files that come and go, as sequences of names
  Repos,         \* those of them that are repositories of their own
  IgnoredNames,  \* DEFAULT_IGNORED_DIR_NAMES
  Scope,         \* the directory of the session, relative to the root
  Force,         \* force_include
  Contents,      \* what a file may hold
  Large,         \* the contents over ignore_large_untracked_files bytes
  DirLimit,      \* ignore_large_untracked_dirs
  NoFile,
  Edits,         \* the kinds of edit that happen
  MaxEdits,      \* bound: how many edits
  MaxGhosts      \* bound: how many snapshots

GhostConstants ==
  /\ \A p \in Paths : p \in Seq(ToSet(p))
  /\ Repos \subseteq Paths /\ Force \subseteq Paths \ Repos
  /\ Large \subseteq Contents /\ NoFile \notin Contents
  /\ DirLimit \in Nat \ {0} /\ MaxEdits \in Nat /\ MaxGhosts \in Nat
  /\ Edits \subseteq {"write", "delete", "stage", "unstage", "commit", "ignore"}

VARIABLES
  work,       \* the working tree
  index,      \* the user's index
  head,       \* the tree of HEAD
  ignored,    \* what the ignore rules match
  ghosts,     \* the snapshots taken
  undo,       \* the restore under way
  outcome,    \* how the last snapshot or restore went
  edits

vars == <<work, index, head, ignored, ghosts, undo, outcome, edits>>

Files    == Paths \ Repos
Trees    == [Paths -> Contents \cup {NoFile}]
Empty    == [p \in Paths |-> NoFile]
InScope  == {p \in Paths : IsPrefix(Scope, p)}
Under(p, dirs) == \E d \in dirs : IsPrefix(d, p)

NoUndo == [ghost |-> 0, step |-> "none", remove |-> {}, before |-> Empty]

TypeOK ==
  /\ work \in Trees /\ index \in Trees /\ head \in Trees
  /\ \A p \in Repos : index[p] = NoFile /\ head[p] = NoFile
  /\ ignored \subseteq Paths
  /\ \A i \in DOMAIN ghosts : /\ ghosts[i].tree \in Trees /\ ghosts[i].was \in Trees
                              /\ ghosts[i].files \subseteq InScope
                              /\ \A p \in ghosts[i].files : ghosts[i].was[p] # NoFile
  /\ undo.ghost \in 0..Len(ghosts) /\ undo.remove \subseteq InScope /\ undo.before \in Trees
  /\ undo.step \in {"none", "restore", "remove"}
  /\ outcome \in {"ok", "not created", "refused", "stopped"}
  /\ edits \in 0..MaxEdits

Idle == undo = NoUndo

-----------------------------------------------------------------------------
(* The status of the repository, as capture_status_snapshot reads it.      *)

\* Paths that differ between HEAD, index and worktree; a rename gives both its paths.
TrackedPaths == {p \in InScope : \/ index[p] # head[p]
                                 \/ index[p] # NoFile /\ work[p] # index[p]}

IgnoredByName(p) == \E i \in DOMAIN p : p[i] \in IgnoredNames

Untracked(tree) ==
  {p \in InScope : tree[p] # NoFile /\ index[p] = NoFile /\ p \notin ignored /\ ~IgnoredByName(p)}

\* Directories with many untracked files right in them, all but the root.
LargeDirs(tree) ==
  {d \in {Front(p) : p \in Files} \ {<<>>} :
     Cardinality({p \in Untracked(tree) \cap Files : Front(p) = d}) >= DirLimit}

\* What is untracked outside of those.
Listed == {p \in Untracked(work) : ~Under(p, LargeDirs(work))}

LargeFiles(force)     == {p \in Listed \cap Files : work[p] \in Large /\ p \notin force}
UntrackedFiles(force) == (Listed \cap Files) \ LargeFiles(force)
UntrackedDirs         == Listed \cap Repos

-----------------------------------------------------------------------------
(* Taking a snapshot. *)

\* git add over an index that holds HEAD refuses a path that neither it nor
\* the worktree has, and an ignored one that it does not have.
AddRefuses(p)      == head[p] = NoFile /\ (work[p] = NoFile \/ p \in ignored)
ForceAddRefuses(p) == head[p] = NoFile /\ work[p] = NoFile

IndexPaths == TrackedPaths \cup UntrackedFiles(Force)

PreservedFiles == UntrackedFiles(Force) \cup LargeFiles(Force)

Snapshot ==
  [tree  |-> [p \in Paths |-> IF p \in IndexPaths \cup Force THEN work[p] ELSE head[p]],
   files |-> PreservedFiles,
   dirs  |-> UntrackedDirs \cup LargeDirs(work),
   was   |-> work]

Create ==
  /\ Idle /\ Len(ghosts) < MaxGhosts
  /\ IF (\E p \in IndexPaths : AddRefuses(p)) \/ (\E p \in Force : ForceAddRefuses(p))
     THEN outcome' = "not created" /\ UNCHANGED ghosts
     ELSE outcome' = "ok" /\ ghosts' = Append(ghosts, Snapshot)
  /\ UNCHANGED <<work, index, head, ignored, undo, edits>>

-----------------------------------------------------------------------------
(* Restoring one. *)

Ghost == ghosts[undo.ghost]

ShouldPreserve(g, p) == p \in g.files \/ Under(p, g.dirs)

Removable    == UntrackedFiles({}) \cup UntrackedDirs

RestoreBegins(i) ==
  /\ Idle
  /\ undo' = [ghost |-> i, step |-> "restore", before |-> work,
              remove |-> {p \in Removable : ~ShouldPreserve(ghosts[i], p)}]
  /\ UNCHANGED <<work, index, head, ignored, ghosts, outcome, edits>>

\* git restore: files of the index that the commit lacks go.
Restored(tree, p) == IF tree[p] # NoFile THEN tree[p] ELSE IF index[p] # NoFile THEN NoFile ELSE work[p]

\* mistake: the whole tree is restored from within a directory
Everywhere     == Paths
RestoredPaths  == InScope

\* It refuses a directory of which neither the commit nor the index has a file.
GitRestore ==
  /\ undo.step = "restore"
  /\ IF \E p \in InScope : Ghost.tree[p] # NoFile \/ index[p] # NoFile
     THEN /\ work' = [p \in Paths |-> IF p \in RestoredPaths THEN Restored(Ghost.tree, p) ELSE work[p]]
          /\ undo' = [undo EXCEPT !.step = "remove"]
          /\ UNCHANGED outcome
     ELSE /\ undo' = NoUndo /\ outcome' = "refused"
          /\ UNCHANGED work
  /\ UNCHANGED <<index, head, ignored, ghosts, edits>>

RemoveNew(p) ==
  /\ undo.step = "remove" /\ p \in undo.remove
  /\ work' = [work EXCEPT ![p] = NoFile]
  /\ undo' = [undo EXCEPT !.remove = @ \ {p}]
  /\ UNCHANGED <<index, head, ignored, ghosts, outcome, edits>>

\* A path that cannot be removed ends the restore there.
RemoveFails ==
  /\ undo.step = "remove" /\ undo.remove # {}
  /\ undo' = NoUndo /\ outcome' = "stopped"
  /\ UNCHANGED <<work, index, head, ignored, ghosts, edits>>

RestoreDone == undo.step = "remove" /\ undo.remove = {}

RestoreEnds ==
  /\ RestoreDone
  /\ undo' = NoUndo /\ outcome' = "ok"
  /\ UNCHANGED <<work, index, head, ignored, ghosts, edits>>

-----------------------------------------------------------------------------
(* What happens to the repository otherwise: the session's own edits and   *)
(* git commands, while no restore is under way.                            *)

Edit(kind) == Idle /\ kind \in Edits /\ edits < MaxEdits /\ edits' = edits + 1

Write(p, c) ==
  /\ Edit("write") /\ work[p] # c
  /\ work' = [work EXCEPT ![p] = c]
  /\ UNCHANGED <<index, head, ignored, ghosts, undo, outcome>>

Delete(p) ==
  /\ Edit("delete") /\ work[p] # NoFile
  /\ work' = [work EXCEPT ![p] = NoFile]
  /\ UNCHANGED <<index, head, ignored, ghosts, undo, outcome>>

Stage(p) ==
  /\ Edit("stage") /\ work[p] \notin {NoFile, index[p]} /\ (index[p] # NoFile \/ p \notin ignored)
  /\ index' = [index EXCEPT ![p] = work[p]]
  /\ UNCHANGED <<work, head, ignored, ghosts, undo, outcome>>

\* git rm, git rm --cached, git reset
Unstage(p) ==
  /\ Edit("unstage")
  /\ \E c \in {NoFile, head[p]} \ {index[p]} : index' = [index EXCEPT ![p] = c]
  /\ UNCHANGED <<work, head, ignored, ghosts, undo, outcome>>

Commit ==
  /\ Edit("commit") /\ head # index
  /\ head' = index
  /\ UNCHANGED <<work, index, ignored, ghosts, undo, outcome>>

IgnoreRule(p) ==
  /\ Edit("ignore")
  /\ ignored' = IF p \in ignored THEN ignored \ {p} ELSE ignored \cup {p}
  /\ UNCHANGED <<work, index, head, ghosts, undo, outcome>>

-----------------------------------------------------------------------------
\* A repository in which some files are committed, and others lie untracked.
Init ==
  /\ head \in {t \in Trees : \A p \in Paths : t[p] # NoFile => p \in Files /\ ~IgnoredByName(p) /\ t[p] \notin Large}
  /\ index = head
  /\ work \in {t \in Trees : \A p \in Paths : head[p] # NoFile => t[p] = head[p]}
  /\ ignored \in {{}} \cup (IF "ignore" \in Edits THEN {{p} : p \in {q \in Paths : head[q] = NoFile}} ELSE {})
  /\ ghosts = <<>> /\ undo = NoUndo /\ outcome = "ok" /\ edits = 0

Next ==
  \/ Create \/ \E i \in DOMAIN ghosts : RestoreBegins(i)
  \/ GitRestore \/ \E p \in Paths : RemoveNew(p)
  \/ RemoveFails \/ RestoreEnds
  \/ \E p \in Paths, c \in Contents : Write(p, c)
  \/ \E p \in Paths : Delete(p)
  \/ \E p \in Files : Stage(p) \/ Unstage(p)
  \/ Commit
  \/ \E p \in Paths : IgnoreRule(p)

Spec == Init /\ [][Next]_vars

-----------------------------------------------------------------------------
\* A restore that ends brings back what the snapshot captured and leaves what it
\* passed over as it is: nothing there was is lost or left changed, also after
\* restores that stopped half-way and of other snapshots.
WasRestored ==
  RestoreDone => \A p \in InScope : Ghost.was[p] # NoFile =>
    work[p] = Ghost.was[p] \/ (Ghost.tree[p] = NoFile /\ work[p] = undo.before[p])

Artifact(p) == \/ p \in ignored \/ IgnoredByName(p)
               \/ p \in Files /\ undo.before[p] \in Large
               \/ Under(p, LargeDirs(undo.before))

\* A restore that ends has removed what is new, but for artifacts and what lies in
\* directories that were kept as a whole.
NewRemoved ==
  RestoreDone => \A p \in InScope : Ghost.was[p] = NoFile =>
    work[p] = NoFile \/ (work[p] = undo.before[p] /\ (Artifact(p) \/ Under(p, Ghost.dirs)))

\* Untracked artifacts that the snapshot did not capture are never touched.
ArtifactsKept ==
  ~Idle => \A p \in InScope :
    Artifact(p) /\ index[p] = NoFile /\ Ghost.tree[p] = NoFile => work[p] = undo.before[p]

\* A restore within a directory leaves the rest of the repository alone.
OutsideUntouched == ~Idle => \A p \in Paths \ InScope : work[p] = undo.before[p]

\* Only what was not there at the snapshot is removed ("Removes untracked files and
\* directories that were not present when the snapshot was captured").
\* The code does not keep this: see README.
OnlyNewRemoved ==
  RestoreDone => \A p \in InScope : Ghost.was[p] # NoFile /\ undo.before[p] # NoFile => work[p] # NoFile

\* Large untracked files are on the list of the snapshot and not deleted by undo.
\* The code does not keep this: see README.
LargeKept ==
  RestoreDone => \A p \in Ghost.files : undo.before[p] \in Large => work[p] # NoFile

\* Whatever is staged, changed or deleted, a snapshot can be taken.
\* The code does not keep this: see README.
Created == outcome # "not created"

\* A snapshot that was taken can be restored.
\* The code does not keep this: see README.
NotRefused == outcome # "refused"
=============================================================================
