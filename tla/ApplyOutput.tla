---------------------------- MODULE ApplyOutput -----------------------------
(***************************************************************************)
(* What git apply printed, read line by line into the paths it applied,    *)
(* skipped and left in conflict (parse_git_apply_output in                 *)
(* crates/utils/git/src/apply.rs).  A line is reduced to what its regular  *)
(* expression says of it and the path it names; paths are numbers, in the  *)
(* order the sets of the code keep them in.                                *)
(***************************************************************************)
EXTENDS Naturals, Sequences, FiniteSets, FiniteSetsExt

CONSTANTS
  Paths,       \* numbers
  NoPath,      \* no path was seen
  MaxLines     \* bound: lines of output

ApplyConstants == Paths \subseteq Nat /\ NoPath \notin Paths /\ MaxLines \in Nat

\* "hint" are the early errors, "failed" a three-way merge that failed or lacks its
\* blob, and names no path; "skip" the other errors of a path.
Kinds == {"checking", "clean", "conflict", "hint", "skip", "failed"}
Lines == [kind : Kinds \ {"failed"}, path : Paths] \cup [kind : {"failed"}, path : {NoPath}]

VARIABLES
  applied, skipped, conflicted,
  lastSeen,    \* last_seen_path
  lines        \* the lines read, for the properties

vars == <<applied, skipped, conflicted, lastSeen, lines>>

TypeOK ==
  /\ applied \subseteq Paths /\ skipped \subseteq Paths /\ conflicted \subseteq Paths
  /\ lastSeen \in Paths \cup {NoPath}
  /\ lines \in Seq(Lines) /\ Len(lines) <= MaxLines
  /\ lastSeen = NoPath => \A i \in DOMAIN lines : lines[i].kind = "failed"

Init ==
  /\ applied = {} /\ skipped = {} /\ conflicted = {}
  /\ lastSeen = NoPath /\ lines = <<>>

Read(kind, p) ==
  /\ Len(lines) < MaxLines
  /\ lines' = Append(lines, [kind |-> kind, path |-> p])

\* The path the other sets are cleared of: the greatest of the set the line's path
\* was added to.
Cleared(set) == Max(set)

Checking(p) ==
  /\ Read("checking", p)
  /\ lastSeen' = p
  /\ UNCHANGED <<applied, skipped, conflicted>>

AppliedCleanly(p) ==
  /\ Read("clean", p)
  /\ applied' = applied \cup {p}
  /\ lastSeen' = Cleared(applied')
  /\ conflicted' = conflicted \ {lastSeen'}
  /\ skipped' = skipped \ {lastSeen'}

Noted(p) == p

\* With conflicts, with rejects, unmerged, or binary files that cannot be merged.
Conflicts(p) ==
  /\ Read("conflict", p)
  /\ conflicted' = conflicted \cup {Noted(p)}
  /\ lastSeen' = Cleared(conflicted')
  /\ applied' = applied \ {lastSeen'}
  /\ skipped' = skipped \ {lastSeen'}

Hint(p) ==
  /\ Read("hint", p)
  /\ skipped' = skipped \cup {p}
  /\ lastSeen' = p
  /\ UNCHANGED <<applied, conflicted>>

Skips(p) ==
  /\ Read("skip", p)
  /\ skipped' = skipped \cup {p}
  /\ lastSeen' = Cleared(skipped')
  /\ applied' = applied \ {lastSeen'}
  /\ conflicted' = conflicted \ {lastSeen'}

ThreeWayFailed ==
  /\ Read("failed", NoPath)
  /\ skipped' = skipped \cup ({lastSeen} \ {NoPath})
  /\ applied' = applied \ {lastSeen}
  /\ conflicted' = conflicted \ {lastSeen}
  /\ UNCHANGED lastSeen

Next ==
  \/ \E p \in Paths : \/ Checking(p) \/ AppliedCleanly(p) \/ Conflicts(p)
                      \/ Hint(p) \/ Skips(p)
  \/ ThreeWayFailed

Spec == Init /\ [][Next]_vars

-----------------------------------------------------------------------------
(* The result, after the final precedence. *)

Result == [applied    |-> applied \ conflicted,
           skipped    |-> (skipped \ conflicted) \ applied,
           conflicted |-> conflicted]

\* The path a line is about: a three-way merge that failed is that of the path named
\* last before it.
Named(i) == {k \in 1..i : lines[k].path # NoPath}
PathOf(i) == IF Named(i) = {} THEN NoPath ELSE lines[Max(Named(i))].path

\* The lines that say how it went with a path.
SaysOf(p) == {i \in DOMAIN lines : PathOf(i) = p /\ lines[i].kind # "checking"}

GroupOf(kind) == CASE kind = "clean" -> "applied" [] kind = "conflict" -> "conflicted" [] OTHER -> "skipped"

\* Whatever git printed, a path of which it said how it went is in one group, and
\* in no two.
EachInOneGroup ==
  \A p \in Paths : (\E i \in SaysOf(p) : lines[i].kind # "failed") =>
    Cardinality({g \in DOMAIN Result : p \in Result[g]}) = 1

\* git goes through the files of a diff in order.  As long as it does, a path ends
\* in the group of the last line about it, early errors aside.
LastLineCounts ==
  (\A i \in 2..Len(lines) : PathOf(i - 1) # NoPath => PathOf(i) >= PathOf(i - 1)) =>
    \A p \in Paths : LET said == {i \in SaysOf(p) : lines[i].kind # "hint"}
                     IN said # {} => p \in Result[GroupOf(lines[Max(said)].kind)]

\* last_seen_path is the path of the last line that named one.
\* The code does not keep this: see README.
LastSeenIsLast == lines # <<>> => lastSeen = PathOf(Len(lines))
=============================================================================
