---------------------------- MODULE SessionIndex ----------------------------
(***************************************************************************)
(* The append-only index of thread names                                   *)
(* (src/src/rollout/session_index.rs) and its two writers: the handler of  *)
(* thread/name/set, which waits for its append before it announces the     *)
(* name, and the agent's session titles, which are announced at once and   *)
(* appended by a task of their own.                                        *)
(*                                                                         *)
(* A name is its text without the blanks around it, and whether there are  *)
(* any.  A rename is numbered by the order in which it was asked for.      *)
(***************************************************************************)
EXTENDS Naturals, Sequences, SequencesExt, FiniteSets, FiniteSetsExt

CONSTANTS
  Threads,
  Texts,        \* texts of names
  EmptyText,    \* the text of a blank name, which may be in Texts
  MaxRenames,   \* renames in a behaviour
  AgentTitles,  \* does the agent send titles?
  AppendFails,  \* can an append fail?
  Restarts,     \* can the process end and begin again?
  NoRename      \* nothing is being renamed, or no name

Names   == [text : Texts, padded : BOOLEAN]
Renames == [number : 1..MaxRenames, thread : Threads, name : Names]

SessionIndexConstants ==
  /\ MaxRenames \in Nat
  /\ AgentTitles \in BOOLEAN /\ AppendFails \in BOOLEAN /\ Restarts \in BOOLEAN
  /\ NoRename \notin Names \cup Renames

VARIABLES
  index,      \* the entries of session_index.jsonl
  naming,     \* the rename the handler of thread/name/set waits for
  landing,    \* the titles whose tasks have not appended them yet
  announced,  \* the last rename announced for each thread
  renames     \* how many there were

vars == <<index, naming, landing, announced, renames>>

TypeOK ==
  /\ index \in Seq(Renames)
  /\ naming \in Renames \cup {NoRename}
  /\ landing \subseteq Renames
  /\ announced \in [Threads -> Renames \cup {NoRename}]
  /\ renames \in 0..MaxRenames

Init ==
  /\ index = <<>>
  /\ naming = NoRename
  /\ landing = {}
  /\ announced = [t \in Threads |-> NoRename]
  /\ renames = 0

-----------------------------------------------------------------------------
(* Writing.                                                                *)

Rename(t, n) == [number |-> renames + 1, thread |-> t, name |-> n]

Announce(r) == announced' = [announced EXCEPT ![r.thread] = r]

\* mistake: the handler announces the name and lets a task append it
NameSetLater(t, n) ==
  /\ naming = NoRename /\ renames < MaxRenames
  /\ renames' = renames + 1
  /\ landing' = landing \cup {Rename(t, n)}
  /\ Announce(Rename(t, n))
  /\ UNCHANGED <<index, naming>>

NameSet(t, n) ==
  /\ naming = NoRename
  /\ renames < MaxRenames
  /\ renames' = renames + 1
  /\ naming' = Rename(t, n)
  /\ UNCHANGED <<index, landing, announced>>

NameAppended ==
  /\ naming # NoRename
  /\ index' = Append(index, naming)
  /\ Announce(naming)
  /\ naming' = NoRename
  /\ UNCHANGED <<landing, renames>>

NameFailed ==
  /\ AppendFails
  /\ naming # NoRename
  /\ naming' = NoRename
  /\ UNCHANGED <<index, landing, announced, renames>>

AgentTitle(t, n) ==
  /\ AgentTitles
  /\ naming = NoRename
  /\ renames < MaxRenames
  /\ renames' = renames + 1
  /\ landing' = landing \cup {Rename(t, n)}
  /\ Announce(Rename(t, n))
  /\ UNCHANGED <<index, naming>>

TitleAppended(r) ==
  /\ index' = Append(index, r)
  /\ landing' = landing \ {r}
  /\ UNCHANGED <<naming, announced, renames>>

\* The process ends before or after what is under way is in the file.
Restart ==
  /\ Restarts
  /\ naming # NoRename \/ landing # {}
  /\ \/ index' = index
     \/ naming # NoRename /\ index' = Append(index, naming)
  /\ naming' = NoRename
  /\ landing' = {}
  /\ UNCHANGED <<announced, renames>>

Next ==
  \/ \E t \in Threads, n \in Names : NameSet(t, n) \/ AgentTitle(t, n)
  \/ NameAppended \/ NameFailed \/ Restart
  \/ \E r \in landing : TitleAppended(r)

\* Every append that was begun ends.
Fairness == WF_vars(NameAppended) /\ \A t \in Threads :
  WF_vars(\E r \in landing : r.thread = t /\ TitleAppended(r))

Spec == Init /\ [][Next]_vars
FairSpec == Spec /\ Fairness

-----------------------------------------------------------------------------
(* Reading.                                                                *)

Trim(n) == [n EXCEPT !.padded = FALSE]
Blank(n) == n.text = EmptyText

\* The last entry, which is what a scan from the end finds first.
LastOf(found) == IF found = {} THEN NoRename ELSE index[Max(found)]

\* find_thread_name_by_id: from the end, the first entry of the thread
NameById(t) == LastOf({i \in DOMAIN index : index[i].thread = t})

\* find_thread_names_by_ids: from the beginning, blank names passed over
NameByIds(t) == LastOf({i \in DOMAIN index : index[i].thread = t /\ ~Blank(index[i].name)})

\* What thread/read and thread/list show.
ReadShows(t) == IF NameById(t) = NoRename THEN NoRename ELSE NameById(t).name
ListShows(t) == IF NameByIds(t) = NoRename THEN NoRename ELSE Trim(NameByIds(t).name)

\* find_thread_id_by_name, from the end
IdByName(n) ==
  LET entry == LastOf({i \in DOMAIN index : index[i].name = n})
  IN  IF Blank(n) \/ entry = NoRename THEN NoRename ELSE entry.thread

-----------------------------------------------------------------------------
(* Properties.                                                             *)

\* What thread/read would show and what thread/list would show is the same
\* name, "the latest thread name", but for the blanks around it.
ReadersAgree ==
  \A t \in Threads :
    (IF ReadShows(t) = NoRename THEN NoRename ELSE Trim(ReadShows(t))) = ListShows(t)

\* A name the client was told of is never replaced by an older one: whatever
\* failed and whenever the process ended, the index shows it or a newer one.
NothingOlderShown ==
  \A t \in Threads :
    announced[t] # NoRename /\ landing = {} =>
      NameById(t) # NoRename /\ NameById(t).number >= announced[t].number

\* "The index is append-only; the most recent entry wins": when no append is
\* under way the name shown is the one announced last.
\* The code does not keep this: see README.
LastAnnouncedShown ==
  naming = NoRename /\ landing = {} =>
    \A t \in Threads : announced[t] # NoRename => ReadShows(t) = announced[t].name

\* "Find the most recently updated thread id for a thread name": a name that
\* some thread has now finds a thread that has it.
\* The code does not keep this: see README.
HolderFound ==
  \A t \in Threads :
    ReadShows(t) # NoRename /\ ~Blank(ReadShows(t))
      => ReadShows(IdByName(ReadShows(t))) = ReadShows(t)

=============================================================================
