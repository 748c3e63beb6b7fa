----------------------------- MODULE RolloutHead ----------------------------
(***************************************************************************)
(* What a listing learns from the first lines of a rollout file            *)
(* (read_head_summary and build_thread_item, src/src/rollout/list.rs) and  *)
(* what thread/read takes for its header (read_session_meta_line), while   *)
(* the file grows.                                                         *)
(*                                                                         *)
(* A line is its kind: "meta" is the header of the thread, "parent" the    *)
(* header of the one it was forked from, "user" and "wordless" messages of *)
(* the user with and without text, "other" a context, a compaction or any  *)
(* other event.  The bridge writes the file of a thread it started; any    *)
(* program may have written the others.                                    *)
(***************************************************************************)
EXTENDS Naturals, Sequences, SequencesExt, FiniteSets, FiniteSetsExt

CONSTANTS
  Writers,    \* subset of {"bridge", "other"}
  HeadLimit,  \* HEAD_RECORD_LIMIT
  UserLimit,  \* USER_EVENT_SCAN_LIMIT
  MaxLines,   \* lines of the file
  MaxSaid,    \* messages of the user
  None        \* nothing found

Metas  == {"meta", "parent"}
Users  == {"user", "wordless"}
Kinds  == Metas \cup Users \cup {"response", "other", "blank", "torn"}

RolloutHeadConstants ==
  /\ Writers \subseteq {"bridge", "other"}
  /\ {HeadLimit, UserLimit, MaxLines, MaxSaid} \subseteq Nat
  /\ None \notin Kinds

SourceOf   == [meta |-> "vscode", parent |-> "exec"]
ProviderOf == [meta |-> "acp", parent |-> None]

VARIABLES
  writer,  \* who writes the file
  lines,   \* the lines of the file
  said,    \* messages the user has sent in the thread
  asked    \* the sources and providers a listing is limited to, {} for any

vars == <<writer, lines, said, asked>>

TypeOK ==
  /\ writer \in Writers
  /\ lines \in Seq(Kinds) /\ Len(lines) <= MaxLines
  /\ said \in 0..MaxSaid
  /\ asked \in [sources : SUBSET {"vscode", "exec"}, providers : SUBSET {"acp", "openai"}]

Init ==
  /\ writer \in Writers
  /\ lines = <<>>
  /\ said = 0
  /\ asked \in [sources : {{}, {"vscode"}}, providers : {{}, {"acp"}, {"openai"}}]

-----------------------------------------------------------------------------
(* Reading the head.                                                       *)

Nothing == [scanned |-> 0, id |-> None, user |-> FALSE, text |-> None, created |-> None]

Scanning(s) ==
  /\ s.id = None \/ ~s.user
  /\ s.scanned < HeadLimit + (IF s.id = None THEN 0 ELSE UserLimit)

\* Only the first header counts, and it dates the thread.
TakeMeta(s, line) ==
  IF s.id = None THEN [s EXCEPT !.id = line, !.created = line] ELSE s

\* The first words of the user are the preview.
TakeUser(s, line) ==
  [s EXCEPT !.user = TRUE, !.text = IF @ = None /\ line = "user" THEN "user" ELSE @]

ReadLine(s, line) ==
  IF ~Scanning(s) \/ line = "blank" THEN s
  ELSE LET n == [s EXCEPT !.scanned = @ + 1] IN
       CASE line \in Metas -> TakeMeta(n, line)
         [] line \in Users -> TakeUser(n, line)
         [] line = "response" -> [n EXCEPT !.created = IF @ = None THEN "response" ELSE @]
         [] line \in {"other", "torn"} -> n

Summary(file) == FoldLeft(ReadLine, Nothing, file)

\* A thread without a provider is one of the default provider, "acp".
ProviderMatches(provider) ==
  asked.providers = {} \/ (IF provider = None THEN "acp" ELSE provider) \in asked.providers

SourceMatches(s) ==
  asked.sources = {} \/ (s.id # None /\ SourceOf[s.id] \in asked.sources)

Worth(s) ==
  /\ SourceMatches(s)
  /\ ProviderMatches(IF s.id = None THEN None ELSE ProviderOf[s.id])
  /\ s.id # None /\ s.user

Listed(file) == Worth(Summary(file))

\* The entry of the thread in the list.
Item(file) ==
  LET s == Summary(file) IN [id |-> s.id, preview |-> s.text, createdAt |-> s.created]

\* The records of a file, of those a head is made of.
Records(file) == {i \in DOMAIN file : file[i] \in Metas \cup {"response"}}

\* The header thread/read, thread/resume and thread/fork go by, or None.
SessionMeta(file) ==
  IF Records(file) # {} /\ file[Min(Records(file))] \in Metas
  THEN file[Min(Records(file))] ELSE None

-----------------------------------------------------------------------------
(* Writing the file.                                                       *)

Append1(line) == Len(lines) < MaxLines /\ lines' = Append(lines, line)

BridgeStarts ==
  /\ writer = "bridge" /\ lines = <<>>
  /\ Append1("meta")
  /\ UNCHANGED <<writer, said, asked>>

\* A turn leaves no line in the file.
BridgeTurn ==
  /\ writer = "bridge" /\ lines # <<>>
  /\ said < MaxSaid
  /\ said' = said + 1
  /\ UNCHANGED <<writer, lines, asked>>

BridgeRollback ==
  /\ writer = "bridge" /\ lines # <<>>
  /\ Append1("other")
  /\ UNCHANGED <<writer, said, asked>>

OtherWrites ==
  \E line \in Kinds :
    /\ writer = "other"
    /\ Append1(line)
    /\ UNCHANGED <<writer, said, asked>>

Next == BridgeStarts \/ BridgeTurn \/ BridgeRollback \/ OtherWrites

Spec == Init /\ [][Next]_vars

-----------------------------------------------------------------------------
(* Properties.                                                             *)

\* The place of a line, blank ones not counted.
Place(i) == Cardinality({j \in 1..i : lines[j] # "blank"})

\* The summary that stops early finds a thread exactly when its header is
\* among the first HeadLimit lines and a message of the user among the first
\* HeadLimit + UserLimit, blank lines not counted, and it is not filtered out
\* by the source and the provider of that header.
ListedWhenFound ==
  LET metas == {i \in DOMAIN lines : lines[i] \in Metas}
      users == {i \in DOMAIN lines : lines[i] \in Users}
      First(S, i) == i \in S /\ \A j \in S : i <= j
  IN  Listed(lines) <=>
        \E m \in metas, u \in users :
          /\ First(metas, m) /\ First(users, u)
          /\ Place(m) <= HeadLimit /\ Place(u) <= HeadLimit + UserLimit
          /\ asked.sources = {} \/ SourceOf[lines[m]] \in asked.sources
          /\ ProviderMatches(ProviderOf[lines[m]])

\* The list and thread/read take the same header for the thread: reading a
\* listed thread shows that thread, or fails.
ReadShowsListed ==
  Listed(lines) => SessionMeta(lines) \in {None, Item(lines).id}

\* The recorder "writes turn events to per-thread rollout files", so a thread
\* the user has said something in is listed.
\* The code does not keep this: see README.
TurnsAreListed == writer = "bridge" /\ said > 0 /\ asked.providers = {} => Listed(lines)
=============================================================================
