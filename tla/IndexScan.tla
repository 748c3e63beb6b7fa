----------------------------- MODULE IndexScan -----------------------------
(***************************************************************************)
(* How the session index is searched from its end (scan_index_from_end in  *)
(* src/src/rollout/session_index.rs): the file is read backwards in        *)
(* chunks, a line is gathered byte by byte across their borders and tried  *)
(* when its beginning is reached, and the first match ends the search.     *)
(* Meanwhile other entries are appended.                                   *)
(*                                                                         *)
(* A line is an entry when it has two bytes, a thread and a name.          *)
(***************************************************************************)
EXTENDS Naturals, Sequences, SequencesExt, FiniteSets, FiniteSetsExt

CONSTANTS
  Bytes,       \* bytes other than the newline
  Newline,
  Target,      \* the thread that is looked for
  MaxLength,   \* bytes of the file when it is opened
  ChunkSizes,  \* READ_CHUNK_SIZE
  MaxAppends,  \* entries appended during the search
  NoEntry      \* nothing found

IndexScanConstants ==
  /\ MaxLength \in Nat /\ MaxAppends \in Nat
  /\ ChunkSizes \subseteq Nat \ {0}
  /\ Newline \notin Bytes /\ Target \in Bytes
  /\ NoEntry \notin Seq(Bytes)

Contents == UNION {[1..n -> Bytes \cup {Newline}] : n \in 0..MaxLength}

VARIABLES
  file, chunk, opened, appends,
  remaining,  \* bytes before the ones read
  lineRev,    \* line_rev: the line that is being gathered, backwards
  found,      \* the entry found
  done

vars == <<file, chunk, opened, appends, remaining, lineRev, found, done>>

TypeOK ==
  /\ file \in Seq(Bytes \cup {Newline})
  /\ chunk \in ChunkSizes
  /\ opened \in 0..MaxLength /\ remaining \in 0..opened
  /\ appends \in 0..MaxAppends
  /\ lineRev \in Seq(Bytes)
  /\ found \in Seq(Bytes) \cup {NoEntry}
  /\ done \in BOOLEAN

Init ==
  /\ file \in Contents
  /\ chunk \in ChunkSizes
  /\ opened = Len(file)
  /\ appends = 0
  /\ remaining = opened
  /\ lineRev = <<>>
  /\ found = NoEntry
  /\ done = FALSE

-----------------------------------------------------------------------------
Matches(line) == Len(line) = 2 /\ line[1] = Target

\* parse_line_from_rev
TryLine(rev) == IF Matches(Reverse(rev)) THEN Reverse(rev) ELSE NoEntry

\* One byte, read from the end of the chunk; nothing after a match.
TakeByte(byte, scan) ==
  IF scan.found # NoEntry THEN scan
  ELSE IF byte = Newline THEN [line |-> <<>>, found |-> TryLine(scan.line)]
  ELSE [scan EXCEPT !.line = Append(@, byte)]

ScanChunk(from, size, line) ==
  FoldLeft(LAMBDA scan, byte : TakeByte(byte, scan), [line |-> line, found |-> NoEntry],
           Reverse(SubSeq(file, from + 1, from + size)))

ReadChunk ==
  LET size == IF remaining < chunk THEN remaining ELSE chunk
      scan == ScanChunk(remaining - size, size, lineRev)
  IN  /\ ~done
      /\ remaining > 0
      /\ remaining' = remaining - size
      /\ lineRev' = scan.line
      /\ found' = scan.found
      /\ done' = (scan.found # NoEntry)
      /\ UNCHANGED <<file, chunk, opened, appends>>

\* The first line has no newline before it.
LastTry ==
  /\ ~done
  /\ remaining = 0
  /\ found' = TryLine(lineRev)
  /\ done' = TRUE
  /\ UNCHANGED <<file, chunk, opened, appends, remaining, lineRev>>

Appended(name) ==
  /\ appends < MaxAppends
  /\ appends' = appends + 1
  /\ file' = file \o <<Target, name, Newline>>
  /\ UNCHANGED <<chunk, opened, remaining, lineRev, found, done>>

Next == ReadChunk \/ LastTry \/ \E name \in Bytes : Appended(name)

Spec == Init /\ [][Next]_vars
FairSpec == Spec /\ WF_vars(ReadChunk) /\ WF_vars(LastTry)

-----------------------------------------------------------------------------
(* Properties.                                                             *)

\* The lines of the file as it was opened: the stretches between newlines.
Lines ==
  {l \in (1..opened) \X (1..opened) :
     /\ l[1] <= l[2]
     /\ l[1] = 1 \/ file[l[1] - 1] = Newline
     /\ l[2] = opened \/ file[l[2] + 1] = Newline
     /\ \A i \in l[1]..l[2] : file[i] # Newline}

Entries == {l \in Lines : Matches(SubSeq(file, l[1], l[2]))}

\* However the chunks cut the lines and whatever is appended meanwhile, the
\* search answers the newest entry of the file it opened.
FindsNewest ==
  done => IF Entries = {} THEN found = NoEntry
          ELSE LET last == CHOOSE l \in Entries : \A k \in Entries : k[1] <= l[1]
               IN  found = SubSeq(file, last[1], last[2])

=============================================================================
