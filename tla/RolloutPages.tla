---------------------------- MODULE RolloutPages ----------------------------
(***************************************************************************)
(* Paging through rollout files (get_threads, src/src/rollout/list.rs):    *)
(* each page walks the files again, newest first by the time they were     *)
(* created or last written, drops what is not after the cursor and what is *)
(* not a thread worth showing, and stops at the page size or at the scan   *)
(* cap.  Between two pages files are created, written to and archived.     *)
(*                                                                         *)
(* A file is a number, which is also what its UUID sorts by.  Times are    *)
(* whole seconds, as the file names and the truncated modification times   *)
(* have them, so several files share one.                                  *)
(***************************************************************************)
EXTENDS Naturals, Sequences, SequencesExt, FiniteSets

CONSTANTS
  MaxFile,    \* files that can ever exist
  MaxTime,    \* seconds
  ScanCap,    \* MAX_SCAN_FILES
  PageSizes,  \* page sizes the client asks for
  SortKeys,   \* what clients send as sortKey
  AgentLists, \* whether the agent answers session/list
  Layouts,    \* subset of {"nested", "flat"}: ThreadListLayout
  NoCursor    \* no cursor

Files == 1..MaxFile
Times == 0..MaxTime

RolloutPagesConstants ==
  /\ MaxFile \in Nat /\ MaxTime \in Nat /\ ScanCap \in Nat
  /\ PageSizes \subseteq Nat \ {0}
  /\ SortKeys \subseteq {"created_at", "updated_at", "updatedAt"}
  /\ AgentLists \in BOOLEAN
  /\ Layouts \subseteq {"nested", "flat"}
  /\ NoCursor \notin [ts : Times, id : Files]

VARIABLES
  files,    \* the rollout files
  created,  \* the second in the name of each
  updated,  \* the second it was last written in
  hidden,   \* files without a user message, or of another source or provider
  now,
  listing,  \* what the client asks for: sort key, layout, page size
  sessions, \* files whose thread the agent knows as a session
  foreign,  \* files listed as a session of the agent
  next,     \* the cursor of the next page, or NoCursor
  shown,    \* the files the pages have shown
  fresh,    \* files whose place changed since the first page
  status    \* "new", "paging" or "end"

worldVars == <<files, created, updated, hidden, now>>
vars == <<files, created, updated, hidden, now, listing, sessions, foreign, next, shown,
          fresh, status>>

TypeOK ==
  /\ files \subseteq Files
  /\ created \in [Files -> Times] /\ updated \in [Files -> Times]
  /\ hidden \subseteq Files
  /\ now \in Times
  /\ listing \in [key : SortKeys, layout : Layouts, size : PageSizes]
  /\ sessions \subseteq Files /\ foreign \subseteq sessions
  /\ next \in [ts : Times, id : Files] \cup {NoCursor}
  /\ shown \in Seq(Files)
  /\ fresh \subseteq Files
  /\ status \in {"new", "paging", "end"}

Init ==
  /\ files \in SUBSET Files
  /\ now \in Times
  /\ created \in [Files -> Times] /\ updated \in [Files -> Times]
  /\ \A f \in Files : IF f \in files THEN created[f] <= updated[f] /\ updated[f] <= now
                                     ELSE created[f] = 0 /\ updated[f] = 0
  /\ hidden \in SUBSET Files
  /\ listing \in [key : SortKeys, layout : Layouts, size : PageSizes]
  /\ sessions \in IF AgentLists THEN SUBSET files ELSE {{}}
  /\ foreign = {}
  /\ next = NoCursor
  /\ shown = <<>>
  /\ fresh = {}
  /\ status = "new"

-----------------------------------------------------------------------------
(* One page.                                                               *)

\* The spelling that sorts by modification time.
SortedByUpdate == listing.key = "updatedAt"

\* The time in the file's name; the modification time, to the second.
CreatedAt(f) == created[f]
UpdatedAt(f) == updated[f]

TimeOf(f) == IF SortedByUpdate THEN UpdatedAt(f) ELSE CreatedAt(f)

\* (Reverse(ts), Reverse(id))
Before(ts, id, ts2, id2) == ts > ts2 \/ (ts = ts2 /\ id > id2)

Newer(f, g) == Before(TimeOf(f), f, TimeOf(g), g)

NewerName(f, g) == Before(CreatedAt(f), f, CreatedAt(g), g)

\* The nested directories are walked newest first.
NestedWalk(walk) == \A f \in walk, g \in files \ walk : NewerName(f, g)

\* A flat directory is walked in whatever order it is read.
FlatWalk(walk) == walk \subseteq files

\* Either walk ends after ScanCap files.
Walked(walk) ==
  /\ Cardinality(walk) =
       (IF Cardinality(files) < ScanCap THEN Cardinality(files) ELSE ScanCap)
  /\ IF listing.layout = "nested" THEN NestedWalk(walk) ELSE FlatWalk(walk)

\* mistake: the file of the cursor is shown again
KeepAnchor(cursor, f) ==
  cursor = NoCursor \/ f = cursor.id \/ Before(cursor.ts, cursor.id, TimeOf(f), f)

\* AnchorState::should_skip
AfterCursor(cursor, f) ==
  cursor = NoCursor \/ Before(cursor.ts, cursor.id, TimeOf(f), f)

\* build_next_cursor
CursorAt(item) == [ts |-> TimeOf(item), id |-> item]

\* The candidates of a page.
Candidates(cursor, walk) == {f \in walk : AfterCursor(cursor, f)}

NewestFirst(S) ==
  CHOOSE s \in SetToSeqs(S) : \A i, j \in DOMAIN s : i < j => Newer(s[i], s[j])

\* Whether there may be more behind the page: the walk went on past a full
\* page, or it ended at the cap.
MoreBehind(walk, after, page) ==
  \/ Len(page) = listing.size /\ \E f \in after : Newer(Last(page), f)
  \/ Cardinality(walk) >= ScanCap /\ page # <<>>

Page(cursor, walk) ==
  LET after == Candidates(cursor, walk)
      items == NewestFirst(after \ hidden)
      page  == SubSeq(items, 1, IF Len(items) < listing.size THEN Len(items)
                                                             ELSE listing.size)
  IN  [items |-> page,
       next  |-> IF MoreBehind(walk, after, page) THEN CursorAt(Last(page)) ELSE NoCursor]

\* The sessions of the agent whose thread is not on this page.
Unlisted(page) == sessions \ ToSet(page)

ListPage ==
  \E walk \in SUBSET files :
    LET page == Page(next, walk) IN
    /\ status # "end"
    /\ Walked(walk)
    /\ shown' = shown \o page.items
    /\ foreign' = IF next = NoCursor THEN Unlisted(page.items) ELSE foreign
    /\ next' = page.next
    /\ status' = IF page.next = NoCursor THEN "end" ELSE "paging"
    /\ UNCHANGED <<worldVars, listing, sessions, fresh>>

-----------------------------------------------------------------------------
(* What happens between two pages.                                         *)

Tick ==
  /\ status = "paging"
  /\ now < MaxTime
  /\ now' = now + 1
  /\ UNCHANGED <<files, created, updated, hidden, listing, sessions, foreign, next,
                 shown, fresh, status>>

FileCreated(f) ==
  /\ status = "paging"
  /\ f \notin files \cup fresh
  /\ files' = files \cup {f}
  /\ created' = [created EXCEPT ![f] = now]
  /\ updated' = [updated EXCEPT ![f] = now]
  /\ fresh' = fresh \cup {f}
  /\ UNCHANGED <<hidden, now, listing, sessions, foreign, next, shown, status>>

FileWritten(f) ==
  /\ status = "paging"
  /\ f \in files
  /\ updated[f] # now
  /\ updated' = [updated EXCEPT ![f] = now]
  /\ fresh' = IF SortedByUpdate THEN fresh \cup {f} ELSE fresh
  /\ UNCHANGED <<files, created, hidden, now, listing, sessions, foreign, next, shown, status>>

FileArchived(f) ==
  /\ status = "paging"
  /\ f \in files
  /\ files' = files \ {f}
  /\ fresh' = fresh \cup {f}
  /\ UNCHANGED <<created, updated, hidden, now, listing, sessions, foreign, next, shown, status>>

Next ==
  \/ ListPage
  \/ Tick
  \/ \E f \in Files : FileCreated(f) \/ FileWritten(f) \/ FileArchived(f)

Spec == Init /\ [][Next]_vars

-----------------------------------------------------------------------------
(* Properties.                                                             *)

\* "Ordering is stable" and the cursor is "resilient to concurrent new
\* sessions": no file is shown on two pages, even one that was written to,
\* and one that was created meanwhile takes nobody's place.
ShownOnce == IsInjective(shown)

\* When the last page has no cursor, every thread worth showing that nobody
\* touched was shown.
AllShown ==
  status = "end" => files \ (hidden \cup fresh) \subseteq ToSet(shown)

\* Over all pages the untouched files appear in the order asked for.
ShownInOrder ==
  \A i, j \in DOMAIN shown :
    i < j /\ {shown[i], shown[j]} \cap fresh = {} => Newer(shown[i], shown[j])

\* "sessions we may not have local rollout files for" are added to the first
\* page: no thread is listed both as a session and from its file.
\* The code does not keep this: see README.
ListedOnce == foreign \cap ToSet(shown) = {}

\* The threads appear in the order the client asked for.
\* The code does not keep this: see README.
SortedAsAsked ==
  LET Asked(f) == IF listing.key = "updated_at" THEN updated[f] ELSE created[f] IN
  fresh = {} => \A i, j \in DOMAIN shown : i < j => Asked(shown[i]) >= Asked(shown[j])
=============================================================================
