----------------------------- MODULE ThreadPages -----------------------------
(***************************************************************************)
(* The composite thread list (merge_threads and its cursors,               *)
(* src/src/hybrid.rs): a client pages through the tasks of both backends   *)
(* with a cursor that holds a position in each.  Native Codex answers in   *)
(* batches, sorted as it was asked, after an anchor of its own; the Grok   *)
(* adapter has no rollout it lists, so it answers with every session of    *)
(* the agent at once, in the agent's order and without a cursor.           *)
(*                                                                         *)
(* A task is a number, which is also what its id sorts by; key is the time *)
(* the list is sorted by.  Tasks may come and go between two pages.        *)
(***************************************************************************)
EXTENDS Naturals, Sequences, SequencesExt, FiniteSets

CONSTANTS
  MaxTask,     \* tasks that can ever exist
  Initially,   \* how many of them are there when the client begins
  MaxKey,      \* times
  Batch,       \* the batch native Codex is asked for (THREAD_LIST_BATCH_LIMIT)
  Limits,      \* page sizes the client asks for
  Descending,  \* the client's sortDirection is not "asc"
  Archives,    \* whether tasks leave the list while the client pages
  MaxPages,    \* bound on the pages the client has open
  Done         \* no cursor in an answer

PagesConstants ==
  /\ MaxTask \in Nat /\ Initially \in 0..MaxTask /\ MaxKey \in Nat
  /\ Batch \in Nat \ {0}
  /\ Limits \subseteq Nat \ {0}
  /\ Descending \in BOOLEAN /\ Archives \in BOOLEAN
  /\ MaxPages \in Nat

Tasks    == 1..MaxTask
Backends == {"native", "grok"}
Start    == 0    \* no cursor

VARIABLES
  owner,    \* the backend of each task that exists
  born,     \* how many tasks there ever were
  key,      \* createdAt or updatedAt of each task
  limit,    \* the page size of this client
  cursor,   \* the cursor of the page asked for last
  next,     \* nextCursor of that page, or Done
  back,     \* its backwardsCursor, or Done
  trail,    \* the pages the client has paged through
  shown,    \* what they showed, a page turned back taken out again
  begun,    \* the tasks there were at the first page
  up        \* the multiplexer runs

worldVars == <<owner, born, key, limit>>
vars == <<owner, born, key, limit, cursor, next, back, trail, shown, begun, up>>

Position  == [anchor |-> Start, offset |-> 0, exhausted |-> FALSE]
Beginning == [native |-> Position, grok |-> Position, history |-> <<>>]

-----------------------------------------------------------------------------
(* What the backends list.                                                 *)

Of(b) == {t \in DOMAIN owner : owner[t] = b}

\* Newest first, the greater id first among equals.
Newer(t, u) == key[t] > key[u] \/ (key[t] = key[u] /\ t > u)

InOrder(t, u) == IF Descending THEN Newer(t, u) ELSE Newer(u, t)

\* Codex sorts what it was asked to sort, from its anchor on.
NativeRest(anchor) ==
  SetToSortSeq({t \in Of("native") : anchor = Start \/ InOrder(anchor, t)}, InOrder)

\* The adapter does not look at sortDirection: the agent lists its sessions
\* newest first.
AgentList == SetToSortSeq(Of("grok"), Newer)

\* A backend's page and the cursor that goes on behind it.
BackendPage(b, pos) ==
  IF pos.exhausted THEN [data |-> <<>>, next |-> Done]
  ELSE IF b = "grok" THEN [data |-> AgentList, next |-> Done]
  ELSE LET rest == NativeRest(pos.anchor)
       IN  IF Len(rest) <= Batch
             THEN [data |-> rest, next |-> Done]
             ELSE [data |-> SubSeq(rest, 1, Batch), next |-> rest[Batch]]

-----------------------------------------------------------------------------
(* merge_threads                                                           *)

Skip(s, n) == SubSeq(s, n + 1, Len(s))

\* advance_thread_cursor
Advance(pos, page, consumed) ==
  IF pos.offset + consumed < Len(page.data)
    THEN [pos EXCEPT !.offset = @ + consumed]
    ELSE [anchor |-> IF page.next = Done THEN Start ELSE page.next,
          offset |-> 0, exhausted |-> page.next = Done]

\* The rest of both pages, sorted stably by time and then by id.
Merge(native, grok) == SetToSortSeq(ToSet(native \o grok), InOrder)

Consumed(b, page) == Cardinality({i \in DOMAIN page : owner[page[i]] = b})

\* mistake: the checkpoint is taken after the positions have moved
LatePush(c, new) == Append(c.history, new)

\* The positions to come back to are pushed when the page moved one of them.
Push(c, new) ==
  IF c.native # new.native \/ c.grok # new.grok
    THEN Append(c.history, [native |-> c.native, grok |-> c.grok])
    ELSE c.history

Merged(c, size) ==
  LET native == BackendPage("native", c.native)
      grok   == BackendPage("grok", c.grok)
      data   == Merge(Skip(native.data, c.native.offset), Skip(grok.data, c.grok.offset))
      page   == SubSeq(data, 1, IF Len(data) < size THEN Len(data) ELSE size)
      new    == [native |-> Advance(c.native, native, Consumed("native", page)),
                 grok |-> Advance(c.grok, grok, Consumed("grok", page))]
  IN  [fits |-> /\ c.native.offset <= Len(native.data)
                /\ c.grok.offset <= Len(grok.data),
       page |-> page,
       next |-> IF new.native.exhausted /\ new.grok.exhausted THEN Done
                ELSE [native |-> new.native, grok |-> new.grok, history |-> Push(c, new)],
       back |-> IF c.history = <<>> THEN Done
                ELSE [native |-> Last(c.history).native, grok |-> Last(c.history).grok,
                      history |-> Front(c.history)]]

-----------------------------------------------------------------------------
Init ==
  /\ owner \in [1..Initially -> Backends]
  /\ born = Initially
  /\ key \in [Tasks -> 1..MaxKey]
  /\ \A t \in Initially + 1..MaxTask : key[t] = MaxKey
  /\ limit \in Limits
  /\ cursor = Beginning
  /\ next = Beginning
  /\ back = Done
  /\ trail = <<>>
  /\ shown = <<>>
  /\ begun = DOMAIN owner
  /\ up = TRUE

\* The answer r to the cursor c, put behind the pages the client keeps.  A
\* cursor that points past a backend's page ends the process.
Answer(c, r, kept, seen) ==
  IF r.fits
    THEN /\ cursor' = c
         /\ next' = r.next
         /\ back' = r.back
         /\ trail' = Append(kept, r.page)
         /\ shown' = seen \o r.page
         /\ UNCHANGED up
    ELSE /\ up' = FALSE
         /\ UNCHANGED <<cursor, next, back, trail, shown>>

NextPage ==
  /\ up
  /\ next # Done
  /\ Len(trail) < MaxPages
  /\ Answer(next, Merged(next, limit), trail, shown)
  /\ UNCHANGED <<worldVars, begun>>

\* Turning back shows a page again; what the client has of it is replaced.
PreviousPage ==
  LET dropped == Len(trail[Len(trail)]) + Len(trail[Len(trail) - 1]) IN
  /\ up
  /\ back # Done
  /\ Len(trail) > 1
  /\ Answer(back, Merged(back, limit), SubSeq(trail, 1, Len(trail) - 2),
            SubSeq(shown, 1, Len(shown) - dropped))
  /\ UNCHANGED <<worldVars, begun>>

\* A new task is newer than every other one.
NewTask ==
  \E b \in Backends :
    LET t == born + 1 IN
    /\ t \in Tasks
    /\ born' = t
    /\ owner' = [u \in DOMAIN owner \cup {t} |-> IF u = t THEN b ELSE owner[u]]
    /\ UNCHANGED <<key, limit, cursor, next, back, trail, shown, begun, up>>

TaskGone ==
  /\ Archives
  /\ \E t \in DOMAIN owner :
       /\ owner' = [u \in DOMAIN owner \ {t} |-> owner[u]]
       /\ begun' = begun \ {t}
  /\ UNCHANGED <<key, born, limit, cursor, next, back, trail, shown, up>>

Next == NextPage \/ PreviousPage \/ NewTask \/ TaskGone

Spec == Init /\ [][Next]_vars

-----------------------------------------------------------------------------
(* Properties.                                                             *)

CursorOK(c) ==
  /\ \A b \in Backends : /\ c[b].anchor \in Tasks \cup {Start}
                         /\ c[b].offset \in 0..MaxTask
                         /\ c[b].exhausted \in BOOLEAN
  /\ Len(c.history) <= Len(trail)

TypeOK ==
  /\ DOMAIN owner \subseteq Tasks /\ \A t \in DOMAIN owner : owner[t] \in Backends
  /\ CursorOK(cursor)
  /\ next # Done => CursorOK(next)
  /\ back # Done => CursorOK(back)
  /\ up \in BOOLEAN

\* While nothing changes, paging shows no task twice, whichever backend's
\* page ends first and however the pages are turned.
NoRepeats == IsInjective(shown)

\* Tasks that were there from the first page to the last are all shown, even
\* when others are created between two pages.
NothingSkipped == next = Done => begun \subseteq ToSet(shown)

InItsOrder(page) == \A i, j \in DOMAIN page : i < j => InOrder(page[i], page[j])

\* "Merge Codex and Grok task listings with stable ordering": while nothing changes
\* the pages are the merged list in order.
\* The code does not keep this where a batch ends inside a page: see README.
Ordered == InItsOrder(shown)

\* The first n tasks shown hold native tasks, and all of the batches they are of.
BatchesEnd(n) ==
  LET natives == Cardinality({i \in 1..n : owner[shown[i]] = "native"})
  IN  natives > 0 /\ natives % Batch = 0

\* While nothing changes each page is in order, and so are all pages together but for
\* one case: a Grok task may come before a native one it should follow when the native
\* batch it was merged with had ended before it.
OrderedButForBatches ==
  /\ \A p \in DOMAIN trail : InItsOrder(trail[p])
  /\ \A i, j \in DOMAIN shown : i < j /\ ~InOrder(shown[i], shown[j]) =>
       owner[shown[i]] = "grok" /\ owner[shown[j]] = "native" /\ BatchesEnd(i)

\* A page asked for with a cursor of the bridge's own is answered.
\* The code does not keep this: see README.
CursorsAreServed == up
=============================================================================
