---------------------------- MODULE ThreadHistory ----------------------------
(***************************************************************************)
(* The turns of a thread as rebuilt from its recorded events               *)
(* (ThreadHistoryBuilder in                                                *)
(* src/crates/app-server-protocol/src/protocol/thread_history.rs), which   *)
(* the gateway answers thread/read and thread/resume with.  The recorded   *)
(* events come in any order a thread can leave them: completions of tools  *)
(* and turns that come late, turns that were never completed, streams of   *)
(* older versions that do not mark their turns at all.                     *)
(*                                                                         *)
(* What an event says is its number.  Tools of all kinds (commands,        *)
(* patches, searches, images, calls of agents) differ only in whether      *)
(* their events name their turn.                                           *)
(***************************************************************************)
EXTENDS Naturals, Sequences, SequencesExt, FiniteSets, FiniteSetsExt

CONSTANTS
  Events,      \* the kinds of events that occur
  TurnIds,     \* ids that turns are started under
  Calls,       \* ids of tool calls and plans
  MaxEvents,   \* bound on the length of a history
  NoTurn

Kinds == {"user", "agent", "reasoning", "raw reasoning", "marker", "tool begin", "tool end",
          "started", "complete", "aborted", "error", "compacted", "rolled back"}

Statuses == {"completed", "interrupted", "failed", "inProgress"}

HistoryConstants ==
  /\ Events \subseteq Kinds
  /\ MaxEvents \in Nat
  /\ NoTurn \notin TurnIds

VARIABLES
  turns,      \* Vec<Turn>
  current,    \* Option<PendingTurn>
  nextItem,   \* next_item_index
  count,      \* how many events there were
  event,      \* the last one: its kind and the turn it names
  dropped     \* turn ids and events that were rolled back

vars == <<turns, current, nextItem, count, event, dropped>>

\* Ids that are not in the events (Uuid::now_v7) are new ones.
NewId == <<"new", count>>
ItemId(n) == <<"item", n>>
CallId(c) == <<"call", c>>

Ids == TurnIds \cup {<<"new", n>> : n \in 0..MaxEvents}

ItemOK(item) ==
  /\ item.id \in {ItemId(n) : n \in 1..MaxEvents} \cup {CallId(c) : c \in Calls}
  /\ item.kind \in {"user", "agent", "reasoning", "marker", "tool"}
  /\ item.says \in Seq(1..MaxEvents)
  /\ item.turn \in TurnIds \cup {NoTurn}
  /\ item.done \in BOOLEAN

TurnOK(turn) ==
  /\ turn.id \in Ids
  /\ turn.status \in Statuses
  /\ turn.error \in BOOLEAN
  /\ \A i \in DOMAIN turn.items : ItemOK(turn.items[i])

TypeOK ==
  /\ \A i \in DOMAIN turns : TurnOK(turns[i])
  /\ current # NoTurn => TurnOK(current) /\ {current.explicit, current.compacted} \subseteq BOOLEAN
  /\ nextItem \in 1..MaxEvents + 1
  /\ count \in 0..MaxEvents

Init ==
  /\ turns = <<>> /\ current = NoTurn /\ nextItem = 1
  /\ count = 0 /\ event = [kind |-> "none", turn |-> NoTurn] /\ dropped = {}

-----------------------------------------------------------------------------
(* The helpers of the builder.                                             *)

NewTurn(id, status, explicit) ==
  [id |-> id, items |-> <<>>, status |-> status, error |-> FALSE,
   explicit |-> explicit, compacted |-> FALSE]

\* ensure_turn
EnsureTurn == IF current = NoTurn THEN NewTurn(NewId, "completed", FALSE) ELSE current

AsTurn(pending) == [f \in {"id", "items", "status", "error"} |-> pending[f]]

Kept(pending) == pending.items # <<>> \/ pending.explicit \/ pending.compacted

\* finish_current_turn
Finished(pending) == IF pending # NoTurn /\ Kept(pending) THEN Append(turns, AsTurn(pending)) ELSE turns

NewItem(kind, says) ==
  [id |-> ItemId(nextItem), kind |-> kind, says |-> says, turn |-> NoTurn, done |-> TRUE]

\* upsert_turn_item
UpsertItem(items, item) ==
  IF \E i \in DOMAIN items : items[i].id = item.id
    THEN [i \in DOMAIN items |-> IF items[i].id = item.id THEN item ELSE items[i]]
    ELSE Append(items, item)

Known(id) == \E i \in DOMAIN turns : turns[i].id = id
IsCurrent(id) == current # NoTurn /\ current.id = id

\* turns.iter_mut().find(...)
Changed(id, change(_)) ==
  LET first == Min({i \in DOMAIN turns : turns[i].id = id})
  IN  [turns EXCEPT ![first] = change(@)]

-----------------------------------------------------------------------------
(* Events that say something.                                              *)

Happens(kind, turn) ==
  /\ kind \in Events
  /\ count < MaxEvents
  /\ count' = count + 1
  /\ event' = [kind |-> kind, turn |-> turn]

\* A message stays in a turn that was opened explicitly, and in one that holds
\* nothing yet but a compaction; else it opens a turn of its own.
StaysInCurrent ==
  /\ current # NoTurn
  /\ current.explicit \/ (current.compacted /\ current.items = <<>>)

UserMessage ==
  /\ Happens("user", NoTurn)
  /\ turns' = IF StaysInCurrent THEN turns ELSE Finished(current)
  /\ LET turn == IF StaysInCurrent THEN current ELSE NewTurn(NewId, "completed", FALSE)
     IN  current' = [turn EXCEPT !.items = Append(@, NewItem("user", <<count + 1>>))]
  /\ nextItem' = nextItem + 1
  /\ UNCHANGED dropped

\* A message of the agent, or a marker: a compaction, the begin or end of a
\* review.  An empty message is skipped.
Says(kind, itemKind) ==
  /\ Happens(kind, NoTurn)
  /\ current' = [EnsureTurn EXCEPT !.items = Append(@, NewItem(itemKind, <<count + 1>>))]
  /\ nextItem' = nextItem + 1
  /\ UNCHANGED <<turns, dropped>>

Continues(items) == items # <<>> /\ Last(items).kind = "reasoning"

AddText(items) == [items EXCEPT ![Len(items)].says = Append(@, count + 1)]

\* A summary or raw content; both continue a reasoning item that is the last.
Reasoning(kind) ==
  /\ Happens(kind, NoTurn)
  /\ IF Continues(EnsureTurn.items)
       THEN current' = [EnsureTurn EXCEPT !.items = AddText(@)] /\ UNCHANGED nextItem
       ELSE /\ current' = [EnsureTurn EXCEPT !.items = Append(@, NewItem("reasoning", <<count + 1>>))]
            /\ nextItem' = nextItem + 1
  /\ UNCHANGED <<turns, dropped>>

\* The end of a call has its outcome; what begins it says that it is underway.
Done(kind) == kind = "tool end"

ToolItem(c, turn, kind) ==
  [id |-> CallId(c), kind |-> "tool", says |-> <<>>, turn |-> turn, done |-> Done(kind)]

\* upsert_item_in_turn_id; an item of an unknown turn is dropped
UpsertInTurn(id, item) ==
  \/ /\ IsCurrent(id)
     /\ current' = [current EXCEPT !.items = UpsertItem(@, item)]
     /\ UNCHANGED turns
  \/ /\ ~IsCurrent(id) /\ Known(id)
     /\ turns' = Changed(id, LAMBDA t : [t EXCEPT !.items = UpsertItem(@, item)])
     /\ UNCHANGED current
  \/ /\ ~IsCurrent(id) /\ ~Known(id)
     /\ UNCHANGED <<turns, current>>

\* Commands, patches and plans name their turn.
Tool(kind, c, id) ==
  /\ Happens(kind, id)
  /\ UpsertInTurn(id, ToolItem(c, id, kind))
  /\ UNCHANGED <<nextItem, dropped>>

\* The rest, and patches of older versions, are put in the current turn.
ToolOfCurrent(kind, c) ==
  /\ Happens(kind, NoTurn)
  /\ current' = [EnsureTurn EXCEPT !.items = UpsertItem(@, ToolItem(c, NoTurn, kind))]
  /\ UNCHANGED <<turns, nextItem, dropped>>

-----------------------------------------------------------------------------
(* Events about turns.                                                     *)

Used(id) == Known(id) \/ IsCurrent(id) \/ id \in dropped

\* A turn is started under an id of its own.
TurnStarted(id) ==
  /\ Happens("started", id)
  /\ ~Used(id)
  /\ turns' = Finished(current)
  /\ current' = NewTurn(id, "inProgress", TRUE)
  /\ UNCHANGED <<nextItem, dropped>>

\* mistake: completed is completed
Complete(status) == "completed"

MarkCompleted(status) == IF status = "inProgress" THEN "completed" ELSE status

\* An unknown id is taken for that of the current turn.
TurnComplete(id) ==
  /\ Happens("complete", id)
  /\ \/ /\ current # NoTurn
        /\ IsCurrent(id) \/ ~Known(id)
        /\ turns' = Finished([current EXCEPT !.status = MarkCompleted(@)])
        /\ current' = NoTurn
     \/ /\ ~IsCurrent(id) /\ Known(id)
        /\ turns' = Changed(id, LAMBDA t : [t EXCEPT !.status = MarkCompleted(@)])
        /\ UNCHANGED current
     \/ /\ current = NoTurn /\ ~Known(id)
        /\ UNCHANGED <<turns, current>>
  /\ UNCHANGED <<nextItem, dropped>>

\* The turn stays open, and its error stays.
TurnAborted(id) ==
  /\ Happens("aborted", id)
  /\ \/ /\ current # NoTurn
        /\ IsCurrent(id) \/ ~Known(id)
        /\ current' = [current EXCEPT !.status = "interrupted"]
        /\ UNCHANGED turns
     \/ /\ ~IsCurrent(id) /\ Known(id)
        /\ turns' = Changed(id, LAMBDA t : [t EXCEPT !.status = "interrupted"])
        /\ UNCHANGED current
     \/ /\ current = NoTurn /\ ~Known(id)
        /\ UNCHANGED <<turns, current>>
  /\ UNCHANGED <<nextItem, dropped>>

\* An error that does not concern the turn (a rollback that failed) is skipped.
Error ==
  /\ Happens("error", NoTurn)
  /\ current' = IF current = NoTurn THEN NoTurn
                ELSE [current EXCEPT !.status = "failed", !.error = TRUE]
  /\ UNCHANGED <<turns, nextItem, dropped>>

Compacted ==
  /\ Happens("compacted", NoTurn)
  /\ current' = [EnsureTurn EXCEPT !.compacted = TRUE]
  /\ UNCHANGED <<turns, nextItem, dropped>>

ItemsOf(ts) == FoldLeft(LAMBDA all, t : all \o t.items, <<>>, ts)

NextAfter(kept) == Len(ItemsOf(kept)) + 1

\* The numbers of turns and of items to drop may be more than there are.
RolledBack(n) ==
  LET all  == Finished(current)
      kept == SubSeq(all, 1, IF n >= Len(all) THEN 0 ELSE Len(all) - n)
      gone == SubSeq(all, Len(kept) + 1, Len(all))
  IN  /\ Happens("rolled back", NoTurn)
      /\ turns' = kept
      /\ current' = NoTurn
      /\ nextItem' = NextAfter(kept)
      /\ dropped' = dropped \cup {gone[i].id : i \in DOMAIN gone}

Next ==
  \/ UserMessage \/ Says("agent", "agent") \/ Says("marker", "marker")
  \/ Reasoning("reasoning") \/ Reasoning("raw reasoning")
  \/ \E c \in Calls, kind \in {"tool begin", "tool end"} :
       ToolOfCurrent(kind, c) \/ \E id \in TurnIds : Tool(kind, c, id)
  \/ \E id \in TurnIds : TurnStarted(id) \/ TurnComplete(id)
  \/ \E id \in TurnIds \cup {NoTurn} : TurnAborted(id)
  \/ Error \/ Compacted
  \/ \E n \in 1..2 : RolledBack(n)

Spec == Init /\ [][Next]_vars

-----------------------------------------------------------------------------
(* Properties.                                                             *)

AllTurns == IF current = NoTurn THEN turns ELSE Append(turns, AsTurn(current))

\* However turns are rolled back and tools report late, no two items of the
\* history have the same generated id, and a turn shows a call once.
ItemIdsUnique ==
  LET numbered == SelectSeq(ItemsOf(AllTurns), LAMBDA i : i.kind # "tool")
  IN  /\ \A i, k \in DOMAIN numbered : numbered[i].id = numbered[k].id => i = k
      /\ \A t \in DOMAIN AllTurns : \A i, k \in DOMAIN AllTurns[t].items :
           AllTurns[t].items[i].id = AllTurns[t].items[k].id => i = k

\* What was said is shown in the order it was said, each thing once.
SaidInOrder ==
  LET said == FoldLeft(LAMBDA all, i : all \o i.says, <<>>, ItemsOf(AllTurns))
  IN  \A i, k \in DOMAIN said : i < k => said[i] < said[k]

\* Unless it is rolled back, what is said is never lost.
SaidStays ==
  [][\A i \in DOMAIN ItemsOf(AllTurns) :
       LET item == ItemsOf(AllTurns)[i] IN
       event'.kind # "rolled back" =>
         \E k \in DOMAIN ItemsOf(AllTurns)' :
           /\ ItemsOf(AllTurns)'[k].id = item.id
           /\ ToSet(item.says) \subseteq ToSet(ItemsOf(AllTurns)'[k].says)]_vars

\* "Route by event turn_id so replay preserves the original turn association":
\* a tool whose events name their turn is in that turn and in no other, even
\* if the turn is over, and in none if the turn was rolled back.
ToolInItsTurn ==
  \A t \in DOMAIN AllTurns : \A i \in DOMAIN AllTurns[t].items :
    LET item == AllTurns[t].items[i]
    IN  item.turn # NoTurn => item.turn = AllTurns[t].id /\ item.turn \notin dropped

\* An event that names a turn of the history changes no other: a late
\* completion does not close the active turn, a late abort does not interrupt
\* it.
OnlyItsTurn ==
  [][event'.kind \in {"tool begin", "tool end", "complete", "aborted"} /\ event'.turn # NoTurn
       /\ (Known(event'.turn) \/ IsCurrent(event'.turn))
     => /\ \A i \in DOMAIN turns : turns[i].id # event'.turn => turns'[i] = turns[i]
        /\ current # NoTurn /\ current.id # event'.turn => current' = current]_vars

\* A turn that failed or was interrupted does not end up as completed.
StatusSettles ==
  [][\A i \in DOMAIN AllTurns, k \in DOMAIN AllTurns' :
       /\ AllTurns[i].id = AllTurns'[k].id
       /\ AllTurns[i].status \in {"failed", "interrupted"}
       => AllTurns'[k].status \in {"failed", "interrupted"}]_vars

\* In a history that does not mark its turns each message opens one.
MessageOpensTurn ==
  \A t \in DOMAIN AllTurns : AllTurns[t].id \notin TurnIds =>
    \A i \in DOMAIN AllTurns[t].items : AllTurns[t].items[i].kind = "user" => i = 1

\* "Only populated when the Turn's status is failed."
\* The code does not keep this: see README.
ErrorOnlyIfFailed == \A t \in DOMAIN AllTurns : AllTurns[t].error => AllTurns[t].status = "failed"

\* "Number of user turns that were removed from context": as many turns with a
\* message of the user are gone as the event says, if there are as many.
\* The code does not keep this: see README.
HasMessage(turn) == \E i \in DOMAIN turn.items : turn.items[i].kind = "user"
UserTurns(ts) == Len(SelectSeq(ts, HasMessage))
RollbackCountsUserTurns ==
  [][event'.kind = "rolled back" /\ UserTurns(AllTurns) > 0 => UserTurns(AllTurns') < UserTurns(AllTurns)]_vars
=============================================================================
