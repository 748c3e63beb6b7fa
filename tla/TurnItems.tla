------------------------------ MODULE TurnItems -----------------------------
(***************************************************************************)
(* The items of one turn told in two ways.  A client of today follows      *)
(* ItemStarted and ItemCompleted, each with the whole item                 *)
(* (src/crates/protocol/src/items.rs, ThreadItem in protocol/v2.rs).  The  *)
(* same items are also told as the events of older versions                *)
(* (as_legacy_events), which is what a rollout keeps and what the turns    *)
(* of a thread are rebuilt from (protocol/thread_history.rs).              *)
(*                                                                         *)
(* A word of a model's text is a number, new for every delta.  A byte of   *)
(* the user's text is named by the input it is in and its place there.     *)
(***************************************************************************)
EXTENDS Naturals, Sequences, SequencesExt, FiniteSets

CONSTANTS
  UserContents,  \* what a user may send: sequences of inputs
  MaxItems,      \* items of the turn
  MaxWords,      \* words the model says in them
  ShowRaw,       \* values of show_raw_agent_reasoning
  None           \* no item, no label, no query

TurnItemsConstants ==
  /\ {MaxItems, MaxWords} \subseteq Nat
  /\ ShowRaw \subseteq BOOLEAN
  /\ \A content \in UserContents : \A i \in DOMAIN content :
       /\ content[i] \in [type : {"text", "image", "localImage", "skill"}, size : Nat,
                          marks : Seq([start : Nat, end : Nat, label : {None, "label"}])]
       /\ \A k \in DOMAIN content[i].marks :
            /\ content[i].marks[k].start \in 0..content[i].marks[k].end
            /\ content[i].marks[k].end \in 0..content[i].size

VARIABLES
  items,     \* the items of the turn as they were last told
  open,      \* places of those that are not completed
  words,     \* how many words the model has said
  showRaw,
  live,      \* what ItemStarted and ItemCompleted make of the turn
  replayed,  \* what the older events make of it
  streamed   \* the words of the older deltas, for the message being written

vars == <<items, open, words, showRaw, live, replayed, streamed>>

Kinds == {"user", "agent", "plan", "reasoning", "search", "compaction"}

TypeOK ==
  /\ \A i \in DOMAIN items : items[i].kind \in Kinds /\ items[i].id = i
  /\ open \subseteq DOMAIN items
  /\ words \in 0..MaxWords
  /\ Len(live) = Len(items)
  /\ \A i \in DOMAIN replayed : replayed[i].kind \in Kinds
  /\ streamed \in Seq(1..MaxWords)

Init ==
  /\ items = <<>> /\ open = {} /\ words = 0
  /\ showRaw \in ShowRaw
  /\ live = <<>> /\ replayed = <<>> /\ streamed = <<>>

-----------------------------------------------------------------------------
(* The user's inputs.                                                      *)

Bytes(content, i) == [k \in 1..content[i].size |-> <<i, k>>]

Slice(text, mark) == SubSeq(text, mark.start + 1, mark.end)

\* TextElement::placeholder
Placeholder(text, mark) == IF mark.label # None THEN mark.label ELSE Slice(text, mark)

OfType(content, type) == SelectSeq(content, LAMBDA input : input.type = type)

TextPlaces(content) ==
  SelectSeq([i \in DOMAIN content |-> i], LAMBDA i : content[i].type = "text")

\* message(): the texts one after the other
Message(content) ==
  FoldLeft(LAMBDA all, i : all \o Bytes(content, i), <<>>, TextPlaces(content))

Moved(offset, mark) == [start |-> offset + mark.start, end |-> offset + mark.end]

\* text_elements(): the marks of all texts, moved to where their text is
TextElements(content) ==
  FoldLeft(LAMBDA all, i :
             [size  |-> all.size + content[i].size,
              marks |-> all.marks \o
                [k \in DOMAIN content[i].marks |->
                   LET mark == content[i].marks[k] IN
                   [range |-> Moved(all.size, mark),
                    label |-> Placeholder(Bytes(content, i), mark)]]],
           [size |-> 0, marks |-> <<>>], TextPlaces(content)).marks

-----------------------------------------------------------------------------
(* The older events of an item.                                            *)

UserLegacy(item) ==
  [type |-> "userMessage", message |-> Message(item.content),
   marks |-> TextElements(item.content),
   images |-> OfType(item.content, "image"), localImages |-> OfType(item.content, "localImage")]

AgentLegacy(item) ==
  [i \in DOMAIN item.parts |-> [type |-> "agentMessage", text |-> item.parts[i]]]

ReasoningLegacy(item) ==
  [i \in DOMAIN item.summary |-> [type |-> "reasoning", text |-> item.summary[i]]] \o
  (IF showRaw THEN [i \in DOMAIN item.raw |-> [type |-> "rawReasoning", text |-> item.raw[i]]]
              ELSE <<>>)

StartedLegacy(item) ==
  IF item.kind = "search" THEN <<[type |-> "searchBegin", id |-> item.id]>> ELSE <<>>

CompletedLegacy(item) ==
  CASE item.kind = "user"       -> <<UserLegacy(item)>>
    [] item.kind = "agent"      -> AgentLegacy(item)
    [] item.kind = "plan"       -> <<>>
    [] item.kind = "search"     -> <<[type |-> "searchEnd", id |-> item.id, query |-> item.query]>>
    [] item.kind = "reasoning"  -> ReasoningLegacy(item)
    [] item.kind = "compaction" -> <<[type |-> "compacted"]>>

-----------------------------------------------------------------------------
(* The turn rebuilt from the older events.                                 *)

Upsert(told, item) ==
  IF \E i \in DOMAIN told : told[i].kind = item.kind /\ told[i].id = item.id
  THEN [i \in DOMAIN told |->
          IF told[i].kind = item.kind /\ told[i].id = item.id THEN item ELSE told[i]]
  ELSE Append(told, item)

SearchItem(told, id, query) == Upsert(told, [kind |-> "search", id |-> id, query |-> query])

ReplayUser(told, event) ==
  Append(told, [kind |-> "user", id |-> None, text |-> event.message, marks |-> event.marks,
                images |-> event.images, localImages |-> event.localImages])

ReplayMessage(told, text) ==
  IF text = <<>> THEN told ELSE Append(told, [kind |-> "agent", id |-> None, text |-> text])

\* Texts that follow each other are one item.
ReplayReasoning(told, field, text) ==
  CASE text = <<>> -> told
    [] text # <<>> /\ told # <<>> /\ told[Len(told)].kind = "reasoning" ->
         [told EXCEPT ![Len(told)][field] = Append(@, text)]
    [] OTHER ->
         Append(told, [[kind |-> "reasoning", id |-> None, summary |-> <<>>, raw |-> <<>>]
                         EXCEPT ![field] = <<text>>])

Replay(told, event) ==
  CASE event.type = "userMessage"  -> ReplayUser(told, event)
    [] event.type = "agentMessage" -> ReplayMessage(told, event.text)
    [] event.type = "reasoning"    -> ReplayReasoning(told, "summary", event.text)
    [] event.type = "rawReasoning" -> ReplayReasoning(told, "raw", event.text)
    [] event.type = "searchBegin"  -> SearchItem(told, event.id, None)
    [] event.type = "searchEnd"    -> SearchItem(told, event.id, event.query)
    [] event.type = "compacted"    -> Append(told, [kind |-> "compaction", id |-> None])

\* A plan has no older events: it is rebuilt from the item itself.
ReplayItem(told, item) ==
  IF item.kind = "plan" /\ item.text # <<>> THEN Upsert(told, item) ELSE told

-----------------------------------------------------------------------------
(* The item as a client sees it.                                           *)

JoinedParts(parts) == FlattenSeq(parts)

ThreadItem(item) ==
  IF item.kind = "agent" THEN [kind |-> "agent", id |-> item.id, text |-> JoinedParts(item.parts)]
                         ELSE item

Started(item) ==
  /\ Len(items) < MaxItems
  /\ items' = Append(items, item)
  /\ open' = open \cup {item.id}
  /\ live' = Append(live, ThreadItem(item))
  /\ replayed' = ReplayItem(FoldLeft(Replay, replayed, StartedLegacy(item)), item)

Completed(item) ==
  /\ item.id \in open
  /\ items' = [items EXCEPT ![item.id] = item]
  /\ open' = open \ {item.id}
  /\ live' = [live EXCEPT ![item.id] = ThreadItem(item)]
  /\ replayed' = ReplayItem(FoldLeft(Replay, replayed, CompletedLegacy(item)), item)

-----------------------------------------------------------------------------
(* Events of the turn.  The model writes one text after the other; a       *)
(* search may run beside it.                                               *)

Writing == \E i \in open : items[i].kind # "search"

New(kind) ==
  LET id == Len(items) + 1 IN
  CASE kind = "agent"      -> [kind |-> kind, id |-> id, parts |-> <<<<>>>>]
    [] kind = "plan"       -> [kind |-> kind, id |-> id, text |-> <<>>]
    [] kind = "reasoning"  -> [kind |-> kind, id |-> id, summary |-> <<<<>>>>, raw |-> <<>>]
    [] kind = "search"     -> [kind |-> kind, id |-> id, query |-> None]
    [] kind = "compaction" -> [kind |-> kind, id |-> id]

UserSends(content) ==
  /\ items = <<>>
  /\ Started([kind |-> "user", id |-> 1, content |-> content])
  /\ UNCHANGED <<words, showRaw, streamed>>

ItemStarted(kind) ==
  /\ kind = "search" \/ ~Writing
  /\ Started(New(kind))
  /\ streamed' = IF kind = "agent" THEN <<>> ELSE streamed
  /\ UNCHANGED <<words, showRaw>>

\* A delta of the last text of a message or a summary.  The client of today
\* adds it to the item it names; the older event does not name one.
Delta(i) ==
  /\ i \in open /\ items[i].kind = "agent" /\ words < MaxWords
  /\ words' = words + 1
  /\ items' = [items EXCEPT ![i].parts[Len(items[i].parts)] = Append(@, words + 1)]
  /\ live' = [live EXCEPT ![i].text = Append(@, words + 1)]
  /\ streamed' = Append(streamed, words + 1)
  /\ UNCHANGED <<open, showRaw, replayed>>

\* A message or a reasoning goes on with another part.
NextPart(i) ==
  /\ i \in open /\ words < MaxWords
  /\ items[i].kind \in {"agent", "reasoning", "plan"}
  /\ words' = words + 1
  /\ items' =
       CASE items[i].kind = "agent" -> [items EXCEPT ![i].parts = Append(@, <<words + 1>>)]
         [] items[i].kind = "plan"  -> [items EXCEPT ![i].text = Append(@, words + 1)]
         [] items[i].kind = "reasoning" ->
              [items EXCEPT ![i].summary = Append(@, <<words + 1>>), ![i].raw = Append(@, <<words + 1>>)]
  /\ live' = [live EXCEPT ![i] = ThreadItem(items'[i])]
  /\ streamed' = IF items[i].kind = "agent" THEN Append(streamed, words + 1) ELSE streamed
  /\ UNCHANGED <<open, showRaw, replayed>>

ItemCompleted(i) ==
  LET item == items[i] IN
  /\ Completed(IF item.kind = "search" THEN [item EXCEPT !.query = "query"] ELSE item)
  /\ UNCHANGED <<words, showRaw, streamed>>

Next ==
  \/ \E content \in UserContents : UserSends(content)
  \/ \E kind \in Kinds \ {"user"} : ItemStarted(kind)
  \/ \E i \in open : Delta(i) \/ NextPart(i) \/ ItemCompleted(i)

Spec == Init /\ [][Next]_vars

-----------------------------------------------------------------------------
(* Properties.                                                             *)

\* The items that are completed, as a client has them and as rebuilt.
Told(told, kind) == SelectSeq(told, LAMBDA item : item.kind = kind)

Texts(told, kind, field) == FlattenSeq([i \in DOMAIN Told(told, kind) |-> Told(told, kind)[i][field]])

\* Every mark of the user's texts still selects, in the one text they are
\* rebuilt as, the bytes it was put on, and carries its label or those bytes.
MarksSelectTheSame ==
  \A i \in DOMAIN replayed : replayed[i].kind = "user" =>
    LET content == items[1].content
        before == FlattenSeq([p \in DOMAIN TextPlaces(content) |->
                    [k \in DOMAIN content[TextPlaces(content)[p]].marks |->
                       [input |-> TextPlaces(content)[p],
                        mark |-> content[TextPlaces(content)[p]].marks[k]]]])
        after == replayed[i].marks
    IN  /\ Len(after) = Len(before)
        /\ \A k \in DOMAIN after :
             LET bytes == Slice(Bytes(content, before[k].input), before[k].mark) IN
             /\ Slice(replayed[i].text, after[k].range) = bytes
             /\ after[k].label = IF before[k].mark.label = None THEN bytes ELSE before[k].mark.label

\* No word of the agent is lost, added or moved by telling it in the older
\* events, whatever parts it came in, nor by streaming it in deltas.
WordsKept ==
  ~Writing => /\ Texts(live, "agent", "text") = Texts(replayed, "agent", "text")
              /\ LET last == Told(live, "agent") IN
                 last # <<>> => last[Len(last)].text = streamed

\* Reasoning is rebuilt in order, its raw text only if that is to be shown.
ReasoningKept ==
  ~Writing =>
    LET Shown(raw) == IF showRaw THEN raw ELSE <<>> IN
    /\ FlattenSeq(Texts(live, "reasoning", "summary")) =
         FlattenSeq(Texts(replayed, "reasoning", "summary"))
    /\ Shown(FlattenSeq(Texts(live, "reasoning", "raw"))) =
         FlattenSeq(Texts(replayed, "reasoning", "raw"))

\* A search that runs beside other items is rebuilt as one item, in the
\* state the client has it in; and so is a plan.
SearchesAgree ==
  /\ Told(replayed, "search") = Told(live, "search")
  /\ ~Writing => Told(replayed, "plan") = SelectSeq(Told(live, "plan"), LAMBDA p : p.text # <<>>)
=============================================================================
