----------------------------- MODULE TurnStream -----------------------------
(***************************************************************************)
(* What the client sees of a turn while the agent works on it              *)
(* (handle_acp_event, handle_internal_event in src/src/lib.rs,             *)
(* src/src/translation/acp_to_codex.rs): the agent's updates become items  *)
(* that are started, grow by deltas and are completed, and a diff of the   *)
(* whole turn.                                                             *)
(*                                                                         *)
(* An update is numbered when it is sent, and a piece of text is its       *)
(* number.  A collection of diffs is a number; 0 is none.  Turn 0 is       *)
(* "unknown-turn".  The connection delivers what it reads in its order:    *)
(* updates into events, the answer of a prompt into internal.              *)
(***************************************************************************)
EXTENDS Naturals, Sequences, SequencesExt, FiniteSets, FiniteSetsExt

CONSTANTS
  Threads,
  Updates,     \* the updates the agent may send
  MaxUpdates,  \* how many it sends
  MaxTurns,    \* turns in a behaviour
  Late         \* does it send updates when no prompt is outstanding?

Tools == {u.tool : u \in Updates} \ {0}
Kinds == {"other", "execute", "edit"}
Diffs == {u.diff : u \in Updates}

TurnStreamConstants ==
  /\ Updates \subseteq
       [what : {"text", "thought", "call", "update"}, tool : Nat,
        kind : Kinds \cup {"none"}, diff : Nat, status : {"none", "completed"}]
  /\ MaxUpdates \in Nat /\ MaxTurns \in Nat
  /\ Late \in BOOLEAN

Turns == 0..MaxTurns

VARIABLES
  turn,      \* the turn each thread is in, 0 for none
  turns,     \* turns so far
  prompted,  \* the turn whose prompt the agent works on, 0 for none
  sent,      \* the updates sent: thread, what, the turn prompted
  events,    \* acp_events
  internal,  \* internal_rx: completions
  outputs,   \* turn_outputs: the open message, the next index, the reasoning
  toolItems, toolKind, toolChanges, changesStarted,   \* IdMap
  turnDiffs, \* turn_diffs: per turn, the tools in order and their diffs
  shown      \* the notifications sent to the client

toolVars  == <<toolItems, toolKind, toolChanges, changesStarted>>
agentVars == <<turns, prompted, sent>>
vars == <<turn, turns, prompted, sent, events, internal, outputs, toolItems,
          toolKind, toolChanges, changesStarted, turnDiffs, shown>>

Texts     == Seq(1..MaxUpdates)
NoOutput  == [live |-> FALSE, open |-> FALSE, next |-> 0, text |-> <<>>, reasoning |-> <<>>]
NewOutput == [NoOutput EXCEPT !.live = TRUE]

TypeOK ==
  /\ turn \in [Threads -> Turns] /\ prompted \in [Threads -> Turns] /\ turns \in Turns
  /\ \A i \in DOMAIN sent : sent[i].thread \in Threads /\ sent[i].turn \in Turns
  /\ \A i \in DOMAIN events : events[i] \in 1..Len(sent)
  /\ \A i \in DOMAIN internal : internal[i] \in Threads \X Turns
  /\ outputs \in [Turns -> [live : BOOLEAN, open : BOOLEAN, next : Nat,
                            text : Texts, reasoning : Texts]]
  /\ toolItems \subseteq Tools /\ changesStarted \subseteq Tools
  /\ toolKind \in [Tools -> Kinds \cup {"none"}]
  /\ toolChanges \in [Tools -> Diffs \cup {0}]
  /\ turnDiffs \in [Turns -> Seq([tool : Tools, diff : Diffs])]
  /\ \A i \in DOMAIN shown : shown[i].turn \in Turns

Init ==
  /\ turn = [t \in Threads |-> 0]
  /\ turns = 0
  /\ prompted = [t \in Threads |-> 0]
  /\ sent = <<>>
  /\ events = <<>> /\ internal = <<>>
  /\ outputs = [k \in Turns |-> NoOutput]
  /\ toolItems = {} /\ changesStarted = {}
  /\ toolKind = [x \in Tools |-> "none"]
  /\ toolChanges = [x \in Tools |-> 0]
  /\ turnDiffs = [k \in Turns |-> <<>>]
  /\ shown = <<>>

-----------------------------------------------------------------------------
(* Notifications.                                                          *)

Message(k, index) == [type |-> "message", turn |-> k, n |-> index]
Reasoning(k)      == [type |-> "reasoning", turn |-> k, n |-> 0]
ToolItem(tool)    == [type |-> IF tool \in toolItems' THEN "tool" ELSE "unknown",
                      turn |-> 0, n |-> tool]
TheTurn(k)        == [type |-> "turn", turn |-> k, n |-> 0]

Note(what, t, k, item, body) ==
  [what |-> what, thread |-> t, turn |-> k, item |-> item, body |-> body]

Show(notes) == shown' = shown \o notes

-----------------------------------------------------------------------------
(* The client and the agent.                                               *)

\* mistake: the loop takes whatever is there
LoopAnyOrder == TRUE

\* The loop takes the updates first.
LoopFree == events = <<>>

TurnStart(t) ==
  /\ LoopFree
  /\ turn[t] = 0
  /\ turns < MaxTurns
  /\ turns' = turns + 1
  /\ turn' = [turn EXCEPT ![t] = turns + 1]
  /\ prompted' = [prompted EXCEPT ![t] = turns + 1]
  /\ outputs' = [outputs EXCEPT ![turns + 1] = NewOutput]
  /\ Show(<<Note("started", t, turns + 1, TheTurn(turns + 1), <<>>),
            Note("started", t, turns + 1, Reasoning(turns + 1), <<>>)>>)
  /\ UNCHANGED <<sent, events, internal, toolVars, turnDiffs>>

\* A tool belongs to one session.
OwnTool(t, u) ==
  u.tool # 0 => \A i \in DOMAIN sent : sent[i].update.tool = u.tool => sent[i].thread = t

AgentUpdate(t, u) ==
  /\ Len(sent) < MaxUpdates
  /\ Late \/ prompted[t] # 0
  /\ OwnTool(t, u)
  /\ sent' = Append(sent, [thread |-> t, update |-> u, turn |-> prompted[t]])
  /\ events' = Append(events, Len(sent) + 1)
  /\ UNCHANGED <<turn, turns, prompted, internal, outputs, toolVars, turnDiffs, shown>>

AgentAnswer(t) ==
  /\ prompted[t] # 0
  /\ internal' = Append(internal, <<t, prompted[t]>>)
  /\ prompted' = [prompted EXCEPT ![t] = 0]
  /\ UNCHANGED <<turn, turns, sent, events, outputs, toolVars, turnDiffs, shown>>

-----------------------------------------------------------------------------
(* handle_acp_event                                                        *)

\* The update at the head, its thread, and the turn of the thread.
Incoming(what) == events # <<>> /\ sent[Head(events)].update.what = what
Update    == sent[Head(events)].update
OfThread  == sent[Head(events)].thread

OfTurn    == turn[OfThread]

Taken == events' = Tail(events)

\* TurnOutput::ensure_agent_message
EnsureMessage(out) ==
  IF out.open THEN out ELSE [out EXCEPT !.open = TRUE, !.next = @ + 1, !.text = <<>>]

\* TurnOutput::apply_notification
ApplyDelta(out, piece) == [out EXCEPT !.text = Append(@, piece)]

HandleText ==
  LET out == EnsureMessage(outputs[OfTurn])
      msg == Message(OfTurn, out.next - 1)
      first == ~outputs[OfTurn].open
  IN  /\ Incoming("text") /\ Taken
      /\ IF outputs[OfTurn].live
         THEN /\ outputs' = [outputs EXCEPT ![OfTurn] = ApplyDelta(out, Head(events))]
              /\ Show((IF first THEN <<Note("started", OfThread, OfTurn, msg, <<>>)>> ELSE <<>>)
                      \o <<Note("delta", OfThread, OfTurn, msg, <<Head(events)>>)>>)
         ELSE /\ Show(<<Note("delta", OfThread, OfTurn, Message(OfTurn, 0), <<Head(events)>>)>>)
              /\ UNCHANGED outputs
      /\ UNCHANGED <<turn, agentVars, internal, toolVars, turnDiffs>>

HandleThought ==
  /\ Incoming("thought") /\ Taken
  /\ outputs' = IF outputs[OfTurn].live
                THEN [outputs EXCEPT ![OfTurn].reasoning = Append(@, Head(events))]
                ELSE outputs
  /\ Show(<<Note("delta", OfThread, OfTurn, Reasoning(OfTurn), <<Head(events)>>)>>)
  /\ UNCHANGED <<turn, agentVars, internal, toolVars, turnDiffs>>

\* TurnOutput::take_agent_message
TakeMessage(out) == [out EXCEPT !.open = FALSE]

\* The open message is completed with all its text.
CompleteMessage(t, k) ==
  IF outputs[k].live /\ outputs[k].open
  THEN <<Note("completed", t, k, Message(k, outputs[k].next - 1), outputs[k].text)>>
  ELSE <<>>

IsFileChange(kind) == kind = "edit"

\* The tables of IdMap that a call or an update writes to.
CreateItemForTool(tool) == toolItems' = toolItems \cup {tool}
SetToolKind(tool, kind) == toolKind' = [toolKind EXCEPT ![tool] = kind]
SetToolFileChanges(tool, changes) == toolChanges' = [toolChanges EXCEPT ![tool] = changes]
MarkFileChangeItemStarted(tools) == changesStarted' = changesStarted \cup tools

HandleToolCall ==
  LET u == Update IN
  /\ Incoming("call") /\ Taken
  /\ outputs' = [outputs EXCEPT ![OfTurn] = TakeMessage(@)]
  /\ CreateItemForTool(u.tool)
  /\ SetToolKind(u.tool, u.kind)
  /\ MarkFileChangeItemStarted(IF IsFileChange(u.kind) THEN {u.tool} ELSE {})
  /\ Show(CompleteMessage(OfThread, OfTurn)
          \o <<Note("started", OfThread, OfTurn, ToolItem(u.tool), <<>>)>>)
  /\ UNCHANGED <<turn, agentVars, internal, toolChanges, turnDiffs>>

\* The collection of a tool replaces the one before, in its place.
ReplaceDiffs(diffs, tool, diff) ==
  IF \E i \in DOMAIN diffs : diffs[i].tool = tool
  THEN [i \in DOMAIN diffs |-> IF diffs[i].tool = tool THEN [diffs[i] EXCEPT !.diff = diff]
                               ELSE diffs[i]]
  ELSE Append(diffs, [tool |-> tool, diff |-> diff])

\* build_aggregated_diff
Aggregated(diffs) == [i \in DOMAIN diffs |-> diffs[i].diff]

\* Grok repeats the diffs of an edit when it completes.
Changed(tool, diff) == diff # 0 /\ toolChanges[tool] # diff

HandleToolUpdate ==
  LET u       == Update
      kind    == IF u.kind = "none" THEN toolKind[u.tool] ELSE u.kind
      changed == Changed(u.tool, u.diff)
      begins  == IsFileChange(kind) /\ u.tool \notin changesStarted
      changes == IF u.diff # 0 THEN u.diff ELSE toolChanges[u.tool]
      item    == ToolItem(u.tool)
      diffs   == ReplaceDiffs(turnDiffs[OfTurn], u.tool, u.diff)
  IN  /\ Incoming("update") /\ Taken
      /\ UNCHANGED toolItems
      /\ SetToolKind(u.tool, kind)
      /\ SetToolFileChanges(u.tool, changes)
      /\ MarkFileChangeItemStarted(IF begins THEN {u.tool} ELSE {})
      /\ turnDiffs' = IF changed THEN [turnDiffs EXCEPT ![OfTurn] = diffs] ELSE turnDiffs
      /\ Show((IF begins THEN <<Note("started", OfThread, OfTurn, item, <<u.diff>>)>> ELSE <<>>)
              \o (IF changed THEN <<Note("delta", OfThread, OfTurn, item, <<u.diff>>)>> ELSE <<>>)
              \o (IF u.status = "completed"
                  THEN <<Note("completed", OfThread, OfTurn, item, <<changes>>)>> ELSE <<>>)
              \o (IF changed
                  THEN <<Note("diff", OfThread, OfTurn, TheTurn(OfTurn), Aggregated(diffs))>>
                  ELSE <<>>))
      /\ UNCHANGED <<turn, agentVars, internal, outputs>>

-----------------------------------------------------------------------------
(* handle_internal_event                                                   *)

DropDiffs(k) == [turnDiffs EXCEPT ![k] = <<>>]

\* translate_stream_completion
StreamCompletion(t, k) ==
  CompleteMessage(t, k) \o <<Note("completed", t, k, Reasoning(k), outputs[k].reasoning)>>

TurnCompleted ==
  LET t == Head(internal)[1]
      k == Head(internal)[2]
  IN  /\ LoopFree
      /\ internal # <<>>
      /\ internal' = Tail(internal)
      /\ turn[t] = k
      /\ Show(StreamCompletion(t, k) \o <<Note("completed", t, k, TheTurn(k), <<>>)>>)
      /\ outputs' = [outputs EXCEPT ![k] = NoOutput]
      /\ turnDiffs' = DropDiffs(k)
      /\ turn' = [turn EXCEPT ![t] = 0]
      /\ UNCHANGED <<agentVars, events, toolVars>>

Next ==
  \/ \E t \in Threads :
       TurnStart(t) \/ AgentAnswer(t) \/ \E u \in Updates : AgentUpdate(t, u)
  \/ HandleText \/ HandleThought \/ HandleToolCall \/ HandleToolUpdate
  \/ TurnCompleted

Spec == Init /\ [][Next]_vars

-----------------------------------------------------------------------------
(* Properties.                                                             *)

\* The notifications of what kind about an item, as positions of shown.
At(what, item) == {i \in DOMAIN shown : shown[i].what = what /\ shown[i].item = item}

\* The bodies of the notifications that pass the test, in their order.
Bodies(Test(_)) ==
  LET passing == SelectSeq(shown, Test) IN FlattenSeq([i \in DOMAIN passing |-> passing[i].body])

Streamed == {"message", "reasoning"}

\* The messages and the reasoning of turns.
StreamItems == {shown[i].item : i \in {j \in DOMAIN shown :
                  shown[j].item.type \in Streamed /\ shown[j].turn # 0}}

Ended(k) == At("completed", TheTurn(k)) # {}

\* A message of a turn, and its reasoning, is started, grows, and is completed,
\* in this order and once; a turn that has ended has none open.
ItemLife ==
  \A m \in StreamItems :
    LET s == At("started", m)
        d == At("delta", m)
        c == At("completed", m)
    IN  /\ Cardinality(s) = 1 /\ Cardinality(c) <= 1
        /\ \A i \in d : Min(s) < i
        /\ \A i \in d \cup s, j \in c : i < j
        /\ Ended(m.turn) => c # {}

\* "Codex clients require item lifecycle notifications for delta targets": what
\* is streamed into an item comes after the item was started.
\* The code does not keep this: see README.
DeltaHasTarget ==
  \A i \in DOMAIN shown :
    shown[i].what = "delta" => \E j \in At("started", shown[i].item) : j < i

\* "the completed item must contain the text that was previously delivered as
\* deltas"
CompletedIsAuthoritative ==
  \A i \in DOMAIN shown :
    shown[i].what = "completed" /\ shown[i].item.type \in Streamed =>
      shown[i].body = Bodies(LAMBDA n : n.what = "delta" /\ n.item = shown[i].item)

\* "text resumed after a tool call is a new message item after that tool": no
\* message has text on both sides of a tool call.
TextResumesInNewItem ==
  \A m \in StreamItems : \A i, j \in At("delta", m) :
    m.type = "message" /\ i < j => ~\E n \in shown[i].body[1]..shown[j].body[1] :
               sent[n].update.what = "call" /\ sent[n].thread = shown[i].thread

\* When the turn ends, the completed messages hold every piece of text the
\* agent sent for its prompt, in the agent's order.
NoTextLost ==
  \A k \in 1..turns : Ended(k) =>
    LET text == Bodies(LAMBDA n : /\ n.what = "completed" /\ n.turn = k
                                  /\ n.item.type = "message")
    IN  SelectSeq(text, LAMBDA n : sent[n].turn = k)
          = SelectSeq([n \in DOMAIN sent |-> n],
                      LAMBDA n : sent[n].turn = k /\ sent[n].update.what = "text")

\* "Repeated ACP completion content does not duplicate a diff, and separate
\* edits to the same file remain visible in the turn-level diff": the diff
\* shown last has, for each tool that reported diffs, in the order of their
\* first reports, the collection it reported last.
DiffIsCurrent ==
  \A k \in 1..turns :
    LET reports == {n \in DOMAIN sent : /\ sent[n].turn = k /\ sent[n].update.diff # 0
                                        /\ n \notin ToSet(events)}
        FirstOf(x) == Min({n \in reports : sent[n].update.tool = x})
        LastOf(x)  == Max({n \in reports : sent[n].update.tool = x})
        order == SetToSortSeq({sent[n].update.tool : n \in reports},
                              LAMBDA x, y : FirstOf(x) < FirstOf(y))
    IN  reports # {} =>
          shown[Max(At("diff", TheTurn(k)))].body =
            [i \in DOMAIN order |-> sent[LastOf(order[i])].update.diff]

\* Two diffs of a turn, one after the other, differ.
DiffNotRepeated ==
  \A k \in 1..turns : \A i, j \in At("diff", TheTurn(k)) :
    i < j /\ (\A h \in At("diff", TheTurn(k)) : ~(i < h /\ h < j))
      => shown[i].body # shown[j].body

\* Each notification names a turn of its own thread.
OwnTurn ==
  \A i \in DOMAIN shown : shown[i].turn # 0 =>
    \E j \in At("started", TheTurn(shown[i].turn)) : shown[j].thread = shown[i].thread

\* What a turn gathered is released when it ends.
StreamReleased ==
  \A k \in 1..MaxTurns :
    (outputs[k].live \/ turnDiffs[k] # <<>>) => \E t \in Threads : turn[t] = k
=============================================================================
