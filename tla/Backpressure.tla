---------------------------- MODULE Backpressure ----------------------------
(***************************************************************************)
(* The queues between the client, the multiplexer and its children         *)
(* (run_from_codex_cli_args and spawn_peer in src/src/hybrid.rs;           *)
(* src/src/transport/stdio.rs, run and run_session in src/src/lib.rs for   *)
(* the Grok adapter, which is a child of the multiplexer).  Every queue    *)
(* and every pipe is bounded, and a task that finds the next one full      *)
(* waits there with the line it holds.  The multiplexer is one task: while *)
(* it waits for a child to read it reads from none.                        *)
(*                                                                         *)
(* A line is a request of the client, an update of the agent, or the       *)
(* answer to a request, which has the request's number; updates have the   *)
(* numbers after those of the requests.                                    *)
(***************************************************************************)
EXTENDS Naturals, Sequences, SequencesExt, FiniteSets

CONSTANTS
  Requests,      \* the client's requests in order: the backend of each
  Updates,       \* how many lines the agent streams of its own accord
  MaxOpen,       \* how many requests the client leaves unanswered at most
  PipeCap,       \* lines a pipe holds (in the system: 64 KiB of them)
  QueueCap,      \* 256 in the adapter, 512 in the multiplexer
  NoLine

Backends == {"native", "grok"}
Lines    == 1..(Len(Requests) + Updates)

BackpressureConstants ==
  /\ Requests \in Seq(Backends)
  /\ Updates \in Nat /\ NoLine \notin Lines
  /\ MaxOpen \in Nat /\ PipeCap \in Nat \ {0} /\ QueueCap \in Nat \ {0}

VARIABLES
  sent,       \* how many requests the client has sent
  received,   \* the lines it got
  clientQ,    \* client_tx: lines of the client the multiplexer has not taken
  writing,    \* the line the multiplexer is writing to a child
  events,     \* events_tx: <<backend, line>> that the multiplexer has not taken
  stdin,      \* the pipe to each child
  stdout,     \* the pipe from each child
  inbound,    \* the adapter's queue of messages
  updates,    \* acp_events, which is unbounded
  streamed,   \* how many updates there were
  sending,    \* what the adapter's loop has still to send, in its handler
  outbound    \* the adapter's queue of lines

adapterVars == <<inbound, updates, streamed, sending, outbound>>
muxVars     == <<clientQ, writing, events>>
vars == <<sent, received, clientQ, writing, events, stdin, stdout,
          inbound, updates, streamed, sending, outbound>>

AtMost(n, q, S) == q \in Seq(S) /\ Len(q) <= n

TypeOK ==
  /\ sent \in 0..Len(Requests)
  /\ received \subseteq Lines
  /\ AtMost(QueueCap, clientQ, DOMAIN Requests)
  /\ writing \in DOMAIN Requests \cup {NoLine}
  /\ AtMost(QueueCap, events, Lines)
  /\ \A b \in Backends : AtMost(PipeCap, stdin[b], DOMAIN Requests) /\ AtMost(PipeCap, stdout[b], Lines)
  /\ AtMost(QueueCap, inbound, DOMAIN Requests)
  /\ AtMost(QueueCap, outbound, Lines)
  /\ updates \in Seq(Lines \ DOMAIN Requests) /\ streamed \in 0..Updates
  /\ sending \in Lines \cup {NoLine}

Init ==
  /\ sent = 0 /\ received = {}
  /\ clientQ = <<>> /\ writing = NoLine /\ events = <<>>
  /\ stdin = [b \in Backends |-> <<>>] /\ stdout = [b \in Backends |-> <<>>]
  /\ inbound = <<>> /\ updates = <<>> /\ streamed = 0 /\ sending = NoLine /\ outbound = <<>>

Open == 1..sent \ received

-----------------------------------------------------------------------------
(* The client; it reads whatever it is sent.                               *)

\* Its lines wait in the multiplexer's own stdin until the reader task can
\* put them into the queue.
ClientSends ==
  /\ sent < Len(Requests)
  /\ Cardinality(Open) < MaxOpen
  /\ Len(clientQ) < QueueCap
  /\ sent' = sent + 1
  /\ clientQ' = Append(clientQ, sent + 1)
  /\ UNCHANGED <<received, writing, events, stdin, stdout, adapterVars>>

-----------------------------------------------------------------------------
(* The multiplexer.                                                        *)

MuxTakesClientLine ==
  /\ writing = NoLine
  /\ clientQ # <<>>
  /\ writing' = Head(clientQ)
  /\ clientQ' = Tail(clientQ)
  /\ UNCHANGED <<sent, received, events, stdin, stdout, adapterVars>>

\* send_line: write_all and flush
MuxWrites ==
  LET b == Requests[writing] IN
  /\ writing # NoLine
  /\ Len(stdin[b]) < PipeCap
  /\ stdin' = [stdin EXCEPT ![b] = Append(@, writing)]
  /\ writing' = NoLine
  /\ UNCHANGED <<sent, received, clientQ, events, stdout, adapterVars>>

\* write_json or a plain write to the client
MuxTakesEvent ==
  /\ writing = NoLine
  /\ events # <<>>
  /\ received' = received \cup {Head(events)}
  /\ events' = Tail(events)
  /\ UNCHANGED <<sent, clientQ, writing, stdin, stdout, adapterVars>>

\* mistake: what a child writes overtakes what waits
ReadChildFirst(b) ==
  /\ stdout[b] # <<>>
  /\ Len(events) < QueueCap
  /\ events' = <<Head(stdout[b])>> \o events
  /\ stdout' = [stdout EXCEPT ![b] = Tail(@)]
  /\ UNCHANGED <<sent, received, clientQ, writing, stdin, adapterVars>>

\* the task of spawn_peer
ReadChild(b) ==
  /\ stdout[b] # <<>>
  /\ Len(events) < QueueCap
  /\ events' = Append(events, Head(stdout[b]))
  /\ stdout' = [stdout EXCEPT ![b] = Tail(@)]
  /\ UNCHANGED <<sent, received, clientQ, writing, stdin, adapterVars>>

-----------------------------------------------------------------------------
(* Native Codex: it answers what it reads when it can write.               *)

NativeServes ==
  /\ stdin["native"] # <<>>
  /\ Len(stdout["native"]) < PipeCap
  /\ stdout' = [stdout EXCEPT !["native"] = Append(@, Head(stdin["native"]))]
  /\ stdin' = [stdin EXCEPT !["native"] = Tail(@)]
  /\ UNCHANGED <<sent, received, muxVars, adapterVars>>

-----------------------------------------------------------------------------
(* The Grok adapter.                                                       *)

\* stdio::spawn_reader
AdapterReads ==
  /\ stdin["grok"] # <<>>
  /\ Len(inbound) < QueueCap
  /\ inbound' = Append(inbound, Head(stdin["grok"]))
  /\ stdin' = [stdin EXCEPT !["grok"] = Tail(@)]
  /\ UNCHANGED <<sent, received, muxVars, stdout, updates, streamed, sending, outbound>>

AgentStreams ==
  /\ streamed < Updates
  /\ updates' = Append(updates, Len(Requests) + streamed + 1)
  /\ streamed' = streamed + 1
  /\ UNCHANGED <<sent, received, muxVars, stdin, stdout, inbound, sending, outbound>>

\* The loop takes updates first, and waits in its handler for room.
LoopTakesUpdate ==
  /\ sending = NoLine
  /\ updates # <<>>
  /\ sending' = Head(updates)
  /\ updates' = Tail(updates)
  /\ UNCHANGED <<sent, received, muxVars, stdin, stdout, inbound, streamed, outbound>>

LoopTakesMessage ==
  /\ sending = NoLine
  /\ updates = <<>>
  /\ inbound # <<>>
  /\ sending' = Head(inbound)
  /\ inbound' = Tail(inbound)
  /\ UNCHANGED <<sent, received, muxVars, stdin, stdout, updates, streamed, outbound>>

\* send_raw
LoopSends ==
  /\ sending # NoLine
  /\ Len(outbound) < QueueCap
  /\ outbound' = Append(outbound, sending)
  /\ sending' = NoLine
  /\ UNCHANGED <<sent, received, muxVars, stdin, stdout, inbound, updates, streamed>>

\* stdio::spawn_writer
AdapterWrites ==
  /\ outbound # <<>>
  /\ Len(stdout["grok"]) < PipeCap
  /\ stdout' = [stdout EXCEPT !["grok"] = Append(@, Head(outbound))]
  /\ outbound' = Tail(outbound)
  /\ UNCHANGED <<sent, received, muxVars, stdin, inbound, updates, streamed, sending>>

-----------------------------------------------------------------------------
MuxSteps == MuxTakesClientLine \/ MuxTakesEvent

Tasks ==
  \/ MuxWrites
  \/ \E b \in Backends : ReadChild(b)
  \/ NativeServes
  \/ AdapterReads \/ LoopTakesUpdate \/ LoopTakesMessage \/ LoopSends \/ AdapterWrites

Next ==
  \/ ClientSends \/ AgentStreams
  \/ MuxSteps \/ Tasks

Spec == Init /\ [][Next]_vars

\* Every task runs; select! of the multiplexer favours neither of its queues.
Fairness ==
  /\ SF_vars(MuxTakesClientLine) /\ SF_vars(MuxTakesEvent) /\ WF_vars(MuxWrites)
  /\ \A b \in Backends : SF_vars(ReadChild(b))
  /\ WF_vars(NativeServes) /\ WF_vars(AdapterReads) /\ WF_vars(LoopTakesUpdate)
  /\ WF_vars(LoopTakesMessage) /\ WF_vars(LoopSends) /\ WF_vars(AdapterWrites)

FairSpec == Spec /\ Fairness

-----------------------------------------------------------------------------
(* Properties.                                                             *)

Path(b) == IF b = "native" THEN stdin[b] \o stdout[b]
           ELSE stdin[b] \o stdout[b] \o inbound \o updates \o outbound
                  \o (IF sending = NoLine THEN <<>> ELSE <<sending>>)

Underway == clientQ \o (IF writing = NoLine THEN <<>> ELSE <<writing>>)
              \o Path("native") \o Path("grok") \o events

\* No line is lost and none is doubled, however long it waits and wherever.
EachLineOnce ==
  /\ IsInjective(Underway)
  /\ ToSet(Underway) \cap received = {}
  /\ ToSet(Underway) \cup received =
       1..sent \cup (Len(Requests) + 1)..(Len(Requests) + streamed)

\* Each child's answers come in the order of the requests it was sent, and
\* the updates in the order in which the agent made them.
InOrder ==
  [][\A l \in received' \ received, m \in Lines \ received' :
       m < l => IF l \in DOMAIN Requests THEN Requests[m] # Requests[l]
                                         ELSE m \in DOMAIN Requests]_vars

\* "Codex-backed and Grok-backed tasks can run concurrently": what the client
\* asks of either is answered, whatever waits at the other.
\* The code keeps this with few requests open, not with many: see README.
RequestsServed == \A r \in DOMAIN Requests : r \in 1..sent ~> r \in received

=============================================================================
