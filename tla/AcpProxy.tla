------------------------------ MODULE AcpProxy ------------------------------
(***************************************************************************)
(* One connection of the ACP proxy (src/src/acp_proxy.rs) and the commands *)
(* it runs itself (src/src/command_exec.rs).  Two loops run side by side   *)
(* until either ends: one reads the client's frames, in order, and either  *)
(* runs a command or writes the frame to the agent; the other writes to    *)
(* the client what the agent and the commands say.                         *)
(*                                                                         *)
(* A frame is known by its number.                                         *)
(***************************************************************************)
EXTENDS Naturals, Sequences, SequencesExt, FiniteSets

CONSTANTS
  Frames,      \* the client's frames in order: "forward" or a kind of command
  AgentLines,  \* how many lines the agent writes of its own accord
  PipeCap,     \* lines the agent's stdin holds
  LocalCap,    \* capacity of local_tx; 16 in the code
  NoFrame

\* A command may be malformed, end by itself, or go on until its time is up.
Commands == {"malformed", "ends", "goes on"}

ProxyConstants ==
  /\ Frames \in Seq(Commands \cup {"forward", "two lines"})
  /\ AgentLines \in Nat /\ PipeCap \in Nat \ {0} /\ LocalCap \in Nat \ {0}

VARIABLES
  open,       \* both loops run
  sent,       \* how many frames the client has sent
  frames,     \* frames not read yet
  hand,       \* the frame the reading loop is busy with
  running,    \* a child process runs the command in hand
  stdin,      \* lines written to the agent: <<frame, part>>
  read,       \* lines the agent has read
  local,      \* the local queue: <<frame, outcome>>
  stdout,     \* lines of the agent that were not read
  written,    \* how many the agent has written
  received,   \* what the client got: frames answered here, lines of the agent
  agent       \* "up", "closed" its stdout, or "killed"

vars == <<open, sent, frames, hand, running, stdin, read, local, stdout, written, received, agent>>

N == Len(Frames)
Agent == 0          \* in the place of a frame: a line of the agent's own
Outcomes == {"error", "done", "timed out"}

TypeOK ==
  /\ open \in BOOLEAN /\ running \in BOOLEAN
  /\ sent \in 0..N /\ written \in 0..AgentLines
  /\ frames \in Seq(1..N)
  /\ hand \in 1..N \cup {NoFrame}
  /\ stdin \in Seq((1..N) \X {1, 2}) /\ Len(stdin) <= PipeCap + 1
  /\ read \in Seq((1..N) \X {1, 2})
  /\ local \in Seq((1..N) \X Outcomes) /\ Len(local) <= LocalCap
  /\ stdout \in Seq(1..AgentLines)
  /\ \A i \in DOMAIN received : received[i] \in ((1..N) \X Outcomes) \cup ({Agent} \X (1..AgentLines))
  /\ agent \in {"up", "closed", "killed"}

Init ==
  /\ open = TRUE /\ sent = 0 /\ frames = <<>> /\ hand = NoFrame /\ running = FALSE
  /\ stdin = <<>> /\ read = <<>> /\ local = <<>> /\ stdout = <<>> /\ written = 0
  /\ received = <<>> /\ agent = "up"

-----------------------------------------------------------------------------
(* The client and the agent.                                               *)

ClientSends ==
  /\ open /\ sent < N
  /\ sent' = sent + 1
  /\ frames' = Append(frames, sent + 1)
  /\ UNCHANGED <<open, hand, running, stdin, read, local, stdout, written, received, agent>>

AgentReads ==
  /\ agent = "up" /\ stdin # <<>>
  /\ read' = Append(read, Head(stdin))
  /\ stdin' = Tail(stdin)
  /\ UNCHANGED <<open, sent, frames, hand, running, local, stdout, written, received, agent>>

AgentWrites ==
  /\ agent = "up" /\ written < AgentLines
  /\ written' = written + 1
  /\ stdout' = Append(stdout, written + 1)
  /\ UNCHANGED <<open, sent, frames, hand, running, stdin, read, local, received, agent>>

AgentCloses ==
  /\ agent = "up"
  /\ agent' = "closed"
  /\ UNCHANGED <<open, sent, frames, hand, running, stdin, read, local, stdout, written, received>>

-----------------------------------------------------------------------------
(* The reading loop: ws_to_stdin.                                          *)

TakeFrame ==
  /\ open /\ hand = NoFrame /\ frames # <<>>
  /\ hand' = Head(frames)
  /\ frames' = Tail(frames)
  /\ UNCHANGED <<open, sent, running, stdin, read, local, stdout, written, received, agent>>

\* The text is written as it is, with a line end if it has none at its end.
Forward ==
  /\ open /\ hand # NoFrame /\ Frames[hand] \notin Commands
  /\ Len(stdin) < PipeCap
  /\ stdin' = stdin \o (IF Frames[hand] = "two lines" THEN <<<<hand, 1>>, <<hand, 2>>>> ELSE <<<<hand, 1>>>>)
  /\ hand' = NoFrame
  /\ UNCHANGED <<open, sent, frames, running, read, local, stdout, written, received, agent>>

\* write_all to an agent that is gone
ForwardFails ==
  /\ open /\ hand # NoFrame /\ Frames[hand] \notin Commands
  /\ agent # "up"
  /\ open' = FALSE
  /\ UNCHANGED <<sent, frames, hand, running, stdin, read, local, stdout, written, received, agent>>

\* try_handle_locally and command_exec::run
StartCommand ==
  /\ open /\ hand # NoFrame /\ Frames[hand] \in Commands \ {"malformed"} /\ ~running
  /\ running' = TRUE
  /\ UNCHANGED <<open, sent, frames, hand, stdin, read, local, stdout, written, received, agent>>

Answer(outcome) ==
  /\ Len(local) < LocalCap
  /\ local' = Append(local, <<hand, outcome>>)
  /\ hand' = NoFrame
  /\ running' = FALSE
  /\ UNCHANGED <<open, sent, frames, stdin, read, stdout, written, received, agent>>

\* An empty command, a malformed sandbox policy, a failed spawn: the child is
\* not started, and the client gets an error.
RejectCommand == open /\ hand # NoFrame /\ Frames[hand] \in Commands /\ ~running /\ Answer("error")

CommandEnds == open /\ running /\ Frames[hand] = "ends" /\ Answer("done")

\* The timeout, 30 s unless the request says otherwise; the child is killed
\* when its handle is dropped.
TimeUp == open /\ running /\ Frames[hand] \in Commands /\ Answer("timed out")

ClientCloses ==
  /\ open /\ hand = NoFrame /\ frames = <<>>
  /\ open' = FALSE
  /\ UNCHANGED <<sent, frames, hand, running, stdin, read, local, stdout, written, received, agent>>

-----------------------------------------------------------------------------
(* The writing loop: stdout_to_ws.                                         *)

WriteAgentLine ==
  /\ open /\ stdout # <<>>
  /\ received' = Append(received, <<Agent, Head(stdout)>>)
  /\ stdout' = Tail(stdout)
  /\ UNCHANGED <<open, sent, frames, hand, running, stdin, read, local, written, agent>>

WriteAnswer ==
  /\ open /\ local # <<>>
  /\ received' = Append(received, Head(local))
  /\ local' = Tail(local)
  /\ UNCHANGED <<open, sent, frames, hand, running, stdin, read, stdout, written, agent>>

AgentGone ==
  /\ open /\ agent = "closed" /\ stdout = <<>>
  /\ open' = FALSE
  /\ UNCHANGED <<sent, frames, hand, running, stdin, read, local, stdout, written, received, agent>>

-----------------------------------------------------------------------------
\* Either loop has ended: the other is dropped, with the command it runs, and
\* the agent is killed.
CleanUp ==
  /\ ~open /\ agent # "killed"
  /\ agent' = "killed"
  /\ running' = FALSE /\ hand' = NoFrame
  /\ UNCHANGED <<open, sent, frames, stdin, read, local, stdout, written, received>>

Next ==
  \/ ClientSends \/ AgentReads \/ AgentWrites \/ AgentCloses
  \/ TakeFrame \/ Forward \/ ForwardFails
  \/ StartCommand \/ RejectCommand \/ CommandEnds \/ TimeUp \/ ClientCloses
  \/ WriteAgentLine \/ WriteAnswer \/ AgentGone \/ CleanUp

Spec == Init /\ [][Next]_vars

\* The proxy's loops and clean-up, a clock, and an agent that reads while it
\* runs.
FairSpec ==
  /\ Spec
  /\ WF_vars(TakeFrame) /\ WF_vars(Forward) /\ WF_vars(ForwardFails) /\ WF_vars(StartCommand)
  /\ WF_vars(RejectCommand) /\ WF_vars(TimeUp) /\ SF_vars(WriteAgentLine) /\ SF_vars(WriteAnswer)
  /\ WF_vars(AgentGone) /\ WF_vars(CleanUp) /\ WF_vars(AgentReads)

-----------------------------------------------------------------------------
(* Properties.                                                             *)

FrameOf(pair) == pair[1]
Passed == SelectSeq([i \in 1..sent |-> i], LAMBDA i : Frames[i] \notin Commands)

\* The agent gets the client's messages in their order, and none that the
\* proxy answers itself.
AgentGetsTheRest ==
  LET got == SelectSeq(read \o stdin, LAMBDA p : p[2] = 1)
  IN  IsPrefix([i \in DOMAIN got |-> FrameOf(got[i])], Passed)

\* The client gets one answer for each command, in the order of its commands,
\* and the agent's lines in theirs.
ClientGetsInOrder ==
  LET own == SelectSeq(received, LAMBDA p : p[1] # Agent)
      lines == SelectSeq(received, LAMBDA p : p[1] = Agent)
  IN  /\ \A i, k \in DOMAIN own : i < k => own[i][1] < own[k][1]
      /\ \A i \in DOMAIN lines : lines[i][2] = i

\* "command/exec": no command outlives its frame or its connection.
NoStrayCommand == running => hand # NoFrame /\ agent # "killed"

\* "WS text message <-> NDJSON line": what the agent reads of a message is one
\* line.
\* The code does not keep this: see README.
OneLineEach == \A k \in DOMAIN read : read[k][2] = 1
=============================================================================
