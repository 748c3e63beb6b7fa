----------------------------- MODULE MCFrontend -----------------------------
(* What stands between the client and its backends, for TLC: the             *)
(* multiplexer, its pages and queues, the settings of tasks, what the agent  *)
(* streams and asks during a turn, and the ACP proxy.  The components do not *)
(* step together: a behaviour is one of one component, on an instance of its *)
(* own, and one run checks them all.  Requests of the client and requests of *)
(* the children share no state of the multiplexer, and are parts apart.      *)
EXTENDS HybridMux, SessionSettings, TLC

CONSTANTS
  Unused,                                       \* not used in this behaviour
  t1, t2, s1, s2, g1, g2, n1, low, hi, c1, c2,  \* what the settings are about
  a1, a2                                        \* what the agent asks

Asking == <<"grok", "native", "grok", "native">>
Mixed  == <<"forward", "ends", "forward", "malformed", "goes on", "forward">>

OptionLists == {<<"allow_once", "reject_once">>, <<"allow_once">>}

TextUpdate == [what |-> "text", tool |-> 0, kind |-> "none", diff |-> 0, status |-> "none"]
Call(tool, kind) == [TextUpdate EXCEPT !.what = "call", !.tool = tool, !.kind = kind]
Report(tool, kind, diff, status) ==
  [what |-> "update", tool |-> tool, kind |-> kind, diff |-> diff, status |-> status]

\* Text and thoughts around tools.
TextUpdates ==
  {TextUpdate, [TextUpdate EXCEPT !.what = "thought"],
   Call(1, "execute"), Report(1, "none", 0, "completed")}

\* Two edits, one of which is only known to be an edit later.
EditUpdates ==
  {Call(1, "edit"), Call(2, "other")}
  \cup {Report(1, "none", d, s) : d \in {1, 2}, s \in {"none", "completed"}}
  \cup {Report(2, "edit", 1, "none"), Report(2, "none", 3, "completed")}

VARIABLE part   \* the component this behaviour is of; the others rest

\* The settings of a client that talks to the gateway; the agent changes them too.
VARIABLES ownOwner, ownRoutes, ownSess, ownSaved, ownThread_of, ownLoaded,
          ownAgent, ownModel_state, ownAdvertised, ownUpdates, ownTold,
          ownTaken, ownGiven, ownServed, ownRestarts
ownVars == <<ownOwner, ownRoutes, ownSess, ownSaved, ownThread_of, ownLoaded,
             ownAgent, ownModel_state, ownAdvertised, ownUpdates, ownTold,
             ownTaken, ownGiven, ownServed, ownRestarts>>
Gateway == INSTANCE SessionSettings WITH
  Threads <- {"t"}, Sessions <- {s1, s2}, GrokModels <- {g1, g2},
  NativeModels <- {n1}, Direct <- TRUE, ConfigModels <- FALSE,
  TurnModels <- TRUE, Rollbacks <- TRUE, AgentChanges <- TRUE,
  MaxNotes <- 2, MaxRestarts <- 1, owner <- ownOwner, routes <- ownRoutes,
  sess <- ownSess, saved <- ownSaved, thread_of <- ownThread_of,
  loaded <- ownLoaded, agent <- ownAgent,
  model_state <- ownModel_state, advertised <- ownAdvertised,
  updates <- ownUpdates, told <- ownTold, taken <- ownTaken,
  given <- ownGiven, served <- ownServed, restarts <- ownRestarts

\* The pages of both backends' tasks.
VARIABLES pageOwner, pageBorn, pageKey, pageLimit, pageCursor, pageNext,
          pageBack, pageTrail, pageShown, pageBegun, pageUp
pageVars == <<pageOwner, pageBorn, pageKey, pageLimit, pageCursor, pageNext,
              pageBack, pageTrail, pageShown, pageBegun, pageUp>>
Batches == INSTANCE ThreadPages WITH
  MaxTask <- 4, Initially <- 4, MaxKey <- 2, Batch <- 2, Limits <- {1, 2, 3},
  Descending <- TRUE, Archives <- FALSE, MaxPages <- 6, Done <- Unused,
  owner <- pageOwner, born <- pageBorn, key <- pageKey, limit <- pageLimit,
  cursor <- pageCursor, next <- pageNext, back <- pageBack,
  trail <- pageTrail, shown <- pageShown, begun <- pageBegun, up <- pageUp
Arriving == INSTANCE ThreadPages WITH
  MaxTask <- 4, Initially <- 3, MaxKey <- 2, Batch <- 2, Limits <- {1, 2},
  Descending <- TRUE, Archives <- FALSE, MaxPages <- 6, Done <- Unused,
  owner <- pageOwner, born <- pageBorn, key <- pageKey, limit <- pageLimit,
  cursor <- pageCursor, next <- pageNext, back <- pageBack,
  trail <- pageTrail, shown <- pageShown, begun <- pageBegun, up <- pageUp
Archiving == INSTANCE ThreadPages WITH
  MaxTask <- 4, Initially <- 4, MaxKey <- 1, Batch <- 2, Limits <- {1, 2},
  Descending <- TRUE, Archives <- TRUE, MaxPages <- 6, Done <- Unused,
  owner <- pageOwner, born <- pageBorn, key <- pageKey, limit <- pageLimit,
  cursor <- pageCursor, next <- pageNext, back <- pageBack,
  trail <- pageTrail, shown <- pageShown, begun <- pageBegun, up <- pageUp

\* The bounded queues between client, multiplexer and children.
VARIABLES queueSent, queueReceived, queueClientQ, queueWriting, queueEvents,
          queueStdin, queueStdout, queueInbound, queueUpdates, queueStreamed,
          queueSending, queueOutbound
queueVars == <<queueSent, queueReceived, queueClientQ, queueWriting,
               queueEvents, queueStdin, queueStdout, queueInbound,
               queueUpdates, queueStreamed, queueSending, queueOutbound>>
Queues == INSTANCE Backpressure WITH
  Requests <- Asking, Updates <- 2, MaxOpen <- 4, PipeCap <- 1, QueueCap <- 2,
  NoLine <- Unused, sent <- queueSent, received <- queueReceived,
  clientQ <- queueClientQ, writing <- queueWriting, events <- queueEvents,
  stdin <- queueStdin, stdout <- queueStdout, inbound <- queueInbound,
  updates <- queueUpdates, streamed <- queueStreamed, sending <- queueSending,
  outbound <- queueOutbound

\* The ACP proxy.
VARIABLES proxyOpen, proxySent, proxyFrames, proxyHand, proxyRunning,
          proxyStdin, proxyRead, proxyLocal, proxyStdout, proxyWritten,
          proxyReceived, proxyAgent
proxyVars == <<proxyOpen, proxySent, proxyFrames, proxyHand, proxyRunning,
               proxyStdin, proxyRead, proxyLocal, proxyStdout, proxyWritten,
               proxyReceived, proxyAgent>>
Proxy == INSTANCE AcpProxy WITH
  Frames <- Mixed, AgentLines <- 2, PipeCap <- 1, LocalCap <- 1,
  NoFrame <- Unused, open <- proxyOpen, sent <- proxySent,
  frames <- proxyFrames, hand <- proxyHand, running <- proxyRunning,
  stdin <- proxyStdin, read <- proxyRead, local <- proxyLocal,
  stdout <- proxyStdout, written <- proxyWritten, received <- proxyReceived,
  agent <- proxyAgent

\* What the agent asks the user.
VARIABLES askInTurn, askAsked, askEvents, askLoop, askCalls, askInbound,
          askPending, askNextId, askClient, askDecided, askArrived, askAnswers
askVars == <<askInTurn, askAsked, askEvents, askLoop, askCalls, askInbound,
             askPending, askNextId, askClient, askDecided, askArrived,
             askAnswers>>
Deciding == INSTANCE Approvals WITH
  Threads <- {"t1", "t2"}, Asks <- {a1, a2}, Kinds <- {"permission", "tool"},
  Decisions <- {"acceptForSession", "decline"}, MaxCalls <- 1,
  ManyTurns <- TRUE, NoAnswer <- Unused, NoThread <- Unused,
  inTurn <- askInTurn, asked <- askAsked, events <- askEvents,
  loop <- askLoop, calls <- askCalls, inbound <- askInbound,
  pending <- askPending, nextId <- askNextId, client <- askClient,
  decided <- askDecided, arrived <- askArrived, answers <- askAnswers
OneTurn == INSTANCE Approvals WITH
  Threads <- {"t1", "t2"}, Asks <- {a1, a2}, Kinds <- {"permission", "tool"},
  Decisions <- {"accept"}, MaxCalls <- 1, ManyTurns <- FALSE,
  NoAnswer <- Unused, NoThread <- Unused, inTurn <- askInTurn,
  asked <- askAsked, events <- askEvents, loop <- askLoop, calls <- askCalls,
  inbound <- askInbound, pending <- askPending, nextId <- askNextId,
  client <- askClient, decided <- askDecided, arrived <- askArrived,
  answers <- askAnswers

\* What the agent streams during a turn.
VARIABLES itemTurn, itemTurns, itemPrompted, itemSent, itemEvents,
          itemInternal, itemOutputs, itemToolItems, itemToolKind,
          itemToolChanges, itemChangesStarted, itemTurnDiffs, itemShown
itemVars == <<itemTurn, itemTurns, itemPrompted, itemSent, itemEvents,
              itemInternal, itemOutputs, itemToolItems, itemToolKind,
              itemToolChanges, itemChangesStarted, itemTurnDiffs, itemShown>>
Texts == INSTANCE TurnStream WITH
  Threads <- {"t1"}, Updates <- TextUpdates, MaxUpdates <- 3, MaxTurns <- 2,
  Late <- TRUE, turn <- itemTurn, turns <- itemTurns,
  prompted <- itemPrompted, sent <- itemSent, events <- itemEvents,
  internal <- itemInternal, outputs <- itemOutputs,
  toolItems <- itemToolItems, toolKind <- itemToolKind,
  toolChanges <- itemToolChanges, changesStarted <- itemChangesStarted,
  turnDiffs <- itemTurnDiffs, shown <- itemShown
Threaded == INSTANCE TurnStream WITH
  Threads <- {"t1", "t2"}, Updates <- {TextUpdate, Call(1, "execute")},
  MaxUpdates <- 2, MaxTurns <- 2, Late <- TRUE, turn <- itemTurn,
  turns <- itemTurns, prompted <- itemPrompted, sent <- itemSent,
  events <- itemEvents, internal <- itemInternal, outputs <- itemOutputs,
  toolItems <- itemToolItems, toolKind <- itemToolKind,
  toolChanges <- itemToolChanges, changesStarted <- itemChangesStarted,
  turnDiffs <- itemTurnDiffs, shown <- itemShown
Edits == INSTANCE TurnStream WITH
  Threads <- {"t1"}, Updates <- EditUpdates, MaxUpdates <- 4, MaxTurns <- 1,
  Late <- FALSE, turn <- itemTurn, turns <- itemTurns,
  prompted <- itemPrompted, sent <- itemSent, events <- itemEvents,
  internal <- itemInternal, outputs <- itemOutputs,
  toolItems <- itemToolItems, toolKind <- itemToolKind,
  toolChanges <- itemToolChanges, changesStarted <- itemChangesStarted,
  turnDiffs <- itemTurnDiffs, shown <- itemShown

\* The values the instances are given are as their modules ask.
ASSUME InstanceConstants ==
  /\ Gateway!SettingsConstants
  /\ Batches!PagesConstants
  /\ Arriving!PagesConstants
  /\ Archiving!PagesConstants
  /\ Queues!BackpressureConstants
  /\ Proxy!ProxyConstants
  /\ Deciding!ApprovalsConstants
  /\ OneTurn!ApprovalsConstants
  /\ Texts!TurnStreamConstants
  /\ Threaded!TurnStreamConstants
  /\ Edits!TurnStreamConstants

-----------------------------------------------------------------------------
AllParts == {"requests", "served", "settings", "gateway", "batches",
             "arriving", "archiving", "queues", "proxy", "asks", "one turn",
             "texts", "two threads", "edits"}

InRequests == part = "requests" /\ UNCHANGED <<part, settingsVars, ownVars,
    pageVars, queueVars, proxyVars, askVars, itemVars>>
InServer == part = "served" /\ UNCHANGED <<part, settingsVars, ownVars,
    pageVars, queueVars, proxyVars, askVars, itemVars>>
InSettings == part = "settings" /\ UNCHANGED <<part, vars, ownVars, pageVars,
    queueVars, proxyVars, askVars, itemVars>>
InGateway == part = "gateway" /\ UNCHANGED <<part, vars, settingsVars,
    pageVars, queueVars, proxyVars, askVars, itemVars>>
InBatches == part = "batches" /\ UNCHANGED <<part, vars, settingsVars,
    ownVars, queueVars, proxyVars, askVars, itemVars>>
InArriving == part = "arriving" /\ UNCHANGED <<part, vars, settingsVars,
    ownVars, queueVars, proxyVars, askVars, itemVars>>
InArchiving == part = "archiving" /\ UNCHANGED <<part, vars, settingsVars,
    ownVars, queueVars, proxyVars, askVars, itemVars>>
InQueues == part = "queues" /\ UNCHANGED <<part, vars, settingsVars, ownVars,
    pageVars, proxyVars, askVars, itemVars>>
InProxy == part = "proxy" /\ UNCHANGED <<part, vars, settingsVars, ownVars,
    pageVars, queueVars, askVars, itemVars>>
InDeciding == part = "asks" /\ UNCHANGED <<part, vars, settingsVars, ownVars,
    pageVars, queueVars, proxyVars, itemVars>>
InOneTurn == part = "one turn" /\ UNCHANGED <<part, vars, settingsVars,
    ownVars, pageVars, queueVars, proxyVars, itemVars>>
InTexts == part = "texts" /\ UNCHANGED <<part, vars, settingsVars, ownVars,
    pageVars, queueVars, proxyVars, askVars>>
InThreaded == part = "two threads" /\ UNCHANGED <<part, vars, settingsVars,
    ownVars, pageVars, queueVars, proxyVars, askVars>>
InEdits == part = "edits" /\ UNCHANGED <<part, vars, settingsVars, ownVars,
    pageVars, queueVars, proxyVars, askVars>>

MCInit ==
  /\ part \in AllParts
  /\ Init
  /\ SettingsInit
  /\ Gateway!SettingsInit
  /\ IF part = "batches" THEN Batches!Init
     ELSE IF part = "arriving" THEN Arriving!Init
     ELSE IF part = "archiving" THEN Archiving!Init
     ELSE /\ pageOwner = Unused /\ pageBorn = Unused /\ pageKey = Unused
          /\ pageLimit = Unused /\ pageCursor = Unused /\ pageNext = Unused
          /\ pageBack = Unused /\ pageTrail = Unused /\ pageShown = Unused
          /\ pageBegun = Unused /\ pageUp = Unused
  /\ Queues!Init
  /\ Proxy!Init
  /\ Deciding!Init
  /\ IF part = "texts" THEN Texts!Init
     ELSE IF part = "two threads" THEN Threaded!Init
     ELSE IF part = "edits" THEN Edits!Init
     ELSE /\ itemTurn = Unused /\ itemTurns = Unused /\ itemPrompted = Unused
          /\ itemSent = Unused /\ itemEvents = Unused /\ itemInternal = Unused
          /\ itemOutputs = Unused /\ itemToolItems = Unused
          /\ itemToolKind = Unused /\ itemToolChanges = Unused
          /\ itemChangesStarted = Unused /\ itemTurnDiffs = Unused
          /\ itemShown = Unused

MCNext ==
  \/ InRequests /\ \E r \in Requests : ClientRequest(r)
  \/ InRequests /\ \E b \in Backends, r \in Requests, ok \in BOOLEAN :
         ChildAnswers(b, r, ok)
  \/ InRequests /\ \E b \in Backends : ChildLine(b)
  \/ InRequests /\ MuxExits
  \/ InServer /\ ServerRequest
  \/ InServer /\ MuxExits
  \/ InSettings /\ \E t \in Threads, n \in Choices \cup {None}, cn \in ConfigChoices :
         Start(t, n, cn)
  \/ InSettings /\ \E t \in Threads, n \in Choices \cup {None}, cn \in ConfigChoices :
         Resume(t, n, cn)
  \/ InSettings /\ \E t \in Threads, n \in TurnChoices, e \in Efforts \cup {None} : Turn(t, n, e)
  \/ InSettings /\ \E t \in Threads, e \in Efforts : handle_set_session_mode(t, e)
  \/ InSettings /\ \E t \in Threads : handle_set_session_config_option(t)
  \/ InSettings /\ TakeUpdate
  \/ InSettings /\ Restart
  \/ InGateway /\ Gateway!SettingsNext
  \/ InBatches /\ Batches!NextPage
  \/ InBatches /\ Batches!PreviousPage
  \/ InArriving /\ Arriving!NextPage
  \/ InArriving /\ Arriving!PreviousPage
  \/ InArriving /\ Arriving!NewTask
  \/ InArchiving /\ Archiving!NextPage
  \/ InArchiving /\ Archiving!PreviousPage
  \/ InArchiving /\ Archiving!TaskGone
  \/ InQueues /\ Queues!ClientSends
  \/ InQueues /\ Queues!AgentStreams
  \/ InQueues /\ Queues!MuxTakesClientLine
  \/ InQueues /\ Queues!MuxTakesEvent
  \/ InQueues /\ Queues!MuxWrites
  \/ InQueues /\ \E b \in Backends : Queues!ReadChild(b)
  \/ InQueues /\ Queues!NativeServes
  \/ InQueues /\ Queues!AdapterReads
  \/ InQueues /\ Queues!LoopTakesUpdate
  \/ InQueues /\ Queues!LoopTakesMessage
  \/ InQueues /\ Queues!LoopSends
  \/ InQueues /\ Queues!AdapterWrites
  \/ InProxy /\ Proxy!ClientSends
  \/ InProxy /\ Proxy!AgentReads
  \/ InProxy /\ Proxy!AgentWrites
  \/ InProxy /\ Proxy!AgentCloses
  \/ InProxy /\ Proxy!TakeFrame
  \/ InProxy /\ Proxy!Forward
  \/ InProxy /\ Proxy!ForwardFails
  \/ InProxy /\ Proxy!StartCommand
  \/ InProxy /\ Proxy!RejectCommand
  \/ InProxy /\ Proxy!CommandEnds
  \/ InProxy /\ Proxy!TimeUp
  \/ InProxy /\ Proxy!ClientCloses
  \/ InProxy /\ Proxy!WriteAgentLine
  \/ InProxy /\ Proxy!WriteAnswer
  \/ InProxy /\ Proxy!AgentGone
  \/ InProxy /\ Proxy!CleanUp
  \/ InDeciding /\ \E t \in {"t1", "t2"} : Deciding!TurnBegins(t)
  \/ InDeciding /\ \E t \in {"t1", "t2"} : Deciding!TurnEnds(t)
  \/ InDeciding /\ \E x \in {a1, a2}, t \in {"t1", "t2"}, k \in {"permission", "tool"}, o \in OptionLists :
         Deciding!AgentAsks(x, t, k, o)
  \/ InDeciding /\ Deciding!AgentAnswersCall
  \/ InDeciding /\ Deciding!ClientCalls
  \/ InDeciding /\ Deciding!Disconnected
  \/ InDeciding /\ \E r \in askClient, d \in {"acceptForSession", "decline"} :
         Deciding!ClientAnswers(r, d)
  \/ InDeciding /\ Deciding!HandleAsk
  \/ InDeciding /\ Deciding!HandleResponse
  \/ InDeciding /\ Deciding!HandleCall
  \/ InDeciding /\ \E x \in {a1, a2} : Deciding!TaskAnswers(x)
  \/ InDeciding /\ \E x \in {a1, a2} : Deciding!TaskGivesUp(x)
  \/ InOneTurn /\ OneTurn!Next
  \/ InTexts /\ \E t \in {"t1"} : Texts!TurnStart(t)
  \/ InTexts /\ \E t \in {"t1"} : Texts!AgentAnswer(t)
  \/ InTexts /\ \E u \in TextUpdates : Texts!AgentUpdate("t1", u)
  \/ InTexts /\ Texts!HandleText
  \/ InTexts /\ Texts!HandleThought
  \/ InTexts /\ Texts!HandleToolCall
  \/ InTexts /\ Texts!HandleToolUpdate
  \/ InTexts /\ Texts!TurnCompleted
  \/ InThreaded /\ Threaded!Next
  \/ InEdits /\ Edits!Next

allVars == <<part, vars, settingsVars, ownVars, pageVars, queueVars,
    proxyVars, askVars, itemVars>>
MCSpec == MCInit /\ [][MCNext]_allVars

\* No action or property names one of these.
Symmetry == Permutations(Threads) \cup Permutations(Sessions)
              \cup Permutations({a1, a2})

-----------------------------------------------------------------------------
(* Properties, beside those of HybridMux and SessionSettings.                *)

\* The pages of the merged list show no task twice, leave out none that was there all
\* the time, and are in order, each of them and all together, but for Grok tasks next
\* to the end of a native batch; turning one back shows the page the client came from
\* (merge_threads in hybrid.rs).
PagesWhole ==
  /\ [](/\ part = "batches" => /\ Batches!TypeOK /\ Batches!NoRepeats
                               /\ Batches!OrderedButForBatches
        /\ part = "arriving" => Arriving!TypeOK /\ Arriving!NothingSkipped
        /\ part = "archiving" => Archiving!TypeOK /\ Archiving!NoRepeats)
  /\ [][part = "batches" /\ Len(pageTrail') < Len(pageTrail)
          => pageTrail' = SubSeq(pageTrail, 1, Len(pageTrail) - 1)]_pageVars

\* No line is lost or doubled in the queues, and answers of a child keep the
\* order of their requests; the proxy hands on, in their order, all lines but
\* those it answers; no command outlives its frame.
LinesKept ==
  /\ [](/\ part \in {"requests", "served"} => TypeOK
        /\ part = "requests" => TablesMatchChildren
        /\ part = "queues" => Queues!TypeOK /\ Queues!EachLineOnce
        /\ part = "proxy" => /\ Proxy!TypeOK /\ Proxy!AgentGetsTheRest
                             /\ Proxy!ClientGetsInOrder /\ Proxy!NoStrayCommand)
  /\ Queues!InOrder

\* What the user decides about an ask is what the agent is told about this ask;
\* an ask is in one place until it is answered, and shown in its own thread as
\* long as one turn runs at a time.
AsksDecided ==
  /\ part = "asks" => /\ Deciding!TypeOK /\ Deciding!AskedOnce /\ Deciding!ToldAsDecided
                      /\ Deciding!DecisionOfItsAsk
  /\ part = "one turn" => OneTurn!ShownInItsThread

\* Messages and reasoning are started, grow and are completed, and hold all that
\* the agent sent, in its own turn; the diff shown last is what the tools
\* reported last.
StreamKept ==
  /\ part = "texts" => /\ Texts!TypeOK /\ Texts!ItemLife /\ Texts!NoTextLost
                       /\ Texts!CompletedIsAuthoritative /\ Texts!TextResumesInNewItem
  /\ part = "two threads" => Threaded!OwnTurn /\ Threaded!NoTextLost
  /\ part = "edits" => Edits!DiffIsCurrent /\ Edits!DiffNotRepeated /\ Edits!StreamReleased

\* A setting the client made lasts until it makes another one, across resumes
\* and restarts, and what the agent changed is told.
SettingsLast ==
  /\ part = "settings" => SettingsTypeOK
  /\ part = "gateway" => Gateway!ModelLasts /\ Gateway!ModeTold /\ Gateway!EffortLasts
=============================================================================
