----------------------------- MODULE MCLiveness -----------------------------
(* What must happen in the end, for TLC: turns end, requests, asks and lines *)
(* are answered, searches and writes finish.  The components do not step     *)
(* together: a behaviour is one of one component, on an instance of its own, *)
(* with the fairness of that component, and one run checks them all.  As the *)
(* component of a behaviour never changes, strong fairness of a disjunction  *)
(* of actions of different components is strong fairness of each of them.    *)
EXTENDS GrokTurns

CONSTANT Unused   \* not used in this behaviour

Image(decodes) == [format |-> "png", width |-> 3, height |-> 2, decodes |-> decodes]

VARIABLE part   \* the component this behaviour is of; the others rest

\* Requests in the multiplexer.
VARIABLES muxUp, muxAsked, muxReplies, muxInbox, muxOutbox, muxPending,
          muxAggregates, muxNextId, muxRefused, muxAsking, muxServerUsed,
          muxGrokServerIds, muxNextServerId, muxShown, muxServerAnswers
muxVars == <<muxUp, muxAsked, muxReplies, muxInbox, muxOutbox, muxPending,
             muxAggregates, muxNextId, muxRefused, muxAsking, muxServerUsed,
             muxGrokServerIds, muxNextServerId, muxShown, muxServerAnswers>>
Mux == INSTANCE HybridMux WITH
  Requests <- 1..2, ServerIds <- {}, NoReply <- None, MaxId <- 3, up <- muxUp,
  asked <- muxAsked, replies <- muxReplies, inbox <- muxInbox,
  outbox <- muxOutbox, pending <- muxPending, aggregates <- muxAggregates,
  nextId <- muxNextId, refused <- muxRefused, asking <- muxAsking,
  serverUsed <- muxServerUsed, grokServerIds <- muxGrokServerIds,
  nextServerId <- muxNextServerId, shown <- muxShown,
  serverAnswers <- muxServerAnswers

\* The queues around it, with as many requests open as the client keeps.
VARIABLES queueSent, queueReceived, queueClientQ, queueWriting, queueEvents,
          queueStdin, queueStdout, queueInbound, queueUpdates, queueStreamed,
          queueSending, queueOutbound
queueVars == <<queueSent, queueReceived, queueClientQ, queueWriting,
               queueEvents, queueStdin, queueStdout, queueInbound,
               queueUpdates, queueStreamed, queueSending, queueOutbound>>
Queues == INSTANCE Backpressure WITH
  Requests <- <<"grok", "native", "grok">>, Updates <- 2, MaxOpen <- 2,
  PipeCap <- 1, QueueCap <- 1, NoLine <- None, sent <- queueSent,
  received <- queueReceived, clientQ <- queueClientQ, writing <- queueWriting,
  events <- queueEvents, stdin <- queueStdin, stdout <- queueStdout,
  inbound <- queueInbound, updates <- queueUpdates, streamed <- queueStreamed,
  sending <- queueSending, outbound <- queueOutbound

\* The ACP proxy.
VARIABLES proxyOpen, proxySent, proxyFrames, proxyHand, proxyRunning,
          proxyStdin, proxyRead, proxyLocal, proxyStdout, proxyWritten,
          proxyReceived, proxyAgent
proxyVars == <<proxyOpen, proxySent, proxyFrames, proxyHand, proxyRunning,
               proxyStdin, proxyRead, proxyLocal, proxyStdout, proxyWritten,
               proxyReceived, proxyAgent>>
Proxy == INSTANCE AcpProxy WITH
  Frames <- <<"goes on", "forward", "ends">>, AgentLines <- 2, PipeCap <- 1,
  LocalCap <- 1, NoFrame <- None, open <- proxyOpen, sent <- proxySent,
  frames <- proxyFrames, hand <- proxyHand, running <- proxyRunning,
  stdin <- proxyStdin, read <- proxyRead, local <- proxyLocal,
  stdout <- proxyStdout, written <- proxyWritten, received <- proxyReceived,
  agent <- proxyAgent

\* What the agent asks.
VARIABLES askInTurn, askAsked, askEvents, askLoop, askCalls, askInbound,
          askPending, askNextId, askClient, askDecided, askArrived, askAnswers
askVars == <<askInTurn, askAsked, askEvents, askLoop, askCalls, askInbound,
             askPending, askNextId, askClient, askDecided, askArrived,
             askAnswers>>
Asks == INSTANCE Approvals WITH
  Threads <- {"t"}, Asks <- 1..2, Kinds <- {"permission", "input"},
  OptionLists <- {<<"allow_once", "reject_once">>}, Decisions <- {"accept"},
  MaxCalls <- 1, ManyTurns <- TRUE, NoAnswer <- None, NoThread <- None,
  inTurn <- askInTurn, asked <- askAsked, events <- askEvents,
  loop <- askLoop, calls <- askCalls, inbound <- askInbound,
  pending <- askPending, nextId <- askNextId, client <- askClient,
  decided <- askDecided, arrived <- askArrived, answers <- askAnswers

\* Titles the agent gives.
VARIABLES titleIndex, titleNaming, titleLanding, titleAnnounced, titleRenames
titleVars == <<titleIndex, titleNaming, titleLanding, titleAnnounced,
               titleRenames>>
Titles == INSTANCE SessionIndex WITH
  Threads <- 1..2, Texts <- {"a"}, EmptyText <- "none", MaxRenames <- 3,
  AgentTitles <- TRUE, AppendFails <- FALSE, Restarts <- FALSE,
  NoRename <- None, index <- titleIndex, naming <- titleNaming,
  landing <- titleLanding, announced <- titleAnnounced,
  renames <- titleRenames

\* The search of the file of names.
VARIABLES scanFile, scanChunk, scanOpened, scanAppends, scanRemaining,
          scanLineRev, scanFound, scanDone
scanVars == <<scanFile, scanChunk, scanOpened, scanAppends, scanRemaining,
              scanLineRev, scanFound, scanDone>>
Scan == INSTANCE IndexScan WITH
  Bytes <- {"x", "y"}, Newline <- "newline", Target <- "x", MaxLength <- 3,
  ChunkSizes <- {1, 2, 4}, MaxAppends <- 1, NoEntry <- None, file <- scanFile,
  chunk <- scanChunk, opened <- scanOpened, appends <- scanAppends,
  remaining <- scanRemaining, lineRev <- scanLineRev, found <- scanFound,
  done <- scanDone

\* The search of files: sessions that end or go on, and run().
VARIABLES findAsked, findCancelled, findShutdown, findLeft, findSince,
          findWalked, findQueue, findLast, findArmed, findComplete, findEnded,
          findEngine, findShown, findTold, findAnswer
findVars == <<findAsked, findCancelled, findShutdown, findLeft, findSince,
              findWalked, findQueue, findLast, findArmed, findComplete,
              findEnded, findEngine, findShown, findTold, findAnswer>>
Ending == INSTANCE FileSearch WITH
  Files <- {"f"}, Walkers <- {"w"}, CheckEvery <- 1, MaxQueries <- 1,
  Cancels <- TRUE, OneShot <- FALSE, asked <- findAsked,
  cancelled <- findCancelled, shutdown <- findShutdown, left <- findLeft,
  since <- findSince, walked <- findWalked, queue <- findQueue,
  last <- findLast, armed <- findArmed, complete <- findComplete,
  ended <- findEnded, engine <- findEngine, shown <- findShown,
  told <- findTold, answer <- findAnswer
Asking == INSTANCE FileSearch WITH
  Files <- {"f"}, Walkers <- {"w"}, CheckEvery <- 1, MaxQueries <- 2,
  Cancels <- FALSE, OneShot <- FALSE, asked <- findAsked,
  cancelled <- findCancelled, shutdown <- findShutdown, left <- findLeft,
  since <- findSince, walked <- findWalked, queue <- findQueue,
  last <- findLast, armed <- findArmed, complete <- findComplete,
  ended <- findEnded, engine <- findEngine, shown <- findShown,
  told <- findTold, answer <- findAnswer
Run == INSTANCE FileSearch WITH
  Files <- {"f"}, Walkers <- {"w"}, CheckEvery <- 1, MaxQueries <- 1,
  Cancels <- TRUE, OneShot <- TRUE, asked <- findAsked,
  cancelled <- findCancelled, shutdown <- findShutdown, left <- findLeft,
  since <- findSince, walked <- findWalked, queue <- findQueue,
  last <- findLast, armed <- findArmed, complete <- findComplete,
  ended <- findEnded, engine <- findEngine, shown <- findShown,
  told <- findTold, answer <- findAnswer

\* Images of prompts that wait for one another.
VARIABLES imageFiles, imageCache, imageHolder, imageQueue, imageStage,
          imageMessage, imageAt, imageImageIndex, imageBytes, imageItems,
          imageMade, imageDropped, imageWrites
imageVars == <<imageFiles, imageCache, imageHolder, imageQueue, imageStage,
               imageMessage, imageAt, imageImageIndex, imageBytes, imageItems,
               imageMade, imageDropped, imageWrites>>
Images == INSTANCE PromptImages WITH
  Callers <- 1..2, InRuntime <- {1}, Paths <- {"p", "q"},
  Mime <- [path \in {"p", "q"} |-> "image"],
  Contents <- {Image("yes"), Image("broken")}, Missing <- None,
  Messages <- {<<"p">>, <<"p", "p">>}, Capacity <- 1, MaxWidth <- 4,
  MaxHeight <- 2, NoImage <- None, NoCaller <- None, MaxWrites <- 0,
  files <- imageFiles, cache <- imageCache, holder <- imageHolder,
  queue <- imageQueue, stage <- imageStage, message <- imageMessage,
  at <- imageAt, imageIndex <- imageImageIndex, bytes <- imageBytes,
  items <- imageItems, made <- imageMade, dropped <- imageDropped,
  writes <- imageWrites

\* The values the instances are given are as their modules ask.
ASSUME InstanceConstants ==
  /\ Queues!BackpressureConstants
  /\ Proxy!ProxyConstants
  /\ Asks!ApprovalsConstants
  /\ Titles!SessionIndexConstants
  /\ Scan!IndexScanConstants
  /\ Ending!FileSearchConstants
  /\ Asking!FileSearchConstants
  /\ Run!FileSearchConstants
  /\ Images!ImagesConstants

-----------------------------------------------------------------------------
AllParts == {"turns", "requests", "queues", "proxy", "asks", "titles", "scan",
             "ending", "asking", "run", "images"}

InTurns == part = "turns" /\ UNCHANGED <<part, muxVars, queueVars, proxyVars,
    askVars, titleVars, scanVars, findVars, imageVars>>
InMux == part = "requests" /\ UNCHANGED <<part, vars, queueVars, proxyVars,
    askVars, titleVars, scanVars, findVars, imageVars>>
InQueues == part = "queues" /\ UNCHANGED <<part, vars, muxVars, proxyVars,
    askVars, titleVars, scanVars, findVars, imageVars>>
InProxy == part = "proxy" /\ UNCHANGED <<part, vars, muxVars, queueVars,
    askVars, titleVars, scanVars, findVars, imageVars>>
InAsks == part = "asks" /\ UNCHANGED <<part, vars, muxVars, queueVars,
    proxyVars, titleVars, scanVars, findVars, imageVars>>
InTitles == part = "titles" /\ UNCHANGED <<part, vars, muxVars, queueVars,
    proxyVars, askVars, scanVars, findVars, imageVars>>
InScan == part = "scan" /\ UNCHANGED <<part, vars, muxVars, queueVars,
    proxyVars, askVars, titleVars, findVars, imageVars>>
InEnding == part = "ending" /\ UNCHANGED <<part, vars, muxVars, queueVars,
    proxyVars, askVars, titleVars, scanVars, imageVars>>
InAsking == part = "asking" /\ UNCHANGED <<part, vars, muxVars, queueVars,
    proxyVars, askVars, titleVars, scanVars, imageVars>>
InRun == part = "run" /\ UNCHANGED <<part, vars, muxVars, queueVars,
    proxyVars, askVars, titleVars, scanVars, imageVars>>
InImages == part = "images" /\ UNCHANGED <<part, vars, muxVars, queueVars,
    proxyVars, askVars, titleVars, scanVars, findVars>>

MCInit ==
  /\ part \in AllParts
  /\ Init
  /\ Mux!Init
  /\ Queues!Init
  /\ Proxy!Init
  /\ Asks!Init
  /\ Titles!Init
  /\ IF part = "scan" THEN Scan!Init
     ELSE /\ scanFile = Unused /\ scanChunk = Unused /\ scanOpened = Unused
          /\ scanAppends = Unused /\ scanRemaining = Unused
          /\ scanLineRev = Unused /\ scanFound = Unused /\ scanDone = Unused
  /\ IF part = "ending" THEN Ending!Init
     ELSE IF part = "asking" THEN Asking!Init
     ELSE IF part = "run" THEN Run!Init
     ELSE /\ findAsked = Unused /\ findCancelled = Unused
          /\ findShutdown = Unused /\ findLeft = Unused /\ findSince = Unused
          /\ findWalked = Unused /\ findQueue = Unused /\ findLast = Unused
          /\ findArmed = Unused /\ findComplete = Unused /\ findEnded = Unused
          /\ findEngine = Unused /\ findShown = Unused /\ findTold = Unused
          /\ findAnswer = Unused
  /\ IF part = "images" THEN Images!Init
     ELSE /\ imageFiles = Unused /\ imageCache = Unused
          /\ imageHolder = Unused /\ imageQueue = Unused
          /\ imageStage = Unused /\ imageMessage = Unused /\ imageAt = Unused
          /\ imageImageIndex = Unused /\ imageBytes = Unused
          /\ imageItems = Unused /\ imageMade = Unused
          /\ imageDropped = Unused /\ imageWrites = Unused

MCNext ==
  \/ InTurns /\ ClientRequest
  \/ InTurns /\ AgentReply
  \/ InTurns /\ \E p \in Prompts : PromptStep(p)
  \/ InTurns /\ HandleInternal
  \/ InTurns /\ AgentExit
  \/ InTurns /\ AgentGone
  \/ InTurns /\ ClientGone
  \/ InMux /\ \E r \in 1..2 : Mux!ClientRequest(r)
  \/ InMux /\ \E b \in Mux!Backends, r \in 1..2, ok \in BOOLEAN :
         Mux!ChildAnswers(b, r, ok)
  \/ InMux /\ \E b \in Mux!Backends : Mux!ChildLine(b)
  \/ InMux /\ Mux!MuxExits
  \/ InQueues /\ Queues!ClientSends
  \/ InQueues /\ Queues!AgentStreams
  \/ InQueues /\ Queues!MuxTakesClientLine
  \/ InQueues /\ Queues!MuxTakesEvent
  \/ InQueues /\ Queues!MuxWrites
  \/ InQueues /\ \E b \in Queues!Backends : Queues!ReadChild(b)
  \/ InQueues /\ Queues!NativeServes
  \/ InQueues /\ Queues!AdapterReads
  \/ InQueues /\ Queues!LoopTakesUpdate
  \/ InQueues /\ Queues!LoopTakesMessage
  \/ InQueues /\ Queues!LoopSends
  \/ InQueues /\ Queues!AdapterWrites
  \/ InProxy /\ Proxy!Next
  \/ InAsks /\ Asks!Next
  \/ InTitles /\ Titles!Next
  \/ InScan /\ Scan!Next
  \/ InEnding /\ Ending!Next
  \/ InAsking /\ Asking!Next
  \/ InRun /\ Run!Next
  \/ InImages /\ Images!Next

\* An action of whichever search this behaviour is of.
InSearch(ending, asking, run) ==
  (part = "ending" /\ ending) \/ (part = "asking" /\ asking) \/ (part = "run" /\ run)

allVars == <<part, vars, muxVars, queueVars, proxyVars, askVars, titleVars,
    scanVars, findVars, imageVars>>
\* Every task runs and the children and the agent answer.
EveryoneRuns ==
  /\ WF_vars(part = "turns" /\ AgentReply)
  /\ \A p \in Prompts : WF_vars(part = "turns" /\ PromptStep(p))
  /\ \A b \in Mux!Backends, r \in 1..2 :
       WF_muxVars(part = "requests" /\ \E ok \in BOOLEAN : Mux!ChildAnswers(b, r, ok))
  /\ \A b \in Mux!Backends : WF_muxVars(part = "requests" /\ Mux!ChildLine(b))
  /\ WF_queueVars(part = "queues" /\ Queues!MuxWrites)
  /\ WF_queueVars(part = "queues" /\ Queues!NativeServes)
  /\ WF_queueVars(part = "queues" /\ Queues!AdapterReads)
  /\ WF_queueVars(part = "queues" /\ Queues!LoopTakesUpdate)
  /\ WF_queueVars(part = "queues" /\ Queues!LoopTakesMessage)
  /\ WF_queueVars(part = "queues" /\ Queues!LoopSends)
  /\ WF_queueVars(part = "queues" /\ Queues!AdapterWrites)
  /\ WF_proxyVars(part = "proxy" /\ Proxy!TakeFrame)
  /\ WF_proxyVars(part = "proxy" /\ Proxy!Forward)
  /\ WF_proxyVars(part = "proxy" /\ Proxy!ForwardFails)
  /\ WF_proxyVars(part = "proxy" /\ Proxy!StartCommand)
  /\ WF_proxyVars(part = "proxy" /\ Proxy!RejectCommand)
  /\ WF_proxyVars(part = "proxy" /\ Proxy!TimeUp)
  /\ WF_proxyVars(part = "proxy" /\ Proxy!AgentGone)
  /\ WF_proxyVars(part = "proxy" /\ Proxy!CleanUp)
  /\ WF_proxyVars(part = "proxy" /\ Proxy!AgentReads)
  /\ WF_askVars(part = "asks" /\ Asks!HandleAsk)
  /\ WF_askVars(part = "asks" /\ Asks!HandleResponse)
  /\ WF_askVars(part = "asks" /\ Asks!HandleCall)
  /\ WF_askVars(part = "asks" /\ Asks!AgentAnswersCall)
  /\ \A a \in 1..2 :
       /\ WF_askVars(part = "asks" /\ Asks!TaskAnswers(a))
       /\ WF_askVars(part = "asks" /\ Asks!TaskGivesUp(a))
       /\ WF_askVars(part = "asks" /\ \E r \in askClient :
              r.ask = a /\ Asks!ClientAnswers(r, "accept"))
  /\ WF_titleVars(part = "titles" /\ Titles!NameAppended)
  /\ \A t \in 1..2 :
       WF_titleVars(part = "titles" /\ \E r \in titleLanding :
           r.thread = t /\ Titles!TitleAppended(r))
  /\ WF_scanVars(part = "scan" /\ Scan!ReadChunk)
  /\ WF_scanVars(part = "scan" /\ Scan!LastTry)
  /\ WF_findVars(InSearch(\E f \in findLeft : Ending!Visit("w", f),
                         \E f \in findLeft : Asking!Visit("w", f),
                         \E f \in findLeft : Run!Visit("w", f)))
  /\ WF_findVars(InSearch(Ending!WalkEnds, Asking!WalkEnds, Run!WalkEnds))
  /\ WF_findVars(InSearch(Ending!EngineNotifies, Asking!EngineNotifies, Run!EngineNotifies))
  /\ WF_findVars(InSearch(Ending!TakeSignal, Asking!TakeSignal, Run!TakeSignal))
  /\ WF_findVars(InSearch(Ending!TimeOut, Asking!TimeOut, Run!TimeOut))
  /\ WF_findVars(part = "run" /\ Run!UpdateQuery)
  /\ WF_findVars(part = "run" /\ Run!RunReturns)
  /\ \A c \in 1..2 : WF_imageVars(part = "images" /\ Images!Step(c))
  /\ SF_allVars(\/ InTurns /\ HandleInternal
                \/ InQueues /\ Queues!MuxTakesClientLine
                \/ InProxy /\ Proxy!WriteAgentLine
                \/ InEnding /\ Ending!Tick(TRUE)
                \/ InAsking /\ Asking!Tick(TRUE)
                \/ InRun /\ Run!Tick(TRUE))
  /\ SF_allVars(\/ InTurns /\ AgentGone
                \/ InQueues /\ Queues!MuxTakesEvent
                \/ InProxy /\ Proxy!WriteAnswer)
  /\ \A b \in Queues!Backends : SF_queueVars(part = "queues" /\ Queues!ReadChild(b))

MCSpec == MCInit /\ [][MCNext]_allVars /\ EveryoneRuns

-----------------------------------------------------------------------------
(* What is owed: asked for and not given yet.                                *)

ImagesGiven(c) ==
  /\ imageStage[c] = "done"
  /\ \A k \in DOMAIN imageMessage[c] : Images!IsImage(imageMessage[c][k]) =>
       \E i \in DOMAIN imageItems[c] : imageItems[c][i].input = k

Owed ==
  \/ /\ part = "requests" /\ muxUp
     /\ \E r \in 1..2 : muxAsked[r] # "unsent" /\ muxReplies[r] = None
  \/ part = "queues" /\ \E r \in 1..queueSent : r \notin queueReceived
  \/ /\ part = "proxy" /\ proxyAgent = "up"
     /\ \E f \in 1..proxySent : /\ \A k \in DOMAIN proxyRead : proxyRead[k][1] # f
                                /\ \A k \in DOMAIN proxyReceived : proxyReceived[k][1] # f
  \/ part = "asks" /\ \E a \in 1..2 : askAsked[a] # None /\ askAnswers[a] = None
  \/ part = "titles" /\ titleLanding # {}
  \/ part = "scan" /\ ~scanDone
  \/ part = "ending" /\ Ending!Flagged /\ ~(findEnded /\ findWalked)
  \/ part = "asking" /\ findTold < findAsked
  \/ part = "run" /\ findAnswer = Run!NoAnswer
  \/ part = "images" /\ \E c \in 1..2 : imageStage[c] # "idle" /\ ~ImagesGiven(c)

\* What the client, the agent or a user asked for is given in the end, whatever
\* waits before it: each request is answered unless the multiplexer stops, each
\* frame of the proxy unless its agent has gone, each ask at the latest when the
\* session ends; a title is written, a scan ends, a search that is cancelled or
\* dropped stops, one that is queried completes each query, and a message with
\* images is built.  As an instance asks for finitely many things, that nothing is
\* owed in the end means that each of them was given.
OwedIsGiven == Owed ~> ~Owed
=============================================================================
