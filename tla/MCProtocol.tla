----------------------------- MODULE MCProtocol -----------------------------
(* What the protocol's types are made into, for TLC: token counts, turns and *)
(* items rebuilt from recorded events, images of prompts, and JSON schemas.  *)
(* The components do not step together: a behaviour is one of one component, *)
(* on an instance of its own, and one run checks them all.                   *)
EXTENDS TokenUse, TLC

CONSTANTS
  Unused,          \* not used in this behaviour
  t1, t2, c1, c2   \* turns, and calls or callers

Answer(input, cached, output, reasoning) ==
  [f \in Fields |-> CASE f = "input" -> input [] f = "cached" -> cached
                      [] f = "output" -> output [] f = "reasoning" -> reasoning
                      [] f = "total" -> input + output]

Answers == {Answer(2, 0, 1, 1), Answer(3, 3, 0, 0), Answer(1, 2, 2, 0)}

SayingEvents == {"user", "agent", "reasoning", "raw reasoning", "marker", "started",
                 "complete", "compacted", "rolled back"}
WorkingEvents == {"agent", "tool begin", "tool end", "started", "complete", "rolled back",
                  "compacted"}
EndingEvents == {"user", "tool end", "started", "complete", "aborted", "error"}

MarkOf(s, e, label) == [start |-> s, end |-> e, label |-> label]
TextOf(n, marks) == [type |-> "text", size |-> n, marks |-> marks]
OtherOf(type) == [type |-> type, size |-> 0, marks |-> <<>>]

SomeMarks == {<<>>, <<MarkOf(0, 1, Unused)>>, <<MarkOf(1, 2, Unused), MarkOf(0, 2, "label")>>}
SomeInputs == {TextOf(0, <<>>), OtherOf("image"), OtherOf("localImage"), OtherOf("skill")}
                \cup {TextOf(2, marks) : marks \in SomeMarks}
UserContents == UNION {[1..n -> SomeInputs] : n \in 1..3}
FewContents == {<<TextOf(2, <<MarkOf(0, 2, Unused)>>), OtherOf("image")>>}

Decode(format, w, h, decodes) ==
  [format |-> format, width |-> w, height |-> h, decodes |-> decodes]

Small   == Decode("png", 3, 2, "yes")
Wide    == Decode("jpeg", 9, 3, "yes")
Broken  == Decode("png", 1, 1, "broken")
Unknown == Decode("other", 1, 1, "unsupported")

Mime == ("p" :> "image") @@ ("q" :> "other")
Mixed == {<<"remote", "p", "text">>, <<"p", "skill", "remote", "q">>}

\* A request enum with a stable, an experimental and two legacy methods, a params
\* struct and a params enum with marked members, the legacy event enum and the
\* types they share, two of them with one schema name.
AllTypes == {"Request", "Event", "Init", "OldParams", "Start", "Login", "Mock",
             "Reply", "CoreItem", "ThreadId", "CoreSandbox", "Sandbox"}

Name == [t \in AllTypes |->
    CASE t = "Request" -> "ClientRequest" [] t = "Event" -> "EventMsg"
      [] t = "CoreSandbox" -> "Sandbox" [] OTHER -> t]

Members == [t \in AllTypes |->
    CASE t = "Start" -> {"cwd", "tools"} [] t = "Login" -> {"apiKey", "tokens"}
      [] t \in {"Reply", "Init"} -> {"tools"} [] OTHER -> {}]

AllMethods == {"start", "login", "mock", "old", "older", "init"}

Params == [m \in AllMethods |->
    CASE m = "start" -> "Start" [] m = "login" -> "Login" [] m = "mock" -> "Mock"
      [] m = "init" -> "Init" [] OTHER -> "OldParams"]

\* "old" and "start" would take one title, and so would "older" and "login".
Title == [m \in AllMethods |->
    CASE m = "old" -> "start" [] m = "older" -> "login" [] OTHER -> m]

Marked == {<<"Start", "tools">>, <<"Login", "tokens">>}

Stripped == [n \in {"ClientRequest"} |-> {"old"}]

Uses(event, item, start, reply) == [t \in AllTypes |->
    CASE t = "Event" -> event [] t = "CoreItem" -> item [] t = "Start" -> start
      [] t = "Reply" -> reply [] t = "OldParams" -> {"CoreItem"} [] OTHER -> {}]

e(t, d) == [type |-> t, dir |-> d]

Order == <<e("Request", "root"), e("Event", "root"), e("Init", "v1"),
           e("OldParams", "v1"), e("Start", "v2"), e("Login", "v2"),
           e("Mock", "v2"), e("Reply", "v2")>>

Tree(uses, methods) ==
    [emit |-> Order, uses |-> uses,
     variants |-> [t \in AllTypes |-> IF t = "Request" THEN methods ELSE {}]]

Without(w, t) == [w EXCEPT !.emit = SelectSeq(@, LAMBDA x : x.type # t)]

AllUses ==
    {Uses(a, b, c, d) : a \in {{"CoreItem"}, {"CoreItem", "Sandbox"}},
                        b \in {{}, {"ThreadId"}},
                        c \in {{"Sandbox"}, {"CoreSandbox", "Sandbox"}},
                        d \in {{"CoreItem"}, {"ThreadId"}}}

SomeTrees ==
    {Tree(u, ms) : u \in AllUses,
                   ms \in {{"start", "login", "mock", "old", "init"},
                           {"start", "mock", "older", "init"}}}

\* Two sources one after the other: a method goes, its params stay in the source.
TwoTrees ==
    LET w == Tree(Uses({"CoreItem"}, {"ThreadId"}, {"Sandbox"}, {"ThreadId"}),
                  {"start", "login", "mock", "old", "init"})
        ended == Without([w EXCEPT !.variants["Request"] = @ \ {"start"}], "Start")
        clash == [w EXCEPT !.variants["Request"] = {"start", "login", "older"}]
    IN  {w, ended, clash}

VARIABLE part   \* the component this behaviour is of; the others rest

\* Turns rebuilt from the events of a rollout file.
VARIABLES saidTurns, saidCurrent, saidNextItem, saidCount, saidEvent,
          saidDropped
saidVars == <<saidTurns, saidCurrent, saidNextItem, saidCount, saidEvent,
              saidDropped>>
Saying == INSTANCE ThreadHistory WITH
  Events <- SayingEvents, TurnIds <- {t1, t2}, Calls <- {}, MaxEvents <- 5,
  NoTurn <- Unused, turns <- saidTurns, current <- saidCurrent,
  nextItem <- saidNextItem, count <- saidCount, event <- saidEvent,
  dropped <- saidDropped
Working == INSTANCE ThreadHistory WITH
  Events <- WorkingEvents, TurnIds <- {t1, t2}, Calls <- {c1, c2},
  MaxEvents <- 5, NoTurn <- Unused, turns <- saidTurns,
  current <- saidCurrent, nextItem <- saidNextItem, count <- saidCount,
  event <- saidEvent, dropped <- saidDropped
Ending == INSTANCE ThreadHistory WITH
  Events <- EndingEvents, TurnIds <- {t1, t2}, Calls <- {c1}, MaxEvents <- 6,
  NoTurn <- Unused, turns <- saidTurns, current <- saidCurrent,
  nextItem <- saidNextItem, count <- saidCount, event <- saidEvent,
  dropped <- saidDropped

\* Items of a turn, live and replayed.
VARIABLES itemItems, itemOpen, itemWords, itemShowRaw, itemLive, itemReplayed,
          itemStreamed
itemVars == <<itemItems, itemOpen, itemWords, itemShowRaw, itemLive,
              itemReplayed, itemStreamed>>
Inputs == INSTANCE TurnItems WITH
  MaxItems <- 1, MaxWords <- 1, ShowRaw <- {TRUE}, None <- Unused,
  items <- itemItems, open <- itemOpen, words <- itemWords,
  showRaw <- itemShowRaw, live <- itemLive, replayed <- itemReplayed,
  streamed <- itemStreamed
Told == INSTANCE TurnItems WITH
  UserContents <- FewContents, MaxItems <- 3, MaxWords <- 3,
  ShowRaw <- BOOLEAN, None <- Unused, items <- itemItems, open <- itemOpen,
  words <- itemWords, showRaw <- itemShowRaw, live <- itemLive,
  replayed <- itemReplayed, streamed <- itemStreamed

\* Images of prompts and their cache.
VARIABLES imageFiles, imageCache, imageHolder, imageQueue, imageStage,
          imageMessage, imageAt, imageImageIndex, imageBytes, imageItems,
          imageMade, imageDropped, imageWrites
imageVars == <<imageFiles, imageCache, imageHolder, imageQueue, imageStage,
               imageMessage, imageAt, imageImageIndex, imageBytes, imageItems,
               imageMade, imageDropped, imageWrites>>
Cached == INSTANCE PromptImages WITH
  Callers <- {c1, c2}, InRuntime <- {c1, c2}, Paths <- {"p", "q"},
  Contents <- {Small, Wide}, Missing <- Unused,
  Messages <- {<<"p", "q">>, <<"q", "p">>}, Capacity <- 1, MaxWidth <- 4,
  MaxHeight <- 2, NoImage <- Unused, NoCaller <- Unused, MaxWrites <- 1,
  files <- imageFiles, cache <- imageCache, holder <- imageHolder,
  queue <- imageQueue, stage <- imageStage, message <- imageMessage,
  at <- imageAt, imageIndex <- imageImageIndex, bytes <- imageBytes,
  items <- imageItems, made <- imageMade, dropped <- imageDropped,
  writes <- imageWrites
Labelled == INSTANCE PromptImages WITH
  Callers <- {c1, c2}, InRuntime <- {c1}, Paths <- {"p", "q"},
  Contents <- {Small, Broken, Unknown}, Missing <- Unused, Messages <- Mixed,
  Capacity <- 1, MaxWidth <- 4, MaxHeight <- 2, NoImage <- Unused,
  NoCaller <- Unused, MaxWrites <- 0, files <- imageFiles,
  cache <- imageCache, holder <- imageHolder, queue <- imageQueue,
  stage <- imageStage, message <- imageMessage, at <- imageAt,
  imageIndex <- imageImageIndex, bytes <- imageBytes, items <- imageItems,
  made <- imageMade, dropped <- imageDropped, writes <- imageWrites

\* The JSON schemas of the protocol.
VARIABLES schemaTree, schemaExperimental, schemaPc, schemaSchemas,
          schemaDefinitions, schemaFiles, schemaBundle, schemaUnfiltered,
          schemaRuns
schemaVars == <<schemaTree, schemaExperimental, schemaPc, schemaSchemas,
                schemaDefinitions, schemaFiles, schemaBundle,
                schemaUnfiltered, schemaRuns>>
Once == INSTANCE SchemaBundle WITH
  Types <- AllTypes, NameOf <- Name, MembersOf <- Members, Enums <- {"Login"},
  Methods <- AllMethods, ParamsOf <- Params, TitleOf <- Title,
  StrippedIn <- Stripped, MarkedMethods <- {"mock"}, MarkedMembers <- Marked,
  Inspected <- {"start", "login"}, MarkedTypes <- {"Mock"},
  Special <- {"ClientRequest", "EventMsg"}, V1Allowed <- {"Init"},
  Trees <- SomeTrees, Runs <- 1, tree <- schemaTree,
  experimental <- schemaExperimental, pc <- schemaPc,
  schemas <- schemaSchemas, definitions <- schemaDefinitions,
  files <- schemaFiles, bundle <- schemaBundle,
  unfiltered <- schemaUnfiltered, runs <- schemaRuns
Again == INSTANCE SchemaBundle WITH
  Types <- AllTypes, NameOf <- Name, MembersOf <- Members, Enums <- {"Login"},
  Methods <- AllMethods, ParamsOf <- Params, TitleOf <- Title,
  StrippedIn <- Stripped, MarkedMethods <- {"mock"}, MarkedMembers <- Marked,
  Inspected <- {"start", "login"}, MarkedTypes <- {"Mock"},
  Special <- {"ClientRequest", "EventMsg"}, V1Allowed <- {"Init"},
  Trees <- TwoTrees, Runs <- 2, tree <- schemaTree,
  experimental <- schemaExperimental, pc <- schemaPc,
  schemas <- schemaSchemas, definitions <- schemaDefinitions,
  files <- schemaFiles, bundle <- schemaBundle,
  unfiltered <- schemaUnfiltered, runs <- schemaRuns

\* The values the instances are given are as their modules ask.
ASSUME InstanceConstants ==
  /\ Saying!HistoryConstants
  /\ Working!HistoryConstants
  /\ Ending!HistoryConstants
  /\ Inputs!TurnItemsConstants
  /\ Told!TurnItemsConstants
  /\ Cached!ImagesConstants
  /\ Labelled!ImagesConstants
  /\ Once!TreesWellFormed
  /\ Again!TreesWellFormed

-----------------------------------------------------------------------------
AllParts == {"usage", "saying", "working", "ending", "inputs", "told",
             "cached", "labelled", "schemas", "again"}

InUsage == part = "usage" /\ UNCHANGED <<part, saidVars, itemVars, imageVars,
    schemaVars>>
InSaying == part = "saying" /\ UNCHANGED <<part, vars, itemVars, imageVars,
    schemaVars>>
InWorking == part = "working" /\ UNCHANGED <<part, vars, itemVars, imageVars,
    schemaVars>>
InEnding == part = "ending" /\ UNCHANGED <<part, vars, itemVars, imageVars,
    schemaVars>>
InInputs == part = "inputs" /\ UNCHANGED <<part, vars, saidVars, imageVars,
    schemaVars>>
InTold == part = "told" /\ UNCHANGED <<part, vars, saidVars, imageVars,
    schemaVars>>
InCached == part = "cached" /\ UNCHANGED <<part, vars, saidVars, itemVars,
    schemaVars>>
InLabelled == part = "labelled" /\ UNCHANGED <<part, vars, saidVars, itemVars,
    schemaVars>>
InOnce == part = "schemas" /\ UNCHANGED <<part, vars, saidVars, itemVars,
    imageVars>>
InAgain == part = "again" /\ UNCHANGED <<part, vars, saidVars, itemVars,
    imageVars>>

MCInit ==
  /\ part \in AllParts
  /\ Init
  /\ Saying!Init
  /\ IF part = "inputs" THEN Inputs!Init
     ELSE IF part = "told" THEN Told!Init
     ELSE /\ itemItems = Unused /\ itemOpen = Unused /\ itemWords = Unused
          /\ itemShowRaw = Unused /\ itemLive = Unused
          /\ itemReplayed = Unused /\ itemStreamed = Unused
  /\ IF part = "cached" THEN Cached!Init
     ELSE IF part = "labelled" THEN Labelled!Init
     ELSE /\ imageFiles = Unused /\ imageCache = Unused
          /\ imageHolder = Unused /\ imageQueue = Unused
          /\ imageStage = Unused /\ imageMessage = Unused /\ imageAt = Unused
          /\ imageImageIndex = Unused /\ imageBytes = Unused
          /\ imageItems = Unused /\ imageMade = Unused
          /\ imageDropped = Unused /\ imageWrites = Unused
  /\ IF part = "schemas" THEN Once!Init
     ELSE IF part = "again" THEN Again!Init
     ELSE /\ schemaTree = Unused /\ schemaExperimental = Unused
          /\ schemaPc = Unused /\ schemaSchemas = Unused
          /\ schemaDefinitions = Unused /\ schemaFiles = Unused
          /\ schemaBundle = Unused /\ schemaUnfiltered = Unused
          /\ schemaRuns = Unused

MCNext ==
  \/ InUsage /\ \E last \in Usages \cup {NoUsage}, window \in Windows \cup {NoWindow} :
         Report(last, window)
  \/ InUsage /\ \E window \in Windows : Exceeded(window)
  \/ InSaying /\ Saying!UserMessage
  \/ InSaying /\ Saying!Says("agent", "agent")
  \/ InSaying /\ Saying!Says("marker", "marker")
  \/ InSaying /\ Saying!Reasoning("reasoning")
  \/ InSaying /\ Saying!Reasoning("raw reasoning")
  \/ InSaying /\ \E id \in {t1, t2} : Saying!TurnStarted(id)
  \/ InSaying /\ \E id \in {t1, t2} : Saying!TurnComplete(id)
  \/ InSaying /\ Saying!Compacted
  \/ InSaying /\ \E n \in 1..2 : Saying!RolledBack(n)
  \/ InWorking /\ Working!Says("agent", "agent")
  \/ InWorking /\ \E c \in {c1, c2}, kind \in {"tool begin", "tool end"} :
         Working!ToolOfCurrent(kind, c)
  \/ InWorking /\ \E c \in {c1, c2}, id \in {t1, t2}, kind \in {"tool begin", "tool end"} :
         Working!Tool(kind, c, id)
  \/ InWorking /\ \E id \in {t1, t2} : Working!TurnStarted(id)
  \/ InWorking /\ \E id \in {t1, t2} : Working!TurnComplete(id)
  \/ InWorking /\ Working!Compacted
  \/ InWorking /\ \E n \in 1..2 : Working!RolledBack(n)
  \/ InEnding /\ Ending!UserMessage
  \/ InEnding /\ \E id \in {t1, t2} : Ending!Tool("tool end", c1, id)
  \/ InEnding /\ \E id \in {t1, t2} : Ending!TurnStarted(id)
  \/ InEnding /\ \E id \in {t1, t2} : Ending!TurnComplete(id)
  \/ InEnding /\ \E id \in {t1, t2, Unused} : Ending!TurnAborted(id)
  \/ InEnding /\ Ending!Error
  \/ InInputs /\ Inputs!Next
  \/ InTold /\ \E c \in FewContents : Told!UserSends(c)
  \/ InTold /\ \E k \in Told!Kinds \ {"user"} : Told!ItemStarted(k)
  \/ InTold /\ \E i \in itemOpen : Told!Delta(i)
  \/ InTold /\ \E i \in itemOpen : Told!NextPart(i)
  \/ InTold /\ \E i \in itemOpen : Told!ItemCompleted(i)
  \/ InCached /\ Cached!Next
  \/ InLabelled /\ \E c \in {c1, c2}, m \in Mixed : Labelled!Begin(c, m)
  \/ InLabelled /\ \E c \in {c1, c2} : Labelled!Text(c)
  \/ InLabelled /\ \E c \in {c1, c2} : Labelled!Skill(c)
  \/ InLabelled /\ \E c \in {c1, c2} : Labelled!Remote(c)
  \/ InLabelled /\ \E c \in {c1, c2} : Labelled!Local(c)
  \/ InLabelled /\ \E c \in {c1, c2} : Labelled!ReadFile(c)
  \/ InLabelled /\ \E c \in {c1, c2} : Labelled!Hit(c)
  \/ InLabelled /\ \E c \in {c1, c2} : Labelled!Lock(c)
  \/ InLabelled /\ \E c \in {c1, c2} : Labelled!Make(c)
  \/ InLabelled /\ \E c \in {c1, c2} : Labelled!Fail(c)
  \/ InLabelled /\ \E c \in {c1, c2} : Labelled!MakePlain(c)
  \/ InLabelled /\ \E c \in {c1, c2} : Labelled!Finish(c)
  \/ InOnce /\ Once!write_json_schema
  \/ InOnce /\ Once!build_schema_bundle
  \/ InOnce /\ Once!WriteBundle
  \/ InOnce /\ Once!filter_experimental_json_file
  \/ InOnce /\ Once!remove_generated_type_files
  \/ InAgain /\ Again!Next

allVars == <<part, vars, saidVars, itemVars, imageVars, schemaVars>>
MCSpec == MCInit /\ [][MCNext]_allVars

Symmetry == Permutations({t1, t2}) \cup Permutations({c1, c2})

-----------------------------------------------------------------------------
(* Properties, beside TotalsAddUp of TokenUse.                               *)

\* The figures of tokens stay in their bounds, and what is left of the context
\* only falls.
PercentsMakeSense ==
  /\ [](part = "usage" => TypeOK /\ PercentSpansTheWindow /\ BlendedIsInBounds)
  /\ PercentOnlyFalls

\* A thread rebuilt from its events has what was said in its order, each message
\* of the user at the start of a turn, each tool in the turn that ran it under an
\* id of its own; what ends one turn leaves the others, and one that failed or was
\* interrupted is never completed.
TurnsRebuilt ==
  /\ [](/\ part = "saying" => Saying!TypeOK /\ Saying!SaidInOrder /\ Saying!MessageOpensTurn
        /\ part = "working" => Working!ItemIdsUnique /\ Working!ToolInItsTurn)
  /\ Saying!SaidStays
  /\ Ending!OnlyItsTurn
  /\ Ending!StatusSettles

\* Items are the same told live, replayed as events and read as deltas: no word
\* of a message is lost, and the marks in a user's text select the same bytes.
\* Images of a prompt are labelled by their numbers, and made once while cached.
ItemsAndImagesKept ==
  /\ [](/\ part = "inputs" => Inputs!TypeOK /\ Inputs!MarksSelectTheSame
        /\ part = "told" => Told!WordsKept /\ Told!ReasoningKept /\ Told!SearchesAgree
        /\ part = "cached" => Cached!TypeOK /\ Cached!MadeOnce
        /\ part = "labelled" => Labelled!LabelsAreNumbers)
  /\ [][part = "cached" => \A c \in {c1, c2} : Cached!AddsWhatWasRead(c)]_imageVars

\* Each schema file stands alone, the bundle's namespace is closed, the stable
\* API hides what is experimental and nothing else, and a generation leaves
\* nothing experimental of what an earlier or a failed one has written.
SchemasHold ==
  /\ part = "schemas" => /\ Once!TypeOK /\ Once!FilesSelfContained /\ Once!NamespaceClosed
                         /\ Once!StableHidesExperimental /\ Once!StableKeepsTheRest
                         /\ Once!StructGateMatchesSchema
  /\ part = "again" => /\ Again!TitlesDistinct /\ Again!FilesSelfContained
                       /\ Again!StableHidesExperimental /\ Again!StableKeepsTheRest
=============================================================================
