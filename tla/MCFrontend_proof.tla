-------------------------- MODULE MCFrontend_proof --------------------------
(***************************************************************************)
(* Proofs about the composition MCFrontend: that what Frontend_proof shows *)
(* of the settings and of what the agent asks holds of the behaviours in   *)
(* which they step, for every value of the constants.                      *)
(***************************************************************************)
EXTENDS MCFrontend, Frontend_proof

\* What is proved of SessionSettings and Approvals, about the instances of MCFrontend:
\* of Gateway and Deciding,
K == INSTANCE Frontend_proof WITH
  Threads <- {"t"}, Sessions <- {s1, s2}, GrokModels <- {g1, g2},
  NativeModels <- {n1}, Direct <- TRUE, ConfigModels <- FALSE,
  TurnModels <- TRUE, Rollbacks <- TRUE, AgentChanges <- TRUE,
  MaxNotes <- 2, MaxRestarts <- 1, owner <- ownOwner, routes <- ownRoutes,
  sess <- ownSess, saved <- ownSaved, thread_of <- ownThread_of,
  loaded <- ownLoaded, agent <- ownAgent,
  model_state <- ownModel_state, advertised <- ownAdvertised,
  updates <- ownUpdates, told <- ownTold, taken <- ownTaken,
  given <- ownGiven, served <- ownServed, restarts <- ownRestarts,
  AskThreads <- {"t1", "t2"}, Asks <- {a1, a2}, AskKinds <- {"permission", "tool"},
  AskOptions <- OptionLists, MaxCalls <- 1, NoAnswer <- Unused, NoThread <- Unused,
  userInTurn <- askInTurn, userAsked <- askAsked, userEvents <- askEvents,
  userLoop <- askLoop, userCalls <- askCalls, userInbound <- askInbound,
  userPending <- askPending, userNextId <- askNextId, userClient <- askClient,
  userDecided <- askDecided, userArrived <- askArrived, userAnswers <- askAnswers,
  Decisions <- {"acceptForSession", "decline"}, ManyTurns <- TRUE

\* and of OneTurn.
J == INSTANCE Frontend_proof WITH
  AskThreads <- {"t1", "t2"}, Asks <- {a1, a2}, AskKinds <- {"permission", "tool"},
  AskOptions <- OptionLists, MaxCalls <- 1, NoAnswer <- Unused, NoThread <- Unused,
  userInTurn <- askInTurn, userAsked <- askAsked, userEvents <- askEvents,
  userLoop <- askLoop, userCalls <- askCalls, userInbound <- askInbound,
  userPending <- askPending, userNextId <- askNextId, userClient <- askClient,
  userDecided <- askDecided, userArrived <- askArrived, userAnswers <- askAnswers,
  Decisions <- {"accept"}, ManyTurns <- FALSE

-----------------------------------------------------------------------------
(* The constants of the instances are as their modules ask. *)

LEMMA KMux == K!MuxConstants
  BY MuxConstants DEF K!MuxConstants, K!Reply, Reply, K!Parts, Parts, K!Backends, Backends

LEMMA KSettings == K!SettingsConstants
  BY InstanceConstants DEF K!Names, Gateway!Names, K!AgentSettings, Gateway!AgentSettings,
    K!Plain, Gateway!Plain, K!Spaced, Gateway!Spaced

LEMMA KAsks == K!Ask!ApprovalsConstants
  BY InstanceConstants DEF K!Ask!ApprovalsConstants, Deciding!ApprovalsConstants,
    K!Ask!IsFiniteSet, Deciding!IsFiniteSet, K!Ask!IsInjective, Deciding!IsInjective,
    K!Ask!AllowOptions, Deciding!AllowOptions, K!Ask!RejectOptions, Deciding!RejectOptions,
    K!Ask!Accepting, Deciding!Accepting, K!Ask!Outcomes, Deciding!Outcomes,
    K!Ask!AskRecords, Deciding!AskRecords

LEMMA JMux == J!MuxConstants
  BY MuxConstants DEF J!MuxConstants, J!Reply, Reply, J!Parts, Parts, J!Backends, Backends

LEMMA JSettings == J!SettingsConstants
  BY SettingsConstants DEF J!Names, Names, J!AgentSettings, AgentSettings, J!Plain, Plain,
    J!Spaced, Spaced

LEMMA JAsks == J!Ask!ApprovalsConstants
  BY InstanceConstants DEF J!Ask!ApprovalsConstants, OneTurn!ApprovalsConstants,
    J!Ask!IsFiniteSet, OneTurn!IsFiniteSet, J!Ask!IsInjective, OneTurn!IsInjective,
    J!Ask!AllowOptions, OneTurn!AllowOptions, J!Ask!RejectOptions, OneTurn!RejectOptions,
    J!Ask!Accepting, OneTurn!Accepting, J!Ask!Outcomes, OneTurn!Outcomes,
    J!Ask!AskRecords, OneTurn!AskRecords

-----------------------------------------------------------------------------
(* A step is one of the component the behaviour is of. *)

LEMMA StepsOfParts ==
  ASSUME MCNext
  PROVE  \/ InSettings /\ SettingsNext
         \/ InGateway /\ Gateway!SettingsNext
         \/ InDeciding /\ Deciding!Next
         \/ InOneTurn /\ OneTurn!Next
         \/ InRequests \/ InServer \/ InBatches \/ InArriving \/ InArchiving
         \/ InQueues \/ InProxy \/ InTexts \/ InThreaded \/ InEdits
BY SMTT(30) DEF MCNext, SettingsNext, Deciding!Next

\* The components of the other parts rest.
LEMMA OthersRest ==
  ASSUME [MCNext]_allVars
  PROVE  /\ part' = part
         /\ [SettingsNext]_settingsVars /\ [Gateway!SettingsNext]_ownVars
         /\ part = "asks" => [Deciding!Next]_askVars
         /\ part = "one turn" => [OneTurn!Next]_askVars
<1>1. CASE InSettings /\ SettingsNext
  BY <1>1 DEF InSettings
<1>2. CASE InGateway /\ Gateway!SettingsNext
  BY <1>2 DEF InGateway
<1>3. CASE InDeciding /\ Deciding!Next
  BY <1>3 DEF InDeciding
<1>4. CASE InOneTurn /\ OneTurn!Next
  BY <1>4 DEF InOneTurn
<1>5. CASE \/ InRequests \/ InServer \/ InBatches \/ InArriving \/ InArchiving
           \/ InQueues \/ InProxy \/ InTexts \/ InThreaded \/ InEdits
  BY <1>5 DEF InRequests, InServer, InBatches, InArriving, InArchiving, InQueues, InProxy,
    InTexts, InThreaded, InEdits
<1>6. CASE UNCHANGED allVars
  BY <1>6 DEF allVars
<1>7. QED
  BY <1>1, <1>2, <1>3, <1>4, <1>5, <1>6, StepsOfParts, ZenonT(60)

-----------------------------------------------------------------------------
(* The instances are the ones of MCFrontend. *)

LEMMA SameGateway ==
  /\ Gateway!SettingsInit <=> K!SettingsInit
  /\ (Gateway!ModelLasts <=> K!ModelLasts) /\ (Gateway!EffortLasts <=> K!EffortLasts)
  /\ Gateway!ModeTold <=> K!ModeTold
  /\ [Gateway!SettingsNext]_ownVars => [K!SettingsNext]_(K!settingsVars)
<1>1. Gateway!SettingsInit <=> K!SettingsInit
  BY DEF Gateway!SettingsInit, K!SettingsInit, Gateway!Unknown, K!Unknown,
    Gateway!NothingTaken, K!NothingTaken
<1>2. /\ (Gateway!ModelLasts <=> K!ModelLasts) /\ (Gateway!EffortLasts <=> K!EffortLasts)
      /\ Gateway!ModeTold <=> K!ModeTold
  BY DEF Gateway!ModelLasts, K!ModelLasts, Gateway!EffortLasts, K!EffortLasts, Gateway!ModeTold,
    K!ModeTold, Gateway!Grok, K!Grok, Gateway!OneSession, K!OneSession
<1>3. /\ \A m : Gateway!Plain(m) = K!Plain(m) /\ Gateway!Spaced(m) = K!Spaced(m)
      /\ Gateway!Choices = K!Choices /\ Gateway!ConfigChoices = K!ConfigChoices
      /\ Gateway!TurnChoices = K!TurnChoices
      /\ Gateway!AgentDefault = K!AgentDefault /\ Gateway!Unknown = K!Unknown
      /\ Gateway!NothingTaken = K!NothingTaken
      /\ \A n : Gateway!strip_grok_model_namespace(n) = K!strip_grok_model_namespace(n)
      /\ \A t, new, n : Gateway!route_request(t, new, n) = K!route_request(t, new, n)
      /\ \A b, new, n : Gateway!validate_model_boundary(b, new, n)
                          <=> K!validate_model_boundary(b, new, n)
  BY DEF Gateway!Plain, K!Plain, Gateway!Spaced, K!Spaced, Gateway!Choices, K!Choices,
    Gateway!ConfigChoices, K!ConfigChoices, Gateway!TurnChoices, K!TurnChoices,
    Gateway!AgentDefault, K!AgentDefault, Gateway!Unknown, K!Unknown, Gateway!NothingTaken,
    K!NothingTaken, Gateway!Strip, K!Strip,
    Gateway!strip_grok_model_namespace, K!strip_grok_model_namespace, Gateway!route_request,
    K!route_request, Gateway!validate_model_boundary, K!validate_model_boundary,
    Gateway!is_grok_model, K!is_grok_model
<1>4. /\ \A a, n : Gateway!WithModel(a, n) = K!WithModel(a, n)
      /\ \A a, e : Gateway!WithMode(a, e) = K!WithMode(a, e)
      /\ \A s, e : Gateway!ModeUpdate(s, e) = K!ModeUpdate(s, e)
      /\ \A x : Gateway!TakenOf(x) = K!TakenOf(x)
      /\ \A t, m, e : Gateway!Took(t, m, e) = K!Took(t, m, e)
      /\ \A b, t, n, cn : Gateway!Forwarded(b, t, n, cn) <=> K!Forwarded(b, t, n, cn)
      /\ \A t, s : Gateway!create_thread_session_mapping(t, s)
                     <=> K!create_thread_session_mapping(t, s)
  BY <1>3 DEF Gateway!WithModel, K!WithModel, Gateway!WithMode, K!WithMode, Gateway!ModeUpdate,
    K!ModeUpdate, Gateway!TakenOf, K!TakenOf, Gateway!Took, K!Took, Gateway!Forwarded,
    K!Forwarded, Gateway!create_thread_session_mapping, K!create_thread_session_mapping
<1>5. ASSUME NEW t, NEW n
      PROVE  /\ Gateway!handle_thread_start(t, n) <=> K!handle_thread_start(t, n)
             /\ Gateway!handle_thread_resume(t, n) <=> K!handle_thread_resume(t, n)
             /\ Gateway!set_session_mode(t, n) <=> K!set_session_mode(t, n)
  BY DEF Gateway!handle_thread_start, K!handle_thread_start, Gateway!handle_thread_resume,
    K!handle_thread_resume, Gateway!set_session_mode, K!set_session_mode,
    Gateway!AgentDefault, K!AgentDefault, Gateway!create_thread_session_mapping,
    K!create_thread_session_mapping, Gateway!TakenOf, K!TakenOf, Gateway!Took, K!Took,
    Gateway!WithModel, K!WithModel, Gateway!WithMode, K!WithMode, Gateway!ModeUpdate,
    K!ModeUpdate
<1>6. ASSUME NEW t, NEW n, NEW cn
      PROVE  /\ Gateway!Start(t, n, cn) => K!Start(t, n, cn)
             /\ Gateway!Resume(t, n, cn) => K!Resume(t, n, cn)
  <2>1. Gateway!Start(t, n, cn) => K!Start(t, n, cn)
    BY DEF Gateway!Start, K!Start, Gateway!idMapVars, K!idMapVars,
      Gateway!handle_thread_start, K!handle_thread_start, Gateway!route_request,
      K!route_request, Gateway!validate_model_boundary, K!validate_model_boundary,
      Gateway!is_grok_model, K!is_grok_model, Gateway!Forwarded, K!Forwarded, Gateway!Strip,
      K!Strip, Gateway!Plain, K!Plain, Gateway!strip_grok_model_namespace,
      K!strip_grok_model_namespace, Gateway!AgentDefault, K!AgentDefault,
      Gateway!create_thread_session_mapping, K!create_thread_session_mapping,
      Gateway!TakenOf, K!TakenOf, Gateway!Took, K!Took, Gateway!WithModel, K!WithModel
  <2>2. Gateway!Resume(t, n, cn) => K!Resume(t, n, cn)
    BY DEF Gateway!Resume, K!Resume, Gateway!idMapVars, K!idMapVars,
      Gateway!handle_thread_resume, K!handle_thread_resume, Gateway!TakenOf, K!TakenOf,
      Gateway!Took, K!Took, Gateway!WithModel, K!WithModel, Gateway!route_request,
      K!route_request, Gateway!validate_model_boundary, K!validate_model_boundary,
      Gateway!is_grok_model, K!is_grok_model, Gateway!Forwarded, K!Forwarded, Gateway!Strip,
      K!Strip, Gateway!Plain, K!Plain, Gateway!strip_grok_model_namespace,
      K!strip_grok_model_namespace
  <2>3. QED
    BY <2>1, <2>2
<1>7. ASSUME NEW t, NEW n, NEW e, Gateway!Turn(t, n, e) PROVE K!Turn(t, n, e)
  BY <1>5, <1>7 DEF Gateway!Turn, K!Turn, Gateway!idMapVars, K!idMapVars,
    Gateway!route_request, K!route_request, Gateway!validate_model_boundary,
    K!validate_model_boundary, Gateway!is_grok_model, K!is_grok_model, Gateway!Forwarded,
    K!Forwarded, Gateway!Strip, K!Strip, Gateway!Plain, K!Plain,
    Gateway!strip_grok_model_namespace, K!strip_grok_model_namespace
<1>8. ASSUME NEW t, NEW e
      PROVE  /\ Gateway!handle_set_session_mode(t, e) => K!handle_set_session_mode(t, e)
             /\ Gateway!handle_set_session_config_option(t) => K!handle_set_session_config_option(t)
             /\ Gateway!handle_thread_rollback(t) => K!handle_thread_rollback(t)
  <2>1. Gateway!handle_set_session_mode(t, e) => K!handle_set_session_mode(t, e)
    BY <1>5 DEF Gateway!handle_set_session_mode, K!handle_set_session_mode,
      Gateway!idMapVars, K!idMapVars
  <2>2. Gateway!handle_set_session_config_option(t) => K!handle_set_session_config_option(t)
    BY DEF Gateway!handle_set_session_config_option, K!handle_set_session_config_option,
      Gateway!idMapVars, K!idMapVars
  <2>3. Gateway!handle_thread_rollback(t) => K!handle_thread_rollback(t)
    BY DEF Gateway!handle_thread_rollback, K!handle_thread_rollback, Gateway!idMapVars,
      K!idMapVars, Gateway!AgentDefault, K!AgentDefault, Gateway!NothingTaken,
      K!NothingTaken, Gateway!create_thread_session_mapping, K!create_thread_session_mapping
  <2>4. QED
    BY <2>1, <2>2, <2>3
<1>9. ASSUME NEW s, NEW x
      PROVE  /\ Gateway!AgentChangesMode(s, x) => K!AgentChangesMode(s, x)
             /\ Gateway!AgentChangesOptions(s, x) => K!AgentChangesOptions(s, x)
  BY <1>4 DEF Gateway!AgentChangesMode, K!AgentChangesMode, Gateway!AgentChangesOptions,
    K!AgentChangesOptions,
    Gateway!idMapVars, K!idMapVars
<1>10. (Gateway!TakeUpdate => K!TakeUpdate) /\ (Gateway!Restart => K!Restart)
  BY <1>3, SMTT(30) DEF Gateway!TakeUpdate, K!TakeUpdate, Gateway!Restart, K!Restart,
    Gateway!idMapVars, K!idMapVars
<1>11. Gateway!SettingsNext => K!SettingsNext
  BY <1>3, <1>6, <1>7, <1>8, <1>9, <1>10 DEF Gateway!SettingsNext, K!SettingsNext
<1>12. QED
  BY <1>1, <1>2, <1>11 DEF ownVars, K!settingsVars

LEMMA SameDeciding ==
  /\ Deciding!Init <=> K!Ask!Init
  /\ Deciding!TypeOK <=> K!Ask!TypeOK
  /\ Deciding!AskedOnce <=> K!Ask!AskedOnce
  /\ Deciding!ToldAsDecided <=> K!Ask!ToldAsDecided
  /\ Deciding!DecisionOfItsAsk <=> K!Ask!DecisionOfItsAsk
  /\ [Deciding!Next]_askVars => [K!Ask!Next]_(K!Ask!vars)
<1>1. /\ \A S : Deciding!Cardinality(S) = K!Ask!Cardinality(S)
      /\ \A S : Deciding!Min(S) = K!Ask!Min(S)
      /\ \A s : Deciding!ToSet(s) = K!Ask!ToSet(s)
      /\ \A s, x : Deciding!Contains(s, x) <=> K!Ask!Contains(s, x)
  BY DEF Deciding!Cardinality, K!Ask!Cardinality, Deciding!Min, K!Ask!Min, Deciding!ToSet,
    K!Ask!ToSet, Deciding!Contains, K!Ask!Contains
<1>2. /\ Deciding!Ids = K!Ask!Ids /\ Deciding!Asked = K!Ask!Asked
      /\ Deciding!Accepting = K!Ask!Accepting /\ Deciding!Outcomes = K!Ask!Outcomes
      /\ Deciding!AskRecords = K!Ask!AskRecords
      /\ Deciding!AllowOptions = K!Ask!AllowOptions
      /\ Deciding!RejectOptions = K!Ask!RejectOptions
  BY <1>1 DEF Deciding!Ids, K!Ask!Ids, Deciding!Asked, K!Ask!Asked, Deciding!Accepting,
    K!Ask!Accepting, Deciding!Outcomes, K!Ask!Outcomes, Deciding!AskRecords, K!Ask!AskRecords,
    Deciding!AllowOptions, K!Ask!AllowOptions, Deciding!RejectOptions, K!Ask!RejectOptions
<1>3. Deciding!Init <=> K!Ask!Init
  BY <1>2 DEF Deciding!Init, K!Ask!Init, Deciding!Ids, K!Ask!Ids, Deciding!Cardinality,
    K!Ask!Cardinality
<1>4. Deciding!TypeOK <=> K!Ask!TypeOK
  BY <1>1, <1>2 DEF Deciding!TypeOK, K!Ask!TypeOK
<1>5. Deciding!AskedOnce <=> K!Ask!AskedOnce
  BY <1>1, <1>2 DEF Deciding!AskedOnce, K!Ask!AskedOnce
<1>6. Deciding!ToldAsDecided <=> K!Ask!ToldAsDecided
  BY <1>1, <1>2 DEF Deciding!ToldAsDecided, K!Ask!ToldAsDecided
<1>7. Deciding!DecisionOfItsAsk <=> K!Ask!DecisionOfItsAsk
  BY <1>1, <1>2 DEF Deciding!DecisionOfItsAsk, K!Ask!DecisionOfItsAsk
<1>8. \A a : Deciding!Outcome(a) = K!Ask!Outcome(a)
  BY <1>1, <1>2, SMTT(30) DEF Deciding!Outcome, K!Ask!Outcome, Deciding!TranslateDecision,
    K!Ask!TranslateDecision, Deciding!TranslateAnswer, K!Ask!TranslateAnswer,
    Deciding!FirstOf, K!Ask!FirstOf
<1>9. ASSUME NEW t
      PROVE  /\ Deciding!TurnBegins(t) => K!Ask!TurnBegins(t)
             /\ Deciding!TurnEnds(t) => K!Ask!TurnEnds(t)
  BY <1>2 DEF Deciding!TurnBegins, K!Ask!TurnBegins, Deciding!TurnEnds, K!Ask!TurnEnds
<1>10. ASSUME NEW a, NEW t, NEW kind, NEW o, Deciding!AgentAsks(a, t, kind, o)
      PROVE  K!Ask!AgentAsks(a, t, kind, o)
  BY <1>2, <1>10 DEF Deciding!AgentAsks, K!Ask!AgentAsks
<1>11. ASSUME NEW r, NEW d, Deciding!ClientAnswers(r, d) PROVE K!Ask!ClientAnswers(r, d)
  BY <1>11 DEF Deciding!ClientAnswers, K!Ask!ClientAnswers
<1>12. /\ Deciding!AgentAnswersCall => K!Ask!AgentAnswersCall
       /\ Deciding!ClientCalls => K!Ask!ClientCalls
       /\ Deciding!Disconnected => K!Ask!Disconnected
       /\ Deciding!HandleCall => K!Ask!HandleCall
  BY <1>2 DEF Deciding!AgentAnswersCall, K!Ask!AgentAnswersCall, Deciding!ClientCalls,
    K!Ask!ClientCalls, Deciding!Disconnected, K!Ask!Disconnected, Deciding!HandleCall,
    K!Ask!HandleCall
<1>13. Deciding!HandleAsk => K!Ask!HandleAsk
  BY DEF Deciding!HandleAsk, K!Ask!HandleAsk, Deciding!SendRequest, K!Ask!SendRequest,
    Deciding!SendFails, K!Ask!SendFails, Deciding!WriterStopped, K!Ask!WriterStopped,
    Deciding!Undecided, K!Ask!Undecided,
    Deciding!NextId, K!Ask!NextId, Deciding!ShownAs, K!Ask!ShownAs, Deciding!AsShown,
    K!Ask!AsShown
<1>14. Deciding!HandleResponse => K!Ask!HandleResponse
  BY DEF Deciding!HandleResponse, K!Ask!HandleResponse, Deciding!Unpend, K!Ask!Unpend
<1>15. ASSUME NEW a
      PROVE  /\ Deciding!TaskAnswers(a) => K!Ask!TaskAnswers(a)
             /\ Deciding!TaskGivesUp(a) => K!Ask!TaskGivesUp(a)
  BY <1>1, <1>2, <1>8 DEF Deciding!TaskAnswers, K!Ask!TaskAnswers, Deciding!TaskGivesUp,
    K!Ask!TaskGivesUp, Deciding!Undecided, K!Ask!Undecided
<1>16. Deciding!Next => K!Ask!Next
  BY <1>9, <1>10, <1>11, <1>12, <1>13, <1>14, <1>15, SMTT(30) DEF Deciding!Next,
    K!Ask!Next
<1>17. QED
  BY <1>3, <1>4, <1>5, <1>6, <1>7, <1>16 DEF askVars, K!Ask!vars

LEMMA SameOneTurn ==
  /\ Deciding!Init <=> J!Ask!Init
  /\ OneTurn!ShownInItsThread <=> J!Ask!ShownInItsThread
  /\ [OneTurn!Next]_askVars => [J!Ask!Next]_(J!Ask!vars)
<1>1. /\ \A S : OneTurn!Cardinality(S) = J!Ask!Cardinality(S)
      /\ \A S : OneTurn!Min(S) = J!Ask!Min(S)
      /\ \A s : OneTurn!ToSet(s) = J!Ask!ToSet(s)
      /\ \A s, x : OneTurn!Contains(s, x) <=> J!Ask!Contains(s, x)
  BY DEF OneTurn!Cardinality, J!Ask!Cardinality, OneTurn!Min, J!Ask!Min, OneTurn!ToSet,
    J!Ask!ToSet, OneTurn!Contains, J!Ask!Contains
<1>2. /\ OneTurn!Ids = J!Ask!Ids /\ OneTurn!Asked = J!Ask!Asked
      /\ OneTurn!Accepting = J!Ask!Accepting /\ OneTurn!Outcomes = J!Ask!Outcomes
      /\ OneTurn!AskRecords = J!Ask!AskRecords
      /\ OneTurn!AllowOptions = J!Ask!AllowOptions
      /\ OneTurn!RejectOptions = J!Ask!RejectOptions
  BY <1>1 DEF OneTurn!Ids, J!Ask!Ids, OneTurn!Asked, J!Ask!Asked, OneTurn!Accepting,
    J!Ask!Accepting, OneTurn!Outcomes, J!Ask!Outcomes, OneTurn!AskRecords, J!Ask!AskRecords,
    OneTurn!AllowOptions, J!Ask!AllowOptions, OneTurn!RejectOptions, J!Ask!RejectOptions
<1>3. Deciding!Init <=> J!Ask!Init
  BY <1>2 DEF Deciding!Init, J!Ask!Init, Deciding!Ids, J!Ask!Ids, Deciding!Cardinality,
    J!Ask!Cardinality
<1>4. OneTurn!ShownInItsThread <=> J!Ask!ShownInItsThread
  BY <1>1, <1>2 DEF OneTurn!ShownInItsThread, J!Ask!ShownInItsThread
<1>5. \A a : OneTurn!Outcome(a) = J!Ask!Outcome(a)
  BY <1>1, <1>2, SMTT(30) DEF OneTurn!Outcome, J!Ask!Outcome, OneTurn!TranslateDecision,
    J!Ask!TranslateDecision, OneTurn!TranslateAnswer, J!Ask!TranslateAnswer, OneTurn!FirstOf,
    J!Ask!FirstOf
<1>6. ASSUME NEW t
      PROVE  /\ OneTurn!TurnBegins(t) => J!Ask!TurnBegins(t)
             /\ OneTurn!TurnEnds(t) => J!Ask!TurnEnds(t)
  BY <1>2 DEF OneTurn!TurnBegins, J!Ask!TurnBegins, OneTurn!TurnEnds, J!Ask!TurnEnds
<1>7. ASSUME NEW a, NEW t, NEW kind, NEW o, OneTurn!AgentAsks(a, t, kind, o)
      PROVE  J!Ask!AgentAsks(a, t, kind, o)
  BY <1>2, <1>7 DEF OneTurn!AgentAsks, J!Ask!AgentAsks
<1>8. ASSUME NEW r, NEW d, OneTurn!ClientAnswers(r, d) PROVE J!Ask!ClientAnswers(r, d)
  BY <1>8 DEF OneTurn!ClientAnswers, J!Ask!ClientAnswers
<1>9. /\ OneTurn!AgentAnswersCall => J!Ask!AgentAnswersCall
      /\ OneTurn!ClientCalls => J!Ask!ClientCalls
      /\ OneTurn!Disconnected => J!Ask!Disconnected
      /\ OneTurn!HandleCall => J!Ask!HandleCall
  BY <1>2 DEF OneTurn!AgentAnswersCall, J!Ask!AgentAnswersCall, OneTurn!ClientCalls,
    J!Ask!ClientCalls, OneTurn!Disconnected, J!Ask!Disconnected, OneTurn!HandleCall,
    J!Ask!HandleCall
<1>10. OneTurn!HandleAsk => J!Ask!HandleAsk
  BY DEF OneTurn!HandleAsk, J!Ask!HandleAsk, OneTurn!SendRequest, J!Ask!SendRequest,
    OneTurn!SendFails, J!Ask!SendFails, OneTurn!WriterStopped, J!Ask!WriterStopped,
    OneTurn!Undecided, J!Ask!Undecided,
    OneTurn!NextId, J!Ask!NextId, OneTurn!ShownAs, J!Ask!ShownAs, OneTurn!AsShown,
    J!Ask!AsShown
<1>11. OneTurn!HandleResponse => J!Ask!HandleResponse
  BY DEF OneTurn!HandleResponse, J!Ask!HandleResponse, OneTurn!Unpend, J!Ask!Unpend
<1>12. ASSUME NEW a
      PROVE  /\ OneTurn!TaskAnswers(a) => J!Ask!TaskAnswers(a)
             /\ OneTurn!TaskGivesUp(a) => J!Ask!TaskGivesUp(a)
  BY <1>1, <1>2, <1>5 DEF OneTurn!TaskAnswers, J!Ask!TaskAnswers, OneTurn!TaskGivesUp,
    J!Ask!TaskGivesUp, OneTurn!Undecided, J!Ask!Undecided
<1>13. OneTurn!Next => J!Ask!Next
  BY <1>6, <1>7, <1>8, <1>9, <1>10, <1>11, <1>12, SMTT(30) DEF OneTurn!Next,
    J!Ask!Next
<1>14. QED
  BY <1>3, <1>4, <1>13 DEF askVars, J!Ask!vars

-----------------------------------------------------------------------------
(* What holds of the composition. *)

\* The parts of SettingsLast that a step keeps.
SettingsInv ==
  /\ IInv /\ TypeInv
  /\ K!IInv /\ K!TypeInv /\ K!ModelInv /\ K!EffortInv /\ K!ToldInv

\* Of every task, session, model, effort and option of the client's side, and of a task at
\* the gateway alone: a setting the client made lasts until it makes another one, across
\* resumes and restarts, and what the agent changed is told (handle_turn_start,
\* handle_set_session_mode and handle_thread_resume in lib.rs).
THEOREM SettingsAlwaysLast == MCSpec => []SettingsLast
<1>1. MCInit => SettingsInv
  <2> SUFFICES ASSUME MCInit PROVE SettingsInv
    OBVIOUS
  <2>1. SettingsInit /\ K!SettingsInit
    BY SameGateway DEF MCInit
  <2>2. IInv /\ TypeInv
    BY <2>1, InitIInv, InitSettings
  <2>3. K!IInv /\ K!TypeInv /\ K!ModelInv /\ K!EffortInv /\ K!ToldInv
    BY <2>1, K!InitIInv, K!InitSettings, KMux, KSettings, SMTT(30)
  <2>4. QED
    BY <2>2, <2>3, SMTT(30) DEF SettingsInv
<1>2. SettingsInv /\ [MCNext]_allVars => SettingsInv'
  <2> SUFFICES ASSUME SettingsInv, [MCNext]_allVars PROVE SettingsInv'
    OBVIOUS
  <2>1. [SettingsNext]_settingsVars /\ [K!SettingsNext]_(K!settingsVars)
    BY OthersRest, SameGateway, ZenonT(60)
  <2>2. IInv' /\ TypeInv'
    BY <2>1, NextIInv, NextSettings DEF SettingsInv
  <2>3. (K!IInv)' /\ (K!TypeInv)' /\ (K!ModelInv)' /\ (K!EffortInv)' /\ (K!ToldInv)'
    BY <2>1, K!NextIInv, K!NextSettings, KMux, KSettings DEF SettingsInv
  <2>4. QED
    BY <2>2, <2>3 DEF SettingsInv
<1>3. SettingsInv => SettingsLast
  <2> SUFFICES ASSUME SettingsInv PROVE SettingsLast
    OBVIOUS
  <2>1. SettingsTypeOK
    BY DEF SettingsInv, TypeInv
  <2>2. K!ModelLasts /\ K!EffortLasts /\ K!ModeTold
    BY K!SettingsHold, KMux, KSettings DEF SettingsInv
  <2>3. QED
    BY <2>1, <2>2, SameGateway DEF SettingsLast
<1>4. QED
  BY <1>1, <1>2, <1>3, PTL DEF MCSpec

\* The parts of AsksDecided that a step keeps.
DecidedInv ==
  /\ part = "asks" => K!AskInv
  /\ part = "one turn" => J!AskInv /\ J!ThreadInv

\* Of every two asks: what the user decides about an ask is what the agent is told about
\* it, an ask is in one place until it is answered, and as long as one turn runs at a time
\* it is shown in its own thread (client_impl.rs, outgoing.rs, approval.rs).
THEOREM AsksAlwaysDecided == MCSpec => []AsksDecided
<1>1. MCInit => DecidedInv
  <2> SUFFICES ASSUME MCInit PROVE DecidedInv
    OBVIOUS
  <2>1. K!Ask!Init /\ J!Ask!Init
    BY SameDeciding, SameOneTurn DEF MCInit
  <2>2. K!AskInv
    BY <2>1, K!InitAskInv, KMux, KSettings, KAsks
  <2>3. J!AskInv /\ J!ThreadInv
    BY <2>1, J!InitAskInv, JMux, JSettings, JAsks
  <2>4. QED
    BY <2>2, <2>3 DEF DecidedInv
<1>2. DecidedInv /\ [MCNext]_allVars => DecidedInv'
  <2> SUFFICES ASSUME DecidedInv, [MCNext]_allVars PROVE DecidedInv'
    OBVIOUS
  <2>1. ASSUME part' = "asks" PROVE (K!AskInv)'
    <3>1. K!AskInv /\ [K!Ask!Next]_(K!Ask!vars)
      BY <2>1, OthersRest, SameDeciding DEF DecidedInv
    <3>2. QED
      BY <3>1, K!NextAskInv, KMux, KSettings, KAsks
  <2>2. ASSUME part' = "one turn" PROVE (J!AskInv)' /\ (J!ThreadInv)'
    <3>1. J!AskInv /\ J!ThreadInv /\ [J!Ask!Next]_(J!Ask!vars)
      BY <2>2, OthersRest, SameOneTurn DEF DecidedInv
    <3>2. QED
      BY <3>1, J!NextAskInv, JMux, JSettings, JAsks
  <2>3. QED
    BY <2>1, <2>2 DEF DecidedInv
<1>3. DecidedInv => AsksDecided
  <2> SUFFICES ASSUME DecidedInv PROVE AsksDecided
    OBVIOUS
  <2>1. ASSUME part = "asks"
        PROVE  K!Ask!TypeOK /\ K!Ask!AskedOnce /\ K!Ask!ToldAsDecided /\ K!Ask!DecisionOfItsAsk
    BY <2>1, K!TypesHold, K!PlacedOnce, KMux, KSettings, KAsks
       DEF DecidedInv, K!AskInv, K!AnswersInv
  <2>2. part = "one turn" => J!Ask!ShownInItsThread
    BY DEF DecidedInv, J!ThreadInv
  <2>3. QED
    BY <2>1, <2>2, SameDeciding, SameOneTurn DEF AsksDecided
<1>4. QED
  BY <1>1, <1>2, <1>3, PTL DEF MCSpec
=============================================================================
