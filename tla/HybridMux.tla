------------------------------ MODULE HybridMux ------------------------------
(***************************************************************************)
(* Requests and answers in the hybrid multiplexer (src/src/hybrid.rs): the *)
(* client's requests are handed to native Codex as they are, to the Grok   *)
(* adapter under an id of the multiplexer's, or to both as two halves of   *)
(* one answer; each child asks the client things too, under ids of its own *)
(* choice.  The children answer what they were asked in any order, and the *)
(* lines a child has written wait in its pipe; what matters here is which  *)
(* answer meets which request, so a pipe is a set of lines.                *)
(*                                                                         *)
(* What a line says is a tag, the part, that names the request the child   *)
(* read; the multiplexer never looks at it.  Notifications change nothing  *)
(* and are left out; routes are in TaskIdentity and pages in ThreadPages.  *)
(***************************************************************************)
EXTENDS Naturals, FiniteSets

CONSTANTS
  Requests,    \* the client's requests, which are their own ids
  ServerIds,   \* the ids a child gives its requests to the client
  NoReply,     \* not answered
  MaxId        \* bound on next_id and next_server_id

Backends  == {"native", "grok"}
Aggregate == {"initialize", "models", "threads"}
Kinds     == Aggregate \cup {"native", "grok"}

\* A message id with where it comes from: the prefixes of the source.
ClientId(r)   == <<"client", r>>
InternalId(n) == <<"internal", n>>
ServerId(n)   == <<"server", n>>
ChildId(i)    == <<"child", i>>

VARIABLES
  up,             \* the multiplexer runs
  asked,          \* how each request of the client is served, or "unsent"
  replies,        \* what the client got for it
  inbox,          \* what each child has read and not answered
  outbox,         \* each child's answers that were not read yet
  pending,        \* PendingKind by internal id
  aggregates,     \* Aggregate by group id
  nextId,
  refused,        \* <<backend, request>>: the child answered with an error
  asking,         \* each child's requests to the client, not read yet
  serverUsed,     \* ids each child has used for its requests
  grokServerIds,  \* grok_server_ids: the adapter's id by namespaced id
  nextServerId,
  shown,          \* the requests of the children that the client is answering
  serverAnswers   \* what each child got back

requestVars == <<asked, replies, inbox, outbox, pending, aggregates, nextId, refused>>
serverVars  == <<asking, serverUsed, grokServerIds, nextServerId, shown, serverAnswers>>
vars == <<up, asked, replies, inbox, outbox, pending, aggregates, nextId, refused,
          asking, serverUsed, grokServerIds, nextServerId, shown, serverAnswers>>

Parts     == Backends \X Requests
Reply     == [ok : BOOLEAN, parts : SUBSET Parts]

ASSUME MuxConstants == MaxId \in Nat /\ NoReply \notin Reply

Internals == {InternalId(n) : n \in 1..MaxId}
Lines     == [id : {ClientId(r) : r \in Requests} \cup Internals, request : Requests]
Answers   == [id : {ClientId(r) : r \in Requests} \cup Internals, reply : Reply]
Pass      == [kind : {"pass"}, client : Requests]
Half      == [kind : {"aggregate"}, group : 1..MaxId, backend : Backends]
Groups    == [kind : Aggregate, client : Requests,
              halves : [Backends -> Reply \cup {NoReply}]]
Shown     == [id : {ChildId(i) : i \in ServerIds} \cup {ServerId(n) : n \in 1..MaxId},
              from : Backends, asked : ServerIds]

TypeOK ==
  /\ up \in BOOLEAN
  /\ asked \in [Requests -> Kinds \cup {"unsent"}]
  /\ replies \in [Requests -> Reply \cup {NoReply}]
  /\ inbox \in [Backends -> SUBSET Lines]
  /\ outbox \in [Backends -> SUBSET Answers]
  /\ DOMAIN pending \subseteq Internals
  /\ \A id \in DOMAIN pending : pending[id] \in Pass \cup Half
  /\ DOMAIN aggregates \subseteq 1..MaxId
  /\ \A g \in DOMAIN aggregates : aggregates[g] \in Groups
  /\ nextId \in 1..MaxId + 1
  /\ refused \subseteq Parts
  /\ asking \in [Backends -> SUBSET ServerIds]
  /\ serverUsed \in [Backends -> SUBSET ServerIds]
  /\ DOMAIN grokServerIds \subseteq {ServerId(n) : n \in 1..MaxId}
  /\ \A id \in DOMAIN grokServerIds : grokServerIds[id] \in ServerIds
  /\ nextServerId \in 1..MaxId + 1
  /\ shown \subseteq Shown
  /\ serverAnswers \in [Backends -> SUBSET Shown]

Nothing == [x \in {} |-> x]    \* an empty map

Init ==
  /\ up = TRUE
  /\ asked = [r \in Requests |-> "unsent"]
  /\ replies = [r \in Requests |-> NoReply]
  /\ inbox = [b \in Backends |-> {}]
  /\ outbox = [b \in Backends |-> {}]
  /\ pending = Nothing
  /\ aggregates = Nothing
  /\ nextId = 1
  /\ refused = {}
  /\ asking = [b \in Backends |-> {}]
  /\ serverUsed = [b \in Backends |-> {}]
  /\ grokServerIds = Nothing
  /\ nextServerId = 1
  /\ shown = {}
  /\ serverAnswers = [b \in Backends |-> {}]

Put(map, key, value) ==
  [k \in DOMAIN map \cup {key} |-> IF k = key THEN value ELSE map[k]]

Remove(map, key) == [k \in DOMAIN map \ {key} |-> map[k]]

-----------------------------------------------------------------------------
(* A request of the client (handle_client_message).                        *)

Unsent(r) == up /\ asked[r] = "unsent"

\* A cursor that does not decode, or a model of the other backend.
Reject(r, kind) ==
  /\ Unsent(r)
  /\ kind \in {"threads", "native", "grok"}
  /\ asked' = [asked EXCEPT ![r] = kind]
  /\ replies' = [replies EXCEPT ![r] = [ok |-> FALSE, parts |-> {}]]
  /\ UNCHANGED <<up, inbox, outbox, pending, aggregates, nextId, refused, serverVars>>

PassToNative(r) ==
  /\ Unsent(r)
  /\ asked' = [asked EXCEPT ![r] = "native"]
  /\ inbox' = [inbox EXCEPT !["native"] = @ \cup {[id |-> ClientId(r), request |-> r]}]
  /\ UNCHANGED <<up, replies, outbox, pending, aggregates, nextId, refused, serverVars>>

PassToGrok(r) ==
  LET id == InternalId(nextId) IN
  /\ Unsent(r)
  /\ nextId \in 1..MaxId
  /\ asked' = [asked EXCEPT ![r] = "grok"]
  /\ nextId' = nextId + 1
  /\ pending' = Put(pending, id, [kind |-> "pass", client |-> r])
  /\ inbox' = [inbox EXCEPT !["grok"] = @ \cup {[id |-> id, request |-> r]}]
  /\ UNCHANGED <<up, replies, outbox, aggregates, refused, serverVars>>

\* A group and its two halves take their ids from the same counter.
HalfIds(group, backends) ==
  IF backends = Backends
    THEN [b \in Backends |-> IF b = "native" THEN InternalId(group + 1)
                                            ELSE InternalId(group + 2)]
    ELSE [b \in backends |-> InternalId(group + 1)]

\* What stands for a backend whose part of the list is exhausted.
EmptyPage == [ok |-> TRUE, parts |-> {}]

AskGroup(r, kind, backends) ==
  LET group == nextId
      ids == HalfIds(nextId, backends)
  IN  /\ Unsent(r)
      /\ nextId + Cardinality(backends) <= MaxId
      /\ asked' = [asked EXCEPT ![r] = kind]
      /\ nextId' = nextId + 1 + Cardinality(backends)
      /\ aggregates' = Put(aggregates, group,
           [kind |-> kind, client |-> r,
            halves |-> [b \in Backends |-> IF b \in backends THEN NoReply ELSE EmptyPage]])
      /\ pending' = [id \in DOMAIN pending \cup {ids[b] : b \in backends} |->
           IF id \in DOMAIN pending THEN pending[id]
           ELSE [kind |-> "aggregate", group |-> group,
                 backend |-> CHOOSE b \in backends : ids[b] = id]]
      /\ inbox' = [b \in Backends |->
           IF b \in backends THEN inbox[b] \cup {[id |-> ids[b], request |-> r]}
                             ELSE inbox[b]]
      /\ UNCHANGED <<up, replies, outbox, refused, serverVars>>

AskBoth(r, kind) == AskGroup(r, kind, Backends)

AskOther(r, b) == AskGroup(r, "threads", {b})

\* Both parts of the list are exhausted: nobody is asked.
AskNobody(r) ==
  /\ Unsent(r)
  /\ nextId \in 1..MaxId
  /\ asked' = [asked EXCEPT ![r] = "threads"]
  /\ nextId' = nextId + 1
  /\ replies' = [replies EXCEPT ![r] = EmptyPage]
  /\ UNCHANGED <<up, inbox, outbox, pending, aggregates, refused, serverVars>>

-----------------------------------------------------------------------------
(* The children answer.                                                    *)

ChildAnswers(b, r, ok) ==
  \E line \in inbox[b] :
    /\ line.request = r
    /\ inbox' = [inbox EXCEPT ![b] = @ \ {line}]
    /\ outbox' = [outbox EXCEPT ![b] = @ \cup
         {[id |-> line.id, reply |-> [ok |-> ok, parts |-> {<<b, r>>}]]}]
    /\ refused' = IF ok THEN refused ELSE refused \cup {<<b, r>>}
    /\ UNCHANGED <<up, asked, replies, pending, aggregates, nextId, serverVars>>

-----------------------------------------------------------------------------
(* An answer of a child (handle_child_line).                               *)

\* mistake: what failed is left out of the merged answer
MergeAnyway(kind, native, grok) ==
  [ok |-> native.ok \/ grok.ok, parts |-> native.parts \cup grok.parts]

\* finish_aggregate: an error of native Codex first, then one of Grok; only
\* the thread list is made of both results.
FinishAggregate(kind, native, grok) ==
  IF ~native.ok THEN native
  ELSE IF ~grok.ok THEN grok
  ELSE [ok |-> TRUE,
        parts |-> IF kind = "threads" THEN native.parts \cup grok.parts
                                      ELSE native.parts]

Take(b, answer) ==
  /\ up
  /\ outbox' = [outbox EXCEPT ![b] = @ \ {answer}]

TakePassed(b) ==
  \E answer \in outbox[b] :
    /\ Take(b, answer)
    /\ answer.id \in DOMAIN pending
    /\ pending[answer.id].kind = "pass"
    /\ pending' = Remove(pending, answer.id)
    /\ replies' = [replies EXCEPT ![pending[answer.id].client] = answer.reply]
    /\ UNCHANGED <<up, asked, inbox, aggregates, nextId, refused, serverVars>>

\* The half that came is written into its group; the second one finishes it.
FillHalf(group, answer) ==
  LET half == pending[answer.id]
      halves == [aggregates[group].halves EXCEPT ![half.backend] = answer.reply]
  IN  IF \A c \in Backends : halves[c] # NoReply
        THEN /\ aggregates' = Remove(aggregates, group)
             /\ replies' = [replies EXCEPT ![aggregates[group].client] =
                  FinishAggregate(aggregates[group].kind, halves["native"], halves["grok"])]
        ELSE /\ aggregates' = Put(aggregates, group,
                                 [aggregates[group] EXCEPT !.halves = halves])
             /\ UNCHANGED replies

\* A half without its group would stop the multiplexer.
TakeHalf(b) ==
  \E answer \in outbox[b] :
    /\ Take(b, answer)
    /\ answer.id \in DOMAIN pending
    /\ pending[answer.id].kind = "aggregate"
    /\ pending' = Remove(pending, answer.id)
    /\ IF pending[answer.id].group \in DOMAIN aggregates
         THEN FillHalf(pending[answer.id].group, answer) /\ UNCHANGED up
         ELSE up' = FALSE /\ UNCHANGED <<aggregates, replies>>
    /\ UNCHANGED <<asked, inbox, nextId, refused, serverVars>>

\* Anything else of a child is written to the client as it is.
TakeUnknown(b) ==
  \E answer \in outbox[b] :
    /\ Take(b, answer)
    /\ answer.id \notin DOMAIN pending
    /\ replies' = [r \in Requests |->
         IF answer.id = ClientId(r) THEN answer.reply ELSE replies[r]]
    /\ UNCHANGED <<up, asked, inbox, pending, aggregates, nextId, refused, serverVars>>

-----------------------------------------------------------------------------
(* Requests of the children to the client.                                 *)

ChildAsks(b, i) ==
  /\ i \notin serverUsed[b]
  /\ serverUsed' = [serverUsed EXCEPT ![b] = @ \cup {i}]
  /\ asking' = [asking EXCEPT ![b] = @ \cup {i}]
  /\ UNCHANGED <<up, requestVars, grokServerIds, nextServerId, shown, serverAnswers>>

ShowNative(i) ==
  /\ up
  /\ i \in asking["native"]
  /\ asking' = [asking EXCEPT !["native"] = @ \ {i}]
  /\ shown' = shown \cup {[id |-> ChildId(i), from |-> "native", asked |-> i]}
  /\ UNCHANGED <<up, requestVars, serverUsed, grokServerIds, nextServerId, serverAnswers>>

\* mistake: the new id is made from the size of the table
SizeServerId == ServerId(Cardinality(DOMAIN grokServerIds) + 1)

NewServerId == ServerId(nextServerId)

ShowGrok(i) ==
  /\ up
  /\ i \in asking["grok"]
  /\ nextServerId \in 1..MaxId
  /\ asking' = [asking EXCEPT !["grok"] = @ \ {i}]
  /\ grokServerIds' = Put(grokServerIds, NewServerId, i)
  /\ nextServerId' = nextServerId + 1
  /\ shown' = shown \cup {[id |-> NewServerId, from |-> "grok", asked |-> i]}
  /\ UNCHANGED <<up, requestVars, serverUsed, serverAnswers>>

\* The client answers a request of a child, and its line is handed on.
ClientAnswers ==
  \E ask \in shown :
    LET Deliver(b, id) ==
          serverAnswers' = [serverAnswers EXCEPT ![b] = @ \cup {[ask EXCEPT !.id = id]}]
    IN  /\ up
        /\ shown' = shown \ {ask}
        /\ IF ask.id \in DOMAIN grokServerIds
             THEN /\ Deliver("grok", ChildId(grokServerIds[ask.id]))
                  /\ grokServerIds' = Remove(grokServerIds, ask.id)
             ELSE /\ Deliver("native", ask.id)
                  /\ UNCHANGED grokServerIds
        /\ UNCHANGED <<up, requestVars, asking, serverUsed, nextServerId>>

-----------------------------------------------------------------------------
\* The client closes its end or a child exits: the multiplexer stops and
\* takes its tables with it.
MuxExits ==
  /\ up
  /\ up' = FALSE
  /\ UNCHANGED <<requestVars, serverVars>>

AskSomebody(r) ==
  \/ PassToNative(r)
  \/ PassToGrok(r)
  \/ \E kind \in Aggregate : AskBoth(r, kind)
  \/ \E b \in Backends : AskOther(r, b)

ClientRequest(r) ==
  \/ \E kind \in Kinds : Reject(r, kind)
  \/ AskSomebody(r)
  \/ AskNobody(r)

ChildLine(b) == TakePassed(b) \/ TakeHalf(b) \/ TakeUnknown(b)

ServerRequest ==
  \/ \E i \in ServerIds : \/ \E b \in Backends : ChildAsks(b, i)
                          \/ ShowNative(i)
                          \/ ShowGrok(i)
  \/ ClientAnswers

Next ==
  \/ \E r \in Requests : ClientRequest(r)
  \/ \E b \in Backends, r \in Requests, ok \in BOOLEAN : ChildAnswers(b, r, ok)
  \/ \E b \in Backends : ChildLine(b)
  \/ ServerRequest
  \/ MuxExits

Spec == Init /\ [][Next]_vars

\* The children answer what they read, and the select takes both queues.
Fairness ==
  /\ \A b \in Backends, r \in Requests :
       WF_vars(\E ok \in BOOLEAN : ChildAnswers(b, r, ok))
  /\ \A b \in Backends : WF_vars(ChildLine(b))

FairSpec == Spec /\ Fairness

-----------------------------------------------------------------------------
(* Properties.                                                             *)

Contract == INSTANCE Dialogue WITH
  sent    <- {r \in Requests : asked[r] # "unsent"},
  replyOf <- replies

\* Whatever the order of the children's lines, each request is answered at
\* most once, with the answer to it, and with success only if no backend
\* that was asked had failed (handle_child_line, finish_aggregate).
ImplementsDialogue == Contract!Spec

\* pending holds one entry for every line of the multiplexer's that is at a
\* child or on its way back, and aggregates the groups those wait for: an
\* entry is neither lost, which would leave a request without an answer,
\* nor left behind.
TablesMatchChildren ==
  LET out == {line.id : line \in UNION {inbox[b] \cup outbox[b] : b \in Backends}}
  IN  /\ DOMAIN pending = out \cap Internals
      /\ DOMAIN aggregates = {pending[id].group : id \in
           {i \in DOMAIN pending : pending[i].kind = "aggregate"}}

\* What the client decides about a child's request comes back to that child,
\* under the id the child gave it, though both children count alike.
ServerAnswersReachAsker ==
  \A b \in Backends : \A answer \in serverAnswers[b] :
    /\ answer.from = b
    /\ answer.id = ChildId(answer.asked)

=============================================================================
