---------------------------- MODULE PromptImages ----------------------------
(***************************************************************************)
(* The images of a message of the user, as the model is given them         *)
(* (crates/protocol/src/models.rs), read and made to fit                   *)
(* (crates/utils/image/src/lib.rs) through a cache by content that all     *)
(* callers share (crates/utils/cache/src/lib.rs).  Several messages are    *)
(* built at once, each image after image, while the files change.          *)
(*                                                                         *)
(* What a file holds is reduced to what decoding it gives.  Decoding,      *)
(* scaling and the LRU list are of libraries, and external.                *)
(***************************************************************************)
EXTENDS Naturals, Sequences, SequencesExt, FiniteSets, FiniteSetsExt

CONSTANTS
  Callers,     \* threads that build messages
  InRuntime,   \* those of a Tokio runtime; the others get no cache
  Paths,       \* local images
  Mime,        \* what mime_guess says of a path: "image", "other" or "none"
  Contents,    \* what a file may hold
  Missing,     \* there is no file
  Messages,    \* sequences of "text", "remote", "skill" and paths
  Capacity,    \* of the cache
  MaxWidth, MaxHeight,
  NoImage, NoCaller,
  MaxWrites    \* bound: how often a file changes

Decoded == [format : {"png", "jpeg", "other"}, width : Nat \ {0}, height : Nat \ {0},
            decodes : {"yes", "broken", "unsupported"}]

ImagesConstants ==
  /\ InRuntime \subseteq Callers /\ NoCaller \notin Callers
  /\ Mime \in [Paths -> {"image", "other", "none"}]
  /\ Contents \subseteq Decoded /\ Missing \notin Contents /\ NoImage \notin Contents
  /\ Messages \subseteq Seq(Paths \cup {"text", "remote", "skill"})
  /\ {Capacity, MaxWidth, MaxHeight} \subseteq Nat \ {0} /\ MaxWrites \in Nat

VARIABLES
  files,
  cache,       \* what was made of which contents, the latest used first
  holder,      \* who holds the mutex of the cache
  queue,       \* who waits for it; Tokio's mutex is fair
  stage,       \* where each caller is
  message,     \* what it builds
  at,          \* the input it is at
  imageIndex,  \* image_index
  bytes,       \* what it read of the file of that input
  items,       \* the content items it has made
  made, dropped, \* how often contents were processed for the cache, and evicted
  writes

vars == <<files, cache, holder, queue, stage, message, at, imageIndex, bytes, items,
          made, dropped, writes>>

Stages == {"idle", "input", "read", "wait", "work", "plain", "done"}

TypeOK ==
  /\ files \in [Paths -> Contents \cup {Missing}]
  /\ Len(cache) <= Capacity
  /\ \A i, k \in DOMAIN cache : cache[i].key = cache[k].key => i = k
  /\ stage \in [Callers -> Stages]
  /\ holder # NoCaller <=> \E c \in Callers : stage[c] = "work"
  /\ \A c \in Callers : (holder = c <=> stage[c] = "work") /\ (c \in ToSet(queue) <=> stage[c] = "wait")
  /\ IsInjective(queue) /\ ToSet(queue) \cup {holder} \subseteq InRuntime \cup {NoCaller}
  /\ bytes \in [Callers -> Contents \cup {Missing}]
  /\ \A c \in Callers : stage[c] # "idle" => message[c] \in Messages /\ at[c] \in 1..Len(message[c]) + 1
  /\ writes \in 0..MaxWrites

-----------------------------------------------------------------------------
(* Making an image fit. *)

MinOf(a, b) == IF a < b THEN a ELSE b
MaxOf(a, b) == IF a > b THEN a ELSE b

\* resize keeps the ratio of the sides, rounds, and leaves no side empty.
Scaled(side, num, den) == MaxOf(1, (2 * side * num + den) \div (2 * den))
Resized(c) ==
  IF MaxWidth * c.height <= MaxHeight * c.width
  THEN <<MaxWidth, Scaled(c.height, MaxWidth, c.width)>>
  ELSE <<Scaled(c.width, MaxHeight, c.height), MaxHeight>>

Fits(c) == c.width <= MaxWidth /\ c.height <= MaxHeight

\* encode_image: what is no JPEG is written as PNG.
Encoding(format) == IF format = "jpeg" THEN "jpeg" ELSE "png"

Encoded(c) ==
  LET size == IF Fits(c) THEN <<c.width, c.height>> ELSE Resized(c)
  IN  [of |-> c, original |-> Fits(c) /\ c.format # "other", written |-> Encoding(c.format),
       mime |-> Encoding(c.format), width |-> size[1], height |-> size[2]]

Decodes(c) == c.decodes = "yes"

-----------------------------------------------------------------------------
(* The content items of an input. *)

Item(kind, c)    == [kind |-> kind, input |-> at[c], label |-> 0, image |-> NoImage]
Labelled(c)      == [Item("open", c) EXCEPT !.label = imageIndex[c]]
Shown(image, c)  == [Item("image", c) EXCEPT !.image = image]

ImageItems(image, c) == <<Labelled(c), Shown(image, c), Item("close", c)>>

\* The placeholder names the path of the input.
Placeholder(b, c) ==
  Item(IF b = Missing THEN "unreadable"
       ELSE IF b.decodes = "broken" THEN "invalid"
       ELSE IF Mime[message[c][at[c]]] = "image" THEN "unsupported" ELSE "unreadable", c)

Push(c, new) == items' = [items EXCEPT ![c] = @ \o new]
Goto(c, s)   == stage' = [stage EXCEPT ![c] = s]

\* The input is done with.
Pass(c, new) ==
  /\ Push(c, new)
  /\ at' = [at EXCEPT ![c] = @ + 1]
  /\ Goto(c, "input")

-----------------------------------------------------------------------------
(* The cache. *)

Keys == {cache[i].key : i \in DOMAIN cache}
Find(k) == CHOOSE i \in DOMAIN cache : cache[i].key = k

\* mistake: what was made of a path is kept by the path
KeyOfPath(c) == message[c][at[c]]
KeyOf(c)     == bytes[c]

Use(i) == <<cache[i]>> \o RemoveAt(cache, i)

\* One too many: the one used longest ago goes.
Put(k, image) ==
  LET full == <<[key |-> k, image |-> image]>> \o cache
  IN  /\ cache' = SubSeq(full, 1, MinOf(Len(full), Capacity))
      /\ dropped' = IF Len(full) > Capacity
                    THEN [dropped EXCEPT ![Last(full).image.of] = @ + 1] ELSE dropped

-----------------------------------------------------------------------------
(* Steps of a caller. *)

Init ==
  /\ files \in [Paths -> Contents \cup {Missing}]
  /\ cache = <<>> /\ holder = NoCaller /\ queue = <<>>
  /\ stage = [c \in Callers |-> "idle"]
  /\ message = [c \in Callers |-> <<>>] /\ at = [c \in Callers |-> 1]
  /\ imageIndex = [c \in Callers |-> 0]
  /\ bytes = [c \in Callers |-> Missing]
  /\ items = [c \in Callers |-> <<>>]
  /\ made = [k \in Contents |-> 0] /\ dropped = made
  /\ writes = 0

Begin(c, m) ==
  /\ stage[c] = "idle"
  /\ message' = [message EXCEPT ![c] = m]
  /\ Goto(c, "input")
  /\ UNCHANGED <<files, cache, holder, queue, at, imageIndex, bytes, items, made, dropped, writes>>

AtInput(c) == stage[c] = "input" /\ at[c] <= Len(message[c])

Text(c) ==
  /\ AtInput(c) /\ message[c][at[c]] = "text"
  /\ Pass(c, <<Item("text", c)>>)
  /\ UNCHANGED <<files, cache, holder, queue, message, imageIndex, bytes, made, dropped, writes>>

\* Skills and mentions are told later.
Skill(c) ==
  /\ AtInput(c) /\ message[c][at[c]] = "skill"
  /\ Pass(c, <<>>)
  /\ UNCHANGED <<files, cache, holder, queue, message, imageIndex, bytes, made, dropped, writes>>

NextIndex(c) == imageIndex' = [imageIndex EXCEPT ![c] = @ + 1]

\* An image of the web has no label, and takes a number all the same.
Remote(c) ==
  /\ AtInput(c) /\ message[c][at[c]] = "remote"
  /\ NextIndex(c)
  /\ Pass(c, <<Item("open", c), Shown([of |-> "remote"], c), Item("close", c)>>)
  /\ UNCHANGED <<files, cache, holder, queue, message, bytes, made, dropped, writes>>

Local(c) ==
  /\ AtInput(c) /\ message[c][at[c]] \in Paths
  /\ NextIndex(c)
  /\ Goto(c, "read")
  /\ UNCHANGED <<files, cache, holder, queue, message, at, bytes, items, made, dropped, writes>>

\* read_file_bytes, before the cache is locked.
ReadFile(c) ==
  /\ stage[c] = "read"
  /\ LET b == files[message[c][at[c]]]
     IN  IF b = Missing
         THEN /\ Pass(c, <<Placeholder(b, c)>>)
              /\ UNCHANGED <<bytes, queue>>
         ELSE /\ bytes' = [bytes EXCEPT ![c] = b]
              /\ IF c \in InRuntime
                 THEN queue' = Append(queue, c) /\ Goto(c, "wait")
                 ELSE UNCHANGED queue /\ Goto(c, "plain")
              /\ UNCHANGED <<at, items>>
  /\ UNCHANGED <<files, cache, holder, message, imageIndex, made, dropped, writes>>

\* Its turn has come: the image is there, or it is made while the cache is locked.
CanLock(c) == stage[c] = "wait" /\ holder = NoCaller /\ Head(queue) = c

Hit(c) ==
  /\ CanLock(c) /\ KeyOf(c) \in Keys
  /\ cache' = Use(Find(KeyOf(c)))
  /\ queue' = Tail(queue)
  /\ Pass(c, ImageItems(cache[Find(KeyOf(c))].image, c))
  /\ UNCHANGED <<files, holder, message, imageIndex, bytes, made, dropped, writes>>

Lock(c) ==
  /\ CanLock(c) /\ KeyOf(c) \notin Keys
  /\ holder' = c /\ queue' = Tail(queue)
  /\ Goto(c, "work")
  /\ UNCHANGED <<files, cache, message, at, imageIndex, bytes, items, made, dropped, writes>>

Make(c) ==
  /\ stage[c] = "work" /\ Decodes(bytes[c])
  /\ Put(KeyOf(c), Encoded(bytes[c]))
  /\ made' = [made EXCEPT ![bytes[c]] = @ + 1]
  /\ holder' = NoCaller
  /\ Pass(c, ImageItems(Encoded(bytes[c]), c))
  /\ UNCHANGED <<files, queue, message, imageIndex, bytes, writes>>

\* A failure is not kept.
Fail(c) ==
  /\ stage[c] = "work" /\ ~Decodes(bytes[c])
  /\ holder' = NoCaller
  /\ Pass(c, <<Placeholder(bytes[c], c)>>)
  /\ UNCHANGED <<files, cache, queue, message, imageIndex, bytes, made, dropped, writes>>

\* No runtime, no cache.
MakePlain(c) ==
  /\ stage[c] = "plain"
  /\ Pass(c, IF Decodes(bytes[c]) THEN ImageItems(Encoded(bytes[c]), c)
                                  ELSE <<Placeholder(bytes[c], c)>>)
  /\ UNCHANGED <<files, cache, holder, queue, message, imageIndex, bytes, made, dropped, writes>>

Finish(c) ==
  /\ stage[c] = "input" /\ at[c] > Len(message[c])
  /\ Goto(c, "done")
  /\ UNCHANGED <<files, cache, holder, queue, message, at, imageIndex, bytes, items, made, dropped, writes>>

WriteFile(p, b) ==
  /\ writes < MaxWrites /\ files[p] # b
  /\ files' = [files EXCEPT ![p] = b] /\ writes' = writes + 1
  /\ UNCHANGED <<cache, holder, queue, stage, message, at, imageIndex, bytes, items, made, dropped>>

Step(c) == \/ Text(c) \/ Skill(c) \/ Remote(c) \/ Local(c) \/ ReadFile(c)
           \/ Hit(c) \/ Lock(c) \/ Make(c) \/ Fail(c) \/ MakePlain(c) \/ Finish(c)

Next == \/ \E c \in Callers : Step(c) \/ \E m \in Messages : Begin(c, m)
        \/ \E p \in Paths, b \in Contents \cup {Missing} : WriteFile(p, b)

\* A thread that has something to do goes on; a message need not be sent.
Spec == Init /\ [][Next]_vars /\ \A c \in Callers : WF_vars(Step(c))

-----------------------------------------------------------------------------
(* Properties. *)

\* An image that was read for an input is what its item shows: not what the file held
\* when it was read for another, nor another file, and its type is that of its bytes.
\* It fits, and one that did already is given as it is (image/src/lib.rs:43-100).
JustAdded(c) == items'[c] # items[c] /\ stage[c] \in {"wait", "work", "plain"}

AddsWhatWasRead(c) ==
  JustAdded(c) =>
    \A i \in Len(items[c]) + 1 .. Len(items'[c]) :
      LET image == items'[c][i].image
      IN  image # NoImage => /\ image.of = bytes[c]
                             /\ image.mime = image.written
                             /\ image.width <= MaxWidth /\ image.height <= MaxHeight
                             /\ image.original => image.mime = bytes[c].format

\* Contents are processed again only once the cache had to give them up: callers of the
\* same image wait for the one that makes it (cache/src/lib.rs:47-64).
MadeOnce == \A k \in Contents : made[k] <= 1 + dropped[k]

\* The label of an image is its place among the images of the message, whatever became
\* of those before it: the text of the user refers to it by that number.  Each image is
\* between its tags (models.rs:711-742).
IsImage(input) == input \in Paths \cup {"remote"}
LabelsAreNumbers ==
  \A c \in Callers : \A i \in DOMAIN items[c] : items[c][i].kind = "image" =>
    /\ items[c][i - 1].kind = "open" /\ items[c][i + 1].kind = "close"
    /\ items[c][i - 1].label =
         IF message[c][items[c][i].input] = "remote" THEN 0
         ELSE Quantify(1..items[c][i].input, LAMBDA k : IsImage(message[c][k]))

=============================================================================
