-------------------------- MODULE MCDurable_proof --------------------------
(***************************************************************************)
(* Proofs about what outlives a process beside the routes of tasks: the    *)
(* names of threads and the search of their file from its end, the rollout *)
(* files of threads, the pages they are listed on and what a listing reads *)
(* of each.  They hold for every value of the constants; the induction     *)
(* over numbers that chunks, lines and pages need is had from the theorems *)
(* on well-founded sets.                                                   *)
(***************************************************************************)
EXTENDS MCDurable, SequencesExt, FiniteSetsExt, FiniteSetTheorems, SequenceTheorems,
  WellFoundedInduction, TLAPS

-----------------------------------------------------------------------------
(* Numbers.  Induction over them is had from a set, the numbers something    *)
(* holds for, and from the theorem that a set that is well-founded has least *)
(* elements.                                                                 *)

\* The pairs of numbers in their order, for the theorems about such relations.
Ascending == {p \in Nat \X Nat : p[1] < p[2]}

LEMMA AscendingWellFounded == IsWellFoundedOn(Ascending, Nat)
<1>1. OpToRel(<, Nat) = Ascending
  BY DEF OpToRel, Ascending
<1>2. QED
  BY <1>1, NatLessThanWellFounded

\* Numbers have a least one.
LEMMA LeastNumber ==
  ASSUME NEW S \in SUBSET Nat, S # {}
  PROVE  \E x \in S : \A y \in S : x <= y
<1>1. PICK x \in S : \A y \in S : <<y, x>> \notin Ascending
  BY AscendingWellFounded, WFMin
<1>2. ASSUME NEW y \in S PROVE x <= y
  <2>1. <<y, x>> \in Nat \X Nat /\ <<y, x>>[1] = y /\ <<y, x>>[2] = x
    OBVIOUS
  <2>2. ~(y < x)
    BY <1>1, <2>1 DEF Ascending
  <2>3. QED
    BY <2>2
<1>3. QED
  BY <1>2

\* What holds of 0, and of a number when it holds of the one before, holds of all.
LEMMA Induction ==
  ASSUME NEW S, 0 \in S, \A n \in Nat : n \in S => n + 1 \in S
  PROVE  Nat \subseteq S
<1> DEFINE T == Nat \ S
<1> SUFFICES ASSUME T # {} PROVE FALSE
  OBVIOUS
<1>1. PICK x \in T : \A y \in T : x <= y
  <2>1. T \in SUBSET Nat
    OBVIOUS
  <2>2. QED
    BY <2>1, LeastNumber
<1>2. QED
  BY <1>1

\* Of bounded numbers there is a greatest one.
LEMMA GreatestNumber ==
  ASSUME NEW n \in Nat, NEW S \in SUBSET (0..n), S # {}
  PROVE  Max(S) \in S /\ \A y \in S : y <= Max(S)
<1> DEFINE T == {n - y : y \in S}
<1>1. T \in SUBSET Nat /\ T # {}
  <2>1. \A y \in S : y \in 0..n /\ n - y \in Nat
    OBVIOUS
  <2>2. QED
    BY <2>1
<1>2. PICK x \in T : \A y \in T : x <= y
  BY <1>1, LeastNumber
<1>3. PICK m \in S : x = n - m
  OBVIOUS
<1>4. \A y \in S : m >= y
  <2> TAKE y \in S
  <2>1. n - y \in T
    OBVIOUS
  <2>2. QED
    BY <1>2, <1>3, <2>1
<1>5. QED
  BY <1>4 DEF Max

-----------------------------------------------------------------------------
(* The index of thread names.                                                *)

\* Renames are in the index in the order they were asked for, the one that is
\* under way is later than those, and what was announced is there, or a later one.
IndexInv ==
  /\ Names!TypeOK
  /\ namesLanding = {}
  /\ \A i, j \in DOMAIN namesIndex : i < j => namesIndex[i].number < namesIndex[j].number
  /\ \A i \in DOMAIN namesIndex : namesIndex[i].number <= namesRenames
  /\ namesNaming # None =>
       /\ namesNaming.number <= namesRenames
       /\ \A i \in DOMAIN namesIndex : namesIndex[i].number < namesNaming.number
  /\ \A t \in NameThreads : namesAnnounced[t] # None =>
       \E i \in DOMAIN namesIndex :
         namesIndex[i].thread = t /\ namesIndex[i].number >= namesAnnounced[t].number

NamesNext ==
  \/ \E t \in NameThreads, n \in Names!Names : Names!NameSet(t, n)
  \/ Names!NameAppended \/ Names!NameFailed \/ Names!Restart

LEMMA InitIndexInv == Names!Init => IndexInv
  BY InstanceConstants DEF Names!Init, IndexInv, Names!TypeOK, Names!SessionIndexConstants

LEMMA RenameType ==
  ASSUME NEW t \in NameThreads, NEW n \in Names!Names,
         Names!TypeOK, namesRenames < MaxRenames
  PROVE  Names!Rename(t, n) \in Names!Renames
BY InstanceConstants DEF Names!Rename, Names!Renames, Names!TypeOK, Names!SessionIndexConstants

\* The index with a rename behind it.
LEMMA IndexAppended ==
  ASSUME IndexInv, namesNaming # None, namesIndex' = Append(namesIndex, namesNaming)
  PROVE  /\ namesNaming \in Names!Renames
         /\ namesIndex' \in Seq(Names!Renames)
         /\ DOMAIN namesIndex' = DOMAIN namesIndex \cup {Len(namesIndex) + 1}
         /\ \A i \in DOMAIN namesIndex : /\ namesIndex'[i] = namesIndex[i]
                                         /\ i < Len(namesIndex) + 1
         /\ namesIndex'[Len(namesIndex) + 1] = namesNaming
<1>1. namesNaming \in Names!Renames /\ namesIndex \in Seq(Names!Renames)
  BY DEF IndexInv, Names!TypeOK
<1>2. QED
  BY <1>1

LEMMA IndexStep == IndexInv /\ [NamesNext]_namesVars => IndexInv'
<1> SUFFICES ASSUME IndexInv, [NamesNext]_namesVars PROVE IndexInv'
  OBVIOUS
<1> USE InstanceConstants DEF Names!SessionIndexConstants
<1>1. ASSUME NEW t \in NameThreads, NEW n \in Names!Names, Names!NameSet(t, n)
      PROVE  IndexInv'
  <2>1. namesRenames' = namesRenames + 1 /\ namesNaming' = Names!Rename(t, n)
        /\ namesRenames < MaxRenames
        /\ UNCHANGED <<namesIndex, namesLanding, namesAnnounced>>
    BY <1>1 DEF Names!NameSet
  <2>2. namesNaming' \in Names!Renames /\ namesNaming'.number = namesRenames + 1
    BY <2>1, RenameType DEF Names!Rename, IndexInv
  <2>3. Names!TypeOK'
    BY <2>1, <2>2 DEF IndexInv, Names!TypeOK
  <2>4. namesRenames \in Nat /\ \A i \in DOMAIN namesIndex : namesIndex[i].number \in Nat
    <3>1. \A r \in Names!Renames : r.number \in Nat
      BY DEF Names!Renames
    <3>2. QED
      BY <3>1 DEF IndexInv, Names!TypeOK
  <2>5. QED
    BY <2>1, <2>2, <2>3, <2>4 DEF IndexInv
<1>2. ASSUME namesNaming # None, namesIndex' = Append(namesIndex, namesNaming),
             namesNaming' = None, namesLanding' = {}, namesRenames' = namesRenames,
             \/ namesAnnounced' = namesAnnounced
             \/ namesAnnounced' = [namesAnnounced EXCEPT ![namesNaming.thread] = namesNaming]
      PROVE  IndexInv'
  <2>1. Names!TypeOK'
    BY <1>2, IndexAppended DEF IndexInv, Names!TypeOK, Names!Renames
  <2>2. /\ namesRenames \in Nat
        /\ \A i \in DOMAIN namesIndex : namesIndex[i].number \in Nat
        /\ namesNaming.number \in Nat /\ namesNaming.thread \in NameThreads
    <3>1. \A r \in Names!Renames : r.number \in Nat /\ r.thread \in NameThreads
      BY DEF Names!Renames
    <3>2. QED
      BY <1>2, <3>1, IndexAppended DEF IndexInv, Names!TypeOK
  <2>3. \A i, j \in DOMAIN namesIndex' : i < j => namesIndex'[i].number < namesIndex'[j].number
    BY <1>2, <2>2, IndexAppended DEF IndexInv
  <2>4. \A i \in DOMAIN namesIndex' : namesIndex'[i].number <= namesRenames'
    BY <1>2, <2>2, IndexAppended DEF IndexInv
  <2>5. ASSUME NEW t \in NameThreads, namesAnnounced'[t] # None
        PROVE  \E i \in DOMAIN namesIndex' :
                 namesIndex'[i].thread = t /\ namesIndex'[i].number >= namesAnnounced'[t].number
    <3>1. CASE namesAnnounced'[t] = namesAnnounced[t]
      BY <1>2, <2>5, <3>1, IndexAppended DEF IndexInv
    <3>2. CASE namesAnnounced'[t] = namesNaming /\ namesNaming.thread = t
      BY <1>2, <2>2, <3>2, IndexAppended
    <3>3. QED
      BY <1>2, <3>1, <3>2 DEF IndexInv, Names!TypeOK
  <2>6. QED
    BY <1>2, <2>1, <2>3, <2>4, <2>5 DEF IndexInv
<1>3. CASE Names!NameAppended
  BY <1>2, <1>3 DEF Names!NameAppended, Names!Announce, IndexInv
<1>4. ASSUME UNCHANGED <<namesIndex, namesAnnounced, namesRenames>>,
             namesNaming' \in {namesNaming, None}, namesLanding' = {}
      PROVE  IndexInv'
  BY <1>4 DEF IndexInv, Names!TypeOK
<1>5. CASE Names!NameFailed
  BY <1>4, <1>5 DEF Names!NameFailed, IndexInv
<1>6. CASE Names!Restart
  <2>1. namesNaming' = None /\ namesLanding' = {} /\ UNCHANGED <<namesAnnounced, namesRenames>>
    BY <1>6 DEF Names!Restart
  <2>2. CASE namesIndex' = namesIndex
    BY <2>1, <2>2, <1>4
  <2>3. CASE namesNaming # None /\ namesIndex' = Append(namesIndex, namesNaming)
    BY <2>1, <2>3, <1>2
  <2>4. QED
    BY <1>6, <2>2, <2>3 DEF Names!Restart
<1>7. CASE UNCHANGED namesVars
  BY <1>4, <1>7 DEF namesVars, IndexInv
<1>8. QED
  BY <1>1, <1>3, <1>5, <1>6, <1>7 DEF NamesNext

\* The last entry about a thread, of those that are about it.
LEMMA LastEntry ==
  ASSUME NEW S \in SUBSET DOMAIN namesIndex, namesIndex \in Seq(Names!Renames)
  PROVE  IF S = {} THEN Names!LastOf(S) = None
         ELSE /\ Max(S) \in S /\ \A i \in S : i <= Max(S)
              /\ Names!LastOf(S) = namesIndex[Max(S)]
<1>1. DOMAIN namesIndex \subseteq 0..Len(namesIndex) /\ Len(namesIndex) \in Nat
  OBVIOUS
<1>2. CASE S # {}
  <2>1. Max(S) \in S /\ \A i \in S : i <= Max(S)
    BY <1>1, <1>2, GreatestNumber
  <2>2. QED
    BY <1>2, <2>1 DEF Names!LastOf, Max, Names!Max
<1>3. QED
  BY <1>2 DEF Names!LastOf

LEMMA NewestShown == IndexInv => Names!NothingOlderShown
<1> SUFFICES ASSUME IndexInv, NEW t \in NameThreads, namesAnnounced[t] # None
             PROVE  /\ Names!NameById(t) # None
                    /\ Names!NameById(t).number >= namesAnnounced[t].number
  BY DEF Names!NothingOlderShown
<1> DEFINE S == {i \in DOMAIN namesIndex : namesIndex[i].thread = t}
<1>1. PICK i \in S : namesIndex[i].number >= namesAnnounced[t].number
  BY DEF IndexInv
<1>2. namesIndex \in Seq(Names!Renames) /\ S \in SUBSET DOMAIN namesIndex
  BY DEF IndexInv, Names!TypeOK
<1>3. Max(S) \in S /\ i <= Max(S) /\ Names!NameById(t) = namesIndex[Max(S)]
  BY <1>1, <1>2, LastEntry DEF Names!NameById
<1> HIDE DEF S
<1>4. namesIndex[Max(S)].number >= namesIndex[i].number
  <2>1. i \in DOMAIN namesIndex /\ Max(S) \in DOMAIN namesIndex
    BY <1>2, <1>3, <1>1
  <2>2. namesIndex[i] \in Names!Renames /\ namesIndex[Max(S)] \in Names!Renames
        /\ i \in Nat /\ Max(S) \in Nat
    BY <1>2, <2>1
  <2>3. i = Max(S) \/ namesIndex[i].number < namesIndex[Max(S)].number
    BY <1>3, <2>1, <2>2 DEF IndexInv
  <2>4. QED
    BY <2>2, <2>3 DEF Names!Renames
<1>5. namesIndex[Max(S)] \in Names!Renames /\ namesIndex[i] \in Names!Renames
      /\ namesAnnounced[t] \in Names!Renames
  BY <1>1, <1>2, <1>3 DEF IndexInv, Names!TypeOK
<1>6. QED
  BY <1>1, <1>3, <1>4, <1>5, InstanceConstants DEF Names!Renames, Names!SessionIndexConstants

\* No name is blank, so both readers take the last entry of a thread.
LEMMA ReadersTakeOne == namesIndex \in Seq(Names!Renames) => Names!ReadersAgree
<1> SUFFICES ASSUME namesIndex \in Seq(Names!Renames), NEW t \in NameThreads
             PROVE  (IF Names!ReadShows(t) = None THEN None ELSE Names!Trim(Names!ReadShows(t)))
                      = Names!ListShows(t)
  BY DEF Names!ReadersAgree
<1> DEFINE S == {i \in DOMAIN namesIndex : namesIndex[i].thread = t}
<1>1. \A i \in DOMAIN namesIndex : /\ namesIndex[i] \in Names!Renames
                                   /\ ~Names!Blank(namesIndex[i].name)
  <2>1. \A r \in Names!Renames : ~Names!Blank(r.name)
    BY InstanceConstants DEF Names!Renames, Names!Names, Names!Blank
  <2>2. QED
    BY <2>1
<1>2. Names!NameByIds(t) = Names!NameById(t)
  BY <1>1 DEF Names!NameByIds, Names!NameById
<1>3. S = {} => Names!NameById(t) = None
  BY DEF Names!NameById, Names!LastOf
<1>4. S # {} => Names!NameById(t) \in Names!Renames
  <2>1. S \in SUBSET DOMAIN namesIndex
    OBVIOUS
  <2>2. QED
    BY <1>1, <2>1, LastEntry DEF Names!NameById
<1>5. Names!NameById(t) # None => Names!NameById(t).name \in Names!Names
  BY <1>3, <1>4 DEF Names!Renames
<1>6. QED
  BY <1>2, <1>5, InstanceConstants DEF Names!ReadShows, Names!ListShows, Names!SessionIndexConstants
-----------------------------------------------------------------------------
(* Folds.  A fold is the value, at the whole domain, of a function of sets of *)
(* places that takes the greatest place last; there is such a function, and   *)
(* on the places up to k it goes one element further than up to k - 1.        *)

GreatestLast(it, base, step, n) ==
  \A S \in SUBSET (1..n) :
    it[S] = IF S = {} THEN base ELSE step[<<Max(S), it[S \ {Max(S)}]>>]

LEMMA FoldDefined ==
  ASSUME NEW n \in Nat, NEW V, NEW base \in V, NEW step \in [(1..n) \X V -> V]
  PROVE  \E it \in [SUBSET (1..n) -> V] : GreatestLast(it, base, step, n)
<1> DEFINE P(k) == k <= n => \E it \in [SUBSET (1..k) -> V] : GreatestLast(it, base, step, k)
           T == {k \in Nat : P(k)}
<1>1. P(0)
  <2> DEFINE it == [S \in SUBSET (1..0) |-> base]
  <2>1. 1..0 = {}
    OBVIOUS
  <2>2. it \in [SUBSET (1..0) -> V] /\ GreatestLast(it, base, step, 0)
    BY <2>1 DEF GreatestLast
  <2>3. QED
    BY <2>2
<1>2. ASSUME NEW k \in Nat, P(k) PROVE P(k + 1)
  <2> SUFFICES ASSUME k + 1 <= n
               PROVE  \E it \in [SUBSET (1..(k + 1)) -> V] : GreatestLast(it, base, step, k + 1)
    OBVIOUS
  <2>1. PICK f \in [SUBSET (1..k) -> V] : GreatestLast(f, base, step, k)
    <3>1. k <= n
      OBVIOUS
    <3>2. QED
      BY <1>2, <3>1, Zenon
  <2> DEFINE it == [S \in SUBSET (1..(k + 1)) |->
                      IF k + 1 \in S THEN step[<<k + 1, f[S \ {k + 1}]>>] ELSE f[S]]
  <2>2. \A S \in SUBSET (1..(k + 1)) : /\ S \ {k + 1} \in SUBSET (1..k)
                                       /\ k + 1 \notin S => S \in SUBSET (1..k)
    OBVIOUS
  <2>3. it \in [SUBSET (1..(k + 1)) -> V]
    <3>1. \A v \in V : step[<<k + 1, v>>] \in V
      <4>1. k + 1 \in 1..n
        OBVIOUS
      <4>2. QED
        BY <4>1
    <3>2. \A S \in SUBSET (1..(k + 1)) : it[S] \in V
      BY <2>1, <2>2, <3>1
    <3>3. QED
      BY <3>2
  <2>4. ASSUME NEW S \in SUBSET (1..(k + 1))
        PROVE  it[S] = IF S = {} THEN base ELSE step[<<Max(S), it[S \ {Max(S)}]>>]
    <3>1. CASE k + 1 \in S
      <4>1. Max(S) = k + 1
        <5>1. S \in SUBSET (0..(k + 1)) /\ S # {}
          BY <3>1
        <5>2. k + 1 \in Nat
          OBVIOUS
        <5>3. Max(S) \in S /\ \A y \in S : y <= Max(S)
          BY <5>1, <5>2, GreatestNumber
        <5>4. Max(S) \in 1..(k + 1) /\ k + 1 <= Max(S)
          BY <3>1, <5>3
        <5>5. QED
          BY <5>4
      <4>2. it[S \ {k + 1}] = f[S \ {k + 1}]
        BY <2>2
      <4>3. QED
        BY <3>1, <4>1, <4>2
    <3>2. CASE k + 1 \notin S /\ S # {}
      <4>1. S \in SUBSET (1..k) /\ S \in SUBSET (0..k)
        BY <2>2, <3>2
      <4>2. Max(S) \in S
        BY <3>2, <4>1, GreatestNumber
      <4>3. f[S] = step[<<Max(S), f[S \ {Max(S)}]>>]
        BY <2>1, <3>2, <4>1 DEF GreatestLast
      <4>4. /\ it[S] = f[S]
            /\ it[S \ {Max(S)}] = f[S \ {Max(S)}]
        BY <3>2, <4>1
      <4>5. QED
        BY <3>2, <4>3, <4>4
    <3>3. CASE S = {}
      BY <2>1, <3>3 DEF GreatestLast
    <3>4. QED
      BY <3>1, <3>2, <3>3
  <2> HIDE DEF it
  <2>5. GreatestLast(it, base, step, k + 1)
    BY <2>4 DEF GreatestLast
  <2>6. QED
    BY <2>3, <2>5
<1> HIDE DEF P
<1>3. Nat \subseteq T
  <2>1. 0 \in T /\ \A k \in Nat : k \in T => k + 1 \in T
    BY <1>1, <1>2
  <2> HIDE DEF T
  <2>2. QED
    BY <2>1, Induction
<1>4. P(n)
  <2>1. n \in T
    BY <1>3
  <2>2. QED
    BY <2>1, Zenon
<1>5. n <= n
  OBVIOUS
<1>6. QED
  BY <1>4, <1>5, Zenon DEF P

\* The places up to k, and what is left of them without the last.
LEMMA PlacesUpTo ==
  ASSUME NEW k \in Nat, k # 0
  PROVE  1..k # {} /\ Max(1..k) = k /\ (1..k) \ {k} = 1..(k - 1)
<1>1. 1..k \in SUBSET (0..k) /\ k \in 1..k
  OBVIOUS
<1>2. Max(1..k) \in 1..k /\ \A y \in 1..k : y <= Max(1..k)
  BY <1>1, GreatestNumber
<1>3. QED
  BY <1>1, <1>2

\* Stretches of sequences.
LEMMA Stretch ==
  ASSUME NEW B, NEW q \in Seq(B), NEW a \in Nat, NEW n \in Nat, a + n <= Len(q)
  PROVE  /\ SubSeq(q, a + 1, a + n) \in Seq(B) /\ Len(SubSeq(q, a + 1, a + n)) = n
         /\ \A i \in 1..n : SubSeq(q, a + 1, a + n)[i] = q[a + i]
<1> DEFINE f == a + 1
           e == a + n
<1>1. f \in 1..(Len(q) + 1) /\ e \in (f - 1)..Len(q) /\ e - f + 1 = n
      /\ \A i \in 1..n : f + i - 1 = a + i
  OBVIOUS
<1> HIDE DEF f, e
<1>2. /\ SubSeq(q, f, e) \in Seq(B)
      /\ Len(SubSeq(q, f, e)) = IF f <= e THEN e - f + 1 ELSE 0
      /\ \A i \in 1..(e - f + 1) : SubSeq(q, f, e)[i] = q[f + i - 1]
  BY <1>1, SubSeqProperties
<1>3. f \in Int /\ e \in Int /\ (IF f <= e THEN e - f + 1 ELSE 0) = n
  BY <1>1 DEF f, e
<1>4. QED
  BY <1>1, <1>2, <1>3 DEF f, e

LEMMA SameStretch ==
  ASSUME NEW B, NEW q \in Seq(B), NEW r \in Seq(B), NEW m \in Nat, m <= Len(q), m <= Len(r),
         \A i \in 1..m : q[i] = r[i], NEW a \in 1..m, NEW b \in 1..m
  PROVE  SubSeq(q, a, b) = SubSeq(r, a, b)
<1>1. /\ SubSeq(q, a, b) = [i \in 1..(b - a + 1) |-> q[i + a - 1]]
      /\ SubSeq(r, a, b) = [i \in 1..(b - a + 1) |-> r[i + a - 1]]
  OBVIOUS
<1>2. \A i \in 1..(b - a + 1) : i + a - 1 \in 1..m
  OBVIOUS
<1>3. QED
  BY <1>1, <1>2

-----------------------------------------------------------------------------
(* The search of the index from its end.                                     *)

Scans == [line : Seq(ScanBytes), found : Seq(ScanBytes) \cup {None}]
FileBytes == ScanBytes \cup {"newline"}

LEMMA TakeByteType ==
  ASSUME NEW b \in FileBytes, NEW scan \in Scans
  PROVE  Scan!TakeByte(b, scan) \in Scans
<1>1. ASSUME NEW line \in Seq(ScanBytes) PROVE Scan!TryLine(line) \in Seq(ScanBytes) \cup {None}
  BY DEF Scan!TryLine, Scan!Reverse
<1>2. CASE b = "newline" /\ scan.found = None
  <2>1. Scan!TakeByte(b, scan) = [line |-> <<>>, found |-> Scan!TryLine(scan.line)]
    BY <1>2 DEF Scan!TakeByte
  <2>2. QED
    BY <1>1, <2>1 DEF Scans
<1>3. CASE b # "newline" /\ scan.found = None
  <2>1. b \in ScanBytes
    BY <1>3 DEF FileBytes
  <2>2. Scan!TakeByte(b, scan) = [scan EXCEPT !.line = Append(@, b)]
    BY <1>3 DEF Scan!TakeByte
  <2>3. Append(scan.line, b) \in Seq(ScanBytes) /\ scan.found \in Seq(ScanBytes) \cup {None}
    BY <2>1 DEF Scans
  <2>4. scan = [line |-> scan.line, found |-> scan.found]
    BY DEF Scans
  <2>5. [scan EXCEPT !.line = Append(@, b)] = [line |-> Append(scan.line, b), found |-> scan.found]
    BY <2>4
  <2>6. QED
    BY <2>2, <2>3, <2>5 DEF Scans
<1>4. QED
  BY <1>2, <1>3 DEF Scan!TakeByte

\* What was found after each byte.
GoneThrough(acc, s, line) ==
  /\ acc \in [0..Len(s) -> Scans]
  /\ acc[0] = [line |-> line, found |-> None]
  /\ \A k \in 1..Len(s) : acc[k] = Scan!TakeByte(s[k], acc[k - 1])

\* A chunk is gone through byte by byte.
LEMMA ScanSteps ==
  ASSUME NEW from, NEW size, NEW line \in Seq(ScanBytes),
         NEW s \in Seq(FileBytes), s = Scan!Reverse(SubSeq(scanFile, from + 1, from + size))
  PROVE  \E acc : GoneThrough(acc, s, line) /\ Scan!ScanChunk(from, size, line) = acc[Len(s)]
<1> DEFINE n == Len(s)
           base == [line |-> line, found |-> None]
           Eq(it) == it = [S \in SUBSET (1..n) |->
                       IF S = {} THEN base
                       ELSE Scan!TakeByte(s[Scan!Max(S)], it[S \ {Scan!Max(S)}])]
           f == CHOOSE it : Eq(it)
<1>1. n \in Nat /\ DOMAIN s = 1..n
  OBVIOUS
<1>2. Scan!ScanChunk(from, size, line) = f[1..n]
  BY <1>1 DEF Scan!ScanChunk, Scan!FoldLeft, Scan!MapThenFoldSet
<1>b. base \in Scans
  BY DEF Scans
<1> HIDE DEF base
<1> DEFINE step == [p \in (1..n) \X Scans |-> Scan!TakeByte(s[p[1]], p[2])]
<1>3. \E it : Eq(it)
  <2>1. step \in [(1..n) \X Scans -> Scans]
    BY <1>1, TakeByteType
  <2> HIDE DEF step
  <2>2. PICK it \in [SUBSET (1..n) -> Scans] : GreatestLast(it, base, step, n)
    BY <1>1, <1>b, <2>1, FoldDefined
  <2>3. ASSUME NEW S \in SUBSET (1..n), S # {}
        PROVE  it[S] = Scan!TakeByte(s[Scan!Max(S)], it[S \ {Scan!Max(S)}])
    <3>1. Scan!Max(S) = Max(S) /\ Max(S) \in S
      <4>1. S \in SUBSET (0..n)
        BY <1>1
      <4>2. QED
        BY <1>1, <2>3, <4>1, GreatestNumber DEF Max, Scan!Max
    <3>2. <<Max(S), it[S \ {Max(S)}]>> \in (1..n) \X Scans
      BY <2>2, <3>1
    <3>3. step[<<Max(S), it[S \ {Max(S)}]>>] = Scan!TakeByte(s[Max(S)], it[S \ {Max(S)}])
      BY <3>2 DEF step
    <3>4. QED
      BY <2>2, <2>3, <3>1, <3>3 DEF GreatestLast
  <2>4. it[{}] = base
    BY <2>2 DEF GreatestLast
  <2>5. Eq(it)
    BY <2>2, <2>3, <2>4
  <2> HIDE DEF Eq
  <2>6. QED
    BY <2>5
<1>4. Eq(f)
  BY <1>3
<1> HIDE DEF f
<1> DEFINE P(k) == k <= n => f[1..k] \in Scans
           T == {k \in Nat : P(k)}
<1>5. f[{}] = base
  BY <1>4
<1>6. ASSUME NEW k \in 1..n PROVE f[1..k] = Scan!TakeByte(s[k], f[1..(k - 1)])
  <2>1. k \in Nat /\ k # 0 /\ 1..k \in SUBSET (1..n)
    OBVIOUS
  <2>2. 1..k # {} /\ Scan!Max(1..k) = k /\ (1..k) \ {k} = 1..(k - 1)
    BY <2>1, PlacesUpTo DEF Max, Scan!Max
  <2>3. QED
    BY <1>4, <2>1, <2>2
<1>7. Nat \subseteq T
  <2>1. 0 \in T
    BY <1>5, <1>b
  <2>2. ASSUME NEW k \in Nat, k \in T PROVE k + 1 \in T
    <3> SUFFICES ASSUME k + 1 <= n PROVE f[1..(k + 1)] \in Scans
      OBVIOUS
    <3>1. k + 1 \in 1..n /\ k + 1 - 1 = k
      BY <1>1
    <3>2. f[1..k] \in Scans
      BY <1>1, <2>2
    <3>3. s[k + 1] \in FileBytes
      BY <1>1, <3>1
    <3>4. QED
      BY <1>6, <3>1, <3>2, <3>3, TakeByteType
  <2> HIDE DEF T
  <2>3. QED
    BY <2>1, <2>2, Induction
<1> DEFINE acc == [k \in 0..n |-> f[1..k]]
<1>8. acc \in [0..n -> Scans]
  BY <1>1, <1>7
<1>9. acc[0] = base
  BY <1>1, <1>5
<1>10. \A k \in 1..n : acc[k] = Scan!TakeByte(s[k], acc[k - 1])
  BY <1>1, <1>6
<1>11. acc[n] = f[1..n]
  BY <1>1
<1> HIDE DEF acc
<1>12. QED
  BY <1>2, <1>8, <1>9, <1>10, <1>11 DEF base, GoneThrough


\* The line is what was read since the last newline, backwards, and no line that
\* begins behind it is an entry.
Gathered(line, at) ==
  /\ line \in Seq(ScanBytes) /\ at \in 0..scanOpened
  /\ at + Len(line) <= scanOpened
  /\ at + Len(line) = scanOpened \/ scanFile[at + Len(line) + 1] = "newline"
  /\ \A i \in 1..Len(line) : line[i] = scanFile[at + Len(line) + 1 - i]
  /\ \A l \in Scan!Entries : l[1] <= at + Len(line)

\* The newest entry.
Newest(entry) ==
  \E l \in Scan!Entries : /\ entry = SubSeq(scanFile, l[1], l[2])
                          /\ \A k \in Scan!Entries : k[1] <= l[1]

ScanInv ==
  /\ Scan!TypeOK
  /\ scanOpened <= Len(scanFile)
  /\ ~scanDone => scanFound = None /\ Gathered(scanLineRev, scanRemaining)
  /\ scanDone => IF Scan!Entries = {} THEN scanFound = None ELSE Newest(scanFound)

LEMMA ReverseLine ==
  ASSUME scanFile \in Seq(FileBytes), scanOpened \in Nat, scanOpened <= Len(scanFile),
         NEW line, NEW at, Gathered(line, at)
  PROVE  Scan!Reverse(line) = SubSeq(scanFile, at + 1, at + Len(line))
<1>1. /\ line \in Seq(ScanBytes) /\ at \in Nat /\ at + Len(line) <= Len(scanFile)
      /\ \A i \in 1..Len(line) : line[i] = scanFile[at + Len(line) + 1 - i]
  BY DEF Gathered
<1> DEFINE n == Len(line)
<1>2. n \in Nat
  BY <1>1
<1>3. Scan!Reverse(line) = [i \in 1..n |-> line[(n - i) + 1]]
  BY DEF Scan!Reverse
<1>4. ASSUME NEW i \in 1..n PROVE line[(n - i) + 1] = scanFile[at + i]
  <2>1. (n - i) + 1 \in 1..n /\ at + n + 1 - ((n - i) + 1) = at + i
    BY <1>1, <1>2
  <2>2. QED
    BY <1>1, <2>1
<1>5. SubSeq(scanFile, at + 1, at + n) = [i \in 1..n |-> scanFile[at + i]]
  <2>1. (at + n) - (at + 1) + 1 = n
    BY <1>1, <1>2
  <2>2. SubSeq(scanFile, at + 1, at + n)
          = [i \in 1..((at + n) - (at + 1) + 1) |-> scanFile[i + (at + 1) - 1]]
    BY <1>1, <1>2
  <2>3. \A i \in 1..n : i + (at + 1) - 1 = at + i
    BY <1>1, <1>2
  <2>4. QED
    BY <2>1, <2>2, <2>3
<1>6. QED
  BY <1>3, <1>4, <1>5

\* The line gathered so far, when its beginning is reached: an entry, then the
\* newest one, or no entry, and neither is a line that begins behind its beginning.
LEMMA LineTried ==
  ASSUME scanFile \in Seq(FileBytes), scanOpened \in Nat, scanOpened <= Len(scanFile),
         NEW line, NEW at, Gathered(line, at), at = 0 \/ scanFile[at] = "newline"
  PROVE  IF Scan!TryLine(line) = None THEN \A l \in Scan!Entries : l[1] <= at
         ELSE Newest(Scan!TryLine(line))
<1> DEFINE n == Len(line)
           whole == SubSeq(scanFile, at + 1, at + n)
<1>1. /\ line \in Seq(ScanBytes) /\ n \in Nat /\ at \in Nat /\ at + n <= scanOpened
      /\ at + n = scanOpened \/ scanFile[at + n + 1] = "newline"
      /\ \A i \in 1..n : line[i] = scanFile[at + n + 1 - i]
      /\ \A l \in Scan!Entries : l[1] <= at + n
  BY DEF Gathered
<1>2. Scan!Reverse(line) = whole
  BY ReverseLine
<1>3. whole \in Seq(ScanBytes) /\ Len(whole) = n
  <2>1. Scan!Reverse(line) \in Seq(ScanBytes) /\ Len(Scan!Reverse(line)) = n
    BY <1>1 DEF Scan!Reverse
  <2>2. QED
    BY <1>2, <2>1
<1>4. \A i \in (at + 1)..(at + n) : scanFile[i] \in ScanBytes
  <2> TAKE i \in (at + 1)..(at + n)
  <2>1. at + n + 1 - i \in 1..n /\ at + n + 1 - (at + n + 1 - i) = i
    BY <1>1
  <2>2. line[at + n + 1 - i] \in ScanBytes
    BY <1>1, <2>1
  <2>3. QED
    BY <1>1, <2>1, <2>2
<1>5. "newline" \notin ScanBytes /\ None \notin Seq(ScanBytes)
  BY InstanceConstants DEF Scan!IndexScanConstants
<1>6. ASSUME NEW l \in Scan!Entries, l[1] > at PROVE l = <<at + 1, at + n>>
  <2>1. /\ l \in (1..scanOpened) \X (1..scanOpened) /\ l[1] <= l[2]
        /\ l[1] = 1 \/ scanFile[l[1] - 1] = "newline"
        /\ l[2] = scanOpened \/ scanFile[l[2] + 1] = "newline"
        /\ \A i \in l[1]..l[2] : scanFile[i] # "newline"
    BY DEF Scan!Entries, Scan!Lines
  <2>2. l[1] <= at + n
    BY <1>1
  <2>3. l[1] = at + 1
    <3>1. SUFFICES ASSUME l[1] > at + 1 PROVE FALSE
      BY <1>1, <1>6, <2>1
    <3>2. l[1] - 1 \in (at + 1)..(at + n) /\ l[1] # 1
      BY <1>1, <2>1, <2>2, <3>1
    <3>3. QED
      BY <1>4, <1>5, <2>1, <3>2
  <2>4. ~(l[2] < at + n)
    <3>1. SUFFICES ASSUME l[2] < at + n PROVE FALSE
      OBVIOUS
    <3>2. l[2] + 1 \in (at + 1)..(at + n) /\ l[2] # scanOpened
      BY <1>1, <2>1, <2>3, <3>1
    <3>3. QED
      BY <1>4, <1>5, <2>1, <3>2
  <2>5. ~(l[2] > at + n)
    <3>1. SUFFICES ASSUME l[2] > at + n PROVE FALSE
      OBVIOUS
    <3>2. at + n + 1 \in l[1]..l[2] /\ at + n # scanOpened
      BY <1>1, <2>1, <2>3, <2>2, <3>1
    <3>3. QED
      BY <1>1, <2>1, <3>2
  <2>6. l[2] = at + n
    <3>1. l[2] \in Nat /\ at + n \in Nat
      BY <1>1, <2>1
    <3>2. QED
      BY <2>4, <2>5, <3>1
  <2>7. QED
    BY <2>1, <2>3, <2>6
<1>7. CASE Scan!Matches(whole)
  <2>1. Scan!TryLine(line) = whole /\ whole # None
    BY <1>2, <1>3, <1>5, <1>7 DEF Scan!TryLine
  <2>2. n = 2
    BY <1>3, <1>7 DEF Scan!Matches
  <2>3. <<at + 1, at + n>> \in Scan!Entries
    <3> DEFINE l == <<at + 1, at + n>>
    <3>1. l[1] = at + 1 /\ l[2] = at + n
      OBVIOUS
    <3>2. l \in (1..scanOpened) \X (1..scanOpened)
      BY <1>1, <2>2
    <3>3. l[1] <= l[2]
      BY <1>1, <2>2, <3>1
    <3>4. l[1] = 1 \/ scanFile[l[1] - 1] = "newline"
      BY <1>1, <3>1
    <3>5. l[2] = scanOpened \/ scanFile[l[2] + 1] = "newline"
      BY <1>1, <3>1
    <3>6. \A i \in l[1]..l[2] : scanFile[i] # "newline"
      BY <1>4, <1>5, <3>1
    <3>7. Scan!Matches(SubSeq(scanFile, l[1], l[2]))
      BY <1>7, <3>1
    <3> HIDE DEF l
    <3>8. l \in Scan!Entries
      BY <3>2, <3>3, <3>4, <3>5, <3>6, <3>7 DEF Scan!Entries, Scan!Lines
    <3>9. QED
      BY <3>8 DEF l
  <2>4. \A k \in Scan!Entries : k[1] <= at + 1
    <3> TAKE k \in Scan!Entries
    <3>1. k[1] \in Nat
      BY DEF Scan!Entries, Scan!Lines
    <3>2. QED
      BY <1>1, <1>6, <3>1
  <2>5. Newest(whole)
    BY <2>3, <2>4 DEF Newest
  <2>6. QED
    BY <2>1, <2>5
<1>8. CASE ~Scan!Matches(whole)
  <2>1. Scan!TryLine(line) = None
    BY <1>2, <1>8 DEF Scan!TryLine
  <2>2. ASSUME NEW l \in Scan!Entries, l[1] > at PROVE FALSE
    <3>1. l = <<at + 1, at + n>> /\ Scan!Matches(SubSeq(scanFile, l[1], l[2]))
      BY <1>6, <2>2 DEF Scan!Entries
    <3>2. QED
      BY <1>8, <3>1
  <2>3. \A l \in Scan!Entries : l[1] \in Nat
    BY DEF Scan!Entries, Scan!Lines
  <2>4. QED
    BY <1>1, <2>1, <2>2, <2>3
<1>9. QED
  BY <1>7, <1>8

\* One byte further.
LEMMA ByteTaken ==
  ASSUME scanFile \in Seq(FileBytes), scanOpened \in Nat, scanOpened <= Len(scanFile),
         NEW line, NEW at \in Nat, at # 0, Gathered(line, at),
         NEW scan, scan = Scan!TakeByte(scanFile[at], [line |-> line, found |-> None])
  PROVE  IF scan.found = None THEN Gathered(scan.line, at - 1) ELSE Newest(scan.found)
<1> DEFINE b == scanFile[at]
           n == Len(line)
<1>1. /\ line \in Seq(ScanBytes) /\ n \in Nat /\ at \in Nat /\ at + n <= scanOpened
      /\ at + n = scanOpened \/ scanFile[at + n + 1] = "newline"
      /\ \A i \in 1..n : line[i] = scanFile[at + n + 1 - i]
      /\ \A l \in Scan!Entries : l[1] <= at + n
  BY DEF Gathered
<1>2. b \in FileBytes
  BY <1>1
<1>3. CASE b = "newline"
  <2>1. scan = [line |-> <<>>, found |-> Scan!TryLine(line)]
    BY <1>3 DEF Scan!TakeByte
  <2>2. IF Scan!TryLine(line) = None THEN \A l \in Scan!Entries : l[1] <= at
        ELSE Newest(Scan!TryLine(line))
    BY <1>3, LineTried
  <2>3. ASSUME Scan!TryLine(line) = None PROVE Gathered(<<>>, at - 1)
    <3>1. \A l \in Scan!Entries : l[1] <= at /\ l[1] # at
      <4> TAKE l \in Scan!Entries
      <4>1. /\ l \in (1..scanOpened) \X (1..scanOpened) /\ l[1] <= l[2]
            /\ \A i \in l[1]..l[2] : scanFile[i] # "newline"
        BY DEF Scan!Entries, Scan!Lines
      <4>2. scanFile[l[1]] # "newline"
        BY <4>1
      <4>3. QED
        BY <1>3, <2>2, <2>3, <4>2
    <3>2. \A l \in Scan!Entries : l[1] \in Nat
      BY DEF Scan!Entries, Scan!Lines
    <3>3. \A l \in Scan!Entries : l[1] <= at - 1
      BY <3>1, <3>2
    <3>4. <<>> \in Seq(ScanBytes) /\ Len(<<>>) = 0
      OBVIOUS
    <3>5. at - 1 \in 0..scanOpened /\ at - 1 + 0 + 1 = at /\ at - 1 + 0 = at - 1
      BY <1>1
    <3>6. QED
      BY <1>3, <3>3, <3>4, <3>5 DEF Gathered
  <2>4. QED
    BY <2>1, <2>2, <2>3
<1>4. CASE b # "newline"
  <2>1. scan = [line |-> Append(line, b), found |-> None]
    BY <1>4 DEF Scan!TakeByte
  <2>2. b \in ScanBytes
    BY <1>2, <1>4 DEF FileBytes
  <2>3. /\ Append(line, b) \in Seq(ScanBytes) /\ Len(Append(line, b)) = n + 1
        /\ \A i \in 1..n : Append(line, b)[i] = line[i]
        /\ Append(line, b)[n + 1] = b
    BY <1>1, <2>2
  <2>4. /\ at - 1 \in 0..scanOpened /\ at - 1 + (n + 1) = at + n
    BY <1>1
  <2>5. \A i \in 1..(n + 1) : Append(line, b)[i] = scanFile[at + n + 1 - i]
    <3> TAKE i \in 1..(n + 1)
    <3>1. CASE i \in 1..n
      BY <1>1, <2>3, <3>1
    <3>2. CASE i = n + 1
      <4>1. at + n + 1 - i = at
        BY <1>1, <3>2
      <4>2. QED
        BY <2>3, <3>2, <4>1
    <3>3. i \in 1..n \/ i = n + 1
      <4>1. i \in Nat /\ 1 <= i /\ i <= n + 1
        BY <1>1
      <4>2. QED
        BY <1>1, <4>1
    <3>4. QED
      BY <3>1, <3>2, <3>3
  <2>6. Gathered(Append(line, b), at - 1)
    BY <1>1, <2>3, <2>4, <2>5 DEF Gathered
  <2>7. scan.found = None /\ scan.line = Append(line, b)
    BY <2>1
  <2>8. QED
    BY <2>6, <2>7
<1>5. QED
  BY <1>3, <1>4


\* A chunk further.
LEMMA ChunkTaken ==
  ASSUME ScanInv, ~scanDone, NEW size \in 1..scanRemaining,
         NEW scan, scan = Scan!ScanChunk(scanRemaining - size, size, scanLineRev)
  PROVE  /\ scan \in Scans
         /\ IF scan.found = None THEN Gathered(scan.line, scanRemaining - size)
            ELSE Newest(scan.found)
<1> DEFINE from == scanRemaining - size
           base == [line |-> scanLineRev, found |-> None]
<1>1. /\ scanFile \in Seq(FileBytes) /\ scanOpened \in Nat /\ scanOpened <= Len(scanFile)
      /\ scanRemaining \in 0..scanOpened /\ scanLineRev \in Seq(ScanBytes)
      /\ Gathered(scanLineRev, scanRemaining)
  BY DEF ScanInv, Scan!TypeOK, FileBytes
<1>2. from \in Nat /\ size \in Nat /\ from + size = scanRemaining /\ scanRemaining <= Len(scanFile)
  BY <1>1
<1>s. PICK s : s = Scan!Reverse(SubSeq(scanFile, from + 1, from + size))
  OBVIOUS
<1>3. s \in Seq(FileBytes) /\ Len(s) = size
      /\ \A k \in 1..size : s[k] = scanFile[scanRemaining + 1 - k]
  <2> DEFINE c == SubSeq(scanFile, from + 1, from + size)
  <2>1. from + size <= Len(scanFile)
    BY <1>1, <1>2
  <2>3. Len(c) = size /\ \A i \in 1..size : c[i] = scanFile[from + i]
    BY <1>1, <1>2, <2>1, Stretch
  <2> HIDE DEF c
  <2>4. s = [k \in 1..size |-> c[(size - k) + 1]]
    BY <1>s, <2>3 DEF Scan!Reverse, c
  <2>5. ASSUME NEW k \in 1..size PROVE s[k] = scanFile[scanRemaining + 1 - k]
                                       /\ scanFile[scanRemaining + 1 - k] \in FileBytes
    <3>1. (size - k) + 1 \in 1..size
          /\ from + ((size - k) + 1) = scanRemaining + 1 - k
          /\ scanRemaining + 1 - k \in 1..Len(scanFile)
      BY <1>1, <1>2
    <3>2. QED
      BY <1>1, <2>3, <2>4, <3>1
  <2>6. s \in [1..size -> FileBytes]
    <3>1. DOMAIN s = 1..size /\ \A k \in 1..size : s[k] \in FileBytes
      BY <2>4, <2>5
    <3>2. QED
      BY <2>4, <3>1
  <2>7. s \in Seq(FileBytes) /\ Len(s) = size
    BY <1>2, <2>6
  <2>8. QED
    BY <2>5, <2>7
<1>4. base \in Scans
  BY <1>1 DEF Scans
<1>5. PICK acc : /\ GoneThrough(acc, s, scanLineRev)
                 /\ Scan!ScanChunk(from, size, scanLineRev) = acc[Len(s)]
  <2> HIDE DEF from
  <2>1. s \in Seq(FileBytes) /\ scanLineRev \in Seq(ScanBytes)
    BY <1>1, <1>3
  <2>2. QED
    BY <1>s, <2>1, ScanSteps
<1>6. /\ acc \in [0..size -> Scans] /\ acc[0] = base
      /\ \A k \in 1..size : acc[k] = Scan!TakeByte(s[k], acc[k - 1])
      /\ scan = acc[size]
  BY <1>3, <1>5 DEF GoneThrough
<1> HIDE DEF base
<1> DEFINE P(k) == IF acc[k].found = None THEN Gathered(acc[k].line, scanRemaining - k)
                   ELSE Newest(acc[k].found)
           T == {k \in Nat : k <= size => P(k)}
<1>7. P(0)
  BY <1>1, <1>6 DEF base
<1>8. ASSUME NEW k \in Nat, k + 1 <= size, P(k) PROVE P(k + 1)
  <2>1. k + 1 \in 1..size /\ k \in 0..size /\ k + 1 - 1 = k
    BY <1>2, <1>8
  <2>2. acc[k + 1] = Scan!TakeByte(s[k + 1], acc[k]) /\ acc[k] \in Scans
    BY <1>6, <2>1
  <2>3. s[k + 1] = scanFile[scanRemaining - k] /\ scanRemaining - k \in Nat
        /\ scanRemaining - k # 0 /\ scanRemaining - k - 1 = scanRemaining - (k + 1)
    <3>1. scanRemaining + 1 - (k + 1) = scanRemaining - k
      BY <1>1
    <3>2. QED
      BY <1>1, <1>2, <1>3, <2>1, <3>1
  <2>4. CASE acc[k].found # None
    <3>1. acc[k + 1] = acc[k]
      BY <2>2, <2>4 DEF Scan!TakeByte
    <3>2. QED
      BY <1>8, <2>4, <3>1
  <2>5. CASE acc[k].found = None
    <3>1. acc[k] = [line |-> acc[k].line, found |-> None]
      BY <2>2, <2>5 DEF Scans
    <3>2. Gathered(acc[k].line, scanRemaining - k)
      BY <1>8, <2>5
    <3>3. acc[k + 1] = Scan!TakeByte(scanFile[scanRemaining - k], [line |-> acc[k].line,
          found |-> None])
      BY <2>2, <2>3, <3>1
    <3>4. IF acc[k + 1].found = None THEN Gathered(acc[k + 1].line, scanRemaining - k - 1)
          ELSE Newest(acc[k + 1].found)
      BY <1>1, <2>3, <3>2, <3>3, ByteTaken
    <3>5. QED
      BY <2>3, <3>4
  <2>6. QED
    BY <2>4, <2>5
<1> HIDE DEF P
<1>9. Nat \subseteq T
  <2>1. 0 \in T
    BY <1>7
  <2>2. ASSUME NEW k \in Nat, k \in T PROVE k + 1 \in T
    BY <1>2, <1>8, <2>2
  <2> HIDE DEF T
  <2>3. QED
    BY <2>1, <2>2, Induction
<1>10. P(size)
  BY <1>2, <1>9
<1>11. acc[size] \in Scans
  BY <1>2, <1>6
<1>12. QED
  BY <1>6, <1>10, <1>11 DEF P

ScanNext == Scan!ReadChunk \/ Scan!LastTry \/ \E name \in ScanBytes : Scan!Appended(name)

\* What is appended is behind the lines that were there.
LEMMA EntriesStay ==
  ASSUME scanFile \in Seq(FileBytes), scanOpened \in Nat, scanOpened <= Len(scanFile),
         NEW more \in Seq(FileBytes), scanFile' = scanFile \o more, scanOpened' = scanOpened
  PROVE  /\ scanFile' \in Seq(FileBytes) /\ scanOpened' <= Len(scanFile')
         /\ \A i \in 1..scanOpened : scanFile'[i] = scanFile[i]
         /\ Scan!Entries' = Scan!Entries
         /\ \A l \in Scan!Entries :
              SubSeq(scanFile', l[1], l[2]) = SubSeq(scanFile, l[1], l[2])
<1>1. /\ scanFile' \in Seq(FileBytes) /\ Len(scanFile') = Len(scanFile) + Len(more)
      /\ Len(scanFile) \in Nat /\ Len(more) \in Nat
      /\ \A i \in 1..Len(scanFile) : scanFile'[i] = scanFile[i]
  OBVIOUS
<1>2. \A i \in 1..scanOpened : scanFile'[i] = scanFile[i]
  BY <1>1
<1>3. ASSUME NEW l \in (1..scanOpened) \X (1..scanOpened)
      PROVE  SubSeq(scanFile', l[1], l[2]) = SubSeq(scanFile, l[1], l[2])
  <2>1. l[1] \in 1..scanOpened /\ l[2] \in 1..scanOpened
    OBVIOUS
  <2>2. scanOpened <= Len(scanFile')
    BY <1>1
  <2>3. QED
    BY <1>1, <1>2, <2>1, <2>2, SameStretch, SMTT(60)
<1>4. ASSUME NEW l \in (1..scanOpened) \X (1..scanOpened)
      PROVE  l \in Scan!Lines' <=> l \in Scan!Lines
  <2>1. l[1] \in 1..scanOpened /\ l[2] \in 1..scanOpened
    OBVIOUS
  <2>2. l[1] # 1 => l[1] - 1 \in 1..scanOpened
    BY <2>1
  <2>3. l[2] # scanOpened => l[2] + 1 \in 1..scanOpened
    BY <2>1
  <2>4. \A i \in l[1]..l[2] : i \in 1..scanOpened
    BY <2>1
  <2>5. QED
    BY <1>2, <2>2, <2>3, <2>4 DEF Scan!Lines
<1>5. Scan!Entries' = Scan!Entries
  BY <1>3, <1>4 DEF Scan!Entries, Scan!Lines
<1>6. \A l \in Scan!Entries : l \in (1..scanOpened) \X (1..scanOpened)
  BY DEF Scan!Entries, Scan!Lines
<1>7. ASSUME NEW l \in Scan!Entries
      PROVE  SubSeq(scanFile', l[1], l[2]) = SubSeq(scanFile, l[1], l[2])
  BY <1>3, <1>6
<1>8. scanOpened' <= Len(scanFile')
  BY <1>1
<1>9. QED
  BY <1>1, <1>2, <1>5, <1>7, <1>8


\* What is read of the file as it was opened stays as it was.
LEMMA FileRests ==
  ASSUME ScanInv, scanOpened' = scanOpened,
         \/ scanFile' = scanFile
         \/ \E more \in Seq(FileBytes) : scanFile' = scanFile \o more
  PROVE  /\ scanFile' \in Seq(FileBytes) /\ scanOpened' <= Len(scanFile')
         /\ Scan!Entries' = Scan!Entries
         /\ Gathered(scanLineRev', scanRemaining') => Gathered(scanLineRev, scanRemaining)'
         /\ Newest(scanFound') => Newest(scanFound)'
<1>1. scanFile \in Seq(FileBytes) /\ scanOpened \in Nat /\ scanOpened <= Len(scanFile)
  BY DEF ScanInv, Scan!TypeOK, FileBytes
<1>2. PICK more \in Seq(FileBytes) : scanFile' = scanFile \o more
  <2>1. <<>> \in Seq(FileBytes) /\ scanFile = scanFile \o <<>>
    BY <1>1
  <2>2. QED
    BY <2>1
<1>3. /\ scanFile' \in Seq(FileBytes) /\ scanOpened' <= Len(scanFile')
      /\ \A i \in 1..scanOpened : scanFile'[i] = scanFile[i]
      /\ Scan!Entries' = Scan!Entries
      /\ \A l \in Scan!Entries :
           SubSeq(scanFile', l[1], l[2]) = SubSeq(scanFile, l[1], l[2])
  BY <1>1, <1>2, EntriesStay
<1>4. Newest(scanFound') => Newest(scanFound)'
  BY <1>3 DEF Newest
<1>5. ASSUME Gathered(scanLineRev', scanRemaining') PROVE Gathered(scanLineRev, scanRemaining)'
  <2> DEFINE n == Len(scanLineRev')
             at == scanRemaining'
  <2>1. /\ scanLineRev' \in Seq(ScanBytes) /\ n \in Nat /\ at \in 0..scanOpened /\ at \in Nat
        /\ at + n <= scanOpened
        /\ at + n = scanOpened \/ scanFile[at + n + 1] = "newline"
        /\ \A i \in 1..n : scanLineRev'[i] = scanFile[at + n + 1 - i]
        /\ \A l \in Scan!Entries : l[1] <= at + n
    BY <1>1, <1>5 DEF Gathered
  <2>2. at + n # scanOpened => at + n + 1 \in 1..scanOpened
    <3> HIDE DEF n, at
    <3>1. QED
      BY <1>1, <2>1
  <2>3. \A i \in 1..n : at + n + 1 - i \in 1..scanOpened
    <3> HIDE DEF n, at
    <3>1. QED
      BY <1>1, <2>1
  <2> HIDE DEF n, at
  <2>4. /\ at + n = scanOpened' \/ scanFile'[at + n + 1] = "newline"
        /\ \A i \in 1..n : scanLineRev'[i] = scanFile'[at + n + 1 - i]
    BY <1>3, <2>1, <2>2, <2>3
  <2>5. QED
    BY <1>3, <2>1, <2>4 DEF Gathered, n, at
<1>6. QED
  BY <1>3, <1>4, <1>5

LEMMA InitScanInv == Scan!Init => ScanInv
<1> SUFFICES ASSUME Scan!Init PROVE ScanInv
  OBVIOUS
<1>1. PICK n \in 0..ScanLength : scanFile \in [1..n -> ScanBytes \cup {"newline"}]
  BY DEF Scan!Init, Scan!Contents
<1>2. ScanLength \in Nat /\ ScanAppends \in Nat
  BY InstanceConstants DEF Scan!IndexScanConstants
<1>3. scanFile \in Seq(ScanBytes \cup {"newline"}) /\ Len(scanFile) = n /\ n \in Nat
  BY <1>1, <1>2
<1>4. /\ scanOpened = n /\ scanRemaining = n /\ scanLineRev = <<>> /\ scanFound = None
      /\ scanDone = FALSE /\ scanAppends = 0 /\ scanChunk \in ScanChunks
  BY <1>3 DEF Scan!Init
<1>5. Gathered(<<>>, n)
  <2>1. \A l \in Scan!Entries : l[1] \in 1..n
    BY <1>4 DEF Scan!Entries, Scan!Lines
  <2>2. <<>> \in Seq(ScanBytes) /\ Len(<<>>) = 0
    OBVIOUS
  <2>3. \A l \in Scan!Entries : l[1] <= n + 0
    BY <1>3, <2>1
  <2>4. QED
    BY <1>3, <1>4, <2>2, <2>3 DEF Gathered
<1>6. Scan!TypeOK
  <2>1. scanOpened \in 0..ScanLength /\ scanRemaining \in 0..scanOpened
        /\ scanAppends \in 0..ScanAppends
    BY <1>1, <1>2, <1>3, <1>4
  <2>2. scanLineRev \in Seq(ScanBytes) /\ scanFound \in Seq(ScanBytes) \cup {None}
        /\ scanDone \in BOOLEAN
    <3>1. scanLineRev \in Seq(ScanBytes)
      BY <1>4
    <3>2. scanFound = None /\ scanDone = FALSE
      BY <1>4
    <3>3. QED
      BY <3>1, <3>2
  <2>3. scanFile \in Seq(ScanBytes \cup {"newline"}) /\ scanChunk \in ScanChunks
    BY <1>3, <1>4
  <2>4. QED
    BY <2>1, <2>2, <2>3 DEF Scan!TypeOK
<1>7. QED
  BY <1>3, <1>4, <1>5, <1>6 DEF ScanInv

LEMMA ScanStep == ScanInv /\ [ScanNext]_scanVars => ScanInv'
<1> SUFFICES ASSUME ScanInv, [ScanNext]_scanVars PROVE ScanInv'
  OBVIOUS
<1>1. /\ scanFile \in Seq(FileBytes) /\ scanOpened \in Nat /\ scanOpened <= Len(scanFile)
      /\ scanRemaining \in 0..scanOpened /\ scanRemaining \in Nat /\ scanLineRev \in Seq(ScanBytes)
      /\ scanChunk \in ScanChunks /\ ScanChunks \subseteq Nat \ {0}
      /\ None \notin Seq(ScanBytes)
  BY InstanceConstants DEF ScanInv, Scan!TypeOK, FileBytes, Scan!IndexScanConstants
<1>2. CASE Scan!ReadChunk
  <2> DEFINE size == IF scanRemaining < scanChunk THEN scanRemaining ELSE scanChunk
             scan == Scan!ScanChunk(scanRemaining - size, size, scanLineRev)
  <2>1. /\ ~scanDone /\ scanRemaining > 0 /\ scanRemaining' = scanRemaining - size
        /\ scanLineRev' = scan.line /\ scanFound' = scan.found
        /\ scanDone' = (scan.found # None)
        /\ UNCHANGED <<scanFile, scanChunk, scanOpened, scanAppends>>
    BY <1>2 DEF Scan!ReadChunk
  <2>2. size \in 1..scanRemaining
    BY <1>1, <2>1
  <2> HIDE DEF size
  <2>3. /\ scan \in Scans
        /\ IF scan.found = None THEN Gathered(scan.line, scanRemaining - size)
           ELSE Newest(scan.found)
    BY <2>1, <2>2, ChunkTaken
  <2> HIDE DEF scan
  <2>4. /\ scanOpened' <= Len(scanFile') /\ Scan!Entries' = Scan!Entries
        /\ Gathered(scanLineRev', scanRemaining') => Gathered(scanLineRev, scanRemaining)'
        /\ Newest(scanFound') => Newest(scanFound)'
    BY <2>1, FileRests
  <2>5. Scan!TypeOK'
    <3>1. scanRemaining - size \in 0..scanOpened
      BY <1>1, <2>2
    <3>2. scan.line \in Seq(ScanBytes) /\ scan.found \in Seq(ScanBytes) \cup {None}
      BY <2>3 DEF Scans
    <3>3. QED
      BY <2>1, <3>1, <3>2 DEF ScanInv, Scan!TypeOK
  <2>6. CASE scan.found = None
    BY <2>1, <2>3, <2>4, <2>5, <2>6 DEF ScanInv
  <2>7. CASE scan.found # None
    <3>1. Newest(scanFound)' /\ scanDone'
      BY <2>1, <2>3, <2>4, <2>7
    <3>2. Scan!Entries' # {}
      BY <3>1 DEF Newest
    <3>3. QED
      BY <2>4, <2>5, <3>1, <3>2 DEF ScanInv
  <2>8. QED
    BY <2>6, <2>7
<1>3. CASE Scan!LastTry
  <2>1. /\ ~scanDone /\ scanRemaining = 0 /\ scanFound' = Scan!TryLine(scanLineRev)
        /\ scanDone' = TRUE
        /\ UNCHANGED <<scanFile, scanChunk, scanOpened, scanAppends, scanRemaining, scanLineRev>>
    BY <1>3 DEF Scan!LastTry
  <2>2. /\ scanOpened' <= Len(scanFile') /\ Scan!Entries' = Scan!Entries
        /\ Newest(scanFound') => Newest(scanFound)'
    BY <2>1, FileRests
  <2>3. Gathered(scanLineRev, 0)
    BY <2>1 DEF ScanInv
  <2>4. IF Scan!TryLine(scanLineRev) = None THEN \A l \in Scan!Entries : l[1] <= 0
        ELSE Newest(Scan!TryLine(scanLineRev))
    BY <1>1, <2>3, LineTried
  <2>5. Scan!TypeOK'
    <3>1. Scan!TryLine(scanLineRev) \in Seq(ScanBytes) \cup {None}
      BY <1>1 DEF Scan!TryLine, Scan!Reverse
    <3>2. QED
      BY <2>1, <3>1 DEF ScanInv, Scan!TypeOK
  <2>6. CASE scanFound' = None
    <3>1. \A l \in Scan!Entries : l[1] \in Nat /\ l[1] # 0
      BY DEF Scan!Entries, Scan!Lines
    <3>2. Scan!Entries = {}
      BY <2>1, <2>4, <2>6, <3>1
    <3>3. QED
      BY <2>1, <2>2, <2>5, <2>6, <3>2 DEF ScanInv
  <2>7. CASE scanFound' # None
    <3>1. Newest(scanFound)'
      BY <2>1, <2>2, <2>4, <2>7
    <3>2. Scan!Entries' # {}
      BY <3>1 DEF Newest
    <3>3. QED
      BY <2>1, <2>2, <2>5, <3>1, <3>2 DEF ScanInv
  <2>8. QED
    BY <2>6, <2>7
<1>4. ASSUME \/ scanFile' = scanFile
             \/ \E more \in Seq(FileBytes) : scanFile' = scanFile \o more,
             UNCHANGED <<scanChunk, scanOpened, scanRemaining, scanLineRev, scanFound, scanDone>>,
             scanAppends' \in 0..ScanAppends
      PROVE  ScanInv'
  <2>1. /\ scanFile' \in Seq(FileBytes) /\ scanOpened' <= Len(scanFile')
        /\ Scan!Entries' = Scan!Entries
        /\ Gathered(scanLineRev', scanRemaining') => Gathered(scanLineRev, scanRemaining)'
        /\ Newest(scanFound') => Newest(scanFound)'
    BY <1>4, FileRests
  <2>2. Scan!TypeOK'
    BY <1>4, <2>1 DEF ScanInv, Scan!TypeOK, FileBytes
  <2>3. QED
    BY <1>4, <2>1, <2>2 DEF ScanInv
<1>5. ASSUME NEW name \in ScanBytes, Scan!Appended(name) PROVE ScanInv'
  <2>1. <<ScanTarget, name, "newline">> \in Seq(FileBytes)
    <3>1. ScanTarget \in FileBytes /\ name \in FileBytes /\ "newline" \in FileBytes
      BY InstanceConstants DEF Scan!IndexScanConstants, FileBytes
    <3>2. QED
      BY <3>1
  <2>2. scanAppends' \in 0..ScanAppends
    BY <1>5, InstanceConstants DEF Scan!Appended, ScanInv, Scan!TypeOK, Scan!IndexScanConstants
  <2>3. QED
    BY <1>4, <1>5, <2>1, <2>2 DEF Scan!Appended
<1>6. CASE UNCHANGED scanVars
  <2>1. scanAppends \in 0..ScanAppends
    BY DEF ScanInv, Scan!TypeOK
  <2>2. QED
    BY <1>4, <1>6, <2>1 DEF scanVars
<1>7. QED
  BY <1>2, <1>3, <1>5, <1>6 DEF ScanNext

LEMMA NewestFound == ScanInv => Scan!FindsNewest
<1> SUFFICES ASSUME ScanInv, scanDone, Scan!Entries # {}
             PROVE  LET last == CHOOSE l \in Scan!Entries : \A k \in Scan!Entries : k[1] <= l[1]
                    IN  scanFound = SubSeq(scanFile, last[1], last[2])
  BY DEF Scan!FindsNewest, ScanInv
<1> DEFINE last == CHOOSE l \in Scan!Entries : \A k \in Scan!Entries : k[1] <= l[1]
<1>1. PICK l \in Scan!Entries : /\ scanFound = SubSeq(scanFile, l[1], l[2])
                                /\ \A k \in Scan!Entries : k[1] <= l[1]
  BY DEF ScanInv, Newest
<1>2. last \in Scan!Entries /\ \A k \in Scan!Entries : k[1] <= last[1]
  BY <1>1
<1> HIDE DEF last
<1>3. \A k \in Scan!Entries : /\ k \in (1..scanOpened) \X (1..scanOpened) /\ k[1] <= k[2]
                              /\ k[1] \in Nat /\ k[2] \in Nat
                              /\ k[2] = scanOpened \/ scanFile[k[2] + 1] = "newline"
                              /\ \A i \in k[1]..k[2] : scanFile[i] # "newline"
  BY DEF Scan!Entries, Scan!Lines
<1>4. l[1] = last[1]
  BY <1>1, <1>2, <1>3
<1>5. ASSUME NEW j \in Scan!Entries, NEW k \in Scan!Entries, j[1] = k[1] PROVE ~(j[2] < k[2])
  <2> SUFFICES ASSUME j[2] < k[2] PROVE FALSE
    OBVIOUS
  <2>1. j[2] + 1 \in k[1]..k[2] /\ j[2] # scanOpened
    BY <1>3, <1>5
  <2>2. QED
    BY <1>3, <2>1
<1>6. l[2] = last[2]
  BY <1>1, <1>2, <1>3, <1>4, <1>5
<1>7. QED
  BY <1>1, <1>4, <1>6 DEF last

-----------------------------------------------------------------------------
(* The titles of the agent.                                                  *)

TitlesNext ==
  \/ \E t \in NameThreads, n \in Titles!Names : Titles!AgentTitle(t, n)
  \/ \E r \in namesLanding : Titles!TitleAppended(r)
  \/ \E t \in NameThreads, n \in Titles!Names : Titles!NameSet(t, n)
  \/ Titles!NameAppended

LEMMA TitlesStep == Titles!TypeOK /\ [TitlesNext]_namesVars => Titles!TypeOK'
<1> SUFFICES ASSUME Titles!TypeOK, [TitlesNext]_namesVars PROVE Titles!TypeOK'
  OBVIOUS
<1> USE InstanceConstants DEF Titles!SessionIndexConstants
<1>1. ASSUME NEW t \in NameThreads, NEW n \in Titles!Names, namesRenames < MaxRenames
      PROVE  /\ Titles!Rename(t, n) \in Titles!Renames
             /\ Titles!Rename(t, n).thread = t
             /\ namesRenames + 1 \in 0..MaxRenames
  BY <1>1 DEF Titles!Rename, Titles!Renames, Titles!TypeOK
<1>2. ASSUME NEW r \in Titles!Renames
      PROVE  /\ r.thread \in NameThreads
             /\ [namesAnnounced EXCEPT ![r.thread] = r]
                  \in [NameThreads -> Titles!Renames \cup {None}]
             /\ Append(namesIndex, r) \in Seq(Titles!Renames)
  <2>1. r.thread \in NameThreads
    BY DEF Titles!Renames
  <2>2. QED
    BY <2>1 DEF Titles!TypeOK
<1>3. ASSUME NEW t \in NameThreads, NEW n \in Titles!Names, Titles!AgentTitle(t, n)
      PROVE  Titles!TypeOK'
  BY <1>1, <1>2, <1>3 DEF Titles!AgentTitle, Titles!Announce, Titles!TypeOK
<1>4. ASSUME NEW t \in NameThreads, NEW n \in Titles!Names, Titles!NameSet(t, n)
      PROVE  Titles!TypeOK'
  BY <1>1, <1>4 DEF Titles!NameSet, Titles!TypeOK
<1>5. ASSUME NEW r \in namesLanding, Titles!TitleAppended(r) PROVE Titles!TypeOK'
  BY <1>2, <1>5 DEF Titles!TitleAppended, Titles!TypeOK
<1>6. CASE Titles!NameAppended
  BY <1>2, <1>6 DEF Titles!NameAppended, Titles!Announce, Titles!TypeOK
<1>7. CASE UNCHANGED namesVars
  BY <1>7 DEF namesVars, Titles!TypeOK
<1>8. QED
  BY <1>3, <1>4, <1>5, <1>6, <1>7 DEF TitlesNext

LEMMA InitTitles == Titles!Init => Titles!TypeOK
  BY InstanceConstants DEF Titles!Init, Titles!TypeOK, Titles!SessionIndexConstants

-----------------------------------------------------------------------------
\* What the run keeps of names and of the search of their file.
NamesInv ==
  /\ part = "names" => IndexInv
  /\ part = "titles" => Titles!TypeOK
  /\ part = "scan" => ScanInv

\* What the run checks of names, for all names, threads and file contents and
\* however the search cuts the file: both readers find the same name, nothing the
\* client was told is hidden by an older one, and the search finds the newest entry.
THEOREM NamesAlwaysRead == MCSpec => []NamesRead
<1>1. MCInit => NamesInv
  <2>1. Names!Init => Titles!Init
    BY DEF Names!Init, Titles!Init
  <2>2. QED
    BY <2>1, InitIndexInv, InitTitles, InitScanInv DEF MCInit, NamesInv
<1>2. NamesInv /\ [MCNext]_allVars => NamesInv'
  <2> SUFFICES ASSUME NamesInv, [MCNext]_allVars PROVE NamesInv'
    OBVIOUS
  <2>1. CASE part' = part /\ UNCHANGED namesVars /\ UNCHANGED scanVars
    <3>1. part = "names" => IndexInv'
      BY <2>1, IndexStep DEF NamesInv
    <3>2. part = "titles" => Titles!TypeOK'
      BY <2>1, TitlesStep DEF NamesInv
    <3>3. part = "scan" => ScanInv'
      BY <2>1, ScanStep DEF NamesInv
    <3>4. QED
      BY <2>1, <3>1, <3>2, <3>3 DEF NamesInv
  <2>2. CASE part = "names" /\ part' = part /\ NamesNext
    BY <2>2, IndexStep DEF NamesInv
  <2>3. CASE part = "titles" /\ part' = part /\ TitlesNext
    BY <2>3, TitlesStep DEF NamesInv
  <2>4. CASE part = "scan" /\ part' = part /\ ScanNext
    BY <2>4, ScanStep DEF NamesInv
  <2>5. CASE UNCHANGED allVars
    BY <2>1, <2>5 DEF allVars
  <2>6. CASE InTasks \/ InUnforked \/ InRestarts \/ InHistory \/ InLists \/ InHeads
    BY <2>1, <2>6 DEF InTasks, InUnforked, InRestarts, InHistory, InLists, InHeads
  <2>7. CASE \/ InNames /\ \E t \in NameThreads, n \in Names!Names : Names!NameSet(t, n)
             \/ InNames /\ Names!NameAppended
             \/ InNames /\ Names!NameFailed
             \/ InNames /\ Names!Restart
    BY <2>2, <2>7 DEF InNames, NamesNext
  <2>8. CASE \/ InTitles /\ \E t \in NameThreads, n \in Titles!Names : Titles!AgentTitle(t, n)
             \/ InTitles /\ \E r \in namesLanding : Titles!TitleAppended(r)
             \/ InTitles /\ \E t \in NameThreads, n \in Titles!Names : Titles!NameSet(t, n)
             \/ InTitles /\ Titles!NameAppended
    BY <2>3, <2>8 DEF InTitles, TitlesNext
  <2>9. CASE \/ InScan /\ Scan!ReadChunk
             \/ InScan /\ Scan!LastTry
             \/ InScan /\ \E name \in ScanBytes : Scan!Appended(name)
    BY <2>4, <2>9 DEF InScan, ScanNext
  <2>10. QED
    BY <2>5, <2>6, <2>7, <2>8, <2>9, Zenon DEF MCNext
<1>3. NamesInv => NamesRead
  <2>1. IndexInv => Names!TypeOK /\ Names!NothingOlderShown /\ Names!ReadersAgree
    BY NewestShown, ReadersTakeOne DEF IndexInv, Names!TypeOK
  <2>2. Titles!TypeOK => Names!ReadersAgree
    <3>1. Titles!Renames = Names!Renames
      BY DEF Titles!Renames, Names!Renames, Titles!Names, Names!Names
    <3>2. QED
      BY <3>1, ReadersTakeOne DEF Titles!TypeOK
  <2>3. ScanInv => Scan!TypeOK /\ Scan!FindsNewest
    BY NewestFound DEF ScanInv
  <2>4. QED
    BY <2>1, <2>2, <2>3 DEF NamesInv, NamesRead
<1>4. QED
  BY <1>1, <1>2, <1>3, PTL DEF MCSpec

-----------------------------------------------------------------------------
(* The rollout files of threads.                                             *)

\* A file in sessions/ lies under the date of its name, and where the process
\* remembers it; a file that was never written holds nothing and has no writer,
\* and where no writer is open nothing waits to be written.
FilesKnown ==
  \A t \in HistThreads :
    /\ histFiles[t] = None => /\ histItems[t] = <<>>
                              /\ t \notin histOpenFiles /\ histThreadFiles[t] = None
    /\ t \notin histOpenFiles => histUnwritten[t] = <<>>
    /\ History!HasFile(t, "sessions") => histFiles[t].day = histFiles[t].name
    /\ histThreadFiles[t] # None =>
         histThreadFiles[t] = History!InSessions(histFiles[t].name, histFiles[t].name)

\* The handler that waits is about threads, a fork about two of them.
HandlerKnown ==
  /\ histHandler.op # "none" => histHandler.thread \in HistThreads
  /\ histHandler.op = "fork" => /\ histHandler.source \in HistThreads
                                /\ histFiles[histHandler.source] # None
  /\ histHandler.op = "start" => histFiles[histHandler.thread] = None
  /\ histHandler.op = "rollback" => histRollbacks # <<>>

\* Markers in the order of their requests, of which there have been k.
InOrder(markers, k) ==
  /\ \A i \in DOMAIN markers : markers[i] <= k
  /\ \A i, j \in DOMAIN markers : i < j => markers[i] < markers[j]

\* Markers are in order, and none is of a request still to come.
MarkersAsked ==
  /\ Len(histRollbacks) <= MaxRollbacks
  /\ \A t \in HistThreads : InOrder(History!Given(t), Len(histRollbacks))

HistoryInv ==
  History!TypeOK /\ FilesKnown /\ HandlerKnown /\ MarkersAsked /\ History!ForkIsCopy

HistoryNext ==
  \/ \E t \in HistThreads : History!ThreadStart(t)
  \/ \E t \in HistThreads : History!ThreadResume(t)
  \/ \E t \in HistThreads : History!ThreadRollback(t)
  \/ \E t \in HistThreads : History!ThreadArchive(t)
  \/ \E t \in HistThreads : History!ThreadUnarchive(t)
  \/ \E s, t \in HistThreads : History!ThreadFork(s, t)
  \/ History!StartAnswered \/ History!ForkAnswered \/ History!RollbackAnswered
  \/ History!AgentRefuses \/ History!Midnight \/ History!Restart

\* The beginning of a sequence that goes on from s has s as its prefix, and with
\* the rest is the whole of it.
LEMMA CutBehind ==
  ASSUME NEW S, NEW s \in Seq(S), NEW rest \in Seq(S), NEW n \in Len(s)..Len(s \o rest)
  PROVE  LET all == s \o rest
         IN  /\ SubSeq(all, 1, n) \in Seq(S) /\ SubSeq(all, n + 1, Len(all)) \in Seq(S)
             /\ SubSeq(all, 1, n) \o SubSeq(all, n + 1, Len(all)) = all
             /\ History!IsPrefix(s, SubSeq(all, 1, n))
<1> DEFINE all == s \o rest
           cut == SubSeq(all, 1, n)
<1>1. /\ all \in Seq(S) /\ Len(all) = Len(s) + Len(rest)
      /\ Len(s) \in Nat /\ Len(rest) \in Nat /\ Len(all) \in Nat /\ n \in Nat
      /\ n \in 0..Len(all) /\ Len(s) <= n /\ n <= Len(all)
  BY ConcatProperties
<1> HIDE DEF all
<1>2. \A i \in 1..Len(all) : all[i] \in S
  BY <1>1
<1>3. cut \in Seq(S) /\ Len(cut) = n
  BY <1>1, <1>2, SubSeqProperties
<1>4. SubSeq(all, n + 1, Len(all)) \in Seq(S)
  BY <1>1, <1>2, SubSeqProperties
<1>5. cut \o SubSeq(all, n + 1, Len(all)) = SubSeq(all, 1, Len(all))
  <2>1. 1 \in 1..(Len(all) + 1) /\ n \in (1 - 1)..Len(all) /\ Len(all) \in n..Len(all)
    BY <1>1
  <2>2. QED
    BY <1>1, <2>1, ConcatAdjacentSubSeq
<1>6. SubSeq(all, 1, Len(all)) = all
  BY <1>1, SubSeqFull
<1>7. SubSeq(s, 1, Len(s)) = SubSeq(cut, 1, Len(s))
  <2>1. CASE Len(s) = 0
    BY <2>1, SubSeqEmpty
  <2>2. CASE Len(s) # 0
    <3>1. /\ 1 \in 1..Len(all) /\ n \in 1..Len(all) /\ 1 \in 1..(n - 1 + 1)
          /\ Len(s) \in 1..(n - 1 + 1) /\ 1 \in 1..Len(s) /\ Len(s) \in 1..Len(s)
      BY <1>1, <2>2
    <3>2. SubSeq(cut, 1, Len(s)) = SubSeq(all, 1 + 1 - 1, 1 + Len(s) - 1)
      BY <1>1, <3>1, SubSeqOfSubSeq
    <3>3. SubSeq(all, 1, Len(s)) = SubSeq(s, 1, Len(s))
      BY <3>1, SubSeqOfConcat1 DEF all
    <3>4. 1 + 1 - 1 = 1 /\ 1 + Len(s) - 1 = Len(s)
      BY <1>1
    <3>5. QED
      BY <3>2, <3>3, <3>4
  <2>3. QED
    BY <2>1, <2>2
<1>8. History!IsPrefix(s, cut)
  BY <1>1, <1>3, <1>7 DEF History!IsPrefix
<1>9. QED
  BY <1>3, <1>4, <1>5, <1>6, <1>8 DEF all

\* The beginning of markers in order is in order, as are markers and a later one.
LEMMA CutInOrder ==
  ASSUME NEW s \in Seq(History!Markers), NEW k \in Nat, InOrder(s, k), NEW n \in 0..Len(s),
         NEW later \in Nat, k <= later
  PROVE  InOrder(SubSeq(s, 1, n), later)
<1>1. /\ \A i \in 1..Len(s) : s[i] \in History!Markers /\ s[i] \in Nat
      /\ DOMAIN s = 1..Len(s) /\ Len(s) \in Nat
  <2>1. \A i \in 1..Len(s) : s[i] \in History!Markers
    BY ElementOfSeq
  <2>2. \A m \in History!Markers : m \in Nat
    BY DEF History!Markers
  <2>3. DOMAIN s = 1..Len(s) /\ Len(s) \in Nat
    BY LenProperties
  <2>4. QED
    BY <2>1, <2>2, <2>3
<1>2. /\ Len(SubSeq(s, 1, n)) = n /\ SubSeq(s, 1, n) \in Seq(History!Markers)
      /\ \A i \in 1..n : SubSeq(s, 1, n)[i] = s[i]
  <2>1. \A i \in 1..n : s[i] \in History!Markers
    BY <1>1
  <2>2. /\ SubSeq(s, 1, n) \in Seq(History!Markers)
        /\ Len(SubSeq(s, 1, n)) = IF 1 <= n THEN n - 1 + 1 ELSE 0
        /\ \A i \in 1..(n - 1 + 1) : SubSeq(s, 1, n)[i] = s[1 + i - 1]
    <3>1. 1 \in Int /\ n \in Int
      BY <1>1
    <3> HIDE DEF History!Markers
    <3>2. QED
      BY <2>1, <3>1, SubSeqProperties
  <2>3. n \in Nat
    BY <1>1
  <2> HIDE DEF History!Markers
  <2>4. QED
    BY <2>2, <2>3
<1>3. DOMAIN SubSeq(s, 1, n) = 1..n
  BY <1>2
<1>4. \A i \in 1..n : i \in 1..Len(s)
  BY <1>1
<1>5. ASSUME NEW i \in 1..n PROVE s[i] <= later
  <2>1. s[i] <= k /\ s[i] \in Nat
    BY <1>1, <1>4 DEF InOrder
  <2>2. QED
    BY <2>1
<1>6. ASSUME NEW i \in 1..n, NEW j \in 1..n, i < j PROVE s[i] < s[j]
  BY <1>1, <1>4, <1>6 DEF InOrder
<1> DEFINE cut == SubSeq(s, 1, n)
<1>7. DOMAIN cut = 1..n /\ \A i \in 1..n : cut[i] = s[i]
  BY <1>2, <1>3
<1> HIDE DEF cut
<1>8. InOrder(cut, later)
  BY <1>5, <1>6, <1>7 DEF InOrder
<1>9. QED
  BY <1>8 DEF cut

LEMMA FrontInOrder ==
  ASSUME NEW s \in Seq(History!Markers), NEW rest \in Seq(History!Markers), NEW k,
         InOrder(s \o rest, k)
  PROVE  InOrder(s, k)
<1> DEFINE all == s \o rest
<1>1. /\ Len(s) \in Nat /\ DOMAIN s = 1..Len(s) /\ Len(rest) \in Nat
  BY LenProperties
<1>2. /\ all \in Seq(History!Markers) /\ Len(all) = Len(s) + Len(rest)
      /\ \A i \in 1..(Len(s) + Len(rest)) :
           all[i] = IF i <= Len(s) THEN s[i] ELSE rest[i - Len(s)]
  BY ConcatProperties
<1>3. InOrder(all, k)
  OBVIOUS
<1> HIDE DEF all
<1>4. DOMAIN all = 1..Len(all)
  BY <1>2, LenProperties
<1>5. \A i \in 1..Len(s) : i \in DOMAIN all /\ all[i] = s[i]
  BY <1>1, <1>2, <1>4
<1>6. QED
  BY <1>1, <1>3, <1>5 DEF InOrder

LEMMA NextInOrder ==
  ASSUME NEW s \in Seq(History!Markers), NEW k \in Nat, InOrder(s, k)
  PROVE  InOrder(s \o <<k + 1>>, k + 1)
<1>1. /\ \A i \in 1..Len(s) : s[i] \in Nat /\ s[i] <= k
      /\ \A i, j \in 1..Len(s) : i < j => s[i] < s[j]
      /\ Len(s) \in Nat
  <2>1. \A i \in 1..Len(s) : s[i] \in History!Markers
    BY ElementOfSeq
  <2>2. \A m \in History!Markers : m \in Nat
    BY DEF History!Markers
  <2>3. DOMAIN s = 1..Len(s) /\ Len(s) \in Nat
    BY LenProperties
  <2>4. QED
    BY <2>1, <2>2, <2>3 DEF InOrder
<1> DEFINE longer == s \o <<k + 1>>
<1>2. /\ DOMAIN longer = 1..(Len(s) + 1)
      /\ \A i \in 1..Len(s) : longer[i] = s[i]
      /\ longer[Len(s) + 1] = k + 1
  OBVIOUS
<1> HIDE DEF longer
<1>3. \A i \in 1..(Len(s) + 1) : i \in 1..Len(s) \/ i = Len(s) + 1
  BY <1>1
<1>4. ASSUME NEW i \in 1..(Len(s) + 1) PROVE longer[i] <= k + 1
  <2>1. CASE i \in 1..Len(s)
    BY <1>1, <1>2, <2>1
  <2>2. CASE i = Len(s) + 1
    BY <1>2, <2>2
  <2>3. QED
    BY <1>3, <2>1, <2>2
<1>5. ASSUME NEW i \in 1..(Len(s) + 1), NEW j \in 1..(Len(s) + 1), i < j
      PROVE  longer[i] < longer[j]
  <2>1. i \in 1..Len(s)
    BY <1>1, <1>5
  <2>2. CASE j \in 1..Len(s)
    BY <1>1, <1>2, <1>5, <2>1, <2>2
  <2>3. CASE j = Len(s) + 1
    <3>1. longer[i] = s[i] /\ s[i] \in Nat /\ s[i] <= k /\ longer[j] = k + 1
      BY <1>1, <1>2, <2>1, <2>3
    <3>2. QED
      BY <3>1
  <2>4. QED
    BY <1>3, <2>2, <2>3
<1>6. InOrder(longer, k + 1)
  BY <1>2, <1>4, <1>5 DEF InOrder
<1>7. QED
  BY <1>6 DEF longer

LEMMA InitHistoryInv == History!Init => HistoryInv
<1> SUFFICES ASSUME History!Init PROVE HistoryInv
  OBVIOUS
<1> USE InstanceConstants DEF History!RolloutHistoryConstants
<1>1. histHandler = History!NoHandler /\ histHandler.op = "none" /\ histHandler \in History!Handlers
  BY DEF History!Init, History!NoHandler, History!Handlers
<1>2. /\ histFiles = [t \in HistThreads |-> None] /\ histItems = [t \in HistThreads |-> <<>>]
      /\ histHeaders = {} /\ histUnwritten = [t \in HistThreads |-> <<>>]
      /\ histRollbacks = <<>> /\ histThreadFiles = [t \in HistThreads |-> None]
      /\ histToday = 0 /\ histOpenFiles = {} /\ histSession = [t \in HistThreads |-> 0]
      /\ histSessions = 0 /\ histRestarts = 0
  BY DEF History!Init
<1>3. History!TypeOK
  BY <1>1, <1>2 DEF History!TypeOK
<1>4. \A t \in HistThreads : History!Given(t) = <<>>
  BY <1>2 DEF History!Given
<1>5. FilesKnown /\ HandlerKnown
  BY <1>1, <1>2 DEF FilesKnown, HandlerKnown, History!HasFile
<1>6. MarkersAsked
  BY <1>2, <1>4 DEF MarkersAsked, InOrder
<1>7. History!ForkIsCopy
  BY <1>1 DEF History!ForkIsCopy
<1>8. QED
  BY <1>3, <1>5, <1>6, <1>7 DEF HistoryInv

\* What the recorder was given, and how many requests there have been.
LEMMA GivenType ==
  ASSUME HistoryInv
  PROVE  /\ Len(histRollbacks) \in Nat
         /\ \A t \in HistThreads : /\ histItems[t] \in Seq(History!Markers)
                                   /\ histUnwritten[t] \in Seq(History!Markers)
                                   /\ History!Given(t) \in Seq(History!Markers)
<1>1. /\ histRollbacks \in Seq([thread : HistThreads, session : Nat,
                                answer : {"none", "ok", "error"}])
      /\ histItems \in [HistThreads -> Seq(History!Markers)]
      /\ histUnwritten \in [HistThreads -> Seq(History!Markers)]
  BY DEF HistoryInv, History!TypeOK
<1>2. Len(histRollbacks) \in Nat
  BY <1>1
<1>3. QED
  BY <1>1, <1>2, ConcatProperties DEF History!Given

\* Lines are recorded: they follow what was given, in the file and the buffer.
LEMMA LinesRecorded ==
  ASSUME HistoryInv, NEW t \in HistThreads, NEW more \in Seq(History!Markers),
         History!RecordItems(t, more)
  PROVE  /\ histItems' \in [HistThreads -> Seq(History!Markers)]
         /\ histUnwritten' \in [HistThreads -> Seq(History!Markers)]
         /\ \A u \in HistThreads :
              u # t => histItems'[u] = histItems[u] /\ histUnwritten'[u] = histUnwritten[u]
         /\ t \in histOpenFiles' => History!Given(t)' = History!Given(t) \o more
         /\ t \notin histOpenFiles' => UNCHANGED <<histItems, histUnwritten>>
         /\ History!IsPrefix(histItems[t], histItems'[t])
<1>1. /\ histItems \in [HistThreads -> Seq(History!Markers)]
      /\ histUnwritten \in [HistThreads -> Seq(History!Markers)]
      /\ histItems[t] \in Seq(History!Markers) /\ histUnwritten[t] \in Seq(History!Markers)
  BY DEF HistoryInv, History!TypeOK
<1> DEFINE rest == histUnwritten[t] \o more
           lines == histItems[t] \o rest
<1>2. rest \in Seq(History!Markers) /\ lines = History!Given(t) \o more
  BY <1>1, ConcatProperties, ConcatAssociative DEF History!Given
<1>3. CASE t \notin histOpenFiles'
  <2>1. UNCHANGED <<histItems, histUnwritten>>
    BY <1>3 DEF History!RecordItems
  <2>2. History!IsPrefix(histItems[t], histItems'[t])
    BY <1>1, <2>1 DEF History!IsPrefix
  <2>3. QED
    BY <1>1, <1>3, <2>1, <2>2
<1>4. CASE t \in histOpenFiles'
  <2>1. PICK n \in Len(histItems[t])..Len(lines) :
          /\ histItems' = [histItems EXCEPT ![t] = SubSeq(lines, 1, n)]
          /\ histUnwritten' = [histUnwritten EXCEPT ![t] = SubSeq(lines, n + 1, Len(lines))]
    BY <1>2, <1>4 DEF History!RecordItems, History!Flushed
  <2>2. /\ SubSeq(lines, 1, n) \in Seq(History!Markers)
        /\ SubSeq(lines, n + 1, Len(lines)) \in Seq(History!Markers)
        /\ SubSeq(lines, 1, n) \o SubSeq(lines, n + 1, Len(lines)) = lines
        /\ History!IsPrefix(histItems[t], SubSeq(lines, 1, n))
    <3>1. n \in Len(histItems[t])..Len(histItems[t] \o rest)
      BY <2>1
    <3> HIDE DEF rest
    <3>2. QED
      BY <1>1, <1>2, <3>1, CutBehind
  <2>3. histItems'[t] = SubSeq(lines, 1, n) /\ histUnwritten'[t] = SubSeq(lines, n + 1, Len(lines))
    BY <1>1, <2>1
  <2> HIDE DEF lines
  <2>4. History!Given(t)' = History!Given(t) \o more
    BY <1>2, <2>2, <2>3 DEF History!Given
  <2>5. QED
    BY <1>1, <1>4, <2>1, <2>2, <2>3, <2>4
<1>5. QED
  BY <1>3, <1>4

\* Markers stay in order when some of the last given are lost.
LEMMA MarkersStay ==
  ASSUME HistoryInv, Len(histRollbacks') = Len(histRollbacks),
         \A t \in HistThreads : \E n \in 0..Len(History!Given(t)) :
           History!Given(t)' = SubSeq(History!Given(t), 1, n)
  PROVE  MarkersAsked'
<1> SUFFICES ASSUME NEW t \in HistThreads
             PROVE  InOrder(History!Given(t)', Len(histRollbacks))
  BY DEF HistoryInv, MarkersAsked
<1>1. PICK n \in 0..Len(History!Given(t)) : History!Given(t)' = SubSeq(History!Given(t), 1, n)
  OBVIOUS
<1>2. /\ InOrder(History!Given(t), Len(histRollbacks)) /\ Len(histRollbacks) \in Nat
      /\ History!Given(t) \in Seq(History!Markers)
  BY GivenType DEF HistoryInv, MarkersAsked
<1>3. QED
  BY <1>1, <1>2, CutInOrder

\* What was given is as it was.
LEMMA GivenStays ==
  ASSUME HistoryInv, UNCHANGED <<histItems, histUnwritten>>
  PROVE  \A t \in HistThreads :
           /\ History!Given(t)' = History!Given(t)
           /\ \E n \in 0..Len(History!Given(t)) : History!Given(t)' = SubSeq(History!Given(t), 1, n)
<1>1. ASSUME NEW t \in HistThreads
      PROVE /\ History!Given(t)' = History!Given(t)
            /\ History!Given(t) = SubSeq(History!Given(t), 1, Len(History!Given(t)))
            /\ Len(History!Given(t)) \in 0..Len(History!Given(t))
  <2>1. History!Given(t) \in Seq(History!Markers)
    BY GivenType
  <2>2. Len(History!Given(t)) \in 0..Len(History!Given(t))
    BY <2>1
  <2>3. QED
    BY <2>1, <2>2, SubSeqFull DEF History!Given
<1>2. QED
  BY <1>1

\* What a flush leaves of one thread's lines, when the rest of the buffer is lost.
LEMMA LinesLost ==
  ASSUME HistoryInv, NEW t \in HistThreads, NEW n \in Len(histItems[t])..Len(History!Given(t)),
         histItems'[t] = SubSeq(History!Given(t), 1, n), histUnwritten'[t] = <<>>
  PROVE  /\ histItems'[t] \in Seq(History!Markers) /\ n \in 0..Len(History!Given(t))
         /\ History!Given(t)' = SubSeq(History!Given(t), 1, n)
         /\ History!IsPrefix(histItems[t], histItems'[t])
<1>1. /\ histItems[t] \in Seq(History!Markers) /\ histUnwritten[t] \in Seq(History!Markers)
      /\ History!Given(t) \in Seq(History!Markers)
      /\ History!Given(t) = histItems[t] \o histUnwritten[t]
  BY GivenType DEF History!Given
<1>2. n \in 0..Len(History!Given(t))
  <2>1. Len(histItems[t]) \in Nat /\ Len(History!Given(t)) \in Nat
    BY <1>1, LenProperties
  <2>2. QED
    BY <2>1
<1>3. /\ SubSeq(History!Given(t), 1, n) \in Seq(History!Markers)
      /\ History!IsPrefix(histItems[t], SubSeq(History!Given(t), 1, n))
  BY <1>1, CutBehind
<1>4. SubSeq(History!Given(t), 1, n) \o <<>> = SubSeq(History!Given(t), 1, n)
  BY <1>3, ConcatEmptySeq
<1>5. QED
  BY <1>2, <1>3, <1>4 DEF History!Given

\* What is waited for may be answered or refused: no file changes.
LEMMA FilesRest ==
  ASSUME HistoryInv,
         UNCHANGED <<histFiles, histItems, histOpenFiles, histThreadFiles, histUnwritten>>,
         Len(histRollbacks') = Len(histRollbacks),
         histHandler' = histHandler \/ histHandler' = History!NoHandler
  PROVE  FilesKnown' /\ HandlerKnown' /\ MarkersAsked' /\ History!ForkIsCopy'
<1>1. FilesKnown'
  BY DEF HistoryInv, FilesKnown, History!HasFile, History!InSessions
<1>2. MarkersAsked'
  BY GivenStays, MarkersStay
<1>3. CASE histHandler' = History!NoHandler
  <2>1. histHandler'.op = "none"
    BY <1>3 DEF History!NoHandler
  <2>2. QED
    BY <1>1, <1>2, <2>1 DEF HandlerKnown, History!ForkIsCopy
<1>4. CASE histHandler' = histHandler
  <2>1. histRollbacks \in Seq([thread : HistThreads, session : Nat, answer : {"none", "ok",
        "error"}])
    BY DEF HistoryInv, History!TypeOK
  <2>2. histRollbacks' # <<>> \/ histHandler.op # "rollback"
    <3>1. histRollbacks # <<>> => Len(histRollbacks) > 0
      BY <2>1
    <3>2. Len(<<>>) = 0
      OBVIOUS
    <3>3. QED
      BY <3>1, <3>2 DEF HistoryInv, HandlerKnown
  <2>3. HandlerKnown'
    BY <1>4, <2>2 DEF HistoryInv, HandlerKnown
  <2>4. History!ForkIsCopy'
    BY <1>4 DEF HistoryInv, History!ForkIsCopy, History!Given
  <2>5. QED
    BY <1>1, <1>2, <2>3, <2>4
<1>5. QED
  BY <1>3, <1>4

\* The step of the recorder when a thread gets a file, or fails to.
LEMMA RecordingStarts ==
  ASSUME HistoryInv, NEW t \in HistThreads, histFiles[t] = None, History!StartRecording(t),
         \A u \in HistThreads :
           u # t => histItems'[u] = histItems[u] /\ histUnwritten'[u] = histUnwritten[u],
         t \notin histOpenFiles' => histItems'[t] = <<>> /\ histUnwritten'[t] = <<>>,
         InOrder(History!Given(t)', Len(histRollbacks)), UNCHANGED histRollbacks
  PROVE  /\ histFiles' \in [HistThreads -> History!Path \cup {None}]
         /\ histHeaders' \subseteq HistThreads
         /\ histOpenFiles' \subseteq HistThreads
         /\ histThreadFiles' \in [HistThreads -> History!Path \cup {None}]
         /\ \A u \in HistThreads : u # t => histFiles'[u] = histFiles[u]
         /\ FilesKnown' /\ MarkersAsked'
<1> DEFINE path == History!InSessions(histToday, histToday)
<1>1. /\ histFiles \in [HistThreads -> History!Path \cup {None}]
      /\ histHeaders \subseteq HistThreads
      /\ histOpenFiles \subseteq HistThreads
      /\ histThreadFiles \in [HistThreads -> History!Path \cup {None}]
      /\ histToday \in 0..MaxDay
  BY DEF HistoryInv, History!TypeOK
<1>2. /\ path \in History!Path /\ path # None /\ path.day = path.name /\ path.dir = "sessions"
      /\ path = History!InSessions(path.name, path.name)
  BY <1>1, InstanceConstants DEF History!InSessions, History!Path, History!RolloutHistoryConstants
<1>3. t \notin histOpenFiles /\ histThreadFiles[t] = None
  BY DEF HistoryInv, FilesKnown
<1>4. \/ /\ histFiles' = [histFiles EXCEPT ![t] = path]
         /\ histThreadFiles' = [histThreadFiles EXCEPT ![t] = path]
         /\ histOpenFiles' = histOpenFiles \cup {t}
      \/ /\ histFiles' = [histFiles EXCEPT ![t] = path]
         /\ UNCHANGED <<histThreadFiles, histOpenFiles>>
      \/ UNCHANGED <<histFiles, histThreadFiles, histOpenFiles>>
  BY DEF History!StartRecording
<1>5. histHeaders' = histHeaders \/ histHeaders' = histHeaders \cup {t}
  BY DEF History!StartRecording
<1> HIDE DEF path
<1>6. /\ histFiles' \in [HistThreads -> History!Path \cup {None}]
      /\ histHeaders' \subseteq HistThreads
      /\ histOpenFiles' \subseteq HistThreads
      /\ histThreadFiles' \in [HistThreads -> History!Path \cup {None}]
  BY <1>1, <1>2, <1>4, <1>5
<1>7. \A u \in HistThreads :
        u # t => /\ histFiles'[u] = histFiles[u]
                 /\ histThreadFiles'[u] = histThreadFiles[u]
                 /\ u \in histOpenFiles' <=> u \in histOpenFiles
  BY <1>1, <1>4
<1>8. \/ histFiles'[t] = path /\ histThreadFiles'[t] = path
      \/ histFiles'[t] = path /\ histThreadFiles'[t] = None /\ t \notin histOpenFiles'
      \/ histFiles'[t] = None /\ histThreadFiles'[t] = None /\ t \notin histOpenFiles'
  BY <1>1, <1>3, <1>4
<1>9. FilesKnown'
  <2> SUFFICES ASSUME NEW u \in HistThreads
      PROVE /\ histFiles'[u] = None => /\ histItems'[u] = <<>>
                                       /\ u \notin histOpenFiles' /\ histThreadFiles'[u] = None
            /\ u \notin histOpenFiles' => histUnwritten'[u] = <<>>
            /\ histFiles'[u] # None /\ histFiles'[u].dir = "sessions"
                 => histFiles'[u].day = histFiles'[u].name
            /\ histThreadFiles'[u] # None =>
                 histThreadFiles'[u] = History!InSessions(histFiles'[u].name, histFiles'[u].name)
    BY DEF FilesKnown, History!HasFile
  <2>1. CASE u = t
    BY <1>2, <1>8, <2>1
  <2>2. CASE u # t
    BY <1>7, <2>2 DEF HistoryInv, FilesKnown, History!HasFile
  <2>3. QED
    BY <2>1, <2>2
<1>10. MarkersAsked'
  <2>1. \A u \in HistThreads : u # t => History!Given(u)' = History!Given(u)
    BY DEF History!Given
  <2>2. QED
    BY <2>1 DEF HistoryInv, MarkersAsked
<1>11. QED
  BY <1>6, <1>7, <1>9, <1>10

\* A session is made for the thread of the handler.
LEMMA SessionMade ==
  ASSUME HistoryInv, NEW t \in HistThreads, History!NewSession(t)
  PROVE  /\ histSession' \in [HistThreads -> 0..histSessions'] /\ histSessions' \in Nat
         /\ histHandler' = History!NoHandler /\ histHandler' \in History!Handlers
         /\ histHandler'.op = "none"
<1>1. histHandler' = History!NoHandler /\ History!NoHandler \in History!Handlers
      /\ History!NoHandler.op = "none"
  BY DEF History!NewSession, History!NoHandler, History!Handlers
<1>2. histSession \in [HistThreads -> 0..histSessions] /\ histSessions \in Nat
  BY DEF HistoryInv, History!TypeOK
<1>3. QED
  BY <1>1, <1>2 DEF History!NewSession

\* The files and what they hold, and the markers, when the file of t is moved and
\* its writer, if it is closed, loses what it could not write.
LEMMA FileMoved ==
  ASSUME HistoryInv, NEW t \in HistThreads, histFiles[t] # None, NEW path \in History!Path,
         path.name = histFiles[t].name, path.dir = "sessions" => path.day = path.name,
         histFiles' = [histFiles EXCEPT ![t] = path],
         histItems' \in [HistThreads -> Seq(History!Markers)],
         histUnwritten' \in [HistThreads -> Seq(History!Markers)],
         \A u \in HistThreads \ {t} : histItems'[u] = histItems[u],
         \A u \in HistThreads : u \notin histOpenFiles' => histUnwritten'[u] = <<>>,
         \A u \in HistThreads : \E n \in 0..Len(History!Given(u)) :
           History!Given(u)' = SubSeq(History!Given(u), 1, n),
         histOpenFiles' \subseteq histOpenFiles, histHandler = History!NoHandler,
         UNCHANGED <<histHeaders, histThreadFiles, histToday, histSession, histSessions,
                     histHandler, histRollbacks, histRestarts>>
  PROVE  HistoryInv'
<1>1. /\ histFiles \in [HistThreads -> History!Path \cup {None}]
      /\ path # None /\ histHandler.op = "none"
  BY InstanceConstants DEF HistoryInv, History!TypeOK, History!NoHandler,
                           History!RolloutHistoryConstants
<1>2. History!TypeOK'
  BY <1>1 DEF HistoryInv, History!TypeOK
<1>3. \A u \in HistThreads : /\ u # t => histFiles'[u] = histFiles[u]
                             /\ u = t => histFiles'[u] = path
  BY <1>1
<1>4. FilesKnown'
  <2> SUFFICES ASSUME NEW u \in HistThreads
      PROVE /\ histFiles'[u] = None => /\ histItems'[u] = <<>>
                                       /\ u \notin histOpenFiles' /\ histThreadFiles'[u] = None
            /\ u \notin histOpenFiles' => histUnwritten'[u] = <<>>
            /\ histFiles'[u] # None /\ histFiles'[u].dir = "sessions"
                 => histFiles'[u].day = histFiles'[u].name
            /\ histThreadFiles'[u] # None =>
                 histThreadFiles'[u] = History!InSessions(histFiles'[u].name, histFiles'[u].name)
    BY DEF FilesKnown, History!HasFile
  <2>1. CASE u = t
    BY <1>1, <1>3, <2>1 DEF HistoryInv, FilesKnown
  <2>2. CASE u # t
    BY <1>3, <2>2 DEF HistoryInv, FilesKnown, History!HasFile
  <2>3. QED
    BY <2>1, <2>2
<1>5. HandlerKnown' /\ History!ForkIsCopy'
  BY <1>1 DEF HandlerKnown, History!ForkIsCopy
<1>6. MarkersAsked'
  BY MarkersStay
<1>7. QED
  BY <1>2, <1>4, <1>5, <1>6 DEF HistoryInv

\* The process ends: of what its writers held any beginning is in the files.
LEMMA RestartStep ==
  ASSUME HistoryInv, History!Restart
  PROVE  /\ HistoryInv'
         /\ \A t \in HistThreads : History!IsPrefix(histItems[t], histItems'[t])
<1>1. PICK held \in [HistThreads -> 0..MaxRollbacks] :
        /\ \A t \in HistThreads : held[t] \in Len(histItems[t])..Len(History!Given(t))
        /\ histItems' = [t \in HistThreads |-> SubSeq(History!Given(t), 1, held[t])]
  BY DEF History!Restart
<1>2. /\ histOpenFiles' = {} /\ histThreadFiles' = [t \in HistThreads |-> None]
      /\ histUnwritten' = [t \in HistThreads |-> <<>>] /\ histRestarts' = histRestarts + 1
      /\ histRestarts < MaxRestarts /\ histHandler' = History!NoHandler
      /\ UNCHANGED <<histFiles, histHeaders, histToday, histSession, histSessions, histRollbacks>>
  BY DEF History!Restart
<1>3. ASSUME NEW t \in HistThreads
      PROVE  /\ histItems'[t] \in Seq(History!Markers) /\ histUnwritten'[t] = <<>>
             /\ \E n \in 0..Len(History!Given(t)) :
                  History!Given(t)' = SubSeq(History!Given(t), 1, n)
             /\ History!IsPrefix(histItems[t], histItems'[t])
  <2>1. /\ held[t] \in Len(histItems[t])..Len(History!Given(t))
        /\ histItems'[t] = SubSeq(History!Given(t), 1, held[t]) /\ histUnwritten'[t] = <<>>
    BY <1>1, <1>2
  <2>2. QED
    BY <2>1, LinesLost
<1>4. MarkersAsked'
  BY <1>2, <1>3, MarkersStay
<1>5. /\ histHandler' \in History!Handlers /\ histHandler'.op = "none"
      /\ MaxRestarts \in Nat
  BY <1>2, InstanceConstants
     DEF History!NoHandler, History!Handlers, History!RolloutHistoryConstants
<1>6. FilesKnown'
  <2>1. ASSUME NEW t \in HistThreads, histFiles[t] = None PROVE histItems'[t] = <<>>
    <3>1. histItems[t] = <<>> /\ histUnwritten[t] = <<>>
      BY <2>1 DEF HistoryInv, FilesKnown
    <3>2. History!Given(t) = <<>>
      BY <3>1 DEF History!Given
    <3>3. held[t] = 0
      BY <1>1, <3>1, <3>2
    <3>4. QED
      BY <1>1, <3>2, <3>3, SubSeqEmpty
  <2>2. QED
    BY <1>2, <2>1 DEF HistoryInv, FilesKnown, History!HasFile
<1>7. HandlerKnown' /\ History!ForkIsCopy'
  BY <1>5 DEF HandlerKnown, History!ForkIsCopy
<1>8. History!TypeOK'
  <2>1. histItems' \in [HistThreads -> Seq(History!Markers)]
    BY <1>1, <1>3
  <2>2. histUnwritten' \in [HistThreads -> Seq(History!Markers)]
    BY <1>2
  <2>3. QED
    BY <1>2, <1>5, <2>1, <2>2 DEF HistoryInv, History!TypeOK
<1>9. QED
  BY <1>3, <1>4, <1>6, <1>7, <1>8 DEF HistoryInv

LEMMA HistoryStep == HistoryInv /\ [HistoryNext]_histVars => HistoryInv'
<1> SUFFICES ASSUME HistoryInv, [HistoryNext]_histVars PROVE HistoryInv'
  OBVIOUS
<1> DEFINE Requests == [thread : HistThreads, session : Nat, answer : {"none", "ok", "error"}]
<1>0. /\ histFiles \in [HistThreads -> History!Path \cup {None}]
      /\ histItems \in [HistThreads -> Seq(History!Markers)]
      /\ histUnwritten \in [HistThreads -> Seq(History!Markers)]
      /\ histSession \in [HistThreads -> 0..histSessions] /\ histSessions \in Nat
      /\ histRollbacks \in Seq(Requests) /\ Len(histRollbacks) \in Nat
      /\ History!NoHandler \in History!Handlers /\ History!NoHandler.op = "none"
      /\ None \notin HistThreads /\ MaxRollbacks \in Nat /\ MaxRestarts \in Nat /\ MaxDay \in Nat
  <2>1. histRollbacks \in Seq(Requests)
    BY DEF HistoryInv, History!TypeOK
  <2>2. Len(histRollbacks) \in Nat
    BY <2>1
  <2>3. QED
    BY <2>1, <2>2, InstanceConstants
       DEF HistoryInv, History!TypeOK, History!NoHandler, History!Handlers,
           History!RolloutHistoryConstants
<1>1. ASSUME NEW t \in HistThreads, History!ThreadStart(t) PROVE HistoryInv'
  <2>1. /\ histHandler' \in History!Handlers /\ histHandler'.op = "start"
        /\ histHandler'.thread = t /\ histFiles[t] = None
        /\ UNCHANGED <<histFiles, histHeaders, histItems, histOpenFiles, histThreadFiles,
                       histUnwritten, histToday, histSession, histSessions, histRollbacks,
                       histRestarts>>
    BY <1>1 DEF History!ThreadStart, History!Fresh, History!Handlers, History!disk, History!memory
  <2>2. FilesKnown' /\ MarkersAsked'
    BY <2>1, GivenStays, MarkersStay DEF HistoryInv, FilesKnown, History!HasFile
  <2>3. HandlerKnown' /\ History!ForkIsCopy' /\ History!TypeOK'
    BY <2>1 DEF HistoryInv, HandlerKnown, History!ForkIsCopy, History!TypeOK
  <2>4. QED
    BY <2>2, <2>3 DEF HistoryInv
<1>2. ASSUME UNCHANGED histVars PROVE HistoryInv'
  <2>1. FilesKnown' /\ HandlerKnown' /\ MarkersAsked' /\ History!ForkIsCopy'
    BY <1>2, FilesRest DEF histVars
  <2>2. History!TypeOK'
    BY <1>2 DEF histVars, HistoryInv, History!TypeOK
  <2>3. QED
    BY <2>1, <2>2 DEF HistoryInv
<1>3. ASSUME NEW t \in HistThreads, History!ThreadResume(t) PROVE HistoryInv'
  BY <1>2, <1>3 DEF History!ThreadResume, History!disk, History!memory, histVars
<1>4. ASSUME NEW t \in HistThreads, History!ThreadRollback(t) PROVE HistoryInv'
  <2> DEFINE k == Len(histRollbacks) + 1
             request == [thread |-> t, session |-> histSession[t], answer |-> "none"]
  <2>1. /\ histHandler' \in History!Handlers /\ histHandler'.op = "rollback"
        /\ histHandler'.thread = t
        /\ histFiles[t] # None /\ k \in 1..MaxRollbacks /\ k \in Nat
        /\ History!RecordItems(t, <<k>>)
        /\ histRollbacks' = Append(histRollbacks, request)
        /\ UNCHANGED <<histFiles, histHeaders, histOpenFiles, histThreadFiles, histToday,
                       histSession, histSessions, histRestarts>>
    <3>1. histFiles[t] # None
      BY <1>4, InstanceConstants DEF History!ThreadRollback, History!Readable, History!Found
    <3>2. QED
      BY <1>0, <1>4, <3>1 DEF History!ThreadRollback, History!Handlers
  <2>2. request \in Requests
    BY <1>0
  <2>3. /\ histRollbacks' \in Seq(Requests) /\ Len(histRollbacks') = k /\ histRollbacks' # <<>>
    <3> HIDE DEF request, Requests
    <3>1. QED
      BY <1>0, <2>1, <2>2
  <2> HIDE DEF request, Requests
  <2>4. /\ histItems' \in [HistThreads -> Seq(History!Markers)]
        /\ histUnwritten' \in [HistThreads -> Seq(History!Markers)]
        /\ \A u \in HistThreads :
             u # t => histItems'[u] = histItems[u] /\ histUnwritten'[u] = histUnwritten[u]
        /\ t \in histOpenFiles' => History!Given(t)' = History!Given(t) \o <<k>>
        /\ t \notin histOpenFiles' => UNCHANGED <<histItems, histUnwritten>>
    <3>1. <<k>> \in Seq(History!Markers)
      <4>1. k \in History!Markers
        BY <2>1 DEF History!Markers
      <4> HIDE DEF k
      <4>2. QED
        BY <4>1
    <3> HIDE DEF k
    <3>2. QED
      BY <2>1, <3>1, LinesRecorded
  <2>5. ASSUME NEW u \in HistThreads PROVE InOrder(History!Given(u)', k)
    <3>1. /\ InOrder(History!Given(u), Len(histRollbacks))
          /\ History!Given(u) \in Seq(History!Markers)
      BY GivenType DEF HistoryInv, MarkersAsked
    <3>2. InOrder(History!Given(u), k)
      <4>1. SubSeq(History!Given(u), 1, Len(History!Given(u))) = History!Given(u)
        BY <3>1, SubSeqFull
      <4>2. Len(History!Given(u)) \in 0..Len(History!Given(u))
        BY <3>1
      <4>3. Len(histRollbacks) <= k /\ k \in Nat
        BY <1>0
      <4> HIDE DEF k
      <4>4. Len(histRollbacks) \in Nat
        BY <1>0
      <4>5. InOrder(SubSeq(History!Given(u), 1, Len(History!Given(u))), k)
        BY <3>1, <4>2, <4>3, <4>4, CutInOrder
      <4>6. QED
        BY <4>1, <4>5
    <3>3. CASE u = t /\ t \in histOpenFiles'
      <4>1. Len(histRollbacks) \in Nat
        BY <1>0
      <4>2. InOrder(History!Given(u) \o <<k>>, k)
        BY <3>1, <4>1, NextInOrder
      <4>3. History!Given(u)' = History!Given(u) \o <<k>>
        BY <2>4, <3>3
      <4>4. QED
        BY <4>2, <4>3
    <3>4. CASE u # t \/ t \notin histOpenFiles'
      <4>1. History!Given(u)' = History!Given(u)
        BY <2>4, <3>4 DEF History!Given
      <4>2. QED
        BY <3>2, <4>1
    <3>5. QED
      BY <3>3, <3>4
  <2> HIDE DEF k
  <2>6. MarkersAsked'
    BY <2>1, <2>3, <2>5 DEF MarkersAsked
  <2>7. FilesKnown'
    BY <2>1, <2>4 DEF HistoryInv, FilesKnown, History!HasFile
  <2>8. HandlerKnown' /\ History!ForkIsCopy'
    BY <2>1, <2>3 DEF HandlerKnown, History!ForkIsCopy
  <2>9. History!TypeOK'
    BY <2>1, <2>3, <2>4 DEF HistoryInv, History!TypeOK, Requests
  <2>10. QED
    BY <2>6, <2>7, <2>8, <2>9 DEF HistoryInv
<1>5. ASSUME NEW t \in HistThreads, History!ThreadArchive(t) PROVE HistoryInv'
  <2> DEFINE path == [histFiles[t] EXCEPT !.dir = "archived_sessions"]
  <2>1. /\ histFiles[t] # None /\ histFiles[t] \in History!Path
        /\ histFiles' = [histFiles EXCEPT ![t] = path]
        /\ histOpenFiles' = histOpenFiles \ {t} /\ histHandler = History!NoHandler
        /\ histUnwritten' = [histUnwritten EXCEPT ![t] = <<>>]
        /\ UNCHANGED <<histHeaders, histThreadFiles, histToday, histSession, histSessions,
                       histHandler, histRollbacks, histRestarts>>
    BY <1>0, <1>5 DEF History!ThreadArchive, History!HasFile, History!CloseFile
  <2>2. path \in History!Path /\ path.name = histFiles[t].name /\ path.dir # "sessions"
    BY <2>1 DEF History!Path
  <2> HIDE DEF path
  <2>3. PICK n \in Len(histItems[t])..Len(History!Given(t)) :
          histItems' = [histItems EXCEPT ![t] = SubSeq(History!Given(t), 1, n)]
    BY <1>5 DEF History!ThreadArchive, History!CloseFile, History!Flushed
  <2>4. /\ histItems'[t] \in Seq(History!Markers) /\ n \in 0..Len(History!Given(t))
        /\ History!Given(t)' = SubSeq(History!Given(t), 1, n)
    BY <1>0, <2>1, <2>3, LinesLost
  <2>5. /\ histItems' \in [HistThreads -> Seq(History!Markers)]
        /\ histUnwritten' \in [HistThreads -> Seq(History!Markers)]
        /\ \A u \in HistThreads \ {t} :
             histItems'[u] = histItems[u] /\ histUnwritten'[u] = histUnwritten[u]
        /\ \A u \in HistThreads : u \notin histOpenFiles' => histUnwritten'[u] = <<>>
    BY <1>0, <2>1, <2>3, <2>4 DEF HistoryInv, FilesKnown
  <2>6. ASSUME NEW u \in HistThreads
        PROVE  \E m \in 0..Len(History!Given(u)) :
                 History!Given(u)' = SubSeq(History!Given(u), 1, m)
    <3>1. CASE u = t
      BY <2>4, <3>1
    <3>2. CASE u # t
      <4>1. History!Given(u)' = History!Given(u) /\ History!Given(u) \in Seq(History!Markers)
        BY <2>5, <3>2, GivenType DEF History!Given
      <4>2. Len(History!Given(u)) \in 0..Len(History!Given(u))
        BY <4>1
      <4>3. QED
        BY <4>1, <4>2, SubSeqFull
    <3>3. QED
      BY <3>1, <3>2
  <2>7. QED
    BY <2>1, <2>2, <2>5, <2>6, FileMoved
<1>6. ASSUME NEW t \in HistThreads, History!ThreadUnarchive(t) PROVE HistoryInv'
  <2>1. /\ histFiles[t] # None /\ histFiles[t] \in History!Path
        /\ histFiles' = [histFiles EXCEPT ![t] = History!RestoredPath(t)]
        /\ histOpenFiles' = histOpenFiles /\ histHandler = History!NoHandler
        /\ UNCHANGED <<histItems, histUnwritten, histHeaders, histThreadFiles, histToday,
                       histSession, histSessions, histHandler, histRollbacks, histRestarts>>
    BY <1>0, <1>6 DEF History!ThreadUnarchive, History!HasFile, History!memory
  <2>2. /\ History!RestoredPath(t) \in History!Path
        /\ History!RestoredPath(t).name = histFiles[t].name
        /\ History!RestoredPath(t).day = histFiles[t].name
    BY <2>1 DEF History!RestoredPath, History!InSessions, History!Path
  <2>3. \A u \in HistThreads : u \notin histOpenFiles' => histUnwritten'[u] = <<>>
    BY <2>1 DEF HistoryInv, FilesKnown
  <2>4. QED
    BY <1>0, <2>1, <2>2, <2>3, GivenStays, FileMoved
<1>7. ASSUME NEW s \in HistThreads, NEW t \in HistThreads, History!ThreadFork(s, t)
      PROVE  HistoryInv'
  <2>1. /\ histFiles[t] = None /\ histFiles[s] # None /\ History!StartRecording(t)
        /\ histHandler' \in History!Handlers /\ histHandler'.op = "fork"
        /\ histHandler'.thread = t /\ histHandler'.source = s
        /\ History!RecordItems(t, histItems[s])
        /\ UNCHANGED <<histToday, histSession, histSessions, histRollbacks, histRestarts>>
    BY <1>7 DEF History!ThreadFork, History!Fresh, History!HasFile, History!Handlers,
                History!LoadRolloutItems
  <2>2. s # t
    BY <2>1
  <2>3. histItems[s] \in Seq(History!Markers)
    BY <1>0
  <2>4. /\ histItems' \in [HistThreads -> Seq(History!Markers)]
        /\ histUnwritten' \in [HistThreads -> Seq(History!Markers)]
        /\ \A u \in HistThreads :
             u # t => histItems'[u] = histItems[u] /\ histUnwritten'[u] = histUnwritten[u]
        /\ t \in histOpenFiles' => History!Given(t)' = History!Given(t) \o histItems[s]
        /\ t \notin histOpenFiles' => UNCHANGED <<histItems, histUnwritten>>
    BY <2>1, <2>3, LinesRecorded
  <2>5. /\ histItems[t] = <<>> /\ histUnwritten[t] = <<>>
    BY <2>1 DEF HistoryInv, FilesKnown
  <2>6. t \notin histOpenFiles' => histItems'[t] = <<>> /\ histUnwritten'[t] = <<>>
    BY <2>4, <2>5
  <2>7. History!Given(t)' = IF t \in histOpenFiles' THEN histItems[s] ELSE <<>>
    <3>1. <<>> \o <<>> = <<>> /\ <<>> \o histItems[s] = histItems[s]
      BY <2>3, ConcatEmptySeq
    <3>2. QED
      BY <2>4, <2>5, <3>1 DEF History!Given
  <2>8. InOrder(histItems[s], Len(histRollbacks))
    <3>1. InOrder(histItems[s] \o histUnwritten[s], Len(histRollbacks))
      BY DEF HistoryInv, MarkersAsked, History!Given
    <3>2. histUnwritten[s] \in Seq(History!Markers)
      BY <1>0
    <3>3. QED
      BY <2>3, <3>1, <3>2, FrontInOrder
  <2>9. InOrder(History!Given(t)', Len(histRollbacks))
    BY <2>7, <2>8 DEF InOrder
  <2>10. /\ histFiles' \in [HistThreads -> History!Path \cup {None}]
         /\ histHeaders' \subseteq HistThreads
         /\ histOpenFiles' \subseteq HistThreads
         /\ histThreadFiles' \in [HistThreads -> History!Path \cup {None}]
         /\ \A u \in HistThreads : u # t => histFiles'[u] = histFiles[u]
         /\ FilesKnown' /\ MarkersAsked'
    BY <2>1, <2>4, <2>6, <2>9, RecordingStarts
  <2>11. HandlerKnown'
    BY <2>1, <2>2, <2>10 DEF HandlerKnown
  <2>12. History!ForkIsCopy'
    BY <2>1, <2>2, <2>4, <2>7 DEF History!ForkIsCopy
  <2>13. History!TypeOK'
    BY <2>1, <2>4, <2>10 DEF HistoryInv, History!TypeOK
  <2>14. QED
    BY <2>10, <2>11, <2>12, <2>13 DEF HistoryInv
<1>8. CASE History!StartAnswered
  <2>0. PICK t \in HistThreads : t = histHandler.thread
    BY <1>8 DEF History!StartAnswered, HistoryInv, HandlerKnown
  <2>1. /\ histFiles[t] = None /\ History!StartRecording(t)
        /\ History!NewSession(t)
        /\ UNCHANGED <<histItems, histUnwritten, histToday, histRollbacks, histRestarts>>
    BY <1>8, <2>0 DEF History!StartAnswered, HistoryInv, HandlerKnown
  <2>2. histItems[t] = <<>> /\ histUnwritten[t] = <<>>
    BY <2>1 DEF HistoryInv, FilesKnown
  <2>3. InOrder(History!Given(t)', Len(histRollbacks))
    <3>1. History!Given(t)' = History!Given(t)
      BY <2>1 DEF History!Given
    <3>2. QED
      BY <3>1 DEF HistoryInv, MarkersAsked
  <2>4. /\ histFiles' \in [HistThreads -> History!Path \cup {None}]
        /\ histHeaders' \subseteq HistThreads
        /\ histOpenFiles' \subseteq HistThreads
        /\ histThreadFiles' \in [HistThreads -> History!Path \cup {None}]
        /\ FilesKnown' /\ MarkersAsked'
    BY <2>1, <2>2, <2>3, RecordingStarts
  <2>5. /\ histSession' \in [HistThreads -> 0..histSessions'] /\ histSessions' \in Nat
        /\ histHandler' \in History!Handlers /\ histHandler'.op = "none"
    BY <2>1, SessionMade
  <2>6. HandlerKnown' /\ History!ForkIsCopy'
    BY <2>5 DEF HandlerKnown, History!ForkIsCopy
  <2>7. History!TypeOK'
    BY <2>1, <2>4, <2>5 DEF HistoryInv, History!TypeOK
  <2>8. QED
    BY <2>4, <2>6, <2>7 DEF HistoryInv
<1>9. ASSUME UNCHANGED <<histFiles, histHeaders, histItems, histRestarts>>,
             UNCHANGED <<histOpenFiles, histThreadFiles, histUnwritten>>,
             histToday' \in 0..MaxDay,
             histRollbacks' \in Seq(Requests), Len(histRollbacks') = Len(histRollbacks),
             histHandler' = histHandler \/ histHandler' = History!NoHandler,
             histSession' \in [HistThreads -> 0..histSessions'], histSessions' \in Nat
      PROVE  HistoryInv'
  <2>1. FilesKnown' /\ HandlerKnown' /\ MarkersAsked' /\ History!ForkIsCopy'
    BY <1>9, FilesRest
  <2>2. History!TypeOK'
    BY <1>0, <1>9 DEF HistoryInv, History!TypeOK
  <2>3. QED
    BY <2>1, <2>2 DEF HistoryInv
<1>10. histToday \in 0..MaxDay
  BY DEF HistoryInv, History!TypeOK
<1>11. ASSUME histHandler.op = "rollback", NEW a \in {"ok", "error"},
              histRollbacks' = [histRollbacks EXCEPT ![Len(histRollbacks)].answer = a]
       PROVE  histRollbacks' \in Seq(Requests) /\ Len(histRollbacks') = Len(histRollbacks)
  <2>1. histRollbacks # <<>>
    BY <1>11 DEF HistoryInv, HandlerKnown
  <2>2. Len(histRollbacks) \in 1..Len(histRollbacks)
    <3> HIDE DEF Requests
    <3>1. histRollbacks \in Seq(Requests)
      BY <1>0
    <3>2. QED
      BY <2>1, <3>1
  <2> DEFINE last == histRollbacks[Len(histRollbacks)]
  <2>3. last \in Requests
    <3> HIDE DEF Requests
    <3>1. histRollbacks \in Seq(Requests)
      BY <1>0
    <3>2. QED
      BY <2>2, <3>1
  <2>4. [last EXCEPT !.answer = a] \in Requests
    BY <2>3
  <2> HIDE DEF Requests
  <2>5. histRollbacks' = [histRollbacks EXCEPT ![Len(histRollbacks)] = [last EXCEPT !.answer = a]]
    BY <1>11
  <2>6. QED
    BY <1>0, <2>2, <2>4, <2>5
<1> HIDE DEF Requests
<1>12. CASE History!ForkAnswered
  <2>1. histHandler.thread \in HistThreads
    BY <1>12 DEF History!ForkAnswered, HistoryInv, HandlerKnown
  <2>2. QED
    BY <1>0, <1>9, <1>10, <1>12, <2>1, SessionMade
       DEF History!ForkAnswered, History!disk, History!memory
<1>13. CASE History!RollbackAnswered
  <2>1. histHandler.thread \in HistThreads /\ histHandler.op = "rollback"
    BY <1>13 DEF History!RollbackAnswered, HistoryInv, HandlerKnown
  <2>2. histRollbacks' \in Seq(Requests) /\ Len(histRollbacks') = Len(histRollbacks)
    BY <1>11, <1>13, <2>1 DEF History!RollbackAnswered
  <2>3. QED
    BY <1>0, <1>9, <1>10, <1>13, <2>1, <2>2, SessionMade
       DEF History!RollbackAnswered, History!disk, History!memory
<1>14. CASE History!AgentRefuses
  <2>1. histRollbacks' \in Seq(Requests) /\ Len(histRollbacks') = Len(histRollbacks)
    BY <1>0, <1>11, <1>14 DEF History!AgentRefuses
  <2>2. QED
    BY <1>0, <1>9, <1>10, <1>14, <2>1 DEF History!AgentRefuses, History!disk, History!memory
<1>15. CASE History!Midnight
  <2>1. histToday' \in 0..MaxDay
    BY <1>0, <1>10, <1>15 DEF History!Midnight
  <2>2. QED
    BY <1>0, <1>9, <1>10, <1>15, <2>1 DEF History!Midnight, History!disk, History!memory
<1>16. CASE History!Restart
  BY <1>16, RestartStep
<1>17. QED
  BY <1>1, <1>2, <1>3, <1>4, <1>5, <1>6, <1>7, <1>8, <1>12, <1>13, <1>14, <1>15, <1>16
     DEF HistoryNext

LEMMA ThreadsFound == HistoryInv => History!ReadFindsThread
<1> SUFFICES ASSUME HistoryInv, NEW t \in HistThreads, History!HasFile(t, "sessions")
             PROVE  History!Found(t)
  BY DEF History!ReadFindsThread
<1>1. histFiles[t] \in History!Path /\ histFiles[t] # None
      /\ histFiles[t].dir = "sessions" /\ histFiles[t].day = histFiles[t].name
  BY DEF HistoryInv, History!TypeOK, FilesKnown, History!HasFile
<1>2. histFiles[t] = History!InSessions(histFiles[t].name, histFiles[t].name)
  BY <1>1 DEF History!Path, History!InSessions
<1>3. QED
  BY <1>1, <1>2 DEF HistoryInv, FilesKnown, History!Found, History!FindThreadFile,
                    History!FindThreadPathById

\* What a step does to what the files hold: each keeps it as the beginning.
LEMMA HistoryGrows ==
  HistoryInv /\ [HistoryNext]_histVars
    => \A t \in HistThreads : History!IsPrefix(histItems[t], histItems'[t])
<1> SUFFICES ASSUME HistoryInv, [HistoryNext]_histVars, NEW t \in HistThreads
             PROVE  History!IsPrefix(histItems[t], histItems'[t])
  OBVIOUS
<1>1. histItems \in [HistThreads -> Seq(History!Markers)] /\ histItems[t] \in Seq(History!Markers)
  BY DEF HistoryInv, History!TypeOK
<1>2. CASE histItems'[t] = histItems[t]
  BY <1>1, <1>2 DEF History!IsPrefix
<1>3. ASSUME NEW u \in HistThreads, NEW more \in Seq(History!Markers),
             History!RecordItems(u, more)
      PROVE  History!IsPrefix(histItems[t], histItems'[t])
  BY <1>2, <1>3, LinesRecorded
<1>4. ASSUME NEW u \in HistThreads, History!ThreadRollback(u)
      PROVE  History!IsPrefix(histItems[t], histItems'[t])
  <2>1. <<Len(histRollbacks) + 1>> \in Seq(History!Markers)
    <3>1. Len(histRollbacks) + 1 \in History!Markers
      BY <1>4, GivenType, InstanceConstants
         DEF History!ThreadRollback, History!Markers, History!RolloutHistoryConstants
    <3>2. QED
      BY <3>1
  <2>2. QED
    BY <1>3, <1>4, <2>1 DEF History!ThreadRollback
<1>5. ASSUME NEW s \in HistThreads, NEW u \in HistThreads, History!ThreadFork(s, u)
      PROVE  History!IsPrefix(histItems[t], histItems'[t])
  BY <1>1, <1>3, <1>5 DEF History!ThreadFork, History!LoadRolloutItems
<1>6. ASSUME NEW u \in HistThreads, History!ThreadArchive(u)
      PROVE  History!IsPrefix(histItems[t], histItems'[t])
  <2>1. PICK n \in Len(histItems[u])..Len(History!Given(u)) :
          /\ histItems' = [histItems EXCEPT ![u] = SubSeq(History!Given(u), 1, n)]
          /\ histUnwritten' = [histUnwritten EXCEPT ![u] = <<>>]
    BY <1>6 DEF History!ThreadArchive, History!CloseFile, History!Flushed
  <2>2. histItems'[u] = SubSeq(History!Given(u), 1, n) /\ histUnwritten'[u] = <<>>
    BY <1>1, <2>1 DEF HistoryInv, History!TypeOK
  <2>3. t # u => histItems'[t] = histItems[t]
    BY <1>1, <2>1
  <2>4. QED
    BY <1>2, <2>2, <2>3, LinesLost
<1>7. CASE UNCHANGED histItems
  BY <1>2, <1>7
<1>8. CASE History!Restart
  BY <1>8, RestartStep
<1>9. QED
  BY <1>4, <1>5, <1>6, <1>7, <1>8
     DEF HistoryNext, histVars, History!ThreadStart, History!ThreadResume,
         History!ThreadUnarchive, History!StartAnswered, History!ForkAnswered,
         History!RollbackAnswered, History!AgentRefuses, History!Midnight, History!disk

-----------------------------------------------------------------------------
(* What a listing reads of a rollout file.                                   *)

Summaries == [scanned : Nat, id : Heads!Metas \cup {None}, user : BOOLEAN,
              text : {"user", None}, created : Heads!Metas \cup {"response", None}]

LEMMA ReadLineType ==
  ASSUME NEW s \in Summaries, NEW line \in Heads!Kinds
  PROVE  Heads!ReadLine(s, line) \in Summaries
<1> DEFINE n == [s EXCEPT !.scanned = @ + 1]
<1>1. n \in Summaries /\ n.id = s.id
  BY DEF Summaries
<1> HIDE DEF n
<1>2. Heads!TakeMeta(n, line) \in Summaries \/ line \notin Heads!Metas
  BY <1>1 DEF Heads!TakeMeta, Summaries
<1>3. Heads!TakeUser(n, line) \in Summaries
  BY <1>1 DEF Heads!TakeUser, Summaries
<1>4. [n EXCEPT !.created = IF @ = None THEN "response" ELSE @] \in Summaries
  BY <1>1 DEF Summaries
<1>5. CASE ~Heads!Scanning(s) \/ line = "blank"
  BY <1>5 DEF Heads!ReadLine
<1>6. CASE Heads!Scanning(s) /\ line # "blank"
  <2>1. Heads!ReadLine(s, line) =
          CASE line \in Heads!Metas -> Heads!TakeMeta(n, line)
            [] line \in Heads!Users -> Heads!TakeUser(n, line)
            [] line = "response" -> [n EXCEPT !.created = IF @ = None THEN "response" ELSE @]
            [] line \in {"other", "torn"} -> n
    BY <1>6 DEF Heads!ReadLine, n
  <2>2. CASE line \in Heads!Metas
    BY <1>2, <2>1, <2>2 DEF Heads!Metas, Heads!Users
  <2>3. CASE line \in Heads!Users
    BY <1>3, <2>1, <2>3 DEF Heads!Metas, Heads!Users
  <2>4. CASE line = "response"
    BY <1>4, <2>1, <2>4 DEF Heads!Metas, Heads!Users
  <2>5. CASE line \in {"other", "torn"}
    BY <1>1, <2>1, <2>5 DEF Heads!Metas, Heads!Users
  <2>6. QED
    BY <1>6, <2>2, <2>3, <2>4, <2>5 DEF Heads!Kinds
<1>7. QED
  BY <1>5, <1>6

\* The summaries after each line.
ReadThrough(acc, s) ==
  /\ acc \in [0..Len(s) -> Summaries]
  /\ acc[0] = Heads!Nothing
  /\ \A k \in 1..Len(s) : acc[k] = Heads!ReadLine(acc[k - 1], s[k])

LEMMA HeadSteps ==
  ASSUME NEW s \in Seq(Heads!Kinds)
  PROVE  \E acc : ReadThrough(acc, s) /\ Heads!Summary(s) = acc[Len(s)]
<1> DEFINE n == Len(s)
           base == Heads!Nothing
           Eq(it) == it = [S \in SUBSET (1..n) |->
                       IF S = {} THEN base
                       ELSE Heads!ReadLine(it[S \ {Heads!Max(S)}], s[Heads!Max(S)])]
           f == CHOOSE it : Eq(it)
<1>1. n \in Nat /\ DOMAIN s = 1..n
  OBVIOUS
<1>2. Heads!Summary(s) = f[1..n]
  BY <1>1 DEF Heads!Summary, Heads!FoldLeft, Heads!MapThenFoldSet
<1>b. base \in Summaries
  BY DEF Summaries, Heads!Nothing
<1> HIDE DEF base
<1> DEFINE step == [p \in (1..n) \X Summaries |-> Heads!ReadLine(p[2], s[p[1]])]
<1>3. \E it : Eq(it)
  <2>1. step \in [(1..n) \X Summaries -> Summaries]
    BY <1>1, ReadLineType
  <2> HIDE DEF step
  <2>2. PICK it \in [SUBSET (1..n) -> Summaries] : GreatestLast(it, base, step, n)
    BY <1>1, <1>b, <2>1, FoldDefined
  <2>3. ASSUME NEW S \in SUBSET (1..n), S # {}
        PROVE  it[S] = Heads!ReadLine(it[S \ {Heads!Max(S)}], s[Heads!Max(S)])
    <3>1. Heads!Max(S) = Max(S) /\ Max(S) \in S
      <4>1. S \in SUBSET (0..n)
        BY <1>1
      <4>2. QED
        BY <1>1, <2>3, <4>1, GreatestNumber DEF Max, Heads!Max
    <3>2. <<Max(S), it[S \ {Max(S)}]>> \in (1..n) \X Summaries
      BY <2>2, <3>1
    <3>3. step[<<Max(S), it[S \ {Max(S)}]>>] = Heads!ReadLine(it[S \ {Max(S)}], s[Max(S)])
      BY <3>2 DEF step
    <3>4. QED
      BY <2>2, <2>3, <3>1, <3>3 DEF GreatestLast
  <2>4. it[{}] = base
    BY <2>2 DEF GreatestLast
  <2>5. Eq(it)
    BY <2>2, <2>3, <2>4
  <2> HIDE DEF Eq
  <2>6. QED
    BY <2>5
<1>4. Eq(f)
  BY <1>3
<1> HIDE DEF f
<1> DEFINE P(k) == k <= n => f[1..k] \in Summaries
           T == {k \in Nat : P(k)}
<1>5. f[{}] = base
  BY <1>4
<1>6. ASSUME NEW k \in 1..n PROVE f[1..k] = Heads!ReadLine(f[1..(k - 1)], s[k])
  <2>1. k \in Nat /\ k # 0 /\ 1..k \in SUBSET (1..n)
    OBVIOUS
  <2>2. 1..k # {} /\ Heads!Max(1..k) = k /\ (1..k) \ {k} = 1..(k - 1)
    BY <2>1, PlacesUpTo DEF Max, Heads!Max
  <2>3. QED
    BY <1>4, <2>1, <2>2
<1>7. Nat \subseteq T
  <2>1. 0 \in T
    BY <1>5, <1>b
  <2>2. ASSUME NEW k \in Nat, k \in T PROVE k + 1 \in T
    <3> SUFFICES ASSUME k + 1 <= n PROVE f[1..(k + 1)] \in Summaries
      OBVIOUS
    <3>1. k + 1 \in 1..n /\ k + 1 - 1 = k
      BY <1>1
    <3>2. f[1..k] \in Summaries
      BY <1>1, <2>2
    <3>3. s[k + 1] \in Heads!Kinds
      BY <1>1, <3>1
    <3>4. QED
      BY <1>6, <3>1, <3>2, <3>3, ReadLineType
  <2> HIDE DEF T
  <2>3. QED
    BY <2>1, <2>2, Induction
<1> DEFINE acc == [k \in 0..n |-> f[1..k]]
<1>8. acc \in [0..n -> Summaries]
  BY <1>1, <1>7
<1>9. acc[0] = base
  BY <1>1, <1>5
<1>10. \A k \in 1..n : acc[k] = Heads!ReadLine(acc[k - 1], s[k])
  BY <1>1, <1>6
<1>11. acc[n] = f[1..n]
  BY <1>1
<1> HIDE DEF acc
<1>12. QED
  BY <1>2, <1>8, <1>9, <1>10, <1>11 DEF base, ReadThrough

\* A line more is read into the summary of those before it.
LEMMA SummaryGrows ==
  ASSUME NEW s \in Seq(Heads!Kinds), NEW line \in Heads!Kinds
  PROVE  Heads!Summary(Append(s, line)) = Heads!ReadLine(Heads!Summary(s), line)
<1> DEFINE t == Append(s, line)
           n == Len(s)
<1>1. /\ t \in Seq(Heads!Kinds) /\ Len(t) = n + 1 /\ n \in Nat /\ t[n + 1] = line
      /\ \A i \in 1..n : t[i] = s[i]
  OBVIOUS
<1> HIDE DEF t, n
<1>2. PICK a : ReadThrough(a, s) /\ Heads!Summary(s) = a[n]
  BY HeadSteps DEF n
<1>3. PICK b : ReadThrough(b, t) /\ Heads!Summary(t) = b[Len(t)]
  BY <1>1, HeadSteps
<1> DEFINE P(k) == k <= n => a[k] = b[k]
           T == {k \in Nat : P(k)}
<1>4. Nat \subseteq T
  <2>1. 0 \in T
    BY <1>2, <1>3 DEF ReadThrough
  <2>2. ASSUME NEW k \in Nat, k \in T PROVE k + 1 \in T
    <3> SUFFICES ASSUME k + 1 <= n PROVE a[k + 1] = b[k + 1]
      OBVIOUS
    <3>1. k + 1 \in 1..n /\ k + 1 \in 1..Len(t) /\ k + 1 - 1 = k /\ a[k] = b[k]
      BY <1>1, <2>2
    <3>2. a[k + 1] = Heads!ReadLine(a[k], s[k + 1])
      BY <1>2, <3>1 DEF ReadThrough, n
    <3>3. b[k + 1] = Heads!ReadLine(b[k], t[k + 1])
      BY <1>3, <3>1 DEF ReadThrough
    <3>4. QED
      BY <1>1, <3>1, <3>2, <3>3
  <2> HIDE DEF T
  <2>3. QED
    BY <2>1, <2>2, Induction
<1>5. a[n] = b[n]
  BY <1>1, <1>4
<1>6. n + 1 \in 1..Len(t) /\ n + 1 - 1 = n
  BY <1>1
<1>7. b[n + 1] = Heads!ReadLine(b[n], t[n + 1])
  <2>1. \A k \in 1..Len(t) : b[k] = Heads!ReadLine(b[k - 1], t[k])
    BY <1>3 DEF ReadThrough
  <2>2. PICK m \in 1..Len(t) : m = n + 1 /\ m - 1 = n
    BY <1>1, <1>6
  <2>3. b[m] = Heads!ReadLine(b[m - 1], t[m])
    BY <2>1
  <2>4. QED
    BY <2>2, <2>3
<1>8. QED
  BY <1>1, <1>2, <1>3, <1>5, <1>7 DEF t

\* How many lines that count there are up to a place.
Place(file, i) == Cardinality({j \in 1..i : file[j] # "blank"})

LEMMA PlaceType ==
  ASSUME NEW file, NEW i \in Nat
  PROVE  /\ IsFiniteSet({j \in 1..i : file[j] # "blank"}) /\ Place(file, i) \in Nat
         /\ \A k \in 0..i : Place(file, k) <= Place(file, i)
<1>1. ASSUME NEW k \in 0..i
      PROVE  IsFiniteSet({j \in 1..k : file[j] # "blank"})
  <2>1. IsFiniteSet(1..k)
    BY FS_Interval
  <2>2. QED
    BY <2>1, FS_Subset
<1>2. ASSUME NEW k \in 0..i PROVE Place(file, k) <= Place(file, i)
  <2>1. {j \in 1..k : file[j] # "blank"} \in SUBSET {j \in 1..i : file[j] # "blank"}
    OBVIOUS
  <2>2. i \in 0..i
    OBVIOUS
  <2>3. QED
    BY <1>1, <2>1, <2>2, FS_Subset DEF Place
<1>3. i \in 0..i
  OBVIOUS
<1>4. QED
  BY <1>1, <1>2, <1>3, FS_CardinalityType DEF Place

LEMMA PlaceGrows ==
  ASSUME NEW file \in Seq(Heads!Kinds), NEW line \in Heads!Kinds
  PROVE  /\ \A i \in 0..Len(file) : Place(Append(file, line), i) = Place(file, i)
         /\ Place(Append(file, line), Len(file) + 1) =
              Place(file, Len(file)) + (IF line = "blank" THEN 0 ELSE 1)
<1> DEFINE n == Len(file)
           more == Append(file, line)
           S == {j \in 1..n : file[j] # "blank"}
           T == {j \in 1..(n + 1) : more[j] # "blank"}
<1>1. n \in Nat /\ (\A j \in 1..n : more[j] = file[j]) /\ more[n + 1] = line
  OBVIOUS
<1> HIDE DEF more, n
<1>2. ASSUME NEW i \in 0..n PROVE Place(more, i) = Place(file, i)
  <2>1. \A j \in 1..i : more[j] = file[j]
    BY <1>1
  <2>2. {j \in 1..i : more[j] # "blank"} = {j \in 1..i : file[j] # "blank"}
    BY <2>1
  <2>3. QED
    BY <2>2 DEF Place
<1>3. IsFiniteSet(S) /\ n + 1 \notin S /\ Place(file, n) = Cardinality(S)
      /\ Cardinality(S) \in Nat
  <2>1. IsFiniteSet(S) /\ Place(file, n) \in Nat
    BY <1>1, PlaceType
  <2>2. Place(file, n) = Cardinality(S)
    BY DEF Place
  <2>3. n + 1 \notin S
    BY <1>1
  <2>4. QED
    BY <2>1, <2>2, <2>3
<1>4. line = "blank" => T = S
  BY <1>1
<1>5. line # "blank" => T = S \cup {n + 1}
  BY <1>1
<1>6. Place(more, n + 1) = Cardinality(T)
  BY DEF Place
<1> HIDE DEF S, T
<1>7. Place(more, n + 1) = Place(file, n) + (IF line = "blank" THEN 0 ELSE 1)
  BY <1>3, <1>4, <1>5, <1>6, FS_AddElement
<1>8. QED
  BY <1>2, <1>7 DEF more, n

MetaPlaces(file) == {i \in DOMAIN file : file[i] \in Heads!Metas}
UserPlaces(file) == {i \in DOMAIN file : file[i] \in Heads!Users}
FirstOf(S, i) == i \in S /\ \A j \in S : i <= j

HeaderRead(file, s) ==
  IF s.id = None THEN \A i \in MetaPlaces(file) : Place(file, i) > HeadLimit
  ELSE \E m \in MetaPlaces(file) :
         FirstOf(MetaPlaces(file), m) /\ s.id = file[m] /\ Place(file, m) <= HeadLimit

UserRead(file, s) ==
  IF s.user
  THEN \E u \in UserPlaces(file) :
         FirstOf(UserPlaces(file), u) /\ Place(file, u) <= HeadLimit + UserLimit
  ELSE \A i \in UserPlaces(file) :
         Place(file, i) > HeadLimit + (IF s.id = None THEN 0 ELSE UserLimit)

\* The summary has counted every line, or those until it had seen enough; and it
\* has the first header and a message of the user unless they came too late.
HeadRead(file, s) ==
  /\ s \in Summaries
  /\ s.scanned <= Place(file, Len(file))
  /\ Heads!Scanning(s) => s.scanned = Place(file, Len(file))
  /\ HeaderRead(file, s) /\ UserRead(file, s)

LEMMA LineCounted ==
  ASSUME NEW s \in Summaries, NEW line \in Heads!Kinds, Heads!Scanning(s), line # "blank"
  PROVE  LET r == Heads!ReadLine(s, line) IN
         /\ r.scanned = s.scanned + 1
         /\ r.id = IF line \in Heads!Metas /\ s.id = None THEN line ELSE s.id
         /\ r.user = (s.user \/ line \in Heads!Users)
<1> DEFINE n == [s EXCEPT !.scanned = @ + 1]
<1>1. n \in Summaries /\ n.id = s.id /\ n.user = s.user /\ n.scanned = s.scanned + 1
  BY DEF Summaries
<1> HIDE DEF n
<1>2. Heads!ReadLine(s, line) =
        CASE line \in Heads!Metas -> Heads!TakeMeta(n, line)
          [] line \in Heads!Users -> Heads!TakeUser(n, line)
          [] line = "response" -> [n EXCEPT !.created = IF @ = None THEN "response" ELSE @]
          [] line \in {"other", "torn"} -> n
  BY DEF Heads!ReadLine, n
<1>3. s.user \in BOOLEAN
  BY DEF Summaries
<1>4. CASE line \in Heads!Metas
  BY <1>1, <1>2, <1>3, <1>4 DEF Heads!TakeMeta, Heads!Metas, Heads!Users, Summaries
<1>5. CASE line \in Heads!Users
  BY <1>1, <1>2, <1>3, <1>5 DEF Heads!TakeUser, Heads!Metas, Heads!Users, Summaries
<1>6. CASE line = "response"
  BY <1>1, <1>2, <1>3, <1>6 DEF Heads!Metas, Heads!Users, Summaries
<1>7. CASE line \in {"other", "torn"}
  BY <1>1, <1>2, <1>3, <1>7 DEF Heads!Metas, Heads!Users, Summaries
<1>8. QED
  BY <1>4, <1>5, <1>6, <1>7 DEF Heads!Kinds

LEMMA HeadReadGrows ==
  ASSUME NEW file \in Seq(Heads!Kinds), NEW s, HeadRead(file, s), NEW line \in Heads!Kinds
  PROVE  HeadRead(Append(file, line), Heads!ReadLine(s, line))
<1> DEFINE n == Len(file)
           more == Append(file, line)
           r == Heads!ReadLine(s, line)
<1>1. /\ n \in Nat /\ more \in Seq(Heads!Kinds) /\ Len(more) = n + 1
      /\ \A i \in 1..n : more[i] = file[i]
      /\ more[n + 1] = line /\ DOMAIN file = 1..n /\ DOMAIN more = 1..(n + 1)
      /\ HeadLimit \in Nat /\ UserLimit \in Nat
  BY InstanceConstants DEF Heads!RolloutHeadConstants
<1>2. s \in Summaries /\ r \in Summaries
  BY ReadLineType DEF HeadRead
<1> HIDE DEF n, more
<1>3. /\ \A i \in 1..n : Place(more, i) = Place(file, i) /\ Place(file, i) <= Place(file, n)
      /\ \A i \in 1..n : Place(file, i) \in Nat
      /\ Place(file, n) \in Nat
      /\ Place(more, n + 1) = Place(file, n) + (IF line = "blank" THEN 0 ELSE 1)
  <2>1. /\ \A i \in 0..n : Place(more, i) = Place(file, i)
        /\ Place(more, n + 1) = Place(file, n) + (IF line = "blank" THEN 0 ELSE 1)
    BY PlaceGrows DEF n, more
  <2>2. Place(file, n) \in Nat /\ \A k \in 0..n : Place(file, k) <= Place(file, n)
    BY <1>1, PlaceType
  <2>3. ASSUME NEW i \in 1..n PROVE Place(file, i) \in Nat
    <3>1. i \in Nat
      OBVIOUS
    <3>2. QED
      BY <3>1, PlaceType
  <2>4. QED
    BY <2>1, <2>2, <2>3
<1>4. /\ MetaPlaces(more) = IF line \in Heads!Metas THEN MetaPlaces(file) \cup {n + 1}
                            ELSE MetaPlaces(file)
      /\ UserPlaces(more) = IF line \in Heads!Users THEN UserPlaces(file) \cup {n + 1}
                            ELSE UserPlaces(file)
      /\ MetaPlaces(file) \subseteq 1..n /\ UserPlaces(file) \subseteq 1..n
  BY <1>1 DEF MetaPlaces, UserPlaces
\* What came first still does.
<1>5. /\ \A i \in MetaPlaces(file) : FirstOf(MetaPlaces(file), i) => FirstOf(MetaPlaces(more), i)
      /\ \A i \in UserPlaces(file) : FirstOf(UserPlaces(file), i) => FirstOf(UserPlaces(more), i)
  BY <1>1, <1>4 DEF FirstOf
<1>6. CASE line = "blank" \/ ~Heads!Scanning(s)
  <2>1. r = s
    BY <1>6 DEF Heads!ReadLine
  <2>2. s.scanned <= Place(more, n + 1)
    BY <1>2, <1>3 DEF HeadRead, Summaries, n
  <2>3. Heads!Scanning(s) => s.scanned = Place(more, n + 1)
    BY <1>3, <1>6 DEF HeadRead, n
  <2>4. line # "blank" /\ s.id = None => s.scanned >= HeadLimit
    BY <1>1, <1>2, <1>6 DEF Heads!Scanning, Summaries
  <2>5. line # "blank" /\ ~s.user
          => s.scanned >= HeadLimit + (IF s.id = None THEN 0 ELSE UserLimit)
    BY <1>1, <1>2, <1>6 DEF Heads!Scanning, Summaries
  <2>6. line # "blank" => s.scanned < Place(more, n + 1)
    BY <1>2, <1>3 DEF HeadRead, Summaries, n
  <2>7. line \in Heads!Metas \cup Heads!Users => line # "blank"
    BY DEF Heads!Metas, Heads!Users
  <2>8. HeaderRead(more, s)
    <3>1. CASE s.id = None
      <4>1. \A i \in MetaPlaces(file) : Place(file, i) > HeadLimit
        BY <3>1 DEF HeadRead, HeaderRead
      <4>2. line \in Heads!Metas => Place(more, n + 1) > HeadLimit
        BY <1>1, <1>2, <1>3, <2>4, <2>6, <2>7, <3>1 DEF Summaries
      <4>3. QED
        BY <1>3, <1>4, <3>1, <4>1, <4>2 DEF HeaderRead
    <3>2. CASE s.id # None
      BY <1>1, <1>3, <1>4, <1>5, <3>2 DEF HeadRead, HeaderRead
    <3>3. QED
      BY <3>1, <3>2
  <2>9. UserRead(more, s)
    <3>1. CASE ~s.user
      <4> DEFINE limit == HeadLimit + (IF s.id = None THEN 0 ELSE UserLimit)
      <4>1. \A i \in UserPlaces(file) : Place(file, i) > limit
        BY <3>1 DEF HeadRead, UserRead
      <4>2. line \in Heads!Users => Place(more, n + 1) > limit
        BY <1>1, <1>2, <1>3, <2>5, <2>6, <2>7, <3>1 DEF Summaries
      <4>3. QED
        BY <1>3, <1>4, <3>1, <4>1, <4>2 DEF UserRead
    <3>2. CASE s.user
      BY <1>1, <1>3, <1>4, <1>5, <3>2 DEF HeadRead, UserRead
    <3>3. QED
      BY <3>1, <3>2
  <2>10. QED
    BY <1>1, <1>2, <2>1, <2>2, <2>3, <2>8, <2>9 DEF HeadRead, more
<1>7. CASE line # "blank" /\ Heads!Scanning(s)
  <2>1. /\ r.scanned = s.scanned + 1
        /\ r.id = IF line \in Heads!Metas /\ s.id = None THEN line ELSE s.id
        /\ r.user = (s.user \/ line \in Heads!Users)
    BY <1>2, <1>7, LineCounted
  <2> HIDE DEF r
  <2>2. s.scanned = Place(file, n) /\ r.scanned = Place(more, n + 1)
    BY <1>3, <1>7, <2>1 DEF HeadRead, n
  <2>3. /\ s.id = None => s.scanned < HeadLimit
        /\ s.id # None => s.scanned < HeadLimit + UserLimit
    BY <1>1, <1>2, <1>7 DEF Heads!Scanning, Summaries
  <2>4. None \notin Heads!Metas
    BY InstanceConstants DEF Heads!RolloutHeadConstants, Heads!Kinds
  \* While no header was found every line was counted, and none of them was one.
  <2>5. s.id = None => MetaPlaces(file) = {}
    <3>1. ASSUME s.id = None, NEW i \in MetaPlaces(file) PROVE FALSE
      <4>1. Place(file, i) > HeadLimit
        BY <3>1 DEF HeadRead, HeaderRead
      <4>2. i \in 1..n /\ Place(file, i) <= Place(file, n) /\ Place(file, i) \in Nat
        BY <1>3, <1>4, <3>1
      <4>3. QED
        BY <1>1, <1>3, <2>2, <2>3, <3>1, <4>1, <4>2
    <3>2. QED
      BY <3>1
  <2>6. ~s.user => UserPlaces(file) = {}
    <3>1. ASSUME ~s.user, NEW i \in UserPlaces(file) PROVE FALSE
      <4>1. Place(file, i) > HeadLimit + (IF s.id = None THEN 0 ELSE UserLimit)
        BY <3>1 DEF HeadRead, UserRead
      <4>2. i \in 1..n /\ Place(file, i) <= Place(file, n) /\ Place(file, i) \in Nat
        BY <1>3, <1>4, <3>1
      <4>3. QED
        BY <1>1, <1>3, <2>2, <2>3, <4>1, <4>2
    <3>2. QED
      BY <3>1
  <2>7. HeaderRead(more, r)
    <3>1. CASE line \in Heads!Metas /\ s.id = None
      <4>1. r.id = line /\ line # None /\ MetaPlaces(more) = {n + 1}
        BY <1>4, <2>1, <2>4, <2>5, <3>1
      <4>2. FirstOf(MetaPlaces(more), n + 1)
        BY <1>1, <4>1 DEF FirstOf
      <4>3. Place(more, n + 1) <= HeadLimit
        BY <1>1, <1>3, <2>2, <2>3, <3>1
      <4>4. QED
        BY <1>1, <4>1, <4>2, <4>3 DEF HeaderRead
    <3>2. CASE line \notin Heads!Metas /\ s.id = None
      BY <1>4, <2>1, <2>5, <3>2 DEF HeaderRead
    <3>3. CASE s.id # None
      BY <1>1, <1>3, <1>4, <1>5, <2>1, <3>3 DEF HeadRead, HeaderRead
    <3>4. QED
      BY <3>1, <3>2, <3>3
  <2>8. UserRead(more, r)
    <3>1. CASE line \in Heads!Users /\ ~s.user
      <4>1. r.user /\ UserPlaces(more) = {n + 1}
        BY <1>4, <2>1, <2>6, <3>1
      <4>2. FirstOf(UserPlaces(more), n + 1)
        BY <1>1, <4>1 DEF FirstOf
      <4>3. Place(more, n + 1) <= HeadLimit + UserLimit
        BY <1>1, <1>3, <1>7, <2>2, <2>3
      <4>4. QED
        BY <1>1, <4>1, <4>2, <4>3 DEF UserRead
    <3>2. CASE line \notin Heads!Users /\ ~s.user
      BY <1>4, <2>1, <2>6, <3>2 DEF UserRead
    <3>3. CASE s.user
      BY <1>1, <1>3, <1>4, <1>5, <2>1, <3>3 DEF HeadRead, UserRead
    <3>4. QED
      BY <3>1, <3>2, <3>3
  <2>9. r.scanned <= Place(more, n + 1)
    BY <1>3, <2>2
  <2>10. HeadRead(more, r)
    BY <1>1, <1>2, <2>2, <2>7, <2>8, <2>9 DEF HeadRead
  <2>11. QED
    BY <2>10 DEF more, r
<1>8. QED
  BY <1>6, <1>7

HeadInv ==
  /\ Heads!TypeOK
  /\ HeadRead(headLines, Heads!Summary(headLines))

HeadsNext ==
  \/ Heads!BridgeStarts \/ Heads!BridgeTurn \/ Heads!BridgeRollback \/ Heads!OtherWrites

LEMMA InitHeadInv == Heads!Init => HeadInv
<1> SUFFICES ASSUME Heads!Init PROVE HeadInv
  OBVIOUS
<1>1. headLines = <<>> /\ headSaid = 0 /\ headWriter \in Writers
      /\ headAsked \in [sources : {{}, {"vscode"}}, providers : {{}, {"acp"}, {"openai"}}]
  BY DEF Heads!Init
<1>2. HeadLimit \in Nat /\ UserLimit \in Nat /\ HeadLines \in Nat /\ MaxSaid \in Nat
  BY InstanceConstants DEF Heads!RolloutHeadConstants
<1>3. Heads!TypeOK
  <2>1. headLines \in Seq(Heads!Kinds) /\ Len(headLines) <= HeadLines
    BY <1>1, <1>2
  <2>2. headAsked \in [sources : SUBSET {"vscode", "exec"}, providers : SUBSET {"acp", "openai"}]
    BY <1>1
  <2>3. QED
    BY <1>1, <1>2, <2>1, <2>2 DEF Heads!TypeOK
<1>4. Heads!Summary(<<>>) = Heads!Nothing
  <2>1. <<>> \in Seq(Heads!Kinds) /\ Len(<<>>) = 0
    OBVIOUS
  <2>2. QED
    BY <2>1, HeadSteps DEF ReadThrough
<1>5. HeadRead(<<>>, Heads!Nothing)
  <2>1. Heads!Nothing \in Summaries /\ Heads!Nothing.id = None /\ Heads!Nothing.user = FALSE
        /\ Heads!Nothing.scanned = 0
    BY DEF Heads!Nothing, Summaries
  <2>2. Place(<<>>, 0) = 0
    <3>1. {j \in 1..0 : <<>>[j] # "blank"} = {}
      OBVIOUS
    <3>2. QED
      BY <3>1, FS_EmptySet DEF Place
  <2>3. MetaPlaces(<<>>) = {} /\ UserPlaces(<<>>) = {} /\ Len(<<>>) = 0
    BY DEF MetaPlaces, UserPlaces
  <2>4. QED
    BY <2>1, <2>2, <2>3 DEF HeadRead, HeaderRead, UserRead
<1>6. QED
  BY <1>1, <1>3, <1>4, <1>5 DEF HeadInv

\* The file gains a line or stays as it is.
LEMMA LinesStep ==
  ASSUME Heads!TypeOK, [HeadsNext]_headVars
  PROVE  /\ Heads!TypeOK' /\ headAsked' = headAsked
         /\ \/ headLines' = headLines
            \/ \E line \in Heads!Kinds : headLines' = Append(headLines, line)
<1>1. ASSUME NEW line \in Heads!Kinds, Heads!Append1(line), UNCHANGED <<headWriter, headSaid,
             headAsked>>
      PROVE  Heads!TypeOK' /\ headLines' = Append(headLines, line)
  <2>1. headLines \in Seq(Heads!Kinds) /\ Len(headLines) < HeadLines /\ HeadLines \in Nat
        /\ headLines' = Append(headLines, line)
    BY <1>1, InstanceConstants DEF Heads!TypeOK, Heads!Append1, Heads!RolloutHeadConstants
  <2>2. headLines' \in Seq(Heads!Kinds) /\ Len(headLines') <= HeadLines
    BY <2>1
  <2>3. QED
    BY <1>1, <2>1, <2>2 DEF Heads!TypeOK
<1>2. CASE Heads!BridgeStarts
  <2>1. "meta" \in Heads!Kinds
    BY DEF Heads!Kinds, Heads!Metas
  <2>2. QED
    BY <1>1, <1>2, <2>1 DEF Heads!BridgeStarts
<1>3. CASE Heads!BridgeRollback
  <2>1. "other" \in Heads!Kinds
    BY DEF Heads!Kinds
  <2>2. QED
    BY <1>1, <1>3, <2>1 DEF Heads!BridgeRollback
<1>4. CASE Heads!OtherWrites
  BY <1>1, <1>4 DEF Heads!OtherWrites
<1>5. CASE Heads!BridgeTurn
  <2>1. headSaid' \in 0..MaxSaid
    BY <1>5, InstanceConstants DEF Heads!TypeOK, Heads!BridgeTurn, Heads!RolloutHeadConstants
  <2>2. QED
    BY <1>5, <2>1 DEF Heads!TypeOK, Heads!BridgeTurn
<1>6. CASE UNCHANGED headVars
  BY <1>6 DEF headVars, Heads!TypeOK
<1>7. QED
  BY <1>2, <1>3, <1>4, <1>5, <1>6 DEF HeadsNext

LEMMA HeadStep == HeadInv /\ [HeadsNext]_headVars => HeadInv'
<1> SUFFICES ASSUME HeadInv, [HeadsNext]_headVars PROVE HeadInv'
  OBVIOUS
<1>1. headLines \in Seq(Heads!Kinds) /\ Heads!TypeOK
      /\ HeadRead(headLines, Heads!Summary(headLines))
  BY DEF HeadInv, Heads!TypeOK
<1>2. CASE headLines' = headLines
  BY <1>1, <1>2, LinesStep DEF HeadInv
<1>3. ASSUME NEW line \in Heads!Kinds, headLines' = Append(headLines, line) PROVE HeadInv'
  <2>1. HeadRead(headLines', Heads!Summary(headLines'))
    BY <1>1, <1>3, SummaryGrows, HeadReadGrows
  <2>2. QED
    BY <1>1, <2>1, LinesStep DEF HeadInv
<1>4. QED
  BY <1>1, <1>2, <1>3, LinesStep

\* A file that is listed stays listed, with the entry it had.
LEMMA ListedStays ==
  HeadInv /\ [HeadsNext]_headVars
    => (Heads!Listed(headLines) =>
          Heads!Listed(headLines') /\ Heads!Item(headLines') = Heads!Item(headLines))
<1> SUFFICES ASSUME HeadInv, [HeadsNext]_headVars, Heads!Listed(headLines)
             PROVE  Heads!Listed(headLines') /\ Heads!Item(headLines') = Heads!Item(headLines)
  OBVIOUS
<1>1. headLines \in Seq(Heads!Kinds) /\ Heads!TypeOK
  BY DEF HeadInv, Heads!TypeOK
<1>2. ASSUME NEW line \in Heads!Kinds, headLines' = Append(headLines, line)
      PROVE  Heads!Summary(headLines') = Heads!Summary(headLines)
  <2>1. Heads!Summary(headLines') = Heads!ReadLine(Heads!Summary(headLines), line)
    BY <1>1, <1>2, SummaryGrows
  <2>2. ~Heads!Scanning(Heads!Summary(headLines))
    BY DEF Heads!Listed, Heads!Worth, Heads!Scanning
  <2>3. QED
    BY <2>1, <2>2 DEF Heads!ReadLine
<1>3. Heads!Summary(headLines') = Heads!Summary(headLines) /\ headAsked' = headAsked
  BY <1>1, <1>2, LinesStep
<1>4. QED
  BY <1>3 DEF Heads!Listed, Heads!Item, Heads!Worth, Heads!SourceMatches,
              Heads!ProviderMatches

LEMMA HeadsFound == HeadInv => Heads!ListedWhenFound /\ Heads!ReadShowsListed
<1> SUFFICES ASSUME HeadInv PROVE Heads!ListedWhenFound /\ Heads!ReadShowsListed
  OBVIOUS
<1> DEFINE s == Heads!Summary(headLines)
           metas == MetaPlaces(headLines)
           users == UserPlaces(headLines)
<1>1. /\ headLines \in Seq(Heads!Kinds) /\ s \in Summaries
      /\ HeaderRead(headLines, s) /\ UserRead(headLines, s)
      /\ HeadLimit \in Nat /\ UserLimit \in Nat /\ None \notin Heads!Kinds
  BY InstanceConstants DEF HeadInv, Heads!TypeOK, HeadRead, Heads!RolloutHeadConstants
<1> HIDE DEF s
<1>2. metas \subseteq Nat /\ users \subseteq Nat
  BY <1>1 DEF MetaPlaces, UserPlaces
<1>3. \A i \in metas \cup users : Place(headLines, i) \in Nat
  BY <1>2, PlaceType
<1> DEFINE Found(m, u) ==
             /\ FirstOf(metas, m) /\ FirstOf(users, u)
             /\ Heads!Place(m) <= HeadLimit /\ Heads!Place(u) <= HeadLimit + UserLimit
             /\ headAsked.sources = {} \/ Heads!SourceOf[headLines[m]] \in headAsked.sources
             /\ Heads!ProviderMatches(Heads!ProviderOf[headLines[m]])
<1>p. \A i : Heads!Place(i) = Place(headLines, i)
  <2>1. \A S : Heads!Cardinality(S) = Cardinality(S)
    BY DEF Heads!Cardinality, Cardinality
  <2>2. QED
    BY <2>1 DEF Heads!Place, Place
<1>4. Heads!Listed(headLines) <=> \E m \in metas, u \in users : Found(m, u)
  <2>1. Heads!Listed(headLines) <=>
          /\ headAsked.sources = {} \/ (s.id # None /\ Heads!SourceOf[s.id] \in headAsked.sources)
          /\ Heads!ProviderMatches(IF s.id = None THEN None ELSE Heads!ProviderOf[s.id])
          /\ s.id # None /\ s.user
    BY DEF Heads!Listed, Heads!Worth, Heads!SourceMatches, s
  <2>2. ASSUME NEW m \in metas, NEW u \in users, FirstOf(metas, m), FirstOf(users, u),
               Place(headLines, m) <= HeadLimit, Place(headLines, u) <= HeadLimit + UserLimit
        PROVE  s.id = headLines[m] /\ s.id # None /\ s.user
    <3>1. s.id # None
      BY <1>1, <1>3, <2>2 DEF HeaderRead
    <3>2. s.id = headLines[m]
      BY <1>1, <1>2, <2>2, <3>1 DEF HeaderRead, FirstOf
    <3>3. s.user
      <4>1. SUFFICES ASSUME ~s.user PROVE FALSE
        OBVIOUS
      <4>2. Place(headLines, u) > HeadLimit + UserLimit
        BY <1>1, <2>2, <3>1, <4>1 DEF UserRead
      <4>3. QED
        BY <1>1, <1>3, <2>2, <4>2
    <3>4. QED
      BY <3>1, <3>2, <3>3
  <2>3. ASSUME s.id # None, s.user
        PROVE  \E m \in metas, u \in users :
                 /\ FirstOf(metas, m) /\ FirstOf(users, u) /\ s.id = headLines[m]
                 /\ Place(headLines, m) <= HeadLimit
                 /\ Place(headLines, u) <= HeadLimit + UserLimit
    <3>1. PICK m \in metas : FirstOf(metas, m) /\ s.id = headLines[m]
                             /\ Place(headLines, m) <= HeadLimit
      BY <1>1, <2>3 DEF HeaderRead
    <3>2. PICK u \in users : FirstOf(users, u) /\ Place(headLines, u) <= HeadLimit + UserLimit
      BY <1>1, <2>3 DEF UserRead
    <3>3. QED
      BY <3>1, <3>2
  <2>4. ASSUME Heads!Listed(headLines) PROVE \E m \in metas, u \in users : Found(m, u)
    <3>1. /\ headAsked.sources = {} \/ Heads!SourceOf[s.id] \in headAsked.sources
          /\ Heads!ProviderMatches(Heads!ProviderOf[s.id])
          /\ s.id # None /\ s.user
      BY <2>1, <2>4
    <3>2. PICK m \in metas, u \in users :
                 /\ FirstOf(metas, m) /\ FirstOf(users, u) /\ s.id = headLines[m]
                 /\ Place(headLines, m) <= HeadLimit
                 /\ Place(headLines, u) <= HeadLimit + UserLimit
      BY <2>3, <3>1, Zenon
    <3>3. Found(m, u)
      BY <1>p, <3>1, <3>2
    <3> HIDE DEF Found, metas, users
    <3>4. QED
      BY <3>3
  <2>5. ASSUME NEW m \in metas, NEW u \in users, Found(m, u) PROVE Heads!Listed(headLines)
    <3>1. s.id = headLines[m] /\ s.id # None /\ s.user
      BY <1>p, <2>2, <2>5
    <3>2. QED
      BY <2>1, <2>5, <3>1
  <2> HIDE DEF Found, metas, users
  <2>6. QED
    BY <2>4, <2>5
<1>5. Heads!ListedWhenFound
  BY <1>4 DEF Heads!ListedWhenFound, FirstOf, MetaPlaces, UserPlaces
<1>6. Heads!ReadShowsListed
  <2> SUFFICES ASSUME Heads!Listed(headLines)
               PROVE  Heads!SessionMeta(headLines) \in {None, s.id}
    BY DEF Heads!ReadShowsListed, Heads!Item, s
  <2> DEFINE R == Heads!Records(headLines)
             first == Heads!Min(R)
  <2>1. s.id # None
    BY DEF Heads!Listed, Heads!Worth, s
  <2>2. PICK m \in metas : FirstOf(metas, m) /\ s.id = headLines[m]
    BY <1>1, <2>1 DEF HeaderRead
  <2>3. m \in R /\ R \in SUBSET Nat
    BY <1>1, <2>2 DEF Heads!Records, MetaPlaces
  <2>4. first \in R /\ \A i \in R : first <= i
    BY <2>3, LeastNumber DEF Heads!Min
  <2> HIDE DEF first
  <2>5. CASE headLines[first] \in Heads!Metas
    <3>1. first \in metas
      BY <1>1, <2>4, <2>5 DEF Heads!Records, MetaPlaces
    <3>2. first = m
      BY <1>2, <2>2, <2>3, <2>4, <3>1 DEF FirstOf
    <3>3. QED
      BY <2>2, <3>2 DEF Heads!SessionMeta, first
  <2>6. CASE headLines[first] \notin Heads!Metas
    BY <2>6 DEF Heads!SessionMeta, first
  <2>7. QED
    BY <2>5, <2>6
<1>7. QED
  BY <1>5, <1>6

-----------------------------------------------------------------------------
(* The pages rollout files are listed on.                                    *)

LEMMA ListsCardinality == \A S : Lists!Cardinality(S) = Cardinality(S)
  BY DEF Lists!Cardinality, Cardinality

\* Files are in a line by their time and number.
LEMMA NewerOrder ==
  ASSUME Lists!TypeOK
  PROVE  /\ \A f \in Lists!Files : Lists!TimeOf(f) \in Nat /\ f \in Nat
         /\ \A f \in Lists!Files : ~Lists!Newer(f, f)
         /\ \A f, g \in Lists!Files : f # g => Lists!Newer(f, g) \/ Lists!Newer(g, f)
         /\ \A f, g, h \in Lists!Files :
              Lists!Newer(f, g) /\ Lists!Newer(g, h) => Lists!Newer(f, h)
<1>1. \A f \in Lists!Files : Lists!TimeOf(f) \in Nat /\ f \in Nat
  BY InstanceConstants
     DEF Lists!TypeOK, Lists!TimeOf, Lists!CreatedAt, Lists!UpdatedAt, Lists!Files, Lists!Times,
         Lists!RolloutPagesConstants
<1>2. QED
  BY <1>1 DEF Lists!Newer, Lists!Before

LEMMA FilesFinite ==
  ASSUME NEW S \in SUBSET Lists!Files
  PROVE  IsFiniteSet(S) /\ Cardinality(S) \in Nat /\ Cardinality(S) <= MaxFile
<1>1. MaxFile \in Nat
  BY InstanceConstants DEF Lists!RolloutPagesConstants
<1>2. IsFiniteSet(Lists!Files) /\ Cardinality(Lists!Files) = MaxFile
  <2>1. IsFiniteSet(1..MaxFile) /\ Cardinality(1..MaxFile) = IF 1 > MaxFile THEN 0
        ELSE MaxFile - 1 + 1
    BY <1>1, FS_Interval
  <2>2. QED
    BY <1>1, <2>1 DEF Lists!Files
<1>3. QED
  BY <1>2, FS_Subset, FS_CardinalityType

LEMMA OldestFile ==
  ASSUME Lists!TypeOK, NEW S \in SUBSET Lists!Files, S # {}
  PROVE  \E o \in S : \A f \in S \ {o} : Lists!Newer(f, o)
<1>1. \A f \in S : Lists!TimeOf(f) \in Nat /\ f \in Nat /\ f \in Lists!Files
  BY NewerOrder
<1> DEFINE times == {Lists!TimeOf(f) : f \in S}
<1>2. PICK t \in times : \A u \in times : t <= u
  <2>1. times \in SUBSET Nat /\ times # {}
    BY <1>1
  <2> HIDE DEF times
  <2>2. QED
    BY <2>1, LeastNumber
<1> DEFINE first == {f \in S : Lists!TimeOf(f) = t}
<1>3. PICK o \in first : \A f \in first : o <= f
  BY <1>1, LeastNumber
<1>4. ASSUME NEW f \in S \ {o} PROVE Lists!Newer(f, o)
  <2>1. Lists!TimeOf(f) >= Lists!TimeOf(o)
    BY <1>1, <1>2, <1>3
  <2>2. Lists!TimeOf(f) = Lists!TimeOf(o) => f > o
    BY <1>1, <1>3
  <2>3. QED
    BY <1>1, <1>3, <2>1, <2>2 DEF Lists!Newer, Lists!Before
<1>5. QED
  BY <1>3, <1>4

\* The files of a set, newest first.
SortedAs(S, s) ==
  /\ s \in [1..Cardinality(S) -> S]
  /\ \A f \in S : \E i \in 1..Cardinality(S) : s[i] = f
  /\ \A i, j \in 1..Cardinality(S) : i < j => Lists!Newer(s[i], s[j])

LEMMA FilesSort ==
  ASSUME Lists!TypeOK, NEW S \in SUBSET Lists!Files
  PROVE  \E s : SortedAs(S, s)
<1> DEFINE P(n) == \A R \in SUBSET Lists!Files : Cardinality(R) = n => \E s : SortedAs(R, s)
           T == {n \in Nat : P(n)}
<1>1. P(0)
  <2> SUFFICES ASSUME NEW R \in SUBSET Lists!Files, Cardinality(R) = 0 PROVE \E s : SortedAs(R, s)
    OBVIOUS
  <2>1. R = {} /\ 1..0 = {}
    BY FilesFinite, FS_EmptySet
  <2>2. SortedAs(R, <<>>)
    BY <2>1 DEF SortedAs
  <2>3. QED
    BY <2>2
<1>2. ASSUME NEW n \in Nat, P(n) PROVE P(n + 1)
  <2> SUFFICES ASSUME NEW R \in SUBSET Lists!Files, Cardinality(R) = n + 1
               PROVE  \E s : SortedAs(R, s)
    OBVIOUS
  <2>1. IsFiniteSet(R) /\ R # {}
    BY FilesFinite, FS_EmptySet
  <2>2. PICK o \in R : \A f \in R \ {o} : Lists!Newer(f, o)
    BY <2>1, OldestFile
  <2>3. R \ {o} \in SUBSET Lists!Files /\ Cardinality(R \ {o}) = n
    BY <2>1, FS_RemoveElement
  <2>4. PICK s : SortedAs(R \ {o}, s)
    BY <1>2, <2>3
  <2>5. /\ s \in [1..n -> R \ {o}] /\ \A f \in R \ {o} : \E i \in 1..n : s[i] = f
        /\ \A i, j \in 1..n : i < j => Lists!Newer(s[i], s[j])
    BY <2>3, <2>4 DEF SortedAs
  <2> DEFINE more == [i \in 1..(n + 1) |-> IF i <= n THEN s[i] ELSE o]
  <2>6. more \in [1..(n + 1) -> R]
    BY <2>5
  <2>7. ASSUME NEW f \in R PROVE \E i \in 1..(n + 1) : more[i] = f
    <3>1. CASE f = o
      <4>1. more[n + 1] = o /\ n + 1 \in 1..(n + 1)
        OBVIOUS
      <4>2. QED
        BY <3>1, <4>1
    <3>2. CASE f # o
      <4>1. PICK i \in 1..n : s[i] = f
        BY <2>5, <3>2
      <4>2. i \in 1..(n + 1) /\ more[i] = f
        BY <4>1
      <4>3. QED
        BY <4>2
    <3>3. QED
      BY <3>1, <3>2
  <2>8. ASSUME NEW i \in 1..(n + 1), NEW j \in 1..(n + 1), i < j
        PROVE  Lists!Newer(more[i], more[j])
    <3>1. i \in 1..n /\ more[i] = s[i] /\ s[i] \in R \ {o}
      BY <2>5, <2>8
    <3>2. CASE j \in 1..n
      BY <2>5, <2>8, <3>1, <3>2
    <3>3. CASE j = n + 1
      BY <2>2, <3>1, <3>3
    <3>4. QED
      BY <3>2, <3>3
  <2> HIDE DEF more
  <2>9. SortedAs(R, more)
    BY <2>6, <2>7, <2>8 DEF SortedAs
  <2>10. QED
    BY <2>9
<1>3. Nat \subseteq T
  <2>1. 0 \in T
    BY <1>1
  <2>2. ASSUME NEW n \in Nat, n \in T PROVE n + 1 \in T
    <3> HIDE DEF P
    <3>1. QED
      BY <1>2, <2>2
  <2> HIDE DEF T
  <2>3. QED
    BY <2>1, <2>2, Induction
<1>4. P(Cardinality(S))
  <2> HIDE DEF P
  <2>1. QED
    BY <1>3, FilesFinite
<1>5. QED
  BY <1>4

LEMMA NewestFirstSorts ==
  ASSUME Lists!TypeOK, NEW S \in SUBSET Lists!Files
  PROVE  SortedAs(S, Lists!NewestFirst(S))
<1> DEFINE n == Cardinality(S)
           Sorted(s) == \A i, j \in DOMAIN s : i < j => Lists!Newer(s[i], s[j])
           t == Lists!NewestFirst(S)
<1>1. n \in Nat /\ IsFiniteSet(S)
  BY FilesFinite
<1>2. Lists!SetToSeqs(S) = {s \in [1..n -> S] : \A i, j \in 1..n : i # j => s[i] # s[j]}
  BY ListsCardinality DEF Lists!SetToSeqs
<1>3. \E s \in Lists!SetToSeqs(S) : Sorted(s)
  <2>1. PICK s : SortedAs(S, s)
    BY FilesSort
  <2>2. s \in [1..n -> S] /\ \A i, j \in 1..n : i < j => Lists!Newer(s[i], s[j])
    BY <2>1 DEF SortedAs
  <2>3. ASSUME NEW i \in 1..n, NEW j \in 1..n, i # j PROVE s[i] # s[j]
    <3>1. s[i] \in Lists!Files /\ s[j] \in Lists!Files
      BY <2>2
    <3>2. Lists!Newer(s[i], s[j]) \/ Lists!Newer(s[j], s[i])
      <4>1. i < j \/ j < i
        BY <1>1, <2>3
      <4>2. QED
        BY <2>2, <4>1
    <3>3. QED
      BY <3>1, <3>2, NewerOrder
  <2>4. s \in Lists!SetToSeqs(S)
    BY <1>2, <2>2, <2>3
  <2>5. DOMAIN s = 1..n
    BY <2>2
  <2>6. Sorted(s)
    BY <2>2, <2>5
  <2>7. QED
    BY <2>4, <2>6
<1>4. t \in Lists!SetToSeqs(S) /\ Sorted(t)
  BY <1>3 DEF Lists!NewestFirst
<1> HIDE DEF t
<1>5. t \in [1..n -> S] /\ \A i, j \in 1..n : i # j => t[i] # t[j]
  BY <1>2, <1>4
<1>6. \A i, j \in 1..n : i < j => Lists!Newer(t[i], t[j])
  BY <1>4, <1>5
<1>7. t \in Surjection(1..n, S)
  <2>1. t \in Injection(1..n, S)
    BY <1>5 DEF Injection, IsInjective
  <2>2. IsFiniteSet(1..n) /\ Cardinality(1..n) = n
    <3>1. 1 \in Int /\ n \in Int
      BY <1>1
    <3>2. Cardinality(1..n) = IF 1 > n THEN 0 ELSE n - 1 + 1
      BY <3>1, FS_Interval
    <3>3. QED
      BY <1>1, <3>1, <3>2, FS_Interval
  <2>3. QED
    BY <1>1, <2>1, <2>2, FS_Injection
<1>8. \A f \in S : \E i \in 1..n : t[i] = f
  BY <1>7 DEF Surjection
<1>9. QED
  BY <1>5, <1>6, <1>8 DEF SortedAs, t

\* What a page shows of the files after the cursor: the newest ones, in order,
\* and a next page behind the last one unless there is nothing left to show.
LEMMA PageShows ==
  ASSUME Lists!TypeOK, NEW walk \in SUBSET Lists!Files, Cardinality(walk) < ScanCap
  PROVE  LET S == Lists!Candidates(listNext, walk) \ listHidden
             page == Lists!Page(listNext, walk)
             items == page.items
         IN  /\ items \in Seq(Lists!Files) /\ \A i \in DOMAIN items : items[i] \in S
             /\ \A i, j \in DOMAIN items : i < j => Lists!Newer(items[i], items[j])
             /\ page.next = None => \A f \in S : \E i \in DOMAIN items : items[i] = f
             /\ page.next # None =>
                  /\ items # <<>> /\ page.next = Lists!CursorAt(items[Len(items)])
                  /\ \A f \in S : (\E i \in DOMAIN items : items[i] = f)
                                  \/ Lists!Newer(items[Len(items)], f)
<1> DEFINE after == Lists!Candidates(listNext, walk)
           S == after \ listHidden
           all == Lists!NewestFirst(S)
           n == Cardinality(S)
           size == listListing.size
           m == IF n < size THEN n ELSE size
           items == SubSeq(all, 1, m)
           page == Lists!Page(listNext, walk)
<1>1. S \in SUBSET Lists!Files /\ S \subseteq after
  BY DEF Lists!Candidates
<1>2. n \in Nat /\ SortedAs(S, all)
  BY <1>1, FilesFinite, NewestFirstSorts
<1>3. size \in Nat /\ size > 0
  <2>1. size \in PageSizes
    BY DEF Lists!TypeOK
  <2>2. PageSizes \subseteq Nat \ {0}
    BY InstanceConstants DEF Lists!RolloutPagesConstants
  <2> HIDE DEF size
  <2>3. QED
    BY <2>1, <2>2
<1> HIDE DEF S, all, n, size, after
<1>4. all \in [1..n -> S] /\ (\A f \in S : \E i \in 1..n : all[i] = f)
      /\ (\A i, j \in 1..n : i < j => Lists!Newer(all[i], all[j]))
  BY <1>2 DEF SortedAs, n
<1>5. Len(all) = n /\ all \in Seq(Lists!Files)
  BY <1>1, <1>2, <1>4
<1>6. m \in 0..n /\ m <= size
  BY <1>2, <1>3
<1>7. items = [i \in 1..m |-> all[i]]
  BY <1>4, <1>5, <1>6
<1> HIDE DEF m, items
<1>8. /\ items \in Seq(Lists!Files) /\ Len(items) = m /\ DOMAIN items = 1..m
      /\ \A i \in 1..m : items[i] = all[i] /\ items[i] \in S
  BY <1>1, <1>2, <1>4, <1>6, <1>7
<1>9. page = [items |-> items,
              next |-> IF Lists!MoreBehind(walk, after, items)
                THEN Lists!CursorAt(Lists!Last(items))
                       ELSE None]
  BY <1>5 DEF Lists!Page, items, m, all, S, after, size
<1> HIDE DEF page
<1>10. Lists!MoreBehind(walk, after, items) <=>
         m = size /\ \E f \in after : Lists!Newer(items[m], f)
  <2>1. ~(Lists!Cardinality(walk) >= ScanCap)
    <3>1. Cardinality(walk) \in Nat /\ ScanCap \in Nat
      BY FilesFinite, InstanceConstants DEF Lists!RolloutPagesConstants
    <3>2. QED
      BY <3>1, ListsCardinality
  <2>2. QED
    BY <1>8, <2>1 DEF Lists!MoreBehind, Lists!Last, size
\* What is not on the page is behind its last item.
<1>11. ASSUME NEW f \in S, \A i \in 1..m : items[i] # f
       PROVE  m = size /\ Lists!Newer(items[m], f)
  <2>1. PICK i \in 1..n : all[i] = f
    BY <1>4
  <2>2. i > m
    BY <1>6, <1>8, <1>11, <2>1
  <2>3. m = size /\ m \in 1..n /\ m \in 1..m
    BY <1>2, <1>3, <1>6, <2>2 DEF m
  <2>4. QED
    BY <1>4, <1>8, <2>1, <2>2, <2>3
<1>12. page.items = items /\ page.next = IF Lists!MoreBehind(walk, after, items)
                                        THEN Lists!CursorAt(items[m]) ELSE None
  BY <1>8, <1>9 DEF Lists!Last
<1>13. m = size => items # <<>> /\ items[m] \in Lists!Files
  <2> SUFFICES ASSUME m = size PROVE m \in 1..m /\ items # <<>> /\ items[m] \in Lists!Files
    OBVIOUS
  <2>1. m \in 1..m
    BY <1>3
  <2>2. QED
    BY <1>8, <2>1
<1>14. \A f \in Lists!Files : Lists!CursorAt(f) # None
  BY NewerOrder, InstanceConstants
     DEF Lists!CursorAt, Lists!RolloutPagesConstants, Lists!TypeOK, Lists!TimeOf, Lists!CreatedAt,
         Lists!UpdatedAt
<1>15. ASSUME page.next = None, NEW f \in S PROVE \E i \in 1..m : items[i] = f
  BY <1>1, <1>10, <1>11, <1>12, <1>13, <1>14, <1>15
<1>16. ASSUME page.next # None
       PROVE  /\ items # <<>> /\ page.next = Lists!CursorAt(items[m])
              /\ \A f \in S : (\E i \in 1..m : items[i] = f) \/ Lists!Newer(items[m], f)
  BY <1>10, <1>11, <1>12, <1>13, <1>16
<1>17. \A i, j \in 1..m : i < j => Lists!Newer(items[i], items[j])
  <2> TAKE i, j \in 1..m
  <2>1. i \in 1..n /\ j \in 1..n
    BY <1>2, <1>6
  <2>2. QED
    BY <1>4, <1>8, <2>1
<1> HIDE DEF page
<1>18. QED
  BY <1>8, <1>12, <1>15, <1>16, <1>17, Zenon DEF page, S, after

\* What has happened has happened by now.
TimesPassed ==
  \A f \in listFiles : listCreated[f] <= listNow /\ listUpdated[f] <= listNow

\* The cursor is behind what was shown, of files that are there or were touched.
ShownIsBefore ==
  \A i \in DOMAIN listShown :
    /\ listShown[i] \in listFiles \cup listFresh
    /\ listStatus = "paging" => ~Lists!AfterCursor(listNext, listShown[i])

\* What is still to be shown is after it.
RestIsAfter ==
  listStatus # "end" =>
    \A f \in listFiles \ (listHidden \cup listFresh) :
      (\E i \in DOMAIN listShown : listShown[i] = f) \/ Lists!AfterCursor(listNext, f)

CursorKnown ==
  /\ listStatus = "new" => listShown = <<>> /\ listNext = None
  /\ listStatus = "paging" => listNext # None

ListInv ==
  /\ Lists!TypeOK /\ TimesPassed /\ ShownIsBefore /\ RestIsAfter /\ CursorKnown
  /\ Lists!ShownOnce /\ Lists!AllShown /\ Lists!ShownInOrder

ListsNext ==
  \/ Lists!ListPage
  \/ Lists!Tick
  \/ \E f \in 1..MaxFile : Lists!FileCreated(f)
  \/ \E f \in 1..MaxFile : Lists!FileWritten(f)
  \/ \E f \in 1..MaxFile : Lists!FileArchived(f)

LEMMA InitListInv == Lists!Init => ListInv
<1> SUFFICES ASSUME Lists!Init PROVE ListInv
  OBVIOUS
<1> USE InstanceConstants DEF Lists!RolloutPagesConstants
<1>1. /\ listShown = <<>> /\ listNext = None /\ listFresh = {} /\ listStatus = "new"
      /\ listForeign = {} /\ listSessions = {} /\ listFiles \in SUBSET Lists!Files
      /\ listNow \in Lists!Times /\ listHidden \in SUBSET Lists!Files
      /\ listCreated \in [Lists!Files -> Lists!Times]
         /\ listUpdated \in [Lists!Files -> Lists!Times]
      /\ listListing \in [key : SortKeys, layout : Layouts, size : PageSizes]
  BY DEF Lists!Init
<1>2. \A f \in listFiles : listCreated[f] <= listUpdated[f] /\ listUpdated[f] <= listNow
  BY DEF Lists!Init
<1>3. listNow \in Nat /\ \A f \in listFiles : listCreated[f] \in Nat /\ listUpdated[f] \in Nat
  BY <1>1 DEF Lists!Times
<1>4. TimesPassed
  BY <1>2, <1>3 DEF TimesPassed
<1>5. listShown \in Seq(Lists!Files) /\ DOMAIN listShown = {}
  BY <1>1
<1>6. Lists!TypeOK
  BY <1>1, <1>5 DEF Lists!TypeOK
<1>7. ShownIsBefore /\ RestIsAfter /\ CursorKnown
  BY <1>1, <1>5 DEF ShownIsBefore, RestIsAfter, CursorKnown, Lists!AfterCursor
<1>8. Lists!ShownOnce /\ Lists!AllShown /\ Lists!ShownInOrder
  BY <1>1, <1>5 DEF Lists!ShownOnce, Lists!IsInjective, Lists!AllShown, Lists!ShownInOrder
<1>9. QED
  BY <1>4, <1>6, <1>7, <1>8 DEF ListInv

\* What is not after the cursor is newer than what is, and what is after a cursor
\* is what its file is newer than.
LEMMA CursorOrder ==
  ASSUME Lists!TypeOK, NEW f \in Lists!Files, NEW g \in Lists!Files
  PROVE  /\ ~Lists!AfterCursor(listNext, f) /\ Lists!AfterCursor(listNext, g) => Lists!Newer(f, g)
         /\ Lists!CursorAt(g) \in [ts : Lists!Times, id : Lists!Files]
         /\ Lists!AfterCursor(Lists!CursorAt(g), f) <=> Lists!Newer(g, f)
<1>1. Lists!TimeOf(f) \in Nat /\ f \in Nat /\ Lists!TimeOf(g) \in Nat /\ g \in Nat
  BY NewerOrder
<1>2. Lists!CursorAt(g) \in [ts : Lists!Times, id : Lists!Files]
  BY DEF Lists!TypeOK, Lists!CursorAt, Lists!TimeOf, Lists!CreatedAt, Lists!UpdatedAt
<1>3. Lists!CursorAt(g) # None
  BY <1>2, InstanceConstants DEF Lists!RolloutPagesConstants
<1>4. Lists!CursorAt(g).ts = Lists!TimeOf(g) /\ Lists!CursorAt(g).id = g
  BY DEF Lists!CursorAt
<1>5. CASE listNext # None
  <2>1. listNext \in [ts : Lists!Times, id : Lists!Files]
    BY <1>5 DEF Lists!TypeOK
  <2>2. listNext.ts \in Nat /\ listNext.id \in Nat
    BY <2>1 DEF Lists!Times, Lists!Files
  <2>3. QED
    BY <1>1, <1>2, <1>3, <1>4, <2>2 DEF Lists!AfterCursor, Lists!Newer, Lists!Before
<1>6. CASE listNext = None
  BY <1>2, <1>3, <1>4, <1>6 DEF Lists!AfterCursor, Lists!Newer
<1>7. QED
  BY <1>5, <1>6

LEMMA PageStep == MaxFile < ScanCap /\ ListInv /\ Lists!ListPage => ListInv'
<1> SUFFICES ASSUME MaxFile < ScanCap, ListInv, Lists!ListPage PROVE ListInv'
  OBVIOUS
<1>1. PICK walk \in SUBSET listFiles :
        LET page == Lists!Page(listNext, walk) IN
        /\ listStatus # "end" /\ Lists!Walked(walk)
        /\ listShown' = listShown \o page.items
        /\ listForeign' = IF listNext = None THEN Lists!Unlisted(page.items) ELSE listForeign
        /\ listNext' = page.next
        /\ listStatus' = IF page.next = None THEN "end" ELSE "paging"
        /\ UNCHANGED <<Lists!worldVars, listListing, listSessions, listFresh>>
  BY DEF Lists!ListPage
<1>2. Lists!TypeOK /\ listFiles \subseteq Lists!Files /\ listShown \in Seq(Lists!Files)
  BY DEF ListInv, Lists!TypeOK
<1>3. walk = listFiles /\ Cardinality(walk) < ScanCap
  <2>1. IsFiniteSet(listFiles) /\ Cardinality(listFiles) \in Nat
        /\ Cardinality(listFiles) <= MaxFile
    BY <1>2, FilesFinite
  <2>2. MaxFile \in Nat /\ ScanCap \in Nat
    BY InstanceConstants DEF Lists!RolloutPagesConstants
  <2>3. Cardinality(walk) = Cardinality(listFiles)
    BY <1>1, <2>1, <2>2, ListsCardinality DEF Lists!Walked
  <2>4. walk = listFiles
    BY <2>1, <2>3, FS_Subset
  <2>5. QED
    BY <2>1, <2>2, <2>4
<1> DEFINE page == Lists!Page(listNext, listFiles)
           items == page.items
           S == Lists!Candidates(listNext, listFiles) \ listHidden
           n == Len(listShown)
           k == Len(items)
<1>4. /\ items \in Seq(Lists!Files) /\ \A i \in DOMAIN items : items[i] \in S
      /\ \A i, j \in DOMAIN items : i < j => Lists!Newer(items[i], items[j])
      /\ page.next = None => \A f \in S : \E i \in DOMAIN items : items[i] = f
      /\ page.next # None =>
           /\ items # <<>> /\ page.next = Lists!CursorAt(items[k])
           /\ \A f \in S : (\E i \in DOMAIN items : items[i] = f) \/ Lists!Newer(items[k], f)
  BY <1>2, <1>3, PageShows
<1>5. /\ listStatus # "end" /\ listShown' = listShown \o items
      /\ listForeign' = IF listNext = None THEN Lists!Unlisted(items) ELSE listForeign
      /\ listNext' = page.next
      /\ listStatus' = IF page.next = None THEN "end" ELSE "paging"
      /\ UNCHANGED <<Lists!worldVars, listListing, listSessions, listFresh>>
  BY <1>1, <1>3
<1> HIDE DEF page
<1>6. \A f \in S : f \in listFiles \ listHidden /\ f \in Lists!Files
      /\ Lists!AfterCursor(listNext, f)
  BY <1>2 DEF Lists!Candidates
<1>7. /\ UNCHANGED <<listFiles, listCreated, listUpdated, listHidden, listNow>>
      /\ \A f, g : Lists!Newer(f, g)' <=> Lists!Newer(f, g)
  BY <1>5 DEF Lists!worldVars, Lists!Newer, Lists!TimeOf, Lists!SortedByUpdate,
              Lists!CreatedAt, Lists!UpdatedAt
<1>8. \A f : Lists!AfterCursor(listNext, f)' <=> Lists!AfterCursor(page.next, f)
  BY <1>5, <1>7 DEF Lists!worldVars, Lists!AfterCursor, Lists!TimeOf, Lists!SortedByUpdate,
                    Lists!CreatedAt, Lists!UpdatedAt
<1> HIDE DEF S, items
<1>9. /\ n \in Nat /\ k \in Nat /\ DOMAIN listShown = 1..n /\ DOMAIN items = 1..k
      /\ listShown' \in Seq(Lists!Files) /\ DOMAIN listShown' = 1..(n + k)
      /\ \A i \in 1..n : listShown'[i] = listShown[i] /\ listShown[i] \in Lists!Files
      /\ \A i \in 1..(n + k) : i \notin 1..n => i - n \in 1..k /\ listShown'[i] = items[i - n]
      /\ \A j \in 1..k : n + j \in 1..(n + k) /\ listShown'[n + j] = items[j]
  BY <1>2, <1>4, <1>5
<1> HIDE DEF n, k
<1>10. ASSUME NEW i \in 1..n, NEW j \in 1..k PROVE Lists!Newer(listShown[i], items[j])
  <2>1. ~Lists!AfterCursor(listNext, listShown[i])
    <3>1. listStatus # "new"
      BY <1>9 DEF ListInv, CursorKnown
    <3>2. listStatus = "paging"
      BY <1>2, <1>5, <3>1 DEF Lists!TypeOK
    <3>3. QED
      BY <1>9, <3>2 DEF ListInv, ShownIsBefore
  <2>2. items[j] \in Lists!Files /\ Lists!AfterCursor(listNext, items[j])
    BY <1>4, <1>6, <1>9
  <2>3. QED
    BY <1>2, <1>9, <2>1, <2>2, CursorOrder
<1>11. ASSUME NEW i \in 1..(n + k), NEW j \in 1..(n + k), i < j
       PROVE  (i \in 1..n /\ j \in 1..n) \/ Lists!Newer(listShown'[i], listShown'[j])
  <2>1. CASE i \in 1..n /\ j \notin 1..n
    BY <1>9, <1>10, <2>1
  <2>2. CASE i \notin 1..n /\ j \notin 1..n
    <3>1. i - n \in 1..k /\ j - n \in 1..k /\ i - n < j - n
      BY <1>9, <1>11, <2>2
    <3>2. Lists!Newer(items[i - n], items[j - n])
      BY <1>4, <1>9, <3>1
    <3>3. listShown'[i] = items[i - n] /\ listShown'[j] = items[j - n]
      BY <1>9, <2>2
    <3>4. QED
      BY <3>2, <3>3
  <2>3. CASE i \notin 1..n /\ j \in 1..n
    BY <1>9, <1>11, <2>3
  <2>4. QED
    BY <2>1, <2>2, <2>3
<1>12. \A i \in 1..(n + k) : listShown'[i] \in Lists!Files
  BY <1>9
<1>13. Lists!ShownOnce'
  <2> SUFFICES ASSUME NEW i \in 1..(n + k), NEW j \in 1..(n + k), i < j
               PROVE  listShown'[i] # listShown'[j]
    <3>1. SUFFICES ASSUME NEW i \in 1..(n + k), NEW j \in 1..(n + k), i # j
                   PROVE  listShown'[i] # listShown'[j]
      BY <1>9 DEF Lists!ShownOnce, Lists!IsInjective
    <3>2. i < j \/ j < i
      BY <1>9, <3>1
    <3>3. QED
      BY <3>2
  <2>1. CASE i \in 1..n /\ j \in 1..n
    <3>1. listShown[i] # listShown[j]
      BY <1>9, <2>1 DEF ListInv, Lists!ShownOnce, Lists!IsInjective
    <3>2. QED
      BY <1>9, <2>1, <3>1
  <2>2. CASE Lists!Newer(listShown'[i], listShown'[j])
    BY <1>2, <1>12, <2>2, NewerOrder
  <2>3. QED
    BY <1>11, <2>1, <2>2
<1>14. Lists!ShownInOrder'
  <2> SUFFICES ASSUME NEW i \in 1..(n + k), NEW j \in 1..(n + k), i < j,
                      {listShown'[i], listShown'[j]} \cap listFresh = {}
               PROVE  Lists!Newer(listShown'[i], listShown'[j])
    BY <1>5, <1>7, <1>9 DEF Lists!ShownInOrder
  <2>1. CASE i \in 1..n /\ j \in 1..n
    BY <1>9, <2>1 DEF ListInv, Lists!ShownInOrder
  <2>2. QED
    BY <1>11, <2>1
<1>15. ASSUME page.next # None, NEW i \in 1..(n + k)
       PROVE  ~Lists!AfterCursor(page.next, listShown'[i])
  <2> DEFINE l == items[k]
  <2>1. k \in 1..k /\ l \in Lists!Files /\ page.next = Lists!CursorAt(l)
    <3>1. k # 0
      BY <1>4, <1>15 DEF k
    <3>2. QED
      BY <1>4, <1>9, <1>15, <3>1
  <2>2. listShown'[n + k] = l /\ n + k \in 1..(n + k)
    BY <1>9, <2>1
  <2>3. listShown'[i] = l \/ Lists!Newer(listShown'[i], l)
    <3>1. i = n + k \/ i < n + k
      BY <1>9
    <3>2. n + k \notin 1..n
      BY <1>9, <2>1
    <3>3. QED
      BY <1>11, <2>2, <3>1, <3>2
  <2>4. ~Lists!Newer(l, listShown'[i])
    BY <1>2, <1>12, <2>1, <2>3, NewerOrder
  <2>5. QED
    BY <1>2, <1>12, <2>1, <2>4, CursorOrder
<1>16. ShownIsBefore'
  <2>1. ASSUME NEW i \in 1..(n + k) PROVE listShown'[i] \in listFiles \cup listFresh
    <3>1. CASE i \in 1..n
      BY <1>9, <3>1 DEF ListInv, ShownIsBefore
    <3>2. CASE i \notin 1..n
      BY <1>4, <1>6, <1>9, <3>2
    <3>3. QED
      BY <3>1, <3>2
  <2>2. QED
    BY <1>5, <1>7, <1>8, <1>9, <1>15, <2>1 DEF ShownIsBefore
<1>17. ASSUME NEW f \in listFiles \ (listHidden \cup listFresh)
       PROVE  \/ \E i \in 1..(n + k) : listShown'[i] = f
              \/ page.next # None /\ Lists!AfterCursor(page.next, f)
  <2>1. CASE \E i \in 1..n : listShown[i] = f
    <3>1. PICK i \in 1..n : listShown[i] = f
      BY <2>1
    <3>2. i \in 1..(n + k) /\ listShown'[i] = f
      BY <1>9, <3>1
    <3>3. QED
      BY <3>2
  <2>2. CASE Lists!AfterCursor(listNext, f)
    <3>1. f \in S /\ f \in Lists!Files
      BY <1>2, <2>2 DEF S, Lists!Candidates
    <3>2. ASSUME NEW j \in 1..k, items[j] = f PROVE \E i \in 1..(n + k) : listShown'[i] = f
      BY <1>9, <3>2
    <3>3. CASE page.next = None
      BY <1>4, <1>9, <3>1, <3>2, <3>3
    <3>4. CASE page.next # None
      <4>1. (\E i \in 1..k : items[i] = f) \/ Lists!Newer(items[k], f)
        BY <1>4, <1>9, <3>1, <3>4
      <4>2. page.next = Lists!CursorAt(items[k]) /\ items[k] \in Lists!Files
        <5>1. k # 0
          BY <1>4, <3>4 DEF k
        <5>2. QED
          BY <1>4, <1>9, <3>4, <5>1
      <4>3. QED
        BY <1>2, <3>1, <3>2, <3>4, <4>1, <4>2, CursorOrder
    <3>5. QED
      BY <3>3, <3>4
  <2>3. QED
    BY <1>5, <1>9, <2>1, <2>2 DEF ListInv, RestIsAfter
<1>18. RestIsAfter' /\ Lists!AllShown'
  <2>1. RestIsAfter'
    BY <1>5, <1>7, <1>8, <1>9, <1>17 DEF RestIsAfter
  <2>2. Lists!AllShown'
    BY <1>5, <1>7, <1>9, <1>17 DEF Lists!AllShown, Lists!ToSet
  <2>3. QED
    BY <2>1, <2>2
<1>19. Lists!TypeOK'
  <2>1. listForeign' \subseteq listSessions'
    BY <1>5 DEF ListInv, Lists!TypeOK, Lists!Unlisted
  <2>2. listNext' \in [ts : Lists!Times, id : Lists!Files] \cup {None}
    <3>1. CASE page.next # None
      <4>1. k # 0
        BY <1>4, <3>1 DEF k
      <4>2. items[k] \in Lists!Files /\ page.next = Lists!CursorAt(items[k])
        BY <1>4, <1>9, <3>1, <4>1
      <4>3. QED
        BY <1>2, <1>5, <4>2, CursorOrder
    <3>2. QED
      BY <1>5, <3>1
  <2>3. QED
    BY <1>2, <1>5, <1>7, <1>9, <2>1, <2>2 DEF Lists!TypeOK
<1>20. TimesPassed' /\ CursorKnown'
  BY <1>5, <1>7 DEF ListInv, TimesPassed, CursorKnown
<1>21. QED
  BY <1>13, <1>14, <1>16, <1>18, <1>19, <1>20 DEF ListInv

\* Between two pages files come, go and are written to: those that are not fresh
\* keep their time, and a time only grows.
LEMMA WorldStep ==
  ASSUME ListInv, listStatus = "paging", Lists!TypeOK', TimesPassed',
         UNCHANGED <<listHidden, listListing, listNext, listShown, listStatus>>,
         listFiles \subseteq listFiles' \cup listFresh', listFresh \subseteq listFresh',
         listFiles' \ listFresh' \subseteq listFiles,
         \A f \in listFiles \cup listFresh :
           /\ Lists!TimeOf(f)' >= Lists!TimeOf(f)
           /\ f \notin listFresh' => Lists!TimeOf(f)' = Lists!TimeOf(f)
  PROVE  ListInv'
<1>1. /\ listFiles \cup listFresh \subseteq Lists!Files /\ listNext # None
      /\ listNext \in [ts : Lists!Times, id : Lists!Files] /\ listShown \in Seq(Lists!Files)
  BY DEF ListInv, Lists!TypeOK, CursorKnown
<1>2. \A f \in Lists!Files : Lists!TimeOf(f) \in Nat /\ f \in Nat
  BY NewerOrder DEF ListInv
<1>3. \A f \in Lists!Files : Lists!TimeOf(f)' \in Nat
  BY InstanceConstants
     DEF Lists!TypeOK, Lists!TimeOf, Lists!CreatedAt, Lists!UpdatedAt, Lists!Times,
         Lists!RolloutPagesConstants
<1>4. listNext.ts \in Nat /\ listNext.id \in Nat
  BY <1>1 DEF Lists!Times, Lists!Files
<1>5. \A f : Lists!AfterCursor(listNext, f) <=>
               Lists!Before(listNext.ts, listNext.id, Lists!TimeOf(f), f)
  BY <1>1 DEF Lists!AfterCursor
<1>6. \A f : Lists!AfterCursor(listNext, f)' <=>
               Lists!Before(listNext.ts, listNext.id, Lists!TimeOf(f)', f)
  BY <1>1 DEF Lists!AfterCursor, Lists!Before
<1>7. ASSUME NEW f \in listFiles \cup listFresh, ~Lists!AfterCursor(listNext, f)
      PROVE  ~Lists!AfterCursor(listNext, f)'
  <2>1. Lists!TimeOf(f)' >= Lists!TimeOf(f) /\ Lists!TimeOf(f)' \in Nat /\ Lists!TimeOf(f) \in Nat
    BY <1>1, <1>2, <1>3
  <2>2. ~Lists!Before(listNext.ts, listNext.id, Lists!TimeOf(f), f) /\ f \in Nat
    BY <1>1, <1>2, <1>5, <1>7
  <2>3. ~Lists!Before(listNext.ts, listNext.id, Lists!TimeOf(f)', f)
    BY <1>4, <2>1, <2>2 DEF Lists!Before
  <2>4. QED
    BY <1>6, <2>3
<1>8. ASSUME NEW f \in listFiles' \ (listHidden' \cup listFresh')
      PROVE  /\ f \in listFiles \ (listHidden \cup listFresh)
             /\ Lists!AfterCursor(listNext, f)' <=> Lists!AfterCursor(listNext, f)
  <2>1. f \in listFiles \ (listHidden \cup listFresh) /\ Lists!TimeOf(f)' = Lists!TimeOf(f)
    OBVIOUS
  <2>2. QED
    BY <1>5, <1>6, <2>1
<1>9. ShownIsBefore'
  BY <1>7 DEF ListInv, ShownIsBefore
<1>10. RestIsAfter'
  BY <1>8 DEF ListInv, RestIsAfter
<1>11. Lists!ShownOnce' /\ Lists!AllShown' /\ CursorKnown'
  BY DEF ListInv, Lists!ShownOnce, Lists!IsInjective, Lists!AllShown, CursorKnown
<1>12. Lists!ShownInOrder'
  <2> SUFFICES ASSUME NEW i \in DOMAIN listShown, NEW j \in DOMAIN listShown, i < j,
                      {listShown[i], listShown[j]} \cap listFresh' = {}
               PROVE  Lists!Newer(listShown[i], listShown[j])'
    BY DEF Lists!ShownInOrder
  <2>1. listShown[i] \in listFiles \cup listFresh /\ listShown[j] \in listFiles \cup listFresh
    BY DEF ListInv, ShownIsBefore
  <2>2. /\ Lists!TimeOf(listShown[i])' = Lists!TimeOf(listShown[i])
        /\ Lists!TimeOf(listShown[j])' = Lists!TimeOf(listShown[j])
    BY <2>1
  <2>3. Lists!Newer(listShown[i], listShown[j])
    BY DEF ListInv, Lists!ShownInOrder
  <2>4. QED
    BY <2>2, <2>3 DEF Lists!Newer, Lists!Before
<1>13. QED
  BY <1>9, <1>10, <1>11, <1>12 DEF ListInv

LEMMA TickStep == ListInv /\ Lists!Tick => ListInv'
<1> SUFFICES ASSUME ListInv, Lists!Tick PROVE ListInv'
  OBVIOUS
<1>1. /\ listStatus = "paging" /\ listNow < MaxTime /\ listNow' = listNow + 1
      /\ UNCHANGED <<listFiles, listCreated, listUpdated, listHidden, listListing, listSessions,
                     listForeign, listNext, listShown, listFresh, listStatus>>
  BY DEF Lists!Tick
<1>2. listNow \in Lists!Times /\ MaxTime \in Nat
  BY InstanceConstants DEF ListInv, Lists!TypeOK, Lists!RolloutPagesConstants
<1>3. Lists!TypeOK'
  <2>1. listNow' \in Lists!Times
    BY <1>1, <1>2 DEF Lists!Times
  <2>2. QED
    BY <1>1, <2>1 DEF ListInv, Lists!TypeOK
<1>4. TimesPassed'
  <2>1. \A f \in listFiles : listCreated[f] \in Nat /\ listUpdated[f] \in Nat
    BY <1>2 DEF ListInv, Lists!TypeOK, Lists!Times
  <2>2. QED
    BY <1>1, <1>2, <2>1 DEF ListInv, TimesPassed, Lists!Times
<1>5. \A f \in Lists!Files : Lists!TimeOf(f) \in Nat /\ Lists!TimeOf(f)' = Lists!TimeOf(f)
  BY <1>1, NewerOrder DEF ListInv, Lists!TimeOf, Lists!SortedByUpdate, Lists!CreatedAt,
    Lists!UpdatedAt
<1>6. listFiles \cup listFresh \subseteq Lists!Files
  BY DEF ListInv, Lists!TypeOK
<1>7. \A f \in listFiles \cup listFresh :
        /\ Lists!TimeOf(f)' >= Lists!TimeOf(f)
        /\ f \notin listFresh' => Lists!TimeOf(f)' = Lists!TimeOf(f)
  BY <1>5, <1>6
<1>8. QED
  BY <1>1, <1>3, <1>4, <1>7, WorldStep

LEMMA FileCreatedStep ==
  ASSUME ListInv, NEW g \in Lists!Files, Lists!FileCreated(g)
  PROVE  ListInv'
<1>1. /\ listStatus = "paging" /\ g \notin listFiles \cup listFresh
      /\ listFiles' = listFiles \cup {g} /\ listFresh' = listFresh \cup {g}
      /\ listCreated' = [listCreated EXCEPT ![g] = listNow]
      /\ listUpdated' = [listUpdated EXCEPT ![g] = listNow]
      /\ UNCHANGED <<listHidden, listNow, listListing, listSessions, listForeign, listNext,
                     listShown, listStatus>>
  BY DEF Lists!FileCreated
<1>2. /\ listNow \in Lists!Times /\ listFiles \cup listFresh \subseteq Lists!Files
      /\ listCreated \in [Lists!Files -> Lists!Times]
         /\ listUpdated \in [Lists!Files -> Lists!Times]
  BY DEF ListInv, Lists!TypeOK
<1>3. Lists!TypeOK'
  BY <1>1, <1>2 DEF ListInv, Lists!TypeOK
<1>4. TimesPassed'
  BY <1>1, <1>2 DEF ListInv, TimesPassed, Lists!Times
<1>5. \A f \in Lists!Files : f # g => Lists!TimeOf(f) \in Nat /\ Lists!TimeOf(f)' = Lists!TimeOf(f)
  BY <1>1, <1>2, NewerOrder
     DEF ListInv, Lists!TimeOf, Lists!SortedByUpdate, Lists!CreatedAt, Lists!UpdatedAt
<1>6. \A f \in listFiles \cup listFresh :
        /\ Lists!TimeOf(f)' >= Lists!TimeOf(f)
        /\ f \notin listFresh' => Lists!TimeOf(f)' = Lists!TimeOf(f)
  BY <1>1, <1>2, <1>5
<1>7. QED
  BY <1>1, <1>3, <1>4, <1>6, WorldStep

LEMMA FileWrittenStep ==
  ASSUME ListInv, NEW g \in Lists!Files, Lists!FileWritten(g)
  PROVE  ListInv'
<1>1. /\ listStatus = "paging" /\ g \in listFiles
      /\ listUpdated' = [listUpdated EXCEPT ![g] = listNow]
      /\ listFresh' = IF Lists!SortedByUpdate THEN listFresh \cup {g} ELSE listFresh
      /\ UNCHANGED <<listFiles, listCreated, listHidden, listNow, listListing, listSessions,
                     listForeign, listNext, listShown, listStatus>>
  BY DEF Lists!FileWritten
<1>2. /\ listNow \in Lists!Times /\ listFiles \cup listFresh \subseteq Lists!Files
      /\ listCreated \in [Lists!Files -> Lists!Times]
         /\ listUpdated \in [Lists!Files -> Lists!Times]
  BY DEF ListInv, Lists!TypeOK
<1>3. Lists!TypeOK'
  <2>1. listFresh' \subseteq Lists!Files
    BY <1>1, <1>2
  <2>2. listUpdated' \in [Lists!Files -> Lists!Times]
    BY <1>1, <1>2
  <2>3. QED
    BY <1>1, <2>1, <2>2 DEF ListInv, Lists!TypeOK
<1>4. TimesPassed'
  BY <1>1, <1>2 DEF ListInv, TimesPassed, Lists!Times
<1>5. \A f \in Lists!Files : f # g => Lists!TimeOf(f) \in Nat /\ Lists!TimeOf(f)' = Lists!TimeOf(f)
  BY <1>1, <1>2, NewerOrder
     DEF ListInv, Lists!TimeOf, Lists!SortedByUpdate, Lists!CreatedAt, Lists!UpdatedAt
<1>6. /\ Lists!TimeOf(g)' >= Lists!TimeOf(g)
      /\ g \notin listFresh' => Lists!TimeOf(g)' = Lists!TimeOf(g)
  <2>1. listUpdated[g] <= listNow /\ listUpdated'[g] = listNow /\ listCreated[g] \in Nat
    BY <1>1, <1>2 DEF ListInv, TimesPassed, Lists!Times
  <2>2. CASE Lists!SortedByUpdate
    BY <1>1, <2>1, <2>2 DEF Lists!TimeOf, Lists!SortedByUpdate, Lists!UpdatedAt
  <2>3. CASE ~Lists!SortedByUpdate
    BY <1>1, <2>1, <2>3 DEF Lists!TimeOf, Lists!SortedByUpdate, Lists!CreatedAt
  <2>4. QED
    BY <2>2, <2>3
<1>7. \A f \in listFiles \cup listFresh :
        /\ Lists!TimeOf(f)' >= Lists!TimeOf(f)
        /\ f \notin listFresh' => Lists!TimeOf(f)' = Lists!TimeOf(f)
  <2> TAKE f \in listFiles \cup listFresh
  <2>1. CASE f = g
    BY <1>6, <2>1
  <2>2. CASE f # g
    BY <1>2, <1>5, <2>2
  <2>3. QED
    BY <2>1, <2>2
<1>8. listFresh \subseteq listFresh'
  BY <1>1
<1>9. QED
  BY <1>1, <1>3, <1>4, <1>7, <1>8, WorldStep

LEMMA FileArchivedStep ==
  ASSUME ListInv, NEW g \in Lists!Files, Lists!FileArchived(g)
  PROVE  ListInv'
<1>1. /\ listStatus = "paging" /\ listFiles' = listFiles \ {g} /\ listFresh' = listFresh \cup {g}
      /\ UNCHANGED <<listCreated, listUpdated, listHidden, listNow, listListing, listSessions,
                     listForeign, listNext, listShown, listStatus>>
  BY DEF Lists!FileArchived
<1>2. listFiles \cup listFresh \subseteq Lists!Files
  BY DEF ListInv, Lists!TypeOK
<1>3. Lists!TypeOK'
  BY <1>1 DEF ListInv, Lists!TypeOK
<1>4. TimesPassed'
  BY <1>1 DEF ListInv, TimesPassed
<1>5. \A f \in Lists!Files : Lists!TimeOf(f) \in Nat /\ Lists!TimeOf(f)' = Lists!TimeOf(f)
  BY <1>1, NewerOrder DEF ListInv, Lists!TimeOf, Lists!SortedByUpdate, Lists!CreatedAt,
    Lists!UpdatedAt
<1>6. \A f \in listFiles \cup listFresh :
        /\ Lists!TimeOf(f)' >= Lists!TimeOf(f)
        /\ f \notin listFresh' => Lists!TimeOf(f)' = Lists!TimeOf(f)
  BY <1>2, <1>5
<1>7. QED
  BY <1>1, <1>3, <1>4, <1>6, WorldStep

LEMMA ListStep == MaxFile < ScanCap /\ ListInv /\ [ListsNext]_Lists!vars => ListInv'
<1> SUFFICES ASSUME MaxFile < ScanCap, ListInv, [ListsNext]_Lists!vars PROVE ListInv'
  OBVIOUS
<1>1. CASE Lists!ListPage
  BY <1>1, PageStep
<1>2. CASE Lists!Tick
  BY <1>2, TickStep
<1>3. CASE \E f \in 1..MaxFile : Lists!FileCreated(f)
  BY <1>3, FileCreatedStep DEF Lists!Files
<1>4. CASE \E f \in 1..MaxFile : Lists!FileWritten(f)
  BY <1>4, FileWrittenStep DEF Lists!Files
<1>5. CASE \E f \in 1..MaxFile : Lists!FileArchived(f)
  BY <1>5, FileArchivedStep DEF Lists!Files
<1>6. CASE UNCHANGED Lists!vars
  <2>1. /\ UNCHANGED <<listFiles, listCreated, listUpdated, listHidden, listNow, listListing>>
        /\ UNCHANGED <<listSessions, listForeign, listNext, listShown, listFresh, listStatus>>
    BY <1>6 DEF Lists!vars
  <2>2. Lists!TypeOK' /\ TimesPassed' /\ CursorKnown'
    BY <2>1 DEF ListInv, Lists!TypeOK, TimesPassed, CursorKnown
  <2>3. ShownIsBefore' /\ RestIsAfter'
    BY <2>1 DEF ListInv, ShownIsBefore, RestIsAfter, Lists!AfterCursor, Lists!TimeOf,
                Lists!SortedByUpdate, Lists!CreatedAt, Lists!UpdatedAt
  <2>4. Lists!ShownOnce' /\ Lists!AllShown' /\ Lists!ShownInOrder'
    BY <2>1 DEF ListInv, Lists!ShownOnce, Lists!IsInjective, Lists!AllShown, Lists!ShownInOrder,
                Lists!Newer, Lists!TimeOf, Lists!SortedByUpdate, Lists!CreatedAt, Lists!UpdatedAt
  <2>5. QED
    BY <2>2, <2>3, <2>4 DEF ListInv
<1>7. QED
  BY <1>1, <1>2, <1>3, <1>4, <1>5, <1>6 DEF ListsNext
-----------------------------------------------------------------------------
(* What the run checks of rollout files.                                     *)

LEMMA RolloutSteps ==
  ASSUME [MCNext]_allVars
  PROVE  /\ part' = part
         /\ UNCHANGED histVars \/ (part = "history" /\ HistoryNext)
         /\ UNCHANGED listVars \/ (part = "lists" /\ ListsNext)
         /\ UNCHANGED headVars \/ (part = "heads" /\ HeadsNext)
<1>1. CASE UNCHANGED allVars
  BY <1>1 DEF allVars
<1>2. CASE InTasks \/ InUnforked \/ InRestarts \/ InNames \/ InTitles \/ InScan
  BY <1>2 DEF InTasks, InUnforked, InRestarts, InNames, InTitles, InScan
<1>3. ASSUME InHistory, HistoryNext
      PROVE  /\ part' = part /\ part = "history" /\ HistoryNext
             /\ UNCHANGED listVars /\ UNCHANGED headVars
  BY <1>3 DEF InHistory
<1>4. CASE \/ InHistory /\ \E t \in HistThreads : History!ThreadStart(t)
           \/ InHistory /\ \E t \in HistThreads : History!ThreadResume(t)
           \/ InHistory /\ \E t \in HistThreads : History!ThreadRollback(t)
           \/ InHistory /\ \E t \in HistThreads : History!ThreadArchive(t)
           \/ InHistory /\ \E t \in HistThreads : History!ThreadUnarchive(t)
           \/ InHistory /\ \E s, t \in HistThreads : History!ThreadFork(s, t)
           \/ InHistory /\ History!StartAnswered
           \/ InHistory /\ History!ForkAnswered
           \/ InHistory /\ History!RollbackAnswered
           \/ InHistory /\ History!AgentRefuses
           \/ InHistory /\ History!Midnight
           \/ InHistory /\ History!Restart
  <2>1. InHistory /\ HistoryNext
    BY <1>4, Zenon DEF HistoryNext
  <2>2. QED
    BY <1>3, <2>1
<1>5. CASE \/ InLists /\ Lists!ListPage
           \/ InLists /\ Lists!Tick
           \/ InLists /\ \E f \in 1..MaxFile : Lists!FileCreated(f)
           \/ InLists /\ \E f \in 1..MaxFile : Lists!FileWritten(f)
           \/ InLists /\ \E f \in 1..MaxFile : Lists!FileArchived(f)
  <2>1. InLists /\ ListsNext
    BY <1>5, Zenon DEF ListsNext
  <2>2. QED
    BY <2>1 DEF InLists
<1>6. CASE \/ InHeads /\ Heads!BridgeStarts
           \/ InHeads /\ Heads!BridgeTurn
           \/ InHeads /\ Heads!BridgeRollback
           \/ InHeads /\ Heads!OtherWrites
  <2>1. InHeads /\ HeadsNext
    BY <1>6, Zenon DEF HeadsNext
  <2>2. QED
    BY <2>1 DEF InHeads
<1>7. QED
  BY <1>1, <1>2, <1>4, <1>5, <1>6, Zenon DEF MCNext

\* What the run keeps of rollout files and what is read of them.
FilesInv ==
  /\ HistoryInv
  /\ part = "heads" => HeadInv

LEMMA InitFilesInv == MCInit => FilesInv
  BY InitHistoryInv, InitHeadInv DEF MCInit, FilesInv

LEMMA FilesStep == FilesInv /\ [MCNext]_allVars => FilesInv'
<1> SUFFICES ASSUME FilesInv, [MCNext]_allVars PROVE FilesInv'
  OBVIOUS
<1>1. HistoryInv'
  BY RolloutSteps, HistoryStep DEF FilesInv
<1>2. part' = "heads" => HeadInv'
  BY RolloutSteps, HeadStep DEF FilesInv
<1>3. QED
  BY <1>1, <1>2 DEF FilesInv

\* A listing never has to stop before it has walked all files (MAX_SCAN_FILES).
FewFiles == MaxFile < ScanCap

\* What the run checks of rollout files, for every number of threads, days, lines,
\* page sizes and files as long as the walk of a page reaches them all: a thread's
\* file is found, a fork is a copy as far as it could be written, markers stand in
\* order, pages show every file
\* that is left alone once and in order, and a file is listed exactly when its
\* header and a message are within the lines that are read.
THEOREM RolloutsAlwaysFound == ASSUME FewFiles PROVE MCSpec => []RolloutsFound
<1> DEFINE RInv == FilesInv /\ (part = "lists" => ListInv)
<1>1. MCInit => RInv
  BY InitFilesInv, InitListInv DEF MCInit
<1>2. RInv /\ [MCNext]_allVars => RInv'
  <2> SUFFICES ASSUME RInv, [MCNext]_allVars PROVE RInv'
    OBVIOUS
  <2>1. UNCHANGED listVars => UNCHANGED Lists!vars
    BY DEF listVars, Lists!vars
  <2>2. part' = "lists" => ListInv'
    BY <2>1, RolloutSteps, ListStep DEF FewFiles
  <2>3. QED
    BY <2>2, FilesStep
<1>3. RInv => RolloutsFound
  <2> SUFFICES ASSUME RInv PROVE RolloutsFound
    OBVIOUS
  <2>1. /\ History!TypeOK /\ History!ReadFindsThread
        /\ History!ForkIsCopy /\ History!MarkersInOrder
    BY ThreadsFound
       DEF FilesInv, HistoryInv, MarkersAsked, InOrder, History!MarkersInOrder
  <2>2. part = "lists" =>
          Lists!TypeOK /\ Lists!ShownOnce /\ Lists!AllShown /\ Lists!ShownInOrder
    BY DEF ListInv
  <2>3. part = "heads" => Heads!TypeOK /\ Heads!ListedWhenFound /\ Heads!ReadShowsListed
    BY HeadsFound DEF FilesInv, HeadInv
  <2>4. QED
    BY <2>1, <2>2, <2>3 DEF RolloutsFound
<1>4. QED
  BY <1>1, <1>2, <1>3, PTL DEF MCSpec

\* No line is taken from a rollout file, and what is written to it later neither
\* hides the thread nor changes the entry it is listed with.
THEOREM RolloutsAlwaysGrow == MCSpec => RolloutsGrow
<1> DEFINE Kept == \A t \in HistThreads : History!IsPrefix(histItems[t], histItems'[t])
           Stays == part = "heads" =>
                      (Heads!Listed(headLines) =>
                         Heads!Listed(headLines') /\ Heads!Item(headLines') = Heads!Item(headLines))
<1>1. FilesInv /\ [MCNext]_allVars => [Kept]_(History!vars)
  BY RolloutSteps, HistoryGrows DEF FilesInv
<1>2. FilesInv /\ [MCNext]_allVars => [Stays]_headVars
  BY RolloutSteps, ListedStays DEF FilesInv
<1>3. RolloutsGrow <=> [][Kept]_(History!vars) /\ [][Stays]_headVars
  BY DEF RolloutsGrow, History!HistoryKept
<1> HIDE DEF Kept, Stays
<1>4. QED
  BY <1>1, <1>2, <1>3, InitFilesInv, FilesStep, PTL DEF MCSpec
=============================================================================
