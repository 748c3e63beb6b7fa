--------------------------- MODULE TokenUse_proof ---------------------------
(***************************************************************************)
(* Proof about TokenUse: whatever answers report and whatever windows are  *)
(* filled, in any order, the totals that are told add up.                  *)
(***************************************************************************)
EXTENDS MCProtocol, TLAPS

Filled(f) == IF f = "total" THEN fullAt ELSE 0

\* What is told is what is known; nothing was reported while nothing is known, and since
\* then the totals are the reports on top of the window that was last full.
IInv ==
  /\ TypeOK /\ told = info
  /\ info = NoInfo => reported = Zero /\ fullAt = 0
  /\ info # NoInfo => \A f \in Fields : info.total[f] = reported[f] + Filled(f)

LEMMA InitIInv == Init => IInv
  BY UseConstants DEF Init, IInv, TypeOK, Usage, Zero

-----------------------------------------------------------------------------
(* A report is added to what is known, or starts it. *)

LEMMA SumType ==
  ASSUME NEW a \in Usage, NEW b \in Usage
  PROVE  Sum(a, b) \in Usage /\ \A f \in Fields : Sum(a, b)[f] = a[f] + b[f]
  BY DEF Sum, Usage

LEMMA ReportStep ==
  ASSUME IInv, NEW last \in Usages \cup {NoUsage}, NEW window \in Windows \cup {NoWindow},
         Report(last, window)
  PROVE  IInv'
<1> DEFINE known == IF info = NoInfo THEN New(window) ELSE info
<1>1. /\ known \in Infos
      /\ \A f \in Fields : known.total[f] = reported[f] + Filled(f)
      /\ window # NoWindow => known.window # NoWindow \/ info # NoInfo
      /\ fullAt # 0 => known.window # NoWindow
  BY UseConstants DEF IInv, TypeOK, New, Zero, Usage, Infos, Filled
<1>2. /\ told' = info' /\ fullAt' = fullAt /\ info' = NewOrAppend(info, last, window)
      /\ reports' \in 0..MaxReports
  BY UseConstants DEF Report, Tell, ThreadTokenUsage, Counted, IInv, TypeOK
<1>3. CASE last = NoUsage /\ info = NoInfo
  BY <1>2, <1>3 DEF NewOrAppend, Report, IInv, TypeOK
<1>4. CASE last = NoUsage /\ info # NoInfo
  <2>1. info' \in {info, [info EXCEPT !.window = window]} /\ reported' = reported
        /\ (window = NoWindow => info' = info)
    BY <1>2, <1>4 DEF Report, NewOrAppend
  <2>2. info \in Infos
    BY <1>4 DEF IInv, TypeOK
  <2>3. /\ info' \in Infos /\ info'.total = info.total
        /\ info'.window # info.window => info'.window # NoWindow
    BY <2>1, <2>2 DEF Infos
  <2>4. info' # NoInfo
    BY <2>3, UseConstants
  <2>5. QED
    BY <1>2, <1>4, <2>1, <2>3, <2>4 DEF IInv, TypeOK, Filled
<1>5. CASE last # NoUsage
  <2>1. last \in Usage
    BY <1>5, UseConstants
  <2> DEFINE appended == AppendLast(known, last)
  <2>2. /\ appended \in Infos /\ appended.total = Sum(known.total, last)
        /\ appended.window = known.window
    BY <1>1, <2>1, SumType DEF AppendLast, Infos
  <2>3. info' \in {appended, [appended EXCEPT !.window = window]}
        /\ (window = NoWindow => info' = appended)
    BY <1>2, <1>5 DEF NewOrAppend
  <2> HIDE DEF appended
  <2>4. /\ info' \in Infos /\ info'.total = Sum(known.total, last)
        /\ fullAt # 0 => info'.window # NoWindow
    BY <1>1, <2>2, <2>3 DEF Infos
  <2>5. reported' = [f \in Fields |-> reported[f] + last[f]]
    BY <1>5 DEF Report
  <2>6. reported' \in Usage
    BY <2>1, <2>5 DEF Usage, IInv, TypeOK
  <2>7. \A f \in Fields : info'.total[f] = reported'[f] + Filled(f)'
    <3> TAKE f \in Fields
    <3>1. known.total \in Usage /\ Filled(f) \in Int /\ reported[f] \in Int /\ last[f] \in Int
      <4>1. known.total \in Usage
        BY <1>1 DEF Infos
      <4>2. Filled(f) \in Int
        BY UseConstants DEF Filled, IInv, TypeOK
      <4>3. reported \in Usage
        BY DEF IInv, TypeOK
      <4>4. QED
        BY <2>1, <4>1, <4>2, <4>3 DEF Usage
    <3>2. info'.total[f] = known.total[f] + last[f]
      BY <2>1, <2>4, <3>1, SumType
    <3>3. Filled(f)' = Filled(f)
      BY <1>2 DEF Filled
    <3>4. QED
      BY <1>1, <2>5, <3>1, <3>2, <3>3
  <2>8. info' # NoInfo
    BY <2>4, UseConstants
  <2>9. QED
    BY <1>2, <2>4, <2>6, <2>7, <2>8 DEF IInv, TypeOK
<1>6. QED
  BY <1>3, <1>4, <1>5

-----------------------------------------------------------------------------
(* A window that is full is all that counts. *)

LEMMA ExceededStep ==
  ASSUME IInv, NEW window \in Windows, Exceeded(window)
  PROVE  IInv'
<1>1. PICK i \in Infos : info' = FillToContextWindow(i, window)
  <2>1. CASE info = NoInfo
    <3>1. New(window) \in Infos
      BY DEF New, Infos, Zero, Usage
    <3>2. QED
      BY <2>1, <3>1 DEF Exceeded, FullContextWindow
  <2>2. CASE info # NoInfo
    BY <2>2 DEF Exceeded, IInv, TypeOK
  <2>3. QED
    BY <2>1, <2>2
<1>2. \A n \in Int : OnlyTotal(n) \in Usage /\ \A f \in Fields :
        OnlyTotal(n)[f] = IF f = "total" THEN n ELSE 0
  BY DEF OnlyTotal, Zero, Usage, Fields
<1>3. window \in Int /\ AtLeast0(window - i.total["total"]) \in Int
  BY UseConstants DEF AtLeast0, Infos, Usage, Fields
<1>4. info' \in Infos /\ info'.window = window /\ info'.total = OnlyTotal(window)
  BY <1>1, <1>2, <1>3 DEF FillToContextWindow, Infos
<1>5. window # NoWindow /\ info' # NoInfo
  BY <1>4, UseConstants
<1>6. told' = info' /\ reported' = Zero /\ fullAt' = window /\ reports' \in 0..MaxReports
  BY UseConstants DEF Exceeded, Tell, ThreadTokenUsage, Counted, IInv, TypeOK
<1>7. Zero \in Usage /\ \A f \in Fields : Zero[f] = 0
  BY DEF Zero, Usage
<1>8. \A f \in Fields : info'.total[f] = reported'[f] + Filled(f)'
  BY <1>2, <1>3, <1>4, <1>6, <1>7 DEF Filled
<1>9. QED
  BY <1>4, <1>5, <1>6, <1>7, <1>8 DEF IInv, TypeOK

-----------------------------------------------------------------------------

LEMMA NextIInv == IInv /\ [Next]_vars => IInv'
<1> SUFFICES ASSUME IInv, [Next]_vars PROVE IInv'
  OBVIOUS
<1>1. CASE UNCHANGED vars
  BY <1>1 DEF vars, IInv, TypeOK, Filled
<1>2. QED
  BY <1>1, ReportStep, ExceededStep DEF Next

\* The client is told, field by field, what all answers since the window was last full used,
\* on top of that window: for any usage an answer may report, below zero too, any windows,
\* and updates in any number and order (protocol.rs:1490-1546).
THEOREM TotalsToldAddUp == Spec => [](TypeOK /\ TotalsAddUp)
<1>1. IInv => TypeOK /\ TotalsAddUp
  BY DEF IInv, TotalsAddUp, Filled
<1>2. QED
  BY <1>1, InitIInv, NextIInv, PTL DEF Spec
-----------------------------------------------------------------------------
(* The figures that are made of them. *)

\* What is left of span tokens when r remain, in percent, to the nearest.
Percent(r, span) == (200 * r + span) \div (2 * span)

LEMMA Quotient ==
  ASSUME NEW n \in Int, NEW d \in Int, d > 0
  PROVE  n \div d \in Int /\ d * (n \div d) <= n /\ n < d * (n \div d) + d
  BY SMT

LEMMA PercentIsQuotient ==
  ASSUME NEW span \in Nat \ {0}, NEW r \in 0..span
  PROVE  /\ Percent(r, span) \in Int
         /\ 2 * (Percent(r, span) * span) <= 200 * r + span
         /\ 200 * r + span < 2 * (Percent(r, span) * span) + 2 * span
<1> DEFINE n == 200 * r + span
           d == 2 * span
<1>1. n \in Int /\ d \in Nat /\ d > 0
  OBVIOUS
<1>2. n \div d \in Int /\ d * (n \div d) <= n /\ n < d * (n \div d) + d
  BY <1>1, Quotient
<1>3. Percent(r, span) = n \div d
  BY DEF Percent
<1> DEFINE q == Percent(r, span)
<1>4. q \in Int /\ d * q <= n /\ n < d * q + d
  BY <1>2, <1>3
<1>5. d * q = 2 * (q * span)
  <2> HIDE DEF q
  <2>1. QED
    BY <1>4
<1>6. QED
  BY <1>4, <1>5

LEMMA PercentIsBounded ==
  ASSUME NEW span \in Nat \ {0}, NEW r \in 0..span
  PROVE  Percent(r, span) \in 0..100
<1> DEFINE q == Percent(r, span)
<1>1. q \in Int /\ 2 * (q * span) <= 200 * r + span /\ 200 * r + span < 2 * (q * span) + 2 * span
  BY PercentIsQuotient
<1> HIDE DEF q
<1>2. ASSUME q > 100 PROVE FALSE
  <2>1. q * span >= 101 * span
    BY <1>1, <1>2
  <2>2. QED
    BY <1>1, <2>1
<1>3. ASSUME q < 0 PROVE FALSE
  <2>1. q * span <= 0 - span
    BY <1>1, <1>3
  <2>2. QED
    BY <1>1, <2>1
<1>4. QED
  BY <1>1, <1>2, <1>3 DEF q

LEMMA PercentGrows ==
  ASSUME NEW span \in Nat \ {0}, NEW r \in 0..span, NEW s \in 0..span, r <= s
  PROVE  Percent(r, span) <= Percent(s, span)
<1> DEFINE q == Percent(r, span)
           p == Percent(s, span)
<1>1. /\ q \in Int /\ 2 * (q * span) <= 200 * r + span
      /\ p \in Int /\ 200 * s + span < 2 * (p * span) + 2 * span
  BY PercentIsQuotient
<1> HIDE DEF q, p
<1>2. ASSUME q > p PROVE FALSE
  <2>1. q * span >= p * span + span
    BY <1>1, <1>2
  <2>2. q * span \in Int /\ p * span \in Int
    BY <1>1
  <2>3. QED
    BY <1>1, <2>1, <2>2
<1>3. QED
  BY <1>1, <1>2 DEF q, p

\* None and all of it left.
LEMMA PercentEnds ==
  ASSUME NEW span \in Nat \ {0}
  PROVE  Percent(0, span) = 0 /\ Percent(span, span) = 100
<1>1. 0 \in 0..span /\ span \in 0..span
  OBVIOUS
<1> DEFINE q == Percent(0, span)
           p == Percent(span, span)
<1>2. /\ q \in 0..100 /\ 2 * (q * span) <= span
      /\ p \in 0..100 /\ 201 * span < 2 * (p * span) + 2 * span
  BY <1>1, PercentIsQuotient, PercentIsBounded
<1> HIDE DEF q, p
<1>3. ASSUME q > 0 PROVE FALSE
  <2>1. q * span >= span
    BY <1>2, <1>3
  <2>2. QED
    BY <1>2, <2>1
<1>4. ASSUME p < 100 PROVE FALSE
  <2>1. p * span <= 99 * span
    BY <1>2, <1>4
  <2>2. QED
    BY <1>2, <2>1
<1>5. QED
  BY <1>2, <1>3, <1>4 DEF q, p

LEMMA PercentOfWindow ==
  ASSUME NEW u \in Usage, NEW window \in Nat
  PROVE  /\ PercentRemaining(u, window) \in 0..100
         /\ u["total"] >= window => PercentRemaining(u, window) = 0
         /\ window > BaselineTokens /\ u["total"] <= BaselineTokens =>
              PercentRemaining(u, window) = 100
         /\ \A v \in Usage : u["total"] <= v["total"] =>
              PercentRemaining(v, window) <= PercentRemaining(u, window)
<1>1. BaselineTokens \in Nat /\ u["total"] \in Int
  BY UseConstants DEF Usage, Fields
<1>2. CASE window <= BaselineTokens
  BY <1>1, <1>2 DEF PercentRemaining
<1>3. CASE window > BaselineTokens
  <2> DEFINE span == window - BaselineTokens
             Left(x) == AtLeast0(span - AtLeast0(x["total"] - BaselineTokens))
  <2>1. span \in Nat \ {0}
    BY <1>1, <1>3
  <2>2. \A x \in Usage : x["total"] \in Int /\ Left(x) \in 0..span
    BY <1>1, <2>1 DEF Usage, Fields, AtLeast0
  <2>3. \A x \in Usage : PercentRemaining(x, window) = Percent(Left(x), span)
    BY <1>1, <1>3 DEF PercentRemaining, Percent
  <2>4. u["total"] >= window => Left(u) = 0
    BY <1>1, <1>3 DEF AtLeast0
  <2>5. u["total"] <= BaselineTokens => Left(u) = span
    BY <1>1, <1>3 DEF AtLeast0
  <2>6. \A v \in Usage : u["total"] <= v["total"] => Left(v) <= Left(u)
    BY <1>1, <1>3, <2>2 DEF AtLeast0
  <2> HIDE DEF span, Left
  <2>7. QED
    BY <1>3, <2>1, <2>2, <2>3, <2>4, <2>5, <2>6, PercentIsBounded, PercentEnds, PercentGrows
<1>4. QED
  BY <1>1, <1>2, <1>3

\* Answers count tokens: no number is below zero.
CountsFromZero == \A u \in Usages, f \in Fields : u[f] >= 0

ReportedInv == \A f \in Fields : reported[f] >= 0

LEMMA ReportedStep ==
  ASSUME CountsFromZero, IInv, ReportedInv, [Next]_vars PROVE ReportedInv'
<1>1. ASSUME NEW last \in Usages \cup {NoUsage}, NEW window \in Windows \cup {NoWindow},
             Report(last, window)
      PROVE  ReportedInv'
  <2>1. CASE last = NoUsage
    BY <1>1, <2>1 DEF Report, ReportedInv
  <2>2. CASE last \in Usages
    <3>1. last \in Usage /\ reported \in Usage /\ last # NoUsage
      BY <2>2, UseConstants DEF IInv, TypeOK
    <3>2. \A f \in Fields : reported'[f] = reported[f] + last[f]
      BY <1>1, <3>1 DEF Report
    <3>3. QED
      BY <2>2, <3>1, <3>2 DEF CountsFromZero, ReportedInv, Usage
  <2>3. QED
    BY <2>1, <2>2
<1>2. ASSUME NEW window \in Windows, Exceeded(window) PROVE ReportedInv'
  BY <1>2 DEF Exceeded, ReportedInv, Zero
<1>3. CASE UNCHANGED vars
  BY <1>3 DEF vars, ReportedInv
<1>4. QED
  BY <1>1, <1>2, <1>3 DEF Next

\* The number shown and what is left of the window are in their bounds.
LEMMA FiguresInBounds ==
  ASSUME IInv, ReportedInv
  PROVE  PercentSpansTheWindow /\ BlendedIsInBounds
<1>1. /\ reported \in Usage /\ fullAt \in Nat
      /\ info # NoInfo => info \in Infos /\ info.total \in Usage
  BY UseConstants DEF IInv, TypeOK, Infos
<1>2. PercentSpansTheWindow
  <2> SUFFICES ASSUME info # NoInfo, info.window # NoWindow
               PROVE  LET left == PercentRemaining(info.total, info.window)
                      IN  /\ left \in 0..100
                          /\ fullAt = info.window => left = 0
                          /\ info.window > BaselineTokens /\ info.total["total"] <= BaselineTokens
                             => left = 100
    BY DEF PercentSpansTheWindow
  <2>1. info.window \in Nat /\ info.total \in Usage
    BY <1>1, UseConstants DEF Infos
  <2>2. info.total["total"] = reported["total"] + fullAt /\ reported["total"] >= 0
        /\ reported["total"] \in Int
    BY <1>1 DEF IInv, Filled, Fields, ReportedInv, Usage
  <2>3. fullAt = info.window => info.total["total"] >= info.window
    BY <1>1, <2>2
  <2>4. QED
    BY <2>1, <2>3, PercentOfWindow
<1>3. BlendedIsInBounds
  <2> SUFFICES ASSUME info # NoInfo
               PROVE  BlendedTotal(info.total) \in reported["output"] ..
                        (reported["output"] + AtLeast0(reported["input"] - reported["cached"]))
    BY DEF BlendedIsInBounds
  <2>1. /\ info.total["input"] = reported["input"] /\ info.total["cached"] = reported["cached"]
        /\ info.total["output"] = reported["output"] /\ reported["output"] >= 0
        /\ reported["input"] \in Int /\ reported["cached"] \in Int /\ reported["output"] \in Int
    BY <1>1 DEF IInv, Filled, Fields, ReportedInv, Usage
  <2>2. QED
    BY <2>1 DEF BlendedTotal, NonCachedInput, AtLeast0
<1>4. QED
  BY <1>2, <1>3

\* A step leaves no more of a window that stays the same.
LEMMA PercentStep ==
  ASSUME CountsFromZero, IInv, [Next]_vars, info # NoInfo, info'.window = info.window,
         info.window # NoWindow
  PROVE  PercentRemaining(info'.total, info.window) <= PercentRemaining(info.total, info.window)
<1>1. /\ info \in Infos /\ info.total \in Usage /\ info.window \in Nat
      /\ info.total["total"] \in Int
  BY UseConstants DEF IInv, TypeOK, Infos, Usage, Fields
<1>2. ASSUME NEW last \in Usages \cup {NoUsage}, NEW window \in Windows \cup {NoWindow},
             Report(last, window)
      PROVE  info'.total \in Usage /\ info.total["total"] <= info'.total["total"]
  <2>1. CASE last = NoUsage
    <3>1. info' = info \/ info' = [info EXCEPT !.window = window]
      BY <1>2, <2>1 DEF Report, NewOrAppend
    <3>2. info'.total = info.total
      BY <1>1, <3>1 DEF Infos
    <3>3. QED
      BY <1>1, <3>2
  <2>2. CASE last # NoUsage
    <3>1. last \in Usage /\ last["total"] \in Int /\ last["total"] >= 0
      BY <2>2, UseConstants DEF Usage, Fields, CountsFromZero
    <3>2. \/ info' = AppendLast(info, last)
          \/ info' = [AppendLast(info, last) EXCEPT !.window = window]
      BY <1>2, <2>2 DEF Report, NewOrAppend
    <3>3. info'.total = Sum(info.total, last)
      BY <1>1, <3>2 DEF AppendLast, Infos
    <3>4. QED
      BY <1>1, <3>1, <3>3, SumType DEF Fields
  <2>3. QED
    BY <2>1, <2>2
<1>3. ASSUME NEW window \in Windows, Exceeded(window)
      PROVE  info'.total \in Usage /\ info'.total["total"] >= info.window
  <2>1. info' = FillToContextWindow(info, window)
    BY <1>3 DEF Exceeded
  <2>2. info'.total = OnlyTotal(window) /\ info.window = window
    BY <2>1 DEF FillToContextWindow
  <2>3. QED
    BY <1>1, <2>2 DEF OnlyTotal, Zero, Usage, Fields
<1>4. CASE UNCHANGED vars
  <2>1. info' = info
    BY <1>4 DEF vars
  <2>2. PercentRemaining(info.total, info.window) \in 0..100
    BY <1>1, PercentOfWindow
  <2>3. QED
    BY <2>1, <2>2
<1>5. QED
  <2>1. CASE info'.total \in Usage /\ info.total["total"] <= info'.total["total"]
    BY <1>1, <2>1, PercentOfWindow
  <2>2. CASE info'.total \in Usage /\ info'.total["total"] >= info.window
    <3>1. PercentRemaining(info'.total, info.window) = 0
      BY <1>1, <2>2, PercentOfWindow
    <3>2. PercentRemaining(info.total, info.window) \in 0..100
      BY <1>1, PercentOfWindow
    <3>3. QED
      BY <3>1, <3>2
  <2>3. QED
    BY <1>2, <1>3, <1>4, <2>1, <2>2 DEF Next

\* In the run of MCProtocol, whatever its other components do: what is left of a window is
\* a percentage of it, nothing once the window was full, and falls as long as the window
\* stays; and the one number shown is between what was put out and that with what was
\* read anew (protocol.rs:1596-1631).
THEOREM PercentsHold ==
  ASSUME CountsFromZero PROVE MCSpec => PercentsMakeSense
<1> DEFINE Inv == IInv /\ ReportedInv
           Falls == info # NoInfo /\ info'.window = info.window /\ info.window # NoWindow
                    => PercentRemaining(info'.total, info.window)
                         <= PercentRemaining(info.total, info.window)
           Figures == part = "usage" => TypeOK /\ PercentSpansTheWindow /\ BlendedIsInBounds
<1>1. MCInit => Inv
  <2>1. Init => ReportedInv
    BY DEF Init, ReportedInv, Zero
  <2>2. QED
    BY <2>1, InitIInv DEF MCInit
<1>2. [MCNext]_allVars => [Next]_vars
  <2> SUFFICES ASSUME [MCNext]_allVars PROVE [Next]_vars
    OBVIOUS
  <2>1. CASE InUsage /\ \E last \in Usages \cup {NoUsage}, window \in Windows \cup {NoWindow} :
                          Report(last, window)
    BY <2>1 DEF Next
  <2>2. CASE InUsage /\ \E window \in Windows : Exceeded(window)
    BY <2>2 DEF Next
  <2>3. CASE \/ InSaying \/ InWorking \/ InEnding \/ InInputs \/ InTold \/ InCached
             \/ InLabelled \/ InOnce \/ InAgain \/ UNCHANGED allVars
    BY <2>3 DEF InSaying, InWorking, InEnding, InInputs, InTold, InCached, InLabelled, InOnce,
                InAgain, allVars, vars
  <2>4. QED
    BY <2>1, <2>2, <2>3, Zenon DEF MCNext
<1>3. Inv /\ [MCNext]_allVars => Inv'
  BY <1>2, NextIInv, ReportedStep
<1>4. Inv => Figures
  BY FiguresInBounds DEF IInv
<1>5. Inv /\ [MCNext]_allVars => [Falls]_info
  BY <1>2, PercentStep
<1>6. MCSpec => []Figures /\ [][Falls]_info
  BY <1>1, <1>3, <1>4, <1>5, PTL DEF MCSpec
<1>7. QED
  BY <1>6, PTL DEF PercentsMakeSense, PercentOnlyFalls
=============================================================================
