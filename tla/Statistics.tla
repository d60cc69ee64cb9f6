------------------------------ MODULE Statistics ------------------------------
(***************************************************************************)
(* The built-in statistics of the charge history.  A trusted pair is two   *)
(* observations with values that change evenly between them.  The dwell    *)
(* report divides the time of the window among bins of charge, and in a    *)
(* second pass among bins of charge and temperature, cutting every pair    *)
(* where a value crosses a bin's edge.  The comparison measures how long   *)
(* each session took from 20 to 80 percent.                                *)
(*                                                                         *)
(* Times are whole seconds, and so are, by assumption, the instants at     *)
(* which a value meets an edge.  Values in the middle of a piece are kept  *)
(* doubled.                                                                *)
(***************************************************************************)
EXTENDS Integers, Sequences, SequencesExt, FiniteSetsExt

CONSTANTS
  Intervals,    \* the sequences of pairs that a window may show
  Candidates,   \* the sequences of sessions to compare; a session is a sequence of pairs
  Windows       \* the windows, each [start |-> a time, end |-> a time]

VARIABLES
  window,       \* the window of the report
  intervals,    \* its pairs, by start, the longer first
  pass,         \* 0: charge alone; 1: charge and temperature
  todo,         \* the pairs this pass has not sliced yet
  coveredEnd,   \* up to where it has
  dwell,        \* soc, joint: the seconds in each bin; socCovered, jointCovered: in all
  candidates,   \* the sessions not compared yet
  samples       \* [lower, upper, session] of those that count

statisticsVars == <<window, intervals, pass, todo, coveredEnd, dwell, candidates, samples>>

SOCEdges == <<20, 40, 60, 80>>
TemperatureEdges == <<25, 30, 35>>

End(p) == p.from + p.seconds
SOCAt(p, t) == p.soc + p.socRise * (t - p.from)
TemperatureAt(p, t) == p.temperature + p.temperatureRise * (t - p.from)

Whole(edges, value, rise) ==
  rise # 0 => \A e \in Range(edges) : (e - value) % (IF rise > 0 THEN rise ELSE -rise) = 0
AllPairs == UNION {Range(s) : s \in Intervals}
              \union UNION {UNION {Range(s) : s \in Range(c)} : c \in Candidates}

ASSUME StatisticsAssumption ==
  /\ \A s \in Intervals : s \in Seq(AllPairs)
  /\ \A c \in Candidates : c \in Seq(Seq(AllPairs))
  /\ \A w \in Windows : w.start \in Int /\ w.end \in Int
  /\ \A p \in AllPairs :
       /\ p.from \in Int /\ p.seconds \in Nat
       /\ p.soc \in Int /\ p.socRise \in Int /\ Whole(SOCEdges, p.soc, p.socRise)
       /\ p.temperature \in Int /\ p.temperatureRise \in Int
       /\ Whole(TemperatureEdges, p.temperature, p.temperatureRise)

-----------------------------------------------------------------------------
(* BAStatisticsMath.                                                       *)

ValidSOC(soc) == soc >= 0 /\ soc <= 100

\* Of a doubled value.
SOCBin(soc) == Cardinality({e \in Range(SOCEdges) : 2 * e <= soc})
TemperatureBin(t) == Cardinality({e \in Range(TemperatureEdges) : 2 * e <= t})

\* The first split that is not before the instant is the one it goes in front of.
InsertSplit(splits, at) ==
  LET position == Min({i \in DOMAIN splits : splits[i] >= at})
  IN  IF at > splits[1] /\ at < Last(splits) /\ splits[position] # at
      THEN InsertAt(splits, position, at) ELSE splits

\* When a value that moves by rise is at the edge.
Instant(edge, start, value, rise) ==
  start + (IF rise > 0 THEN (edge - value) \div rise ELSE (value - edge) \div (-rise))

\* The instants from start on at which a value meets an edge, one edge after the other.
SplitAt(splits, edges, start, value, rise) ==
  LET after[k \in 0..Len(edges)] ==
        IF k = 0 THEN splits ELSE InsertSplit(after[k - 1], Instant(edges[k], start, value, rise))
  IN  IF rise = 0 THEN splits ELSE after[Len(edges)]

\* A mutant: a piece is counted where it begins.
ColumnOfStart(p, from, to) == SOCBin(2 * SOCAt(p, from))

\* The bins of the piece of pair p between two instants, by its middle.
Column(p, from, to) == SOCBin(SOCAt(p, from) + SOCAt(p, to))
RowOf(p, from, to) == TemperatureBin(TemperatureAt(p, from) + TemperatureAt(p, to))

InBin(p, from, to, row, column, joint) ==
  Column(p, from, to) = column /\ (joint => RowOf(p, from, to) = row)

\* What the numbers d[1] to d[n] add up to.
SumTo(d, n) ==
  LET sum[k \in 0..n] == IF k = 0 THEN 0 ELSE sum[k - 1] + d[k]
  IN  sum[n]

\* The lengths of the pieces that belong to a bin.
Spent(p, splits, row, column, joint) ==
  SumTo([i \in 1..(Len(splits) - 1) |->
           IF InBin(p, splits[i], splits[i + 1], row, column, joint)
           THEN splits[i + 1] - splits[i] ELSE 0], Len(splits) - 1)

\* The seconds of pair p from start to end, cut where a value meets an edge.
AccumulateDwell(totals, p, start, end, joint) ==
  LET bySOC == SplitAt(<<start, end>>, SOCEdges, start, SOCAt(p, start), p.socRise)
      splits == IF joint
                THEN SplitAt(bySOC, TemperatureEdges, start, TemperatureAt(p, start), p.temperatureRise)
                ELSE bySOC
  IN  IF joint
      THEN [totals EXCEPT !.joint = [r \in 0..3 |-> [c \in 0..4 |->
                                        totals.joint[r][c] + Spent(p, splits, r, c, TRUE)]],
                          !.jointCovered = @ + (end - start)]
      ELSE [totals EXCEPT !.soc = [c \in 0..4 |-> totals.soc[c] + Spent(p, splits, 0, c, FALSE)],
                          !.socCovered = @ + (end - start)]

\* Whether p rises through, from or to the boundary, and when.
UpwardCrossing(p, boundary) ==
  /\ ValidSOC(SOCAt(p, p.from)) /\ ValidSOC(SOCAt(p, End(p)))
  /\ SOCAt(p, End(p)) > SOCAt(p, p.from)
  /\ boundary >= SOCAt(p, p.from) /\ boundary <= SOCAt(p, End(p))
Crossing(p, boundary) == p.from + (boundary - p.soc) \div p.socRise

\* A sequence of numbers in ascending order, by insertion.
InsertValue(values, v) ==
  LET greater == {i \in DOMAIN values : values[i] > v}
  IN  InsertAt(values, IF greater = {} THEN Len(values) + 1 ELSE Min(greater), v)

Ascending(values) ==
  LET upTo[k \in 0..Len(values)] ==
        IF k = 0 THEN <<>> ELSE InsertValue(upTo[k - 1], values[k])
  IN  upTo[Len(values)]

\* Of sorted values, doubled.
Median(values) ==
  LET n == Len(values)
  IN  IF n % 2 = 1 THEN 2 * values[n \div 2 + 1] ELSE values[n \div 2] + values[n \div 2 + 1]

Quantiles(values) ==
  LET n == Len(values)  half == n \div 2
  IN  [median |-> Median(values), minimum |-> 2 * values[1], maximum |-> 2 * values[n],
       box |-> IF n < 3 THEN <<>>
               ELSE <<Median(SubSeq(values, 1, half)), Median(SubSeq(values, n - half + 1, n))>>]

-----------------------------------------------------------------------------
(* The dwell report.                                                       *)

Nothing == [soc |-> [c \in 0..4 |-> 0], joint |-> [r \in 0..3 |-> [c \in 0..4 |-> 0]],
            socCovered |-> 0, jointCovered |-> 0]

\* The identifiers, which order pairs of the same span, are arbitrary.
InOrder(s) ==
  \A i, j \in DOMAIN s :
    i < j => s[i].from < s[j].from \/ (s[i].from = s[j].from /\ End(s[i]) >= End(s[j]))

StatisticsInit ==
  /\ window \in Windows
  /\ \/ intervals \in {s \in Intervals : InOrder(s)} /\ candidates = <<>>
     \/ intervals = <<>> /\ candidates \in Candidates
  /\ pass = 0
  /\ todo = intervals
  /\ coveredEnd = window.start
  /\ dwell = Nothing
  /\ samples = <<>>

\* The pair has what this pass is about, valid at both ends.
Eligible(p, joint) ==
  /\ p.seconds > 0 /\ ValidSOC(p.soc) /\ ValidSOC(SOCAt(p, End(p)))
  /\ joint => p.warm

\* BASSlices and the loop of BAStatisticsDwell over its slices.
Slice ==
  /\ todo # <<>>
  /\ LET p == Head(todo)
         start == Max({p.from, window.start, coveredEnd})
         end == Min({End(p), window.end})
     IN  IF Eligible(p, pass = 1) /\ start < end
         THEN /\ dwell' = AccumulateDwell(dwell, p, start, end, pass = 1)
              /\ coveredEnd' = end
         ELSE UNCHANGED <<dwell, coveredEnd>>
  /\ todo' = Tail(todo)
  /\ UNCHANGED <<window, intervals, pass, candidates, samples>>

SecondPass ==
  /\ pass = 0 /\ todo = <<>>
  /\ pass' = 1
  /\ todo' = intervals
  /\ coveredEnd' = window.start
  /\ UNCHANGED <<window, intervals, dwell, candidates, samples>>

-----------------------------------------------------------------------------
(* The comparison.                                                         *)

\* BASComparisonReason: the session lies in the window, and its pairs follow one another.
Complete(s) ==
  /\ s # <<>>
  /\ s[1].from >= window.start /\ End(Last(s)) <= window.end /\ s[1].from < End(Last(s))
  /\ \A i \in DOMAIN s : Eligible(s[i], FALSE)
  /\ \A i \in 1..(Len(s) - 1) : End(s[i]) = s[i + 1].from

\* The first crossing of 20 and the first crossing of 80 after it, pair by pair.
Cross(found, p) ==
  LET lower == IF found = <<>> /\ UpwardCrossing(p, 20) THEN <<Crossing(p, 20)>> ELSE found
  IN  IF Len(lower) = 1 /\ UpwardCrossing(p, 80) /\ Crossing(p, 80) > lower[1]
      THEN Append(lower, Crossing(p, 80)) ELSE lower

CrossingRange(s) ==
  LET found[k \in 0..Len(s)] == IF k = 0 THEN <<>> ELSE Cross(found[k - 1], s[k])
  IN  IF Len(found[Len(s)]) = 2 THEN found[Len(s)] ELSE <<>>

Compare ==
  /\ candidates # <<>>
  /\ LET s == Head(candidates)
         overlaps == samples # <<>> /\ s[1].from < End(Last(Last(samples).session))
     IN  samples' = IF Complete(s) /\ ~overlaps /\ CrossingRange(s) # <<>>
                    THEN Append(samples, [lower |-> CrossingRange(s)[1],
                                          upper |-> CrossingRange(s)[2], session |-> s])
                    ELSE samples
  /\ candidates' = Tail(candidates)
  /\ UNCHANGED <<window, intervals, pass, todo, coveredEnd, dwell>>

StatisticsNext == Slice \/ SecondPass \/ Compare

StatisticsSpec == StatisticsInit /\ [][StatisticsNext]_statisticsVars

-----------------------------------------------------------------------------

\* The pair that answers for the second from t on: the first one in order that spans it.
Spans(p, t, joint) == Eligible(p, joint) /\ p.from <= t /\ t < End(p)

Owner(t, joint) ==
  LET spanning == {i \in DOMAIN intervals : Spans(intervals[i], t, joint)}
  IN  IF spanning = {} THEN 0 ELSE Min(spanning)

WindowSeconds == window.start..(window.end - 1)

\* The seconds of the window whose owner has, in their middle, the given charge or the given
\* charge and temperature; the seconds that have an owner.
SecondsIn(row, column, joint) ==
  Cardinality({t \in WindowSeconds :
                 LET i == Owner(t, joint)
                 IN  i # 0 /\ InBin(intervals[i], t, t + 1, row, column, joint)})
SecondsOwned(joint) == Cardinality({t \in WindowSeconds : Owner(t, joint) # 0})

\* What the dwell report says of every bin is the number of seconds that the history spent
\* there, however its pairs overlap, are clipped by the window, rise, fall or touch the edges;
\* nothing is counted twice, the coverage reported is what any pair covers, and the bins of charge
\* add up to it.
DwellExact ==
  pass = 1 /\ todo = <<>> =>
    /\ \A c \in 0..4 : dwell.soc[c] = SecondsIn(0, c, FALSE)
    /\ \A r \in 0..3, c \in 0..4 : dwell.joint[r][c] = SecondsIn(r, c, TRUE)
    /\ dwell.socCovered = SecondsOwned(FALSE) /\ dwell.jointCovered = SecondsOwned(TRUE)
    /\ dwell.socCovered = SumTo([c \in 1..5 |-> dwell.soc[c - 1]], 5)

\* A pair of the session is at the edge at that time.
MeetsAt(s, t, edge) ==
  \E i \in DOMAIN s : s[i].from <= t /\ t <= End(s[i]) /\ SOCAt(s[i], t) = edge

\* Every sample of the comparison runs from an instant at 20 percent to a later one at 80
\* percent of a session of its own, and the quartiles of their lengths are in order.
SamplesOrdered ==
  /\ \A i \in DOMAIN samples :
       /\ samples[i].lower < samples[i].upper
       /\ MeetsAt(samples[i].session, samples[i].lower, 20)
       /\ MeetsAt(samples[i].session, samples[i].upper, 80)
       /\ \A j \in 1..(i - 1) : samples[j].upper <= samples[i].lower
  /\ samples # <<>> =>
       LET q == Quantiles(Ascending([i \in DOMAIN samples |->
                                       samples[i].upper - samples[i].lower]))
       IN  /\ q.minimum <= q.median /\ q.median <= q.maximum
           /\ Len(samples) >= 3 => /\ q.minimum <= q.box[1] /\ q.box[1] <= q.median
                                   /\ q.median <= q.box[2] /\ q.box[2] <= q.maximum

ReportExact == DwellExact /\ SamplesOrdered
=============================================================================
