------------------------------ MODULE Charts ------------------------------
(* Where the charts put what they draw.  Positions are per cent of the box,  *)
(* as fractions of integers; the rounding of floating point is left out.     *)
(* Samples count from 1 here and from 0 in the code.                         *)
EXTENDS Integers, Sequences

Clamp(v, lo, hi) ==
  LET capped == IF v < hi THEN v ELSE hi
  IN  IF lo > capped THEN lo ELSE capped

Fraction(num, den) == [num |-> num, den |-> den]
InBox(f) == 0 <= f.num /\ f.num <= 100 * f.den

\* Math.round(a / b)
Nearest(a, b) == (2 * a + b) \div (2 * b)

-----------------------------------------------------------------------------
(* Plot and MetricChart: lines of several series under one bound. *)

SafeMax(max) == IF max > 0 THEN max ELSE 1

Height(v, max) == Fraction(100 * (SafeMax(max) - Clamp(v, 0, SafeMax(max))), SafeMax(max))

\* A single sample is a flat line.
PointsFor(data, max) ==
  IF Len(data) = 1
  THEN <<[x |-> Fraction(0, 1), y |-> Height(data[1], max)],
         [x |-> Fraction(100, 1), y |-> Height(data[1], max)]>>
  ELSE [i \in 1 .. Len(data) |->
          [x |-> Fraction(100 * (i - 1), Len(data) - 1), y |-> Height(data[i], max)]]

\* The sample under the pointer; n is that of the first series.
Pick(clientX, left, width, n) == 1 + Nearest(Clamp(clientX - left, 0, width) * (n - 1), width)

At(idx, n) == IF n > 1 THEN Fraction(100 * (idx - 1), n - 1) ELSE Fraction(50, 1)
Sampled(data, idx) == IF idx <= Len(data) THEN data[idx] ELSE 0
Dot(data, idx, n, max) == [x |-> At(idx, n), y |-> Height(Sampled(data, idx), max)]

-----------------------------------------------------------------------------
(* BandwidthChart: upload above a zero line, download below it.  base is the *)
(* power of ten that niceBound and niceStep find with log10.                 *)

Peaks(data, peak) ==
  /\ peak >= 1 /\ (peak = 1 \/ \E i \in DOMAIN data : data[i] = peak)
  /\ \A i \in DOMAIN data : data[i] <= peak

Decade(v, base) == base <= v /\ v < 10 * base

NiceBound(v, base) ==
  IF v <= base THEN base ELSE IF v <= 2 * base THEN 2 * base
  ELSE IF v <= 5 * base THEN 5 * base ELSE 10 * base

\* niceStep(total / 6), with the thresholds 1.5, 3.5 and 7.5 times six; all in a
\* unit in which base is whole, a tenth of a byte per second at the least.
NiceStep(total, base) ==
  IF total < 9 * base THEN base ELSE IF total < 21 * base THEN 2 * base
  ELSE IF total < 45 * base THEN 5 * base ELSE 10 * base

\* mid - clamp(v) / upMax * mid, where mid = upMax / total * 100, and so on.
Middle(upMax, downMax) == Fraction(100 * upMax, upMax + downMax)
YUp(v, upMax, downMax) == Fraction(100 * (upMax - Clamp(v, 0, upMax)), upMax + downMax)
YDown(v, upMax, downMax) == Fraction(100 * (upMax + Clamp(v, 0, downMax)), upMax + downMax)

\* Lines above and below zero: as many steps as fit.
TicksOf(bound, step) == bound \div step

\* The labels of the time axis, among the samples that have a time.
XCount(last) == IF last < 2 THEN 2 ELSE IF last < 8 THEN last ELSE 8
XTick(k, last) == 1 + Nearest(k * (last - 1), XCount(last) - 1)
=============================================================================
