-------------------------------- MODULE Stats --------------------------------
(***************************************************************************)
(* The figures that the reports give for a sequence of durations: the      *)
(* percentile of crates/common/src/lib.rs (crates/commit has a copy of it, *)
(* for samples that are sorted already), and the median and the percentile *)
(* that crates/rust-vs-jvm/spark-query.py computes for Spark.              *)
(*                                                                         *)
(* A duration is a natural number.  The floating-point rank                *)
(* (p / 100.0) * (len - 1.0) is half an integer exactly when the rational  *)
(* number is: 0.5 is exact, and the error of 0.95 is too small to survive  *)
(* the rounding of the product.                                            *)
(***************************************************************************)
EXTENDS Naturals, Sequences, FiniteSets

\* A definition that no other uses is a plausible bug in the definition right
\* after it, which the mutants of PROJECT.json put in its place.

\* A stable sort puts sample j after the smaller ones and the equal ones that
\* come before it.
Ahead(samples, j) ==
  {k \in DOMAIN samples : samples[k] < samples[j] \/ (samples[k] = samples[j] /\ k <= j)}

AsRecorded(samples) == samples

sorted(samples) ==
  [i \in DOMAIN samples |->
     samples[CHOOSE j \in DOMAIN samples : Cardinality(Ahead(samples, j)) = i]]

-----------------------------------------------------------------------------
(* common: percentile                                                      *)

RoundedDown(len, p) == (p * (len - 1)) \div 100

\* f64::round, half away from zero; p is at most 100, so the rank is below len.
Rank0(len, p) == (2 * p * (len - 1) + 100) \div 200

percentile(samples, p) ==
  IF samples = << >> THEN 0 ELSE sorted(samples)[Rank0(Len(samples), p) + 1]

-----------------------------------------------------------------------------
(* spark-query.py                                                          *)

\* Python's round of a quotient: half to even.
round(num, den) ==
  LET down == num \div den
      rest == 2 * (num % den)
  IN IF rest > den \/ (rest = den /\ down % 2 = 1) THEN down + 1 ELSE down

pct(data, p) ==
  IF data = << >> THEN 0 ELSE sorted(data)[round(p * (Len(data) - 1), 100) + 1]

\* statistics.median: the mean of the two samples in the middle, here doubled.
TwiceMedian(data) ==
  sorted(data)[(Len(data) + 1) \div 2] + sorted(data)[Len(data) \div 2 + 1]

-----------------------------------------------------------------------------
(* What the comment on percentile names, "nearest-rank": the least sample  *)
(* that at least p percent of the samples do not exceed.                   *)

NearestRank(len, p) == (p * len + 99) \div 100

\* x is what stands at rank r of the samples in their order, counted from 1.
HasRank(samples, x, r) ==
  /\ Cardinality({j \in DOMAIN samples : samples[j] < x}) < r
  /\ Cardinality({j \in DOMAIN samples : samples[j] <= x}) >= r
=============================================================================
