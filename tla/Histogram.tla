------------------------------ MODULE Histogram ------------------------------
(***************************************************************************)
(* profiling::Histogram: values below EXACT_LIMIT have a bucket each; from *)
(* there on every power of two is cut into 2^ACCURACY_BITS buckets, up to  *)
(* VALUE_LIMIT, and one bucket takes the rest.  Two histograms record      *)
(* values, and one is merged into the other.                               *)
(***************************************************************************)
EXTENDS Integers, FiniteSets, FiniteSetsExt

CONSTANTS AccuracyBits, RangeBits,
          Values,        (* the values recorded                             *)
          MaxSamples,    (* bound: samples in both histograms               *)
          Ranks,         (* the percentiles asked for, per 100,000          *)
          Infinity       (* what percentile() returns for the last bucket   *)

ASSUME HistogramAssumption ==
  AccuracyBits \in Nat /\ RangeBits \in Nat /\ AccuracyBits < RangeBits

VARIABLES histo,      (* the two histograms                                 *)
          recorded    (* how often each value was recorded in each          *)

histoVars == <<histo, recorded>>

ExactLimit == 2^AccuracyBits
ValueLimit == 2^RangeBits
MaxBuckets == (RangeBits - AccuracyBits + 1) * 2^AccuracyBits

(* The empty histogram; min_value is larger than every value.              *)
EmptyHistogram ==
  [samples |-> [b \in 0..MaxBuckets |-> 0], total |-> 0,
   min |-> 2^(RangeBits + 1), max |-> 0]

HistoInit ==
  /\ histo = [i \in 1..2 |-> EmptyHistogram]
  /\ recorded = [i \in 1..2 |-> [v \in Values |-> 0]]

-----------------------------------------------------------------------------
(* std::bit_width(v) - 1 *)
RangeBit(v) == CHOOSE n \in 0..RangeBits : 2^n <= v /\ v < 2^(n + 1)

ValueToBucket(v) ==
  IF v < ExactLimit THEN v
  ELSE IF v >= ValueLimit THEN MaxBuckets
  ELSE LET d == RangeBit(v) - AccuracyBits
       IN  d * 2^AccuracyBits + v \div 2^d

(* Mutant of BucketToValue: the least value of the bucket, not the last.   *)
BucketToValue_Least(b) ==
  IF b < ExactLimit THEN b
  ELSE IF b >= MaxBuckets THEN ValueLimit
  ELSE LET d == b \div 2^AccuracyBits - 1
       IN  (2^AccuracyBits + (b % 2^AccuracyBits)) * 2^d

BucketToValue(b) ==
  IF b < ExactLimit THEN b
  ELSE IF b >= MaxBuckets THEN ValueLimit
  ELSE LET d == b \div 2^AccuracyBits - 1
       IN  (2^AccuracyBits + (b % 2^AccuracyBits)) * 2^d + 2^d - 1

Threshold(total, rank) == Max({(total * rank + 99999) \div 100000, 1})

(* percentile(): the first bucket at which the running sum of the samples  *)
(* reaches the threshold.                                                  *)
Percentile(h, rank) ==
  LET sum[b \in 0..MaxBuckets] ==
        h.samples[b] + (IF b = 0 THEN 0 ELSE sum[b - 1])
      reached == {b \in 0..MaxBuckets : sum[b] >= Threshold(h.total, rank)}
  IN  CASE reached = {} -> 0
        [] reached = {MaxBuckets} -> Infinity
        [] OTHER -> Min({BucketToValue(Min(reached)), h.max})

HistoRecord(i, v) ==
  /\ histo[1].total + histo[2].total < MaxSamples
  /\ histo' = [histo EXCEPT ![i].samples[ValueToBucket(v)] = @ + 1,
                            ![i].total = @ + 1,
                            ![i].min = Min({@, v}), ![i].max = Max({@, v})]
  /\ recorded' = [recorded EXCEPT ![i][v] = @ + 1]

(* merge: the second histogram into the first; a fresh one follows it.     *)
HistoMerge ==
  /\ histo' = <<[samples |-> [b \in 0..MaxBuckets |->
                                histo[1].samples[b] + histo[2].samples[b]],
                 total |-> histo[1].total + histo[2].total,
                 min |-> Min({histo[1].min, histo[2].min}),
                 max |-> Max({histo[1].max, histo[2].max})], EmptyHistogram>>
  /\ recorded' = <<[v \in Values |-> recorded[1][v] + recorded[2][v]],
                   [v \in Values |-> 0]>>

HistoNext ==
  \/ \E i \in 1..2, v \in Values : HistoRecord(i, v)
  \/ HistoMerge

-----------------------------------------------------------------------------
(* The value of the given rank, by its definition: the least that at least *)
(* that share of the samples does not exceed.                              *)
Exact(i, rank) ==
  LET upTo[v \in 0..Max(Values)] ==
        (IF v \in Values THEN recorded[i][v] ELSE 0)
          + (IF v = 0 THEN 0 ELSE upTo[v - 1])
  IN  Min({v \in Values : /\ upTo[v] > 0
                          /\ upTo[v] * 100000 >= upTo[Max(Values)] * rank})

(* A percentile is never below the true one, and above it by at most one   *)
(* part in 2^ACCURACY_BITS; it is infinite exactly when the true one is    *)
(* out of range.  min and max are those of the samples.                    *)
PercentilesBound ==
  \A i \in 1..2 : histo[i].total > 0 =>
    /\ \A rank \in Ranks :
         LET p == Percentile(histo[i], rank)
             v == Exact(i, rank)
         IN  /\ p = Infinity <=> v >= ValueLimit
             /\ p # Infinity => v <= p /\ (p - v) * 2^AccuracyBits <= v
    /\ LET seen == {v \in Values : recorded[i][v] > 0}
       IN  histo[i].min = Min(seen) /\ histo[i].max = Max(seen)
=============================================================================
