--------------------------- MODULE LatencyRecorder ---------------------------
(***************************************************************************)
(* include/lob/latency.h: the log2-bucketed recorders run_e2e keeps, one   *)
(* per class of command, reset together at the warm-up boundary and merged *)
(* for the report, in nanoseconds by a rate calibrated at startup.  Ticks  *)
(* are Width-bit words (64 in the code).  Counters are taken not to        *)
(* overflow: the products of percentile_ticks and of interpolate are far   *)
(* below 2^64 "for any real run".  The clocks are hardware: a calibration  *)
(* is any of the Readings.                                                 *)
(*                                                                         *)
(* samples is history: how often each tick count was recorded.             *)
(***************************************************************************)
EXTENDS FiniteSetsExt, Functions

CONSTANTS Width,           \* bits of a tick count
          Classes,         \* kOpClasses
          Ticks,           \* tick counts that may be measured
          MaxSamples,      \* bound on the samples of a class
          Percentiles,     \* the pairs <<num, den>> asked for
          NanosPerSecond,  \* 10^9
          Readings         \* <<c0, c1, ns>>: the two reads of the tick counter
                           \* that measure makes, and the time between them

(* 1 << n.                                                                  *)
Pow2[n \in Nat] == IF n = 0 THEN 1 ELSE 2 * Pow2[n - 1]

ASSUME LatencyAssumption ==
    /\ Width \in Nat \ {0} /\ MaxSamples \in Nat /\ IsFiniteSet(Classes)
    /\ Ticks \subseteq 0 .. Pow2[Width] - 1
    /\ \A p \in Percentiles : p \in Nat \X (Nat \ {0}) /\ p[1] <= p[2]

(* measure's window "is capped so the tick product below cannot overflow",  *)
(* the counter going backwards included.                                    *)
ASSUME ReadingsAssumption ==
    /\ NanosPerSecond \in Nat \ {0}
    /\ \A r \in Readings : /\ r \in (0 .. Pow2[Width] - 1) \X (0 .. Pow2[Width] - 1) \X Nat
                            /\ (r[2] - r[1]) * NanosPerSecond < Pow2[Width]

VARIABLES recorders, samples

latencyVars == <<recorders, samples>>

Buckets == 0 .. Width      \* kLatencyBuckets of them

bit_width(ticks) == CHOOSE b \in Buckets : ticks < Pow2[b] /\ (b > 0 => ticks >= Pow2[b - 1])

Fresh == [counts |-> [b \in Buckets |-> 0], count |-> 0, min |-> Pow2[Width] - 1, max |-> 0]

LesserOf(a, b) == IF a < b THEN a ELSE b
GreaterOf(a, b) == IF a > b THEN a ELSE b

Recorded(rec, ticks) ==
    [counts |-> [rec.counts EXCEPT ![bit_width(ticks)] = @ + 1],
     count  |-> rec.count + 1,
     min    |-> LesserOf(rec.min, ticks),
     max    |-> GreaterOf(rec.max, ticks)]

(* A plausible bug: the extremes are not merged.                            *)
MergeCountsOnly(rec, other) ==
    [counts |-> [b \in Buckets |-> rec.counts[b] + other.counts[b]],
     count  |-> rec.count + other.count,
     min    |-> rec.min,
     max    |-> rec.max]

merge(rec, other) ==
    [counts |-> [b \in Buckets |-> rec.counts[b] + other.counts[b]],
     count  |-> rec.count + other.count,
     min    |-> LesserOf(rec.min, other.min),
     max    |-> GreaterOf(rec.max, other.max)]

-----------------------------------------------------------------------------
bucket_lo(b) == IF b = 0 THEN 0 ELSE Pow2[b - 1]
bucket_hi(b) == IF b = 0 THEN 0 ELSE Pow2[b] - 1

interpolate(b, in_rank, bucket_count) ==
    LET span == bucket_hi(b) - bucket_lo(b)
    IN  bucket_lo(b) + (span \div bucket_count) * in_rank
                     + ((span % bucket_count) * in_rank) \div bucket_count

clamp_to_observed(rec, v) == LesserOf(rec.max, GreaterOf(rec.min, v))

Rank(rec, num, den) == GreaterOf(1, (rec.count * num + den - 1) \div den)

(* The recorded values below bucket b.                                      *)
Below(rec, b) == SumFunctionOnSet(rec.counts, 0 .. b - 1)

percentile_ticks(rec, num, den) ==
    LET rank == Rank(rec, num, den)
        b    == CHOOSE b \in Buckets : /\ Below(rec, b) + rec.counts[b] >= rank
                                       /\ Below(rec, b) < rank
    IN  IF rec.count = 0 THEN 0
        ELSE IF num = den THEN rec.max
        ELSE clamp_to_observed(rec, interpolate(b, rank - Below(rec, b) - 1, rec.counts[b]))

summary(rec) ==
    [count |-> rec.count,
     min   |-> IF rec.count = 0 THEN 0 ELSE rec.min,
     max   |-> rec.max,
     p50   |-> percentile_ticks(rec, 50, 100),
     p90   |-> percentile_ticks(rec, 90, 100),
     p99   |-> percentile_ticks(rec, 99, 100),
     p999  |-> percentile_ticks(rec, 999, 1000)]

-----------------------------------------------------------------------------
(* The rate of a reading; a degenerate one gives the identity.              *)
measure(reading) ==
    LET ticks == reading[2] - reading[1]
        rate  == IF ticks > 0 /\ reading[3] > 0 THEN (ticks * NanosPerSecond) \div reading[3] ELSE 0
    IN  IF rate = 0 THEN NanosPerSecond ELSE rate

Word(n) == n % Pow2[Width]

(* A plausible bug: one product, which passes the width of a word.          *)
ticks_to_nanos_unsplit(rate, ticks) == Word(ticks * NanosPerSecond) \div rate

ticks_to_nanos(rate, ticks) ==
    Word(Word((ticks \div rate) * NanosPerSecond)
         + Word((ticks % rate) * NanosPerSecond) \div rate)

to_nanos(report, rate) ==
    [column \in DOMAIN report |->
        IF column = "count" THEN report.count ELSE ticks_to_nanos(rate, report[column])]

-----------------------------------------------------------------------------
LatencyInit ==
    /\ recorders = [c \in Classes |-> Fresh]
    /\ samples = [c \in Classes |-> [t \in Ticks |-> 0]]

SampleCount(bag) == SumFunctionOnSet(bag, Ticks)

Record(c, ticks) ==
    /\ SampleCount(samples[c]) < MaxSamples
    /\ recorders' = [recorders EXCEPT ![c] = Recorded(@, ticks)]
    /\ samples' = [samples EXCEPT ![c][ticks] = @ + 1]

(* The warm-up boundary.                                                    *)
ResetAll ==
    /\ recorders' = [c \in Classes |-> Fresh]
    /\ samples' = [c \in Classes |-> [t \in Ticks |-> 0]]

LatencyNext ==
    \/ \E c \in Classes, ticks \in Ticks : Record(c, ticks)
    \/ ResetAll

LatencySpec == LatencyInit /\ [][LatencyNext]_latencyVars

-----------------------------------------------------------------------------
(* The report: the recorder all that every class is merged into.            *)
all == FoldFunctionOnSet(merge, Fresh, recorders, Classes)

Pooled == [t \in Ticks |-> SumFunctionOnSet([c \in Classes |-> samples[c][t]], Classes)]

(* What was recorded, and the least sample at least num/den of them do not  *)
(* exceed.                                                                  *)
Observations(bag) == {t \in Ticks : bag[t] > 0}

UpTo(bag, t) == SumFunctionOnSet(bag, {u \in Ticks : u <= t})

TruePercentile(bag, num, den) ==
    Min({t \in Observations(bag) : UpTo(bag, t) * den >= SampleCount(bag) * num})

(* "worst-case error is one bucket span": an answer lies in the bucket of   *)
(* the true percentile and among the values observed.                       *)
IsFaithful(rec, bag) ==
    \A p \in Percentiles :
        LET answer == percentile_ticks(rec, p[1], p[2])
            truth  == TruePercentile(bag, p[1], p[2])
        IN  IF Observations(bag) = {} THEN answer = 0
            ELSE /\ bit_width(answer) = bit_width(truth)
                 /\ answer \in Min(Observations(bag)) .. Max(Observations(bag))

(* Each class's percentiles are faithful to what was measured since the     *)
(* boundary, and the merged recorder's to all of it, as if one recorder had *)
(* seen every sample.                                                       *)
PercentilesAreFaithful ==
    /\ \A c \in Classes : IsFaithful(recorders[c], samples[c])
    /\ IsFaithful(all, Pooled)

(* Of two percentiles the higher is not below the lower (p50 <= p90 <= ...),*)
(* interpolation within a bucket and steps between buckets alike.           *)
PercentilesAreMonotone ==
    \A p, q \in Percentiles :
        p[1] * q[2] <= q[1] * p[2]
            => percentile_ticks(all, p[1], p[2]) <= percentile_ticks(all, q[1], q[2])

(* What the report prints, for every calibration: each time converted is    *)
(* the ticks' own, rounded down, as long as the nanoseconds fit a word (the *)
(* products on the way need not), and the columns ascend.                   *)
Columns == <<"min", "p50", "p90", "p99", "p999", "max">>

Fits(rate, ticks) == ticks * NanosPerSecond < rate * Pow2[Width]

ReportIsExact ==
    LET report == summary(all) IN
    /\ PercentilesAreMonotone
    /\ \A r \in Readings :
          LET rate  == measure(r)
              nanos == to_nanos(report, rate)
          IN  Fits(rate, report.max) /\ rate * NanosPerSecond <= Pow2[Width] =>
              /\ \A k \in 1 .. 6 :
                    LET ns == nanos[Columns[k]] IN
                    /\ ns * rate <= report[Columns[k]] * NanosPerSecond
                    /\ report[Columns[k]] * NanosPerSecond < (ns + 1) * rate
              /\ \A k \in 1 .. 5 : nanos[Columns[k]] <= nanos[Columns[k + 1]]
              /\ nanos.count = SampleCount(Pooled)
=============================================================================
