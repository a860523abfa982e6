----------------------------- MODULE LoadMetrics -----------------------------
(***************************************************************************)
(* cppnet::LoadMetrics (src/common/network/load_metrics.cpp): twelve       *)
(* atomics, one setter each, and CalculateLoadScore, which normalises      *)
(* every signal to [0,1] and takes a fixed-weight sum.                     *)
(*                                                                         *)
(* The atomics are the fields of one record, metrics, named after the      *)
(* members.  Doubles are exact fractions (module Fractions).  Each setter  *)
(* is one atomic store, so one step.  The score is a function of the       *)
(* state: the owning dispatcher is the only writer.                        *)
(***************************************************************************)
EXTENDS Fractions, FiniteSets

CONSTANTS
    RatioInputs,   \* doubles passed to the ratio setters (some outside [0,1])
    CountInputs    \* integers passed to the count and time setters

VARIABLE
    metrics        \* metrics.f: the atomic _f

vars == <<metrics>>

\* The members that hold a double in [0,1], and those that hold a count.
RatioFields == {"cpu_load", "thread_utilization", "bandwidth_usage",
                "memory_pool_usage", "cache_hit_rate", "error_rate"}
CountFields == {"context_switch_rate", "io_wait_time", "packet_rate",
                "connection_count", "task_queue_length", "response_time"}

One == Int2Frac(1)
FMinF(a, b) == IF FLess(a, b) THEN a ELSE b
FMaxF(a, b) == IF FLess(a, b) THEN b ELSE a

\* Mutant: a ratio setter that stores its argument as given.
NoClamp(x) == x

\* std::min(1.0, std::max(0.0, x)), the body of every ratio setter.
Clamp01(x) == FMinF(One, FMaxF(FZero, x))

\* UpdateCPULoad, UpdateMemoryPoolUsage, ...: store the clamped argument.
UpdateRatio(f, v) ==
    metrics' = [metrics EXCEPT ![f] = Clamp01(v)]

\* UpdateIOWaitTime, UpdateConnectionCount, ...: store the argument as is.
UpdateCount(f, v) ==
    metrics' = [metrics EXCEPT ![f] = Int2Frac(v)]

\* The saturation constants of CalculateLoadScore's normalisation.
Scale == [context_switch_rate |-> 100000, io_wait_time |-> 1000000,
          packet_rate |-> 1000000, connection_count |-> 10000,
          task_queue_length |-> 1000, response_time |-> 1000000]

\* _weight_*, in hundredths (the literals sum to 1.0).
Weight == [cpu_load |-> 15, thread_utilization |-> 10,
           context_switch_rate |-> 5, io_wait_time |-> 10,
           packet_rate |-> 10, bandwidth_usage |-> 5,
           connection_count |-> 15, memory_pool_usage |-> 10,
           cache_hit_rate |-> 5, task_queue_length |-> 5,
           response_time |-> 5, error_rate |-> 5]

\* Mutant: counts normalised without the saturating min.
NormalizedUnsaturated(m, f) ==
    CASE f \in CountFields  -> FDiv(m[f], Int2Frac(Scale[f]))
      [] f = "cache_hit_rate" -> FSub(One, m[f])
      [] OTHER              -> m[f]

\* The normalised signal: a count is min(1, value / scale), the cache hit
\* rate enters as 1 - rate, the other ratios as stored.
Normalized(m, f) ==
    CASE f \in CountFields  -> FMinF(One, FDiv(m[f], Int2Frac(Scale[f])))
      [] f = "cache_hit_rate" -> FSub(One, m[f])
      [] OTHER              -> m[f]

\* The weighted sum before the final clamp (lines 92-104).
RECURSIVE SumOver(_, _)
SumOver(m, F) ==
    IF F = {} THEN FZero
    ELSE LET f == CHOOSE g \in F : TRUE
         IN  FAdd(FMul(Frac(Weight[f], 100), Normalized(m, f)),
                  SumOver(m, F \ {f}))

RawScore(m) == SumOver(m, RatioFields \cup CountFields)

CalculateLoadScore(m) == Clamp01(RawScore(m))

\* Every atomic starts at zero.
Init == metrics = [f \in RatioFields \cup CountFields |-> FZero]

Next ==
    \/ \E f \in RatioFields, v \in RatioInputs : UpdateRatio(f, v)
    \/ \E f \in CountFields, v \in CountInputs : UpdateCount(f, v)

Spec == Init /\ [][Next]_vars

-----------------------------------------------------------------------------
(***************************************************************************)
(* Properties.                                                              *)
(***************************************************************************)

\* Every count atomic holds a natural number and every ratio atomic a
\* value in [0,1], whatever the setters were passed.
TypeOK ==
    /\ DOMAIN metrics = RatioFields \cup CountFields
    /\ \A f \in CountFields : metrics[f].d = 1 /\ metrics[f].n >= 0
    /\ \A f \in RatioFields : FLeq(FZero, metrics[f]) /\ FLeq(metrics[f], One)

\* The final clamp of CalculateLoadScore never changes the sum: whatever
\* the setters were called with, every normalised term lies in [0,1] and
\* the weights sum to 1, so the weighted sum itself lies in [0,1] (the
\* spec's "all inputs are sanitized at write time").  A setter that misses
\* its clamp, or a normalisation that misses its min, breaks it.
RawScoreInUnit ==
    FLeq(FZero, RawScore(metrics)) /\ FLeq(RawScore(metrics), One)

=============================================================================
