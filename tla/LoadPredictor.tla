--------------------------- MODULE LoadPredictor ---------------------------
(***************************************************************************)
(* cppnet::LoadPredictor (src/common/network/load_predictor.cpp): a        *)
(* sliding window of (load_score, timestamp_ms) points under              *)
(* _window_mutex, the atomics _current_load / _max_load / _min_load, and   *)
(* the lazily filled EMA and regression caches that PredictLoad (a const   *)
(* method, through mutable members) fills and UpdateLoad invalidates.      *)
(*                                                                         *)
(* Timestamps are integers in a unit of the model's choosing (one unit     *)
(* stands for 30 s, so the default 60000 ms window is 2 units and the      *)
(* default 300000 ms horizon 10); the scaling is exact for every formula   *)
(* of the file.  The unsigned subtraction of PruneOldData keeps its wrap:  *)
(* it is taken modulo 2^Width.  Load scores and all derived values are     *)
(* exact fractions (Fractions.tla).  _average_load is written by UpdateLoad*)
(* and read only by GetAverageLoad; no property reads it, so it is left    *)
(* out.                                                                    *)
(***************************************************************************)
EXTENDS Fractions, Sequences, SequencesExt

CONSTANTS
    Loads,           \* load_score values a caller passes (integers)
    WindowDuration,  \* _window_duration_ms (60000 ms = 2 units)
    Horizon,         \* future_time_ms of PredictLoad (300000 ms = 10 units)
    Width,           \* bit width of uint64_t timestamps, modelled by a smaller one
    FirstTs,         \* the caller's clock when the predictor is created
    MaxTs,           \* the last clock value the model explores
    Alphas,          \* values SetSmoothingFactor may store
    WindowSizes,     \* values SetWindowSize may store
    MaxUpdates,      \* bound on UpdateLoad calls
    MaxPredicts      \* bound on PredictLoad calls between two updates

ASSUME MaxTs + WindowDuration < 2^Width

VARIABLES
    window,      \* _load_window: <<[load, ts], ...>>, front first
    current,     \* _current_load
    maxL, minL,  \* _max_load, _min_load
    alpha,       \* _smoothing_factor
    windowSize,  \* _window_size
    emaInit,     \* _ema_initialized
    lastEma,     \* _last_ema
    regInit,     \* _regression_initialized
    slope,       \* _slope
    intercept,   \* _intercept
    upc,         \* the updating thread: "idle" or "locked" (between line 18 and 22)
    pending,     \* the point that thread is adding
    clock,       \* the caller's steady clock: timestamps never go back
    updates,     \* UpdateLoad calls so far
    inserted,    \* every point ever added, in order (history)
    preds        \* PredictLoad results since the last UpdateLoad call began (history)

vars == <<window, current, maxL, minL, alpha, windowSize, emaInit, lastEma,
          regInit, slope, intercept, upc, pending, clock, updates, inserted, preds>>

Point == [load : Loads, ts : FirstTs..MaxTs]

\* uint64_t subtraction, wrapping below zero.
USub(a, b) == (a - b) % (2^Width)

\* Mutant: the find_if predicate keeps points at the cutoff (>=).
PruneOldDataInclusive(w, now) ==
    IF w = <<>> THEN w
    ELSE LET cutoff == USub(now, WindowDuration)
             first  == SelectInSeq(w, LAMBDA p : p.ts >= cutoff)
         IN  IF first = 0 THEN <<>> ELSE SubSeq(w, first, Len(w))

\* PruneOldData: find the first point newer than the cutoff and erase
\* everything before it; when none is newer, find_if returns end() and the
\* whole window is erased.
PruneOldData(w, now) ==
    IF w = <<>> THEN w
    ELSE LET cutoff == USub(now, WindowDuration)
             first  == SelectInSeq(w, LAMBDA p : p.ts > cutoff)
         IN  IF first = 0 THEN <<>> ELSE SubSeq(w, first, Len(w))

\* Sum of a sequence of fractions.
FSum(s) == FoldLeft(FAdd, FZero, s)

\* CalculateEMA over a non-empty window: ema_0 = load_0,
\* ema_i = alpha * load_i + (1 - alpha) * ema_{i-1}.
EmaOf(w, a) ==
    FoldLeft(LAMBDA e, p : FAdd(FMul(a, Int2Frac(p.load)),
                                FMul(FSub(Int2Frac(1), a), e)),
             Int2Frac(w[1].load), Tail(w))

\* The least-squares fit of CalculateLinearRegression over a window of at
\* least two points, as the code computes it: means, then sums of products
\* of differences.
Regression(w) ==
    LET n     == Int2Frac(Len(w))
        meanX == FDiv(FSum([i \in 1..Len(w) |-> Int2Frac(w[i].ts)]), n)
        meanY == FDiv(FSum([i \in 1..Len(w) |-> Int2Frac(w[i].load)]), n)
        dx(i) == FSub(Int2Frac(w[i].ts), meanX)
        dy(i) == FSub(Int2Frac(w[i].load), meanY)
        num   == FSum([i \in 1..Len(w) |-> FMul(dx(i), dy(i))])
        den   == FSum([i \in 1..Len(w) |-> FMul(dx(i), dx(i))])
        sl    == IF den = FZero THEN FZero ELSE FDiv(num, den)
    IN  [flat |-> den = FZero, meanY |-> meanY, slope |-> sl,
         intercept |-> FSub(meanY, FMul(sl, meanX))]

(***************************************************************************)
(* UpdateLoad, in the two steps another thread can separate: line 18       *)
(* stores _current_load with no lock held; lines 21-52 then run under      *)
(* _window_mutex.  Timestamps come from the caller's steady clock.         *)
(***************************************************************************)
BeginUpdate(l, ts) ==
    /\ upc = "idle"
    /\ updates < MaxUpdates
    /\ clock <= ts
    /\ current' = Int2Frac(l)
    /\ pending' = [load |-> l, ts |-> ts]
    /\ clock'   = ts
    /\ upc'     = "locked"
    /\ updates' = updates + 1
    /\ preds'   = <<>>
    /\ UNCHANGED <<window, maxL, minL, alpha, windowSize, emaInit, lastEma,
                   regInit, slope, intercept, inserted>>

\* The locked part of UpdateLoad: prune against the new timestamp, append,
\* widen max/min (or reset both when the point is alone), invalidate the
\* EMA and regression caches.
UpdateLocked ==
    LET w == Append(PruneOldData(window, pending.ts), pending)
        l == pending.load
    IN  /\ upc = "locked"
        /\ window' = w
        /\ IF Len(w) = 1 THEN maxL' = l /\ minL' = l
           ELSE /\ maxL' = IF l > maxL THEN l ELSE maxL
                /\ minL' = IF l < minL THEN l ELSE minL
        /\ emaInit' = FALSE /\ regInit' = FALSE
        /\ inserted' = Append(inserted, pending) /\ preds' = <<>>
        /\ upc' = "idle"
        /\ UNCHANGED <<current, alpha, windowSize, lastEma, slope, intercept,
                       pending, clock, updates>>

(***************************************************************************)
(* PredictLoad(Horizon), under _window_mutex: 0 on an empty window; else   *)
(* prune against the newest point, return _current_load below two points,  *)
(* else 0.7 * EMA + 0.3 * regression, each taken from its cache when set.  *)
(* A fresh regression extrapolates to back().timestamp + horizon; the      *)
(* cached path (line 129) uses the horizon alone.  A flat window (all      *)
(* timestamps equal) returns the mean and leaves the cache unset.          *)
(***************************************************************************)
PredictLoad ==
    /\ Len(preds) < MaxPredicts
    /\ IF window = <<>>
       THEN /\ preds' = Append(preds, FZero)
            /\ UNCHANGED <<window, emaInit, lastEma, regInit, slope, intercept>>
       ELSE LET w == PruneOldData(window, Last(window).ts) IN
            /\ window' = w
            /\ IF Len(w) < 2
               THEN /\ preds' = Append(preds, current)
                    /\ UNCHANGED <<emaInit, lastEma, regInit, slope, intercept>>
               ELSE LET ema   == IF emaInit THEN lastEma ELSE EmaOf(w, alpha)
                        r     == Regression(w)
                        trend == IF regInit
                                 THEN FAdd(intercept, FMul(slope, Int2Frac(Horizon)))
                                 ELSE IF r.flat THEN r.meanY
                                 ELSE FAdd(r.intercept,
                                           FMul(r.slope, Int2Frac(Last(w).ts + Horizon)))
                    IN  /\ lastEma' = ema /\ emaInit' = TRUE
                        /\ IF regInit \/ r.flat
                           THEN UNCHANGED <<regInit, slope, intercept>>
                           ELSE /\ regInit' = TRUE
                                /\ slope' = r.slope /\ intercept' = r.intercept
                        /\ preds' = Append(preds, FAdd(FMul(Frac(7, 10), ema),
                                                       FMul(Frac(3, 10), trend)))
    /\ UNCHANGED <<current, maxL, minL, alpha, windowSize, upc, pending, clock,
                   updates, inserted>>

\* SetSmoothingFactor / SetWindowSize: plain stores, no cache invalidation.
SetSmoothingFactor(a) ==
    /\ alpha' = a
    /\ UNCHANGED <<window, current, maxL, minL, windowSize, emaInit, lastEma,
                   regInit, slope, intercept, upc, pending, clock, updates,
                   inserted, preds>>

SetWindowSize(n) ==
    /\ windowSize' = n
    /\ UNCHANGED <<window, current, maxL, minL, alpha, emaInit, lastEma,
                   regInit, slope, intercept, upc, pending, clock, updates,
                   inserted, preds>>

\* The constructor's defaults; the caller's clock starts at FirstTs.
Init ==
    /\ window = <<>> /\ current = FZero /\ maxL = 0 /\ minL = 0
    /\ alpha = Frac(3, 10) /\ windowSize = 100
    /\ emaInit = FALSE /\ lastEma = FZero
    /\ regInit = FALSE /\ slope = FZero /\ intercept = FZero
    /\ upc = "idle" /\ pending = [load |-> 0, ts |-> FirstTs]
    /\ clock = FirstTs /\ updates = 0 /\ inserted = <<>> /\ preds = <<>>

Next ==
    \/ \E l \in Loads, ts \in FirstTs..MaxTs : BeginUpdate(l, ts)
    \/ UpdateLocked
    \/ PredictLoad
    \/ \E a \in Alphas : SetSmoothingFactor(a)
    \/ \E n \in WindowSizes : SetWindowSize(n)

Spec == Init /\ [][Next]_vars


-----------------------------------------------------------------------------
(***************************************************************************)
(* Properties.                                                              *)
(***************************************************************************)

\* Spec section 8: once a point with timestamp t is in, no retained point
\* has a timestamp <= t - window_duration (PruneOldData before the insert).
WindowPrunedAfterInsert ==
    upc = "idle" /\ clock >= WindowDuration
        => \A i \in DOMAIN window : window[i].ts > clock - WindowDuration

\* Spec section 4.2: the window holds exactly the points not older than
\* now - window_duration (age pruning on every UpdateLoad / PredictLoad).
WindowMatchesAge ==
    upc = "idle"
        => window = SelectSeq(inserted, LAMBDA p : p.ts + WindowDuration > clock)

\* Spec section 4.2: results are cached between updates, so PredictLoad
\* calls with no UpdateLoad between them return the same value.
PredictStable == \A i, j \in DOMAIN preds : preds[i] = preds[j]

=============================================================================
