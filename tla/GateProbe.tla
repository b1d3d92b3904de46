----------------------------- MODULE GateProbe -----------------------------
(***************************************************************************)
(* The load half of Gate A (crates/pal-rest-probe): the runner measures    *)
(* the game server with and without polling, at one polling interval after *)
(* the other, and evaluate turns the measurements into a decision.  The    *)
(* last reader of the report is the agent, which evaluates it again before *)
(* it starts (crates/pal-agent/src/gate_profile.rs).                       *)
(*                                                                         *)
(* A window's distribution summaries are the mean of the server's frame    *)
(* rate and the 95th percentile of its frame time, in percent of an idle   *)
(* server's.  The host adapter that measures a window is not part of the   *)
(* repository: it is any source of windows that RestWindowBuilder can      *)
(* build.                                                                  *)
(***************************************************************************)
EXTENDS Integers, FiniteSets, SequencesExt, FiniteSetsExt

CONSTANTS
  Intervals,       \* GATE_A_CANDIDATE_INTERVALS_MS
  PairCount,       \* GATE_A_PAIR_COUNT, also minimum_pair_count
  MinSamples,      \* minimum_request_samples_per_window
  CriticalSquared, \* 1000 * t_critical_95(PairCount - 1)^2
  ServerFps,       \* mean frame rates the server may have while it is polled
  FrameTimes,      \* frame time percentiles it may have
  MaxAttempts,     \* bound: requests of a window
  MaxErrors        \* bound: failed requests of the whole run

VARIABLES
  builder,    \* RestWindowBuilder of the window being measured
  first,      \* measurement of the pair's first window, or NoWindow
  candidate,  \* CandidateLoadReport under construction
  candidates, \* the finished ones
  counted,    \* LoadErrorCounts of the current interval's windows
  failedAt,   \* history: intervals at which a request failed
  phase,      \* "load", "done", "failed", "reported"
  report,     \* GateAReport, or NoReport
  imported    \* history: the report was evaluated from a file

probeVars == <<builder, first, candidate, candidates, counted, failedAt, phase,
               report, imported>>

NoWindow == [attempts |-> 0, successes |-> 0, fps |-> 0, frame |-> 0]
NoReport == [decision |-> "None"]

NewCandidate(interval) ==
  [interval |-> interval, pairs |-> <<>>, errors |-> 0, abort |-> FALSE]

BaselineFirst(index) == index % 2 = 0

\* The role of the window being measured: the order alternates from pair to
\* pair.
IsBaseline ==
  BaselineFirst(Len(candidate.pairs)) = (first = NoWindow)

\* What the server shows while it is not polled, and while it is.
Load == IF IsBaseline THEN {[fps |-> 100, frame |-> 100]}
                      ELSE [fps : ServerFps, frame : FrameTimes]

ProbeInit ==
  /\ builder = NoWindow
  /\ first = NoWindow
  /\ candidate = NewCandidate(Intervals[1])
  /\ candidates = <<>>
  /\ counted = 0
  /\ failedAt = {}
  /\ phase = "load"
  /\ report = NoReport
  /\ imported = FALSE

-----------------------------------------------------------------------------
(* RestWindowBuilder.                                                      *)

RecordSuccess ==
  /\ phase = "load" /\ builder.attempts < MaxAttempts
  /\ \E l \in Load :
       /\ builder.successes > 0 => l = [fps |-> builder.fps, frame |-> builder.frame]
       /\ builder' = [attempts |-> builder.attempts + 1,
                      successes |-> builder.successes + 1,
                      fps |-> l.fps, frame |-> l.frame]
  /\ UNCHANGED <<first, candidate, candidates, counted, failedAt, phase, report, imported>>

RecordError ==
  /\ phase = "load" /\ builder.attempts < MaxAttempts
  /\ Cardinality(failedAt) + counted < MaxErrors
  /\ builder' = [builder EXCEPT !.attempts = @ + 1]
  /\ counted' = counted + 1
  /\ failedAt' = failedAt \cup {candidate.interval}
  /\ UNCHANGED <<first, candidate, candidates, phase, report, imported>>

-----------------------------------------------------------------------------
(* ProbeRunner::run_load.                                                  *)

\* LoadProbeSource::error_counts of the finished candidate: the source's
\* count, or the zeros of the trait's default.
WithErrors(c) == {[c EXCEPT !.errors = n] : n \in {0, counted}}

\* The window is there.  A window without a single success has no summary:
\* the source fails, and the run with it.
MeasureFailed ==
  /\ phase = "load" /\ builder.attempts > 0 /\ builder.successes = 0
  /\ phase' = "failed"
  /\ UNCHANGED <<builder, first, candidate, candidates, counted, failedAt, report, imported>>

MeasureFirst ==
  /\ phase = "load" /\ builder.successes > 0 /\ first = NoWindow
  /\ first' = builder
  /\ builder' = NoWindow
  /\ UNCHANGED <<candidate, candidates, counted, failedAt, phase, report, imported>>

\* The safety limits stop the run in the first or the second window of a
\* pair; the pair is dropped and the faster intervals are not tried.
SafetyAbort ==
  /\ phase = "load"
  /\ \E c \in WithErrors([candidate EXCEPT !.abort = TRUE]) :
       candidates' = Append(candidates, c)
  /\ builder' = NoWindow /\ first' = NoWindow /\ counted' = 0
  /\ phase' = "done"
  /\ UNCHANGED <<candidate, failedAt, report, imported>>

PairOf(a, b) ==
  LET baselineFirst == BaselineFirst(Len(candidate.pairs))
  IN  [index |-> Len(candidate.pairs), order |-> baselineFirst,
       baseline |-> IF baselineFirst THEN a ELSE b,
       measured |-> IF baselineFirst THEN b ELSE a]

\* The second window completes the pair; after the last pair the candidate
\* is finished and the next interval begins.
MeasureSecond ==
  /\ phase = "load" /\ builder.successes > 0 /\ first # NoWindow
  /\ LET c == [candidate EXCEPT !.pairs = Append(@, PairOf(first, builder))]
         last == Len(candidates) + 1 = Len(Intervals)
     IN  IF Len(c.pairs) < PairCount
           THEN /\ candidate' = c
                /\ UNCHANGED <<candidates, counted, phase>>
           ELSE /\ \E f \in WithErrors(c) : candidates' = Append(candidates, f)
                /\ counted' = 0
                /\ candidate' = IF last THEN c
                                ELSE NewCandidate(Intervals[Len(candidates) + 2])
                /\ phase' = IF last THEN "done" ELSE "load"
  /\ builder' = NoWindow /\ first' = NoWindow
  /\ UNCHANGED <<failedAt, report, imported>>

-----------------------------------------------------------------------------
(* evaluate.                                                               *)

CandidatePlanIsValid(cs) ==
  /\ Len(cs) \in 1..Len(Intervals)
  /\ \A i \in 1..Len(cs) : cs[i].interval = Intervals[i]
  /\ Len(cs) = Len(Intervals) \/ Last(cs).abort
  /\ \A i \in 1..Len(cs) :
       (i = Len(cs) /\ cs[i].abort) \/ Len(cs[i].pairs) = PairCount

PairSequenceIsValid(c) ==
  \A i \in 1..Len(c.pairs) :
    c.pairs[i].index = i - 1 /\ c.pairs[i].order = BaselineFirst(i - 1)

\* Mutant: the windows may miss requests.
WindowIsValidShort(w) == w.successes >= MinSamples

\* WindowMetrics::is_valid, with the coverage of the selected player: the
\* builder's sample counts are all its successes.
WindowIsValid(w) ==
  w.attempts >= MinSamples /\ w.successes = w.attempts

\* The loss of frame rate of every pair in percent of the baseline, summed,
\* and summed in squares.
LossOf(p) == ((p.baseline.fps - p.measured.fps) * 100) \div p.baseline.fps

SumOver(pairs, f(_)) == FoldSeq(LAMBDA p, n : f(p) + n, 0, pairs)

\* mean_confidence_interval_95 against its two limits, 1 and 2 percent, in
\* whole numbers: upper <= 2 iff t^2 (n Q - S^2) <= (n - 1) (2 n - S)^2.
FpsIsKept(pairs) ==
  LET n == Len(pairs)
      s == SumOver(pairs, LossOf)
      q == SumOver(pairs, LAMBDA p : LossOf(p) * LossOf(p))
  IN  /\ s <= n
      /\ CriticalSquared * (n * q - s * s)
           <= 1000 * (n - 1) * (2 * n - s) * (2 * n - s)

FrameTimeRegressed(p) ==
  (p.measured.frame - p.baseline.frame) * 100 > 2 * p.baseline.frame

\* evaluate_candidate
Passed(c) ==
  /\ Len(c.pairs) >= PairCount
  /\ PairSequenceIsValid(c)
  /\ c.errors = 0 /\ ~c.abort
  /\ \A p \in ToSet(c.pairs) : WindowIsValid(p.baseline) /\ WindowIsValid(p.measured)
  /\ FpsIsKept(c.pairs)
  /\ Cardinality({i \in 1..Len(c.pairs) : FrameTimeRegressed(c.pairs[i])}) <= 1

\* The interval is the smallest that passed, if nothing else failed; other
\* stands for the failures of the preflight, privacy, movement and rotation
\* evidence.
Evaluate(cs, other) ==
  LET failures == other \cup (IF CandidatePlanIsValid(cs) THEN {}
                                                          ELSE {"CandidatePlanInvalid"})
      passing == {c.interval : c \in {d \in ToSet(cs) : Passed(d)}}
      go == failures = {} /\ passing # {}
  IN  [decision |-> IF go THEN "Go" ELSE "NoGo",
       selected |-> IF go THEN CHOOSE i \in passing : \A j \in passing : i <= j ELSE 0,
       failures |-> IF go THEN {} ELSE failures \cup {"NoPassingCandidate"},
       candidates |-> cs, other |-> other]

\* Evidence read from a file is evaluated for diagnosis only.
EvaluateUnattested(cs, other) ==
  [Evaluate(cs, other) EXCEPT !.decision = "NoGo", !.selected = 0,
                              !.failures = @ \cup {"UnattestedEvidence"}]

Report ==
  /\ phase = "done"
  /\ \E other \in {{}, {"MovementP95TooHigh"}}, live \in BOOLEAN :
       /\ report' = IF live THEN Evaluate(candidates, other)
                           ELSE EvaluateUnattested(candidates, other)
       /\ imported' = ~live
  /\ phase' = "reported"
  /\ UNCHANGED <<builder, first, candidate, candidates, counted, failedAt>>

\* The agent's validate_canonical_report: a complete run without an abort
\* that evaluates to this very report.
ValidateCanonicalReport(r) ==
  /\ r.decision = "Go" /\ r.failures = {} /\ r.selected # 0
  /\ Len(r.candidates) = Len(Intervals)
  /\ \A i \in 1..Len(Intervals) :
       LET c == r.candidates[i]
       IN  /\ c.interval = Intervals[i] /\ Len(c.pairs) = PairCount /\ ~c.abort
           /\ PairSequenceIsValid(c)
  /\ LET again == Evaluate(r.candidates, r.other)
     IN  again = r

ProbeNext ==
  \/ RecordSuccess \/ RecordError
  \/ MeasureFailed \/ MeasureFirst \/ MeasureSecond \/ SafetyAbort
  \/ Report

ProbeSpec == ProbeInit /\ [][ProbeNext]_probeVars

-----------------------------------------------------------------------------
(* Properties.                                                             *)

CandidateAt(i) == CHOOSE c \in ToSet(candidates) : c.interval = i

\* Whatever the windows show and wherever the run is stopped, run_load
\* leaves a report whose shape evaluate accepts: the intervals in order,
\* whole candidates except an aborted last one, and pairs whose order
\* alternates.
RunnerKeepsPlan ==
  phase = "done" => /\ CandidatePlanIsValid(candidates)
                    /\ \A c \in ToSet(candidates) : PairSequenceIsValid(c)

\* The interval the gate selects was measured in full, no request failed in
\* any of its windows, even when the source keeps no error counts, and the
\* run was not stopped at it.
SelectedIsClean ==
  phase = "reported" /\ report.decision = "Go" =>
    /\ report.selected \notin failedAt
    /\ ~CandidateAt(report.selected).abort
    /\ Len(CandidateAt(report.selected).pairs) = PairCount

\* The confidence bound does what the mean alone would not: no single pair
\* of the selected interval cost the server three percent of its frame rate.
SelectedKeepsFps ==
  phase = "reported" /\ report.decision = "Go" =>
    \A p \in ToSet(CandidateAt(report.selected).pairs) : LossOf(p) < 3

\* The measurements reach the pair under their own role: a baseline window
\* is one taken while the server was not polled.
BaselineIsUnpolled ==
  \A c \in ToSet(candidates) \cup {candidate} : \A p \in ToSet(c.pairs) :
    p.baseline.fps = 100 /\ p.baseline.frame = 100

\* The agent starts from a report exactly when the gate said Go in a run
\* that tried every interval; a Go that rests on the intervals before an
\* abort is refused, and so is everything that was imported from a file.
AgentTakesCompleteRuns ==
  phase = "reported" =>
    (ValidateCanonicalReport(report) <=>
       /\ Evaluate(candidates, report.other).decision = "Go"
       /\ ~imported
       /\ \A c \in ToSet(candidates) : ~c.abort)

-----------------------------------------------------------------------------
(***************************************************************************)
(* The rotation and movement half of Gate A (crates/pal-rest-probe):       *)
(* observations of a player who faces a cardinal direction, or starts to   *)
(* move, are folded into aggregates (report.rs, stats.rs) that evaluate    *)
(* judges later without the observations.                                  *)
(*                                                                         *)
(* Degrees and milliseconds are whole; a mean is kept as its sum.          *)
(***************************************************************************)

CONSTANTS
  Observed,         \* degrees the server may report
  Lags,             \* milliseconds until the server reports the movement
  MinRotation,      \* minimum_rotation_samples
  MinCardinal,      \* minimum_cardinal_samples
  MinMarkers,       \* minimum_movement_markers
  PresencePercent,  \* rotation_presence_minimum_ratio
  MedianMax,        \* rotation_cardinal_median_max_degrees
  ErrorMax,         \* rotation_max_error_degrees
  LagMax,           \* movement_p95_max_ms
  MaxObservations,  \* bound: rotation observations
  MaxMarkers        \* bound: movement observations

Directions == {0, 90, 180, 270}
Missing == 1000

VARIABLES
  rotation,  \* RotationObservation: direction -> degrees (or Missing) -> how often
  markers    \* MovementObservation: lag (or Missing) -> how often

evidenceVars == <<rotation, markers>>

Total(bag) == MapThenSumSet(LAMBDA x : bag[x], DOMAIN bag)
Present(bag) == Total(bag) - bag[Missing]
AllRotations == MapThenSumSet(LAMBDA d : Total(rotation[d]), Directions)

EvidenceInit ==
  /\ rotation = [d \in Directions |-> [o \in Observed \cup {Missing} |-> 0]]
  /\ markers = [l \in Lags \cup {Missing} |-> 0]

ObserveRotation(d, o) ==
  /\ AllRotations < MaxObservations
  /\ rotation' = [rotation EXCEPT ![d][o] = @ + 1]
  /\ UNCHANGED markers

ObserveMovement(l) ==
  /\ Total(markers) < MaxMarkers
  /\ markers' = [markers EXCEPT ![l] = @ + 1]
  /\ UNCHANGED rotation

EvidenceNext ==
  \/ \E d \in Directions, o \in Observed \cup {Missing} : ObserveRotation(d, o)
  \/ \E l \in Lags \cup {Missing} : ObserveMovement(l)

EvidenceSpec == EvidenceInit /\ [][EvidenceNext]_evidenceVars

-----------------------------------------------------------------------------
(* Aggregates: a bag of samples, and its DistributionSummary.              *)

NoReading == [count |-> 0]

\* nearest_rank: the sample at rank ceil(p n / 100).
NearestRank(bag, p) ==
  LET upTo(v) == MapThenSumSet(LAMBDA x : bag[x], {x \in DOMAIN bag : x <= v})
  IN  Min({v \in DOMAIN bag : 100 * upTo(v) >= p * Total(bag) /\ upTo(v) > 0})

\* from_samples, and optional_summary for none.
Summary(bag) ==
  LET seen == {v \in DOMAIN bag : bag[v] > 0}
  IN  IF seen = {} THEN NoReading
      ELSE [count |-> Total(bag), min |-> Min(seen), max |-> Max(seen),
            sum |-> MapThenSumSet(LAMBDA v : v * bag[v], seen),
            p50 |-> NearestRank(bag, 50), p95 |-> NearestRank(bag, 95)]

AngularError(expected, observed) ==
  LET delta == ((observed - expected + 180) % 360) - 180
  IN  IF delta < 0 THEN -delta ELSE delta

\* The errors of the observations of a set of directions.
ErrorBag(ds) ==
  LET at == {p \in ds \X Observed : rotation[p[1]][p[2]] > 0}
      errors == {AngularError(p[1], p[2]) : p \in at}
  IN  [e \in errors |-> MapThenSumSet(LAMBDA p : rotation[p[1]][p[2]],
                                      {p \in at : AngularError(p[1], p[2]) = e})]

\* RotationEvidence::from_observations
RotationFromObservations ==
  [relevant |-> AllRotations,
   present |-> MapThenSumSet(LAMBDA d : Present(rotation[d]), Directions),
   cardinal |-> [d \in Directions |->
                   [relevant |-> Total(rotation[d]), present |-> Present(rotation[d]),
                    error |-> Summary(ErrorBag({d}))]],
   error |-> Summary(ErrorBag(Directions))]

\* MovementEvidence::from_observations
MovementFromObservations ==
  [markers |-> Total(markers), changed |-> Present(markers),
   lag |-> Summary([l \in Lags |-> markers[l]])]

-----------------------------------------------------------------------------
(* What evaluate makes of them.                                            *)

RotationIsConsistent(r) ==
  LET used == {d \in Directions : r.cardinal[d].present > 0}
  IN  /\ r.present <= r.relevant
      /\ \A d \in Directions : /\ r.cardinal[d].present <= r.cardinal[d].relevant
                               /\ r.cardinal[d].error.count = r.cardinal[d].present
      /\ r.relevant = MapThenSumSet(LAMBDA d : r.cardinal[d].relevant, Directions)
      /\ r.present = MapThenSumSet(LAMBDA d : r.cardinal[d].present, Directions)
      /\ r.error.count = r.present
      /\ r.present > 0 =>
           /\ r.error.min = Min({r.cardinal[d].error.min : d \in used})
           /\ r.error.max = Max({r.cardinal[d].error.max : d \in used})
           /\ r.error.sum = MapThenSumSet(LAMBDA d : r.cardinal[d].error.sum, used)

EvaluateRotation(r) ==
  /\ RotationIsConsistent(r)
  /\ r.relevant >= MinRotation /\ r.relevant > 0 /\ r.error # NoReading
  /\ r.present * 100 >= PresencePercent * r.relevant
  /\ \A d \in Directions :
       LET c == r.cardinal[d]
       IN  /\ c.relevant >= MinCardinal /\ c.present >= MinCardinal
           /\ c.error # NoReading
           /\ c.error.p50 <= MedianMax
  /\ r.error.max <= ErrorMax

EvaluateMovement(m) ==
  /\ m.markers >= MinMarkers /\ m.changed = m.markers /\ m.lag # NoReading
  /\ m.lag.count = m.changed /\ m.lag.p95 <= LagMax

-----------------------------------------------------------------------------
(* Properties.                                                             *)

\* The length of the shorter arc between two headings.
Arc(a, b) == Min({(a - b) % 360, (b - a) % 360})

\* How many of the present observations of a direction are off by at most e.
Within(d, e) ==
  MapThenSumSet(LAMBDA o : rotation[d][o], {o \in Observed : Arc(d, o) <= e})

\* What the collector builds is what the evaluation takes for consistent,
\* whatever was observed: the gate never refuses its own aggregate.
AggregateIsConsistent == RotationIsConsistent(RotationFromObservations)

\* The judgement on the aggregates is the judgement on the observations:
\* enough of them, nearly all with a value, every direction seen, half of
\* each within the median limit and all within the other, a heading being
\* compared around the circle.
RotationIsJudgedWhole ==
  EvaluateRotation(RotationFromObservations) <=>
    /\ AllRotations >= MinRotation
    /\ 100 * MapThenSumSet(LAMBDA d : Present(rotation[d]), Directions)
         >= PresencePercent * AllRotations
    /\ \A d \in Directions :
         /\ Present(rotation[d]) >= MinCardinal
         /\ 2 * Within(d, MedianMax) >= Present(rotation[d])
         /\ Within(d, ErrorMax) = Present(rotation[d])

\* Movement passes exactly when every marker was followed by a change and
\* at most one in twenty took longer than the limit.
MovementIsJudgedWhole ==
  EvaluateMovement(MovementFromObservations) <=>
    /\ Total(markers) >= MinMarkers
    /\ markers[Missing] = 0
    /\ 20 * MapThenSumSet(LAMBDA l : markers[l], {l \in Lags : l > LagMax})
         <= Total(markers)
=============================================================================
