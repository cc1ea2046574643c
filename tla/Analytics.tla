----------------------------- MODULE Analytics -----------------------------
(***************************************************************************)
(* The operational analytics (core/operational.py and the control plane's  *)
(* operational_analytics.py): pure algorithms over the records of one      *)
(* bench, checked against direct definitions while the records accumulate. *)
(*                                                                         *)
(* Time is the integers of the observation window 0..Horizon; an interval  *)
(* is a pair <<start, end>>, end excluded.  Ratios are kept as the two     *)
(* counts they are made of.  A record is drawn for one of three subjects,  *)
(* which share nothing, so each is explored on its own.                    *)
(***************************************************************************)
EXTENDS Integers, Sequences, FiniteSets, SequencesExt

CONSTANTS
    Horizon,       \* the end of the observation window
    MaxSpans,      \* reservations and operations of the bench
    MaxContacts,   \* connects and disconnects of its Agent
    MaxWaits,      \* queue entries
    MaxOutcomes,   \* finished operations
    WindowSize, MinimumOperations, MinimumFailures, MinimumContexts,
    RatePercent    \* FlakyBenchPolicy, the rate threshold in percent

ASSUME AnalyticsAssumption ==
    /\ Horizon \in Nat \ {0}
    /\ {MaxSpans, MaxContacts, MaxWaits, MaxOutcomes} \subseteq Nat
    /\ {WindowSize, MinimumOperations, MinimumFailures, MinimumContexts} \subseteq Nat \ {0}
    /\ MinimumOperations <= WindowSize /\ MinimumFailures <= WindowSize
    /\ RatePercent \in 1..100

VARIABLES
    subject,   \* "use", "queue" or "outcomes"
    spans,     \* reservation and operation intervals, as stored
    contacts,  \* the Agent's timeline, oldest first
    presently, \* the bench is available at the end of the window
    waits,     \* queue entries: outcome and waiting time
    outcomes   \* finished operations, oldest first

analyticsVars == <<subject, spans, contacts, presently, waits, outcomes>>

Moment == 0..Horizon
WindowOf == <<0, Horizon>>

----------------------------------------------------------------------------
(* Utilisation. *)

\* Mutant: an interval inside its predecessor cuts the merged one short.
JoinShort(merged, next) ==
    IF merged = <<>> \/ next[1] > Last(merged)[2]
    THEN Append(merged, next)
    ELSE Append(Front(merged), <<Last(merged)[1], next[2]>>)

\* One step of the merge: intervals that touch or overlap become one.
Join(merged, next) ==
    IF merged = <<>> \/ next[1] > Last(merged)[2]
    THEN Append(merged, next)
    ELSE Append(Front(merged),
                <<Last(merged)[1], IF next[2] > Last(merged)[2] THEN next[2] ELSE Last(merged)[2]>>)

\* _merge_clipped_intervals: what lies in the window, sorted by start, merged.
MergeClipped(intervals, window) ==
    LET inside == SelectSeq(intervals, LAMBDA i : i[2] > window[1] /\ i[1] < window[2])
        clipped == [k \in DOMAIN inside |->
                       <<IF inside[k][1] > window[1] THEN inside[k][1] ELSE window[1],
                         IF inside[k][2] < window[2] THEN inside[k][2] ELSE window[2]>>]
    IN FoldLeft(Join, <<>>, SortSeq(clipped, LAMBDA a, b : a[1] < b[1]))

\* _intersect_intervals: two indices that move through both lists.
Intersect(left, right) ==
    LET walk[i \in 1..Len(left) + 1, j \in 1..Len(right) + 1] ==
            IF i > Len(left) \/ j > Len(right) THEN <<>>
            ELSE LET from == IF left[i][1] > right[j][1] THEN left[i][1] ELSE right[j][1]
                     to == IF left[i][2] < right[j][2] THEN left[i][2] ELSE right[j][2]
                 IN (IF from < to THEN <<<<from, to>>>> ELSE <<>>)
                    \o (IF left[i][2] <= right[j][2] THEN walk[i + 1, j] ELSE walk[i, j + 1])
    IN walk[1, 1]

\* _seconds, summed over a list.
Seconds(intervals) == FoldLeft(LAMBDA total, i : total + i[2] - i[1], 0, intervals)

\* calculate_bench_utilisation.
Utilisation(available, busy) ==
    LET free == MergeClipped(available, WindowOf)
        taken == Intersect(free, MergeClipped(busy, WindowOf))
    IN [available |-> Seconds(free), utilised |-> Seconds(taken),
        unavailable |-> Horizon - Seconds(free)]

\* Mutant: the state is carried past the event instead of read from it.
SegmentsFlipped(now, timeline) ==
    LET step(acc, e) == [cursor |-> e.at, on |-> ~acc.on,
                         found |-> IF acc.on /\ e.at < acc.cursor
                                   THEN Append(acc.found, <<e.at, acc.cursor>>) ELSE acc.found]
        last == FoldRight(LAMBDA e, acc : step(acc, e), timeline,
                          [cursor |-> Horizon, on |-> now, found |-> <<>>])
    IN IF last.on /\ last.cursor > 0 THEN Append(last.found, <<0, last.cursor>>) ELSE last.found

\* _availability_intervals: backwards from the present through the Agent's
\* connects and disconnects; before a disconnect the bench was available.
Segments(now, timeline) ==
    LET step(acc, e) == [cursor |-> e.at, on |-> e.type = "AGENT_DISCONNECTED",
                         found |-> IF acc.on /\ e.at < acc.cursor
                                   THEN Append(acc.found, <<e.at, acc.cursor>>) ELSE acc.found]
        last == FoldRight(LAMBDA e, acc : step(acc, e), timeline,
                          [cursor |-> Horizon, on |-> now, found |-> <<>>])
    IN IF last.on /\ last.cursor > 0 THEN Append(last.found, <<0, last.cursor>>) ELSE last.found

\* The events strictly inside the window.
Timeline == SelectSeq(contacts, LAMBDA e : 0 < e.at /\ e.at < Horizon)

----------------------------------------------------------------------------
(* Queue waits. *)

\* _queue_observations and the outcomes calculate_queue_metrics tells apart.
QueueOutcome == {"WAITING", "PROMOTED", "CANCELLED", "EXPIRED"}

PromotedWaits == SortSeq([i \in DOMAIN SelectSeq(waits, LAMBDA w : w.outcome = "PROMOTED") |->
                             SelectSeq(waits, LAMBDA w : w.outcome = "PROMOTED")[i].seconds],
                         LAMBDA a, b : a < b)

\* Mutant: the rank is rounded down.
NearestRankFloor(values) ==
    LET rank == (95 * Len(values)) \div 100
    IN values[IF rank < 1 THEN 1 ELSE rank]

\* _nearest_rank for the 95th percentile.
NearestRank(values) ==
    LET rank == (95 * Len(values) + 99) \div 100
    IN values[IF rank < 1 THEN 1 ELSE rank]

\* calculate_queue_metrics; p95 is -1 when nothing was promoted.
QueueMetrics ==
    LET count(kinds) == Len(SelectSeq(waits, LAMBDA w : w.outcome \in kinds)) IN
    [depth |-> count({"WAITING"}),
     abandoned |-> count({"CANCELLED", "EXPIRED"}),
     promoted |-> Len(PromotedWaits),
     p95 |-> IF PromotedWaits = <<>> THEN -1 ELSE NearestRank(PromotedWaits)]

----------------------------------------------------------------------------
(* Reliability. *)

\* A finished operation succeeded, failed for the user's own reason, or failed
\* in the infrastructure; classify_failure decides between the last two.
FailureCategory == {"NONE", "USER_ERROR", "TARGET_ERROR"}
INFRASTRUCTURE_FAILURE_CATEGORIES == {"TARGET_ERROR"}

\* Mutant: all operations count, not the recent ones.
RecentAll(history) == history

\* The last WindowSize operations.
Recent(history) ==
    SubSeq(history, IF Len(history) > WindowSize THEN Len(history) - WindowSize + 1 ELSE 1,
           Len(history))

\* assess_flaky_bench: enough operations, enough infrastructure failures among
\* them, a high rate, and more than one workflow, firmware and actor.
AssessFlakyBench(history) ==
    LET recent == Recent(history)
        failed == {i \in DOMAIN recent :
                      recent[i].category \in INFRASTRUCTURE_FAILURE_CATEGORIES}
    IN /\ Len(recent) >= MinimumOperations
       /\ Cardinality(failed) >= MinimumFailures
       /\ 100 * Cardinality(failed) >= RatePercent * Len(recent)
       /\ Cardinality({recent[i].context : i \in failed}) >= MinimumContexts

\* calculate_reliability.
Reliability(history) ==
    [succeeded |-> Len(SelectSeq(history, LAMBDA o : o.category = "NONE")),
     failed |-> Len(SelectSeq(history, LAMBDA o : o.category # "NONE"))]

----------------------------------------------------------------------------
AnalyticsInit ==
    /\ subject \in {"use", "queue", "outcomes"}
    /\ spans = <<>>
    /\ contacts = <<>>
    /\ presently \in IF subject = "use" THEN BOOLEAN ELSE {TRUE}
    /\ waits = <<>>
    /\ outcomes = <<>>

\* A reservation or an operation of the bench; its interval may begin before
\* the window or end after it (_operation_interval, _reservation_interval).
AddSpan(from, to) ==
    /\ subject = "use"
    /\ Len(spans) < MaxSpans
    /\ from < to
    /\ spans' = Append(spans, <<from, to>>)
    /\ UNCHANGED <<subject, contacts, presently, waits, outcomes>>

\* The Agent connects or disconnects; the timeline is ordered.
AddContact(type, at) ==
    /\ subject = "use"
    /\ Len(contacts) < MaxContacts
    /\ contacts # <<>> => Last(contacts).at < at
    /\ contacts' = Append(contacts, [type |-> type, at |-> at])
    /\ UNCHANGED <<subject, spans, presently, waits, outcomes>>

AddWait(outcome, seconds) ==
    /\ subject = "queue"
    /\ Len(waits) < MaxWaits
    /\ waits' = Append(waits, [outcome |-> outcome, seconds |-> seconds])
    /\ UNCHANGED <<subject, spans, contacts, presently, outcomes>>

\* _reliability_observations.
AddOutcome(category, context) ==
    /\ subject = "outcomes"
    /\ Len(outcomes) < MaxOutcomes
    /\ outcomes' = Append(outcomes, [category |-> category, context |-> context])
    /\ UNCHANGED <<subject, spans, contacts, presently, waits>>

AnalyticsNext ==
    \/ \E from \in -1..Horizon, to \in Moment \cup {Horizon + 1} : AddSpan(from, to)
    \/ \E type \in {"AGENT_CONNECTED", "AGENT_DISCONNECTED"}, at \in Moment : AddContact(type, at)
    \/ \E outcome \in QueueOutcome, seconds \in Moment : AddWait(outcome, seconds)
    \/ \E category \in FailureCategory, context \in {1, 2} : AddOutcome(category, context)

AnalyticsSpec == AnalyticsInit /\ [][AnalyticsNext]_analyticsVars

----------------------------------------------------------------------------
\* The bench was available in the unit of time that begins at t: the next
\* contact after t is a disconnect, or there is none and it is available now.
AvailableAt(t) ==
    LET later == {i \in DOMAIN Timeline : Timeline[i].at > t}
    IN IF later = {} THEN presently
       ELSE Timeline[CHOOSE i \in later : \A j \in later : i <= j].type = "AGENT_DISCONNECTED"

BusyAt(t) == \E i \in DOMAIN spans : spans[i][1] <= t /\ t < spans[i][2]

\* The merged and intersected intervals measure exactly the units of time in
\* which the bench was available, and available and busy: work that overlaps
\* counts once, work while the Agent was away counts nowhere, and the window
\* is divided into available and unavailable time.
UtilisationExact ==
    LET units == {t \in Moment : t < Horizon}
        u == Utilisation(Segments(presently, Timeline), spans)
    IN /\ u.available = Cardinality({t \in units : AvailableAt(t)})
       /\ u.utilised = Cardinality({t \in units : AvailableAt(t) /\ BusyAt(t)})
       /\ u.available + u.unavailable = Horizon

\* The reported p95 is the least wait that at least 95% of the promoted
\* entries did not exceed, and every entry is counted under one heading.
QueueMetricsExact ==
    LET metrics == QueueMetrics
        covers(w) == 100 * Cardinality({i \in DOMAIN PromotedWaits : PromotedWaits[i] <= w})
                     >= 95 * Len(PromotedWaits)
        samples == {PromotedWaits[i] : i \in DOMAIN PromotedWaits}
    IN /\ metrics.depth + metrics.abandoned + metrics.promoted = Len(waits)
       /\ metrics.promoted > 0 =>
             /\ metrics.p95 \in samples /\ covers(metrics.p95)
             /\ \A w \in samples : covers(w) => metrics.p95 <= w

\* A flaky verdict rests on the recent past: a bench whose last WindowSize
\* operations had fewer infrastructure failures than the policy asks for is
\* cleared, however bad it was, and failures of one workflow, firmware and
\* actor alone never blame the bench.
FlakyIsRecent ==
    AssessFlakyBench(outcomes) =>
        \E late \in SUBSET {i \in DOMAIN outcomes : i > Len(outcomes) - WindowSize} :
            /\ Cardinality(late) >= MinimumFailures
            /\ \A i \in late : outcomes[i].category = "TARGET_ERROR"
            /\ \E i, j \in late : MinimumContexts > 1 => outcomes[i].context # outcomes[j].context

\* Each figure is exact for whatever was observed of its subject
\* (operational_analytics.py, core/operational.py).
AnalyticsExact ==
    CASE subject = "use"      -> UtilisationExact
      [] subject = "queue"    -> QueueMetricsExact
      [] subject = "outcomes" -> FlakyIsRecent
============================================================================
