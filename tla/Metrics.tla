-------------------------------- MODULE Metrics --------------------------------
(***************************************************************************)
(* MetricsService: what the exception filter and the timer of the system   *)
(* metrics record, in buffers cut to a number of entries and to a time,    *)
(* and the summaries the monitoring routes read from them.  No method      *)
(* awaits, so a call is a step.  Next to each buffer the module keeps the  *)
(* log of all that was recorded, which the program does not have.          *)
(***************************************************************************)
EXTENDS Integers, Sequences, FiniteSets

CONSTANTS
    Buffers,        \* requestMetrics, errorMetrics, cacheMetrics, ...
    Kinds,          \* what a summary counts by: a status, a type of error
    MaxMetrics,     \* maxMetrics
    Retention,      \* metricsRetentionMs
    MaxTime,        \* bound on the clock
    MaxRecorded     \* bound on the number of entries ever recorded

ASSUME BoundsAssumption ==
    /\ MaxMetrics \in Nat \ {0}
    /\ Retention \in Nat
    /\ MaxTime \in Nat
    /\ MaxRecorded \in Nat

Entry == [at : Nat, kind : Kinds]

VARIABLES
    now,        \* Date.now(), which does not go back
    metrics,    \* the buffers
    recorded    \* the log of each: all that was ever recorded in it

vars == <<now, metrics, recorded>>

\* The type invariant, the bound on the memory included.
MetricsTypeOK ==
    /\ now \in Nat
    /\ metrics \in [Buffers -> Seq(Entry)]
    /\ recorded \in [Buffers -> Seq(Entry)]
    /\ \A b \in Buffers : Len(metrics[b]) <= MaxMetrics

Init ==
    /\ now = 0
    /\ metrics = [b \in Buffers |-> <<>>]
    /\ recorded = [b \in Buffers |-> <<>>]

-----------------------------------------------------------------------------
(* trimMetrics *)

\* Mutant of Capped: the newest entries are the ones to go.
CappedAtEnd(s) == IF Len(s) > MaxMetrics THEN SubSeq(s, 1, MaxMetrics) ELSE s

\* The last MaxMetrics entries.
Capped(s) ==
    IF Len(s) > MaxMetrics THEN SubSeq(s, Len(s) - MaxMetrics + 1, Len(s)) ELSE s

IsFresh(s, i, t) == s[i].at >= t - Retention

\* Mutant of Trimmed: only one entry is looked at.
TrimmedOnce(s, t) == IF Len(s) > 1 /\ ~IsFresh(s, 1, t) THEN Tail(s) ELSE s

\* At time t, from the first entry within the retention on, if there is one.
Trimmed(s, t) ==
    IF \E i \in DOMAIN s : IsFresh(s, i, t)
      THEN SubSeq(s, CHOOSE i \in DOMAIN s :
                        IsFresh(s, i, t) /\ \A j \in 1 .. i - 1 : ~IsFresh(s, j, t), Len(s))
      ELSE s

-----------------------------------------------------------------------------

\* Mutant of Record: the buffer is trimmed before the entry is pushed.
RecordTrimFirst(b, kind) ==
    LET entry == [at |-> now, kind |-> kind] IN
    /\ Len(recorded[b]) < MaxRecorded
    /\ metrics' = [metrics EXCEPT ![b] = Append(Trimmed(Capped(@), now), entry)]
    /\ recorded' = [recorded EXCEPT ![b] = Append(@, entry)]
    /\ UNCHANGED now

\* recordRequest, recordError, recordCache, recordDatabase and the timer of the
\* system metrics, all alike.
Record(b, kind) ==
    LET entry == [at |-> now, kind |-> kind] IN
    /\ Len(recorded[b]) < MaxRecorded
    /\ metrics' = [metrics EXCEPT ![b] = Trimmed(Capped(Append(@, entry)), now)]
    /\ recorded' = [recorded EXCEPT ![b] = Append(@, entry)]
    /\ UNCHANGED now

Tick ==
    /\ now < MaxTime
    /\ now' = now + 1
    /\ UNCHANGED <<metrics, recorded>>

Next == Tick \/ \E b \in Buffers, kind \in Kinds : Record(b, kind)

Spec == Init /\ [][Next]_vars

-----------------------------------------------------------------------------
(* The summaries *)

Recent(s, range) == {i \in DOMAIN s : s[i].at >= now - range}

\* getRequestMetrics and the others: a total, and the counts of which the rates and
\* averages are quotients.
Summary(s, range) ==
    [total  |-> Cardinality(Recent(s, range)),
     counts |-> [k \in Kinds |-> Cardinality({i \in Recent(s, range) : s[i].kind = k})]]

-----------------------------------------------------------------------------
(* Properties *)

\* What a buffer has dropped does not show: a summary over a range within the
\* retention counts, of the last MaxMetrics entries ever recorded, all in the range.
SummariesComplete ==
    \A b \in Buffers : \A range \in 0 .. Retention :
        LET log == recorded[b]
            InRange == {i \in DOMAIN log : i > Len(log) - MaxMetrics /\ log[i].at >= now - range}
        IN  Summary(metrics[b], range) =
              [total  |-> Cardinality(InRange),
               counts |-> [k \in Kinds |-> Cardinality({i \in InRange : log[i].kind = k})]]

\* A buffer never spans more than the retention, however irregular the recording
\* that trims it, so that after a pause one entry clears out all that is too old.
SpanBounded ==
    \A b \in Buffers :
        LET s == metrics[b] IN s # <<>> => s[Len(s)].at - s[1].at <= Retention

=============================================================================
