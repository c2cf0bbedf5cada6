------------------------------ MODULE Monitoring ------------------------------
(***************************************************************************)
(* The way of a request through the server, as far as the metrics see it:  *)
(* the logging middleware, then guards, pipes and the handler, which       *)
(* answers or throws; the exception filter, which records an error; and    *)
(* the routes of MonitoringController, which read the summaries; and the   *)
(* timer of the system metrics.                                            *)
(* Each step that records or reads is a turn of the event loop.            *)
(***************************************************************************)
EXTENDS Metrics, TLC

CONSTANTS
    Requests,       \* the requests that may be under way at one time
    TimeRanges,     \* the ranges clients ask for; a negative one stands for NaN too
    DefaultRange,   \* timeRangeMs, where it is not given
    Figures,        \* the kind of the timer's entries
    None            \* no such thing

ASSUME BuffersAssumption ==
    {"requestMetrics", "errorMetrics", "cacheMetrics", "databaseMetrics", "systemMetrics"}
        \subseteq Buffers
ASSUME FiguresAssumption == Figures \in Kinds
ASSUME RangesAssumption == TimeRanges \subseteq Int /\ DefaultRange \in Nat

Summarised == {"requestMetrics", "errorMetrics", "cacheMetrics", "databaseMetrics"}

VARIABLES
    pc,         \* the kind of route a request is on
    failed,     \* the failures answered so far, which the program does not keep
    answer      \* the answer of the last step, if it was one of a monitoring route

monitoringVars == <<vars, pc, failed, answer>>

\* The type invariant: that of the buffers, and an answer has summaries of known ones.
MonitoringTypeOK ==
    /\ MetricsTypeOK
    /\ pc \in [Requests -> {"idle", "monitoring", "other"}]
    /\ failed \in Seq(Entry)
    /\ answer # None =>
          /\ answer.range \in TimeRanges \cup {DefaultRange}
          /\ DOMAIN answer.summaries \subseteq Summarised

MonitoringInit ==
    /\ Init
    /\ pc = [p \in Requests |-> "idle"]
    /\ failed = <<>>
    /\ answer = None

-----------------------------------------------------------------------------

\* RequestLoggingMiddleware.use: the request passes, whatever its route.
Arrive(p, route) ==
    /\ pc[p] = "idle"
    /\ pc' = [pc EXCEPT ![p] = route]
    /\ answer' = None
    /\ UNCHANGED <<vars, failed>>

\* The middleware's own res.send.  It would record the request with the service in
\* req.app.locals, but nothing puts one there.
Send(p) == pc' = [pc EXCEPT ![p] = "idle"]

\* AllExceptionsFilter.catch
Catch(p, kind) ==
    /\ Record("errorMetrics", kind)
    /\ failed' = Append(failed, [at |-> now, kind |-> kind])
    /\ Send(p)

\* A guard, a pipe or the handler throws, on monitoring routes the guard for the token.
Throw(p, kind) ==
    /\ pc[p] # "idle"
    /\ Catch(p, kind)
    /\ answer' = None

Succeed(p) ==
    /\ pc[p] = "other"
    /\ Send(p)
    /\ answer' = None
    /\ UNCHANGED <<vars, failed>>

\* Mutant of RangeOf: the default also stands in for a range that is zero or NaN.
RangeOfTruthy(timeRange) ==
    IF timeRange \in {None, 0, -1} THEN DefaultRange ELSE timeRange

\* timeRange ? parseInt(timeRange, 10) : 60000
RangeOf(timeRange) == IF timeRange = None THEN DefaultRange ELSE timeRange

Answer(p, buffers, asked, range) ==
    /\ pc[p] = "monitoring"
    /\ answer' = [asked |-> asked, range |-> range,
                  summaries |-> [b \in buffers |-> Summary(metrics[b], range)]]
    /\ Send(p)
    /\ UNCHANGED <<vars, failed>>

\* getRequestMetrics, getErrorMetrics, getCacheMetrics, getDatabaseMetrics
GetSummary(p, b, timeRange) == Answer(p, {b}, timeRange, RangeOf(timeRange))

\* getMetrics: getDashboardMetrics calls the four with their default.
GetMetrics(p) == Answer(p, Summarised, None, DefaultRange)

\* getSystemMetrics: figures of the process, of no buffer.
GetSystemMetrics(p) == Answer(p, {}, None, DefaultRange)

\* The timer of the system metrics, whose period is the unit of the clock: it records
\* figures of the process, in a buffer that no route reads.
Collect ==
    /\ Len(recorded["systemMetrics"]) < now
    /\ Record("systemMetrics", Figures)
    /\ answer' = None
    /\ UNCHANGED <<pc, failed>>

\* The timer is late by less than its period.
Pass ==
    /\ Len(recorded["systemMetrics"]) >= now
    /\ Tick
    /\ answer' = None
    /\ UNCHANGED <<pc, failed>>

MonitoringNext ==
    \/ Pass
    \/ Collect
    \/ \E p \in Requests :
          \/ \E route \in {"monitoring", "other"} : Arrive(p, route)
          \/ \E kind \in Kinds \ {Figures} : Throw(p, kind)
          \/ Succeed(p)
          \/ \E b \in Summarised, timeRange \in TimeRanges \cup {None} :
                GetSummary(p, b, timeRange)
          \/ GetMetrics(p)
          \/ GetSystemMetrics(p)

MonitoringSpec == MonitoringInit /\ [][MonitoringNext]_monitoringVars

-----------------------------------------------------------------------------
(* Properties *)

\* The last MaxMetrics failures, as far as they are within a range.
FailedWithin(range) ==
    {i \in DOMAIN failed : i > Len(failed) - MaxMetrics /\ failed[i].at >= now - range}

\* What a monitoring route says of errors is the failures of the range asked for, the
\* refusals of that very route included.  Beyond the retention it may say less, but no
\* less than the failures within the retention; of a range that is no range, nothing.
ErrorsReported ==
    [][answer' # None /\ "errorMetrics" \in DOMAIN answer'.summaries =>
          LET range == IF answer'.asked = None THEN DefaultRange ELSE answer'.asked
              kept == IF range < Retention THEN range ELSE Retention
          IN  answer'.summaries["errorMetrics"].total
                \in Cardinality(FailedWithin(kept)) .. Cardinality(FailedWithin(range))
      ]_monitoringVars

Symmetry == Permutations(Requests) \cup Permutations(Kinds \ {Figures})

=============================================================================
