----------------------------- MODULE Operations -----------------------------
(***************************************************************************)
(* Operations: requests, what is counted of them, and the alerts raised    *)
(* from the counts: Gateway and Alerts around one MetricsCollector.        *)
(***************************************************************************)
EXTENDS Gateway, Alerts

vars == <<gatewayVars, alertVars>>

TypeOK == GatewayTypeOK /\ AlertsTypeOK

Init == GatewayInit /\ AlertsInit

\* What analyzeMetricsAndTriggerAlerts finds too high, under the thresholds of
\* production.
High(memoryUsed) ==
    (IF ErrorRateAbove(metrics, 5) THEN {"error_rate"} ELSE {})
    \cup (IF AverageAbove(metrics, 3000) THEN {"response_time"} ELSE {})
    \cup (IF memoryUsed THEN {"memory_usage"} ELSE {})
    \cup (IF HealthStatus(metrics) # "healthy" THEN {"health_check"} ELSE {})

CollectAndAnalyze(p) ==
    /\ UNCHANGED gatewayVars
    /\ \E memoryUsed \in BOOLEAN : Collect(p, High(memoryUsed) \cap Watched)

\* The administrator's reset forgets the counts and the alerts.
ResetMetrics ==
    /\ metrics # NoMetrics \/ active # {} \/ cooldowns # [m \in Watched |-> Never]
    /\ metrics' = NoMetrics
    /\ ForgetAlerts
    /\ UNCHANGED <<reqs, hits, escapes>>

Next ==
    \/ GatewayNext /\ UNCHANGED alertVars
    \/ AlertsNext /\ UNCHANGED gatewayVars
    \/ \E p \in Passes : CollectAndAnalyze(p)
    \/ ResetMetrics

Spec == Init /\ [][Next]_vars

\* The timer and the interval fire, and a channel answers, fails or hangs; a
\* guard or a handler may wait for ever.
FairSpec ==
    /\ Spec
    /\ \A r \in Requests : WF_vars(HandleTimeout(r) /\ UNCHANGED alertVars)
    /\ \A p \in Passes :
          /\ WF_vars(Proceed(p) /\ UNCHANGED gatewayVars)
          /\ WF_vars(CollectAndAnalyze(p))

-----------------------------------------------------------------------------
(* Safety                                                                  *)

TimedOut == {r \in Requests : reqs[r].timedOut}
Done == {r \in Requests : reqs[r].pc = "done"}

\* Requests that the timer or the domain answered for or may have, and probes that
\* found the service unavailable.
Troubled ==
    {r \in Requests :
        \/ reqs[r].timedOut
        \/ reqs[r].crashed
        \/ reqs[r].kind.probe /\ reqs[r].pc = "done" /\ reqs[r].code = 503}

\* An alert of the error rate has a request behind it that ran into the timer, let
\* an error escape, or was a probe that answered 503, though the collection that
\* raises it may have taken its samples before a reset.
ErrorAlertExplained == "error_rate" \in active => Troubled # {}

\* A request is counted as failed once by the timer, once for each error that
\* escapes, and once when it ends, as a probe that answers 503 or late, after
\* the timer or the domain; refusals add nothing, and neither do resets in between.
\* Of the response times kept as slow, the timer made one and the late end another.
CountsExplained ==
    /\ metrics.failed <= Cardinality(TimedOut) + escapes + Cardinality(Troubled \cap Done)
    /\ Cardinality(SlowTimes(metrics.times))
          <= Cardinality(TimedOut) + Cardinality(TimedOut \cap Done)

-----------------------------------------------------------------------------
(* Action properties                                                       *)

\* By the clock, two raisings of a rule are a cooldown apart, unless the first
\* came from a collection held up by an earlier mail: it is dated by the
\* collection's beginning, and the next may follow at once.
RaisingsApart ==
    [][\A m \in Watched :
          /\ m \in active' \ active \/ cooldowns'[m] # cooldowns[m]
          /\ cooldowns'[m] # Never /\ cooldowns[m] # Never
          => \/ now >= raised[m] + Cooldown[m]
             \/ cooldowns[m] < raised[m]]_vars

-----------------------------------------------------------------------------
(* Liveness                                                                *)

RateStaysHigh == ErrorRateAbove(metrics, 5) /\ now = MaxTime

RaisedOrCooling == "error_rate" \in active \/ Cooling("error_rate", now)

\* An error rate that stays above its threshold is raised, or was raised less
\* than a cooldown before, although any number of mails hang and collections
\* overtake each other.
LastingExcursionRaised == <>[]RateStaysHigh => []<>RaisedOrCooling

-----------------------------------------------------------------------------
(* What the repository's documents say, and the code does not keep         *)

\* Every request has ended and was answered with the status of an error; some were
\* counted.
OnlyErrors ==
    /\ now = MaxTime /\ metrics.total > 0
    /\ \A r \in Requests : reqs[r].pc = "done" /\ reqs[r].code >= 400

\* HEALTH_MONITORING.md asks for an alert of error rates above 5%: requests that
\* are all answered with errors raise one, or have less than a cooldown before.
ErrorsRaiseAlert == <>[]OnlyErrors => []<>RaisedOrCooling
=============================================================================
