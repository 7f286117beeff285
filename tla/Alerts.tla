------------------------------- MODULE Alerts -------------------------------
(***************************************************************************)
(* Alerts: MonitoringService.  An interval starts a collection; it takes   *)
(* its samples and its time at once, then goes through the rules, and      *)
(* waits for the mails of every alert it raises.  The interval does not    *)
(* wait for the collection before, so several are under way with times of  *)
(* their own.                                                              *)
(*                                                                         *)
(* cpu_usage is looked up as well, but no rule's metric contains that name *)
(* and nothing ever follows.  A rule is known by the metric it watches.    *)
(***************************************************************************)
EXTENDS Integers, Sequences

CONSTANTS
    Passes,    \* collections under way at once
    Metric,    \* the metrics looked at, in order: configuration switches rules off
    Cooldown,  \* the cooldown of each rule
    MaxTime    \* bound on the clock

Watched == {Metric[i] : i \in 1..Len(Metric)}

ASSUME AlertsAssumption ==
    /\ Metric \in Seq({"error_rate", "response_time", "memory_usage", "health_check"})
    /\ Cooldown \in [Watched -> Nat]
    /\ MaxTime \in Nat

Never == 0

VARIABLES
    passes,     \* the collections
    active,     \* activeAlerts
    cooldowns,  \* alertCooldowns: the time of the collection that raised last
    raised,     \* history: when each rule was raised last, by the clock
    now

alertVars == <<passes, active, cooldowns, raised, now>>

-----------------------------------------------------------------------------
(* State                                                                   *)

\* A collection that waits for the mails of the i-th metric's alert; at and high
\* are its time and the metrics above their thresholds when it began.
Pass == [busy : {TRUE}, i : 1..Len(Metric), at : Nat, high : SUBSET Watched]

IdlePass == [busy |-> FALSE, i |-> 1, at |-> Never, high |-> {}]

AlertsTypeOK ==
    /\ passes \in [Passes -> Pass \cup {IdlePass}]
    /\ active \subseteq Watched
    /\ cooldowns \in [Watched -> Nat]
    /\ raised \in [Watched -> Nat]
    /\ now \in Nat

AlertsInit ==
    /\ passes = [p \in Passes |-> IdlePass]
    /\ active = {}
    /\ cooldowns = [m \in Watched |-> Never]
    /\ raised = [m \in Watched |-> Never]
    /\ now = 1

-----------------------------------------------------------------------------
(* A collection                                                            *)

\* Mistake: a collection knows only the alerts that are active.
CoolingActive(m, at) == m \in active

Cooling(m, at) == cooldowns[m] # Never /\ at < cooldowns[m] + Cooldown[m]

\* Mistake: the rule is not found under the name of the metric.
HasRuleNamed(m) == m # "error_rate"

\* The first standard rule whose metric contains the name.
HasRule(m) == m \in Watched

\* A health alert is never resolved.
Resolvable(m) == m # "health_check"

\* checkMetricThreshold and triggerAlert from the first metric on, up to the
\* first alert to be sent: what is low is resolved, which leaves its cooldown;
\* what is high is raised unless it cools down.  Both maps are written before
\* the mails are waited for.
Analyze(p, first, at, high) ==
    LET due == {i \in first..Len(Metric) : /\ Metric[i] \in high /\ HasRule(Metric[i])
                                 /\ ~Cooling(Metric[i], at)}
        resolved(stop) == {Metric[i] : i \in {j \in first..Len(Metric) :
                              j < stop /\ Metric[j] \notin high /\ Resolvable(Metric[j])}}
    IN  \/ /\ due = {}
           /\ passes' = [passes EXCEPT ![p] = IdlePass]
           /\ active' = active \ resolved(Len(Metric) + 1)
           /\ UNCHANGED <<cooldowns, raised>>
        \/ \E stop \in due :
              /\ \A i \in due : stop <= i
              /\ passes' = [passes EXCEPT ![p] =
                               [busy |-> TRUE, i |-> stop, at |-> at, high |-> high]]
              /\ active' = (active \ resolved(stop)) \cup {Metric[stop]}
              /\ cooldowns' = [cooldowns EXCEPT ![Metric[stop]] = at]
              /\ raised' = [raised EXCEPT ![Metric[stop]] = now]

\* high: the metrics above their thresholds at this moment.
Collect(p, high) ==
    /\ ~passes[p].busy
    /\ Analyze(p, 1, now, high)
    /\ UNCHANGED now

\* Every channel has answered or failed: on to the next metric.
AlertSent(p) ==
    /\ passes[p].busy
    /\ Analyze(p, passes[p].i + 1, passes[p].at, passes[p].high)
    /\ UNCHANGED now

\* A channel never answers: the collection is never heard of again.
SendHangs(p) ==
    /\ passes[p].busy
    /\ passes' = [passes EXCEPT ![p] = IdlePass]
    /\ UNCHANGED <<active, cooldowns, raised, now>>

ForgetAlerts ==
    /\ active' = {}
    /\ cooldowns' = [m \in Watched |-> Never]
    /\ raised' = [m \in Watched |-> Never]
    /\ UNCHANGED <<passes, now>>

Tick ==
    /\ now < MaxTime
    /\ now' = now + 1
    /\ UNCHANGED <<passes, active, cooldowns, raised>>

\* What happens to a collection that waits for its mails.
Proceed(p) == AlertSent(p) \/ SendHangs(p)

AlertsNext == (\E p \in Passes : Proceed(p)) \/ Tick
=============================================================================
