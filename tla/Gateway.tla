------------------------------ MODULE Gateway -------------------------------
(***************************************************************************)
(* Gateway: the way of a request through the middleware AppModule applies, *)
(* the guards, the interceptors, the handler and the exception filter, and *)
(* what MetricsCollector counts on that way.                               *)
(*                                                                         *)
(* A handler answers, throws, or never comes back; ErrorHandlingMiddleware *)
(* answers in its place after 30 seconds and leaves it running.  A health  *)
(* probe sets its status and answers by itself.  code is                   *)
(* response.statusCode, which anyone may still set after the headers were  *)
(* sent, and which the interceptor reads for its count.                    *)
(***************************************************************************)
EXTENDS Integers, Sequences, FiniteSets

CONSTANTS
    Requests,          \* the requests followed; each is made once
    Kinds,             \* the kinds of request that are made
    MaxHits,           \* what each limiter lets through in one window
    MaxResponseTimes,  \* how many response times are kept
    MaxEscapes         \* bound on the errors that escape handlers

RouteLimiters == {"auth", "strict", "upload"}

\* created: the route answers 201.  probe: the handler answers by itself.
Kind == [limiter : RouteLimiters \cup {"none"}, created : BOOLEAN, probe : BOOLEAN]

\* The limiters on the way of the requests.
Limiters == {"general"} \cup ({kind.limiter : kind \in Kinds} \ {"none"})

ASSUME GatewayAssumption ==
    /\ IsFiniteSet(Requests)
    /\ Kinds \subseteq Kind
    /\ MaxHits \in [Limiters -> Nat]
    /\ MaxResponseTimes \in Nat \ {0}
    /\ MaxEscapes \in Nat

VARIABLES
    reqs,     \* the requests
    hits,     \* what each limiter has counted in its window
    metrics,  \* MetricsCollector
    escapes   \* history: how many errors have escaped handlers

gatewayVars == <<reqs, hits, metrics, escapes>>

-----------------------------------------------------------------------------
(* State                                                                   *)

\* 400 stands for every status of a limiter, a guard or an exception.
Codes == {200, 201, 400, 408, 500, 503}

Request == [kind : Kinds, pc : {"idle", "guard", "handle", "done"}, code : Codes,
            sent : BOOLEAN, timedOut : BOOLEAN, crashed : BOOLEAN]

NewRequest(kind) == [kind |-> kind, pc |-> "idle", code |-> 200, sent |-> FALSE,
                     timedOut |-> FALSE, crashed |-> FALSE]

\* times: the last response times; TRUE is one of 30 seconds, the others are short.
Metrics == [total : Nat, failed : Nat, times : Seq(BOOLEAN)]

NoMetrics == [total |-> 0, failed |-> 0, times |-> <<>>]

GatewayTypeOK ==
    /\ reqs \in [Requests -> Request]
    /\ hits \in [Limiters -> Nat]
    /\ metrics \in Metrics
    /\ escapes \in Nat

GatewayInit ==
    /\ reqs \in [Requests -> {NewRequest(kind) : kind \in Kinds}]
    /\ hits = [l \in Limiters |-> 0]
    /\ metrics = NoMetrics
    /\ escapes = 0

-----------------------------------------------------------------------------
(* MetricsCollector                                                        *)

\* Mistake: a request that created something is not a success.
SuccessOnlyOK(code) == code = 200

Success(code) == code >= 200 /\ code < 400

Kept(times) == IF Len(times) < MaxResponseTimes THEN times ELSE Tail(times)

Recorded(m, code, slow) ==
    [total |-> m.total + 1,
     failed |-> IF Success(code) THEN m.failed ELSE m.failed + 1,
     times |-> Append(Kept(m.times), slow)]

\* getErrorRate() > percent, of all requests since the last reset.
ErrorRateAbove(m, percent) == 100 * m.failed > percent * m.total

\* getAverageResponseTime() > milliseconds, of the response times kept.
SlowTimes(times) == {i \in 1..Len(times) : times[i]}

AverageAbove(m, milliseconds) ==
    30000 * Cardinality(SlowTimes(m.times)) > milliseconds * Len(m.times)

HealthStatus(m) ==
    IF ErrorRateAbove(m, 20) \/ AverageAbove(m, 10000) THEN "critical"
    ELSE IF ErrorRateAbove(m, 10) \/ AverageAbove(m, 5000) THEN "warning"
    ELSE "healthy"

-----------------------------------------------------------------------------
(* Limiters and answers                                                    *)

\* auth gives back the hit of a success, upload that of a failure.
GivesBack(l, code) == (l = "auth" /\ code < 400) \/ (l = "upload" /\ code >= 400)

\* The hits h once the route's limiter has seen the answer finish.
HitsAfter(h, r, code) ==
    LET l == reqs[r].kind.limiter
    IN  IF ~reqs[r].sent /\ GivesBack(l, code) /\ h[l] > 0
        THEN [h EXCEPT ![l] = @ - 1]
        ELSE h

\* The headers go out once: a later answer is lost.
Answered(r, code) ==
    [reqs[r] EXCEPT !.code = IF reqs[r].sent THEN @ ELSE code, !.sent = TRUE]

Answer(r, code) ==
    /\ reqs' = [reqs EXCEPT ![r] = [Answered(r, code) EXCEPT !.pc = "done"]]
    /\ hits' = HitsAfter(hits, r, code)

-----------------------------------------------------------------------------
(* The way of a request                                                    *)

Counted(l) == [hits EXCEPT ![l] = @ + 1]

\* Every request counts at RateLimitMiddleware, and then at the limiter of its route;
\* one over a limit is counted as well.
WithinGeneral == hits["general"] < MaxHits["general"]

WithinRoute(r) ==
    reqs[r].kind.limiter # "none" => hits[reqs[r].kind.limiter] < MaxHits[reqs[r].kind.limiter]

AtBoth(r) ==
    LET l == reqs[r].kind.limiter
    IN  IF l = "none" THEN Counted("general") ELSE [Counted("general") EXCEPT ![l] = @ + 1]

Refuse(r) == reqs' = [reqs EXCEPT ![r] = [Answered(r, 400) EXCEPT !.pc = "done"]]

\* The middleware in its order; ErrorHandlingMiddleware, which sets the timer, is
\* the first.
RateLimitRefuses(r) ==
    /\ reqs[r].pc = "idle" /\ ~WithinGeneral
    /\ Refuse(r)
    /\ hits' = Counted("general")
    /\ UNCHANGED <<metrics, escapes>>

\* The header is not that of the cookie; without a cookie nothing is checked.
CsrfRefuses(r) ==
    /\ reqs[r].pc = "idle" /\ WithinGeneral
    /\ Refuse(r)
    /\ hits' = Counted("general")
    /\ UNCHANGED <<metrics, escapes>>

RouteLimitRefuses(r) ==
    /\ reqs[r].pc = "idle" /\ WithinGeneral /\ ~WithinRoute(r)
    /\ Refuse(r)
    /\ hits' = HitsAfter(AtBoth(r), r, 400)
    /\ UNCHANGED <<metrics, escapes>>

Enter(r) ==
    /\ reqs[r].pc = "idle" /\ WithinGeneral /\ WithinRoute(r)
    /\ reqs' = [reqs EXCEPT ![r].pc = "guard"]
    /\ hits' = AtBoth(r)
    /\ UNCHANGED <<metrics, escapes>>

\* ThrottlerGuard, AuthGuard and RolesGuard refuse; nothing is counted.
GuardRefuses(r) ==
    /\ reqs[r].pc = "guard"
    /\ Answer(r, 400)
    /\ UNCHANGED <<metrics, escapes>>

\* The status of the route is set before the interceptors run, whatever it was.
GuardAdmits(r) ==
    /\ reqs[r].pc = "guard"
    /\ reqs' = [reqs EXCEPT ![r].pc = "handle",
                            ![r].code = IF reqs[r].kind.created THEN 201 ELSE 200]
    /\ UNCHANGED <<hits, metrics, escapes>>

\* ApiVersionInterceptor refuses the version asked for; LoggingInterceptor comes
\* after it and does not count.
VersionRefused(r) ==
    /\ reqs[r].pc = "handle"
    /\ Answer(r, 400)
    /\ UNCHANGED <<metrics, escapes>>

\* LoggingInterceptor counts the status set so far.
Respond(r) ==
    /\ reqs[r].pc = "handle" /\ ~reqs[r].kind.probe
    /\ metrics' = Recorded(metrics, reqs[r].code, reqs[r].timedOut)
    /\ Answer(r, reqs[r].code)
    /\ UNCHANGED escapes

\* HealthController: the status is set and the answer sent by the handler, before
\* LoggingInterceptor counts.  Once somebody else has answered both attempts throw,
\* and what is set last is 503.
Probe(r) ==
    /\ reqs[r].pc = "handle" /\ reqs[r].kind.probe
    /\ \E code \in IF reqs[r].sent THEN {503} ELSE {200, 503} :
          /\ metrics' = Recorded(metrics, code, reqs[r].timedOut)
          /\ Answer(r, code)
    /\ UNCHANGED escapes

\* The same count, before AllExceptionsFilter sets the status of the exception.
Throw(r) ==
    /\ reqs[r].pc = "handle" /\ ~reqs[r].kind.probe
    /\ metrics' = Recorded(metrics, reqs[r].code, reqs[r].timedOut)
    /\ Answer(r, 400)
    /\ UNCHANGED escapes

\* Mistake: the timer answers requests past the guards only.
TimeoutHandled(r) ==
    /\ reqs[r].pc = "handle" /\ ~reqs[r].sent
    /\ metrics' = Recorded(metrics, 408, TRUE)
    /\ reqs' = [reqs EXCEPT ![r] = [Answered(r, 408) EXCEPT !.timedOut = TRUE]]
    /\ hits' = HitsAfter(hits, r, 408)
    /\ UNCHANGED escapes

\* Mistake: the timer is not cleared, and does not look for an answer.
TimeoutUncleared(r) ==
    /\ reqs[r].pc # "idle"
    /\ metrics' = Recorded(metrics, 408, TRUE)
    /\ reqs' = [reqs EXCEPT ![r] = [Answered(r, 408) EXCEPT !.timedOut = TRUE]]
    /\ hits' = HitsAfter(hits, r, 408)
    /\ UNCHANGED escapes

\* The timer of 30 seconds; it is cleared when an answer has been sent.
HandleTimeout(r) ==
    /\ reqs[r].pc # "idle" /\ ~reqs[r].sent
    /\ metrics' = Recorded(metrics, 408, TRUE)
    /\ reqs' = [reqs EXCEPT ![r] = [Answered(r, 408) EXCEPT !.timedOut = TRUE]]
    /\ hits' = HitsAfter(hits, r, 408)
    /\ UNCHANGED escapes

\* An error outside of every promise reaches the request's domain: before or after
\* the answer, and any number of times.
HandleUncaughtError(r) ==
    /\ reqs[r].pc # "idle" /\ escapes < MaxEscapes
    /\ escapes' = escapes + 1
    /\ metrics' = Recorded(metrics, 500, FALSE)
    /\ reqs' = [reqs EXCEPT ![r] = [Answered(r, 500) EXCEPT !.crashed = TRUE]]
    /\ hits' = HitsAfter(hits, r, 500)

\* A request that is not followed here counts at a limiter.  Bound: only where one
\* that is followed has still to pass, and a full limiter counts no others.
CountElsewhere(l) ==
    /\ hits[l] < MaxHits[l]
    /\ \E r \in Requests : reqs[r].pc = "idle" /\ l \in {"general", reqs[r].kind.limiter}
    /\ hits' = [hits EXCEPT ![l] = @ + 1]
    /\ UNCHANGED <<reqs, metrics, escapes>>

\* A window of a limiter ends.
NewWindow(l) ==
    /\ hits[l] > 0
    /\ hits' = [hits EXCEPT ![l] = 0]
    /\ UNCHANGED <<reqs, metrics, escapes>>

GatewayNext ==
    \/ \E r \in Requests :
          \/ RateLimitRefuses(r) \/ CsrfRefuses(r) \/ RouteLimitRefuses(r) \/ Enter(r)
          \/ GuardRefuses(r) \/ GuardAdmits(r) \/ VersionRefused(r)
          \/ Respond(r) \/ Probe(r) \/ Throw(r)
          \/ HandleTimeout(r) \/ HandleUncaughtError(r)
    \/ \E l \in Limiters : CountElsewhere(l) \/ NewWindow(l)

-----------------------------------------------------------------------------
(* Liveness                                                                *)

\* Every request is answered: in the limiters, by a guard or a filter, by its
\* handler, or by the timer when a guard or a handler never comes back.
EveryRequestAnswered == \A r \in Requests : reqs[r].pc # "idle" ~> reqs[r].sent
=============================================================================
