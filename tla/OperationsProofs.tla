-------------------------- MODULE OperationsProofs --------------------------
(***************************************************************************)
(* Proofs about Operations, for all requests, limits, rules and cooldowns, *)
(* and any number of collections under way.                                *)
(***************************************************************************)
EXTENDS Operations, FiniteSetTheorems, SequenceTheorems, TLAPS

-----------------------------------------------------------------------------
(* Requests                                                                *)

LEMMA AnsweredTyped ==
    ASSUME GatewayTypeOK, NEW r \in Requests, NEW code \in Codes
    PROVE  /\ Answered(r, code) \in Request
           /\ Answered(r, code).kind = reqs[r].kind
           /\ Answered(r, code).pc = reqs[r].pc
           /\ Answered(r, code).timedOut = reqs[r].timedOut
           /\ Answered(r, code).crashed = reqs[r].crashed
<1>1. reqs[r] \in Request
  BY DEF GatewayTypeOK
<1> QED
  BY <1>1 DEF Answered, Request

LEMMA AnsweredSent ==
    ASSUME GatewayTypeOK, NEW r \in Requests, NEW code \in Codes
    PROVE  /\ Answered(r, code).sent = TRUE
           /\ Answered(r, code).code = IF reqs[r].sent THEN reqs[r].code ELSE code
<1>1. reqs[r] \in Request
  BY DEF GatewayTypeOK
<1> QED
  BY <1>1 DEF Answered, Request

\* What an answer leaves of the limiters.
LEMMA HitsTyped ==
    ASSUME GatewayTypeOK, NEW h \in [Limiters -> Nat], NEW r \in Requests, NEW code
    PROVE  HitsAfter(h, r, code) \in [Limiters -> Nat]
<1> DEFINE l == reqs[r].kind.limiter
<1>0. reqs[r].kind \in Kinds
  BY DEF GatewayTypeOK, Request
<1>1. CASE GivesBack(l, code) /\ h[l] > 0
  <2>1. l \in Limiters
    BY <1>0, <1>1 DEF GivesBack, Limiters
  <2>2. h[l] - 1 \in Nat
    BY <1>1, <2>1
  <2> HIDE DEF l
  <2>3. [h EXCEPT ![l] = @ - 1] \in [Limiters -> Nat]
    BY <2>1, <2>2
  <2> QED
    BY <2>3 DEF HitsAfter, l
<1>2. CASE ~(GivesBack(l, code) /\ h[l] > 0)
  BY <1>2 DEF HitsAfter
<1> QED
  BY <1>1, <1>2

LEMMA CountedTyped ==
    ASSUME GatewayTypeOK, NEW r \in Requests
    PROVE  Counted("general") \in [Limiters -> Nat] /\ AtBoth(r) \in [Limiters -> Nat]
<1>0. reqs[r].kind \in Kinds
  BY DEF GatewayTypeOK, Request
<1>1. /\ "general" \in Limiters
      /\ reqs[r].kind.limiter = "none" \/ reqs[r].kind.limiter \in Limiters
  BY <1>0 DEF Limiters
<1>2. Counted("general") \in [Limiters -> Nat]
  BY <1>1 DEF Counted, GatewayTypeOK
<1> QED
  BY <1>1, <1>2 DEF AtBoth

\* The response times kept are the last ones.
LEMMA KeptTyped ==
    ASSUME NEW times \in Seq(BOOLEAN), NEW slow \in BOOLEAN
    PROVE  /\ Kept(times) \in Seq(BOOLEAN)
           /\ Append(Kept(times), slow) \in Seq(BOOLEAN)
<1>1. CASE Len(times) < MaxResponseTimes
  BY <1>1 DEF Kept
<1>2. CASE ~(Len(times) < MaxResponseTimes)
  <2>1. times # <<>>
    BY <1>2, GatewayAssumption
  <2>2. Tail(times) \in Seq(BOOLEAN)
    BY <2>1
  <2> QED
    BY <1>2, <2>2 DEF Kept
<1> QED
  BY <1>1, <1>2

LEMMA RecordedTyped ==
    ASSUME NEW m \in Metrics, NEW code, NEW slow \in BOOLEAN
    PROVE  /\ Recorded(m, code, slow) \in Metrics
           /\ m.failed \in Nat
           /\ Recorded(m, code, slow).failed \in {m.failed, m.failed + 1}
           /\ Success(code) => Recorded(m, code, slow).failed = m.failed
<1>1. Append(Kept(m.times), slow) \in Seq(BOOLEAN)
  BY KeptTyped DEF Metrics
<1> QED
  BY <1>1 DEF Recorded, Metrics

\* A request answered for good.
LEMMA DoneTyped ==
    ASSUME GatewayTypeOK, NEW r \in Requests, NEW code \in Codes,
           reqs' = [reqs EXCEPT ![r] = [Answered(r, code) EXCEPT !.pc = "done"]]
    PROVE  /\ reqs' \in [Requests -> Request]
           /\ reqs'[r].pc = "done" /\ reqs'[r].sent /\ reqs'[r].kind = reqs[r].kind
           /\ ~reqs[r].sent => reqs'[r].code = code
           /\ reqs'[r].timedOut = reqs[r].timedOut /\ reqs'[r].crashed = reqs[r].crashed
           /\ \A q \in Requests : q # r => reqs'[q] = reqs[q]
<1> DEFINE new == [Answered(r, code) EXCEPT !.pc = "done"]
<1>0. PICK a \in Request : a = Answered(r, code)
  BY AnsweredTyped
<1>1. /\ new \in Request /\ new.pc = "done" /\ new.sent = a.sent /\ new.kind = a.kind
      /\ new.code = a.code /\ new.timedOut = a.timedOut /\ new.crashed = a.crashed
  BY <1>0 DEF Request
<1>2. /\ a.sent = TRUE /\ a.kind = reqs[r].kind
      /\ a.timedOut = reqs[r].timedOut /\ a.crashed = reqs[r].crashed
      /\ a.code = IF reqs[r].sent THEN reqs[r].code ELSE code
  BY ZenonT(60), <1>0, AnsweredTyped, AnsweredSent
<1> HIDE DEF new
<1>3. reqs' = [reqs EXCEPT ![r] = new]
  BY DEF new
<1>4. /\ reqs' \in [Requests -> Request] /\ reqs'[r] = new
      /\ \A q \in Requests : q # r => reqs'[q] = reqs[q]
  BY <1>1, <1>3 DEF GatewayTypeOK
<1> QED
  BY <1>1, <1>2, <1>4

\* A request that ran into the timer, or whose handler let an error escape.
LEMMA BlamedTyped ==
    ASSUME GatewayTypeOK, NEW r \in Requests, NEW code \in Codes,
           \/ reqs' = [reqs EXCEPT ![r] = [Answered(r, code) EXCEPT !.timedOut = TRUE]]
           \/ reqs' = [reqs EXCEPT ![r] = [Answered(r, code) EXCEPT !.crashed = TRUE]]
    PROVE  /\ reqs' \in [Requests -> Request]
           /\ reqs'[r].timedOut \/ reqs'[r].crashed
           /\ \A q \in Requests : q # r => reqs'[q] = reqs[q]
<1> DEFINE late == [Answered(r, code) EXCEPT !.timedOut = TRUE]
           crash == [Answered(r, code) EXCEPT !.crashed = TRUE]
<1>0. PICK a \in Request : a = Answered(r, code)
  BY AnsweredTyped
<1>1. late \in Request /\ late.timedOut = TRUE
  BY <1>0 DEF Request
<1>2. crash \in Request /\ crash.crashed = TRUE
  BY <1>0 DEF Request
<1>3. reqs' = [reqs EXCEPT ![r] = late] \/ reqs' = [reqs EXCEPT ![r] = crash]
  OBVIOUS
<1> HIDE DEF late, crash
<1> QED
  BY <1>1, <1>2, <1>3 DEF GatewayTypeOK

Blamed == \E r \in Requests : r \in Troubled

LEMMA TroubledIs ==
    \A r \in Requests :
        /\ r \in Troubled <=>
              \/ reqs[r].timedOut
              \/ reqs[r].crashed
              \/ reqs[r].kind.probe /\ reqs[r].pc = "done" /\ reqs[r].code = 503
        /\ r \in Troubled' <=>
              \/ reqs'[r].timedOut
              \/ reqs'[r].crashed
              \/ reqs'[r].kind.probe /\ reqs'[r].pc = "done" /\ reqs'[r].code = 503
  BY DEF Troubled

\* A failure is counted only with somebody to blame; the handler is answered for by
\* the timer and the domain alone, and but for them its status is a success.
GatewayInv ==
    /\ GatewayTypeOK
    /\ metrics.failed > 0 => Blamed
    /\ \A r \in Requests :
          /\ reqs[r].pc # "done" /\ reqs[r].sent => reqs[r].timedOut \/ reqs[r].crashed
          /\ reqs[r].pc = "handle" /\ ~Success(reqs[r].code)
                => reqs[r].timedOut \/ reqs[r].crashed

\* An interceptor counts a failure only of a request in trouble.
Counts(r) ==
    \/ UNCHANGED metrics
    \/ \E code \in Codes :
          /\ metrics' = Recorded(metrics, code, reqs[r].timedOut)
          /\ ~Success(code) => r \in Troubled'

\* A request is answered for good; its status is counted or not.
LEMMA DoneStep ==
    ASSUME GatewayInv, NEW r \in Requests, reqs[r].pc # "done", NEW code \in Codes,
           reqs' = [reqs EXCEPT ![r] = [Answered(r, code) EXCEPT !.pc = "done"]],
           hits' \in [Limiters -> Nat], Counts(r), UNCHANGED escapes
    PROVE  GatewayInv' /\ (Blamed => Blamed')
<1>1. /\ reqs' \in [Requests -> Request]
      /\ reqs'[r].pc = "done"
      /\ reqs'[r].timedOut = reqs[r].timedOut /\ reqs'[r].crashed = reqs[r].crashed
      /\ \A q \in Requests : q # r => reqs'[q] = reqs[q]
  BY DoneTyped DEF GatewayInv
<1>2. Blamed => Blamed'
  BY <1>1, TroubledIs DEF Blamed
<1>3. metrics \in Metrics /\ reqs[r].timedOut \in BOOLEAN
  BY DEF GatewayInv, GatewayTypeOK, Request
<1>4. metrics' \in Metrics /\ (metrics'.failed > 0 => Blamed')
  <2>1. CASE UNCHANGED metrics
    BY <2>1, <1>2, <1>3 DEF GatewayInv
  <2>2. ASSUME NEW c \in Codes, metrics' = Recorded(metrics, c, reqs[r].timedOut),
               ~Success(c) => r \in Troubled'
        PROVE  metrics' \in Metrics /\ (metrics'.failed > 0 => Blamed')
    <3>1. /\ metrics' \in Metrics
          /\ Success(c) => metrics'.failed = metrics.failed
      BY <1>3, <2>2, RecordedTyped
    <3> QED
      BY <1>2, <2>2, <3>1 DEF GatewayInv, Blamed
  <2> QED
    BY <2>1, <2>2 DEF Counts
<1>5. \A q \in Requests :
          /\ reqs'[q].pc # "done" /\ reqs'[q].sent => reqs'[q].timedOut \/ reqs'[q].crashed
          /\ reqs'[q].pc = "handle" /\ ~Success(reqs'[q].code)
                => reqs'[q].timedOut \/ reqs'[q].crashed
  BY <1>1 DEF GatewayInv
<1>6. GatewayTypeOK'
  BY <1>1, <1>4 DEF GatewayInv, GatewayTypeOK
<1> QED
  BY <1>4, <1>5, <1>6 , <1>2 DEF GatewayInv

\* What ends a request, and what is counted of it.
Ends(r) ==
    \/ RateLimitRefuses(r) \/ CsrfRefuses(r) \/ RouteLimitRefuses(r)
    \/ GuardRefuses(r) \/ VersionRefused(r) \/ Respond(r) \/ Probe(r) \/ Throw(r)

LEMMA EndsShape ==
    ASSUME GatewayInv, NEW r \in Requests, Ends(r)
    PROVE  /\ reqs[r].pc # "done" /\ Counts(r) /\ UNCHANGED escapes
           /\ hits' \in [Limiters -> Nat]
           /\ \E code \in Codes :
                 reqs' = [reqs EXCEPT ![r] = [Answered(r, code) EXCEPT !.pc = "done"]]
<1>0. /\ GatewayTypeOK /\ hits \in [Limiters -> Nat] /\ 400 \in Codes /\ 200 \in Codes /\ 503 \in Codes
      /\ reqs[r].code \in Codes
  BY DEF GatewayInv, GatewayTypeOK, Request, Codes
<1>1. CASE RateLimitRefuses(r) \/ CsrfRefuses(r) \/ RouteLimitRefuses(r)
  <2>1. hits' \in [Limiters -> Nat]
    BY <1>0, <1>1, CountedTyped, HitsTyped DEF RateLimitRefuses, CsrfRefuses, RouteLimitRefuses
  <2> QED
    BY <1>0, <1>1, <2>1 DEF RateLimitRefuses, CsrfRefuses, RouteLimitRefuses, Refuse, Counts
<1>2. CASE GuardRefuses(r) \/ VersionRefused(r)
  <2>1. hits' \in [Limiters -> Nat]
    BY <1>0, <1>2, HitsTyped DEF GuardRefuses, VersionRefused, Answer
  <2> QED
    BY <1>0, <1>2, <2>1 DEF GuardRefuses, VersionRefused, Answer, Counts
<1>3. CASE Respond(r) \/ Throw(r)
  <2>1. PICK code \in Codes :
            /\ reqs' = [reqs EXCEPT ![r] = [Answered(r, code) EXCEPT !.pc = "done"]]
            /\ hits' = HitsAfter(hits, r, code)
    BY <1>0, <1>3 DEF Respond, Throw, Answer
  <2>2. /\ reqs[r].pc = "handle" /\ UNCHANGED escapes
        /\ metrics' = Recorded(metrics, reqs[r].code, reqs[r].timedOut)
    BY <1>3 DEF Respond, Throw
  <2>3. hits' \in [Limiters -> Nat]
    BY <1>0, <2>1, HitsTyped
  <2>4. reqs'[r].timedOut = reqs[r].timedOut /\ reqs'[r].crashed = reqs[r].crashed
    BY <1>0, <2>1, DoneTyped
  <2>5. ~Success(reqs[r].code) => r \in Troubled'
    BY <2>2, <2>4, TroubledIs DEF GatewayInv
  <2> QED
    BY <1>0, <2>1, <2>2, <2>3, <2>5 DEF Counts
<1>4. CASE Probe(r)
  <2>1. PICK code \in {200, 503} :
            /\ metrics' = Recorded(metrics, code, reqs[r].timedOut)
            /\ Answer(r, code)
    BY <1>4 DEF Probe
  <2>2. code \in Codes /\ (code = 503 \/ code = 200)
    BY <1>0, <2>1
  <2>3. /\ reqs' = [reqs EXCEPT ![r] = [Answered(r, code) EXCEPT !.pc = "done"]]
        /\ hits' = HitsAfter(hits, r, code)
    BY <2>1 DEF Answer
  <2>4. /\ reqs'[r].timedOut = reqs[r].timedOut /\ reqs'[r].crashed = reqs[r].crashed
        /\ reqs'[r].pc = "done" /\ reqs'[r].kind = reqs[r].kind
        /\ ~reqs[r].sent => reqs'[r].code = code
    BY ZenonT(60), <1>0, <2>2, <2>3, DoneTyped
  <2>5. /\ reqs[r].pc = "handle" /\ reqs[r].kind.probe /\ UNCHANGED escapes
    BY <1>4 DEF Probe
  <2>6. ~Success(code) => r \in Troubled'
    <3>1. CASE reqs[r].sent
      BY <2>4, <2>5, <3>1, TroubledIs DEF GatewayInv
    <3>2. CASE ~reqs[r].sent
      BY <2>2, <2>4, <2>5, <3>2, TroubledIs DEF Success
    <3> QED
      BY <3>1, <3>2
  <2>7. hits' \in [Limiters -> Nat]
    BY <1>0, <2>3, HitsTyped
  <2> QED
    BY <2>1, <2>2, <2>3, <2>5, <2>6, <2>7 DEF Counts
<1> QED
  BY <1>1, <1>2, <1>3, <1>4 DEF Ends

LEMMA GatewayStart == GatewayInit => GatewayInv
<1> SUFFICES ASSUME GatewayInit PROVE GatewayInv
  OBVIOUS
<1>1. ASSUME NEW r \in Requests
      PROVE  /\ reqs[r] \in Request /\ reqs[r].pc = "idle" /\ reqs[r].sent = FALSE
  <2>1. PICK kind \in Kinds : reqs[r] = NewRequest(kind)
    BY DEF GatewayInit
  <2> QED
    BY <2>1 DEF NewRequest, Request, Codes
<1>2. reqs \in [Requests -> Request]
  BY <1>1 DEF GatewayInit
<1>3. NoMetrics \in Metrics /\ NoMetrics.failed = 0
  BY DEF NoMetrics, Metrics
<1>4. GatewayTypeOK /\ ~(metrics.failed > 0)
  BY <1>2, <1>3 DEF GatewayInit, GatewayTypeOK
<1>5. \A r \in Requests : reqs[r].pc # "handle" /\ ~reqs[r].sent
  BY <1>1
<1> QED
  BY <1>4, <1>5 DEF GatewayInv

LEMMA GatewayStep == GatewayInv /\ GatewayNext => GatewayInv' /\ (Blamed => Blamed')
<1> SUFFICES ASSUME GatewayInv, GatewayNext PROVE GatewayInv' /\ (Blamed => Blamed')
  OBVIOUS
<1>0. GatewayTypeOK /\ 408 \in Codes /\ 500 \in Codes /\ escapes \in Nat
  BY DEF GatewayInv, GatewayTypeOK, Codes
<1>1. ASSUME NEW r \in Requests, Ends(r) PROVE GatewayInv' /\ (Blamed => Blamed')
  BY <1>1, EndsShape, DoneStep
<1>3. ASSUME NEW r \in Requests, Enter(r) \/ GuardAdmits(r)
      PROVE  GatewayInv' /\ (Blamed => Blamed')
  <2> DEFINE in == [reqs[r] EXCEPT !.pc = "guard"]
             code == IF reqs[r].kind.created THEN 201 ELSE 200
             on == [reqs[r] EXCEPT !.pc = "handle", !.code = code]
  <2>1. reqs[r] \in Request /\ reqs[r].pc # "done"
    BY <1>0, <1>3 DEF GatewayTypeOK, Enter, GuardAdmits
  <2>2. /\ in \in Request /\ in.pc = "guard" /\ in.sent = reqs[r].sent
        /\ in.timedOut = reqs[r].timedOut /\ in.crashed = reqs[r].crashed
    BY <2>1 DEF Request
  <2>3. /\ on \in Request /\ on.code \in {200, 201} /\ on.pc = "handle" /\ on.sent = reqs[r].sent
        /\ on.timedOut = reqs[r].timedOut /\ on.crashed = reqs[r].crashed
    <3>1. code \in {200, 201} /\ code \in Codes
      BY DEF Codes
    <3> HIDE DEF code
    <3> QED
      BY <2>1, <3>1 DEF Request
  <2>4. Success(on.code)
    BY <2>3 DEF Success
  <2>5. reqs' = [reqs EXCEPT ![r] = in] \/ reqs' = [reqs EXCEPT ![r] = on]
    BY ZenonT(60), <1>3, <2>1 DEF Enter, GuardAdmits, GatewayTypeOK
  <2>6. hits' \in [Limiters -> Nat] /\ UNCHANGED <<metrics, escapes>>
    BY <1>0, <1>3, CountedTyped DEF Enter, GuardAdmits, GatewayTypeOK
  <2> HIDE DEF in, on
  <2>7. /\ reqs' \in [Requests -> Request]
        /\ reqs'[r].timedOut = reqs[r].timedOut /\ reqs'[r].crashed = reqs[r].crashed
        /\ reqs'[r].sent = reqs[r].sent
        /\ reqs'[r].pc = "handle" => Success(reqs'[r].code)
        /\ \A q \in Requests : q # r => reqs'[q] = reqs[q]
    BY <1>0, <2>2, <2>3, <2>4, <2>5 DEF GatewayTypeOK
  <2>8. Blamed => Blamed'
    BY <2>1, <2>7, TroubledIs DEF Blamed
  <2>9. \A q \in Requests :
            /\ reqs'[q].pc # "done" /\ reqs'[q].sent => reqs'[q].timedOut \/ reqs'[q].crashed
            /\ reqs'[q].pc = "handle" /\ ~Success(reqs'[q].code)
                  => reqs'[q].timedOut \/ reqs'[q].crashed
    BY <2>1, <2>7 DEF GatewayInv
  <2>10. GatewayTypeOK'
    BY <1>0, <2>6, <2>7 DEF GatewayTypeOK
  <2> QED
    BY <2>6, <2>8, <2>9, <2>10 DEF GatewayInv
<1>4. ASSUME NEW r \in Requests, HandleTimeout(r) \/ HandleUncaughtError(r)
      PROVE  GatewayInv' /\ (Blamed => Blamed')
  <2>0. PICK code \in Codes, slow \in BOOLEAN :
            /\ \/ reqs' = [reqs EXCEPT ![r] = [Answered(r, code) EXCEPT !.timedOut = TRUE]]
               \/ reqs' = [reqs EXCEPT ![r] = [Answered(r, code) EXCEPT !.crashed = TRUE]]
            /\ metrics' = Recorded(metrics, code, slow)
            /\ hits' = HitsAfter(hits, r, code)
    <3>1. CASE HandleTimeout(r)
      BY <1>0, <3>1 DEF HandleTimeout
    <3>2. CASE HandleUncaughtError(r)
      BY ZenonT(60), <1>0, <3>2 DEF HandleUncaughtError
    <3> QED
      BY <1>4, <3>1, <3>2
  <2>1. /\ reqs' \in [Requests -> Request]
        /\ reqs'[r].timedOut \/ reqs'[r].crashed
        /\ \A q \in Requests : q # r => reqs'[q] = reqs[q]
    BY <1>0, <2>0, BlamedTyped
  <2>2. hits' \in [Limiters -> Nat] /\ metrics' \in Metrics
    BY <1>0, <2>0, HitsTyped, RecordedTyped DEF GatewayTypeOK
  <2>3. Blamed'
    BY <2>1, TroubledIs DEF Blamed
  <2>4. escapes' \in Nat
    <3>1. escapes' = escapes \/ escapes' = escapes + 1
      BY <1>4 DEF HandleTimeout, HandleUncaughtError
    <3> QED
      BY <1>0, <3>1
  <2> QED
    BY <2>1, <2>2, <2>3, <2>4 DEF GatewayInv, GatewayTypeOK
<1>5. ASSUME NEW l \in Limiters, CountElsewhere(l) \/ NewWindow(l)
      PROVE  GatewayInv' /\ (Blamed => Blamed')
  <2>1. hits' \in [Limiters -> Nat] /\ UNCHANGED <<reqs, metrics, escapes>>
    BY <1>0, <1>5 DEF CountElsewhere, NewWindow, GatewayTypeOK
  <2>2. Blamed' <=> Blamed
    BY <2>1 DEF Blamed, Troubled
  <2> QED
    BY <2>1, <2>2 DEF GatewayInv, GatewayTypeOK
<1> QED
  BY <1>1, <1>3, <1>4, <1>5 DEF GatewayNext, Ends

-----------------------------------------------------------------------------
(* Alerts                                                                  *)

\* A rule raised by a collection is dated by it; a collection is no later than
\* the clock, and what it knows to be high has its reason.
AlertsInv ==
    /\ AlertsTypeOK
    /\ \A p \in Passes : passes[p].at <= now
    /\ \A m \in Watched : cooldowns[m] <= raised[m]
    /\ "error_rate" \in active => Blamed
    /\ \A p \in Passes : "error_rate" \in passes[p].high => Blamed

\* Of every rule a collection raises: when, and with which right.
LEMMA AnalyzeRaises ==
    ASSUME AlertsTypeOK, NEW p \in Passes, NEW first \in Nat \ {0}, NEW at \in Nat,
           NEW high \in SUBSET Watched, Analyze(p, first, at, high), UNCHANGED now
    PROVE  /\ AlertsTypeOK'
           /\ passes'[p] = IdlePass \/ (passes'[p].at = at /\ passes'[p].high = high)
           /\ \A q \in Passes : q # p => passes'[q] = passes[q]
           /\ active' \subseteq active \cup high
           /\ \A m \in Watched :
                 \/ /\ cooldowns'[m] = cooldowns[m] /\ raised'[m] = raised[m]
                    /\ m \in active' => m \in active
                 \/ cooldowns'[m] = at /\ raised'[m] = now /\ ~Cooling(m, at)
<1> DEFINE due == {i \in first..Len(Metric) : /\ Metric[i] \in high /\ HasRule(Metric[i])
                                     /\ ~Cooling(Metric[i], at)}
           resolved(stop) == {Metric[i] : i \in {j \in first..Len(Metric) :
                              j < stop /\ Metric[j] \notin high /\ Resolvable(Metric[j])}}
<1>1. CASE due = {}
  <2>1. /\ passes' = [passes EXCEPT ![p] = IdlePass] /\ active' \subseteq active
        /\ UNCHANGED <<cooldowns, raised>>
    BY <1>1 DEF Analyze
  <2> QED
    BY <2>1 DEF AlertsTypeOK
<1>2. CASE due # {}
  <2>1. PICK stop \in due :
            /\ passes' = [passes EXCEPT ![p] =
                             [busy |-> TRUE, i |-> stop, at |-> at, high |-> high]]
            /\ active' = (active \ resolved(stop)) \cup {Metric[stop]}
            /\ cooldowns' = [cooldowns EXCEPT ![Metric[stop]] = at]
            /\ raised' = [raised EXCEPT ![Metric[stop]] = now]
    BY <1>2 DEF Analyze
  <2>2. Len(Metric) \in Nat
    BY AlertsAssumption
  <2>3. /\ stop \in 1..Len(Metric) /\ Metric[stop] \in Watched
        /\ Metric[stop] \in high /\ ~Cooling(Metric[stop], at)
    BY <2>2 DEF Watched
  <2>4. [busy |-> TRUE, i |-> stop, at |-> at, high |-> high] \in Pass
    BY <2>3 DEF Pass
  <2>5. active' \subseteq active \cup {Metric[stop]}
    BY <2>1
  <2> HIDE DEF due, resolved
  <2>6. AlertsTypeOK'
    BY <2>1, <2>3, <2>4, <2>5 DEF AlertsTypeOK
  <2>7. /\ passes'[p].at = at /\ passes'[p].high = high
        /\ \A q \in Passes : q # p => passes'[q] = passes[q]
    BY <2>1 DEF AlertsTypeOK
  <2>8. ASSUME NEW m \in Watched
        PROVE  \/ /\ cooldowns'[m] = cooldowns[m] /\ raised'[m] = raised[m]
                  /\ m \in active' => m \in active
               \/ cooldowns'[m] = at /\ raised'[m] = now /\ ~Cooling(m, at)
    BY <2>1, <2>3, <2>5 DEF AlertsTypeOK
  <2> QED
    BY <2>3, <2>5, <2>6, <2>7, <2>8
<1> QED
  BY <1>1, <1>2

\* What a collection does with the metrics it found high, if they have a reason.
LEMMA AnalyzeStep ==
    ASSUME AlertsInv, NEW p \in Passes, NEW first \in Nat \ {0}, NEW at \in Nat, at <= now,
           NEW high \in SUBSET Watched, Analyze(p, first, at, high), UNCHANGED <<now, reqs>>,
           "error_rate" \in high => Blamed
    PROVE  AlertsInv'
<1>1. /\ AlertsTypeOK'
      /\ passes'[p] = IdlePass \/ (passes'[p].at = at /\ passes'[p].high = high)
      /\ \A q \in Passes : q # p => passes'[q] = passes[q]
      /\ active' \subseteq active \cup high
      /\ \A m \in Watched :
            \/ /\ cooldowns'[m] = cooldowns[m] /\ raised'[m] = raised[m]
               /\ m \in active' => m \in active
            \/ cooldowns'[m] = at /\ raised'[m] = now /\ ~Cooling(m, at)
  BY AnalyzeRaises DEF AlertsInv
<1>2. IdlePass.at = 0 /\ IdlePass.high = {} /\ now \in Nat
  BY DEF IdlePass, Never, AlertsInv, AlertsTypeOK
<1>3. \A q \in Passes : passes'[q].at <= now /\ ("error_rate" \in passes'[q].high => Blamed)
  BY <1>1, <1>2 DEF AlertsInv
<1>4. \A m \in Watched : cooldowns'[m] <= raised'[m]
  BY <1>1 DEF AlertsInv
<1>5. "error_rate" \in active' => Blamed
  BY <1>1 DEF AlertsInv
<1>6. Blamed' <=> Blamed
  BY DEF Blamed, Troubled
<1> QED
  BY <1>1, <1>3, <1>4, <1>5, <1>6 DEF AlertsInv

OperationsInv == GatewayInv /\ AlertsInv

\* What a collection finds too high has a reason.
LEMMA HighBlamed ==
    ASSUME GatewayInv, NEW memoryUsed, "error_rate" \in High(memoryUsed)
    PROVE  Blamed
<1>1. ErrorRateAbove(metrics, 5)
  BY DEF High
<1>2. metrics.failed \in Nat /\ metrics.total \in Nat
  BY DEF GatewayInv, GatewayTypeOK, Metrics
<1>3. metrics.failed > 0
  BY <1>1, <1>2 DEF ErrorRateAbove
<1> QED
  BY <1>3 DEF GatewayInv

LEMMA OperationsInit == Init => OperationsInv
<1> SUFFICES ASSUME Init PROVE OperationsInv
  OBVIOUS
<1>1. IdlePass.at = 0 /\ IdlePass.high = {}
  BY DEF IdlePass, Never
<1>2. AlertsInv
  BY <1>1 DEF Init, AlertsInit, AlertsInv, AlertsTypeOK, Never
<1> QED
  BY <1>2, GatewayStart DEF Init, OperationsInv

\* A waiting collection: the fields of its record have the types Pass gives them.
LEMMA PassTyped == ASSUME NEW pass \in Pass
                   PROVE  /\ pass.i + 1 \in Nat \ {0}
                          /\ pass.at \in Nat
                          /\ pass.high \in SUBSET Watched
<1>1. /\ pass.i \in 1..Len(Metric)
      /\ pass.at \in Nat
      /\ pass.high \in SUBSET Watched
  BY DEF Pass
<1>2. Len(Metric) \in Nat
  BY AlertsAssumption
<1>3. pass.i \in Nat
  BY <1>1, <1>2
<1> QED
  BY <1>1, <1>3

LEMMA OperationsStep == OperationsInv /\ [Next]_vars => OperationsInv'
<1> SUFFICES ASSUME OperationsInv, [Next]_vars PROVE OperationsInv'
  OBVIOUS
<1> USE DEF OperationsInv
<1>0. ASSUME UNCHANGED gatewayVars PROVE GatewayInv'
  BY <1>0 DEF gatewayVars, GatewayInv, GatewayTypeOK, Blamed, Troubled
<1>1. ASSUME UNCHANGED alertVars, Blamed => Blamed' PROVE AlertsInv'
  BY <1>1 DEF alertVars, AlertsInv, AlertsTypeOK
<1>2. CASE UNCHANGED vars
  <2>1. UNCHANGED gatewayVars /\ UNCHANGED alertVars
    BY <1>2 DEF vars
  <2>2. Blamed => Blamed'
    BY <2>1 DEF gatewayVars, Blamed, Troubled
  <2> QED
    BY <1>0, <1>1, <2>1, <2>2
<1>3. CASE GatewayNext /\ UNCHANGED alertVars
  BY <1>1, <1>3, GatewayStep
<1>4. ASSUME NEW p \in Passes, Proceed(p), UNCHANGED gatewayVars PROVE OperationsInv'
  <2>1. CASE AlertSent(p)
    <3>1. passes[p] \in Pass \cup {IdlePass} /\ passes[p].busy
      BY <2>1 DEF AlertSent, AlertsInv, AlertsTypeOK
    <3>2. passes[p] \in Pass
      BY <3>1 DEF IdlePass
    <3>3. passes[p].i + 1 \in Nat \ {0} /\ passes[p].at \in Nat /\ passes[p].high \in SUBSET Watched
      BY <3>2, PassTyped
    <3>4. passes[p].at <= now /\ ("error_rate" \in passes[p].high => Blamed)
      BY DEF AlertsInv
    <3>5. Analyze(p, passes[p].i + 1, passes[p].at, passes[p].high) /\ UNCHANGED <<now, reqs>>
      BY <1>4, <2>1 DEF AlertSent, gatewayVars
    <3> QED
      BY <1>0, <1>4, <3>3, <3>4, <3>5, AnalyzeStep
  <2>2. CASE SendHangs(p)
    <3>1. IdlePass.at = 0 /\ IdlePass.high = {} /\ now \in Nat
      BY DEF IdlePass, Never, AlertsInv, AlertsTypeOK
    <3>2. Blamed' <=> Blamed
      BY <1>4 DEF gatewayVars, Blamed, Troubled
    <3>3. AlertsInv'
      BY <2>2, <3>1, <3>2 DEF SendHangs, AlertsInv, AlertsTypeOK
    <3> QED
      BY <1>0, <1>4, <3>3
  <2> QED
    BY <1>4, <2>1, <2>2 DEF Proceed
<1>5. CASE Tick /\ UNCHANGED gatewayVars
  <2>1. Blamed' <=> Blamed
    BY <1>5 DEF gatewayVars, Blamed, Troubled
  <2>2. AlertsInv'
    <3>1. \A p \in Passes : passes[p].at \in Nat /\ passes[p].at <= now + 1
      <4>1. SUFFICES ASSUME NEW p \in Passes PROVE passes[p].at \in Nat /\ passes[p].at <= now + 1
        OBVIOUS
      <4>2. passes[p] \in Pass \cup {IdlePass} /\ now \in Nat /\ passes[p].at <= now
        BY DEF AlertsInv, AlertsTypeOK
      <4>3. passes[p].at \in Nat
        BY <4>2, PassTyped DEF IdlePass, Never
      <4> QED
        BY <4>2, <4>3
    <3> QED
      BY <1>5, <2>1, <3>1 DEF Tick, AlertsInv, AlertsTypeOK
  <2> QED
    BY <1>0, <1>5, <2>2
<1>6. ASSUME NEW p \in Passes, CollectAndAnalyze(p) PROVE OperationsInv'
  <2>1. PICK memoryUsed \in BOOLEAN : Collect(p, High(memoryUsed) \cap Watched)
    BY <1>6 DEF CollectAndAnalyze
  <2> DEFINE high == High(memoryUsed) \cap Watched
  <2>2. high \in SUBSET Watched /\ ("error_rate" \in high => Blamed)
    BY HighBlamed
  <2> HIDE DEF high
  <2>3. Analyze(p, 1, now, high) /\ UNCHANGED <<now, reqs>>
    BY <1>6, <2>1 DEF Collect, CollectAndAnalyze, gatewayVars, high
  <2>4. now \in Nat /\ now <= now
    BY DEF AlertsInv, AlertsTypeOK
  <2>5. AlertsInv'
    BY <2>2, <2>3, <2>4, AnalyzeStep
  <2> QED
    BY <1>0, <1>6, <2>5 DEF CollectAndAnalyze
<1>7. CASE ResetMetrics
  <2>1. NoMetrics \in Metrics /\ NoMetrics.failed = 0
    BY DEF NoMetrics, Metrics
  <2>2. GatewayInv'
    BY <1>7, <2>1 DEF ResetMetrics, GatewayInv, GatewayTypeOK
  <2>3. Blamed' <=> Blamed
    BY <1>7 DEF ResetMetrics, Blamed, Troubled
  <2>4. AlertsInv'
    BY <1>7, <2>3 DEF ResetMetrics, ForgetAlerts, AlertsInv, AlertsTypeOK, Never
  <2> QED
    BY <2>2, <2>4
<1> QED
  BY <1>2, <1>3, <1>4, <1>5, <1>6, <1>7 DEF Next, AlertsNext

\* Requests, limiters, counts and collections keep their ranges: a limiter that
\* gives a hit back never counts below zero.
THEOREM TypeInvariant == Spec => []TypeOK
<1>1. OperationsInv => TypeOK
  BY DEF OperationsInv, GatewayInv, AlertsInv, TypeOK
<1> QED
  BY <1>1, OperationsInit, OperationsStep, PTL DEF Spec

\* The error rate is reported too high only when a request ran into the timer, let
\* an error escape, or was a probe that answered 503.
THEOREM ErrorAlertTheorem == Spec => []ErrorAlertExplained
<1>1. OperationsInv => ErrorAlertExplained
  BY DEF OperationsInv, AlertsInv, ErrorAlertExplained, Blamed
<1> QED
  BY <1>1, OperationsInit, OperationsStep, PTL DEF Spec

\* Two raisings of a rule are a cooldown apart by the clock, unless the first came
\* from a collection held up by an earlier mail.
THEOREM RaisingsTheorem == Spec => RaisingsApart
<1> DEFINE Step ==
        \A m \in Watched :
          /\ m \in active' \ active \/ cooldowns'[m] # cooldowns[m]
          /\ cooldowns'[m] # Never /\ cooldowns[m] # Never
          => \/ now >= raised[m] + Cooldown[m]
             \/ cooldowns[m] < raised[m]
<1>1. OperationsInv /\ [Next]_vars => [Step]_vars
  <2> SUFFICES ASSUME OperationsInv, Next PROVE Step
    BY DEF vars
  <2>0. AlertsTypeOK /\ now \in Nat
    BY DEF OperationsInv, AlertsInv, AlertsTypeOK
  <2>1. ASSUME NEW p \in Passes, NEW first \in Nat \ {0}, NEW at \in Nat, at <= now,
               NEW high \in SUBSET Watched, Analyze(p, first, at, high), UNCHANGED now
        PROVE  Step
    <3>1. \A m \in Watched :
              \/ /\ cooldowns'[m] = cooldowns[m] /\ raised'[m] = raised[m]
                 /\ m \in active' => m \in active
              \/ cooldowns'[m] = at /\ raised'[m] = now /\ ~Cooling(m, at)
      BY <2>0, <2>1, AnalyzeRaises
    <3>2. ASSUME NEW m \in Watched, ~Cooling(m, at), cooldowns[m] # Never
          PROVE  now >= raised[m] + Cooldown[m] \/ cooldowns[m] < raised[m]
      <4>1. /\ cooldowns[m] \in Nat /\ raised[m] \in Nat /\ Cooldown[m] \in Nat
            /\ cooldowns[m] <= raised[m]
        BY AlertsAssumption DEF OperationsInv, AlertsInv, AlertsTypeOK
      <4>2. at >= cooldowns[m] + Cooldown[m]
        BY <3>2, <4>1 DEF Cooling
      <4> QED
        BY <2>0, <2>1, <4>1, <4>2
    <3> QED
      BY <3>1, <3>2
  <2>2. ASSUME UNCHANGED <<active, cooldowns>> PROVE Step
    BY <2>2
  <2>3. ASSUME NEW p \in Passes, AlertSent(p) PROVE Step
    <3>1. passes[p] \in Pass \cup {IdlePass} /\ passes[p].busy
      BY <2>0, <2>3 DEF AlertSent, AlertsTypeOK
    <3>2. passes[p] \in Pass
      BY <3>1 DEF IdlePass
    <3>3. passes[p].i + 1 \in Nat \ {0} /\ passes[p].at \in Nat /\ passes[p].high \in SUBSET Watched
      BY <3>2, PassTyped
    <3>4. passes[p].at <= now
      BY DEF OperationsInv, AlertsInv
    <3> HIDE DEF Step
    <3> QED
      BY <2>1, <2>3, <3>3, <3>4 DEF AlertSent
  <2>4. ASSUME NEW p \in Passes, CollectAndAnalyze(p) PROVE Step
    <3>1. PICK high \in SUBSET Watched : Analyze(p, 1, now, high) /\ UNCHANGED now
      BY <2>4 DEF CollectAndAnalyze, Collect
    <3> HIDE DEF Step
    <3> QED
      BY <2>0, <2>1, <3>1
  <2>5. CASE ResetMetrics
    BY <2>5 DEF ResetMetrics, ForgetAlerts
  <2>6. CASE Tick \/ UNCHANGED alertVars \/ \E p \in Passes : SendHangs(p)
    BY <2>2, <2>6 DEF Tick, alertVars, SendHangs
  <2> QED
    BY <2>3, <2>4, <2>5, <2>6 DEF Next, AlertsNext, Proceed
<1> QED
  BY <1>1, OperationsInit, OperationsStep, PTL DEF Spec, RaisingsApart

-----------------------------------------------------------------------------
(* What the rates count                                                    *)

\* A larger set of requests counts no less, and more if it has a new one.
LEMMA Larger ==
    ASSUME NEW S \in SUBSET Requests, NEW T \in SUBSET Requests, S \subseteq T
    PROVE  /\ Cardinality(S) \in Nat /\ Cardinality(T) \in Nat
           /\ Cardinality(S) <= Cardinality(T)
           /\ \A r \in T : r \notin S => Cardinality(S) + 1 <= Cardinality(T)
<1>1. IsFiniteSet(S) /\ IsFiniteSet(T)
  BY GatewayAssumption, FS_Subset
<1>2. /\ Cardinality(S) \in Nat /\ Cardinality(T) \in Nat
      /\ Cardinality(S) <= Cardinality(T)
  BY <1>1, FS_CardinalityType, FS_Subset
<1>3. ASSUME NEW r \in T, r \notin S PROVE Cardinality(S) + 1 <= Cardinality(T)
  <2>1. Cardinality(S \cup {r}) = Cardinality(S) + 1
    BY <1>1, <1>3, FS_AddElement
  <2>2. Cardinality(S \cup {r}) <= Cardinality(T)
    BY <1>1, <1>3, FS_Subset
  <2> QED
    BY <2>1, <2>2
<1> QED
  BY <1>2, <1>3

\* The slow times are finitely many.
LEMMA SlowTimesFinite ==
    ASSUME NEW times \in Seq(BOOLEAN)
    PROVE  /\ IsFiniteSet(SlowTimes(times))
           /\ Cardinality(SlowTimes(times)) \in Nat
<1>1. IsFiniteSet(1..Len(times))
  BY FS_Interval
<1>2. IsFiniteSet(SlowTimes(times))
  BY <1>1, FS_Subset DEF SlowTimes
<1> QED
  BY <1>2, FS_CardinalityType

\* Forgetting the oldest response time makes none of the others slow.
LEMMA SlowTimesKept ==
    ASSUME NEW times \in Seq(BOOLEAN)
    PROVE  Cardinality(SlowTimes(Kept(times))) <= Cardinality(SlowTimes(times))
<1>0. IsFiniteSet(SlowTimes(times)) /\ Cardinality(SlowTimes(times)) \in Nat
  BY SlowTimesFinite
<1>1. CASE Len(times) < MaxResponseTimes
  BY <1>0, <1>1 DEF Kept
<1>2. CASE ~(Len(times) < MaxResponseTimes)
  <2> DEFINE rest == Tail(times)
             later == [i \in SlowTimes(rest) |-> i + 1]
  <2>1. times # <<>>
    BY <1>2, GatewayAssumption
  <2>2. /\ rest \in Seq(BOOLEAN) /\ Len(rest) = Len(times) - 1
        /\ \A i \in 1..Len(rest) : rest[i] = times[i + 1]
    BY <2>1, HeadTailProperties
  <2> HIDE DEF rest
  <2>3. \A i \in SlowTimes(rest) : i \in Nat /\ i + 1 \in SlowTimes(times)
    <3>1. SUFFICES ASSUME NEW i \in SlowTimes(rest)
                   PROVE  i \in Nat /\ i + 1 \in SlowTimes(times)
      OBVIOUS
    <3>2. i \in 1..Len(rest) /\ rest[i] /\ Len(times) \in Nat
      BY DEF SlowTimes
    <3>3. i \in Nat /\ i + 1 \in 1..Len(times)
      BY <2>2, <3>2
    <3>4. times[i + 1]
      BY <2>2, <3>2
    <3> QED
      BY <3>3, <3>4 DEF SlowTimes
  <2>4. later \in Injection(SlowTimes(rest), SlowTimes(times))
    BY <2>3 DEF Injection, IsInjective
  <2>5. Cardinality(SlowTimes(rest)) <= Cardinality(SlowTimes(times))
    BY <1>0, <2>4, FS_Injection
  <2> QED
    BY <1>2, <2>5 DEF Kept, rest
<1> QED
  BY <1>1, <1>2

\* A record adds at most itself to what was counted.
LEMMA RecordedAdds ==
    ASSUME NEW m \in Metrics, NEW code, NEW slow \in BOOLEAN,
           NEW n, n = Recorded(m, code, slow)
    PROVE  /\ m.failed \in Nat /\ n.failed \in {m.failed, m.failed + 1}
           /\ Success(code) => n.failed = m.failed
           /\ Cardinality(SlowTimes(m.times)) \in Nat
           /\ Cardinality(SlowTimes(n.times)) \in Nat
           /\ Cardinality(SlowTimes(n.times)) <= Cardinality(SlowTimes(m.times)) + 1
           /\ ~slow => Cardinality(SlowTimes(n.times)) <= Cardinality(SlowTimes(m.times))
<1> DEFINE kept == Kept(m.times)
           next == Append(kept, slow)
<1>1. m.times \in Seq(BOOLEAN) /\ n.times = next
  BY DEF Metrics, Recorded
<1>2. kept \in Seq(BOOLEAN) /\ next \in Seq(BOOLEAN)
  BY <1>1, KeptTyped
<1>3. Cardinality(SlowTimes(kept)) <= Cardinality(SlowTimes(m.times))
  BY <1>1, SlowTimesKept
<1>4. /\ IsFiniteSet(SlowTimes(kept)) /\ Cardinality(SlowTimes(kept)) \in Nat
      /\ Cardinality(SlowTimes(next)) \in Nat /\ Cardinality(SlowTimes(m.times)) \in Nat
  BY <1>1, <1>2, SlowTimesFinite
<1> HIDE DEF kept
<1>5. /\ Len(kept) \in Nat /\ Len(next) = Len(kept) + 1 /\ next[Len(kept) + 1] = slow
      /\ \A i \in 1..Len(kept) : next[i] = kept[i]
  BY <1>2
<1> HIDE DEF next
<1>6. SlowTimes(next) = IF slow THEN SlowTimes(kept) \cup {Len(kept) + 1} ELSE SlowTimes(kept)
  BY <1>5 DEF SlowTimes
<1>7. Cardinality(SlowTimes(kept) \cup {Len(kept) + 1}) <= Cardinality(SlowTimes(kept)) + 1
  <2>1. Cardinality(SlowTimes(kept) \cup {Len(kept) + 1})
          \in {Cardinality(SlowTimes(kept)), Cardinality(SlowTimes(kept)) + 1}
    BY <1>4, FS_AddElement
  <2> QED
    BY <1>4, <2>1
<1>8. /\ Cardinality(SlowTimes(next)) <= Cardinality(SlowTimes(m.times)) + 1
      /\ ~slow => Cardinality(SlowTimes(next)) <= Cardinality(SlowTimes(m.times))
  BY <1>3, <1>4, <1>6, <1>7
<1> QED
  BY <1>1, <1>4, <1>8, RecordedTyped

Failures == Cardinality(TimedOut) + escapes + Cardinality(Troubled \cap Done)

Slowness == Cardinality(TimedOut) + Cardinality(TimedOut \cap Done)

Slow == Cardinality(SlowTimes(metrics.times))

\* The timer answers only who has no answer.
CountsInv ==
    /\ metrics.failed <= Failures /\ Slow <= Slowness
    /\ \A r \in Requests : reqs[r].timedOut => reqs[r].sent

\* What happened to a request has happened for good, and what happens to one of
\* them for the first time makes room for one more count.
LEMMA Happened ==
    ASSUME GatewayTypeOK, escapes' \in Nat, escapes <= escapes',
           \A q \in Requests :
              /\ reqs[q].timedOut => reqs'[q].timedOut
              /\ reqs[q].pc = "done" => reqs'[q].pc = "done"
              /\ reqs[q].pc = "done" /\ q \in Troubled => q \in Troubled'
    PROVE  /\ Failures \in Nat /\ Failures' \in Nat /\ Failures <= Failures'
           /\ Slowness \in Nat /\ Slowness' \in Nat /\ Slowness <= Slowness'
           /\ escapes' = escapes + 1 => Failures + 1 <= Failures'
           /\ \A r \in Requests :
                 /\ reqs'[r].timedOut /\ ~reqs[r].timedOut
                    => Failures + 1 <= Failures' /\ Slowness + 1 <= Slowness'
                 /\ reqs'[r].pc = "done" /\ reqs[r].pc # "done"
                    => /\ r \in Troubled' => Failures + 1 <= Failures'
                       /\ reqs'[r].timedOut => Slowness + 1 <= Slowness'
<1> DEFINE L == Troubled \cap Done
           M == TimedOut \cap Done
<1>0. escapes \in Nat
  BY DEF GatewayTypeOK
<1>1. /\ TimedOut \in SUBSET Requests /\ TimedOut' \in SUBSET Requests /\ TimedOut \subseteq TimedOut'
      /\ L \in SUBSET Requests /\ L' \in SUBSET Requests /\ L \subseteq L'
      /\ M \in SUBSET Requests /\ M' \in SUBSET Requests /\ M \subseteq M'
  <2>1. Troubled \in SUBSET Requests /\ Troubled' \in SUBSET Requests
    BY DEF Troubled
  <2> QED
    BY <2>1 DEF TimedOut, Done
<1>3. /\ Cardinality(TimedOut) \in Nat /\ Cardinality(TimedOut') \in Nat
      /\ Cardinality(TimedOut) <= Cardinality(TimedOut')
      /\ \A r \in TimedOut' : r \notin TimedOut =>
            Cardinality(TimedOut) + 1 <= Cardinality(TimedOut')
  BY <1>1, Larger
<1>5. /\ Cardinality(L) \in Nat /\ Cardinality(L') \in Nat /\ Cardinality(L) <= Cardinality(L')
      /\ \A r \in L' : r \notin L => Cardinality(L) + 1 <= Cardinality(L')
  BY <1>1, Larger
<1>6. /\ Cardinality(M) \in Nat /\ Cardinality(M') \in Nat /\ Cardinality(M) <= Cardinality(M')
      /\ \A r \in M' : r \notin M => Cardinality(M) + 1 <= Cardinality(M')
  BY <1>1, Larger
<1>7. /\ Failures = Cardinality(TimedOut) + escapes + Cardinality(L)
      /\ Failures' = Cardinality(TimedOut') + escapes' + Cardinality(L')
      /\ Slowness = Cardinality(TimedOut) + Cardinality(M)
      /\ Slowness' = Cardinality(TimedOut') + Cardinality(M')
  BY DEF Failures, Slowness
<1>8. \A r \in Requests :
          /\ (r \in TimedOut <=> reqs[r].timedOut)
          /\ (r \in TimedOut' <=> reqs'[r].timedOut)
          /\ (r \in L => reqs[r].pc = "done")
          /\ (r \in L' <=> r \in Troubled' /\ reqs'[r].pc = "done")
          /\ (r \in M => reqs[r].pc = "done")
          /\ (r \in M' <=> reqs'[r].timedOut /\ reqs'[r].pc = "done")
  BY DEF TimedOut, Done
<1> HIDE DEF L, M
<1>9. /\ Failures \in Nat /\ Failures' \in Nat /\ Failures <= Failures'
      /\ Slowness \in Nat /\ Slowness' \in Nat /\ Slowness <= Slowness'
      /\ escapes' = escapes + 1 => Failures + 1 <= Failures'
  BY <1>0, <1>3, <1>5, <1>6, <1>7
<1>10. ASSUME NEW r \in Requests, reqs'[r].timedOut /\ ~reqs[r].timedOut
       PROVE  Failures + 1 <= Failures' /\ Slowness + 1 <= Slowness'
  <2>1. Cardinality(TimedOut) + 1 <= Cardinality(TimedOut')
    BY <1>3, <1>8, <1>10
  <2> QED
    BY <1>0, <1>3, <1>5, <1>6, <1>7, <2>1
<1>11. ASSUME NEW r \in Requests, reqs'[r].pc = "done" /\ reqs[r].pc # "done"
       PROVE  /\ r \in Troubled' => Failures + 1 <= Failures'
              /\ reqs'[r].timedOut => Slowness + 1 <= Slowness'
  <2>1. r \in Troubled' => Cardinality(L) + 1 <= Cardinality(L')
    BY <1>5, <1>8, <1>11
  <2>2. reqs'[r].timedOut => Cardinality(M) + 1 <= Cardinality(M')
    BY <1>6, <1>8, <1>11
  <2> QED
    BY <1>0, <1>3, <1>5, <1>6, <1>7, <2>1, <2>2
<1> QED
  BY <1>9, <1>10, <1>11

LEMMA CountsTyped ==
    ASSUME GatewayTypeOK
    PROVE  metrics.failed \in Nat /\ Slow \in Nat
<1>1. metrics \in Metrics
  BY DEF GatewayTypeOK
<1> QED
  BY <1>1, SlowTimesFinite DEF Metrics, Slow

LEMMA CountsAdd ==
    ASSUME GatewayTypeOK, NEW code, NEW slow \in BOOLEAN,
           metrics' = Recorded(metrics, code, slow)
    PROVE  /\ metrics'.failed \in {metrics.failed, metrics.failed + 1}
           /\ Success(code) => metrics'.failed = metrics.failed
           /\ Slow' \in Nat /\ Slow' <= Slow + 1
           /\ ~slow => Slow' <= Slow
<1>1. metrics \in Metrics
  BY DEF GatewayTypeOK
<1> QED
  BY <1>1, RecordedAdds DEF Slow

\* A request is answered for good: a failure or a long time is counted only of one
\* that is in trouble.
LEMMA CountedDone ==
    ASSUME GatewayInv, CountsInv, NEW r \in Requests, Ends(r)
    PROVE  CountsInv'
<1>0. GatewayTypeOK /\ reqs[r] \in Request /\ escapes \in Nat
  BY DEF GatewayInv, GatewayTypeOK
<1>1. reqs[r].pc # "done" /\ Counts(r) /\ escapes' = escapes
  BY EndsShape
<1>2. PICK code \in Codes :
          reqs' = [reqs EXCEPT ![r] = [Answered(r, code) EXCEPT !.pc = "done"]]
  BY EndsShape
<1>3. /\ reqs'[r].pc = "done" /\ reqs'[r].sent
      /\ reqs'[r].timedOut = reqs[r].timedOut /\ reqs'[r].crashed = reqs[r].crashed
      /\ \A q \in Requests : q # r => reqs'[q] = reqs[q]
  BY <1>0, <1>2, DoneTyped
<1>4. \A q \in Requests :
          /\ reqs[q].timedOut => reqs'[q].timedOut
          /\ reqs[q].pc = "done" => reqs'[q].pc = "done"
          /\ reqs[q].pc = "done" /\ q \in Troubled => q \in Troubled'
  BY <1>1, <1>3, TroubledIs
<1>5. /\ Failures \in Nat /\ Failures' \in Nat /\ Failures <= Failures'
      /\ Slowness \in Nat /\ Slowness' \in Nat /\ Slowness <= Slowness'
      /\ r \in Troubled' => Failures + 1 <= Failures'
      /\ reqs[r].timedOut => Slowness + 1 <= Slowness'
  <2>1. escapes' \in Nat /\ escapes <= escapes'
    BY <1>0, <1>1
  <2> QED
    BY <1>0, <1>1, <1>3, <1>4, <2>1, Happened
<1>6. metrics'.failed <= Failures' /\ Slow' <= Slowness'
  <2>0. metrics.failed \in Nat /\ Slow \in Nat /\ metrics.failed <= Failures /\ Slow <= Slowness
    BY <1>0, CountsTyped DEF CountsInv
  <2>1. CASE UNCHANGED metrics
    <3>1. Slow' = Slow
      BY <2>1 DEF Slow
    <3> QED
      BY <1>5, <2>0, <2>1, <3>1
  <2>2. ASSUME NEW c \in Codes, metrics' = Recorded(metrics, c, reqs[r].timedOut),
               ~Success(c) => r \in Troubled'
        PROVE  metrics'.failed <= Failures' /\ Slow' <= Slowness'
    <3>1. reqs[r].timedOut \in BOOLEAN
      BY <1>0 DEF Request
    <3>2. /\ metrics'.failed \in {metrics.failed, metrics.failed + 1}
          /\ Success(c) => metrics'.failed = metrics.failed
          /\ Slow' \in Nat /\ Slow' <= Slow + 1
          /\ ~reqs[r].timedOut => Slow' <= Slow
      BY <1>0, <2>2, <3>1, CountsAdd
    <3> QED
      BY <1>5, <2>0, <2>2, <3>2
  <2> QED
    BY <1>1, <2>1, <2>2 DEF Counts
<1>7. \A q \in Requests : reqs'[q].timedOut => reqs'[q].sent
  BY <1>3 DEF CountsInv
<1> QED
  BY <1>6, <1>7 DEF CountsInv

\* A request runs into the timer, for the first time, or an error escapes.
LEMMA CountedBlamed ==
    ASSUME GatewayInv, CountsInv, NEW r \in Requests,
           HandleTimeout(r) \/ HandleUncaughtError(r)
    PROVE  CountsInv'
<1>0. 408 \in Codes /\ 500 \in Codes /\ GatewayTypeOK /\ escapes \in Nat
  BY DEF Codes, GatewayInv, GatewayTypeOK
<1>1. PICK code \in Codes, slow \in BOOLEAN :
        /\ metrics' = Recorded(metrics, code, slow)
        /\ reqs'[r].sent /\ reqs'[r].pc = reqs[r].pc
        /\ \A q \in Requests : q # r => reqs'[q] = reqs[q]
        /\ \/ ~reqs[r].timedOut /\ reqs'[r].timedOut /\ escapes' = escapes
           \/ /\ reqs'[r].crashed /\ ~slow /\ escapes' = escapes + 1
              /\ reqs'[r].timedOut = reqs[r].timedOut
  <2>1. CASE HandleTimeout(r)
    <3> DEFINE late == [Answered(r, 408) EXCEPT !.timedOut = TRUE]
    <3>1. reqs[r] \in Request /\ ~reqs[r].sent /\ ~reqs[r].timedOut
      BY <1>0, <2>1 DEF HandleTimeout, CountsInv, GatewayTypeOK
    <3>2. PICK a \in Request : a = Answered(r, 408) /\ a.sent = TRUE /\ a.pc = reqs[r].pc
      <4>1. Answered(r, 408) \in Request /\ Answered(r, 408).pc = reqs[r].pc
        BY <1>0, AnsweredTyped
      <4>2. Answered(r, 408).sent = TRUE
        BY ZenonT(60), <1>0, AnsweredSent
      <4> QED
        BY <4>1, <4>2
    <3>3. late.sent = TRUE /\ late.timedOut = TRUE /\ late.pc = reqs[r].pc
      BY <3>2 DEF Request
    <3>4. /\ reqs' = [reqs EXCEPT ![r] = late] /\ metrics' = Recorded(metrics, 408, TRUE)
          /\ escapes' = escapes
      BY <2>1 DEF HandleTimeout
    <3> HIDE DEF late
    <3>5. reqs'[r] = late /\ \A q \in Requests : q # r => reqs'[q] = reqs[q]
      BY <1>0, <3>4 DEF GatewayTypeOK
    <3> QED
      BY ZenonT(60), <1>0, <3>1, <3>3, <3>4, <3>5
  <2>2. CASE HandleUncaughtError(r)
    <3> DEFINE crash == [Answered(r, 500) EXCEPT !.crashed = TRUE]
    <3>2. PICK a \in Request : /\ a = Answered(r, 500) /\ a.sent = TRUE /\ a.pc = reqs[r].pc
                               /\ a.timedOut = reqs[r].timedOut
      <4>1. /\ Answered(r, 500) \in Request /\ Answered(r, 500).pc = reqs[r].pc
            /\ Answered(r, 500).timedOut = reqs[r].timedOut
        BY <1>0, AnsweredTyped
      <4>2. Answered(r, 500).sent = TRUE
        BY ZenonT(60), <1>0, AnsweredSent
      <4> QED
        BY <4>1, <4>2
    <3>3. /\ crash.sent = TRUE /\ crash.crashed = TRUE
          /\ crash.pc = reqs[r].pc /\ crash.timedOut = reqs[r].timedOut
      BY <3>2 DEF Request
    <3>4. /\ reqs' = [reqs EXCEPT ![r] = crash] /\ metrics' = Recorded(metrics, 500, FALSE)
          /\ escapes' = escapes + 1
      BY <2>2 DEF HandleUncaughtError
    <3> HIDE DEF crash
    <3>5. reqs'[r] = crash /\ \A q \in Requests : q # r => reqs'[q] = reqs[q]
      BY <1>0, <3>4 DEF GatewayTypeOK
    <3> QED
      BY ZenonT(60), <1>0, <3>3, <3>4, <3>5
  <2> QED
    BY <2>1, <2>2
<1>2. \A q \in Requests :
          /\ reqs[q].timedOut => reqs'[q].timedOut
          /\ reqs[q].pc = "done" => reqs'[q].pc = "done"
          /\ reqs[q].pc = "done" /\ q \in Troubled => q \in Troubled'
  BY <1>1, TroubledIs
<1>3. /\ Failures \in Nat /\ Failures' \in Nat /\ Failures + 1 <= Failures'
      /\ Slowness \in Nat /\ Slowness' \in Nat /\ Slowness <= Slowness'
      /\ slow => Slowness + 1 <= Slowness'
  <2>1. escapes' \in Nat /\ escapes <= escapes'
    BY <1>0, <1>1
  <2>2. /\ Failures \in Nat /\ Failures' \in Nat /\ Failures <= Failures'
        /\ Slowness \in Nat /\ Slowness' \in Nat /\ Slowness <= Slowness'
        /\ escapes' = escapes + 1 => Failures + 1 <= Failures'
        /\ reqs'[r].timedOut /\ ~reqs[r].timedOut
             => Failures + 1 <= Failures' /\ Slowness + 1 <= Slowness'
    BY <1>0, <1>2, <2>1, Happened
  <2> QED
    BY <1>1, <2>2
<1>4. /\ metrics.failed \in Nat /\ Slow \in Nat /\ metrics.failed <= Failures /\ Slow <= Slowness
      /\ metrics'.failed \in {metrics.failed, metrics.failed + 1}
      /\ Slow' \in Nat /\ Slow' <= Slow + 1 /\ (~slow => Slow' <= Slow)
  <2>1. metrics.failed \in Nat /\ Slow \in Nat /\ metrics.failed <= Failures /\ Slow <= Slowness
    BY <1>0, CountsTyped DEF CountsInv
  <2>2. /\ metrics'.failed \in {metrics.failed, metrics.failed + 1}
        /\ Slow' \in Nat /\ Slow' <= Slow + 1 /\ (~slow => Slow' <= Slow)
    BY <1>0, <1>1, CountsAdd
  <2> QED
    BY <2>1, <2>2
<1>5. metrics'.failed <= Failures' /\ Slow' <= Slowness'
  BY <1>3, <1>4
<1>6. \A q \in Requests : reqs'[q].timedOut => reqs'[q].sent
  BY <1>1 DEF CountsInv
<1> QED
  BY <1>5, <1>6 DEF CountsInv

\* What happened stays, and nothing more is counted.
LEMMA CountedOn ==
    ASSUME GatewayInv, CountsInv, metrics' \in {metrics, NoMetrics}, escapes' = escapes,
           \A q \in Requests :
              \/ reqs'[q] = reqs[q]
              \/ /\ reqs[q].pc # "done" /\ reqs'[q].timedOut = reqs[q].timedOut
                 /\ reqs'[q].sent = reqs[q].sent
    PROVE  CountsInv'
<1>0. GatewayTypeOK /\ escapes \in Nat
  BY DEF GatewayInv, GatewayTypeOK
<1>1. \A q \in Requests :
          /\ reqs[q].timedOut => reqs'[q].timedOut
          /\ reqs[q].pc = "done" => reqs'[q].pc = "done"
          /\ reqs[q].pc = "done" /\ q \in Troubled => q \in Troubled'
  BY TroubledIs
<1>2. /\ Failures \in Nat /\ Failures' \in Nat /\ Failures <= Failures'
      /\ Slowness \in Nat /\ Slowness' \in Nat /\ Slowness <= Slowness'
  <2>1. escapes' \in Nat /\ escapes <= escapes'
    BY <1>0
  <2> QED
    BY <1>0, <1>1, <2>1, Happened
<1>3. metrics.failed \in Nat /\ Slow \in Nat /\ metrics.failed <= Failures /\ Slow <= Slowness
  BY <1>0, CountsTyped DEF CountsInv
<1>4. metrics'.failed <= Failures' /\ Slow' <= Slowness'
  <2>1. CASE metrics' = metrics
    <3>1. Slow' = Slow
      BY <2>1 DEF Slow
    <3> QED
      BY <1>2, <1>3, <2>1, <3>1
  <2>2. CASE metrics' = NoMetrics
    <3>1. SlowTimes(<<>>) = {}
      BY DEF SlowTimes
    <3>2. metrics'.failed = 0 /\ Slow' = 0
      BY <2>2, <3>1, FS_EmptySet DEF NoMetrics, Slow
    <3> QED
      BY <1>2, <3>2
  <2> QED
    BY <2>1, <2>2
<1>5. \A q \in Requests : reqs'[q].timedOut => reqs'[q].sent
  BY DEF CountsInv
<1> QED
  BY <1>4, <1>5 DEF CountsInv

LEMMA CountsStep == OperationsInv /\ CountsInv /\ [Next]_vars => CountsInv'
<1> SUFFICES ASSUME OperationsInv, CountsInv, [Next]_vars PROVE CountsInv'
  OBVIOUS
<1>0. GatewayInv /\ GatewayTypeOK
  BY DEF OperationsInv, GatewayInv
<1>1. ASSUME NEW r \in Requests, Ends(r) PROVE CountsInv'
  BY <1>0, <1>1, CountedDone
<1>3. ASSUME NEW r \in Requests, Enter(r) \/ GuardAdmits(r)
      PROVE  CountsInv'
  <2> DEFINE in == [reqs[r] EXCEPT !.pc = "guard"]
             code == IF reqs[r].kind.created THEN 201 ELSE 200
             on == [reqs[r] EXCEPT !.pc = "handle", !.code = code]
  <2>1. reqs[r] \in Request /\ reqs[r].pc # "done"
    BY <1>0, <1>3 DEF GatewayTypeOK, Enter, GuardAdmits
  <2>2. \A new \in {in, on} : new.timedOut = reqs[r].timedOut /\ new.sent = reqs[r].sent
    <3> HIDE DEF code
    <3> QED
      BY <2>1 DEF Request
  <2>3. reqs' = [reqs EXCEPT ![r] = in] \/ reqs' = [reqs EXCEPT ![r] = on]
    BY ZenonT(60), <1>0, <1>3, <2>1 DEF Enter, GuardAdmits, GatewayTypeOK
  <2>4. UNCHANGED <<metrics, escapes>>
    BY <1>3 DEF Enter, GuardAdmits
  <2> HIDE DEF in, on
  <2>5. /\ reqs'[r].timedOut = reqs[r].timedOut /\ reqs'[r].sent = reqs[r].sent
        /\ \A q \in Requests : q # r => reqs'[q] = reqs[q]
    BY <1>0, <2>2, <2>3 DEF GatewayTypeOK
  <2> QED
    BY <1>0, <2>1, <2>4, <2>5, CountedOn
<1>4. ASSUME NEW r \in Requests, HandleTimeout(r) \/ HandleUncaughtError(r)
      PROVE  CountsInv'
  BY <1>0, <1>4, CountedBlamed
<1>5. CASE \E l \in Limiters : CountElsewhere(l) \/ NewWindow(l)
  BY <1>0, <1>5, CountedOn DEF CountElsewhere, NewWindow
<1>6. CASE UNCHANGED gatewayVars
  BY <1>0, <1>6, CountedOn DEF gatewayVars
<1>7. CASE ResetMetrics
  BY <1>0, <1>7, CountedOn DEF ResetMetrics
<1>8. CASE \E p \in Passes : CollectAndAnalyze(p)
  BY <1>6, <1>8 DEF CollectAndAnalyze
<1> QED
  BY <1>1, <1>3, <1>4, <1>5, <1>6, <1>7, <1>8 DEF Next, GatewayNext, Ends, vars

\* Of the failures that were counted, the timer, the errors that escaped and the
\* requests in trouble that have ended explain every one.
THEOREM CountsTheorem == Spec => []CountsExplained
<1>1. Init => CountsInv
  <2> SUFFICES ASSUME Init PROVE CountsInv
    OBVIOUS
  <2>1. \A r \in Requests : ~reqs[r].timedOut /\ reqs[r].pc # "done"
    BY DEF Init, GatewayInit, NewRequest
  <2>2. TimedOut = {} /\ Troubled \cap Done = {} /\ TimedOut \cap Done = {}
    BY <2>1 DEF TimedOut, Done
  <2>3. Cardinality({}) = 0 /\ SlowTimes(<<>>) = {}
    BY FS_EmptySet DEF SlowTimes
  <2>4. metrics.failed = 0 /\ metrics.times = <<>> /\ escapes = 0
    BY DEF Init, GatewayInit, NoMetrics
  <2>5. Failures = 0 /\ Slowness = 0 /\ Slow = 0
    <3>1. Cardinality(TimedOut) = 0 /\ Cardinality(Troubled \cap Done) = 0
          /\ Cardinality(TimedOut \cap Done) = 0 /\ Slow = 0
      BY <2>2, <2>3, <2>4 DEF Slow
    <3> QED
      BY <2>4, <3>1 DEF Failures, Slowness
  <2> QED
    BY <2>1, <2>4, <2>5 DEF CountsInv
<1>2. CountsInv => CountsExplained
  BY DEF CountsInv, CountsExplained, Failures, Slowness, Slow
<1> QED
  BY <1>1, <1>2, OperationsInit, OperationsStep, CountsStep, PTL DEF Spec
=============================================================================
