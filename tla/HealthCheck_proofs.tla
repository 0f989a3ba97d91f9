------------------------- MODULE HealthCheck_proofs -------------------------
(***************************************************************************)
(* The health check never blames a provider for the schedule, for every    *)
(* interval, window, step, lead and backoff, as long as no step of the     *)
(* loop takes longer than HealthAssumption allows.                         *)
(***************************************************************************)
EXTENDS HealthCheck, BurstSchedule_proofs

\* The longest wait between a poll that succeeded and the next boundary.
Gap == Interval - Window + MaxDelay

\* How far the clock may be from the last success: while nothing went wrong, a
\* burst that has polled has just succeeded, the boundary after it is less than
\* a Gap away, and the next burst has begun in time for it.
FreshInv ==
    ~excused =>
        /\ now <= latest + Gap + MaxDelay
        /\ mode = "polling" /\ offset > 0 => now <= latest + MaxDelay
        /\ mode = "polling" /\ offset = 0 => boundary <= latest + Gap
        /\ mode = "waiting" => now <= latest + MaxDelay /\ boundary <= latest + Gap

HInv == HealthTypeOK /\ IInv /\ FreshInv

-----------------------------------------------------------------------------
LEMMA Numbers ==
    /\ Interval \in Int /\ Window \in Int /\ Step \in Int /\ Lead \in Int
    /\ MaxDelay \in Int /\ Backoff \in Int /\ Gap \in Int
    /\ Interval > Window /\ Window = 3 * Step /\ Step > 0 /\ Lead >= 0 /\ MaxDelay >= 0
    /\ Gap = Interval - Window + MaxDelay
    /\ Gap + 2 * MaxDelay <= 2 * Interval
BY ScheduleAssumption, HealthAssumption DEF Gap

LEMMA IntervalInt == Interval \in Int
BY ScheduleAssumption

LEMMA GapInt == Gap \in Int /\ Gap >= 0 /\ MaxDelay \in Int /\ MaxDelay >= 0
BY ScheduleAssumption DEF Gap

\* A sleep and the work after it end at most MaxDelay late.
LEMMA ReachSoon ==
    ASSUME NEW t \in Int, now \in Int, Reach(t)
    PROVE  /\ now' \in Int /\ Later(t) \in Int
           /\ now <= Later(t) /\ t <= Later(t)
           /\ Later(t) = now \/ Later(t) = t
           /\ Later(t) <= now' /\ now' <= Later(t) + MaxDelay
BY ScheduleAssumption DEF Reach, Later

\* The next regular boundary is no further away than the interval without the
\* window.
LEMMA RegularBoundarySoon ==
    ASSUME NEW t \in Int
    PROVE  RegularBoundary(t) <= t + Interval - Window
BY Numbers, TruncateBounds DEF RegularBoundary

\* The health check only observes: what it adds to a step disturbs no schedule.
LEMMA HealthStep == [HealthNext]_hvars => [Next]_vars
BY DEF HealthNext, hvars, SaveTargetState, ListTargets, ListingFails, Poll, BurstOver,
       StopPolling, Next, RunBurstAttempt

\* What holds of the schedule holds of the schedule with its health check.
THEOREM HealthImplementsSchedule == HealthSpec => Spec
<1>1. HealthInit => Init
  BY DEF HealthInit
<1> QED  BY <1>1, HealthStep, PTL DEF HealthSpec, Spec

LEMMA IInvStep == IInv /\ [Next]_vars => IInv'
BY BeginBurstStep, ListFailsStep, AttemptStep, EndBurstStep, RestStep
   DEF Next, RunBurstAttempt

LEMMA HealthInitially == HealthInit => HInv
<1> SUFFICES ASSUME HealthInit PROVE HInv
  OBVIOUS
<1>1. IInv
  BY Initially DEF HealthInit
<1>2. now \in 0..(Interval - 1)
  BY DEF HealthInit, Init
<1>3. HealthTypeOK
  <2>1. TypeOK
    BY <1>1 DEF IInv
  <2>2. Never \in Int /\ Never <= now
    BY <1>2, Numbers DEF Never
  <2> QED  BY <2>1, <2>2 DEF HealthInit, HealthTypeOK
<1>4. FreshInv
  BY DEF HealthInit, FreshInv
<1> QED  BY <1>1, <1>3, <1>4 DEF HInv

-----------------------------------------------------------------------------
(* Each step: it is answered as healthy to its end, and keeps the invariant. *)

LEMMA ListTargetsFresh ==
    ASSUME HInv, ListTargets, TypeOK'
    PROVE  HealthTypeOK' /\ FreshInv' /\ (~excused => now' <= latest + 2 * Interval)
<1>1. /\ now \in Int /\ boundary \in Int /\ latest \in Int /\ latest <= now
      /\ provider \in {"cgv", "megabox"} /\ enabled \in BOOLEAN /\ excused \in BOOLEAN
  BY DEF HInv, HealthTypeOK, TypeOK
<1>2. /\ mode = "waiting" /\ mode' = "polling" /\ offset' = offset
      /\ boundary' = boundary /\ Reach(boundary - Lead)
      /\ listed' = enabled /\ excused' = (excused \/ ~enabled)
      /\ UNCHANGED <<provider, enabled, latest>>
  BY DEF ListTargets, BeginBurst
<1>3. offset = 0
  BY <1>2 DEF HInv, IInv, AttemptsInTime
<1>4. /\ now' \in Int /\ now' >= now
      /\ now' <= now + MaxDelay \/ now' <= boundary - Lead + MaxDelay
  BY <1>1, <1>2, Numbers, ReachSoon
<1>5. HealthTypeOK'
  BY <1>1, <1>2, <1>4 DEF HealthTypeOK
<1>6. ASSUME ~excused
      PROVE  now' <= latest + Gap + MaxDelay /\ boundary <= latest + Gap
  <2>1. now <= latest + MaxDelay /\ boundary <= latest + Gap
    BY <1>2, <1>6 DEF HInv, FreshInv
  <2> QED  BY <1>1, <1>4, <2>1, Numbers
<1>7. FreshInv'
  <2>1. ~excused' => ~excused
    BY <1>2, Zenon
  <2> QED  BY <1>2, <1>3, <1>6, <2>1 DEF FreshInv
<1> QED  BY <1>1, <1>4, <1>5, <1>6, <1>7, Numbers

LEMMA ListingFailsFresh ==
    ASSUME HInv, ListingFails, TypeOK'
    PROVE  HealthTypeOK' /\ FreshInv' /\ (~excused => now' <= latest + 2 * Interval)
<1>1. /\ now \in Int /\ boundary \in Int /\ latest \in Int /\ latest <= now
      /\ provider \in {"cgv", "megabox"} /\ enabled \in BOOLEAN /\ listed \in BOOLEAN
  BY DEF HInv, HealthTypeOK, TypeOK
<1>2. /\ mode = "waiting" /\ Reach(boundary - Lead) /\ excused' = TRUE
      /\ UNCHANGED <<provider, enabled, listed, latest>>
  BY DEF ListingFails, ListTargetStatesFails
<1>3. /\ now' \in Int /\ now' >= now
      /\ now' <= now + MaxDelay \/ now' <= boundary - Lead + MaxDelay
  BY <1>1, <1>2, Numbers, ReachSoon
<1>4. HealthTypeOK'
  BY <1>1, <1>2, <1>3 DEF HealthTypeOK
<1>5. FreshInv'
  BY <1>2 DEF FreshInv
<1>6. ASSUME ~excused
      PROVE  now' <= latest + 2 * Interval
  <2>1. now <= latest + MaxDelay /\ boundary <= latest + Gap
    BY <1>2, <1>6 DEF HInv, FreshInv
  <2> QED  BY <1>1, <1>3, <2>1, Numbers
<1> QED  BY <1>4, <1>5, <1>6

LEMMA PollFresh ==
    ASSUME HInv, Poll, TypeOK'
    PROVE  HealthTypeOK' /\ FreshInv' /\ (~excused => now' <= latest + 2 * Interval)
<1> DEFINE due == boundary + offset
<1>1. /\ now \in Int /\ boundary \in Int /\ latest \in Int /\ latest <= now
      /\ provider \in {"cgv", "megabox"} /\ enabled \in BOOLEAN /\ listed \in BOOLEAN
      /\ offset \in {0, Step, 2 * Step, Window, Window + Step}
  BY DEF HInv, HealthTypeOK, TypeOK
<1>2. PICK error \in BOOLEAN, outcome \in Outcomes :
        /\ Attempt(error)
        /\ IF outcome = "succeeded" THEN latest' \in Later(due)..now'
           ELSE UNCHANGED latest
        /\ excused' = (outcome # "succeeded")
        /\ UNCHANGED <<provider, enabled, listed>>
  BY DEF Poll
<1>3. /\ mode = "polling" /\ mode' = "polling" /\ offset' = offset + Step
      /\ boundary' = boundary /\ Reach(due)
  BY <1>2 DEF Attempt
<1>4. due \in Int /\ offset >= 0
  BY <1>1, Numbers
<1>5. /\ now' \in Int /\ Later(due) \in Int
      /\ now <= Later(due)
      /\ Later(due) = now \/ Later(due) = due
      /\ Later(due) <= now' /\ now' <= Later(due) + MaxDelay
  BY <1>1, <1>3, <1>4, ReachSoon
<1> DEFINE n == now'
           l == latest'
<1>6. /\ l \in Int /\ l <= n
      /\ outcome = "succeeded" => n <= l + MaxDelay
  <2>1. CASE outcome = "succeeded"
    <3>1. latest' \in Later(due)..now'
      BY <1>2, <2>1
    <3>2. l \in Int /\ l <= n /\ Later(due) <= l
      BY <1>5, <3>1
    <3>3. n \in Int /\ Later(due) \in Int /\ n <= Later(due) + MaxDelay
      BY <1>5
    <3> HIDE DEF n, l, due
    <3>4. n <= l + MaxDelay
      BY <3>2, <3>3, GapInt
    <3> QED  BY <3>2, <3>4
  <2>2. CASE outcome # "succeeded"
    <3>1. latest' = latest
      BY <1>2, <2>2
    <3>2. n \in Int /\ now <= n
      <4>1. n \in Int /\ Later(due) \in Int /\ now <= Later(due) /\ Later(due) <= n
        BY <1>5
      <4> HIDE DEF n, due
      <4> QED  BY <1>1, <4>1
    <3>3. l = latest
      BY <3>1
    <3> HIDE DEF n, l
    <3>4. l \in Int /\ l <= n
      BY <1>1, <3>2, <3>3
    <3> QED  BY <2>2, <3>4
  <2> QED  BY <2>1, <2>2
<1>7. HealthTypeOK'
  BY <1>1, <1>2, <1>6 DEF HealthTypeOK
<1>8. ~excused' => now' <= latest' + MaxDelay
  <2>1. ~excused' => outcome = "succeeded"
    BY <1>2, Zenon
  <2> QED  BY <1>6, <2>1
<1>9. FreshInv'
  <2>1. offset' > 0
    BY <1>3, <1>4, <1>1, Numbers
  <2>2. n <= l + MaxDelay => n <= l + Gap + MaxDelay
    <3>1. n \in Int /\ l \in Int
      BY <1>5, <1>6
    <3> HIDE DEF n, l
    <3> QED  BY <3>1, GapInt
  <2> QED  BY <1>3, <1>8, <2>1, <2>2 DEF FreshInv
<1>10. ASSUME ~excused
       PROVE  now' <= latest + 2 * Interval
  <2>1. CASE offset = 0
    <3>1. boundary <= latest + Gap /\ now <= latest + Gap + MaxDelay
      BY <1>3, <1>10, <2>1 DEF HInv, FreshInv
    <3>2. Later(due) <= latest + Gap + MaxDelay
      BY <1>1, <1>5, <2>1, <3>1, Numbers
    <3> QED  BY <1>1, <1>5, <3>2, Numbers
  <2>2. CASE offset > 0
    <3>1. now <= latest + MaxDelay /\ now >= boundary + offset - Step
      BY <1>3, <1>10, <2>2 DEF HInv, FreshInv, IInv, AttemptsInTime
    <3>2. Later(due) <= latest + MaxDelay + Step
      BY <1>1, <1>4, <1>5, <3>1, Numbers
    <3> QED  BY <1>1, <1>5, <3>2, Numbers
  <2> QED  BY <1>4, <2>1, <2>2, Numbers, <1>1
<1> QED  BY <1>7, <1>9, <1>10

LEMMA BurstOverFresh ==
    ASSUME HInv, BurstOver, TypeOK'
    PROVE  HealthTypeOK' /\ FreshInv' /\ (~excused => now' <= latest + 2 * Interval)
<1>1. /\ now \in Int /\ boundary \in Int /\ latest \in Int /\ latest <= now
      /\ provider \in {"cgv", "megabox"} /\ enabled \in BOOLEAN /\ listed \in BOOLEAN
      /\ offset \in {0, Step, 2 * Step, Window, Window + Step}
      /\ excused \in BOOLEAN /\ megabox \in BOOLEAN
  BY DEF HInv, HealthTypeOK, TypeOK
<1>2. /\ mode = "polling" /\ ~(offset <= Window) /\ now' = now
      /\ excused' = (excused \/ megabox)
      /\ UNCHANGED <<provider, enabled, listed, latest>>
      /\ mode' = "waiting" /\ boundary' = NextBurstBoundary(now, megabox)
  BY DEF BurstOver, EndBurst, MoreOffsets, Finish
<1>3. HealthTypeOK'
  BY <1>1, <1>2 DEF HealthTypeOK
<1>4. ASSUME ~excused
      PROVE  now <= latest + MaxDelay
  BY <1>1, <1>2, <1>4, Numbers DEF HInv, FreshInv
<1>5. ASSUME ~megabox
      PROVE  boundary' \in Int /\ boundary' <= now + Interval - Window
  BY <1>1, <1>2, <1>5, RegularBoundaryLater, RegularBoundarySoon DEF NextBurstBoundary
<1>6. FreshInv'
  <2> SUFFICES ASSUME ~excused, ~megabox
               PROVE  /\ now <= latest + Gap + MaxDelay
                      /\ now <= latest + MaxDelay /\ boundary' <= latest + Gap
    BY <1>1, <1>2 DEF FreshInv
  <2> QED  BY <1>1, <1>4, <1>5, Numbers
<1> QED  BY <1>1, <1>2, <1>3, <1>4, <1>6, Numbers

LEMMA RestFresh ==
    ASSUME HInv, SaveTargetState \/ StopPolling \/ UNCHANGED hvars
    PROVE  HealthTypeOK' /\ FreshInv' /\ (~excused => now' <= latest + 2 * Interval)
<1>1. /\ now \in Int /\ latest \in Int /\ now' = now /\ latest' = latest
      /\ excused' = excused
  BY DEF HInv, HealthTypeOK, TypeOK, SaveTargetState, StopPolling, Stop, hvars, vars
<1>2. HealthTypeOK'
  BY DEF HInv, HealthTypeOK, TypeOK, SaveTargetState, StopPolling, Stop, hvars, vars
<1>3. FreshInv'
  BY DEF HInv, FreshInv, SaveTargetState, StopPolling, Stop, hvars, vars
<1>4. ~excused => now <= latest + Gap + MaxDelay
  BY DEF HInv, FreshInv
<1> QED  BY <1>1, <1>2, <1>3, <1>4, Numbers

\* While nothing has gone wrong the last success is less than two intervals
\* old to the end of every step.
LEMMA FreshStep ==
    HInv /\ [HealthNext]_hvars => HInv' /\ (~excused => now' <= latest + 2 * Interval)
<1> SUFFICES ASSUME HInv, [HealthNext]_hvars
             PROVE  HInv' /\ (~excused => now' <= latest + 2 * Interval)
  OBVIOUS
<1>1. IInv'
  BY HealthStep, IInvStep DEF HInv
<1>2. TypeOK'
  BY <1>1 DEF IInv
<1> QED
  BY <1>1, <1>2, ListTargetsFresh, ListingFailsFresh, PollFresh, BurstOverFresh, RestFresh
     DEF HealthNext, HInv

\* The types and the freshness hold in every reachable state.
THEOREM HealthInvariance == HealthSpec => []HInv
BY HealthInitially, FreshStep, PTL DEF HealthSpec

\* Every variable of the health check stays in its type.
THEOREM HealthTypeCorrect == HealthSpec => []HealthTypeOK
BY HealthInvariance, PTL DEF HInv

\* Without a failed or missing poll and without a backoff no provider with an
\* enabled target is ever called stale.
THEOREM NeverBlamedForTheSchedule == HealthSpec => HealthExplained
<1>1. HInv /\ [HealthNext]_hvars => [~excused => Healthy(now')]_hvars
  <2> SUFFICES ASSUME HInv, [HealthNext]_hvars, ~excused
               PROVE  Healthy(now')
    OBVIOUS
  <2>1. now' <= latest + 2 * Interval /\ now' \in Int /\ latest \in Int
    BY FreshStep DEF HInv, HealthTypeOK, TypeOK
  <2>2. latest >= now' - 2 * Interval
    <3> DEFINE n == now'
    <3>1. n <= latest + 2 * Interval /\ n \in Int /\ latest \in Int
      BY <2>1
    <3> HIDE DEF n
    <3>2. latest >= n - 2 * Interval
      BY <3>1, IntervalInt
    <3> QED  BY <3>2 DEF n
  <2> QED  BY <2>2 DEF Healthy, OldestAllowed
<1> QED  BY <1>1, HealthInvariance, PTL DEF HealthSpec, HealthExplained
=============================================================================
