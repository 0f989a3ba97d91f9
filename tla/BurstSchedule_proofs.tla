------------------------ MODULE BurstSchedule_proofs ------------------------
(***************************************************************************)
(* The schedule for every interval, window, backoff and every delay: bursts *)
(* advance, and a backoff is kept.  Both need to know when the attempts of  *)
(* the burst under way were made, and that the joined error tells whether   *)
(* one of its Megabox fetches failed.                                       *)
(***************************************************************************)
EXTENDS BurstSchedule, TLAPS

\* The inductive invariant.  An attempt was made no earlier than at its
\* offset; what the burst returns tells of every failure; the boundary after
\* a failure is the whole backoff away.
AttemptsInTime ==
    /\ mode = "waiting" => offset = 0 /\ ~failed
    /\ mode = "polling" /\ offset > 0 => now >= boundary + offset - Step
ErrorTells == failed = megabox
RetryIsLater == ended.failed => boundary >= ended.at + Backoff

IInv ==
    /\ TypeOK
    /\ AttemptsInTime
    /\ ErrorTells
    /\ BoundariesAdvance
    /\ RetryIsLater

-----------------------------------------------------------------------------
\* Truncate goes back to the last multiple, less than an interval.
LEMMA TruncateBounds ==
    ASSUME NEW t \in Int
    PROVE  /\ Truncate(t) \in Int
           /\ Truncate(t) <= t
           /\ t < Truncate(t) + Interval
<1>1. Interval \in Int /\ Interval > 0
  BY ScheduleAssumption
<1>2. t % Interval \in 0..(Interval - 1)
  BY <1>1
<1> QED  BY <1>1, <1>2 DEF Truncate

\* The next boundary lies after now - Window: a burst whose last attempt has
\* been made is not repeated (nextBurstBoundary's one nanosecond).
LEMMA RegularBoundaryLater ==
    ASSUME NEW t \in Int
    PROVE  /\ BurstBoundary(t) \in Int
           /\ RegularBoundary(t) \in Int
           /\ RegularBoundary(t) > t - Window
<1>1. Interval \in Int /\ Window \in Int /\ Window >= 0 /\ Interval > 0
  BY ScheduleAssumption
<1>2. Truncate(t) \in Int /\ Truncate(t) <= t /\ t < Truncate(t) + Interval
  BY TruncateBounds
<1> QED  BY <1>1, <1>2 DEF RegularBoundary, BurstBoundary

(* Multiples of the interval.                                              *)

LEMMA DivMod ==
    ASSUME NEW d \in Int, d > 0, NEW a \in Int
    PROVE  /\ a \div d \in Int
           /\ a = d * (a \div d) + (a % d)
OBVIOUS

LEMMA ProductMod ==
    ASSUME NEW d \in Int, d > 0, NEW p \in Int
    PROVE  (d * p) % d = 0
OBVIOUS

\* Between two products of d there is a whole d.
LEMMA ProductsApart ==
    ASSUME NEW d \in Int, d > 0, NEW p \in Int, NEW q \in Int, d * p < d * q
    PROVE  d * p <= d * q - d
<1>1. p < q
  <2> SUFFICES ASSUME q <= p PROVE FALSE
    OBVIOUS
  <2> QED  OBVIOUS
<1>2. PICK k \in Nat : q = p + 1 + k
  <2>1. q - p - 1 \in Nat /\ q = p + 1 + (q - p - 1)
    BY <1>1
  <2> QED  BY <2>1
<1>3. d * q = d * p + d + d * k
  BY <1>2
<1>4. d * k >= 0 /\ d * p \in Int /\ d * q \in Int /\ d * k \in Int
  BY <1>2
<1> QED  BY <1>3, <1>4

LEMMA MultiplesApart ==
    ASSUME NEW d \in Int, d > 0, NEW a \in Int, NEW b \in Int,
           a % d = 0, b % d = 0, a < b
    PROVE  a <= b - d
<1>1. a = d * (a \div d) /\ a \div d \in Int
  BY DivMod
<1>2. b = d * (b \div d) /\ b \div d \in Int
  BY DivMod
<1> QED  BY <1>1, <1>2, ProductsApart

\* Truncate gives a multiple, and so is the next boundary after it.
LEMMA TruncateMultiple ==
    ASSUME NEW t \in Int
    PROVE  Truncate(t) % Interval = 0 /\ (Truncate(t) + Interval) % Interval = 0
<1> DEFINE p == t \div Interval
           q == p + 1
<1>1. Interval \in Int /\ Interval > 0
  BY ScheduleAssumption
<1>2. p \in Int /\ q \in Int /\ Truncate(t) = Interval * p
  BY <1>1, DivMod DEF Truncate
<1>3. Truncate(t) + Interval = Interval * q
  BY <1>1, <1>2
<1>4. (Interval * p) % Interval = 0 /\ (Interval * q) % Interval = 0
  BY <1>1, <1>2, ProductMod
<1> QED  BY <1>2, <1>3, <1>4

\* No multiple before the next regular boundary has a window that is still open.
LEMMA RegularBoundaryNext ==
    ASSUME NEW t \in Int, NEW b \in Int, b % Interval = 0, b < RegularBoundary(t)
    PROVE  t >= b + Window
<1>1. Interval \in Int /\ Window \in Int /\ Interval > Window /\ Interval > 0
  BY ScheduleAssumption
<1>2. Truncate(t) \in Int /\ Truncate(t) <= t
  BY TruncateBounds
<1>3. CASE t - Truncate(t) < Window
  <2>1. b < Truncate(t)
    BY <1>3 DEF RegularBoundary
  <2>2. b <= Truncate(t) - Interval
    BY <1>1, <1>2, <2>1, TruncateMultiple, MultiplesApart
  <2> QED  BY <1>1, <1>2, <2>2
<1>4. CASE ~(t - Truncate(t) < Window)
  <2> DEFINE n == Truncate(t) + Interval
  <2>1. n \in Int /\ n % Interval = 0 /\ b < n
    BY <1>1, <1>2, <1>4, TruncateMultiple DEF RegularBoundary
  <2> HIDE DEF n
  <2>2. b <= n - Interval
    BY <1>1, <2>1, MultiplesApart
  <2> QED  BY <1>1, <1>2, <1>4, <2>2 DEF n
<1> QED  BY <1>3, <1>4

\* Sleeping and working take the clock to t at least.
LEMMA ReachBounds ==
    ASSUME NEW t \in Int, now \in Int, Reach(t)
    PROVE  now' \in Int /\ now' >= now /\ now' >= t
BY ScheduleAssumption DEF Reach, Later

\* What a burst leaves behind when it returns at time t: the next boundary is
\* later than its own, by the whole backoff if a fetch failed.
LEMMA FinishStep ==
    ASSUME TypeOK, NEW t \in Int, NEW polled \in BOOLEAN, NEW error \in BOOLEAN,
           Finish(t, polled, error), now' \in Int,
           failed => error, polled => t >= boundary + Window
    PROVE  IInv'
<1>1. /\ Backoff \in Int /\ Backoff > 0
      /\ Window \in Int /\ Window >= 0
  BY ScheduleAssumption
<1>2. boundary \in Int /\ failed \in BOOLEAN
  BY DEF TypeOK
<1>3. /\ boundary' = NextBurstBoundary(t, error)
      /\ ended' = [boundary |-> boundary, at |-> t, polled |-> polled, failed |-> failed]
      /\ mode' = "waiting" /\ offset' = 0 /\ megabox' = FALSE /\ failed' = FALSE
  BY DEF Finish
<1>4. RegularBoundary(t) \in Int /\ RegularBoundary(t) > t - Window
  BY RegularBoundaryLater
<1>5. boundary' = IF error THEN t + Backoff ELSE RegularBoundary(t)
  BY <1>3 DEF NextBurstBoundary
<1>6. boundary' \in Int
  BY <1>1, <1>4, <1>5
<1>7. TypeOK'
  BY <1>2, <1>3, <1>6 DEF TypeOK
<1>8. AttemptsInTime'
  BY <1>3 DEF AttemptsInTime
<1>9. ErrorTells'
  BY <1>3 DEF ErrorTells
<1>10. BoundariesAdvance'
  <2>1. polled => boundary < boundary'
    BY <1>1, <1>2, <1>4, <1>5
  <2> QED  BY <1>3, <2>1 DEF BoundariesAdvance
<1>11. RetryIsLater'
  <2>1. failed => boundary' = t + Backoff
    BY <1>5
  <2>2. failed => boundary' >= t + Backoff
    BY <1>1, <1>6, <2>1
  <2> QED  BY <1>3, <2>2 DEF RetryIsLater
<1> QED  BY <1>7, <1>8, <1>9, <1>10, <1>11 DEF IInv

\* The loop starts before the boundary that is still in time.
LEMMA Initially == Init => IInv
<1> SUFFICES ASSUME Init PROVE IInv
  OBVIOUS
<1>1. Interval \in Int /\ Interval > 0 /\ now \in Int
  BY ScheduleAssumption DEF Init
<1>2. boundary \in Int
  BY <1>1, RegularBoundaryLater DEF Init
<1>3. ended = [boundary |-> boundary - Interval, at |-> boundary - Interval,
               polled |-> FALSE, failed |-> FALSE]
  BY DEF Init
<1>4. TypeOK
  <2>1. ended \in [boundary : Int, at : Int, polled : BOOLEAN, failed : BOOLEAN]
    BY <1>1, <1>2, <1>3
  <2> QED  BY <1>1, <1>2, <2>1 DEF Init, TypeOK
<1>5. ErrorTells /\ AttemptsInTime
  BY DEF Init, ErrorTells, AttemptsInTime
<1>6. BoundariesAdvance /\ RetryIsLater
  BY <1>3 DEF BoundariesAdvance, RetryIsLater
<1> QED  BY <1>4, <1>5, <1>6 DEF IInv

\* Beginning a burst leaves all but the clock and the mode as it was; no
\* attempt has been made.
LEMMA BeginBurstStep == IInv /\ BeginBurst => IInv'
<1> SUFFICES ASSUME IInv, BeginBurst PROVE IInv'
  OBVIOUS
<1>1. TypeOK /\ ErrorTells /\ BoundariesAdvance /\ RetryIsLater
  BY DEF IInv
<1>2. now \in Int /\ boundary \in Int /\ Lead \in Int
  BY <1>1, ScheduleAssumption DEF TypeOK
<1>3. now' \in Int
  BY <1>2, ReachBounds DEF BeginBurst
<1>4. /\ UNCHANGED <<boundary, offset, megabox, failed, ended>>
      /\ mode = "waiting" /\ mode' = "polling"
  BY DEF BeginBurst
<1>5. TypeOK'
  BY <1>1, <1>3, <1>4 DEF TypeOK
<1>6. ErrorTells' /\ BoundariesAdvance' /\ RetryIsLater'
  BY <1>1, <1>4 DEF ErrorTells, BoundariesAdvance, RetryIsLater
<1>7. AttemptsInTime'
  BY <1>4, IInv DEF IInv, AttemptsInTime
<1> QED  BY <1>5, <1>6, <1>7 DEF IInv

\* The listing that fails ends a burst that has not polled.
LEMMA ListFailsStep == IInv /\ ListTargetStatesFails => IInv'
<1> SUFFICES ASSUME IInv, ListTargetStatesFails PROVE IInv'
  OBVIOUS
<1>1. TypeOK /\ ErrorTells /\ AttemptsInTime
  BY DEF IInv
<1>2. now \in Int /\ boundary \in Int /\ Lead \in Int
  BY <1>1, ScheduleAssumption DEF TypeOK
<1>3. Finish(now', FALSE, FALSE) /\ mode = "waiting" /\ Reach(boundary - Lead)
  BY DEF ListTargetStatesFails
<1>4. now' \in Int
  BY <1>2, <1>3, ReachBounds
<1>5. ~failed
  BY <1>1, <1>3 DEF AttemptsInTime
<1> QED  BY <1>1, <1>3, <1>4, <1>5, FinishStep

\* An attempt is made at its offset or later, and its failure is joined.
LEMMA AttemptStep ==
    ASSUME IInv, NEW error \in BOOLEAN, Attempt(error)
    PROVE  IInv'
<1>1. TypeOK /\ ErrorTells /\ BoundariesAdvance /\ RetryIsLater
  BY DEF IInv
<1>2. now \in Int /\ boundary \in Int /\ Step \in Int /\ Step > 0 /\ Window = 3 * Step
  BY <1>1, ScheduleAssumption DEF TypeOK
<1>3. offset \in {0, Step, 2 * Step, Window, Window + Step} /\ offset <= Window
  BY <1>1 DEF TypeOK, Attempt, MoreOffsets
<1>4. /\ offset' = offset + Step
      /\ UNCHANGED <<mode, boundary, ended>>
      /\ mode = "polling"
      /\ Reach(boundary + offset)
  BY DEF Attempt
<1>5. now' \in Int /\ now' >= boundary + offset
  BY <1>2, <1>3, <1>4, ReachBounds
<1>6. megabox' = Join(error) /\ failed' = (failed \/ error)
  BY DEF Attempt
<1>7. megabox' \in BOOLEAN /\ failed' \in BOOLEAN /\ ErrorTells'
  BY <1>1, <1>6, Zenon DEF TypeOK, ErrorTells, Join
<1>8. offset' \in {0, Step, 2 * Step, Window, Window + Step}
  BY <1>2, <1>3, <1>4
<1>9. TypeOK'
  BY <1>1, <1>4, <1>5, <1>7, <1>8 DEF TypeOK
<1>10. AttemptsInTime'
  BY <1>2, <1>3, <1>4, <1>5 DEF AttemptsInTime
<1>11. BoundariesAdvance' /\ RetryIsLater'
  BY <1>1, <1>4 DEF BoundariesAdvance, RetryIsLater
<1> QED  BY <1>7, <1>9, <1>10, <1>11 DEF IInv

\* A burst ends after its last attempt, at Window or later.
LEMMA EndBurstStep == IInv /\ EndBurst => IInv'
<1> SUFFICES ASSUME IInv, EndBurst PROVE IInv'
  OBVIOUS
<1>1. TypeOK /\ ErrorTells /\ AttemptsInTime
  BY DEF IInv
<1>2. /\ now \in Int /\ boundary \in Int /\ megabox \in BOOLEAN
      /\ Step \in Int /\ Step > 0 /\ Window = 3 * Step
      /\ offset \in {0, Step, 2 * Step, Window, Window + Step}
  BY <1>1, ScheduleAssumption DEF TypeOK
<1>3. now' = now /\ mode = "polling" /\ ~(offset <= Window) /\ Finish(now, TRUE, megabox)
  BY DEF EndBurst, MoreOffsets
<1>4. offset = Window + Step
  BY <1>2, <1>3
<1>5. now >= boundary + Window
  BY <1>1, <1>2, <1>3, <1>4 DEF AttemptsInTime
<1>6. failed => megabox
  BY <1>1 DEF ErrorTells
<1> QED  BY <1>1, <1>2, <1>3, <1>5, <1>6, FinishStep

\* Stopping, or doing nothing, disturbs none of it.
LEMMA RestStep == IInv /\ (Stop \/ UNCHANGED vars) => IInv'
BY DEF IInv, Stop, vars, TypeOK, AttemptsInTime, ErrorTells, BoundariesAdvance, RetryIsLater

\* Attempts are made in time, the returned error tells of every Megabox
\* failure and the boundary it leads to is the whole backoff away, in every
\* reachable state.
THEOREM Invariance == Spec => []IInv
<1>1. IInv /\ [Next]_vars => IInv'
  BY BeginBurstStep, ListFailsStep, AttemptStep, EndBurstStep, RestStep
     DEF Next, RunBurstAttempt
<1> QED  BY Initially, <1>1, PTL DEF Spec

\* The boundary after a burst that polled is later than its own, so no burst
\* is repeated whatever the delays and however the retry was aligned.
THEOREM BurstsAdvance == Spec => []BoundariesAdvance
<1>1. IInv => BoundariesAdvance
  BY DEF IInv
<1> QED  BY Invariance, <1>1, PTL

\* After a burst with a failed Megabox fetch nothing is polled before the whole
\* backoff has passed.
THEOREM BackoffIsKept == Spec => []BackoffKept
<1>1. IInv => BackoffKept
  <2> SUFFICES ASSUME IInv, ended.failed, offset > 0, mode = "polling"
               PROVE  now >= ended.at + Backoff
    BY DEF BackoffKept
  <2>1. /\ now \in Int /\ boundary \in Int /\ ended.at \in Int
        /\ Step \in Int /\ Step > 0 /\ Window = 3 * Step /\ Backoff \in Int
        /\ offset \in {0, Step, 2 * Step, Window, Window + Step}
    BY ScheduleAssumption DEF IInv, TypeOK
  <2>2. now >= boundary + offset - Step /\ boundary >= ended.at + Backoff
    BY DEF IInv, AttemptsInTime, RetryIsLater
  <2>3. offset >= Step
    BY <2>1
  <2> QED  BY <2>1, <2>2, <2>3
<1> QED  BY Invariance, <1>1, PTL

\* Nothing is skipped by a burst that returns at time t.
LEMMA FinishSkipsNothing ==
    ASSUME TypeOK, NEW t \in Int, NEW polled \in BOOLEAN, NEW error \in BOOLEAN,
           Finish(t, polled, error), error => failed
    PROVE  NoBoundarySkipped'
<1>1. boundary \in Int /\ failed \in BOOLEAN /\ Backoff \in Int
  BY ScheduleAssumption DEF TypeOK
<1>2. /\ boundary' = IF error THEN t + Backoff ELSE RegularBoundary(t)
      /\ ended' = [boundary |-> boundary, at |-> t, polled |-> polled, failed |-> failed]
  BY DEF Finish, NextBurstBoundary
<1>3. boundary' \in Int
  BY <1>1, <1>2, RegularBoundaryLater
<1> SUFFICES ASSUME NEW b \in (boundary + 1)..(boundary' - 1),
                    b % Interval = 0, ~failed
             PROVE  t >= b + Window
  BY <1>2 DEF NoBoundarySkipped
<1>4. b \in Int /\ b < RegularBoundary(t)
  BY <1>1, <1>2, <1>3
<1> QED  BY <1>4, RegularBoundaryNext

\* As long as no Megabox fetch fails no regular boundary is passed over while
\* one of its attempts could still be made in time, whatever the delays.
THEOREM NothingSkipped == Spec => []NoBoundarySkipped
<1>1. Init => NoBoundarySkipped
  <2> SUFFICES ASSUME Init PROVE NoBoundarySkipped
    OBVIOUS
  <2>0. ended.boundary = boundary - Interval
    BY DEF Init
  <2> SUFFICES ASSUME NEW b \in (boundary - Interval + 1)..(boundary - 1),
                      b % Interval = 0
               PROVE  FALSE
    BY <2>0 DEF NoBoundarySkipped
  <2>1. Interval \in Int /\ Interval > 0 /\ now \in Int
    BY ScheduleAssumption DEF Init
  <2>2. boundary \in Int /\ boundary % Interval = 0
    <3>1. boundary = BurstBoundary(now)
      BY DEF Init
    <3> QED  BY <2>1, <3>1, TruncateBounds, TruncateMultiple DEF BurstBoundary
  <2>3. b \in Int /\ b < boundary /\ b > boundary - Interval
    BY <2>1, <2>2
  <2> QED  BY <2>1, <2>2, <2>3, MultiplesApart
<1>2. IInv /\ NoBoundarySkipped /\ [Next]_vars => NoBoundarySkipped'
  <2> SUFFICES ASSUME IInv, NoBoundarySkipped, [Next]_vars
               PROVE  NoBoundarySkipped'
    OBVIOUS
  <2>1. /\ TypeOK /\ failed = megabox
        /\ now \in Int /\ boundary \in Int /\ Lead \in Int
        /\ megabox \in BOOLEAN
    BY ScheduleAssumption DEF IInv, TypeOK, ErrorTells
  <2>2. CASE ListTargetStatesFails
    <3>1. Finish(now', FALSE, FALSE) /\ Reach(boundary - Lead)
      BY <2>2 DEF ListTargetStatesFails
    <3>2. now' \in Int
      BY <2>1, <3>1, ReachBounds
    <3> QED  BY <2>1, <3>1, <3>2, FinishSkipsNothing
  <2>3. CASE EndBurst
    <3>1. Finish(now, TRUE, megabox)
      BY <2>3 DEF EndBurst
    <3> QED  BY <2>1, <3>1, FinishSkipsNothing
  <2>4. CASE BeginBurst \/ RunBurstAttempt \/ Stop \/ UNCHANGED vars
    <3>1. UNCHANGED <<boundary, ended>>
      BY <2>4 DEF BeginBurst, RunBurstAttempt, Attempt, Stop, vars
    <3> QED  BY <3>1 DEF NoBoundarySkipped
  <2> QED  BY <2>2, <2>3, <2>4 DEF Next
<1> QED  BY <1>1, <1>2, Invariance, PTL DEF Spec
=============================================================================
