--------------------------- MODULE BurstSchedule ---------------------------
(***************************************************************************)
(* When the scheduler polls: the loop of Scheduler.Start, the offsets of a *)
(* burst and the choice of the next boundary.  Time is counted in units of *)
(* five seconds, of which every constant of the code is a multiple; a step *)
(* of the loop sleeps until it is due, if it is early, and then takes some *)
(* time.  What a burst does to targets and deliveries is in AlertPipeline. *)
(***************************************************************************)
EXTENDS Integers

CONSTANTS
    Interval,   \* distance of the regular boundaries: 3 minutes
    Window,     \* last offset of a burst: 45 seconds
    Step,       \* distance of the offsets: 15 seconds
    Lead,       \* a burst begins this long before its boundary: 5 seconds
    Backoff,    \* wait after a failed Megabox fetch: 6 minutes
    MaxDelay,   \* bound on the time a step takes
    Horizon     \* bound: no burst begins later than this

ASSUME ScheduleAssumption ==
    /\ Interval \in Nat /\ Step \in Nat /\ Lead \in Nat /\ Backoff \in Nat
    /\ MaxDelay \in Nat /\ Horizon \in Nat
    /\ Step > 0
    /\ Window = 3 * Step
    /\ Interval > Window
    /\ Backoff > 0

VARIABLES
    now,        \* the clock
    mode,       \* "waiting" for a burst, "polling" in one, or "stopped"
    boundary,   \* the time of the burst's first attempt
    offset,     \* of the next attempt
    megabox,    \* does the burst's joined error hold a failed Megabox fetch?
    \* observations
    failed,     \* has a Megabox fetch failed in this burst?
    ended       \* the last burst: its boundary, its end, whether it polled and
                \* whether a Megabox fetch failed; at first a burst of the past

vars == <<now, mode, boundary, offset, megabox, failed, ended>>

Later(t) == IF now > t THEN now ELSE t

\* Time passes until t, unless it is past, and then for at most MaxDelay.
Reach(t) == \E delay \in 0..MaxDelay : now' = Later(t) + delay

Truncate(t) == t - (t % Interval)

\* When the loop starts, the last offset of a boundary is not too late.
BurstBoundary(t) ==
    IF t - Truncate(t) <= Window THEN Truncate(t) ELSE Truncate(t) + Interval

\* Mutants: the nanosecond is forgotten, and a boundary that has passed is
\* skipped although its offsets have not.
MutRegularBoundary(t) == BurstBoundary(t)
MutNextMultiple(t) == Truncate(t) + Interval

\* nextBurstBoundary looks one nanosecond ahead, which makes that exclusive.
RegularBoundary(t) ==
    IF t - Truncate(t) < Window THEN Truncate(t) ELSE Truncate(t) + Interval

\* Only a Megabox fetch failure backs off.
NextBurstBoundary(t, error) ==
    IF error THEN t + Backoff ELSE RegularBoundary(t)

\* The loop chooses the next boundary when a burst returns at time t.
Finish(t, polled, error) ==
    /\ boundary' = NextBurstBoundary(t, error)
    /\ ended' = [boundary |-> boundary, at |-> t, polled |-> polled, failed |-> failed]
    /\ mode' = "waiting"
    /\ offset' = 0
    /\ megabox' = FALSE
    /\ failed' = FALSE

\* The target states are listed; preparations begin.
BeginBurst ==
    /\ mode = "waiting"
    /\ boundary <= Horizon
    /\ Reach(boundary - Lead)
    /\ mode' = "polling"
    /\ UNCHANGED <<boundary, offset, megabox, failed, ended>>

\* The target states cannot be listed: runBurst returns at once.
ListTargetStatesFails ==
    /\ mode = "waiting"
    /\ boundary <= Horizon
    /\ Reach(boundary - Lead)
    /\ Finish(now', FALSE, FALSE)

\* Mutant: the last attempt decides, not the joined error of the burst.
MutJoin(error) == error
Join(error) == megabox \/ error

\* Mutant: one offset too many.
MutMoreOffsets == offset <= Window + Step
MoreOffsets == offset <= Window

\* An attempt that is late runs at once.  Its error tells whether a Megabox
\* fetch failed in it.
Attempt(error) ==
    /\ mode = "polling"
    /\ MoreOffsets
    /\ Reach(boundary + offset)
    /\ offset' = offset + Step
    /\ megabox' = Join(error)
    /\ failed' = (failed \/ error)
    /\ UNCHANGED <<mode, boundary, ended>>

RunBurstAttempt == \E error \in BOOLEAN : Attempt(error)

EndBurst ==
    /\ mode = "polling"
    /\ ~MoreOffsets
    /\ Finish(now, TRUE, megabox)
    /\ UNCHANGED now

\* Stop cancels the context; the loop returns at its next step.
Stop ==
    /\ mode # "stopped"
    /\ mode' = "stopped"
    /\ UNCHANGED <<now, boundary, offset, megabox, failed, ended>>

Init ==
    /\ now \in 0..(Interval - 1)
    /\ mode = "waiting"
    /\ boundary = BurstBoundary(now)
    /\ offset = 0
    /\ megabox = FALSE
    /\ failed = FALSE
    /\ ended = [boundary |-> boundary - Interval, at |-> boundary - Interval,
                polled |-> FALSE, failed |-> FALSE]

Next == BeginBurst \/ ListTargetStatesFails \/ RunBurstAttempt \/ EndBurst \/ Stop

Spec == Init /\ [][Next]_vars

-----------------------------------------------------------------------------
\* Every variable holds a value the code can give it; a burst has no offset
\* after its last.
TypeOK ==
    /\ now \in Int
    /\ mode \in {"waiting", "polling", "stopped"}
    /\ boundary \in Int
    /\ offset \in {0, Step, 2 * Step, Window, Window + Step}
    /\ megabox \in BOOLEAN
    /\ failed \in BOOLEAN
    /\ ended \in [boundary : Int, at : Int, polled : BOOLEAN, failed : BOOLEAN]

\* A burst that has polled is over: the next one has a later boundary, also
\* when the burst ended exactly on its last offset, or was a retry whose
\* boundary was not a regular one.
BoundariesAdvance == ended.polled => ended.boundary < boundary

\* After a burst in which a Megabox fetch failed, in whichever attempt, the
\* next burst does not poll before the whole backoff has passed.
BackoffKept ==
    ended.failed /\ offset > 0 /\ mode = "polling"
        => now >= ended.at + Backoff

\* Without such a failure no regular boundary is passed over while one of its
\* attempts could still be made in time.
NoBoundarySkipped ==
    \A t \in (ended.boundary + 1)..(boundary - 1) :
        t % Interval = 0 => ended.failed \/ ended.at >= t + Window

\* docs/self-hosted.md:156 (and docs/superpowers/specs/
\* 2026-07-21-three-minute-fifteen-second-burst-design.md:15): what an internal
\* error ended is tried again at the next regular boundary, so never for a
\* boundary that had passed when the error came.
InternalErrorWaits == ~ended.polled => ended.at <= boundary
=============================================================================
