---------------------------- MODULE HealthCheck ----------------------------
(***************************************************************************)
(* GET /health beside the burst schedule.  Every poll leaves a row in      *)
(* poll_runs, which says succeeded only if the fetch, its report to        *)
(* Discord and every snapshot succeeded; the handler answers 503 when a    *)
(* provider with an enabled target has had no such row for two intervals.  *)
(* It asks each provider by itself, so one is enough: CGV, whose           *)
(* polls miss attempts while a tab is prepared, or Megabox, of whose two   *)
(* branches one may fail and the other succeed.                            *)
(***************************************************************************)
EXTENDS BurstSchedule

\* What a step of the loop may take for a gap of two intervals never to come
\* about by slowness alone: 75 seconds with the constants of the code.
ASSUME HealthAssumption == 3 * MaxDelay <= Interval + Window

VARIABLES
    provider,   \* the one that is watched: "cgv" or "megabox"
    enabled,    \* has it a target that is ON?
    listed,     \* had it one when the burst began?
    latest,     \* finished_at of its latest poll that succeeded
    excused     \* observation: since then a poll of it failed or was left out,
                \* or a Megabox failure has put the next burst off

hvars == <<vars, provider, enabled, listed, latest, excused>>

\* No poll has succeeded yet.
Never == -(2 * Interval) - 1

\* The handler's answer at time t.  Mutant: one interval is enough.
MutOldestAllowed(t) == t - Interval
OldestAllowed(t) == t - 2 * Interval

Healthy(t) == enabled => latest >= OldestAllowed(t)

\* The owner switches the provider's first target ON or its last one OFF.
SaveTargetState ==
    /\ enabled' = ~enabled
    /\ UNCHANGED <<vars, provider, listed, latest, excused>>

ListTargets ==
    /\ BeginBurst
    /\ listed' = enabled
    /\ excused' = (excused \/ ~enabled)
    /\ UNCHANGED <<provider, enabled, latest>>

ListingFails ==
    /\ ListTargetStatesFails
    /\ excused' = TRUE
    /\ UNCHANGED <<provider, enabled, listed, latest>>

\* What an attempt may come to for the provider: Megabox is always polled, CGV
\* not before its tab is ready.
Outcomes ==
    IF ~listed THEN {"none"}
    ELSE {"succeeded", "failed"} \cup (IF provider = "cgv" THEN {"none"} ELSE {})

\* The poll's row tells when the poll was over, which is before the deliveries
\* of the attempt; rows are written in the order of these times, so the last
\* one is LatestSuccessfulPoll.
Poll ==
    \E error \in BOOLEAN, outcome \in Outcomes :
        /\ Attempt(error)
        /\ provider = "megabox" /\ error => listed
        /\ IF outcome = "succeeded"
           THEN latest' \in Later(boundary + offset)..now'
           ELSE UNCHANGED latest
        /\ excused' = (outcome # "succeeded")
        /\ UNCHANGED <<provider, enabled, listed>>

BurstOver ==
    /\ EndBurst
    /\ excused' = (excused \/ megabox)
    /\ UNCHANGED <<provider, enabled, listed, latest>>

StopPolling ==
    /\ Stop
    /\ UNCHANGED <<provider, enabled, listed, latest, excused>>

HealthInit ==
    /\ Init
    /\ provider \in {"cgv", "megabox"}
    /\ enabled \in BOOLEAN
    /\ listed = FALSE
    /\ latest = Never
    /\ excused = TRUE

HealthNext ==
    \/ SaveTargetState
    \/ ListTargets
    \/ ListingFails
    \/ Poll
    \/ BurstOver
    \/ StopPolling

HealthSpec == HealthInit /\ [][HealthNext]_hvars

-----------------------------------------------------------------------------
\* Every variable holds a value the code can give it; a row tells of the past.
HealthTypeOK ==
    /\ TypeOK
    /\ provider \in {"cgv", "megabox"}
    /\ enabled \in BOOLEAN
    /\ listed \in BOOLEAN
    /\ latest \in Int
    /\ latest <= now
    /\ excused \in BOOLEAN

\* A 503 never comes from the schedule alone.  While a provider's last poll
\* succeeded, none was left out since, and no Megabox failure put the next
\* burst off, the handler finds it fresh, until the very end of each step and
\* whatever the steps' delays: over the bursts' ends, skipped boundaries and
\* the change from a retry to the regular boundaries.
HealthExplained == [][~excused => Healthy(now')]_hvars
=============================================================================
