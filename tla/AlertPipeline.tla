--------------------------- MODULE AlertPipeline ---------------------------
(***************************************************************************)
(* The alert pipeline of my-movie: the scheduler's bursts poll every       *)
(* enabled branch, record new showtimes as pending deliveries, and the     *)
(* delivery service posts them to Discord, while the owner switches        *)
(* targets ON and OFF and the process may stop between any two steps.      *)
(*                                                                         *)
(* A step is one SQLite transaction or one Discord or provider call, the   *)
(* grain at which the goroutines really interleave (the pool has a single  *)
(* connection).  The branches of one attempt are polled concurrently; one  *)
(* goroutine delivers; the control service works under one mutex, which    *)
(* ctl.op # "idle" stands for.                                             *)
(***************************************************************************)
EXTENDS Naturals

CONSTANTS
    Targets,        \* the fixed alert targets (special auditoriums)
    Branches,       \* the theater branches the providers are asked about
    Showtimes,      \* showtime ids, each belonging to one target
    TargetOf,       \* the target of a showtime
    BranchOf,       \* the branch of a target
    FilmDay,        \* the movie and play date of a showtime
    Preparers,      \* branches whose provider prepares a session first (CGV)
    BurstAttempts,  \* polls per burst: +0, +15, +30, +45 s in the code
    LostAnswers,    \* may Discord accept a message and the answer get lost?
    MaxGeneration,  \* bound: the owner stops changing a target at this generation
    MaxCrashes,     \* bound on process restarts
    MaxDbErrors     \* bound on SQLite transactions that fail

ASSUME PipelineAssumption ==
    /\ TargetOf \in [Showtimes -> Targets]
    /\ BranchOf \in [Targets -> Branches]
    /\ Preparers \subseteq Branches
    /\ BurstAttempts \in Nat
    /\ LostAnswers \in BOOLEAN
    /\ MaxGeneration \in Nat
    /\ MaxCrashes \in Nat
    /\ MaxDbErrors \in Nat

VARIABLES
    \* SQLite, which survives a restart
    enabled,     \* target_states.enabled
    generation,  \* target_states.generation; 0 when the row does not exist
    baseline,    \* the showtimes in target_baselines
    status,      \* channel_deliveries.status; "none" when there is no row
    attempts,    \* channel_deliveries.attempt_count
    \* Discord
    panel,       \* the ON/OFF states the control panel message shows
    posts,       \* messages that carry the showtime, counted up to two
    \* memory of the process
    ctl,         \* the control operation that holds the mutex
    running,     \* a burst is running
    left,        \* attempts the burst has left
    polled,      \* generations listed at the start of the burst; 0: not enabled
    poll,        \* where the goroutine of each branch is
    seen,        \* fetched showtimes that are still to be recorded
    todo,        \* targets whose fetched snapshot is still to be recorded
    dlv,         \* the delivery in progress
    \* observations
    skipped,     \* showtimes the last switch-on took for already open
    recalled,    \* listed rows that a switch-on has withdrawn since the listing
    unsure,      \* showtimes whose last post was not marked as sent, for a
                 \* reason that is known
    overtaken,   \* targets switched on since the last fetch of their branch
    crashes, dbErrors

db == <<enabled, generation, baseline, status, attempts>>
discord == <<panel, posts>>
bursts == <<running, left, polled>>
polls == <<poll, seen, todo>>
observed == <<skipped, recalled, unsure, overtaken>>
faults == <<crashes, dbErrors>>
vars == <<db, discord, ctl, bursts, polls, dlv, observed, faults>>

ShowtimesOf(t) == {s \in Showtimes : TargetOf[s] = t}
TargetsAt(b) == {t \in Targets : BranchOf[t] = b}
Pending == {s \in Showtimes : status[s] = "pending"}

AllOff == [t \in Targets |-> FALSE]
CtlIdle == [op |-> "idle", todo |-> {}, ids |-> {}, shown |-> AllOff]
DlvIdle == [pc |-> "idle", rows |-> {}, cur |-> {}]

\* The delivery goes on to its next group, or is over.
DeliveryOver(rows) ==
    IF rows = {} THEN DlvIdle ELSE [pc |-> "next", rows |-> rows, cur |-> {}]

-----------------------------------------------------------------------------
(* The control service: owner operations under the mutex.                  *)

\* Each operation holds the mutex until it returns.
MutexFree == ctl.op = "idle"

\* Every save of a target's state moves it to a new generation.
SaveTargetState(t, on) ==
    /\ enabled' = [enabled EXCEPT ![t] = on]
    /\ generation' = [generation EXCEPT ![t] = @ + 1]

\* refreshPanel lists the states first and edits the message in a later step.
RefreshPanel(states) ==
    ctl' = [op |-> "panel", todo |-> {}, ids |-> {}, shown |-> states]

\* Enable fetches the schedule while the target keeps its old state.
EnableFetch(t, ids) ==
    /\ MutexFree
    /\ generation[t] \in 1..(MaxGeneration - 1)
    /\ ctl' = [op |-> "fetched", todo |-> {t}, ids |-> ids, shown |-> AllOff]
    /\ UNCHANGED <<db, discord, bursts, polls, dlv, observed, faults>>

\* Mutants: the DELETE loses its status condition, or is left out.
MutWithdrawSettled(t) == ShowtimesOf(t)
MutWithdrawNothing(t) == {}
Withdrawn(t) == ShowtimesOf(t) \cap Pending

\* What the delivery has listed and not dealt with yet.
Listed == IF dlv.pc \in {"next", "send", "accepted", "refused", "gone"}
          THEN dlv.rows \cup dlv.cur ELSE dlv.rows

\* One transaction: pending rows are withdrawn, the baseline is replaced.
ReplaceBaseline(t, ids) ==
    /\ status' = [s \in Showtimes |->
                      IF s \in Withdrawn(t) THEN "none" ELSE status[s]]
    /\ attempts' = [s \in Showtimes |->
                        IF s \in Withdrawn(t) THEN 0 ELSE attempts[s]]
    /\ baseline' = (baseline \ ShowtimesOf(t)) \cup ids

EnableBaseline ==
    /\ ctl.op = "fetched"
    /\ \E t \in ctl.todo :
        /\ ReplaceBaseline(t, ctl.ids)
        /\ skipped' = (skipped \ ShowtimesOf(t)) \cup ctl.ids
        /\ recalled' = recalled \cup (Withdrawn(t) \cap Listed)
    /\ ctl' = [ctl EXCEPT !.op = "baselined", !.ids = {}]
    /\ UNCHANGED <<enabled, generation, discord, bursts, polls, dlv,
                   unsure, overtaken, faults>>

EnableSave ==
    /\ ctl.op = "baselined"
    /\ \E t \in ctl.todo :
        /\ SaveTargetState(t, TRUE)
        /\ overtaken' = overtaken \cup {t}
    /\ RefreshPanel(enabled')
    /\ UNCHANGED <<baseline, status, attempts, discord, bursts, polls, dlv,
                   skipped, recalled, unsure, faults>>

Disable(t) ==
    /\ MutexFree
    /\ generation[t] \in 1..(MaxGeneration - 1)
    /\ SaveTargetState(t, FALSE)
    /\ RefreshPanel(enabled')
    /\ UNCHANGED <<baseline, status, attempts, discord, bursts, polls, dlv,
                   observed, faults>>

SelectTarget ==
    /\ MutexFree
    /\ \E t \in Targets : generation[t] > 0
    /\ RefreshPanel(enabled)
    /\ UNCHANGED <<db, discord, bursts, polls, dlv, observed, faults>>

\* Initialize re-saves every target after ensuring its channel; it keeps
\* the ON/OFF state and can stop after any target when Discord refuses.
Initialize ==
    /\ MutexFree
    /\ \A t \in Targets : generation[t] < MaxGeneration
    /\ ctl' = [op |-> "init", todo |-> Targets, ids |-> {}, shown |-> AllOff]
    /\ UNCHANGED <<db, discord, bursts, polls, dlv, observed, faults>>

InitializeTarget(t) ==
    /\ ctl.op = "init"
    /\ t \in ctl.todo
    /\ SaveTargetState(t, enabled[t])
    /\ IF ctl.todo = {t} THEN RefreshPanel(enabled')
                         ELSE ctl' = [ctl EXCEPT !.todo = @ \ {t}]
    /\ UNCHANGED <<baseline, status, attempts, discord, bursts, polls, dlv,
                   observed, faults>>

InitializeFails ==
    /\ ctl.op = "init"
    /\ ctl' = CtlIdle
    /\ UNCHANGED <<db, discord, bursts, polls, dlv, observed, faults>>

\* The panel message is edited, or Discord refuses; either way the mutex is
\* released, and a delivery that ran DisableUnavailable goes on.
UpsertPanel ==
    /\ ctl.op = "panel"
    /\ panel' \in {ctl.shown, panel}
    /\ ctl' = CtlIdle
    /\ dlv' = IF dlv.pc = "panel" THEN DeliveryOver(dlv.rows) ELSE dlv
    /\ UNCHANGED <<db, posts, bursts, polls, observed, faults>>

-----------------------------------------------------------------------------
(* The scheduler: a burst lists the states once and polls several times.   *)

StartBurst ==
    /\ ~running
    /\ running' = TRUE
    /\ left' = BurstAttempts
    /\ polled' = [t \in Targets |-> IF enabled[t] THEN generation[t] ELSE 0]
    /\ poll' = [b \in Branches |->
                    IF \A t \in TargetsAt(b) : ~enabled[t] THEN "out"
                    ELSE IF b \in Preparers THEN "preparing" ELSE "ready"]
    /\ UNCHANGED <<db, discord, ctl, seen, todo, dlv, observed, faults>>

\* Every poll of the attempt has completed and been followed by a delivery.
AttemptOver ==
    /\ dlv.pc = "idle"
    /\ \A b \in Branches : poll[b] \in {"out", "preparing", "ready"}

\* What collecting a branch's preparation can find: nothing yet, a session
\* to poll with, or an error, after which the burst leaves the branch out.
Collected(b) ==
    IF poll[b] = "preparing" THEN {"preparing", "fetching", "out"}
    ELSE IF poll[b] = "ready" THEN {"fetching"} ELSE {poll[b]}

\* Mutant: one offset too many in the burst.
MutAttemptsLeft == left >= 0
AttemptsLeft == left > 0

StartAttempt ==
    /\ running
    /\ AttemptsLeft
    /\ AttemptOver
    /\ left' = left - 1
    /\ poll' \in [Branches -> {"out", "preparing", "fetching"}]
    /\ \A b \in Branches : poll'[b] \in Collected(b)
    /\ UNCHANGED <<db, discord, ctl, running, polled, seen, todo, dlv,
                   observed, faults>>

EndBurst ==
    /\ running
    /\ left = 0
    /\ AttemptOver
    /\ running' = FALSE
    /\ polled' = [t \in Targets |-> 0]
    /\ poll' = [b \in Branches |-> "out"]
    /\ UNCHANGED <<db, discord, ctl, left, seen, todo, dlv, observed, faults>>

\* The branch answers with the showtimes it lists now; only those of the
\* targets that were enabled when the burst began are looked at.
Fetch(b, listed) ==
    /\ poll[b] = "fetching"
    /\ poll' = [poll EXCEPT ![b] = "recording"]
    /\ seen' = seen \cup listed
    /\ todo' = todo \cup {t \in TargetsAt(b) : polled[t] > 0}
    /\ overtaken' = overtaken \ TargetsAt(b)
    /\ UNCHANGED <<db, discord, ctl, bursts, dlv, skipped, recalled, unsure,
                   faults>>

FetchFails(b) ==
    /\ poll[b] = "fetching"
    /\ poll' = [poll EXCEPT ![b] = "done"]
    /\ UNCHANGED <<db, discord, ctl, bursts, seen, todo, dlv, observed, faults>>

Polled(b) == {s \in Showtimes : BranchOf[TargetOf[s]] = b /\ polled[TargetOf[s]] > 0}

\* The snapshot of target t is dealt with; the branch is done after its last.
Handled(t) ==
    LET b == BranchOf[t]
    IN /\ t \in todo
       /\ todo' = todo \ {t}
       /\ seen' = seen \ ShowtimesOf(t)
       /\ poll' = IF todo \cap TargetsAt(b) = {t}
                  THEN [poll EXCEPT ![b] = "done"] ELSE poll

\* The guard of the recording transaction.  Mutant: no generation guard.
MutCurrent(t) == enabled[t]
Current(t) == enabled[t] /\ generation[t] = polled[t]

Snapshot(t) == seen \cap ShowtimesOf(t)

\* Mutant: the insert replaces a row that exists already.
MutFresh(t) == Snapshot(t) \ baseline
Fresh(t) == {s \in Snapshot(t) \ baseline : status[s] = "none"}

RecordSnapshot(t) ==
    /\ Handled(t)
    /\ Current(t)
    /\ status' = [s \in Showtimes |->
                      IF s \in Fresh(t) THEN "pending" ELSE status[s]]
    /\ baseline' = baseline \cup Snapshot(t)
    /\ UNCHANGED <<enabled, generation, attempts, discord, ctl, bursts, dlv,
                   observed, faults>>

\* Mutant: an outdated snapshot still extends the baseline.
MutDropSnapshot(t) ==
    /\ Handled(t)
    /\ ~Current(t)
    /\ baseline' = baseline \cup Snapshot(t)
    /\ UNCHANGED <<enabled, generation, status, attempts, discord, ctl, bursts,
                   dlv, observed, faults>>

DropSnapshot(t) ==
    /\ Handled(t)
    /\ ~Current(t)
    /\ UNCHANGED <<db, discord, ctl, bursts, dlv, observed, faults>>

-----------------------------------------------------------------------------
(* The delivery service: it lists pending rows once, then handles them     *)
(* group by group, a group being the rows of one target, movie and date.   *)

\* Mutant: a row whose first attempt failed is not listed again.
MutDeliverable == {s \in Pending : enabled[TargetOf[s]] /\ attempts[s] = 0}
Deliverable == {s \in Pending : enabled[TargetOf[s]]}

\* runBurstAttempt consumes one completed branch and delivers.
StartDelivery(b) ==
    /\ dlv.pc = "idle"
    /\ poll[b] = "done"
    /\ poll' = [poll EXCEPT ![b] = "ready"]
    /\ dlv' = DeliveryOver(Deliverable)
    /\ recalled' = {}
    /\ UNCHANGED <<db, discord, ctl, bursts, seen, todo, skipped, unsure,
                   overtaken, faults>>

Group(s) == {r \in dlv.rows : /\ TargetOf[r] = TargetOf[s]
                              /\ FilmDay[r] = FilmDay[s]}

\* Mutant: the rest of the group stays on the list and is sent again.
MutRest(s) == dlv.rows \ {s}
Rest(s) == dlv.rows \ Group(s)

\* IsTargetEnabled is asked again for each group.
StartGroup(s) ==
    /\ dlv.pc = "next"
    /\ s \in dlv.rows
    /\ dlv' = IF enabled[TargetOf[s]]
              THEN [pc |-> "send", rows |-> Rest(s), cur |-> Group(s)]
              ELSE DeliveryOver(Rest(s))
    /\ UNCHANGED <<db, discord, ctl, bursts, polls, observed, faults>>

Posted == [s \in Showtimes |-> IF s \in dlv.cur /\ posts[s] < 2
                               THEN posts[s] + 1 ELSE posts[s]]

SendAccepted ==
    /\ dlv.pc = "send"
    /\ posts' = Posted
    /\ unsure' = unsure \ dlv.cur
    /\ dlv' = [dlv EXCEPT !.pc = "accepted"]
    /\ UNCHANGED <<db, panel, ctl, bursts, polls, skipped, recalled, overtaken,
                   faults>>

\* Discord has the message, the service sees an error.
SendLost ==
    /\ LostAnswers
    /\ dlv.pc = "send"
    /\ posts' = Posted
    /\ unsure' = unsure \cup dlv.cur
    /\ dlv' = [dlv EXCEPT !.pc = "refused"]
    /\ UNCHANGED <<db, panel, ctl, bursts, polls, skipped, recalled, overtaken,
                   faults>>

SendRefused ==
    /\ dlv.pc = "send"
    /\ dlv' = [dlv EXCEPT !.pc = "refused"]
    /\ UNCHANGED <<db, discord, ctl, bursts, polls, observed, faults>>

\* The channel is gone or forbidden: a permanent error.
SendUnavailable ==
    /\ dlv.pc = "send"
    /\ dlv' = [dlv EXCEPT !.pc = "gone"]
    /\ UNCHANGED <<db, discord, ctl, bursts, polls, observed, faults>>

MaxTries == 3

\* Mutant: the rows are written whatever their status is.
MutUpdateDeliveries(outcome) ==
    /\ attempts' = [s \in Showtimes |->
                        IF s \in dlv.cur THEN attempts[s] + 1 ELSE attempts[s]]
    /\ status' = [s \in Showtimes |->
                      IF s \in dlv.cur THEN outcome[s] ELSE status[s]]

\* One transaction for the whole group: a row that is not pending any more
\* makes requireChanged fail and rolls the others back.
UpdateDeliveries(outcome) ==
    IF dlv.cur \subseteq Pending
    THEN /\ attempts' = [s \in Showtimes |->
                             IF s \in dlv.cur THEN attempts[s] + 1 ELSE attempts[s]]
         /\ status' = [s \in Showtimes |->
                           IF s \in dlv.cur THEN outcome[s] ELSE status[s]]
    ELSE UNCHANGED <<attempts, status>>

\* A rollback leaves the group's rows as if it had not been posted; a known
\* reason for it is that a switch-on withdrew one of them.
MarkSent ==
    /\ dlv.pc = "accepted"
    /\ UpdateDeliveries([s \in Showtimes |-> "sent"])
    /\ unsure' = IF dlv.cur \cap recalled \subseteq Pending THEN unsure
                 ELSE unsure \cup dlv.cur
    /\ dlv' = DeliveryOver(dlv.rows)
    /\ UNCHANGED <<enabled, generation, baseline, discord, ctl, bursts, polls,
                   skipped, recalled, overtaken, faults>>

\* Mutant: off by one.
MutTriesOneMore == [s \in Showtimes |->
    IF attempts[s] + 1 > MaxTries THEN "failed" ELSE "pending"]
AfterFailedAttempt == [s \in Showtimes |->
    IF attempts[s] + 1 >= MaxTries THEN "failed" ELSE "pending"]

MarkFailedAttempt ==
    /\ dlv.pc = "refused"
    /\ UpdateDeliveries(AfterFailedAttempt)
    /\ dlv' = DeliveryOver(dlv.rows)
    /\ UNCHANGED <<enabled, generation, baseline, discord, ctl, bursts, polls,
                   observed, faults>>

\* Mutant: the delivery moves on and leaves the target ON.
MutMarkUnavailable ==
    /\ dlv.pc = "gone"
    /\ UpdateDeliveries([s \in Showtimes |-> "failed"])
    /\ dlv' = DeliveryOver(dlv.rows)
    /\ UNCHANGED <<enabled, generation, baseline, discord, ctl, bursts, polls,
                   observed, faults>>

MarkUnavailable ==
    /\ dlv.pc = "gone"
    /\ UpdateDeliveries([s \in Showtimes |-> "failed"])
    /\ dlv' = [dlv EXCEPT !.pc = "off"]
    /\ UNCHANGED <<enabled, generation, baseline, discord, ctl, bursts, polls,
                   observed, faults>>

\* Mutant: the delivery writes the state itself, without the mutex.
MutDisableUnavailable ==
    /\ dlv.pc = "off"
    /\ \E s \in dlv.cur : SaveTargetState(TargetOf[s], FALSE)
    /\ dlv' = DeliveryOver(dlv.rows)
    /\ UNCHANGED <<baseline, status, attempts, discord, ctl, bursts, polls,
                   observed, faults>>

\* The delivery waits for the control mutex and then switches the target off.
DisableUnavailable ==
    /\ dlv.pc = "off"
    /\ MutexFree
    /\ \E s \in dlv.cur : SaveTargetState(TargetOf[s], FALSE)
    /\ RefreshPanel(enabled')
    /\ dlv' = [pc |-> "panel", rows |-> dlv.rows, cur |-> {}]
    /\ UNCHANGED <<baseline, status, attempts, discord, bursts, polls,
                   observed, faults>>

-----------------------------------------------------------------------------
(* Failures.                                                               *)

DbError == dbErrors < MaxDbErrors /\ dbErrors' = dbErrors + 1 /\ UNCHANGED crashes

\* A control operation returns the error of its transaction.
ControlDbError ==
    /\ DbError
    /\ ctl.op \in {"fetched", "baselined", "init"}
    /\ ctl' = CtlIdle
    /\ UNCHANGED <<db, discord, bursts, polls, dlv, observed>>

\* The snapshot of one target is not recorded; the next target goes on.
RecordDbError(t) ==
    /\ DbError
    /\ Handled(t)
    /\ UNCHANGED <<db, discord, ctl, bursts, dlv, observed>>

\* The pending rows cannot be listed: this delivery does nothing.
ListDbError(b) ==
    /\ DbError
    /\ dlv.pc = "idle"
    /\ poll[b] = "done"
    /\ poll' = [poll EXCEPT ![b] = "ready"]
    /\ UNCHANGED <<db, discord, ctl, bursts, seen, todo, dlv, observed>>

\* A group's state cannot be read, or its outcome cannot be written: the
\* error is joined to the others and the delivery goes on without it.
DeliveryDbError ==
    /\ DbError
    /\ \/ /\ dlv.pc = "next"
          /\ \E s \in dlv.rows : dlv' = DeliveryOver(Rest(s))
       \/ /\ dlv.pc \in {"accepted", "refused", "off"}
          /\ dlv' = DeliveryOver(dlv.rows)
       \/ /\ dlv.pc = "gone"
          /\ dlv' = [dlv EXCEPT !.pc = "off"]
    /\ unsure' = IF dlv.pc = "accepted" THEN unsure \cup dlv.cur ELSE unsure
    /\ UNCHANGED <<db, discord, ctl, bursts, polls, skipped, recalled, overtaken>>

\* The process stops between two steps and starts again: SQLite and Discord
\* keep what they have, the memory is gone.  A shutdown that cancels the
\* context in the middle of a step is the same.
Crash ==
    /\ crashes < MaxCrashes
    /\ crashes' = crashes + 1
    /\ unsure' = IF dlv.pc = "accepted" THEN unsure \cup dlv.cur ELSE unsure
    /\ ctl' = CtlIdle
    /\ dlv' = DlvIdle
    /\ running' = FALSE
    /\ left' = 0
    /\ polled' = [t \in Targets |-> 0]
    /\ poll' = [b \in Branches |-> "out"]
    /\ seen' = {}
    /\ todo' = {}
    /\ recalled' = {}
    /\ UNCHANGED <<db, discord, skipped, overtaken, dbErrors>>

-----------------------------------------------------------------------------
Init ==
    /\ enabled = AllOff
    /\ generation = [t \in Targets |-> 0]
    /\ baseline = {}
    /\ status = [s \in Showtimes |-> "none"]
    /\ attempts = [s \in Showtimes |-> 0]
    /\ panel = AllOff
    /\ posts = [s \in Showtimes |-> 0]
    /\ ctl = CtlIdle
    /\ running = FALSE
    /\ left = 0
    /\ polled = [t \in Targets |-> 0]
    /\ poll = [b \in Branches |-> "out"]
    /\ seen = {}
    /\ todo = {}
    /\ dlv = DlvIdle
    /\ skipped = {}
    /\ recalled = {}
    /\ unsure = {}
    /\ overtaken = {}
    /\ crashes = 0
    /\ dbErrors = 0

\* What the owner may do at any time, and never has to.
OwnerStep ==
    \/ \E t \in Targets : \E ids \in SUBSET ShowtimesOf(t) : EnableFetch(t, ids)
    \/ \E t \in Targets : Disable(t)
    \/ SelectTarget
    \/ Initialize

\* What the holder of the control mutex goes on to do.
ControlStep ==
    \/ EnableBaseline
    \/ EnableSave
    \/ \E t \in Targets : InitializeTarget(t)
    \/ InitializeFails
    \/ UpsertPanel

BurstStep == StartBurst \/ StartAttempt \/ EndBurst

PollStep(b) ==
    \/ \E listed \in SUBSET Polled(b) : Fetch(b, listed)
    \/ FetchFails(b)
    \/ \E t \in TargetsAt(b) : RecordSnapshot(t) \/ DropSnapshot(t)

DeliveryStep ==
    \/ \E b \in Branches : StartDelivery(b)
    \/ \E s \in Showtimes : StartGroup(s)
    \/ SendAccepted
    \/ SendLost
    \/ SendRefused
    \/ SendUnavailable
    \/ MarkSent
    \/ MarkFailedAttempt
    \/ MarkUnavailable

FaultStep ==
    \/ ControlDbError
    \/ \E t \in Targets : RecordDbError(t)
    \/ \E b \in Branches : ListDbError(b)
    \/ DeliveryDbError
    \/ Crash

Next ==
    \/ OwnerStep
    \/ ControlStep
    \/ BurstStep
    \/ \E b \in Branches : PollStep(b)
    \/ DeliveryStep
    \/ DisableUnavailable
    \/ FaultStep

Spec == Init /\ [][Next]_vars

\* Goroutines that can run do run, calls return (they carry timeouts), and a
\* Go mutex hands itself to a waiter that keeps waiting.
Fairness ==
    /\ WF_vars(ControlStep)
    /\ WF_vars(BurstStep)
    /\ \A b \in Branches : WF_vars(PollStep(b))
    /\ WF_vars(DeliveryStep)
    /\ SF_vars(DisableUnavailable)

FairSpec == Spec /\ Fairness

-----------------------------------------------------------------------------
(* Properties.                                                             *)

ControlState ==
    [op : {"idle", "fetched", "baselined", "init", "panel"},
     todo : SUBSET Targets, ids : SUBSET Showtimes,
     shown : [Targets -> BOOLEAN]]

DeliveryState ==
    [pc : {"idle", "next", "send", "accepted", "refused", "gone", "off", "panel"},
     rows : SUBSET Showtimes, cur : SUBSET Showtimes]

\* Every variable holds a value the code can give it.
TypeOK ==
    /\ enabled \in [Targets -> BOOLEAN]
    /\ generation \in [Targets -> Nat]
    /\ baseline \subseteq Showtimes
    /\ status \in [Showtimes -> {"none", "pending", "sent", "failed"}]
    /\ attempts \in [Showtimes -> Nat]
    /\ panel \in [Targets -> BOOLEAN]
    /\ posts \in [Showtimes -> 0..2]
    /\ ctl \in ControlState
    /\ running \in BOOLEAN
    /\ left \in 0..BurstAttempts
    /\ polled \in [Targets -> Nat]
    /\ poll \in [Branches -> {"out", "preparing", "ready", "fetching",
                              "recording", "done"}]
    /\ seen \subseteq Showtimes
    /\ todo \subseteq Targets
    /\ dlv \in DeliveryState
    /\ skipped \subseteq Showtimes
    /\ recalled \subseteq Showtimes
    /\ unsure \subseteq Showtimes
    /\ overtaken \subseteq Targets
    /\ crashes \in Nat
    /\ dbErrors \in Nat

\* A row that may still be sent has had fewer than three attempts and a
\* settled one between one and three, whatever the mix of attempts in a
\* group and however the rows were withdrawn and queued again
\* (repository.go, updateChannelDeliveries).
AttemptsBounded ==
    \A s \in Showtimes :
        CASE status[s] = "none" -> attempts[s] = 0
          [] status[s] = "pending" -> attempts[s] < MaxTries
          [] OTHER -> attempts[s] \in 1..MaxTries

\* No showtime is swallowed: one that the next poll will not queue because
\* it is in the baseline was open at the last switch-on or has a delivery
\* row, and a pending row is always in the baseline, so no poll queues it
\* twice (recordTargetSnapshot against ReplaceBaseline and restarts).
BaselineExplained ==
    /\ Pending \subseteq baseline
    /\ \A s \in baseline : s \in skipped \/ status[s] # "none"

\* A showtime that was open at the last switch-on does not wait for delivery,
\* even when polls that began before the switch-on record afterwards.
SkippedNotQueued == skipped \cap Pending = {}

\* What the delivery has listed is never settled behind its back: an alert
\* that was sent or given up is not sent again by a delivery that listed it
\* earlier (DeliverPending works from a list that other goroutines outdate).
ListedStaysOpen ==
    \A s \in dlv.rows \cup dlv.cur :
        dlv.pc \in {"next", "send", "accepted", "refused", "gone"}
            => status[s] \in {"none", "pending"}

\* A row says "sent" only of a message that Discord has accepted.
SentWasPosted == \A s \in Showtimes : status[s] = "sent" => posts[s] > 0

\* The states an operation is about to show on the control panel are the
\* stored ones, though DisableUnavailable runs in the delivery goroutine.
PanelCurrent == ctl.op = "panel" => ctl.shown = enabled

\* What makes those invariants inductive.  A row the delivery has listed is
\* still pending unless a switch-on withdrew it since; a group belongs to one
\* target; a post that no known reason kept from being marked is marked or
\* about to be; the baseline holds what was skipped; and a snapshot waits to be
\* recorded only while its branch is being polled, under a generation no later
\* than the stored one and earlier if the target was switched on since.
DeliveryInv ==
    /\ \A s \in Listed : status[s] \in {"none", "pending"}
    /\ \A s \in Listed : status[s] = "none" => s \in recalled
    /\ \A s, r \in dlv.cur : TargetOf[s] = TargetOf[r]
    /\ dlv.rows \cap dlv.cur = {}
    /\ dlv.pc = "idle" => dlv.rows = {}
    /\ dlv.pc = "next" => dlv.rows # {}
    /\ dlv.pc \in {"idle", "next", "panel"} => dlv.cur = {}
    /\ dlv.pc = "accepted" => \A s \in dlv.cur : posts[s] > 0
    /\ \A s \in Showtimes \ unsure :
          posts[s] > 0 => (status[s] = "sent" \/ (dlv.pc = "accepted" /\ s \in dlv.cur))

BaselineInv ==
    /\ skipped \subseteq baseline
    /\ ctl.op = "fetched" => \A t \in ctl.todo : ctl.ids \subseteq ShowtimesOf(t)

PollInv ==
    /\ \A b \in Branches : poll[b] # "out" => running
    /\ \A t \in todo : poll[BranchOf[t]] = "recording"
    /\ \A t \in Targets : polled[t] <= generation[t]
    /\ \A t \in todo \cap overtaken : polled[t] # generation[t]

IInv ==
    /\ AttemptsBounded
    /\ BaselineExplained
    /\ SkippedNotQueued
    /\ SentWasPosted
    /\ PanelCurrent
    /\ DeliveryInv
    /\ BaselineInv
    /\ PollInv

\* A settled delivery is settled for good: no poll, switch-on, restart or
\* late update of a group changes its status or its attempts.
SettledForever ==
    [][\A s \in Showtimes :
        status[s] \in {"sent", "failed"}
            => status'[s] = status[s] /\ attempts'[s] = attempts[s]]_vars

\* Discord gets an alert again only if the last post of it could not be marked
\* as sent: its answer was lost, the process ended or the database failed between
\* the post and the commit, or the commit was rolled back because a switch-on had
\* withdrawn a row of its group since the delivery listed it.  Concurrency
\* alone never duplicates an alert.
DuplicateExplained ==
    [][SendAccepted \/ SendLost
        => \A s \in dlv.cur : posts[s] > 0 => s \in unsure]_vars

\* A delivery is only queued from a snapshot that was fetched after the
\* target was last switched on (the generation guard of the recording
\* transaction against a poll that was under way).
QueuedIsFresh ==
    [][\A s \in Showtimes :
        status[s] = "none" /\ status'[s] = "pending"
            => TargetOf[s] \notin overtaken]_vars

\* The pipeline keeps the ledger's promises.
Ledger == INSTANCE AlertLedger WITH posted <- {s \in Showtimes : posts[s] > 0}
RefinesLedger == Ledger!LedgerSpec

\* A pending delivery of a target that stays ON is settled or withdrawn.
PendingSettles ==
    \A s \in Showtimes :
        status[s] = "pending"
            ~> (status[s] # "pending" \/ ~enabled[TargetOf[s]])

\* A target whose channel turned out to be unavailable is switched off.
UnavailableSwitchedOff ==
    \A s \in Showtimes :
        (dlv.pc = "gone" /\ s \in dlv.cur) ~> ~enabled[TargetOf[s]]

\* docs/self-hosted.md:152: showtimes open when a target is switched on are
\* not alerted; here, the delivery never starts to send one.
SkippedNeverSent ==
    [][dlv.pc = "next" /\ dlv'.pc = "send"
        => dlv'.cur \cap skipped = {}]_vars
=============================================================================
