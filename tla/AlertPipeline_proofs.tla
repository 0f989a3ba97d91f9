------------------------ MODULE AlertPipeline_proofs ------------------------
(***************************************************************************)
(* The safety properties of AlertPipeline, proved for all its constants.   *)
(* IInv is inductive relative to TypeOK.  Its parts are proved apart: for  *)
(* each there is a lemma that says which steps can touch its variables and *)
(* one that goes through those steps.                                      *)
(***************************************************************************)
EXTENDS AlertPipeline, TLAPS

\* The values the code starts and restarts with have their types.
LEMMA IdleStates ==
    /\ AllOff \in [Targets -> BOOLEAN]
    /\ CtlIdle \in ControlState
    /\ DlvIdle \in DeliveryState
<1>1. AllOff \in [Targets -> BOOLEAN]
  BY DEF AllOff
<1>. QED
  BY <1>1 DEF CtlIdle, DlvIdle, ControlState, DeliveryState

\* Going on to the next group, or ending, leaves a proper delivery state.
LEMMA DeliveryOverType ==
    ASSUME NEW rows \in SUBSET Showtimes
    PROVE  DeliveryOver(rows) \in DeliveryState
BY IdleStates DEF DeliveryOver, DeliveryState

\* Saving a target's state changes its ON/OFF state and its generation only.
LEMMA Saved ==
    ASSUME NEW t \in Targets, NEW on \in BOOLEAN, SaveTargetState(t, on),
           enabled \in [Targets -> BOOLEAN], generation \in [Targets -> Nat]
    PROVE  /\ enabled' \in [Targets -> BOOLEAN]
           /\ generation' \in [Targets -> Nat]
           /\ generation'[t] = generation[t] + 1
           /\ \A u \in Targets \ {t} : generation'[u] = generation[u]
BY DEF SaveTargetState

\* Every variable keeps a value the code can give it.
THEOREM TypeCorrect == Spec => []TypeOK
<1>. USE PipelineAssumption DEF TypeOK, ControlState,
     DeliveryState
<1>1. Init => TypeOK
  <2>. SUFFICES ASSUME Init PROVE TypeOK
    OBVIOUS
  <2>1. /\ ctl \in ControlState
        /\ dlv \in DeliveryState
        /\ enabled \in [Targets -> BOOLEAN]
        /\ panel \in [Targets -> BOOLEAN]
        /\ left \in 0..BurstAttempts
        /\ posts \in [Showtimes -> 0..2]
        /\ crashes \in Nat
        /\ dbErrors \in Nat
    BY IdleStates DEF Init
  <2>. QED
    BY <2>1 DEF Init
<1>2. TypeOK /\ [Next]_vars => TypeOK'
  <2>. SUFFICES ASSUME TypeOK, [Next]_vars PROVE TypeOK'
    OBVIOUS
  <2>. USE DEF db, discord, bursts, polls, observed, faults, ShowtimesOf, TargetsAt
  <2>1. ASSUME NEW t \in Targets, NEW ids \in SUBSET ShowtimesOf(t),
               EnableFetch(t, ids)
        PROVE  TypeOK'
    BY <2>1, IdleStates DEF EnableFetch, MutexFree
  <2>2. ASSUME NEW t \in Targets, Disable(t) PROVE TypeOK'
    BY <2>2, IdleStates, Saved DEF Disable, RefreshPanel, MutexFree
  <2>3. CASE SelectTarget
    BY <2>3, IdleStates DEF SelectTarget, RefreshPanel, MutexFree
  <2>4. CASE Initialize
    BY <2>4, IdleStates DEF Initialize, MutexFree
  <2>5. CASE EnableBaseline
    <3>1. PICK t \in ctl.todo : ReplaceBaseline(t, ctl.ids)
                                /\ skipped' = (skipped \ ShowtimesOf(t)) \cup ctl.ids
                                /\ recalled' = recalled \cup (Withdrawn(t) \cap Listed)
      BY <2>5 DEF EnableBaseline
    <3>2. ctl' \in ControlState
      BY <2>5 DEF EnableBaseline
    <3>3. /\ status' \in [Showtimes -> {"none", "pending", "sent", "failed"}]
          /\ attempts' \in [Showtimes -> Nat]
          /\ baseline' \subseteq Showtimes
      BY <3>1 DEF ReplaceBaseline, Pending, Withdrawn
    <3>4. recalled' \subseteq Showtimes
      BY <3>1 DEF Withdrawn
    <3>. QED
      BY <2>5, <3>1, <3>2, <3>3, <3>4 DEF EnableBaseline
  <2>6. CASE EnableSave
    BY <2>6, IdleStates, Saved DEF EnableSave, RefreshPanel
  <2>7. ASSUME NEW t \in Targets, InitializeTarget(t) PROVE TypeOK'
    <3>1. enabled' \in [Targets -> BOOLEAN] /\ generation' \in [Targets -> Nat]
      BY <2>7, Saved DEF InitializeTarget
    <3>2. ctl' \in ControlState
      BY <2>7, <3>1 DEF InitializeTarget, RefreshPanel
    <3>. QED
      BY <2>7, <3>1, <3>2 DEF InitializeTarget
  <2>8. CASE InitializeFails
    BY <2>8, IdleStates DEF InitializeFails
  <2>9. CASE UpsertPanel
    BY <2>9, IdleStates, DeliveryOverType DEF UpsertPanel
  <2>10. CASE StartBurst
    BY <2>10 DEF StartBurst
  <2>11. CASE StartAttempt
    BY <2>11 DEF StartAttempt, AttemptsLeft
  <2>12. CASE EndBurst
    BY <2>12 DEF EndBurst
  <2>13. ASSUME NEW b \in Branches, NEW listed \in SUBSET Polled(b),
                Fetch(b, listed)
         PROVE  TypeOK'
    BY <2>13 DEF Fetch, Polled
  <2>14. ASSUME NEW b \in Branches, FetchFails(b) PROVE TypeOK'
    BY <2>14 DEF FetchFails
  <2>15. ASSUME NEW t \in Targets, RecordSnapshot(t) PROVE TypeOK'
    BY <2>15 DEF RecordSnapshot, Handled, Snapshot, Fresh
  <2>16. ASSUME NEW t \in Targets, DropSnapshot(t) PROVE TypeOK'
    BY <2>16 DEF DropSnapshot, Handled
  <2>17. ASSUME NEW b \in Branches, StartDelivery(b) PROVE TypeOK'
    BY <2>17 DEF StartDelivery, DeliveryOver, DlvIdle, Deliverable, Pending
  <2>18. ASSUME NEW s \in Showtimes, StartGroup(s) PROVE TypeOK'
    <3>1. dlv' \in DeliveryState
      BY <2>18, DeliveryOverType DEF StartGroup, Group, Rest
    <3>. QED
      BY <2>18, <3>1 DEF StartGroup, Rest
  <2>19. CASE SendAccepted
    BY <2>19 DEF SendAccepted, Posted
  <2>20. CASE SendLost
    BY <2>20 DEF SendLost, Posted
  <2>21. CASE SendRefused
    BY <2>21 DEF SendRefused
  <2>22. CASE SendUnavailable
    BY <2>22 DEF SendUnavailable
  <2>23. CASE MarkSent
    <3>1. dlv' \in DeliveryState
      BY <2>23, DeliveryOverType DEF MarkSent
    <3>. QED
      BY <2>23, <3>1 DEF MarkSent, UpdateDeliveries
  <2>24. CASE MarkFailedAttempt
    <3>1. dlv' \in DeliveryState
      BY <2>24, DeliveryOverType DEF MarkFailedAttempt, AfterFailedAttempt
    <3>. QED
      BY <2>24, <3>1 DEF MarkFailedAttempt, UpdateDeliveries, AfterFailedAttempt
  <2>25. CASE MarkUnavailable
    BY <2>25 DEF MarkUnavailable, UpdateDeliveries
  <2>26. CASE DisableUnavailable
    <3>1. PICK s \in dlv.cur : SaveTargetState(TargetOf[s], FALSE)
      BY <2>26 DEF DisableUnavailable, MutexFree
    <3>2. TargetOf[s] \in Targets
      OBVIOUS
    <3>3. enabled' \in [Targets -> BOOLEAN] /\ generation' \in [Targets -> Nat]
      BY <3>1, <3>2, Saved
    <3>. QED
      BY <2>26, <3>3, IdleStates DEF DisableUnavailable, RefreshPanel, MutexFree
  <2>27. CASE ControlDbError
    BY <2>27, IdleStates DEF ControlDbError, DbError
  <2>28. ASSUME NEW t \in Targets, RecordDbError(t) PROVE TypeOK'
    BY <2>28 DEF RecordDbError, DbError, Handled
  <2>29. ASSUME NEW b \in Branches, ListDbError(b) PROVE TypeOK'
    BY <2>29 DEF ListDbError, DbError
  <2>30. CASE DeliveryDbError
    <3>1. dlv' \in DeliveryState
      BY <2>30, DeliveryOverType DEF DeliveryDbError, Rest
    <3>. QED
      BY <2>30, <3>1 DEF DeliveryDbError, DbError, Rest
  <2>31. CASE Crash
    <3>1. ctl' \in ControlState /\ dlv' \in DeliveryState
      BY <2>31, IdleStates DEF Crash
    <3>2. left' \in 0..BurstAttempts /\ crashes' \in Nat
      BY <2>31 DEF Crash
    <3>3. running' \in BOOLEAN /\ seen' \subseteq Showtimes /\ todo' \subseteq Targets
      BY <2>31 DEF Crash
    <3>4. unsure' \subseteq Showtimes /\ recalled' \subseteq Showtimes
      BY <2>31 DEF Crash
    <3>5. /\ polled' \in [Targets -> Nat]
          /\ poll' \in [Branches -> {"out", "preparing", "ready", "fetching",
                                     "recording", "done"}]
      BY <2>31 DEF Crash
    <3>6. UNCHANGED <<enabled, generation, baseline, status, attempts, panel,
                      posts, skipped, overtaken, dbErrors>>
      BY <2>31 DEF Crash
    <3>. QED
      BY <3>1, <3>2, <3>3, <3>4, <3>5, <3>6
  <2>32. CASE UNCHANGED vars
    BY <2>32 DEF vars
  <2>. QED
    BY <2>1, <2>2, <2>3, <2>4, <2>5, <2>6, <2>7, <2>8, <2>9, <2>10, <2>11,
       <2>12, <2>13, <2>14, <2>15, <2>16, <2>17, <2>18, <2>19, <2>20, <2>21,
       <2>22, <2>23, <2>24, <2>25, <2>26, <2>27, <2>28, <2>29, <2>30, <2>31,
       <2>32
       DEF Next, OwnerStep, ControlStep, BurstStep, PollStep, DeliveryStep,
           FaultStep
<1>3. QED
  BY <1>1, <1>2, PTL DEF Spec

-----------------------------------------------------------------------------
\* The steps that write delivery rows; every other step leaves them alone.
LEMMA RowSteps ==
    ASSUME [Next]_vars
    PROVE  \/ EnableBaseline
           \/ \E t \in Targets : RecordSnapshot(t)
           \/ MarkSent
           \/ MarkFailedAttempt
           \/ MarkUnavailable
           \/ UNCHANGED <<status, attempts>>
BY DEF Next, OwnerStep, ControlStep, BurstStep, PollStep, DeliveryStep, FaultStep,
       vars, db, EnableFetch, EnableSave, Disable, SelectTarget, Initialize,
       InitializeTarget, InitializeFails, UpsertPanel, StartBurst, StartAttempt,
       EndBurst, Fetch, FetchFails, DropSnapshot, StartDelivery, StartGroup,
       SendAccepted, SendLost, SendRefused, SendUnavailable, DisableUnavailable,
       ControlDbError, RecordDbError, ListDbError, DeliveryDbError, Crash, TargetsAt

\* A row may still be sent only while it has attempts left.
LEMMA AttemptsStep ==
    ASSUME TypeOK, AttemptsBounded, [Next]_vars
    PROVE  AttemptsBounded'
<1>. USE DEF TypeOK, AttemptsBounded, MaxTries
<1>1. CASE EnableBaseline
  BY <1>1 DEF EnableBaseline, ReplaceBaseline, Pending, Withdrawn
<1>2. ASSUME NEW t \in Targets, RecordSnapshot(t) PROVE AttemptsBounded'
  BY <1>2 DEF RecordSnapshot, Snapshot, Fresh
<1>3. CASE MarkSent
  BY <1>3 DEF MarkSent, UpdateDeliveries, Pending
<1>4. CASE MarkFailedAttempt
  BY <1>4 DEF MarkFailedAttempt, UpdateDeliveries, Pending, AfterFailedAttempt
<1>5. CASE MarkUnavailable
  BY <1>5 DEF MarkUnavailable, UpdateDeliveries, Pending
<1>6. CASE UNCHANGED <<status, attempts>>
  BY <1>6
<1>. QED
  BY <1>1, <1>2, <1>3, <1>4, <1>5, <1>6, RowSteps

\* The part of the invariant about the baseline and what was skipped.
BaselineOK == BaselineExplained /\ SkippedNotQueued /\ BaselineInv

\* The steps that change the control operation under way.
LEMMA ControlSteps ==
    ASSUME [Next]_vars
    PROVE  \/ \E t \in Targets, ids \in SUBSET Showtimes :
                 ids \subseteq ShowtimesOf(t) /\ EnableFetch(t, ids)
           \/ EnableBaseline
           \/ EnableSave
           \/ \E t \in Targets : Disable(t)
           \/ SelectTarget
           \/ Initialize
           \/ \E t \in Targets : InitializeTarget(t)
           \/ DisableUnavailable
           \/ ctl' = CtlIdle
           \/ UNCHANGED <<ctl, enabled>>
BY DEF Next, OwnerStep, ControlStep, BurstStep, PollStep, DeliveryStep, FaultStep,
       vars, db, InitializeFails, UpsertPanel, StartBurst, StartAttempt,
       EndBurst, Fetch, FetchFails, RecordSnapshot, DropSnapshot, StartDelivery,
       StartGroup, SendAccepted, SendLost, SendRefused, SendUnavailable,
       MarkSent, MarkFailedAttempt, MarkUnavailable,
       ControlDbError, RecordDbError, ListDbError, DeliveryDbError, Crash,
       TargetsAt, ShowtimesOf, AttemptsLeft, Snapshot, Fresh, Rest,
       AfterFailedAttempt

\* The steps that write delivery rows, the baseline or what was skipped.
LEMMA BaselineSteps ==
    ASSUME [Next]_vars
    PROVE  \/ EnableBaseline
           \/ \E t \in Targets : RecordSnapshot(t)
           \/ MarkSent
           \/ MarkFailedAttempt
           \/ MarkUnavailable
           \/ UNCHANGED <<status, baseline, skipped>>
BY DEF Next, OwnerStep, ControlStep, BurstStep, PollStep, DeliveryStep, FaultStep,
       vars, db, observed, EnableFetch, EnableSave, Disable, SelectTarget,
       Initialize,
       InitializeTarget, InitializeFails, UpsertPanel, StartBurst, StartAttempt,
       EndBurst, Fetch, FetchFails, DropSnapshot, StartDelivery, StartGroup,
       SendAccepted, SendLost, SendRefused, SendUnavailable, DisableUnavailable,
       ControlDbError, RecordDbError, ListDbError, DeliveryDbError, Crash, TargetsAt

\* The ids a switch-on has fetched stay those of its target.
LEMMA FetchedStep ==
    ASSUME TypeOK, [Next]_vars, ctl'.op = "fetched"
    PROVE  \/ UNCHANGED ctl
           \/ \A t \in ctl'.todo : ctl'.ids \subseteq ShowtimesOf(t)
<1>1. ASSUME NEW t \in Targets, NEW ids \in SUBSET Showtimes,
             ids \subseteq ShowtimesOf(t), EnableFetch(t, ids)
      PROVE  \A u \in ctl'.todo : ctl'.ids \subseteq ShowtimesOf(u)
  BY <1>1 DEF EnableFetch, MutexFree
<1>2. ASSUME EnableBaseline PROVE FALSE
  BY <1>2 DEF EnableBaseline, TypeOK, ControlState
<1>3. ASSUME NEW states, RefreshPanel(states) PROVE FALSE
  BY <1>3 DEF RefreshPanel
<1>6. ~EnableSave /\ ~SelectTarget /\ ~DisableUnavailable /\ \A t \in Targets : ~Disable(t)
  BY <1>3 DEF EnableSave, Disable, SelectTarget, DisableUnavailable, MutexFree
<1>4. ~Initialize /\ ctl' # CtlIdle
  BY DEF Initialize, CtlIdle, MutexFree
<1>5. ~ \E t \in Targets : InitializeTarget(t)
  BY DEF InitializeTarget, RefreshPanel, TypeOK, ControlState
<1>. QED
  BY <1>1, <1>2, <1>3, <1>4, <1>5, <1>6, ControlSteps

\* No step lets the baseline swallow a showtime or leaves a skipped one queued.
LEMMA BaselineStep ==
    ASSUME TypeOK, BaselineOK, [Next]_vars
    PROVE  BaselineOK'
<1>. USE DEF TypeOK, BaselineOK, BaselineExplained, SkippedNotQueued, BaselineInv,
             Pending
<1>1. ctl'.op = "fetched" => \A t \in ctl'.todo : ctl'.ids \subseteq ShowtimesOf(t)
  BY FetchedStep
<1>2. CASE EnableBaseline
  <2>1. PICK t \in ctl.todo : /\ ReplaceBaseline(t, ctl.ids)
                              /\ skipped' = (skipped \ ShowtimesOf(t)) \cup ctl.ids
    BY <1>2 DEF EnableBaseline
  <2>2. ctl.ids \subseteq ShowtimesOf(t) /\ ctl'.op # "fetched"
    BY <1>2 DEF EnableBaseline, ControlState
  <2>3. \A s \in Showtimes :
           status'[s] = IF s \in ShowtimesOf(t) /\ status[s] = "pending"
                        THEN "none" ELSE status[s]
    BY <2>1 DEF ReplaceBaseline, Withdrawn
  <2>4. baseline' = (baseline \ ShowtimesOf(t)) \cup ctl.ids
    BY <2>1 DEF ReplaceBaseline, Withdrawn
  <2>. QED
    BY <2>1, <2>2, <2>3, <2>4 DEF ControlState
<1>3. ASSUME NEW t \in Targets, RecordSnapshot(t) PROVE BaselineOK'
  BY <1>1, <1>3 DEF RecordSnapshot, observed, Snapshot, Fresh
<1>4. CASE MarkSent
  BY <1>1, <1>4 DEF MarkSent, UpdateDeliveries, observed
<1>5. CASE MarkFailedAttempt
  BY <1>1, <1>5 DEF MarkFailedAttempt, UpdateDeliveries, observed,
                    AfterFailedAttempt
<1>6. CASE MarkUnavailable
  BY <1>1, <1>6 DEF MarkUnavailable, UpdateDeliveries, observed
<1>7. CASE UNCHANGED <<status, baseline, skipped>>
  BY <1>1, <1>7
<1>. QED
  BY <1>2, <1>3, <1>4, <1>5, <1>6, <1>7, BaselineSteps

\* No step outdates the states an operation is about to show.
LEMMA PanelStep ==
    ASSUME TypeOK, PanelCurrent, [Next]_vars
    PROVE  PanelCurrent'
<1>. USE DEF PanelCurrent
<1>1. ASSUME NEW t \in Targets, NEW ids \in SUBSET Showtimes, EnableFetch(t, ids)
      PROVE  PanelCurrent'
  BY <1>1 DEF EnableFetch, MutexFree
<1>2. CASE EnableBaseline
  BY <1>2 DEF EnableBaseline, TypeOK, ControlState
<1>3. ASSUME RefreshPanel(enabled') PROVE PanelCurrent'
  BY <1>3 DEF RefreshPanel
<1>9. ASSUME EnableSave \/ (\E t \in Targets : Disable(t)) \/ DisableUnavailable
      PROVE  PanelCurrent'
  BY <1>3, <1>9 DEF EnableSave, Disable, DisableUnavailable, MutexFree
<1>4. CASE SelectTarget
  BY <1>4 DEF SelectTarget, RefreshPanel, db, MutexFree
<1>5. CASE Initialize
  BY <1>5 DEF Initialize, MutexFree
<1>6. ASSUME NEW t \in Targets, InitializeTarget(t) PROVE PanelCurrent'
  BY <1>6 DEF InitializeTarget, RefreshPanel, TypeOK, ControlState
<1>7. CASE ctl' = CtlIdle
  BY <1>7 DEF CtlIdle
<1>8. CASE UNCHANGED <<ctl, enabled>>
  BY <1>8
<1>. QED
  BY <1>1, <1>2, <1>3, <1>4, <1>5, <1>6, <1>7, <1>8, <1>9, ControlSteps

-----------------------------------------------------------------------------
\* The part of the invariant about posts and the delivery under way.
DeliveryOK == SentWasPosted /\ DeliveryInv

\* The steps that write rows, post messages or move the delivery.
LEMMA DeliverySteps ==
    ASSUME [Next]_vars
    PROVE  \/ EnableBaseline
           \/ UpsertPanel
           \/ \E t \in Targets : RecordSnapshot(t)
           \/ \E b \in Branches : StartDelivery(b)
           \/ \E s \in Showtimes : StartGroup(s)
           \/ SendAccepted
           \/ SendLost
           \/ SendRefused
           \/ SendUnavailable
           \/ MarkSent
           \/ MarkFailedAttempt
           \/ MarkUnavailable
           \/ DisableUnavailable
           \/ DeliveryDbError
           \/ Crash
           \/ UNCHANGED <<status, posts, dlv, recalled, unsure>>
BY DEF Next, OwnerStep, ControlStep, BurstStep, PollStep, DeliveryStep, FaultStep,
       vars, db, discord, observed, EnableFetch, EnableSave, Disable, SelectTarget,
       Initialize, InitializeTarget, InitializeFails, StartBurst, StartAttempt,
       EndBurst, Fetch, FetchFails, DropSnapshot, ControlDbError, RecordDbError,
       ListDbError, TargetsAt

\* No step lets an unmarked post without a reason or an unposted "sent" row arise.
LEMMA DeliveryStepOK ==
    ASSUME TypeOK, DeliveryOK, [Next]_vars
    PROVE  DeliveryOK'
<1>. USE DEF TypeOK, DeliveryState, DeliveryOK, SentWasPosted,
             DeliveryInv, Listed, Pending, observed, discord, db
<1>1. CASE EnableBaseline
  BY <1>1 DEF EnableBaseline, ReplaceBaseline, ShowtimesOf, Withdrawn
<1>2. CASE UpsertPanel
  BY <1>2 DEF UpsertPanel, DeliveryOver, DlvIdle
<1>3. ASSUME NEW t \in Targets, RecordSnapshot(t) PROVE DeliveryOK'
  BY <1>3 DEF RecordSnapshot, Snapshot, Fresh
<1>4. ASSUME NEW b \in Branches, StartDelivery(b) PROVE DeliveryOK'
  BY <1>4 DEF StartDelivery, DeliveryOver, DlvIdle, Deliverable
<1>5. ASSUME NEW s \in Showtimes, StartGroup(s) PROVE DeliveryOK'
  BY <1>5 DEF StartGroup, DeliveryOver, DlvIdle, Group, Rest
<1>6. CASE SendAccepted
  BY <1>6 DEF SendAccepted, Posted
<1>7. CASE SendLost
  BY <1>7 DEF SendLost, Posted
<1>8. CASE SendRefused
  BY <1>8 DEF SendRefused
<1>9. CASE SendUnavailable
  BY <1>9 DEF SendUnavailable
<1>10. CASE MarkSent
  <2>1. CASE dlv.cur \subseteq Pending
    BY <1>10, <2>1 DEF MarkSent, UpdateDeliveries, DeliveryOver, DlvIdle
  <2>2. CASE ~(dlv.cur \subseteq Pending)
    <3>1. PICK s \in dlv.cur : s \notin Pending
      BY <2>2
    <3>2. s \in recalled
      BY <1>10, <3>1 DEF MarkSent
    <3>3. unsure' = unsure \cup dlv.cur
      BY <1>10, <3>1, <3>2 DEF MarkSent
    <3>. QED
      BY <1>10, <2>2, <3>3 DEF MarkSent, UpdateDeliveries, DeliveryOver, DlvIdle
  <2>. QED
    BY <2>1, <2>2
<1>11. CASE MarkFailedAttempt
  BY <1>11 DEF MarkFailedAttempt, UpdateDeliveries, DeliveryOver, DlvIdle,
               AfterFailedAttempt
<1>12. CASE MarkUnavailable
  BY <1>12 DEF MarkUnavailable, UpdateDeliveries
<1>13. CASE DisableUnavailable
  BY <1>13 DEF DisableUnavailable, MutexFree
<1>14. CASE DeliveryDbError
  BY <1>14 DEF DeliveryDbError, DeliveryOver, DlvIdle, Group, Rest
<1>15. CASE Crash
  BY <1>15 DEF Crash, DlvIdle
<1>16. CASE UNCHANGED <<status, posts, dlv, recalled, unsure>>
  BY <1>16
<1>. QED
  BY <1>1, <1>2, <1>3, <1>4, <1>5, <1>6, <1>7, <1>8, <1>9, <1>10, <1>11, <1>12,
     <1>13, <1>14, <1>15, <1>16, DeliverySteps

-----------------------------------------------------------------------------
\* The steps that move a poll, a generation or the record of switch-ons.
LEMMA PollSteps ==
    ASSUME [Next]_vars
    PROVE  \/ EnableSave
           \/ \E t \in Targets : Disable(t)
           \/ \E t \in Targets : InitializeTarget(t)
           \/ DisableUnavailable
           \/ StartBurst
           \/ StartAttempt
           \/ EndBurst
           \/ \E b \in Branches, listed \in SUBSET Showtimes : Fetch(b, listed)
           \/ \E b \in Branches : FetchFails(b)
           \/ \E t \in Targets : Handled(t) /\ UNCHANGED <<bursts, generation, overtaken>>
           \/ \E b \in Branches : /\ poll[b] = "done"
                                  /\ poll' = [poll EXCEPT ![b] = "ready"]
                                  /\ UNCHANGED <<bursts, todo, generation, overtaken>>
           \/ Crash
           \/ UNCHANGED <<bursts, poll, todo, generation, overtaken>>
BY DEF Next, OwnerStep, ControlStep, BurstStep, PollStep, DeliveryStep, FaultStep,
       vars, db, polls, bursts, observed, EnableFetch, EnableBaseline, SelectTarget,
       Initialize, InitializeFails, UpsertPanel, RecordSnapshot, DropSnapshot,
       StartDelivery, StartGroup, SendAccepted, SendLost, SendRefused,
       SendUnavailable, MarkSent, MarkFailedAttempt, MarkUnavailable,
       ControlDbError, RecordDbError, ListDbError, DeliveryDbError, TargetsAt,
       Polled

\* A save of a target moves generations forward only.
LEMMA GenerationGrows ==
    ASSUME TypeOK, NEW t \in Targets, NEW on \in BOOLEAN, SaveTargetState(t, on)
    PROVE  /\ generation'[t] = generation[t] + 1
           /\ \A u \in Targets \ {t} : generation'[u] = generation[u]
BY DEF TypeOK, SaveTargetState

\* A snapshot under way never outlives its burst or passes its generation.
LEMMA PollStepOK ==
    ASSUME TypeOK, PollInv, [Next]_vars
    PROVE  PollInv'
<1>. USE PipelineAssumption DEF TypeOK, PollInv, TargetsAt
<1>1. CASE EnableSave
  <2>1. PICK t \in Targets : SaveTargetState(t, TRUE) /\ overtaken' = overtaken \cup {t}
    BY <1>1 DEF EnableSave, ControlState
  <2>2. /\ generation'[t] = generation[t] + 1
        /\ \A u \in Targets \ {t} : generation'[u] = generation[u]
    BY <2>1, GenerationGrows
  <2>3. UNCHANGED <<running, poll, todo, polled>>
    BY <1>1 DEF EnableSave, bursts, polls
  <2>4. \A u \in Targets : polled[u] <= generation'[u]
    BY <2>2
  <2>5. \A u \in todo \cap (overtaken \cup {t}) : polled[u] # generation'[u]
    BY <2>2
  <2>. QED
    BY <2>1, <2>3, <2>4, <2>5
<1>2. ASSUME NEW t \in Targets, NEW on \in BOOLEAN, SaveTargetState(t, on),
             UNCHANGED <<bursts, polls, observed>>
      PROVE  PollInv'
  BY <1>2, GenerationGrows DEF bursts, polls, observed
<1>3. CASE StartBurst
  BY <1>3 DEF StartBurst, db, observed
<1>4. CASE StartAttempt
  <2>1. todo = {}
    BY <1>4 DEF StartAttempt, AttemptOver, AttemptsLeft
  <2>. QED
    BY <1>4, <2>1 DEF StartAttempt, db, observed, AttemptsLeft
<1>5. CASE EndBurst
  <2>1. todo = {}
    BY <1>5 DEF EndBurst, AttemptOver
  <2>. QED
    BY <1>5, <2>1 DEF EndBurst, db, observed
<1>6. ASSUME NEW b \in Branches, NEW listed \in SUBSET Showtimes, Fetch(b, listed)
      PROVE  PollInv'
  BY <1>6 DEF Fetch, db, bursts
<1>7. ASSUME NEW b \in Branches, FetchFails(b) PROVE PollInv'
  BY <1>7 DEF FetchFails, db, bursts, observed
<1>8. ASSUME NEW t \in Targets, Handled(t), UNCHANGED <<bursts, generation, overtaken>>
      PROVE  PollInv'
  BY <1>8 DEF Handled, bursts
<1>9. ASSUME NEW b \in Branches, poll[b] = "done", poll' = [poll EXCEPT ![b] = "ready"],
             UNCHANGED <<bursts, todo, generation, overtaken>>
      PROVE  PollInv'
  BY <1>9 DEF bursts
<1>10. CASE Crash
  BY <1>10 DEF Crash, db
<1>11. CASE UNCHANGED <<bursts, poll, todo, generation, overtaken>>
  BY <1>11 DEF bursts
<1>12. ASSUME NEW t \in Targets, Disable(t) PROVE PollInv'
  BY <1>12, <1>2 DEF Disable, MutexFree
<1>13. ASSUME NEW t \in Targets, InitializeTarget(t) PROVE PollInv'
  BY <1>13, <1>2 DEF InitializeTarget
<1>14. CASE DisableUnavailable
  <2>1. PICK s \in dlv.cur : SaveTargetState(TargetOf[s], FALSE)
    BY <1>14 DEF DisableUnavailable, MutexFree
  <2>2. TargetOf[s] \in Targets
    BY DEF DeliveryState
  <2>. QED
    BY <1>14, <2>1, <2>2, <1>2 DEF DisableUnavailable, MutexFree
<1>. QED
  BY <1>1, <1>3, <1>4, <1>5, <1>6, <1>7, <1>8, <1>9, <1>10, <1>11, <1>12, <1>13,
     <1>14, PollSteps

\* A step that queues a row does so for a target not overtaken by a switch-on.
LEMMA FreshStep ==
    ASSUME TypeOK, PollInv, [Next]_vars, NEW s \in Showtimes,
           status[s] = "none", status'[s] = "pending"
    PROVE  TargetOf[s] \notin overtaken
<1>. USE PipelineAssumption DEF TypeOK, PollInv, Pending
<1>1. CASE EnableBaseline
  BY <1>1 DEF EnableBaseline, ReplaceBaseline, Withdrawn
<1>2. ASSUME NEW t \in Targets, RecordSnapshot(t) PROVE TargetOf[s] \notin overtaken
  BY <1>2 DEF RecordSnapshot, Handled, Current, ShowtimesOf, Snapshot, Fresh
<1>3. CASE MarkSent \/ MarkFailedAttempt \/ MarkUnavailable
  BY <1>3 DEF MarkSent, MarkFailedAttempt, MarkUnavailable, UpdateDeliveries,
              AfterFailedAttempt
<1>4. CASE UNCHANGED <<status, attempts>>
  BY <1>4
<1>. QED
  BY <1>1, <1>2, <1>3, <1>4, RowSteps

\* No step changes a settled row.
LEMMA SettledStep ==
    ASSUME TypeOK, [Next]_vars, NEW s \in Showtimes, status[s] \in {"sent", "failed"}
    PROVE  status'[s] = status[s] /\ attempts'[s] = attempts[s]
<1>. USE DEF TypeOK, Pending
<1>1. CASE EnableBaseline
  BY <1>1 DEF EnableBaseline, ReplaceBaseline, Withdrawn
<1>2. ASSUME NEW t \in Targets, RecordSnapshot(t)
      PROVE  status'[s] = status[s] /\ attempts'[s] = attempts[s]
  BY <1>2 DEF RecordSnapshot, Snapshot, Fresh
<1>3. CASE MarkSent \/ MarkFailedAttempt \/ MarkUnavailable
  BY <1>3 DEF MarkSent, MarkFailedAttempt, MarkUnavailable, UpdateDeliveries,
              AfterFailedAttempt
<1>4. CASE UNCHANGED <<status, attempts>>
  BY <1>4
<1>. QED
  BY <1>1, <1>2, <1>3, <1>4, RowSteps

-----------------------------------------------------------------------------
\* The steps the ledger can see.
LEMMA LedgerSteps ==
    ASSUME [Next]_vars
    PROVE  \/ EnableBaseline
           \/ \E t \in Targets : RecordSnapshot(t)
           \/ SendAccepted
           \/ SendLost
           \/ MarkSent
           \/ MarkFailedAttempt
           \/ MarkUnavailable
           \/ UNCHANGED <<status, attempts, posts>>
BY DEF Next, OwnerStep, ControlStep, BurstStep, PollStep, DeliveryStep, FaultStep,
       vars, db, discord, EnableFetch, EnableSave, Disable, SelectTarget,
       Initialize, InitializeTarget, InitializeFails, UpsertPanel, StartBurst,
       StartAttempt, EndBurst, Fetch, FetchFails, DropSnapshot, StartDelivery,
       StartGroup, SendRefused, SendUnavailable, DisableUnavailable,
       ControlDbError, RecordDbError, ListDbError, DeliveryDbError, Crash, TargetsAt

\* Every step is a step of the ledger or leaves it unchanged.
LEMMA LedgerStep ==
    ASSUME TypeOK, DeliveryOK, [Next]_vars
    PROVE  [Ledger!LedgerNext]_(Ledger!ledgerVars)
<1>. DEFINE posted == {s \in Showtimes : posts[s] > 0}
<1>. USE DEF TypeOK, DeliveryOK, DeliveryState
<1>1. CASE EnableBaseline
  <2>1. PICK t \in ctl.todo : ReplaceBaseline(t, ctl.ids)
    BY <1>1 DEF EnableBaseline
  <2>2. Ledger!Withdraw(ShowtimesOf(t) \cap Pending)
    BY <1>1, <2>1 DEF EnableBaseline, ReplaceBaseline, Pending, discord,
                      Ledger!Withdraw, Withdrawn, Ledger!Pending
  <2>. QED
    BY <2>2 DEF Ledger!LedgerNext, Pending
<1>2. ASSUME NEW t \in Targets, RecordSnapshot(t) PROVE Ledger!LedgerNext
  <2>. DEFINE fresh == {s \in (seen \cap ShowtimesOf(t)) \ baseline : status[s] = "none"}
  <2>1. Ledger!Queue(fresh)
    BY <1>2 DEF RecordSnapshot, discord, Ledger!Queue, Snapshot, Fresh
  <2>2. fresh \in SUBSET Showtimes
    OBVIOUS
  <2>. QED
    BY <2>1, <2>2 DEF Ledger!LedgerNext
<1>3. CASE SendAccepted \/ SendLost
  <2>1. PICK S \in SUBSET Showtimes : S = dlv.cur
    OBVIOUS
  <2>2. Ledger!Post(S)
    <3>1. posts' = Posted /\ UNCHANGED <<status, attempts>> /\ dlv.pc = "send"
      BY <1>3 DEF SendAccepted, SendLost, db
    <3>2. {s \in Showtimes : posts'[s] > 0} = posted \cup S
      BY <2>1, <3>1 DEF Posted
    <3>3. \A s \in S : Ledger!Open(s)
      BY <2>1, <3>1 DEF DeliveryInv, Listed, Ledger!Open
    <3>. QED
      BY <3>1, <3>2, <3>3 DEF Ledger!Post
  <2>. QED
    BY <2>2 DEF Ledger!LedgerNext
<1>4. CASE MarkSent
  <2>1. CASE dlv.cur \subseteq Pending
    <3>1. Ledger!Sent(dlv.cur)
      BY <1>4, <2>1 DEF MarkSent, UpdateDeliveries, Pending, discord, DeliveryInv,
                        Ledger!Sent, Ledger!Settle, Ledger!Pending
    <3>. QED
      BY <3>1 DEF Ledger!LedgerNext
  <2>2. CASE ~(dlv.cur \subseteq Pending)
    BY <1>4, <2>2 DEF MarkSent, UpdateDeliveries, discord, Ledger!ledgerVars
  <2>. QED
    BY <2>1, <2>2
<1>5. CASE MarkFailedAttempt
  <2>1. CASE dlv.cur \subseteq Pending
    <3>1. Ledger!Retry(dlv.cur)
      BY <1>5, <2>1 DEF MarkFailedAttempt, UpdateDeliveries, Pending, discord,
                        MaxTries,
                        Ledger!Retry, AfterFailedAttempt, Ledger!MaxTries,
                        Ledger!Pending
    <3>. QED
      BY <3>1 DEF Ledger!LedgerNext
  <2>2. CASE ~(dlv.cur \subseteq Pending)
    BY <1>5, <2>2 DEF MarkFailedAttempt, UpdateDeliveries, discord,
                      Ledger!ledgerVars, AfterFailedAttempt
  <2>. QED
    BY <2>1, <2>2
<1>6. CASE MarkUnavailable
  <2>1. CASE dlv.cur \subseteq Pending
    <3>1. Ledger!GiveUp(dlv.cur)
      BY <1>6, <2>1 DEF MarkUnavailable, UpdateDeliveries, Pending, discord,
                        Ledger!GiveUp, Ledger!Settle, Ledger!Pending
    <3>. QED
      BY <3>1 DEF Ledger!LedgerNext
  <2>2. CASE ~(dlv.cur \subseteq Pending)
    BY <1>6, <2>2 DEF MarkUnavailable, UpdateDeliveries, discord, Ledger!ledgerVars
  <2>. QED
    BY <2>1, <2>2
<1>7. CASE UNCHANGED <<status, attempts, posts>>
  BY <1>7 DEF Ledger!ledgerVars
<1>. QED
  BY <1>1, <1>2, <1>3, <1>4, <1>5, <1>6, <1>7, LedgerSteps


-----------------------------------------------------------------------------
\* The inductive invariant: each part is kept by the steps that can touch it.
THEOREM Invariance == Spec => [](TypeOK /\ IInv)
<1>1. Init => IInv
  <2>. SUFFICES ASSUME Init PROVE IInv
    OBVIOUS
  <2>1. AttemptsBounded /\ BaselineOK
    BY DEF Init, AttemptsBounded, BaselineOK, BaselineExplained, SkippedNotQueued,
           BaselineInv, Pending, CtlIdle
  <2>2. DeliveryOK
    BY DEF Init, DeliveryOK, SentWasPosted, DeliveryInv, Listed, DlvIdle
  <2>3. PanelCurrent /\ PollInv
    BY DEF Init, PanelCurrent, PollInv, CtlIdle
  <2>. QED
    BY <2>1, <2>2, <2>3 DEF IInv, BaselineOK, DeliveryOK
<1>2. TypeOK /\ IInv /\ [Next]_vars => IInv'
  BY AttemptsStep, BaselineStep, DeliveryStepOK, PanelStep, PollStepOK
     DEF IInv, BaselineOK, DeliveryOK
<1>. QED
  BY <1>1, <1>2, TypeCorrect, PTL DEF Spec

\* Attempts stay below three while a row may be sent, and within one to three
\* once it is settled.
THEOREM AttemptsAreBounded == Spec => []AttemptsBounded
<1>1. IInv => AttemptsBounded
  BY DEF IInv
<1>. QED
  BY <1>1, Invariance, PTL

\* The baseline never swallows a showtime.
THEOREM NothingSwallowed == Spec => []BaselineExplained
<1>1. IInv => BaselineExplained
  BY DEF IInv
<1>. QED
  BY <1>1, Invariance, PTL

\* What was open at the last switch-on is never queued.
THEOREM SkippedStaysUnqueued == Spec => []SkippedNotQueued
<1>1. IInv => SkippedNotQueued
  BY DEF IInv
<1>. QED
  BY <1>1, Invariance, PTL

\* A row listed by the delivery is not settled until the delivery settles it.
THEOREM ListedRowsStayOpen == Spec => []ListedStaysOpen
<1>1. IInv => ListedStaysOpen
  BY DEF IInv, DeliveryInv, Listed, ListedStaysOpen
<1>. QED
  BY <1>1, Invariance, PTL

\* A row says "sent" only of a message Discord has accepted.
THEOREM SentMeansPosted == Spec => []SentWasPosted
<1>1. IInv => SentWasPosted
  BY DEF IInv
<1>. QED
  BY <1>1, Invariance, PTL

\* An alert goes to Discord again only after a post of it whose outcome a lost
\* answer, a restart, a database error or a withdrawn row of its group kept from
\* being marked.
THEOREM DuplicatesExplained == Spec => DuplicateExplained
<1>1. TypeOK /\ IInv /\ [Next]_vars
        => [SendAccepted \/ SendLost
             => \A s \in dlv.cur : posts[s] > 0 => s \in unsure]_vars
  <2>. SUFFICES ASSUME TypeOK, IInv, SendAccepted \/ SendLost,
                       NEW s \in dlv.cur, posts[s] > 0
                PROVE  s \in unsure
    OBVIOUS
  <2>1. dlv.pc = "send"
    BY DEF SendAccepted, SendLost
  <2>2. status[s] # "sent"
    BY <2>1 DEF IInv, DeliveryInv, Listed
  <2>. QED
    BY <2>1, <2>2 DEF IInv, DeliveryInv, TypeOK, DeliveryState
<1>. QED
  BY <1>1, Invariance, PTL DEF Spec, DuplicateExplained

\* The control panel is never about to show outdated states.
THEOREM PanelStaysCurrent == Spec => []PanelCurrent
<1>1. IInv => PanelCurrent
  BY DEF IInv
<1>. QED
  BY <1>1, Invariance, PTL

\* A settled row never changes.
THEOREM SettledStays == Spec => SettledForever
<1>1. TypeOK /\ [Next]_vars
        => [\A s \in Showtimes :
              status[s] \in {"sent", "failed"}
                => status'[s] = status[s] /\ attempts'[s] = attempts[s]]_vars
  BY SettledStep
<1>. QED
  BY <1>1, TypeCorrect, PTL DEF Spec, SettledForever

\* Only a snapshot fetched after the last switch-on queues a delivery.
THEOREM QueuedFresh == Spec => QueuedIsFresh
<1>1. TypeOK /\ IInv /\ [Next]_vars
        => [\A s \in Showtimes :
              status[s] = "none" /\ status'[s] = "pending"
                => TargetOf[s] \notin overtaken]_vars
  BY FreshStep DEF IInv
<1>. QED
  BY <1>1, Invariance, PTL DEF Spec, QueuedIsFresh

\* The pipeline implements the ledger.
THEOREM PipelineRefinesLedger == Spec => RefinesLedger
<1>1. Init => Ledger!LedgerInit
  BY DEF Init, Ledger!LedgerInit
<1>2. TypeOK /\ IInv /\ [Next]_vars => [Ledger!LedgerNext]_(Ledger!ledgerVars)
  BY LedgerStep DEF IInv, DeliveryOK
<1>. QED
  BY <1>1, <1>2, Invariance, PTL DEF Spec, RefinesLedger, Ledger!LedgerSpec
=============================================================================
