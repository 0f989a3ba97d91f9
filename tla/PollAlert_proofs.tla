-------------------------- MODULE PollAlert_proofs --------------------------
(***************************************************************************)
(* The safety properties of PollAlert, proved for every number of          *)
(* refusals, lost answers, database errors and restarts.                   *)
(***************************************************************************)
EXTENDS PollAlert, TLAPS

\* The values a branch starts with, and returns to, have their types.
LEMMA Initially ==
    /\ Nobody \in [Channels -> BOOLEAN]
    /\ NoReport.state = "none" /\ NoReport.queue = {} /\ NoReport.told = Nobody
    /\ NoReport.known = {}
    /\ NoReport \in [state : {"none", "failed", "ok"},
                     told : [Channels -> BOOLEAN], queue : SUBSET Channels,
                     known : SUBSET Channels]
BY DEF Nobody, NoReport

\* Who counts as told when a report begins, and so who is sent to.
LEMMA ToldType ==
    ASSUME TypeOK, NEW state \in {"failed", "ok"}
    PROVE  /\ Told(state, channels) \in [Channels -> BOOLEAN]
           /\ Queue(Told(state, channels)) \in SUBSET Channels
           /\ Queue(Told(state, channels)) \ {"control"} \subseteq channels
BY Initially DEF TypeOK, Told, Queue, Channels, Nobody

\* Every variable keeps a value the code can give it, and the status channel
\* is sent to only when it is installed.
LEMMA TypeStep == TypeOK /\ [Next]_vars => TypeOK'
<1>. SUFFICES ASSUME TypeOK, [Next]_vars PROVE TypeOK'
  OBVIOUS
<1>. USE AlertAssumption DEF TypeOK, store, observed, faults
<1>1. CASE SaveInstallation
  BY <1>1 DEF SaveInstallation
<1>2. ASSUME NEW c \in Channels, SaveChannel(c) PROVE TypeOK'
  BY <1>2 DEF SaveChannel
<1>3. ASSUME NEW state \in {"failed", "ok"}, BeginReport(state) PROVE TypeOK'
  <2>1. CASE installed /\ ~NothingToSay(state)
    <3>1. report' \in [state : {"none", "failed", "ok"},
                       told : [Channels -> BOOLEAN], queue : SUBSET Channels,
                       known : SUBSET Channels]
          /\ report'.queue \ {"control"} \subseteq channels /\ report'.known = channels
      BY <1>3, <2>1, ToldType DEF BeginReport
    <3>. QED
      BY <1>3, <2>1, <3>1 DEF BeginReport, TellNews
  <2>2. CASE ~(installed /\ ~NothingToSay(state))
    BY <1>3, <2>2 DEF BeginReport
  <2>. QED
    BY <2>1, <2>2
<1>4. ASSUME NEW c \in Channels, Accepted(c) PROVE TypeOK'
  <2>1. /\ heard' \in [Channels -> 0..2]
        /\ last' \in [Channels -> {"none", "failed", "ok"}]
    BY <1>4 DEF Accepted, Heard, Turn
  <2>2. /\ report' \in [state : {"none", "failed", "ok"},
                        told : [Channels -> BOOLEAN], queue : SUBSET Channels,
                        known : SUBSET Channels]
        /\ report'.state = report.state /\ report'.queue \subseteq report.queue
        /\ report'.known = report.known
    BY <1>4 DEF Accepted, Turn
  <2>3. report.state # "none"
    BY <1>4, Initially DEF Accepted, Turn
  <2>. QED
    BY <1>4, <2>1, <2>2, <2>3 DEF Accepted
<1>5. ASSUME NEW c \in Channels, AnswerLost(c) PROVE TypeOK'
  <2>1. /\ heard' \in [Channels -> 0..2]
        /\ last' \in [Channels -> {"none", "failed", "ok"}]
    BY <1>5 DEF AnswerLost, Heard, Turn
  <2>2. /\ report' \in [state : {"none", "failed", "ok"},
                        told : [Channels -> BOOLEAN], queue : SUBSET Channels,
                        known : SUBSET Channels]
        /\ report'.state = report.state /\ report'.queue \subseteq report.queue
        /\ report'.known = report.known
    BY <1>5 DEF AnswerLost, Turn
  <2>3. report.state # "none"
    BY <1>5, Initially DEF AnswerLost, Turn
  <2>. QED
    BY <1>5, <2>1, <2>2, <2>3 DEF AnswerLost
<1>6. ASSUME NEW c \in Channels, Refused(c) PROVE TypeOK'
  <2>1. report.state # "none" /\ report'.state = report.state
    BY <1>6, Initially DEF Refused, Turn
  <2>. QED
    BY <1>6, <2>1 DEF Refused, CountRefusal, Turn
<1>7. CASE SavePollAlertState
  BY <1>7, Initially DEF SavePollAlertState
<1>8. CASE SaveFails
  BY <1>8, Initially DEF SaveFails, Unsaved
<1>9. CASE Crash
  BY <1>9, Initially DEF Crash, Unsaved
<1>10. CASE UNCHANGED vars
  BY <1>10 DEF vars
<1>. QED
  BY <1>1, <1>2, <1>3, <1>4, <1>5, <1>6, <1>7, <1>8, <1>9, <1>10
     DEF Next, Poll, ReportStep

\* A report that begins sends a channel only what it has not been told.
LEMMA BeginStep ==
    ASSUME TypeOK, IInv, NEW state \in {"failed", "ok"}, BeginReport(state)
    PROVE  IInv'
<1>. USE DEF IInv, TypeOK, store, faults, RepeatExplained, ToldMeansTold, QueueInv,
             CountInv, RowInv, ReportInv, InReport, Certain, Recovered
<1>1. CASE installed /\ ~NothingToSay(state)
  <2>1. /\ report'.state = state /\ report'.told = Told(state, channels)
        /\ report'.queue = Queue(Told(state, channels)) /\ report' # NoReport
        /\ report'.known = channels
        /\ report = NoReport /\ TellNews(state)
        /\ UNCHANGED <<installed, channels, row, last, blurred>>
    BY <1>1, Initially DEF BeginReport
  <2>2. Told(report.state, report.known)' = Told(state, channels)
    BY <2>1 DEF Told, Same
  <2>3. \A c \in Channels : Certain(c)' => Certain(c) /\ c \notin Queue(Told(state, channels))
    BY <2>1 DEF TellNews, Queue, Told, Same, Nobody
  <2>4. \A c \in Channels : Certain(c) =>
            row.state = news[c] /\ row.told[c] /\ c \in channels
    BY <2>1
  <2>5. \A c \in Channels : Certain(c)' =>
            /\ news'[c] = news[c] /\ Told(state, channels)[c]
            /\ state = news[c]
    BY <2>1, <2>3, <2>4 DEF TellNews, Queue, Told, Same, Nobody
  <2>6. RepeatExplained' /\ QueueInv'
    BY <2>1, <2>2, <2>3, <2>5, Initially DEF TellNews, Queue
  <2>7. CountInv'
    BY <2>1, <2>2, <2>3, <2>4, <2>5 DEF TellNews
  <2>8. ToldMeansTold' /\ RowInv'
    BY <2>1, Initially
  <2>9. ReportInv'
    <3>1. report.state = "none"
      BY <2>1, Initially
    <3>2. state = "ok" => row.state # "missing"
      BY <1>1 DEF NothingToSay
    <3>3. ASSUME NEW c \in Channels, state = "failed", Told(state, channels)[c]
          PROVE  c \in channels /\ (last[c] = "failed" \/ c \in blurred)
      BY <3>1, <3>3 DEF Told, Same, Nobody
    <3>4. ASSUME NEW c \in Channels, state = "ok", ~Told(state, channels)[c]
          PROVE  last[c] = "failed" \/ c \in blurred
      BY <3>1, <3>2, <3>4 DEF Told, Same
    <3>. QED
      BY <2>1, <3>2, <3>3, <3>4
  <2>. QED
    BY <2>6, <2>7, <2>8, <2>9
<1>2. CASE ~(installed /\ ~NothingToSay(state))
  BY <1>2 DEF BeginReport, Told, Same
<1>. QED
  BY <1>1, <1>2

\* A message, accepted or with its answer lost, or a refusal.
LEMMA SendStep ==
    ASSUME TypeOK, IInv, NEW c \in Channels,
           Accepted(c) \/ AnswerLost(c) \/ Refused(c)
    PROVE  IInv'
<1>. USE DEF IInv, TypeOK, store, faults, observed
<1>1. /\ c \in report.queue /\ InReport /\ InReport'
      /\ report'.state = report.state /\ report'.queue = report.queue \ {c}
      /\ report'.known = report.known
      /\ UNCHANGED <<installed, channels, row, news>>
      /\ \A d \in Channels \ {c} :
            /\ last'[d] = last[d] /\ heard'[d] = heard[d]
            /\ report'.told[d] = report.told[d]
            /\ d \in blurred' <=> d \in blurred
  <2>1. c \in report.queue /\ InReport /\ report.state # "none"
    BY DEF Accepted, AnswerLost, Refused, Turn, QueueInv, InReport
  <2>2. /\ report'.state = report.state /\ report'.queue = report.queue \ {c}
        /\ report'.known = report.known
        /\ UNCHANGED <<installed, channels, row, news>>
    BY DEF Accepted, AnswerLost, Refused
  <2>4. \A d \in Channels \ {c} : report'.told[d] = report.told[d]
    <3>1. CASE Accepted(c)
      BY <3>1 DEF Accepted
    <3>2. CASE AnswerLost(c) \/ Refused(c)
      BY <3>2 DEF AnswerLost, Refused
    <3>. QED
      BY <3>1, <3>2
  <2>3. \A d \in Channels \ {c} :
            /\ last'[d] = last[d] /\ heard'[d] = heard[d]
            /\ d \in blurred' <=> d \in blurred
    BY DEF Accepted, AnswerLost, Refused, Heard
  <2>. QED
    BY <2>1, <2>2, <2>3, <2>4, Initially DEF InReport
<1>2. Told(report.state, report.known)' = Told(report.state, report.known)
  BY <1>1 DEF Told, Same
<1>3. /\ news[c] = report.state /\ ~report.told[c]
      /\ ~Told(report.state, report.known)[c] /\ ~Certain(c)
  BY <1>1 DEF QueueInv
<1>4. \/ /\ Accepted(c)
         /\ last'[c] = report.state /\ report'.told[c] /\ c \in channels
         /\ heard'[c] = IF heard[c] < 2 THEN heard[c] + 1 ELSE heard[c]
         /\ c \in blurred' <=> (heard[c] # 0 /\ c \in blurred)
      \/ /\ AnswerLost(c)
         /\ last'[c] = report.state /\ ~report'.told[c] /\ c \in channels
         /\ c \in blurred'
      \/ /\ Refused(c)
         /\ ~report'.told[c] /\ UNCHANGED observed
  <2>1. CASE Accepted(c)
    <3>1. /\ last'[c] = report.state /\ report'.told[c] /\ c \in channels
          /\ heard'[c] = IF heard[c] < 2 THEN heard[c] + 1 ELSE heard[c]
      BY <2>1 DEF Accepted, Heard
    <3>2. c \in blurred' <=> (heard[c] # 0 /\ c \in blurred)
      BY <2>1 DEF Accepted
    <3>. QED
      BY <2>1, <3>1, <3>2
  <2>2. CASE AnswerLost(c)
    BY <1>3, <2>2 DEF AnswerLost, Heard
  <2>3. CASE Refused(c)
    BY <1>3, <2>3 DEF Refused
  <2>. QED
    BY <2>1, <2>2, <2>3
<1>5. RepeatExplained' /\ QueueInv'
  BY <1>1, <1>2, <1>3, <1>4 DEF RepeatExplained, QueueInv, Certain
<1>6. CountInv'
  BY <1>1, <1>2, <1>3, <1>4 DEF CountInv, Certain
<1>7. ToldMeansTold' /\ RowInv'
  <2>1. report.state \in {"failed", "ok"}
    BY <1>1 DEF InReport
  <2>2. \A d \in Channels \ {c} : Recovered(d)' = Recovered(d)
    BY <1>1 DEF Recovered
  <2>3. last'[c] = "failed" \/ Recovered(c)' \/ c \in blurred' \/ Refused(c)
    BY <1>1, <1>4, <2>1 DEF Recovered
  <2>4. Refused(c) => last'[c] = last[c] /\ Recovered(c)' = Recovered(c)
                      /\ (c \in blurred' <=> c \in blurred)
    BY <1>1, <1>3, <1>4 DEF Recovered, Refused
  <2>5. ToldMeansTold'
    BY <1>1, <2>2, <2>3, <2>4 DEF ToldMeansTold, Recovered
  <2>6. RowInv'
    BY <1>1, <2>2, <2>3, <2>4 DEF RowInv
  <2>. QED
    BY <2>5, <2>6
<1>8. ReportInv'
  BY <1>1, <1>3, <1>4 DEF ReportInv
<1>. QED
  BY <1>5, <1>6, <1>7, <1>8

\* A report that is saved becomes the row.
LEMMA SaveStep == TypeOK /\ IInv /\ SavePollAlertState => IInv'
<1>. SUFFICES ASSUME TypeOK, IInv, SavePollAlertState PROVE IInv'
  OBVIOUS
<1>. USE DEF IInv, TypeOK, SavePollAlertState, observed
<1>1. report.state # "none" /\ InReport /\ ~InReport'
  BY DEF InReport
<1>2. RepeatExplained' /\ QueueInv'
  BY Initially DEF RepeatExplained, QueueInv
<1>3. CountInv'
  BY <1>1 DEF CountInv, Certain
<1>4. ToldMeansTold' /\ RowInv'
  BY Initially DEF ToldMeansTold, RowInv, ReportInv
<1>5. ReportInv'
  BY Initially DEF ReportInv, InReport
<1>. QED
  BY <1>2, <1>3, <1>4, <1>5

\* A report that is lost leaves what it told in doubt.
LEMMA LostStep ==
    ASSUME TypeOK, IInv, report' = NoReport, blurred' = blurred \cup Unsaved,
           UNCHANGED <<installed, channels, row, last, heard, news>>
    PROVE  IInv'
<1>. USE DEF IInv, TypeOK
<1>1. RepeatExplained' /\ QueueInv' /\ ReportInv'
  BY Initially DEF RepeatExplained, QueueInv, ReportInv, InReport
<1>2. CountInv'
  <2>1. ASSUME NEW c \in Channels, Certain(c)'
        PROVE  row.state = news[c] /\ row.told[c]
    BY <2>1 DEF CountInv, Certain, Unsaved
  <2>. QED
    BY <2>1 DEF CountInv, InReport
<1>3. ToldMeansTold' /\ RowInv'
  <2>1. ASSUME NEW c \in Channels, c \notin blurred', c \in channels, Recovered(c)
        PROVE  (row.state = "ok" /\ row.told[c]) \/ (row.state = "failed" /\ ~row.told[c])
    BY <2>1, Initially DEF Unsaved, Told, Same, Recovered, ReportInv, InReport
  <2>2. ASSUME NEW c \in Channels, row.state = "failed", row.told[c], c \notin blurred'
        PROVE  last[c] = "failed"
    BY <2>1, <2>2 DEF ToldMeansTold, RowInv, Recovered
  <2>3. ASSUME NEW c \in Channels, row.state = "ok", ~row.told[c], c \notin blurred'
        PROVE  last[c] = "failed"
    BY <2>3 DEF RowInv, Recovered, Unsaved, Told, Same
  <2>. QED
    BY <2>2, <2>3 DEF ToldMeansTold, RowInv
<1>. QED
  BY <1>1, <1>2, <1>3

\* A channel that is installed later changes nothing for the reports under way.
LEMMA ChannelStep ==
    ASSUME TypeOK, IInv, NEW c \in Channels, SaveChannel(c)
    PROVE  IInv'
<1>. USE DEF IInv, TypeOK, SaveChannel, observed
<1>1. Told(report.state, report.known)' = Told(report.state, report.known)
  BY DEF Told, Same
<1>. QED
  BY <1>1 DEF RepeatExplained, ToldMeansTold, QueueInv, CountInv, RowInv,
              ReportInv, InReport, Certain, Recovered

\* The inductive invariant.
THEOREM Invariance == Spec => [](TypeOK /\ IInv)
<1>1. Init => TypeOK /\ IInv
  <2>. SUFFICES ASSUME Init PROVE TypeOK /\ IInv
    OBVIOUS
  <2>1. TypeOK
    <3>1. NoRow \in [state : {"missing", "failed", "ok"}, told : [Channels -> BOOLEAN]]
      BY Initially DEF NoRow
    <3>2. /\ report \in [state : {"none", "failed", "ok"}, told : [Channels -> BOOLEAN],
                         queue : SUBSET Channels,
                         known : SUBSET Channels]
          /\ report.queue = {} /\ report.known = {}
      BY Initially DEF Init
    <3>3. /\ heard \in [Channels -> 0..2]
          /\ last \in [Channels -> {"none", "failed", "ok"}]
          /\ news \in [Channels -> {"none", "failed", "ok"}]
      BY DEF Init
    <3>. QED
      BY <3>1, <3>2, <3>3 DEF Init, TypeOK
  <2>2. \A c \in Channels : heard[c] = 0 /\ ~report.told[c]
    BY Initially DEF Init, Nobody
  <2>. QED
    BY <2>1, <2>2, Initially
       DEF Init, IInv, RepeatExplained, ToldMeansTold, QueueInv, CountInv, RowInv,
           ReportInv, InReport, Certain, NoRow
<1>2. TypeOK /\ IInv /\ [Next]_vars => (TypeOK /\ IInv)'
  <2>. SUFFICES ASSUME TypeOK, IInv, [Next]_vars PROVE IInv'
    BY TypeStep
  <2>1. CASE SaveInstallation \/ UNCHANGED vars
    <3>1. UNCHANGED <<channels, row, report, last, heard, news, blurred>>
      BY <2>1 DEF SaveInstallation, vars, store, observed
    <3>. QED
      BY <3>1 DEF IInv, RepeatExplained, ToldMeansTold, QueueInv, CountInv, RowInv,
                  ReportInv, InReport, Certain, Recovered, Told, Same
  <2>2. CASE SaveFails \/ Crash
    BY <2>2, LostStep DEF SaveFails, Crash, store
  <2>. QED
    BY <2>1, <2>2, ChannelStep, BeginStep, SendStep, SaveStep
       DEF Next, Poll, ReportStep
<1>. QED
  BY <1>1, <1>2, PTL DEF Spec

\* A message is repeated only when it is in doubt whether it arrived.
THEOREM RepeatsAreExplained == Spec => []RepeatExplained
<1>1. IInv => RepeatExplained
  BY DEF IInv
<1>. QED
  BY <1>1, Invariance, PTL

\* The row is right about who was told of the outage.
THEOREM ToldIsTold == Spec => []ToldMeansTold
<1>1. IInv => ToldMeansTold
  BY DEF IInv
<1>. QED
  BY <1>1, Invariance, PTL

\* No channel is told of the recovery from an outage it never heard of.
THEOREM RecoveriesFollowFailures == Spec => RecoveryFollowsFailure
<1>1. TypeOK /\ IInv /\ [Next]_vars =>
        [\A c \in Channels :
            (heard'[c] > heard[c] /\ last'[c] = "ok")
                => (last[c] = "failed" \/ c \in blurred)]_vars
  <2>. SUFFICES ASSUME TypeOK, IInv, Next, NEW c \in Channels,
                       heard'[c] > heard[c], last'[c] = "ok"
                PROVE  last[c] = "failed" \/ c \in blurred
    BY DEF vars
  <2>1. Accepted(c) \/ AnswerLost(c)
    <3>1. ASSUME UNCHANGED heard PROVE FALSE
      BY <3>1 DEF TypeOK
    <3>2. ASSUME NEW state \in {"failed", "ok"}, BeginReport(state) PROVE FALSE
      BY <3>2 DEF BeginReport, TellNews, TypeOK
    <3>3. ASSUME NEW d \in Channels \ {c}, Heard(d) PROVE FALSE
      BY <3>3 DEF Heard, TypeOK
    <3>. QED
      BY <3>1, <3>2, <3>3
         DEF Next, Poll, ReportStep, SaveInstallation, SaveChannel, Accepted, AnswerLost,
             Refused, SavePollAlertState, SaveFails, Crash, observed
  <2>2. report.state = "ok" /\ ~report.told[c]
    BY <2>1 DEF Accepted, AnswerLost, Heard, Turn, TypeOK, IInv, QueueInv
  <2>. QED
    BY <2>2 DEF IInv, ReportInv
<1>. QED
  BY <1>1, Invariance, PTL DEF Spec, RecoveryFollowsFailure
=============================================================================
