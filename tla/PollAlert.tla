----------------------------- MODULE PollAlert -----------------------------
(***************************************************************************)
(* The outage alerts of one branch (pollalert.Service.Report): when a poll *)
(* of the branch fails the control channel and the public status channel   *)
(* are told, when it succeeds again they are told that it recovered, and   *)
(* one row of poll_alert_states remembers which channel has been told.     *)
(*                                                                         *)
(* Reports of one branch come one after the other, and rows of different   *)
(* branches are independent, so one branch is enough.  What can come       *)
(* between the steps of a report is the owner's Initialize, which creates  *)
(* the channels, a refusal or a lost answer of Discord, a database error,  *)
(* and the end of the process.                                             *)
(***************************************************************************)
EXTENDS Naturals

CONSTANTS
    MaxRefusals,    \* bound on the messages Discord refuses
    MaxLost,        \* bound on accepted messages whose answer is lost
    MaxDbErrors,    \* bound on rows that cannot be saved
    MaxCrashes      \* bound on process restarts

ASSUME AlertAssumption ==
    /\ MaxRefusals \in Nat
    /\ MaxLost \in Nat
    /\ MaxDbErrors \in Nat
    /\ MaxCrashes \in Nat

Channels == {"control", "status"}

VARIABLES
    installed,  \* installations has a row
    channels,   \* the channels whose id that row holds
    row,        \* the branch's row of poll_alert_states
    report,     \* the report in progress; known: the channels when it began
    last,       \* the last message of each channel about this branch
    heard,      \* messages a channel got about its current news, up to two
    news,       \* what a channel is or was being told last
    blurred,    \* channels that may have been told more than the row says
    answers,    \* did the last poll of the branch succeed?
    refusals, lost, dbErrors, crashes

store == <<installed, channels, row>>
observed == <<last, heard, news, blurred>>
faults == <<refusals, lost, dbErrors, crashes>>
vars == <<store, report, observed, answers, faults>>

Nobody == [c \in Channels |-> FALSE]
NoRow == [state |-> "missing", told |-> Nobody]
NoReport == [state |-> "none", told |-> Nobody, queue |-> {},
             known |-> {}]

-----------------------------------------------------------------------------
(* Initialize saves the installation first, then each channel it creates.  *)

SaveInstallation ==
    /\ ~installed
    /\ installed' = TRUE
    /\ UNCHANGED <<channels, row, report, observed, answers, faults>>

SaveChannel(c) ==
    /\ installed
    /\ c \notin channels
    /\ c = "status" => "control" \in channels
    /\ channels' = channels \cup {c}
    /\ UNCHANGED <<installed, row, report, observed, answers, faults>>

-----------------------------------------------------------------------------
(* Report.                                                                 *)

Same(state) == row.state = state

\* Mutants: a repeated outcome is told again, and a recovery is told even to
\* a channel that never heard of the outage.
MutToldForgets(state, known) ==
    IF state = "failed" THEN Nobody
    ELSE IF Same(state) THEN row.told
    ELSE [c \in Channels |-> ~row.told[c] \/ (c = "status" /\ c \notin known)]
MutToldEverybody(state, known) == IF Same(state) THEN row.told ELSE Nobody

\* Who counts as told when a report with this outcome begins, by the
\* installation it has read.
Told(state, known) ==
    IF Same(state) THEN row.told
    ELSE IF state = "failed" THEN Nobody
    ELSE [c \in Channels |-> ~row.told[c] \/ (c = "status" /\ c \notin known)]

\* Mutant: the status channel's id is not checked.
MutQueue(told) == {c \in Channels : ~told[c]}

\* The channels to send to.  A control channel that does not exist yet is
\* tried all the same, and Discord refuses.
Queue(told) == {c \in Channels : ~told[c] /\ (c = "control" \/ c \in channels)}

\* Mutant: an outcome that was reported before is never reported again.
MutNothingToSay(state) == Same(state) \/ (state = "ok" /\ row.state = "missing")

NothingToSay(state) ==
    \/ state = "ok" /\ row.state = "missing"
    \/ Same(state) /\ Queue(row.told) = {}

\* News that a channel is about to be told starts a new count.
TellNews(state) ==
    LET starting == {c \in Queue(Told(state, channels)) : news[c] # state}
    IN /\ news' = [c \in Channels |-> IF c \in starting THEN state ELSE news[c]]
       /\ heard' = [c \in Channels |-> IF c \in starting THEN 0 ELSE heard[c]]

BeginReport(state) ==
    /\ report = NoReport
    /\ answers' = (state = "ok")
    /\ IF installed /\ ~NothingToSay(state)
       THEN /\ report' = [state |-> state, told |-> Told(state, channels),
                          queue |-> Queue(Told(state, channels)),
                          known |-> channels]
            /\ TellNews(state)
       ELSE UNCHANGED <<report, news, heard>>
    /\ UNCHANGED <<store, last, blurred, faults>>

\* The control channel is tried before the status channel.
Turn(c) == c \in report.queue /\ (c = "status" => "control" \notin report.queue)

\* The first message of some news clears what earlier news left in doubt.
Heard(c) ==
    /\ last' = [last EXCEPT ![c] = report.state]
    /\ heard' = [heard EXCEPT ![c] = IF @ < 2 THEN @ + 1 ELSE @]

Accepted(c) ==
    /\ Turn(c)
    /\ c \in report.known
    /\ Heard(c)
    /\ blurred' = IF heard[c] = 0 THEN blurred \ {c} ELSE blurred
    /\ report' = [report EXCEPT !.told[c] = TRUE, !.queue = @ \ {c}]
    /\ UNCHANGED <<store, news, answers, faults>>

\* Discord has the message, the service sees an error.
AnswerLost(c) ==
    /\ lost < MaxLost
    /\ lost' = lost + 1
    /\ Turn(c)
    /\ c \in report.known
    /\ Heard(c)
    /\ blurred' = blurred \cup {c}
    /\ report' = [report EXCEPT !.queue = @ \ {c}]
    /\ UNCHANGED <<store, news, answers, refusals, dbErrors, crashes>>

\* A message to a channel that was not there is refused without limit.
CountRefusal(c) ==
    IF c \in report.known
    THEN refusals < MaxRefusals /\ refusals' = refusals + 1
    ELSE UNCHANGED refusals

\* Mutant: the channel counts as told before the answer is looked at.
MutRefused(c) ==
    /\ Turn(c)
    /\ CountRefusal(c)
    /\ report' = [report EXCEPT !.told[c] = TRUE, !.queue = @ \ {c}]
    /\ UNCHANGED <<store, observed, answers, lost, dbErrors, crashes>>

Refused(c) ==
    /\ Turn(c)
    /\ CountRefusal(c)
    /\ report' = [report EXCEPT !.queue = @ \ {c}]
    /\ UNCHANGED <<store, observed, answers, lost, dbErrors, crashes>>

SavePollAlertState ==
    /\ report # NoReport
    /\ report.queue = {}
    /\ row' = [state |-> report.state, told |-> report.told]
    /\ report' = NoReport
    /\ UNCHANGED <<installed, channels, observed, answers, faults>>

\* What was told in a report whose row is not saved.
Unsaved == {c \in Channels : report.told[c] /\ ~Told(report.state, report.known)[c]}

SaveFails ==
    /\ dbErrors < MaxDbErrors
    /\ dbErrors' = dbErrors + 1
    /\ report # NoReport
    /\ report.queue = {}
    /\ report' = NoReport
    /\ blurred' = blurred \cup Unsaved
    /\ UNCHANGED <<store, last, heard, news, answers, refusals, lost, crashes>>

Crash ==
    /\ crashes < MaxCrashes
    /\ crashes' = crashes + 1
    /\ report' = NoReport
    /\ blurred' = blurred \cup Unsaved
    /\ UNCHANGED <<store, last, heard, news, answers, refusals, lost, dbErrors>>

-----------------------------------------------------------------------------
Init ==
    /\ installed = FALSE
    /\ channels = {}
    /\ row = NoRow
    /\ report = NoReport
    /\ last = [c \in Channels |-> "none"]
    /\ heard = [c \in Channels |-> 0]
    /\ news = [c \in Channels |-> "none"]
    /\ blurred = {}
    /\ answers = TRUE
    /\ refusals = 0
    /\ lost = 0
    /\ dbErrors = 0
    /\ crashes = 0

Poll == \E state \in {"failed", "ok"} : BeginReport(state)

ReportStep ==
    \/ \E c \in Channels : Accepted(c) \/ AnswerLost(c) \/ Refused(c)
    \/ SavePollAlertState
    \/ SaveFails

Next ==
    \/ SaveInstallation
    \/ \E c \in Channels : SaveChannel(c)
    \/ Poll
    \/ ReportStep
    \/ Crash

Spec == Init /\ [][Next]_vars

\* While a target of the branch is ON every burst polls it, so that a branch
\* that goes on failing is reported as failing again; nothing makes it answer.
\* A report's calls return.
FairSpec == Spec /\ WF_vars(BeginReport("failed")) /\ WF_vars(ReportStep)

-----------------------------------------------------------------------------
\* Every variable holds a value the code can give it, and a message is only
\* sent to the control channel or to a status channel that is installed.
TypeOK ==
    /\ installed \in BOOLEAN
    /\ channels \subseteq Channels
    /\ row \in [state : {"missing", "failed", "ok"}, told : [Channels -> BOOLEAN]]
    /\ report \in [state : {"none", "failed", "ok"}, told : [Channels -> BOOLEAN],
                   queue : SUBSET Channels, known : SUBSET Channels]
    /\ report.state = "none" => report = NoReport
    /\ report.queue \ {"control"} \subseteq report.known
    /\ report.known \subseteq channels
    /\ last \in [Channels -> {"none", "failed", "ok"}]
    /\ heard \in [Channels -> 0..2]
    /\ news \in [Channels -> {"none", "failed", "ok"}]
    /\ blurred \subseteq Channels
    /\ answers \in BOOLEAN
    /\ refusals \in Nat /\ lost \in Nat /\ dbErrors \in Nat /\ crashes \in Nat

\* A channel is told the same news twice only after a lost answer, or a
\* restart or database error between the message and the row: refusals of
\* the other channel and channels installed meanwhile repeat nothing.
RepeatExplained == \A c \in Channels : heard[c] = 2 => c \in blurred

\* A row that says a channel was told of the outage is right about it, until
\* the recovery is told; what could make it wrong is only a lost save.
ToldMeansTold ==
    \A c \in Channels :
        row.state = "failed" /\ row.told[c] /\ c \notin blurred
            => \/ last[c] = "failed"
               \/ report.state = "ok" /\ report.told[c]

\* What makes those inductive.  A channel waits to be told only while it does
\* not count as told; a message that leaves no doubt is in the report under
\* way or else in the row, and does not come from a row the report replaces;
\* a report of an outage is right about whom it told and knows who was told
\* before it; and a channel that a recovery still has to reach is still at the
\* outage.
InReport == report # NoReport
Certain(c) == heard[c] > 0 /\ c \notin blurred

QueueInv == \A c \in report.queue :
    /\ InReport
    /\ news[c] = report.state
    /\ ~report.told[c] /\ ~Told(report.state, report.known)[c]
    /\ ~Certain(c)

CountInv == \A c \in Channels :
    /\ heard[c] > 0 => c \in channels
    /\ Certain(c) => IF InReport THEN report.state = news[c] /\ report.told[c]
                                 ELSE row.state = news[c] /\ row.told[c]
    /\ InReport /\ Certain(c) /\ Told(report.state, report.known)[c]
          => row.state = news[c] /\ row.told[c]

Recovered(c) == report.state = "ok" /\ report.told[c]

RowInv == \A c \in Channels :
    /\ row.state = "failed" /\ row.told[c] => c \in channels
    /\ row.state = "ok" /\ ~row.told[c] /\ c \notin blurred
          => last[c] = "failed" \/ Recovered(c)

ReportInv ==
    /\ report.state = "ok" => row.state # "missing"
    /\ \A c \in Channels :
        /\ InReport /\ row.state = "failed" /\ row.told[c] => c \in report.known
        /\ report.state = "failed" /\ report.told[c]
              => c \in channels /\ (last[c] = "failed" \/ c \in blurred)
        /\ report.state = "ok" /\ ~report.told[c]
              => last[c] = "failed" \/ c \in blurred

IInv ==
    /\ RepeatExplained
    /\ ToldMeansTold
    /\ QueueInv
    /\ CountInv
    /\ RowInv
    /\ ReportInv

\* A channel is told of a recovery only if it was told of the outage
\* (docs/superpowers/specs/2026-07-21-public-alert-channels-and-status-design.md:51).
RecoveryFollowsFailure ==
    [][\A c \in Channels :
        (heard'[c] > heard[c] /\ last'[c] = "ok")
            => (last[c] = "failed" \/ c \in blurred)]_vars

\* An outage that a channel was not told of, because Discord refused or the
\* channel did not exist, is told in the end, and the row says so, unless the
\* branch answers.
OutageToldInTheEnd ==
    \A c \in Channels :
        (row.state = "failed" /\ ~row.told[c] /\ c \in channels)
            ~> ((row.told[c] /\ last[c] = "failed") \/ answers)

\* docs/self-hosted.md:166: when a poll succeeds again both channels are told
\* once; so a row that leaves nothing to send after a recovery should not
\* leave a channel at the outage.
HealthyMeansRecovered ==
    \A c \in Channels :
        row.state = "ok" /\ row.told[c] => last[c] # "failed" \/ report # NoReport
=============================================================================
