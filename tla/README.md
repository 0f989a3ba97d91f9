# my-movie, modelled in TLA+

my-movie is one Go process. It polls the booking schedules of a fixed set of
special auditoriums (Megabox Dolby Cinema, CGV IMAX/4DX/SCREENX) and announces
newly opened showtimes in Discord. It keeps its state in one SQLite file behind a
single connection. One server owner controls it with slash commands and a panel
of buttons. This directory models the parts of it that are concurrent, that
survive failures, or that promise something over a long run. TLC checks the
models on small instances; TLAPS proves the safety properties of eight of them for
every value of their constants.

## 1. Inventory

| component | source (`src/`) | state | operations | what is hard |
|---|---|---|---|---|
| delivery store | `internal/database/repository.go` | `target_states` (enabled, generation), `target_baselines`, `channel_deliveries` (pending, sent, failed, attempts) | ReplaceBaseline, recordTargetSnapshot, MarkChannelSent, MarkChannelFailedAttempt, MarkChannelUnavailable, SaveTargetState | transactions of several goroutines interleave; the generation guard; a group settled as a whole |
| control service | `internal/control/service.go` | a mutex; the ids in `installations` | Initialize, Enable, Disable, SelectTarget, DisableUnavailable, JoinAlerts, Announce | a fetch and several transactions in one operation; the delivery goroutine competes for the mutex; ids lost between Discord and SQLite |
| channel manager | `internal/discordbot/control.go` | what is in Discord | ensure/upsert a role, channel, message; delete them | recovery by saved id, by name or by content; a message order that must hold |
| burst polling | `internal/scheduler/scheduler.go` | target states listed once per burst, the preparations, the attempt | runBurst, runBurstAttempt, pollBranchWithFetch | branches polled concurrently, one delivery after each completed branch, stale target states |
| burst schedule | `internal/scheduler/scheduler.go` | next boundary, joined error | Start, nextBurstBoundary, burstOffsets, Stop | boundary arithmetic, late steps, backoff |
| delivery service | `internal/notification/service.go` | the rows listed, the current group | DeliverPending | list read once, post and commit apart, channel unavailable |
| notifier | `internal/discordbot/notifier.go` | none | SendAlert, SendControlMessage | an accepted message whose answer is lost |
| poll alerts | `internal/pollalert/service.go` | `poll_alert_states` | Report | two channels, each told or not, over several outages |
| CGV prepared polls | `internal/providers/cgv/provider.go`, `transport.go` | tabs in Lightpanda, `polls`, `pollsMu` | PrepareBranch, Fetch, Close, ClosePrepared | preparations that outlive their burst, Stop |
| Megabox provider | `internal/providers/megabox/` | the answers of one fetch | FetchBranchSnapshot | answers of different moments, hours past 24 |
| CGV parsing | `internal/providers/cgv/response.go`, `provider.go` | none | map schedules | |
| HTTP client | `internal/httpx/client.go` | attempts, a shared output | DoJSON | which errors are retried, an output half filled |
| bot | `internal/discordbot/bot.go` | join limiter, handler | commands, buttons, Start, StopAccepting, Stop | concurrent presses |
| application | `internal/app/app.go`, `cmd/my-movie` | which part is open | New, Start, Shutdown | order of stopping, deadlines |
| database opening | `internal/database/database.go`, `migrations.go` | schema | Open | all migrations or none |
| health and heartbeat | `internal/health/` | none; reads `poll_runs` | handler, pinger | staleness during a backoff |
| configuration, catalog, logging, cache, tools | rest | none that changes | | |

How they interact. `Scheduler.Start` runs one loop. A burst lists the target
states, starts a preparation goroutine per CGV branch, and makes four attempts
fifteen seconds apart. An attempt polls its branches concurrently; each goroutine
stores its snapshots and reports success or failure to the poll alerts; the
attempt calls `DeliverPending` as branches complete. Bot handlers call the
control service from their own goroutines. `DeliverPending` calls back into
it (`DisableUnavailable`) when a channel is gone. All of them share SQLite and
Discord; the process may be restarted at any point.

What makes them correct:

* an alert is sent for every showtime that opens while its target is ON, and for
  none that was open when it was switched on; it is tried at most three times,
  settled once and for good, and repeated only when nobody could know better;
* switching a target ON or OFF wins against polls and deliveries already under way;
* the panel tells the stored states;
* an outage and its recovery are told once to each channel, and never a recovery
  without its outage;
* bursts advance, hit every boundary and keep the backoff;
* a branch never has two tabs, a tab in use is never closed, Stop leaves none;
* Shutdown ends, closes everything, and closes nothing that is still used;
* the health check answers 503 for a provider only if a poll of it failed or was
  left out;
* a fetch reports what was on sale, all of it, at the right times, though it takes
  several requests and some are repeated;
* Initialize can be repeated: it neither duplicates nor loses anything, and
  locks no members out but those of a role that is no longer safe;
* a member passes the join button once in ten seconds, and is refused only for a
  press that passed.

## 2. Modules and the code

| module | models | grain of a step |
|---|---|---|
| `AlertLedger` | the abstract promise: each showtime's row is queued, retried, withdrawn or settled; settled rows never change and are not posted again; sent only after a post | |
| `AlertPipeline` | store, control service, burst polling, delivery service, Discord | one SQLite transaction, or one Discord or provider call |
| `MCAlertPipeline` | small instances of it | |
| `PollAlert` | `pollalert.Service.Report` for one branch, with the channels of `installations` | one message, one save |
| `BurstSchedule` | the loop of `Scheduler.Start` over a clock | one sleep and what follows it |
| `HealthCheck` | extends it with one provider's rows in `poll_runs` and the health handler | as above |
| `PreparedPolls` | tabs, preparation goroutines, `pollsMu`, `Stop` | one lock, one call to Lightpanda |
| `Application` | extends it with `app.New`, `Start`, the signal and `Shutdown`, the health server and the Discord session | one call of New, Start or Shutdown |
| `MegaboxFetch` | `FetchBranchSnapshot` of Megabox over `httpx.Client`, with the cinema's schedule changing meanwhile | sending a request, receiving its answer, a pause |
| `MCMegaboxFetch` | a small instance of it | |
| `JoinLimiter` | `Bot.allowJoin` called by concurrent handlers | reading the clock, the section under `joinMu` |
| `Installation` | Initialize, JoinAlerts and refreshPanel through the channel manager | one ensure or upsert, one save |
| `*_proofs` | the theorems | |

`AlertPipeline`. `enabled`, `generation`, `baseline`, `status`, `attempts` are the
tables; `posts` and `panel` are what Discord shows; `ctl` is the operation that
holds the control mutex, with what it fetched or is about to show;
`polled`, `poll`, `seen`, `todo` are the goroutines of the burst with what they
listed and fetched; `dlv` is `DeliverPending` with the rows it listed. `skipped`,
`recalled`, `unsure` and `overtaken` only observe: what the last switch-on took for
open; listed rows that a switch-on has withdrawn since the listing; showtimes whose
last post was not marked as sent for a reason that is known; and targets switched
on since the last fetch. A post clears `unsure`. A lost answer sets it at once; a restart
or database error only between post and commit; and a commit that is rolled
back, only if the group has a `recalled` row that is not pending again. The generation guard of `recordTargetSnapshot` is `Current`. The pipeline
implements `AlertLedger` with `posted` mapped to the showtimes with a post.

`PollAlert`. `row` is the branch's row, `report` the one in progress with the
channels still to tell and those `known` to it from the installation read at its
start, `last` what each channel saw last. `heard`, `news` and
`blurred` observe how often the current news was told and whether a lost answer,
a failed save or a restart excuses a repetition. Reports of a branch never
overlap, and rows of different branches are independent; so one branch is enough.

`BurstSchedule`. `boundary`, `offset` and the joined error `megabox` are the locals
of the loop; `ended` remembers how the last burst ended. The code's one
nanosecond in `nextBurstBoundary` becomes the strict comparison of
`RegularBoundary`.

`HealthCheck`. Every attempt of the schedule leaves a row that succeeded, one that
failed, or, for CGV while its tab is not ready, none. `latest` is the answer of
`LatestSuccessfulPoll`, `OldestAllowed` the handler's limit. `excused` observes
whether anything but the schedule may be the reason of a 503: since the last
success a poll failed (its report or the recording of a snapshot counts, as in
`recordRun`) or was left out, the target was OFF when a burst began, or a
Megabox failure put the next burst off. The handler asks for each provider by
itself, so one provider, of either kind, is watched. Every variable of
`BurstSchedule` keeps its meaning; `HealthImplementsSchedule` is the proof.

`PreparedPolls`. A tab and its goroutine carry the number of their burst.
Goroutines are taken to lock `pollsMu` in the order of their bursts: opening a tab
gives up after two minutes and regular bursts are three minutes apart (only the
retry after a backoff may come closer to the next one), so that at most one
goroutine waits behind the one that holds the mutex.

`Application`. `phase` is how far New, Start or Shutdown has come; `db`, `health`,
`discord` are the three things that are opened and closed. `StopScheduler` is
`Scheduler.Stop`, that is `ClosePrepared` or `StopGivesUp` of `PreparedPolls`, the
latter only once the deadline has `expired`. The loop and the goroutines of
`PreparedPolls` run from Start on, also after Shutdown has given them up. A
signal before Start has returned kills the process, as no handler is installed
yet, and is not a step.

`MegaboxFetch`. `showDay` and `bookable` are the cinema's schedule, which changes at
any moment of a fetch. `pc`, `attempt`, `asking`, `todo` are the two loops, `output`
the response that all attempts of one request decode into, `rows` the answers
merged by schedule number. `Retryable` follows `errors.As` literally: an error
with a Retry-After embeds a `StatusError` but is none, so it is tried again
whatever its status. `seen`, `kept` and `keptDates` observe what was on sale at
some, and at every, moment of the fetch; `settled` the dates that asking again
cannot mend. The program configures one attempt per request; the model and
its run allow more, as the client and its tests do.

`JoinLimiter`. `pressed` is the time a handler read before it waited for `joinMu`;
handlers come to the map in any order. `through` observes the time of the last press
let through of each user, `overtaken` whether one of the same user passed while
a press waited. `Bot.allowJoin` then refuses also a press that is older than the one
that passed (the difference is negative), which `RefusalsDeserved` counts as a
refusal for one that passed while it waited.

`Installation`. `Order` lists what Initialize ensures one after the other; each
is found by its saved id, else by name or content where the code does that,
else created, then saved; a failed save deletes what was created. The guide
channel also stands for the notice channel, one target's channel for the status
channel and all targets'. An edit whose answer is lost is the step of the edit
followed by a restart. `joined` are the roles members have from JoinAlerts. A role is
`unsafe` while it is managed, has permissions or is above the bot; administrators
may change that at any time (`ChangeRoles`), and members keep it. Initialize then
passes it over (`passedOver`, until it is saved again) for a namesake or a
new role, and admits only that one.

## 3. Runs

| run | instance | what it shows |
|---|---|---|
| `AP_one` | one showtime, a prepared branch, two attempts, one restart, one database error, lost answers, five generations | type invariant, `QueuedIsFresh`, `RefinesLedger` |
| `AP_group` | two showtimes of one target and delivery group, one restart, one database error, lost answers, three generations | `AttemptsBounded`, `SettledForever`, `DuplicateExplained`, `ListedStaysOpen`, `BaselineExplained`, `SkippedNotQueued` |
| `AP_live` | two targets at two branches polled concurrently, under fairness | `PanelCurrent`, `PendingSettles`, `UnavailableSwitchedOff` |
| `PA_report` | two of each fault | type invariant, `RepeatExplained`, `ToldMeansTold`, `RecoveryFollowsFailure`, `OutageToldInTheEnd` |
| `HC_health` | the code's own constants in units of fifteen seconds (the lead of five rounded up to one unit), steps up to 45 s late, starts at every unit of an interval, three intervals | type invariant, `BoundariesAdvance`, `BackoffKept`, `NoBoundarySkipped`, `HealthExplained` |
| `LC_life` | four bursts of four attempts, failing opens, a signal and the end of the deadline anywhere, one health request at a time, under fairness | type invariant, `OneTab`, `UsedTabOpen`, `NoTabAfterStop`, `ClosedAfterUse`, `ShutdownEnds` |
| `MF_fetch` | one showtime at hour 25, three dates, two attempts per request, two changes of the schedule per fetch | type invariant, `SnapshotFaithful`, `AskedWithReason` |
| `JL_join` | two users, two handlers, a cooldown of two units, six units of time | type invariant, `GrantsSpaced`, `RefusalsDeserved` |
| `IN_init` | a new server and one from before the role existed, two faults, one deletion or change of roles, ten ids, members who join | type invariant, `NoTwins`, `InstalledConsistent`, `HiddenWithAWayIn`, `MembersStayIn` |
| `AP_skipped`, `PA_recovered`, `BS_internal` | the fewest faults that suffice | disagreements of code and documents, section 5 |

Bounds. `MaxGeneration` ends the owner's switching; two switch-ons and one OFF
(generation 3 after the first save) already let a poll, a delivery and a
switch-on overtake each other, and `AP_one` allows five. Two showtimes are
the least with a group whose rows have different histories, two targets and
branches the least with concurrent polls. `MaxCrashes`, `MaxDbErrors`,
`MaxRefusals`, `MaxLost`, `MaxFaults` and `MaxDeletions` bound faults; each fault
leads back to a state from which the steps repeat. Posts are counted up to two, as
"more than once" is all a property asks. `Horizon` ends the clock after four
intervals in `BS_internal` and after three in `HC_health`, past a backoff (two
intervals) and the return to the regular boundaries; a `MaxDelay` of a whole
burst window lets a burst end in the window of the next boundary. In `LC_life`
four bursts let a preparation outlive its burst while the next one opens a tab,
twice. In `MF_fetch` one showtime is enough, as showtimes do not influence each
other, and three dates are today and two to be asked in either order; two
attempts and two changes let a showtime move between an attempt and the next,
and back. Two handlers are the least that can come to the limiter's map in the
wrong order, two users the least of whom one sweeps the other's entry; six units
are three cooldowns. `MaxId` lets a server be set up in full with two ids to
spare for what is created again; one deletion or change of roles, at any point of
any Initialize, is enough to take the role, a channel or a message away from it.
Deadlock is checked everywhere except where the system may stop: at the end of a
clock, after the last burst, or when the program has ended.

Fairness. The goroutines of the burst, of polls, of deliveries and of control
operations are weakly fair: each step is a database call or a request with a
timeout, and nothing but the end of the process stops it. The same holds of the
calls of Shutdown, the loop and the preparations in `Application`, and a health
request is answered; that a deadline expires is not assumed, so `ShutdownEnds`
shows that Shutdown does not need it. `DisableUnavailable`
(and `StopScheduler`, which closes the tabs) waits for a mutex that others take
again and again; Go's mutex hands itself to a waiter after a millisecond, hence
strong fairness. The
owner, faults and providers are never forced: a branch may fail for ever, and
`PendingSettles` still holds as long as some branch completes its poll. In
`PollAlert` a branch that goes on failing is polled again
(`WF(BeginReport("failed"))`), as every burst does for an enabled target;
nothing forces a success, which is why `OutageToldInTheEnd` releases a channel
when the branch answers.

## 4. Theorems

All hold for arbitrary finite or infinite sets of targets, branches and showtimes
and for all bounds, from the named assumptions on constants in the modules
(`PipelineAssumption`, `AlertAssumption`, `ScheduleAssumption`, `HealthAssumption`,
`TabsAssumption`, `FetchAssumption`, `LimiterAssumption`, `InstallationAssumption`).

* `AlertPipeline_proofs`. `TypeCorrect` is proved by itself. `Invariance` proves
  `TypeOK /\ IInv`; the invariants of the runs, `SentWasPosted`, and the two
  action properties follow. None of them is inductive alone: that a settled row is not
  sent again needs to know that what the delivery listed is still pending
  unless a switch-on withdrew it (`DeliveryInv`); that nothing is swallowed
  needs what the control operation fetched to belong to its target
  (`BaselineInv`); that a stale poll queues nothing needs the poll's
  generation to be older than the stored one once the target was switched on
  (`PollInv`); that a duplicate is explained needs the rows of showtimes with
  an unexplained post to be sent or on their way to it. `PipelineRefinesLedger` maps every step to a ledger step or a
  stutter.
* `PollAlert_proofs`. `Invariance` relates the row, the report in progress and
  what a channel heard; `RepeatsAreExplained`, `ToldIsTold` and
  `RecoveriesFollowFailures` follow.
* `BurstSchedule_proofs`. With lemmas on truncation, `BurstsAdvance`,
  `BackoffIsKept` and `NothingSkipped` hold for every interval, step, lead and
  backoff with a window of three steps shorter than the interval.
* `Application_proofs`. Its first part is about `PreparedPolls`: the invariant says
  who may hold an open tab, the poll in the map or the goroutine that holds the
  mutex; `OneTabOnly`, `UsedTabStaysOpen` and `CleanAfterStop` follow. In the
  second, `AppImplementsPolls` maps every step of the service to one of
  `PreparedPolls` or a stutter; so what is proved of the tabs holds of the
  service (`AppOneTab`, `AppUsedTabOpen`, `AppNoTabAfterStop`). The invariant
  `AppIInv` says for each phase what is open and how far Stop has come;
  `NothingClosedInUse` follows from it together with the tabs' own invariant,
  which knows that a loop that has returned polls no more.
* `HealthCheck_proofs`. `HealthImplementsSchedule` carries the schedule's invariant
  over; `FreshInv` bounds, at each point of the loop, how far the clock and the
  next boundary are from the last success. `HealthAssumption` (three delays fit
  into interval and window, 75 seconds a step with the code's constants) is
  what the argument needs: one late step at the end of a burst, one at the
  beginning of the next and one in its first poll.
* `MegaboxFetch_proofs`. The invariant says of every date on the way to the snapshot
  whether it has been asked, is being asked or will be (`Complete`), that rows
  come from the fetch's own time (`RowsSeen`), and that the output holds only
  what an attempt may have left (`OutputFresh`): as long as an attempt may
  follow it is empty, so that no answer is decoded over another. That rests on
  decode and validation errors not being tried again.
* `JoinLimiter_proofs`. The invariant relates the map to the last press let through
  of each user: either the map has it, or the cooldown after it is over
  (`MapInv`); and a waiting press older than that one was overtaken by it
  (`OrderInv`). `OncePerCooldown` and `RefusedForOneThatPassed` follow.
* `Installation_proofs`. Five layers, each inductive given those before it. What
  every step of the operation may do is said once (`Steps`): it finds what it
  needs, makes it, or fails and forgets.
  - `TypeInv`: `TypeCorrect`.
  - `WorldInv`: ids name one thing each (`Sound`), and an id known for a kind
    never names a thing of another (`Named`).
  - `MemoryInv`: memory and SQLite differ only in what is still to be saved
    (`MemoryAhead`); nobody reaches the category without a saved text
    (`Progress`); members have the saved and known role, or one that was passed
    over as unsafe (`Members`).
    `HiddenOnlyWithAWayIn` follows from it.
  - `PlaceInv`: while nothing has gone wrong since Initialize began, what comes
    before `at` in `Order` is in its place (`Underway`), and after it everything
    is (`Installed`). Saving the ids at each step is what makes the former
    survive; that only the panel may follow a success makes the latter.
    `InstallationsAreConsistent` and `MembersAreNotLockedOut` follow.
  - `TwinInv`: of what is not looked for by name, all there is has the id that
    memory has (`Own`), unless an id of it was lost or, of a role, it was passed over; channels in the category
    are one of a kind (`OneIn`), panels are in the known control channel
    (`PanelsIn`), and an image has no twin at all (`OneImage`), as it is looked
    for by content even without an id. `TwinsAreExplained` follows.

  `NoTwins` used to say less about the control and target channels: two of them under
  one category only when they were `missed` themselves. Looking for the
  strengthening showed that this holds within the run's two faults and fails with
  four: the answer to creating the category is lost, so a second one is made;
  in it the answer to creating the control channel is lost; then the second category cannot
  be read, the first is taken instead and gets a control channel of its own; when
  that category cannot be read either, the second is taken again and the saved channel
  moves in beside the other. `TwinsExplained` therefore
  names a lost category as a reason too. The proof also needs ids for the things of an old
  server (`MaxId >= 4`).

Only model-checked: everything under fairness (`PendingSettles`,
`UnavailableSwitchedOff`, `OutageToldInTheEnd`, `ShutdownEnds`), since the prover has
no support for it, and the three disagreements of section 5, which are
counterexamples. Every other property of a run is also a theorem.

## 5. Where code and documents disagree

1. `AP_skipped`: a delivery lists a row; its target, which is ON, is switched on once
   more, which deletes the row and takes the showtime into the new baseline; the
   delivery asks only whether the target is enabled and sends it, although
   what is open at a switch-on is not to be alerted (`docs/self-hosted.md:152`).
   OFF and ON while an earlier group is sent would do the same.
2. `PA_recovered`: after two refusals a channel stays at "failed" although the
   row says that all is told (`docs/self-hosted.md:166`).
3. `BS_internal`: when the target states cannot be listed the loop takes the same
   boundary again and again, without a wait, until its window is over; the design
   document promises the next regular boundary.

Smaller remarks, with no run of their own:

* A restart between post and commit sends an alert again, while
  `docs/self-hosted.md:164` says a showtime id is not sent again after a restart.
  `DuplicateExplained` names this and its relatives as the only causes.
* The comment at `cgv/provider.go:68-71` says that a tab is closed when its cycle
  ends; one whose preparation is slower than its burst stays open until the next
  burst with its branch, or Stop (`scheduler.go:188-194`). `OneTab` shows that such
  a tab is still the only one and is held by the provider's map or a goroutine.
* A Megabox backoff of six minutes is exactly the two intervals after which the
  health check calls a provider stale, so that it answers 503 for CGV too
  before the next burst, although CGV never failed.
* `docs/provider-contracts/cgv.md:29` says that hours of 24 and more are turned into
  times of the next day; `cgv/provider.go` keeps them as they are. Megabox
  (`normalizeScheduleDateTime`) does turn them.
* `docs/superpowers/specs/2026-07-19-movie-booking-alert-design.md:221` says that at
  SIGTERM database work under way is finished first. That holds of bursts
  (`ClosedAfterUse`), not of handlers of Discord interactions, for which nobody
  waits (`app.go:122-135`).
* `docs/superpowers/plans/2026-07-19-movie-booking-alert.md:193` speaks of Retry-After
  for 429; the client tries any status with that header again.
* `docs/self-hosted.md:158` says the CGV tab is reused across cycles, while
  `provider.go:72-75` opens a fresh one per burst.
* `docs/superpowers/specs/2026-07-22-role-gated-alert-onboarding-design.md:124`
  says that repeating the initialisation duplicates no role, channel or guide
  message; `NoTwins` shows that a restart between create and save does duplicate
  the role, notice, guide and category, which are not looked for by name before
  an id was saved. So does a saved role that is no longer safe: another one
  of the same name is created beside it. Its members keep it but no longer see
  the channels, until they press the button again; `MembersStayIn` names this as
  the only way to be locked out.
* After the category is deleted, the early securing of the control channel names
  a parent that is gone, which Discord may refuse on each try.
* `RunOnce`, `DisableTarget`, `RecordTargetSnapshot`, `GetChannelDelivery`,
  `EnsurePublicCategory` and `EnsurePrivateCategory` are not called by the program.

## 6. Not modelled

* The mapping of a CGV schedule to showtimes: a pure function of one answer, which
  `AlertPipeline` takes as a free choice.
* `Announce`: one read and one Discord call under the mutex.
* The heartbeat: a request every interval, without state.
* Handlers of Discord interactions during Shutdown: the database that closes under
  them is the Crash step of `AlertPipeline` and `Installation`, which cuts them
  between the same steps.
* The text order of `finished_at`, which may make `LatestSuccessfulPoll` up to a
  second too old, below the unit of the models' clocks.
* One failing Megabox branch beside one that succeeds: the health check asks per
  provider and answers 200, as coded.
* `Enable`'s own fetch of a CGV schedule opens and closes a tab of its own;
  `OneTab` speaks of the bursts' tabs.
* The content of the migrations, configuration, catalog, logging, the unused
  cache package and the command-line tools have no behaviour over time.
* Texts, links, embeds and permission bits of messages and channels, except
  that the category is restricted to a role (`admits`).

## 7. Plan

Order of work: the pipeline first, since it is what users see, then what feeds
and surrounds it. Done: `AlertLedger`, `AlertPipeline`, `PollAlert`,
`BurstSchedule`, `PreparedPolls`, then `HealthCheck`, `Application`, `MegaboxFetch`,
`JoinLimiter` and `Installation`, all with proofs.

Next:

1. A CGV fetch in the manner of `MegaboxFetch`: the CDP session of
   `cgv/transport.go`, whose calls may time out one by one, and the dates asked
   through it.
2. `Application` composed with the pipeline instead of its Crash step, with the
   handlers that Shutdown does not wait for.
