--------------------------- MODULE PreparedPolls ---------------------------
(***************************************************************************)
(* The browser tabs of a CGV branch.  A burst starts a goroutine that      *)
(* opens a tab (Provider.PrepareBranch, under the mutex pollsMu), collects *)
(* it when it is ready, polls with it and closes it; a goroutine that is   *)
(* slow goes on after its burst.  Stop ends the loop and closes what is    *)
(* left.  Lightpanda, which owns the tabs, is only seen through the calls  *)
(* that succeed or fail; each of them returns (two minutes at most).       *)
(*                                                                         *)
(* A burst's tab and goroutine carry the number of the burst.  Goroutines  *)
(* lock in the order of their bursts: by those two minutes there is never  *)
(* more than one of them waiting behind the one that holds the mutex.      *)
(***************************************************************************)
EXTENDS Naturals

CONSTANTS
    BurstAttempts,  \* polls per burst: four in the code
    MaxBursts       \* bound on the number of bursts

ASSUME TabsAssumption == BurstAttempts \in Nat /\ MaxBursts \in Nat

Bursts == 1..MaxBursts
None == 0

VARIABLES
    mode,       \* of the loop: "waiting", "polling" or "returned"
    stop,       \* of Stop: "uncalled", "waiting", "done" or "gaveUp"
    burst,      \* number of the current or last burst
    left,       \* attempts the burst has left
    using,      \* its branch: "absent", "pending", "poll" or "error"
    fetching,   \* a fetch with its tab is under way
    failed,     \* the poll's terminalErr is set
    \* the provider and its goroutines
    preparing,  \* bursts whose PrepareBranch has not returned
    holder,     \* the one of them that holds pollsMu
    ready,      \* what each of them sent: "nothing", "poll" or "error"
    polls,      \* the burst whose poll is in provider.polls
    tab         \* of each burst: "none", "opening", "open" or "closed"

loop == <<mode, stop, burst, left>>
group == <<using, fetching, failed>>
provider == <<preparing, holder, ready, polls, tab>>
vars == <<loop, group, provider>>

Alive(n) == tab[n] \in {"opening", "open"}

\* Stop cancels the context that bursts and preparations run under.
Cancelled == stop # "uncalled"

\* forceClose is idempotent, and its error is ignored or only logged.
Closed(n) == IF n = None THEN tab ELSE [tab EXCEPT ![n] = "closed"]

-----------------------------------------------------------------------------
(* The scheduler.                                                          *)

\* The branch takes part when one of its targets is ON.
BeginBurst ==
    /\ mode = "waiting"
    /\ ~Cancelled
    /\ burst < MaxBursts
    /\ burst' = burst + 1
    /\ mode' = "polling"
    /\ left' = BurstAttempts
    /\ fetching' = FALSE
    /\ failed' = FALSE
    /\ \/ /\ using' = "pending"
          /\ preparing' = preparing \cup {burst'}
       \/ /\ using' = "absent"
          /\ UNCHANGED preparing
    /\ UNCHANGED <<stop, holder, ready, polls, tab>>

\* An attempt looks into the channel of its own burst and does not wait.
Collected ==
    IF using = "pending" /\ ready[burst] # "nothing" THEN ready[burst] ELSE using

\* A poll that has failed answers with its error and asks nobody.
RunBurstAttempt ==
    /\ mode = "polling"
    /\ ~fetching
    /\ left > 0
    /\ left' = left - 1
    /\ using' = Collected
    /\ fetching' = (Collected = "poll" /\ ~failed)
    /\ UNCHANGED <<mode, stop, burst, failed, provider>>

Fetch ==
    /\ fetching
    /\ fetching' = FALSE
    /\ failed' \in BOOLEAN
    /\ UNCHANGED <<loop, using, provider>>

\* A cancelled context ends the burst at its next sleep.  The deferred
\* closePreparedPolls closes what the burst has collected.
EndBurst ==
    /\ mode = "polling"
    /\ ~fetching
    /\ left = 0 \/ Cancelled
    /\ tab' = IF using = "poll" THEN Closed(burst) ELSE tab
    /\ using' = "absent"
    /\ mode' = "waiting"
    /\ UNCHANGED <<stop, burst, left, fetching, failed, preparing, holder,
                   ready, polls>>

-----------------------------------------------------------------------------
(* Provider.PrepareBranch.                                                 *)

\* Mutant: the tab of an earlier burst is kept.
MutCloseExisting == UNCHANGED tab
CloseExisting == tab' = Closed(polls)

Lock(n) ==
    /\ holder = None
    /\ n \in preparing
    /\ \A m \in preparing : n <= m
    /\ holder' = n
    /\ CloseExisting
    /\ UNCHANGED <<loop, group, preparing, ready, polls>>

\* Dialling fails once the context is cancelled.  Mutant: it does not.
MutMayDial == TRUE
MayDial == ~Cancelled

Dial(n) ==
    /\ holder = n
    /\ n # None
    /\ tab[n] = "none"
    /\ MayDial
    /\ tab' = [tab EXCEPT ![n] = "opening"]
    /\ UNCHANGED <<loop, group, preparing, holder, ready, polls>>

\* Mutant: the mutex is not released.
MutReturn(n, result) ==
    /\ ready' = [ready EXCEPT ![n] = result]
    /\ preparing' = preparing \ {n}
    /\ UNCHANGED holder

Return(n, result) ==
    /\ ready' = [ready EXCEPT ![n] = result]
    /\ preparing' = preparing \ {n}
    /\ holder' = None

\* What was created is closed again.  Mutant: an error does not release the
\* mutex.
MutOpenFails(n) ==
    /\ holder = n
    /\ n # None
    /\ tab' = [tab EXCEPT ![n] = "closed"]
    /\ ready' = [ready EXCEPT ![n] = "error"]
    /\ polls' = None
    /\ UNCHANGED <<loop, group, preparing, holder>>

OpenFails(n) ==
    /\ holder = n
    /\ n # None
    /\ tab' = [tab EXCEPT ![n] = "closed"]
    /\ polls' = None
    /\ Return(n, "error")
    /\ UNCHANGED <<loop, group>>

\* The attach and navigate calls do not look at the cancellation.
OpenSucceeds(n) ==
    /\ holder = n
    /\ n # None
    /\ tab[n] = "opening"
    /\ tab' = [tab EXCEPT ![n] = "open"]
    /\ polls' = n
    /\ Return(n, "poll")
    /\ UNCHANGED <<loop, group>>

-----------------------------------------------------------------------------
(* Scheduler.Stop.                                                         *)

Stop ==
    /\ ~Cancelled
    /\ stop' = "waiting"
    /\ UNCHANGED <<mode, burst, left, group, provider>>

LoopReturns ==
    /\ mode = "waiting"
    /\ Cancelled
    /\ mode' = "returned"
    /\ UNCHANGED <<stop, burst, left, group, provider>>

\* The shutdown's own context may expire first; then nothing is closed.  (When the
\* loop is over too, the select takes either case.  The code has to make that
\* choice before it waits for pollsMu, here it may give up as long as it waits.)
StopGivesUp ==
    /\ stop = "waiting"
    /\ stop' = "gaveUp"
    /\ UNCHANGED <<mode, burst, left, group, provider>>

\* Mutant: Stop does not wait for the loop.
MutLoopIsOver == TRUE
LoopIsOver == mode = "returned"

ClosePrepared ==
    /\ stop = "waiting"
    /\ LoopIsOver
    /\ holder = None
    /\ tab' = Closed(polls)
    /\ polls' = None
    /\ stop' = "done"
    /\ UNCHANGED <<mode, burst, left, group, preparing, holder, ready>>

-----------------------------------------------------------------------------
Init ==
    /\ mode = "waiting"
    /\ stop = "uncalled"
    /\ burst = 0
    /\ left = 0
    /\ using = "absent"
    /\ fetching = FALSE
    /\ failed = FALSE
    /\ preparing = {}
    /\ holder = None
    /\ ready = [n \in Bursts |-> "nothing"]
    /\ polls = None
    /\ tab = [n \in Bursts |-> "none"]

BurstStep == RunBurstAttempt \/ Fetch \/ EndBurst \/ LoopReturns

Prepare(n) == Lock(n) \/ Dial(n) \/ OpenFails(n) \/ OpenSucceeds(n)

Next ==
    \/ BeginBurst
    \/ BurstStep
    \/ \E n \in Bursts : Prepare(n)
    \/ Stop
    \/ StopGivesUp
    \/ ClosePrepared

Spec == Init /\ [][Next]_vars

-----------------------------------------------------------------------------
\* Every variable holds a value the code can give it.
TypeOK ==
    /\ mode \in {"waiting", "polling", "returned"}
    /\ stop \in {"uncalled", "waiting", "done", "gaveUp"}
    /\ burst \in 0..MaxBursts
    /\ left \in 0..BurstAttempts
    /\ using \in {"absent", "pending", "poll", "error"}
    /\ fetching \in BOOLEAN
    /\ failed \in BOOLEAN
    /\ preparing \subseteq Bursts
    /\ holder \in preparing \cup {None}
    /\ ready \in [Bursts -> {"nothing", "poll", "error"}]
    /\ polls \in 0..MaxBursts
    /\ tab \in [Bursts -> {"none", "opening", "open", "closed"}]

\* The bursts never have two tabs of the branch, though the goroutine of one
\* burst may open its tab while the next runs (provider.go:68-74: memory is
\* bounded), and none is lost: a tab that outlives its burst is the one the next
\* preparation or Stop closes.  A tab that FetchBranchSnapshot opens for Enable
\* is not a burst's.
OneTab ==
    /\ \A m, n \in Bursts : Alive(m) /\ Alive(n) => m = n
    /\ \A n \in Bursts : Alive(n) => n \in {holder, polls}

\* Nobody closes the tab a burst is polling with: neither the goroutine of a
\* slow earlier burst nor Stop.
UsedTabOpen == mode = "polling" /\ using = "poll" => tab[burst] = "open"

\* When Stop has returned no tab is left, and none is opened by a goroutine
\* that is still on its way.
NoTabAfterStop == stop = "done" => \A n \in Bursts : ~Alive(n)
=============================================================================
