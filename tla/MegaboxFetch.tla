---------------------------- MODULE MegaboxFetch ----------------------------
(***************************************************************************)
(* FetchBranchSnapshot of the Megabox provider over the HTTP client: one   *)
(* request for today, which also names the bookable dates, and one request *)
(* for every other date, each of them tried again as DoJSON does.  The     *)
(* cinema's schedule changes while the requests are under way, so the      *)
(* answers of one fetch need not belong to one moment.                     *)
(*                                                                         *)
(* Megabox itself is external.  Other auditoriums and rows that are not    *)
(* bookable are filtered out (provider.go:77-79) and not modelled, nor are *)
(* the names and seats of a showtime.                                      *)
(***************************************************************************)
EXTENDS Naturals

CONSTANTS
    Showtime,       \* schedule numbers of the branch's bookable showtimes
    StartHour,      \* the clock hour of each; after midnight 24 and more
    LastDate,       \* days are numbered from 1
    MaxAttempts,    \* of a request: one in the program, more in its tests
    MaxChanges      \* bound on the changes of the cinema's schedule

ASSUME FetchAssumption ==
    /\ StartHour \in [Showtime -> 0..47]
    /\ LastDate \in Nat
    /\ MaxAttempts \in Nat \ {0}
    /\ MaxChanges \in Nat

Date == 1..LastDate
Off == 0            \* the day of a showtime that is not on sale
None == 0

\* What doOnce may return: a failed exchange, a status of 429 or above 499
\* and another one, without and with a Retry-After in seconds, a body that
\* cannot be decoded, and an answer whose statCd is not zero.
Error == {"transport", "busy", "refused", "busyAfter", "refusedAfter",
          "decode", "validation"}

VARIABLES
    \* the cinema
    showDay,    \* the day each showtime is on sale for, or Off
    bookable,   \* the dates that can be booked
    changes,
    \* the caller
    cancelled,  \* its context is done
    outcome,    \* "none", "error" or "snapshot"
    snapshot,   \* day and hour of the showtimes in it
    \* the fetch
    pc,         \* "idle", "ask", "wait", "pause" or "assemble"
    today,      \* currentDate
    asking,     \* the date of the current request
    todo,       \* the dates still to be asked after it
    attempt,
    output,     \* the two lists the request decoded, if any: at most one pair
    rows,       \* the answers so far: the day of each showtime, or Off
    \* history of the current fetch, which the code does not keep
    seen,       \* showtime and day, at some moment of the fetch
    kept,       \* showtime and day, at every moment of the fetch
    keptDates,  \* dates bookable at every moment of the fetch
    settled     \* dates with an answer, or one that asking again cannot mend

cinema == <<showDay, bookable, changes>>
caller == <<cancelled, outcome, snapshot>>
fetch == <<pc, today, asking, todo, attempt, output, rows>>
moments == <<seen, kept, keptDates>>
vars == <<cinema, caller, fetch, moments, settled>>

NoLists == {}
NoShowtimes == [s \in {} |-> None]
Lists(dates, list) == {[dates |-> dates, list |-> list]}

On(day) == {p \in Showtime \X Date : day[p[1]] = p[2]}

-----------------------------------------------------------------------------
(* The world around the fetch.                                             *)

Running == pc # "idle"

\* Between two fetches the cinema may do what it likes: a fetch starts with
\* any schedule.
Note ==
    /\ seen' = seen \cup On(showDay')
    /\ kept' = kept \cap On(showDay')
    /\ keptDates' = keptDates \cap bookable'

\* A showtime goes on sale, is taken off or is moved to another day.
Reschedule ==
    /\ Running
    /\ changes < MaxChanges
    /\ changes' = changes + 1
    /\ \E s \in Showtime, d \in Date \cup {Off} :
          showDay' = [showDay EXCEPT ![s] = d]
    /\ UNCHANGED bookable
    /\ Note
    /\ UNCHANGED <<caller, fetch, settled>>

OpenDates ==
    /\ Running
    /\ changes < MaxChanges
    /\ changes' = changes + 1
    /\ bookable' \in SUBSET Date
    /\ UNCHANGED showDay
    /\ Note
    /\ UNCHANGED <<caller, fetch, settled>>

\* The burst is over, the program stops or the owner's request has expired.
Cancel ==
    /\ Running
    /\ ~cancelled
    /\ cancelled' = TRUE
    /\ UNCHANGED <<cinema, outcome, snapshot, fetch, moments, settled>>

-----------------------------------------------------------------------------
(* Client.DoJSON.                                                          *)

\* errors.As finds a StatusError, but not the one embedded in an error with
\* a Retry-After, which is tried again whatever its status.
IsStatusError(e) == e \in {"busy", "refused"}

\* Mutant: an answer that cannot be decoded is asked for again.
MutRetryable(e) == IF IsStatusError(e) THEN e = "busy" ELSE e # "validation"
Retryable(e) ==
    IF IsStatusError(e) THEN e = "busy" ELSE e \notin {"decode", "validation"}

Fail ==
    /\ pc' = "idle"
    /\ outcome' = "error"

\* After an error another attempt is made, after a pause, or the fetch fails.
\* Mutant: one attempt more than allowed.
MutGivesUp(e) == attempt > MaxAttempts \/ ~Retryable(e)
GivesUp(e) == attempt = MaxAttempts \/ ~Retryable(e)

Handle(e) ==
    \/ /\ GivesUp(e)
       /\ Fail
    \/ /\ ~GivesUp(e)
       /\ pc' = "pause"
       /\ UNCHANGED outcome

\* A context that is done fails the request before it is sent.
Send ==
    /\ pc = "ask"
    /\ \/ /\ ~cancelled
          /\ pc' = "wait"
          /\ UNCHANGED outcome
       \/ /\ cancelled
          /\ Handle("transport")
    /\ UNCHANGED <<cinema, cancelled, snapshot, today, asking, todo, attempt,
                   output, rows, moments, settled>>

\* The timer and the context may both be ready, and either is taken.
Pause ==
    /\ pc = "pause"
    /\ \/ /\ pc' = "ask"
          /\ attempt' = attempt + 1
          /\ UNCHANGED outcome
       \/ /\ cancelled
          /\ Fail
          /\ UNCHANGED attempt
    /\ UNCHANGED <<cinema, cancelled, snapshot, today, asking, todo, output,
                   rows, moments, settled>>

Settles(e) == e \in {"refused", "decode", "validation"}

\* The rows of an answer about one date; each row carries its own date.
RowsOf(d) == {s \in Showtime : showDay[s] = d}

\* A value of the wrong type, or a statCd that is not zero, leaves what else
\* was decoded in the output.
Decoded(e) ==
    IF e \in {"decode", "validation"}
    THEN \E some \in SUBSET RowsOf(asking) :
            output' \in {NoLists, Lists(bookable, some)}
    ELSE UNCHANGED output

RequestFails ==
    /\ pc = "wait"
    /\ \E e \in Error :
          /\ Decoded(e)
          /\ Handle(e)
          /\ settled' = IF Settles(e) THEN settled \cup {asking} ELSE settled
    /\ UNCHANGED <<cinema, cancelled, snapshot, today, asking, todo, attempt,
                   rows, moments>>

-----------------------------------------------------------------------------
(* FetchBranchSnapshot.                                                    *)

\* now() is read once; each request decodes into a new bookingResponse.
Begin ==
    /\ pc = "idle"
    /\ pc' = "ask"
    /\ today' \in Date
    /\ asking' = today'
    /\ todo' = {}
    /\ attempt' = 1
    /\ output' = NoLists
    /\ rows' = [s \in Showtime |-> Off]
    /\ cancelled' = FALSE
    /\ outcome' = "none"
    /\ snapshot' = NoShowtimes
    /\ seen' = On(showDay)
    /\ kept' = On(showDay)
    /\ keptDates' = bookable
    /\ settled' = {}
    /\ UNCHANGED cinema

\* The dates to be asked after the current answer: the first one names them.
\* Mutant: the current date is asked again when it is bookable.
MutDatesAfter(dates) == IF asking = today THEN dates ELSE todo
DatesAfter(dates) == IF asking = today THEN dates \ {today} ELSE todo

\* One entry for each schedule number: the last answer that has it.
Merged(list) ==
    [s \in Showtime |-> IF s \in list THEN asking ELSE rows[s]]

\* The loop's next date; the order of the dates is Megabox's.
Continue(dates) ==
    \/ /\ dates = {}
       /\ pc' = "assemble"
       /\ UNCHANGED <<asking, todo, attempt, output>>
    \/ \E d \in dates :
          /\ pc' = "ask"
          /\ asking' = d
          /\ todo' = dates \ {d}
          /\ attempt' = 1
          /\ output' = NoLists

\* DoJSON returned without error: validateSelected and bookableDates look at
\* the output, and a date that is no date fails the fetch.
Accept(out) ==
    \/ /\ \E lists \in out :
             /\ rows' = Merged(lists.list)
             /\ Continue(DatesAfter(lists.dates))
       /\ UNCHANGED outcome
    \/ /\ out = NoLists \/ asking = today
       /\ Fail
       /\ UNCHANGED <<asking, todo, attempt, output, rows>>

\* An answer without the lists leaves those of the output alone.
Receive ==
    /\ pc = "wait"
    /\ \E out \in {Lists(bookable, RowsOf(asking)), output} :
          Accept(out)
    /\ settled' = settled \cup {asking}
    /\ UNCHANGED <<cinema, cancelled, snapshot, today, moments>>

\* An hour of 24 or more is one of the next day.
Normalize(d, hour) == [day |-> d + (hour \div 24), hour |-> hour % 24]

Listed == {s \in Showtime : rows[s] # Off}

\* A row that lacks a field or has no proper time fails the whole fetch, also a
\* row of another auditorium, which is not listed.
Assemble ==
    /\ pc = "assemble"
    /\ \/ /\ pc' = "idle"
          /\ outcome' = "snapshot"
          /\ snapshot' = [s \in Listed |-> Normalize(rows[s], StartHour[s])]
       \/ Fail /\ UNCHANGED snapshot
    /\ UNCHANGED <<cinema, cancelled, today, asking, todo, attempt, output,
                   rows, moments, settled>>

-----------------------------------------------------------------------------
\* Any schedule, and no fetch yet.
Init ==
    /\ showDay \in [Showtime -> Date \cup {Off}]
    /\ bookable \in SUBSET Date
    /\ changes = 0
    /\ cancelled = FALSE
    /\ outcome = "none"
    /\ snapshot = NoShowtimes
    /\ pc = "idle"
    /\ today = None
    /\ asking = None
    /\ todo = {}
    /\ attempt = 1
    /\ output = NoLists
    /\ rows = [s \in Showtime |-> Off]
    /\ seen = {}
    /\ kept = {}
    /\ keptDates = {}
    /\ settled = {}

FetchStep == Send \/ Pause \/ RequestFails \/ Receive \/ Assemble

Next ==
    \/ Reschedule
    \/ OpenDates
    \/ Cancel
    \/ Begin
    \/ FetchStep

Spec == Init /\ [][Next]_vars

-----------------------------------------------------------------------------
\* Every variable holds a value the code can give it.
TypeOK ==
    /\ showDay \in [Showtime -> Date \cup {Off}]
    /\ bookable \subseteq Date
    /\ changes \in 0..MaxChanges
    /\ cancelled \in BOOLEAN
    /\ outcome \in {"none", "error", "snapshot"}
    /\ DOMAIN snapshot \subseteq Showtime
    /\ snapshot \in [DOMAIN snapshot -> [day : 1..(LastDate + 1), hour : 0..23]]
    /\ pc \in {"idle", "ask", "wait", "pause", "assemble"}
    /\ today \in Date \cup {None}
    /\ asking \in Date \cup {None}
    /\ Running => asking \in Date /\ today \in Date
    /\ todo \subseteq Date
    /\ attempt \in 1..MaxAttempts
    /\ output \subseteq [dates : SUBSET Date, list : SUBSET Showtime]
    /\ rows \in [Showtime -> Date \cup {Off}]
    /\ seen \subseteq Showtime \X Date
    /\ kept \subseteq Showtime \X Date
    /\ keptDates \subseteq Date
    /\ settled \subseteq Date

Moment(t) == 24 * t.day + t.hour

\* A snapshot contains only showtimes that were on sale at some moment of the
\* fetch, at the time the cinema shows them (hours past midnight included),
\* and all those that were on sale, on a date that was bookable or today,
\* during all of it.  The baseline of a switch-on and the alerts rely on it.
SnapshotFaithful ==
    outcome = "snapshot" =>
       /\ \A s \in DOMAIN snapshot :
             \E p \in seen :
                /\ p[1] = s
                /\ Moment(snapshot[s]) = 24 * p[2] + StartHour[s]
       /\ \A p \in kept :
             p[2] \in keptDates \cup {today} => p[1] \in DOMAIN snapshot

\* DoJSON asks again only for what failed and may succeed, and the fetch asks
\* for every date once: no request for a date follows an answer about it, a
\* body that could not be used, or a refusal without a Retry-After.
AskedWithReason == [][pc = "ask" /\ pc' = "wait" => asking \notin settled]_vars
=============================================================================
