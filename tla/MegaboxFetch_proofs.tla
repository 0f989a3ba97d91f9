------------------------ MODULE MegaboxFetch_proofs ------------------------
(***************************************************************************)
(* Proofs about MegaboxFetch.  While a fetch runs, each showtime it has to *)
(* find is either in the answers so far or on a date that is still to be   *)
(* asked, and nothing an attempt has half decoded is ever looked at.       *)
(***************************************************************************)
EXTENDS MegaboxFetch, TLAPS

Asking == pc \in {"ask", "wait", "pause"}

\* No attempt finds what an earlier one has decoded.
OutputFresh == Asking => output = NoLists

Undecided == Running => outcome = "none"

\* The history is that of the fetch under way.
HistoryHolds ==
    Running => /\ On(showDay) \subseteq seen
               /\ kept \subseteq On(showDay)
               /\ keptDates \subseteq bookable

RowsSeen ==
    Running => \A s \in Showtime : rows[s] # Off => <<s, rows[s]>> \in seen

\* Where a showtime that was on sale all the time still is to be found: the
\* request for today is the one that names the other dates.
ToBeAsked(d) == Asking /\ (d = asking \/ d \in todo \/ asking = today)

Complete ==
    Running =>
       \A p \in kept : p[2] \in keptDates \cup {today} =>
          rows[p[1]] # Off \/ ToBeAsked(p[2])

\* The current date and those after it are open, and today is the first.
EachDateOnce ==
    Asking => /\ asking \notin settled
              /\ asking \notin todo
              /\ today \notin todo
              /\ todo \cap settled = {}
              /\ asking = today => settled = {}

IInv ==
    /\ OutputFresh
    /\ Undecided
    /\ HistoryHolds
    /\ RowsSeen
    /\ Complete
    /\ EachDateOnce
    /\ SnapshotFaithful

-----------------------------------------------------------------------------
\* Putting an hour past midnight on the next day keeps the moment.
LEMMA NormalizeKeepsMoment ==
    ASSUME NEW d \in Date, NEW h \in 0..47
    PROVE  /\ Normalize(d, h) \in [day : 1..(LastDate + 1), hour : 0..23]
           /\ Moment(Normalize(d, h)) = 24 * d + h
<1> USE FetchAssumption
<1>1. CASE h < 24
  <2>1. h \div 24 = 0 /\ h % 24 = h
    BY <1>1
  <2>2. Normalize(d, h) = [day |-> d, hour |-> h]
    BY <2>1 DEF Normalize, Date
  <2> QED BY <1>1, <2>2 DEF Moment, Date
<1>2. CASE h >= 24
  <2>1. h \div 24 = 1 /\ h % 24 = h - 24
    BY <1>2
  <2>2. Normalize(d, h) = [day |-> d + 1, hour |-> h - 24]
    BY <2>1 DEF Normalize
  <2> QED BY <1>2, <2>2 DEF Moment, Date
<1> QED BY <1>1, <1>2

\* The days of the schedule as showtimes and days.
LEMMA OnDay ==
    ASSUME NEW s \in Showtime, NEW d \in Date
    PROVE  <<s, d>> \in On(showDay) <=> showDay[s] = d
BY DEF On

-----------------------------------------------------------------------------
\* A pause is followed by an attempt that is allowed.
TypeInv == TypeOK /\ (pc = "pause" => attempt < MaxAttempts)

LEMMA InitType == Init => TypeInv
<1> SUFFICES ASSUME Init PROVE TypeInv
  OBVIOUS
<1>1. /\ DOMAIN snapshot \subseteq Showtime
      /\ snapshot \in [DOMAIN snapshot -> [day : 1..(LastDate + 1), hour : 0..23]]
  BY DEF Init, NoShowtimes
<1>2. /\ rows \in [Showtime -> Date \cup {Off}]
      /\ attempt \in 1..MaxAttempts
      /\ changes \in 0..MaxChanges
  BY FetchAssumption DEF Init
<1> QED
  BY <1>1, <1>2 DEF Init, TypeInv, TypeOK, Running, None, NoLists

\* A step from a well typed state leads to one.
LEMMA NextType == TypeInv /\ [Next]_vars => TypeInv'
<1> SUFFICES ASSUME TypeInv, [Next]_vars PROVE TypeInv'
  OBVIOUS
<1> USE FetchAssumption DEF TypeInv, TypeOK, Running
<1>1. ASSUME Reschedule PROVE TypeInv'
  <2>1. /\ showDay' \in [Showtime -> Date \cup {Off}]
        /\ bookable' = bookable
        /\ changes' \in 0..MaxChanges
    BY <1>1 DEF Reschedule
  <2>2. /\ seen' \subseteq Showtime \X Date
        /\ kept' \subseteq Showtime \X Date
        /\ keptDates' \subseteq Date
    BY <1>1 DEF Reschedule, Note, On
  <2>3. UNCHANGED <<caller, fetch, settled>>
    BY <1>1 DEF Reschedule
  <2> QED BY <2>1, <2>2, <2>3 DEF caller, fetch
<1>2. ASSUME OpenDates PROVE TypeInv'
  <2>1. /\ showDay' = showDay
        /\ bookable' \subseteq Date
        /\ changes' \in 0..MaxChanges
    BY <1>2 DEF OpenDates
  <2>2. /\ seen' \subseteq Showtime \X Date
        /\ kept' \subseteq Showtime \X Date
        /\ keptDates' \subseteq Date
    BY <1>2 DEF OpenDates, Note, On
  <2>3. UNCHANGED <<caller, fetch, settled>>
    BY <1>2 DEF OpenDates
  <2> QED BY <2>1, <2>2, <2>3 DEF caller, fetch
<1>3. ASSUME Cancel PROVE TypeInv'
  BY <1>3 DEF Cancel, cinema, fetch, moments
<1>4. ASSUME Begin PROVE TypeInv'
  <2>1. UNCHANGED cinema
    BY <1>4 DEF Begin
  <2>2. seen' \subseteq Showtime \X Date /\ kept' \subseteq Showtime \X Date
    BY <1>4 DEF Begin, On
  <2>3. rows' \in [Showtime -> Date \cup {Off}]
    BY <1>4 DEF Begin
  <2>4. /\ DOMAIN snapshot' \subseteq Showtime
        /\ snapshot' \in [DOMAIN snapshot' -> [day : 1..(LastDate + 1), hour : 0..23]]
    BY <1>4 DEF Begin, NoShowtimes
  <2>5. /\ cancelled' = FALSE
        /\ outcome' = "none"
        /\ pc' = "ask"
        /\ today' \in Date
        /\ asking' = today'
        /\ todo' = {}
        /\ output' = {}
        /\ keptDates' = bookable
        /\ settled' = {}
    BY <1>4 DEF Begin, NoLists
  <2>6. attempt' \in 1..MaxAttempts
    BY <1>4 DEF Begin
  <2>7. /\ showDay' = showDay
        /\ bookable' = bookable
        /\ changes' = changes
    BY <2>1 DEF cinema
  <2> QED BY <2>2, <2>3, <2>4, <2>5, <2>6, <2>7
<1>5. ASSUME Send PROVE TypeInv'
  BY <1>5 DEF Send, Handle, GivesUp, Fail, cinema, moments
<1>6. ASSUME Pause PROVE TypeInv'
  BY <1>6 DEF Pause, Fail, cinema, moments
<1>7. ASSUME RequestFails PROVE TypeInv'
  <2>1. /\ output' \subseteq [dates : SUBSET Date, list : SUBSET Showtime]
        /\ settled' \subseteq Date
    BY <1>7 DEF RequestFails, Decoded, Lists, NoLists, RowsOf
  <2>2. /\ pc' \in {"idle", "pause"}
        /\ outcome' \in {"none", "error", "snapshot"}
        /\ pc' = "pause" => attempt < MaxAttempts
    BY <1>7 DEF RequestFails, Handle, GivesUp, Fail
  <2>3. UNCHANGED <<cinema, cancelled, snapshot, today, asking, todo, attempt,
                    rows, moments>>
    BY <1>7 DEF RequestFails
  <2> QED BY <1>7, <2>1, <2>2, <2>3 DEF RequestFails, cinema, moments
<1>8. ASSUME Receive PROVE TypeInv'
  <2>1. PICK out \in {Lists(bookable, RowsOf(asking)), output} : Accept(out)
    BY <1>8 DEF Receive
  <2>2. out \subseteq [dates : SUBSET Date, list : SUBSET Showtime]
    BY DEF Lists, RowsOf
  <2>3. /\ rows' \in [Showtime -> Date \cup {Off}]
        /\ pc' \in {"idle", "ask", "assemble"}
        /\ asking' \in Date
        /\ todo' \subseteq Date
        /\ attempt' \in 1..MaxAttempts
        /\ output' \subseteq [dates : SUBSET Date, list : SUBSET Showtime]
        /\ outcome' \in {"none", "error", "snapshot"}
    <3>1. CASE \E lists \in out : rows' = Merged(lists.list)
                                  /\ Continue(DatesAfter(lists.dates))
      <4>1. PICK lists \in out : rows' = Merged(lists.list)
                                 /\ Continue(DatesAfter(lists.dates))
        BY <3>1
      <4>2. rows' \in [Showtime -> Date \cup {Off}]
        BY <4>1, <1>8 DEF Merged, Receive
      <4>3. DatesAfter(lists.dates) \subseteq Date
        BY <2>2 DEF DatesAfter
      <4>4. outcome' = outcome \/ outcome' = "error"
        BY <2>1 DEF Accept, Fail
      <4> QED BY <4>1, <4>2, <4>3, <4>4, <1>8 DEF Continue, NoLists, Receive
    <3>2. CASE Fail /\ UNCHANGED <<asking, todo, attempt, output, rows>>
      BY <3>2, <1>8 DEF Fail, Receive
    <3> QED BY <2>1, <3>1, <3>2 DEF Accept
  <2>4. /\ UNCHANGED <<cinema, cancelled, snapshot, today, moments>>
        /\ settled' \subseteq Date
    BY <1>8 DEF Receive
  <2> QED BY <1>8, <2>3, <2>4 DEF Receive, cinema, moments
<1>9. ASSUME Assemble PROVE TypeInv'
  <2>1. UNCHANGED <<cinema, cancelled, today, asking, todo, attempt, output,
                    rows, moments, settled>>
    BY <1>9 DEF Assemble
  <2>2. pc' = "idle" /\ outcome' \in {"snapshot", "error"}
    BY <1>9 DEF Assemble, Fail
  <2>3. /\ DOMAIN snapshot' \subseteq Showtime
        /\ snapshot' \in [DOMAIN snapshot' -> [day : 1..(LastDate + 1), hour : 0..23]]
    <3>1. CASE snapshot' = [s \in Listed |-> Normalize(rows[s], StartHour[s])]
      <4>1. \A s \in Listed : Normalize(rows[s], StartHour[s])
                                 \in [day : 1..(LastDate + 1), hour : 0..23]
        BY NormalizeKeepsMoment DEF Listed
      <4> QED BY <3>1, <4>1 DEF Listed
    <3>2. CASE UNCHANGED snapshot
      BY <3>2
    <3> QED BY <1>9, <3>1, <3>2 DEF Assemble
  <2> QED BY <2>1, <2>2, <2>3 DEF cinema, moments
<1>10. ASSUME UNCHANGED vars PROVE TypeInv'
  BY <1>10 DEF vars, cinema, caller, fetch, moments
<1> QED
  BY <1>1, <1>2, <1>3, <1>4, <1>5, <1>6, <1>7, <1>8, <1>9, <1>10 DEF Next, FetchStep

\* Every variable of a fetch keeps its type, and no request is tried more than
\* MaxAttempts times, for any set of showtimes and any number of dates.
THEOREM TypeCorrect == Spec => []TypeOK
<1>1. TypeInv => TypeOK
  BY DEF TypeInv
<1> QED BY InitType, NextType, <1>1, PTL DEF Spec

-----------------------------------------------------------------------------
LEMMA InitInv == Init => IInv
BY DEF Init, IInv, OutputFresh, Asking, Undecided, Running, HistoryHolds,
       RowsSeen, Complete, EachDateOnce, SnapshotFaithful

\* A change of the schedule: what is noted keeps the history true.
LEMMA ChangeInv ==
    ASSUME TypeOK, IInv, Running, Note, UNCHANGED <<caller, fetch, settled>>
    PROVE  IInv'
<1> USE DEF Running
<1>1. /\ UNCHANGED <<outcome, snapshot, pc, today, asking, todo, output, rows,
                     settled>>
      /\ Asking' = Asking
  BY DEF caller, fetch, Asking
<1>2. outcome = "none"
  BY DEF IInv, Undecided
<1>3. HistoryHolds' /\ seen \subseteq seen' /\ kept' \subseteq kept
                    /\ keptDates' \subseteq keptDates
  BY DEF IInv, HistoryHolds, Note, On
<1>4. OutputFresh' /\ Undecided' /\ EachDateOnce'
  BY <1>1 DEF IInv, OutputFresh, Undecided, EachDateOnce
<1>5. RowsSeen'
  BY <1>1, <1>3 DEF IInv, RowsSeen
<1>6. Complete'
  BY <1>1, <1>3 DEF IInv, Complete, ToBeAsked
<1>7. SnapshotFaithful'
  BY <1>1, <1>2 DEF SnapshotFaithful
<1> QED
  BY <1>3, <1>4, <1>5, <1>6, <1>7 DEF IInv

\* A step that leaves the answers and the history alone and does not go on to
\* another date.
LEMMA QuietInv ==
    ASSUME TypeOK, IInv, Running,
           UNCHANGED <<cinema, snapshot, today, asking, todo, rows, moments>>,
           \/ /\ pc' = "idle"
              /\ outcome' = "error"
           \/ /\ Asking
              /\ pc' \in {"ask", "wait", "pause"}
              /\ UNCHANGED <<outcome, output, settled>>
    PROVE  IInv'
<1> USE DEF Running
<1>1. CASE pc' = "idle" /\ outcome' = "error"
  BY <1>1 DEF IInv, OutputFresh, Asking, Undecided, HistoryHolds, RowsSeen,
              Complete, EachDateOnce, SnapshotFaithful
<1>2. CASE /\ Asking
           /\ pc' \in {"ask", "wait", "pause"}
           /\ UNCHANGED <<outcome, output, settled>>
  <2>1. Asking' /\ Running' /\ outcome = "none"
    BY <1>2 DEF Asking, IInv, Undecided
  <2>2. OutputFresh' /\ Undecided' /\ EachDateOnce' /\ SnapshotFaithful'
    BY <1>2, <2>1 DEF IInv, OutputFresh, Undecided, EachDateOnce, SnapshotFaithful
  <2>3. HistoryHolds' /\ RowsSeen'
    BY <1>2, <2>1 DEF IInv, HistoryHolds, RowsSeen, cinema, moments, On
  <2>4. Complete'
    BY <1>2, <2>1 DEF IInv, Complete, ToBeAsked, moments
  <2> QED BY <2>2, <2>3, <2>4 DEF IInv
<1> QED BY <1>1, <1>2

\* An answer with both lists: the asked date is in the rows, and every other
\* date that counts is the next or comes after it.
LEMMA AnswerInv ==
    ASSUME TypeOK, IInv, pc = "wait",
           rows' = Merged(RowsOf(asking)),
           Continue(DatesAfter(bookable)),
           settled' = settled \cup {asking},
           UNCHANGED <<cinema, outcome, snapshot, today, moments>>
    PROVE  IInv'
<1> USE DEF Running
<1>1. Asking /\ Running /\ Running' /\ outcome = "none"
  BY DEF Asking, IInv, Undecided, Continue
<1>2. /\ today \in Date /\ asking \in Date
      /\ asking \notin settled /\ asking \notin todo /\ today \notin todo
      /\ todo \cap settled = {}
      /\ asking = today => settled = {}
  BY <1>1 DEF IInv, EachDateOnce, TypeOK
<1>3. /\ On(showDay) \subseteq seen /\ kept \subseteq On(showDay)
      /\ keptDates \subseteq bookable
  BY <1>1 DEF IInv, HistoryHolds
<1>4. /\ rows' \in [Showtime -> Date \cup {Off}]
      /\ \A s \in Showtime : rows'[s] = IF showDay[s] = asking THEN asking ELSE rows[s]
  BY <1>2 DEF Merged, RowsOf, TypeOK
<1>5. OutputFresh' /\ Undecided' /\ HistoryHolds' /\ SnapshotFaithful'
  <2>1. OutputFresh'
    BY <1>1 DEF OutputFresh, Asking, IInv, Continue
  <2>2. Undecided' /\ SnapshotFaithful'
    BY <1>1 DEF Undecided, SnapshotFaithful
  <2>3. HistoryHolds'
    BY <1>1, <1>3 DEF HistoryHolds, cinema, moments, On
  <2> QED BY <2>1, <2>2, <2>3
<1>6. RowsSeen'
  <2> SUFFICES ASSUME NEW s \in Showtime, rows'[s] # Off
               PROVE  <<s, rows'[s]>> \in seen
    BY DEF RowsSeen, moments
  <2>1. CASE showDay[s] = asking
    BY <2>1, <1>2, <1>3, <1>4, OnDay
  <2>2. CASE showDay[s] # asking
    BY <2>2, <1>1, <1>4 DEF IInv, RowsSeen
  <2> QED BY <2>1, <2>2
<1>7. DEFINE dates == DatesAfter(bookable)
<1>8. /\ asking \notin dates /\ today \notin dates
      /\ dates \cap (settled \cup {asking}) = {}
  BY <1>2 DEF DatesAfter
<1>9. \/ dates = {} /\ pc' = "assemble"
      \/ pc' = "ask" /\ asking' \in dates /\ todo' = dates \ {asking'}
  BY DEF Continue
<1>10. EachDateOnce'
  <2>1. CASE dates = {} /\ pc' = "assemble"
    BY <2>1 DEF EachDateOnce, Asking
  <2>2. CASE pc' = "ask" /\ asking' \in dates /\ todo' = dates \ {asking'}
    <3> DEFINE a == asking'
    <3> HIDE DEF dates
    <3>1. /\ asking' \notin settled' /\ asking' \notin todo'
          /\ today' \notin todo'
          /\ todo' \cap settled' = {}
          /\ asking' # today'
      BY <2>2, <1>8
    <3> QED BY <3>1 DEF EachDateOnce
  <2> QED BY <1>9, <2>1, <2>2
<1>11. Complete'
  <2> SUFFICES ASSUME NEW p \in kept, p[2] \in keptDates \cup {today}
               PROVE  rows'[p[1]] # Off \/ ToBeAsked(p[2])'
    BY DEF Complete, moments
  <2>1. /\ p[1] \in Showtime /\ p[2] \in Date /\ showDay[p[1]] = p[2]
        /\ p = <<p[1], p[2]>>
    BY <1>3 DEF On
  <2>2. CASE p[2] = asking
    BY <2>1, <2>2, <1>2, <1>4 DEF Off, Date, TypeOK
  <2>3. CASE p[2] # asking /\ rows[p[1]] # Off
    BY <2>1, <2>3, <1>4
  <2>4. CASE p[2] # asking /\ rows[p[1]] = Off
    <3>1. ToBeAsked(p[2])
      BY <2>4, <1>1 DEF IInv, Complete
    <3>2. p[2] \in dates
      BY <3>1, <2>4, <1>3 DEF ToBeAsked, DatesAfter
    <3> HIDE DEF dates
    <3>3. pc' = "ask" /\ asking' \in dates /\ todo' = dates \ {asking'}
      BY <3>2, <1>9
    <3>4. p[2] = asking' \/ p[2] \in todo'
      BY <3>2, <3>3
    <3> QED BY <3>3, <3>4 DEF ToBeAsked, Asking
  <2> QED BY <2>2, <2>3, <2>4
<1> QED
  BY <1>5, <1>6, <1>10, <1>11 DEF IInv

\* The snapshot put together from all the answers.
LEMMA AssembleInv ==
    ASSUME TypeOK, IInv, pc = "assemble", pc' = "idle",
           outcome' = "snapshot",
           snapshot' = [s \in Listed |-> Normalize(rows[s], StartHour[s])],
           UNCHANGED <<cinema, today, asking, todo, rows, moments, settled>>
    PROVE  IInv'
<1> USE DEF Running
<1>1. DOMAIN snapshot' = Listed
  OBVIOUS
<1>2. ASSUME NEW s \in Listed
      PROVE  \E p \in seen : p[1] = s /\ Moment(snapshot'[s]) = 24 * p[2] + StartHour[s]
  <2>1. s \in Showtime /\ rows[s] \in Date
    BY DEF Listed, TypeOK
  <2>2. <<s, rows[s]>> \in seen
    BY <2>1 DEF IInv, RowsSeen, Listed
  <2>3. StartHour[s] \in 0..47
    BY <2>1, FetchAssumption
  <2>4. Moment(Normalize(rows[s], StartHour[s])) = 24 * rows[s] + StartHour[s]
    BY <2>1, <2>3, NormalizeKeepsMoment
  <2>5. snapshot'[s] = Normalize(rows[s], StartHour[s])
    OBVIOUS
  <2> QED BY <2>2, <2>4, <2>5
<1>3. ASSUME NEW p \in kept, p[2] \in keptDates \cup {today}
      PROVE  p[1] \in Listed
  <2>1. rows[p[1]] # Off
    BY <1>3 DEF IInv, Complete, ToBeAsked, Asking
  <2> QED BY <2>1 DEF Listed, TypeOK
<1>4. SnapshotFaithful'
  <2>1. /\ \A s \in DOMAIN snapshot' :
              \E p \in seen' :
                 /\ p[1] = s
                 /\ Moment(snapshot'[s]) = 24 * p[2] + StartHour[s]
        /\ \A p \in kept' :
              p[2] \in keptDates' \cup {today'} => p[1] \in DOMAIN snapshot'
    BY <1>1, <1>2, <1>3 DEF moments
  <2> QED BY <2>1 DEF SnapshotFaithful, Moment
<1>5. OutputFresh' /\ Undecided' /\ HistoryHolds' /\ RowsSeen' /\ Complete' /\ EachDateOnce'
  BY DEF OutputFresh, Undecided, HistoryHolds, RowsSeen, Complete, EachDateOnce, Asking
<1> QED
  BY <1>4, <1>5 DEF IInv

LEMMA NextInv == TypeOK /\ IInv /\ [Next]_vars => IInv'
<1> SUFFICES ASSUME TypeOK, IInv, [Next]_vars PROVE IInv'
  OBVIOUS
<1>1. ASSUME Reschedule PROVE IInv'
  BY <1>1, ChangeInv DEF Reschedule
<1>2. ASSUME OpenDates PROVE IInv'
  BY <1>2, ChangeInv DEF OpenDates
<1>3. ASSUME Cancel PROVE IInv'
  BY <1>3 DEF Cancel, cinema, fetch, moments, IInv, OutputFresh, Asking, Undecided, Running,
              HistoryHolds, On, RowsSeen, Complete, ToBeAsked, EachDateOnce, SnapshotFaithful
<1>4. ASSUME Begin PROVE IInv'
  <2>1. /\ pc' = "ask" /\ asking' = today' /\ todo' = {} /\ output' = NoLists
        /\ rows' = [s \in Showtime |-> Off]
        /\ outcome' = "none" /\ settled' = {}
        /\ seen' = On(showDay) /\ kept' = On(showDay) /\ keptDates' = bookable
        /\ showDay' = showDay /\ bookable' = bookable
    BY <1>4 DEF Begin, cinema
  <2>2. OutputFresh' /\ Undecided' /\ EachDateOnce' /\ SnapshotFaithful'
    BY <2>1 DEF OutputFresh, Undecided, EachDateOnce, SnapshotFaithful
  <2>3. HistoryHolds' /\ RowsSeen'
    BY <2>1 DEF HistoryHolds, RowsSeen, On
  <2>4. Complete'
    BY <2>1 DEF Complete, ToBeAsked, Asking
  <2> QED BY <2>2, <2>3, <2>4 DEF IInv
<1>5. ASSUME Send PROVE IInv'
  <2>1. Running /\ Asking
    BY <1>5 DEF Send, Running, Asking
  <2>2. \/ pc' = "idle" /\ outcome' = "error"
        \/ pc' \in {"wait", "pause"} /\ UNCHANGED outcome
    BY <1>5 DEF Send, Handle, Fail
  <2> QED BY <1>5, <2>1, <2>2, QuietInv DEF Send
<1>6. ASSUME Pause PROVE IInv'
  <2>1. Running /\ Asking
    BY <1>6 DEF Pause, Running, Asking
  <2>2. \/ pc' = "idle" /\ outcome' = "error"
        \/ pc' = "ask" /\ UNCHANGED outcome
    BY <1>6 DEF Pause, Fail
  <2> QED BY <1>6, <2>1, <2>2, QuietInv DEF Pause
<1>7. ASSUME RequestFails PROVE IInv'
  <2>1. Running /\ Asking
    BY <1>7 DEF RequestFails, Running, Asking
  <2>2. PICK e \in Error :
           /\ Decoded(e)
           /\ Handle(e)
           /\ settled' = IF Settles(e) THEN settled \cup {asking} ELSE settled
    BY <1>7 DEF RequestFails
  <2>3. \/ pc' = "idle" /\ outcome' = "error"
        \/ pc' = "pause" /\ UNCHANGED <<outcome, output, settled>>
    BY <2>2 DEF Handle, GivesUp, Retryable, IsStatusError, Decoded, Settles, Fail, Error
  <2> QED BY <1>7, <2>1, <2>3, QuietInv DEF RequestFails
<1>8. ASSUME Receive PROVE IInv'
  <2>1. Running /\ Asking /\ output = {}
    BY <1>8 DEF Receive, Running, Asking, IInv, OutputFresh, NoLists
  <2>2. PICK out \in {Lists(bookable, RowsOf(asking)), output} : Accept(out)
    BY <1>8 DEF Receive
  <2>3. CASE pc' = "idle" /\ outcome' = "error"
             /\ UNCHANGED <<asking, todo, attempt, output, rows>>
    BY <1>8, <2>1, <2>3, QuietInv DEF Receive
  <2>4. CASE UNCHANGED outcome /\ \E lists \in out :
                /\ rows' = Merged(lists.list)
                /\ Continue(DatesAfter(lists.dates))
    <3>1. out = Lists(bookable, RowsOf(asking))
      BY <2>1, <2>2, <2>4
    <3>2. /\ rows' = Merged(RowsOf(asking))
          /\ Continue(DatesAfter(bookable))
      BY <2>4, <3>1 DEF Lists
    <3> QED BY <1>8, <2>4, <3>2, AnswerInv DEF Receive
  <2> QED BY <2>2, <2>3, <2>4 DEF Accept, Fail
<1>9. ASSUME Assemble PROVE IInv'
  <2>1. Running /\ pc = "assemble"
    BY <1>9 DEF Assemble, Running
  <2>2. CASE pc' = "idle" /\ outcome' = "error" /\ UNCHANGED snapshot
    BY <1>9, <2>1, <2>2, QuietInv DEF Assemble
  <2>3. CASE /\ pc' = "idle" /\ outcome' = "snapshot"
             /\ snapshot' = [s \in Listed |-> Normalize(rows[s], StartHour[s])]
    BY <1>9, <2>1, <2>3, AssembleInv DEF Assemble
  <2> QED BY <1>9, <2>2, <2>3 DEF Assemble, Fail
<1>10. ASSUME UNCHANGED vars PROVE IInv'
  BY <1>10 DEF vars, cinema, caller, fetch, moments, IInv, OutputFresh, Asking,
        Undecided, Running, HistoryHolds, On, RowsSeen, Complete, ToBeAsked, EachDateOnce, SnapshotFaithful
<1> QED
  BY <1>1, <1>2, <1>3, <1>4, <1>5, <1>6, <1>7, <1>8, <1>9, <1>10 DEF Next, FetchStep

\* The strengthened invariant holds in every state.
THEOREM Invariance == Spec => [](TypeOK /\ IInv)
<1>1. TypeInv => TypeOK
  BY DEF TypeInv
<1> QED BY InitType, NextType, InitInv, NextInv, <1>1, PTL DEF Spec

\* Every snapshot shows what the cinema had on sale at some moment of the
\* fetch, at its time, and all that it had on sale throughout.
THEOREM SnapshotsAreFaithful == Spec => []SnapshotFaithful
<1>1. IInv => SnapshotFaithful
  BY DEF IInv
<1> QED BY Invariance, <1>1, PTL

\* No date is asked again after an answer or a refusal that is final.
THEOREM NothingAskedInVain == Spec => AskedWithReason
<1>1. IInv => [pc = "ask" /\ pc' = "wait" => asking \notin settled]_vars
  BY DEF IInv, EachDateOnce, Asking
<1> QED BY Invariance, <1>1, PTL DEF AskedWithReason
=============================================================================
