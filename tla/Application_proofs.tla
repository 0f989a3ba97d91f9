-------------------------- MODULE Application_proofs --------------------------
(***************************************************************************)
(* First the prepared polls alone: one tab at a time, never closed under   *)
(* the burst that uses it, none after Stop, for every number of bursts and *)
(* attempts.  The argument is about the order in which preparations        *)
(* return: a burst whose own preparation has returned has no earlier one   *)
(* left that could take its tab away.                                      *)
(*                                                                         *)
(* The whole service drives the prepared polls as PreparedPolls says, so   *)
(* what is proved there holds of it; and the order of Start and Shutdown   *)
(* is an invariant from which it follows that nothing is closed in use.    *)
(***************************************************************************)
EXTENDS Application, TLAPS

\* The inductive invariant: an alive tab belongs to the preparation that holds
\* the mutex or else is the provider's; a preparation under way has sent
\* nothing and comes after those that have returned; and a poll that was sent
\* to the running burst is the provider's.
Owned ==
    /\ \A n \in Bursts : Alive(n) => n = IF holder = None THEN polls ELSE holder
    /\ \A n \in Bursts : tab[n] = "opening" => holder = n
    /\ \A n \in Bursts : n > burst => tab[n] = "none" /\ ready[n] = "nothing"
    /\ polls <= burst

Ordered ==
    /\ \A n \in preparing : n <= burst /\ ready[n] = "nothing"
    /\ \A n \in preparing : holder # None => holder <= n
    /\ \A n \in Bursts : ready[n] # "nothing" => \A m \in preparing : n < m

InUse ==
    /\ mode = "polling" /\ using \in {"poll", "error"} => ready[burst] = using
    /\ mode = "polling" /\ burst \in Bursts /\ ready[burst] = "poll"
          => polls = burst /\ tab[burst] = "open" /\ holder = None
    /\ mode = "polling" => burst \in Bursts
    /\ stop = "done" => mode = "returned"

IInv ==
    /\ TypeOK
    /\ Owned
    /\ Ordered
    /\ InUse
    /\ NoTabAfterStop

-----------------------------------------------------------------------------
\* Bursts are positive numbers; none of them is None.
LEMMA BurstNumbers ==
    /\ Bursts \subseteq Nat
    /\ None \notin Bursts
    /\ \A n \in Bursts : n # None /\ n > 0
BY TabsAssumption DEF Bursts, None

LEMMA Initially == Init => IInv
<1> SUFFICES ASSUME Init PROVE IInv
  OBVIOUS
<1>1. TypeOK
  <2>1. /\ ready \in [Bursts -> {"nothing", "poll", "error"}]
        /\ tab \in [Bursts -> {"none", "opening", "open", "closed"}]
    BY DEF Init
  <2>2. burst \in 0..MaxBursts /\ left \in 0..BurstAttempts /\ polls \in 0..MaxBursts
    BY TabsAssumption DEF Init, None
  <2> QED  BY <2>1, <2>2 DEF Init, TypeOK
<1>2. Owned
  BY DEF Init, Owned, Alive, None
<1>3. Ordered
  BY DEF Init, Ordered
<1>4. InUse /\ NoTabAfterStop
  BY DEF Init, InUse, NoTabAfterStop
<1> QED  BY <1>1, <1>2, <1>3, <1>4 DEF IInv

\* The scheduler's steps before a burst ends touch no tab.
LEMMA BeginBurstStep == IInv /\ BeginBurst => IInv'
<1> SUFFICES ASSUME IInv, BeginBurst PROVE IInv'
  OBVIOUS
<1> USE BurstNumbers
<1>1. TypeOK /\ Owned /\ Ordered /\ InUse /\ NoTabAfterStop
  BY DEF IInv
<1>2. /\ mode = "waiting" /\ stop = "uncalled"
      /\ burst' = burst + 1 /\ mode' = "polling" /\ left' = BurstAttempts
      /\ fetching' = FALSE /\ failed' = FALSE
      /\ UNCHANGED <<stop, holder, ready, polls, tab>>
      /\ using' \in {"pending", "absent"}
      /\ preparing' \in {preparing, preparing \cup {burst + 1}}
  BY DEF BeginBurst, Cancelled
<1>3. burst \in Nat /\ burst + 1 \in Bursts
  BY <1>1, TabsAssumption DEF BeginBurst, TypeOK, Bursts
<1>4. TypeOK'
  <2>1. burst' \in 0..MaxBursts /\ left' \in 0..BurstAttempts
    BY <1>2, <1>3, TabsAssumption DEF Bursts
  <2>2. preparing' \subseteq Bursts /\ holder' \in preparing' \cup {None}
    BY <1>1, <1>2, <1>3 DEF TypeOK
  <2>3. using' \in {"absent", "pending", "poll", "error"}
    BY <1>2
  <2> QED  BY <1>1, <1>2, <2>1, <2>2, <2>3 DEF TypeOK
<1>5. Owned'
  BY <1>1, <1>2, <1>3 DEF Owned, Alive, TypeOK
<1>6. Ordered'
  <2>1. preparing \subseteq Bursts /\ holder \in preparing \cup {None}
    BY <1>1 DEF TypeOK
  <2>2. ready[burst + 1] = "nothing"
    BY <1>1, <1>3 DEF Owned
  <2>3. \A n \in preparing' : n <= burst' /\ ready'[n] = "nothing"
    BY <1>1, <1>2, <1>3, <2>1, <2>2 DEF Ordered
  <2>4. \A n \in preparing' : holder' # None => holder' <= n
    BY <1>1, <1>2, <1>3, <2>1 DEF Ordered
  <2>5. \A n \in Bursts : ready'[n] # "nothing" => \A m \in preparing' : n < m
    <3>1. \A n \in Bursts : ready[n] # "nothing" => n < burst + 1
      BY <1>1, <1>3 DEF Owned
    <3> QED  BY <1>1, <1>2, <3>1 DEF Ordered
  <2> QED  BY <2>3, <2>4, <2>5 DEF Ordered
<1>7. InUse'
  BY <1>1, <1>2, <1>3 DEF InUse, Owned
<1>8. NoTabAfterStop'
  BY <1>2 DEF NoTabAfterStop
<1> QED  BY <1>4, <1>5, <1>6, <1>7, <1>8 DEF IInv

LEMMA AttemptStep == IInv /\ (RunBurstAttempt \/ Fetch) => IInv'
<1> SUFFICES ASSUME IInv, RunBurstAttempt \/ Fetch PROVE IInv'
  OBVIOUS
<1>1. TypeOK /\ Owned /\ Ordered /\ InUse /\ NoTabAfterStop
  BY DEF IInv
<1>2. UNCHANGED <<provider, mode, stop, burst>> /\ using' \in {using, Collected}
  BY DEF RunBurstAttempt, Fetch, loop
<1>3. Collected = using \/ (using = "pending" /\ Collected = ready[burst] /\ ready[burst] # "nothing")
  BY DEF Collected
<1>4. RunBurstAttempt => mode = "polling" /\ burst \in Bursts
  BY <1>1 DEF RunBurstAttempt, InUse
<1>5. TypeOK'
  <2>1. using' \in {"absent", "pending", "poll", "error"}
    BY <1>1, <1>2, <1>3, <1>4 DEF TypeOK, Fetch
  <2>2. left' \in 0..BurstAttempts
    BY <1>1, TabsAssumption DEF TypeOK, RunBurstAttempt, Fetch, loop
  <2>3. fetching' \in BOOLEAN /\ failed' \in BOOLEAN
    BY <1>1 DEF TypeOK, RunBurstAttempt, Fetch
  <2> QED  BY <1>1, <1>2, <2>1, <2>2, <2>3 DEF TypeOK, provider
<1>6. Owned' /\ Ordered' /\ NoTabAfterStop'
  BY <1>1, <1>2 DEF Owned, Ordered, NoTabAfterStop, Alive, provider
<1>7. InUse'
  BY <1>1, <1>2, <1>3 DEF InUse, provider
<1> QED  BY <1>5, <1>6, <1>7 DEF IInv

\* Closing a tab keeps the owner of the others.
LEMMA EndBurstStep == IInv /\ EndBurst => IInv'
<1> SUFFICES ASSUME IInv, EndBurst PROVE IInv'
  OBVIOUS
<1> USE BurstNumbers
<1>1. TypeOK /\ Owned /\ Ordered /\ InUse /\ NoTabAfterStop
  BY DEF IInv
<1>2. /\ mode = "polling" /\ mode' = "waiting" /\ using' = "absent"
      /\ UNCHANGED <<stop, burst, left, fetching, failed, preparing, holder, ready, polls>>
      /\ tab' = tab \/ tab' = [tab EXCEPT ![burst] = "closed"]
  BY DEF EndBurst, Closed
<1>3. burst \in Bursts /\ stop # "done"
  BY <1>1, <1>2 DEF InUse
<1>4. \A n \in Bursts : tab'[n] = tab[n] \/ (tab'[n] = "closed" /\ n = burst)
  BY <1>1, <1>2 DEF TypeOK
<1>5. TypeOK'
  BY <1>1, <1>2 DEF TypeOK
<1>6. Owned'
  BY <1>1, <1>2, <1>3, <1>4 DEF Owned, Alive, TypeOK, Bursts
<1>7. Ordered'
  BY <1>1, <1>2 DEF Ordered
<1>8. InUse' /\ NoTabAfterStop'
  BY <1>2, <1>3 DEF InUse, NoTabAfterStop
<1> QED  BY <1>5, <1>6, <1>7, <1>8 DEF IInv

\* The oldest preparation takes the mutex and closes what the provider holds.
LEMMA LockStep == ASSUME IInv, NEW k \in Bursts, Lock(k) PROVE IInv'
<1> USE BurstNumbers
<1>1. TypeOK /\ Owned /\ Ordered /\ InUse /\ NoTabAfterStop
  BY DEF IInv
<1>2. /\ holder = None /\ k \in preparing /\ \A m \in preparing : k <= m
      /\ holder' = k
      /\ UNCHANGED <<mode, stop, burst, left, using, fetching, failed, preparing, ready, polls>>
  BY DEF Lock, loop, group
<1>3. tab' = IF polls = None THEN tab ELSE [tab EXCEPT ![polls] = "closed"]
  BY DEF Lock, CloseExisting, Closed
<1>4. polls # None => polls \in Bursts
  BY <1>1 DEF TypeOK, Bursts, None
<1>5. \A n \in Bursts : ~(tab'[n] \in {"opening", "open"})
  <2> SUFFICES ASSUME NEW n \in Bursts, tab'[n] \in {"opening", "open"} PROVE FALSE
    OBVIOUS
  <2>1. tab'[n] = tab[n]
    BY <1>1, <1>3 DEF TypeOK
  <2>2. n = polls
    BY <1>1, <1>2, <2>1 DEF Owned, Alive
  <2>3. tab'[n] = "closed"
    BY <1>1, <1>3, <2>2 DEF TypeOK
  <2> QED  BY <2>3
<1>6. TypeOK'
  <2>1. tab' \in [Bursts -> {"none", "opening", "open", "closed"}]
    BY <1>1, <1>3 DEF TypeOK
  <2> QED  BY <1>1, <1>2, <2>1 DEF TypeOK
<1>7. Owned'
  <2>1. \A n \in Bursts : n > burst => n # polls
    BY <1>1 DEF TypeOK, Owned, Bursts
  <2> QED  BY <1>1, <1>2, <1>3, <1>5 DEF Owned, Alive, TypeOK
<1>8. Ordered'
  BY <1>1, <1>2 DEF Ordered
<1>9. InUse'
  BY <1>1, <1>2 DEF InUse, Ordered, TypeOK
<1>10. NoTabAfterStop'
  BY <1>5 DEF NoTabAfterStop, Alive
<1> QED  BY <1>6, <1>7, <1>8, <1>9, <1>10 DEF IInv

\* The holder opens its tab, the only one.
LEMMA DialStep == ASSUME IInv, NEW k \in Bursts, Dial(k) PROVE IInv'
<1> USE BurstNumbers
<1>1. TypeOK /\ Owned /\ Ordered /\ InUse /\ NoTabAfterStop
  BY DEF IInv
<1>2. /\ holder = k /\ tab[k] = "none" /\ stop = "uncalled"
      /\ tab' = [tab EXCEPT ![k] = "opening"]
      /\ UNCHANGED <<mode, stop, burst, left, using, fetching, failed,
                     preparing, holder, ready, polls>>
  BY DEF Dial, MayDial, Cancelled, loop, group
<1>3. k \in preparing /\ k <= burst
  BY <1>1, <1>2 DEF TypeOK, Ordered
<1>4. \A n \in Bursts : tab'[n] = IF n = k THEN "opening" ELSE tab[n]
  BY <1>1, <1>2 DEF TypeOK
<1>5. TypeOK'
  <2>1. tab' \in [Bursts -> {"none", "opening", "open", "closed"}]
    BY <1>1, <1>2 DEF TypeOK
  <2> QED  BY <1>1, <1>2, <2>1 DEF TypeOK
<1>6. Owned'
  BY <1>1, <1>2, <1>3, <1>4 DEF Owned, Alive, TypeOK
<1>7. Ordered'
  BY <1>1, <1>2 DEF Ordered
<1>8. InUse'
  BY <1>1, <1>2 DEF InUse
<1>9. NoTabAfterStop'
  BY <1>2 DEF NoTabAfterStop
<1> QED  BY <1>5, <1>6, <1>7, <1>8, <1>9 DEF IInv

\* A preparation returns: the ones that are left are of later bursts, so if it
\* is not that of the running burst the running burst has not got its own yet.
LEMMA ReturnStep ==
    ASSUME IInv, NEW k \in Bursts, OpenFails(k) \/ OpenSucceeds(k) PROVE IInv'
<1> USE BurstNumbers
<1>1. TypeOK /\ Owned /\ Ordered /\ InUse /\ NoTabAfterStop
  BY DEF IInv
<1>2. /\ holder = k /\ holder' = None /\ preparing' = preparing \ {k}
      /\ UNCHANGED <<mode, stop, burst, left, using, fetching, failed>>
  BY DEF OpenFails, OpenSucceeds, Return, loop, group
<1>3. \/ /\ tab' = [tab EXCEPT ![k] = "closed"]
         /\ polls' = None /\ ready' = [ready EXCEPT ![k] = "error"]
      \/ /\ tab[k] = "opening" /\ tab' = [tab EXCEPT ![k] = "open"]
         /\ polls' = k /\ ready' = [ready EXCEPT ![k] = "poll"]
  BY DEF OpenFails, OpenSucceeds, Return
<1>4. /\ k \in preparing /\ k <= burst /\ ready[k] = "nothing"
      /\ \A m \in preparing : k <= m
  BY <1>1, <1>2 DEF TypeOK, Ordered
<1>5. \A n \in Bursts : n # k => tab'[n] = tab[n] /\ ready'[n] = ready[n] /\ ~Alive(n)
  BY <1>1, <1>2, <1>3 DEF TypeOK, Owned
<1>6. TypeOK'
  <2>1. tab' \in [Bursts -> {"none", "opening", "open", "closed"}]
    BY <1>1, <1>3 DEF TypeOK
  <2>2. ready' \in [Bursts -> {"nothing", "poll", "error"}]
    BY <1>1, <1>3 DEF TypeOK
  <2>3. polls' \in 0..MaxBursts
    BY <1>1, <1>3, TabsAssumption DEF TypeOK, Bursts, None
  <2> QED  BY <1>1, <1>2, <2>1, <2>2, <2>3 DEF TypeOK
<1>7. Owned'
  <2>1. tab'[k] = "closed" \/ (tab'[k] = "open" /\ polls' = k)
    BY <1>1, <1>3 DEF TypeOK
  <2>2. polls' <= burst'
    BY <1>1, <1>2, <1>3, <1>4 DEF TypeOK, None
  <2>3. \A n \in Bursts : n > burst' => tab'[n] = "none" /\ ready'[n] = "nothing"
    BY <1>1, <1>2, <1>4, <1>5 DEF Owned, TypeOK
  <2>4. \A n \in Bursts : Alive(n)' => n = polls'
    BY <1>5, <2>1 DEF Alive
  <2>5. \A n \in Bursts : tab'[n] # "opening"
    BY <1>5, <2>1 DEF Alive
  <2> QED  BY <1>2, <2>2, <2>3, <2>4, <2>5 DEF Owned
<1>8. Ordered'
  <2>1. preparing \subseteq Bursts
    BY <1>1 DEF TypeOK
  <2>2. \A n \in preparing' : n <= burst' /\ ready'[n] = "nothing"
    BY <1>1, <1>2, <1>5, <2>1 DEF Ordered
  <2>3. \A n \in Bursts : ready'[n] # "nothing" => \A m \in preparing' : n < m
    <3> SUFFICES ASSUME NEW n \in Bursts, ready'[n] # "nothing", NEW m \in preparing'
                 PROVE  n < m
      OBVIOUS
    <3>1. m \in preparing /\ m # k /\ m \in Bursts
      BY <1>2, <2>1
    <3>2. CASE n = k
      BY <1>4, <3>1, <3>2
    <3>3. CASE n # k
      BY <1>1, <1>5, <3>1, <3>3 DEF Ordered
    <3> QED  BY <3>2, <3>3
  <2> QED  BY <1>2, <2>2, <2>3 DEF Ordered
<1>9. InUse'
  <2>1. mode = "polling" /\ using \in {"poll", "error"} => ready'[burst] = using
    BY <1>1, <1>4, <1>5 DEF InUse
  <2>2. ASSUME mode = "polling", burst \in Bursts, ready'[burst] = "poll"
        PROVE  polls' = burst /\ tab'[burst] = "open"
    <3>1. ready[burst] # "poll"
      BY <1>1, <1>2, <2>2 DEF InUse
    <3>2. burst = k
      BY <1>5, <2>2, <3>1
    <3> QED  BY <1>1, <1>3, <2>2, <3>2 DEF TypeOK
  <2> QED  BY <1>1, <1>2, <2>1, <2>2 DEF InUse
<1>10. NoTabAfterStop'
  BY <1>1, <1>2, <1>3, <1>5 DEF NoTabAfterStop, Alive, TypeOK
<1> QED  BY <1>6, <1>7, <1>8, <1>9, <1>10 DEF IInv

\* Stopping: calling Stop, giving up and the end of the loop change no tab.
LEMMA StopStep == IInv /\ (Stop \/ StopGivesUp \/ LoopReturns) => IInv'
<1> SUFFICES ASSUME IInv, Stop \/ StopGivesUp \/ LoopReturns PROVE IInv'
  OBVIOUS
<1>1. TypeOK /\ Owned /\ Ordered /\ InUse /\ NoTabAfterStop
  BY DEF IInv
<1>2. /\ UNCHANGED <<provider, group, burst, left>>
      /\ \/ mode' = mode /\ stop' \in {"waiting", "gaveUp"}
         \/ stop' = stop /\ mode = "waiting" /\ mode' = "returned"
  BY DEF Stop, StopGivesUp, LoopReturns
<1>3. TypeOK'
  BY <1>1, <1>2 DEF TypeOK, provider, group
<1>4. Owned' /\ Ordered'
  BY <1>1, <1>2 DEF Owned, Ordered, Alive, provider, group
<1>5. InUse' /\ NoTabAfterStop'
  BY <1>1, <1>2 DEF InUse, NoTabAfterStop, Alive, provider, group
<1> QED  BY <1>3, <1>4, <1>5 DEF IInv

\* Nothing holds the mutex, so the tab that is left is the provider's.
LEMMA ClosePreparedStep == IInv /\ ClosePrepared => IInv'
<1> SUFFICES ASSUME IInv, ClosePrepared PROVE IInv'
  OBVIOUS
<1> USE BurstNumbers
<1>1. TypeOK /\ Owned /\ Ordered /\ InUse
  BY DEF IInv
<1>2. /\ mode = "returned" /\ holder = None /\ polls' = None /\ stop' = "done"
      /\ UNCHANGED <<mode, burst, left, using, fetching, failed, preparing, holder, ready>>
  BY DEF ClosePrepared, LoopIsOver, group
<1>3. tab' = IF polls = None THEN tab ELSE [tab EXCEPT ![polls] = "closed"]
  BY DEF ClosePrepared, Closed
<1>4. \A n \in Bursts : tab'[n] # "opening" /\ tab'[n] # "open"
  BY <1>1, <1>2, <1>3 DEF Owned, Alive, TypeOK
<1>5. TypeOK'
  <2>1. tab' \in [Bursts -> {"none", "opening", "open", "closed"}]
    BY <1>1, <1>3 DEF TypeOK
  <2>2. polls' \in 0..MaxBursts
    BY <1>2, TabsAssumption DEF None
  <2> QED  BY <1>1, <1>2, <2>1, <2>2 DEF TypeOK
<1>6. Owned'
  <2>1. burst \in Nat /\ polls <= burst
    BY <1>1, TabsAssumption DEF TypeOK, Owned
  <2>2. \A n \in Bursts : n > burst => tab'[n] = "none"
    BY <1>1, <1>3, <2>1 DEF TypeOK, Owned
  <2> QED  BY <1>1, <1>2, <1>4, <2>1, <2>2 DEF Owned, Alive, None
<1>7. Ordered'
  BY <1>1, <1>2 DEF Ordered
<1>8. InUse' /\ NoTabAfterStop'
  BY <1>2, <1>4 DEF InUse, NoTabAfterStop, Alive
<1> QED  BY <1>5, <1>6, <1>7, <1>8 DEF IInv

-----------------------------------------------------------------------------
\* Tabs have one owner, preparations return in the order of their bursts and
\* the running burst's poll is the provider's, in every reachable state.
THEOREM Invariance == Spec => []IInv
<1>1. IInv /\ [Next]_vars => IInv'
  <2> SUFFICES ASSUME IInv, [Next]_vars PROVE IInv'
    OBVIOUS
  <2>1. CASE BeginBurst
    BY <2>1, BeginBurstStep
  <2>2. CASE BurstStep
    BY <2>2, AttemptStep, EndBurstStep, StopStep DEF BurstStep
  <2>3. CASE \E n \in Bursts : Prepare(n)
    BY <2>3, LockStep, DialStep, ReturnStep DEF Prepare
  <2>4. CASE Stop \/ StopGivesUp
    BY <2>4, StopStep
  <2>5. CASE ClosePrepared
    BY <2>5, ClosePreparedStep
  <2>6. CASE UNCHANGED vars
    BY <2>6 DEF vars, loop, group, provider, IInv, TypeOK, Owned, Ordered,
                InUse, NoTabAfterStop, Alive
  <2> QED  BY <2>1, <2>2, <2>3, <2>4, <2>5, <2>6 DEF Next
<1> QED  BY Initially, <1>1, PTL DEF Spec

\* A branch never has two tabs, however slow its preparations are
\* (provider.go, PrepareBranch).
THEOREM OneTabOnly == Spec => []OneTab
<1>1. IInv => OneTab
  BY DEF IInv, Owned, OneTab
<1> QED  BY Invariance, <1>1, PTL

\* The tab a burst polls with is open until the burst ends.
THEOREM UsedTabStaysOpen == Spec => []UsedTabOpen
<1>1. IInv => UsedTabOpen
  BY DEF IInv, InUse, UsedTabOpen
<1> QED  BY Invariance, <1>1, PTL

\* When Stop has returned without giving up, no tab is open and none is opened.
THEOREM CleanAfterStop == Spec => []NoTabAfterStop
<1>1. IInv => NoTabAfterStop
  BY DEF IInv
<1> QED  BY Invariance, <1>1, PTL

-----------------------------------------------------------------------------
(* The service.                                                            *)

\* Where the database, the servers and Stop are in each phase.
DatabaseInOrder ==
    db = IF phase = "new" THEN "unopened"
         ELSE IF phase \in {"stopped", "failed"} THEN "closed" ELSE "open"

HealthInOrder ==
    /\ phase \in {"new", "opened"} => health = "down"
    /\ phase \in {"draining", "unserved", "stopped", "undoDraining", "undone"}
          => health = "closed"
    /\ phase = "failed" => health # "up"
    /\ request => health # "down"
    /\ request /\ phase \in {"unserved", "stopped", "undone", "failed"} => expired

DiscordInOrder ==
    /\ phase \in {"connected", "running", "cancelled"} => discord = "accepting"
    /\ phase \in {"stopping", "polled"} => discord = "refusing"
    /\ phase \in {"disconnected", "draining", "unserved", "stopped"} => discord = "closed"
    /\ phase \in {"new", "opened", "serving", "undo", "undoDraining", "undone", "failed"}
          => discord = "down"

\* Before Start is over nothing polls; after Stop the loop has returned,
\* unless the deadline was over.
StopInOrder ==
    /\ phase \in {"new", "opened", "serving", "connected", "undo", "undoDraining",
                  "undone", "failed"} => mode = "waiting"
    /\ phase \notin {"cancelled", "stopping", "polled", "disconnected", "draining",
                     "unserved", "stopped"} => stop = "uncalled"
    /\ phase \in {"cancelled", "stopping"} => stop = "waiting"
    /\ phase \in {"polled", "disconnected", "draining", "unserved", "stopped"}
          => stop = "done" \/ (stop = "gaveUp" /\ expired)

AppTypes ==
    /\ phase \in Phases
    /\ db \in {"unopened", "open", "closed"}
    /\ health \in {"down", "up", "closed"}
    /\ request \in BOOLEAN
    /\ discord \in {"down", "accepting", "refusing", "closed"}
    /\ expired \in BOOLEAN

AppIInv ==
    /\ AppTypes
    /\ DatabaseInOrder
    /\ HealthInOrder
    /\ DiscordInOrder
    /\ StopInOrder

-----------------------------------------------------------------------------
\* Every step of the service is one of the prepared polls or leaves them alone.
LEMMA AppStep == [AppNext]_appVars => [Next]_vars
<1> SUFFICES ASSUME [AppNext]_appVars PROVE [Next]_vars
  OBVIOUS
<1> USE DEF tabs
<1>1. CASE StartStep
  BY <1>1 DEF StartStep, Open, SetupFails, StartHealth, StartDiscord, StartScheduler, vars
<1>2. CASE Signal
  BY <1>2 DEF Signal, Next
<1>3. CASE Expire
  BY <1>3 DEF Expire, vars
<1>4. CASE ShutdownStep
  BY <1>4 DEF ShutdownStep, StopAccepting, StopDiscord, CloseListener, ShutdownHealth,
              CloseDatabase, vars
<1>5. CASE StopScheduler
  BY <1>5 DEF StopScheduler, Next
<1>6. CASE Request \/ Answer
  BY <1>6 DEF Request, Answer, vars
<1>7. CASE LoopStep
  BY <1>7 DEF LoopStep, Next
<1>8. CASE \E n \in Bursts : PrepareStep(n)
  BY <1>8 DEF PrepareStep, Next
<1>9. CASE UNCHANGED appVars
  BY <1>9 DEF appVars, vars
<1> QED
  BY <1>1, <1>2, <1>3, <1>4, <1>5, <1>6, <1>7, <1>8, <1>9 DEF AppNext

\* A run of the service is a run of the prepared polls.
THEOREM AppImplementsPolls == AppSpec => Spec
<1>1. AppInit => Init
  BY DEF AppInit
<1> QED BY <1>1, AppStep, PTL DEF AppSpec, Spec

\* The bursts' loop and the preparations do not touch Stop's state.
LEMMA LoopKeepsStop == BeginBurst \/ BurstStep => stop' = stop
BY DEF BeginBurst, BurstStep, RunBurstAttempt, Fetch, EndBurst, LoopReturns, loop

LEMMA PrepareKeepsLoop == \A n \in Bursts : Prepare(n) => UNCHANGED <<mode, stop>>
BY DEF Prepare, Lock, Dial, OpenFails, OpenSucceeds, loop

LEMMA StopLeavesMode ==
    /\ ClosePrepared => stop' = "done"
    /\ StopGivesUp => stop' = "gaveUp"
    /\ Stop => stop' = "waiting"
BY DEF ClosePrepared, StopGivesUp, Stop

LEMMA AppInitially == AppInit => AppIInv
BY DEF AppInit, Init, AppIInv, AppTypes, Phases, DatabaseInOrder, HealthInOrder,
       DiscordInOrder, StopInOrder

LEMMA AppKept == AppIInv /\ [AppNext]_appVars => AppIInv'
<1> SUFFICES ASSUME AppIInv, [AppNext]_appVars PROVE AppIInv'
  OBVIOUS
<1> USE DEF AppIInv, AppTypes, Phases, DatabaseInOrder, HealthInOrder,
            DiscordInOrder, StopInOrder
<1>1. ASSUME UNCHANGED tabs PROVE UNCHANGED <<mode, stop>>
  BY <1>1 DEF tabs, loop
<1>2. CASE StartStep
  <2>1. UNCHANGED <<mode, stop>>
    BY <1>1, <1>2 DEF StartStep, Open, SetupFails, StartHealth, StartDiscord, StartScheduler
  <2>2. CASE Open
    BY <2>1, <2>2 DEF Open
  <2>3. CASE SetupFails
    BY <2>1, <2>3 DEF SetupFails
  <2>4. CASE StartHealth
    BY <2>1, <2>4 DEF StartHealth
  <2>5. CASE StartDiscord
    BY <2>1, <2>5 DEF StartDiscord
  <2>6. CASE StartScheduler
    BY <2>1, <2>6 DEF StartScheduler
  <2> QED BY <1>2, <2>2, <2>3, <2>4, <2>5, <2>6 DEF StartStep
<1>3. CASE Signal
  BY <1>3, StopLeavesMode DEF Signal
<1>4. CASE Expire
  <2>1. UNCHANGED <<mode, stop>>
    BY <1>1, <1>4 DEF Expire
  <2> QED BY <2>1, <1>4 DEF Expire
<1>5. CASE ShutdownStep
  <2>1. UNCHANGED <<mode, stop>>
    BY <1>1, <1>5 DEF ShutdownStep, StopAccepting, StopDiscord, CloseListener, ShutdownHealth,
                      CloseDatabase
  <2>2. CASE StopAccepting
    BY <2>1, <2>2 DEF StopAccepting
  <2>3. CASE StopDiscord
    BY <2>1, <2>3 DEF StopDiscord
  <2>4. CASE CloseListener
    BY <2>1, <2>4 DEF CloseListener
  <2>5. CASE ShutdownHealth
    BY <2>1, <2>5 DEF ShutdownHealth
  <2>6. CASE CloseDatabase
    BY <2>1, <2>6 DEF CloseDatabase
  <2> QED BY <1>5, <2>2, <2>3, <2>4, <2>5, <2>6 DEF ShutdownStep
<1>6. CASE StopScheduler
  <2>1. stop' = "done" \/ (stop' = "gaveUp" /\ expired)
    BY <1>6, StopLeavesMode DEF StopScheduler, Overdue
  <2> QED BY <1>6, <2>1 DEF StopScheduler
<1>7. CASE Request \/ Answer
  <2>1. UNCHANGED <<mode, stop>>
    BY <1>1, <1>7 DEF Request, Answer
  <2> QED BY <2>1, <1>7 DEF Request, Answer
<1>8. CASE LoopStep
  <2>1. UNCHANGED <<phase, db, health, request, discord, expired, stop>>
    BY <1>8, LoopKeepsStop DEF LoopStep, lifecycle
  <2> QED BY <2>1, <1>8 DEF LoopStep, Alongside
<1>9. CASE \E n \in Bursts : PrepareStep(n)
  <2>1. UNCHANGED <<phase, db, health, request, discord, expired, mode, stop>>
    BY <1>9, PrepareKeepsLoop DEF PrepareStep, lifecycle
  <2> QED BY <2>1
<1>10. CASE UNCHANGED appVars
  BY <1>10 DEF appVars, lifecycle, tabs, loop
<1> QED
  BY <1>2, <1>3, <1>4, <1>5, <1>6, <1>7, <1>8, <1>9, <1>10 DEF AppNext

\* The invariants of the prepared polls and of the order hold together.
THEOREM AppInvariance == AppSpec => [](IInv /\ AppIInv)
BY AppImplementsPolls, Invariance, AppInitially, AppKept, PTL DEF AppSpec

\* Every variable of the service keeps its type.
THEOREM AppTypeCorrect == AppSpec => []AppTypeOK
<1>1. IInv /\ AppIInv => AppTypeOK
  BY DEF IInv, AppIInv, AppTypes, AppTypeOK
<1> QED BY AppInvariance, <1>1, PTL

\* Nothing is closed while a burst or a health request needs it, before the
\* deadline; and nothing is left open when main returns.
THEOREM NothingClosedInUse == AppSpec => []ClosedAfterUse
<1>1. IInv /\ AppIInv => ClosedAfterUse
  <2> SUFFICES ASSUME IInv, AppIInv PROVE ClosedAfterUse
    OBVIOUS
  <2>1. stop = "done" => mode = "returned"
    BY DEF IInv, InUse
  <2> QED
    BY <2>1 DEF AppIInv, AppTypes, Phases, DatabaseInOrder, HealthInOrder, DiscordInOrder,
                StopInOrder, ClosedAfterUse
<1> QED BY AppInvariance, <1>1, PTL

\* The service never has two tabs of a branch and loses none.
THEOREM AppOneTab == AppSpec => []OneTab
BY AppImplementsPolls, OneTabOnly, PTL

\* The tab a burst of the service polls with is open.
THEOREM AppUsedTabOpen == AppSpec => []UsedTabOpen
BY AppImplementsPolls, UsedTabStaysOpen, PTL

\* After Stop, on the way to the end of Shutdown, no tab is alive.
THEOREM AppNoTabAfterStop == AppSpec => []NoTabAfterStop
BY AppImplementsPolls, CleanAfterStop, PTL
=============================================================================
