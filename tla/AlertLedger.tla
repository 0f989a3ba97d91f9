---------------------------- MODULE AlertLedger ----------------------------
(***************************************************************************)
(* What the alert pipeline promises about each showtime, with no word of   *)
(* polls, transactions, goroutines or restarts: a delivery row is queued,  *)
(* is tried at most three times, and is settled (sent or failed) for good; *)
(* a queued row can be withdrawn, a settled one can neither change nor be  *)
(* posted to Discord again, and a row is only sent after a post.           *)
(***************************************************************************)
EXTENDS Naturals

CONSTANT Showtimes

VARIABLES status, attempts, posted

ledgerVars == <<status, attempts, posted>>

\* The delivery service gives a row up after this many attempts.
MaxTries == 3

Open(s) == status[s] \in {"none", "pending"}
Pending(s) == status[s] = "pending"

Settle(S, outcome) ==
    /\ \A s \in S : Pending(s)
    /\ status' = [s \in Showtimes |-> IF s \in S THEN outcome ELSE status[s]]
    /\ attempts' = [s \in Showtimes |->
                        IF s \in S THEN attempts[s] + 1 ELSE attempts[s]]
    /\ UNCHANGED posted

Queue(S) ==
    /\ \A s \in S : status[s] = "none"
    /\ status' = [s \in Showtimes |-> IF s \in S THEN "pending" ELSE status[s]]
    /\ UNCHANGED <<attempts, posted>>

Withdraw(S) ==
    /\ \A s \in S : Pending(s)
    /\ status' = [s \in Showtimes |-> IF s \in S THEN "none" ELSE status[s]]
    /\ attempts' = [s \in Showtimes |-> IF s \in S THEN 0 ELSE attempts[s]]
    /\ UNCHANGED posted

Post(S) ==
    /\ \A s \in S : Open(s)
    /\ posted' = posted \cup S
    /\ UNCHANGED <<status, attempts>>

Sent(S) == S \subseteq posted /\ Settle(S, "sent")

GiveUp(S) == Settle(S, "failed")

Retry(S) ==
    /\ \A s \in S : Pending(s)
    /\ attempts' = [s \in Showtimes |->
                        IF s \in S THEN attempts[s] + 1 ELSE attempts[s]]
    /\ status' = [s \in Showtimes |->
                      IF s \in S /\ attempts[s] + 1 >= MaxTries
                      THEN "failed" ELSE status[s]]
    /\ UNCHANGED posted

LedgerInit ==
    /\ status = [s \in Showtimes |-> "none"]
    /\ attempts = [s \in Showtimes |-> 0]
    /\ posted = {}

LedgerNext ==
    \E S \in SUBSET Showtimes :
        Queue(S) \/ Withdraw(S) \/ Post(S) \/ Sent(S) \/ Retry(S) \/ GiveUp(S)

LedgerSpec == LedgerInit /\ [][LedgerNext]_ledgerVars
=============================================================================
