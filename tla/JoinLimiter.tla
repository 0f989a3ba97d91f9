---------------------------- MODULE JoinLimiter ----------------------------
(***************************************************************************)
(* The button that opens the alert channels: handlers of Discord           *)
(* interactions run concurrently, each passes Bot.allowJoin, which lets a  *)
(* user through once in ten seconds, and asks the control service for the  *)
(* role.  allowJoin reads the clock before it waits for joinMu, so         *)
(* handlers may come to the map in another order than their times.         *)
(***************************************************************************)
EXTENDS Integers

CONSTANTS
    User,
    Handler,    \* goroutines that handle presses
    Cooldown,   \* ten seconds
    MaxTime     \* bound on the clock

ASSUME LimiterAssumption == Cooldown \in Nat /\ MaxTime \in Nat

VARIABLES
    clock,
    attempts,   \* joinAttempts: the time of the press let through, per user
    phase,      \* of each handler: "idle", "limiting" or "joining"
    user,       \* whose press it handles
    pressed,    \* its time.Now()
    \* observations
    through,    \* the time of the last press let through, of each user
    overtaken   \* did one of the same user pass while the press waited?

vars == <<clock, attempts, phase, user, pressed, through, overtaken>>

\* Before anybody has pressed.
Never == -Cooldown

Tick ==
    /\ clock < MaxTime
    /\ clock' = clock + 1
    /\ UNCHANGED <<attempts, phase, user, pressed, through, overtaken>>

Press(h, u) ==
    /\ phase[h] = "idle"
    /\ phase' = [phase EXCEPT ![h] = "limiting"]
    /\ user' = [user EXCEPT ![h] = u]
    /\ pressed' = [pressed EXCEPT ![h] = clock]
    /\ overtaken' = [overtaken EXCEPT ![h] = FALSE]
    /\ UNCHANGED <<clock, attempts, through>>

\* What the sweep leaves of the map for a press at time t.  Mutant: it drops what
\* is still needed.
MutSweepAll(t) == [u \in {v \in DOMAIN attempts : attempts[v] > t} |-> attempts[u]]
Swept(t) == [u \in {v \in DOMAIN attempts : attempts[v] >= t - Cooldown} |-> attempts[u]]

Blocked(map, u, t) == u \in DOMAIN map /\ t - map[u] < Cooldown

\* The time is remembered.  Mutant: the end of the wait is.
MutWith(map, u, t) == [v \in DOMAIN map \cup {u} |-> IF v = u THEN t + Cooldown ELSE map[v]]
With(map, u, t) == [v \in DOMAIN map \cup {u} |-> IF v = u THEN t ELSE map[v]]

Allow(h) ==
    LET u == user[h]
        t == pressed[h]
    IN  /\ phase[h] = "limiting"
        /\ ~Blocked(Swept(t), u, t)
        /\ attempts' = With(Swept(t), u, t)
        /\ phase' = [phase EXCEPT ![h] = "joining"]
        /\ through' = [through EXCEPT ![u] = t]
        /\ overtaken' = [g \in Handler |->
               overtaken[g] \/ (g # h /\ phase[g] = "limiting" /\ user[g] = u)]
        /\ UNCHANGED <<clock, user, pressed>>

\* Mutant: the refused press is remembered too, so that a user who goes on
\* pressing goes on waiting.
MutRefuse(h) ==
    LET u == user[h]
        t == pressed[h]
    IN  /\ phase[h] = "limiting"
        /\ Blocked(Swept(t), u, t)
        /\ attempts' = With(Swept(t), u, t)
        /\ phase' = [phase EXCEPT ![h] = "idle"]
        /\ UNCHANGED <<clock, user, pressed, through, overtaken>>

\* A press that is refused is not remembered.
Refuse(h) ==
    LET u == user[h]
        t == pressed[h]
    IN  /\ phase[h] = "limiting"
        /\ Blocked(Swept(t), u, t)
        /\ attempts' = Swept(t)
        /\ phase' = [phase EXCEPT ![h] = "idle"]
        /\ UNCHANGED <<clock, user, pressed, through, overtaken>>

\* JoinAlerts grants the role or fails; a press it failed for was let through.
Join(h) ==
    /\ phase[h] = "joining"
    /\ phase' = [phase EXCEPT ![h] = "idle"]
    /\ UNCHANGED <<clock, attempts, user, pressed, through, overtaken>>

Init ==
    /\ clock = 0
    /\ attempts = [u \in {} |-> 0]
    /\ phase = [h \in Handler |-> "idle"]
    /\ user \in {[h \in Handler |-> u] : u \in User}
    /\ pressed = [h \in Handler |-> 0]
    /\ through = [u \in User |-> Never]
    /\ overtaken = [h \in Handler |-> FALSE]

Next ==
    \/ Tick
    \/ \E h \in Handler, u \in User : Press(h, u)
    \/ \E h \in Handler : Allow(h) \/ Refuse(h) \/ Join(h)

Spec == Init /\ [][Next]_vars

-----------------------------------------------------------------------------
\* Every variable holds a value the code can give it; nothing in the map is
\* newer than the clock.
TypeOK ==
    /\ clock \in Nat
    /\ DOMAIN attempts \subseteq User
    /\ \A u \in DOMAIN attempts : attempts[u] \in 0..clock
    /\ phase \in [Handler -> {"idle", "limiting", "joining"}]
    /\ user \in [Handler -> User]
    /\ pressed \in [Handler -> Nat]
    /\ \A h \in Handler : pressed[h] <= clock
    /\ through \in [User -> Int]
    /\ \A u \in User : through[u] <= clock
    /\ overtaken \in [Handler -> BOOLEAN]

\* Nobody is let through twice within ten seconds: when a press passes, ten
\* seconds have gone since the press of the same user that passed before, also
\* when a later press of somebody else has swept that one away, or the two
\* came to the mutex in the wrong order.
GrantsSpaced ==
    [][\A h \in Handler :
          phase[h] = "limiting" /\ phase'[h] = "joining"
              => clock >= through[user[h]] + Cooldown]_vars

\* A press is refused only for one of the same user that passed: it came less
\* than ten seconds after that one, or it waited for the mutex while that one
\* passed.  Presses that were refused themselves do not prolong the wait,
\* however often the user goes on pressing.
RefusalsDeserved ==
    [][\A h \in Handler :
          phase[h] = "limiting" /\ phase'[h] = "idle"
              => \/ pressed[h] - through[user[h]] \in 0..Cooldown-1
                 \/ overtaken[h]]_vars
=============================================================================
