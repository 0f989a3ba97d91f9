------------------------- MODULE JoinLimiter_proofs -------------------------
(***************************************************************************)
(* The join limiter keeps its promises for every number of users and       *)
(* handlers and for every cooldown.                                        *)
(***************************************************************************)
EXTENDS JoinLimiter, TLAPS

\* The map agrees with what was let through; who is not in it has waited.
MapInv ==
    \A u \in User :
        IF u \in DOMAIN attempts THEN attempts[u] = through[u]
        ELSE clock >= through[u] + Cooldown

\* A press that is older than the last one that passed was overtaken by it.
OrderInv ==
    \A h \in Handler :
        phase[h] = "limiting" => through[user[h]] <= pressed[h] \/ overtaken[h]

USE LimiterAssumption

\* What is swept away for a press of the past is ten seconds old by the clock.
LEMMA SweptFacts ==
    ASSUME TypeOK, MapInv, NEW t \in Nat, t <= clock
    PROVE  /\ DOMAIN Swept(t) \subseteq DOMAIN attempts
           /\ \A u \in DOMAIN Swept(t) :
                /\ Swept(t)[u] = attempts[u]
                /\ attempts[u] >= t - Cooldown
           /\ \A u \in User :
                IF u \in DOMAIN Swept(t) THEN Swept(t)[u] = through[u]
                ELSE clock >= through[u] + Cooldown
<1>1. DOMAIN Swept(t) = {v \in DOMAIN attempts : attempts[v] >= t - Cooldown}
  BY DEF Swept
<1>2. \A u \in DOMAIN Swept(t) : Swept(t)[u] = attempts[u]
  BY DEF Swept
<1>3. ASSUME NEW u \in User, u \notin DOMAIN Swept(t), u \in DOMAIN attempts
      PROVE  clock >= through[u] + Cooldown
  <2>1. attempts[u] \in Nat /\ attempts[u] < t - Cooldown
    BY <1>1, <1>3 DEF TypeOK
  <2>2. attempts[u] = through[u] /\ through[u] \in Int
    BY <1>3 DEF MapInv, TypeOK
  <2> QED
    BY <2>1, <2>2 DEF TypeOK
<1> QED
  BY <1>1, <1>2, <1>3 DEF MapInv

\* A press that passes comes ten seconds after the last one that did.
LEMMA AllowSpaced ==
    ASSUME TypeOK, MapInv, NEW h \in Handler, Allow(h)
    PROVE  clock >= through[user[h]] + Cooldown
<1> DEFINE u == user[h]
           t == pressed[h]
<1>1. u \in User /\ t \in Nat /\ t <= clock /\ clock \in Nat /\ through[u] \in Int
  BY DEF TypeOK
<1>2. ~Blocked(Swept(t), u, t)
  BY DEF Allow
<1>3. CASE u \notin DOMAIN Swept(t)
  BY <1>1, <1>3, SweptFacts
<1>4. CASE u \in DOMAIN Swept(t)
  <2>1. Swept(t)[u] = through[u]
    BY <1>1, <1>4, SweptFacts
  <2>2. t - through[u] >= Cooldown
    BY <1>1, <1>2, <1>4, <2>1 DEF Blocked
  <2> QED
    BY <1>1, <2>2
<1> QED
  BY <1>3, <1>4

LEMMA TypeStep == TypeOK /\ [Next]_vars => TypeOK'
<1> SUFFICES ASSUME TypeOK, [Next]_vars
             PROVE  TypeOK'
  OBVIOUS
<1> USE DEF TypeOK
<1>1. CASE Tick
  BY <1>1 DEF Tick
<1>2. ASSUME NEW h \in Handler, NEW u \in User, Press(h, u)
      PROVE  TypeOK'
  BY <1>2 DEF Press
<1>3. ASSUME NEW h \in Handler, Allow(h)
      PROVE  TypeOK'
  BY <1>3 DEF Allow, With, Swept
<1>4. ASSUME NEW h \in Handler, Refuse(h)
      PROVE  TypeOK'
  BY <1>4 DEF Refuse, Swept
<1>5. ASSUME NEW h \in Handler, Join(h)
      PROVE  TypeOK'
  BY <1>5 DEF Join
<1>6. CASE UNCHANGED vars
  BY <1>6 DEF vars
<1> QED
  BY <1>1, <1>2, <1>3, <1>4, <1>5, <1>6 DEF Next

\* Every variable of the limiter stays in its type.
THEOREM TypeCorrect == Spec => []TypeOK
<1>1. Init => TypeOK
  BY DEF Init, TypeOK, Never
<1> QED
  BY <1>1, TypeStep, PTL DEF Spec

LEMMA MapStep == TypeOK /\ MapInv /\ [Next]_vars => MapInv'
<1> SUFFICES ASSUME TypeOK, MapInv, [Next]_vars
             PROVE  MapInv'
  OBVIOUS
<1>1. CASE Tick
  BY <1>1 DEF Tick, MapInv, TypeOK
<1>2. ASSUME NEW h \in Handler, NEW u \in User, Press(h, u)
      PROVE  MapInv'
  BY <1>2 DEF Press, MapInv
<1>3. ASSUME NEW h \in Handler, Allow(h)
      PROVE  MapInv'
  <2> DEFINE u == user[h]
             t == pressed[h]
  <2>1. u \in User /\ t \in Nat /\ t <= clock /\ clock \in Nat
    BY DEF TypeOK
  <2>2. /\ attempts' = With(Swept(t), u, t)
        /\ through' = [through EXCEPT ![u] = t]
        /\ clock' = clock
    BY <1>3 DEF Allow
  <2> QED
    BY <2>1, <2>2, SweptFacts DEF MapInv, With, TypeOK
<1>4. ASSUME NEW h \in Handler, Refuse(h)
      PROVE  MapInv'
  <2> DEFINE t == pressed[h]
  <2>1. t \in Nat /\ t <= clock
    BY DEF TypeOK
  <2>2. /\ attempts' = Swept(t)
        /\ UNCHANGED <<clock, through>>
    BY <1>4 DEF Refuse
  <2> QED
    BY <2>1, <2>2, SweptFacts DEF MapInv
<1>5. ASSUME NEW h \in Handler, Join(h)
      PROVE  MapInv'
  BY <1>5 DEF Join, MapInv
<1>6. CASE UNCHANGED vars
  BY <1>6 DEF vars, MapInv
<1> QED
  BY <1>1, <1>2, <1>3, <1>4, <1>5, <1>6 DEF Next

LEMMA OrderStep == TypeOK /\ OrderInv /\ [Next]_vars => OrderInv'
<1> SUFFICES ASSUME TypeOK, OrderInv, [Next]_vars
             PROVE  OrderInv'
  OBVIOUS
<1> USE DEF OrderInv, TypeOK
<1>1. CASE Tick
  BY <1>1 DEF Tick
<1>2. ASSUME NEW h \in Handler, NEW u \in User, Press(h, u)
      PROVE  OrderInv'
  BY <1>2 DEF Press
<1>3. ASSUME NEW h \in Handler, Allow(h)
      PROVE  OrderInv'
  BY <1>3 DEF Allow
<1>4. ASSUME NEW h \in Handler, Refuse(h) \/ Join(h)
      PROVE  OrderInv'
  BY <1>4 DEF Refuse, Join
<1>5. CASE UNCHANGED vars
  BY <1>5 DEF vars
<1> QED
  BY <1>1, <1>2, <1>3, <1>4, <1>5 DEF Next

\* The map says who has to wait, and forgets the others.
THEOREM Invariance == Spec => [](TypeOK /\ MapInv /\ OrderInv)
<1>1. Init => MapInv /\ OrderInv
  <2> SUFFICES ASSUME Init PROVE MapInv /\ OrderInv
    OBVIOUS
  <2>1. clock = 0 /\ DOMAIN attempts = {} /\ \A u \in User : through[u] = -Cooldown
    BY DEF Init, Never
  <2>2. ASSUME NEW u \in User
        PROVE  u \notin DOMAIN attempts /\ clock >= through[u] + Cooldown
    <3>1. through[u] = -Cooldown /\ clock = 0
      BY <2>1
    <3>2. 0 >= -Cooldown + Cooldown
      OBVIOUS
    <3> QED
      BY <2>1, <3>1, <3>2
  <2>3. MapInv
    BY <2>2 DEF MapInv
  <2>4. OrderInv
    BY DEF Init, OrderInv
  <2> QED
    BY <2>3, <2>4
<1> QED
  BY <1>1, TypeCorrect, MapStep, OrderStep, PTL DEF Spec

\* Which handler leaves the limiter, and how.
LEMMA Leaves ==
    ASSUME TypeOK, [Next]_vars, NEW h \in Handler,
           phase[h] = "limiting", phase'[h] # "limiting"
    PROVE  \/ Allow(h) /\ phase'[h] = "joining"
           \/ Refuse(h) /\ phase'[h] = "idle"
<1>1. CASE Tick \/ UNCHANGED vars
  BY <1>1 DEF Tick, vars
<1>2. ASSUME NEW g \in Handler, NEW u \in User, Press(g, u)
      PROVE  FALSE
  BY <1>2 DEF Press, TypeOK
<1>3. ASSUME NEW g \in Handler, Allow(g)
      PROVE  g = h /\ phase'[h] = "joining"
  BY <1>3 DEF Allow, TypeOK
<1>4. ASSUME NEW g \in Handler, Refuse(g)
      PROVE  g = h /\ phase'[h] = "idle"
  BY <1>4 DEF Refuse, TypeOK
<1>5. ASSUME NEW g \in Handler, Join(g)
      PROVE  FALSE
  BY <1>5 DEF Join, TypeOK
<1> QED
  BY <1>1, <1>2, <1>3, <1>4, <1>5 DEF Next

\* A user passes at most once in ten seconds, whatever the other handlers do.
THEOREM OncePerCooldown == Spec => GrantsSpaced
<1>1. TypeOK /\ MapInv /\ [Next]_vars
        => [\A h \in Handler :
              phase[h] = "limiting" /\ phase'[h] = "joining"
                  => clock >= through[user[h]] + Cooldown]_vars
  BY Leaves, AllowSpaced
<1> QED
  BY <1>1, Invariance, PTL DEF Spec, GrantsSpaced

\* A refused press came less than ten seconds after one that passed, or one
\* passed while it waited for the mutex.
THEOREM RefusedForOneThatPassed == Spec => RefusalsDeserved
<1>1. ASSUME TypeOK, MapInv, OrderInv, NEW h \in Handler, Refuse(h)
      PROVE  \/ pressed[h] - through[user[h]] \in 0..Cooldown-1
             \/ overtaken[h]
  <2> DEFINE u == user[h]
             t == pressed[h]
  <2>1. u \in User /\ t \in Nat /\ t <= clock /\ through[u] \in Int
    BY <1>1 DEF TypeOK
  <2>2. u \in DOMAIN Swept(t) /\ t - Swept(t)[u] < Cooldown
    BY <1>1 DEF Refuse, Blocked
  <2>3. Swept(t)[u] = through[u]
    BY <1>1, <2>1, <2>2, SweptFacts
  <2>4. through[u] <= t \/ overtaken[h]
    BY <1>1 DEF OrderInv, Refuse
  <2> QED
    BY <2>1, <2>2, <2>3, <2>4
<1>2. TypeOK /\ MapInv /\ OrderInv /\ [Next]_vars
        => [\A h \in Handler :
              phase[h] = "limiting" /\ phase'[h] = "idle"
                  => \/ pressed[h] - through[user[h]] \in 0..Cooldown-1
                     \/ overtaken[h]]_vars
  BY <1>1, Leaves
<1> QED
  BY <1>2, Invariance, PTL DEF Spec, RefusalsDeserved
=============================================================================
