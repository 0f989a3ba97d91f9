------------------------- MODULE Installation_proofs -------------------------
(***************************************************************************)
(* What Initialize leaves behind, for every number of faults, deletions    *)
(* and ids.  The proof goes in layers, each an invariant of its own that   *)
(* the next one uses: types; what is in Discord and what the ids name; how *)
(* far memory and SQLite are apart; what is in its place already; and      *)
(* which things can have twins.                                            *)
(***************************************************************************)
EXTENDS Installation, TLAPS

ThingSet == [id : 1..MaxId, kind : Kinds, parent : 0..MaxId]

\* Where in Order a kind is.
Index(k) ==
    CASE k = "role" -> 2 [] k = "guide" -> 3 [] k = "image" -> 4 [] k = "text" -> 5
      [] k = "category" -> 6 [] k = "control" -> 7 [] k = "target" -> 8 [] OTHER -> 9

\* Nothing is saved or new but what a step after securing has ensured.
TypeInv ==
    /\ TypeOK
    /\ phase = "save" => at > 1
    /\ created => phase = "save"

-----------------------------------------------------------------------------
LEMMA OrderIs ==
    /\ Len(Order) = 9
    /\ Order[1] = "secure" /\ Order[2] = "role" /\ Order[3] = "guide"
    /\ Order[4] = "image" /\ Order[5] = "text" /\ Order[6] = "category"
    /\ Order[7] = "control" /\ Order[8] = "target" /\ Order[9] = "panel"
BY DEF Order

\* What is ensured where.
LEMMA KindAt ==
    ASSUME at \in 1..Len(Order)
    PROVE  /\ at \in 1..9
           /\ Kind \in Kinds
           /\ at = 1 => Kind = "control"
           /\ at # 1 => Index(Kind) = at
           /\ Order[at] = "secure" <=> at = 1
           /\ Order[at] = "text" <=> at = 5
           /\ Order[at] = "control" <=> at = 7
<1>1. at \in 1..9
  BY OrderIs
<1>2. CASE at = 1
  BY <1>1, <1>2, OrderIs DEF Kind, Kinds, Channels
<1>3. CASE at # 1
  <2>1. at = 2 \/ at = 3 \/ at = 4 \/ at = 5 \/ at = 6 \/ at = 7 \/ at = 8 \/ at = 9
    BY <1>1, <1>3
  <2>2. Order[at] # "secure" /\ Order[at] \in Kinds /\ Kind = Order[at]
    BY <2>1, OrderIs DEF Kind, Kinds, Channels, Messages
  <2>3. Index(Order[at]) = at
    BY <2>1, OrderIs DEF Index
  <2>4. (Order[at] = "text" <=> at = 5) /\ (Order[at] = "control" <=> at = 7)
    BY <2>1, OrderIs
  <2> QED  BY <1>1, <1>3, <2>2, <2>3, <2>4
<1> QED
  BY <1>2, <1>3

\* Each kind has a place of its own in Order.
LEMMA IndexOf ==
    /\ Index("role") = 2 /\ Index("guide") = 3 /\ Index("image") = 4
    /\ Index("text") = 5 /\ Index("category") = 6 /\ Index("control") = 7
    /\ Index("target") = 8 /\ Index("panel") = 9
    /\ \A k \in Kinds : Index(k) \in 2..9
    /\ \A k, j \in Kinds : Index(k) = Index(j) => k = j
<1>1. /\ Index("role") = 2 /\ Index("guide") = 3 /\ Index("image") = 4
      /\ Index("text") = 5 /\ Index("category") = 6 /\ Index("control") = 7
      /\ Index("target") = 8 /\ Index("panel") = 9
  BY DEF Index
<1>2. \A k \in Kinds : k \in {"role", "guide", "image", "text", "category",
                             "control", "target", "panel"}
  BY DEF Kinds, Channels, Messages
<1> QED  BY <1>1, <1>2

LEMMA HomeType ==
    ASSUME NEW r \in [Kinds -> 0..MaxId], NEW k \in Kinds
    PROVE  Home(r, k) \in 0..MaxId
BY InstallationAssumption DEF Home, Kinds, Channels, Messages

\* Putting something in its place changes only where it is.
LEMMA InPlaceIs ==
    ASSUME ids \in [Kinds -> 0..MaxId], NEW k \in Kinds, NEW o \in ThingSet
    PROVE  /\ InPlace(o, k) \in ThingSet
           /\ InPlace(o, k).id = o.id
           /\ InPlace(o, k).kind = o.kind
           /\ InPlace(o, k).parent =
                IF k \in Channels
                THEN IF Exists(Home(ids, k)) THEN Home(ids, k) ELSE 0
                ELSE o.parent
<1>1. Home(ids, k) \in 0..MaxId
  BY HomeType
<1> QED
  BY <1>1, InstallationAssumption DEF InPlace, ThingSet

\* What is created has the next id.
LEMMA NewIs ==
    ASSUME ids \in [Kinds -> 0..MaxId], nextId \in 1..MaxId, NEW k \in Kinds
    PROVE  /\ New(k) \in ThingSet
           /\ New(k).id = nextId
           /\ New(k).kind = k
           /\ New(k).parent =
                IF k \in Channels
                THEN IF Exists(Home(ids, k)) THEN Home(ids, k) ELSE 0
                ELSE Home(ids, k)
<1>1. Home(ids, k) \in 0..MaxId
  BY HomeType
<1>2. [id |-> nextId, kind |-> k, parent |-> Home(ids, k)] \in ThingSet
  BY <1>1 DEF ThingSet
<1> QED
  BY <1>2, InPlaceIs DEF New

\* What is left when something is deleted.
LEMMA WithoutIs ==
    ASSUME things \subseteq ThingSet, NEW i
    PROVE  /\ Without(i) \subseteq ThingSet
           /\ \A t \in Without(i) : \E o \in things :
                 /\ o.id # i /\ t.id = o.id /\ t.kind = o.kind
                 /\ \/ t = o /\ o.parent # i
                    \/ t.parent = 0 /\ o.parent = i /\ o.kind \notin Messages
           /\ \A o \in things : o.id # i /\ o.parent # i => o \in Without(i)
           /\ \A o \in things : o.id # i /\ o.kind \notin Messages
                => \E t \in Without(i) : t.id = o.id /\ t.kind = o.kind
<1>1. \A o \in things : o.id # i /\ o.parent # i => o \in Without(i)
  BY DEF Without
<1>2. \A o \in things : o.id # i /\ o.kind \notin Messages
        => \E t \in Without(i) : t.id = o.id /\ t.kind = o.kind
  <2> SUFFICES ASSUME NEW o \in things, o.id # i, o.kind \notin Messages
               PROVE  \E t \in Without(i) : t.id = o.id /\ t.kind = o.kind
    OBVIOUS
  <2> DEFINE t == IF o.parent = i THEN [o EXCEPT !.parent = 0] ELSE o
  <2>1. t \in Without(i)
    BY DEF Without
  <2>2. t.id = o.id /\ t.kind = o.kind
    BY DEF ThingSet
  <2> QED  BY <2>1, <2>2
<1>3. \A t \in Without(i) :
        /\ t \in ThingSet
        /\ \E o \in things :
              /\ o.id # i /\ t.id = o.id /\ t.kind = o.kind
              /\ \/ t = o /\ o.parent # i
                 \/ t.parent = 0 /\ o.parent = i /\ o.kind \notin Messages
  <2> SUFFICES ASSUME NEW t \in Without(i)
               PROVE  /\ t \in ThingSet
                      /\ \E o \in things :
                            /\ o.id # i /\ t.id = o.id /\ t.kind = o.kind
                            /\ \/ t = o /\ o.parent # i
                               \/ t.parent = 0 /\ o.parent = i /\ o.kind \notin Messages
    OBVIOUS
  <2>1. PICK o \in things : /\ o.id # i
                            /\ ~(o.parent = i /\ o.kind \in Messages)
                            /\ t = IF o.parent = i THEN [o EXCEPT !.parent = 0] ELSE o
    BY DEF Without
  <2>2. CASE o.parent = i
    BY <2>1, <2>2, InstallationAssumption DEF ThingSet
  <2>3. CASE o.parent # i
    BY <2>1, <2>3
  <2> QED  BY <2>2, <2>3
<1> QED  BY <1>1, <1>2, <1>3

-----------------------------------------------------------------------------
(* Types.                                                                  *)

LEMMA SavedAre ==
    ASSUME TypeOK, NEW k \in Kinds
    PROVE  Saved(k) \subseteq things /\ Namesakes(k) \subseteq things
BY DEF Saved, Namesakes

\* After something is ensured, with the things as they are.
LEMMA EnsuredTypes ==
    ASSUME TypeInv, Ensuring, NEW id \in 1..MaxId, NEW fresh \in BOOLEAN,
           Ensured(Kind, id, fresh)
    PROVE  /\ ids' \in [Kinds -> 0..MaxId]
           /\ at' \in 1..Len(Order)
           /\ phase' \in {"ensure", "save"}
           /\ created' \in BOOLEAN /\ secured' \in BOOLEAN
           /\ admits' \in 0..MaxId
           /\ passedOver' \subseteq 1..MaxId
           /\ phase' = "save" => at' > 1
           /\ created' => phase' = "save"
<1>1. at \in 1..Len(Order)
  BY OrderIs DEF TypeInv, TypeOK, Ensuring
<1>2. Kind \in Kinds
  BY <1>1, KindAt
<1>3. ids' \in [Kinds -> 0..MaxId]
  BY <1>2, InstallationAssumption DEF Ensured, TypeInv, TypeOK
<1>4. admits' \in 0..MaxId
  BY DEF Ensured, Restricted, TypeInv, TypeOK, Kinds
<1>5. secured' \in BOOLEAN
  BY DEF Ensured, TypeInv, TypeOK
<1>8. passedOver' \subseteq 1..MaxId
  BY DEF Ensured, PassedOver, TypeInv, TypeOK
<1>6. CASE Order[at] = "secure"
  <2>1. at = 1
    BY <1>1, <1>6, KindAt
  <2> QED
    BY <2>1, <1>8, <1>3, <1>4, <1>5, <1>6, OrderIs DEF Ensured, TypeInv, TypeOK, Ensuring
<1>7. CASE Order[at] # "secure"
  <2>1. at \in 2..Len(Order)
    BY <1>1, <1>7, KindAt, OrderIs
  <2> QED
    BY <2>1, <1>8, <1>3, <1>4, <1>5, <1>7, OrderIs DEF Ensured
<1> QED  BY <1>6, <1>7

LEMMA PlacedTypes ==
    ASSUME TypeInv, at > 0, NEW o \in things
    PROVE  /\ (things \ {o}) \cup {InPlace(o, Kind)} \subseteq ThingSet
           /\ o.id \in 1..MaxId
<1>1. Kind \in Kinds
  BY KindAt, OrderIs DEF TypeInv, TypeOK
<1>2. o \in ThingSet
  BY DEF TypeInv, TypeOK, ThingSet
<1>3. InPlace(o, Kind) \in ThingSet
  BY <1>1, <1>2, InPlaceIs DEF TypeInv, TypeOK
<1> QED  BY <1>2, <1>3 DEF TypeInv, TypeOK, ThingSet

LEMMA AddTypes ==
    ASSUME TypeInv, at > 0, Add
    PROVE  /\ things' \subseteq ThingSet
           /\ nextId \in 1..MaxId
           /\ nextId' \in 1..(MaxId + 1)
<1>1. Kind \in Kinds
  BY KindAt, OrderIs DEF TypeInv, TypeOK
<1>2. nextId \in 1..MaxId
  BY InstallationAssumption DEF Add, TypeInv, TypeOK
<1>3. New(Kind) \in ThingSet
  BY <1>1, <1>2, NewIs DEF TypeInv, TypeOK
<1> QED
  BY <1>2, <1>3, InstallationAssumption DEF Add, TypeInv, TypeOK, ThingSet

\* An operation that returns forgets everything.
LEMMA ForgetTypes ==
    ASSUME TypeInv, Forget, row' \in [Kinds -> 0..MaxId]
    PROVE  /\ at' \in 0..Len(Order) /\ phase' \in {"ensure", "save"}
           /\ ids' \in [Kinds -> 0..MaxId] /\ (at' = 0 => ids' = row')
           /\ created' \in BOOLEAN /\ secured' \in BOOLEAN
           /\ phase' = "save" => at' > 1
           /\ created' => phase' = "save"
<1>1. at' \in 0..Len(Order) /\ phase' \in {"ensure", "save"}
  BY OrderIs DEF Forget
<1>2. ids' \in [Kinds -> 0..MaxId] /\ (at' = 0 => ids' = row')
  BY DEF Forget
<1>3. created' \in BOOLEAN /\ secured' \in BOOLEAN
  BY DEF Forget
<1>4. phase' # "save" /\ ~created'
  BY DEF Forget
<1> QED  BY <1>1, <1>2, <1>3, <1>4

LEMMA ReturnTypes ==
    ASSUME TypeInv, ReturnError, UNCHANGED row
    PROVE  /\ at' \in 0..Len(Order) /\ phase' \in {"ensure", "save"}
           /\ ids' \in [Kinds -> 0..MaxId] /\ (at' = 0 => ids' = row')
           /\ created' \in BOOLEAN /\ secured' \in BOOLEAN
           /\ phase' = "save" => at' > 1
           /\ created' => phase' = "save"
           /\ row' \in [Kinds -> 0..MaxId]
           /\ initialized' \in {"running", "done", "broken"}
<1>1. row' \in [Kinds -> 0..MaxId]
  BY DEF TypeInv, TypeOK
<1>2. initialized' \in {"running", "done", "broken"}
  BY DEF ReturnError, EndsAs, TypeInv, TypeOK
<1> QED  BY <1>1, <1>2, ForgetTypes DEF ReturnError

LEMMA TypeInit == Init => TypeInv
<1> SUFFICES ASSUME Init PROVE TypeInv
  OBVIOUS
<1>1. Legacy \subseteq ThingSet
  BY InstallationAssumption DEF Legacy, Thing, ThingSet, Kinds, Channels, Messages
<1>2. LegacyRow \in [Kinds -> 0..MaxId]
  BY <1>1, InstallationAssumption DEF LegacyRow, ThingSet
<1>3. NoIds \in [Kinds -> 0..MaxId]
  BY InstallationAssumption DEF NoIds
<1>4. things \subseteq ThingSet /\ nextId \in 1..(MaxId + 1) /\ row \in [Kinds -> 0..MaxId]
  BY <1>1, <1>2, <1>3, InstallationAssumption DEF Init
<1>5. /\ at = 0 /\ at \in 0..Len(Order) /\ phase = "ensure" /\ ids = row
      /\ created = FALSE /\ secured \in BOOLEAN
      /\ lost \subseteq Kinds /\ missed \subseteq Channels
      /\ initialized \in {"running", "done", "broken"}
  <2>1. at = 0 /\ phase = "ensure" /\ ids = row /\ lost = {} /\ missed = {}
    BY DEF Init
  <2>2. created = FALSE
    BY DEF Init
  <2>3. initialized = "broken"
    BY DEF Init
  <2>4. secured \in BOOLEAN
    BY DEF Init
  <2> QED  BY <2>1, <2>2, <2>3, <2>4, OrderIs
<1>6. /\ admits \in 0..MaxId
      /\ unsafe \subseteq 1..MaxId /\ joined \subseteq 1..MaxId /\ passedOver \subseteq 1..MaxId
  BY InstallationAssumption DEF Init
<1>7. faults \in 0..MaxFaults /\ deletions \in 0..MaxDeletions
  BY InstallationAssumption DEF Init
<1>8. ids \in [Kinds -> 0..MaxId] /\ created \in BOOLEAN
  BY <1>4, <1>5
<1>9. phase # "save" /\ ~created
  BY <1>5
<1>10. TypeOK
  BY <1>4, <1>5, <1>6, <1>7, <1>8 DEF TypeOK, ThingSet
<1> QED
  BY <1>9, <1>10 DEF TypeInv

LEMMA TypeStep == TypeInv /\ [Next]_vars => TypeInv'
<1> SUFFICES ASSUME TypeInv, [Next]_vars PROVE TypeInv'
  OBVIOUS
<1> USE DEF TypeInv, discord, operation, observed, bounds
<1>1. CASE BeginInitialize
  BY <1>1, OrderIs DEF BeginInitialize, TypeOK
<1>2. CASE BeginRefreshPanel
  BY <1>2, OrderIs DEF BeginRefreshPanel, TypeOK
<1>3. CASE JoinAlerts
  <2>1. row["role"] \in 1..MaxId
    BY <1>3 DEF JoinAlerts, Exists, TypeOK
  <2> QED
    BY <1>3, <2>1 DEF JoinAlerts, TypeOK
<1>4. ASSUME NEW o \in things, Ensuring, Reuse(o)
      PROVE  TypeInv'
  <2>1. Ensured(Kind, o.id, FALSE)
    BY <1>4 DEF Reuse
  <2>2. things' \subseteq ThingSet /\ o.id \in 1..MaxId
    BY <1>4, PlacedTypes DEF Reuse, Ensuring
  <2>3. /\ ids' \in [Kinds -> 0..MaxId] /\ at' \in 1..Len(Order)
        /\ phase' \in {"ensure", "save"} /\ created' \in BOOLEAN /\ secured' \in BOOLEAN
        /\ admits' \in 0..MaxId /\ passedOver' \subseteq 1..MaxId
        /\ phase' = "save" => at' > 1
        /\ created' => phase' = "save"
    BY <1>4, <2>1, <2>2, EnsuredTypes
  <2> QED
    BY <1>4, <2>2, <2>3, OrderIs DEF Reuse, TypeOK, ThingSet
<1>5. CASE UseSaved
  BY <1>4, <1>5 DEF UseSaved, Saved
<1>6. CASE UseNamesake
  BY <1>4, <1>6 DEF UseNamesake, Namesakes
<1>7. CASE SavedMissed
  <2>1. Ensuring /\ Kind \in Channels
    BY <1>7 DEF SavedMissed
  <2>2. \E id \in 1..MaxId, fresh \in BOOLEAN :
           /\ Ensured(Kind, id, fresh)
           /\ things' \subseteq ThingSet
           /\ nextId' \in 1..(MaxId + 1)
           /\ missed' \subseteq Channels
    <3>1. CASE \E o \in Namesakes(Kind) :
                  /\ things' = (things \ {o}) \cup {InPlace(o, Kind)}
                  /\ Ensured(Kind, o.id, FALSE)
                  /\ UNCHANGED <<nextId, missed>>
      <4>1. PICK o \in things :
                  /\ things' = (things \ {o}) \cup {InPlace(o, Kind)}
                  /\ Ensured(Kind, o.id, FALSE)
                  /\ UNCHANGED <<nextId, missed>>
        BY <3>1 DEF Namesakes
      <4> QED
        BY <2>1, <4>1, PlacedTypes DEF Ensuring, TypeOK
    <3>2. CASE Add /\ Ensured(Kind, nextId, TRUE) /\ missed' = missed \cup {Kind}
      BY <2>1, <3>2, AddTypes DEF Ensuring, TypeOK
    <3> QED  BY <1>7, <3>1, <3>2 DEF SavedMissed
  <2>3. /\ ids' \in [Kinds -> 0..MaxId] /\ at' \in 1..Len(Order)
        /\ phase' \in {"ensure", "save"} /\ created' \in BOOLEAN /\ secured' \in BOOLEAN
        /\ admits' \in 0..MaxId /\ passedOver' \subseteq 1..MaxId
        /\ phase' = "save" => at' > 1
        /\ created' => phase' = "save"
    BY <2>1, <2>2, EnsuredTypes
  <2>4. /\ faults' \in 0..MaxFaults
        /\ UNCHANGED <<unsafe, joined, row, lost, initialized, deletions>>
    BY <1>7, InstallationAssumption DEF SavedMissed, Fault, TypeOK
  <2> QED
    BY <2>2, <2>3, <2>4, OrderIs DEF TypeOK, ThingSet
<1>8. CASE KeepControl
  <2>1. at = 7
    BY <1>8, KindAt, OrderIs DEF KeepControl, Stays, TypeOK
  <2>2. created' = FALSE /\ phase' = "save" /\ at' = at
    BY <1>8 DEF KeepControl
  <2>3. UNCHANGED <<things, nextId, admits, unsafe, joined, row, ids, secured, lost,
                    missed, passedOver, initialized, faults, deletions>>
    BY <1>8 DEF KeepControl
  <2>4. created' \in BOOLEAN /\ ~created' /\ phase' \in {"ensure", "save"}
    BY <2>2
  <2>5. TypeOK'
    BY <2>1, <2>2, <2>3, <2>4 DEF TypeOK
  <2> QED
    BY <2>1, <2>2, <2>4, <2>5
<1>9. CASE DeleteOldText
  <2>1. things' \subseteq ThingSet
    BY <1>9, WithoutIs DEF DeleteOldText, TypeOK, ThingSet
  <2>2. ids' \in [Kinds -> 0..MaxId]
    <3>1. 0 \in 0..MaxId
      BY InstallationAssumption
    <3> QED  BY <1>9, <3>1 DEF DeleteOldText, TypeOK
  <2> QED
    BY <1>9, <2>1, <2>2 DEF DeleteOldText, TypeOK, ThingSet
<1>10. CASE Create
  <2>1. Ensuring /\ Add /\ Ensured(Kind, nextId, TRUE)
    BY <1>10 DEF Create
  <2>2. things' \subseteq ThingSet /\ nextId \in 1..MaxId /\ nextId' \in 1..(MaxId + 1)
    BY <2>1, AddTypes DEF Ensuring
  <2>3. /\ ids' \in [Kinds -> 0..MaxId] /\ at' \in 1..Len(Order)
        /\ phase' \in {"ensure", "save"} /\ created' \in BOOLEAN /\ secured' \in BOOLEAN
        /\ admits' \in 0..MaxId /\ passedOver' \subseteq 1..MaxId
        /\ phase' = "save" => at' > 1
        /\ created' => phase' = "save"
    BY <2>1, <2>2, EnsuredTypes
  <2> QED
    BY <1>10, <2>2, <2>3, OrderIs DEF Create, TypeOK, ThingSet
<1>11. CASE CreateLost
  <2>1. Ensuring /\ Add /\ ReturnError /\ Kind \in Kinds
    BY <1>11, KindAt, OrderIs DEF CreateLost, Ensuring, TypeOK
  <2>2. things' \subseteq ThingSet /\ nextId' \in 1..(MaxId + 1)
    BY <2>1, AddTypes DEF Ensuring
  <2>3. faults' \in 0..MaxFaults
    BY <1>11, InstallationAssumption DEF CreateLost, Fault, TypeOK
  <2>4. admits' \in 0..MaxId
    BY <1>11, <2>1 DEF CreateLost, Restricted, TypeOK, Kinds
  <2>5. lost' \subseteq Kinds
    BY <1>11, <2>1 DEF CreateLost, TypeOK
  <2> QED
    BY <1>11, <2>1, <2>2, <2>3, <2>4, <2>5, ReturnTypes DEF CreateLost, Fault, TypeOK, ThingSet
<1>12. CASE EnsureFails
  BY <1>12, ReturnTypes DEF EnsureFails, TypeOK
<1>13. CASE Save
  <2>1. at \in 2..Len(Order) /\ row' \in [Kinds -> 0..MaxId]
    BY <1>13, OrderIs DEF Save, SaveInstallation, TypeOK
  <2>4. passedOver' \subseteq 1..MaxId
    BY <1>13 DEF Save, TypeOK
  <2>2. CASE at = Len(Order)
    <3>1. Forget /\ initialized' \in {"running", "done", "broken"}
      BY <1>13, <2>2 DEF Save, EndsAs, TypeOK
    <3> QED
      BY <1>13, <2>1, <2>4, <3>1, ForgetTypes DEF Save, TypeOK
  <2>3. CASE at # Len(Order)
    <3>1. at' \in 0..Len(Order) /\ at' # 0 /\ phase' = "ensure" /\ created' = FALSE
      BY <1>13, <2>1, <2>3, OrderIs DEF Save
    <3>2. UNCHANGED <<things, nextId, admits, unsafe, joined, ids, secured, lost,
                      missed, initialized, faults, deletions>>
      BY <1>13, <2>3 DEF Save
    <3> QED
      BY <2>1, <2>4, <3>1, <3>2 DEF TypeOK
  <2> QED  BY <2>2, <2>3
<1>14. CASE SaveFails
  <2>1. things' \subseteq ThingSet
    BY <1>14, WithoutIs DEF SaveFails, Cleanup, TypeOK, ThingSet
  <2>2. faults' \in 0..MaxFaults /\ deletions' \in 0..MaxDeletions
    BY <1>14, InstallationAssumption DEF SaveFails, Fault, TypeOK
  <2> QED
    BY <1>14, <2>1, <2>2, ReturnTypes DEF SaveFails, TypeOK, ThingSet
<1>15. CASE CleanupFails
  <2>1. Kind \in Kinds
    BY <1>15, KindAt, OrderIs DEF CleanupFails, TypeOK
  <2>2. faults' \in 0..MaxFaults
    BY <1>15, InstallationAssumption DEF CleanupFails, Fault, TypeOK
  <2> QED
    BY <1>15, <2>1, <2>2, ReturnTypes DEF CleanupFails, Fault, TypeOK
<1>16. CASE Crash
  <2>1. Kind \in Kinds
    BY <1>16, KindAt, OrderIs DEF Crash, TypeOK
  <2>2. faults' \in 0..MaxFaults
    BY <1>16, InstallationAssumption DEF Crash, Fault, TypeOK
  <2> QED
    BY <1>16, <2>1, <2>2, ReturnTypes DEF Crash, Fault, TypeOK
<1>17. ASSUME NEW o \in things, Delete(o)
       PROVE  TypeInv'
  <2>1. things' \subseteq ThingSet
    BY <1>17, WithoutIs DEF Delete, TypeOK, ThingSet
  <2>2. deletions' \in 0..MaxDeletions
    BY <1>17, InstallationAssumption DEF Delete, TypeOK
  <2>3. joined' \subseteq 1..MaxId
    BY <1>17 DEF Delete, TypeOK
  <2> QED
    BY <1>17, <2>1, <2>2, <2>3 DEF Delete, TypeOK, ThingSet
<1>18. CASE UNCHANGED vars
  BY <1>18 DEF vars, TypeOK
<1>19. CASE ChangeRoles
  <2>1. unsafe' \subseteq 1..MaxId
    BY <1>19 DEF ChangeRoles, TypeOK
  <2>2. deletions' \in 0..MaxDeletions
    BY <1>19, InstallationAssumption DEF ChangeRoles, TypeOK
  <2> QED
    BY <1>19, <2>1, <2>2 DEF ChangeRoles, TypeOK
<1> QED
  BY <1>1, <1>2, <1>3, <1>5, <1>6, <1>7, <1>8, <1>9, <1>10, <1>11, <1>12, <1>13, <1>14,
     <1>15, <1>16, <1>17, <1>18, <1>19 DEF Next

LEMMA TypeInvariance == Spec => []TypeInv
BY TypeInit, TypeStep, PTL DEF Spec

\* Every variable keeps its type; between operations memory holds what SQLite
\* has.
THEOREM TypeCorrect == Spec => []TypeOK
BY TypeInvariance, PTL DEF TypeInv

-----------------------------------------------------------------------------
(* What is in Discord, and what the ids name.                              *)

\* The kind of what a thing can be in.
Container(k) ==
    CASE k \in {"control", "target"} -> "category"
      [] k \in {"image", "text"} -> "guide"
      [] OTHER -> "control"

Alone == {"role", "guide", "category"}

\* Ids are unique and given out in order; what is in something is in something
\* that exists, of the right kind.
Sound ==
    /\ \A o, q \in things : o.id = q.id => o = q
    /\ \A o \in things : o.id < nextId
    /\ \A o \in things :
         o.parent # 0 => /\ o.kind \notin Alone
                         /\ \E c \in things : c.id = o.parent /\ c.kind = Container(o.kind)
    /\ \A o \in things : o.kind \in Messages => o.parent # 0

\* An id that memory or SQLite has for a kind names nothing of another kind.
Named ==
    /\ \A k \in Kinds : ids[k] < nextId /\ row[k] < nextId
    /\ \A o \in things, k \in Kinds : o.id = ids[k] \/ o.id = row[k] => o.kind = k

WorldInv == Sound /\ Named

\* The ways a step goes on: it finds what it needs, or makes it.
Found(o) ==
    /\ Ensuring
    /\ o.kind = Kind
    /\ things' = (things \ {o}) \cup {InPlace(o, Kind)}
    /\ UNCHANGED <<nextId, missed>>
    /\ Ensured(Kind, o.id, FALSE)
    /\ \/ o \in Saved(Kind)
       \/ o \in Namesakes(Kind) /\ (Saved(Kind) = {} \/ Kind \in Channels)

Made ==
    /\ Ensuring
    /\ Add
    /\ Ensured(Kind, nextId, TRUE)
    /\ Namesakes(Kind) = {}
    /\ \/ Saved(Kind) = {} /\ UNCHANGED missed
       \/ Kind \in Channels /\ missed' = missed \cup {Kind}

GoesOn ==
    /\ Made \/ \E o \in things : Found(o)
    /\ UNCHANGED <<joined, row, lost, initialized>>

\* The ways it fails: what it made got lost, or was deleted again, or there was
\* nothing.
Fails ==
    /\ ReturnError
    /\ UNCHANGED <<row, joined, missed, passedOver>>
    /\ \/ /\ Ensuring
          /\ Add
          /\ Saved(Kind) \cup Namesakes(Kind) = {}
          /\ lost' = lost \cup {Kind}
          /\ admits' = Restricted(Kind)
       \/ /\ UNCHANGED <<things, nextId, admits>>
          /\ \/ ~created /\ UNCHANGED lost
             \/ phase = "save" /\ lost' = lost \cup {Kind}
       \/ /\ phase = "save"
          /\ created
          /\ things' = Without(ids[Kind])
          /\ UNCHANGED <<nextId, admits, lost>>

LEMMA Contains ==
    /\ \A k \in {"control", "target"} : Container(k) = "category"
    /\ \A k \in {"image", "text"} : Container(k) = "guide"
    /\ Container("panel") = "control"
    /\ \A k \in Kinds : Container(k) \in Channels
    /\ \A k \in Kinds : k \notin Alone => k \in {"control", "target", "image", "text", "panel"}
<1>1. /\ \A k \in {"control", "target"} : Container(k) = "category"
      /\ \A k \in {"image", "text"} : Container(k) = "guide"
      /\ Container("panel") = "control"
  BY DEF Container
<1>2. \A k \in Kinds : Container(k) \in Channels
  BY DEF Container, Channels
<1>3. \A k \in Kinds : k \notin Alone => k \in {"control", "target", "image", "text", "panel"}
  BY DEF Kinds, Channels, Messages, Alone
<1> QED  BY <1>1, <1>2, <1>3

LEMMA HomeIs ==
    ASSUME NEW r
    PROVE  /\ \A k \in {"control", "target"} : Home(r, k) = r["category"]
           /\ \A k \in {"image", "text"} : Home(r, k) = r["guide"]
           /\ Home(r, "panel") = r["control"]
           /\ \A k \in Alone : Home(r, k) = 0
<1>1. /\ \A k \in {"control", "target"} : Home(r, k) = r["category"]
      /\ \A k \in {"image", "text"} : Home(r, k) = r["guide"]
      /\ Home(r, "panel") = r["control"]
  BY DEF Home
<1>2. Home(r, "role") = 0 /\ Home(r, "guide") = 0 /\ Home(r, "category") = 0
  BY DEF Home
<1> QED  BY <1>1, <1>2 DEF Alone

\* What Home names can hold the thing.
LEMMA HomeHolds ==
    ASSUME TypeInv, WorldInv, NEW k \in Kinds, NEW c \in things, c.id = Home(ids, k)
    PROVE  k \notin Alone /\ c.kind = Container(k)
<1>1. c.id # 0
  BY InstallationAssumption DEF TypeInv, TypeOK
<1>2. k \notin Alone
  BY <1>1, HomeIs
<1>3. CASE k \in {"control", "target"}
  BY <1>2, <1>3, HomeIs, Contains DEF WorldInv, Named, Kinds, Channels
<1>4. CASE k \in {"image", "text"}
  BY <1>2, <1>4, HomeIs, Contains DEF WorldInv, Named, Kinds, Channels
<1>5. CASE k = "panel"
  BY <1>2, <1>5, HomeIs, Contains DEF WorldInv, Named, Kinds, Channels
<1> QED  BY <1>2, <1>3, <1>4, <1>5, Contains

LEMMA Candidates ==
    ASSUME TypeInv, WorldInv, NEW k \in Kinds
    PROVE  \A o \in Saved(k) \cup Namesakes(k) : o \in things /\ o.kind = k
BY DEF Saved, Namesakes, WorldInv, Named

LEMMA KindIs ==
    ASSUME TypeInv, at > 0
    PROVE  at \in 1..9 /\ Kind \in Kinds
BY KindAt, OrderIs DEF TypeInv, TypeOK

\* Every step is one of these.
LEMMA Steps ==
    ASSUME TypeInv, WorldInv, [Next]_vars
    PROVE  \/ BeginInitialize \/ BeginRefreshPanel \/ JoinAlerts
           \/ GoesOn \/ KeepControl \/ DeleteOldText \/ Save
           \/ Fails
           \/ \E o \in things : Delete(o)
           \/ ChangeRoles \/ UNCHANGED vars
<1> USE DEF discord, observed, bounds
<1>1. ASSUME Ensuring
      PROVE  at > 0 /\ Kind \in Kinds /\ ~created
  BY <1>1, KindIs DEF Ensuring, TypeInv
<1>2. ASSUME UseSaved
      PROVE  GoesOn
  <2>1. PICK o \in Saved(Kind) : Ensuring /\ Reuse(o)
    BY <1>2 DEF UseSaved
  <2>2. o \in things /\ o.kind = Kind
    BY <1>1, <2>1, Candidates
  <2> QED
    BY <2>1, <2>2 DEF Reuse, GoesOn, Found
<1>3. ASSUME UseNamesake
      PROVE  GoesOn
  <2>1. PICK o \in Namesakes(Kind) : Ensuring /\ Saved(Kind) = {} /\ Reuse(o)
    BY <1>3 DEF UseNamesake
  <2>2. o \in things /\ o.kind = Kind
    BY <1>1, <2>1, Candidates
  <2> QED
    BY <2>1, <2>2 DEF Reuse, GoesOn, Found
<1>4. ASSUME SavedMissed
      PROVE  GoesOn
  <2>1. Ensuring /\ Kind \in Channels /\ UNCHANGED <<joined, row, lost, initialized>>
    BY <1>4 DEF SavedMissed
  <2>2. CASE \E o \in Namesakes(Kind) :
                /\ things' = (things \ {o}) \cup {InPlace(o, Kind)}
                /\ Ensured(Kind, o.id, FALSE)
                /\ UNCHANGED <<nextId, missed>>
    <3>1. PICK o \in Namesakes(Kind) :
                /\ things' = (things \ {o}) \cup {InPlace(o, Kind)}
                /\ Ensured(Kind, o.id, FALSE)
                /\ UNCHANGED <<nextId, missed>>
      BY <2>2
    <3>2. o \in things /\ o.kind = Kind
      BY <1>1, <2>1, <3>1, Candidates
    <3> QED
      BY <2>1, <3>1, <3>2 DEF GoesOn, Found
  <2>3. CASE /\ Namesakes(Kind) = {}
             /\ Add
             /\ Ensured(Kind, nextId, TRUE)
             /\ missed' = missed \cup {Kind}
    BY <2>1, <2>3 DEF GoesOn, Made
  <2> QED  BY <1>4, <2>2, <2>3 DEF SavedMissed
<1>5. ASSUME Create
      PROVE  GoesOn
  BY <1>5 DEF Create, GoesOn, Made
<1>6. ASSUME CreateLost
      PROVE  Fails
  BY <1>6 DEF CreateLost, Fails
<1>7. ASSUME EnsureFails
      PROVE  Fails
  <2>1. ~created
    BY <1>7 DEF EnsureFails, TypeInv
  <2> QED
    BY <1>7, <2>1 DEF EnsureFails, Fails
<1>8. ASSUME SaveFails
      PROVE  Fails
  <2>1. /\ ReturnError /\ phase = "save"
        /\ UNCHANGED <<nextId, admits, joined, row, lost, missed, passedOver>>
    BY <1>8 DEF SaveFails
  <2>2. \/ created /\ things' = Without(ids[Kind])
        \/ ~created /\ things' = things
    BY <1>8 DEF SaveFails, Cleanup
  <2> QED
    BY <2>1, <2>2 DEF Fails
<1>9. ASSUME CleanupFails
      PROVE  Fails
  BY <1>9 DEF CleanupFails, Fails
<1>10. ASSUME Crash
       PROVE  Fails
  <2>1. ReturnError /\ UNCHANGED <<things, nextId, admits, joined, row, missed, passedOver>>
    BY <1>10 DEF Crash
  <2>2. \/ created /\ phase = "save" /\ lost' = lost \cup {Kind}
        \/ ~created /\ lost' = lost
    BY <1>10 DEF Crash, TypeInv
  <2> QED
    BY <2>1, <2>2 DEF Fails
<1> QED
  BY <1>2, <1>3, <1>4, <1>5, <1>6, <1>7, <1>8, <1>9, <1>10 DEF Next

\* The next state has no other things than before, but perhaps a new one of
\* the kind that is ensured.
Evolved ==
    /\ nextId <= nextId'
    /\ \A t \in things' :
         \/ \E o \in things : t.id = o.id /\ t.kind = o.kind
         \/ t.id = nextId /\ t.kind = Kind /\ nextId < nextId'

LEMMA Numbers ==
    ASSUME TypeInv
    PROVE  /\ nextId \in Nat
           /\ \A o \in things : o.id \in Nat /\ o.id # 0 /\ o.parent \in Nat /\ o \in ThingSet
           /\ \A k \in Kinds : ids[k] \in Nat /\ row[k] \in Nat
           /\ 0 < nextId
BY InstallationAssumption DEF TypeInv, TypeOK, ThingSet

LEMMA FoundSound ==
    ASSUME TypeInv, WorldInv, NEW o \in things, Found(o)
    PROVE  /\ Sound'
           /\ Evolved
           /\ \A t \in things' : t \in things \/ t = InPlace(o, Kind)
           /\ \A t \in things : t = o \/ t \in things'
           /\ InPlace(o, Kind) \in things'
           /\ InPlace(o, Kind).id = o.id /\ InPlace(o, Kind).kind = o.kind
           /\ InPlace(o, Kind).parent = IF Kind \in Channels
                                        THEN IF Exists(Home(ids, Kind)) THEN Home(ids, Kind) ELSE 0
                                        ELSE o.parent
           /\ o.id # 0 /\ o.kind = Kind
           /\ \A i : Exists(i)' <=> Exists(i)
<1> DEFINE p == InPlace(o, Kind)
<1>1. at > 0 /\ Kind \in Kinds /\ o.kind = Kind
  BY KindIs DEF Found, Ensuring
<1>2. /\ p.id = o.id /\ p.kind = o.kind
      /\ p.parent = IF Kind \in Channels
                    THEN IF Exists(Home(ids, Kind)) THEN Home(ids, Kind) ELSE 0
                    ELSE o.parent
  BY <1>1, Numbers, InPlaceIs DEF TypeInv, TypeOK
<1>3. things' = (things \ {o}) \cup {p} /\ nextId' = nextId
  BY DEF Found
<1> HIDE DEF p
<1>4. /\ \A t \in things' : t \in things \/ t = p
      /\ \A t \in things : t = o \/ t \in things'
      /\ p \in things'
  BY <1>3
<1>5. Evolved
  BY <1>2, <1>3, <1>4, Numbers DEF Evolved
<1>6. \A i : Exists(i)' <=> Exists(i)
  BY <1>2, <1>4 DEF Exists
<1>7. \A t, q \in things' : t.id = q.id => t = q
  BY <1>2, <1>3 DEF WorldInv, Sound
<1>8. \A t \in things' : t.id < nextId'
  BY <1>2, <1>3, <1>4 DEF WorldInv, Sound
<1>9. \A c \in things : \E d \in things' : d.id = c.id /\ d.kind = c.kind
  BY <1>2, <1>4
<1>10. p.parent # 0 => /\ o.kind \notin Alone
                       /\ \E c \in things : c.id = p.parent /\ c.kind = Container(o.kind)
  <2>1. CASE Kind \in Channels /\ Exists(Home(ids, Kind))
    BY <1>1, <1>2, <2>1, HomeHolds DEF Exists
  <2>2. CASE Kind \in Channels /\ ~Exists(Home(ids, Kind))
    BY <1>2, <2>2
  <2>3. CASE Kind \notin Channels
    BY <1>2, <2>3 DEF WorldInv, Sound
  <2> QED  BY <2>1, <2>2, <2>3
<1>11. \A t \in things' :
         t.parent # 0 => /\ t.kind \notin Alone
                         /\ \E c \in things' : c.id = t.parent /\ c.kind = Container(t.kind)
  <2> SUFFICES ASSUME NEW t \in things', t.parent # 0
               PROVE  /\ t.kind \notin Alone
                      /\ \E c \in things' : c.id = t.parent /\ c.kind = Container(t.kind)
    OBVIOUS
  <2>1. CASE t \in things
    BY <2>1, <1>9 DEF WorldInv, Sound
  <2>2. CASE t = p
    BY <2>2, <1>2, <1>9, <1>10
  <2> QED  BY <2>1, <2>2, <1>4
<1>12. \A t \in things' : t.kind \in Messages => t.parent # 0
  <2>1. Kind \in Messages => p.parent # 0
    BY <1>1, <1>2 DEF WorldInv, Sound, Channels, Messages
  <2> QED  BY <2>1, <1>1, <1>2, <1>4 DEF WorldInv, Sound
<1>13. Sound'
  BY <1>7, <1>8, <1>11, <1>12 DEF Sound
<1> QED
  BY <1>1, <1>2, <1>4, <1>5, <1>6, <1>13, Numbers DEF p

LEMMA AddSound ==
    ASSUME TypeInv, WorldInv, at > 0, Add
    PROVE  /\ Sound'
           /\ Evolved
           /\ \A t \in things' : t \in things \/ t = New(Kind)
           /\ \A t \in things : t \in things'
           /\ New(Kind) \in things'
           /\ New(Kind).id = nextId /\ New(Kind).kind = Kind
           /\ New(Kind).parent = IF Kind \in Channels
                                 THEN IF Exists(Home(ids, Kind)) THEN Home(ids, Kind) ELSE 0
                                 ELSE Home(ids, Kind)
           /\ nextId # 0 /\ nextId < nextId' /\ ~Exists(nextId)
           /\ \A i : Exists(i)' <=> (Exists(i) \/ i = nextId)
<1> DEFINE p == New(Kind)
<1>1. Kind \in Kinds /\ nextId \in 1..MaxId
  BY KindIs, AddTypes
<1>2. /\ p.id = nextId /\ p.kind = Kind
      /\ p.parent = IF Kind \in Channels
                    THEN IF Exists(Home(ids, Kind)) THEN Home(ids, Kind) ELSE 0
                    ELSE Home(ids, Kind)
  BY <1>1, NewIs DEF TypeInv, TypeOK
<1>3. things' = things \cup {p} /\ nextId' = nextId + 1
  BY DEF Add
<1>4. Kind \in Messages => Exists(Home(ids, Kind))
  BY DEF Add
<1> HIDE DEF p
<1>5. /\ \A t \in things' : t \in things \/ t = p
      /\ \A t \in things : t \in things'
      /\ p \in things'
  BY <1>3
<1>6. Evolved
  BY <1>1, <1>2, <1>3, <1>5, Numbers DEF Evolved
<1>7. \A i : Exists(i)' <=> (Exists(i) \/ i = nextId)
  BY <1>2, <1>5 DEF Exists
<1>8. \A t \in things : t.id # nextId
  BY Numbers DEF WorldInv, Sound
<1>9. \A t, q \in things' : t.id = q.id => t = q
  BY <1>2, <1>3, <1>8 DEF WorldInv, Sound
<1>10. \A t \in things' : t.id < nextId'
  BY <1>1, <1>2, <1>3, <1>5, Numbers DEF WorldInv, Sound
<1>11. p.parent # 0 => /\ Kind \notin Alone
                       /\ \E c \in things : c.id = p.parent /\ c.kind = Container(Kind)
  <2>1. CASE Exists(Home(ids, Kind))
    BY <1>1, <1>2, <2>1, HomeHolds DEF Exists
  <2>2. CASE Kind \in Channels /\ ~Exists(Home(ids, Kind))
    BY <1>2, <2>2
  <2>3. CASE Kind = "role"
    BY <1>2, <2>3, HomeIs DEF Alone, Channels
  <2> QED  BY <1>1, <1>4, <2>1, <2>2, <2>3 DEF Kinds
<1>12. \A t \in things' :
         t.parent # 0 => /\ t.kind \notin Alone
                         /\ \E c \in things' : c.id = t.parent /\ c.kind = Container(t.kind)
  <2> SUFFICES ASSUME NEW t \in things', t.parent # 0
               PROVE  /\ t.kind \notin Alone
                      /\ \E c \in things' : c.id = t.parent /\ c.kind = Container(t.kind)
    OBVIOUS
  <2>1. CASE t \in things
    BY <2>1, <1>5 DEF WorldInv, Sound
  <2>2. CASE t = p
    BY <2>2, <1>2, <1>5, <1>11
  <2> QED  BY <2>1, <2>2, <1>5
<1>13. \A t \in things' : t.kind \in Messages => t.parent # 0
  <2>1. Kind \in Messages => p.parent # 0
    BY <1>2, <1>4, Numbers DEF Exists, Channels, Messages
  <2> QED  BY <2>1, <1>2, <1>5 DEF WorldInv, Sound
<1>14. Sound'
  BY <1>9, <1>10, <1>12, <1>13 DEF Sound
<1>15. nextId < nextId' /\ ~Exists(nextId) /\ nextId # 0
  BY <1>1, <1>3, <1>8 DEF Exists
<1> QED
  BY <1>2, <1>5, <1>6, <1>7, <1>14, <1>15 DEF p

LEMMA WithoutSound ==
    ASSUME TypeInv, WorldInv, NEW i, things' = Without(i), nextId' = nextId
    PROVE  /\ Sound'
           /\ Evolved
           /\ \A t \in things' : \E o \in things :
                 /\ o.id # i /\ t.id = o.id /\ t.kind = o.kind
                 /\ \/ t = o /\ o.parent # i
                    \/ t.parent = 0 /\ o.parent = i /\ o.kind \notin Messages
           /\ \A o \in things : o.id # i /\ o.parent # i => o \in things'
           /\ \A j : j # i /\ Exists(j)'  => Exists(j)
           /\ ~Exists(i)'
<1>1. things \subseteq ThingSet
  BY Numbers
<1>2. /\ \A t \in things' : \E o \in things :
            /\ o.id # i /\ t.id = o.id /\ t.kind = o.kind
            /\ \/ t = o /\ o.parent # i
               \/ t.parent = 0 /\ o.parent = i /\ o.kind \notin Messages
      /\ \A o \in things : o.id # i /\ o.parent # i => o \in things'
      /\ \A o \in things : o.id # i /\ o.kind \notin Messages
            => \E t \in things' : t.id = o.id /\ t.kind = o.kind
  BY <1>1, WithoutIs
<1>3. Evolved
  BY <1>2, Numbers DEF Evolved
<1>4. \A t, q \in things' : t.id = q.id => t = q
  <2> SUFFICES ASSUME NEW t \in things', NEW q \in things', t.id = q.id
               PROVE  t = q
    OBVIOUS
  <2>1. PICK o \in things : /\ t.id = o.id /\ t.kind = o.kind
                            /\ \/ t = o /\ o.parent # i
                               \/ t.parent = 0 /\ o.parent = i
    BY <1>2
  <2>2. PICK u \in things : /\ q.id = u.id /\ q.kind = u.kind
                            /\ \/ q = u /\ u.parent # i
                               \/ q.parent = 0 /\ u.parent = i
    BY <1>2
  <2>3. o = u
    BY <2>1, <2>2 DEF WorldInv, Sound
  <2>4. t \in ThingSet /\ q \in ThingSet
    BY <1>1, WithoutIs
  <2> QED
    BY <2>1, <2>2, <2>3, <2>4 DEF ThingSet
<1>5. \A t \in things' : t.id < nextId'
  BY <1>2 DEF WorldInv, Sound
<1>6. \A t \in things' :
         t.parent # 0 => /\ t.kind \notin Alone
                         /\ \E c \in things' : c.id = t.parent /\ c.kind = Container(t.kind)
  <2> SUFFICES ASSUME NEW t \in things', t.parent # 0
               PROVE  /\ t.kind \notin Alone
                      /\ \E c \in things' : c.id = t.parent /\ c.kind = Container(t.kind)
    OBVIOUS
  <2>1. t \in things /\ t.parent # i
    BY <1>2
  <2>2. t.kind \in Kinds
    BY <2>1, Numbers DEF ThingSet
  <2>3. t.kind \notin Alone
    BY <2>1 DEF WorldInv, Sound
  <2>4. PICK c \in things : c.id = t.parent /\ c.kind = Container(t.kind)
    BY <2>1 DEF WorldInv, Sound
  <2>5. c.kind \notin Messages
    BY <2>2, <2>4, Contains DEF Channels, Messages
  <2> QED
    BY <1>2, <2>1, <2>3, <2>4, <2>5
<1>7. \A t \in things' : t.kind \in Messages => t.parent # 0
  BY <1>2 DEF WorldInv, Sound
<1>8. Sound'
  BY <1>4, <1>5, <1>6, <1>7 DEF Sound
<1>9. (\A j : j # i /\ Exists(j)' => Exists(j)) /\ ~Exists(i)'
  BY <1>2 DEF Exists
<1> QED  BY <1>2, <1>3, <1>8, <1>9

\* Nothing moved.
LEMMA SameSound ==
    ASSUME TypeInv, WorldInv, UNCHANGED <<things, nextId>>
    PROVE  Sound' /\ Evolved
<1>1. Evolved
  BY Numbers DEF Evolved
<1> QED  BY <1>1 DEF WorldInv, Sound

\* Ids keep naming what they named, if a new one names a thing of its kind.
LEMMA NamedKept ==
    ASSUME TypeInv, WorldInv, Sound', Evolved, nextId' \in Nat,
           ids' \in [Kinds -> 0..MaxId], row' \in [Kinds -> 0..MaxId],
           \A k \in Kinds : \A i \in {ids'[k], row'[k]} :
              \/ i \in {0, ids[k], row[k]}
              \/ \E t \in things' : t.id = i /\ t.kind = k
    PROVE  Named'
<1>1. \A t \in things', k \in Kinds :
        t.id \in {ids[k], row[k]} => t.kind = k
  BY Numbers DEF Evolved, WorldInv, Named
<1>2. \A t \in things' : t.id # 0
  BY Numbers DEF Evolved
<1>3. \A t \in things', k \in Kinds :
        t.id = ids'[k] \/ t.id = row'[k] => t.kind = k
  <2> SUFFICES ASSUME NEW t \in things', NEW k \in Kinds, NEW i \in {ids'[k], row'[k]},
                      t.id = i
               PROVE  t.kind = k
    OBVIOUS
  <2>1. CASE i \in {0, ids[k], row[k]}
    BY <1>1, <1>2, <2>1
  <2>2. CASE \E u \in things' : u.id = i /\ u.kind = k
    BY <2>2 DEF Sound
  <2> QED  BY <2>1, <2>2
<1>4. \A k \in Kinds : \A i \in {ids'[k], row'[k]} : i < nextId'
  <2> SUFFICES ASSUME NEW k \in Kinds, NEW i \in {ids'[k], row'[k]}
               PROVE  i < nextId'
    OBVIOUS
  <2>1. CASE i \in {0, ids[k], row[k]}
    BY <2>1, Numbers DEF Evolved, WorldInv, Named
  <2>2. CASE \E u \in things' : u.id = i /\ u.kind = k
    BY <2>2 DEF Sound
  <2> QED  BY <2>1, <2>2
<1>5. \A k \in Kinds : ids'[k] < nextId' /\ row'[k] < nextId'
  BY <1>4
<1> QED  BY <1>3, <1>5 DEF Named

\* What Ensured does to the ids.
LEMMA EnsuredIs ==
    ASSUME TypeInv, Ensuring, NEW id, NEW fresh, Ensured(Kind, id, fresh)
    PROVE  /\ at > 0 /\ at \in 1..9 /\ Kind \in Kinds
           /\ phase = "ensure"
           /\ ids' = [ids EXCEPT ![Kind] = id]
           /\ ids'[Kind] = id
           /\ \A k \in Kinds : k # Kind => ids'[k] = ids[k]
           /\ at = 1 => at' = 2 /\ phase' = "ensure" /\ created' = created
           /\ at # 1 => at' = at /\ phase' = "save" /\ created' = fresh
           /\ ~created
           /\ admits' = Restricted(Kind)
           /\ secured' => secured /\ (Kind = "category" => id = ids["category"])
           /\ passedOver' = PassedOver(Kind, id) /\ passedOver \subseteq passedOver'
<1>1. at > 0 /\ at \in 1..9 /\ Kind \in Kinds /\ (Order[at] = "secure" <=> at = 1)
  BY KindIs, KindAt, OrderIs DEF Ensuring, TypeInv, TypeOK
<1>2. ids' = [ids EXCEPT ![Kind] = id] /\ phase = "ensure"
  BY DEF Ensured, Ensuring
<1>3. ids'[Kind] = id /\ \A k \in Kinds : k # Kind => ids'[k] = ids[k]
  BY <1>1, <1>2 DEF TypeInv, TypeOK
<1>4. /\ at = 1 => at' = 2 /\ phase' = "ensure" /\ created' = created
      /\ at # 1 => at' = at /\ phase' = "save" /\ created' = fresh
  BY <1>1, <1>2 DEF Ensured
<1>5. ~created
  BY <1>2 DEF TypeInv
<1>6. admits' = Restricted(Kind)
  BY DEF Ensured
<1>7. secured' => secured /\ (Kind = "category" => id = ids["category"])
  BY DEF Ensured, TypeInv, TypeOK
<1>8. passedOver' = PassedOver(Kind, id) /\ passedOver \subseteq passedOver'
  BY DEF Ensured, PassedOver
<1> QED  BY <1>1, <1>2, <1>3, <1>4, <1>5, <1>6, <1>7, <1>8

\* The ids of a server from before the role.
LEMMA LegacyIds ==
    /\ LegacyRow["category"] = 1 /\ LegacyRow["control"] = 2
    /\ LegacyRow["target"] = 3 /\ LegacyRow["panel"] = 4
    /\ LegacyRow["role"] = 0 /\ LegacyRow["guide"] = 0
    /\ LegacyRow["image"] = 0 /\ LegacyRow["text"] = 0
<1>1. \A k \in Kinds : LegacyRow[k] = IF \E o \in Legacy : o.kind = k
                                THEN (CHOOSE o \in Legacy : o.kind = k).id ELSE 0
  BY DEF LegacyRow
<1>2. \A o \in Legacy : \/ o.id = 1 /\ o.kind = "category"
                        \/ o.id = 2 /\ o.kind = "control"
                        \/ o.id = 3 /\ o.kind = "target"
                        \/ o.id = 4 /\ o.kind = "panel"
  BY DEF Legacy, Thing
<1>3. /\ \E o \in Legacy : o.kind = "category"
      /\ \E o \in Legacy : o.kind = "control"
      /\ \E o \in Legacy : o.kind = "target"
      /\ \E o \in Legacy : o.kind = "panel"
  BY DEF Legacy, Thing
<1>4. "category" \in Kinds /\ "control" \in Kinds /\ "target" \in Kinds /\ "panel" \in Kinds
      /\ "role" \in Kinds /\ "guide" \in Kinds /\ "image" \in Kinds /\ "text" \in Kinds
  BY DEF Kinds, Channels, Messages
<1>5. /\ (CHOOSE o \in Legacy : o.kind = "category").id = 1
      /\ (CHOOSE o \in Legacy : o.kind = "control").id = 2
      /\ (CHOOSE o \in Legacy : o.kind = "target").id = 3
      /\ (CHOOSE o \in Legacy : o.kind = "panel").id = 4
  BY <1>2, <1>3
<1> QED  BY <1>1, <1>2, <1>3, <1>4, <1>5

LEMMA WorldInit == Init => WorldInv
<1> SUFFICES ASSUME Init PROVE WorldInv
  OBVIOUS
<1>1. CASE things = {} /\ nextId = 1 /\ row = NoIds
  <2>1. \A k \in Kinds : row[k] = 0 /\ ids[k] = 0
    BY <1>1 DEF Init, NoIds
  <2> QED
    BY <1>1, <2>1 DEF WorldInv, Sound, Named
<1>2. CASE things = Legacy /\ nextId = 5 /\ row = LegacyRow
  <2>1. /\ row["category"] = 1 /\ row["control"] = 2 /\ row["target"] = 3 /\ row["panel"] = 4
        /\ row["role"] = 0 /\ row["guide"] = 0 /\ row["image"] = 0 /\ row["text"] = 0
    BY <1>2, LegacyIds
  <2>2. ids = row
    BY DEF Init
  <2>3. Sound
    <3>1. \A o, q \in Legacy : o.id = q.id => o = q
      BY DEF Legacy, Thing
    <3>2. \A o \in Legacy : o.id < 5 /\ (o.kind \in Messages => o.parent # 0)
      BY DEF Legacy, Thing, Messages
    <3>3. /\ Thing(1, "category", 0) \in Legacy
          /\ Thing(2, "control", 1) \in Legacy
      BY DEF Legacy
    <3>4. \A o \in Legacy :
            o.parent # 0 => \/ o.kind \in {"control", "target"} /\ o.parent = 1
                            \/ o.kind = "panel" /\ o.parent = 2
      BY DEF Legacy, Thing
    <3>5. \A o \in Legacy :
            o.parent # 0 => /\ o.kind \notin Alone
                            /\ \E c \in Legacy : c.id = o.parent /\ c.kind = Container(o.kind)
      BY <3>3, <3>4, Contains DEF Thing, Alone
    <3> QED  BY <1>2, <3>1, <3>2, <3>5 DEF Sound
  <2>4. \A k \in Kinds : row[k] < 5
    BY <2>1 DEF Kinds, Channels, Messages
  <2>5. \A o \in Legacy, k \in Kinds : o.id = row[k] => o.kind = k
    BY <2>1 DEF Legacy, Thing, Kinds, Channels, Messages
  <2> QED
    BY <1>2, <2>2, <2>3, <2>4, <2>5 DEF WorldInv, Named
<1> QED  BY <1>1, <1>2 DEF Init

LEMMA WorldStep == TypeInv /\ TypeInv' /\ WorldInv /\ [Next]_vars => WorldInv'
<1> SUFFICES ASSUME TypeInv, TypeInv', WorldInv, [Next]_vars
             PROVE  WorldInv'
  OBVIOUS
<1> USE DEF discord, operation, observed, bounds
<1> DEFINE Known == \A k \in Kinds : \A i \in {ids'[k], row'[k]} :
                       \/ i \in {0, ids[k], row[k]}
                       \/ \E t \in things' : t.id = i /\ t.kind = k
<1>1. /\ nextId' \in Nat
      /\ ids' \in [Kinds -> 0..MaxId] /\ row' \in [Kinds -> 0..MaxId]
  BY InstallationAssumption DEF TypeInv, TypeOK
<1>2. ASSUME Sound', Evolved, Known
      PROVE  WorldInv'
  BY <1>1, <1>2, NamedKept DEF WorldInv
<1>3. ASSUME UNCHANGED <<things, nextId>>, Known
      PROVE  WorldInv'
  BY <1>2, <1>3, SameSound
<1>4. CASE BeginInitialize \/ BeginRefreshPanel \/ JoinAlerts
  BY <1>3, <1>4 DEF BeginInitialize, BeginRefreshPanel, JoinAlerts
<1>5. CASE GoesOn
  <2>1. UNCHANGED row
    BY <1>5 DEF GoesOn
  <2>2. CASE Made
    <3>1. Ensuring /\ Add /\ Ensured(Kind, nextId, TRUE) /\ at > 0
      BY <2>2 DEF Made, Ensuring
    <3>2. Known
      BY <2>1, <3>1, EnsuredIs, AddSound
    <3> QED
      BY <1>2, <3>1, <3>2, AddSound
  <2>3. ASSUME NEW o \in things, Found(o)
        PROVE  WorldInv'
    <3>1. Ensuring /\ Ensured(Kind, o.id, FALSE) /\ at > 0
      BY <2>3 DEF Found, Ensuring
    <3>2. Known
      <4>1. \A k \in Kinds : k # Kind => ids'[k] = ids[k] /\ row'[k] = row[k]
        BY <2>1, <3>1, EnsuredIs
      <4>2. ids'[Kind] = o.id /\ row'[Kind] = row[Kind]
        BY <2>1, <3>1, EnsuredIs
      <4>3. \E t \in things' : t.id = o.id /\ t.kind = Kind
        BY <2>3, FoundSound
      <4> QED  BY <4>1, <4>2, <4>3
    <3> QED
      BY <1>2, <2>3, <3>2, FoundSound
  <2> QED  BY <1>5, <2>2, <2>3 DEF GoesOn
<1>6. CASE KeepControl
  BY <1>3, <1>6 DEF KeepControl
<1>7. CASE DeleteOldText
  <2>1. Known
    BY <1>7 DEF DeleteOldText, TypeInv, TypeOK
  <2>2. CASE Saved("text") = {}
    BY <1>3, <1>7, <2>1, <2>2 DEF DeleteOldText
  <2>3. CASE Saved("text") # {}
    BY <1>2, <1>7, <2>1, <2>3, WithoutSound DEF DeleteOldText
  <2> QED  BY <2>2, <2>3
<1>8. CASE Save
  <2>1. Known
    BY <1>8 DEF Save, SaveInstallation, Forget
  <2> QED  BY <1>3, <1>8, <2>1 DEF Save
<1>9. CASE Fails
  <2>1. Known
    BY <1>9 DEF Fails, ReturnError, Forget
  <2>2. CASE Ensuring /\ Add
    BY <1>2, <2>1, <2>2, AddSound DEF Ensuring
  <2>3. CASE UNCHANGED <<things, nextId>>
    BY <1>3, <2>1, <2>3
  <2>4. CASE things' = Without(ids[Kind]) /\ UNCHANGED nextId
    BY <1>2, <2>1, <2>4, WithoutSound
  <2> QED  BY <1>9, <2>2, <2>3, <2>4 DEF Fails
<1>10. ASSUME NEW o \in things, Delete(o)
       PROVE  WorldInv'
  <2>1. Known
    BY <1>10 DEF Delete
  <2> QED  BY <1>2, <1>10, <2>1, WithoutSound DEF Delete
<1>11. CASE ChangeRoles \/ UNCHANGED vars
  BY <1>3, <1>11 DEF ChangeRoles, vars
<1> QED
  BY <1>4, <1>5, <1>6, <1>7, <1>8, <1>9, <1>10, <1>11, Steps

LEMMA WorldInvariance == Spec => [](TypeInv /\ WorldInv)
<1>1. Init => TypeInv /\ WorldInv
  BY TypeInit, WorldInit
<1>2. TypeInv /\ WorldInv /\ [Next]_vars => (TypeInv /\ WorldInv)'
  BY TypeStep, WorldStep
<1> QED  BY <1>1, <1>2, PTL DEF Spec

-----------------------------------------------------------------------------
(* How far memory and SQLite are apart, and who has the role.              *)

\* Memory is ahead of SQLite only by what was just ensured, by the control
\* channel that was secured, and by a text that was forgotten.
MemoryAhead ==
    /\ phase = "ensure" => \A k \in Kinds : \/ ids[k] = row[k]
                                            \/ at = 2 /\ k = "control"
                                            \/ at = 5 /\ k = "text" /\ ids[k] = 0
    /\ phase = "save" => \A k \in Kinds : \/ ids[k] = row[k]
                                          \/ k = Kind
                                          \/ at = 2 /\ k = "control"

\* What is known to be saved, or known to memory.
Progress ==
    /\ phase = "save" => ids[Kind] # 0
    /\ secured => at > 0 /\ (at > 1 => ids["control"] # 0)
    /\ at \in 6..8 => row["text"] # 0
    /\ at = 1 \/ at \in 7..8 => row["category"] # 0

\* The roles that members have exist; they are the saved and known one but for
\* those that were passed over.  What was just made nobody has.
Members ==
    \A r \in joined :
        /\ \E o \in things : o.id = r /\ o.kind = "role"
        /\ r \in passedOver \/ (r = row["role"] /\ r = ids["role"])
        /\ created /\ at = 2 => r # ids["role"]

MemoryInv == MemoryAhead /\ Progress /\ Members

LEMMA KindSame == at' = at => Kind' = Kind
BY DEF Kind

\* The kinds at their places.
LEMMA KindOf ==
    ASSUME TypeInv, at > 0
    PROVE  /\ Kind = "role" <=> at = 2
           /\ Kind = "guide" <=> at = 3
           /\ Kind = "image" <=> at = 4
           /\ Kind = "text" <=> at = 5
           /\ Kind = "category" <=> at = 6
           /\ Kind = "control" <=> (at = 1 \/ at = 7)
           /\ Kind = "target" <=> at = 8
           /\ Kind = "panel" <=> at = 9
<1>1. at \in 1..9 /\ Kind \in Kinds /\ (at = 1 => Kind = "control") /\ (at # 1 => Index(Kind) = at)
  BY KindAt, OrderIs DEF TypeInv, TypeOK
<1>2. Kind \in {"role", "guide", "image", "text", "category", "control", "target", "panel"}
  BY <1>1 DEF Kinds, Channels, Messages
<1> QED  BY <1>1, <1>2, IndexOf

LEMMA KindsAre ==
    /\ "role" \in Kinds /\ "guide" \in Kinds /\ "image" \in Kinds /\ "text" \in Kinds
    /\ "category" \in Kinds /\ "control" \in Kinds /\ "target" \in Kinds /\ "panel" \in Kinds
    /\ \A k \in Kinds : k \in {"role", "guide", "image", "text", "category", "control",
                               "target", "panel"}
BY DEF Kinds, Channels, Messages

\* What an operation that fails leaves.
LEMMA FailsIs ==
    ASSUME Fails
    PROVE  /\ at' = 0 /\ phase' = "ensure" /\ ~created' /\ ~secured'
           /\ row' = row /\ ids' = row
           /\ joined' = joined /\ missed' = missed /\ passedOver' = passedOver
           /\ initialized' = IF initialized = "running" THEN "broken" ELSE initialized
<1>1. Forget /\ EndsAs("broken") /\ UNCHANGED <<row, joined, missed, passedOver>>
  BY DEF Fails, ReturnError
<1>2. at' = 0 /\ phase' = "ensure" /\ ids' = row' /\ ~created' /\ ~secured'
  BY <1>1 DEF Forget
<1> QED  BY <1>1, <1>2 DEF EndsAs

\* The last save ends the operation, the others go on.
LEMMA SaveIs ==
    ASSUME TypeInv, Save
    PROVE  /\ at \in 2..9 /\ phase = "save"
           /\ at' = IF at = 9 THEN 0 ELSE at + 1
           /\ phase' = "ensure" /\ ~created'
           /\ row' = ids /\ ids' = ids
           /\ at # 9 => secured' = secured /\ initialized' = initialized
           /\ at = 9 => ~secured'
           /\ at = 9 => initialized' = IF initialized = "running" THEN "done" ELSE initialized
           /\ UNCHANGED <<things, nextId, admits, joined, lost, missed>>
           /\ passedOver' = IF Kind = "role" THEN passedOver \ {ids["role"]} ELSE passedOver
<1>1. at \in 2..9 /\ phase = "save" /\ row' = ids
  BY OrderIs DEF Save, SaveInstallation, TypeInv, TypeOK
<1>2. /\ UNCHANGED <<things, nextId, admits, joined, lost, missed>>
      /\ passedOver' = IF Kind = "role" THEN passedOver \ {ids["role"]} ELSE passedOver
  BY DEF Save, discord
<1>3. CASE at = 9
  <2>1. Forget /\ EndsAs("done")
    BY <1>3, OrderIs DEF Save
  <2>2. at' = 0 /\ phase' = "ensure" /\ ids' = row' /\ ~created' /\ ~secured'
    BY <2>1 DEF Forget
  <2> QED  BY <1>1, <1>2, <1>3, <2>1, <2>2 DEF EndsAs
<1>4. CASE at # 9
  <2>1. at' = at + 1 /\ phase' = "ensure" /\ ~created'
        /\ UNCHANGED <<ids, secured, initialized>>
    BY <1>4, OrderIs DEF Save
  <2> QED  BY <1>1, <1>2, <1>4, <2>1
<1> QED  BY <1>3, <1>4

\* Deleting the text that memory knows.
LEMMA DeleteOldTextIs ==
    ASSUME TypeInv, DeleteOldText
    PROVE  /\ at = 5 /\ phase = "ensure" /\ Kind = "text"
           /\ ids["text"] # 0
           /\ ids' = [ids EXCEPT !["text"] = 0]
           /\ ids'["text"] = 0
           /\ \A k \in Kinds : k # "text" => ids'[k] = ids[k]
           /\ UNCHANGED <<nextId, admits, joined, row, at, phase, created, secured, lost,
                          missed, passedOver, initialized>>
<1>1. at \in 1..Len(Order) /\ Order[at] = "text"
  BY DEF DeleteOldText, OutOfOrder, TypeInv, TypeOK
<1>2. at = 5 /\ Kind = "text"
  BY <1>1, KindAt, KindOf
<1> QED
  BY <1>2, KindsAre DEF DeleteOldText, OutOfOrder, TypeInv, TypeOK, observed

\* A role stays when something else is deleted.
LEMMA RoleStays ==
    ASSUME TypeInv, WorldInv, NEW i, i # 0, things' = Without(i), nextId' = nextId,
           NEW o \in things, o.kind = "role", o.id # i
    PROVE  o \in things'
<1>1. o.parent = 0
  BY DEF WorldInv, Sound, Alone
<1> QED  BY <1>1, WithoutSound

LEMMA MemoryInit == Init => MemoryInv
<1> SUFFICES ASSUME Init PROVE MemoryInv
  OBVIOUS
<1>1. at = 0 /\ phase = "ensure" /\ ids = row /\ joined = {}
  BY DEF Init
<1>2. ~secured
  BY DEF Init
<1> QED
  BY <1>1, <1>2 DEF MemoryInv, MemoryAhead, Progress, Members

LEMMA MemoryStep ==
    TypeInv /\ TypeInv' /\ WorldInv /\ WorldInv' /\ MemoryInv /\ [Next]_vars => MemoryInv'
<1> SUFFICES ASSUME TypeInv, TypeInv', WorldInv, WorldInv', MemoryInv, [Next]_vars
             PROVE  MemoryInv'
  OBVIOUS
<1> USE DEF discord, operation, observed, bounds
<1>1. at = 0 => ids = row /\ phase = "ensure" /\ ~created
  BY DEF TypeInv, TypeOK
<1>2. CASE BeginInitialize
  <2>1. /\ at = 0 /\ at' \in {1, 2} /\ (at' = 1 => row["category"] # 0)
        /\ UNCHANGED <<things, joined, passedOver, row, phase, ids, created>>
    BY <1>2 DEF BeginInitialize
  <2>2. secured' => at' = 1
    <3>1. secured' = (at' = 1)
      BY <1>2 DEF BeginInitialize
    <3> QED  BY <3>1
  <2>3. MemoryAhead'
    BY <1>1, <2>1 DEF MemoryAhead
  <2>4. Progress'
    BY <1>1, <2>1, <2>2 DEF Progress
  <2>5. Members'
    BY <1>1, <2>1 DEF MemoryInv, Members
  <2> QED  BY <2>3, <2>4, <2>5 DEF MemoryInv
<1>3. CASE BeginRefreshPanel
  <2>1. /\ at = 0 /\ at' = 9
        /\ UNCHANGED <<things, joined, passedOver, row, phase, ids, created, secured>>
    BY <1>3, OrderIs DEF BeginRefreshPanel
  <2>2. ~secured
    BY <2>1 DEF MemoryInv, Progress
  <2>3. MemoryAhead'
    BY <1>1, <2>1 DEF MemoryAhead
  <2>4. Progress'
    BY <1>1, <2>1, <2>2 DEF Progress
  <2>5. Members'
    BY <1>1, <2>1 DEF MemoryInv, Members
  <2> QED  BY <2>3, <2>4, <2>5 DEF MemoryInv
<1>4. CASE JoinAlerts
  <2>1. /\ at = 0 /\ joined' = joined \cup {row["role"]} /\ Exists(row["role"])
        /\ UNCHANGED <<things, passedOver, row, at, phase, ids, created, secured>>
    BY <1>4 DEF JoinAlerts
  <2>4. \E o \in things : o.id = row["role"] /\ o.kind = "role"
    BY <2>1, KindsAre DEF Exists, WorldInv, Named
  <2>2. Members'
    BY <1>1, <2>1, <2>4 DEF MemoryInv, Members
  <2>3. MemoryAhead' /\ Progress'
    BY <1>1, <2>1, KindSame DEF MemoryInv, MemoryAhead, Progress
  <2> QED  BY <2>2, <2>3 DEF MemoryInv
<1>5. CASE GoesOn
  <2>1. PICK id \in Nat, fresh \in BOOLEAN :
          /\ Ensuring /\ Ensured(Kind, id, fresh) /\ id # 0
          /\ \A o \in things : \E t \in things' : t.id = o.id /\ t.kind = o.kind
          /\ id = nextId \/ fresh = FALSE
          /\ Saved(Kind) # {} /\ Kind = "role" => id = ids["role"] /\ fresh = FALSE
    <3>1. CASE Made
      <4>1. "role" \notin Channels
        BY DEF Channels
      <4>2. Ensuring /\ at > 0 /\ Add /\ Ensured(Kind, nextId, TRUE)
        BY <3>1 DEF Made, Ensuring
      <4>3. ~(Saved(Kind) # {} /\ Kind = "role")
        BY <3>1, <4>1 DEF Made
      <4>4. nextId \in Nat /\ nextId # 0
        BY Numbers
      <4>5. \A o \in things : \E t \in things' : t.id = o.id /\ t.kind = o.kind
        BY <4>2, AddSound
      <4> QED
        BY <4>2, <4>3, <4>4, <4>5
    <3>2. ASSUME NEW o \in things, Found(o)
          PROVE  /\ Ensuring /\ Ensured(Kind, o.id, FALSE) /\ o.id \in Nat \ {0}
                 /\ \A q \in things : \E t \in things' : t.id = q.id /\ t.kind = q.kind
                 /\ Saved(Kind) # {} /\ Kind = "role" => o.id = ids["role"]
      <4>1. "role" \notin Channels
        BY DEF Channels
      <4>2. Saved(Kind) # {} /\ Kind = "role" => o.id = ids["role"]
        BY <3>2, <4>1 DEF Found, Saved
      <4> QED
        BY <3>2, <4>2, FoundSound, Numbers DEF Found
    <3> QED
      BY <1>5, <3>1, <3>2 DEF GoesOn
  <2>2. /\ at \in 1..9 /\ Kind \in Kinds /\ phase = "ensure"
        /\ ids'[Kind] = id
        /\ \A k \in Kinds : k # Kind => ids'[k] = ids[k]
        /\ at = 1 => at' = 2 /\ phase' = "ensure" /\ created' = created
        /\ at # 1 => at' = at /\ phase' = "save" /\ created' = fresh
        /\ ~created
        /\ secured' => secured
    BY <2>1, EnsuredIs
  <2>3. UNCHANGED <<row, joined>>
    BY <1>5 DEF GoesOn
  <2>4. at # 1 => Kind' = Kind
    BY <2>2, KindSame
  <2>5. MemoryAhead'
    <3>1. CASE at = 1
      BY <2>2, <2>3, <3>1, KindOf DEF MemoryInv, MemoryAhead
    <3>2. CASE at # 1
      BY <2>2, <2>3, <2>4, <3>2, KindOf DEF MemoryInv, MemoryAhead
    <3> QED  BY <3>1, <3>2
  <2>6. Progress'
    <3>1. CASE at = 1
      BY <2>1, <2>2, <2>3, <3>1, KindOf DEF MemoryInv, Progress
    <3>2. CASE at # 1
      <4>1. ids'[Kind'] # 0
        BY <2>1, <2>2, <2>4, <3>2
      <4>2. ids'["control"] = ids["control"] \/ ids'["control"] # 0
        BY <2>1, <2>2, KindsAre
      <4> QED
        BY <2>2, <2>3, <3>2, <4>1, <4>2 DEF MemoryInv, Progress
    <3> QED  BY <3>1, <3>2
  <2>7. Members'
    <3> SUFFICES ASSUME NEW r \in joined
                 PROVE  /\ \E t \in things' : t.id = r /\ t.kind = "role"
                        /\ r \in passedOver' \/ (r = row["role"] /\ r = ids'["role"])
                        /\ created' /\ at' = 2 => r # ids'["role"]
      BY <2>3 DEF Members
    <3>1. PICK o \in things : o.id = r /\ o.kind = "role"
      BY DEF MemoryInv, Members
    <3>2. r \in passedOver \/ (r = row["role"] /\ r = ids["role"])
      BY DEF MemoryInv, Members
    <3>3. /\ passedOver' = PassedOver(Kind, id) /\ passedOver \subseteq passedOver'
      BY <2>1, EnsuredIs
    <3>4. \E t \in things' : t.id = r /\ t.kind = "role"
      BY <2>1, <3>1
    <3>5. CASE Kind = "role"
      <4>1. at = 2
        BY <2>2, <3>5, KindOf
      <4>2. id = nextId \/ fresh = FALSE
        BY <2>1
      <4>3. created' /\ at' = 2 => r # ids'["role"]
        <5>1. CASE id = nextId
          <6>1. r < nextId /\ nextId \in Nat
            BY <3>1, Numbers DEF WorldInv, Sound
          <6>2. ids'["role"] = nextId
            BY <2>2, <3>5, <5>1
          <6> QED  BY <6>1, <6>2
        <5>2. CASE fresh = FALSE
          BY <2>2, <4>1, <5>2
        <5> QED  BY <4>2, <5>1, <5>2
      <4>4. r \in passedOver' \/ (r = row["role"] /\ r = ids'["role"])
        <5> SUFFICES ASSUME r \notin passedOver PROVE r \in passedOver' \/ r = id
          BY <2>2, <3>2, <3>3, <3>5
        <5>1. r = row["role"] /\ r = ids["role"]
          BY <3>2
        <5>2. CASE r \in unsafe
          BY <3>3, <3>5, <5>1, <5>2 DEF PassedOver
        <5>3. CASE r \notin unsafe
          <6>1. o \in Saved(Kind)
            BY <3>1, <3>5, <5>1, <5>3 DEF Saved, Messages
          <6> QED
            BY <2>1, <3>5, <5>1, <6>1
        <5> QED  BY <5>2, <5>3
      <4> QED  BY <3>4, <4>3, <4>4
    <3>6. CASE Kind # "role"
      <4>1. ids'["role"] = ids["role"]
        BY <2>2, <3>6, KindsAre
      <4>2. at # 2 /\ (at = 1 => ~created')
        BY <2>2, <3>6, KindOf
      <4>3. ~(created' /\ at' = 2)
        BY <2>2, <4>2
      <4> QED
        BY <3>2, <3>3, <3>4, <4>1, <4>3
    <3> QED  BY <3>5, <3>6
  <2> QED  BY <2>5, <2>6, <2>7 DEF MemoryInv
<1>6. CASE KeepControl
  <2>1. /\ phase = "ensure" /\ phase' = "save" /\ ~created'
        /\ UNCHANGED <<things, joined, passedOver, row, at, ids, secured>>
    BY <1>6 DEF KeepControl
  <2>2. at = 7 /\ secured
    BY <1>6, KindAt, OrderIs DEF KeepControl, Stays, TypeInv, TypeOK
  <2>3. Kind = "control" /\ Kind' = Kind
    BY <2>1, <2>2, KindOf, KindSame
  <2>4. MemoryAhead'
    BY <2>1, <2>2 DEF MemoryInv, MemoryAhead
  <2>5. Progress'
    BY <2>1, <2>2, <2>3 DEF MemoryInv, Progress
  <2>6. Members'
    BY <2>1, <2>2 DEF MemoryInv, Members
  <2> QED  BY <2>4, <2>5, <2>6 DEF MemoryInv
<1>7. CASE DeleteOldText
  <2>1. /\ at = 5 /\ phase = "ensure" /\ Kind = "text"
        /\ ids["text"] # 0 /\ ids'["text"] = 0
        /\ \A k \in Kinds : k # "text" => ids'[k] = ids[k]
        /\ UNCHANGED <<nextId, joined, passedOver, row, at, phase, created, secured>>
    BY <1>7, DeleteOldTextIs
  <2>2. MemoryAhead'
    BY <2>1 DEF MemoryInv, MemoryAhead
  <2>3. Progress'
    BY <2>1, KindsAre DEF MemoryInv, Progress
  <2>4. Members'
    <3>1. ASSUME NEW o \in things, o.kind = "role" PROVE o \in things'
      <4>1. CASE Saved("text") = {}
        BY <1>7, <4>1 DEF DeleteOldText
      <4>2. CASE Saved("text") # {}
        <5>1. o.id # ids["text"]
          BY <3>1, KindsAre DEF WorldInv, Named
        <5> QED
          BY <1>7, <2>1, <3>1, <4>2, <5>1, RoleStays DEF DeleteOldText
      <4> QED  BY <4>1, <4>2
    <3>2. ids'["role"] = ids["role"]
      BY <2>1, KindsAre
    <3> QED
      BY <2>1, <3>1, <3>2 DEF MemoryInv, Members
  <2> QED  BY <2>2, <2>3, <2>4 DEF MemoryInv
<1>8. CASE Save
  <2>1. /\ at \in 2..9 /\ phase = "save"
        /\ at' = IF at = 9 THEN 0 ELSE at + 1
        /\ phase' = "ensure" /\ ~created'
        /\ row' = ids /\ ids' = ids
        /\ (at # 9 => secured' = secured) /\ (at = 9 => ~secured')
        /\ UNCHANGED <<things, joined>>
        /\ passedOver' = IF Kind = "role" THEN passedOver \ {ids["role"]} ELSE passedOver
    BY <1>8, SaveIs
  <2>2. MemoryAhead'
    BY <2>1 DEF MemoryAhead
  <2>3. Progress'
    <3>1. at' \in 6..8 => ids["text"] # 0
      BY <2>1, KindOf, KindsAre DEF MemoryInv, MemoryAhead, Progress
    <3>2. at' \in 7..8 => ids["category"] # 0
      BY <2>1, KindOf, KindsAre DEF MemoryInv, MemoryAhead, Progress
    <3> QED
      BY <2>1, <3>1, <3>2 DEF MemoryInv, Progress
  <2>4. Members'
    <3> SUFFICES ASSUME NEW r \in joined
                 PROVE  r \in passedOver' \/ r = ids["role"]
      BY <2>1 DEF MemoryInv, Members
    <3> QED
      BY <2>1 DEF MemoryInv, Members
  <2> QED  BY <2>2, <2>3, <2>4 DEF MemoryInv
<1>9. CASE Fails
  <2>1. /\ at' = 0 /\ phase' = "ensure" /\ ~created' /\ ~secured'
        /\ row' = row /\ ids' = row /\ joined' = joined /\ passedOver' = passedOver
    BY <1>9, FailsIs
  <2>2. MemoryAhead' /\ Progress'
    BY <2>1 DEF MemoryAhead, Progress
  <2>3. ASSUME NEW r \in joined, NEW o \in things, o.id = r, o.kind = "role"
        PROVE  o \in things'
    <3>1. created /\ at = 2 => r # ids["role"]
      BY DEF MemoryInv, Members
    <3>2. CASE Ensuring /\ Add
      BY <3>2, AddSound DEF Ensuring
    <3>3. CASE UNCHANGED <<things, nextId>>
      BY <3>3
    <3>4. CASE /\ phase = "save" /\ created
               /\ things' = Without(ids[Kind]) /\ UNCHANGED nextId
      <4>1. at > 0 /\ Kind \in Kinds /\ ids[Kind] # 0
        <5>1. at > 0
          BY <3>4 DEF TypeInv, TypeOK
        <5> QED
          BY <3>4, <5>1, KindIs DEF MemoryInv, Progress
      <4>2. o.id # ids[Kind]
        BY <2>3, <3>1, <3>4, <4>1, KindOf DEF WorldInv, Named
      <4> QED
        BY <2>3, <3>4, <4>1, <4>2, RoleStays
    <3> QED  BY <1>9, <3>2, <3>3, <3>4 DEF Fails
  <2>4. Members'
    <3> SUFFICES ASSUME NEW r \in joined
                 PROVE  /\ \E t \in things' : t.id = r /\ t.kind = "role"
                        /\ r \in passedOver \/ r = row["role"]
      BY <2>1 DEF Members
    <3> QED
      BY <2>3 DEF MemoryInv, Members
  <2> QED  BY <2>2, <2>4 DEF MemoryInv
<1>10. ASSUME NEW o \in things, Delete(o)
       PROVE  MemoryInv'
  <2>1. /\ UNCHANGED <<row, at, phase, ids, created, secured, nextId, passedOver>>
        /\ things' = Without(o.id)
        /\ joined' = joined \ {o.id}
    BY <1>10 DEF Delete
  <2>2. MemoryAhead' /\ Progress'
    BY <2>1, KindSame DEF MemoryInv, MemoryAhead, Progress
  <2>3. \A q \in things : q.kind = "role" /\ q.id # o.id => q \in things'
    BY <2>1, RoleStays, Numbers
  <2>4. Members'
    <3> SUFFICES ASSUME NEW r \in joined, r # o.id
                 PROVE  \E t \in things' : t.id = r /\ t.kind = "role"
      BY <2>1 DEF MemoryInv, Members
    <3> QED
      BY <2>3 DEF MemoryInv, Members
  <2> QED  BY <2>2, <2>4 DEF MemoryInv
<1>11. CASE ChangeRoles \/ UNCHANGED vars
  <2>1. UNCHANGED <<things, joined, passedOver, row, at, phase, ids, created, secured>>
    BY <1>11 DEF ChangeRoles, vars
  <2> QED
    BY <2>1, KindSame DEF MemoryInv, MemoryAhead, Progress, Members
<1> QED
  BY <1>2, <1>3, <1>4, <1>5, <1>6, <1>7, <1>8, <1>9, <1>10, <1>11, Steps

LEMMA MemoryInvariance == Spec => [](TypeInv /\ WorldInv /\ MemoryInv)
<1>1. Init => MemoryInv
  BY MemoryInit
<1>2. TypeInv /\ TypeInv' /\ WorldInv /\ WorldInv' /\ MemoryInv /\ [Next]_vars => MemoryInv'
  BY MemoryStep
<1> QED  BY <1>1, <1>2, WorldInvariance, PTL DEF Spec

\* The category is never hidden before the role it admits and the guide with
\* the join button are saved: securing an old control channel does not touch
\* the category, and what the operation saved before it is still there when it
\* ensures it.
THEOREM HiddenOnlyWithAWayIn == Spec => HiddenWithAWayIn
<1> DEFINE A == admits' # admits => row["role"] = admits' /\ row["text"] # 0
<1>1. TypeInv /\ WorldInv /\ MemoryInv /\ [Next]_vars => [A]_vars
  <2> SUFFICES ASSUME TypeInv, WorldInv, MemoryInv, [Next]_vars, admits' # admits
               PROVE  row["role"] = admits' /\ row["text"] # 0
    OBVIOUS
  <2> USE DEF discord
  <2>1. Ensuring /\ admits' = Restricted(Kind)
    <3>1. CASE GoesOn
      BY <3>1 DEF GoesOn, Made, Found, Ensured
    <3>2. CASE Fails
      BY <3>2 DEF Fails
    <3>3. ~(\/ BeginInitialize \/ BeginRefreshPanel \/ JoinAlerts \/ KeepControl)
      BY DEF BeginInitialize, BeginRefreshPanel, JoinAlerts, KeepControl
    <3>4. ~(\/ DeleteOldText \/ Save \/ ChangeRoles
            \/ (\E o \in things : Delete(o)) \/ UNCHANGED vars)
      BY DEF DeleteOldText, Save, ChangeRoles, Delete, vars
    <3> QED  BY <3>1, <3>2, <3>3, <3>4, Steps
  <2>2. Kind = "category" /\ admits' = ids["role"]
    BY <2>1 DEF Restricted
  <2>3. at = 6 /\ phase = "ensure"
    BY <2>1, <2>2, KindOf DEF Ensuring
  <2> QED
    BY <2>2, <2>3, KindsAre DEF MemoryInv, MemoryAhead, Progress
<1> QED
  BY <1>1, MemoryInvariance, PTL DEF Spec, HiddenWithAWayIn

-----------------------------------------------------------------------------
(* What is in its place.                                                   *)

\* Ensured by the operation that is under way.
Done(k) ==
    /\ at > 1
    /\ \/ at > Index(k)
       \/ at = Index(k) /\ phase = "save"

\* In its place by the ids in r.
Placed(r, k) ==
    \E o \in things : o.id = r[k] /\ o.kind = k /\ o.parent = Home(r, k)

\* What an Initialize that is under way has ensured is in its place, as long as
\* nobody deletes anything; a secured control channel only while its category
\* is still there.
Underway ==
    initialized = "running"
        => /\ at > 0
           /\ \A k \in Kinds : Done(k) => Placed(ids, k)
           /\ Done("text") => ids["image"] < ids["text"]
           /\ Done("category") => admits = ids["role"]
           /\ secured /\ at > 1 /\ Exists(ids["category"]) => Placed(ids, "control")

\* After it only the panel is looked at again, and found.
Installed ==
    initialized = "done"
        => /\ \A k \in Kinds : Placed(row, k)
           /\ row["image"] < row["text"]
           /\ admits = row["role"]
           /\ ids = row
           /\ at \in {0, 9}
           /\ ~created

PlaceInv == Underway /\ Installed

LEMMA ThingIs ==
    ASSUME NEW o \in ThingSet
    PROVE  o = Thing(o.id, o.kind, o.parent)
BY DEF ThingSet, Thing

\* Ensuring something does not change where what was ensured before belongs.
LEMMA HomeKept ==
    ASSUME TypeInv, at > 1, NEW k \in Kinds, Index(k) <= at,
           \A j \in Kinds : j # Kind => ids'[j] = ids[j]
    PROVE  Home(ids', k) = Home(ids, k)
<1>1. at \in 1..9
  BY OrderIs DEF TypeInv, TypeOK
<1>2. k \in {"control", "target"} => Kind # "category"
  BY <1>1, KindOf, IndexOf
<1>3. k \in {"image", "text"} => Kind # "guide"
  BY <1>1, KindOf, IndexOf
<1>4. k = "panel" => Kind # "control"
  BY <1>1, KindOf, IndexOf
<1>5. k \in {"control", "target"} => ids'["category"] = ids["category"]
  BY <1>2, KindsAre
<1>6. k \in {"image", "text"} => ids'["guide"] = ids["guide"]
  BY <1>3, KindsAre
<1>7. k = "panel" => ids'["control"] = ids["control"]
  BY <1>4, KindsAre
<1> QED
  BY <1>5, <1>6, <1>7, HomeIs, Contains

\* What belongs into something finds it, in an Initialize that is under way.
LEMMA HomeExists ==
    ASSUME TypeInv, WorldInv, PlaceInv, at > 1, initialized = "running", Kind \notin Alone
    PROVE  Exists(Home(ids, Kind))
<1>1. at \in 1..9 /\ Kind \in Kinds
  BY KindAt, OrderIs DEF TypeInv, TypeOK
<1>2. \A k \in Kinds : Index(k) < at => Exists(ids[k])
  BY <1>1, IndexOf DEF PlaceInv, Underway, Done, Placed, Exists
<1>3. CASE Kind \in {"control", "target"}
  <2>1. Index("category") < at /\ Home(ids, Kind) = ids["category"]
    BY <1>1, <1>3, KindOf, IndexOf, HomeIs
  <2> QED  BY <1>2, <2>1, KindsAre
<1>4. CASE Kind \in {"image", "text"}
  <2>1. Index("guide") < at /\ Home(ids, Kind) = ids["guide"]
    BY <1>1, <1>4, KindOf, IndexOf, HomeIs
  <2> QED  BY <1>2, <2>1, KindsAre
<1>5. CASE Kind = "panel"
  <2>1. Index("control") < at /\ Home(ids, Kind) = ids["control"]
    BY <1>1, <1>5, KindOf, IndexOf, HomeIs
  <2> QED  BY <1>2, <2>1, KindsAre
<1> QED  BY <1>1, <1>3, <1>4, <1>5, Contains

\* What is ensured in an Initialize is in its place then.
LEMMA EnsuredPlaced ==
    ASSUME TypeInv, WorldInv, PlaceInv, GoesOn, at > 1, initialized = "running"
    PROVE  \E t \in things' : /\ t.id = ids'[Kind] /\ t.kind = Kind
                              /\ t.parent = Home(ids', Kind)
<1>1. at \in 1..9 /\ Kind \in Kinds
  BY KindAt, OrderIs DEF TypeInv, TypeOK
<1>2. Kind \notin Alone => Exists(Home(ids, Kind))
  BY HomeExists
<1>3. Kind \in Alone => Home(ids, Kind) = 0
  BY HomeIs
<1>4. \A k \in Messages : k \notin Channels
  BY DEF Messages, Channels
<1>5. CASE Made
  <2>1. Ensuring /\ Add /\ Ensured(Kind, nextId, TRUE) /\ at > 0
    BY <1>5 DEF Made, Ensuring
  <2>2. /\ ids'[Kind] = nextId
        /\ \A k \in Kinds : k # Kind => ids'[k] = ids[k]
    BY <2>1, EnsuredIs
  <2>3. Home(ids', Kind) = Home(ids, Kind)
    BY <1>1, <2>2, HomeKept, KindOf, IndexOf, KindAt, OrderIs
  <2>4. /\ New(Kind) \in things' /\ New(Kind).id = nextId /\ New(Kind).kind = Kind
        /\ New(Kind).parent = IF Kind \in Channels
                              THEN IF Exists(Home(ids, Kind)) THEN Home(ids, Kind) ELSE 0
                              ELSE Home(ids, Kind)
    BY <2>1, AddSound
  <2>5. New(Kind).parent = Home(ids, Kind)
    BY <1>2, <1>3, <2>4
  <2> QED  BY <2>2, <2>3, <2>4, <2>5
<1>6. ASSUME NEW o \in things, Found(o)
      PROVE  \E t \in things' : /\ t.id = ids'[Kind] /\ t.kind = Kind
                                /\ t.parent = Home(ids', Kind)
  <2>1. Ensuring /\ Ensured(Kind, o.id, FALSE) /\ o \in Saved(Kind) \cup Namesakes(Kind)
    BY <1>6 DEF Found
  <2>2. /\ ids'[Kind] = o.id
        /\ \A k \in Kinds : k # Kind => ids'[k] = ids[k]
    BY <2>1, EnsuredIs
  <2>3. Home(ids', Kind) = Home(ids, Kind)
    BY <1>1, <2>2, HomeKept, KindOf, IndexOf, KindAt, OrderIs
  <2>4. /\ InPlace(o, Kind) \in things' /\ InPlace(o, Kind).id = o.id
        /\ InPlace(o, Kind).kind = o.kind
        /\ InPlace(o, Kind).parent = IF Kind \in Channels
                                     THEN IF Exists(Home(ids, Kind)) THEN Home(ids, Kind) ELSE 0
                                     ELSE o.parent
        /\ o.kind = Kind
    BY <1>6, FoundSound
  <2>5. CASE Kind \in Channels
    BY <1>2, <1>3, <2>2, <2>3, <2>4, <2>5
  <2>6. CASE Kind \in Messages
    <3>1. o.parent = Home(ids, Kind)
      BY <2>1, <2>6 DEF Saved, Namesakes
    <3> QED  BY <1>4, <2>2, <2>3, <2>4, <2>6, <3>1
  <2>7. CASE Kind = "role"
    <3>1. o.parent = 0 /\ Kind \notin Channels
      BY <2>4, <2>7 DEF WorldInv, Sound, Alone, Channels
    <3>2. Home(ids, Kind) = 0
      BY <1>3, <2>7 DEF Alone
    <3> QED  BY <2>2, <2>3, <2>4, <3>1, <3>2
  <2> QED  BY <1>1, <2>5, <2>6, <2>7 DEF Kinds
<1> QED  BY <1>5, <1>6 DEF GoesOn

\* What is of another kind stays where it is when something is ensured.
LEMMA OthersStay ==
    ASSUME TypeInv, WorldInv, GoesOn, NEW o \in things, o.kind # Kind
    PROVE  o \in things'
<1>1. CASE Made
  BY <1>1, AddSound DEF Made, Ensuring
<1>2. CASE \E q \in things : Found(q)
  BY <1>2, FoundSound
<1> QED  BY <1>1, <1>2 DEF GoesOn

\* The id that an ensured thing gets.
LEMMA NewIdIs ==
    ASSUME TypeInv, WorldInv, GoesOn
    PROVE  \E id, fresh :
             /\ Ensuring /\ Ensured(Kind, id, fresh)
             /\ \/ id = nextId /\ (Saved(Kind) = {} \/ Kind \in Channels)
                \/ ~fresh /\ \E o \in things : o.id = id /\ Found(o)
             /\ \A i : i < nextId => (Exists(i)' <=> Exists(i))
<1>1. CASE Made
  <2>1. Ensuring /\ Add /\ at > 0 /\ Ensured(Kind, nextId, TRUE)
    BY <1>1 DEF Made, Ensuring
  <2>2. \A i : i < nextId => (Exists(i)' <=> Exists(i))
    BY <2>1, AddSound, Numbers
  <2> QED  BY <1>1, <2>1, <2>2 DEF Made
<1>2. ASSUME NEW o \in things, Found(o)
      PROVE  /\ Ensuring /\ Ensured(Kind, o.id, FALSE)
             /\ \A i : Exists(i)' <=> Exists(i)
  BY <1>2, FoundSound DEF Found
<1> QED  BY <1>1, <1>2 DEF GoesOn

\* One more thing is ensured in an Initialize that is under way.
LEMMA UnderwayGoesOn ==
    ASSUME TypeInv, WorldInv, MemoryInv, PlaceInv, GoesOn, initialized = "running"
    PROVE  Underway'
<1>1. PICK id, fresh :
        /\ Ensuring /\ Ensured(Kind, id, fresh)
        /\ \/ id = nextId /\ (Saved(Kind) = {} \/ Kind \in Channels)
           \/ ~fresh /\ \E o \in things : o.id = id /\ Found(o)
        /\ \A i : i < nextId => (Exists(i)' <=> Exists(i))
  BY NewIdIs
<1>2. /\ at \in 1..9 /\ Kind \in Kinds /\ phase = "ensure"
      /\ ids'[Kind] = id
      /\ \A k \in Kinds : k # Kind => ids'[k] = ids[k]
      /\ at = 1 => at' = 2 /\ phase' = "ensure"
      /\ at # 1 => at' = at /\ phase' = "save"
      /\ admits' = Restricted(Kind)
      /\ secured' => secured /\ (Kind = "category" => id = ids["category"])
  BY <1>1, EnsuredIs
<1>3. /\ \A k \in Kinds : Done(k) => Placed(ids, k)
      /\ Done("text") => ids["image"] < ids["text"]
      /\ Done("category") => admits = ids["role"]
      /\ secured /\ at > 1 /\ Exists(ids["category"]) => Placed(ids, "control")
  BY DEF PlaceInv, Underway
<1>4. \A k \in Kinds : ids[k] < nextId
  BY DEF WorldInv, Named
<1>5. CASE at = 1
  <2>1. Kind = "control" /\ at' = 2 /\ phase' = "ensure"
    BY <1>2, <1>5, KindOf
  <2>2. \A k \in Kinds : ~Done(k)'
    BY <2>1, IndexOf DEF Done
  <2>3. ids'["category"] = ids["category"]
    BY <1>2, <2>1, KindsAre
  <2>4. ASSUME Exists(ids["category"])
        PROVE  \E t \in things' : /\ t.id = ids'["control"] /\ t.kind = "control"
                                  /\ t.parent = ids["category"]
    <3>1. Home(ids, Kind) = ids["category"] /\ Kind \in Channels
      BY <2>1, HomeIs DEF Channels
    <3>2. CASE Made
      <4>1. Ensuring /\ Add /\ at > 0 /\ Ensured(Kind, nextId, TRUE)
        BY <3>2 DEF Made, Ensuring
      <4>2. ids'[Kind] = nextId
        BY <4>1, EnsuredIs
      <4> QED  BY <2>1, <2>4, <3>1, <4>1, <4>2, AddSound
    <3>3. ASSUME NEW o \in things, Found(o)
          PROVE  \E t \in things' : /\ t.id = ids'["control"] /\ t.kind = "control"
                                    /\ t.parent = ids["category"]
      <4>1. ids'[Kind] = o.id
        BY <3>3, EnsuredIs DEF Found
      <4> QED  BY <2>1, <2>4, <3>1, <3>3, <4>1, FoundSound
    <3> QED  BY <3>2, <3>3 DEF GoesOn
  <2>5. Exists(ids["category"])' => Exists(ids["category"])
    BY <1>1, <1>4, <2>3, KindsAre DEF Exists
  <2>6. Exists(ids["category"])' => Placed(ids, "control")'
    <3>1. Home(ids', "control") = ids["category"]
      BY <2>3, HomeIs
    <3> QED
      BY <2>4, <2>5, <3>1 DEF Placed
  <2> QED
    BY <2>1, <2>2, <2>6, KindsAre DEF Underway
<1>6. CASE at # 1
  <2>1. at > 1 /\ at' = at /\ phase' = "save" /\ Index(Kind) = at
    BY <1>2, <1>6, KindAt, OrderIs
  <2>2. \A k \in Kinds : Done(k)' => Done(k) \/ k = Kind
    BY <1>2, <2>1, IndexOf DEF Done
  <2>3. \A k \in Kinds : Done(k) => k # Kind /\ Index(k) <= at
    BY <1>2, <2>1, IndexOf DEF Done
  <2>4. \A k \in Kinds : k # Kind /\ Index(k) <= at /\ Placed(ids, k) => Placed(ids, k)'
    BY <1>2, <2>1, OthersStay, HomeKept DEF Placed
  <2>5. \A k \in Kinds : Done(k)' => Placed(ids, k)'
    <3>1. \A k \in Kinds : k = Kind => Placed(ids, k)'
      BY <2>1, EnsuredPlaced DEF Placed
    <3> QED  BY <1>3, <2>2, <2>3, <2>4, <3>1
  <2>6. Done("text")' => ids'["image"] < ids'["text"]
    <3>1. CASE Kind = "text"
      <4>1. at = 5 /\ ids'["image"] = ids["image"] /\ ids'["text"] = id
        BY <1>2, <3>1, KindOf, KindsAre
      <4>2. Done("image")
        BY <4>1, IndexOf DEF Done
      <4>3. PICK m \in things : m.id = ids["image"] /\ m.kind = "image"
        BY <1>3, <4>2, KindsAre DEF Placed
      <4>4. CASE id = nextId
        BY <1>4, <4>1, <4>4, KindsAre
      <4>5. ASSUME NEW o \in things, o.id = id, Found(o)
            PROVE  ids["image"] < id
        <5>1. CASE o \in Saved("text")
          <6>1. o.id = ids["text"]
            BY <5>1 DEF Saved
          <6>2. ~OutOfOrder /\ Order[at] = "text"
            BY <1>1, <4>1, OrderIs DEF Ensuring
          <6>3. ids["text"] # 0 /\ ~(ids["text"] < ids["image"])
            BY <6>1, <6>2, Numbers DEF OutOfOrder
          <6>4. o.kind = "text"
            BY <3>1, <4>5 DEF Found
          <6>5. ids["text"] # ids["image"]
            BY <4>3, <6>1, <6>4 DEF WorldInv, Sound
          <6> QED
            BY <4>5, <6>1, <6>3, <6>5, Numbers, KindsAre
        <5>2. CASE o \in Namesakes("text")
          BY <4>5, <5>2, Numbers, KindsAre DEF Namesakes
        <5> QED  BY <3>1, <4>5, <5>1, <5>2 DEF Found
      <4> QED  BY <1>1, <4>1, <4>4, <4>5
    <3>2. CASE Kind # "text"
      <4> SUFFICES ASSUME Done("text")' PROVE ids'["image"] < ids'["text"]
        OBVIOUS
      <4>1. Done("text")
        BY <2>2, <3>2, KindsAre
      <4>2. Kind # "image"
        BY <4>1, <2>1, IndexOf DEF Done
      <4> QED  BY <1>2, <1>3, <3>2, <4>1, <4>2, KindsAre
    <3> QED  BY <3>1, <3>2
  <2>7. Done("category")' => admits' = ids'["role"]
    <3> SUFFICES ASSUME Done("category")' PROVE admits' = ids'["role"]
      OBVIOUS
    <3>1. Kind # "role"
      BY <2>1, IndexOf DEF Done
    <3>2. ids'["role"] = ids["role"]
      BY <1>2, <3>1, KindsAre
    <3>3. CASE Kind = "category"
      BY <1>2, <3>2, <3>3 DEF Restricted
    <3>4. CASE Kind # "category"
      BY <1>2, <1>3, <2>2, <3>2, <3>4, KindsAre DEF Restricted
    <3> QED  BY <3>3, <3>4
  <2>8. secured' /\ Exists(ids["category"])' => Placed(ids, "control")'
    <3> SUFFICES ASSUME secured', Exists(ids["category"])'
                 PROVE  Placed(ids, "control")'
      OBVIOUS
    <3>1. secured
      BY <1>2
    <3>2. Kind # "control"
      <4>1. Kind = "control" => Order[at] = "control"
        BY <1>2, <1>6, KindOf, OrderIs
      <4> QED  BY <1>1, <3>1, <4>1 DEF Ensuring, Stays
    <3>3. ids'["category"] = ids["category"]
      BY <1>2, KindsAre
    <3>4. Exists(ids["category"])
      BY <1>1, <1>4, <3>3, KindsAre DEF Exists
    <3>5. PICK c \in things : /\ c.id = ids["control"] /\ c.kind = "control"
                              /\ c.parent = Home(ids, "control")
      BY <1>3, <2>1, <3>1, <3>4 DEF Placed
    <3>6. c \in things'
      BY <3>2, <3>5, OthersStay
    <3>7. ids'["control"] = ids["control"] /\ Home(ids', "control") = Home(ids, "control")
      BY <1>2, <3>2, <3>3, HomeIs, KindsAre
    <3> QED  BY <3>5, <3>6, <3>7 DEF Placed
  <2>9. at' > 0
    BY <1>2, <2>1
  <2> QED
    BY <2>5, <2>6, <2>7, <2>8, <2>9 DEF Underway
<1> QED  BY <1>2, <1>5, <1>6

\* After an Initialize the panel is found where it is.
LEMMA InstalledGoesOn ==
    ASSUME TypeInv, TypeInv', WorldInv, PlaceInv, GoesOn, initialized = "done"
    PROVE  Installed'
<1>1. /\ \A k \in Kinds : Placed(row, k)
      /\ row["image"] < row["text"] /\ admits = row["role"]
      /\ ids = row /\ at \in {0, 9}
  BY DEF PlaceInv, Installed
<1>2. Ensuring
  BY DEF GoesOn, Made, Found
<1>3. at = 9 /\ Kind = "panel"
  BY <1>1, <1>2, KindOf DEF Ensuring
<1>4. "panel" \notin Channels /\ "panel" \in Messages
  BY DEF Channels, Messages
<1>5. Saved("panel") # {}
  BY <1>1, KindsAre DEF Placed, Saved
<1>6. PICK o \in things : Found(o)
  BY <1>3, <1>4, <1>5 DEF GoesOn, Made
<1>7. o.id = ids["panel"]
  BY <1>3, <1>4, <1>5, <1>6 DEF Found, Saved, Namesakes
<1>8. Ensured(Kind, o.id, FALSE)
  BY <1>6 DEF Found
<1>9. /\ at' = 9
      /\ admits' = Restricted(Kind) /\ ids'[Kind] = o.id
      /\ \A k \in Kinds : k # Kind => ids'[k] = ids[k]
  <2>1. /\ at # 1 => at' = at
        /\ admits' = Restricted(Kind) /\ ids'[Kind] = o.id
        /\ \A k \in Kinds : k # Kind => ids'[k] = ids[k]
    BY <1>2, <1>8, EnsuredIs
  <2> QED  BY <1>3, <2>1
<1>10. ~created'
  BY <1>2, <1>3, <1>8, EnsuredIs
<1>11. ids' = ids
  <2>1. \A k \in Kinds : ids'[k] = ids[k]
    BY <1>3, <1>7, <1>9
  <2> QED  BY <2>1 DEF TypeInv, TypeOK
<1>12. row' = row
  BY DEF GoesOn
<1>13. admits' = admits
  BY <1>3, <1>9 DEF Restricted
<1>14. \A k \in Kinds : Placed(row, k)'
  <2> SUFFICES ASSUME NEW k \in Kinds PROVE Placed(row, k)'
    OBVIOUS
  <2>1. PICK t \in things : t.id = row[k] /\ t.kind = k /\ t.parent = Home(row, k)
    BY <1>1 DEF Placed
  <2>2. CASE t = o
    BY <1>3, <1>4, <1>6, <1>12, <2>1, <2>2, FoundSound DEF Placed
  <2>3. CASE t # o
    BY <1>6, <1>12, <2>1, <2>3, FoundSound DEF Placed
  <2> QED  BY <2>2, <2>3
<1> QED
  BY <1>1, <1>9, <1>10, <1>11, <1>12, <1>13, <1>14 DEF Installed

\* Nothing is in a text: deleting one takes nothing else with it.
LEMMA TextAlone ==
    ASSUME TypeInv, WorldInv, DeleteOldText, NEW o \in things, o.id # ids["text"]
    PROVE  o \in things'
<1>1. CASE Saved("text") = {}
  BY <1>1 DEF DeleteOldText
<1>2. CASE Saved("text") # {}
  <2>1. PICK q \in things : q.id = ids["text"]
    BY <1>2 DEF Saved
  <2>2. q.kind = "text" /\ q.id # 0
    BY <2>1, Numbers, KindsAre DEF WorldInv, Named
  <2>3. o.parent # q.id
    <3> SUFFICES ASSUME o.parent = q.id PROVE FALSE
      OBVIOUS
    <3>1. PICK c \in things : c.id = o.parent /\ c.kind = Container(o.kind)
      BY <2>2 DEF WorldInv, Sound
    <3>2. c = q
      BY <3>1 DEF WorldInv, Sound
    <3>3. Container(o.kind) = "text"
      BY <2>2, <3>1, <3>2
    <3> QED  BY <3>3, Contains, Numbers DEF ThingSet, Channels
  <2>4. things' = Without(ids["text"]) /\ nextId' = nextId
    BY <1>2 DEF DeleteOldText
  <2> QED  BY <2>1, <2>3, <2>4, WithoutSound
<1> QED  BY <1>1, <1>2

LEMMA PlaceInit == Init => PlaceInv
<1>1. Init => initialized = "broken"
  BY DEF Init
<1> QED  BY <1>1 DEF PlaceInv, Underway, Installed

LEMMA PlaceStep ==
    /\ TypeInv /\ TypeInv' /\ WorldInv /\ WorldInv' /\ MemoryInv
    /\ PlaceInv /\ [Next]_vars
    => PlaceInv'
<1> SUFFICES ASSUME TypeInv, TypeInv', WorldInv, WorldInv', MemoryInv, PlaceInv, [Next]_vars
             PROVE  PlaceInv'
  OBVIOUS
<1> USE DEF discord, operation, observed, bounds
<1>1. CASE BeginInitialize
  <2>1. /\ initialized' = "running" /\ at = 0 /\ at' \in {1, 2}
        /\ UNCHANGED <<things, row, phase, ids>>
    BY <1>1 DEF BeginInitialize
  <2>2. phase' = "ensure"
    BY <2>1 DEF TypeInv, TypeOK
  <2>3. at' > 1 => ~secured'
    <3>1. secured' = (at' = 1)
      BY <1>1 DEF BeginInitialize
    <3>2. at' > 1 => at' # 1
      BY <2>1
    <3> QED  BY <3>1, <3>2
  <2>4. \A k \in Kinds : ~Done(k)'
    BY <2>1, <2>2, IndexOf DEF Done
  <2> QED
    BY <2>1, <2>3, <2>4, KindsAre DEF PlaceInv, Underway, Installed
<1>2. CASE BeginRefreshPanel
  <2>1. /\ at = 0 /\ at' = 9
        /\ UNCHANGED <<things, row, ids, created, admits, initialized>>
    BY <1>2, OrderIs DEF BeginRefreshPanel
  <2> QED
    BY <2>1 DEF PlaceInv, Underway, Installed, Placed
<1>3. CASE JoinAlerts
  <2>1. /\ at = 0
        /\ UNCHANGED <<things, row, at, ids, created, admits, initialized>>
    BY <1>3 DEF JoinAlerts
  <2> QED
    BY <2>1 DEF PlaceInv, Underway, Installed, Placed
<1>4. CASE GoesOn
  <2>1. initialized' = initialized
    BY <1>4 DEF GoesOn
  <2> QED
    BY <1>4, <2>1, UnderwayGoesOn, InstalledGoesOn DEF PlaceInv, Underway, Installed
<1>5. CASE KeepControl
  <2>1. /\ phase' = "save"
        /\ UNCHANGED <<things, row, at, ids, secured, admits, initialized>>
    BY <1>5 DEF KeepControl
  <2>2. at = 7 /\ secured
    BY <1>5, KindAt, OrderIs DEF KeepControl, Stays, TypeInv, TypeOK
  <2>3. \A k \in Kinds : Done(k)' => Done(k) \/ k = "control"
    BY <2>1, <2>2, IndexOf, KindsAre DEF Done
  <2>4. Done("category")
    BY <2>2, IndexOf DEF Done
  <2>5. initialized = "running" => Placed(ids, "control")
    BY <2>2, <2>4, KindsAre DEF PlaceInv, Underway, Placed, Exists
  <2>6. Underway'
    BY <2>1, <2>2, <2>3, <2>5, KindsAre DEF PlaceInv, Underway, Placed, Exists
  <2>7. Installed'
    BY <2>1, <2>2 DEF PlaceInv, Installed
  <2> QED  BY <2>6, <2>7 DEF PlaceInv
<1>6. CASE DeleteOldText
  <2>1. /\ at = 5 /\ phase = "ensure" /\ ids["text"] # 0
        /\ ids'["text"] = 0
        /\ \A k \in Kinds : k # "text" => ids'[k] = ids[k]
        /\ UNCHANGED <<admits, row, at, phase, secured, initialized>>
    BY <1>6, DeleteOldTextIs
  <2>2. \A o \in things : o.kind # "text" => o \in things'
    BY <1>6, TextAlone, KindsAre DEF WorldInv, Named
  <2>3. \A k \in Kinds : k # "text" /\ Placed(ids, k) => Placed(ids, k)'
    <3>1. \A k \in Kinds : Home(ids', k) = Home(ids, k)
      BY <2>1, HomeIs, Contains, KindsAre
    <3> QED  BY <2>1, <2>2, <3>1 DEF Placed
  <2>4. \A k \in Kinds : (Done(k)' <=> Done(k)) /\ (Done(k) => k # "text" /\ k # "category")
    BY <2>1, IndexOf DEF Done
  <2>5. Exists(ids["category"])' => Exists(ids["category"])
    <3>1. things' \subseteq things \/ things' = Without(ids["text"])
      BY <1>6 DEF DeleteOldText
    <3>2. ids'["category"] = ids["category"]
      BY <2>1, KindsAre
    <3>3. \A t \in things' : \E o \in things : t.id = o.id
      BY <1>6, <3>1, WithoutSound DEF DeleteOldText
    <3> QED  BY <3>2, <3>3 DEF Exists
  <2>6. Underway'
    BY <2>1, <2>3, <2>4, <2>5, KindsAre DEF PlaceInv, Underway
  <2>7. Installed'
    BY <2>1 DEF PlaceInv, Installed
  <2> QED  BY <2>6, <2>7 DEF PlaceInv
<1>7. CASE Save
  <2>1. /\ at \in 2..9 /\ phase = "save"
        /\ at' = IF at = 9 THEN 0 ELSE at + 1
        /\ phase' = "ensure"
        /\ row' = ids /\ ids' = ids
        /\ UNCHANGED <<things, admits>>
    BY <1>7, SaveIs
  <2>2. ~created' /\ (at # 9 => secured' = secured)
    BY <1>7, SaveIs
  <2>3. CASE at # 9
    <3>1. initialized' = initialized
      BY <1>7, <2>3, SaveIs
    <3>2. \A k \in Kinds : Done(k)' <=> Done(k)
      BY <2>1, <2>3, IndexOf DEF Done
    <3>3. initialized # "done"
      BY <2>1, <2>3 DEF PlaceInv, Installed
    <3> QED
      BY <2>1, <2>2, <2>3, <3>1, <3>2, <3>3, KindsAre
      DEF PlaceInv, Underway, Installed, Placed, Exists
  <2>4. CASE at = 9
    <3>1. initialized' = IF initialized = "running" THEN "done" ELSE initialized
      BY <1>7, <2>4, SaveIs
    <3>2. CASE initialized = "running"
      <4>1. \A k \in Kinds : Done(k)
        BY <2>1, <2>4, IndexOf DEF Done
      <4>2. /\ \A k \in Kinds : Placed(ids, k)
            /\ ids["image"] < ids["text"] /\ admits = ids["role"]
        BY <3>2, <4>1, KindsAre DEF PlaceInv, Underway
      <4> QED
        BY <2>1, <2>2, <2>4, <3>1, <3>2, <4>2 DEF PlaceInv, Underway, Installed, Placed
    <3>3. CASE initialized # "running"
      BY <2>1, <2>2, <2>4, <3>1, <3>3 DEF PlaceInv, Underway, Installed, Placed
    <3> QED  BY <3>2, <3>3
  <2> QED  BY <2>3, <2>4
<1>8. CASE Fails
  <2>1. /\ at' = 0 /\ row' = row /\ ids' = row
        /\ initialized' = IF initialized = "running" THEN "broken" ELSE initialized
    BY <1>8, FailsIs
  <2>2. ~created'
    BY <1>8, FailsIs
  <2>3. initialized' # "running"
    BY <2>1
  <2>4. CASE initialized = "done"
    <3>1. /\ \A k \in Kinds : Placed(row, k)
          /\ ids = row /\ at \in {0, 9}
          /\ ~created
      BY <2>4 DEF PlaceInv, Installed
    <3>2. ~(Ensuring /\ Saved(Kind) \cup Namesakes(Kind) = {})
      <4> SUFFICES ASSUME Ensuring PROVE Saved(Kind) # {}
        OBVIOUS
      <4>1. Kind = "panel"
        BY <3>1, KindOf DEF Ensuring
      <4> QED
        BY <3>1, <4>1, KindsAre DEF Placed, Saved
    <3>3. UNCHANGED <<things, admits>>
      BY <1>8, <3>1, <3>2 DEF Fails
    <3> QED
      BY <2>1, <2>2, <2>3, <2>4, <3>3 DEF PlaceInv, Underway, Installed, Placed
  <2>5. CASE initialized # "done"
    BY <2>1, <2>3, <2>5 DEF PlaceInv, Underway, Installed
  <2> QED  BY <2>4, <2>5
<1>9. CASE \E o \in things : Delete(o)
  BY <1>9 DEF Delete, PlaceInv, Underway, Installed
<1>10. CASE ChangeRoles \/ UNCHANGED vars
  <2>1. UNCHANGED <<things, row, at, phase, ids, created, secured, admits, initialized>>
    BY <1>10 DEF ChangeRoles, vars
  <2> QED
    BY <2>1 DEF PlaceInv, Underway, Installed, Placed, Exists, Done
<1> QED
  BY <1>1, <1>2, <1>3, <1>4, <1>5, <1>6, <1>7, <1>8, <1>9, <1>10, Steps

LEMMA PlaceInvariance == Spec => [](TypeInv /\ WorldInv /\ MemoryInv /\ PlaceInv)
<1>1. Init => PlaceInv
  BY PlaceInit
<1>2. /\ TypeInv /\ TypeInv' /\ WorldInv /\ WorldInv' /\ MemoryInv
      /\ PlaceInv /\ [Next]_vars
      => PlaceInv'
  BY PlaceStep
<1> QED  BY <1>1, <1>2, MemoryInvariance, PTL DEF Spec

\* After an Initialize that succeeded everything is in its place with its id
\* saved, whatever was there before: what was ensured stays ensured until the
\* end, for only what comes later in Order moves or is forgotten.
THEOREM InstallationsAreConsistent == Spec => []InstalledConsistent
<1>1. TypeInv /\ PlaceInv => InstalledConsistent
  <2> SUFFICES ASSUME TypeInv, PlaceInv, initialized = "done"
               PROVE  /\ \A k \in Kinds : Thing(row[k], k, Home(row, k)) \in things
                      /\ row["image"] < row["text"]
    BY DEF InstalledConsistent
  <2> QED
    BY Numbers, ThingIs DEF PlaceInv, Installed, Placed
<1> QED  BY <1>1, PlaceInvariance, PTL

\* The members who joined are let in by every Initialize that succeeds: nothing
\* but deleting it, or passing it over as unsafe, takes a role that somebody has
\* out of the ids.
THEOREM MembersAreNotLockedOut == Spec => []MembersStayIn
<1>1. MemoryInv /\ PlaceInv => MembersStayIn
  BY DEF MemoryInv, Members, PlaceInv, Installed, MembersStayIn
<1> QED  BY <1>1, PlaceInvariance, PTL

-----------------------------------------------------------------------------
(* Twins.                                                                  *)

\* There is none of that kind but the one that is known, and saved unless it
\* was just made, and roles that were passed over.
Own(k) ==
    \A o \in things :
        o.kind = k => \/ k = "role" /\ o.id \in passedOver
                      \/ o.id = ids[k] /\ (o.id = row[k] \/ (created /\ Kind = k))

\* There is at most one in a category, and while the one that is known or saved
\* exists, it is no other.
OneIn(k) ==
    /\ \A o, q \in things :
         o.kind = k /\ q.kind = k /\ o.parent # 0 /\ q.parent # 0 => o.id = q.id
    /\ Exists(ids[k]) => \A o \in things : o.kind = k /\ o.parent # 0 => o.id = ids[k]
    /\ Exists(row[k]) => \A o \in things : o.kind = k /\ o.parent # 0 => o.id = row[k]

PanelsIn ==
    \A o \in things : o.kind = "panel" => o.parent = row["control"] /\ o.parent = ids["control"]

OneImage ==
    \A o, q \in things :
        o.kind = "image" /\ q.kind = "image" /\ o.parent = q.parent => o.id = q.id

TwinInv ==
    /\ \A k \in Alone : k \notin lost => Own(k)
    /\ "text" \notin lost /\ "guide" \notin lost => Own("text")
    /\ OneImage
    /\ \A k \in {"control", "target"} : k \notin missed /\ "category" \notin lost => OneIn(k)
    /\ "control" \notin missed /\ "category" \notin lost => PanelsIn
    /\ "control" \notin missed /\ "category" \notin lost /\ "panel" \notin lost => Own("panel")

\* The channels that are in a category are in the one the operation knows.
LEMMA InCategory ==
    ASSUME TypeInv, WorldInv, Own("category"), NEW o \in things,
           o.kind \in {"control", "target"}, o.parent # 0
    PROVE  o.parent = ids["category"] /\ o \in Namesakes(o.kind)
<1>1. PICK c \in things : c.id = o.parent /\ c.kind = "category"
  BY Contains DEF WorldInv, Sound
<1>2. o.parent = ids["category"]
  BY <1>1 DEF Own
<1>3. o.parent = Home(ids, o.kind)
  BY <1>2, HomeIs
<1>4. o \in Namesakes(o.kind)
  BY <1>3 DEF Namesakes
<1> QED  BY <1>2, <1>4

\* The messages of a guide that has no twin are in the one the operation knows.
LEMMA InGuide ==
    ASSUME TypeInv, WorldInv, Own("guide"), NEW o \in things, o.kind = "text"
    PROVE  o.parent = Home(ids, "text")
<1>1. o.parent # 0
  BY DEF WorldInv, Sound, Messages
<1>2. PICK c \in things : c.id = o.parent /\ c.kind = "guide"
  BY <1>1, Contains DEF WorldInv, Sound
<1> QED  BY <1>2, HomeIs DEF Own

\* The next state has nothing else than before, and nothing in another place.
Shrunk ==
    \A t \in things' : \E o \in things :
        /\ t.id = o.id /\ t.kind = o.kind
        /\ t = o \/ (t.parent = 0 /\ t.kind \notin Messages)

LEMMA ShrunkKeeps ==
    ASSUME TypeInv, WorldInv, Shrunk
    PROVE  /\ OneImage => OneImage'
           /\ \A i : Exists(i)' => Exists(i)
           /\ \A t \in things' : t.kind \in Messages \/ t.parent # 0 => t \in things
<1>1. \A t \in things' : t.kind \in Messages \/ t.parent # 0 => t \in things
  BY DEF Shrunk
<1>2. \A i : Exists(i)' => Exists(i)
  BY DEF Shrunk, Exists
<1>3. OneImage => OneImage'
  BY <1>1 DEF OneImage, Messages
<1> QED  BY <1>1, <1>2, <1>3

\* When something goes and the ids stay, nothing gets a twin.
LEMMA ShrunkSame ==
    ASSUME TypeInv, WorldInv, Shrunk,
           UNCHANGED <<ids, row, created, lost, missed, passedOver>>,
           created => Kind' = Kind, TwinInv
    PROVE  TwinInv'
<1>1. \A k : Own(k) => Own(k)'
  BY DEF Shrunk, Own
<1>2. \A k : OneIn(k) => OneIn(k)'
  <2>1. \A t \in things' : t.parent # 0 => t \in things
    BY ShrunkKeeps
  <2>2. \A k : (Exists(ids[k])' => Exists(ids[k])) /\ (Exists(row[k])' => Exists(row[k]))
    BY DEF Shrunk, Exists
  <2> QED  BY <2>1, <2>2 DEF OneIn
<1>3. PanelsIn => PanelsIn'
  BY ShrunkKeeps DEF PanelsIn, Messages
<1> QED
  BY <1>1, <1>2, <1>3, ShrunkKeeps DEF TwinInv

\* When the operation forgets its ids and what it made is gone or lost, nothing
\* has a twin that is not known to have been lost.
LEMMA ShrunkForgets ==
    ASSUME TypeInv, WorldInv, Shrunk, UNCHANGED <<row, missed, passedOver>>, ids' = row,
           lost \subseteq lost',
           \A k \in Kinds, t \in things' :
              k \notin lost' /\ created /\ Kind = k /\ t.kind = k => t.id # ids[k],
           TwinInv
    PROVE  TwinInv'
<1>1. \A k \in Kinds : k \notin lost' /\ Own(k) => Own(k)'
  BY DEF Shrunk, Own
<1>2. \A k : OneIn(k) => OneIn(k)'
  <2>1. \A t \in things' : t.parent # 0 => t \in things
    BY ShrunkKeeps
  <2>2. \A k : Exists(row[k])' => Exists(row[k])
    BY DEF Shrunk, Exists
  <2>3. \A k : Exists(ids[k])' => Exists(row[k])
    BY DEF Shrunk, Exists
  <2> QED  BY <2>1, <2>2, <2>3 DEF OneIn
<1>3. PanelsIn => PanelsIn'
  BY ShrunkKeeps DEF PanelsIn, Messages
<1>4. \A k \in Alone : k \in Kinds
  BY KindsAre DEF Alone
<1> QED
  BY <1>1, <1>2, <1>3, <1>4, KindsAre, ShrunkKeeps DEF TwinInv

LEMMA SaveTwins ==
    ASSUME TypeInv, UNCHANGED <<things, lost, missed>>, row' = ids, ids' = ids,
           passedOver' = IF Kind = "role" THEN passedOver \ {ids["role"]} ELSE passedOver,
           TwinInv
    PROVE  TwinInv'
<1>1. \A k : Own(k) => Own(k)'
  BY DEF Own
<1>2. \A k : OneIn(k) => OneIn(k)'
  BY DEF OneIn, Exists
<1>3. (PanelsIn => PanelsIn') /\ (OneImage => OneImage')
  BY DEF PanelsIn, OneImage
<1> QED
  BY <1>1, <1>2, <1>3 DEF TwinInv

\* Making or finding something of one kind does not touch the others.
LEMMA OthersSame ==
    ASSUME TypeInv, WorldInv, at > 0,
           \/ Add
           \/ \E o \in things : Found(o)
    PROVE  /\ \A t \in things' : t.kind # Kind => t \in things
           /\ \A i : i < nextId => (Exists(i)' <=> Exists(i))
           /\ Kind # "image" /\ OneImage => OneImage'
<1>1. CASE Add
  <2>1. \A t \in things' : t.kind # Kind => t \in things
    BY <1>1, AddSound
  <2>2. \A i : i < nextId => (Exists(i)' <=> Exists(i))
    BY <1>1, AddSound, Numbers
  <2> QED  BY <2>1, <2>2 DEF OneImage
<1>2. CASE \E o \in things : Found(o)
  <2>1. \A t \in things' : t.kind # Kind => t \in things
    BY <1>2, FoundSound
  <2>2. \A i : Exists(i)' <=> Exists(i)
    BY <1>2, FoundSound
  <2> QED  BY <2>1, <2>2 DEF OneImage
<1> QED  BY <1>1, <1>2

\* A new image is the only one in its channel.
LEMMA NewImage ==
    ASSUME TypeInv, WorldInv, OneImage, at > 0, Kind = "image", Add, Namesakes(Kind) = {}
    PROVE  OneImage'
<1>1. \A o \in things : o.kind = "image" => o.parent # Home(ids, "image")
  BY DEF Namesakes
<1>2. /\ \A t \in things' : t \in things \/ t = New(Kind)
      /\ New(Kind).parent = Home(ids, "image")
  <2>1. "image" \notin Channels
    BY DEF Channels
  <2> QED  BY <2>1, AddSound
<1> QED
  BY <1>1, <1>2 DEF OneImage

\* An image that is found stays where it is.
LEMMA FoundImage ==
    ASSUME TypeInv, WorldInv, OneImage, Kind = "image", NEW o \in things, Found(o)
    PROVE  OneImage'
<1>1. "image" \notin Channels
  BY DEF Channels
<1>2. \A t \in things' : \E q \in things : t.id = q.id /\ t.kind = q.kind /\
                                           (t.kind = "image" => t.parent = q.parent)
  BY <1>1, FoundSound
<1> QED  BY <1>2 DEF OneImage

\* No channel is in the category where one has to be made for it.
LEMMA NoneInCategory ==
    ASSUME TypeInv, WorldInv, MemoryInv, Own("category"), at > 0, phase = "ensure",
           Kind \in {"control", "target"}
    PROVE  /\ ids[Kind] = row[Kind]
           /\ ids["category"] # 0
           /\ Namesakes(Kind) = {} => \A o \in things : o.kind = Kind => o.parent = 0
           /\ Saved(Kind) = {} <=> ~Exists(ids[Kind])
<1>1. at \in {1, 7, 8} /\ Kind \in Kinds
  BY KindOf, KindsAre
<1>2. ids[Kind] = row[Kind] /\ ids["category"] = row["category"]
  BY <1>1, KindsAre DEF MemoryInv, MemoryAhead
<1>3. ids["category"] # 0
  BY <1>1, <1>2 DEF MemoryInv, Progress
<1>4. Namesakes(Kind) = {} => \A o \in things : o.kind = Kind => o.parent = 0
  BY InCategory
<1>5. Saved(Kind) = {} <=> ~Exists(ids[Kind])
  BY DEF Saved, Exists, Messages
<1> QED  BY <1>2, <1>3, <1>4, <1>5

\* Making what one has none of keeps it the only one.
LEMMA OwnKept ==
    ASSUME TypeInv, WorldInv, MemoryInv, GoesOn, Own(Kind),
           Kind \notin {"role", "image", "control", "target"},
           \A o \in things : o.kind = Kind => o.parent = Home(ids, Kind)
    PROVE  \A t \in things' : t.kind = Kind => /\ t.id = ids'[Kind]
                                               /\ t.id = row'[Kind] \/ created'
<1>1. Ensuring /\ at > 0 /\ phase = "ensure" /\ at \in 1..9 /\ Kind \in Kinds
  BY KindIs DEF GoesOn, Made, Found, Ensuring
<1>2. ~created /\ at # 1
  BY <1>1, KindOf DEF TypeInv
<1>3. row' = row
  BY DEF GoesOn
<1>4. \A o \in things : o.kind = Kind => /\ o.id = ids[Kind] /\ o.id = row[Kind]
                                         /\ o \in Saved(Kind)
  BY <1>2 DEF Own, Saved
<1>5. CASE Made
  <2>1. Add /\ Ensured(Kind, nextId, TRUE)
    BY <1>5 DEF Made
  <2>2. ids'[Kind] = nextId
    BY <1>1, <2>1, EnsuredIs
  <2>3. created'
    <3>1. created' = TRUE
      BY <1>1, <1>2, <2>1, EnsuredIs
    <3> QED  BY <3>1
  <2>4. Saved(Kind) = {}
    <3> SUFFICES ASSUME NEW o \in Saved(Kind) PROVE FALSE
      OBVIOUS
    <3>1. o \in things /\ o.kind = Kind /\ o.parent = Home(ids, Kind) /\ ids[Kind] # 0
      BY <1>1, <1>4, Candidates, Numbers
    <3>2. Kind \in Channels /\ Namesakes(Kind) = {}
      BY <1>5 DEF Made
    <3>3. o \in Namesakes(Kind)
      BY <3>1, <3>2 DEF Namesakes, Channels
    <3> QED  BY <3>2, <3>3
  <2>5. \A t \in things : t.kind # Kind
    BY <1>4, <2>4
  <2> QED
    BY <1>1, <2>1, <2>2, <2>3, <2>5, AddSound
<1>6. ASSUME NEW o \in things, Found(o)
      PROVE  \A t \in things' : t.kind = Kind => t.id = ids'[Kind] /\ t.id = row'[Kind]
  <2>1. ids'[Kind] = o.id
    BY <1>1, <1>6, EnsuredIs DEF Found
  <2>2. o.id = ids[Kind] /\ o.id = row[Kind]
    BY <1>4, <1>6 DEF Found
  <2> QED
    BY <1>3, <1>4, <1>6, <2>1, <2>2, FoundSound
<1> QED  BY <1>5, <1>6 DEF GoesOn

\* A role is made or taken up only when the known one is not safe or gone.
LEMMA RoleKept ==
    ASSUME TypeInv, WorldInv, GoesOn, Own("role"), Kind = "role"
    PROVE  Own("role")'
<1>1. Ensuring /\ at > 0 /\ at # 1 /\ phase = "ensure" /\ ~created
  BY KindIs, KindOf DEF GoesOn, Made, Found, Ensuring, TypeInv
<1>2. row' = row /\ Kind' = Kind
  <2>1. \E id, fresh : Ensured(Kind, id, fresh)
    BY DEF GoesOn, Made, Found
  <2> QED  BY <1>1, <2>1, EnsuredIs, KindSame DEF GoesOn
<1>3. \A o \in things : o.kind = "role" =>
        o.id \in passedOver \/ (o.id = ids["role"] /\ o.id = row["role"])
  BY <1>1 DEF Own
<1>4. \A o \in things : o.kind = "role" /\ o.id = ids["role"] /\ o.id \notin unsafe
        => o \in Saved(Kind)
  BY DEF Saved, Messages
<1>5. Kind \notin Channels
  BY DEF Channels
<1>6. CASE Made
  <2>1. Add /\ Ensured(Kind, nextId, TRUE) /\ Saved(Kind) = {}
    BY <1>5, <1>6 DEF Made
  <2>2. /\ ids'["role"] = nextId /\ created' = TRUE
        /\ passedOver' = PassedOver(Kind, nextId) /\ passedOver \subseteq passedOver'
    BY <1>1, <2>1, EnsuredIs
  <2>3. ASSUME NEW t \in things, t.kind = "role"
        PROVE  t.id \in passedOver'
    <3>1. CASE t.id \in passedOver
      BY <2>2, <3>1
    <3>2. CASE t.id = ids["role"]
      <4>1. t.id \in unsafe /\ t.id # nextId
        BY <1>4, <2>1, <2>3, <3>2, Numbers DEF WorldInv, Sound
      <4> QED  BY <2>2, <3>2, <4>1 DEF PassedOver
    <3> QED  BY <1>3, <2>3, <3>1, <3>2
  <2>4. \A t \in things' : t \in things \/ t.id = nextId
    BY <1>1, <2>1, AddSound
  <2> QED  BY <1>2, <2>2, <2>3, <2>4 DEF Own
<1>7. ASSUME NEW o \in things, Found(o)
      PROVE  Own("role")'
  <2>1. Ensured(Kind, o.id, FALSE) /\ o.kind = "role" /\ o.id \notin unsafe
    BY <1>7 DEF Found, Saved, Namesakes
  <2>2. /\ ids'["role"] = o.id
        /\ passedOver' = PassedOver(Kind, o.id) /\ passedOver \subseteq passedOver'
    BY <1>1, <2>1, EnsuredIs
  <2>3. ASSUME NEW t \in things, t.kind = "role"
        PROVE  t.id \in passedOver' \/ (t.id = o.id /\ t.id = row["role"])
    <3>1. CASE t.id \in passedOver
      BY <2>2, <3>1
    <3>2. CASE t.id = ids["role"] /\ t.id = row["role"]
      <4>1. CASE t.id \in unsafe
        BY <2>1, <2>2, <3>2, <4>1 DEF PassedOver
      <4>2. CASE t.id \notin unsafe
        <5>1. t \in Saved(Kind)
          BY <1>4, <2>3, <3>2, <4>2
        <5>2. o.id = ids["role"]
          BY <1>5, <1>7, <5>1 DEF Found, Saved
        <5> QED  BY <3>2, <5>2
      <4> QED  BY <4>1, <4>2
    <3> QED  BY <1>3, <2>3, <3>1, <3>2
  <2>4. \A t \in things' : \E q \in things : t.id = q.id /\ t.kind = q.kind
    BY <1>7, FoundSound
  <2> QED  BY <1>2, <2>2, <2>3, <2>4 DEF Own
<1> QED  BY <1>6, <1>7 DEF GoesOn

\* Of a kind that is not ensured nothing changes.
LEMMA OwnSame ==
    ASSUME TypeInv, WorldInv, GoesOn, NEW k \in Kinds, k # Kind, Own(k)
    PROVE  Own(k)'
<1>1. Ensuring /\ at > 0 /\ ~created
  BY DEF GoesOn, Made, Found, Ensuring, TypeInv
<1>2. \A t \in things' : t.kind # Kind => t \in things
  BY <1>1, OthersSame DEF GoesOn, Made
<1>3. ids'[k] = ids[k] /\ row' = row /\ passedOver \subseteq passedOver'
  <2>1. \E id, fresh : Ensured(Kind, id, fresh)
    BY DEF GoesOn, Made, Found
  <2> QED  BY <1>1, <2>1, EnsuredIs DEF GoesOn
<1> QED
  BY <1>1, <1>2, <1>3 DEF Own

\* The one of a kind in the category is found again.
LEMMA OneInFound ==
    ASSUME TypeInv, WorldInv, MemoryInv, Own("category"), Ensuring, OneIn(Kind),
           Kind \in {"control", "target"}, NEW o \in things, Found(o)
    PROVE  /\ \A q \in things : q.kind = Kind /\ q.parent # 0 => q.id = o.id
           /\ Exists(ids[Kind]) => o.id = ids[Kind]
<1>1. /\ ids[Kind] = row[Kind] /\ ids["category"] # 0
      /\ Saved(Kind) = {} <=> ~Exists(ids[Kind])
  BY NoneInCategory DEF Ensuring
<1>2. o.kind = Kind
  BY DEF Found
<1>3. CASE o \in Saved(Kind)
  <2>1. o.id = ids[Kind] /\ Exists(ids[Kind])
    BY <1>3 DEF Saved, Exists
  <2> QED  BY <2>1 DEF OneIn
<1>4. CASE o \in Namesakes(Kind)
  <2>1. o.parent # 0
    BY <1>1, <1>4, HomeIs DEF Namesakes
  <2> QED  BY <1>2, <2>1 DEF OneIn
<1> QED  BY <1>3, <1>4 DEF Found

LEMMA OneInKept ==
    ASSUME TypeInv, WorldInv, MemoryInv, GoesOn, Own("category"), NEW k \in {"control", "target"},
           k \notin missed', OneIn(k)
    PROVE  OneIn(k)'
<1>1. Ensuring /\ at > 0 /\ phase = "ensure"
  BY DEF GoesOn, Made, Found, Ensuring
<1>2. k \in Kinds /\ row' = row
  BY KindsAre DEF GoesOn
<1>3. \A i : i < nextId => (Exists(i)' <=> Exists(i))
  BY <1>1, OthersSame DEF GoesOn, Made
<1>4. ids[k] < nextId /\ row[k] < nextId
  BY <1>2 DEF WorldInv, Named
<1>5. CASE k # Kind
  <2>1. \A t \in things' : t.kind = k => t \in things
    BY <1>1, <1>5, OthersSame DEF GoesOn, Made
  <2>2. ids'[k] = ids[k]
    <3>1. \E id, fresh : Ensured(Kind, id, fresh)
      BY DEF GoesOn, Made, Found
    <3> QED  BY <1>1, <1>2, <1>5, <3>1, EnsuredIs
  <2>3. (Exists(ids[k])' => Exists(ids[k])) /\ (Exists(row[k])' => Exists(row[k]))
    BY <1>2, <1>3, <1>4, <2>2 DEF Exists
  <2> QED  BY <1>2, <2>1, <2>2, <2>3 DEF OneIn
<1>6. CASE k = Kind
  <2>1. /\ ids[k] = row[k]
        /\ Namesakes(k) = {} => \A o \in things : o.kind = k => o.parent = 0
        /\ Saved(k) = {} <=> ~Exists(ids[k])
    BY <1>1, <1>6, NoneInCategory
  <2>2. CASE Made
    <3>1. Add /\ Ensured(Kind, nextId, TRUE) /\ Saved(k) = {} /\ Namesakes(k) = {}
      BY <1>6, <2>2 DEF Made
    <3>2. ids'[k] = nextId
      BY <1>1, <1>6, <3>1, EnsuredIs
    <3>3. \A t \in things' : t.kind = k /\ t.parent # 0 => t.id = nextId
      BY <1>1, <2>1, <3>1, AddSound
    <3>4. ~Exists(row[k])'
      <4>1. ~Exists(row[k])
        BY <2>1, <3>1
      <4> QED  BY <1>2, <1>3, <1>4, <4>1 DEF Exists
    <3> QED  BY <3>2, <3>3, <3>4 DEF OneIn
  <2>3. ASSUME NEW o \in things, Found(o)
        PROVE  OneIn(k)'
    <3>1. /\ \A q \in things : q.kind = k /\ q.parent # 0 => q.id = o.id
          /\ Exists(ids[k]) => o.id = ids[k]
      BY <1>1, <1>6, <2>3, OneInFound
    <3>2. ids'[k] = o.id
      BY <1>1, <1>6, <2>3, EnsuredIs DEF Found
    <3>3. \A t \in things' : t.kind = k /\ t.parent # 0 => t.id = o.id
      BY <1>6, <2>3, <3>1, FoundSound
    <3>4. Exists(row[k])' => o.id = row'[k]
      <4>1. Exists(row[k])' => Exists(row[k])
        BY <1>2, <1>3, <1>4 DEF Exists
      <4> QED  BY <1>2, <2>1, <3>1, <4>1
    <3> QED  BY <3>2, <3>3, <3>4 DEF OneIn
  <2> QED  BY <2>2, <2>3 DEF GoesOn
<1> QED  BY <1>5, <1>6

\* Panels stay in the control channel, which stays the known one as long as
\* there are panels in it.
LEMMA PanelsKept ==
    ASSUME TypeInv, WorldInv, MemoryInv, GoesOn, Own("category"), OneIn("control"),
           "control" \notin missed', PanelsIn
    PROVE  PanelsIn'
<1>1. Ensuring /\ at > 0 /\ phase = "ensure" /\ at \in 1..9
  BY KindIs DEF GoesOn, Made, Found, Ensuring
<1>2. row' = row
  BY DEF GoesOn
<1>3. PICK id, fresh : Ensured(Kind, id, fresh)
  BY DEF GoesOn, Made, Found
<1>4. \A k \in Kinds : k # Kind => ids'[k] = ids[k]
  BY <1>1, <1>3, EnsuredIs
<1>5. CASE Kind = "control"
  <2> SUFFICES ASSUME NEW t \in things', t.kind = "panel"
               PROVE  t.parent = row["control"] /\ t.parent = ids'["control"]
    BY <1>2 DEF PanelsIn
  <2>1. t \in things
    BY <1>1, <1>5, OthersSame DEF GoesOn, Made
  <2>2. t.parent = row["control"] /\ t.parent = ids["control"] /\ t.parent # 0
    BY <2>1 DEF PanelsIn, WorldInv, Sound, Messages
  <2>3. Exists(ids["control"])
    BY <2>1, <2>2 DEF WorldInv, Sound, Exists
  <2>4. Saved(Kind) # {}
    BY <1>1, <1>5, <2>3, NoneInCategory
  <2>5. PICK o \in things : Found(o)
    BY <1>5, <2>4 DEF GoesOn, Made
  <2>6. o.id = ids["control"]
    BY <1>1, <1>5, <2>3, <2>5, OneInFound
  <2>7. ids'["control"] = o.id
    BY <1>1, <1>5, <2>5, EnsuredIs DEF Found
  <2> QED  BY <2>2, <2>6, <2>7
<1>6. CASE Kind = "panel"
  <2>1. at = 9 /\ "panel" \notin Channels
    BY <1>1, <1>6, KindOf DEF Channels
  <2>2. ids["control"] = row["control"] /\ ids'["control"] = ids["control"]
    BY <1>1, <1>4, <1>6, <2>1, KindsAre DEF MemoryInv, MemoryAhead
  <2>3. CASE Made
    <3>1. \A t \in things' : t.kind = "panel" => t.parent = ids["control"]
      BY <1>1, <1>6, <2>1, <2>3, AddSound, HomeIs DEF Made, PanelsIn
    <3> QED  BY <1>2, <2>2, <3>1 DEF PanelsIn
  <2>4. ASSUME NEW o \in things, Found(o)
        PROVE  PanelsIn'
    <3>1. \A t \in things' : t.kind = "panel" => t.parent = ids["control"]
      BY <1>6, <2>1, <2>4, FoundSound DEF PanelsIn
    <3> QED  BY <1>2, <2>2, <3>1 DEF PanelsIn
  <2> QED  BY <2>3, <2>4 DEF GoesOn
<1>7. CASE Kind \notin {"control", "panel"}
  <2>1. \A t \in things' : t.kind = "panel" => t \in things
    BY <1>1, <1>7, OthersSame DEF GoesOn, Made
  <2>2. ids'["control"] = ids["control"]
    BY <1>4, <1>7, KindsAre
  <2> QED  BY <1>2, <2>1, <2>2 DEF PanelsIn
<1> QED  BY <1>5, <1>6, <1>7

LEMMA TwinsGoOn ==
    ASSUME TypeInv, WorldInv, WorldInv', MemoryInv, GoesOn, TwinInv
    PROVE  TwinInv'
<1>1. Ensuring /\ at > 0 /\ at \in 1..9 /\ Kind \in Kinds /\ phase = "ensure"
  BY KindIs DEF GoesOn, Made, Found, Ensuring
<1>2. row' = row /\ lost' = lost /\ missed \subseteq missed'
  BY DEF GoesOn, Made, Found
<1>3. Kind \notin {"image", "control", "target"} => Kind' = Kind
  <2>1. PICK id, fresh : Ensured(Kind, id, fresh)
    BY DEF GoesOn, Made, Found
  <2>2. at # 1 => at' = at
    BY <1>1, <2>1, EnsuredIs
  <2> QED  BY <1>1, <2>2, KindSame, KindOf
<1>4. ASSUME NEW k \in Kinds, k \notin {"image", "control", "target"}, Own(k),
             \A o \in things : o.kind = k => o.parent = Home(ids, k)
      PROVE  Own(k)'
  <2>1. CASE k # Kind
    BY <1>4, <2>1, OwnSame
  <2>2. CASE k = Kind /\ k # "role"
    BY <1>3, <1>4, <2>2, OwnKept DEF Own
  <2>3. CASE k = Kind /\ k = "role"
    BY <1>4, <2>3, RoleKept
  <2> QED  BY <2>1, <2>2, <2>3
<1>5. ASSUME NEW k \in Alone, k \notin lost'
      PROVE  Own(k)'
  <2>1. \A o \in things : o.kind = k => o.parent = Home(ids, k)
    BY HomeIs DEF WorldInv, Sound
  <2>2. k \in Kinds /\ k \notin {"image", "control", "target"}
    BY KindsAre DEF Alone
  <2>3. Own(k)
    BY <1>2, <1>5 DEF TwinInv
  <2> QED  BY <1>4, <2>1, <2>2, <2>3
<1>6. ASSUME "text" \notin lost', "guide" \notin lost'
      PROVE  Own("text")'
  <2>1. Own("text") /\ Own("guide")
    BY <1>2, <1>6 DEF TwinInv, Alone
  <2>2. \A o \in things : o.kind = "text" => o.parent = Home(ids, "text")
    BY <2>1, InGuide
  <2> QED  BY <1>4, <2>1, <2>2, KindsAre
<1>7. OneImage'
  <2>1. CASE Kind # "image"
    BY <1>1, <2>1, OthersSame DEF GoesOn, Made, TwinInv
  <2>2. CASE Kind = "image"
    <3>1. CASE Made
      BY <1>1, <2>2, <3>1, NewImage DEF Made, TwinInv
    <3>2. CASE \E o \in things : Found(o)
      BY <2>2, <3>2, FoundImage DEF TwinInv
    <3> QED  BY <3>1, <3>2 DEF GoesOn
  <2> QED  BY <2>1, <2>2
<1>8. ASSUME NEW k \in {"control", "target"}, k \notin missed', "category" \notin lost'
      PROVE  OneIn(k)'
  <2>1. OneIn(k) /\ Own("category")
    BY <1>2, <1>8 DEF TwinInv, Alone
  <2> QED  BY <1>8, <2>1, OneInKept
<1>9. ASSUME "control" \notin missed', "category" \notin lost'
      PROVE  PanelsIn'
  <2>1. OneIn("control") /\ Own("category") /\ PanelsIn
    BY <1>2, <1>9 DEF TwinInv, Alone
  <2> QED  BY <1>9, <2>1, PanelsKept
<1>10. ASSUME "control" \notin missed', "category" \notin lost', "panel" \notin lost'
       PROVE  Own("panel")'
  <2>1. Own("panel") /\ PanelsIn
    BY <1>2, <1>10 DEF TwinInv
  <2>2. \A o \in things : o.kind = "panel" => o.parent = Home(ids, "panel")
    BY <2>1, HomeIs DEF PanelsIn
  <2> QED  BY <1>4, <2>1, <2>2, KindsAre
<1> QED
  BY <1>5, <1>6, <1>7, <1>8, <1>9, <1>10 DEF TwinInv

\* What is made and lost at once has a twin only if its kind is known to have
\* been lost, or if it is found by name.
LEMMA TwinsLost ==
    ASSUME TypeInv, WorldInv, MemoryInv, TwinInv, Ensuring, Add,
           Saved(Kind) \cup Namesakes(Kind) = {}, lost' = lost \cup {Kind},
           ids' = row, UNCHANGED <<row, missed, passedOver>>
    PROVE  TwinInv'
<1>1. at > 0 /\ at \in 1..9 /\ Kind \in Kinds /\ phase = "ensure" /\ ~created
  BY KindIs DEF Ensuring, TypeInv
<1>2. \A t \in things' : t.kind # Kind => t \in things
  BY <1>1, OthersSame
<1>3. \A k \in Kinds : Exists(row[k])' => Exists(row[k])
  BY <1>1, OthersSame DEF WorldInv, Named, Exists
<1>4. \A k \in Kinds : k \notin lost' /\ Own(k) => Own(k)'
  BY <1>1, <1>2 DEF Own
<1>5. OneImage'
  <2>1. CASE Kind # "image"
    BY <1>1, <2>1, OthersSame DEF TwinInv
  <2>2. CASE Kind = "image"
    BY <1>1, <2>2, NewImage DEF TwinInv
  <2> QED  BY <2>1, <2>2
<1>6. ASSUME NEW k \in {"control", "target"}, k \notin missed', "category" \notin lost'
      PROVE  OneIn(k)'
  <2>1. OneIn(k) /\ Own("category") /\ k \in Kinds
    BY <1>6, KindsAre DEF TwinInv, Alone
  <2>2. \A i : Exists(ids[k])' => Exists(row[k])'
    BY DEF Exists
  <2>3. CASE k # Kind
    <3>1. \A t \in things' : t.kind = k => t \in things
      BY <1>2, <2>3
    <3>2. (Exists(row[k])' => Exists(row[k])) /\ (Exists(ids[k])' => Exists(row[k]))
      BY <1>3, <2>1, <2>2
    <3> QED  BY <2>1, <3>1, <3>2 DEF OneIn
  <2>4. CASE k = Kind
    <3>1. \A o \in things : o.kind = k => o.parent = 0
      BY <1>1, <2>1, <2>4, NoneInCategory
    <3>2. ~Exists(row[k])
      BY <1>1, <2>1, <2>4, NoneInCategory
    <3>3. ~Exists(row[k])' /\ ~Exists(ids[k])'
      BY <1>3, <2>1, <2>2, <3>2
    <3>4. \A t \in things' : t.kind = k /\ t.parent # 0 => t.id = nextId
      BY <1>1, <3>1, AddSound
    <3> QED  BY <3>3, <3>4 DEF OneIn
  <2> QED  BY <2>3, <2>4
<1>7. ASSUME "control" \notin missed', "category" \notin lost'
      PROVE  PanelsIn'
  <2>1. PanelsIn
    BY <1>7 DEF TwinInv
  <2>2. CASE Kind # "panel"
    BY <1>2, <2>1, <2>2 DEF PanelsIn
  <2>3. CASE Kind = "panel"
    <3>1. at = 9 /\ "panel" \notin Channels
      BY <1>1, <2>3, KindOf DEF Channels
    <3>2. ids["control"] = row["control"]
      BY <1>1, <3>1, KindsAre DEF MemoryInv, MemoryAhead
    <3>3. \A t \in things' : t.kind = "panel" => t.parent = row["control"]
      BY <1>1, <2>1, <2>3, <3>1, <3>2, AddSound, HomeIs DEF PanelsIn
    <3> QED  BY <3>3 DEF PanelsIn
  <2> QED  BY <2>2, <2>3
<1>8. \A k \in Alone : k \in Kinds
  BY KindsAre DEF Alone
<1> QED
  BY <1>4, <1>5, <1>6, <1>7, <1>8, KindsAre DEF TwinInv

LEMMA TwinInit == Init => TwinInv
<1> SUFFICES ASSUME Init PROVE TwinInv
  OBVIOUS
<1>1. CASE things = {}
  BY <1>1 DEF TwinInv, Own, OneIn, OneImage, PanelsIn
<1>2. CASE things = Legacy /\ row = LegacyRow
  <2>1. \A o \in Legacy : \/ o.id = 1 /\ o.kind = "category"
                          \/ o.id = 2 /\ o.kind = "control"
                          \/ o.id = 3 /\ o.kind = "target"
                          \/ o.id = 4 /\ o.kind = "panel" /\ o.parent = 2
    BY DEF Legacy, Thing
  <2>2. row["category"] = 1 /\ row["control"] = 2 /\ row["target"] = 3 /\ row["panel"] = 4
    BY <1>2, LegacyIds
  <2>3. ids = row
    BY DEF Init
  <2>4. \A k : k \notin {"control", "target"} => Own(k)
    BY <1>2, <2>1, <2>2, <2>3 DEF Own
  <2>5. OneIn("control") /\ OneIn("target")
    BY <1>2, <2>1, <2>2, <2>3 DEF OneIn
  <2>6. OneImage /\ PanelsIn
    BY <1>2, <2>1, <2>2, <2>3 DEF OneImage, PanelsIn
  <2> QED
    BY <2>4, <2>5, <2>6 DEF TwinInv, Alone
<1> QED  BY <1>1, <1>2 DEF Init

LEMMA TwinStep ==
    /\ TypeInv /\ TypeInv' /\ WorldInv /\ WorldInv' /\ MemoryInv
    /\ TwinInv /\ [Next]_vars
    => TwinInv'
<1> SUFFICES ASSUME TypeInv, TypeInv', WorldInv, WorldInv', MemoryInv, TwinInv, [Next]_vars
             PROVE  TwinInv'
  OBVIOUS
<1> USE DEF discord, operation, observed, bounds
<1>1. at = 0 => ~created
  BY DEF TypeInv, TypeOK
<1>2. UNCHANGED things => Shrunk
  BY DEF Shrunk
<1>3. \A i : things' = Without(i) /\ nextId' = nextId => Shrunk
  <2> SUFFICES ASSUME NEW i, things' = Without(i), nextId' = nextId
               PROVE  Shrunk
    OBVIOUS
  <2> QED  BY WithoutSound DEF Shrunk
<1>4. CASE BeginInitialize \/ BeginRefreshPanel \/ JoinAlerts
  <2>1. at = 0 /\ UNCHANGED <<things, ids, row, created, lost, missed, passedOver>>
    BY <1>4 DEF BeginInitialize, BeginRefreshPanel, JoinAlerts
  <2> QED  BY <1>1, <1>2, <2>1, ShrunkSame
<1>5. CASE GoesOn
  BY <1>5, TwinsGoOn
<1>6. CASE KeepControl
  <2>1. ~created /\ ~created' /\ UNCHANGED <<things, ids, row, lost, missed, passedOver>>
    BY <1>6 DEF KeepControl, TypeInv
  <2>2. created' = created
    BY <2>1 DEF TypeInv, TypeOK
  <2> QED  BY <1>2, <2>1, <2>2, ShrunkSame
<1>7. CASE DeleteOldText
  <2>1. /\ phase = "ensure" /\ ids["text"] # 0 /\ ids'["text"] = 0
        /\ \A k \in Kinds : k # "text" => ids'[k] = ids[k]
        /\ UNCHANGED <<row, lost, missed, passedOver>>
    BY <1>7, DeleteOldTextIs
  <2>2. ~created
    BY <2>1 DEF TypeInv
  <2>3. Shrunk
    BY <1>2, <1>3, <1>7 DEF DeleteOldText
  <2>4. \A k \in Kinds : k # "text" /\ Own(k) => Own(k)'
    BY <2>1, <2>2, <2>3 DEF Own, Shrunk
  <2>5. ASSUME Own("text"), Own("guide")
        PROVE  Own("text")'
    <3> SUFFICES ASSUME NEW t \in things', t.kind = "text" PROVE FALSE
      BY DEF Own
    <3>1. t \in things
      BY <2>3, ShrunkKeeps DEF Messages
    <3>2. t.id = ids["text"] /\ t.parent = Home(ids, "text")
      BY <2>5, <3>1, InGuide DEF Own
    <3>3. Saved("text") # {}
      BY <3>1, <3>2 DEF Saved
    <3>4. things' = Without(ids["text"]) /\ nextId' = nextId
      BY <1>7, <3>3 DEF DeleteOldText
    <3> QED  BY <3>2, <3>4, WithoutSound
  <2>6. \A k \in {"control", "target"} : OneIn(k) => OneIn(k)'
    <3>1. \A t \in things' : t.parent # 0 => t \in things
      BY <2>3, ShrunkKeeps
    <3>2. \A k \in {"control", "target"} : /\ Exists(ids[k])' => Exists(ids[k])
                                           /\ Exists(row[k])' => Exists(row[k])
      BY <2>1, <2>3, KindsAre DEF Shrunk, Exists
    <3>3. \A k \in {"control", "target"} : ids'[k] = ids[k] /\ row'[k] = row[k]
      BY <2>1, KindsAre
    <3> QED  BY <3>1, <3>2, <3>3 DEF OneIn
  <2>7. PanelsIn => PanelsIn'
    BY <2>1, <2>3, ShrunkKeeps, KindsAre DEF PanelsIn, Messages
  <2>8. OneImage'
    BY <2>3, ShrunkKeeps DEF TwinInv
  <2>9. \A k \in Alone : k \in Kinds /\ k # "text"
    BY KindsAre DEF Alone
  <2> QED
    BY <2>1, <2>4, <2>5, <2>6, <2>7, <2>8, <2>9, KindsAre DEF TwinInv, Alone
<1>8. CASE Save
  BY <1>8, SaveIs, SaveTwins
<1>9. CASE Fails
  <2>1. row' = row /\ ids' = row /\ missed' = missed /\ passedOver' = passedOver
    BY <1>9, FailsIs
  <2>2. CASE /\ Ensuring /\ Add /\ Saved(Kind) \cup Namesakes(Kind) = {}
             /\ lost' = lost \cup {Kind}
    BY <2>1, <2>2, TwinsLost
  <2>3. CASE /\ UNCHANGED <<things, nextId>>
             /\ \/ ~created /\ UNCHANGED lost
                \/ lost' = lost \cup {Kind}
    BY <1>2, <2>1, <2>3, ShrunkForgets
  <2>4. CASE things' = Without(ids[Kind]) /\ UNCHANGED <<nextId, lost>>
    <3>1. \A t \in things' : t.id # ids[Kind]
      BY <2>4, WithoutSound
    <3> QED  BY <1>3, <2>1, <2>4, <3>1, ShrunkForgets
  <2> QED  BY <1>9, <2>2, <2>3, <2>4 DEF Fails
<1>10. ASSUME NEW o \in things, Delete(o)
       PROVE  TwinInv'
  <2>1. /\ things' = Without(o.id) /\ nextId' = nextId
        /\ UNCHANGED <<ids, row, created, lost, missed, passedOver, at>>
    BY <1>10 DEF Delete
  <2> QED  BY <1>3, <2>1, KindSame, ShrunkSame
<1>11. CASE ChangeRoles \/ UNCHANGED vars
  <2>1. UNCHANGED <<things, ids, row, created, lost, missed, passedOver, at>>
    BY <1>11 DEF ChangeRoles, vars
  <2> QED  BY <1>2, <2>1, KindSame, ShrunkSame
<1> QED
  BY <1>4, <1>5, <1>6, <1>7, <1>8, <1>9, <1>10, <1>11, Steps

LEMMA TwinInvariance == Spec => [](TypeInv /\ WorldInv /\ MemoryInv /\ TwinInv)
<1>1. Init => TwinInv
  BY TwinInit
<1>2. /\ TypeInv /\ TypeInv' /\ WorldInv /\ WorldInv' /\ MemoryInv
      /\ TwinInv /\ [Next]_vars
      => TwinInv'
  BY TwinStep
<1> QED  BY <1>1, <1>2, MemoryInvariance, PTL DEF Spec

\* Initialize may be repeated, interrupted and fail as often as it likes: two of
\* a kind in one place are there only where an id got lost between Discord and
\* SQLite, or a saved channel was taken for missing.
THEOREM TwinsAreExplained == Spec => []NoTwins
<1>1. TypeInv /\ WorldInv /\ TwinInv => NoTwins
  <2> SUFFICES ASSUME TypeInv, WorldInv, TwinInv, NEW o \in things, NEW q \in things,
                      o.id < q.id, o.kind = q.kind, o.parent = q.parent
               PROVE  TwinsExplained(o, q)
    BY DEF NoTwins
  <2>1. o.id # q.id /\ o.kind \in Kinds
    BY Numbers DEF ThingSet
  <2>2. \A k : k # "role" /\ Own(k) => o.kind # k
    BY <2>1 DEF Own
  <2>3. CASE o.kind \in {"guide", "category"}
    <3>1. o.kind \in lost
      BY <2>2, <2>3 DEF TwinInv, Alone
    <3> QED  BY <2>3, <3>1 DEF TwinsExplained
  <2>8. CASE o.kind = "role"
    <3>1. ASSUME "role" \notin lost PROVE o.id \in passedOver \/ q.id \in passedOver
      <4>1. Own("role")
        BY <3>1 DEF TwinInv, Alone
      <4> QED  BY <2>1, <2>8, <4>1 DEF Own
    <3>2. "role" \in lost \/ {o.id, q.id} \cap passedOver # {}
      BY <3>1
    <3> QED  BY <2>8, <3>2 DEF TwinsExplained
  <2>4. CASE o.kind = "text"
    <3>1. "text" \in lost \/ "guide" \in lost
      BY <2>2, <2>4 DEF TwinInv
    <3>2. {"text", "guide"} \cap lost # {}
      BY <3>1
    <3> QED  BY <2>4, <3>2 DEF TwinsExplained
  <2>5. CASE o.kind = "panel"
    <3>1. "panel" \in lost \/ "category" \in lost \/ "control" \in missed
      BY <2>2, <2>5 DEF TwinInv
    <3>2. {"panel", "category"} \cap lost # {} \/ "control" \in missed
      BY <3>1
    <3> QED  BY <2>5, <3>2 DEF TwinsExplained
  <2>6. CASE o.kind \in {"control", "target"}
    <3>1. o.parent = 0 \/ o.kind \in missed \/ "category" \in lost
      BY <2>1, <2>6 DEF TwinInv, OneIn
    <3>2. o.kind \notin {"role", "guide", "category", "text", "panel"}
      BY <2>6
    <3> QED  BY <2>6, <3>1, <3>2 DEF TwinsExplained
  <2>7. CASE o.kind = "image"
    BY <2>1, <2>7 DEF TwinInv, OneImage
  <2> QED  BY <2>1, <2>3, <2>4, <2>5, <2>6, <2>7, <2>8, KindsAre
<1> QED  BY <1>1, TwinInvariance, PTL
=============================================================================
