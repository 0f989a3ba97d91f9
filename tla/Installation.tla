---------------------------- MODULE Installation ----------------------------
(***************************************************************************)
(* What Initialize leaves in Discord: the role, channels and messages that *)
(* control.Service.Initialize ensures one after the other through the      *)
(* channel manager, saving each id as soon as it has it, while calls fail, *)
(* ids get lost between Discord and SQLite, and administrators delete      *)
(* things or change roles.  The guide channel also stands for the notice   *)
(* channel, one target's channel for the status channel and those of all   *)
(* targets.                                                                *)
(*                                                                         *)
(* Ids only grow, like Discord's snowflakes.  What is in Discord is a set  *)
(* of things with an id, a kind and the category or channel they are in.   *)
(***************************************************************************)
EXTENDS Naturals, Sequences, FiniteSets

CONSTANTS
    MaxFaults,      \* bound on restarts, lost answers, channels that cannot be
                    \* read, and saves that fail after something was created
    MaxDeletions,   \* bound on what administrators delete or change
    MaxId           \* bound on the ids Discord gives out, with room for Legacy

ASSUME InstallationAssumption ==
    MaxFaults \in Nat /\ MaxDeletions \in Nat /\ MaxId \in Nat /\ MaxId >= 4

Channels == {"guide", "category", "control", "target"}
Messages == {"image", "text", "panel"}
Kinds == {"role"} \cup Channels \cup Messages

\* Initialize first secures a control channel that it knows already.
Order == <<"secure", "role", "guide", "image", "text", "category", "control",
           "target", "panel">>

VARIABLES
    things,     \* what is in Discord
    nextId,
    row,        \* the ids in installations and target_states; 0: none
    at,         \* where the operation that holds the mutex is; 0: nowhere
    phase,      \* about to "ensure" a thing or to "save" its id
    ids,        \* the installation the operation works on
    created,    \* the thing has just been created
    secured,    \* the control channel is secured and its category is unchanged
    admits,     \* the role that the category was last restricted to; 0: public
    unsafe,     \* roles that are managed, have permissions or are above the bot
    joined,     \* the roles that members have from JoinAlerts
    \* observations
    lost,       \* kinds of which an id got lost
    missed,     \* channels created anew as the saved one could not be read
    passedOver, \* roles that were not safe when they were ensured, until they
                \* are saved again
    initialized,    \* the last Initialize: "running", "done", or "broken", as
                    \* when it failed or something was deleted since it began
    faults, deletions

discord == <<things, nextId, admits, unsafe, joined>>
operation == <<at, phase, ids, created, secured>>
observed == <<lost, missed, passedOver, initialized>>
bounds == <<faults, deletions>>
vars == <<discord, row, operation, observed, bounds>>

NoIds == [k \in Kinds |-> 0]
Exists(id) == \E o \in things : o.id = id

\* What the operation is about to ensure.
Kind == IF Order[at] = "secure" THEN "control" ELSE Order[at]

\* Where a thing of that kind belongs, by the ids in record r.
Home(r, k) ==
    CASE k \in {"control", "target"} -> r["category"]
      [] k \in {"image", "text"} -> r["guide"]
      [] k = "panel" -> r["control"]
      [] OTHER -> 0

\* A deleted channel takes its messages with it, a category lets its channels go.
Without(id) ==
    {IF o.parent = id THEN [o EXCEPT !.parent = 0] ELSE o :
        o \in {t \in things : t.id # id /\ ~(t.parent = id /\ t.kind \in Messages)}}

\* The operation returns and forgets what it knew: the next one reads the ids
\* again.  Mutant: it works on what the last one had in memory.
MutForget ==
    /\ at' = 0
    /\ phase' = "ensure"
    /\ created' = FALSE
    /\ secured' = FALSE
    /\ UNCHANGED ids

Forget ==
    /\ at' = 0
    /\ phase' = "ensure"
    /\ ids' = row'
    /\ created' = FALSE
    /\ secured' = FALSE

\* Initialize succeeds only at its end.
EndsAs(result) ==
    initialized' = IF initialized = "running" THEN result ELSE initialized

ReturnError == Forget /\ EndsAs("broken")

Fault == faults < MaxFaults /\ faults' = faults + 1 /\ UNCHANGED deletions

-----------------------------------------------------------------------------
(* Control operations.                                                     *)

BeginInitialize ==
    /\ at = 0
    /\ at' = IF row["category"] # 0 /\ row["control"] # 0 THEN 1 ELSE 2
    /\ secured' = (at' = 1)
    /\ initialized' = "running"
    /\ UNCHANGED <<discord, row, phase, ids, created, lost, missed, passedOver, bounds>>

\* refreshPanel of every other operation does what Initialize does last.
BeginRefreshPanel ==
    /\ at = 0
    /\ row # NoIds
    /\ at' = Len(Order)
    /\ UNCHANGED <<discord, row, phase, ids, created, secured, observed, bounds>>

\* JoinAlerts holds the mutex while it gives the saved role to a member; it
\* fails if there is no such role, or it is not safe any more.
JoinAlerts ==
    /\ at = 0
    /\ Exists(row["role"])
    /\ row["role"] \notin unsafe \cup joined
    /\ joined' = joined \cup {row["role"]}
    /\ UNCHANGED <<things, nextId, admits, unsafe, row, operation, observed, bounds>>

\* A thing whose saved id still names something is used again; a message has
\* to be in the channel it is looked for in, and a role has to be safe.
Saved(k) ==
    {o \in things :
        /\ o.id = ids[k]
        /\ k \in Messages => o.parent = Home(ids, k)
        /\ k = "role" => o.id \notin unsafe}

\* What else is taken for the thing: a namesake in its place for channels
\* that are the bot's alone; for the role and those outside, only when an id
\* had been saved; a message by its content, the text only below the image.
Namesakes(k) ==
    IF ids[k] = 0 /\ k \in {"role", "guide", "category"} THEN {}
    ELSE {o \in things :
            /\ o.kind = k
            /\ k # "panel"
            /\ o.parent = Home(ids, k)
            /\ k = "text" => o.id > ids["image"]
            /\ k = "role" => o.id \notin unsafe}

\* Ensuring the category restricts it to the role.  Mutant: only while it is
\* public.
MutRestricted(k) == IF k = "category" /\ admits = 0 THEN ids["role"] ELSE admits
Restricted(k) == IF k = "category" THEN ids["role"] ELSE admits

\* A saved role that is not safe is left to its members, and another becomes the
\* viewer role.
PassedOver(k, id) ==
    IF k = "role" /\ id # ids["role"] THEN passedOver \cup ({ids["role"]} \cap unsafe)
    ELSE passedOver

\* The operation goes on: to the save, or after securing to the role.
Ensured(k, id, fresh) ==
    /\ ids' = [ids EXCEPT ![k] = id]
    /\ IF Order[at] = "secure"
       THEN at' = at + 1 /\ UNCHANGED <<phase, created>>
       ELSE phase' = "save" /\ created' = fresh /\ UNCHANGED at
    /\ secured' = (secured /\ (k = "category" => id = ids["category"]))
    /\ admits' = Restricted(k)
    /\ passedOver' = PassedOver(k, id)

InPlace(o, k) ==
    IF k \in Channels THEN [o EXCEPT !.parent = IF Exists(Home(ids, k))
                                                THEN Home(ids, k) ELSE 0]
    ELSE o

Reuse(o) ==
    /\ things' = (things \ {o}) \cup {InPlace(o, Kind)}
    /\ Ensured(Kind, o.id, FALSE)
    /\ UNCHANGED <<nextId, unsafe, joined, row, lost, missed, initialized, bounds>>

\* A secured control channel stays as it is, unless its category has changed.
\* Mutant: it is never looked at again.
MutStays == Order[at] = "control" /\ at > 1 /\ ids["control"] # 0
Stays == Order[at] = "control" /\ secured

\* A text above the image is deleted first, and forgotten; in a channel it is
\* not in it is not found, which counts as deleted.
OutOfOrder ==
    Order[at] = "text" /\ ids["text"] # 0 /\ ids["text"] < ids["image"]

Ensuring == at > 0 /\ phase = "ensure" /\ ~Stays /\ ~OutOfOrder

UseSaved ==
    /\ Ensuring
    /\ \E o \in Saved(Kind) : Reuse(o)

UseNamesake ==
    /\ Ensuring
    /\ Saved(Kind) = {}
    /\ \E o \in Namesakes(Kind) : Reuse(o)

KeepControl ==
    /\ at > 0
    /\ phase = "ensure"
    /\ Stays
    /\ phase' = "save"
    /\ created' = FALSE
    /\ UNCHANGED <<discord, row, at, ids, secured, observed, bounds>>

DeleteOldText ==
    /\ at > 0
    /\ phase = "ensure"
    /\ OutOfOrder
    /\ things' = IF Saved("text") = {} THEN things ELSE Without(ids["text"])
    /\ ids' = [ids EXCEPT !["text"] = 0]
    /\ UNCHANGED <<nextId, admits, unsafe, joined, row, at, phase, created, secured,
                   observed, bounds>>

\* The thing in its place; a message needs its channel.
New(k) == InPlace([id |-> nextId, kind |-> k, parent |-> Home(ids, k)], k)

Add ==
    /\ Kind \in Messages => Exists(Home(ids, Kind))
    /\ nextId <= MaxId
    /\ things' = things \cup {New(Kind)}
    /\ nextId' = nextId + 1

Create ==
    /\ Ensuring
    /\ Saved(Kind) \cup Namesakes(Kind) = {}
    /\ Add
    /\ Ensured(Kind, nextId, TRUE)
    /\ UNCHANGED <<unsafe, joined, row, lost, missed, initialized, bounds>>

\* Discord creates the thing and the answer is lost.
CreateLost ==
    /\ Fault
    /\ Ensuring
    /\ Saved(Kind) \cup Namesakes(Kind) = {}
    /\ Add
    /\ lost' = lost \cup {Kind}
    /\ admits' = Restricted(Kind)
    /\ UNCHANGED <<unsafe, joined, row, missed, passedOver>>
    /\ ReturnError

\* A saved channel that cannot be read is taken for missing.
SavedMissed ==
    /\ Fault
    /\ Ensuring
    /\ Kind \in Channels
    /\ Saved(Kind) # {}
    /\ \/ \E o \in Namesakes(Kind) :
            /\ things' = (things \ {o}) \cup {InPlace(o, Kind)}
            /\ Ensured(Kind, o.id, FALSE)
            /\ UNCHANGED <<nextId, missed>>
       \/ /\ Namesakes(Kind) = {}
          /\ Add
          /\ Ensured(Kind, nextId, TRUE)
          /\ missed' = missed \cup {Kind}
    /\ UNCHANGED <<unsafe, joined, row, lost, initialized>>

\* Discord refuses, and changes nothing.
EnsureFails ==
    /\ at > 0
    /\ phase = "ensure"
    /\ UNCHANGED <<discord, row, lost, missed, passedOver, bounds>>
    /\ ReturnError

\* Mutant: the ids are kept in memory until the end.
MutSaveInstallation == IF at = Len(Order) THEN row' = ids ELSE UNCHANGED row
SaveInstallation == row' = ids

Save ==
    /\ phase = "save"
    /\ SaveInstallation
    /\ IF at = Len(Order)
       THEN Forget /\ EndsAs("done")
       ELSE /\ at' = at + 1
            /\ phase' = "ensure"
            /\ created' = FALSE
            /\ UNCHANGED <<ids, secured, initialized>>
    /\ passedOver' = IF Kind = "role" THEN passedOver \ {ids["role"]} ELSE passedOver
    /\ UNCHANGED <<discord, lost, missed, bounds>>

\* The save fails: what was created for it is deleted again.  Mutant: it is not.
MutCleanup == things
Cleanup == IF created THEN Without(ids[Kind]) ELSE things

SaveFails ==
    /\ phase = "save"
    /\ things' = Cleanup
    /\ IF created THEN Fault ELSE UNCHANGED bounds
    /\ UNCHANGED <<nextId, admits, unsafe, joined, row, lost, missed, passedOver>>
    /\ ReturnError

CleanupFails ==
    /\ Fault
    /\ phase = "save"
    /\ created
    /\ lost' = lost \cup {Kind}
    /\ UNCHANGED <<discord, row, missed, passedOver>>
    /\ ReturnError

-----------------------------------------------------------------------------
(* The environment.                                                        *)

Crash ==
    /\ Fault
    /\ at > 0
    /\ lost' = IF created THEN lost \cup {Kind} ELSE lost
    /\ UNCHANGED <<discord, row, missed, passedOver>>
    /\ ReturnError

Delete(o) ==
    /\ deletions < MaxDeletions
    /\ deletions' = deletions + 1
    /\ things' = Without(o.id)
    /\ joined' = joined \ {o.id}
    /\ initialized' = "broken"
    /\ UNCHANGED <<nextId, admits, unsafe, row, operation, lost, missed, passedOver, faults>>

\* An administrator gives roles permissions or takes them away, or moves a role
\* or the bot's own: members keep their roles.
ChangeRoles ==
    /\ deletions < MaxDeletions
    /\ deletions' = deletions + 1
    /\ unsafe' \in SUBSET {o.id : o \in {t \in things : t.kind = "role"}}
    /\ unsafe' # unsafe
    /\ UNCHANGED <<things, nextId, admits, joined, row, operation, observed, faults>>

-----------------------------------------------------------------------------
\* Before there was a role, a server had a public category with the rest of
\* the channels in it and a control panel.
Thing(i, k, p) == [id |-> i, kind |-> k, parent |-> p]
Legacy == {Thing(1, "category", 0), Thing(2, "control", 1), Thing(3, "target", 1),
           Thing(4, "panel", 2)}
LegacyRow == [k \in Kinds |->
    IF \E o \in Legacy : o.kind = k THEN (CHOOSE o \in Legacy : o.kind = k).id ELSE 0]

Init ==
    /\ \/ things = {} /\ nextId = 1 /\ row = NoIds
       \/ things = Legacy /\ nextId = 5 /\ row = LegacyRow
    /\ at = 0
    /\ phase = "ensure"
    /\ ids = row
    /\ created = FALSE
    /\ secured = FALSE
    /\ admits = 0
    /\ unsafe = {}
    /\ joined = {}
    /\ lost = {}
    /\ missed = {}
    /\ passedOver = {}
    /\ initialized = "broken"
    /\ faults = 0
    /\ deletions = 0

Next ==
    \/ BeginInitialize
    \/ BeginRefreshPanel
    \/ JoinAlerts
    \/ UseSaved
    \/ UseNamesake
    \/ SavedMissed
    \/ KeepControl
    \/ DeleteOldText
    \/ Create
    \/ CreateLost
    \/ EnsureFails
    \/ Save
    \/ SaveFails
    \/ CleanupFails
    \/ Crash
    \/ \E o \in things : Delete(o)
    \/ ChangeRoles

Spec == Init /\ [][Next]_vars

-----------------------------------------------------------------------------
\* Every variable holds a value the code can give it, and between operations
\* nothing is known but what is in SQLite.
TypeOK ==
    /\ things \subseteq [id : 1..MaxId, kind : Kinds, parent : 0..MaxId]
    /\ nextId \in 1..(MaxId + 1)
    /\ row \in [Kinds -> 0..MaxId]
    /\ at \in 0..Len(Order)
    /\ phase \in {"ensure", "save"}
    /\ ids \in [Kinds -> 0..MaxId]
    /\ at = 0 => ids = row
    /\ created \in BOOLEAN
    /\ secured \in BOOLEAN
    /\ admits \in 0..MaxId
    /\ unsafe \subseteq 1..MaxId
    /\ joined \subseteq 1..MaxId
    /\ passedOver \subseteq 1..MaxId
    /\ lost \subseteq Kinds
    /\ missed \subseteq Channels
    /\ initialized \in {"running", "done", "broken"}
    /\ faults \in 0..MaxFaults
    /\ deletions \in 0..MaxDeletions

\* Repeating Initialize duplicates nothing: there are two of a kind in one
\* place only if an id of it, or of what it is in, got lost before it was saved
\* or a saved channel could not be read, or if one of two roles was not safe
\* when Initialize looked at it.  What is found by name or content without a
\* saved id has no twin of its own making: the image has none at all, control
\* and target channels only after the category was lost or they were missed
\* themselves.  (A deleted category lets its channels go to the top, where the
\* bot does not look for them.)
TwinsExplained(o, q) ==
    CASE o.kind = "role" -> "role" \in lost \/ {o.id, q.id} \cap passedOver # {}
      [] o.kind \in {"guide", "category"} -> o.kind \in lost
      [] o.kind = "text" -> {"text", "guide"} \cap lost # {}
      [] o.kind = "panel" -> {"panel", "category"} \cap lost # {} \/ "control" \in missed
      [] o.kind \in {"control", "target"} ->
            o.parent = 0 \/ o.kind \in missed \/ "category" \in lost
      [] OTHER -> FALSE

NoTwins ==
    \A o, q \in things :
        o.id < q.id /\ o.kind = q.kind /\ o.parent = q.parent => TwinsExplained(o, q)

\* An Initialize that succeeded leaves everything in its place with its id
\* saved, whatever earlier attempts left behind and whatever was deleted
\* before: the control channel follows a new category, the text is below the
\* image.  Refreshing the panel, failed or not, keeps it so.
InstalledConsistent ==
    initialized = "done"
        => /\ \A k \in Kinds : Thing(row[k], k, Home(row, k)) \in things
           /\ row["image"] < row["text"]

\* A member who joined is not locked out again: after an Initialize that
\* succeeded the category admits every role that members have, whatever failed
\* or was deleted on the way (a role that is deleted leaves its members).  Only
\* a role that was not safe when Initialize looked at it, and that it has not
\* taken up again, locks its members out: they have to press the button again.
MembersStayIn == initialized = "done" => joined \subseteq {admits} \cup passedOver

\* The category is only hidden from everyone when there is a way in: the role
\* it admits and the guide with the join button are saved (JoinAlerts grants
\* the saved role as long as it stays safe).
HiddenWithAWayIn ==
    [][admits' # admits => row["role"] = admits' /\ row["text"] # 0]_vars
=============================================================================
