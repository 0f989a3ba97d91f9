----------------------------- MODULE Application -----------------------------
(***************************************************************************)
(* One run of the service: New opens the database, Start brings up the     *)
(* health server, the Discord session and the scheduler, a signal makes    *)
(* main call Shutdown, which stops them again.  The scheduler is that of   *)
(* PreparedPolls, with the bursts and tabs of a CGV branch: its burst uses *)
(* the database and the session, a health request the database.            *)
(*                                                                         *)
(* A signal before Start has returned, like a crash, just ends the process *)
(* and is not a step here.  Handlers of Discord interactions are not       *)
(* waited for by anybody and not modelled; nor is the heartbeat, which     *)
(* uses nothing of the others.                                             *)
(***************************************************************************)
EXTENDS PreparedPolls

VARIABLES
    phase,      \* how far New, Start or Shutdown has come
    db,         \* "unopened", "open" or "closed"
    health,     \* the health server: "down", "up" or "closed"
    request,    \* it answers a request
    discord,    \* the session: "down", "accepting", "refusing" or "closed"
    expired     \* the deadline that a Shutdown waits under is over

lifecycle == <<phase, db, health, request, discord, expired>>
tabs == <<loop, group, provider>>
appVars == <<lifecycle, tabs>>

Phases == {"new", "opened", "serving", "connected", "running",
           "cancelled", "stopping", "polled", "disconnected", "draining",
           "unserved", "stopped",
           "undo", "undoDraining", "undone", "failed"}

\* The scheduler's goroutines live from Start to the end of the process.
Alongside == phase \in {"running", "cancelled", "stopping", "polled",
                        "disconnected", "draining", "unserved"}

-----------------------------------------------------------------------------
(* app.New and App.Start.                                                  *)

\* Opening runs the migrations, in one transaction, and closes the database
\* when anything fails.
Open ==
    /\ phase = "new"
    /\ \/ /\ db' = "open"
          /\ phase' = "opened"
       \/ /\ db' = "closed"
          /\ phase' = "failed"
    /\ UNCHANGED <<health, request, discord, expired, tabs>>

\* The session cannot be created or the port is taken.
SetupFails ==
    /\ phase = "opened"
    /\ db' = "closed"
    /\ phase' = "failed"
    /\ UNCHANGED <<health, request, discord, expired, tabs>>

StartHealth ==
    /\ phase = "opened"
    /\ health' = "up"
    /\ phase' = "serving"
    /\ UNCHANGED <<db, request, discord, expired, tabs>>

\* A session that cannot be opened loses its handler.
StartDiscord ==
    /\ phase = "serving"
    /\ \/ /\ discord' = "accepting"
          /\ phase' = "connected"
       \/ /\ phase' = "undo"
          /\ UNCHANGED discord
    /\ UNCHANGED <<db, health, request, expired, tabs>>

StartScheduler ==
    /\ phase = "connected"
    /\ phase' = "running"
    /\ UNCHANGED <<db, health, request, discord, expired, tabs>>

-----------------------------------------------------------------------------
(* App.Shutdown, called by main after a signal, and the clean-up of a      *)
(* failed start.                                                           *)

\* The root context is cancelled, and with it the loop's.
Signal ==
    /\ phase = "running"
    /\ Stop
    /\ phase' = "cancelled"
    /\ UNCHANGED <<db, health, request, discord, expired>>

StopAccepting ==
    /\ phase = "cancelled"
    /\ discord' = "refusing"
    /\ phase' = "stopping"
    /\ UNCHANGED <<db, health, request, expired, tabs>>

\* Fifteen seconds for all of Shutdown, five for the clean-up.
Expire ==
    /\ phase \in {"cancelled", "stopping", "polled", "disconnected", "draining",
                  "undo", "undoDraining"}
    /\ ~expired
    /\ expired' = TRUE
    /\ UNCHANGED <<phase, db, health, request, discord, tabs>>

\* Mutant: Stop does not wait.
MutOverdue == TRUE
Overdue == expired

StopScheduler ==
    /\ phase = "stopping"
    /\ ClosePrepared \/ (Overdue /\ StopGivesUp)
    /\ phase' = "polled"
    /\ UNCHANGED <<db, health, request, discord, expired>>

StopDiscord ==
    /\ phase = "polled"
    /\ discord' = "closed"
    /\ phase' = "disconnected"
    /\ UNCHANGED <<db, health, request, expired, tabs>>

\* The listener is closed and the request that is being answered waited for.
CloseListener ==
    /\ \/ /\ phase = "disconnected"
          /\ phase' = "draining"
       \/ /\ phase = "undo"
          /\ phase' = "undoDraining"
    /\ health' = "closed"
    /\ UNCHANGED <<db, request, discord, expired, tabs>>

ShutdownHealth ==
    /\ ~request \/ expired
    /\ \/ /\ phase = "draining"
          /\ phase' = "unserved"
       \/ /\ phase = "undoDraining"
          /\ phase' = "undone"
    /\ UNCHANGED <<db, health, request, discord, expired, tabs>>

CloseDatabase ==
    /\ \/ /\ phase = "unserved"
          /\ phase' = "stopped"
       \/ /\ phase = "undone"
          /\ phase' = "failed"
    /\ db' = "closed"
    /\ UNCHANGED <<health, request, discord, expired, tabs>>

-----------------------------------------------------------------------------
(* What runs beside it.                                                    *)

Request ==
    /\ health = "up"
    /\ ~request
    /\ request' = TRUE
    /\ UNCHANGED <<phase, db, health, discord, expired, tabs>>

Answer ==
    /\ request
    /\ request' = FALSE
    /\ UNCHANGED <<phase, db, health, discord, expired, tabs>>

LoopStep ==
    /\ Alongside
    /\ BeginBurst \/ BurstStep
    /\ UNCHANGED lifecycle

PrepareStep(n) ==
    /\ Alongside
    /\ Prepare(n)
    /\ UNCHANGED lifecycle

-----------------------------------------------------------------------------
AppInit ==
    /\ Init
    /\ phase = "new"
    /\ db = "unopened"
    /\ health = "down"
    /\ request = FALSE
    /\ discord = "down"
    /\ expired = FALSE

StartStep == Open \/ SetupFails \/ StartHealth \/ StartDiscord \/ StartScheduler

ShutdownStep ==
    StopAccepting \/ StopDiscord \/ CloseListener \/ ShutdownHealth
        \/ CloseDatabase

AppNext ==
    \/ StartStep
    \/ Signal
    \/ Expire
    \/ ShutdownStep
    \/ StopScheduler
    \/ Request
    \/ Answer
    \/ LoopStep
    \/ \E n \in Bursts : PrepareStep(n)

AppSpec == AppInit /\ [][AppNext]_appVars

\* Calls return, goroutines run and requests are answered; a mutex that keeps
\* becoming free is taken.  That a deadline expires is not assumed.
FairAppSpec ==
    /\ AppSpec
    /\ WF_appVars(ShutdownStep)
    /\ SF_appVars(StopScheduler)
    /\ WF_appVars(Answer)
    /\ WF_appVars(LoopStep)
    /\ \A n \in Bursts : WF_appVars(PrepareStep(n))

-----------------------------------------------------------------------------
\* Every variable holds a value the code can give it.
AppTypeOK ==
    /\ TypeOK
    /\ phase \in Phases
    /\ db \in {"unopened", "open", "closed"}
    /\ health \in {"down", "up", "closed"}
    /\ request \in BOOLEAN
    /\ discord \in {"down", "accepting", "refusing", "closed"}
    /\ expired \in BOOLEAN

\* The order of Start and Shutdown (app.go:102-135): a burst has the database
\* and the session, and a health request the database, unless a deadline made
\* Shutdown go on without them; and when main returns, after a failed start
\* too, all that was opened is closed.
ClosedAfterUse ==
    /\ mode = "polling" /\ ~expired => db = "open" /\ discord \notin {"down", "closed"}
    /\ request /\ ~expired => db = "open"
    /\ phase \in {"stopped", "failed"} =>
          db # "open" /\ health # "up" /\ discord \in {"down", "closed"}

\* Shutdown ends without the help of its deadline, though Stop waits for the
\* burst and for pollsMu and the health server for a request.
ShutdownEnds == phase = "cancelled" ~> phase = "stopped"
=============================================================================
