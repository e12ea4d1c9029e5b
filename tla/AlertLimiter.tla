----------------------------- MODULE AlertLimiter -----------------------------
(***************************************************************************)
(* One rate-limited alert: the row of alert_rate_limits under its key, the *)
(* callers that ask it for leave to notify, and the webhook behind         *)
(* core/notify.py.  The row outlives every caller.  A key may be asked for *)
(* by the bot and by a script that routes an order of its own.             *)
(***************************************************************************)
EXTENDS Naturals

CONSTANTS
    Alerters,   \* the processes that watch the same condition
    Cooldown    \* cooldown_hours, in ticks of the clock

ASSUME AlertAssumption == Cooldown \in Nat \ {0}

VARIABLES
    trouble,    \* the condition the alert is about
    webhook,    \* what the webhook answers: "up", "5xx" or "4xx"
    quiet,      \* ticks left of the cooldown since last_fired_at; no row is 0
    alerter,    \* each caller: "idle", "leave", its "first" or "second" attempt, "dead"
    heard,      \* history: the alert was delivered and not evaluated since
    firedTwice  \* history: leave was given within the cooldown of another

alertVars == <<trouble, webhook, quiet, alerter, heard, firedTwice>>

AlertTypeOK ==
    /\ trouble \in BOOLEAN /\ webhook \in {"up", "5xx", "4xx"}
    /\ quiet \in 0 .. Cooldown
    /\ alerter \in [Alerters -> {"idle", "leave", "first", "second", "dead"}]
    /\ heard \in BOOLEAN /\ firedTwice \in BOOLEAN

AlertInit ==
    /\ trouble = FALSE /\ webhook = "up" /\ quiet = 0
    /\ alerter = [p \in Alerters |-> "idle"] /\ heard = FALSE /\ firedTwice = FALSE

Goes(p, from, to) == alerter[p] = from /\ alerter' = [alerter EXCEPT ![p] = to]

\* Faulty variant: asking again starts the cooldown anew.
Extended == IF quiet > 0 THEN Cooldown ELSE quiet

\* A refusal writes nothing.
AfterAsking == quiet

\* try_fire reads the row; a caller within the cooldown goes its way.
AsksLeave(p) ==
    /\ trouble
    /\ Goes(p, "idle", IF quiet > 0 THEN "idle" ELSE "leave")
    /\ heard' = FALSE /\ quiet' = AfterAsking
    /\ UNCHANGED <<trouble, webhook, firedTwice>>

\* And writes it, whatever another caller wrote in between.
RecordsFiring(p) ==
    /\ Goes(p, "leave", "first")
    /\ firedTwice' = (firedTwice \/ quiet > 0)
    /\ quiet' = Cooldown
    /\ UNCHANGED <<trouble, webhook, heard>>

\* One retry, after a server error or a lost connection; a lost answer counts
\* as one too.  Neither failure gives the leave back.
Delivers(p) ==
    /\ \E answered \in BOOLEAN :
         \/ Goes(p, "first", IF webhook = "5xx" \/ ~ answered THEN "second" ELSE "idle")
         \/ Goes(p, "second", "idle")
    /\ heard' = (webhook = "up" \/ heard)
    /\ UNCHANGED <<trouble, webhook, quiet, firedTwice>>

\* The process dies with the leave in hand.
AlerterDies(p) ==
    /\ alerter[p] \notin {"idle", "dead"} /\ alerter' = [alerter EXCEPT ![p] = "dead"]
    /\ UNCHANGED <<trouble, webhook, quiet, heard, firedTwice>>

AlerterRestarts(p) ==
    /\ Goes(p, "dead", "idle")
    /\ UNCHANGED <<trouble, webhook, quiet, heard, firedTwice>>

HourPasses ==
    /\ quiet > 0 /\ quiet' = quiet - 1
    /\ UNCHANGED <<trouble, webhook, alerter, heard, firedTwice>>

WorldMoves ==
    /\ trouble' \in BOOLEAN /\ webhook' \in {"up", "5xx", "4xx"}
    /\ UNCHANGED <<quiet, alerter, heard, firedTwice>>

AlertStep(p) == AlerterRestarts(p) \/ AsksLeave(p) \/ RecordsFiring(p) \/ Delivers(p)

AlertNext ==
    \/ \E p \in Alerters : AlertStep(p) \/ AlerterDies(p)
    \/ HourPasses \/ WorldMoves

AlertSpec == AlertInit /\ [][AlertNext]_alertVars

\* Every caller evaluates its condition again and again, and hours pass.
AlertFairness ==
    /\ WF_alertVars(HourPasses)
    /\ \A p \in Alerters : WF_alertVars(AlertStep(p))

FairAlertSpec == AlertSpec /\ AlertFairness

-----------------------------------------------------------------------------
\* A condition that lasts is heard of again and again once the webhook works and
\* the processes stop dying: what an outage, or a death between the row and the
\* message, has swallowed costs one cooldown and no more.
LastingTroubleIsHeard ==
    <>[](trouble /\ webhook = "up" /\ \A p \in Alerters : alerter[p] # "dead") => []<>heard

\* try_fire "atomically records the new firing timestamp": no second leave
\* within a cooldown.
OneFiringPerCooldown == ~ firedTwice
=============================================================================
