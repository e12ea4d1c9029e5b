----------------------------- MODULE Brokerage -----------------------------
(***************************************************************************)
(* The broker: the order book, the option legs and the stock in the        *)
(* account, and what the market does to them.  The bot is told of none of  *)
(* these steps; it polls.                                                  *)
(***************************************************************************)
EXTENDS BotState

CONSTANTS
    BrokerMovesAt,   \* the phases of a tick at which the market moves
    OrdersEndMidDay, \* BOOLEAN: an order may be rejected during the session
    LongsExpire      \* BOOLEAN: a bought call may be held to its expiration

ASSUME BrokerAssumption ==
    /\ BrokerMovesAt \subseteq Phases
    /\ OrdersEndMidDay \in BOOLEAN /\ LongsExpire \in BOOLEAN

LegsAlive(s) == UNION {legs[o] : o \in {p \in Submitted : Owner(p) = s}}
AllLegs      == UNION {legs[o] : o \in Submitted}

\* get_positions(): one row per live leg and one for the stock, per SYMBOL.
PositionsNow == [put    |-> "short_put" \in AllLegs,
                 call   |-> "short_call" \in AllLegs,
                 long   |-> AllLegs \cap {"long_put", "long_call"} # {},
                 shares |-> stock]

BrokerTurn == phase \in BrokerMovesAt /\ routing = NotRouting

UnchangedByBroker == UNCHANGED <<placed, dbVars, timeVars, phase, cursor,
                                 readVars, todoRows, routeVars>>

-----------------------------------------------------------------------------
\* The contracts of order o, submitted for proposal p, trade: an opening order
\* puts its legs on, a closing one takes the matching leg or the package off.
LegsAfter(o, p) ==
    IF p.type \in OpeningTypes
    THEN [legs EXCEPT ![o] = LegsOpenedBy(Kind(p.strategy), p.type)]
    ELSE [legs EXCEPT ![p.target] =
            @ \ (CASE p.type = "BTC_PUT"  -> {"short_put"}
                   [] p.type = "BTC_CALL" -> {"short_call"}
                   [] p.type = "STC"      -> {"long_put", "long_call"}
                   [] OTHER               -> Legs)]

\* The broker closes only what is there.
Fillable(p) == p.type \in ClosingTypes => legs[p.target] # {}

\* A live order fills, also while its cancel is still being worked.
Fill(o) ==
    /\ BrokerTurn
    /\ o \in Submitted /\ atBroker[o] \in LiveAtBroker /\ Fillable(placed[o])
    /\ atBroker' = [atBroker EXCEPT ![o] = "filled"]
    /\ legs' = LegsAfter(o, placed[o])
    /\ UNCHANGED stock /\ UnchangedByBroker

\* Some contracts of a resting order trade; the rest keeps working.  An opening
\* order's legs are then live; a closing order leaves part of its target alive.
PartialFill(o) ==
    /\ BrokerTurn
    /\ o \in Submitted /\ atBroker[o] = "open" /\ Fillable(placed[o])
    /\ atBroker' = [atBroker EXCEPT ![o] = "partial"]
    /\ legs' = IF Type(o) \in OpeningTypes THEN LegsAfter(o, placed[o]) ELSE legs
    /\ UNCHANGED stock /\ UnchangedByBroker

\* What is left of a live order when it ends.
Ended(status) == CASE status \notin LiveAtBroker -> status
                   [] status = "partial"         -> "part_cancelled"
                   [] OTHER                      -> "cancelled"

\* An order ends within the session: rejected, or its cancel went through.
EndOrder(o) ==
    /\ BrokerTurn
    /\ o \in Submitted /\ atBroker[o] \in LiveAtBroker
    /\ OrdersEndMidDay \/ atBroker[o] = "cancelling"
    /\ atBroker' = [atBroker EXCEPT ![o] = Ended(@)]
    /\ UNCHANGED <<legs, stock>> /\ UnchangedByBroker

\* Expirations and assignments are processed overnight: the bot does not tick
\* and no order is working.
Overnight == phase = "between" /\ \A o \in Submitted : atBroker[o] \notin LiveAtBroker

\* An option leg expires worthless.  A vertical's legs go together; a long call
\* bought to stand behind a short one expires after it.
Expire(o) ==
    /\ Overnight
    /\ o \in Submitted /\ (Type(o) = "BTO" => LongsExpire)
    /\ \E gone \in SUBSET legs[o] \ {{}} :
         /\ legs' = [legs EXCEPT ![o] = @ \ gone]
         /\ Kind(Owner(o)) \in SpreadKinds \ {"calendar"} => gone = legs[o]
         /\ (Kind(Owner(o)) \in {"calendar", "pmcc"} /\ "long_call" \in gone) =>
               \A p \in Submitted : Owner(p) = Owner(o) => "short_call" \notin legs'[p]
    /\ UNCHANGED <<atBroker, stock>> /\ UnchangedByBroker

\* A short leg is assigned: a put delivers 100 shares, a call takes them.
Assign(o, leg) ==
    /\ Overnight
    /\ o \in Submitted /\ leg \in legs[o] \cap {"short_put", "short_call"}
    /\ legs' = [legs EXCEPT ![o] = @ \ {leg}]
    /\ stock' = IF leg = "short_put" THEN stock + 1 ELSE stock - 1
    /\ UNCHANGED atBroker /\ UnchangedByBroker

\* A night passes with the bot idle.  DAY orders do not outlive the session and
\* the day-scoped client order ids start afresh; after enough nights every open
\* cycle is older than the parity audit's minimum age.
NewDay ==
    /\ phase = "between"
    /\ atBroker' = [o \in OrderIds |-> Ended(atBroker[o])]
    /\ dayStart' = Len(placed) + 1
    /\ aged' \in {aged, {c \in OrderIds : cycle[c].status = "open"}}
    /\ UNCHANGED <<placed, legs, stock, dbVars, phase, cursor, readVars, todoRows, routeVars>>

BrokerStep ==
    \E o \in OrderIds :
        \/ Fill(o) \/ PartialFill(o) \/ EndOrder(o) \/ Expire(o)
        \/ \E leg \in Legs : Assign(o, leg)
=============================================================================
