------------------------------- MODULE Safety -------------------------------
(***************************************************************************)
(* What the bot must get right about money: positions the broker holds are *)
(* in front of someone, no exposure is put on twice, calls are covered,    *)
(* and the cycle ledger tells the truth.                                   *)
(***************************************************************************)
EXTENDS WheelBot

\* The reconcile pass is over and no order has been routed since.
Settled == phase = "rolling" /\ todoRows = Strategies /\ plan = <<>>

OperatorOwned(s) == row[s].state \in OperatorStates

Tracked(s) == row[s].state \notin AbandonedStates \cup {"NONE"}

\* After a reconcile pass, a strategy with option legs alive at the broker has a
\* row in a state that carries exposure (managed by the bot or by the operator).
\* This is what failed when nine cycles went IDLE while their contracts lived on.
ExposureTracked == Settled => \A s \in Strategies : LegsAlive(s) # {} => Tracked(s)

\* After a reconcile pass every open cycle is the current cycle of its
\* strategy's row, unless the operator owns the row: no cycle is orphaned.
NoOrphanCycle ==
    Settled => \A c \in Submitted :
        cycle[c].status = "open" => row[Owner(c)].cycle = c \/ OperatorOwned(Owner(c))

EntryTypes == {"STO_PUT", "MLEG_OPEN", "BTO"}

Outstanding(o) == atBroker[o] \in LiveAtBroker \/ legs[o] # {}

\* A strategy never has two entries working or alive at the broker at once.
OneEntryAtATime ==
    \A s \in Strategies : \A o, p \in Submitted :
        (/\ Owner(o) = s /\ Type(o) \in EntryTypes /\ Outstanding(o)
         /\ Owner(p) = s /\ Type(p) \in EntryTypes /\ Outstanding(p)) => o = p

\* The contracts of one opening order are never under two working closes.
OneCloseAtATime ==
    \A o, p \in LocallyLive :
        (Type(o) \in ClosingTypes /\ placed[o] = placed[p]) => o = p

\* The calls strategies of a kind have sold or are trying to sell.
CallsSold(S) == {o \in Submitted : /\ Owner(o) \in S /\ Type(o) = "STO_CALL"
                                   /\ \/ atBroker[o] \in {"open", "cancelling"}
                                      \/ "short_call" \in legs[o]}

LongCalls(S) == {o \in Submitted : Owner(o) \in S /\ Type(o) = "BTO" /\ legs[o] # {}}

\* A call the bot has sold, or is trying to sell, is covered: the wheels' calls
\* by the stock in the account, a PMCC's call by its own long call.
CallsCovered ==
    /\ LET sold == CallsSold({s \in Strategies : Kind(s) = "wheel"})
       IN  sold # {} => Cardinality(sold) <= stock
    /\ \A s \in Strategies : Kind(s) = "pmcc" =>
          Cardinality(CallsSold({s})) <= Cardinality(LongCalls({s}))

\* A fill opens at most one wheel_cycles row, however often it is looked at.
NoDuplicateCycle == \A c \in OrderIds : cycle[c].status # "duplicated"

\* An ended cycle keeps the outcome it was ended with.
EndedCyclesAreFinal ==
    [][\A c \in OrderIds : cycle[c].status = "ended" => cycle'[c] = cycle[c]]_botVars

\* A cycle booked as expired was not bought back: no closing order for its
\* opening contracts filled at the broker.
ExpiredMeansExpired ==
    \A c \in Submitted : cycle[c].outcome = "expired" =>
        \A o \in Submitted : ~(/\ Type(o) \in ClosingTypes /\ placed[o].target = c
                               /\ atBroker[o] = "filled")

\* Every fill the database knows of that trades an ended cycle's contracts is
\* booked to that cycle, so that its P&L counts both sides.
EndedCyclesAreComplete ==
    \A c \in Submitted : cycle[c].status = "ended" =>
        \A o \in Submitted :
            (Type(o) \in ClosingTypes /\ placed[o].target # None
             /\ local[o].status = "FILLED" /\ dispatching # o
             /\ local[placed[o].target].cycle = c) => local[o].cycle = c

\* After a reconcile pass every fill in the orders table is booked to a cycle, or
\* the operator owns the row: no fill is known and yet without effect.
FillsAreBooked ==
    Settled => \A o \in LocallyKnown :
        local[o].status = "FILLED" => local[o].cycle # None \/ OperatorOwned(Owner(o))

\* A row the operator owns is only moved by the fill of one of its own orders:
\* never by a cancel, an inferred expiration, a self-heal or a new order.
OperatorRowsRespected ==
    [][\A s \in Strategies :
         (OperatorOwned(s) /\ row'[s].state # row[s].state) =>
            /\ dispatching # None
            /\ Owner(dispatching) = s
            /\ answer[dispatching] = "FILLED"]_botVars

-----------------------------------------------------------------------------
(* The positions on the symbol, as module PositionLife describes them. *)

EntriesOf(s) == {o \in Submitted : Owner(o) = s /\ Type(o) \in EntryTypes}
EntryOrders  == [s \in Strategies |-> EntriesOf(s)]

\* The bot has still to hear how the order ends.
Live(o) == local[o].status \in LiveStatuses \/ dispatching = o \/ routing.order = o

BeingClosed(c) ==
    \E o \in Submitted : Type(o) \in ClosingTypes /\ placed[o].target = c /\ Live(o)

StageOf(o) ==
    CASE o \notin Submitted \/ Type(o) \notin EntryTypes -> "none"
      [] o \in Submitted /\ Type(o) \in EntryTypes /\ cycle[o].status = "open" ->
            IF BeingClosed(o) THEN "leaving" ELSE "held"
      [] o \in Submitted /\ Type(o) \in EntryTypes /\ cycle[o].status = "none" /\ Live(o) ->
            "entering"
      [] OTHER -> "over"

StageOfOrders == [o \in OrderIds |-> StageOf(o)]

InAccount    == {o \in Submitted : Type(o) \in EntryTypes /\ legs[o] # {}}
WithOperator == {s \in Strategies : OperatorOwned(s)}

Life == INSTANCE PositionLife WITH
            Owners    <- Strategies,
            Orders    <- OrderIds,
            entries   <- EntryOrders,
            stage     <- StageOfOrders,
            contracts <- InAccount,
            handed    <- WithOperator

\* Each strategy has one position at a time, from its entry order to the end of
\* its cycle; the books end it when its contracts are gone, and what a part-filled
\* entry leaves behind is the operator's, whom only a fill takes it from.
ImplementsPositionLife == Life!LifeSpec
=============================================================================
