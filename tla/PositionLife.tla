---------------------------- MODULE PositionLife ----------------------------
(***************************************************************************)
(* What the bot promises about the positions on a symbol.  A position is   *)
(* named by the order that enters it.  An owner has one in progress at a   *)
(* time, from its entry order to the end of its cycle; the books end it    *)
(* only when its contracts are gone, contracts that an entry leaves behind *)
(* go to the operator, and what the operator has, the bot neither adds to  *)
(* nor closes until an order of it fills.                                  *)
(***************************************************************************)

CONSTANTS
    Owners, \* the strategies
    Orders  \* the numbers of all orders

VARIABLES
    entries,    \* the entry orders of each owner
    stage,      \* how far the position of each order has come
    contracts,  \* the positions with contracts alive at the broker
    handed      \* the owners whose positions the operator has

lifeVars == <<entries, stage, contracts, handed>>

InProgress == {"entering", "held", "leaving"}
Current(s) == {o \in entries[s] : stage[o] \in InProgress}

LifeInit ==
    /\ entries = [s \in Owners |-> {}]
    /\ stage = [o \in Orders |-> "none"]
    /\ contracts = {} /\ handed = {}

-----------------------------------------------------------------------------
Moves(o, from, to) == stage[o] \in from /\ stage' = [stage EXCEPT ![o] = to]

\* The operator may be given the owner's position, or may get rid of it.
MayHandOver(s) == handed' \in {handed, handed \cup {s}}
MayReturn(s)   == handed' \in {handed, handed \ {s}}

\* An entry order goes out.
Enter(s, o) ==
    /\ Current(s) = {} /\ s \notin handed
    /\ Moves(o, {"none"}, "entering")
    /\ entries' = [entries EXCEPT ![s] = @ \cup {o}]
    /\ UNCHANGED <<contracts, handed>>

\* The market: an entry order trades, in part or whole; contracts are closed,
\* expire or are assigned.
Trade(o) ==
    /\ stage[o] = "entering" /\ contracts' = contracts \cup {o}
    /\ UNCHANGED <<entries, stage, handed>>

Vanish(o) == contracts' = contracts \ {o} /\ UNCHANGED <<entries, stage, handed>>

\* The entry is booked as filled, or it ended before.
Book(s, o) ==
    /\ Moves(o, {"entering"}, "held") /\ MayReturn(s)
    /\ UNCHANGED <<entries, contracts>>

Abandon(s, o) ==
    /\ Moves(o, {"entering"}, "over") /\ MayHandOver(s)
    /\ o \in contracts => s \in handed'
    /\ UNCHANGED <<entries, contracts>>

\* A close goes out, and ends without effect.
Leave(s, o) ==
    /\ s \notin handed
    /\ Moves(o, {"held"}, "leaving")
    /\ UNCHANGED <<entries, contracts, handed>>

Stay(s, o) ==
    /\ Moves(o, {"leaving"}, "held") /\ MayHandOver(s)
    /\ UNCHANGED <<entries, contracts>>

\* The position is over: closed, or found expired or called away.
Exit(s, o) ==
    /\ o \notin contracts
    /\ Moves(o, {"held", "leaving"}, "over") /\ MayReturn(s)
    /\ UNCHANGED <<entries, contracts>>

\* A call on the position trades.
Resume(s) ==
    /\ Current(s) # {} /\ handed' = handed \ {s}
    /\ UNCHANGED <<entries, stage, contracts>>

\* The operator is given positions, or flags of positions.
HandOver ==
    /\ UNCHANGED <<entries, stage, contracts>>
    /\ handed \subseteq handed' /\ handed' \subseteq Owners

LifeNext ==
    \/ HandOver
    \/ \E s \in Owners, o \in Orders : Enter(s, o)
    \/ \E s \in Owners : \E o \in entries[s] :
         Book(s, o) \/ Abandon(s, o) \/ Leave(s, o) \/ Stay(s, o) \/ Exit(s, o)
    \/ \E o \in Orders : Trade(o) \/ Vanish(o)
    \/ \E s \in Owners : Resume(s)

LifeSpec == LifeInit /\ [][LifeNext]_lifeVars

-----------------------------------------------------------------------------
\* One position of an owner is in progress at a time.
OneInProgress == \A s \in Owners : \A o, p \in Current(s) : o = p

\* Contracts alive at the broker are those of a position in progress, or the
\* operator has them.
NoneForgotten ==
    \A s \in Owners : \A o \in entries[s] \cap contracts :
        stage[o] \in InProgress \/ s \in handed

\* Why they hold: an order enters once and for one owner, and while contracts of
\* a position that is over are alive, the owner has the operator and no other.
LifeTypeOK ==
    /\ entries \in [Owners -> SUBSET Orders]
    /\ stage \in [Orders -> {"none", "over"} \cup InProgress]
    /\ handed \subseteq Owners

EntersOnce ==
    \A s \in Owners : \A o \in entries[s] :
        stage[o] # "none" /\ \A t \in Owners : o \in entries[t] => t = s

LeftBehind ==
    \A s \in Owners : \A o \in entries[s] \cap contracts :
        stage[o] = "over" => s \in handed /\ Current(s) = {}

LifeInv == LifeTypeOK /\ EntersOnce /\ OneInProgress /\ LeftBehind
=============================================================================
