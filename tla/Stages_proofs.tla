---------------------------- MODULE Stages_proofs ----------------------------
(***************************************************************************)
(* In an undisturbed environment every strategy's position is in one of a  *)
(* few stages, and the database, the broker and the row agree on which.    *)
(* This module states that invariant and proves it for the steps of the    *)
(* broker, the calendar and the router; Exposure_proofs has the reconcile  *)
(* pass and the theorems.                                                  *)
(***************************************************************************)
EXTENDS Ledger_proofs, SequenceTheorems, WellFoundedInduction

\* The environment in which the books are exact. Beside each exclusion is a
\* property that a run of TLC sees fail when that one is dropped.
Undisturbed ==
    /\ ~OrdersGoStale                                 \* OneCloseAtATime
    /\ ~OrdersEndMidDay                               \* OneCloseAtATime
    /\ ~AnswersLost                                   \* ExposureTracked
    /\ ~ClosesWithOpens                               \* ExposureTracked
    /\ SubmitAnswers \subseteq {"open"}               \* FillsAreBooked
    /\ "ROLL" \notin RollActions                      \* OneEntryAtATime
    /\ "orders" \notin BrokerMovesAt                  \* ExposureTracked
    /\ CrashAt \cap {"dispatching", "routing"} = {}   \* FillsAreBooked, ExposureTracked

-----------------------------------------------------------------------------
(* The accounts an order appears in. *)

\* Ended at the broker without filling whole.
Dead == {"cancelled", "part_cancelled"}

\* The order's fill has had its effect: it is booked to a cycle.
Booked(o) == local[o].cycle # None

\* A live order whose fill can still come: a close needs something to close.
Effective(o) ==
    /\ Live(o)
    /\ Type(o) \in ClosingTypes => legs[placed[o].target] # {} \/ atBroker[o] = "filled"

Own(s)      == {o \in Submitted : Owner(o) = s}
Working(s)  == {o \in Own(s) : Effective(o)}
Carrying(s) == {o \in Own(s) : legs[o] # {}}
OpenOf(s)   == {c \in Own(s) : cycle[c].status = "open"}
CallsOf(s)  == {o \in Own(s) : Type(o) = "STO_CALL"}

\* The close of opening order t, and the orders submitted for it.
CloseFor(t) == Proposal(Owner(t), ClosingTypeOf(Type(t)), t)
ClosesOf(t) == {o \in Submitted : placed[o] = CloseFor(t)}

EntryTypeOf(kind) == CASE kind = "wheel"         -> "STO_PUT"
                       [] kind \in SpreadKinds   -> "MLEG_OPEN"
                       [] OTHER                  -> "BTO"

-----------------------------------------------------------------------------
(* What holds of each order. *)

\* The database and the broker agree on how far an order has come, and on the
\* day it belongs to.
StatusInv ==
    /\ dayStart <= Len(placed) + 1
    /\ \A o \in OrderIds \ Submitted : ~Booked(o)
    /\ \A o \in Submitted :
         /\ local[o].status = "none" <=> routing.order = o /\ routing.next = "persist"
         /\ local[o].status = "CANCELLED" => atBroker[o] \in Dead
         /\ Booked(o) <=> local[o].status = "FILLED" /\ dispatching # o
         /\ atBroker[o] # "cancelling"
         /\ atBroker[o] \in Dead => o < dayStart
         /\ atBroker[o] \in LiveAtBroker => o >= dayStart

\* A terminal answer is final, and only such an answer is dispatched.
AnswersInv ==
    /\ \A o \in todo :
         /\ answer[o] = "CANCELLED" => atBroker[o] \in Dead
         /\ local[o].status \in {"FILLED", "CANCELLED"} => answer[o] = local[o].status
    /\ dispatching # None => local[dispatching].status \in {"FILLED", "CANCELLED"}

\* Legs are alive only of orders that traded.
LegsInv ==
    /\ \A o \in OrderIds : legs[o] # {} => atBroker[o] \in {"partial", "filled", "part_cancelled"}
    /\ \A o \in Submitted : legs[o] \subseteq LegsOpenedBy(Kind(Owner(o)), Type(o))

\* A strategy enters with one type of order, and two kinds sell calls.
KindsInv ==
    \A o \in Submitted :
        /\ Type(o) \in EntryTypes => Type(o) = EntryTypeOf(Kind(Owner(o)))
        /\ Type(o) = "STO_CALL" => Kind(Owner(o)) \in {"wheel", "pmcc"}

\* Orders are booked to a cycle of their own strategy, entries to their own.
TagsInv ==
    /\ \A o \in Submitted : Booked(o) =>
         /\ local[o].cycle \in Own(Owner(o))
         /\ Type(local[o].cycle) \in EntryTypes
         /\ Booked(local[o].cycle)
         /\ Type(o) \in EntryTypes => local[o].cycle = o
    /\ \A c \in Submitted : cycle[c].status # "none" => Type(c) \in EntryTypes /\ Booked(c)
    /\ \A c \in OrderIds : cycle[c].status \in {"none", "open"} => cycle[c].outcome = "none"

\* What a closing order o closes, and what its fill has done.
CloseIsTrue(o, t) ==
    /\ t \in Submitted /\ Type(t) \in OpeningTypes /\ placed[o] = CloseFor(t) /\ Booked(t)
    /\ atBroker[o] = "filled" => legs[t] = {}
    /\ Booked(o) => local[o].cycle = local[t].cycle
    /\ Booked(o) /\ Type(t) \in EntryTypes => cycle[t].status = "ended" /\ cycle[t].outcome # "expired"
    /\ Live(o) /\ Type(o) = "STC" => cycle[t].status = "open"

ClosesInv ==
    \A o \in Submitted : Type(o) \in ClosingTypes => CloseIsTrue(o, placed[o].target)

\* No contracts are under two live closes.
OneCloseInv ==
    \A o, p \in Submitted :
        Type(o) \in ClosingTypes /\ placed[o] = placed[p] /\ Live(o) /\ Live(p) => o = p

ExpiredInv ==
    \A c \in Submitted : cycle[c].outcome = "expired" =>
        legs[c] = {} /\ \A o \in ClosesOf(c) : atBroker[o] # "filled"

\* Yesterday's orders are heard of before anything is concluded or submitted.
FreshInv ==
    /\ phase \in {"diffing", "audit", "rolling", "sweeping", "proposing"} =>
         \A o \in LocallyLive : o >= dayStart
    /\ phase = "processing" =>
         \A o \in LocallyLive : o >= dayStart \/ (o \in todo /\ answer[o] \in {"FILLED", "CANCELLED"})
    /\ \A o \in Submitted : Live(o) /\ o < dayStart => dayStart = Len(placed) + 1

\* What is planned is still what the row asks for.
Wanted(s) ==
    Opens(s) \cup Closes(s)
      \cup (IF row[s].state \in {"CSP_OPEN", "CC_OPEN"} THEN CloseOf(s, ShortTypes) ELSE {})

PlanInv ==
    /\ Len(plan) <= 1
    /\ plan # <<>> /\ routing = NotRouting => Head(plan) \in Wanted(Head(plan).strategy)
    /\ routing # NotRouting =>
         /\ routing.next # "none"
         /\ plan = <<placed[routing.order]>>
         /\ routing.order >= dayStart
         /\ atBroker[routing.order] = "open" /\ legs[routing.order] = {}
         /\ routing.next = "upsert" => local[routing.order].status = "PENDING"

\* The leg of order o would show in the position snapshot.
Shown(o) == CASE Type(o) = "STO_PUT"  -> snapshot.put
              [] Type(o) = "STO_CALL" -> snapshot.call
              [] OTHER                -> snapshot # NoSnapshot

\* The snapshot is older than the orders: it shows what they say is alive.
SnapInv ==
    /\ phase = "orders" => \A o \in Submitted : legs[o] # {} => Shown(o)
    /\ phase \in {"processing", "diffing"} => \A o \in Submitted :
         /\ (local[o].status = "FILLED" \/ (o \in todo /\ answer[o] = "FILLED")) /\ legs[o] # {} =>
               Shown(o)
         /\ (Type(o) \in ClosingTypes /\ o \in LocallyLive /\ atBroker[o] = "filled"
             /\ ~(o \in todo /\ answer[o] = "FILLED")) => Shown(placed[o].target)

-----------------------------------------------------------------------------
(* The stages of a strategy's position. *)

Stages == {"flat", "entering", "holding", "resting", "selling", "called", "phantom", "stuck"}

\* The states a row of each kind shows in a stage; a stuck one is the operator's.
StatesOf(kind, g) ==
    CASE g = "flat"     -> {"NONE", "IDLE"} \cup (IF kind \in SpreadKinds THEN {"SPREAD_CLOSED"} ELSE {})
      [] g = "entering" -> (CASE kind = "wheel" -> {"CSP_PENDING"}
                              [] kind = "pmcc"  -> {"PMCC_LONG_PENDING"}
                              [] kind = "swing" -> {"SWING_PENDING"}
                              [] OTHER          -> {"SPREAD_PENDING"})
      [] g = "holding"  -> (CASE kind = "wheel" -> {"CSP_OPEN"}
                              [] kind = "pmcc"  -> {"PMCC_CLOSING"}
                              [] kind = "swing" -> {"SWING_OPEN"}
                              [] OTHER          -> {"SPREAD_OPEN"})
      [] g = "resting"  -> (CASE kind = "wheel" -> {"SHARES_HELD"}
                              [] kind = "pmcc"  -> {"PMCC_LONG_OPEN"}
                              [] OTHER          -> {})
      [] g = "selling"  -> (CASE kind = "wheel" -> {"CC_PENDING"}
                              [] kind = "pmcc"  -> {"PMCC_SHORT_PENDING"}
                              [] OTHER          -> {})
      [] g = "called"   -> (CASE kind = "wheel" -> {"CC_OPEN"}
                              [] kind = "pmcc"  -> {"PMCC_BOTH_OPEN"}
                              [] OTHER          -> {})
      [] g = "phantom"  -> IF kind \in SpreadKinds THEN {"SPREAD_OPEN"} ELSE {}
      [] OTHER          -> {}

CallKinds == {"wheel", "pmcc"}

\* What lies under a call: a diagonal's long call, or stock.
Under(s) == IF Kind(s) = "pmcc" THEN {row[s].cycle} ELSE {}

NoPointer(s) == Kind(s) \in SpreadKinds => row[s].cycle = None

LatestCall(s, o) == o \in CallsOf(s) /\ (\A q \in CallsOf(s) : q <= o) /\ row[s].cycle < o

Flat(s) == Working(s) = {} /\ Carrying(s) = {} /\ OpenOf(s) = {} /\ NoPointer(s)

Entering(s) ==
    /\ OpenOf(s) = {} /\ NoPointer(s)
    /\ \E o \in Own(s) : Type(o) \in EntryTypes /\ Working(s) = {o} /\ Carrying(s) \subseteq {o}

Holding(s) ==
    LET c == row[s].cycle
    IN  /\ OpenOf(s) = {c} /\ Carrying(s) \subseteq {c} /\ Working(s) \subseteq ClosesOf(c)
        /\ Kind(s) = "wheel" => \A q \in CallsOf(s) : local[q].cycle # c

Resting(s) ==
    /\ Kind(s) \in CallKinds
    /\ OpenOf(s) = {row[s].cycle} /\ Working(s) = {} /\ Carrying(s) \subseteq Under(s)

Selling(s) ==
    /\ Kind(s) \in CallKinds
    /\ OpenOf(s) = {row[s].cycle} /\ Carrying(s) \subseteq Under(s) \cup Working(s)
    /\ \E o \in Own(s) : /\ LatestCall(s, o) /\ ~Booked(o) /\ Working(s) \subseteq {o}
                         /\ Kind(s) = "wheel" => Working(s) = {o}

Called(s) ==
    /\ Kind(s) \in CallKinds
    /\ OpenOf(s) = {row[s].cycle}
    /\ \E k \in Own(s) : /\ LatestCall(s, k) /\ local[k].cycle = row[s].cycle
                         /\ Working(s) \subseteq ClosesOf(k)
                         /\ \A q \in ClosesOf(k) : ~Booked(q)
                         /\ Carrying(s) \subseteq Under(s) \cup {k}

Phantom(s) ==
    /\ Kind(s) \in SpreadKinds
    /\ OpenOf(s) = {} /\ row[s].cycle = None /\ Carrying(s) \subseteq Working(s)
    /\ \A o \in Working(s) : Type(o) = "MLEG_OPEN" /\ o < dayStart
    /\ \A o, p \in Working(s) : o = p

Stuck(s) ==
    /\ Working(s) = {}
    /\ \A o, p \in Carrying(s) : Type(o) = Type(p) => o = p
    /\ (Kind(s) = "pmcc" /\ \E o \in Carrying(s) : Type(o) = "STO_CALL") => OpenOf(s) = {row[s].cycle}

InStage(s, g) ==
    CASE g = "flat"     -> Flat(s)
      [] g = "entering" -> Entering(s)
      [] g = "holding"  -> Holding(s)
      [] g = "resting"  -> Resting(s)
      [] g = "selling"  -> Selling(s)
      [] g = "called"   -> Called(s)
      [] g = "phantom"  -> Phantom(s)
      [] OTHER          -> Stuck(s)

\* The row's state, or the one the submission in progress is about to write,
\* is one of the stage's; or the operator has taken the row over.
Routes(s) == routing.next # "none" /\ Owner(routing.order) = s

Shows(s, g) ==
    IF Routes(s)
    THEN PendingStateFor(Kind(s), Type(routing.order), row[s].state) \in StatesOf(Kind(s), g)
    ELSE row[s].state \in StatesOf(Kind(s), g) \cup {"MANUAL_INTERVENTION"}

Staged(s) == \E g \in Stages : Shows(s, g) /\ InStage(s, g)

StagesInv == \A s \in Strategies : Staged(s)

-----------------------------------------------------------------------------
(* The invariant, and what it says of types. *)

\* What holds of the orders, and with the stages and the ledger, everything.
OrdersAgree ==
    /\ StatusInv /\ AnswersInv /\ LegsInv /\ KindsInv /\ TagsInv /\ ClosesInv
    /\ OneCloseInv /\ ExpiredInv /\ FreshInv /\ PlanInv /\ SnapInv

ExactInv == Inv /\ OrdersAgree /\ StagesInv

\* The numbers, owners and types of what was submitted.
LEMMA Typing ==
    ASSUME Inv
    PROVE  /\ Len(placed) \in Nat /\ dayStart \in Nat /\ dayStart >= 1
           /\ placed \in Seq(Proposals) /\ plan \in Seq(Proposals)
           /\ Submitted \subseteq OrderIds /\ None \notin OrderIds /\ None \in Ref
           /\ \A o \in Submitted : /\ o \in Nat /\ 1 <= o /\ o <= Len(placed) /\ o # None
                                    /\ o \in OrderIds /\ placed[o] \in Proposals
                                    /\ Owner(o) \in Strategies /\ Type(o) \in OrderTypes
           /\ row \in [Strategies -> RowType] /\ local \in [OrderIds -> LocalType]
           /\ cycle \in [OrderIds -> CycleType]
           /\ atBroker \in [OrderIds -> BrokerStatuses] /\ legs \in [OrderIds -> SUBSET Legs]
<1> USE DEF Inv, TypeInv, TypeOK
<1>1. Len(placed) \in Nat /\ placed \in Seq(Proposals) /\ plan \in Seq(Proposals)
  BY DEF BrokerTypeOK, RouteTypeOK
<1>2. dayStart \in Nat /\ dayStart >= 1 /\ None \notin OrderIds /\ None \in Ref
  BY MaxOrdersAssumption DEF TickTypeOK, None, OrderIds, Ref
<1>3. \A o \in Submitted : o \in Nat /\ 1 <= o /\ o <= Len(placed) /\ o # None
  BY <1>1 DEF Submitted, None
<1> QED
  BY <1>1, <1>2, <1>3, SubmittedType DEF BrokerTypeOK, DatabaseTypeOK

\* When nothing is processed, planned or in submission.
LEMMA Idle ==
    ASSUME Inv, PlanInv
    PROVE  /\ routing = NotRouting <=> routing.next = "none"
           /\ routing = NotRouting => \A o \in Submitted : routing.order # o
           /\ routing # NotRouting =>
                 /\ plan # <<>> /\ routing.order \in Submitted
                 /\ todo = {} /\ dispatching = None
           /\ phase # "processing" => todo = {} /\ dispatching = None
           /\ phase \notin {"rolling", "proposing"} => plan = <<>> /\ routing = NotRouting
           /\ dispatching = None => \A o \in Submitted : dispatching # o
<1>1. routing = NotRouting => routing.next = "none" /\ routing.order = None
  BY DEF NotRouting
<1>2. routing # NotRouting => plan # <<>> /\ routing.order \in Submitted
  BY DEF PlanInv, Inv, TypeInv, Shape
<1>3. phase # "processing" => todo = {} /\ dispatching = None
  BY DEF Inv, Ledger, AnswerInv, TypeInv, Shape
<1>4. plan # <<>> => phase \in {"rolling", "proposing"}
  BY DEF Inv, Ledger, RoutingInv
<1> QED
  BY <1>1, <1>2, <1>3, <1>4, Typing DEF PlanInv

-----------------------------------------------------------------------------
(* A step that leaves the strategy in its stage. *)

\* The strategy's orders stay what they are; closes submitted meanwhile have no
\* effect yet.
OwnKept(s) ==
    /\ Own(s)' = Own(s)
    /\ \A o \in Own(s) : /\ Type(o)' = Type(o) /\ local'[o].cycle = local[o].cycle
                         /\ ClosesOf(o) \subseteq ClosesOf(o)'
                         /\ \A q \in ClosesOf(o)' : Booked(q)' => q \in ClosesOf(o) /\ Booked(q)
    /\ OpenOf(s)' = OpenOf(s)

\* Working orders come to an end or trade, and openings do not end unheard.
WorkKept(s) ==
    /\ Working(s)' \subseteq Working(s)
    /\ \A o \in Working(s) : Type(o) \in OpeningTypes => o \in Working(s)'
    /\ Carrying(s)' \subseteq Carrying(s) \cup {o \in Working(s) : Type(o) \in OpeningTypes}

\* What the row shows still fits, and days only pass.
RowKept(s) ==
    /\ row'[s].cycle = row[s].cycle
    /\ \A g \in Stages : Shows(s, g) => Shows(s, g)'
    /\ dayStart \in Nat /\ dayStart' \in Nat /\ dayStart <= dayStart'

\* The types of orders are opening or closing, entries and calls are opening.
LEMMA TypesApart ==
    /\ OpeningTypes \cap ClosingTypes = {}
    /\ EntryTypes \subseteq OpeningTypes /\ "STO_CALL" \in OpeningTypes \ EntryTypes
    /\ \A type : ClosingTypeOf(type) \in ClosingTypes
    /\ \A type \in OpeningTypes : type = "STO_CALL" \/ type \in EntryTypes
  BY DEF OpeningTypes, ClosingTypes, EntryTypes, ClosingTypeOf

\* The closes of an order close it.
LEMMA ClosesClose ==
    \A t : \A q \in ClosesOf(t) :
        /\ q \in Submitted /\ Type(q) = ClosingTypeOf(Type(t)) /\ Type(q) \in ClosingTypes
        /\ Owner(q) = Owner(t) /\ placed[q].target = t
<1>1. \A t : \A q \in ClosesOf(t) : q \in Submitted /\ placed[q] = CloseFor(t)
  BY DEF ClosesOf
<1>2. \A t : /\ CloseFor(t).strategy = Owner(t) /\ CloseFor(t).target = t
              /\ CloseFor(t).type = ClosingTypeOf(Type(t))
  BY DEF CloseFor, Proposal
<1> QED
  BY <1>1, <1>2, TypesApart DEF Owner, Type

\* What only moves on leaves the strategy in its stage.
LEMMA StageFrame ==
    ASSUME NEW s \in Strategies, Staged(s), OwnKept(s), WorkKept(s), RowKept(s),
           \A o \in Submitted : o \in Nat
    PROVE  Staged(s)'
<1>1. PICK g \in Stages : Shows(s, g) /\ InStage(s, g)
  BY DEF Staged
<1>2. Shows(s, g)'
  BY <1>1 DEF RowKept
<1>3. Own(s) \subseteq Submitted /\ Working(s) \subseteq Own(s)
  BY DEF Own, Working
<1>4. CallsOf(s)' = CallsOf(s) /\ NoPointer(s) = NoPointer(s)' /\ Under(s)' = Under(s)
      /\ \A o \in Own(s) : LatestCall(s, o) => LatestCall(s, o)'
  BY DEF CallsOf, OwnKept, NoPointer, Under, RowKept, LatestCall, Kind
<1>5. Kind(s)' = Kind(s)
  BY DEF Kind
<1>6. ASSUME Flat(s) PROVE Flat(s)'
  BY <1>4, <1>6 DEF Flat, OwnKept, WorkKept
<1>7. ASSUME Entering(s) PROVE Entering(s)'
  <2>1. PICK o \in Own(s) : Type(o) \in EntryTypes /\ Working(s) = {o} /\ Carrying(s) \subseteq {o}
    BY <1>7 DEF Entering
  <2>2. Working(s)' = {o} /\ Carrying(s)' \subseteq {o}
    BY <2>1, TypesApart DEF WorkKept
  <2>3. o \in Own(s)' /\ Type(o)' \in EntryTypes /\ OpenOf(s)' = {}
    BY <1>7, <2>1 DEF OwnKept, Entering
  <2> QED
    BY <1>4, <1>7, <2>2, <2>3 DEF Entering
<1>8. ASSUME Holding(s) PROVE Holding(s)'
  <2> DEFINE c == row[s].cycle
  <2>1. /\ OpenOf(s) = {c} /\ Carrying(s) \subseteq {c} /\ Working(s) \subseteq ClosesOf(c)
        /\ Kind(s) = "wheel" => \A q \in CallsOf(s) : local[q].cycle # c
    BY <1>8 DEF Holding
  <2>2. c \in Own(s) /\ OpenOf(s)' = {c} /\ row'[s].cycle = c
    BY <2>1 DEF OwnKept, OpenOf, RowKept
  <2>3. \A o \in Working(s) : Type(o) \notin OpeningTypes
    BY <2>1, ClosesClose, TypesApart
  <2>4. Working(s)' \subseteq ClosesOf(c)' /\ Carrying(s)' \subseteq {c}
    BY <2>1, <2>2, <2>3 DEF OwnKept, WorkKept
  <2>5. Kind(s)' = "wheel" => \A q \in CallsOf(s)' : local'[q].cycle # c
    BY <1>4, <1>5, <2>1 DEF OwnKept, CallsOf
  <2> QED
    BY <2>2, <2>4, <2>5 DEF Holding, ClosesOf, CloseFor
<1>9. ASSUME Resting(s) PROVE Resting(s)'
  BY <1>4, <1>5, <1>9 DEF Resting, OwnKept, WorkKept, RowKept
<1>10. ASSUME Selling(s) PROVE Selling(s)'
  <2>1. PICK o \in Own(s) : /\ LatestCall(s, o) /\ ~Booked(o) /\ Working(s) \subseteq {o}
                            /\ Kind(s) = "wheel" => Working(s) = {o}
    BY <1>10 DEF Selling
  <2>2. Type(o) \in OpeningTypes
    BY <2>1, TypesApart DEF LatestCall, CallsOf
  <2>3. Working(s)' = Working(s) /\ Carrying(s)' \subseteq Under(s)' \cup Working(s)'
    BY <1>4, <1>10, <2>1, <2>2 DEF WorkKept, Selling
  <2>4. o \in Own(s)' /\ LatestCall(s, o)' /\ ~Booked(o)'
    BY <1>4, <2>1 DEF OwnKept, Booked
  <2>5. OpenOf(s)' = {row'[s].cycle}
    BY <1>10 DEF Selling, OwnKept, RowKept
  <2> QED
    BY <1>5, <1>10, <2>1, <2>3, <2>4, <2>5 DEF Selling
<1>11. ASSUME Called(s) PROVE Called(s)'
  <2>1. PICK k \in Own(s) : /\ LatestCall(s, k) /\ local[k].cycle = row[s].cycle
                            /\ Working(s) \subseteq ClosesOf(k)
                            /\ \A q \in ClosesOf(k) : ~Booked(q)
                            /\ Carrying(s) \subseteq Under(s) \cup {k}
    BY <1>11 DEF Called
  <2>2. \A o \in Working(s) : Type(o) \notin OpeningTypes
    BY <2>1, ClosesClose, TypesApart
  <2>3. Working(s)' \subseteq ClosesOf(k)' /\ Carrying(s)' \subseteq Under(s)' \cup {k}
    BY <1>4, <2>1, <2>2 DEF OwnKept, WorkKept
  <2>4. k \in Own(s)' /\ LatestCall(s, k)' /\ local'[k].cycle = row'[s].cycle
    BY <1>4, <2>1 DEF OwnKept, RowKept
  <2>5. \A q \in ClosesOf(k)' : ~Booked(q)'
    <3>1. \A q \in ClosesOf(k)' : Booked(q)' => q \in ClosesOf(k) /\ Booked(q)
      BY DEF OwnKept
    <3> QED
      BY <2>1, <3>1
  <2>6. OpenOf(s)' = {row'[s].cycle}
    BY <1>11 DEF Called, OwnKept, RowKept
  <2> QED
    BY <1>5, <1>11, <2>3, <2>4, <2>5, <2>6 DEF Called
<1>12. ASSUME Phantom(s) PROVE Phantom(s)'
  <2>1. /\ OpenOf(s) = {} /\ row[s].cycle = None /\ Carrying(s) \subseteq Working(s)
        /\ \A o \in Working(s) : Type(o) = "MLEG_OPEN" /\ o < dayStart
        /\ \A o, p \in Working(s) : o = p
    BY <1>12 DEF Phantom
  <2>2. Working(s)' = Working(s) /\ Carrying(s)' \subseteq Working(s)'
    BY <2>1 DEF WorkKept, OpeningTypes
  <2>3. \A o \in Working(s) : Type(o)' = "MLEG_OPEN" /\ o < dayStart'
    BY <1>3, <2>1 DEF OwnKept, RowKept
  <2> QED
    BY <1>5, <1>12, <2>1, <2>2, <2>3 DEF Phantom, OwnKept, RowKept
<1>13. ASSUME Stuck(s) PROVE Stuck(s)'
  <2>1. Working(s)' = {} /\ Carrying(s)' \subseteq Carrying(s)
    BY <1>13 DEF Stuck, WorkKept
  <2>2. Carrying(s) \subseteq Own(s)
    BY DEF Carrying
  <2>3. \A o \in Carrying(s)' : o \in Carrying(s) /\ Type(o)' = Type(o)
    BY <2>1, <2>2 DEF OwnKept
  <2>4. OpenOf(s)' = OpenOf(s) /\ row'[s].cycle = row[s].cycle
    BY DEF OwnKept, RowKept
  <2> QED
    BY <1>5, <1>13, <2>1, <2>3, <2>4 DEF Stuck
<1>14. InStage(s, g)'
  BY <1>1, <1>6, <1>7, <1>8, <1>9, <1>10, <1>11, <1>12, <1>13 DEF InStage, Stages
<1> QED
  BY <1>2, <1>14 DEF Staged

\* If neither orders, cycles nor bookings change, the strategy's orders are kept.
LEMMA OwnStays ==
    ASSUME NEW s \in Strategies, UNCHANGED <<placed, cycle>>,
           \A q \in Submitted : local'[q].cycle = local[q].cycle
    PROVE  OwnKept(s)
<1>1. Submitted' = Submitted /\ Own(s)' = Own(s) /\ OpenOf(s)' = OpenOf(s)
  BY DEF Submitted, Own, Owner, OpenOf
<1>2. \A o : Type(o)' = Type(o) /\ ClosesOf(o)' = ClosesOf(o)
  BY DEF Type, ClosesOf, CloseFor, Submitted, Owner
<1>3. \A q \in Submitted : Booked(q)' = Booked(q)
  BY DEF Booked
<1> QED
  BY <1>1, <1>2, <1>3 DEF OwnKept, Own, ClosesOf

\* If the row is untouched, or flagged while nothing is routed for it, what it
\* shows still fits.
LEMMA RowStays ==
    ASSUME Inv, NEW s \in Strategies, UNCHANGED <<placed, routing>>, dayStart' = dayStart,
           row'[s].cycle = row[s].cycle,
           row'[s].state = row[s].state \/ (row'[s].state = "MANUAL_INTERVENTION" /\ ~Routes(s))
    PROVE  RowKept(s)
<1>1. Routes(s)' = Routes(s) /\ Type(routing.order)' = Type(routing.order)
  BY DEF Routes, Owner, Type
<1>2. \A g \in Stages : Shows(s, g) => Shows(s, g)'
  BY <1>1 DEF Shows, Kind
<1> QED
  BY <1>2, Typing DEF RowKept

\* What a row asks for depends on the row and the orders table only.
LEMMA WantedStays ==
    ASSUME UNCHANGED <<placed, row, local>>
    PROVE  \A s : Wanted(s)' = Wanted(s)
  BY DEF Wanted, Opens, Closes, CloseOf, LatestFilled, LatestOf, Submitted, Type, Owner, Kind,
         WheelCloses, WheelOpens, PmccCloses, PmccOpens, SwingCloses, SwingOpens, SpreadCloses,
         SpreadOpens, InFlight, LocallyLive

-----------------------------------------------------------------------------
(* The broker and the calendar. *)

\* What the market or a night may do in an undisturbed environment: working
\* orders trade or end, a close takes everything off, other legs only vanish.
MarketMoves ==
    /\ UNCHANGED <<placed, row, local, cycle, phase, snapshot, answer, todo, dispatching,
                   plan, routing>>
    /\ routing = NotRouting /\ phase # "orders"
    /\ \/ dayStart' = dayStart
       \/ /\ dayStart' = Len(placed) + 1 /\ phase = "between"
          /\ \A o \in Submitted : atBroker'[o] \notin LiveAtBroker
    /\ \A o \in OrderIds :
         \/ atBroker'[o] = atBroker[o]
         \/ /\ atBroker[o] \in LiveAtBroker /\ dayStart' = dayStart
            /\ atBroker'[o] \in {"partial", "filled"}
         \/ /\ atBroker[o] \in LiveAtBroker /\ dayStart' = Len(placed) + 1
            /\ atBroker'[o] = IF atBroker[o] = "partial" THEN "part_cancelled" ELSE "cancelled"
    /\ \A o \in OrderIds :
         \/ legs'[o] \subseteq legs[o]
         \/ /\ o \in Submitted /\ atBroker[o] \in LiveAtBroker /\ Type(o) \in OpeningTypes
            /\ atBroker'[o] \in {"partial", "filled"}
            /\ legs'[o] = LegsOpenedBy(Kind(Owner(o)), Type(o))
    /\ \A o \in Submitted :
         (Type(o) \in ClosingTypes /\ atBroker'[o] = "filled" /\ atBroker[o] # "filled") =>
            legs[placed[o].target] # {} /\ legs'[placed[o].target] = {}

\* A filled order has no more legs than before, and so has a booked one.
LEMMA FilledOnlyShrink ==
    ASSUME ExactInv, MarketMoves
    PROVE  /\ \A o \in Submitted : atBroker[o] = "filled" => atBroker'[o] = "filled" /\ legs'[o] \subseteq legs[o]
           /\ \A o \in Submitted : local[o].status = "FILLED" \/ Booked(o) => atBroker[o] = "filled"
           /\ \A o \in Submitted : Type(o) \in ClosingTypes =>
                /\ placed[o].target \in Submitted /\ Booked(placed[o].target)
                /\ legs'[placed[o].target] \subseteq legs[placed[o].target]
<1> USE Typing DEF ExactInv, OrdersAgree
<1>1. \A o \in Submitted : atBroker[o] = "filled" => atBroker'[o] = "filled" /\ legs'[o] \subseteq legs[o]
  BY DEF MarketMoves, LiveAtBroker
<1>2. \A o \in Submitted : local[o].status = "FILLED" \/ Booked(o) => atBroker[o] = "filled"
  BY DEF StatusInv, Inv, Ledger, OrdersInv
<1>3. \A o \in Submitted : Type(o) \in ClosingTypes =>
         placed[o].target \in Submitted /\ Booked(placed[o].target)
  BY DEF ClosesInv, CloseIsTrue
<1> QED
  BY <1>1, <1>2, <1>3

\* A fill or a night keeps what holds of each order: terminal answers were
\* already terminal, and the snapshot shows no less than was alive then.
LEMMA MarketKeepsOrders ==
    ASSUME ExactInv, MarketMoves
    PROVE  OrdersAgree'
<1> USE Typing DEF ExactInv, OrdersAgree
<1>0. /\ Submitted' = Submitted /\ LocallyLive' = LocallyLive
      /\ \A o : /\ Type(o)' = Type(o) /\ Owner(o)' = Owner(o) /\ Live(o)' = Live(o)
                /\ Booked(o)' = Booked(o) /\ ClosesOf(o)' = ClosesOf(o) /\ CloseFor(o)' = CloseFor(o)
                /\ Shown(o)' = Shown(o)
  BY DEF MarketMoves, Submitted, LocallyLive, Type, Owner, Live, Booked, ClosesOf, CloseFor, Shown
<1>1. StatusInv'
  BY <1>0 DEF StatusInv, MarketMoves, LiveAtBroker, Dead, Booked
<1>2. AnswersInv'
  BY <1>0 DEF AnswersInv, MarketMoves, LiveAtBroker, Dead, Inv, TypeInv, Shape
<1>3. LegsInv'
  <2>1. \A o \in OrderIds : legs'[o] # {} => atBroker'[o] \in {"partial", "filled", "part_cancelled"}
    BY DEF LegsInv, MarketMoves, LiveAtBroker
  <2>2. \A o \in Submitted : legs'[o] \subseteq LegsOpenedBy(Kind(Owner(o)), Type(o))
    BY DEF LegsInv, MarketMoves
  <2> QED
    BY <1>0, <2>1, <2>2 DEF LegsInv, Kind
<1>4. KindsInv'
  BY <1>0 DEF KindsInv, Kind
<1>5. TagsInv'
  BY <1>0 DEF TagsInv, MarketMoves, Own, Booked
<1>6. ClosesInv'
  <2>1. SUFFICES ASSUME NEW o \in Submitted, Type(o) \in ClosingTypes, NEW t, t = placed[o].target
                 PROVE  CloseIsTrue(o, placed[o].target)'
    BY <1>0 DEF ClosesInv
  <2>2. CloseIsTrue(o, t)
    BY <2>1 DEF ClosesInv
  <2>3. atBroker'[o] = "filled" => legs'[t] = {}
    BY <2>1, <2>2, FilledOnlyShrink DEF MarketMoves, CloseIsTrue
  <2>4. placed'[o] = CloseFor(t)' /\ local' = local /\ cycle' = cycle
    BY <1>0, <2>2 DEF CloseIsTrue, MarketMoves
  <2>5. placed' = placed
    BY DEF MarketMoves
  <2> QED
    BY <1>0, <2>1, <2>2, <2>3, <2>4, <2>5 DEF CloseIsTrue
<1>7. OneCloseInv'
  BY <1>0 DEF OneCloseInv, MarketMoves
<1>8. ExpiredInv'
  <2>1. SUFFICES ASSUME NEW c \in Submitted, cycle[c].outcome = "expired"
                 PROVE  legs'[c] = {} /\ \A o \in ClosesOf(c) : atBroker'[o] # "filled"
    BY <1>0 DEF ExpiredInv, MarketMoves
  <2>2. legs[c] = {} /\ \A o \in ClosesOf(c) : atBroker[o] # "filled"
    BY <2>1 DEF ExpiredInv
  <2>3. cycle[c].status # "none" /\ atBroker[c] = "filled"
    BY <2>1, FilledOnlyShrink DEF TagsInv
  <2>4. legs'[c] = {}
    BY <2>2, <2>3, FilledOnlyShrink
  <2>5. \A o \in ClosesOf(c) : atBroker'[o] # "filled"
    BY <2>2, ClosesClose DEF MarketMoves
  <2> QED
    BY <2>4, <2>5
<1>9. FreshInv'
  BY <1>0 DEF FreshInv, MarketMoves
<1>10. PlanInv'
  <2>1. \A s : Wanted(s)' = Wanted(s)
    BY WantedStays DEF MarketMoves
  <2> QED
    BY <2>1 DEF PlanInv, MarketMoves
<1>11. SnapInv'
  <2>1. phase' # "orders"
    BY DEF MarketMoves
  <2>2. \A o \in Submitted : (o \in todo /\ answer[o] = "FILLED") => atBroker[o] = "filled"
    BY DEF Inv, Ledger, AnswerInv
  <2>3. SUFFICES ASSUME phase \in {"processing", "diffing"}, NEW o \in Submitted
                 PROVE  /\ (local[o].status = "FILLED" \/ (o \in todo /\ answer[o] = "FILLED"))
                              /\ legs'[o] # {} => Shown(o)
                        /\ (Type(o) \in ClosingTypes /\ o \in LocallyLive /\ atBroker'[o] = "filled"
                            /\ ~(o \in todo /\ answer[o] = "FILLED")) => Shown(placed[o].target)
    BY <1>0, <2>1 DEF SnapInv, MarketMoves
  <2>4. (local[o].status = "FILLED" \/ (o \in todo /\ answer[o] = "FILLED")) /\ legs'[o] # {} => Shown(o)
    BY <2>2, <2>3, FilledOnlyShrink DEF SnapInv
  <2>5. ASSUME Type(o) \in ClosingTypes, o \in LocallyLive, atBroker'[o] = "filled",
               ~(o \in todo /\ answer[o] = "FILLED")
        PROVE  Shown(placed[o].target)
    <3>1. CASE atBroker[o] = "filled"
      BY <2>3, <2>5, <3>1 DEF SnapInv
    <3>2. CASE atBroker[o] # "filled"
      <4> DEFINE t == placed[o].target
      <4>1. legs[t] # {} /\ t \in Submitted /\ Booked(t)
        BY <2>5, <3>2, FilledOnlyShrink DEF MarketMoves
      <4>2. local[t].status = "FILLED"
        BY <4>1 DEF StatusInv
      <4> QED
        BY <2>3, <4>1, <4>2 DEF SnapInv
    <3> QED
      BY <3>1, <3>2
  <2> QED
    BY <2>4, <2>5
<1> QED
  BY <1>1, <1>2, <1>3, <1>4, <1>5, <1>6, <1>7, <1>8, <1>9, <1>10, <1>11

\* A fill or a night keeps every strategy in its stage: stages leave open how
\* far a working order has come at the broker.
LEMMA MarketKeepsStages ==
    ASSUME ExactInv, MarketMoves
    PROVE  StagesInv'
<1> SUFFICES ASSUME NEW s \in Strategies
             PROVE  Staged(s)'
  BY DEF StagesInv
<1> USE Typing DEF ExactInv, OrdersAgree
<1>1. OwnKept(s)
  BY OwnStays DEF MarketMoves
<1>2. RowKept(s)
  <2>1. \A g \in Stages : Shows(s, g) => Shows(s, g)'
    BY DEF Shows, Routes, Owner, Type, Kind, MarketMoves
  <2>2. dayStart' \in Nat /\ dayStart <= dayStart'
    BY DEF MarketMoves, StatusInv
  <2> QED
    BY <2>1, <2>2 DEF RowKept, MarketMoves
<1>3. WorkKept(s)
  <2>1. \A o : Live(o)' = Live(o) /\ Type(o)' = Type(o)
    BY DEF Live, Type, MarketMoves
  <2>2. \A o \in Submitted : Effective(o)' => Effective(o)
    BY <2>1, FilledOnlyShrink DEF Effective, MarketMoves
  <2>3. \A o \in Submitted : Type(o) \in OpeningTypes /\ Effective(o) => Effective(o)'
    BY <2>1, TypesApart DEF Effective
  <2>4. Own(s)' = Own(s) /\ Own(s) \subseteq Submitted
    BY DEF Own, Owner, Submitted, MarketMoves
  <2>5. \A o \in Own(s) : legs'[o] # {} => legs[o] # {} \/ (o \in Working(s) /\ Type(o) \in OpeningTypes)
    <3>1. \A o \in Submitted : atBroker[o] \in LiveAtBroker => Live(o)
      BY DEF StatusInv, Live, LiveAtBroker, LiveStatuses, Dead, Inv, Ledger, OrdersInv, LocalType, LocalStatuses
    <3> QED
      BY <2>4, <3>1, TypesApart DEF MarketMoves, Working, Effective
  <2> QED
    BY <2>2, <2>3, <2>4, <2>5 DEF WorkKept, Working, Carrying
<1> QED
  BY <1>1, <1>2, <1>3, StageFrame DEF StagesInv

\* A close takes all its target's legs off.
LEMMA CloseTakesAll ==
    ASSUME ExactInv, NEW o \in Submitted, Type(o) \in ClosingTypes, NEW t, t = placed[o].target
    PROVE  /\ t \in OrderIds /\ LegsAfter(o, placed[o])[t] = {}
           /\ \A q \in OrderIds \ {t} : LegsAfter(o, placed[o])[q] = legs[q]
<1> USE Typing DEF ExactInv, OrdersAgree
<1>1. CloseIsTrue(o, t)
  BY DEF ClosesInv
<1>2. t \in Submitted /\ t \in OrderIds /\ Type(t) \in OpeningTypes /\ o \in ClosesOf(t)
  BY <1>1 DEF CloseIsTrue, ClosesOf
<1>3. Type(o) = ClosingTypeOf(Type(t))
  BY <1>2, ClosesClose
<1>4. legs[t] \subseteq LegsOpenedBy(Kind(Owner(t)), Type(t)) /\ legs[t] \subseteq Legs
  BY <1>2 DEF LegsInv
<1>5. legs[t] \ (CASE Type(o) = "BTC_PUT"  -> {"short_put"}
                   [] Type(o) = "BTC_CALL" -> {"short_call"}
                   [] Type(o) = "STC"      -> {"long_put", "long_call"}
                   [] OTHER                -> Legs) = {}
  BY <1>2, <1>3, <1>4 DEF ClosingTypeOf, OpeningTypes, LegsOpenedBy
<1>6. Type(o) \notin OpeningTypes
  BY TypesApart
<1>7. \A q \in OrderIds : LegsAfter(o, placed[o])[q] =
         IF q = t THEN legs[t] \ (CASE Type(o) = "BTC_PUT"  -> {"short_put"}
                                    [] Type(o) = "BTC_CALL" -> {"short_call"}
                                    [] Type(o) = "STC"      -> {"long_put", "long_call"}
                                    [] OTHER                -> Legs)
         ELSE legs[q]
  BY <1>2, <1>6 DEF LegsAfter, Type
<1> QED
  BY <1>2, <1>5, <1>7

\* The broker's steps are moves of the market.
LEMMA BrokerMovesMarket ==
    ASSUME ExactInv, Undisturbed, NEW o \in OrderIds,
           \/ Fill(o) \/ PartialFill(o) \/ EndOrder(o) \/ Expire(o)
           \/ \E leg \in Legs : Assign(o, leg)
    PROVE  MarketMoves
<1> USE Typing DEF ExactInv, OrdersAgree
<1>1. /\ UNCHANGED <<placed, row, local, cycle, phase, snapshot, answer, todo, dispatching,
                     plan, routing, dayStart>>
      /\ o \in Submitted
  BY DEF Fill, PartialFill, EndOrder, Expire, Assign, UnchangedByBroker, dbVars, timeVars,
         readVars, routeVars
<1>2. routing = NotRouting /\ phase # "orders"
  BY Idle DEF Fill, PartialFill, EndOrder, Expire, Assign, BrokerTurn, Overnight, Undisturbed
<1>3. CASE Fill(o) \/ PartialFill(o)
  <2>1. /\ atBroker[o] \in LiveAtBroker /\ atBroker'[o] \in {"partial", "filled"}
        /\ \A q \in OrderIds \ {o} : atBroker'[q] = atBroker[q]
    BY <1>3 DEF Fill, PartialFill, LiveAtBroker
  <2>2. CASE Type(o) \in OpeningTypes
    <3>1. legs' = [legs EXCEPT ![o] = LegsOpenedBy(Kind(Owner(o)), Type(o))]
      BY <1>3, <2>2 DEF Fill, PartialFill, LegsAfter, Type, Owner
    <3>2. Type(o) \notin ClosingTypes
      BY <2>2, TypesApart
    <3> QED
      BY <1>1, <1>2, <2>1, <2>2, <3>1, <3>2 DEF MarketMoves
  <2>3. CASE Type(o) \notin OpeningTypes
    <3> DEFINE t == placed[o].target
    <3>1. Type(o) \in ClosingTypes
      BY <2>3, <1>1 DEF OrderTypes
    <3>2. legs[t] # {}
      BY <1>3, <3>1 DEF Fill, PartialFill, Fillable, Type
    <3> DEFINE left == LegsAfter(o, placed[o])
    <3>3. \/ legs' = left /\ atBroker'[o] = "filled"
          \/ legs' = legs /\ atBroker'[o] = "partial"
      BY <1>3, <2>1, <2>3 DEF Fill, PartialFill
    <3>4. left[t] = {} /\ \A q \in OrderIds \ {t} : left[q] = legs[q]
      BY <1>1, <3>1, CloseTakesAll
    <3> HIDE DEF left
    <3>5. atBroker'[o] = "filled" => legs'[t] = {}
      BY <2>1, <3>3, <3>4
    <3>6. \A q \in OrderIds : legs'[q] \subseteq legs[q]
      BY <3>3, <3>4
    <3> QED
      BY <1>1, <1>2, <2>1, <3>2, <3>5, <3>6 DEF MarketMoves
  <2> QED
    BY <2>2, <2>3
<1>4. CASE EndOrder(o)
  BY <1>4 DEF EndOrder, Undisturbed, StatusInv
<1>5. CASE Expire(o) \/ \E leg \in Legs : Assign(o, leg)
  <2>1. atBroker' = atBroker /\ \A q \in OrderIds : legs'[q] \subseteq legs[q]
    BY <1>5 DEF Expire, Assign
  <2> QED
    BY <1>1, <1>2, <2>1 DEF MarketMoves
<1> QED
  BY <1>3, <1>4, <1>5

\* A night is one too: it ends every working order.
LEMMA NightMovesMarket ==
    ASSUME ExactInv, NewDay
    PROVE  MarketMoves
<1> USE Typing DEF ExactInv, OrdersAgree
<1>1. /\ UNCHANGED <<placed, legs, row, local, cycle, phase, snapshot, answer, todo, dispatching,
                     plan, routing>>
      /\ dayStart' = Len(placed) + 1 /\ phase = "between" /\ routing = NotRouting
  BY Idle DEF NewDay, dbVars, readVars, routeVars
<1>2. \A o \in OrderIds :
        /\ atBroker[o] \in LiveAtBroker =>
             atBroker'[o] = IF atBroker[o] = "partial" THEN "part_cancelled" ELSE "cancelled"
        /\ atBroker[o] \notin LiveAtBroker => atBroker'[o] = atBroker[o]
  <2>1. \A o \in OrderIds : atBroker'[o] = Ended(atBroker[o])
    BY DEF NewDay
  <2>2. \A status : /\ status \notin LiveAtBroker => Ended(status) = status
                    /\ status \in LiveAtBroker =>
                         Ended(status) = IF status = "partial" THEN "part_cancelled" ELSE "cancelled"
    BY DEF Ended, LiveAtBroker
  <2> QED
    BY <2>1, <2>2
<1>3. \A o \in OrderIds : atBroker'[o] \notin LiveAtBroker
  BY <1>2 DEF LiveAtBroker
<1>4. \A o \in Submitted : atBroker'[o] = "filled" => atBroker[o] = "filled"
  BY <1>2
<1> QED
  BY <1>1, <1>2, <1>3, <1>4 DEF MarketMoves

\* Both, for every step of the broker and for the night.
LEMMA MarketKeeps ==
    ASSUME ExactInv, Undisturbed, BrokerStep \/ NewDay
    PROVE  OrdersAgree' /\ StagesInv'
  BY BrokerMovesMarket, NightMovesMarket, MarketKeepsOrders, MarketKeepsStages DEF BrokerStep

-----------------------------------------------------------------------------
(* The steps that move the tick on: no order is touched. *)

\* Rows may be flagged for the operator, and nothing is in submission or between
\* its status and its dispatch.
QuietMove ==
    /\ UNCHANGED <<placed, atBroker, legs, local, cycle, dayStart>>
    /\ routing = NotRouting /\ routing' = NotRouting
    /\ dispatching = None /\ dispatching' = None
    /\ \A s \in Strategies : /\ row'[s].cycle = row[s].cycle
                             /\ row'[s].state \in {row[s].state, "MANUAL_INTERVENTION"}

\* The tick stays where it is, starts over, or goes on to the next phase once
\* every order of the answer is processed.
TickMoves ==
    \/ UNCHANGED <<phase, todo, answer, snapshot>>
    \/ todo' = {} /\ phase' = "between"
    \/ /\ todo = {} /\ todo' = {} /\ snapshot' = snapshot
       /\ phase = "processing" /\ phase' = "diffing"
    \/ /\ todo = {} /\ todo' = {}
       /\ phase \in {"diffing", "audit", "rolling", "sweeping", "proposing"}
       /\ phase' \in {"audit", "rolling", "sweeping", "proposing"}

\* Without orders to look at, what is said of single orders says the same.
LEMMA SameOrders ==
    ASSUME UNCHANGED <<placed, local, dispatching, routing>>
    PROVE  /\ Submitted' = Submitted /\ LocallyLive' = LocallyLive
           /\ \A o : /\ Type(o)' = Type(o) /\ Owner(o)' = Owner(o) /\ Live(o)' = Live(o)
                     /\ Booked(o)' = Booked(o) /\ ClosesOf(o)' = ClosesOf(o)
                     /\ CloseFor(o)' = CloseFor(o)
  BY DEF Submitted, LocallyLive, Type, Owner, Live, Booked, ClosesOf, CloseFor

\* If trades, cycles and bookings stay, and the same orders are live, it is
\* left to look at statuses, days, plans and snapshots.
LiveStays ==
    /\ UNCHANGED <<placed, atBroker, legs, cycle, dayStart>>
    /\ \A o \in OrderIds : local'[o].cycle = local[o].cycle
    /\ \A o \in Submitted : Live(o)' = Live(o)

\* Such a step keeps what holds of each order, given the parts that read what
\* else it may change (statuses, answers, the plan, the snapshot).
LEMMA LiveKeepsOrders ==
    ASSUME Inv, OrdersAgree, LiveStays,
           StatusInv', AnswersInv', FreshInv', PlanInv', SnapInv'
    PROVE  OrdersAgree'
<1> USE Typing DEF OrdersAgree
<1>0. /\ UNCHANGED <<placed, atBroker, legs, cycle, dayStart>>
      /\ Submitted' = Submitted
      /\ \A o : /\ Own(o)' = Own(o) /\ Type(o)' = Type(o) /\ Owner(o)' = Owner(o)
                /\ ClosesOf(o)' = ClosesOf(o) /\ CloseFor(o)' = CloseFor(o)
      /\ \A o \in Submitted : Booked(o)' = Booked(o) /\ Live(o)' = Live(o)
  BY DEF LiveStays, Own, Submitted, Owner, Type, ClosesOf, CloseFor, Booked
<1>1. LegsInv' /\ KindsInv' /\ ExpiredInv' /\ OneCloseInv'
  BY <1>0 DEF LegsInv, KindsInv, Kind, ExpiredInv, OneCloseInv
<1>2. TagsInv'
  <2>1. \A o \in Submitted : Booked(o) => local[o].cycle \in Submitted
    BY DEF TagsInv, Own
  <2> QED
    BY <1>0, <2>1 DEF TagsInv, LiveStays
<1>3. ClosesInv'
  <2>1. SUFFICES ASSUME NEW o \in Submitted, Type(o) \in ClosingTypes, NEW t, t = placed[o].target
                 PROVE  CloseIsTrue(o, t)'
    BY <1>0 DEF ClosesInv, CloseIsTrue
  <2>2. CloseIsTrue(o, t) /\ t \in Submitted
    BY <2>1 DEF ClosesInv, CloseIsTrue
  <2> QED
    BY <1>0, <2>2 DEF CloseIsTrue, LiveStays
<1> QED
  BY <1>1, <1>2, <1>3

\* Such a step keeps a strategy in its stage if the row still shows it.
LEMMA LiveKeepsStages ==
    ASSUME ExactInv, LiveStays, NEW s \in Strategies, RowKept(s)
    PROVE  Staged(s)'
<1> USE Typing DEF ExactInv, OrdersAgree
<1>1. OwnKept(s)
  BY OwnStays DEF LiveStays
<1>2. WorkKept(s)
  <2>1. Own(s)' = Own(s) /\ Own(s) \subseteq Submitted
    BY DEF Own, Submitted, Owner, LiveStays
  <2>2. \A o \in Own(s) : Effective(o)' = Effective(o)
    BY <2>1 DEF Effective, Type, LiveStays
  <2>3. Working(s)' = Working(s) /\ Carrying(s)' = Carrying(s)
    BY <2>1, <2>2 DEF Working, Carrying, LiveStays
  <2> QED
    BY <2>3 DEF WorkKept
<1> QED
  BY <1>1, <1>2, StageFrame DEF StagesInv

\* A quiet step is one of these.
LEMMA QuietIsLive ==
    ASSUME QuietMove
    PROVE  LiveStays
  BY DEF QuietMove, LiveStays, Live

\* A quiet move keeps what holds of each order, given the parts about the phase.
LEMMA QuietKeepsOrders ==
    ASSUME Inv, OrdersAgree, QuietMove, AnswersInv', FreshInv', PlanInv', SnapInv'
    PROVE  OrdersAgree'
<1> USE DEF OrdersAgree
<1>1. UNCHANGED <<placed, atBroker, local, dayStart, dispatching, routing>>
  BY DEF QuietMove
<1>2. StatusInv'
  BY <1>1, SameOrders DEF StatusInv
<1> QED
  BY <1>2, LiveKeepsOrders, QuietIsLive

\* A quiet move keeps every strategy in its stage: a row is at most flagged.
LEMMA QuietKeepsStages ==
    ASSUME ExactInv, QuietMove
    PROVE  StagesInv'
<1> SUFFICES ASSUME NEW s \in Strategies
             PROVE  Staged(s)'
  BY DEF StagesInv
<1>1. ~Routes(s)
  BY DEF Routes, QuietMove, NotRouting
<1>2. RowKept(s)
  BY <1>1, RowStays DEF QuietMove, ExactInv
<1> QED
  BY <1>2, LiveKeepsStages, QuietIsLive

\* So only the plan needs an argument of its own.
LEMMA QuietKeeps ==
    ASSUME ExactInv, QuietMove, TickMoves, PlanInv'
    PROVE  OrdersAgree' /\ StagesInv' /\ LiveStays /\ dispatching = None
<1> USE Typing DEF ExactInv, OrdersAgree
<1>0. UNCHANGED <<placed, atBroker, legs, local, cycle, dayStart, dispatching, routing>>
      /\ \A o : Shown(o)' = Shown(o) \/ snapshot' # snapshot
  BY DEF QuietMove, Shown, Type
<1>1. AnswersInv'
  BY <1>0 DEF AnswersInv, TickMoves, QuietMove
<1>2. FreshInv'
  BY <1>0, SameOrders DEF FreshInv, TickMoves
<1>3. SnapInv'
  BY <1>0, SameOrders DEF SnapInv, TickMoves
<1> QED
  BY <1>1, <1>2, <1>3, QuietKeepsOrders, QuietKeepsStages, QuietIsLive DEF QuietMove

\* Nothing planned needs none.
LEMMA NothingToPlan ==
    ASSUME plan' = <<>>, routing' = NotRouting
    PROVE  PlanInv'
  BY DEF PlanInv

\* Flags move no pointer.
LEMMA FlagsAreQuiet ==
    ASSUME Inv, NEW flags, row' = Flagged(flags)
    PROVE  \A s \in Strategies : /\ row'[s].cycle = row[s].cycle
                                 /\ row'[s].state \in {row[s].state, "MANUAL_INTERVENTION"}
  BY Typing DEF Flagged, RowType

\* The phases of the tick, a crash, and proposals that come to nothing.
LEMMA TickKeeps ==
    ASSUME ExactInv, Undisturbed,
           \/ OrdersProcessed \/ RowsDiffed \/ AuditCycleParity \/ EndRollScan
           \/ SweepStaleOpens \/ EndTick \/ Crash
           \/ \E p : Drop(p) \/ SubmitFails(p)
    PROVE  OrdersAgree' /\ StagesInv' /\ LiveStays /\ dispatching = None
<1> USE DEF ExactInv, OrdersAgree, brokerVars, dbVars, timeVars, readVars, routeVars
<1>0. /\ routing = NotRouting => routing' = routing
      /\ phase # "processing" => todo = {} /\ dispatching = None
      /\ phase \notin {"rolling", "proposing"} => plan = <<>> /\ routing = NotRouting
      /\ todo = {} => dispatching = None
      /\ plan # <<>> => phase \in {"rolling", "proposing"}
      /\ DefaultStrategy \in Strategies
  BY Idle, StrategiesAssumption
     DEF OrdersProcessed, RowsDiffed, AuditCycleParity, EndRollScan, SweepStaleOpens, EndTick, Crash,
         Drop, SubmitFails, UnchangedByReconciler, Inv, TypeInv, Shape, Ledger, RoutingInv
<1>1. CASE OrdersProcessed \/ RowsDiffed \/ AuditCycleParity
  <2>1. row' = row \/ \E flags : row' = Flagged(flags)
    BY <1>1 DEF OrdersProcessed, RowsDiffed, AuditCycleParity
  <2>2. QuietMove
    BY <1>0, <1>1, <2>1, FlagsAreQuiet
       DEF QuietMove, OrdersProcessed, RowsDiffed, AuditCycleParity, UnchangedByReconciler
  <2>3. TickMoves
    BY <1>0, <1>1 DEF TickMoves, OrdersProcessed, RowsDiffed, AuditCycleParity, UnchangedByReconciler
  <2>4. plan' = <<>> /\ routing' = NotRouting
    BY <1>0, <1>1 DEF OrdersProcessed, RowsDiffed, AuditCycleParity, UnchangedByReconciler
  <2> QED
    BY <2>2, <2>3, <2>4, QuietKeeps, NothingToPlan
<1>2. CASE EndRollScan \/ SweepStaleOpens \/ EndTick
  <2>1. atBroker' = atBroker
    <3>1. SweepStaleOpens => atBroker' = [o \in OrderIds |-> atBroker[o]]
      BY DEF SweepStaleOpens, Undisturbed
    <3> QED
      BY <1>2, <3>1, Typing DEF EndRollScan, EndTick
  <2>2. QuietMove
    BY <1>0, <1>2, <2>1 DEF QuietMove, EndRollScan, SweepStaleOpens, EndTick
  <2>3. TickMoves
    BY <1>0, <1>2 DEF TickMoves, EndRollScan, SweepStaleOpens, EndTick
  <2>4. plan' = <<>> /\ routing' = NotRouting
    BY <1>0, <1>2 DEF EndRollScan, SweepStaleOpens, EndTick
  <2> QED
    BY <2>2, <2>3, <2>4, QuietKeeps, NothingToPlan
<1>3. CASE Crash
  <2>1. dispatching = None /\ routing = NotRouting
    BY <1>3 DEF Crash, Place, Undisturbed
  <2>2. QuietMove
    BY <1>3, <2>1 DEF QuietMove, Crash
  <2>3. TickMoves /\ plan' = <<>> /\ routing' = NotRouting
    BY <1>3 DEF TickMoves, Crash
  <2> QED
    BY <2>2, <2>3, QuietKeeps, NothingToPlan
<1>4. ASSUME NEW p, Drop(p) \/ SubmitFails(p)
      PROVE  OrdersAgree' /\ StagesInv' /\ LiveStays /\ dispatching = None
  <2>1. routing = NotRouting /\ plan # <<>>
    BY <1>4 DEF Drop, SubmitFails, AtHead
  <2>2. Tail(plan) = <<>>
    BY <2>1, Typing DEF PlanInv
  <2>3. plan' = <<>> /\ routing' = NotRouting
    BY <1>4, <2>1, <2>2 DEF Drop, SubmitFails, AfterFailure
  <2>4. QuietMove
    BY <1>0, <1>4, <2>1 DEF QuietMove, Drop, SubmitFails
  <2>5. TickMoves
    BY <1>4 DEF TickMoves, Drop, SubmitFails
  <2> QED
    BY <2>3, <2>4, <2>5, QuietKeeps, NothingToPlan
<1> QED
  BY <1>1, <1>2, <1>3, <1>4

\* Planning: one proposal, that the row asks for.
LEMMA PlanningKeeps ==
    ASSUME ExactInv, Undisturbed, NEW s \in Strategies, Propose(s) \/ ScanRoll(s)
    PROVE  OrdersAgree' /\ StagesInv' /\ LiveStays /\ dispatching = None
<1> USE DEF ExactInv, OrdersAgree, brokerVars, dbVars, timeVars, readVars, routeVars
<1>0. /\ routing = NotRouting /\ routing' = NotRouting /\ phase # "processing"
      /\ dispatching = None
  BY Idle DEF Propose, ScanRoll
<1>1. row' = row \/ row' = Flagged({s})
  BY DEF Propose, ScanRoll
<1>2. QuietMove
  BY <1>0, <1>1, FlagsAreQuiet DEF QuietMove, Propose, ScanRoll
<1>3. TickMoves
  BY DEF TickMoves, Propose, ScanRoll
<1>4. ASSUME NEW p, plan' = <<p>>, p \in Wanted(s), p.strategy = s, row' = row
      PROVE  PlanInv'
  <2>1. Wanted(s)' = Wanted(s)
    BY <1>2, <1>4, WantedStays DEF QuietMove
  <2>2. Len(plan') = 1 /\ Head(plan') = p
    BY <1>4
  <2> QED
    BY <1>0, <1>4, <2>1, <2>2 DEF PlanInv
<1>5. CASE Propose(s)
  <2>1. PICK c \in SequencesOver(Closes(s)), o \in SequencesOver(Opens(s)) :
          (c = <<>> \/ o = <<>>) /\ plan' = c \o o /\ plan' # <<>>
    BY <1>5 DEF Propose, Undisturbed
  <2>2. \A p \in Closes(s) \cup Opens(s) : p.strategy = s
    BY ProposalsType DEF Inv, TypeInv, TypeOK
  <2>3. \E p \in Closes(s) \cup Opens(s) : plan' = <<p>>
    <3>1. CASE c = <<>>
      <4>1. PICK p \in Opens(s) : o = <<p>>
        BY <2>1, <3>1 DEF SequencesOver
      <4> QED
        BY <2>1, <3>1, <4>1
    <3>2. CASE o = <<>>
      <4>1. PICK p \in Closes(s) : c = <<p>>
        BY <2>1, <3>2 DEF SequencesOver
      <4> QED
        BY <2>1, <3>2, <4>1
    <3> QED
      BY <2>1, <3>1, <3>2
  <2>4. PlanInv'
    BY <1>4, <1>5, <2>2, <2>3 DEF Propose, Wanted
  <2> QED
    BY <1>2, <1>3, <2>4, QuietKeeps
<1>6. CASE ScanRoll(s)
  <2>1. PICK short \in RollShort(s), action \in RollActions :
          LET close == Proposal(s, ClosingTypeOf(Type(short)), short)
              open  == Proposal(s, Type(short), None)
          IN  /\ row' = IF action = "HALT" THEN Flagged({s}) ELSE row
              /\ plan' = CASE action = "HALT" -> <<>>
                           [] action = "ROLL" -> <<close, open>>
                           [] OTHER           -> <<close>>
    BY <1>6 DEF ScanRoll
  <2>2. action # "ROLL"
    BY DEF Undisturbed
  <2>3. CASE action = "HALT"
    BY <1>0, <1>2, <1>3, <2>1, <2>3, QuietKeeps, NothingToPlan
  <2>4. CASE action # "HALT"
    <3> DEFINE close == Proposal(s, ClosingTypeOf(Type(short)), short)
    <3>1. row' = row /\ plan' = <<close>>
      BY <2>1, <2>2, <2>4
    <3>2. close \in Wanted(s) /\ close.strategy = s
      BY DEF RollShort, Wanted, CloseOf, Proposal
    <3>3. PlanInv'
      BY <1>4, <3>1, <3>2
    <3> QED
      BY <1>2, <1>3, <3>3, QuietKeeps
  <2> QED
    BY <2>3, <2>4
<1> QED
  BY <1>5, <1>6

-----------------------------------------------------------------------------
(* Reading the broker. *)

\* The positions are read: whatever is alive shows.
LEMMA FetchPositionsKeeps ==
    ASSUME ExactInv, FetchPositions
    PROVE  OrdersAgree' /\ StagesInv' /\ LiveStays /\ dispatching = None
<1> USE Typing DEF ExactInv, OrdersAgree, brokerVars, dbVars, timeVars, readVars, routeVars
<1>0. /\ routing = NotRouting /\ dispatching = None /\ plan = <<>> /\ todo = {}
      /\ phase = "between" /\ phase' = "orders" /\ snapshot' = PositionsNow
  BY Idle DEF FetchPositions
<1>1. QuietMove
  BY <1>0 DEF QuietMove, FetchPositions
<1>2. AnswersInv' /\ FreshInv' /\ PlanInv'
  <2>1. /\ todo' = {} /\ dispatching' = None /\ plan' = <<>> /\ routing' = NotRouting
        /\ UNCHANGED <<placed, local, dayStart, dispatching, routing>>
    BY <1>0 DEF FetchPositions
  <2> QED
    BY <1>0, <2>1, SameOrders, NothingToPlan DEF AnswersInv, FreshInv
<1>3. \A o \in Submitted : legs[o] # {} => Shown(o)'
  <2> SUFFICES ASSUME NEW o \in Submitted, legs[o] # {}
               PROVE  Shown(o)'
    OBVIOUS
  <2>1. legs[o] \subseteq AllLegs /\ legs[o] \subseteq Legs
        /\ legs[o] \subseteq LegsOpenedBy(Kind(Owner(o)), Type(o))
    BY DEF AllLegs, LegsInv
  <2>2. Type(o)' = Type(o)
    BY DEF FetchPositions, Type
  <2>3. snapshot'.put = ("short_put" \in AllLegs) /\ snapshot'.call = ("short_call" \in AllLegs)
    BY <1>0 DEF PositionsNow
  <2>4. CASE Type(o) \in {"STO_PUT", "STO_CALL"}
    BY <2>1, <2>2, <2>3, <2>4 DEF Shown, LegsOpenedBy
  <2>5. CASE Type(o) \notin {"STO_PUT", "STO_CALL"}
    <3>1. snapshot'.put \/ snapshot'.call \/ snapshot'.long
      BY <1>0, <2>1 DEF PositionsNow, Legs
    <3>2. snapshot' # NoSnapshot
      BY <3>1 DEF NoSnapshot
    <3> QED
      BY <2>2, <2>5, <3>2 DEF Shown
  <2> QED
    BY <2>4, <2>5
<1>4. SnapInv'
  BY <1>0, <1>1, <1>3, SameOrders DEF SnapInv, QuietMove
<1> QED
  BY <1>0, <1>1, <1>2, <1>4, QuietKeepsOrders, QuietKeepsStages, QuietIsLive

\* The orders are read: every working order is in the answer, and yesterday's
\* are in it as ended.
LEMMA FetchOrdersKeeps ==
    ASSUME ExactInv, FetchOrders
    PROVE  OrdersAgree' /\ StagesInv' /\ LiveStays /\ dispatching = None
<1> USE Typing DEF ExactInv, OrdersAgree, brokerVars, dbVars, timeVars, readVars, routeVars
<1>0. /\ routing = NotRouting /\ dispatching = None /\ plan = <<>>
      /\ phase = "orders" /\ phase' = "processing"
      /\ UNCHANGED <<placed, atBroker, legs, row, local, cycle, dayStart, snapshot, dispatching,
                     plan, routing>>
  BY Idle DEF FetchOrders
<1>1. QuietMove
  BY <1>0 DEF QuietMove
<1>2. /\ todo' = OrdersSince /\ OrdersSince \subseteq Submitted /\ LocallyLive \subseteq OrdersSince
      /\ \A o \in OrdersSince : answer'[o] = Reported(atBroker[o])
  <2>1. OrdersSince \subseteq Submitted
    BY DEF OrdersSince
  <2>2. \A o \in LocallyLive : o \in Submitted /\ o <= o
    BY DEF LocallyLive
  <2> QED
    BY <2>1, <2>2 DEF FetchOrders, OrdersSince
<1>3. \A status \in BrokerStatuses \ {"cancelling"} :
        /\ Reported(status) = "CANCELLED" <=> status \in Dead
        /\ Reported(status) = "FILLED" <=> status = "filled"
        /\ Reported(status) = "none" <=> status = "none"
  BY DEF Reported, BrokerStatuses, LiveAtBroker, Dead
<1>4. \A o \in Submitted : atBroker[o] \in BrokerStatuses \ {"cancelling"} /\ atBroker[o] # "none"
  BY DEF StatusInv, Inv, Ledger, OrdersInv
<1>5. \A o \in todo' : /\ answer'[o] = "CANCELLED" <=> atBroker[o] \in Dead
                       /\ answer'[o] = "FILLED" <=> atBroker[o] = "filled"
  BY <1>2, <1>3, <1>4
<1>6. \A o \in Submitted : local[o].status = "FILLED" => atBroker[o] = "filled"
  BY DEF Inv, Ledger, OrdersInv
<1>7. AnswersInv'
  BY <1>0, <1>2, <1>5, <1>6 DEF AnswersInv, StatusInv
<1>8. FreshInv'
  <2>1. \A o \in LocallyLive : o >= dayStart \/ (o \in todo' /\ answer'[o] \in {"FILLED", "CANCELLED"})
    <3> SUFFICES ASSUME NEW o \in LocallyLive, ~(o >= dayStart)
                 PROVE  o \in todo' /\ answer'[o] \in {"FILLED", "CANCELLED"}
      OBVIOUS
    <3>1. o \in Submitted /\ o \in todo'
      BY <1>2 DEF LocallyLive
    <3>2. atBroker[o] \notin LiveAtBroker /\ atBroker[o] \in BrokerStatuses /\ atBroker[o] # "none"
      BY <1>4, <3>1 DEF StatusInv
    <3>3. atBroker[o] = "filled" \/ atBroker[o] \in Dead
      BY <3>2 DEF BrokerStatuses, Dead
    <3> QED
      BY <1>5, <3>1, <3>3
  <2> QED
    BY <1>0, <2>1, SameOrders DEF FreshInv
<1>9. SnapInv'
  <2>1. \A o \in Submitted : legs[o] # {} => Shown(o)
    BY <1>0 DEF SnapInv
  <2>2. \A o : Shown(o)' = Shown(o)
    BY <1>0 DEF Shown, Type
  <2>3. \A o \in LocallyLive : atBroker[o] = "filled" => o \in todo' /\ answer'[o] = "FILLED"
    BY <1>2, <1>5
  <2> QED
    BY <1>0, <2>1, <2>2, <2>3, SameOrders DEF SnapInv
<1>10. PlanInv'
  BY <1>0, NothingToPlan
<1> QED
  BY <1>0, <1>1, <1>7, <1>8, <1>9, <1>10, QuietKeepsOrders, QuietKeepsStages, QuietIsLive

\* A status is written: what is live stays live until its dispatch.
LEMMA PersistStatusKeeps ==
    ASSUME ExactInv, NEW o \in OrderIds, PersistStatus(o)
    PROVE  OrdersAgree' /\ StagesInv' /\ LiveStays /\ dispatching = None
<1> USE Typing DEF ExactInv, OrdersAgree
<1>1. /\ UNCHANGED <<placed, atBroker, legs, row, cycle, dayStart, phase, snapshot, answer,
                     plan, routing>>
      /\ phase = "processing" /\ dispatching = None /\ o \in todo /\ local[o].status # "none"
      /\ routing = NotRouting /\ plan = <<>>
  BY Idle DEF PersistStatus, UnchangedByReconciler, brokerVars, timeVars, routeVars
<1>2. /\ local'[o].status = answer[o]
      /\ \A q \in OrderIds \ {o} : local'[q] = local[q]
      /\ \A q \in OrderIds : local'[q].cycle = local[q].cycle
  BY DEF PersistStatus, LocalType
<1>3. o \in Submitted /\ answer[o] # "none" /\ answer[o] \in LocalStatuses
  BY <1>1 DEF Inv, TypeInv, TypeOK, TickTypeOK, Shape, Ledger, AnswerInv
<1>4. \/ /\ local[o].status \in LiveStatuses /\ answer[o] \in {"FILLED", "CANCELLED"}
         /\ dispatching' = o /\ todo' = todo
      \/ /\ local[o].status \in LiveStatuses /\ answer[o] \in LiveStatuses
         /\ dispatching' = None /\ todo' = todo \ {o}
      \/ /\ local[o].status \in {"FILLED", "CANCELLED"} /\ answer[o] = local[o].status
         /\ dispatching' = None /\ todo' = todo \ {o}
  <2>1. local[o].status \in LiveStatuses \/ local[o].status \in {"FILLED", "CANCELLED"}
    BY <1>1 DEF LocalType, LocalStatuses
  <2>2. local[o].status \in {"FILLED", "CANCELLED"} => answer[o] = local[o].status
    BY <1>1 DEF AnswersInv
  <2>3. NeedsDispatch(o) => dispatching' = o /\ todo' = todo
    BY DEF PersistStatus
  <2>4. ~NeedsDispatch(o) => dispatching' = None /\ todo' = todo \ {o}
    BY <1>1 DEF PersistStatus
  <2> QED
    BY <1>3, <2>1, <2>2, <2>3, <2>4 DEF NeedsDispatch, LocalStatuses, LiveStatuses
<1>5. LiveStays
  <2>1. \A q \in Submitted : Live(q)' = Live(q)
    BY <1>1, <1>2, <1>4 DEF Live, LiveStatuses
  <2> QED
    BY <1>1, <1>2, <2>1 DEF LiveStays
<1>6. Submitted' = Submitted /\ \A q \in OrderIds : Booked(q)' = Booked(q)
  BY <1>1, <1>2 DEF Submitted, Booked
<1>7. StatusInv'
  <2>1. \A q \in Submitted : routing.order # q
    BY <1>1, Idle
  <2>2. SUFFICES ASSUME NEW q \in Submitted
                 PROVE  /\ local'[q].status # "none"
                        /\ local'[q].status = "CANCELLED" => atBroker[q] \in Dead
                        /\ Booked(q) <=> local'[q].status = "FILLED" /\ dispatching' # q
    BY <1>1, <1>6, <2>1 DEF StatusInv
  <2>3. CASE q # o
    BY <1>1, <1>2, <1>4, <2>1, <2>3 DEF StatusInv
  <2>4. CASE q = o
    BY <1>1, <1>2, <1>3, <1>4, <2>4 DEF StatusInv, AnswersInv, LiveStatuses
  <2> QED
    BY <2>3, <2>4
<1>8. AnswersInv'
  BY <1>1, <1>2, <1>4 DEF AnswersInv, Inv, TypeInv, TypeOK, TickTypeOK
<1>9. LocallyLive' \subseteq LocallyLive
      /\ (o \in LocallyLive' => answer[o] \notin {"FILLED", "CANCELLED"})
  BY <1>1, <1>2, <1>3, <1>4, <1>6 DEF LocallyLive, LiveStatuses
<1>10. FreshInv'
  <2>1. \A q \in LocallyLive' : q >= dayStart \/ (q \in todo' /\ answer[q] \in {"FILLED", "CANCELLED"})
    BY <1>1, <1>4, <1>9 DEF FreshInv
  <2> QED
    BY <1>1, <1>5, <1>6, <2>1 DEF FreshInv, LiveStays
<1>11. SnapInv'
  <2>1. \A q : Shown(q)' = Shown(q) /\ Type(q)' = Type(q)
    BY <1>1 DEF Shown, Type
  <2>2. \A q \in Submitted : (local'[q].status = "FILLED" \/ (q \in todo' /\ answer[q] = "FILLED")) =>
           (local[q].status = "FILLED" \/ (q \in todo /\ answer[q] = "FILLED"))
    BY <1>1, <1>2, <1>4
  <2>3. \A q \in Submitted : (q \in LocallyLive' /\ ~(q \in todo' /\ answer[q] = "FILLED")) =>
           (q \in LocallyLive /\ ~(q \in todo /\ answer[q] = "FILLED"))
    BY <1>4, <1>9
  <2> QED
    BY <1>1, <1>6, <2>1, <2>2, <2>3 DEF SnapInv
<1>12. PlanInv'
  BY <1>1, NothingToPlan
<1>13. StagesInv'
  BY <1>1, <1>5, RowStays, LiveKeepsStages DEF StagesInv
<1> QED
  BY <1>1, <1>5, <1>7, <1>8, <1>10, <1>11, <1>12, <1>13, LiveKeepsOrders

-----------------------------------------------------------------------------
(* The submission of an order, write by write. *)

\* What is known of the order in submission.
LEMMA InSubmission ==
    ASSUME ExactInv, routing # NotRouting
    PROVE  /\ routing.order \in Submitted /\ routing.order = Len(placed)
           /\ plan = <<placed[routing.order]>> /\ Tail(plan) = <<>>
           /\ phase \in {"rolling", "proposing"} /\ todo = {} /\ dispatching = None
           /\ routing.order >= dayStart /\ ~Booked(routing.order)
           /\ atBroker[routing.order] = "open" /\ legs[routing.order] = {}
           /\ routing.next \in {"persist", "upsert"}
           /\ routing.next = "persist" <=> local[routing.order].status = "none"
           /\ routing.next = "upsert" <=> local[routing.order].status = "PENDING"
<1> USE Typing, Idle DEF ExactInv, OrdersAgree
<1>1. routing.next \in {"persist", "upsert"} /\ plan = <<placed[routing.order]>>
  BY DEF PlanInv, Inv, TypeInv, TypeOK, RouteTypeOK
<1>2. Tail(plan) = <<>>
  BY <1>1
<1>3. phase \in {"rolling", "proposing"} /\ routing.order = Len(placed)
  BY DEF Inv, Ledger, RoutingInv
<1>4. routing.order >= dayStart /\ atBroker[routing.order] = "open" /\ legs[routing.order] = {}
      /\ (routing.next = "upsert" => local[routing.order].status = "PENDING")
  BY DEF PlanInv
<1>5. routing.next = "persist" <=> local[routing.order].status = "none"
  BY DEF StatusInv
<1>6. ~Booked(routing.order)
  BY <1>1, <1>4, <1>5 DEF StatusInv
<1> QED
  BY <1>1, <1>2, <1>3, <1>4, <1>5, <1>6

\* The orders row is inserted: the order was live and stays so.
LEMMA PersistOrderKeeps ==
    ASSUME ExactInv, PersistOrder
    PROVE  OrdersAgree' /\ StagesInv' /\ LiveStays /\ dispatching = None
<1> USE Typing DEF ExactInv, OrdersAgree, brokerVars, timeVars, readVars
<1> DEFINE o == routing.order
<1>1. /\ UNCHANGED <<placed, atBroker, legs, row, cycle, dayStart, phase, snapshot, answer, todo,
                     dispatching>>
      /\ routing # NotRouting /\ routing.next = "persist"
  BY DEF PersistOrder, NotRouting
<1>2. /\ o \in Submitted /\ o \in OrderIds /\ plan = <<placed[o]>> /\ Tail(plan) = <<>>
      /\ phase \in {"rolling", "proposing"} /\ todo = {} /\ dispatching = None
      /\ o >= dayStart /\ ~Booked(o) /\ atBroker[o] = "open" /\ local[o].status = "none"
      /\ legs[o] = {} /\ Len(plan) = 1
  BY <1>1, InSubmission
<1>3. /\ local'[o].status = "PENDING" /\ local'[o].cycle = None
      /\ \A q \in OrderIds \ {o} : local'[q] = local[q]
  BY <1>2 DEF PersistOrder, Reported
<1>4. \/ routing' = [routing EXCEPT !.next = "upsert"] /\ plan' = plan /\ MovesRow(placed[o])
      \/ routing' = NotRouting /\ plan' = <<>> /\ ~MovesRow(placed[o])
  BY <1>2 DEF PersistOrder, Routed
<1>5. /\ routing' # NotRouting => routing'.order = o /\ routing'.next = "upsert"
      /\ routing'.next # "persist" /\ \A q \in Submitted \ {o} : routing'.order # q
      /\ routing' = NotRouting =>
           routing'.next = "none" /\ routing'.order = None /\ plan' = <<>> /\ ~MovesRow(placed[o])
  <2>1. CASE routing' = NotRouting
    <3>1. routing'.next = "none" /\ routing'.order = None
      BY <2>1 DEF NotRouting
    <3>2. plan' = <<>> /\ ~MovesRow(placed[o])
      BY <1>4, <3>1 DEF Inv, TypeInv, TypeOK, RouteTypeOK
    <3> QED
      BY <1>2, <2>1, <3>1, <3>2
  <2>2. CASE routing' # NotRouting
    BY <1>4, <2>2 DEF NotRouting, Inv, TypeInv, TypeOK, RouteTypeOK
  <2> QED
    BY <2>1, <2>2
<1>6. LiveStays
  <2>1. \A q \in OrderIds : local'[q].cycle = local[q].cycle
    BY <1>2, <1>3 DEF Booked
  <2>2. \A q \in Submitted : Live(q)' = Live(q)
    BY <1>1, <1>2, <1>3, <1>5 DEF Live, LiveStatuses
  <2> QED
    BY <1>1, <2>1, <2>2 DEF LiveStays
<1>7. Submitted' = Submitted /\ \A q \in OrderIds : Booked(q)' = Booked(q)
  BY <1>1, <1>6 DEF Submitted, Booked, LiveStays
<1>8. StatusInv'
  <2>1. SUFFICES ASSUME NEW q \in Submitted
                 PROVE  /\ local'[q].status # "none"
                        /\ local'[q].status = "CANCELLED" => atBroker[q] \in Dead
                        /\ Booked(q) <=> local'[q].status = "FILLED" /\ dispatching # q
    BY <1>1, <1>5, <1>7 DEF StatusInv
  <2> QED
    BY <1>2, <1>3 DEF StatusInv
<1>9. AnswersInv' /\ SnapInv'
  BY <1>1, <1>2 DEF AnswersInv, SnapInv
<1>10. FreshInv'
  <2>1. LocallyLive' \subseteq LocallyLive \cup {o}
    BY <1>2, <1>3, <1>7 DEF LocallyLive
  <2> QED
    BY <1>1, <1>2, <1>6, <1>7, <2>1 DEF FreshInv, LiveStays
<1>11. PlanInv'
  <2>1. CASE routing' = NotRouting
    BY <1>5, <2>1, NothingToPlan
  <2>2. CASE routing' # NotRouting
    <3>1. plan' = plan /\ routing'.order = o /\ routing'.next = "upsert"
      BY <1>4, <1>5, <2>2
    <3> QED
      BY <1>1, <1>2, <1>3, <2>2, <3>1 DEF PlanInv
  <2> QED
    BY <2>1, <2>2
<1>12. ASSUME NEW s \in Strategies
       PROVE  Staged(s)'
  <2>1. CASE routing' # NotRouting
    <3>0. routing'.order = o /\ routing'.next = "upsert" /\ placed' = placed
      BY <1>1, <1>5, <2>1
    <3>1. Routes(s)' = Routes(s) /\ Type(routing.order)' = Type(routing.order)
      BY <1>1, <3>0 DEF Routes, Owner, Type
    <3>2. RowKept(s)
      BY <1>1, <3>1 DEF RowKept, Shows, Kind
    <3> QED
      BY <1>6, <3>2, LiveKeepsStages
  <2>2. CASE routing' = NotRouting
    <3>1. routing' = NotRouting /\ ~MovesRow(placed[o]) /\ ~Routes(s)'
      BY <1>5, <2>2 DEF Routes
    <3>2. Routes(s) => PendingStateFor(Kind(s), Type(o), row[s].state) = row[s].state
      <4>1. SUFFICES ASSUME Owner(o) = s
                     PROVE  PendingStateFor(Kind(s), Type(o), row[s].state) = row[s].state
        BY DEF Routes
      <4>2. Type(o) = "MLEG_CLOSE" \/ (Kind(s) = "pmcc" /\ Type(o) = "BTC_CALL")
        BY <3>1, <4>1 DEF MovesRow, Type, Owner
      <4>3. Type(o) = "MLEG_CLOSE" => Kind(s) # "swing"
        <5> SUFFICES ASSUME Type(o) = "MLEG_CLOSE"
                     PROVE  Kind(s) # "swing"
          OBVIOUS
        <5>1. PICK t \in Submitted : Type(t) \in OpeningTypes /\ o \in ClosesOf(t)
          BY <1>2 DEF ClosesInv, CloseIsTrue, ClosingTypes, ClosesOf
        <5>2. Owner(t) = s /\ ClosingTypeOf(Type(t)) = "MLEG_CLOSE"
          BY <4>1, <5>1, ClosesClose
        <5>3. Type(t) = "MLEG_OPEN"
          BY <5>1, <5>2 DEF ClosingTypeOf, OpeningTypes
        <5> QED
          BY <5>2, <5>3 DEF KindsInv, EntryTypes, EntryTypeOf, SpreadKinds
      <4> QED
        BY <4>2, <4>3 DEF PendingStateFor
    <3>3. RowKept(s)
      BY <1>1, <3>1, <3>2 DEF RowKept, Shows, Kind
    <3> QED
      BY <1>6, <3>3, LiveKeepsStages
  <2> QED
    BY <2>1, <2>2
<1> QED
  BY <1>2, <1>6, <1>8, <1>9, <1>10, <1>11, <1>12, LiveKeepsOrders DEF StagesInv

\* The positions row takes the state the stage already counts on.
LEMMA UpsertKeeps ==
    ASSUME ExactInv, UpsertPositionPending
    PROVE  OrdersAgree' /\ StagesInv' /\ LiveStays /\ dispatching = None
<1> USE Typing DEF ExactInv, OrdersAgree, brokerVars, timeVars, readVars
<1> DEFINE o == routing.order
<1>1. /\ UNCHANGED <<placed, atBroker, legs, local, cycle, dayStart, phase, snapshot, answer, todo,
                     dispatching>>
      /\ routing # NotRouting /\ routing.next = "upsert" /\ routing' = NotRouting
  BY DEF UpsertPositionPending, NotRouting, Routed
<1>2. /\ o \in Submitted /\ Tail(plan) = <<>> /\ plan' = <<>>
      /\ phase \in {"rolling", "proposing"} /\ todo = {} /\ dispatching = None
      /\ local[o].status = "PENDING"
  BY <1>1, InSubmission DEF UpsertPositionPending, Routed
<1>3. routing'.next = "none" /\ routing'.order = None
  BY <1>1 DEF NotRouting
<1>4. LiveStays
  <2>1. \A q \in Submitted : Live(q)' = Live(q)
    BY <1>1, <1>2, <1>3 DEF Live, LiveStatuses
  <2> QED
    BY <1>1, <2>1 DEF LiveStays
<1>5. Submitted' = Submitted /\ (\A q : Booked(q)' = Booked(q)) /\ LocallyLive' = LocallyLive
  BY <1>1 DEF Submitted, Booked, LocallyLive
<1>6. StatusInv'
  BY <1>1, <1>3, <1>5 DEF StatusInv
<1>7. AnswersInv' /\ SnapInv' /\ PlanInv'
  BY <1>1, <1>2, NothingToPlan DEF AnswersInv, SnapInv
<1>8. FreshInv'
  BY <1>1, <1>4, <1>5 DEF FreshInv, LiveStays
<1>9. ASSUME NEW s \in Strategies
      PROVE  Staged(s)'
  <2>1. /\ row'[s].cycle = row[s].cycle
        /\ row'[s].state = IF Owner(o) = s THEN PendingStateFor(Kind(s), Type(o), row[s].state)
                           ELSE row[s].state
    BY <1>2 DEF UpsertPositionPending, Owner, Type, RowType
  <2>2. ~Routes(s)' /\ (Routes(s) <=> Owner(o) = s)
    BY <1>1, <1>3 DEF Routes
  <2>3. RowKept(s)
    BY <1>1, <2>1, <2>2 DEF RowKept, Shows, Kind
  <2> QED
    BY <1>4, <2>3, LiveKeepsStages
<1> QED
  BY <1>2, <1>4, <1>6, <1>7, <1>8, <1>9, LiveKeepsOrders DEF StagesInv

\* Of a set of orders, one is the earliest.
LEMMA EarliestExists ==
    ASSUME NEW S \in SUBSET Nat, S # {}
    PROVE  \E b \in S : b \in EarliestOf(S)
<1> DEFINE R == {pair \in Nat \X Nat : pair[1] < pair[2]}
<1>1. IsWellFoundedOn(R, Nat)
  BY NatLessThanWellFounded, Zenon DEF OpToRel
<1>2. \A x, y \in Nat : ~(<<y, x>> \in R) => x <= y
  OBVIOUS
<1> HIDE DEF R
<1>3. PICK b \in S : \A y \in S : ~(<<y, b>> \in R)
  BY <1>1, WFMin
<1> QED
  BY <1>2, <1>3 DEF EarliestOf

\* What a proposal is, by the stage of the strategy it is made for.
Asked(s, p) ==
    LET shown == PendingStateFor(Kind(s), p.type, row[s].state)
    IN  \/ /\ Flat(s) /\ p = Proposal(s, EntryTypeOf(Kind(s)), None)
           /\ shown \in StatesOf(Kind(s), "entering")
        \/ /\ Resting(s) /\ p = Proposal(s, "STO_CALL", None)
           /\ shown \in StatesOf(Kind(s), "selling")
        \/ \E t \in Own(s) :
             /\ p = CloseFor(t) /\ Booked(t)
             /\ \/ /\ Holding(s) \/ (Kind(s) = "pmcc" /\ Resting(s))
                   /\ t = row[s].cycle /\ Type(t) \in EntryTypes
                   /\ shown \in StatesOf(Kind(s), "holding")
                \/ /\ Called(s) /\ LatestCall(s, t)
                   /\ shown \in StatesOf(Kind(s), "called")

\* The orders booked to the row's cycle, as a proposer finds them.
LEMMA LatestOfCycle ==
    ASSUME ExactInv, dispatching = None, NEW s \in Strategies, NEW types \in SUBSET OpeningTypes,
           row[s].cycle \in Own(s), NEW t \in LatestFilled(row[s].cycle, types)
    PROVE  /\ t \in Own(s) /\ Booked(t) /\ local[t].cycle = row[s].cycle /\ Type(t) \in types
           /\ Type(t) \in EntryTypes => t = row[s].cycle
           /\ \A q \in CallsOf(s) : local[q].cycle = row[s].cycle /\ "STO_CALL" \in types => q <= t
<1> USE Typing DEF ExactInv, OrdersAgree
<1> DEFINE c == row[s].cycle
<1>1. /\ t \in Submitted /\ local[t].cycle = c /\ local[t].status = "FILLED" /\ Type(t) \in types
      /\ \A q \in Submitted : (local[q].cycle = c /\ local[q].status = "FILLED" /\ Type(q) \in types) =>
            q <= t
  BY DEF LatestFilled, LatestOf
<1>2. c \in Submitted /\ Owner(c) = s
  BY DEF Own
<1>3. Booked(t)
  BY <1>1, <1>2 DEF Booked
<1>4. Owner(t) = s
  BY <1>1, <1>2, <1>3 DEF TagsInv, Own
<1>5. \A q \in CallsOf(s) : local[q].cycle = c => local[q].status = "FILLED" /\ q \in Submitted
  BY <1>2 DEF StatusInv, Booked, CallsOf, Own
<1>6. \A q \in CallsOf(s) : Type(q) = "STO_CALL"
  BY DEF CallsOf
<1>7. Type(t) \in EntryTypes => t = c
  BY <1>1, <1>3 DEF TagsInv
<1> QED
  BY <1>1, <1>3, <1>4, <1>5, <1>6, <1>7 DEF Own

\* A row asks for what its stage is for.
LEMMA WantedMeans ==
    ASSUME ExactInv, dispatching = None, NEW s \in Strategies, ~Routes(s), NEW p \in Wanted(s)
    PROVE  Asked(s, p)
<1> USE Typing DEF ExactInv, OrdersAgree
<1> DEFINE c == row[s].cycle
           state == row[s].state
<1>0. /\ Kind(s) \in Kinds
      /\ Kind(s) \in SpreadKinds \/ Kind(s) \in {"wheel", "pmcc", "swing"}
  BY StrategiesAssumption DEF Kind, Kinds, SpreadKinds
<1>1. state # "MANUAL_INTERVENTION"
  BY <1>0 DEF Wanted, Opens, Closes, WheelCloses, WheelOpens, PmccCloses, PmccOpens, SwingCloses,
              SwingOpens, SpreadCloses, SpreadOpens, SpreadKinds
<1>2. PICK g \in Stages : state \in StatesOf(Kind(s), g) /\ InStage(s, g)
  BY <1>1 DEF StagesInv, Staged, Shows
<1>3. ASSUME NEW types \in SUBSET OpeningTypes, p \in CloseOf(s, types), c \in Own(s)
      PROVE  \E t \in Own(s) : /\ p = CloseFor(t) /\ Booked(t) /\ p.type = ClosingTypeOf(Type(t))
                               /\ local[t].cycle = c /\ Type(t) \in types
                               /\ Type(t) \in EntryTypes => t = c
                               /\ \A q \in CallsOf(s) :
                                     local[q].cycle = c /\ "STO_CALL" \in types => q <= t
  <2>1. PICK t \in LatestFilled(c, types) : p = Proposal(s, ClosingTypeOf(Type(t)), t)
    BY <1>3 DEF CloseOf
  <2>2. p.type = ClosingTypeOf(Type(t))
    BY <2>1 DEF Proposal
  <2>3. /\ t \in Own(s) /\ Booked(t) /\ local[t].cycle = c /\ Type(t) \in types
        /\ Type(t) \in EntryTypes => t = c
        /\ \A q \in CallsOf(s) : local[q].cycle = c /\ "STO_CALL" \in types => q <= t
    BY <1>3, LatestOfCycle
  <2>4. p = CloseFor(t)
    BY <2>1, <2>3 DEF CloseFor, Own
  <2> QED
    BY <2>2, <2>3, <2>4
<1>4. CASE g = "flat"
  <2>1. p = Proposal(s, EntryTypeOf(Kind(s)), None)
    BY <1>0, <1>2, <1>4 DEF StatesOf, Wanted, Opens, Closes, WheelCloses, WheelOpens, PmccCloses,
       PmccOpens, SwingCloses, SwingOpens, SpreadCloses, SpreadOpens, SpreadKinds, EntryTypeOf
  <2>2. PendingStateFor(Kind(s), p.type, state) \in StatesOf(Kind(s), "entering")
    <3>1. p.type = EntryTypeOf(Kind(s))
      BY <2>1 DEF Proposal
    <3> QED
      BY <1>0, <3>1 DEF PendingStateFor, StatesOf, EntryTypeOf, SpreadKinds
  <2> QED
    BY <1>2, <1>4, <2>1, <2>2 DEF InStage, Asked
<1>5. CASE g \in {"entering", "selling", "phantom", "stuck"}
  <2>1. g = "phantom" => CloseOf(s, {"MLEG_OPEN"}) = {} 
    BY <1>2, <1>5 DEF InStage, Phantom, CloseOf, LatestFilled, LatestOf
  <2> QED
    BY <1>0, <1>2, <1>5, <2>1 DEF StatesOf, Wanted, Opens, Closes, WheelCloses, WheelOpens,
       PmccCloses, PmccOpens, SwingCloses, SwingOpens, SpreadCloses, SpreadOpens, SpreadKinds
<1>6. CASE g = "holding"
  <2>1. Holding(s) /\ c \in Own(s)
    BY <1>2, <1>6 DEF InStage, Holding, OpenOf
  <2>2. \E types \in {ShortTypes, {"MLEG_OPEN"}, {"BTO"}} :
           /\ p \in CloseOf(s, types)
           /\ types = ShortTypes <=> Kind(s) = "wheel"
           /\ Kind(s) = "wheel" => state = "CSP_OPEN"
           /\ Kind(s) = "swing" => state = "SWING_OPEN" /\ types = {"BTO"}
           /\ Kind(s) \in SpreadKinds => state = "SPREAD_OPEN" /\ types = {"MLEG_OPEN"}
           /\ Kind(s) # "pmcc"
    BY <1>0, <1>2, <1>6 DEF StatesOf, Wanted, Opens, Closes, WheelCloses, WheelOpens,
       PmccCloses, PmccOpens, SwingCloses, SwingOpens, SpreadCloses, SpreadOpens, SpreadKinds,
       ShortTypes
  <2>3. PICK types \in {ShortTypes, {"MLEG_OPEN"}, {"BTO"}} :
           /\ p \in CloseOf(s, types)
           /\ types = ShortTypes <=> Kind(s) = "wheel"
           /\ Kind(s) = "wheel" => state = "CSP_OPEN"
           /\ Kind(s) = "swing" => state = "SWING_OPEN" /\ types = {"BTO"}
           /\ Kind(s) \in SpreadKinds => state = "SPREAD_OPEN" /\ types = {"MLEG_OPEN"}
           /\ Kind(s) # "pmcc"
    BY <2>2
  <2>4. types \in SUBSET OpeningTypes
    BY <2>3 DEF OpeningTypes, ShortTypes
  <2>5. PICK t \in Own(s) : /\ p = CloseFor(t) /\ Booked(t) /\ p.type = ClosingTypeOf(Type(t))
                            /\ local[t].cycle = c /\ Type(t) \in types
                            /\ Type(t) \in EntryTypes => t = c
    BY <1>3, <2>1, <2>3, <2>4
  <2>6. Type(t) \in EntryTypes /\ t = c
    BY <2>1, <2>3, <2>5 DEF Holding, CallsOf, EntryTypes, ShortTypes
  <2>7. PendingStateFor(Kind(s), p.type, state) \in StatesOf(Kind(s), "holding")
    BY <1>0, <2>3, <2>5, <2>6
       DEF PendingStateFor, StatesOf, ClosingTypeOf, SpreadKinds, EntryTypes, ShortTypes
  <2> QED
    BY <2>1, <2>5, <2>6, <2>7 DEF Asked
<1>7. CASE g = "resting"
  <2>1. Resting(s) /\ c \in Own(s) /\ Kind(s) \in {"wheel", "pmcc"}
    BY <1>2, <1>7 DEF InStage, Resting, OpenOf, CallKinds
  <2>2. \/ p = Proposal(s, "STO_CALL", None)
        \/ Kind(s) = "pmcc" /\ p \in CloseOf(s, {"BTO"})
    BY <1>2, <1>7, <2>1 DEF StatesOf, Wanted, Opens, Closes, WheelCloses, WheelOpens,
       PmccCloses, PmccOpens
  <2>3. CASE p = Proposal(s, "STO_CALL", None)
    <3>1. p.type = "STO_CALL"
      BY <2>3 DEF Proposal
    <3>2. PendingStateFor(Kind(s), p.type, state) \in StatesOf(Kind(s), "selling")
      BY <2>1, <3>1 DEF PendingStateFor, StatesOf
    <3> QED
      BY <2>1, <2>3, <3>2 DEF Asked
  <2>4. CASE Kind(s) = "pmcc" /\ p \in CloseOf(s, {"BTO"})
    <3>0. {"BTO"} \in SUBSET OpeningTypes
      BY DEF OpeningTypes
    <3>1. PICK t \in Own(s) : /\ p = CloseFor(t) /\ Booked(t) /\ p.type = ClosingTypeOf(Type(t))
                              /\ local[t].cycle = c /\ Type(t) \in {"BTO"}
                              /\ Type(t) \in EntryTypes => t = c
      BY <1>3, <2>1, <2>4, <3>0
    <3>2. Type(t) \in EntryTypes /\ t = c /\ p.type = "STC"
      BY <3>1 DEF EntryTypes, ClosingTypeOf
    <3>3. PendingStateFor(Kind(s), p.type, state) \in StatesOf(Kind(s), "holding")
      BY <2>4, <3>2 DEF PendingStateFor, StatesOf
    <3> QED
      BY <2>1, <2>4, <3>1, <3>2, <3>3 DEF Asked
  <2> QED
    BY <2>2, <2>3, <2>4
<1>8. CASE g = "called"
  <2>1. Called(s) /\ c \in Own(s) /\ Kind(s) \in {"wheel", "pmcc"}
    BY <1>2, <1>8 DEF InStage, Called, OpenOf, CallKinds
  <2>2. \E types \in {ShortTypes, {"STO_CALL"}} : p \in CloseOf(s, types)
    BY <1>2, <1>8, <2>1 DEF StatesOf, Wanted, Opens, Closes, WheelCloses, WheelOpens,
       PmccCloses, PmccOpens
  <2>3. PICK types \in {ShortTypes, {"STO_CALL"}} : p \in CloseOf(s, types)
    BY <2>2
  <2>4. types \in SUBSET OpeningTypes /\ "STO_CALL" \in types
    BY <2>3 DEF OpeningTypes, ShortTypes
  <2>5. PICK t \in Own(s) : /\ p = CloseFor(t) /\ Booked(t) /\ p.type = ClosingTypeOf(Type(t))
                            /\ local[t].cycle = c /\ Type(t) \in types
                            /\ Type(t) \in EntryTypes => t = c
                            /\ \A q \in CallsOf(s) : local[q].cycle = c => q <= t
    BY <1>3, <2>1, <2>3, <2>4
  <2>6. PICK k \in Own(s) : LatestCall(s, k) /\ local[k].cycle = c
    BY <2>1 DEF Called
  <2>7. k <= t /\ c < k /\ k \in Nat /\ t \in Nat /\ c \in Nat
    BY <2>1, <2>5, <2>6 DEF LatestCall, Own
  <2>8. t # c
    BY <2>7
  <2>9. Type(t) = "STO_CALL"
    BY <2>3, <2>5, <2>8 DEF ShortTypes, EntryTypes
  <2>10. t = k
    <3>1. t \in CallsOf(s)
      BY <2>9 DEF CallsOf
    <3>2. t <= k
      BY <2>6, <3>1 DEF LatestCall
    <3> QED
      BY <2>7, <3>2
  <2>11. PendingStateFor(Kind(s), p.type, state) \in StatesOf(Kind(s), "called")
    BY <1>2, <1>8, <2>1, <2>5, <2>9 DEF PendingStateFor, StatesOf, ClosingTypeOf
  <2> QED
    BY <2>1, <2>5, <2>6, <2>10, <2>11 DEF Asked
<1> QED
  BY <1>4, <1>5, <1>6, <1>7, <1>8 DEF Stages

\* A sequence of one.
LEMMA OneLong ==
    ASSUME NEW S, NEW seq \in Seq(S), seq # <<>>, Len(seq) <= 1
    PROVE  Len(seq) = 1 /\ seq = <<Head(seq)>> /\ Head(seq) \in S
<1>1. Len(seq) \in Nat \ {0}
  BY EmptySeq
<1>2. Len(seq) = 1
  BY <1>1
<1> QED
  BY <1>2

\* What a submission changes: one order more, live, and nothing traded yet.
LEMMA Submission ==
    ASSUME ExactInv, Undisturbed, NEW p, Submit(p), NEW new, new = Len(placed) + 1
    PROVE  /\ UNCHANGED <<legs, row, local, cycle, dayStart, phase, snapshot, answer, todo,
                          dispatching, plan>>
           /\ new \in OrderIds /\ new \notin Submitted /\ new # None
           /\ Submitted' = Submitted \cup {new} /\ Len(placed)' = Len(placed) + 1
           /\ placed'[new] = p /\ \A o \in Submitted : placed'[o] = placed[o] /\ o # new
           /\ atBroker'[new] = "open" /\ \A o \in OrderIds \ {new} : atBroker'[o] = atBroker[o]
           /\ routing = NotRouting /\ routing' # NotRouting
           /\ routing'.order = new /\ routing'.next = "persist"
           /\ plan = <<p>> /\ Len(plan) = 1 /\ phase \in {"rolling", "proposing"}
           /\ todo = {} /\ dispatching = None
           /\ ~Booked(new) /\ local[new].status = "none" /\ cycle[new].status = "none"
           /\ legs[new] = {} /\ new >= dayStart
           /\ \A o \in Submitted : Live(o) => o \in LocallyLive /\ o >= dayStart
           /\ p.strategy \in Strategies /\ p \in Wanted(p.strategy)
<1> USE Typing DEF ExactInv, OrdersAgree
<1>1. /\ UNCHANGED <<row, local, cycle, dayStart, phase, snapshot, answer, todo, dispatching, plan>>
      /\ routing = NotRouting /\ plan # <<>> /\ p = Head(plan)
      /\ routing' = [order |-> new, next |-> "persist"] /\ Lands(p, "open")
  BY DEF Submit, AtHead, dbVars, timeVars, readVars, Undisturbed
<1>2. plan = <<p>> /\ Len(plan) = 1 /\ p \in Proposals /\ p \in Wanted(p.strategy)
  <2>1. plan \in Seq(Proposals) /\ plan # <<>> /\ Len(plan) <= 1 /\ p \in Wanted(p.strategy)
    BY <1>1 DEF PlanInv
  <2> QED
    BY <1>1, <2>1, OneLong
<1>3. /\ legs' = legs /\ new \in OrderIds /\ new # None /\ placed' = Append(placed, p)
      /\ atBroker' = [atBroker EXCEPT ![new] = "open"]
  BY <1>1, MaxOrdersAssumption DEF Lands, OrderIds, None
<1>4. /\ new \notin Submitted /\ Submitted' = Submitted \cup {new} /\ Len(placed)' = Len(placed) + 1
      /\ placed'[new] = p /\ \A o \in Submitted : placed'[o] = placed[o] /\ o # new
  BY <1>2, <1>3 DEF Submitted
<1>5. routing'.order = new /\ routing'.next = "persist"
  BY <1>1
<1>6. routing' # NotRouting
  BY <1>3, <1>5 DEF NotRouting
<1>7. phase \in {"rolling", "proposing"} /\ todo = {} /\ dispatching = None
  BY <1>1, Idle DEF Inv, Ledger, RoutingInv, TypeInv, Shape, AnswerInv
<1>8. /\ local[new].status = "none" /\ cycle[new].status = "none" /\ atBroker[new] = "none"
      /\ ~Booked(new)
  BY <1>3, <1>4 DEF Inv, Ledger, OrdersInv, StatusInv
<1>9. legs[new] = {} /\ new >= dayStart
  BY <1>3, <1>8 DEF LegsInv, StatusInv
<1>10. \A o \in Submitted : Live(o) => o \in LocallyLive /\ o >= dayStart
  BY <1>1, <1>7, Idle DEF Live, LocallyLive, FreshInv
<1>11. p.strategy \in Strategies
  BY <1>2 DEF Proposals
<1> QED
  BY <1>1, <1>2, <1>3, <1>4, <1>5, <1>6, <1>7, <1>8, <1>9, <1>10, <1>11

\* Of the orders submitted, nothing that is said of one changes.
LEMMA SubmissionKeepsOthers ==
    ASSUME ExactInv, Undisturbed, NEW p, Submit(p), NEW new, new = Len(placed) + 1
    PROVE  /\ \A o \in Submitted :
                /\ Type(o)' = Type(o) /\ Owner(o)' = Owner(o) /\ Live(o)' = Live(o)
                /\ Booked(o)' = Booked(o) /\ CloseFor(o)' = CloseFor(o)
                /\ placed'[o] = placed[o] /\ atBroker'[o] = atBroker[o]
                /\ ClosesOf(o)' = ClosesOf(o) \cup (IF p = CloseFor(o) THEN {new} ELSE {})
           /\ Type(new)' = p.type /\ Owner(new)' = p.strategy /\ Live(new)' /\ ~Booked(new)'
           /\ LocallyLive' = LocallyLive
<1> USE Typing, Submission
<1>1. \A o \in Submitted :
         /\ Type(o)' = Type(o) /\ Owner(o)' = Owner(o) /\ Booked(o)' = Booked(o)
         /\ placed'[o] = placed[o] /\ atBroker'[o] = atBroker[o]
  BY DEF Type, Owner, Booked, ExactInv
<1>2. \A o \in Submitted : CloseFor(o)' = CloseFor(o)
  BY <1>1 DEF CloseFor
<1>3. \A o \in Submitted : Live(o)' = Live(o)
  <2>1. \A o \in Submitted : routing.order # o /\ routing'.order # o
    BY Idle DEF ExactInv, OrdersAgree
  <2> QED
    BY <2>1 DEF Live
<1>4. \A o \in Submitted : ClosesOf(o)' = ClosesOf(o) \cup (IF p = CloseFor(o) THEN {new} ELSE {})
  BY <1>2 DEF ClosesOf
<1>5. Type(new)' = p.type /\ Owner(new)' = p.strategy /\ Live(new)' /\ ~Booked(new)'
  BY DEF Type, Owner, Live, Booked
<1>6. LocallyLive' = LocallyLive
  BY DEF LocallyLive, LiveStatuses
<1> QED
  BY <1>1, <1>2, <1>3, <1>4, <1>5, <1>6

\* A close is submitted only when no other close of its target is live.
LEMMA NoSecondClose ==
    ASSUME ExactInv, Undisturbed, NEW p, Submit(p), p.type \in ClosingTypes,
           NEW q \in Submitted, placed[q] = p, Live(q)
    PROVE  FALSE
<1> USE Typing DEF ExactInv, OrdersAgree
<1> DEFINE s == p.strategy
           new == Len(placed) + 1
           Today == {o \in Submitted : o >= dayStart /\ placed[o] = p}
<1>0. /\ s \in Strategies /\ p \in Wanted(s) /\ routing = NotRouting /\ dispatching = None
      /\ q >= dayStart
  BY Submission
<1>1. Today \in SUBSET Nat /\ q \in Today
  BY <1>0
<1>2. PICK b \in Today : b \in EarliestOf(Today)
  BY <1>1, EarliestExists
<1>3. local[b].status \in {"FILLED", "CANCELLED"}
  BY <1>2 DEF Submit, IdAvailable, BaseOrder
<1>4. b \in Submitted /\ b >= dayStart /\ placed[b] = p
  BY <1>2
<1>5. local[b].status = "FILLED"
  BY <1>3, <1>4 DEF StatusInv
<1>6. Booked(b)
  BY <1>0, <1>4, <1>5 DEF StatusInv
<1>7. ~Routes(s)
  BY <1>0 DEF Routes, NotRouting
<1>8. Asked(s, p)
  BY <1>0, <1>7, WantedMeans
<1>9. PICK t \in Own(s) :
        /\ p = CloseFor(t)
        /\ \/ /\ Holding(s) \/ Resting(s)
              /\ t = row[s].cycle /\ Type(t) \in EntryTypes
           \/ Called(s) /\ LatestCall(s, t)
  <2>1. \A target : Proposal(s, EntryTypeOf(Kind(s)), target).type \in OpeningTypes
    BY DEF Proposal, EntryTypeOf, OpeningTypes
  <2>2. \A target : Proposal(s, "STO_CALL", target).type \in OpeningTypes
    BY DEF Proposal, OpeningTypes
  <2> QED
    BY <1>8, <2>1, <2>2, TypesApart DEF Asked
<1>10. b \in ClosesOf(t) /\ placed[b].target = t /\ Type(b) \in ClosingTypes
  BY <1>4, <1>9, ClosesClose DEF ClosesOf
<1>11. CASE (Holding(s) \/ Resting(s)) /\ t = row[s].cycle /\ Type(t) \in EntryTypes
  <2>1. cycle[t].status = "ended"
    BY <1>4, <1>6, <1>10, <1>11 DEF ClosesInv, CloseIsTrue
  <2>2. cycle[t].status = "open"
    BY <1>11 DEF Holding, Resting, OpenOf
  <2> QED
    BY <2>1, <2>2
<1>12. CASE Called(s) /\ LatestCall(s, t)
  <2>1. PICK k \in Own(s) : LatestCall(s, k) /\ \A o \in ClosesOf(k) : ~Booked(o)
    BY <1>12 DEF Called
  <2>2. k = t
    BY <1>12, <2>1 DEF LatestCall, Own, CallsOf
  <2> QED
    BY <1>6, <1>10, <2>1, <2>2
<1> QED
  BY <1>9, <1>11, <1>12

\* OrderRouter.place up to the broker's answer: the new order is open, has no
\* row yet, and disturbs nothing that holds of the others.
LEMMA SubmitKeepsOrders ==
    ASSUME ExactInv, Undisturbed, NEW p, Submit(p), NEW new, new = Len(placed) + 1,
           NEW s, s = p.strategy
    PROVE  OrdersAgree'
<1> USE Typing DEF ExactInv, OrdersAgree
<1>0. /\ UNCHANGED <<legs, row, local, cycle, dayStart, phase, snapshot, answer, todo,
                     dispatching, plan>>
      /\ new \in OrderIds /\ new \notin Submitted /\ new # None
      /\ Submitted' = Submitted \cup {new} /\ Len(placed)' = Len(placed) + 1
      /\ placed'[new] = p /\ \A o \in Submitted : placed'[o] = placed[o] /\ o # new
      /\ atBroker'[new] = "open" /\ \A o \in OrderIds \ {new} : atBroker'[o] = atBroker[o]
      /\ routing = NotRouting /\ routing' # NotRouting
      /\ routing'.order = new /\ routing'.next = "persist"
      /\ plan = <<p>> /\ Len(plan) = 1 /\ phase \in {"rolling", "proposing"}
      /\ todo = {} /\ dispatching = None
      /\ ~Booked(new) /\ local[new].status = "none" /\ cycle[new].status = "none"
      /\ legs[new] = {} /\ new >= dayStart
      /\ \A o \in Submitted : Live(o) => o \in LocallyLive /\ o >= dayStart
      /\ s \in Strategies /\ p \in Wanted(s)
  BY Submission
<1>1. /\ \A o \in Submitted :
                /\ Type(o)' = Type(o) /\ Owner(o)' = Owner(o) /\ Live(o)' = Live(o)
                /\ Booked(o)' = Booked(o) /\ CloseFor(o)' = CloseFor(o)
                /\ placed'[o] = placed[o] /\ atBroker'[o] = atBroker[o]
                /\ ClosesOf(o)' = ClosesOf(o) \cup (IF p = CloseFor(o) THEN {new} ELSE {})
      /\ Type(new)' = p.type /\ Owner(new)' = s /\ Live(new)' /\ ~Booked(new)'
      /\ LocallyLive' = LocallyLive
  BY SubmissionKeepsOthers
<1>2. Asked(s, p)
  <2>1. ~Routes(s)
    BY <1>0 DEF Routes, NotRouting
  <2> QED
    BY <1>0, <2>1, WantedMeans
<1>3. \/ p = Proposal(s, EntryTypeOf(Kind(s)), None)
      \/ p = Proposal(s, "STO_CALL", None) /\ Kind(s) \in CallKinds
      \/ \E t \in Own(s) :
             /\ p = CloseFor(t) /\ Booked(t) /\ Type(t) \in OpeningTypes
             /\ \/ (Holding(s) \/ Resting(s)) /\ t = row[s].cycle /\ Type(t) \in EntryTypes
                \/ Type(t) = "STO_CALL"
  <2>1. Resting(s) => Kind(s) \in CallKinds
    BY DEF Resting
  <2>2. \A t : LatestCall(s, t) => Type(t) = "STO_CALL"
    BY DEF LatestCall, CallsOf
  <2> QED
    BY <1>2, <2>1, <2>2, TypesApart DEF Asked
<1>4. /\ p.type \in EntryTypes => p.type = EntryTypeOf(Kind(s))
      /\ p.type = "STO_CALL" => Kind(s) \in CallKinds
      /\ p.type \in ClosingTypes => \E t \in Own(s) :
             /\ p = CloseFor(t) /\ p.target = t /\ Booked(t) /\ Type(t) \in OpeningTypes
             /\ p.type = "STC" => cycle[t].status = "open"
  <2>1. CASE p = Proposal(s, EntryTypeOf(Kind(s)), None)
    <3>1. p.type = EntryTypeOf(Kind(s))
      BY <2>1 DEF Proposal
    <3>2. p.type \in EntryTypes
      BY <3>1 DEF EntryTypeOf, EntryTypes
    <3> QED
      BY <3>1, <3>2, TypesApart
  <2>2. CASE p = Proposal(s, "STO_CALL", None) /\ Kind(s) \in CallKinds
    <3>1. p.type = "STO_CALL"
      BY <2>2 DEF Proposal
    <3> QED
      BY <2>2, <3>1, TypesApart
  <2>3. ASSUME NEW t \in Own(s), p = CloseFor(t), Booked(t), Type(t) \in OpeningTypes,
               \/ (Holding(s) \/ Resting(s)) /\ t = row[s].cycle /\ Type(t) \in EntryTypes
               \/ Type(t) = "STO_CALL"
        PROVE  /\ p.type \in ClosingTypes /\ p.target = t
               /\ p.type = "STC" => cycle[t].status = "open"
    <3>1. p.target = t /\ p.type = ClosingTypeOf(Type(t))
      BY <2>3 DEF CloseFor, Proposal
    <3>2. Holding(s) \/ Resting(s) => cycle[row[s].cycle].status = "open"
      BY DEF Holding, Resting, OpenOf
    <3>3. Type(t) = "STO_CALL" => p.type # "STC"
      BY <3>1 DEF ClosingTypeOf
    <3> QED
      BY <2>3, <3>1, <3>2, <3>3, TypesApart
  <2> QED
    BY <1>3, <2>1, <2>2, <2>3, TypesApart
<1>5. StatusInv'
  <2>1. \A o \in OrderIds \ Submitted' : ~Booked(o)'
    BY <1>0 DEF StatusInv, Booked
  <2>2. ASSUME NEW o \in Submitted
        PROVE  /\ local[o].status # "none"
               /\ local[o].status = "CANCELLED" => atBroker[o] \in Dead
               /\ Booked(o) <=> local[o].status = "FILLED" /\ dispatching # o
               /\ atBroker[o] # "cancelling"
               /\ atBroker[o] \in Dead => o < dayStart
               /\ atBroker[o] \in LiveAtBroker => o >= dayStart
    BY <1>0, Idle DEF StatusInv
  <2>3. \A o \in Submitted : routing'.order # o
    BY <1>0
  <2>4. dayStart' <= Len(placed') + 1
    BY <1>0 DEF StatusInv
  <2> QED
    BY <1>0, <1>1, <2>1, <2>2, <2>3, <2>4 DEF StatusInv, Dead
<1>6. AnswersInv' /\ SnapInv'
  BY <1>0 DEF AnswersInv, SnapInv
<1>7. LegsInv' /\ KindsInv'
  BY <1>0, <1>1, <1>4 DEF LegsInv, KindsInv, Kind, CallKinds
<1>8. TagsInv'
  <2>1. \A t \in Strategies : Own(t) \subseteq Own(t)'
    BY <1>0, <1>1 DEF Own
  <2>2. \A o \in Submitted : Booked(o) => local[o].cycle \in Submitted
    BY DEF TagsInv, Own
  <2> QED
    BY <1>0, <1>1, <2>1, <2>2 DEF TagsInv
<1>9. ClosesInv'
  <2>1. ASSUME NEW o \in Submitted, Type(o) \in ClosingTypes, NEW t, t = placed[o].target
        PROVE  CloseIsTrue(o, t)'
    <3>1. CloseIsTrue(o, t) /\ t \in Submitted
      BY <2>1 DEF ClosesInv, CloseIsTrue
    <3> QED
      BY <1>0, <1>1, <2>1, <3>1 DEF CloseIsTrue
  <2>2. ASSUME p.type \in ClosingTypes, NEW t, t = p.target
        PROVE  CloseIsTrue(new, t)'
    <3>1. /\ t \in Own(s) /\ p = CloseFor(t) /\ Booked(t) /\ Type(t) \in OpeningTypes
          /\ p.type = "STC" => cycle[t].status = "open"
      BY <1>4, <2>2
    <3>2. t \in Submitted
      BY <3>1 DEF Own
    <3> QED
      BY <1>0, <1>1, <3>1, <3>2 DEF CloseIsTrue
  <2>3. SUFFICES ASSUME NEW o \in Submitted \cup {new}, Type(o)' \in ClosingTypes
                 PROVE  CloseIsTrue(o, placed[o].target)'
    BY <1>0 DEF ClosesInv
  <2>4. CASE o \in Submitted
    <3>1. Type(o) \in ClosingTypes /\ placed'[o].target = placed[o].target
      BY <1>0, <1>1, <2>3, <2>4
    <3> QED
      BY <2>1, <3>1, <2>4 DEF CloseIsTrue
  <2>5. CASE o = new
    <3>1. p.type \in ClosingTypes /\ placed'[o].target = p.target
      BY <1>0, <2>3, <2>5 DEF Type
    <3> QED
      BY <2>2, <3>1, <2>5 DEF CloseIsTrue
  <2> QED
    BY <2>3, <2>4, <2>5
<1>10. OneCloseInv'
  <2>1. \A q \in Submitted : p.type \in ClosingTypes /\ placed[q] = p => ~Live(q)
    BY NoSecondClose
  <2>2. \A q \in Submitted : placed[q] = p => Type(q) = p.type
    BY DEF Type
  <2>3. SUFFICES ASSUME NEW o \in Submitted \cup {new}, NEW q \in Submitted \cup {new},
                        Type(o)' \in ClosingTypes, placed'[o] = placed'[q], Live(o)', Live(q)'
                 PROVE  o = q
    BY <1>0 DEF OneCloseInv
  <2> QED
    BY <1>0, <1>1, <2>1, <2>2, <2>3 DEF OneCloseInv
<1>11. ExpiredInv'
  <2>1. cycle[new].outcome # "expired"
    BY <1>0 DEF TagsInv
  <2>2. \A c \in Submitted : ClosesOf(c) \subseteq Submitted
    BY DEF ClosesOf
  <2> QED
    BY <1>0, <1>1, <2>1, <2>2 DEF ExpiredInv
<1>12. FreshInv'
  BY <1>0, <1>1 DEF FreshInv
<1>13. PlanInv'
  BY <1>0 DEF PlanInv
<1> QED
  BY <1>5, <1>6, <1>7, <1>8, <1>9, <1>10, <1>11, <1>12, <1>13

\* The submission moves its strategy on to the stage in which the new order is
\* working, and leaves the other strategies where they are.
LEMMA SubmitKeepsStages ==
    ASSUME ExactInv, Undisturbed, NEW p, Submit(p), NEW new, new = Len(placed) + 1,
           NEW s, s = p.strategy
    PROVE  StagesInv'
<1> USE Typing DEF ExactInv, OrdersAgree
<1>0. /\ UNCHANGED <<legs, row, local, cycle, dayStart>>
      /\ new \in OrderIds /\ new \notin Submitted
      /\ Submitted' = Submitted \cup {new}
      /\ placed'[new] = p /\ \A o \in Submitted : placed'[o] = placed[o] /\ o # new
      /\ routing = NotRouting /\ routing'.order = new /\ routing'.next = "persist"
      /\ dispatching = None /\ legs[new] = {} /\ cycle[new].status = "none"
      /\ s \in Strategies /\ p \in Wanted(s)
  BY Submission
<1>1. /\ \A o \in Submitted :
                /\ Type(o)' = Type(o) /\ Owner(o)' = Owner(o) /\ Live(o)' = Live(o)
                /\ Booked(o)' = Booked(o)
                /\ placed'[o] = placed[o] /\ atBroker'[o] = atBroker[o]
                /\ ClosesOf(o)' = ClosesOf(o) \cup (IF p = CloseFor(o) THEN {new} ELSE {})
      /\ Type(new)' = p.type /\ Owner(new)' = s /\ Live(new)' /\ ~Booked(new)'
  BY SubmissionKeepsOthers
<1>2. new \in Nat /\ \A o \in Submitted : o < new
  OBVIOUS
<1>3. \A t \in Strategies : ~Routes(t) /\ (Routes(t)' <=> t = s)
  BY <1>0, <1>1 DEF Routes, NotRouting
<1>4. \A o \in Submitted : Effective(o)' = Effective(o)
  BY <1>0, <1>1 DEF Effective
<1>5. ASSUME NEW t \in Strategies, t # s
      PROVE  Staged(t)'
  <2>1. Own(t)' = Own(t) /\ Own(t) \subseteq Submitted
    BY <1>0, <1>1, <1>5 DEF Own
  <2>2. OpenOf(t)' = OpenOf(t)
    BY <1>0, <2>1 DEF OpenOf
  <2>3. ASSUME NEW o \in Own(t)
        PROVE  /\ Type(o)' = Type(o) /\ local'[o].cycle = local[o].cycle
               /\ ClosesOf(o) \subseteq ClosesOf(o)'
               /\ \A q \in ClosesOf(o)' : Booked(q)' => q \in ClosesOf(o) /\ Booked(q)
    <3>1. ClosesOf(o) \subseteq Submitted
      BY DEF ClosesOf
    <3> QED
      BY <1>0, <1>1, <2>1, <3>1
  <2>4. OwnKept(t)
    BY <2>1, <2>2, <2>3 DEF OwnKept
  <2>5. WorkKept(t)
    BY <1>0, <1>4, <2>1 DEF WorkKept, Working, Carrying
  <2>6. RowKept(t)
    BY <1>0, <1>3, <1>5 DEF RowKept, Shows, Kind
  <2> QED
    BY <2>4, <2>5, <2>6, StageFrame DEF StagesInv
<1> DEFINE shown == PendingStateFor(Kind(s), p.type, row[s].state)
           c     == row[s].cycle
<1>6. \/ /\ Flat(s) /\ p = Proposal(s, EntryTypeOf(Kind(s)), None)
         /\ shown \in StatesOf(Kind(s), "entering")
      \/ /\ Resting(s) /\ p = Proposal(s, "STO_CALL", None)
         /\ shown \in StatesOf(Kind(s), "selling")
      \/ \E t \in Own(s) :
           /\ p = CloseFor(t)
           /\ \/ /\ Holding(s) \/ (Kind(s) = "pmcc" /\ Resting(s))
                 /\ t = c /\ shown \in StatesOf(Kind(s), "holding")
              \/ /\ Called(s) /\ LatestCall(s, t)
                 /\ shown \in StatesOf(Kind(s), "called")
  BY <1>0, <1>3, WantedMeans DEF Asked
<1>7. ASSUME NEW g \in Stages, shown \in StatesOf(Kind(s), g), InStage(s, g)'
      PROVE  Staged(s)'
  BY <1>0, <1>1, <1>3, <1>7 DEF Staged, Shows, Kind
<1> HIDE DEF shown
<1>8. /\ Own(s)' = Own(s) \cup {new} /\ Own(s) \subseteq Submitted /\ new \notin Own(s)
      /\ OpenOf(s)' = OpenOf(s) /\ Carrying(s)' = Carrying(s)
      /\ Working(s) \subseteq Working(s)' /\ Working(s)' \subseteq Working(s) \cup {new}
      /\ p.type \in OpeningTypes => new \in Working(s)'
      /\ CallsOf(s)' = CallsOf(s) \cup (IF p.type = "STO_CALL" THEN {new} ELSE {})
  <2>1. Own(s)' = Own(s) \cup {new} /\ Own(s) \subseteq Submitted /\ new \notin Own(s)
    BY <1>0, <1>1 DEF Own
  <2>2. p.type \in OpeningTypes => Effective(new)'
    BY <1>1, TypesApart DEF Effective
  <2> QED
    BY <1>0, <1>1, <1>4, <2>1, <2>2 DEF OpenOf, Carrying, Working, CallsOf
<1>9. Kind(s)' = Kind(s) /\ NoPointer(s)' = NoPointer(s) /\ Under(s)' = Under(s)
  BY <1>0 DEF Kind, NoPointer, Under
<1>10. ASSUME Flat(s), p = Proposal(s, EntryTypeOf(Kind(s)), None),
              shown \in StatesOf(Kind(s), "entering")
       PROVE  Staged(s)'
  <2>1. p.type \in EntryTypes
    BY <1>10 DEF Proposal, EntryTypeOf, EntryTypes
  <2>2. Working(s)' = {new} /\ Carrying(s)' = {} /\ OpenOf(s)' = {} /\ NoPointer(s)'
    BY <1>8, <1>9, <1>10, <2>1, TypesApart DEF Flat
  <2>3. Entering(s)'
    BY <1>1, <1>8, <2>1, <2>2 DEF Entering
  <2>4. InStage(s, "entering")' /\ "entering" \in Stages
    BY <2>3 DEF InStage, Stages
  <2> QED
    BY <1>7, <1>10, <2>4
<1>11. ASSUME Resting(s), p = Proposal(s, "STO_CALL", None),
              shown \in StatesOf(Kind(s), "selling")
       PROVE  Staged(s)'
  <2>1. p.type = "STO_CALL" /\ p.type \in OpeningTypes
    BY <1>11 DEF Proposal, OpeningTypes
  <2>2. Working(s)' = {new} /\ OpenOf(s)' = {c} /\ c \in Submitted /\ Carrying(s)' \subseteq Under(s)'
    BY <1>8, <1>9, <1>11, <2>1 DEF Resting, OpenOf
  <2>3. LatestCall(s, new)'
    <3>1. \A q \in CallsOf(s) : q < new /\ q \in Nat
      BY <1>2, <1>8 DEF CallsOf
    <3>2. CallsOf(s)' = CallsOf(s) \cup {new}
      BY <1>8, <2>1
    <3>3. \A q \in CallsOf(s)' : q <= new
      BY <1>2, <3>1, <3>2
    <3>4. row'[s].cycle < new
      BY <1>0, <1>2, <2>2
    <3> QED
      BY <3>2, <3>3, <3>4 DEF LatestCall
  <2>4. Selling(s)'
    BY <1>0, <1>1, <1>8, <1>9, <1>11, <2>2, <2>3 DEF Selling, Resting
  <2>5. InStage(s, "selling")' /\ "selling" \in Stages
    BY <2>4 DEF InStage, Stages
  <2> QED
    BY <1>7, <1>11, <2>5
<1>12. ASSUME NEW t \in Own(s), p = CloseFor(t)
       PROVE  /\ p.type # "STO_CALL" /\ CallsOf(s)' = CallsOf(s)
              /\ ClosesOf(t)' = ClosesOf(t) \cup {new} /\ Type(t)' = Type(t)
              /\ \A q \in ClosesOf(t)' : Booked(q)' => q \in ClosesOf(t) /\ Booked(q)
  <2>1. p.type = ClosingTypeOf(Type(t))
    BY <1>12 DEF CloseFor, Proposal
  <2>2. p.type # "STO_CALL"
    BY <2>1 DEF ClosingTypeOf
  <2>3. ClosesOf(t) \subseteq Submitted
    BY DEF ClosesOf
  <2> QED
    BY <1>0, <1>1, <1>8, <1>12, <2>2, <2>3
<1>13. ASSUME NEW t \in Own(s), p = CloseFor(t), Holding(s) \/ (Kind(s) = "pmcc" /\ Resting(s)),
              t = c, shown \in StatesOf(Kind(s), "holding")
       PROVE  Staged(s)'
  <2>1. /\ OpenOf(s) = {c} /\ Carrying(s) \subseteq {c} /\ Working(s) \subseteq ClosesOf(c)
        /\ Kind(s) = "wheel" => \A q \in CallsOf(s) : local[q].cycle # c
    BY <1>13 DEF Holding, Resting, Under
  <2>0. ClosesOf(t)' = ClosesOf(t) \cup {new}
    BY <1>12, <1>13
  <2>2. Working(s)' \subseteq ClosesOf(t)' /\ Carrying(s)' \subseteq {t} /\ OpenOf(s)' = {t}
    <3>1. Working(s)' \subseteq Working(s) \cup {new} /\ Carrying(s)' = Carrying(s)
          /\ OpenOf(s)' = OpenOf(s)
      BY <1>8
    <3> QED
      BY <1>13, <2>0, <2>1, <3>1
  <2>3. Kind(s)' = "wheel" => \A q \in CallsOf(s)' : local'[q].cycle # t
    BY <1>0, <1>9, <1>12, <1>13, <2>1
  <2>4. row'[s].cycle = t
    BY <1>0, <1>13
  <2>5. Holding(s)'
    BY <2>2, <2>3, <2>4 DEF Holding, ClosesOf, CloseFor
  <2> QED
    BY <1>7, <1>13, <2>5 DEF InStage, Stages
<1>14. ASSUME NEW t \in Own(s), p = CloseFor(t), Called(s), LatestCall(s, t),
              shown \in StatesOf(Kind(s), "called")
       PROVE  Staged(s)'
  <2>1. PICK k \in Own(s) : /\ LatestCall(s, k) /\ local[k].cycle = c
                            /\ Working(s) \subseteq ClosesOf(k)
                            /\ \A q \in ClosesOf(k) : ~Booked(q)
                            /\ Carrying(s) \subseteq Under(s) \cup {k}
    BY <1>14 DEF Called
  <2>2. k = t
    BY <1>8, <1>14, <2>1 DEF LatestCall, CallsOf
  <2>0. ClosesOf(k)' = ClosesOf(k) \cup {new}
    BY <1>12, <1>14, <2>2
  <2>3. Working(s)' \subseteq ClosesOf(k)' /\ Carrying(s)' \subseteq Under(s)' \cup {k}
    <3>1. Working(s)' \subseteq Working(s) \cup {new} /\ Carrying(s)' = Carrying(s)
          /\ Under(s)' = Under(s)
      BY <1>8, <1>9
    <3> QED
      BY <2>0, <2>1, <3>1
  <2>4. \A q \in ClosesOf(k)' : ~Booked(q)'
    BY <1>12, <1>14, <2>1, <2>2
  <2>5. LatestCall(s, k)'
    BY <1>0, <1>12, <1>14, <2>1 DEF LatestCall
  <2>6. Called(s)'
    BY <1>0, <1>8, <1>9, <1>14, <2>1, <2>3, <2>4, <2>5 DEF Called
  <2> QED
    BY <1>7, <1>14, <2>6 DEF InStage, Stages
<1>15. Staged(s)'
  BY <1>6, <1>10, <1>11, <1>13, <1>14
<1> QED
  BY <1>5, <1>15 DEF StagesInv

\* In an undisturbed environment no order is unknown, replaced or lost.
LEMMA ExcludedSteps ==
    ASSUME ExactInv, Undisturbed
    PROVE  /\ \A o \in OrderIds : ~UnknownOrder(o)
           /\ \A p : ~ReplaceStale(p) /\ ~SubmitAnswerLost(p)
<1> USE DEF ExactInv, OrdersAgree
<1>1. ASSUME NEW o \in OrderIds, UnknownOrder(o)
      PROVE  FALSE
  <2>1. o \in todo /\ local[o].status = "none" /\ routing.next = "none"
    BY <1>1, Idle DEF UnknownOrder
  <2>2. o \in Submitted
    BY <2>1 DEF Inv, TypeInv, Shape
  <2> QED
    BY <2>1, <2>2 DEF StatusInv
<1>2. \A p : ~ReplaceStale(p) /\ ~SubmitAnswerLost(p)
  BY DEF Undisturbed, ReplaceStale, SubmitAnswerLost
<1> QED
  BY <1>1, <1>2

\* A step that changes no variable of the bot keeps the invariant.
LEMMA StutterKeeps ==
    ASSUME ExactInv, UNCHANGED botVars
    PROVE  OrdersAgree' /\ StagesInv' /\ LiveStays
<1> USE Typing DEF ExactInv, OrdersAgree
<1>0. UNCHANGED <<placed, atBroker, legs, row, local, cycle, dayStart, phase, snapshot, answer,
                  todo, dispatching, plan, routing>>
  BY DEF botVars, vars
<1>1. LiveStays
  BY <1>0 DEF LiveStays, Live
<1>2. StatusInv' /\ AnswersInv'
  BY <1>0, SameOrders DEF StatusInv, AnswersInv
<1>3. FreshInv' /\ SnapInv'
  <2>1. \A o : Shown(o)' = Shown(o)
    BY <1>0 DEF Shown, Type
  <2> QED
    BY <1>0, <2>1, SameOrders DEF FreshInv, SnapInv
<1>4. PlanInv'
  <2>1. \A s : Wanted(s)' = Wanted(s)
    BY <1>0, WantedStays
  <2> QED
    BY <1>0, <2>1 DEF PlanInv
<1>5. \A s \in Strategies : Staged(s)'
  BY <1>0, <1>1, RowStays, LiveKeepsStages
<1> QED
  BY <1>1, <1>2, <1>3, <1>4, <1>5, LiveKeepsOrders DEF StagesInv

\* Every step outside the reconcile pass.
LEMMA RouterKeeps ==
    ASSUME ExactInv, Undisturbed, RouterStep
    PROVE  OrdersAgree' /\ StagesInv'
<1>1. ASSUME NEW p, Submit(p)
      PROVE  OrdersAgree' /\ StagesInv'
  BY <1>1, SubmitKeepsOrders, SubmitKeepsStages
<1> QED
  BY <1>1, TickKeeps, PlanningKeeps, PersistOrderKeeps, UpsertKeeps, ExcludedSteps DEF RouterStep
=============================================================================
