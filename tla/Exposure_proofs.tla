--------------------------- MODULE Exposure_proofs ---------------------------
(***************************************************************************)
(* The reconcile pass keeps the books exact, and what follows of that: no  *)
(* exposure is lost from sight, put on twice or closed twice, the cycle    *)
(* ledger tells the truth, the calls that are sold are covered, and the    *)
(* positions live as module PositionLife says.                             *)
(***************************************************************************)
EXTENDS Stages_proofs, OperatorRows_proofs, FiniteSetTheorems

-----------------------------------------------------------------------------
(* Dispatching an order. *)

\* The order whose end is dispatched is the only one the step concerns.
LEMMA Dispatching ==
    ASSUME ExactInv, NEW o \in OrderIds, DispatchOrderTransition(o)
    PROVE  /\ UNCHANGED <<placed, atBroker, legs, dayStart, phase, snapshot, answer, plan, routing>>
           /\ phase = "processing" /\ dispatching = o /\ o \in todo /\ o \in Submitted
           /\ todo' = todo \ {o} /\ dispatching' = None
           /\ routing = NotRouting /\ routing.next = "none" /\ plan = <<>>
           /\ \A q \in Submitted : routing.order # q
           /\ \A s : ~Routes(s)
           /\ local[o].status = answer[o] /\ local[o].status \in {"FILLED", "CANCELLED"}
           /\ cycle[o].status = "none" /\ cycle[o].outcome = "none" /\ ~Booked(o)
           /\ Live(o) /\ \A q \in Submitted \ {o} : Live(q) <=> q \in LocallyLive
           /\ local[o].status = "FILLED" => atBroker[o] = "filled" /\ o \in Working(Owner(o))
           /\ local[o].status = "CANCELLED" => atBroker[o] \in Dead
           /\ \A q \in Submitted : Type(q) \in ClosingTypes => placed[q].target # o
<1> USE Typing DEF ExactInv, OrdersAgree
<1>1. /\ UNCHANGED <<placed, atBroker, legs, dayStart, phase, snapshot, answer, plan, routing>>
      /\ phase = "processing" /\ dispatching = o
      /\ todo' = todo \ {o} /\ dispatching' = None
  BY DEF DispatchOrderTransition, UnchangedByReconciler, brokerVars, timeVars, routeVars
<1>2. o \in todo /\ o \in Submitted /\ o # None
  BY <1>1 DEF Inv, TypeInv, Shape
<1>3. /\ routing = NotRouting /\ routing.next = "none" /\ plan = <<>>
      /\ \A q \in Submitted : routing.order # q
  BY <1>1, Idle
<1>4. /\ local[o].status = answer[o] /\ local[o].status \in {"FILLED", "CANCELLED"}
      /\ cycle[o].status = "none"
  BY <1>1, <1>2 DEF Inv, Ledger, AnswerInv, AnswersInv
<1>5. cycle[o].outcome = "none" /\ ~Booked(o) /\ Live(o)
  BY <1>1, <1>2, <1>4 DEF TagsInv, StatusInv, Live
<1>6. \A q \in Submitted \ {o} : Live(q) <=> q \in LocallyLive
  BY <1>1, <1>3 DEF Live, LocallyLive
<1>7. local[o].status = "FILLED" => atBroker[o] = "filled" /\ o \in Working(Owner(o))
  BY <1>2, <1>5 DEF Inv, Ledger, OrdersInv, Working, Own, Effective
<1>8. local[o].status = "CANCELLED" => atBroker[o] \in Dead
  BY <1>2 DEF StatusInv
<1>9. \A q \in Submitted : Type(q) \in ClosingTypes => placed[q].target # o
  BY <1>5 DEF ClosesInv, CloseIsTrue
<1>10. \A s : ~Routes(s)
  BY <1>3 DEF Routes
<1> QED
  BY <1>1, <1>2, <1>3, <1>4, <1>5, <1>6, <1>7, <1>8, <1>9, <1>10

\* The fill of order o is booked to cycle b, which it opens, ends or continues.
BooksTo(o, b) ==
    /\ b \in Own(Owner(o)) /\ Type(b) \in EntryTypes
    /\ local'[o].cycle = b /\ local'[o].status = local[o].status
    /\ \A q \in OrderIds \ {o} : local'[q] = local[q]
    /\ \/ /\ Type(o) \in EntryTypes /\ b = o
          /\ cycle'[o].status = "open" /\ cycle'[o].outcome = "none"
          /\ \A x \in OrderIds \ {o} : cycle'[x] = cycle[x]
       \/ /\ Type(o) \in ClosingTypes /\ placed[o].target = b
          /\ cycle[b].status = "open" /\ cycle'[b].status = "ended" /\ cycle'[b].outcome # "expired"
          /\ \A x \in OrderIds \ {b} : cycle'[x] = cycle[x]
       \/ /\ Type(o) \notin EntryTypes /\ Booked(b) /\ cycle' = cycle
          /\ Type(o) \in ClosingTypes => /\ Type(placed[o].target) \notin EntryTypes
                                         /\ local[placed[o].target].cycle = b

\* A dispatched fill is booked, or a dispatched end leaves the books alone.
LEMMA DispatchKeepsOrders ==
    ASSUME ExactInv, NEW o \in OrderIds, DispatchOrderTransition(o),
           \/ answer[o] = "CANCELLED" /\ UNCHANGED <<local, cycle>>
           \/ answer[o] = "FILLED" /\ \E b \in Submitted : BooksTo(o, b)
    PROVE  OrdersAgree'
<1> USE Typing DEF ExactInv, OrdersAgree
<1>0. /\ UNCHANGED <<placed, atBroker, legs, dayStart, phase, snapshot, answer, plan, routing>>
      /\ phase = "processing" /\ dispatching = o /\ o \in todo /\ o \in Submitted
      /\ todo' = todo \ {o} /\ dispatching' = None
      /\ routing = NotRouting /\ routing.next = "none" /\ plan = <<>>
      /\ \A q \in Submitted : routing.order # q
      /\ local[o].status = answer[o] /\ local[o].status \in {"FILLED", "CANCELLED"}
      /\ cycle[o].status = "none" /\ cycle[o].outcome = "none" /\ ~Booked(o)
      /\ Live(o) /\ \A q \in Submitted \ {o} : Live(q) <=> q \in LocallyLive
      /\ local[o].status = "CANCELLED" => atBroker[o] \in Dead
      /\ \A q \in Submitted : Type(q) \in ClosingTypes => placed[q].target # o
  BY Dispatching
<1>1. /\ Submitted' = Submitted
      /\ \A q : /\ Own(q)' = Own(q) /\ Type(q)' = Type(q) /\ Owner(q)' = Owner(q)
                /\ ClosesOf(q)' = ClosesOf(q) /\ CloseFor(q)' = CloseFor(q) /\ Shown(q)' = Shown(q)
  BY <1>0 DEF Submitted, Own, Owner, Type, ClosesOf, CloseFor, Shown
<1>2. /\ \A q \in OrderIds : local'[q].status = local[q].status
      /\ \A q \in OrderIds \ {o} : local'[q].cycle = local[q].cycle /\ Booked(q)' = Booked(q)
  BY DEF BooksTo, Booked
<1>3. Booked(o)' <=> local[o].status = "FILLED"
  BY <1>0 DEF BooksTo, Booked
<1>4. LocallyLive' = LocallyLive /\ o \notin LocallyLive
  BY <1>0, <1>1, <1>2 DEF LocallyLive, LiveStatuses
<1>5. ~Live(o)' /\ \A q \in Submitted \ {o} : Live(q)' = Live(q)
  BY <1>0, <1>2 DEF Live, LiveStatuses
<1>6. \A x \in OrderIds \ {o} : \/ cycle'[x] = cycle[x]
                                \/ /\ cycle[x].status = "open" /\ cycle'[x].status = "ended"
                                   /\ cycle'[x].outcome # "expired"
                                   /\ Type(o) \in ClosingTypes /\ placed[o].target = x
  BY DEF BooksTo
<1>7. cycle'[o] = cycle[o] \/ (Type(o) \in EntryTypes /\ cycle'[o].status = "open"
                               /\ cycle'[o].outcome = "none" /\ answer[o] = "FILLED")
  BY <1>0 DEF BooksTo
<1>8. StatusInv'
  <2>1. SUFFICES ASSUME NEW q \in Submitted
                 PROVE  Booked(q)' <=> local'[q].status = "FILLED" /\ dispatching' # q
    BY <1>0, <1>1, <1>2, <1>3 DEF StatusInv
  <2> QED
    BY <1>0, <1>2, <1>3 DEF StatusInv
<1>9. AnswersInv'
  BY <1>0, <1>2 DEF AnswersInv, Inv, TypeInv, TypeOK, TickTypeOK
<1>10. LegsInv' /\ KindsInv'
  BY <1>0, <1>1 DEF LegsInv, KindsInv, Kind
<1>11. TagsInv'
  <2>1. ASSUME NEW q \in Submitted, Booked(q)'
        PROVE  /\ local'[q].cycle \in Own(Owner(q)) /\ Type(local'[q].cycle) \in EntryTypes
               /\ local'[local'[q].cycle].cycle # None
               /\ Type(q) \in EntryTypes => local'[q].cycle = q
    <3>1. CASE q # o
      <4>1. /\ local'[q].cycle = local[q].cycle /\ Booked(q)
            /\ local[q].cycle \in Own(Owner(q)) /\ Booked(local[q].cycle)
        BY <1>2, <2>1, <3>1 DEF TagsInv
      <4>2. local[q].cycle # o /\ local[q].cycle \in OrderIds
        BY <1>0, <4>1 DEF Own
      <4>4. local'[local'[q].cycle].cycle # None
        BY <4>1, <4>2, <1>2 DEF Booked
      <4> QED
        BY <2>1, <4>1, <4>4 DEF TagsInv
    <3>2. CASE q = o
      <4>1. answer[o] = "FILLED"
        BY <1>0, <1>3, <2>1, <3>2
      <4>2. PICK b \in Submitted : BooksTo(o, b)
        BY <4>1
      <4>3. local'[o].cycle = b /\ b \in Own(Owner(o)) /\ Type(b) \in EntryTypes
            /\ (Type(o) \in EntryTypes => b = o)
        BY <4>2, TypesApart DEF BooksTo
      <4>4. b = o \/ Booked(b)
        BY <1>0, <4>2 DEF BooksTo, ClosesInv, CloseIsTrue
      <4>5. local'[b].cycle # None
        <5>1. CASE b = o
          BY <1>0, <1>3, <4>1, <5>1 DEF Booked
        <5>2. CASE b # o
          BY <1>2, <4>4, <5>2 DEF Booked
        <5> QED
          BY <5>1, <5>2
      <4> QED
        BY <3>2, <4>3, <4>5
    <3> QED
      BY <3>1, <3>2
  <2>2. \A x \in Submitted : cycle'[x].status # "none" => Type(x) \in EntryTypes /\ Booked(x)'
    BY <1>0, <1>2, <1>3, <1>6, <1>7 DEF TagsInv
  <2>3. \A x \in OrderIds : cycle'[x].status \in {"none", "open"} => cycle'[x].outcome = "none"
    BY <1>6, <1>7 DEF TagsInv
  <2> QED
    BY <1>1, <2>1, <2>2, <2>3 DEF TagsInv, Booked
<1>12. ClosesInv'
  <2>1. SUFFICES ASSUME NEW q \in Submitted, Type(q) \in ClosingTypes, NEW t, t = placed[q].target
                 PROVE  CloseIsTrue(q, t)'
    BY <1>0, <1>1 DEF ClosesInv, CloseIsTrue
  <2>2. CloseIsTrue(q, t) /\ t \in Submitted /\ t # o /\ q \in ClosesOf(t)
    BY <1>0, <2>1 DEF ClosesInv, CloseIsTrue, ClosesOf
  <2>3. Booked(t)' /\ placed'[q] = CloseFor(t)' /\ local'[t].cycle = local[t].cycle
    BY <1>0, <1>1, <1>2, <2>2 DEF CloseIsTrue
  <2>4. Booked(q)' => local'[q].cycle = local'[t].cycle
    <3>1. CASE q # o
      BY <1>2, <2>2, <2>3, <3>1 DEF CloseIsTrue
    <3>2. CASE q = o
      <4>1. SUFFICES ASSUME answer[o] = "FILLED"
                     PROVE  local'[q].cycle = local'[t].cycle
        BY <1>0, <1>3, <3>2
      <4>2. PICK b \in Submitted : BooksTo(o, b)
        BY <4>1
      <4>3. Type(t) \in EntryTypes /\ b = t => local[t].cycle = t
        BY <2>2 DEF CloseIsTrue, TagsInv
      <4> QED
        BY <2>1, <2>3, <3>2, <4>2, <4>3, TypesApart DEF BooksTo
    <3> QED
      BY <3>1, <3>2
  <2>5. Booked(q)' /\ Type(t) \in EntryTypes => cycle'[t].status = "ended" /\ cycle'[t].outcome # "expired"
    <3>1. CASE q # o
      BY <1>2, <1>6, <2>2, <3>1 DEF CloseIsTrue
    <3>2. CASE q = o
      <4>1. SUFFICES ASSUME answer[o] = "FILLED", Type(t) \in EntryTypes
                     PROVE  cycle'[t].status = "ended" /\ cycle'[t].outcome # "expired"
        BY <1>0, <1>3, <3>2
      <4>2. PICK b \in Submitted : BooksTo(o, b)
        BY <4>1
      <4> QED
        BY <2>1, <3>2, <4>1, <4>2, TypesApart DEF BooksTo
    <3> QED
      BY <3>1, <3>2
  <2>6. Live(q)' /\ Type(q) = "STC" => cycle'[t].status = "open"
    <3>1. SUFFICES ASSUME Live(q)', Type(q) = "STC"
                   PROVE  cycle'[t].status = "open"
      OBVIOUS
    <3>2. q # o /\ Live(q) /\ cycle[t].status = "open"
      BY <1>5, <2>2, <3>1 DEF CloseIsTrue
    <3>3. ~(Type(o) \in ClosingTypes /\ placed[o].target = t)
      <4>1. SUFFICES ASSUME Type(o) \in ClosingTypes, placed[o].target = t
                     PROVE  FALSE
        OBVIOUS
      <4>2. placed[o] = CloseFor(t) /\ placed[q] = CloseFor(t)
        BY <1>0, <2>2, <4>1 DEF ClosesInv, CloseIsTrue
      <4> QED
        BY <1>0, <3>2, <4>1, <4>2 DEF OneCloseInv
    <3> QED
      BY <1>6, <2>2, <3>2, <3>3
  <2> QED
    BY <1>0, <1>1, <2>2, <2>3, <2>4, <2>5, <2>6 DEF CloseIsTrue
<1>13. OneCloseInv'
  BY <1>0, <1>1, <1>5 DEF OneCloseInv
<1>14. ExpiredInv'
  <2>1. \A x \in Submitted : cycle'[x].outcome = "expired" => cycle[x].outcome = "expired"
    BY <1>6, <1>7
  <2> QED
    BY <1>0, <1>1, <2>1 DEF ExpiredInv
<1>15. FreshInv'
  BY <1>0, <1>1, <1>4, <1>5 DEF FreshInv
<1>16. PlanInv'
  BY <1>0, NothingToPlan
<1>17. SnapInv'
  BY <1>0, <1>1, <1>2, <1>4 DEF SnapInv
<1> QED
  BY <1>8, <1>9, <1>10, <1>11, <1>12, <1>13, <1>14, <1>15, <1>16, <1>17

\* The other strategies stay in their stages.
LEMMA DispatchKeepsOthers ==
    ASSUME ExactInv, NEW o \in OrderIds, DispatchOrderTransition(o),
           \/ answer[o] = "CANCELLED" /\ UNCHANGED <<local, cycle>>
           \/ answer[o] = "FILLED" /\ \E b \in Submitted : BooksTo(o, b),
           NEW t \in Strategies, t # Owner(o), row'[t] = row[t]
    PROVE  Staged(t)'
<1> USE Typing DEF ExactInv, OrdersAgree
<1>0. /\ UNCHANGED <<placed, atBroker, legs, dayStart, routing>> /\ dispatching = o
      /\ dispatching' = None /\ o \in Submitted /\ \A s : ~Routes(s)
  BY Dispatching
<1>1. Own(t)' = Own(t) /\ Own(t) \subseteq Submitted /\ o \notin Own(t)
  BY <1>0 DEF Own, Owner, Submitted
<1>2. \A q \in OrderIds \ {o} : local'[q] = local[q]
  BY DEF BooksTo
<1>3. \A x \in Own(t) : cycle'[x] = cycle[x]
  <2>1. CASE answer[o] = "FILLED"
    <3>1. PICK b \in Submitted : BooksTo(o, b)
      BY <2>1
    <3>2. b \notin Own(t)
      BY <3>1 DEF BooksTo, Own
    <3> QED
      BY <1>1, <3>1, <3>2 DEF BooksTo
  <2> QED
    BY <2>1
<1>4. \A x : Type(x)' = Type(x) /\ ClosesOf(x)' = ClosesOf(x)
  BY <1>0 DEF Type, ClosesOf, CloseFor, Submitted, Owner
<1>5. \A x \in Own(t) : \A q \in ClosesOf(x) : q \in Own(t) /\ q # o
  BY <1>1, ClosesClose DEF Own
<1>6. OwnKept(t)
  BY <1>1, <1>2, <1>3, <1>4, <1>5 DEF OwnKept, OpenOf, Booked
<1>7. \A q \in Own(t) : Effective(q)' = Effective(q)
  BY <1>0, <1>1, <1>2, <1>4 DEF Effective, Live
<1>8. WorkKept(t)
  BY <1>0, <1>1, <1>7 DEF WorkKept, Working, Carrying
<1>9. RowKept(t)
  BY <1>0, RowStays
<1> QED
  BY <1>6, <1>8, <1>9, StageFrame DEF StagesInv

\* A fill is that of the order the stage waits for.
LEMMA FillExpected ==
    ASSUME ExactInv, NEW o \in OrderIds, DispatchOrderTransition(o), answer[o] = "FILLED",
           NEW s, s = Owner(o)
    PROVE  /\ HasRow(s) /\ Working(s) = {o}
           /\ \/ /\ OpenOf(s) = {} /\ Carrying(s) \subseteq {o} /\ Type(o) = EntryTypeOf(Kind(s))
              \/ /\ OpenOf(s) = {row[s].cycle} /\ Carrying(s) \subseteq {row[s].cycle}
                 /\ o \in ClosesOf(row[s].cycle) /\ Type(row[s].cycle) = EntryTypeOf(Kind(s))
              \/ /\ Kind(s) \in CallKinds /\ OpenOf(s) = {row[s].cycle}
                 /\ Type(o) = "STO_CALL" /\ LatestCall(s, o)
                 /\ Carrying(s) \subseteq Under(s) \cup {o}
              \/ /\ Kind(s) \in CallKinds /\ OpenOf(s) = {row[s].cycle}
                 /\ \E k \in CallsOf(s) : /\ local[k].cycle = row[s].cycle /\ o \in ClosesOf(k)
                                          /\ Carrying(s) \subseteq Under(s) \cup {k}
<1> USE Typing DEF ExactInv, OrdersAgree
<1>0. /\ dispatching = o /\ o \in Submitted /\ local[o].status = "FILLED" /\ Live(o)
      /\ o \in Working(s) /\ ~Routes(s) /\ s \in Strategies
  BY Dispatching
<1>1. PICK g \in Stages : /\ row[s].state \in StatesOf(Kind(s), g) \cup {"MANUAL_INTERVENTION"}
                          /\ InStage(s, g)
  BY <1>0 DEF StagesInv, Staged, Shows
<1>2. \A q \in Own(s) : /\ q \in Submitted /\ Owner(q) = s
                        /\ Type(q) \in EntryTypes => Type(q) = EntryTypeOf(Kind(s))
  BY DEF Own, KindsInv
<1>3. \A q \in Working(s) : placed[q] = placed[o] /\ Type(o) \in ClosingTypes => q = o
  BY <1>0 DEF Working, Own, Effective, OneCloseInv
<1>4. \A t : o \in ClosesOf(t) /\ Working(s) \subseteq ClosesOf(t) => Working(s) = {o}
  <2>1. \A t : \A q \in ClosesOf(t) : placed[q] = CloseFor(t)
    BY DEF ClosesOf
  <2> QED
    BY <1>0, <1>3, <2>1, ClosesClose
<1>5. g \notin {"flat", "resting", "stuck"}
  BY <1>0, <1>1 DEF InStage, Flat, Resting, Stuck
<1>6. HasRow(s)
  BY <1>1, <1>5 DEF HasRow, StatesOf, Stages
<1>7. CASE g = "entering"
  <2>1. Entering(s)
    BY <1>1, <1>7 DEF InStage
  <2> QED
    BY <1>0, <1>2, <1>6, <2>1 DEF Entering
<1>8. CASE g = "holding"
  <2>1. Holding(s)
    BY <1>1, <1>8 DEF InStage
  <2>2. /\ row[s].cycle \in Own(s) /\ cycle[row[s].cycle].status = "open"
        /\ o \in ClosesOf(row[s].cycle)
    BY <1>0, <2>1 DEF Holding, OpenOf
  <2>3. Type(row[s].cycle) = EntryTypeOf(Kind(s))
    BY <1>2, <2>2 DEF TagsInv
  <2> QED
    BY <1>4, <1>6, <2>1, <2>2, <2>3 DEF Holding
<1>9. CASE g = "selling"
  <2>1. Selling(s)
    BY <1>1, <1>9 DEF InStage
  <2>2. LatestCall(s, o) /\ Working(s) = {o}
    BY <1>0, <2>1 DEF Selling
  <2>3. Type(o) = "STO_CALL"
    BY <2>2 DEF LatestCall, CallsOf
  <2> QED
    BY <1>6, <2>1, <2>2, <2>3 DEF Selling
<1>10. CASE g = "called"
  <2>1. Called(s)
    BY <1>1, <1>10 DEF InStage
  <2>2. PICK k \in Own(s) : /\ LatestCall(s, k) /\ local[k].cycle = row[s].cycle
                            /\ Working(s) \subseteq ClosesOf(k)
                            /\ Carrying(s) \subseteq Under(s) \cup {k}
    BY <2>1 DEF Called
  <2>3. k \in CallsOf(s) /\ o \in ClosesOf(k) /\ Working(s) = {o}
    BY <1>0, <1>4, <2>2 DEF LatestCall
  <2> QED
    BY <1>6, <2>1, <2>2, <2>3 DEF Called
<1>11. CASE g = "phantom"
  <2>1. Phantom(s)
    BY <1>1, <1>11 DEF InStage
  <2>2. Working(s) = {o} /\ Type(o) = "MLEG_OPEN" /\ o \in Own(s)
    BY <1>0, <2>1 DEF Phantom, Working
  <2>3. Type(o) = EntryTypeOf(Kind(s))
    BY <1>2, <2>2 DEF EntryTypes
  <2> QED
    BY <1>6, <2>1, <2>2, <2>3 DEF Phantom
<1> QED
  BY <1>1, <1>5, <1>7, <1>8, <1>9, <1>10, <1>11 DEF Stages

\* With its end dispatched the order works no more; the strategy's orders are
\* otherwise what they were.
LEMMA AfterDispatch ==
    ASSUME ExactInv, NEW o \in OrderIds, DispatchOrderTransition(o),
           \/ answer[o] = "CANCELLED" /\ UNCHANGED <<local, cycle>>
           \/ answer[o] = "FILLED" /\ \E b \in Submitted : BooksTo(o, b),
           NEW s, s = Owner(o)
    PROVE  /\ Own(s)' = Own(s) /\ CallsOf(s)' = CallsOf(s) /\ Carrying(s)' = Carrying(s)
           /\ Working(s)' = Working(s) \ {o} /\ ~Routes(s)' /\ Kind(s)' = Kind(s)
           /\ \A x : Type(x)' = Type(x) /\ ClosesOf(x)' = ClosesOf(x)
           /\ \A q \in OrderIds \ {o} : local'[q] = local[q]
<1> USE Typing DEF ExactInv, OrdersAgree
<1>0. /\ UNCHANGED <<placed, atBroker, legs, dayStart, routing>> /\ dispatching = o
      /\ dispatching' = None /\ o \in Submitted /\ routing.next = "none"
      /\ local[o].status \in {"FILLED", "CANCELLED"} /\ routing.order # o
  BY Dispatching
<1>1. \A x : Type(x)' = Type(x) /\ ClosesOf(x)' = ClosesOf(x)
  BY <1>0 DEF Type, ClosesOf, CloseFor, Submitted, Owner
<1>2. Own(s)' = Own(s) /\ Own(s) \subseteq Submitted
  BY <1>0 DEF Own, Owner, Submitted
<1>3. CallsOf(s)' = CallsOf(s) /\ Carrying(s)' = Carrying(s)
  BY <1>0, <1>1, <1>2 DEF CallsOf, Carrying
<1>4. /\ \A q \in OrderIds \ {o} : local'[q] = local[q]
      /\ local'[o].status = local[o].status
  BY DEF BooksTo
<1>5. ~Effective(o)'
  BY <1>0, <1>4 DEF Effective, Live, LiveStatuses
<1>6. \A q \in Submitted \ {o} : Effective(q)' = Effective(q)
  BY <1>0, <1>1, <1>4 DEF Effective, Live
<1>7. Working(s)' = Working(s) \ {o}
  BY <1>2, <1>5, <1>6 DEF Working
<1> QED
  BY <1>0, <1>1, <1>2, <1>3, <1>4, <1>7 DEF Routes, Kind

\* The entry is filled: its cycle is opened, and the row holds it.
LEMMA EntryFilled ==
    ASSUME ExactInv, NEW o \in OrderIds, DispatchOrderTransition(o), answer[o] = "FILLED",
           NEW s, s = Owner(o), HasRow(s), Working(s) = {o}, OpenOf(s) = {},
           Carrying(s) \subseteq {o}, Type(o) = EntryTypeOf(Kind(s))
    PROVE  /\ BooksTo(o, o) /\ Staged(s)'
           /\ \A t \in Strategies \ {s} : row'[t] = row[t]
           /\ row'[s].state \notin OperatorStates
<1> USE Typing DEF ExactInv, OrdersAgree
<1>0. /\ o \in Submitted /\ s \in Strategies /\ o # None /\ cycle[o].status = "none"
      /\ cycle[o].outcome = "none" /\ o \in Own(s)
  BY Dispatching DEF Own
<1> DEFINE held == CASE Kind(s) = "wheel" -> "CSP_OPEN" [] Kind(s) = "pmcc" -> "PMCC_LONG_OPEN"
                     [] Kind(s) = "swing" -> "SWING_OPEN" [] OTHER -> "SPREAD_OPEN"
<1>1. OnFill(s, o) /\ Kind(s) \in Kinds
  <2>1. OnFill(s, o)
    BY DEF DispatchOrderTransition
  <2>2. Kind(s) \in Kinds
    BY <1>0, StrategiesAssumption DEF Kind
  <2> QED
    BY <2>1, <2>2
<1>2. row' = WithState(s, held, o) /\ local' = Tagged(o, o) /\ cycle' = OpenedCycle(o)
  BY <1>1 DEF OnFill, OnPmccFill, OnSwingFill, OnWheelOrSpreadFill, OpenLong, OpenSpread, SellPut,
              InsertTarget, InsertRaises, EntryTypeOf, SpreadKinds, Kinds
<1>3. /\ \A t \in Strategies \ {s} : row'[t] = row[t]
      /\ row'[s].state = held /\ row'[s].cycle = o
  BY <1>0, <1>2 DEF WithState, RowType
<1>4. /\ \A q \in OrderIds \ {o} : local'[q] = local[q]
      /\ local'[o].cycle = o /\ local'[o].status = local[o].status
  BY <1>0, <1>2 DEF Tagged, LocalType
<1>5. /\ \A q \in OrderIds \ {o} : cycle'[q] = cycle[q]
      /\ cycle'[o].status = "open" /\ cycle'[o].outcome = "none"
  BY <1>0, <1>2 DEF OpenedCycle, CycleType
<1>6. Type(o) \in EntryTypes
  BY DEF EntryTypeOf, EntryTypes
<1>7. BooksTo(o, o)
  BY <1>0, <1>4, <1>5, <1>6 DEF BooksTo
<1>8. /\ Own(s)' = Own(s) /\ CallsOf(s)' = CallsOf(s) /\ Carrying(s)' = Carrying(s)
      /\ Working(s)' = {} /\ ~Routes(s)' /\ Kind(s)' = Kind(s)
  BY <1>0, <1>7, AfterDispatch
<1>9. OpenOf(s)' = {o}
  BY <1>0, <1>5, <1>8 DEF OpenOf, Own
<1>10. \A q \in CallsOf(s) : local'[q].cycle # o
  <2>1. \A q \in CallsOf(s) : q \in Submitted /\ q # o
    BY <1>6, TypesApart DEF CallsOf, Own
  <2>2. \A q \in Submitted : local[q].cycle # o
    BY <1>0, Dispatching DEF TagsInv, Booked
  <2> QED
    BY <1>4, <2>1, <2>2
<1>11. CASE Kind(s) = "pmcc"
  <2>1. Under(s)' = {o}
    BY <1>3, <1>8, <1>11 DEF Under
  <2>2. Resting(s)'
    BY <1>3, <1>8, <1>9, <1>11, <2>1 DEF Resting, CallKinds
  <2>3. Shows(s, "resting")'
    BY <1>3, <1>8, <1>11 DEF Shows, StatesOf
  <2> QED
    BY <1>3, <1>7, <2>2, <2>3 DEF Staged, InStage, Stages, OperatorStates
<1>12. CASE Kind(s) # "pmcc"
  <2>1. Holding(s)'
    BY <1>3, <1>8, <1>9, <1>10, <1>12 DEF Holding
  <2>2. Shows(s, "holding")'
    BY <1>1, <1>3, <1>8, <1>12 DEF Shows, StatesOf, Kinds
  <2> QED
    BY <1>3, <1>7, <2>1, <2>2 DEF Staged, InStage, Stages, OperatorStates
<1> QED
  BY <1>11, <1>12

\* The close of the row's cycle is filled: the cycle is ended, the row is flat.
LEMMA CycleClosed ==
    ASSUME ExactInv, NEW o \in OrderIds, DispatchOrderTransition(o), answer[o] = "FILLED",
           NEW s, s = Owner(o), HasRow(s), Working(s) = {o}, NEW c, c = row[s].cycle,
           OpenOf(s) = {c}, Carrying(s) \subseteq {c}, o \in ClosesOf(c),
           Type(c) = EntryTypeOf(Kind(s))
    PROVE  /\ BooksTo(o, c) /\ Staged(s)'
           /\ \A t \in Strategies \ {s} : row'[t] = row[t]
           /\ row'[s].state \notin OperatorStates
<1> USE Typing DEF ExactInv, OrdersAgree
<1>0. /\ o \in Submitted /\ s \in Strategies /\ o \in Own(s)
      /\ c \in Own(s) /\ c \in Submitted /\ c \in OrderIds /\ c # None
      /\ cycle[c].status = "open" /\ ~Booked(o) /\ atBroker[o] = "filled"
  BY Dispatching DEF Own, OpenOf
<1>1. /\ Type(o) = ClosingTypeOf(Type(c)) /\ Type(o) \in ClosingTypes /\ placed[o].target = c
      /\ Type(c) \in EntryTypes
  BY ClosesClose DEF EntryTypeOf, EntryTypes
<1>2. legs[c] = {}
  BY <1>0, <1>1 DEF ClosesInv, CloseIsTrue
<1>3. OnFill(s, o) /\ Kind(s) \in Kinds
  <2>1. OnFill(s, o)
    BY DEF DispatchOrderTransition
  <2>2. Kind(s) \in Kinds
    BY <1>0, StrategiesAssumption DEF Kind
  <2> QED
    BY <2>1, <2>2
<1>4. /\ local' = TaggedOnce(o, c)
      /\ cycle' = ClosedCycle(c, "closed") \/ cycle' = ClosedCycle(c, "rolled")
      /\ \/ /\ Kind(s) = "wheel" /\ row' = WithState(s, "IDLE", None)
         \/ /\ Kind(s) \in {"pmcc", "swing"} /\ row' = [row EXCEPT ![s].state = "IDLE", ![s].cycle = None]
         \/ /\ Kind(s) \in SpreadKinds
            /\ row' = [row EXCEPT ![s].state = "SPREAD_CLOSED", ![s].cycle = None]
  <2>1. CASE Kind(s) = "wheel"
    <3>1. Type(o) = "BTC_PUT"
      BY <1>1, <2>1 DEF EntryTypeOf, ClosingTypeOf, SpreadKinds
    <3>2. BuyBack(s, o)
      BY <1>3, <2>1, <3>1 DEF OnFill, OnWheelOrSpreadFill
    <3> QED
      BY <2>1, <3>1, <3>2 DEF BuyBack, InsertTarget, InsertRaises
  <2>2. CASE Kind(s) = "pmcc"
    <3>1. Type(o) = "STC"
      BY <1>1, <2>2 DEF EntryTypeOf, ClosingTypeOf, SpreadKinds
    <3>2. CloseLong(s, o, "rolled")
      BY <1>3, <2>2, <3>1 DEF OnFill, OnPmccFill
    <3> QED
      BY <2>2, <3>2 DEF CloseLong
  <2>3. CASE Kind(s) = "swing"
    <3>1. Type(o) = "STC"
      BY <1>1, <2>3 DEF EntryTypeOf, ClosingTypeOf, SpreadKinds
    <3>2. CloseLong(s, o, "closed")
      BY <1>3, <2>3, <3>1 DEF OnFill, OnSwingFill
    <3> QED
      BY <2>3, <3>2 DEF CloseLong
  <2>4. CASE Kind(s) \in SpreadKinds
    <3>1. Type(o) = "MLEG_CLOSE"
      BY <1>1, <2>4 DEF EntryTypeOf, ClosingTypeOf, SpreadKinds
    <3>2. CloseSpread(s, o)
      BY <1>3, <2>4, <3>1 DEF OnFill, OnWheelOrSpreadFill, SpreadKinds
    <3> QED
      BY <2>4, <3>2 DEF CloseSpread
  <2> QED
    BY <1>3, <2>1, <2>2, <2>3, <2>4 DEF Kinds, SpreadKinds
<1>5. /\ \A t \in Strategies \ {s} : row'[t] = row[t]
      /\ row'[s].state = IF Kind(s) \in SpreadKinds THEN "SPREAD_CLOSED" ELSE "IDLE"
      /\ Kind(s) \in SpreadKinds => row'[s].cycle = None
  <2>1. CASE Kind(s) = "wheel" /\ row' = WithState(s, "IDLE", None)
    BY <1>0, <2>1 DEF WithState, RowType, SpreadKinds
  <2>2. CASE /\ Kind(s) \in {"pmcc", "swing"}
             /\ row' = [row EXCEPT ![s].state = "IDLE", ![s].cycle = None]
    BY <1>0, <2>2 DEF RowType, SpreadKinds
  <2>3. CASE /\ Kind(s) \in SpreadKinds
             /\ row' = [row EXCEPT ![s].state = "SPREAD_CLOSED", ![s].cycle = None]
    BY <1>0, <2>3 DEF RowType
  <2> QED
    BY <1>4, <2>1, <2>2, <2>3
<1>6. /\ \A q \in OrderIds \ {o} : local'[q] = local[q]
      /\ local'[o].cycle = c /\ local'[o].status = local[o].status
  BY <1>0, <1>4 DEF TaggedOnce, Tagged, LocalType, Booked
<1>7. /\ \A q \in OrderIds \ {c} : cycle'[q] = cycle[q]
      /\ cycle'[c].status = "ended" /\ cycle'[c].outcome # "expired"
  BY <1>0, <1>4 DEF ClosedCycle, CycleType
<1>8. BooksTo(o, c)
  BY <1>0, <1>1, <1>6, <1>7 DEF BooksTo
<1>9. /\ Own(s)' = Own(s) /\ Carrying(s)' = Carrying(s)
      /\ Working(s)' = {} /\ ~Routes(s)' /\ Kind(s)' = Kind(s)
  BY <1>0, <1>8, AfterDispatch
<1>10. OpenOf(s)' = {}
  <2>1. \A q \in Own(s) : q \in OrderIds /\ (q # c => cycle[q].status # "open")
    BY DEF Own, OpenOf
  <2> QED
    BY <1>7, <1>9, <2>1 DEF OpenOf
<1>11. Carrying(s) = {}
  BY <1>2 DEF Carrying
<1>12. Flat(s)'
  BY <1>5, <1>9, <1>10, <1>11 DEF Flat, NoPointer
<1>13. Shows(s, "flat")'
  BY <1>5, <1>9 DEF Shows, StatesOf
<1> QED
  BY <1>5, <1>8, <1>12, <1>13 DEF Staged, InStage, Stages, OperatorStates

\* A call is sold: the row carries it.
LEMMA CallSold ==
    ASSUME ExactInv, NEW o \in OrderIds, DispatchOrderTransition(o), answer[o] = "FILLED",
           NEW s, s = Owner(o), HasRow(s), Working(s) = {o}, NEW c, c = row[s].cycle,
           OpenOf(s) = {c}, Kind(s) \in CallKinds, Type(o) = "STO_CALL", LatestCall(s, o),
           Carrying(s) \subseteq Under(s) \cup {o}
    PROVE  /\ BooksTo(o, c) /\ Staged(s)'
           /\ \A t \in Strategies \ {s} : row'[t] = row[t]
           /\ row'[s].state \notin OperatorStates
<1> USE Typing DEF ExactInv, OrdersAgree
<1>0. /\ o \in Submitted /\ s \in Strategies /\ o \in Own(s)
      /\ c \in Own(s) /\ c \in Submitted /\ c \in OrderIds /\ c # None
      /\ cycle[c].status = "open" /\ ~Booked(o)
  BY Dispatching DEF Own, OpenOf
<1>1. Type(c) \in EntryTypes /\ Booked(c) /\ Type(o) \notin EntryTypes /\ Type(o) \notin ClosingTypes
  BY <1>0, TypesApart DEF TagsInv
<1>2. OnFill(s, o)
  BY DEF DispatchOrderTransition
<1>3. /\ local' = Tagged(o, c) /\ cycle' = cycle
      /\ \/ Kind(s) = "wheel" /\ row' = WithState(s, "CC_OPEN", c)
         \/ Kind(s) = "pmcc" /\ row' = WithState(s, "PMCC_BOTH_OPEN", None)
  <2>1. CASE Kind(s) = "wheel"
    <3>1. SellCall(s, o)
      BY <1>2, <2>1 DEF OnFill, OnWheelOrSpreadFill
    <3> QED
      BY <2>1, <3>1 DEF SellCall, InsertTarget, InsertRaises
  <2>2. CASE Kind(s) = "pmcc"
    BY <1>2, <2>2 DEF OnFill, OnPmccFill
  <2> QED
    BY <2>1, <2>2 DEF CallKinds
<1>4. /\ \A t \in Strategies \ {s} : row'[t] = row[t]
      /\ row'[s].state = IF Kind(s) = "pmcc" THEN "PMCC_BOTH_OPEN" ELSE "CC_OPEN"
      /\ row'[s].cycle = c
  BY <1>0, <1>3 DEF WithState, RowType
<1>5. /\ \A q \in OrderIds \ {o} : local'[q] = local[q]
      /\ local'[o].cycle = c /\ local'[o].status = local[o].status
  BY <1>0, <1>3 DEF Tagged, LocalType
<1>6. BooksTo(o, c)
  BY <1>0, <1>1, <1>3, <1>5 DEF BooksTo
<1>7. /\ Own(s)' = Own(s) /\ CallsOf(s)' = CallsOf(s) /\ Carrying(s)' = Carrying(s)
      /\ Working(s)' = {} /\ ~Routes(s)' /\ Kind(s)' = Kind(s) /\ ClosesOf(o)' = ClosesOf(o)
  BY <1>0, <1>6, AfterDispatch
<1>8. OpenOf(s)' = {c}
  BY <1>3, <1>7 DEF OpenOf
<1>9. LatestCall(s, o)' /\ Under(s)' = Under(s)
  BY <1>4, <1>7 DEF LatestCall, Under
<1>10. ClosesOf(o) = {}
  BY Dispatching, ClosesClose
<1>11. Called(s)'
  BY <1>0, <1>4, <1>5, <1>7, <1>8, <1>9, <1>10 DEF Called
<1>12. Shows(s, "called")'
  BY <1>4, <1>7 DEF Shows, StatesOf, CallKinds
<1> QED
  BY <1>4, <1>6, <1>11, <1>12 DEF Staged, InStage, Stages, OperatorStates

\* A call is bought back: what lay under it rests.
LEMMA CallBoughtBack ==
    ASSUME ExactInv, NEW o \in OrderIds, DispatchOrderTransition(o), answer[o] = "FILLED",
           NEW s, s = Owner(o), HasRow(s), Working(s) = {o}, NEW c, c = row[s].cycle,
           OpenOf(s) = {c}, Kind(s) \in CallKinds, NEW k \in CallsOf(s), local[k].cycle = c,
           o \in ClosesOf(k), Carrying(s) \subseteq Under(s) \cup {k}
    PROVE  /\ BooksTo(o, c) /\ Staged(s)'
           /\ \A t \in Strategies \ {s} : row'[t] = row[t]
           /\ row'[s].state \notin OperatorStates
<1> USE Typing DEF ExactInv, OrdersAgree
<1>0. /\ o \in Submitted /\ s \in Strategies /\ o \in Own(s)
      /\ c \in Own(s) /\ c \in Submitted /\ c \in OrderIds /\ c # None
      /\ cycle[c].status = "open" /\ ~Booked(o) /\ atBroker[o] = "filled"
      /\ Type(k) = "STO_CALL"
  BY Dispatching DEF Own, OpenOf, CallsOf
<1>1. Type(c) \in EntryTypes /\ Booked(c)
  BY <1>0 DEF TagsInv
<1>2. Type(o) = "BTC_CALL" /\ Type(o) \in ClosingTypes /\ placed[o].target = k
  BY <1>0, ClosesClose DEF ClosingTypeOf
<1>3. legs[k] = {}
  BY <1>0, <1>2 DEF ClosesInv, CloseIsTrue
<1>4. OnFill(s, o)
  BY DEF DispatchOrderTransition
<1>5. /\ local' = TaggedOnce(o, c) /\ cycle' = cycle
      /\ row' = WithState(s, IF Kind(s) = "pmcc" THEN "PMCC_LONG_OPEN" ELSE "SHARES_HELD", None)
  <2>1. CASE Kind(s) = "wheel"
    <3>1. BuyBack(s, o)
      BY <1>2, <1>4, <2>1 DEF OnFill, OnWheelOrSpreadFill
    <3> QED
      BY <1>2, <2>1, <3>1 DEF BuyBack, InsertTarget, InsertRaises
  <2>2. CASE Kind(s) = "pmcc"
    BY <1>2, <1>4, <2>2 DEF OnFill, OnPmccFill
  <2> QED
    BY <2>1, <2>2 DEF CallKinds
<1>6. /\ \A t \in Strategies \ {s} : row'[t] = row[t]
      /\ row'[s].state = IF Kind(s) = "pmcc" THEN "PMCC_LONG_OPEN" ELSE "SHARES_HELD"
      /\ row'[s].cycle = c
  BY <1>0, <1>5 DEF WithState, RowType
<1>7. /\ \A q \in OrderIds \ {o} : local'[q] = local[q]
      /\ local'[o].cycle = c /\ local'[o].status = local[o].status
  BY <1>0, <1>5 DEF TaggedOnce, Tagged, LocalType, Booked
<1>8. BooksTo(o, c)
  <2>1. Type(o) \notin EntryTypes /\ Type(k) \notin EntryTypes
    BY <1>0, <1>2, TypesApart
  <2> QED
    BY <1>0, <1>1, <1>2, <1>5, <1>7, <2>1 DEF BooksTo
<1>9. /\ Own(s)' = Own(s) /\ Carrying(s)' = Carrying(s)
      /\ Working(s)' = {} /\ ~Routes(s)' /\ Kind(s)' = Kind(s)
  BY <1>0, <1>8, AfterDispatch
<1>10. OpenOf(s)' = {c} /\ Under(s)' = Under(s)
  BY <1>5, <1>6, <1>9 DEF OpenOf, Under
<1>11. Carrying(s) \subseteq Under(s)
  BY <1>3 DEF Carrying
<1>12. Resting(s)'
  BY <1>6, <1>9, <1>10, <1>11 DEF Resting
<1>13. Shows(s, "resting")'
  BY <1>6, <1>9 DEF Shows, StatesOf, CallKinds
<1> QED
  BY <1>6, <1>8, <1>12, <1>13 DEF Staged, InStage, Stages, OperatorStates

\* A fill is booked to a cycle, and no row becomes the operator's.
LEMMA FillBooks ==
    ASSUME ExactInv, NEW o \in OrderIds, DispatchOrderTransition(o), answer[o] = "FILLED",
           NEW s, s = Owner(o)
    PROVE  \E b \in Submitted :
              /\ BooksTo(o, b) /\ Staged(s)'
              /\ \A t \in Strategies \ {s} : row'[t] = row[t]
              /\ row'[s].state \notin OperatorStates
<1> DEFINE Booking(b) == /\ BooksTo(o, b) /\ Staged(s)'
                         /\ \A t \in Strategies \ {s} : row'[t] = row[t]
                         /\ row'[s].state \notin OperatorStates
           c == row[s].cycle
<1>1. HasRow(s) /\ Working(s) = {o}
  BY FillExpected
<1>2. ASSUME OpenOf(s) = {}, Carrying(s) \subseteq {o}, Type(o) = EntryTypeOf(Kind(s))
      PROVE  Booking(o)
  BY <1>1, <1>2, EntryFilled
<1>3. ASSUME OpenOf(s) = {c}, Carrying(s) \subseteq {c}, o \in ClosesOf(c),
             Type(c) = EntryTypeOf(Kind(s))
      PROVE  Booking(c)
  BY <1>1, <1>3, CycleClosed
<1>4. ASSUME Kind(s) \in CallKinds, OpenOf(s) = {c}, Type(o) = "STO_CALL", LatestCall(s, o),
             Carrying(s) \subseteq Under(s) \cup {o}
      PROVE  Booking(c)
  BY <1>1, <1>4, CallSold
<1>5. ASSUME Kind(s) \in CallKinds, OpenOf(s) = {c}, NEW k \in CallsOf(s),
             local[k].cycle = c, o \in ClosesOf(k), Carrying(s) \subseteq Under(s) \cup {k}
      PROVE  Booking(c)
  BY <1>1, <1>5, CallBoughtBack
<1>6. \E b : Booking(b)
  <2> HIDE DEF Booking
  <2> QED
    BY <1>2, <1>3, <1>4, <1>5, FillExpected
<1>7. \A b : Booking(b) => b \in Submitted
  BY DEF BooksTo, Own
<1> QED
  BY <1>6, <1>7

\* Dispatching a fill keeps the books exact.
LEMMA FillKeeps ==
    ASSUME ExactInv, NEW o \in OrderIds, DispatchOrderTransition(o), answer[o] = "FILLED"
    PROVE  OrdersAgree' /\ StagesInv'
<1> SUFFICES ASSUME NEW s, s = Owner(o)
             PROVE  OrdersAgree' /\ StagesInv'
  OBVIOUS
<1>1. \E b \in Submitted : /\ BooksTo(o, b) /\ Staged(s)'
                           /\ \A t \in Strategies \ {s} : row'[t] = row[t]
  BY FillBooks
<1>2. OrdersAgree'
  BY <1>1, DispatchKeepsOrders
<1>3. \A t \in Strategies : t # s => Staged(t)'
  BY <1>1, DispatchKeepsOthers
<1> QED
  BY <1>1, <1>2, <1>3 DEF StagesInv

\* Dispatching a cancel keeps the books exact.
LEMMA CancelKeeps ==
    ASSUME ExactInv, NEW o \in OrderIds, DispatchOrderTransition(o), answer[o] = "CANCELLED"
    PROVE  OrdersAgree' /\ StagesInv'
<1> USE Typing DEF ExactInv, OrdersAgree
<1>1. UNCHANGED <<local, cycle>>
  BY DEF DispatchOrderTransition, OnCancel
<1>0. Kind(Owner(o)) \in Kinds
  BY Dispatching, StrategiesAssumption DEF Kind
<1>2. OrdersAgree'
  BY <1>1, DispatchKeepsOrders
<1> SUFFICES ASSUME NEW s, s = Owner(o)
             PROVE  StagesInv'
  BY <1>2
<1>3. /\ o \in Submitted /\ s \in Strategies /\ o \in Own(s) /\ ~Routes(s) /\ Live(o)
      /\ local[o].status = "CANCELLED" /\ atBroker[o] \in Dead
      /\ UNCHANGED <<placed, atBroker, legs, dayStart, routing>>
  BY Dispatching DEF Own
<1>4. /\ \A t \in Strategies \ {s} : row'[t] = row[t]
      /\ row'[s].cycle = row[s].cycle
      /\ \/ row'[s].state = "MANUAL_INTERVENTION"
         \/ atBroker[o] = "cancelled" /\ row'[s].state = RestoredState(s, o)
  <2>1. \/ row' = Flagged({s})
        \/ ~ObservedPartialFill(o) /\ row' = [row EXCEPT ![s].state = RestoredState(s, o)]
    BY DEF DispatchOrderTransition, OnCancel
  <2>2. ~ObservedPartialFill(o) => atBroker[o] = "cancelled"
    BY <1>3 DEF ObservedPartialFill, Dead
  <2>3. CASE row' = Flagged({s})
    BY <1>3, <2>3 DEF Flagged, RowType
  <2>4. CASE ~ObservedPartialFill(o) /\ row' = [row EXCEPT ![s].state = RestoredState(s, o)]
    BY <1>3, <2>2, <2>4 DEF RowType
  <2> QED
    BY <2>1, <2>3, <2>4
<1>5. \A t \in Strategies \ {s} : Staged(t)'
  BY <1>1, <1>4, DispatchKeepsOthers
<1>6. /\ Own(s)' = Own(s) /\ CallsOf(s)' = CallsOf(s) /\ Carrying(s)' = Carrying(s)
      /\ Working(s)' = Working(s) \ {o} /\ ~Routes(s)' /\ Kind(s)' = Kind(s)
      /\ \A x : Type(x)' = Type(x)
      /\ OpenOf(s)' = OpenOf(s) /\ Under(s)' = Under(s) /\ (NoPointer(s) => NoPointer(s)')
      /\ \A q : LatestCall(s, q)' = LatestCall(s, q)
  <2>1. /\ Own(s)' = Own(s) /\ CallsOf(s)' = CallsOf(s) /\ Carrying(s)' = Carrying(s)
        /\ Working(s)' = Working(s) \ {o} /\ ~Routes(s)' /\ Kind(s)' = Kind(s)
        /\ \A x : Type(x)' = Type(x)
    BY <1>1, AfterDispatch
  <2> QED
    BY <1>1, <1>4, <2>1 DEF OpenOf, Under, NoPointer, LatestCall
<1>7. /\ atBroker[o] = "cancelled" => legs[o] = {}
      /\ \A q \in Submitted : q < dayStart
  <2>1. atBroker[o] = "cancelled" => legs[o] = {}
    BY <1>3 DEF LegsInv
  <2>2. dayStart = Len(placed) + 1
    BY <1>3 DEF StatusInv, FreshInv
  <2> QED
    BY <2>1, <2>2
<1>8. PICK g \in Stages : /\ row[s].state \in StatesOf(Kind(s), g) \cup {"MANUAL_INTERVENTION"}
                          /\ InStage(s, g)
  BY <1>3 DEF StagesInv, Staged, Shows
<1>9. \A h \in Stages : /\ row'[s].state \in StatesOf(Kind(s), h) \cup {"MANUAL_INTERVENTION"}
                        /\ InStage(s, h)'
                        => Staged(s)'
  <2>1. SUFFICES ASSUME NEW h \in Stages, InStage(s, h)',
                        row'[s].state \in StatesOf(Kind(s), h) \cup {"MANUAL_INTERVENTION"}
                 PROVE  Staged(s)'
    OBVIOUS
  <2>2. Shows(s, h)'
    BY <1>6, <2>1 DEF Shows
  <2> QED
    BY <2>1, <2>2 DEF Staged
<1>10. CASE Type(o) \in ClosingTypes /\ row'[s].state \in {row[s].state, "MANUAL_INTERVENTION"}
  <2>1. OwnKept(s)
    BY <1>1, <1>3, OwnStays
  <2>2. RowKept(s)
    BY <1>3, <1>4, <1>10, RowStays
  <2>3. WorkKept(s)
    BY <1>6, <1>10, TypesApart DEF WorkKept
  <2> QED
    BY <1>3, <1>5, <2>1, <2>2, <2>3, StageFrame DEF StagesInv
<1>11. CASE Type(o) \in ClosingTypes /\ row'[s].state \notin {row[s].state, "MANUAL_INTERVENTION"}
  <2>1. \/ Type(o) = "MLEG_CLOSE" /\ row[s].state = "SPREAD_PENDING" /\ row'[s].state = "SPREAD_OPEN"
        \/ Type(o) = "STC" /\ row[s].state = "PMCC_CLOSING" /\ row'[s].state = "PMCC_LONG_OPEN"
    BY <1>4, <1>11 DEF RestoredState, ClosingTypes
  <2>2. CASE row[s].state = "SPREAD_PENDING" /\ row'[s].state = "SPREAD_OPEN"
    <3>1. g = "entering" /\ Kind(s) \in SpreadKinds
      BY <1>0, <1>8, <2>2 DEF StatesOf, Stages, Kinds, SpreadKinds
    <3>2. Entering(s)
      BY <1>8, <3>1 DEF InStage
    <3>3. PICK e \in Own(s) : Type(e) \in EntryTypes /\ Working(s) = {e} /\ Carrying(s) \subseteq {e}
      BY <3>2 DEF Entering
    <3>4. e \in Submitted /\ Type(e) = "MLEG_OPEN" /\ e # o
      BY <1>11, <3>1, <3>3, TypesApart DEF Own, KindsInv, EntryTypeOf, SpreadKinds
    <3>5. Working(s)' = {e}
      BY <1>6, <3>3, <3>4
    <3>6. OpenOf(s) = {} /\ row[s].cycle = None
      BY <3>1, <3>2 DEF Entering, NoPointer
    <3>7. Phantom(s)'
      BY <1>3, <1>4, <1>6, <1>7, <3>1, <3>3, <3>4, <3>5, <3>6 DEF Phantom
    <3> QED
      BY <1>5, <1>9, <2>2, <3>1, <3>7 DEF StatesOf, InStage, Stages, StagesInv
  <2>3. CASE Type(o) = "STC" /\ row[s].state = "PMCC_CLOSING" /\ row'[s].state = "PMCC_LONG_OPEN"
    <3>1. g = "holding" /\ Kind(s) = "pmcc"
      BY <1>8, <2>3 DEF StatesOf, Stages
    <3> DEFINE c == row[s].cycle
    <3>2. OpenOf(s) = {c} /\ Carrying(s) \subseteq {c} /\ Working(s) \subseteq ClosesOf(c)
      BY <1>8, <3>1 DEF InStage, Holding
    <3> DEFINE t == placed[o].target
    <3>3. CloseIsTrue(o, t)
      BY <1>3, <1>11 DEF ClosesInv
    <3>4. t \in Own(s) /\ cycle[t].status = "open" /\ placed[o] = CloseFor(t)
      <4>1. o \in ClosesOf(t) /\ t \in Submitted
        BY <1>3, <3>3 DEF CloseIsTrue, ClosesOf
      <4> QED
        BY <1>3, <2>3, <3>3, <4>1, ClosesClose DEF CloseIsTrue, Own
    <3>5. t = c
      BY <3>2, <3>4 DEF OpenOf
    <3>6. \A q \in Working(s) : q = o
      <4>1. SUFFICES ASSUME NEW q \in Working(s)
                     PROVE  q = o
        OBVIOUS
      <4>2. q \in Submitted /\ Live(q) /\ placed[q] = placed[o]
        BY <3>2, <3>4, <3>5, <4>1 DEF Working, Own, Effective, ClosesOf
      <4> QED
        BY <1>3, <1>11, <4>2 DEF OneCloseInv
    <3>7. Resting(s)'
      BY <1>4, <1>6, <3>1, <3>2, <3>6 DEF Resting, CallKinds, Under
    <3> QED
      BY <1>5, <1>9, <2>3, <3>1, <3>7 DEF StatesOf, InStage, Stages, StagesInv
  <2> QED
    BY <2>1, <2>2, <2>3
<1>12. CASE Type(o) \in OpeningTypes
  <2>1. o \in Working(s)
    BY <1>3, <1>12, TypesApart DEF Working, Effective
  <2>2. Working(s) = {o} /\ Working(s)' = {} /\ g \in {"entering", "selling", "phantom"}
    <3>1. \A t : o \notin ClosesOf(t)
      BY <1>12, ClosesClose, TypesApart
    <3>2. g \notin {"flat", "resting", "stuck", "holding", "called"}
      BY <1>8, <2>1, <3>1 DEF InStage, Flat, Resting, Stuck, Holding, Called
    <3>3. g \in {"entering", "selling", "phantom"}
      BY <1>8, <3>2 DEF Stages
    <3>4. Entering(s) \/ Selling(s) \/ Phantom(s)
      BY <1>8, <3>3 DEF InStage
    <3>5. Working(s) = {o}
      BY <2>1, <3>4 DEF Entering, Selling, Phantom
    <3> QED
      BY <1>6, <3>3, <3>5
  <2>3. CASE row'[s].state = "MANUAL_INTERVENTION"
    <3>1. \/ Type(o) # "STO_CALL" /\ Carrying(s) \subseteq {o}
          \/ /\ OpenOf(s) = {row[s].cycle}
             /\ Carrying(s) \subseteq {row[s].cycle, o} /\ Type(row[s].cycle) # Type(o)
      <4>1. CASE g = "entering"
        BY <1>8, <2>2, <4>1, TypesApart DEF InStage, Entering
      <4>2. CASE g = "phantom"
        BY <1>8, <2>2, <4>2 DEF InStage, Phantom
      <4>3. CASE g = "selling"
        <5>1. Selling(s)
          BY <1>8, <4>3 DEF InStage
        <5>2. Type(o) = "STO_CALL"
          BY <2>2, <5>1 DEF Selling, LatestCall, CallsOf
        <5>3. OpenOf(s) = {row[s].cycle} /\ Carrying(s) \subseteq Under(s) \cup {o}
          BY <2>2, <5>1 DEF Selling
        <5>4. Type(row[s].cycle) \in EntryTypes
          BY <5>3 DEF OpenOf, Own, TagsInv
        <5> QED
          BY <5>2, <5>3, <5>4, TypesApart DEF Under
      <4> QED
        BY <2>2, <4>1, <4>2, <4>3
    <3>2. /\ \A p, q \in Carrying(s) : Type(p) = Type(q) => p = q
          /\ (\E q \in Carrying(s) : Type(q) = "STO_CALL") => OpenOf(s) = {row[s].cycle}
      BY <3>1
    <3>3. Stuck(s)'
      BY <1>4, <1>6, <2>2, <3>2 DEF Stuck
    <3> QED
      BY <1>5, <1>9, <2>3, <3>3 DEF InStage, Stages, StagesInv
  <2>4. CASE row'[s].state # "MANUAL_INTERVENTION"
    <3>1. /\ legs[o] = {} /\ o \notin Carrying(s) /\ row'[s].state = RestoredState(s, o)
          /\ row[s].state \in StatesOf(Kind(s), g)
      <4>1. row'[s].state = RestoredState(s, o) /\ legs[o] = {}
        BY <1>4, <1>7, <2>4
      <4>2. row[s].state # "MANUAL_INTERVENTION"
        BY <2>4, <4>1 DEF RestoredState
      <4> QED
        BY <1>8, <4>1, <4>2 DEF Carrying
    <3>2. CASE g = "entering"
      <4>1. Entering(s)
        BY <1>8, <3>2 DEF InStage
      <4>2. Type(o) = EntryTypeOf(Kind(s))
        BY <1>3, <2>2, <4>1 DEF Entering, KindsInv
      <4>3. row'[s].state = "IDLE"
        BY <1>0, <3>1, <3>2, <4>2 DEF StatesOf, RestoredState, EntryTypeOf, Kinds, SpreadKinds
      <4>4. Carrying(s) = {}
        BY <2>2, <3>1, <4>1 DEF Entering
      <4>5. Flat(s)'
        BY <1>6, <2>2, <4>1, <4>4 DEF Flat, Entering
      <4> QED
        BY <1>5, <1>9, <4>3, <4>5 DEF StatesOf, InStage, Stages, StagesInv
    <3>3. CASE g = "phantom"
      <4>1. Phantom(s)
        BY <1>8, <3>3 DEF InStage
      <4>2. row[s].state = "SPREAD_OPEN"
        BY <3>1, <3>3, <4>1 DEF StatesOf, Phantom
      <4>3. row'[s].state = "SPREAD_OPEN"
        BY <3>1, <4>2 DEF RestoredState
      <4>4. Carrying(s) = {}
        BY <2>2, <3>1, <4>1 DEF Phantom
      <4>5. Phantom(s)'
        BY <1>4, <1>6, <2>2, <4>1, <4>4 DEF Phantom
      <4> QED
        BY <1>5, <1>9, <4>1, <4>3, <4>5 DEF StatesOf, InStage, Stages, StagesInv, Phantom
    <3>4. CASE g = "selling"
      <4>1. Selling(s)
        BY <1>8, <3>4 DEF InStage
      <4>2. LatestCall(s, o) /\ ~Booked(o) /\ Carrying(s) \subseteq Under(s) /\ Type(o) = "STO_CALL"
        BY <2>2, <3>1, <4>1 DEF Selling, LatestCall, CallsOf
      <4>3. CASE Kind(s) = "pmcc"
        <5>1. row[s].state = "PMCC_SHORT_PENDING"
          BY <3>1, <3>4, <4>3 DEF StatesOf
        <5>2. row'[s].state = "PMCC_SHORT_PENDING"
          BY <3>1, <5>1 DEF RestoredState
        <5>3. Selling(s)'
          <6>1. ~Booked(o)'
            BY <1>1, <4>2 DEF Booked
          <6> QED
            BY <1>3, <1>4, <1>6, <2>2, <4>1, <4>2, <4>3, <6>1 DEF Selling, CallKinds
        <5> QED
          BY <1>5, <1>9, <4>3, <5>2, <5>3 DEF StatesOf, InStage, Stages, StagesInv
      <4>4. CASE Kind(s) = "wheel"
        <5>1. row[s].state = "CC_PENDING"
          BY <3>1, <3>4, <4>4 DEF StatesOf
        <5>2. row'[s].state = "SHARES_HELD"
          BY <3>1, <4>2, <5>1 DEF RestoredState
        <5>3. Resting(s)'
          BY <1>4, <1>6, <2>2, <4>1, <4>2 DEF Resting, Selling
        <5> QED
          BY <1>5, <1>9, <4>4, <5>2, <5>3 DEF StatesOf, InStage, Stages, StagesInv
      <4> QED
        BY <4>1, <4>3, <4>4 DEF Selling, CallKinds
    <3> QED
      BY <2>2, <3>2, <3>3, <3>4
  <2> QED
    BY <2>3, <2>4
<1> QED
  BY <1>3, <1>10, <1>11, <1>12 DEF OrderTypes

-----------------------------------------------------------------------------
(* What the positions say of a row: every order of the answer is processed. *)

\* Nothing is routed, and only the row, its cycle and its bookings are written.
LEMMA Diffing ==
    ASSUME ExactInv, NEW s \in Strategies, DiffOne(s)
    PROVE  /\ UNCHANGED <<placed, atBroker, legs, dayStart, phase, snapshot, answer, todo,
                          dispatching, plan, routing>>
           /\ phase = "diffing" /\ todo = {} /\ dispatching = None
           /\ routing = NotRouting /\ routing.next = "none" /\ plan = <<>>
           /\ \A t : ~Routes(t)
           /\ \A q \in Submitted : Live(q) <=> q \in LocallyLive
           /\ \A q \in Submitted : local[q].status = "FILLED" <=> Booked(q)
           /\ \A q \in Submitted : local[q].status # "none"
<1> USE Typing DEF ExactInv, OrdersAgree
<1>1. /\ UNCHANGED <<placed, atBroker, legs, dayStart, phase, snapshot, answer, todo,
                     dispatching, plan, routing>>
      /\ phase = "diffing"
  BY DEF DiffOne, UnchangedByReconciler, brokerVars, timeVars, routeVars
<1>2. /\ todo = {} /\ dispatching = None /\ plan = <<>> /\ routing = NotRouting
      /\ routing.next = "none" /\ \A q \in Submitted : routing.order # q /\ dispatching # q
  BY <1>1, Idle
<1>3. \A t : ~Routes(t)
  BY <1>2 DEF Routes
<1>4. \A q \in Submitted : Live(q) <=> q \in LocallyLive
  BY <1>2 DEF Live, LocallyLive
<1>5. \A q \in Submitted : /\ local[q].status = "FILLED" <=> Booked(q)
                           /\ local[q].status # "none"
  BY <1>2 DEF StatusInv
<1> QED
  BY <1>1, <1>2, <1>3, <1>4, <1>5

\* What was put on and shows no more is off, though no fill took it off.
LEMMA Vanished ==
    ASSUME ExactInv, NEW s \in Strategies, DiffOne(s), NEW c \in Submitted, Booked(c), ~Shown(c)
    PROVE  /\ legs[c] = {}
           /\ \A q \in ClosesOf(c) : ~Effective(q) /\ (~Booked(q) => atBroker[q] # "filled")
<1> USE Typing DEF ExactInv, OrdersAgree
<1>1. legs[c] = {}
  BY Diffing DEF SnapInv
<1>2. \A q \in ClosesOf(c) : q \in LocallyLive => atBroker[q] # "filled"
  BY Diffing, ClosesClose DEF SnapInv
<1>3. \A q \in ClosesOf(c) : ~Booked(q) /\ atBroker[q] = "filled" => q \in LocallyLive
  <2>1. \A q \in ClosesOf(c) : q \in Submitted /\ local[q].status \in LocalStatuses
    BY ClosesClose DEF LocalType
  <2>2. \A q \in ClosesOf(c) : local[q].status # "none" /\ dispatching # q
    BY Diffing, <2>1 DEF StatusInv
  <2>3. \A q \in ClosesOf(c) : ~Booked(q) => local[q].status # "FILLED"
    BY <2>1, <2>2 DEF StatusInv
  <2>4. \A q \in ClosesOf(c) : atBroker[q] = "filled" => local[q].status # "CANCELLED"
    BY <2>1 DEF StatusInv, Dead
  <2> QED
    BY <2>1, <2>2, <2>3, <2>4 DEF LocallyLive, LiveStatuses, LocalStatuses
<1>4. \A q \in ClosesOf(c) : ~Effective(q)
  BY <1>1, <1>2, Diffing, ClosesClose DEF Effective
<1> QED
  BY <1>1, <1>2, <1>3, <1>4

\* No booking changes, and at most an open cycle of the strategy is ended, whose
\* contracts are gone and were not bought back if it is taken for expired.
Concludes(s) ==
    /\ local' = local
    /\ \/ cycle' = cycle
       \/ \E c \in Own(s) :
            /\ cycle[c].status = "open" /\ cycle'[c].status = "ended"
            /\ \A q \in OrderIds \ {c} : cycle'[q] = cycle[q]
            /\ Type(c) # "BTO" /\ legs[c] = {} /\ row' = Flattened(s)
            /\ cycle'[c].outcome = "expired" => \A q \in ClosesOf(c) : atBroker[q] # "filled"

\* Such a conclusion leaves the orders in agreement.
LEMMA DiffKeepsOrders ==
    ASSUME ExactInv, NEW s \in Strategies, DiffOne(s), Concludes(s)
    PROVE  OrdersAgree'
<1> USE Typing DEF ExactInv, OrdersAgree
<1>1. /\ UNCHANGED <<placed, atBroker, legs, dayStart, phase, snapshot, answer, todo,
                     dispatching, plan, routing, local>>
      /\ plan = <<>> /\ routing = NotRouting
  BY Diffing DEF Concludes
<1>2. /\ Submitted' = Submitted /\ LocallyLive' = LocallyLive
      /\ \A o : /\ Type(o)' = Type(o) /\ Owner(o)' = Owner(o) /\ Live(o)' = Live(o)
                /\ Booked(o)' = Booked(o) /\ ClosesOf(o)' = ClosesOf(o)
                /\ CloseFor(o)' = CloseFor(o) /\ Own(o)' = Own(o) /\ Shown(o)' = Shown(o)
  BY <1>1, SameOrders DEF Own, Shown
<1>3. \A x \in OrderIds :
         \/ cycle'[x] = cycle[x]
         \/ /\ x \in Submitted /\ cycle[x].status = "open" /\ cycle'[x].status = "ended"
            /\ Type(x) # "BTO"
            /\ cycle'[x].outcome = "expired" =>
                 legs[x] = {} /\ \A q \in ClosesOf(x) : atBroker[q] # "filled"
  BY DEF Concludes, Own
<1>4. StatusInv' /\ AnswersInv' /\ LegsInv' /\ KindsInv' /\ OneCloseInv' /\ FreshInv'
  BY <1>1, <1>2 DEF StatusInv, AnswersInv, LegsInv, KindsInv, OneCloseInv, FreshInv, Kind
<1>5. TagsInv'
  <2>1. \A x \in Submitted : cycle'[x].status # "none" => cycle[x].status # "none"
    BY <1>3
  <2>2. \A x \in OrderIds : cycle'[x].status \in {"none", "open"} => cycle'[x].outcome = "none"
    BY <1>3 DEF TagsInv
  <2> QED
    BY <1>1, <1>2, <2>1, <2>2 DEF TagsInv, Own
<1>6. ClosesInv'
  <2>1. SUFFICES ASSUME NEW o \in Submitted, Type(o) \in ClosingTypes, NEW t, t = placed[o].target
                 PROVE  CloseIsTrue(o, t)'
    BY <1>1, <1>2 DEF ClosesInv, CloseIsTrue
  <2>2. CloseIsTrue(o, t) /\ t \in Submitted /\ o \in ClosesOf(t)
    BY <2>1 DEF ClosesInv, CloseIsTrue, ClosesOf
  <2>3. Type(o) = "STC" => Type(t) = "BTO"
    BY <2>2, ClosesClose DEF ClosingTypeOf
  <2> QED
    BY <1>1, <1>2, <1>3, <2>2, <2>3 DEF CloseIsTrue
<1>7. ExpiredInv'
  BY <1>1, <1>2, <1>3 DEF ExpiredInv
<1>8. PlanInv'
  BY <1>1, NothingToPlan
<1>9. SnapInv'
  BY <1>1, <1>2 DEF SnapInv
<1> QED
  BY <1>4, <1>5, <1>6, <1>7, <1>8, <1>9

\* The strategy's orders are what they were.
LEMMA AfterDiff ==
    ASSUME ExactInv, NEW s \in Strategies, DiffOne(s), Concludes(s), NEW t \in Strategies
    PROVE  /\ Own(t)' = Own(t) /\ CallsOf(t)' = CallsOf(t) /\ Carrying(t)' = Carrying(t)
           /\ Working(t)' = Working(t) /\ ~Routes(t)' /\ Kind(t)' = Kind(t)
           /\ \A x : Type(x)' = Type(x) /\ ClosesOf(x)' = ClosesOf(x)
           /\ t # s => OpenOf(t)' = OpenOf(t)
<1> USE Typing DEF ExactInv, OrdersAgree
<1>1. /\ UNCHANGED <<placed, atBroker, legs, dispatching, routing, local>>
      /\ routing.next = "none"
  BY Diffing DEF Concludes
<1>2. \A x : Type(x)' = Type(x) /\ ClosesOf(x)' = ClosesOf(x) /\ Live(x)' = Live(x)
  BY <1>1, SameOrders
<1>3. Own(t)' = Own(t) /\ Own(t) \subseteq Submitted
  BY <1>1 DEF Own, Owner, Submitted
<1>4. CallsOf(t)' = CallsOf(t) /\ Carrying(t)' = Carrying(t) /\ Working(t)' = Working(t)
  BY <1>1, <1>2, <1>3 DEF CallsOf, Carrying, Working, Effective
<1>5. t # s => OpenOf(t)' = OpenOf(t)
  <2>1. SUFFICES ASSUME t # s
                 PROVE  \A x \in Own(t) : cycle'[x] = cycle[x]
    BY <1>3 DEF OpenOf
  <2>2. \A x \in Own(t) : x \notin Own(s) /\ x \in OrderIds
    BY <1>3, <2>1 DEF Own
  <2> QED
    BY <2>2 DEF Concludes
<1> QED
  BY <1>1, <1>2, <1>3, <1>4, <1>5 DEF Routes, Kind

\* The other strategies stay in their stages, and so does this one if its cycle
\* stays open and its row stays or is flagged.
LEMMA DiffKeepsOthers ==
    ASSUME ExactInv, NEW s \in Strategies, DiffOne(s), Concludes(s), NEW t \in Strategies,
           t # s \/ cycle' = cycle, row'[t].cycle = row[t].cycle,
           row'[t].state \in {row[t].state, "MANUAL_INTERVENTION"}
    PROVE  Staged(t)'
<1> USE Typing DEF ExactInv, OrdersAgree
<1>1. UNCHANGED <<placed, dayStart, routing, local>> /\ ~Routes(t)
  BY Diffing DEF Concludes
<1>2. /\ Own(t)' = Own(t) /\ Carrying(t)' = Carrying(t) /\ Working(t)' = Working(t)
      /\ \A x : Type(x)' = Type(x) /\ ClosesOf(x)' = ClosesOf(x)
      /\ OpenOf(t)' = OpenOf(t)
  BY AfterDiff DEF OpenOf
<1>3. OwnKept(t)
  BY <1>1, <1>2 DEF OwnKept, Booked
<1>4. WorkKept(t)
  BY <1>2 DEF WorkKept
<1>5. RowKept(t)
  BY <1>1, RowStays
<1> QED
  BY <1>3, <1>4, <1>5, StageFrame DEF StagesInv

\* What may be concluded of a row.
LEMMA DiffMeans ==
    ASSUME NEW s \in Strategies, DiffOne(s)
    PROVE  \/ UNCHANGED <<local, cycle>> /\ (row' = row \/ row' = Flagged({s}))
           \/ /\ local' = local /\ row' = Flattened(s)
              /\ cycle' = ClosedCycle(row[s].cycle, "expired")
              /\ \/ row[s].state = "CSP_OPEN" /\ ~snapshot.put
                 \/ row[s].state = "SPREAD_OPEN" /\ snapshot = NoSnapshot
           \/ /\ UNCHANGED <<local, cycle>> /\ row[s].state = "CSP_OPEN" /\ ~snapshot.put
              /\ row' = [row EXCEPT ![s].state = "SHARES_HELD", ![s].shares = 1]
           \/ /\ row[s].state = "CC_OPEN" /\ ~snapshot.call /\ local' = local
              /\ \/ cycle' = cycle /\ row' = WithState(s, "SHARES_HELD", None)
                 \/ cycle' = ClosedCycle(row[s].cycle, "called_away") /\ row' = Flattened(s)
           \/ /\ row[s].state = "PMCC_BOTH_OPEN" /\ ~snapshot.call /\ UNCHANGED <<local, cycle>>
              /\ row' = WithState(s, "PMCC_LONG_OPEN", None)
           \/ /\ row[s].state = "PMCC_SHORT_PENDING" /\ ~HasInflightOrder
              /\ \/ UNCHANGED <<local, cycle>> /\ row' = WithState(s, "PMCC_LONG_OPEN", None)
                 \/ LatestIfFilled(s, "STO_CALL") # {}
           \/ /\ row[s].state \in {"CSP_PENDING", "CC_PENDING", "SPREAD_PENDING", "PMCC_LONG_PENDING"}
              /\ ~HasInflightOrder
<1>1. CASE DiffCspOpen(s)
  BY <1>1 DEF DiffCspOpen, HasShortPut, Stay, Flag, OnAssignment, OnCspExpiration
<1>2. CASE DiffCcOpen(s)
  BY <1>2 DEF DiffCcOpen, HasShortCall, Stay, Flag, Heal, OnCalledAway
<1>3. CASE DiffSpreadOpen(s)
  BY <1>3 DEF DiffSpreadOpen, BrokerPresent, Stay, Flag
<1>4. CASE DiffPmccOpen(s)
  BY <1>4 DEF DiffPmccOpen, HasShortCall, Stay, Flag, Heal
<1>5. CASE DiffWheelPending(s) \/ DiffSpreadPending(s)
  BY <1>5 DEF DiffWheelPending, DiffSpreadPending, Stay
<1>6. CASE DiffPmccPending(s)
  <2>1. CASE row[s].state = "PMCC_LONG_PENDING"
    BY <1>6, <2>1 DEF DiffPmccPending, Stay
  <2>2. CASE row[s].state = "PMCC_SHORT_PENDING"
    BY <1>6, <2>2 DEF DiffPmccPending, Stay, Heal
  <2> QED
    BY <1>6, <2>1, <2>2 DEF DiffPmccPending
<1>7. CASE DiffNoTransition(s)
  BY <1>7 DEF DiffNoTransition, Stay
<1> QED
  BY <1>1, <1>2, <1>3, <1>4, <1>5, <1>6, <1>7 DEF DiffOne

\* The stage that a row's state tells of.
LEMMA StageOfState ==
    ASSUME ExactInv, NEW s \in Strategies, ~Routes(s)
    PROVE  /\ row[s].state = "CSP_OPEN" => Holding(s) /\ Kind(s) = "wheel"
           /\ row[s].state = "CC_OPEN" => Called(s) /\ Kind(s) = "wheel"
           /\ row[s].state = "SPREAD_OPEN" => (Holding(s) \/ Phantom(s)) /\ Kind(s) \in SpreadKinds
           /\ row[s].state = "PMCC_BOTH_OPEN" => Called(s) /\ Kind(s) = "pmcc"
           /\ row[s].state = "PMCC_SHORT_PENDING" => Selling(s) /\ Kind(s) = "pmcc"
           /\ row[s].state \in {"CSP_PENDING", "SPREAD_PENDING", "PMCC_LONG_PENDING"} => Entering(s)
           /\ row[s].state = "CC_PENDING" => Selling(s) /\ Kind(s) = "wheel"
<1>1. PICK g \in Stages : /\ row[s].state \in StatesOf(Kind(s), g) \cup {"MANUAL_INTERVENTION"}
                          /\ InStage(s, g)
  BY DEF ExactInv, StagesInv, Staged, Shows
<1>2. Kind(s) \in Kinds
  BY StrategiesAssumption DEF Kind
<1> USE DEF StatesOf, Stages, Kinds, SpreadKinds, InStage
<1>3. row[s].state = "CSP_OPEN" => Holding(s) /\ Kind(s) = "wheel"
  BY <1>1, <1>2
<1>4. row[s].state = "CC_OPEN" => Called(s) /\ Kind(s) = "wheel"
  BY <1>1, <1>2
<1>5. row[s].state = "SPREAD_OPEN" => (Holding(s) \/ Phantom(s)) /\ Kind(s) \in SpreadKinds
  BY <1>1, <1>2
<1>6. row[s].state = "PMCC_BOTH_OPEN" => Called(s) /\ Kind(s) = "pmcc"
  BY <1>1, <1>2
<1>7. row[s].state = "PMCC_SHORT_PENDING" => Selling(s) /\ Kind(s) = "pmcc"
  BY <1>1, <1>2
<1>8. row[s].state \in {"CSP_PENDING", "SPREAD_PENDING", "PMCC_LONG_PENDING"} => Entering(s)
  BY <1>1, <1>2
<1>9. row[s].state = "CC_PENDING" => Selling(s) /\ Kind(s) = "wheel"
  BY <1>1, <1>2
<1> QED
  BY <1>3, <1>4, <1>5, <1>6, <1>7, <1>8, <1>9

\* A conclusion keeps the books exact if it keeps the row's strategy in a stage.
LEMMA ConclusionKeeps ==
    ASSUME ExactInv, NEW s \in Strategies, DiffOne(s), Concludes(s), NEW g \in Stages,
           InStage(s, g)', row'[s].state \in StatesOf(Kind(s), g),
           \A t \in Strategies \ {s} : row'[t] = row[t]
    PROVE  OrdersAgree' /\ StagesInv'
<1>1. Shows(s, g)'
  BY AfterDiff DEF Shows
<1>2. \A t \in Strategies \ {s} : Staged(t)'
  BY DiffKeepsOthers
<1> QED
  BY <1>1, <1>2, DiffKeepsOrders DEF StagesInv, Staged

\* What is held and shows no more has expired or was assigned.
LEMMA HeldIsGone ==
    ASSUME ExactInv, NEW s \in Strategies, DiffOne(s), NEW c, c = row[s].cycle,
           row[s].state \in {"CSP_OPEN", "SPREAD_OPEN"}, Holding(s), c \in Submitted => ~Shown(c)
    PROVE  /\ c \in Own(s) /\ c # None /\ cycle[c].status = "open" /\ Type(c) # "BTO"
           /\ OpenOf(s) = {c} /\ Carrying(s) = {} /\ Working(s) = {}
           /\ legs[c] = {} /\ \A q \in ClosesOf(c) : atBroker[q] # "filled"
<1> USE Typing DEF ExactInv, OrdersAgree
<1>1. /\ c \in Own(s) /\ c \in Submitted /\ c # None /\ cycle[c].status = "open"
      /\ OpenOf(s) = {c} /\ Carrying(s) \subseteq {c} /\ Working(s) \subseteq ClosesOf(c)
  BY DEF Holding, OpenOf, Own
<1>2. Booked(c) /\ Type(c) \in EntryTypes
  BY <1>1 DEF TagsInv
<1>3. legs[c] = {} /\ \A q \in ClosesOf(c) : ~Effective(q) /\ (~Booked(q) => atBroker[q] # "filled")
  BY <1>1, <1>2, Vanished
<1>4. \A q \in ClosesOf(c) : ~Booked(q)
  BY <1>1, <1>2, ClosesClose DEF ClosesInv, CloseIsTrue
<1>5. Type(c) # "BTO"
  <2>1. Kind(s) = "wheel" \/ Kind(s) \in SpreadKinds
    BY StageOfState, Diffing
  <2> QED
    BY <1>1, <1>2, <2>1 DEF KindsInv, EntryTypeOf, SpreadKinds, Own
<1>6. Working(s) = {} /\ Carrying(s) = {}
  BY <1>1, <1>3 DEF Working, Carrying
<1> QED
  BY <1>1, <1>3, <1>4, <1>5, <1>6

\* A call that shows no more is off.
LEMMA CallIsGone ==
    ASSUME ExactInv, NEW s \in Strategies, DiffOne(s), Called(s), ~snapshot.call
    PROVE  Resting(s)
<1> USE Typing DEF ExactInv, OrdersAgree
<1>1. PICK k \in Own(s) : /\ LatestCall(s, k) /\ local[k].cycle = row[s].cycle
                          /\ Working(s) \subseteq ClosesOf(k)
                          /\ Carrying(s) \subseteq Under(s) \cup {k}
  BY DEF Called
<1>2. k \in Submitted /\ Type(k) = "STO_CALL" /\ ~Shown(k)
  BY <1>1 DEF LatestCall, CallsOf, Own, Shown
<1>3. row[s].cycle # None
  BY DEF Called, OpenOf, Own
<1>4. legs[k] = {} /\ \A q \in ClosesOf(k) : ~Effective(q)
  BY <1>1, <1>2, <1>3, Vanished DEF Booked
<1>5. Working(s) = {} /\ Carrying(s) \subseteq Under(s)
  BY <1>1, <1>4 DEF Working, Carrying
<1> QED
  BY <1>5 DEF Called, Resting

\* Inferring what happened to a row draws such a conclusion and keeps the books
\* exact.
LEMMA DiffKeeps ==
    ASSUME ExactInv, NEW s \in Strategies, DiffOne(s)
    PROVE  Concludes(s) /\ OrdersAgree' /\ StagesInv'
<1> USE Typing DEF ExactInv, OrdersAgree
<1> DEFINE c == row[s].cycle
<1>1. /\ dispatching = None /\ todo = {} /\ ~Routes(s)
      /\ \A q \in Submitted : Live(q) <=> q \in LocallyLive
      /\ \A q \in Submitted : local[q].status = "FILLED" <=> Booked(q)
      /\ \A q \in Submitted : local[q].status # "none"
      /\ dayStart' = dayStart
  BY Diffing
<1>2. CASE UNCHANGED <<local, cycle>> /\ (row' = row \/ row' = Flagged({s}))
  <2>1. Concludes(s)
    BY <1>2 DEF Concludes
  <2>2. \A t \in Strategies : /\ row'[t].cycle = row[t].cycle
                              /\ row'[t].state \in {row[t].state, "MANUAL_INTERVENTION"}
    BY <1>2, FlagsAreQuiet
  <2> QED
    BY <1>2, <2>1, <2>2, DiffKeepsOrders, DiffKeepsOthers DEF StagesInv
<1>3. CASE /\ local' = local /\ row' = Flattened(s) /\ cycle' = ClosedCycle(c, "expired")
           /\ row[s].state \in {"CSP_OPEN", "SPREAD_OPEN"} /\ Holding(s)
           /\ c \in Submitted => ~Shown(c)
  <2>1. /\ c \in Own(s) /\ c # None /\ cycle[c].status = "open" /\ Type(c) # "BTO" /\ c \in OrderIds
        /\ OpenOf(s) = {c} /\ Carrying(s) = {} /\ Working(s) = {}
        /\ legs[c] = {} /\ \A q \in ClosesOf(c) : atBroker[q] # "filled"
    BY <1>3, HeldIsGone DEF Own
  <2>2. cycle'[c].status = "ended" /\ \A q \in OrderIds \ {c} : cycle'[q] = cycle[q]
    BY <1>3, <2>1 DEF ClosedCycle, CycleType
  <2>3. Concludes(s)
    BY <1>3, <2>1, <2>2 DEF Concludes
  <2>4. /\ \A t \in Strategies \ {s} : row'[t] = row[t]
        /\ row'[s].state = "IDLE" /\ row'[s].cycle = None
    BY <1>3 DEF Flattened, RowType
  <2>5. /\ Own(s)' = Own(s) /\ Carrying(s)' = {} /\ Working(s)' = {} /\ Kind(s)' = Kind(s)
    BY <2>1, <2>3, AfterDiff
  <2>6. OpenOf(s)' = {}
    <3>1. \A q \in Own(s) : q \in OrderIds /\ (cycle[q].status = "open" => q = c)
      BY <2>1 DEF OpenOf, Own
    <3> QED
      BY <2>2, <2>5, <3>1 DEF OpenOf
  <2>7. Flat(s)'
    BY <2>4, <2>5, <2>6 DEF Flat, NoPointer
  <2>8. "flat" \in Stages /\ InStage(s, "flat")' /\ row'[s].state \in StatesOf(Kind(s), "flat")
    BY <2>4, <2>7 DEF Stages, InStage, StatesOf
  <2> QED
    BY <2>3, <2>4, <2>8, ConclusionKeeps
<1>4. CASE /\ local' = local /\ row' = Flattened(s) /\ cycle' = ClosedCycle(c, "expired")
           /\ row[s].state = "SPREAD_OPEN" /\ Phantom(s)
  <2>1. Concludes(s) /\ cycle' = cycle
    BY <1>4 DEF Concludes, Phantom, ClosedCycle
  <2>2. Working(s) = {}
    <3>1. \A q \in LocallyLive : q >= dayStart
      BY Diffing DEF FreshInv
    <3>2. \A q \in Working(s) : q \in LocallyLive /\ q < dayStart /\ q \in Nat
      BY <1>1, <1>4 DEF Working, Own, Effective, Phantom
    <3> QED
      BY <3>1, <3>2
  <2>3. /\ \A t \in Strategies \ {s} : row'[t] = row[t]
        /\ row'[s].state = "IDLE" /\ row'[s].cycle = None
    BY <1>4 DEF Flattened, RowType
  <2>4. /\ Own(s)' = Own(s) /\ Carrying(s)' = Carrying(s) /\ Working(s)' = {} /\ Kind(s)' = Kind(s)
    BY <2>1, <2>2, AfterDiff
  <2>5. Flat(s)'
    BY <1>4, <2>1, <2>2, <2>3, <2>4 DEF Flat, NoPointer, Phantom, OpenOf
  <2>6. "flat" \in Stages /\ InStage(s, "flat")' /\ row'[s].state \in StatesOf(Kind(s), "flat")
    BY <2>3, <2>5 DEF Stages, InStage, StatesOf
  <2> QED
    BY <2>1, <2>3, <2>6, ConclusionKeeps
<1>5. ASSUME Resting(s), UNCHANGED <<local, cycle>>, row'[s].cycle = row[s].cycle,
             row'[s].state = IF Kind(s) = "pmcc" THEN "PMCC_LONG_OPEN" ELSE "SHARES_HELD",
             \A t \in Strategies \ {s} : row'[t] = row[t]
      PROVE  Concludes(s) /\ OrdersAgree' /\ StagesInv'
  <2>1. Concludes(s)
    BY <1>5 DEF Concludes
  <2>2. /\ Own(s)' = Own(s) /\ Carrying(s)' = Carrying(s) /\ Working(s)' = Working(s)
        /\ Kind(s)' = Kind(s) /\ OpenOf(s)' = OpenOf(s) /\ Under(s)' = Under(s)
    BY <1>5, <2>1, AfterDiff DEF OpenOf, Under
  <2>3. Resting(s)'
    BY <1>5, <2>2 DEF Resting
  <2>4. "resting" \in Stages /\ InStage(s, "resting")' /\ row'[s].state \in StatesOf(Kind(s), "resting")
    BY <1>5, <2>3 DEF Stages, InStage, StatesOf, Resting, CallKinds
  <2> QED
    BY <1>5, <2>1, <2>4, ConclusionKeeps
<1>6. CASE /\ UNCHANGED <<local, cycle>> /\ row[s].state = "CSP_OPEN" /\ ~snapshot.put
           /\ row' = [row EXCEPT ![s].state = "SHARES_HELD", ![s].shares = 1]
  <2>1. Holding(s) /\ Kind(s) = "wheel"
    BY <1>1, <1>6, StageOfState
  <2>2. c \in Submitted => ~Shown(c)
    <3>1. c \in Submitted => Type(c) = "STO_PUT"
      BY <2>1 DEF Holding, OpenOf, Own, TagsInv, KindsInv, EntryTypeOf, SpreadKinds
    <3> QED
      BY <1>6, <3>1 DEF Shown
  <2>3. OpenOf(s) = {c} /\ Carrying(s) = {} /\ Working(s) = {}
    BY <1>6, <2>1, <2>2, HeldIsGone
  <2>4. Resting(s)
    BY <2>1, <2>3 DEF Resting, CallKinds
  <2>5. /\ \A t \in Strategies \ {s} : row'[t] = row[t]
        /\ row'[s].state = "SHARES_HELD" /\ row'[s].cycle = row[s].cycle
    BY <1>6 DEF RowType
  <2> QED
    BY <1>5, <1>6, <2>1, <2>4, <2>5
<1>7. CASE /\ row[s].state = "CC_OPEN" /\ ~snapshot.call /\ local' = local
           /\ \/ cycle' = cycle /\ row' = WithState(s, "SHARES_HELD", None)
              \/ cycle' = ClosedCycle(c, "called_away") /\ row' = Flattened(s)
  <2>1. Resting(s) /\ Kind(s) = "wheel"
    BY <1>1, <1>7, StageOfState, CallIsGone
  <2>2. CASE cycle' = cycle /\ row' = WithState(s, "SHARES_HELD", None)
    <3>1. /\ \A t \in Strategies \ {s} : row'[t] = row[t]
          /\ row'[s].state = "SHARES_HELD" /\ row'[s].cycle = row[s].cycle
      BY <2>2 DEF WithState, RowType
    <3> QED
      BY <1>5, <1>7, <2>1, <2>2, <3>1
  <2>3. CASE cycle' = ClosedCycle(c, "called_away") /\ row' = Flattened(s)
    <3>1. /\ c \in Own(s) /\ c \in OrderIds /\ c \in Submitted /\ c # None
          /\ cycle[c].status = "open" /\ OpenOf(s) = {c}
      BY <2>1 DEF Resting, OpenOf, Own
    <3>2. Type(c) = "STO_PUT"
      BY <2>1, <3>1 DEF TagsInv, KindsInv, EntryTypeOf, SpreadKinds, Own
    <3>3. /\ cycle'[c].status = "ended" /\ cycle'[c].outcome = "called_away"
          /\ \A q \in OrderIds \ {c} : cycle'[q] = cycle[q]
      BY <2>3, <3>1 DEF ClosedCycle, CycleType
    <3>4. Concludes(s)
      <4>1. legs[c] = {}
        BY <2>1, <3>1 DEF Resting, Under, Carrying
      <4> QED
        BY <1>7, <2>3, <3>1, <3>2, <3>3, <4>1 DEF Concludes
    <3>5. /\ \A t \in Strategies \ {s} : row'[t] = row[t]
          /\ row'[s].state = "IDLE" /\ row'[s].cycle = None
      BY <2>3 DEF Flattened, RowType
    <3>6. /\ Own(s)' = Own(s) /\ Carrying(s)' = Carrying(s) /\ Working(s)' = {} /\ Kind(s)' = Kind(s)
      BY <2>1, <3>4, AfterDiff DEF Resting
    <3>7. Carrying(s) = {}
      BY <2>1 DEF Resting, Under
    <3>8. OpenOf(s)' = {}
      <4>1. \A q \in Own(s) : q \in OrderIds /\ (cycle[q].status = "open" => q = c)
        BY <3>1 DEF OpenOf, Own
      <4> QED
        BY <3>3, <3>6, <4>1 DEF OpenOf
    <3>9. Flat(s)'
      BY <3>5, <3>6, <3>7, <3>8 DEF Flat, NoPointer
    <3>10. "flat" \in Stages /\ InStage(s, "flat")' /\ row'[s].state \in StatesOf(Kind(s), "flat")
      BY <3>5, <3>9 DEF Stages, InStage, StatesOf
    <3> QED
      BY <3>4, <3>5, <3>10, ConclusionKeeps
  <2> QED
    BY <1>7, <2>2, <2>3
<1>8. CASE /\ row[s].state = "PMCC_BOTH_OPEN" /\ ~snapshot.call /\ UNCHANGED <<local, cycle>>
           /\ row' = WithState(s, "PMCC_LONG_OPEN", None)
  <2>1. Resting(s) /\ Kind(s) = "pmcc"
    BY <1>1, <1>8, StageOfState, CallIsGone
  <2>2. /\ \A t \in Strategies \ {s} : row'[t] = row[t]
        /\ row'[s].state = "PMCC_LONG_OPEN" /\ row'[s].cycle = row[s].cycle
    BY <1>8 DEF WithState, RowType
  <2> QED
    BY <1>5, <1>8, <2>1, <2>2
<1>9. ~HasInflightOrder => Working(s) = {}
  BY <1>1 DEF HasInflightOrder, Working, Own, Effective
<1>10. CASE /\ row[s].state = "PMCC_SHORT_PENDING" /\ ~HasInflightOrder
            /\ \/ UNCHANGED <<local, cycle>> /\ row' = WithState(s, "PMCC_LONG_OPEN", None)
               \/ LatestIfFilled(s, "STO_CALL") # {}
  <2>1. Selling(s) /\ Kind(s) = "pmcc" /\ Working(s) = {}
    BY <1>1, <1>9, <1>10, StageOfState
  <2>2. Resting(s)
    BY <2>1 DEF Resting, Selling
  <2>3. LatestIfFilled(s, "STO_CALL") = {}
    <3>1. PICK o \in Own(s) : LatestCall(s, o) /\ ~Booked(o)
      BY <2>1 DEF Selling
    <3>2. o \in LocallyKnown /\ Owner(o) = s /\ Type(o) = "STO_CALL" /\ o \in Submitted
      BY <1>1, <3>1 DEF LocallyKnown, LatestCall, CallsOf, Own
    <3>3. SUFFICES ASSUME NEW q \in LatestIfFilled(s, "STO_CALL")
                   PROVE  FALSE
      OBVIOUS
    <3>4. /\ q \in LocallyKnown /\ Owner(q) = s /\ Type(q) = "STO_CALL" /\ o <= q
          /\ local[q].status = "FILLED"
      BY <3>2, <3>3 DEF LatestIfFilled, LatestOf
    <3>5. q \in Submitted /\ q \in CallsOf(s)
      BY <3>4 DEF LocallyKnown, CallsOf, Own
    <3>6. q = o
      BY <3>1, <3>2, <3>4, <3>5 DEF LatestCall
    <3> QED
      BY <1>1, <3>1, <3>4, <3>5, <3>6
  <2>4. UNCHANGED <<local, cycle>> /\ row' = WithState(s, "PMCC_LONG_OPEN", None)
    BY <1>10, <2>3
  <2>5. /\ \A t \in Strategies \ {s} : row'[t] = row[t]
        /\ row'[s].state = "PMCC_LONG_OPEN" /\ row'[s].cycle = row[s].cycle
    BY <2>4 DEF WithState, RowType
  <2> QED
    BY <1>5, <2>1, <2>2, <2>4, <2>5
<1>11. ASSUME row[s].state \in {"CSP_PENDING", "CC_PENDING", "SPREAD_PENDING", "PMCC_LONG_PENDING"},
              ~HasInflightOrder
       PROVE  FALSE
  <2>1. Entering(s) \/ (Selling(s) /\ Kind(s) = "wheel")
    BY <1>1, <1>11, StageOfState
  <2> QED
    BY <1>9, <1>11, <2>1 DEF Entering, Selling
<1>12. row[s].state = "CSP_OPEN" /\ ~snapshot.put => Holding(s) /\ (c \in Submitted => ~Shown(c))
  <2>1. SUFFICES ASSUME row[s].state = "CSP_OPEN", ~snapshot.put
                 PROVE  Holding(s) /\ (c \in Submitted => ~Shown(c))
    OBVIOUS
  <2>2. Holding(s) /\ Kind(s) = "wheel"
    BY <1>1, <2>1, StageOfState
  <2>3. c \in Submitted => Type(c) = "STO_PUT"
    BY <2>2 DEF Holding, OpenOf, Own, TagsInv, KindsInv, EntryTypeOf, SpreadKinds
  <2> QED
    BY <2>1, <2>2, <2>3 DEF Shown
<1>13. row[s].state = "SPREAD_OPEN" /\ snapshot = NoSnapshot =>
          (Holding(s) \/ Phantom(s)) /\ (c \in Submitted => ~Shown(c))
  <2>1. \A q : snapshot = NoSnapshot => ~Shown(q)
    BY DEF Shown, NoSnapshot
  <2> QED
    BY <1>1, <2>1, StageOfState
<1>14. CASE /\ local' = local /\ row' = Flattened(s) /\ cycle' = ClosedCycle(c, "expired")
            /\ \/ row[s].state = "CSP_OPEN" /\ ~snapshot.put
               \/ row[s].state = "SPREAD_OPEN" /\ snapshot = NoSnapshot
  BY <1>3, <1>4, <1>12, <1>13, <1>14
<1> QED
  BY <1>2, <1>6, <1>7, <1>8, <1>10, <1>11, <1>14, DiffMeans

-----------------------------------------------------------------------------
(* The invariant. *)

\* At the start nothing was submitted and every row is missing.
LEMMA InitExact == BotInit => ExactInv
<1> SUFFICES ASSUME BotInit
             PROVE  ExactInv
  OBVIOUS
<1> USE Typing DEF BotInit, Init
<1>1. Inv /\ Submitted = {} /\ placed = <<>> /\ Len(placed) = 0
  BY InitLedger DEF Submitted
<1>2. /\ \A o \in OrderIds : /\ local[o].cycle = None /\ legs[o] = {}
                             /\ cycle[o].status = "none" /\ cycle[o].outcome = "none"
      /\ \A s \in Strategies : row[s].state = "NONE" /\ row[s].cycle = None
      /\ routing = NotRouting /\ routing.next = "none"
  BY DEF NotRouting
<1>3. LocallyLive = {}
  BY <1>1 DEF LocallyLive
<1>4. OrdersAgree
  BY <1>1, <1>2, <1>3
     DEF OrdersAgree, StatusInv, AnswersInv, LegsInv, KindsInv, TagsInv, ClosesInv, OneCloseInv,
         ExpiredInv, FreshInv, PlanInv, SnapInv, Booked
<1>5. \A s \in Strategies : Flat(s)
  BY <1>1, <1>2 DEF Flat, Working, Carrying, OpenOf, Own, NoPointer
<1>6. \A s \in Strategies : Shows(s, "flat")
  BY <1>2 DEF Shows, Routes, StatesOf
<1>7. StagesInv
  BY <1>5, <1>6 DEF StagesInv, Staged, InStage, Stages
<1> QED
  BY <1>1, <1>4, <1>7 DEF ExactInv

\* Every step of an undisturbed environment keeps the books exact.
LEMMA StepExact ==
    ASSUME Undisturbed, ExactInv, [BotNext]_botVars
    PROVE  ExactInv'
<1>1. Inv'
  BY StepLedger DEF ExactInv
<1>2. CASE ReconcilerStep
  <2>1. ASSUME NEW o \in OrderIds, DispatchOrderTransition(o)
        PROVE  OrdersAgree' /\ StagesInv'
    <3>1. answer[o] = "FILLED" \/ answer[o] = "CANCELLED"
      BY <2>1, Dispatching
    <3> QED
      BY <2>1, <3>1, FillKeeps, CancelKeeps
  <2>2. CASE FetchPositions \/ FetchOrders \/ \E o \in OrderIds : PersistStatus(o)
    BY <1>1, <2>2, FetchPositionsKeeps, FetchOrdersKeeps, PersistStatusKeeps DEF ExactInv
  <2>3. CASE OrdersProcessed \/ RowsDiffed \/ AuditCycleParity
    BY <1>1, <2>3, TickKeeps DEF ExactInv
  <2>4. CASE \E s \in Strategies : DiffOne(s)
    BY <1>1, <2>4, DiffKeeps DEF ExactInv
  <2>5. ~ \E o \in OrderIds : UnknownOrder(o)
    BY ExcludedSteps
  <2> QED
    BY <1>1, <1>2, <2>1, <2>2, <2>3, <2>4, <2>5 DEF ReconcilerStep, ExactInv
<1>3. CASE RouterStep
  BY <1>1, <1>3, RouterKeeps DEF ExactInv
<1>4. CASE BrokerStep \/ NewDay
  BY <1>1, <1>4, MarketKeeps DEF ExactInv
<1>5. CASE Crash
  BY <1>1, <1>5, TickKeeps DEF ExactInv
<1>6. CASE UNCHANGED botVars
  BY <1>1, <1>6, StutterKeeps DEF ExactInv
<1> QED
  BY <1>2, <1>3, <1>4, <1>5, <1>6 DEF BotNext, TickStep

\* In an undisturbed environment the books are exact in every reachable state.
THEOREM BooksAreExact ==
    ASSUME Undisturbed
    PROVE  Spec => []ExactInv
<1>1. BotInit => ExactInv
  BY InitExact
<1>2. ExactInv /\ [BotNext]_botVars => ExactInv'
  BY StepExact
<1> QED
  BY <1>1, <1>2, PTL DEF Spec

-----------------------------------------------------------------------------
(* What follows of exact books. *)

\* The stage of a strategy's position, whatever its row shows.
LEMMA StageExists ==
    ASSUME ExactInv, NEW s \in Strategies
    PROVE  \/ Flat(s) \/ Entering(s) \/ Holding(s) \/ Resting(s) \/ Selling(s) \/ Called(s)
           \/ Phantom(s) \/ Stuck(s)
  BY DEF ExactInv, StagesInv, Staged, InStage, Stages

\* After the reconcile pass nothing is in submission or being dispatched.
LEMMA WhenSettled ==
    ASSUME ExactInv, Settled
    PROVE  dispatching = None /\ \A s : ~Routes(s)
<1>1. dispatching = None /\ routing = NotRouting
  BY Idle DEF Settled, ExactInv, OrdersAgree
<1> QED
  BY <1>1 DEF Routes, NotRouting

\* An order working at the broker is one the bot has still to hear of.
LEMMA AtBrokerIsLive ==
    ASSUME ExactInv, NEW o \in Submitted, atBroker[o] \in LiveAtBroker
    PROVE  Live(o)
  BY Typing DEF ExactInv, OrdersAgree, StatusInv, Live, LiveAtBroker, LiveStatuses, Dead,
                Inv, Ledger, OrdersInv, LocalType, LocalStatuses

\* No contracts are under two working closes: a close is never submitted twice.
THEOREM OneCloseHolds ==
    ASSUME Undisturbed
    PROVE  Spec => []OneCloseAtATime
<1>1. ExactInv => OneCloseAtATime
  BY DEF ExactInv, OrdersAgree, OneCloseInv, OneCloseAtATime, LocallyLive, Live
<1>2. Spec => []ExactInv
  BY BooksAreExact
<1> QED
  BY <1>1, <1>2, PTL

\* No strategy has two entries working or alive: exposure is never put on twice.
THEOREM OneEntryHolds ==
    ASSUME Undisturbed
    PROVE  Spec => []OneEntryAtATime
<1>1. ExactInv => OneEntryAtATime
  <2> SUFFICES ASSUME ExactInv, NEW s \in Strategies,
                      NEW o \in Submitted, Owner(o) = s, Type(o) \in EntryTypes, Outstanding(o),
                      NEW p \in Submitted, Owner(p) = s, Type(p) \in EntryTypes, Outstanding(p)
               PROVE  o = p
    BY DEF OneEntryAtATime
  <2>1. \A q \in Submitted : Owner(q) = s /\ Type(q) \in EntryTypes /\ Outstanding(q) =>
                             q \in Working(s) \cup Carrying(s)
    <3>1. \A q \in Submitted : Type(q) \in EntryTypes /\ Live(q) => Effective(q)
      BY TypesApart DEF Effective
    <3> QED
      BY <3>1, AtBrokerIsLive DEF Outstanding, Working, Carrying, Own
  <2>2. o \in Working(s) \cup Carrying(s) /\ p \in Working(s) \cup Carrying(s)
    BY <2>1
  <2>3. \A t : o \notin ClosesOf(t) /\ p \notin ClosesOf(t)
    BY ClosesClose, TypesApart
  <2>4. ~LatestCall(s, o) /\ ~LatestCall(s, p)
    BY TypesApart DEF LatestCall, CallsOf
  <2>5. CASE Flat(s) \/ Entering(s) \/ Phantom(s) \/ Stuck(s)
    <3>1. Type(o) = Type(p)
      BY DEF ExactInv, OrdersAgree, KindsInv
    <3> QED
      BY <2>2, <2>5, <3>1 DEF Flat, Entering, Phantom, Stuck
  <2>6. CASE Holding(s) \/ Resting(s)
    BY <2>2, <2>3, <2>6 DEF Holding, Resting, Under
  <2>7. CASE Selling(s)
    BY <2>2, <2>4, <2>7 DEF Selling, Under
  <2>8. CASE Called(s)
    BY <2>2, <2>3, <2>4, <2>8 DEF Called, Under
  <2> QED
    BY <2>5, <2>6, <2>7, <2>8, StageExists
<1>2. Spec => []ExactInv
  BY BooksAreExact
<1> QED
  BY <1>1, <1>2, PTL

\* After a reconcile pass, legs alive at the broker are in front of someone.
THEOREM ExposureIsTracked ==
    ASSUME Undisturbed
    PROVE  Spec => []ExposureTracked
<1>1. ExactInv => ExposureTracked
  <2> SUFFICES ASSUME ExactInv, Settled, NEW s \in Strategies, LegsAlive(s) # {}
               PROVE  Tracked(s)
    BY DEF ExposureTracked
  <2>1. Carrying(s) # {}
    BY DEF LegsAlive, Carrying, Own
  <2>2. PICK g \in Stages : /\ row[s].state \in StatesOf(Kind(s), g) \cup {"MANUAL_INTERVENTION"}
                            /\ InStage(s, g)
    BY WhenSettled DEF ExactInv, StagesInv, Staged, Shows
  <2>3. g # "flat"
    BY <2>1, <2>2 DEF InStage, Flat
  <2> QED
    BY <2>2, <2>3 DEF Stages, StatesOf, Tracked, AbandonedStates
<1>2. Spec => []ExactInv
  BY BooksAreExact
<1> QED
  BY <1>1, <1>2, PTL

\* After a reconcile pass, an open cycle is its row's, or its row the operator's.
THEOREM NoCycleIsOrphaned ==
    ASSUME Undisturbed
    PROVE  Spec => []NoOrphanCycle
<1>1. ExactInv => NoOrphanCycle
  <2> SUFFICES ASSUME ExactInv, Settled, NEW c \in Submitted, cycle[c].status = "open",
                      NEW s, s = Owner(c)
               PROVE  row[s].cycle = c \/ OperatorOwned(s)
    BY DEF NoOrphanCycle
  <2>1. s \in Strategies /\ c \in OpenOf(s)
    BY Typing DEF ExactInv, OpenOf, Own
  <2>2. PICK g \in Stages : /\ row[s].state \in StatesOf(Kind(s), g) \cup {"MANUAL_INTERVENTION"}
                            /\ InStage(s, g)
    BY <2>1, WhenSettled DEF ExactInv, StagesInv, Staged, Shows
  <2>3. CASE g = "stuck"
    BY <2>2, <2>3 DEF StatesOf, OperatorOwned, OperatorStates
  <2>4. CASE g # "stuck"
    <3>1. OpenOf(s) = {} \/ OpenOf(s) = {row[s].cycle}
      BY <2>2, <2>4 DEF Stages, InStage, Flat, Entering, Holding, Resting, Selling, Called, Phantom
    <3> QED
      BY <2>1, <3>1
  <2> QED
    BY <2>3, <2>4
<1>2. Spec => []ExactInv
  BY BooksAreExact
<1> QED
  BY <1>1, <1>2, PTL

\* After a reconcile pass every known fill has had its effect.
THEOREM FillsHaveEffect ==
    ASSUME Undisturbed
    PROVE  Spec => []FillsAreBooked
<1>1. ExactInv => FillsAreBooked
  <2> SUFFICES ASSUME ExactInv, Settled, NEW o \in LocallyKnown, local[o].status = "FILLED"
               PROVE  local[o].cycle # None
    BY DEF FillsAreBooked
  <2>1. o \in Submitted /\ dispatching # o
    BY Typing, WhenSettled DEF LocallyKnown, ExactInv
  <2> QED
    BY <2>1 DEF ExactInv, OrdersAgree, StatusInv, Booked
<1>2. Spec => []ExactInv
  BY BooksAreExact
<1> QED
  BY <1>1, <1>2, PTL

\* A cycle booked as expired was not bought back.
THEOREM ExpiredIsExpired ==
    ASSUME Undisturbed
    PROVE  Spec => []ExpiredMeansExpired
<1>1. ExactInv => ExpiredMeansExpired
  <2> SUFFICES ASSUME ExactInv, NEW c \in Submitted, cycle[c].outcome = "expired",
                      NEW o \in Submitted, Type(o) \in ClosingTypes, placed[o].target = c
               PROVE  atBroker[o] # "filled"
    BY DEF ExpiredMeansExpired
  <2>1. o \in ClosesOf(c)
    BY DEF ExactInv, OrdersAgree, ClosesInv, CloseIsTrue, ClosesOf
  <2> QED
    BY <2>1 DEF ExactInv, OrdersAgree, ExpiredInv
<1>2. Spec => []ExactInv
  BY BooksAreExact
<1> QED
  BY <1>1, <1>2, PTL

\* Both sides of an ended cycle are booked to it.
THEOREM EndedIsComplete ==
    ASSUME Undisturbed
    PROVE  Spec => []EndedCyclesAreComplete
<1>1. ExactInv => EndedCyclesAreComplete
  <2> SUFFICES ASSUME ExactInv, NEW c \in Submitted,
                      NEW o \in Submitted, Type(o) \in ClosingTypes, local[o].status = "FILLED",
                      dispatching # o, local[placed[o].target].cycle = c
               PROVE  local[o].cycle = c
    BY DEF EndedCyclesAreComplete
  <2>1. Booked(o)
    BY DEF ExactInv, OrdersAgree, StatusInv
  <2> QED
    BY <2>1 DEF ExactInv, OrdersAgree, ClosesInv, CloseIsTrue
<1>2. Spec => []ExactInv
  BY BooksAreExact
<1> QED
  BY <1>1, <1>2, PTL

-----------------------------------------------------------------------------
(* What stands behind a sold call. *)

\* A wheel covers its calls with the account's stock, so it has the symbol to
\* itself; diagonals have their own long calls.
WheelTradesAlone == \A w \in Trading : Kind(w) = "wheel" => Trading = {w}

\* Nobody submits or proposes but the strategies that trade the symbol.
OnlyTraders ==
    /\ \A o \in Submitted : Owner(o) \in Trading
    /\ plan # <<>> => Head(plan).strategy \in Trading
    /\ phase = "proposing" => todoRows \subseteq Trading

\* A long call that was bought is there until it is sold.
LongsHeld ==
    \A c \in Submitted : Type(c) = "BTO" /\ atBroker[c] = "filled" =>
        legs[c] # {} \/ \E q \in ClosesOf(c) : atBroker[q] = "filled"

\* A short sold by an order of this type may have to be met: it is sold, or may
\* yet be, or its buyback has still to be dispatched.
Relies(o, sell) ==
    \/ Type(o) = sell /\ legs[o] # {}
    \/ Type(o) = sell /\ Live(o) /\ atBroker[o] \in {"open", "partial", "cancelled"}
    \/ Type(o) = ClosingTypeOf(sell) /\ Live(o) /\ atBroker[o] = "filled"

\* The account holds what a wheel that trades alone takes it to hold: nothing
\* while puts are sold, a lot while calls are.
StockFits(w) ==
    /\ stock \in {0, 1}
    /\ phase \in {"orders", "processing", "diffing"} => snapshot.shares = stock
    /\ \A o \in Submitted : /\ Relies(o, "STO_PUT") => stock = 0
                            /\ Relies(o, "STO_CALL") => stock = 1
    /\ ~Routes(w) => /\ row[w].state \in {"NONE", "IDLE"} => stock = 0
                     /\ row[w].state = "SHARES_HELD" => stock = 1

CoverInv ==
    /\ ExactInv /\ OnlyTraders /\ LongsHeld
    /\ \A w \in Trading : Kind(w) = "wheel" => StockFits(w)

\* Only a strategy that trades plans and submits: the roll scan, which walks
\* every row, finds nothing to close where nothing was opened.
LEMMA TradersTrade ==
    ASSUME ExactInv, Undisturbed, OnlyTraders, [BotNext]_botVars
    PROVE  OnlyTraders'
<1> USE Typing DEF ExactInv, OrdersAgree
<1>1. ASSUME NEW p, Submit(p)
      PROVE  OnlyTraders'
  <2> DEFINE new == Len(placed) + 1
  <2>1. /\ Submitted' = Submitted \cup {new} /\ placed'[new] = p
        /\ \A o \in Submitted : placed'[o] = placed[o]
        /\ plan' = plan /\ plan = <<p>> /\ phase' = phase
    BY <1>1, Submission
  <2>2. todoRows' = todoRows /\ Head(plan) = p
    BY <1>1, <2>1 DEF Submit
  <2> HIDE DEF new
  <2> QED
    BY <2>1, <2>2 DEF OnlyTraders, Owner
<1>2. ASSUME UNCHANGED <<placed, phase>>, todoRows' \subseteq todoRows,
             NEW s \in Trading, plan' = <<>> \/ \E p : plan' = <<p>> /\ p.strategy = s
      PROVE  OnlyTraders'
  <2>1. \A p : Head(<<p>>) = p
    OBVIOUS
  <2> QED
    BY <1>2, <2>1 DEF OnlyTraders, Owner, Submitted
<1>3. ASSUME NEW s \in Strategies, Propose(s)
      PROVE  OnlyTraders'
  <2>1. s \in Trading
    BY <1>3 DEF Propose, OnlyTraders
  <2>2. PICK c \in SequencesOver(Closes(s)), o \in SequencesOver(Opens(s)) :
          (c = <<>> \/ o = <<>>) /\ plan' = c \o o /\ plan' # <<>>
    BY <1>3 DEF Propose, Undisturbed
  <2>3. \A p \in Closes(s) \cup Opens(s) : p.strategy = s
    BY ProposalsType DEF Inv, TypeInv, TypeOK
  <2>4. \E p \in Closes(s) \cup Opens(s) : plan' = <<p>>
    <3>1. CASE c = <<>>
      <4>1. PICK p \in Opens(s) : o = <<p>>
        BY <2>2, <3>1 DEF SequencesOver
      <4> QED
        BY <2>2, <3>1, <4>1
    <3>2. CASE o = <<>>
      <4>1. PICK p \in Closes(s) : c = <<p>>
        BY <2>2, <3>2 DEF SequencesOver
      <4> QED
        BY <2>2, <3>2, <4>1
    <3> QED
      BY <2>2, <3>1, <3>2
  <2> QED
    BY <1>2, <1>3, <2>1, <2>3, <2>4 DEF Propose, brokerVars
<1>4. ASSUME NEW s \in Strategies, ScanRoll(s)
      PROVE  OnlyTraders'
  <2>1. PICK short \in RollShort(s), action \in RollActions :
          plan' = IF action = "HALT" THEN <<>>
                  ELSE IF action = "ROLL"
                  THEN <<Proposal(s, ClosingTypeOf(Type(short)), short), Proposal(s, Type(short), None)>>
                  ELSE <<Proposal(s, ClosingTypeOf(Type(short)), short)>>
    BY <1>4 DEF ScanRoll
  <2> DEFINE close == Proposal(s, ClosingTypeOf(Type(short)), short)
  <2>2. plan' = <<>> \/ plan' = <<close>>
    BY <2>1 DEF Undisturbed
  <2>3. close \in Wanted(s) /\ close.strategy = s /\ close.target = short /\ short # None
    BY DEF RollShort, Wanted, CloseOf, Proposal, LatestFilled, LatestOf
  <2>4. dispatching = None /\ ~Routes(s)
    BY <1>4, Idle DEF ScanRoll, Routes, NotRouting
  <2>5. short \in Own(s)
    <3>1. Asked(s, close)
      BY <2>3, <2>4, WantedMeans
    <3>2. PICK t \in Own(s) : close = CloseFor(t)
      BY <2>3, <3>1 DEF Asked, Proposal
    <3> QED
      BY <2>3, <3>2 DEF CloseFor, Proposal
  <2>6. s \in Trading
    BY <2>5 DEF Own, OnlyTraders
  <2> HIDE DEF close
  <2> QED
    BY <1>2, <1>4, <2>2, <2>3, <2>6 DEF ScanRoll, brokerVars
<1>5. ASSUME placed' = placed, plan' = plan \/ plan' = <<>>,
             \/ phase' # "proposing"
             \/ phase' = phase /\ todoRows' \subseteq todoRows
             \/ todoRows' \subseteq Trading
      PROVE  OnlyTraders'
  BY <1>5 DEF OnlyTraders, Owner, Submitted
<1>6. plan # <<>> => Tail(plan) = <<>>
  BY DEF PlanInv
<1>7. CASE ReconcilerStep
  <2>1. UNCHANGED <<placed, plan>> /\ phase' # "proposing"
    BY <1>7 DEF ReconcilerStep, FetchPositions, FetchOrders, UnknownOrder, PersistStatus,
                DispatchOrderTransition, OrdersProcessed, DiffOne, RowsDiffed, AuditCycleParity,
                UnchangedByReconciler, brokerVars, routeVars
  <2> QED
    BY <1>5, <2>1
<1>8. ASSUME NEW p, Drop(p) \/ SubmitFails(p)
      PROVE  OnlyTraders'
  BY <1>5, <1>6, <1>8 DEF Drop, SubmitFails, AfterFailure, AtHead, brokerVars
<1>9. CASE PersistOrder \/ UpsertPositionPending
  <2>1. plan # <<>>
    BY <1>9, Idle DEF PersistOrder, UpsertPositionPending, NotRouting
  <2> QED
    BY <1>5, <1>6, <1>9, <2>1 DEF PersistOrder, UpsertPositionPending, Routed, brokerVars
<1>10. CASE SweepStaleOpens \/ EndTick \/ EndRollScan
  BY <1>5, <1>10 DEF SweepStaleOpens, EndTick, EndRollScan, brokerVars, routeVars
<1>11. CASE RouterStep
  BY <1>1, <1>3, <1>4, <1>8, <1>9, <1>10, <1>11, ExcludedSteps DEF RouterStep
<1>12. CASE BrokerStep \/ NewDay
  <2>1. UNCHANGED <<placed, plan, phase, todoRows>>
    BY <1>12 DEF BrokerStep, NewDay, Fill, PartialFill, EndOrder, Expire, Assign, UnchangedByBroker,
                 routeVars
  <2> QED
    BY <1>5, <2>1
<1>13. CASE Crash
  BY <1>5, <1>13 DEF Crash, brokerVars
<1>14. CASE UNCHANGED botVars
  BY <1>5, <1>14 DEF botVars, vars
<1> QED
  BY <1>7, <1>11, <1>12, <1>13, <1>14 DEF BotNext, TickStep

\* The step leaves the broker's books alone, and makes no order live again.
OrdersStand ==
    /\ UNCHANGED <<placed, atBroker, legs, stock>>
    /\ \A o \in Submitted : Live(o)' => Live(o)

\* Only the broker, the night and a submission do more than that.
LEMMA OtherStepsStand ==
    ASSUME ExactInv, Undisturbed, [BotNext]_botVars
    PROVE  BrokerStep \/ NewDay \/ (\E p : Submit(p)) \/ OrdersStand
<1> USE Typing DEF ExactInv, OrdersAgree
<1>1. ASSUME UNCHANGED <<placed, atBroker, legs, stock>>,
             \A o \in OrderIds : local'[o].status = local[o].status,
             dispatching' \in {dispatching, None}, routing' \in {routing, NotRouting}
      PROVE  OrdersStand
  <2>1. \A o \in Submitted : dispatching' = o => dispatching = o
    BY <1>1
  <2>2. \A o \in Submitted : routing'.order = o => routing.order = o
    BY <1>1 DEF NotRouting
  <2> QED
    BY <1>1, <2>1, <2>2 DEF OrdersStand, Live
<1>2. CASE FetchPositions \/ FetchOrders \/ OrdersProcessed \/ RowsDiffed \/ AuditCycleParity
  BY <1>1, <1>2 DEF FetchPositions, FetchOrders, OrdersProcessed, RowsDiffed, AuditCycleParity,
                    UnchangedByReconciler, brokerVars, dbVars, routeVars
<1>3. ASSUME NEW o \in OrderIds, PersistStatus(o)
      PROVE  OrdersStand
  <2>1. UNCHANGED <<placed, atBroker, legs, stock, routing>> /\ dispatching = None /\ o \in todo
    BY <1>3 DEF PersistStatus, UnchangedByReconciler, brokerVars, routeVars
  <2>2. /\ local'[o].status = answer[o] /\ answer[o] # "none"
        /\ \A q \in OrderIds \ {o} : local'[q] = local[q]
    BY <1>3, <2>1 DEF PersistStatus, LocalType, Inv, Ledger, AnswerInv
  <2>3. \/ local[o].status \in LiveStatuses
        \/ dispatching' = None /\ answer[o] = local[o].status
    <3>1. local[o].status \in LocalStatuses \ {"none"}
      BY <1>3 DEF PersistStatus, LocalType
    <3>2. local[o].status \in {"FILLED", "CANCELLED"} => answer[o] = local[o].status
      BY <2>1 DEF AnswersInv
    <3>3. local[o].status \notin LiveStatuses => dispatching' = None
      BY <1>3, <2>1 DEF PersistStatus, NeedsDispatch
    <3> QED
      BY <3>1, <3>2, <3>3 DEF LocalStatuses
  <2>4. dispatching' \in {o, None}
    BY <1>3, <2>1 DEF PersistStatus
  <2>5. \A q \in Submitted \ {o} : Live(q)' => Live(q)
    BY <2>1, <2>2, <2>4 DEF Live
  <2>6. o \in Submitted => (Live(o)' => Live(o))
    BY <2>1, <2>2, <2>3 DEF Live
  <2> QED
    BY <2>1, <2>5, <2>6 DEF OrdersStand
<1>4. ASSUME NEW o \in OrderIds, DispatchOrderTransition(o)
      PROVE  OrdersStand
  <2>1. CyclesMove(o)
    BY <1>4, DispatchLedger
  <2> QED
    BY <1>1, <1>4, <2>1 DEF DispatchOrderTransition, UnchangedByReconciler, brokerVars, routeVars,
                            CyclesMove
<1>5. ASSUME NEW s \in Strategies, DiffOne(s)
      PROVE  OrdersStand
  <2>1. \E o \in OrderIds : CyclesMove(o)
    BY <1>5, DiffOneLedger
  <2> QED
    BY <1>1, <1>5, <2>1 DEF DiffOne, UnchangedByReconciler, brokerVars, routeVars, CyclesMove
<1>6. CASE ReconcilerStep
  BY <1>2, <1>3, <1>4, <1>5, <1>6, ExcludedSteps DEF ReconcilerStep
<1>7. ASSUME NEW p, Drop(p) \/ SubmitFails(p)
      PROVE  OrdersStand
  BY <1>1, <1>7 DEF Drop, SubmitFails, brokerVars, dbVars, readVars
<1>8. ASSUME NEW s \in Strategies, Propose(s) \/ ScanRoll(s)
      PROVE  OrdersStand
  BY <1>1, <1>8 DEF Propose, ScanRoll, brokerVars, dbVars, readVars
<1>9. CASE SweepStaleOpens \/ EndTick \/ EndRollScan
  <2>1. SweepStaleOpens => atBroker' = [o \in OrderIds |-> atBroker[o]]
    BY DEF SweepStaleOpens, Undisturbed
  <2> QED
    BY <1>1, <1>9, <2>1 DEF SweepStaleOpens, EndTick, EndRollScan, brokerVars, dbVars, readVars,
                            routeVars
<1>10. CASE PersistOrder
  <2>1. routing # NotRouting
    BY <1>10 DEF PersistOrder, NotRouting
  <2> DEFINE o == routing.order
  <2>2. /\ UNCHANGED <<placed, atBroker, legs, stock, dispatching>>
        /\ \A q \in OrderIds \ {o} : local'[q] = local[q]
    BY <1>10 DEF PersistOrder, brokerVars, readVars
  <2>3. routing'.order \in {o, None}
    BY <1>10 DEF PersistOrder, Routed, NotRouting, Inv, TypeInv, TypeOK, RouteTypeOK
  <2>4. \A q \in Submitted : Live(q)' => Live(q)
    BY <2>2, <2>3 DEF Live
  <2> QED
    BY <2>2, <2>4 DEF OrdersStand
<1>11. CASE UpsertPositionPending
  BY <1>1, <1>11 DEF UpsertPositionPending, Routed, brokerVars, readVars
<1>12. CASE RouterStep
  BY <1>7, <1>8, <1>9, <1>10, <1>11, <1>12, ExcludedSteps DEF RouterStep
<1>13. CASE Crash
  BY <1>1, <1>13 DEF Crash, brokerVars, dbVars
<1>14. CASE UNCHANGED botVars
  BY <1>1, <1>14 DEF botVars, vars
<1> QED
  BY <1>6, <1>12, <1>13, <1>14 DEF BotNext, TickStep

\* A long call leaves the account only by its own sale.
LEMMA LongsStay ==
    ASSUME ExactInv, Undisturbed, ~LongsExpire, LongsHeld, [BotNext]_botVars
    PROVE  LongsHeld'
<1> USE Typing DEF ExactInv, OrdersAgree
<1>1. ASSUME placed' = placed,
             \A q \in Submitted : atBroker[q] = "filled" => atBroker'[q] = "filled",
             \A c \in Submitted : Type(c) = "BTO" /\ atBroker'[c] = "filled" =>
                 \/ legs'[c] # {}
                 \/ legs'[c] = legs[c] /\ atBroker[c] = "filled"
                 \/ \E q \in ClosesOf(c) : atBroker'[q] = "filled"
      PROVE  LongsHeld'
  <2>1. Submitted' = Submitted /\ \A c : Type(c)' = Type(c) /\ ClosesOf(c)' = ClosesOf(c)
    BY <1>1 DEF Submitted, Type, Owner, ClosesOf, CloseFor
  <2>2. SUFFICES ASSUME NEW c \in Submitted, Type(c) = "BTO", atBroker'[c] = "filled"
                 PROVE  legs'[c] # {} \/ \E q \in ClosesOf(c) : atBroker'[q] = "filled"
    BY <2>1 DEF LongsHeld
  <2>3. \A q \in ClosesOf(c) : atBroker[q] = "filled" => atBroker'[q] = "filled"
    BY <1>1 DEF ClosesOf
  <2>4. atBroker[c] = "filled" => legs[c] # {} \/ \E q \in ClosesOf(c) : atBroker[q] = "filled"
    BY <2>2 DEF LongsHeld
  <2> QED
    BY <1>1, <2>2, <2>3, <2>4
<1>2. ASSUME placed' = placed,
             \A q \in Submitted : atBroker[q] = "filled" => atBroker'[q] = "filled",
             \A c \in Submitted : Type(c) = "BTO" =>
                 legs'[c] = legs[c] /\ (atBroker'[c] = "filled" => atBroker[c] = "filled")
      PROVE  LongsHeld'
  BY <1>1, <1>2
<1>3. ASSUME NEW o \in OrderIds, Fill(o)
      PROVE  LongsHeld'
  <2>1. /\ placed' = placed /\ o \in Submitted /\ legs' = LegsAfter(o, placed[o])
        /\ atBroker' = [atBroker EXCEPT ![o] = "filled"]
    BY <1>3 DEF Fill, UnchangedByBroker
  <2>2. atBroker'[o] = "filled" /\ \A q \in OrderIds \ {o} : atBroker'[q] = atBroker[q]
    BY <2>1
  <2>3. CASE Type(o) \in OpeningTypes
    <3>1. legs' = [legs EXCEPT ![o] = LegsOpenedBy(Kind(Owner(o)), Type(o))]
      BY <2>1, <2>3 DEF LegsAfter, Type, Owner
    <3>2. Type(o) = "BTO" => LegsOpenedBy(Kind(Owner(o)), Type(o)) # {}
      BY DEF LegsOpenedBy
    <3> QED
      BY <1>1, <2>1, <2>2, <3>1, <3>2
  <2>4. CASE Type(o) \in ClosingTypes
    <3> DEFINE t == placed[o].target
    <3>1. \A q \in OrderIds \ {t} : legs'[q] = legs[q]
      BY <2>1, <2>4, CloseTakesAll
    <3>2. o \in ClosesOf(t)
      BY <2>1, <2>4 DEF ClosesInv, CloseIsTrue, ClosesOf
    <3> HIDE DEF t
    <3>3. \A c \in Submitted : Type(c) = "BTO" => c # o
      BY <2>4, TypesApart DEF EntryTypes
    <3> QED
      BY <1>1, <2>1, <2>2, <3>1, <3>2, <3>3
  <2> QED
    BY <2>1, <2>3, <2>4 DEF OrderTypes
<1>4. ASSUME NEW o \in OrderIds, PartialFill(o)
      PROVE  LongsHeld'
  <2>1. /\ placed' = placed /\ o \in Submitted /\ atBroker[o] = "open"
        /\ atBroker' = [atBroker EXCEPT ![o] = "partial"]
        /\ legs' = IF Type(o) \in OpeningTypes THEN LegsAfter(o, placed[o]) ELSE legs
    BY <1>4 DEF PartialFill, UnchangedByBroker
  <2>2. \A q \in OrderIds \ {o} : atBroker'[q] = atBroker[q] /\ legs'[q] = legs[q]
    BY <2>1 DEF LegsAfter, Type
  <2>3. atBroker'[o] = "partial"
    BY <2>1
  <2> QED
    BY <1>1, <2>1, <2>2, <2>3
<1>5. ASSUME NEW o \in OrderIds, EndOrder(o)
      PROVE  LongsHeld'
  BY <1>5 DEF EndOrder, Undisturbed, StatusInv
<1>6. ASSUME NEW o \in OrderIds, Expire(o) \/ \E leg \in Legs : Assign(o, leg)
      PROVE  LongsHeld'
  <2>1. /\ placed' = placed /\ atBroker' = atBroker /\ o \in Submitted
        /\ \A q \in OrderIds \ {o} : legs'[q] = legs[q]
    BY <1>6 DEF Expire, Assign, UnchangedByBroker
  <2>2. Type(o) # "BTO"
    <3>1. Type(o) = "BTO" => legs[o] \subseteq {"long_call"}
      BY <2>1 DEF LegsInv, LegsOpenedBy
    <3> QED
      BY <1>6, <3>1 DEF Expire, Assign
  <2> QED
    BY <1>2, <2>1, <2>2
<1>7. CASE BrokerStep
  BY <1>3, <1>4, <1>5, <1>6, <1>7 DEF BrokerStep
<1>8. CASE NewDay
  <2>1. placed' = placed /\ legs' = legs /\ \A o \in OrderIds : atBroker'[o] = Ended(atBroker[o])
    BY <1>8 DEF NewDay
  <2>2. \A status : Ended(status) = "filled" <=> status = "filled"
    BY DEF Ended, LiveAtBroker
  <2> QED
    BY <1>2, <2>1, <2>2
<1>9. ASSUME NEW p, Submit(p)
      PROVE  LongsHeld'
  <2> DEFINE new == Len(placed) + 1
  <2>1. /\ Submitted' = Submitted \cup {new} /\ legs' = legs
        /\ atBroker'[new] = "open" /\ \A o \in Submitted : atBroker'[o] = atBroker[o]
    BY <1>9, Submission
  <2>2. \A o \in Submitted : Type(o)' = Type(o) /\ ClosesOf(o) \subseteq ClosesOf(o)'
    BY <1>9, SubmissionKeepsOthers
  <2> HIDE DEF new
  <2>3. SUFFICES ASSUME NEW c \in Submitted, Type(c) = "BTO", atBroker[c] = "filled"
                 PROVE  legs[c] # {} \/ \E q \in ClosesOf(c)' : atBroker'[q] = "filled"
    BY <2>1, <2>2 DEF LongsHeld
  <2>4. \A q \in ClosesOf(c) : q \in ClosesOf(c)' /\ atBroker'[q] = atBroker[q]
    BY <2>1, <2>2, ClosesClose
  <2> QED
    BY <2>3, <2>4 DEF LongsHeld
<1>10. CASE OrdersStand
  BY <1>2, <1>10 DEF OrdersStand
<1> QED
  BY <1>7, <1>8, <1>9, <1>10, OtherStepsStand

-----------------------------------------------------------------------------
(* The stock under a wheel's calls. *)

\* What a wheel trades, and the states its row shows.
LEMMA WheelTrades ==
    ASSUME ExactInv, NEW w \in Strategies, Kind(w) = "wheel"
    PROVE  /\ \A o \in Own(w) : /\ Type(o) \in {"STO_PUT", "STO_CALL", "BTC_PUT", "BTC_CALL"}
                                /\ "short_put" \in legs[o] => Type(o) = "STO_PUT"
                                /\ "short_call" \in legs[o] => Type(o) = "STO_CALL"
                                /\ \A leg \in legs[o] : legs[o] = {leg}
           /\ ~Routes(w) => row[w].state \in {"NONE", "IDLE", "CSP_PENDING", "CSP_OPEN", "SHARES_HELD",
                                              "CC_PENDING", "CC_OPEN", "MANUAL_INTERVENTION"}
<1> USE Typing DEF ExactInv, OrdersAgree
<1>1. \A o \in Own(w) : Type(o) \in OpeningTypes => Type(o) \in {"STO_PUT", "STO_CALL"}
  BY TypesApart DEF Own, KindsInv, EntryTypeOf, SpreadKinds
<1>2. \A o \in Own(w) : Type(o) \in ClosingTypes => Type(o) \in {"BTC_PUT", "BTC_CALL"}
  <2> SUFFICES ASSUME NEW o \in Own(w), Type(o) \in ClosingTypes, NEW t, t = placed[o].target
               PROVE  Type(o) \in {"BTC_PUT", "BTC_CALL"}
    OBVIOUS
  <2>1. o \in ClosesOf(t) /\ t \in Submitted /\ Type(t) \in OpeningTypes
    BY DEF ClosesInv, CloseIsTrue, ClosesOf, Own
  <2>2. t \in Own(w) /\ Type(o) = ClosingTypeOf(Type(t))
    BY <2>1, ClosesClose DEF Own
  <2> QED
    BY <1>1, <2>1, <2>2 DEF ClosingTypeOf
<1>3. \A o \in Own(w) : Type(o) \in {"STO_PUT", "STO_CALL", "BTC_PUT", "BTC_CALL"}
  BY <1>1, <1>2 DEF Own, OrderTypes
<1>4. \A o \in Own(w) : legs[o] \subseteq LegsOpenedBy("wheel", Type(o))
  BY DEF Own, LegsInv
<1>5. \A o \in Own(w) : /\ "short_put" \in legs[o] => Type(o) = "STO_PUT"
                        /\ "short_call" \in legs[o] => Type(o) = "STO_CALL"
                        /\ \A leg \in legs[o] : legs[o] = {leg}
  BY <1>3, <1>4 DEF LegsOpenedBy
<1>6. ASSUME ~Routes(w)
      PROVE  row[w].state \in {"NONE", "IDLE", "CSP_PENDING", "CSP_OPEN", "SHARES_HELD",
                               "CC_PENDING", "CC_OPEN", "MANUAL_INTERVENTION"}
  <2>1. PICK g \in Stages : row[w].state \in StatesOf("wheel", g) \cup {"MANUAL_INTERVENTION"}
    BY <1>6 DEF StagesInv, Staged, Shows
  <2> QED
    BY <2>1 DEF Stages, StatesOf, SpreadKinds
<1> QED
  BY <1>3, <1>5, <1>6

\* A wheel that carries something is neither idle nor resting.
LEMMA WheelCarries ==
    ASSUME ExactInv, NEW w \in Strategies, Kind(w) = "wheel", ~Routes(w), Carrying(w) # {}
    PROVE  row[w].state \notin {"NONE", "IDLE", "SHARES_HELD"}
<1>1. PICK g \in Stages : /\ row[w].state \in StatesOf("wheel", g) \cup {"MANUAL_INTERVENTION"}
                          /\ InStage(w, g)
  BY DEF ExactInv, StagesInv, Staged, Shows
<1>2. g \notin {"flat", "resting"}
  BY <1>1 DEF InStage, Flat, Resting, Under
<1> QED
  BY <1>1, <1>2 DEF Stages, StatesOf, SpreadKinds

\* A wheel relies on one short at a time: once it is assigned, on none.
LEMMA NothingElseRelies ==
    ASSUME ExactInv, NEW o \in OrderIds, NEW leg \in Legs, Assign(o, leg),
           NEW w \in Strategies, Kind(w) = "wheel", o \in Own(w)
    PROVE  \A p \in Own(w) : ~Relies(p, Type(o))'
<1> USE Typing DEF ExactInv, OrdersAgree
<1> DEFINE sell == Type(o)
<1>1. /\ UNCHANGED <<placed, atBroker, local, dispatching, routing>>
      /\ leg \in legs[o] /\ legs' = [legs EXCEPT ![o] = @ \ {leg}]
      /\ \A p \in Submitted : atBroker[p] \notin LiveAtBroker
  BY DEF Assign, Overnight, UnchangedByBroker, dbVars, readVars, routeVars
<1>2. legs'[o] = {} /\ \A p \in OrderIds \ {o} : legs'[p] = legs[p]
  BY <1>1, WheelTrades
<1>3. sell \in OpeningTypes
  <2>1. sell \in {"STO_PUT", "STO_CALL"}
    BY <1>1, WheelTrades DEF LegsInv, LegsOpenedBy, Own
  <2> QED
    BY <2>1 DEF OpeningTypes
<1>4. o \in Carrying(w) /\ Under(w) = {}
  BY <1>1 DEF Carrying, Under
<1>5. /\ \A p \in Carrying(w) \cup Working(w) : Type(p) = sell => p = o
      /\ \A p \in Working(w) : Type(p) = ClosingTypeOf(sell) => p \in ClosesOf(o)
  <2>1. \A p : Type(p) = sell => Type(p) # ClosingTypeOf(sell) /\ \A t : p \notin ClosesOf(t)
    BY <1>3, TypesApart, ClosesClose
  <2>2. CASE Entering(w)
    BY <1>4, <2>1, <2>2, TypesApart DEF Entering
  <2>3. CASE Holding(w)
    BY <1>4, <2>1, <2>3 DEF Holding
  <2>4. CASE Selling(w)
    BY <1>4, <2>1, <2>4, TypesApart DEF Selling
  <2>5. CASE Called(w)
    BY <1>4, <2>1, <2>5 DEF Called
  <2>6. CASE Stuck(w)
    BY <1>4, <2>6 DEF Stuck
  <2>7. ~Flat(w) /\ ~Resting(w) /\ ~Phantom(w)
    BY <1>4 DEF Flat, Resting, Phantom, SpreadKinds
  <2> QED
    BY <2>2, <2>3, <2>4, <2>5, <2>6, <2>7, StageExists
<1> SUFFICES ASSUME NEW p \in Own(w)
             PROVE  ~Relies(p, sell)'
  BY <1>1 DEF Type
<1>6. p \in Submitted /\ Type(p)' = Type(p) /\ Live(p)' = Live(p) /\ sell' = sell
  BY <1>1, SameOrders DEF Own
<1>7. ~(Type(p) = sell /\ legs'[p] # {})
  BY <1>2, <1>5, <1>6 DEF Carrying
<1>8. ~(Type(p) = sell /\ Live(p) /\ atBroker[p] \in {"open", "partial", "cancelled"})
  <2> SUFFICES ASSUME Type(p) = sell, Live(p), atBroker[p] \in {"open", "partial", "cancelled"}
               PROVE  FALSE
    OBVIOUS
  <2>1. p = o
    BY <1>3, <1>5, <1>6, TypesApart DEF Working, Effective
  <2> QED
    BY <1>1, <1>6, <2>1 DEF LegsInv, LiveAtBroker
<1>9. ~(Type(p) = ClosingTypeOf(sell) /\ Live(p) /\ atBroker[p] = "filled")
  <2> SUFFICES ASSUME Type(p) = ClosingTypeOf(sell), Live(p), atBroker[p] = "filled"
               PROVE  FALSE
    OBVIOUS
  <2>1. p \in ClosesOf(o)
    BY <1>5, <1>6 DEF Working, Effective
  <2>2. legs[o] = {}
    BY <1>6, <2>1, ClosesClose DEF ClosesInv, CloseIsTrue
  <2> QED
    BY <1>1, <2>2
<1> HIDE DEF sell
<1> QED
  BY <1>1, <1>6, <1>7, <1>8, <1>9 DEF Relies

\* Orders that trade or end at the broker leave on the account what it was
\* relied on for.
LEMMA MarketRelies ==
    ASSUME ExactInv, MarketMoves, NEW sell \in OpeningTypes, NEW o \in Submitted, Relies(o, sell)'
    PROVE  \E q \in Submitted : Relies(q, sell)
<1> USE Typing DEF ExactInv, OrdersAgree
<1>1. Type(o)' = Type(o) /\ Live(o)' = Live(o)
  BY SameOrders DEF MarketMoves
<1>2. atBroker[o] \in LiveAtBroker => Live(o) /\ atBroker[o] \in {"open", "partial"}
  BY AtBrokerIsLive DEF StatusInv, LiveAtBroker
<1>3. CASE Type(o) = sell
  <2>1. legs'[o] # {} => legs[o] # {} \/ atBroker[o] \in LiveAtBroker
    BY DEF MarketMoves
  <2>2. atBroker'[o] \in {"open", "partial", "cancelled"} =>
           atBroker[o] \in LiveAtBroker \/ atBroker'[o] = atBroker[o]
    BY DEF MarketMoves
  <2>3. sell # ClosingTypeOf(sell)
    BY TypesApart
  <2>4. Relies(o, sell)
    BY <1>1, <1>2, <1>3, <2>1, <2>2, <2>3 DEF Relies
  <2> QED
    BY <2>4
<1>4. CASE Type(o) # sell
  <2>1. Type(o) = ClosingTypeOf(sell) /\ Live(o) /\ atBroker'[o] = "filled"
    BY <1>1, <1>4 DEF Relies
  <2> DEFINE t == placed[o].target
  <2>2. CASE atBroker[o] = "filled"
    BY <2>1, <2>2 DEF Relies
  <2>3. CASE atBroker[o] # "filled"
    <3>1. legs[t] # {} /\ t \in Submitted /\ o \in ClosesOf(t)
      BY <2>1, <2>3, TypesApart DEF MarketMoves, ClosesInv, CloseIsTrue, ClosesOf
    <3>2. Type(t) \in OpeningTypes /\ ClosingTypeOf(Type(t)) = ClosingTypeOf(sell)
      BY <2>1, <3>1, ClosesClose, TypesApart DEF ClosesInv, CloseIsTrue
    <3>3. Type(t) = sell
      BY <3>2 DEF ClosingTypeOf, OpeningTypes
    <3> QED
      BY <3>1, <3>3 DEF Relies
  <2> QED
    BY <2>2, <2>3
<1> QED
  BY <1>3, <1>4

\* With the orders as they stand it is left to look at the row and the snapshot.
LEMMA StandingKeepsStock ==
    ASSUME ExactInv, NEW w \in Strategies, StockFits(w), OrdersStand,
           phase' \in {"orders", "processing", "diffing"} => snapshot'.shares = stock,
           ~Routes(w)' =>
               \/ row'[w].state = row[w].state /\ ~Routes(w)
               \/ row'[w].state \notin {"NONE", "IDLE", "SHARES_HELD"}
               \/ row'[w].state = "IDLE" /\ stock = 0
               \/ row'[w].state = "SHARES_HELD" /\ stock = 1
    PROVE  StockFits(w)'
<1>1. stock' = stock /\ Submitted' = Submitted
  BY DEF OrdersStand, Submitted
<1>2. \A o \in Submitted, sell \in OpeningTypes : Relies(o, sell)' => Relies(o, sell)
  BY DEF OrdersStand, Relies, Type
<1>3. \A o \in Submitted' : /\ Relies(o, "STO_PUT")' => stock' = 0
                            /\ Relies(o, "STO_CALL")' => stock' = 1
  BY <1>1, <1>2 DEF StockFits, OpeningTypes
<1>4. stock' \in {0, 1}
  BY <1>1 DEF StockFits
<1>5. phase' \in {"orders", "processing", "diffing"} => snapshot'.shares = stock'
  BY <1>1
<1>6. ~Routes(w)' => (row'[w].state \in {"NONE", "IDLE"} => stock' = 0)
  BY <1>1 DEF StockFits
<1>7. ~Routes(w)' => (row'[w].state = "SHARES_HELD" => stock' = 1)
  BY <1>1 DEF StockFits
<1> QED
  BY <1>3, <1>4, <1>5, <1>6, <1>7 DEF StockFits

\* A trade or a night asks no more of the account than before.
LEMMA MarketKeepsStock ==
    ASSUME ExactInv, NEW w \in Strategies, StockFits(w), MarketMoves, stock' = stock
    PROVE  StockFits(w)'
<1>1. /\ UNCHANGED <<placed, phase, snapshot, row, routing>> /\ Submitted' = Submitted
      /\ Routes(w)' = Routes(w)
  BY DEF MarketMoves, Submitted, Routes, Owner
<1>2. \A o \in Submitted' : /\ Relies(o, "STO_PUT")' => stock' = 0
                            /\ Relies(o, "STO_CALL")' => stock' = 1
  BY <1>1, MarketRelies DEF StockFits, OpeningTypes
<1> QED
  BY <1>1, <1>2 DEF StockFits

\* An assignment brings or takes the lot, and nothing relies on what was there.
LEMMA AssignKeepsStock ==
    ASSUME ExactInv, NEW w \in Strategies, Kind(w) = "wheel", StockFits(w),
           \A o \in Submitted : Owner(o) = w,
           NEW o \in OrderIds, NEW leg \in Legs, Assign(o, leg)
    PROVE  StockFits(w)'
<1> USE Typing DEF ExactInv, OrdersAgree
<1>1. /\ UNCHANGED <<placed, row, routing>> /\ phase' = "between" /\ routing = NotRouting
      /\ o \in Submitted /\ leg \in legs[o] /\ leg \in {"short_put", "short_call"}
      /\ stock' = IF leg = "short_put" THEN stock + 1 ELSE stock - 1
  BY Idle DEF Assign, Overnight, UnchangedByBroker, dbVars, readVars, routeVars
<1>2. Own(w) = Submitted /\ Submitted' = Submitted /\ o \in Own(w) /\ Carrying(w) # {}
  BY <1>1 DEF Own, Submitted, Carrying
<1>3. ~Routes(w) /\ row'[w].state \notin {"NONE", "IDLE", "SHARES_HELD"}
  BY <1>1, <1>2, WheelCarries DEF Routes, NotRouting
<1>4. Type(o) = IF leg = "short_put" THEN "STO_PUT" ELSE "STO_CALL"
  BY <1>1, <1>2, WheelTrades
<1>5. Relies(o, Type(o))
  BY <1>1 DEF Relies
<1>6. \A p \in Submitted : ~Relies(p, Type(o))'
  BY <1>2, NothingElseRelies
<1>7. Type(o)' = Type(o)
  BY <1>1 DEF Type
<1>8. CASE leg = "short_put"
  <2>1. stock = 0 /\ stock' = 1
    BY <1>1, <1>4, <1>5, <1>8 DEF StockFits
  <2> QED
    BY <1>1, <1>2, <1>3, <1>4, <1>6, <1>7, <1>8, <2>1 DEF StockFits
<1>9. CASE leg # "short_put"
  <2>1. stock = 1 /\ stock' = 0
    BY <1>1, <1>4, <1>5, <1>9 DEF StockFits
  <2> QED
    BY <1>1, <1>2, <1>3, <1>4, <1>6, <1>7, <1>9, <2>1 DEF StockFits
<1> QED
  BY <1>8, <1>9

\* An order is submitted when the row says that the account holds what it needs.
LEMMA SubmitKeepsStock ==
    ASSUME ExactInv, Undisturbed, NEW w \in Strategies, Kind(w) = "wheel", StockFits(w),
           NEW p, p.strategy = w, Submit(p), NEW new, new = Len(placed) + 1
    PROVE  StockFits(w)'
<1> USE Typing DEF ExactInv, OrdersAgree
<1>1. /\ UNCHANGED <<legs, row, phase, snapshot>> /\ Submitted' = Submitted \cup {new}
      /\ new \notin Submitted /\ p \in Wanted(w) /\ legs[new] = {} /\ atBroker'[new] = "open"
      /\ routing'.next = "persist" /\ routing'.order = new /\ routing = NotRouting
  BY Submission
<1>2. /\ \A o \in Submitted : /\ Type(o)' = Type(o) /\ Live(o)' = Live(o)
                              /\ atBroker'[o] = atBroker[o]
      /\ Type(new)' = p.type /\ Owner(new)' = w
  BY SubmissionKeepsOthers
<1>3. stock' = stock
  BY DEF Submit, Lands
<1>4. Routes(w)' /\ ~Routes(w)
  BY <1>1, <1>2 DEF Routes, NotRouting
<1>5. \/ p.type \in ClosingTypes
      \/ p.type = "STO_PUT" /\ row[w].state \in {"NONE", "IDLE"}
      \/ p.type = "STO_CALL" /\ row[w].state = "SHARES_HELD"
  <2>1. \A types : p \in CloseOf(w, types) => p.type \in ClosingTypes
    BY TypesApart DEF CloseOf, Proposal
  <2>2. p \in WheelOpens(w) \/ p.type \in ClosingTypes
    BY <1>1, <2>1 DEF Wanted, Opens, Closes, WheelCloses
  <2> QED
    BY <2>2 DEF WheelOpens, Proposal
<1>6. \A sell \in OpeningTypes : Relies(new, sell)' => p.type = sell
  BY <1>1, <1>2 DEF Relies
<1>7. /\ Relies(new, "STO_PUT")' => stock = 0
      /\ Relies(new, "STO_CALL")' => stock = 1
  BY <1>4, <1>5, <1>6, TypesApart DEF StockFits, OpeningTypes
<1>8. \A o \in Submitted, sell \in OpeningTypes : Relies(o, sell)' => Relies(o, sell)
  BY <1>1, <1>2 DEF Relies
<1>9. \A o \in Submitted' : /\ Relies(o, "STO_PUT")' => stock' = 0
                            /\ Relies(o, "STO_CALL")' => stock' = 1
  BY <1>1, <1>3, <1>7, <1>8 DEF StockFits, OpeningTypes
<1> QED
  BY <1>1, <1>3, <1>4, <1>9 DEF StockFits

\* A row is set idle, or back to shares held, by an order that says what the
\* account holds.
LEMMA DispatchKeepsStock ==
    ASSUME ExactInv, NEW w \in Strategies, Kind(w) = "wheel", StockFits(w), OrdersStand,
           NEW o \in OrderIds, DispatchOrderTransition(o), Owner(o) = w
    PROVE  StockFits(w)'
<1> USE Typing DEF ExactInv, OrdersAgree
<1>1. /\ UNCHANGED <<phase, snapshot, routing>> /\ o \in Submitted /\ o \in Own(w) /\ Live(o)
      /\ ~Routes(w) /\ phase = "processing"
      /\ local[o].status = answer[o] /\ answer[o] \in {"FILLED", "CANCELLED"}
      /\ answer[o] = "FILLED" => atBroker[o] = "filled"
      /\ answer[o] = "CANCELLED" => atBroker[o] \in Dead
  BY Dispatching DEF Own
<1>2. Type(o) \in {"STO_PUT", "STO_CALL", "BTC_PUT", "BTC_CALL"}
  BY <1>1, WheelTrades
<1>3. /\ Type(o) = "BTC_PUT" /\ answer[o] = "FILLED" => stock = 0
      /\ Type(o) = "BTC_CALL" /\ answer[o] = "FILLED" => stock = 1
      /\ Type(o) = "STO_PUT" /\ atBroker[o] = "cancelled" => stock = 0
      /\ Type(o) = "STO_CALL" /\ atBroker[o] = "cancelled" => stock = 1
  BY <1>1 DEF StockFits, Relies, ClosingTypeOf
<1>4. \/ row'[w].state = row[w].state
      \/ row'[w].state \notin {"NONE", "IDLE", "SHARES_HELD"}
      \/ row'[w].state = "IDLE" /\ stock = 0
      \/ row'[w].state = "SHARES_HELD" /\ stock = 1
  <2>1. CASE answer[o] = "FILLED"
    <3>1. HasRow(w) /\ OnWheelOrSpreadFill(w, o)
      BY <2>1, FillExpected DEF DispatchOrderTransition, OnFill
    <3>2. InsertTarget(w) = w /\ ~InsertRaises(w)
      BY <3>1 DEF InsertTarget, InsertRaises
    <3>3. \/ Type(o) = "STO_PUT" /\ row' = WithState(w, "CSP_OPEN", o)
          \/ Type(o) = "STO_CALL" /\ row' = WithState(w, "CC_OPEN", row[w].cycle)
          \/ Type(o) = "BTC_PUT" /\ row' = WithState(w, "IDLE", None)
          \/ Type(o) = "BTC_CALL" /\ row' = WithState(w, "SHARES_HELD", None)
      BY <1>2, <3>1, <3>2 DEF OnWheelOrSpreadFill, SellPut, SellCall, BuyBack
    <3>4. \A state, c : WithState(w, state, c)[w].state = state
      BY DEF WithState, RowType
    <3> QED
      BY <1>3, <2>1, <3>3, <3>4
  <2>2. CASE answer[o] = "CANCELLED"
    <3>1. \/ row' = Flagged({w})
          \/ atBroker[o] = "cancelled" /\ row' = [row EXCEPT ![w].state = RestoredState(w, o)]
      BY <1>1, <2>2 DEF DispatchOrderTransition, OnCancel, ObservedPartialFill, Dead
    <3>2. Flagged({w})[w].state = "MANUAL_INTERVENTION"
      BY DEF Flagged, RowType
    <3>3. \A state : [row EXCEPT ![w].state = state][w].state = state
      BY DEF RowType
    <3>4. \/ RestoredState(w, o) = row[w].state
          \/ Type(o) = "STO_PUT" /\ RestoredState(w, o) = "IDLE"
          \/ Type(o) = "STO_CALL" /\ RestoredState(w, o) = "SHARES_HELD"
      BY <1>2 DEF RestoredState
    <3>5. row'[w].state = "MANUAL_INTERVENTION"
          \/ (atBroker[o] = "cancelled" /\ row'[w].state = RestoredState(w, o))
      BY <3>1, <3>2, <3>3
    <3> QED
      BY <1>3, <3>4, <3>5
  <2> QED
    BY <1>1, <2>1, <2>2
<1> QED
  BY <1>1, <1>4, StandingKeepsStock DEF StockFits

\* So it is by what the snapshot shows, which is what the account still holds.
LEMMA DiffKeepsStock ==
    ASSUME ExactInv, NEW w \in Strategies, Kind(w) = "wheel", StockFits(w), OrdersStand,
           NEW s \in Strategies, DiffOne(s)
    PROVE  StockFits(w)'
<1> USE Typing DEF ExactInv
<1>1. UNCHANGED <<phase, snapshot>> /\ phase = "diffing" /\ ~Routes(w)
  BY Diffing
<1>2. stock = snapshot.shares /\ stock \in {0, 1}
  BY <1>1 DEF StockFits
<1>3. row[w].state \in {"NONE", "IDLE", "CSP_PENDING", "CSP_OPEN", "SHARES_HELD",
                        "CC_PENDING", "CC_OPEN", "MANUAL_INTERVENTION"}
  BY <1>1, WheelTrades
<1>4. /\ \A state, c : WithState(w, state, c)[w].state = state
      /\ Flagged({w})[w].state = "MANUAL_INTERVENTION"
      /\ Flattened(w)[w].state = "IDLE"
      /\ [row EXCEPT ![w].state = "SHARES_HELD", ![w].shares = 1][w].state = "SHARES_HELD"
  BY DEF WithState, Flagged, Flattened, RowType
<1>5. CASE s = w
  <2> DEFINE Result == \/ row'[w].state = row[w].state
                       \/ row'[w].state \notin {"NONE", "IDLE", "SHARES_HELD"}
                       \/ row'[w].state = "IDLE" /\ stock = 0
                       \/ row'[w].state = "SHARES_HELD" /\ stock = 1
  <2>1. ASSUME DiffCspOpen(w) PROVE Result
    BY <1>2, <1>4, <2>1 DEF DiffCspOpen, Stay, Flag, OnAssignment, OnCspExpiration, HasShares
  <2>2. ASSUME DiffCcOpen(w) PROVE Result
    BY <1>2, <1>4, <2>2 DEF DiffCcOpen, Stay, Flag, Heal, OnCalledAway, HasShares
  <2>3. ASSUME DiffWheelPending(w) PROVE Result
    BY <1>2, <1>4, <2>3 DEF DiffWheelPending, Stay, Heal, HasShares, BrokerPresent, NoSnapshot
  <2>4. ASSUME DiffNoTransition(w) PROVE Result
    BY <2>4 DEF DiffNoTransition, Stay
  <2>5. ~DiffSpreadOpen(w) /\ ~DiffSpreadPending(w) /\ ~DiffPmccOpen(w) /\ ~DiffPmccPending(w)
    BY <1>3 DEF DiffSpreadOpen, DiffSpreadPending, DiffPmccOpen, DiffPmccPending
  <2>6. Result
    BY <1>5, <2>1, <2>2, <2>3, <2>4, <2>5 DEF DiffOne
  <2> QED
    BY <1>1, <1>2, <2>6, StandingKeepsStock
<1>6. CASE s # w
  <2>1. row'[w] = row[w]
    BY <1>6 DEF DiffOne, DiffCspOpen, DiffCcOpen, DiffWheelPending, DiffSpreadOpen,
                DiffSpreadPending, DiffPmccOpen, DiffPmccPending, DiffNoTransition, Stay, Flag,
                Heal, OnCspExpiration, OnAssignment, OnCalledAway, OpenLong, WithState, Flattened,
                Flagged
  <2> QED
    BY <1>1, <1>2, <2>1, StandingKeepsStock
<1> QED
  BY <1>5, <1>6

\* The two writes that complete a submission leave the row pending or open.
LEMMA SubmissionKeepsStock ==
    ASSUME ExactInv, NEW w \in Strategies, Kind(w) = "wheel", StockFits(w), OrdersStand,
           \A o \in Submitted : Owner(o) = w, PersistOrder \/ UpsertPositionPending
    PROVE  StockFits(w)'
<1> USE Typing DEF ExactInv, OrdersAgree
<1> DEFINE o == routing.order
<1>1. UNCHANGED <<placed, phase, snapshot>> /\ routing # NotRouting /\ routing.next # "none"
  BY DEF PersistOrder, UpsertPositionPending, NotRouting, brokerVars, readVars
<1>2. o \in Submitted /\ Owner(o) = w /\ o \in Own(w) /\ phase \in {"rolling", "proposing"}
  BY <1>1, InSubmission DEF Own
<1>3. Type(o) \in {"STO_PUT", "STO_CALL", "BTC_PUT", "BTC_CALL"}
  BY <1>2, WheelTrades
<1>4. CASE PersistOrder
  <2>1. MovesRow(placed[o])
    BY <1>2, <1>3 DEF MovesRow, Type, Owner
  <2>2. routing'.next = "upsert" /\ routing'.order = o
    BY <1>4, <2>1 DEF PersistOrder, Inv, TypeInv, TypeOK, RouteTypeOK
  <2>3. Owner(o)' = w
    BY <1>1, <1>2, <2>2 DEF Owner
  <2>4. Routes(w)'
    BY <2>2, <2>3 DEF Routes
  <2> QED
    BY <1>1, <1>2, <2>4, StandingKeepsStock
<1>5. CASE UpsertPositionPending
  <2>1. row'[w].state = PendingStateFor("wheel", Type(o), row[w].state)
    BY <1>2, <1>5 DEF UpsertPositionPending, Owner, Type, RowType
  <2>2. row'[w].state \notin {"NONE", "IDLE", "SHARES_HELD"}
    BY <1>3, <2>1 DEF PendingStateFor
  <2> QED
    BY <1>1, <1>2, <2>2, StandingKeepsStock
<1> QED
  BY <1>4, <1>5

\* Every step of a wheel that trades alone leaves the account as it takes it.
LEMMA StockStays ==
    ASSUME ExactInv, Undisturbed, OnlyTraders, NEW w, Trading = {w}, Kind(w) = "wheel",
           StockFits(w), [BotNext]_botVars
    PROVE  StockFits(w)'
<1> USE Typing DEF ExactInv, OrdersAgree
<1>1. w \in Strategies /\ \A o \in Submitted : Owner(o) = w
  BY RouterAssumption DEF OnlyTraders
<1>2. CASE BrokerStep
  <2>1. ASSUME NEW o \in OrderIds, Fill(o) \/ PartialFill(o) \/ EndOrder(o) \/ Expire(o)
        PROVE  StockFits(w)'
    <3>1. stock' = stock
      BY <2>1 DEF Fill, PartialFill, EndOrder, Expire
    <3> QED
      BY <1>1, <2>1, <3>1, BrokerMovesMarket, MarketKeepsStock
  <2> QED
    BY <1>1, <1>2, <2>1, AssignKeepsStock DEF BrokerStep
<1>3. CASE NewDay
  <2>1. stock' = stock
    BY <1>3 DEF NewDay
  <2> QED
    BY <1>1, <1>3, <2>1, NightMovesMarket, MarketKeepsStock
<1>4. ASSUME NEW p, Submit(p)
      PROVE  StockFits(w)'
  <2>1. p.strategy = w
    BY <1>4 DEF Submit, AtHead, OnlyTraders
  <2> QED
    BY <1>1, <1>4, <2>1, SubmitKeepsStock
<1>5. ASSUME OrdersStand
      PROVE  StockFits(w)'
  <2>1. ASSUME phase' \in {"orders", "processing", "diffing"} =>
                 \/ snapshot'.shares = stock
                 \/ snapshot' = snapshot /\ phase \in {"orders", "processing", "diffing"},
               routing' = routing \/ (routing = NotRouting /\ routing' = NotRouting),
               row' = row \/ \E flags : row' = Flagged(flags)
        PROVE  StockFits(w)'
    <3>1. Routes(w)' = Routes(w)
      BY <1>5, <2>1 DEF Routes, OrdersStand, Owner
    <3>2. row'[w].state \in {row[w].state, "MANUAL_INTERVENTION"}
      BY <1>1, <2>1 DEF Flagged, RowType
    <3>3. phase' \in {"orders", "processing", "diffing"} => snapshot'.shares = stock
      BY <2>1 DEF StockFits
    <3> QED
      BY <1>1, <1>5, <3>1, <3>2, <3>3, StandingKeepsStock
  <2>2. CASE FetchPositions
    <3>1. snapshot'.shares = stock
      BY <2>2 DEF FetchPositions, PositionsNow
    <3> QED
      BY <2>1, <2>2, <3>1 DEF FetchPositions, dbVars, routeVars
  <2>3. CASE FetchOrders \/ (\E o \in OrderIds : PersistStatus(o)) \/ OrdersProcessed \/ RowsDiffed
             \/ AuditCycleParity
    BY <2>1, <2>3 DEF FetchOrders, PersistStatus, OrdersProcessed, RowsDiffed, AuditCycleParity,
                      UnchangedByReconciler, dbVars, routeVars
  <2>4. ASSUME NEW o \in OrderIds, DispatchOrderTransition(o)
        PROVE  StockFits(w)'
    <3>1. Owner(o) = w
      BY <1>1, <2>4, Dispatching
    <3> QED
      BY <1>1, <1>5, <2>4, <3>1, DispatchKeepsStock
  <2>5. ASSUME NEW s \in Strategies, DiffOne(s)
        PROVE  StockFits(w)'
    BY <1>1, <1>5, <2>5, DiffKeepsStock
  <2>6. CASE ReconcilerStep
    BY <2>2, <2>3, <2>4, <2>5, <2>6, ExcludedSteps DEF ReconcilerStep
  <2>7. ASSUME NEW s \in Strategies, Propose(s) \/ ScanRoll(s)
        PROVE  StockFits(w)'
    BY <2>1, <2>7 DEF Propose, ScanRoll, dbVars, readVars
  <2>8. ASSUME NEW p, Drop(p) \/ SubmitFails(p)
        PROVE  StockFits(w)'
    BY <2>1, <2>8 DEF Drop, SubmitFails, dbVars, readVars
  <2>9. CASE SweepStaleOpens \/ EndTick \/ EndRollScan
    BY <2>1, <2>9 DEF SweepStaleOpens, EndTick, EndRollScan, dbVars, readVars, routeVars
  <2>10. CASE RouterStep
    BY <1>1, <1>4, <1>5, <2>7, <2>8, <2>9, <2>10, SubmissionKeepsStock, ExcludedSteps DEF RouterStep
  <2>11. CASE Crash
    <3>1. routing = NotRouting
      BY <2>11 DEF Crash, Place, Undisturbed
    <3> QED
      BY <2>1, <2>11, <3>1 DEF Crash, dbVars
  <2>12. CASE UNCHANGED botVars
    BY <2>1, <2>12 DEF botVars, vars
  <2> QED
    BY <1>2, <1>3, <2>6, <2>10, <2>11, <2>12 DEF BotNext, TickStep
<1> QED
  BY <1>2, <1>3, <1>4, <1>5, OtherStepsStand

-----------------------------------------------------------------------------
(* Calls are covered. *)

\* If long calls are not held to their expiration, every step keeps calls covered.
LEMMA StepCover ==
    ASSUME Undisturbed, ~LongsExpire, WheelTradesAlone, CoverInv, [BotNext]_botVars
    PROVE  CoverInv'
<1>1. ExactInv' /\ OnlyTraders'
  BY StepExact, TradersTrade DEF CoverInv
<1>2. LongsHeld'
  BY LongsStay DEF CoverInv
<1>3. ASSUME NEW w \in Trading, Kind(w) = "wheel"
      PROVE  StockFits(w)'
  BY <1>3, StockStays DEF CoverInv, WheelTradesAlone
<1> QED
  BY <1>1, <1>2, <1>3 DEF CoverInv, Kind

\* Before the first order nothing is owned, owed or planned.
LEMMA InitCover == BotInit => CoverInv
<1> SUFFICES ASSUME BotInit
             PROVE  CoverInv
  OBVIOUS
<1> USE DEF BotInit, Init
<1>1. ExactInv
  BY InitExact
<1>2. Submitted = {}
  BY DEF Submitted
<1>3. OnlyTraders /\ LongsHeld
  BY <1>2 DEF OnlyTraders, LongsHeld
<1>4. ASSUME NEW w \in Trading
      PROVE  StockFits(w)
  <2>1. row[w].state = "NONE"
    BY RouterAssumption
  <2> QED
    BY <1>2, <2>1 DEF StockFits
<1> QED
  BY <1>1, <1>3, <1>4 DEF CoverInv

\* The calls a strategy has sold or tries to sell.
OpenCalls(s) == {o \in CallsOf(s) : o \in Working(s) \cup Carrying(s)}

\* There is one at most, and under a diagonal's the cycle of its long call is
\* open and no close of it has traded.
LEMMA OneCall ==
    ASSUME ExactInv, NEW s \in Strategies, NEW o \in OpenCalls(s)
    PROVE  /\ \A p \in OpenCalls(s) : p = o
           /\ Kind(s) = "pmcc" => /\ OpenOf(s) = {row[s].cycle}
                                  /\ \A q \in Working(s) : q \notin ClosesOf(row[s].cycle)
<1> USE Typing DEF ExactInv, OrdersAgree
<1> DEFINE c == row[s].cycle
<1>1. \A p \in OpenCalls(s) : /\ p \in CallsOf(s) /\ p \in Working(s) \cup Carrying(s) /\ p \in Own(s)
                              /\ Type(p) = "STO_CALL" /\ \A t : p \notin ClosesOf(t)
  BY TypesApart, ClosesClose DEF OpenCalls, CallsOf
<1>2. \A x \in OpenOf(s) : Type(x) \in EntryTypes /\ Type(x) # "STO_CALL"
  BY TypesApart DEF TagsInv, OpenOf, Own
<1>3. Under(s) \subseteq {c}
  BY DEF Under
<1>4. CASE Flat(s) \/ Entering(s) \/ Phantom(s)
  BY <1>1, <1>4, TypesApart DEF Flat, Entering, Phantom
<1>5. CASE Holding(s) \/ Resting(s)
  BY <1>1, <1>2, <1>3, <1>5 DEF Holding, Resting
<1>6. CASE Selling(s)
  <2>1. PICK k \in Own(s) : LatestCall(s, k) /\ Working(s) \subseteq {k}
    BY <1>6 DEF Selling
  <2>2. OpenOf(s) = {c} /\ Carrying(s) \subseteq Under(s) \cup Working(s)
    BY <1>6 DEF Selling
  <2>3. Type(k) = "STO_CALL"
    BY <2>1 DEF LatestCall, CallsOf
  <2>4. \A q \in Working(s) : q \notin ClosesOf(c)
    BY <2>1, <2>3, TypesApart, ClosesClose
  <2> QED
    BY <1>1, <1>2, <1>3, <2>1, <2>2, <2>4
<1>7. CASE Called(s)
  <2>1. PICK k \in Own(s) : /\ LatestCall(s, k) /\ Working(s) \subseteq ClosesOf(k)
                            /\ Carrying(s) \subseteq Under(s) \cup {k}
    BY <1>7 DEF Called
  <2>2. OpenOf(s) = {c}
    BY <1>7 DEF Called
  <2>3. Type(k) = "STO_CALL"
    BY <2>1 DEF LatestCall, CallsOf
  <2>4. \A q \in Working(s) : q \notin ClosesOf(c)
    BY <1>2, <2>1, <2>2, <2>3, ClosesClose
  <2> QED
    BY <1>1, <1>2, <1>3, <2>1, <2>2, <2>4
<1>8. CASE Stuck(s)
  BY <1>1, <1>8 DEF Stuck
<1> QED
  BY <1>4, <1>5, <1>6, <1>7, <1>8, StageExists

\* The calls the safety property counts are these.
LEMMA SoldIsOpen ==
    ASSUME ExactInv
    PROVE  \A S \in SUBSET Strategies : \A o \in CallsSold(S) :
              /\ o \in Submitted /\ Owner(o) \in S /\ o \in OpenCalls(Owner(o))
              /\ atBroker[o] = "open" \/ legs[o] # {}
<1> USE Typing DEF ExactInv, OrdersAgree
<1> SUFFICES ASSUME NEW S \in SUBSET Strategies, NEW o \in CallsSold(S)
             PROVE  /\ o \in Submitted /\ Owner(o) \in S /\ o \in OpenCalls(Owner(o))
                    /\ atBroker[o] = "open" \/ legs[o] # {}
  OBVIOUS
<1>1. /\ o \in Submitted /\ Owner(o) \in S /\ Type(o) = "STO_CALL"
      /\ atBroker[o] = "open" \/ legs[o] # {}
  BY DEF CallsSold, StatusInv
<1>2. atBroker[o] = "open" => o \in Working(Owner(o))
  BY <1>1, AtBrokerIsLive, TypesApart DEF LiveAtBroker, Working, Own, Effective
<1>3. legs[o] # {} => o \in Carrying(Owner(o))
  BY <1>1 DEF Carrying, Own
<1> QED
  BY <1>1, <1>2, <1>3 DEF OpenCalls, CallsOf, Own

\* Under a diagonal's call its long call is in the account.
LEMMA LongUnderCall ==
    ASSUME CoverInv, NEW s \in Strategies, Kind(s) = "pmcc", OpenCalls(s) # {}
    PROVE  \E c \in Submitted : c \in LongCalls({s})
<1> USE Typing DEF CoverInv, ExactInv, OrdersAgree
<1> DEFINE c == row[s].cycle
<1>1. OpenOf(s) = {c} /\ \A q \in Working(s) : q \notin ClosesOf(c)
  BY OneCall
<1>2. c \in Own(s) /\ c \in Submitted /\ Owner(c) = s /\ cycle[c].status = "open"
  BY <1>1 DEF OpenOf, Own
<1>3. Type(c) = "BTO" /\ Booked(c)
  <2>1. Type(c) \in EntryTypes /\ Booked(c)
    BY <1>2 DEF TagsInv
  <2> QED
    BY <1>2, <2>1 DEF KindsInv, EntryTypeOf, SpreadKinds
<1>4. atBroker[c] = "filled"
  BY <1>2, <1>3 DEF StatusInv, Inv, Ledger, OrdersInv
<1>5. ASSUME NEW q \in ClosesOf(c), atBroker[q] = "filled"
      PROVE  FALSE
  <2>1. q \in Submitted /\ Owner(q) = s /\ Type(q) \in ClosingTypes /\ placed[q].target = c
    BY <1>2, <1>5, ClosesClose
  <2>2. CloseIsTrue(q, c)
    BY <2>1 DEF ClosesInv
  <2>3. ~Booked(q)
    BY <1>2, <1>3, <2>2 DEF CloseIsTrue, EntryTypes
  <2>4. local[q].status # "FILLED" \/ dispatching = q
    BY <2>1, <2>3 DEF StatusInv
  <2>5. local[q].status # "CANCELLED"
    BY <1>5, <2>1 DEF StatusInv, Dead
  <2>6. local[q].status = "none" => routing.order = q
    BY <2>1 DEF StatusInv
  <2>7. local[q].status \in LocalStatuses
    BY <2>1 DEF LocalType
  <2>8. Live(q)
    BY <2>4, <2>5, <2>6, <2>7 DEF Live, LocalStatuses
  <2>9. q \in Working(s)
    BY <1>5, <2>1, <2>8 DEF Working, Effective, Own
  <2> QED
    BY <1>1, <1>5, <2>9
<1>6. legs[c] # {}
  BY <1>2, <1>3, <1>4, <1>5 DEF LongsHeld
<1>7. c \in LongCalls({s})
  BY <1>2, <1>3, <1>6 DEF LongCalls
<1> QED
  BY <1>2, <1>7

\* A set of calls with at most one element has cardinality at most one.
LEMMA OneAtMost ==
    ASSUME NEW S, \A o, p \in S : o = p
    PROVE  S = {} \/ Cardinality(S) = 1
<1> SUFFICES ASSUME S # {}
             PROVE  Cardinality(S) = 1
  OBVIOUS
<1>1. PICK o \in S : S = {o}
  OBVIOUS
<1> QED
  BY <1>1, FS_Singleton

\* A diagonal's calls are covered by its long call.
LEMMA DiagonalsCovered ==
    ASSUME CoverInv, NEW s \in Strategies, Kind(s) = "pmcc"
    PROVE  Cardinality(CallsSold({s})) <= Cardinality(LongCalls({s}))
<1> USE Typing DEF CoverInv, ExactInv
<1> DEFINE sold == CallsSold({s})
           long == LongCalls({s})
<1> SUFFICES Cardinality(sold) <= Cardinality(long)
  OBVIOUS
<1>1. \A o \in sold : o \in OpenCalls(s)
  <2>1. {s} \in SUBSET Strategies
    OBVIOUS
  <2>2. \A o \in sold : Owner(o) \in {s} /\ o \in OpenCalls(Owner(o))
    BY <2>1, SoldIsOpen
  <2> QED
    BY <2>2
<1>2. sold = {} \/ Cardinality(sold) = 1
  BY <1>1, OneCall, OneAtMost
<1>3. IsFiniteSet(long) /\ Cardinality(long) \in Nat
  <2>1. IsFiniteSet(Submitted)
    BY FS_Interval DEF Submitted
  <2>2. long \subseteq Submitted
    BY DEF LongCalls
  <2> QED
    BY <2>1, <2>2, FS_Subset, FS_CardinalityType
<1>4. CASE sold = {}
  <2>1. Cardinality(sold) = 0
    BY <1>4, FS_EmptySet
  <2> HIDE DEF sold, long
  <2> QED
    BY <1>3, <2>1
<1>5. CASE sold # {}
  <2>1. PICK c \in Submitted : c \in long
    BY <1>1, <1>5, LongUnderCall
  <2>2. long # {}
    BY <2>1
  <2> HIDE DEF sold, long
  <2>3. Cardinality(long) # 0
    BY <1>3, <2>2, FS_EmptySet
  <2>4. Cardinality(sold) = 1
    BY <1>2, <1>5
  <2> QED
    BY <1>3, <2>3, <2>4
<1> QED
  BY <1>4, <1>5

\* A wheel's call is covered by the stock in the account.
LEMMA WheelsCovered ==
    ASSUME CoverInv, WheelTradesAlone,
           CallsSold({s \in Strategies : Kind(s) = "wheel"}) # {}
    PROVE  Cardinality(CallsSold({s \in Strategies : Kind(s) = "wheel"})) <= stock
<1> USE Typing DEF CoverInv, ExactInv
<1> DEFINE wheels == {s \in Strategies : Kind(s) = "wheel"}
           sold   == CallsSold(wheels)
<1> SUFFICES Cardinality(sold) <= stock
  OBVIOUS
<1>1. \A o \in sold : /\ o \in Submitted /\ Owner(o) \in wheels /\ o \in OpenCalls(Owner(o))
                      /\ Owner(o) \in Trading /\ Type(o) = "STO_CALL"
                      /\ atBroker[o] = "open" \/ legs[o] # {}
  <2>1. wheels \in SUBSET Strategies
    OBVIOUS
  <2>2. \A o \in sold : /\ o \in Submitted /\ Owner(o) \in wheels /\ o \in OpenCalls(Owner(o))
                        /\ atBroker[o] = "open" \/ legs[o] # {}
    BY <2>1, SoldIsOpen
  <2> QED
    BY <2>2 DEF OnlyTraders, OpenCalls, CallsOf
<1>2. PICK o \in sold : TRUE
  OBVIOUS
<1> DEFINE w == Owner(o)
<1>3. w \in Trading /\ w \in Strategies /\ Kind(w) = "wheel" /\ Trading = {w}
  BY <1>1, <1>2 DEF WheelTradesAlone
<1>4. \A p \in sold : p \in OpenCalls(w)
  BY <1>1, <1>3
<1>5. Cardinality(sold) = 1
  BY <1>2, <1>3, <1>4, OneCall, OneAtMost
<1>6. Relies(o, "STO_CALL")
  <2>1. atBroker[o] = "open" => Live(o)
    BY <1>1, <1>2, AtBrokerIsLive DEF LiveAtBroker
  <2> QED
    BY <1>1, <1>2, <2>1 DEF Relies
<1>7. stock = 1
  BY <1>1, <1>2, <1>3, <1>6 DEF StockFits
<1> QED
  <2> HIDE DEF sold
  <2> QED
    BY <1>5, <1>7

\* Every call the bot has sold or tries to sell is covered, a wheel's by the
\* account's stock and a diagonal's by its long call, if the wheel has the symbol
\* to itself and long calls are not held until they expire.
THEOREM CallsAreCovered ==
    ASSUME Undisturbed, ~LongsExpire, WheelTradesAlone
    PROVE  Spec => []CallsCovered
<1>1. BotInit => CoverInv
  BY InitCover
<1>2. CoverInv /\ [BotNext]_botVars => CoverInv'
  BY StepCover
<1>3. CoverInv => CallsCovered
  BY WheelsCovered, DiagonalsCovered DEF CallsCovered
<1> QED
  BY <1>1, <1>2, <1>3, PTL DEF Spec
-----------------------------------------------------------------------------
(* The positions live as module PositionLife says. *)

\* An order whose end is still to be heard of is booked to no cycle.
LEMMA LiveUnbooked ==
    ASSUME ExactInv, NEW o \in Submitted, Live(o)
    PROVE  ~Booked(o) /\ cycle[o].status = "none"
<1> USE Typing DEF ExactInv, OrdersAgree
<1>1. ~Booked(o)
  <2>1. CASE local[o].status \in LiveStatuses \/ dispatching = o
    BY <2>1 DEF StatusInv, LiveStatuses
  <2>2. CASE routing.order = o
    BY <2>2, InSubmission DEF NotRouting
  <2> QED
    BY <2>1, <2>2 DEF Live
<1> QED
  BY <1>1 DEF TagsInv

\* An order stays in its stage if its cycle and the orders that concern it do.
LEMMA StageStands ==
    ASSUME UNCHANGED placed, NEW x \in OrderIds,
           x \in Submitted => cycle'[x].status = cycle[x].status /\ (Live(x)' <=> Live(x)),
           \A q \in Submitted : Type(q) \in ClosingTypes /\ placed[q].target = x =>
                                (Live(q)' <=> Live(q))
    PROVE  StageOf(x)' = StageOf(x)
<1>1. Submitted' = Submitted /\ \A q : Type(q)' = Type(q)
  BY DEF Submitted, Type
<1>2. BeingClosed(x)' <=> BeingClosed(x)
  BY <1>1 DEF BeingClosed
<1> QED
  BY <1>1, <1>2 DEF StageOf

\* Without a submission the entries are what they were.
LEMMA EntriesStand ==
    ASSUME UNCHANGED placed
    PROVE  EntryOrders' = EntryOrders
  BY DEF EntryOrders, EntriesOf, Submitted, Owner, Type

\* If the cycles stay, and the same orders are live, every stage stands.
LEMMA StagesStand ==
    ASSUME ExactInv, UNCHANGED <<placed, cycle>>, \A q \in Submitted : Live(q)' <=> Live(q)
    PROVE  StageOfOrders' = StageOfOrders
<1>1. \A x \in OrderIds : StageOf(x)' = StageOf(x)
  BY StageStands
<1> QED
  BY <1>1 DEF StageOfOrders

\* The operator keeps what no fill takes away.
LEMMA OperatorKeeps ==
    ASSUME RowsRespected, dispatching = None \/ answer[dispatching] # "FILLED"
    PROVE  WithOperator \subseteq WithOperator'
  BY DEF RowsRespected, WithOperator, OperatorOwned

\* One order moves on.
LEMMA OneMoves ==
    ASSUME NEW o \in OrderIds, NEW from, NEW to, StageOf(o) \in from, StageOf(o)' = to,
           \A x \in OrderIds \ {o} : StageOf(x)' = StageOf(x)
    PROVE  Life!Moves(o, from, to)
  BY DEF Life!Moves, StageOfOrders

\* Rows may be flagged without any position moving.
LEMMA NoneMoves ==
    ASSUME UNCHANGED <<EntryOrders, StageOfOrders, InAccount>>,
           WithOperator \subseteq WithOperator'
    PROVE  Life!LifeNext
<1>1. WithOperator' \subseteq Strategies
  BY DEF WithOperator
<1>2. Life!HandOver
  BY <1>1 DEF Life!HandOver
<1> QED
  BY <1>2 DEF Life!LifeNext

\* The contracts of one order move, and come only while it is live.
TradesOnly(t) ==
    /\ \A x \in OrderIds \ {t} : legs'[x] = legs[x]
    /\ legs'[t] \subseteq legs[t] \/ (t \in Submitted /\ Live(t))

\* The market and the night: contracts come of an entry order or go, one
\* position at a time.
LEMMA MarketLives ==
    ASSUME ExactInv, Undisturbed, BrokerStep \/ NewDay
    PROVE  Life!LifeNext
<1> USE Typing DEF ExactInv, OrdersAgree
<1>1. /\ UNCHANGED <<placed, row, local, cycle, dispatching, routing>>
      /\ Submitted' = Submitted /\ \A q : Type(q)' = Type(q)
  <2>1. UNCHANGED <<placed, row, local, cycle, dispatching, routing>>
    BY DEF BrokerStep, NewDay, Fill, PartialFill, EndOrder, Expire, Assign, UnchangedByBroker,
           dbVars, readVars, routeVars
  <2> QED
    BY <2>1 DEF Submitted, Type
<1>2. UNCHANGED <<EntryOrders, StageOfOrders, WithOperator>>
  <2>1. \A q \in Submitted : Live(q)' <=> Live(q)
    BY <1>1 DEF Live
  <2> QED
    BY <1>1, <2>1, EntriesStand, StagesStand DEF WithOperator, OperatorOwned
<1>3. \E t \in OrderIds : TradesOnly(t)
  <2>1. CASE NewDay
    <3>1. 1 \in OrderIds
      BY MaxOrdersAssumption DEF OrderIds
    <3> QED
      BY <2>1, <3>1 DEF NewDay, TradesOnly
  <2>2. ASSUME NEW o \in OrderIds, Fill(o) \/ PartialFill(o)
        PROVE  \E t \in OrderIds : TradesOnly(t)
    <3>1. o \in Submitted /\ Live(o)
      BY <2>2, AtBrokerIsLive DEF Fill, PartialFill, LiveAtBroker
    <3>2. legs' = legs \/ legs' = LegsAfter(o, placed[o])
      BY <2>2 DEF Fill, PartialFill
    <3>3. CASE legs' = legs
      BY <3>3 DEF TradesOnly
    <3>4. CASE legs' = LegsAfter(o, placed[o]) /\ Type(o) \in OpeningTypes
      BY <3>1, <3>4 DEF LegsAfter, Type, TradesOnly
    <3>5. CASE legs' = LegsAfter(o, placed[o]) /\ Type(o) \notin OpeningTypes
      <4>1. placed[o].target \in OrderIds
        BY <3>1, <3>5 DEF ClosesInv, CloseIsTrue, OrderTypes
      <4> QED
        BY <3>5, <4>1 DEF LegsAfter, Type, TradesOnly
    <3> QED
      BY <3>2, <3>3, <3>4, <3>5
  <2>3. ASSUME NEW o \in OrderIds,
               EndOrder(o) \/ Expire(o) \/ \E leg \in Legs : Assign(o, leg)
        PROVE  \E t \in OrderIds : TradesOnly(t)
    BY <2>3 DEF EndOrder, Expire, Assign, TradesOnly
  <2> QED
    BY <2>1, <2>2, <2>3 DEF BrokerStep
<1>4. PICK t \in OrderIds : TradesOnly(t)
  BY <1>3
<1>5. InAccount' \in {InAccount, InAccount \ {t}, InAccount \cup {t}}
  BY <1>1, <1>4 DEF InAccount, TradesOnly
<1>6. CASE InAccount' = InAccount
  BY <1>2, <1>6, NoneMoves
<1>7. CASE InAccount' = InAccount \ {t}
  BY <1>2, <1>7 DEF Life!LifeNext, Life!Vanish
<1>8. ASSUME InAccount' = InAccount \cup {t}, t \notin InAccount
      PROVE  Life!LifeNext
  <2>1. t \in Submitted /\ Type(t) \in EntryTypes /\ Live(t)
    BY <1>1, <1>4, <1>8 DEF InAccount, TradesOnly
  <2>2. StageOfOrders[t] = "entering"
    BY <2>1, LiveUnbooked DEF StageOfOrders, StageOf
  <2> QED
    BY <1>2, <1>8, <2>2 DEF Life!LifeNext, Life!Trade
<1>9. t \in InAccount => InAccount \cup {t} = InAccount
  OBVIOUS
<1> QED
  BY <1>5, <1>6, <1>7, <1>8, <1>9

\* A submission: an entry goes out when no position is in progress, a close of a
\* position when no other is, and calls and their closes move no position.
LEMMA SubmitLives ==
    ASSUME ExactInv, OperatorInv, Undisturbed, NEW p, Submit(p), NEW new, new = Len(placed) + 1,
           NEW s, s = p.strategy
    PROVE  Life!LifeNext
<1> USE Typing DEF ExactInv, OrdersAgree
<1>1. /\ UNCHANGED <<legs, row, cycle, local>> /\ dispatching = None /\ ~Routes(s)
      /\ new \in OrderIds /\ new \notin Submitted /\ Submitted' = Submitted \cup {new}
      /\ cycle[new].status = "none" /\ legs[new] = {}
      /\ s \in Strategies /\ p \in Wanted(s)
      /\ placed'[new] = p /\ \A o \in Submitted : placed'[o] = placed[o]
      /\ plan = <<p>>
  BY Submission DEF Routes, NotRouting
<1>2. /\ \A o \in Submitted :
           Type(o)' = Type(o) /\ Owner(o)' = Owner(o) /\ (Live(o)' <=> Live(o))
      /\ Type(new)' = p.type /\ Owner(new)' = s /\ Live(new)'
  BY SubmissionKeepsOthers
<1>3. s \notin WithOperator /\ WithOperator' = WithOperator
  <2>1. plan[1] = p /\ Len(plan) = 1
    BY <1>1
  <2>2. ~OperatorOwned(s)
    BY <2>1 DEF OperatorInv
  <2> QED
    BY <1>1, <2>2 DEF WithOperator, OperatorOwned
<1>4. InAccount' = InAccount
  BY <1>1, <1>2 DEF InAccount
<1>5. Asked(s, p)
  BY <1>1, WantedMeans
<1>6. StageOf(new) = "none"
  BY <1>1 DEF StageOf
<1>7. \A x \in OrderIds \ {new} :
        ~(p.type \in ClosingTypes /\ p.target = x) => StageOf(x)' = StageOf(x)
  <2>1. SUFFICES ASSUME NEW x \in OrderIds \ {new}, ~(p.type \in ClosingTypes /\ p.target = x)
                 PROVE  StageOf(x)' = StageOf(x)
    OBVIOUS
  <2>2. CASE x \notin Submitted
    BY <1>1, <2>1, <2>2 DEF StageOf
  <2>3. CASE x \in Submitted
    <3>1. BeingClosed(x)' <=> BeingClosed(x)
      BY <1>1, <1>2, <2>1 DEF BeingClosed
    <3> QED
      BY <1>1, <1>2, <2>3, <3>1 DEF StageOf
  <2> QED
    BY <2>2, <2>3
<1>8. CASE p.type \in EntryTypes
  <2>1. Flat(s)
    BY <1>5, <1>8, TypesApart, ClosesClose DEF Asked, Proposal, CloseFor
  <2>2. Life!Current(s) = {}
    <3>1. SUFFICES ASSUME NEW o \in Submitted, Owner(o) = s, Type(o) \in EntryTypes
                   PROVE  StageOf(o) = "over"
      BY <1>1 DEF Life!Current, Life!InProgress, EntryOrders, EntriesOf, StageOfOrders
    <3>2. cycle[o].status # "open" /\ ~Live(o)
      BY <2>1, <3>1, TypesApart DEF Flat, OpenOf, Working, Own, Effective
    <3> QED
      BY <3>1, <3>2 DEF StageOf
  <2>3. EntryOrders' = [EntryOrders EXCEPT ![s] = @ \cup {new}]
    <3>1. \A t \in Strategies :
            EntriesOf(t)' = IF t = s THEN EntriesOf(t) \cup {new} ELSE EntriesOf(t)
      BY <1>1, <1>2, <1>8 DEF EntriesOf
    <3> QED
      BY <1>1, <3>1 DEF EntryOrders
  <2>4. Life!Moves(new, {"none"}, "entering")
    <3>1. StageOf(new)' = "entering"
      BY <1>1, <1>2, <1>8 DEF StageOf
    <3>2. \A x \in OrderIds \ {new} : StageOf(x)' = StageOf(x)
      BY <1>7, <1>8, TypesApart
    <3> QED
      BY <1>1, <1>6, <3>1, <3>2, OneMoves
  <2>5. Life!Enter(s, new)
    BY <1>3, <1>4, <2>2, <2>3, <2>4 DEF Life!Enter
  <2> QED
    BY <1>1, <2>5 DEF Life!LifeNext
<1>9. ASSUME p.type \notin EntryTypes
      PROVE  EntryOrders' = EntryOrders /\ StageOf(new)' = "none"
  BY <1>1, <1>2, <1>9 DEF EntryOrders, EntriesOf, StageOf
<1>10. ASSUME NEW t \in Own(s), p = CloseFor(t), Booked(t), t = row[s].cycle, Type(t) \in EntryTypes,
              Holding(s) \/ Resting(s)
       PROVE  Life!LifeNext
  <2>1. p.type = ClosingTypeOf(Type(t)) /\ p.target = t /\ p.type \in ClosingTypes
    BY <1>10, TypesApart DEF CloseFor, Proposal
  <2>2. t \in Submitted /\ t \in OrderIds /\ t # new /\ Owner(t) = s /\ cycle[t].status = "open"
    <3>1. OpenOf(s) = {t}
      BY <1>10 DEF Holding, Resting
    <3> QED
      BY <1>1, <3>1 DEF Own, OpenOf
  <2>3. ~BeingClosed(t)
    <3>1. SUFFICES ASSUME NEW q \in Submitted, Type(q) \in ClosingTypes, placed[q].target = t, Live(q)
                   PROVE  FALSE
      BY DEF BeingClosed
    <3>2. placed[q] = p
      BY <1>10, <3>1 DEF ClosesInv, CloseIsTrue
    <3> QED
      BY <2>1, <3>1, <3>2, NoSecondClose
  <2>4. BeingClosed(t)'
    BY <1>1, <1>2, <2>1 DEF BeingClosed
  <2>5. StageOf(t) = "held" /\ StageOf(t)' = "leaving"
    BY <1>1, <1>2, <1>10, <2>2, <2>3, <2>4 DEF StageOf
  <2>6. p.type \notin EntryTypes
    BY <2>1, TypesApart
  <2>7. \A x \in OrderIds \ {t} : StageOf(x)' = StageOf(x)
    BY <1>6, <1>7, <1>9, <2>1, <2>6
  <2>8. Life!Moves(t, {"held"}, "leaving")
    BY <2>2, <2>5, <2>7, OneMoves
  <2>9. Life!Leave(s, t) /\ t \in EntryOrders[s]
    BY <1>1, <1>3, <1>4, <1>9, <1>10, <2>2, <2>6, <2>8 DEF Life!Leave, EntryOrders, EntriesOf
  <2> QED
    BY <1>1, <2>9 DEF Life!LifeNext
<1>11. ASSUME p.type \notin EntryTypes,
              p.type \in ClosingTypes => p.target \in Submitted /\ Type(p.target) \notin EntryTypes
       PROVE  Life!LifeNext
  <2>1. \A x \in OrderIds : StageOf(x)' = StageOf(x)
    <3>1. \A x \in Submitted : Type(x) \notin EntryTypes => StageOf(x)' = StageOf(x)
      BY <1>1, <1>2 DEF StageOf
    <3> QED
      BY <1>6, <1>7, <1>9, <1>11, <3>1
  <2> QED
    BY <1>3, <1>4, <1>9, <1>11, <2>1, NoneMoves DEF StageOfOrders
<1>12. CASE Resting(s) /\ p = Proposal(s, "STO_CALL", None)
  BY <1>11, <1>12, TypesApart DEF Proposal
<1>13. ASSUME NEW t \in Own(s), p = CloseFor(t), LatestCall(s, t)
       PROVE  Life!LifeNext
  <2>1. t \in Submitted /\ Type(t) \notin EntryTypes
    BY <1>13, TypesApart DEF Own, LatestCall, CallsOf
  <2>2. p.type \in ClosingTypes /\ p.target = t
    BY <1>13, TypesApart DEF CloseFor, Proposal
  <2> QED
    BY <1>11, <2>1, <2>2, TypesApart
<1>14. CASE Flat(s) /\ p = Proposal(s, EntryTypeOf(Kind(s)), None)
  BY <1>8, <1>14 DEF EntryTypeOf, EntryTypes, Proposal
<1> QED
  BY <1>5, <1>10, <1>12, <1>13, <1>14 DEF Asked
\* Flags move no position.
LEMMA QuietLives ==
    ASSUME ExactInv, RowsRespected, LiveStays, dispatching = None \/ row' = row
    PROVE  Life!LifeNext
<1>1. UNCHANGED <<EntryOrders, StageOfOrders>>
  BY EntriesStand, StagesStand DEF LiveStays
<1>2. InAccount' = InAccount
  BY DEF LiveStays, InAccount, Submitted, Type
<1>3. WithOperator \subseteq WithOperator'
  <2>1. CASE dispatching = None
    BY <2>1, OperatorKeeps
  <2>2. CASE row' = row
    BY <2>2 DEF WithOperator, OperatorOwned
  <2> QED
    BY <2>1, <2>2
<1> QED
  BY <1>1, <1>2, <1>3, NoneMoves

\* Of the order whose end is dispatched nothing more is to be heard; the stages of
\* the other orders stay, but for the one it closes and the one it is booked to.
LEMMA DispatchEnds ==
    ASSUME ExactInv, NEW o \in OrderIds, DispatchOrderTransition(o),
           \/ answer[o] = "CANCELLED" /\ UNCHANGED <<local, cycle>>
           \/ answer[o] = "FILLED" /\ \E b \in Submitted : BooksTo(o, b)
    PROVE  /\ UNCHANGED <<placed, EntryOrders, InAccount>>
           /\ ~Live(o)' /\ ~BeingClosed(o)'
           /\ \A q \in Submitted \ {o} : Live(q)' <=> Live(q)
           /\ \A x \in OrderIds \ {o} :
                /\ ~(Type(o) \in ClosingTypes /\ placed[o].target = x)
                /\ cycle'[x].status = cycle[x].status
                => StageOf(x)' = StageOf(x)
           /\ Type(o) \notin EntryTypes => StageOf(o) = "none" /\ StageOf(o)' = "none"
           /\ Type(o) \in EntryTypes => StageOf(o) = "entering" /\ o \in EntryOrders[Owner(o)]
<1> USE Typing DEF ExactInv, OrdersAgree
<1>1. /\ UNCHANGED <<placed, legs, routing>> /\ dispatching = o /\ dispatching' = None
      /\ o \in Submitted /\ Live(o) /\ cycle[o].status = "none"
      /\ local[o].status \in {"FILLED", "CANCELLED"} /\ \A q \in Submitted : routing.order # q
      /\ \A q \in Submitted : Type(q) \in ClosingTypes => placed[q].target # o
  BY Dispatching
<1>2. Submitted' = Submitted /\ \A q : Type(q)' = Type(q)
  BY <1>1 DEF Submitted, Type
<1>3. UNCHANGED <<EntryOrders, InAccount>>
  <2>1. InAccount' = InAccount
    BY <1>1, <1>2 DEF InAccount
  <2> QED
    BY <1>1, <2>1, EntriesStand
<1>4. \A q \in OrderIds : local'[q].status = local[q].status
  BY DEF BooksTo
<1>5. ~Live(o)' /\ \A q \in Submitted \ {o} : Live(q)' <=> Live(q)
  BY <1>1, <1>4 DEF Live, LiveStatuses
<1>6. ~BeingClosed(o)'
  BY <1>1, <1>2 DEF BeingClosed
<1>7. ASSUME NEW x \in OrderIds \ {o}, ~(Type(o) \in ClosingTypes /\ placed[o].target = x),
             cycle'[x].status = cycle[x].status
      PROVE  StageOf(x)' = StageOf(x)
  BY <1>1, <1>5, <1>7, StageStands
<1>8. Type(o) \notin EntryTypes => StageOf(o) = "none" /\ StageOf(o)' = "none"
  BY <1>2 DEF StageOf
<1>9. Type(o) \in EntryTypes => StageOf(o) = "entering" /\ o \in EntryOrders[Owner(o)]
  BY <1>1 DEF StageOf, EntryOrders, EntriesOf
<1> QED
  BY <1>1, <1>3, <1>5, <1>6, <1>7, <1>8, <1>9
\* A dispatched fill: an entry is held, a close is the end of its position, and
\* whatever fills, the operator has the row no more.
LEMMA FillLives ==
    ASSUME ExactInv, NEW o \in OrderIds, DispatchOrderTransition(o), answer[o] = "FILLED",
           NEW s, s = Owner(o)
    PROVE  Life!LifeNext
<1> USE Typing DEF ExactInv, OrdersAgree
<1>1. PICK b \in Submitted : /\ BooksTo(o, b)
                             /\ \A t \in Strategies \ {s} : row'[t] = row[t]
                             /\ row'[s].state \notin OperatorStates
  BY FillBooks
<1>2. /\ UNCHANGED <<placed, EntryOrders, InAccount>> /\ ~BeingClosed(o)'
      /\ \A x \in OrderIds \ {o} :
           /\ ~(Type(o) \in ClosingTypes /\ placed[o].target = x)
           /\ cycle'[x].status = cycle[x].status
           => StageOf(x)' = StageOf(x)
      /\ Type(o) \notin EntryTypes => StageOf(o) = "none" /\ StageOf(o)' = "none"
      /\ Type(o) \in EntryTypes => StageOf(o) = "entering" /\ o \in EntryOrders[s]
  BY <1>1, DispatchEnds
<1>3. WithOperator' = WithOperator \ {s}
  BY <1>1 DEF WithOperator, OperatorOwned
<1>4. /\ o \in Submitted /\ s \in Strategies /\ Live(o) /\ atBroker[o] = "filled"
      /\ cycle[o].status = "none"
  BY Dispatching
<1>5. /\ Submitted' = Submitted /\ \A x : Type(x)' = Type(x)
      /\ b \in EntryOrders[s] /\ Type(b) \in EntryTypes /\ b \in OrderIds
  BY <1>1, <1>2, <1>4 DEF BooksTo, Submitted, Type, EntryOrders, EntriesOf, Own
<1>6. ASSUME Type(o) \in EntryTypes, b = o, cycle'[o].status = "open",
             \A x \in OrderIds \ {o} : cycle'[x] = cycle[x]
      PROVE  Life!LifeNext
  <2>1. StageOf(o)' = "held"
    BY <1>2, <1>4, <1>5, <1>6 DEF StageOf
  <2>2. \A x \in OrderIds \ {o} : StageOf(x)' = StageOf(x)
    BY <1>2, <1>6, TypesApart
  <2>3. Life!Moves(o, {"entering"}, "held")
    BY <1>2, <1>6, <2>1, <2>2, OneMoves
  <2>4. Life!Book(s, o)
    BY <1>2, <1>3, <2>3 DEF Life!Book, Life!MayReturn
  <2> QED
    BY <1>2, <1>4, <1>6, <2>4 DEF Life!LifeNext
<1>7. ASSUME Type(o) \in ClosingTypes, placed[o].target = b, cycle[b].status = "open",
             cycle'[b].status = "ended", \A x \in OrderIds \ {b} : cycle'[x] = cycle[x]
      PROVE  Life!LifeNext
  <2>1. BeingClosed(b)
    BY <1>4, <1>7 DEF BeingClosed
  <2>2. StageOf(b) = "leaving" /\ StageOf(b)' = "over"
    BY <1>5, <1>7, <2>1 DEF StageOf
  <2>3. \A x \in OrderIds \ {b} : StageOf(x)' = StageOf(x)
    BY <1>2, <1>7, TypesApart
  <2>4. Life!Moves(b, {"held", "leaving"}, "over")
    BY <1>5, <2>2, <2>3, OneMoves
  <2>5. b \notin InAccount
    BY <1>4, <1>7 DEF InAccount, ClosesInv, CloseIsTrue
  <2>6. Life!Exit(s, b)
    BY <1>2, <1>3, <2>4, <2>5 DEF Life!Exit, Life!MayReturn
  <2> QED
    BY <1>4, <1>5, <2>6 DEF Life!LifeNext
<1>8. ASSUME Type(o) \notin EntryTypes, cycle' = cycle,
             Type(o) \in ClosingTypes => Type(placed[o].target) \notin EntryTypes
      PROVE  Life!LifeNext
  <2>1. \A x \in OrderIds : Type(x) \notin EntryTypes => StageOf(x)' = StageOf(x)
    BY <1>5 DEF StageOf
  <2>2. StageOfOrders' = StageOfOrders
    <3>1. \A x \in OrderIds : StageOf(x)' = StageOf(x)
      BY <1>2, <1>8, <2>1
    <3> QED
      BY <3>1 DEF StageOfOrders
  <2>3. PICK c \in OpenOf(s) : TRUE
    <3>1. EntryTypeOf(Kind(s)) \in EntryTypes
      BY DEF EntryTypeOf, EntryTypes
    <3>2. Type(o) = EntryTypeOf(Kind(s)) \/ OpenOf(s) = {row[s].cycle}
      BY FillExpected
    <3> QED
      BY <1>8, <3>1, <3>2
  <2>4. /\ c \in Submitted /\ Owner(c) = s /\ cycle[c].status = "open"
        /\ Type(c) \in EntryTypes
    BY <2>3 DEF OpenOf, Own, TagsInv
  <2>5. StageOfOrders[c] \in {"held", "leaving"} /\ c \in EntryOrders[s]
    BY <1>4, <2>4 DEF StageOfOrders, StageOf, EntryOrders, EntriesOf
  <2>6. Life!Resume(s)
    BY <1>2, <1>3, <2>2, <2>5 DEF Life!Resume, Life!Current, Life!InProgress
  <2> QED
    BY <1>4, <2>6 DEF Life!LifeNext
<1> QED
  BY <1>1, <1>6, <1>7, <1>8 DEF BooksTo

\* A set with at most one element more than another.
LEMMA OneMore ==
    ASSUME NEW A, NEW B, NEW x, A \subseteq B, B \subseteq A \cup {x}
    PROVE  B \in {A, A \cup {x}}
<1>1. x \in B => B = A \cup {x}
  OBVIOUS
<1>2. x \notin B => B = A
  OBVIOUS
<1> QED
  BY <1>1, <1>2

\* A dispatched cancel: an entry is over, and what it bought is the operator's; a
\* close has been without effect.
LEMMA CancelLives ==
    ASSUME ExactInv, RowsRespected, NEW o \in OrderIds, DispatchOrderTransition(o),
           answer[o] = "CANCELLED", NEW s, s = Owner(o)
    PROVE  Life!LifeNext
<1> USE Typing DEF ExactInv, OrdersAgree
<1>1. UNCHANGED <<local, cycle>>
  BY DEF DispatchOrderTransition, OnCancel
<1>2. /\ o \in Submitted /\ s \in Strategies /\ Live(o) /\ dispatching = o
      /\ atBroker[o] \in Dead /\ cycle[o].status = "none"
  BY Dispatching
<1>3. /\ UNCHANGED <<placed, EntryOrders, InAccount>> /\ ~Live(o)' /\ ~BeingClosed(o)'
      /\ \A q \in Submitted \ {o} : Live(q)' <=> Live(q)
      /\ \A x \in OrderIds \ {o} :
           ~(Type(o) \in ClosingTypes /\ placed[o].target = x) => StageOf(x)' = StageOf(x)
      /\ Type(o) \notin EntryTypes => StageOf(o) = "none" /\ StageOf(o)' = "none"
      /\ Type(o) \in EntryTypes => StageOf(o) = "entering" /\ o \in EntryOrders[s]
  BY <1>1, DispatchEnds
<1>4. Submitted' = Submitted /\ \A x : Type(x)' = Type(x)
  BY <1>3 DEF Submitted, Type
<1>5. /\ \A t \in Strategies \ {s} : row'[t] = row[t]
      /\ ObservedPartialFill(o) => row'[s].state = "MANUAL_INTERVENTION"
  <2>1. \/ row' = Flagged({s})
        \/ ~ObservedPartialFill(o) /\ row' = [row EXCEPT ![s].state = RestoredState(s, o)]
    BY DEF DispatchOrderTransition, OnCancel
  <2>2. CASE row' = Flagged({s})
    BY <1>2, <2>2 DEF Flagged, RowType
  <2>3. CASE ~ObservedPartialFill(o) /\ row' = [row EXCEPT ![s].state = RestoredState(s, o)]
    BY <1>2, <2>3 DEF RowType
  <2> QED
    BY <2>1, <2>2, <2>3
<1>6. WithOperator \subseteq WithOperator'
  BY <1>2, OperatorKeeps
<1>7. Life!MayHandOver(s)
  <2>1. WithOperator' \subseteq WithOperator \cup {s}
    BY <1>5 DEF WithOperator, OperatorOwned
  <2> QED
    BY <1>6, <2>1, OneMore DEF Life!MayHandOver
<1>8. CASE Type(o) \in EntryTypes
  <2>1. StageOf(o)' = "over"
    BY <1>1, <1>2, <1>3, <1>4, <1>8 DEF StageOf
  <2>2. \A x \in OrderIds \ {o} : StageOf(x)' = StageOf(x)
    BY <1>3, <1>8, TypesApart
  <2>3. Life!Moves(o, {"entering"}, "over")
    BY <1>3, <1>8, <2>1, <2>2, OneMoves
  <2>4. o \in InAccount => s \in WithOperator'
    <3>1. SUFFICES ASSUME legs[o] # {}
                   PROVE  s \in WithOperator'
      BY DEF InAccount
    <3>2. atBroker[o] = "part_cancelled"
      BY <1>2, <3>1 DEF LegsInv, Dead
    <3>3. row'[s].state \in OperatorStates
      BY <1>5, <3>2 DEF ObservedPartialFill, OperatorStates
    <3> QED
      BY <1>2, <3>3 DEF WithOperator, OperatorOwned
  <2>5. Life!Abandon(s, o)
    BY <1>3, <1>7, <2>3, <2>4 DEF Life!Abandon
  <2> QED
    BY <1>2, <1>3, <1>8, <2>5 DEF Life!LifeNext
<1>9. ASSUME \A x \in OrderIds \ {o} : StageOf(x)' = StageOf(x), Type(o) \notin EntryTypes
      PROVE  Life!LifeNext
  <2>1. StageOfOrders' = StageOfOrders
    <3>1. \A x \in OrderIds : StageOf(x)' = StageOf(x)
      BY <1>3, <1>9
    <3> QED
      BY <3>1 DEF StageOfOrders
  <2> QED
    BY <1>3, <1>6, <2>1, NoneMoves
<1>10. CASE Type(o) \in ClosingTypes
  <2>1. PICK t : t = placed[o].target
    OBVIOUS
  <2>2. /\ t \in Submitted /\ placed[o] = CloseFor(t) /\ Booked(t) /\ t # o
        /\ Type(o) \notin EntryTypes
    BY <1>2, <1>10, <2>1, Dispatching, TypesApart DEF ClosesInv, CloseIsTrue
  <2>3. Owner(t) = s
    BY <1>2, <2>2 DEF CloseFor, Proposal, Owner
  <2>4. CASE Type(t) \in EntryTypes /\ cycle[t].status = "open"
    <3>1. BeingClosed(t)
      BY <1>2, <1>10, <2>1 DEF BeingClosed
    <3>2. ~BeingClosed(t)'
      <4>1. SUFFICES ASSUME NEW q \in Submitted, Type(q) \in ClosingTypes, placed[q].target = t,
                            Live(q)'
                     PROVE  FALSE
        BY <1>3, <1>4 DEF BeingClosed
      <4>2. q # o /\ Live(q)
        BY <1>3, <4>1
      <4>3. placed[q] = placed[o]
        BY <2>2, <4>1 DEF ClosesInv, CloseIsTrue
      <4> QED
        BY <1>2, <1>10, <4>2, <4>3 DEF OneCloseInv
    <3>3. StageOf(t) = "leaving" /\ StageOf(t)' = "held"
      BY <1>1, <1>4, <2>2, <2>4, <3>1, <3>2 DEF StageOf
    <3>4. \A x \in OrderIds \ {t} : StageOf(x)' = StageOf(x)
      BY <1>3, <2>1, <2>2
    <3>5. Life!Moves(t, {"leaving"}, "held")
      BY <2>2, <3>3, <3>4, OneMoves
    <3>6. Life!Stay(s, t) /\ t \in EntryOrders[s]
      BY <1>2, <1>3, <1>7, <2>2, <2>3, <2>4, <3>5 DEF Life!Stay, EntryOrders, EntriesOf
    <3> QED
      BY <1>2, <2>2, <3>6 DEF Life!LifeNext
  <2>5. CASE ~(Type(t) \in EntryTypes /\ cycle[t].status = "open")
    <3>1. StageOf(t)' = StageOf(t)
      BY <1>1, <1>3, <1>4, <2>2, <2>5 DEF StageOf
    <3>2. \A x \in OrderIds \ {o} : StageOf(x)' = StageOf(x)
      BY <1>3, <2>1, <3>1
    <3> QED
      BY <1>9, <2>2, <3>2
  <2> QED
    BY <2>4, <2>5
<1>11. CASE Type(o) \notin ClosingTypes /\ Type(o) \notin EntryTypes
  BY <1>3, <1>9, <1>11
<1> QED
  BY <1>8, <1>10, <1>11
\* What the positions say: a cycle that is ended has lost its contracts.
LEMMA DiffLives ==
    ASSUME ExactInv, RowsRespected, NEW s \in Strategies, DiffOne(s)
    PROVE  Life!LifeNext
<1> USE Typing DEF ExactInv, OrdersAgree
<1>1. /\ UNCHANGED <<placed, legs, local, dispatching, routing>> /\ dispatching = None
      /\ Concludes(s)
  BY Diffing, DiffKeeps DEF Concludes
<1>2. Submitted' = Submitted /\ \A x : Type(x)' = Type(x) /\ Live(x)' = Live(x)
  BY <1>1, SameOrders
<1>3. UNCHANGED <<EntryOrders, InAccount>>
  <2>1. InAccount' = InAccount
    BY <1>1, <1>2 DEF InAccount
  <2> QED
    BY <1>1, <2>1, EntriesStand
<1>4. CASE cycle' = cycle
  <2>1. StageOfOrders' = StageOfOrders
    BY <1>1, <1>2, <1>4, StagesStand
  <2>2. WithOperator \subseteq WithOperator'
    BY <1>1, OperatorKeeps
  <2> QED
    BY <1>3, <2>1, <2>2, NoneMoves
<1>5. ASSUME NEW c \in Own(s), cycle[c].status = "open", cycle'[c].status = "ended",
             \A q \in OrderIds \ {c} : cycle'[q] = cycle[q], legs[c] = {}, row' = Flattened(s)
      PROVE  Life!LifeNext
  <2>1. c \in Submitted /\ c \in OrderIds /\ Owner(c) = s /\ Type(c) \in EntryTypes
    BY <1>5 DEF Own, TagsInv
  <2>2. StageOf(c) \in {"held", "leaving"} /\ StageOf(c)' = "over"
    BY <1>2, <1>5, <2>1 DEF StageOf
  <2>3. \A x \in OrderIds \ {c} : StageOf(x)' = StageOf(x)
    BY <1>1, <1>2, <1>5, StageStands
  <2>4. Life!Moves(c, {"held", "leaving"}, "over")
    BY <2>1, <2>2, <2>3, OneMoves
  <2>5. WithOperator' = WithOperator \ {s}
    BY <1>5 DEF Flattened, WithOperator, OperatorOwned, OperatorStates
  <2>6. Life!Exit(s, c)
    BY <1>3, <1>5, <2>4, <2>5 DEF Life!Exit, Life!MayReturn, InAccount
  <2>7. c \in EntryOrders[s]
    BY <2>1 DEF EntryOrders, EntriesOf
  <2> QED
    BY <2>6, <2>7 DEF Life!LifeNext
<1> QED
  BY <1>1, <1>4, <1>5 DEF Concludes

\* At the start there is no position.
LEMMA InitLives ==
    ASSUME BotInit
    PROVE  Life!LifeInit
<1> USE DEF BotInit, Init
<1>1. Submitted = {}
  BY InitLedger, Typing DEF Submitted
<1>2. EntryOrders = [s \in Strategies |-> {}] /\ InAccount = {}
  BY <1>1 DEF EntryOrders, EntriesOf, InAccount
<1>3. StageOfOrders = [o \in OrderIds |-> "none"]
  BY <1>1 DEF StageOfOrders, StageOf
<1>4. WithOperator = {}
  BY DEF WithOperator, OperatorOwned, OperatorStates
<1> QED
  BY <1>2, <1>3, <1>4 DEF Life!LifeInit

\* Every step of an undisturbed environment is one of a position, of a flag, or of
\* none.
LEMMA StepLives ==
    ASSUME Undisturbed, ExactInv, OperatorInv, [BotNext]_botVars
    PROVE  Life!LifeNext
<1>1. RowsRespected
  BY StepRespects DEF ExactInv
<1>2. LiveStays /\ dispatching = None => Life!LifeNext
  BY <1>1, QuietLives
<1>3. CASE ReconcilerStep
  <2>1. ASSUME NEW o \in OrderIds, DispatchOrderTransition(o)
        PROVE  Life!LifeNext
    <3>1. answer[o] = "FILLED" \/ answer[o] = "CANCELLED"
      BY <2>1, Dispatching
    <3> QED
      BY <1>1, <2>1, <3>1, FillLives, CancelLives
  <2>2. CASE FetchPositions \/ FetchOrders \/ \E o \in OrderIds : PersistStatus(o)
    BY <1>2, <2>2, FetchPositionsKeeps, FetchOrdersKeeps, PersistStatusKeeps
  <2>3. CASE OrdersProcessed \/ RowsDiffed \/ AuditCycleParity
    BY <1>2, <2>3, TickKeeps
  <2>4. CASE \E s \in Strategies : DiffOne(s)
    BY <1>1, <2>4, DiffLives
  <2>5. ~ \E o \in OrderIds : UnknownOrder(o)
    BY ExcludedSteps
  <2> QED
    BY <1>3, <2>1, <2>2, <2>3, <2>4, <2>5 DEF ReconcilerStep
<1>4. CASE RouterStep
  <2>1. ASSUME NEW p, Submit(p)
        PROVE  Life!LifeNext
    BY <2>1, SubmitLives
  <2> QED
    BY <1>2, <1>4, <2>1, TickKeeps, PlanningKeeps, PersistOrderKeeps, UpsertKeeps, ExcludedSteps
       DEF RouterStep
<1>5. CASE BrokerStep \/ NewDay
  BY <1>5, MarketLives
<1>6. CASE Crash
  BY <1>2, <1>6, TickKeeps
<1>7. CASE UNCHANGED botVars
  <2>1. row' = row
    BY <1>7 DEF botVars, vars
  <2> QED
    BY <1>1, <1>7, <2>1, StutterKeeps, QuietLives
<1> QED
  BY <1>3, <1>4, <1>5, <1>6, <1>7 DEF BotNext, TickStep

\* In an undisturbed environment the positions on the symbol live as module
\* PositionLife says: each strategy has one at a time, the books end it when its
\* contracts are gone, and what an entry leaves behind is the operator's.
THEOREM PositionsLive ==
    ASSUME Undisturbed
    PROVE  Spec => ImplementsPositionLife
<1>1. BotInit => Life!LifeInit
  BY InitLives
<1>2. BotInit => OperatorInv
  BY InitRespects
<1>3. ExactInv /\ OperatorInv /\ [BotNext]_botVars => OperatorInv'
  BY StepRespects DEF ExactInv
<1>4. ExactInv /\ OperatorInv /\ [BotNext]_botVars => [Life!LifeNext]_Life!lifeVars
  BY StepLives
<1>5. Spec => []ExactInv
  BY BooksAreExact
<1> QED
  BY <1>1, <1>2, <1>3, <1>4, <1>5, PTL DEF Spec, ImplementsPositionLife, Life!LifeSpec
\* A position in progress moves on: its owner had no other, and left nothing.
LEMMA MoveKeepsLife ==
    ASSUME Life!LifeInv, NEW s \in Strategies, NEW o \in EntryOrders[s],
           NEW from \in SUBSET Life!InProgress, NEW to \in Life!InProgress \cup {"over"},
           Life!Moves(o, from, to), UNCHANGED <<EntryOrders, InAccount>>,
           WithOperator' \subseteq Strategies,
           \A t \in Strategies \ {s} : t \in WithOperator' <=> t \in WithOperator,
           to = "over" /\ o \in InAccount => s \in WithOperator'
    PROVE  Life!LifeInv'
<1> USE DEF Life!LifeInv
<1>1. /\ o \in OrderIds /\ StageOfOrders[o] \in Life!InProgress
      /\ StageOfOrders' = [StageOfOrders EXCEPT ![o] = to]
  BY DEF Life!LifeTypeOK, Life!Moves
<1>2. StageOfOrders'[o] = to /\ \A x \in OrderIds \ {o} : StageOfOrders'[x] = StageOfOrders[x]
  BY <1>1 DEF Life!LifeTypeOK
<1>3. Life!LifeTypeOK'
  BY <1>1 DEF Life!LifeTypeOK
<1>4. \A t \in Strategies : \A x \in EntryOrders[t] : x \in OrderIds /\ (x = o => t = s)
  BY DEF Life!LifeTypeOK, Life!EntersOnce
<1>5. Life!EntersOnce'
  BY <1>2, <1>4 DEF Life!EntersOnce, Life!InProgress
<1>6. o \in Life!Current(s) /\ \A x \in Life!Current(s) : x = o
  BY <1>1 DEF Life!Current, Life!OneInProgress
<1>7. /\ \A x \in Life!Current(s)' : x = o
      /\ to = "over" => Life!Current(s)' = {}
  <2>1. \A x \in Life!Current(s)' : x = o
    BY <1>2, <1>4, <1>6 DEF Life!Current
  <2> QED
    BY <1>2, <2>1 DEF Life!Current, Life!InProgress
<1>8. \A t \in Strategies \ {s} : Life!Current(t)' = Life!Current(t)
  BY <1>2, <1>4 DEF Life!Current
<1>9. Life!OneInProgress'
  BY <1>7, <1>8 DEF Life!OneInProgress
<1>10. Life!LeftBehind'
  <2>1. SUFFICES ASSUME NEW t \in Strategies, NEW x \in EntryOrders[t] \cap InAccount,
                        StageOfOrders'[x] = "over"
                 PROVE  t \in WithOperator' /\ Life!Current(t)' = {}
    BY DEF Life!LeftBehind
  <2>2. CASE x = o
    BY <1>2, <1>4, <1>7, <2>1, <2>2
  <2>3. CASE x # o
    <3>1. StageOfOrders[x] = "over"
      BY <1>2, <1>4, <2>1, <2>3
    <3>2. t \in WithOperator /\ Life!Current(t) = {}
      BY <2>1, <3>1 DEF Life!LeftBehind
    <3> QED
      BY <1>6, <1>8, <3>2
  <2> QED
    BY <2>2, <2>3
<1> QED
  BY <1>3, <1>5, <1>9, <1>10

\* The life of a position keeps to its invariant.
LEMMA LifeKeeps ==
    ASSUME Life!LifeInv, Life!LifeNext
    PROVE  Life!LifeInv'
<1> USE DEF Life!LifeInv
<1>1. ASSUME UNCHANGED <<EntryOrders, StageOfOrders>>, WithOperator' \subseteq Strategies,
             Life!LeftBehind'
      PROVE  Life!LifeInv'
  BY <1>1 DEF Life!LifeTypeOK, Life!EntersOnce, Life!OneInProgress, Life!Current
<1>2. CASE Life!HandOver
  <2>1. Life!LeftBehind'
    BY <1>2 DEF Life!HandOver, Life!LeftBehind, Life!Current
  <2> QED
    BY <1>1, <1>2, <2>1 DEF Life!HandOver
<1>3. ASSUME NEW s \in Strategies, NEW o \in OrderIds, Life!Enter(s, o)
      PROVE  Life!LifeInv'
  <2>1. /\ StageOfOrders[o] = "none"
        /\ StageOfOrders' = [StageOfOrders EXCEPT ![o] = "entering"]
        /\ EntryOrders' = [EntryOrders EXCEPT ![s] = @ \cup {o}]
        /\ UNCHANGED <<InAccount, WithOperator>> /\ s \notin WithOperator /\ Life!Current(s) = {}
    BY <1>3 DEF Life!Enter, Life!Moves
  <2>2. StageOfOrders'[o] = "entering"
        /\ \A x \in OrderIds \ {o} : StageOfOrders'[x] = StageOfOrders[x]
    BY <2>1 DEF Life!LifeTypeOK
  <2>3. /\ EntryOrders'[s] = EntryOrders[s] \cup {o}
        /\ \A t \in Strategies \ {s} : EntryOrders'[t] = EntryOrders[t]
    BY <2>1 DEF Life!LifeTypeOK
  <2>4. \A t \in Strategies : \A x \in EntryOrders[t] : x \in OrderIds \ {o}
    BY <2>1 DEF Life!LifeTypeOK, Life!EntersOnce
  <2>5. Life!LifeTypeOK'
    BY <2>1 DEF Life!LifeTypeOK, Life!InProgress
  <2>6. Life!EntersOnce'
    BY <2>2, <2>3, <2>4 DEF Life!EntersOnce
  <2>7. Life!Current(s)' = {o}
    BY <2>1, <2>2, <2>3, <2>4 DEF Life!Current, Life!InProgress
  <2>8. \A t \in Strategies \ {s} : Life!Current(t)' = Life!Current(t)
    BY <2>2, <2>3, <2>4 DEF Life!Current
  <2>9. Life!OneInProgress'
    BY <2>7, <2>8 DEF Life!OneInProgress
  <2>10. Life!LeftBehind'
    <3>1. SUFFICES ASSUME NEW t \in Strategies, NEW x \in EntryOrders'[t] \cap InAccount,
                          StageOfOrders'[x] = "over"
                   PROVE  t \in WithOperator /\ Life!Current(t)' = {}
      BY <2>1 DEF Life!LeftBehind
    <3>2. x \in EntryOrders[t] /\ StageOfOrders[x] = "over"
      BY <2>2, <2>3, <2>4, <3>1
    <3>3. t \in WithOperator /\ Life!Current(t) = {}
      BY <3>1, <3>2 DEF Life!LeftBehind
    <3> QED
      BY <2>1, <2>8, <3>3
  <2> QED
    BY <2>5, <2>6, <2>9, <2>10
<1>4. ASSUME NEW s \in Strategies, NEW o \in EntryOrders[s],
             \/ Life!Book(s, o) \/ Life!Abandon(s, o) \/ Life!Leave(s, o) \/ Life!Stay(s, o)
             \/ Life!Exit(s, o)
      PROVE  Life!LifeInv'
  <2>1. WithOperator' \in {WithOperator, WithOperator \cup {s}, WithOperator \ {s}}
        /\ UNCHANGED <<EntryOrders, InAccount>>
    BY <1>4 DEF Life!Book, Life!Abandon, Life!Leave, Life!Stay, Life!Exit, Life!MayHandOver,
                Life!MayReturn
  <2>2. WithOperator' \subseteq Strategies
        /\ \A t \in Strategies \ {s} : t \in WithOperator' <=> t \in WithOperator
    BY <2>1 DEF Life!LifeTypeOK
  <2>3. CASE Life!Book(s, o)
    BY <2>1, <2>2, <2>3, MoveKeepsLife DEF Life!Book, Life!InProgress
  <2>4. CASE Life!Abandon(s, o)
    BY <2>1, <2>2, <2>4, MoveKeepsLife DEF Life!Abandon, Life!InProgress
  <2>5. CASE Life!Leave(s, o)
    BY <2>1, <2>2, <2>5, MoveKeepsLife DEF Life!Leave, Life!InProgress
  <2>6. CASE Life!Stay(s, o)
    BY <2>1, <2>2, <2>6, MoveKeepsLife DEF Life!Stay, Life!InProgress
  <2>7. CASE Life!Exit(s, o)
    BY <2>1, <2>2, <2>7, MoveKeepsLife DEF Life!Exit, Life!InProgress
  <2> QED
    BY <1>4, <2>3, <2>4, <2>5, <2>6, <2>7
<1>5. ASSUME NEW o \in OrderIds, Life!Trade(o) \/ Life!Vanish(o)
      PROVE  Life!LifeInv'
  <2>1. /\ UNCHANGED <<EntryOrders, StageOfOrders, WithOperator>>
        /\ \A x \in InAccount' : x \in InAccount \/ StageOfOrders[x] = "entering"
    BY <1>5 DEF Life!Trade, Life!Vanish
  <2>2. Life!LeftBehind'
    BY <2>1 DEF Life!LeftBehind, Life!Current
  <2> QED
    BY <1>1, <2>1, <2>2 DEF Life!LifeTypeOK
<1>6. ASSUME NEW s \in Strategies, Life!Resume(s)
      PROVE  Life!LifeInv'
  <2>1. /\ UNCHANGED <<EntryOrders, StageOfOrders, InAccount>> /\ Life!Current(s) # {}
        /\ WithOperator' = WithOperator \ {s}
    BY <1>6 DEF Life!Resume
  <2>2. Life!LeftBehind'
    BY <2>1 DEF Life!LeftBehind, Life!Current
  <2> QED
    BY <1>1, <2>1, <2>2 DEF Life!LifeTypeOK
<1> QED
  BY <1>2, <1>3, <1>4, <1>5, <1>6 DEF Life!LifeNext

\* So in an undisturbed environment a strategy has one position in progress at a
\* time, and contracts alive at the broker are those of such a position or the
\* operator has them, at every moment and not only after a reconcile pass.
THEOREM NoneIsForgotten ==
    ASSUME Undisturbed
    PROVE  Spec => [](Life!OneInProgress /\ Life!NoneForgotten)
<1>1. Life!LifeInit => Life!LifeInv
  <2> SUFFICES ASSUME Life!LifeInit
               PROVE  Life!LifeInv
    OBVIOUS
  <2>1. Life!LifeTypeOK /\ Life!EntersOnce /\ Life!LeftBehind
    BY DEF Life!LifeInit, Life!LifeTypeOK, Life!EntersOnce, Life!LeftBehind
  <2>2. Life!OneInProgress
    BY DEF Life!LifeInit, Life!OneInProgress, Life!Current
  <2> QED
    BY <2>1, <2>2 DEF Life!LifeInv
<1>2. Life!LifeInv /\ [Life!LifeNext]_Life!lifeVars => Life!LifeInv'
  <2>1. ASSUME Life!LifeInv, UNCHANGED Life!lifeVars
        PROVE  Life!LifeInv'
    BY <2>1 DEF Life!lifeVars, Life!LifeInv, Life!LifeTypeOK, Life!EntersOnce, Life!OneInProgress,
                Life!LeftBehind, Life!Current
  <2> QED
    BY <2>1, LifeKeeps
<1>3. Life!LifeInv => Life!OneInProgress /\ Life!NoneForgotten
  BY DEF Life!LifeInv, Life!LifeTypeOK, Life!EntersOnce, Life!LeftBehind, Life!NoneForgotten
<1>4. Spec => Life!LifeSpec
  BY PositionsLive DEF ImplementsPositionLife
<1> QED
  BY <1>1, <1>2, <1>3, <1>4, PTL DEF Life!LifeSpec
=============================================================================
