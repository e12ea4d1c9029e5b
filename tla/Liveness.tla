------------------------------ MODULE Liveness ------------------------------
(***************************************************************************)
(* What the bot must eventually do.  run_forever keeps ticking and is      *)
(* restarted when it dies; nights pass, and enough of them for every open  *)
(* cycle to reach the parity audit's minimum age.  Nothing else is fair:   *)
(* no order has to fill, no trigger has to fire, no submission to succeed. *)
(***************************************************************************)
EXTENDS Safety

\* Nights enough for the audit to look at every open cycle.
DaysPass == NewDay /\ aged' = {c \in OrderIds : cycle[c].status = "open"} /\ UNCHANGED crashes

FairSpec == Spec /\ WF_botVars(TickStep) /\ SF_botVars(DaysPass)

PendingStates == {"CSP_PENDING", "CC_PENDING", "SPREAD_PENDING", "PMCC_LONG_PENDING",
                  "PMCC_SHORT_PENDING", "SWING_PENDING"}

\* A row does not stay in a pending state for ever: its order's fill or end is
\* dispatched, or the row is healed.  A stranded pending row blocks its symbol.
PendingResolves ==
    \A s \in Strategies :
        row[s].state \in PendingStates ~> row[s].state \notin PendingStates

\* A cycle orphaned by a row that went flat comes to the operator's attention,
\* unless it ends or the row is put to use again.
OrphansSurface ==
    \A s \in Strategies :
        (\E c \in Submitted : Owner(c) = s /\ cycle[c].status = "open" /\ ~Tracked(s))
            ~> (OperatorOwned(s) \/ Tracked(s)
                \/ \A c \in Submitted : Owner(c) = s => cycle[c].status # "open")
=============================================================================
