------------------------------ MODULE Watchlists ------------------------------
(***************************************************************************)
(* The weekly universe refresh of one strategy                             *)
(* (intelligence/universe_refresh.py), the runs it stores, and the overlay *)
(* of the applied run onto universe.yaml (core/watchlists.py).             *)
(*                                                                         *)
(* The job, the MCP server that approves and the bot that trades are three *)
(* processes.  A run is one row and one row per entry, each committed by   *)
(* itself; apply_run alone is a transaction.                               *)
(***************************************************************************)
EXTENDS Naturals, FiniteSets

CONSTANTS
    Listed,         \* the strategy's symbols in universe.yaml
    Discovered,     \* symbols of the candidate pool that are not among them
    Barred,         \* banned or tier-3 symbols
    MaxAdds,        \* max_adds_per_strategy
    MaxDrops,       \* max_drops_per_strategy
    MinSymbols,     \* min_symbols_per_strategy
    AutoApply,      \* auto_apply
    MaxRuns         \* bound: how many runs are stored

ASSUME WatchlistAssumption ==
    /\ IsFiniteSet(Listed) /\ IsFiniteSet(Discovered) /\ Listed \cap Discovered = {}
    /\ {MaxAdds, MaxDrops, MinSymbols, MaxRuns} \subseteq Nat /\ AutoApply \in BOOLEAN

VARIABLES
    runs,       \* watchlist_runs with their entries, oldest first
    jobStep,    \* "idle", "asked" or "writing"
    base,       \* what the job read: current members and protected symbols
    toWrite,    \* the entries still to be inserted
    review,     \* a run the MCP server has found proposed, 0 for none
    held        \* symbols the strategy has an open position in

watchlistVars == <<runs, jobStep, base, toWrite, review, held>>

Known   == Listed \cup Discovered
RunIds  == 1 .. MaxRuns
Actions == {"add", "keep", "drop"}
NoRun   == [status |-> "none", entries |-> {}, members |-> {}, whole |-> FALSE]
NoBase  == [members |-> {}, protected |-> {}]

WatchlistTypeOK ==
    /\ runs \in [RunIds -> [status : {"none", "proposed", "applied", "rejected", "superseded",
                                      "failed"},
                            entries : SUBSET (Known \X Actions), members : SUBSET Known,
                            whole : BOOLEAN]]
    /\ jobStep \in {"idle", "asked", "writing"}
    /\ base \in [members : SUBSET Known, protected : SUBSET Known]
    /\ toWrite \subseteq Known \X Actions
    /\ review \in 0 .. MaxRuns
    /\ held \subseteq Known

WatchlistInit ==
    /\ runs = [r \in RunIds |-> NoRun] /\ jobStep = "idle" /\ base = NoBase
    /\ toWrite = {} /\ review = 0 /\ held = {}

\* The newest stored run, 0 when there is none.
NewestRun == Cardinality({r \in RunIds : runs[r].status # "none"})
AppliedRuns == {r \in RunIds : runs[r].status = "applied"}

\* applied_membership and overlay_universe: with no applied run, or one without
\* an entry of this strategy, the symbols of universe.yaml.
Membership(r) == {s \in Known : \E a \in {"add", "keep"} : <<s, a>> \in runs[r].entries}
EffectiveUniverse ==
    LET live == UNION {Membership(r) : r \in AppliedRuns}
    IN  IF live = {} THEN Listed ELSE live \ Barred

-----------------------------------------------------------------------------
(* enforce_guardrails.  Which of several adds or drops a cap lets through    *)
(* depends on their scores, which are free.                                  *)

AtMost(S, n) == {T \in SUBSET S : Cardinality(T) = IF Cardinality(S) <= n THEN Cardinality(S) ELSE n}

\* Faulty variant: the drops are not held against the floor.
NothingSpared(members, adds, drops) == {drops}

\* Drops revert until the membership is back at the floor, or none is left.
Spared(members, adds, drops) ==
    LET room == Cardinality(members) + Cardinality(adds)
        n    == IF room >= MinSymbols THEN room - MinSymbols ELSE 0
    IN  AtMost(drops, n)

\* Every member is an entry, whether the model mentioned it or not.
Entries(members, adds, drops) ==
    (adds \X {"add"}) \cup (drops \X {"drop"}) \cup ((members \ drops) \X {"keep"})

EnforceGuardrails(seen, eligible, wantAdds, wantDrops) ==
    UNION {{Entries(seen.members, adds, d) : d \in Spared(seen.members, adds, drops)} :
        adds  \in AtMost((wantAdds \ seen.members) \cap eligible, MaxAdds),
        drops \in AtMost((wantDrops \cap seen.members) \ seen.protected, MaxDrops)}

-----------------------------------------------------------------------------
(* run_universe_refresh. *)

\* Members and protected symbols are read before the candidates' quotes, their
\* option chains and the model's answer, all of which take a while.
Ask ==
    /\ jobStep = "idle" /\ NewestRun < MaxRuns
    /\ jobStep' = "asked"
    /\ base' = [members |-> EffectiveUniverse, protected |-> held]
    /\ UNCHANGED <<runs, toWrite, review, held>>

\* Over the budget, or any exception: nothing is stored.
AskFails ==
    /\ jobStep = "asked"
    /\ jobStep' = "idle" /\ base' = NoBase
    /\ UNCHANGED <<runs, toWrite, review, held>>

Unparseable ==
    /\ jobStep = "asked"
    /\ runs' = [runs EXCEPT ![NewestRun + 1].status = "failed"]
    /\ jobStep' = "idle" /\ base' = NoBase
    /\ UNCHANGED <<toWrite, review, held>>

\* Quotes and volumes, IVR and earnings pass some of the pool for an add.
EligibleAdds == SUBSET (Known \ Barred)

\* The row is stored as proposed before any of its entries.
Propose ==
    /\ jobStep = "asked"
    /\ \E eligible \in EligibleAdds, wantAdds, wantDrops \in SUBSET Known :
         toWrite' \in EnforceGuardrails(base, eligible, wantAdds, wantDrops)
    /\ runs' = [runs EXCEPT ![NewestRun + 1] =
                   [NoRun EXCEPT !.status = "proposed", !.members = base.members]]
    /\ jobStep' = "writing"
    /\ UNCHANGED <<base, review, held>>

\* The adds come first, then the drops, then what is kept.
WriteEntry ==
    /\ jobStep = "writing"
    /\ \E e \in toWrite :
         /\ \A f \in toWrite : e[2] = "keep" => f[2] = "keep"
         /\ e[2] = "drop" => \A f \in toWrite : f[2] # "add"
         /\ runs' = [runs EXCEPT ![NewestRun].entries = @ \cup {e}]
         /\ toWrite' = toWrite \ {e}
    /\ UNCHANGED <<jobStep, base, review, held>>

\* apply_run: the one applied run and the one it supersedes, in a transaction.
ApplyRun(r, applied) ==
    [q \in RunIds |-> CASE q = r -> [applied[q] EXCEPT !.status = "applied"]
                        [] q # r /\ applied[q].status = "applied"
                                 -> [applied[q] EXCEPT !.status = "superseded"]
                        [] OTHER -> applied[q]]

\* A run without changes closes itself; auto_apply puts the others in force.
Conclude ==
    LET r    == NewestRun
        done == [runs EXCEPT ![r].whole = TRUE]
    IN  /\ jobStep = "writing" /\ toWrite = {}
        /\ runs' = IF \A e \in runs[r].entries : e[2] = "keep"
                   THEN [done EXCEPT ![r].status = "rejected"]
                   ELSE IF AutoApply THEN ApplyRun(r, done) ELSE done
        /\ jobStep' = "idle" /\ base' = NoBase
        /\ UNCHANGED <<toWrite, review, held>>

\* The job dies, also between the run's row and its entries.
JobDies ==
    /\ jobStep = "writing"
    /\ jobStep' = "idle" /\ base' = NoBase /\ toWrite' = {}
    /\ UNCHANGED <<runs, review, held>>

-----------------------------------------------------------------------------
(* approve_watchlist: reads the run, then acts on what it read. *)

FindProposed(r) ==
    /\ review = 0 /\ runs[r].status = "proposed"
    /\ review' = r
    /\ UNCHANGED <<runs, jobStep, base, toWrite, held>>

Decide(approve) ==
    /\ review # 0 /\ review' = 0
    /\ runs' = IF approve THEN ApplyRun(review, runs)
               ELSE [runs EXCEPT ![review].status = "rejected"]
    /\ UNCHANGED <<jobStep, base, toWrite, held>>

\* The bot opens positions in the effective universe and closes them anywhere.
PositionMoves ==
    /\ \E s \in Known : \/ s \in EffectiveUniverse \ held /\ held' = held \cup {s}
                        \/ s \in held /\ held' = held \ {s}
    /\ UNCHANGED <<runs, jobStep, base, toWrite, review>>

WatchlistNext ==
    \/ Ask \/ AskFails \/ Unparseable \/ Propose \/ WriteEntry \/ Conclude \/ JobDies
    \/ \E r \in RunIds : FindProposed(r)
    \/ \E approve \in BOOLEAN : Decide(approve)
    \/ PositionMoves

WatchlistSpec == WatchlistInit /\ [][WatchlistNext]_watchlistVars

-----------------------------------------------------------------------------
\* A run that was written to its end keeps the strategy at the floor, or above
\* where it already was below: adds clamped or refused, drops reverted.
WholeRunsKeepTheFloor ==
    \A r \in RunIds :
        runs[r].whole =>
            \/ Cardinality(Membership(r)) >= MinSymbols
            \/ Cardinality(Membership(r)) >= Cardinality(runs[r].members)

\* "membership never shrinks below min_symbols_per_strategy": also when the job
\* died over the run's entries and the run was approved.
MembershipNeverShrinksBelowFloor ==
    \A r \in AppliedRuns : jobStep = "idle" =>
        \/ Cardinality(Membership(r)) >= MinSymbols
        \/ Cardinality(Membership(r)) >= Cardinality(runs[r].members)

\* "symbols with an open position / active cycle can NEVER be dropped".
OpenPositionsStayListed ==
    [][\A s \in held : s \in EffectiveUniverse => s \in EffectiveUniverse']_watchlistVars
=============================================================================
