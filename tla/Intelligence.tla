----------------------------- MODULE Intelligence -----------------------------
(***************************************************************************)
(* The paid calls to language models and what the bot does with the        *)
(* answers: the daily budget (intelligence/budget.py) around every call,   *)
(* the ensemble that seconds a roll, the news check before an entry, and   *)
(* the daily veto stamped on the regime snapshot.                          *)
(*                                                                         *)
(* A call is three steps: the budget is read, the answer is awaited, its   *)
(* cost is recorded.  The members of an ensemble, and the jobs that run in *)
(* processes of their own, are at any of them at the same time.  Every     *)
(* failure falls back to what the bot would do without a model.            *)
(*                                                                         *)
(* The budget is read with an estimate, for which the prompt counts a      *)
(* token per four characters; what is recorded is the price of the tokens  *)
(* the answer says it used, which may be less than the estimate or more.   *)
(***************************************************************************)
EXTENDS Naturals, FiniteSets

CONSTANTS
    Models,         \* roll_advisor_models
    Quorum,         \* ensemble_quorum
    Answers,        \* the decisions a member may answer with
    RollRules,      \* what the rule may recommend
    DailyCap,       \* daily_budget_usd
    MinEstimate,    \* the least a call is estimated at: its output tokens alone are paid for
    MaxEstimate,    \* the most a call is estimated at
    MaxCost,        \* the most a call can cost: the model's context and the maximum of output
    OrderSizes      \* the quantities an entry may be proposed with

Jobs    == {"regime", "news"}
Callers == Models \cup Jobs

ASSUME IntelligenceAssumption ==
    /\ IsFiniteSet(Models) /\ Models \cap Jobs = {}
    /\ Quorum \in 1 .. Cardinality(Models) /\ 2 * Quorum > Cardinality(Models)
    /\ RollRules \subseteq Answers /\ Answers \cap {"pending", "failed"} = {}
    /\ DailyCap \in Nat /\ OrderSizes \subseteq Nat \ {0}
    /\ MinEstimate \in Nat \ {0} /\ MaxEstimate \in Nat /\ MinEstimate <= MaxEstimate
    /\ MaxCost \in Nat \ {0}

VARIABLES
    spent,      \* total_cost_today: the recorded costs of the day
    calls,      \* the callers that passed the budget and await an answer
    votes,      \* what each member of the ensemble has answered
    roll,       \* the roll in question: "none", or the rule's action and the outcome
    latest,     \* the latest regime snapshot: whether it is today's, and its veto
    entry       \* the last entry that met the news check: asked and placed quantity

intelligenceVars == <<spent, calls, votes, roll, latest, entry>>

NoRoll  == [rule |-> "none", outcome |-> "none"]
NoEntry == [asked |-> 0, placed |-> 0]
Unasked == [m \in Models |-> "pending"]

IntelligenceTypeOK ==
    /\ spent \in Nat
    /\ calls \subseteq Callers
    /\ votes \in [Models -> Answers \cup {"pending", "failed"}]
    /\ roll \in [rule : RollRules \cup {"none"}, outcome : {"none", "acted", "halted"}]
    /\ latest \in [today : BOOLEAN, veto : BOOLEAN]
    /\ entry \in [asked : OrderSizes \cup {0}, placed : Nat]

IntelligenceInit ==
    /\ spent = 0 /\ calls = {} /\ votes = Unasked /\ roll = NoRoll
    /\ latest = [today |-> FALSE, veto |-> FALSE] /\ entry = NoEntry

-----------------------------------------------------------------------------
(* One call. *)

Asking == roll.rule # "none" /\ roll.outcome = "none"

\* Faulty variant: the budget only stops a call once the cap is reached.
CapNotReached(estimate) == spent < DailyCap

\* BudgetTracker.check, with the estimate of this call and of no other.
Affordable(estimate) == spent + estimate <= DailyCap

Estimates == MinEstimate .. MaxEstimate

\* Whoever is about to make a call: a member whose vote is out, or a job.
Calling(c) ==
    /\ c \notin calls
    /\ c \in Models => Asking /\ votes[c] = "pending"
    /\ c = "regime" => latest.today

PassBudget(c) ==
    /\ Calling(c) /\ \E estimate \in Estimates : Affordable(estimate)
    /\ calls' = calls \cup {c}
    /\ UNCHANGED <<spent, votes, roll, latest, entry>>

\* The request fails, or its process dies over it: nothing is recorded.
CallFails(c) ==
    /\ c \in calls /\ calls' = calls \ {c}
    /\ votes' = IF c \in Models THEN [votes EXCEPT ![c] = "failed"] ELSE votes
    /\ UNCHANGED <<spent, roll, latest, entry>>

\* The answer's cost is recorded before the caller sees the answer; the estimate
\* it passed with has no part in it.
Record(c) ==
    /\ c \in calls /\ calls' = calls \ {c}
    /\ \E cost \in 1 .. MaxCost : spent' = spent + cost

-----------------------------------------------------------------------------
(* The ensemble behind a roll. *)

RollTriggers ==
    /\ ~ Asking
    /\ \E rule \in RollRules : roll' = [rule |-> rule, outcome |-> "none"]
    /\ votes' = Unasked
    /\ UNCHANGED <<spent, calls, latest, entry>>

MemberRefused(m) ==
    /\ Calling(m) /\ \E estimate \in Estimates : ~ Affordable(estimate)
    /\ votes' = [votes EXCEPT ![m] = "failed"]
    /\ UNCHANGED <<spent, calls, roll, latest, entry>>

\* An answer that does not parse counts as none.
MemberAnswers(m) ==
    /\ Record(m)
    /\ \E a \in Answers \cup {"failed"} : votes' = [votes EXCEPT ![m] = a]
    /\ UNCHANGED <<roll, latest, entry>>

Ballots(a) == {m \in Models : votes[m] = a}

\* Unanimous, or a majority: what ensemble_vote decides for, if anything.
Carried(a) == Ballots(a) = Models \/ Cardinality(Ballots(a)) >= Quorum

\* What they carried, if it is a roll action; another answer is no decision.
LlmRollDecision == {a \in RollRules : Carried(a)}

\* evaluate: the models can only stop what the rule recommends.  Without a
\* decision of theirs the rule acts alone.
Orchestrate ==
    /\ Asking /\ \A m \in Models : votes[m] # "pending"
    /\ roll' = [roll EXCEPT !.outcome =
                   IF LlmRollDecision \ {roll.rule} # {} THEN "halted" ELSE "acted"]
    /\ UNCHANGED <<spent, calls, votes, latest, entry>>

-----------------------------------------------------------------------------
(* The news check of an entry. *)

\* Halved, and a single contract cannot be: it is blocked.  (Under
\* news_check_advisory a caution is a remark, and places like "proceed".)
Placed(verdict, quantity) ==
    CASE verdict = "block"   -> 0
      [] verdict = "caution" -> quantity \div 2
      [] OTHER               -> quantity

\* No source, no headlines, over the budget, an error: the entry proceeds.
NewsUnchecked ==
    /\ "news" \notin calls
    /\ \E q \in OrderSizes : entry' = [asked |-> q, placed |-> q]
    /\ UNCHANGED <<spent, calls, votes, roll, latest>>

NewsAnswers ==
    /\ Record("news")
    /\ \E q \in OrderSizes, verdict \in {"proceed", "caution", "block"} :
         entry' = [asked |-> q, placed |-> Placed(verdict, q)]
    /\ UNCHANGED <<votes, roll, latest>>

-----------------------------------------------------------------------------
(* The regime job and its veto. *)

\* Faulty variant: the row of the day is replaced.
RowReplaced == [today |-> TRUE, veto |-> FALSE]

\* The upsert writes every column of the day's row but the veto's.
RowUpserted == [today |-> TRUE, veto |-> latest.today /\ latest.veto]

WriteSnapshot ==
    /\ "regime" \notin calls
    /\ latest' = RowUpserted
    /\ UNCHANGED <<spent, calls, votes, roll, entry>>

\* The stamp goes on the row the job has written, also when midnight has passed.
VetoAnswers ==
    /\ Record("regime")
    /\ \E veto \in BOOLEAN : latest' = [latest EXCEPT !.veto = veto]
    /\ UNCHANGED <<votes, roll, entry>>

\* The cap is per day; the bot goes on reading the latest row.
DateChanges ==
    /\ spent' = 0 /\ latest' = [latest EXCEPT !.today = FALSE]
    /\ UNCHANGED <<calls, votes, roll, entry>>

IntelligenceNext ==
    \/ \E c \in Callers : PassBudget(c) \/ CallFails(c)
    \/ \E m \in Models : MemberRefused(m) \/ MemberAnswers(m)
    \/ NewsUnchecked \/ NewsAnswers \/ VetoAnswers
    \/ RollTriggers \/ Orchestrate \/ WriteSnapshot \/ DateChanges

IntelligenceSpec == IntelligenceInit /\ [][IntelligenceNext]_intelligenceVars

-----------------------------------------------------------------------------
\* The cap is read before a call and the cost booked after it, and the cost may
\* exceed the estimate: a day overshoots its cap by a call of its own, by calls in
\* flight together, and over midnight.  But a call only starts where its estimate
\* fits, so what is spent is at most what the least estimate leaves of the cap and
\* the full price of one call of each caller.
OvershootBounded ==
    spent > 0 => spent + MinEstimate <= DailyCap + Cardinality(Callers) * MaxCost

\* A veto on the day's snapshot survives every rerun of the job that writes the
\* row; only another answer of the model takes it back.
RerunKeepsVeto ==
    [][latest.today /\ latest.veto /\ ~ latest'.veto => "regime" \in calls /\ spent' > spent]_intelligenceVars

\* "A veto halves the bot's position sizes for one day": a snapshot from before
\* today does not.
VetoEndsWithItsDay == latest.veto => latest.today

\* "if running this call could breach the cap" it is refused.
CapIsNeverBreached == spent <= DailyCap
=============================================================================
