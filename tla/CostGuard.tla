------------------------------- MODULE CostGuard -------------------------------
(***************************************************************************)
(* The monthly cap on what models may cost.  A call is let through when the*)
(* ledger of this month and the call's estimate stay within the cap; its   *)
(* real cost enters the ledger when it has been answered.  Nothing is      *)
(* reserved in between, so calls that are checked side by side do not see  *)
(* each other.  The callers are worker processes and requests, each with   *)
(* at most one call under way; every write commits on its own.             *)
(***************************************************************************)
EXTENDS Integers, FiniteSets

CONSTANTS
    Callers,      \* processes that call a model
    Cap,          \* LLM_MONTHLY_CAP_USD; 0 is unset: calls go unmetered
    PerCallMax,   \* LLM_PER_CALL_MAX_USD; 0 is unset
    Estimates,    \* what pricing.estimate may say of a call
    MaxCost,      \* the most the vendor bills for one call, which may be more
                  \* than its estimate: that is a guess at the tokens
    MaxLosses     \* bound: calls of a month whose cost the ledger misses

ASSUME CostAssumption ==
    /\ IsFiniteSet(Callers)
    /\ Cap \in Nat /\ PerCallMax \in Nat /\ MaxCost \in Nat /\ MaxLosses \in Nat
    /\ Estimates \subseteq Nat

Costs == 0 .. MaxCost

VARIABLES
    ledger,   \* sum of this month's CostEvents
    call,     \* call[c]: how far c's call has come, and the cost to record
    billed,   \* history: what the vendor billed this month
    losses    \* history: calls of this month whose bill may not be recorded

costVars == <<ledger, call, billed, losses>>

NoCall == [step |-> "idle", cost |-> 0]
Call == [step : {"asked", "answered", "noted"}, cost : Costs]

\* check_or_raise lets the call through.  A refusal leaves a ModelRun and an
\* alert, and nothing the guard reads.
Passes(e) ==
    Cap > 0 => /\ PerCallMax > 0 => e <= PerCallMax
               /\ ledger + e <= Cap

Check(c, e) ==
    /\ call[c] = NoCall
    /\ Passes(e)
    /\ call' = [call EXCEPT ![c].step = "asked"]
    /\ UNCHANGED <<ledger, billed, losses>>

\* The answer carries its usage, whether or not it can be used.
Answer(c, cost) ==
    /\ call[c].step = "asked"
    /\ billed' = billed + cost
    /\ call' = [call EXCEPT ![c] = [step |-> "answered", cost |-> cost]]
    /\ UNCHANGED <<ledger, losses>>

\* The SDK raised, and the usage is lost with the response: nothing is
\* recorded for an error, a guess for an answer that is not schema-valid.
Raised(c, bill, guess) ==
    /\ call[c].step = "asked"
    /\ losses < MaxLosses
    /\ losses' = losses + 1
    /\ billed' = billed + bill
    /\ call' = [call EXCEPT ![c] = [step |-> "answered", cost |-> guess]]
    /\ UNCHANGED ledger

\* The ModelRun, then its CostEvent.
Note(c) ==
    /\ call[c].step = "answered"
    /\ call' = [call EXCEPT ![c].step = "noted"]
    /\ UNCHANGED <<ledger, billed, losses>>

\* A wrong accounting: the ModelRun's cost is counted next to the event's.
RecordTwice(c) ==
    /\ call[c].step = "noted"
    /\ ledger' = ledger + 2 * call[c].cost
    /\ call' = [call EXCEPT ![c] = NoCall]
    /\ UNCHANGED <<billed, losses>>

\* A wrong accounting: the ModelRun is thought to be enough.
NoteOnly(c) ==
    /\ call[c].step = "noted"
    /\ call' = [call EXCEPT ![c] = NoCall]
    /\ UNCHANGED <<ledger, billed, losses>>

RecordCost(c) ==
    /\ call[c].step = "noted"
    /\ ledger' = ledger + call[c].cost
    /\ call' = [call EXCEPT ![c] = NoCall]
    /\ UNCHANGED <<billed, losses>>

\* A wrong recovery: the next call starts with the cost of the lost one.
CrashHalfway(c, bill) ==
    /\ call[c] # NoCall
    /\ losses < MaxLosses
    /\ losses' = losses + 1
    /\ billed' = IF call[c].step = "asked" THEN billed + bill ELSE billed
    /\ call' = [call EXCEPT ![c].step = "idle"]
    /\ UNCHANGED ledger

\* The process is lost: what it had asked for is billed all the same.
Crash(c, bill) ==
    /\ call[c] # NoCall
    /\ losses < MaxLosses
    /\ losses' = losses + 1
    /\ billed' = IF call[c].step = "asked" THEN billed + bill ELSE billed
    /\ call' = [call EXCEPT ![c] = NoCall]
    /\ UNCHANGED ledger

\* The sum starts again; a call under way is recorded in the new month.
NewMonth ==
    /\ ledger' = 0
    /\ billed' = 0
    /\ losses' = 0
    /\ UNCHANGED call

CostInit ==
    /\ ledger = 0
    /\ call = [c \in Callers |-> NoCall]
    /\ billed = 0
    /\ losses = 0

CostNext ==
    \/ \E c \in Callers, e \in Estimates : Check(c, e)
    \/ \E c \in Callers, cost \in Costs : Answer(c, cost)
    \/ \E c \in Callers, bill, guess \in Costs : Raised(c, bill, guess)
    \/ \E c \in Callers : Note(c)
    \/ \E c \in Callers : RecordCost(c)
    \/ \E c \in Callers, bill \in Costs : Crash(c, bill)
    \/ NewMonth

CostSpec == CostInit /\ [][CostNext]_costVars

-----------------------------------------------------------------------------

\* The types of the ledger and of the calls under way.
CostTypeOK ==
    /\ ledger \in Nat
    /\ call \in [Callers -> Call \union {NoCall}]
    /\ billed \in Nat
    /\ losses \in 0 .. MaxLosses

(***************************************************************************)
(* The guard reads the ledger and reserves nothing, so the cap can be      *)
(* passed; but only by what was under way when it was reached, one call of *)
(* each process.                                                           *)
(***************************************************************************)
Slack == MaxCost * Cardinality(Callers)

LedgerBounded == Cap > 0 => ledger <= Cap + Slack

(***************************************************************************)
(* The bill itself, of which the ledger is only the record: beyond that    *)
(* slack it exceeds the cap only by the calls whose cost was lost with a   *)
(* process or with a response.                                             *)
(***************************************************************************)
BillBounded == Cap > 0 => billed <= Cap + Slack + MaxCost * losses

=============================================================================
