---------------------------- MODULE Recommendations ----------------------------
(***************************************************************************)
(* What one client should do about a signal (apps/scoring):                *)
(* recommendations.py, the recommendation actions of views_review.py, and  *)
(* the daily run of tasks.py that drafts for the best-ranked signals.      *)
(*                                                                         *)
(* A draft reads the signal's evidence, waits on a model, and is stored if *)
(* anything grounded is left.  Edits and decisions are taken on the row a  *)
(* request loaded; the only thing the database itself enforces is that one *)
(* recommendation is open per signal.                                      *)
(***************************************************************************)
EXTENDS Signals

CONSTANTS
    MaxAdvice,     \* bound: rows
    RecommendTop   \* RECOMMEND_TOP: drafts of one daily run

ASSUME RecommendationsAssumption == MaxAdvice \in Nat \ {0} /\ RecommendTop \in Nat

VARIABLES
    advice,    \* the table of recommendations of one client
    advising   \* what each request has loaded

adviceVars == <<advice, advising>>

-----------------------------------------------------------------------------
Rows == 1 .. MaxAdvice
AdviceStates == {"proposed", "operator edited", "approved", "rejected"}
OpenAdvice == AdviceStates \ {"rejected"}
Undecided == {"proposed", "operator edited"}

NoAdvice == [signal |-> 0, state |-> "absent", claims |-> {}, observations |-> {}]
AdviceRow == [signal : Codes, state : AdviceStates,
              claims : SUBSET Claims, observations : SUBSET Observations]

\* "daily" runs carry the signals they leave alone, those they have tried, and how many they drafted or had declined.
Advising == [act : {"draft", "between", "edit", "decide", "withdraw"},
             row : Rows \cup {0}, signal : Codes \cup {0}, seen : AdviceStates,
             claims : SUBSET Claims, observations : SUBSET Observations,
             daily : BOOLEAN, past : SUBSET Codes, spent : 0 .. RecommendTop]
NotAdvising == [act |-> "none"]
Asked == [act |-> "draft", row |-> 0, signal |-> 0, seen |-> "proposed",
          claims |-> {}, observations |-> {}, daily |-> FALSE, past |-> {}, spent |-> 0]

Stored == {r \in Rows : advice[r].state # "absent"}
RowsOn(s) == {r \in Stored : advice[r].signal = s}
OpenOn(s) == {r \in RowsOn(s) : advice[r].state \in OpenAdvice}
NextRow == 1 + Cardinality(Stored)
AttachedTo(s) == {x \in Observations : attached[s][x] # NoRole}

Busy(o, act) == advising[o] # NotAdvising /\ advising[o].act = act
Leave(o) == advising' = [advising EXCEPT ![o] = NotAdvising]

\* Mutant of IndexAdmits: without one_open_recommendation_per_signal.
AnyAdmitted(r, s, state) == TRUE

\* The partial unique index, asked by every write of a state.
IndexAdmits(r, s, state) == state \in OpenAdvice => OpenOn(s) \subseteq {r}

-----------------------------------------------------------------------------
(* Drafting.                                                               *)

\* draft() as far as the model call.  No live profile, an open recommendation
\* or no evidence is refused.
CanDraft(s) ==
    /\ signal[s].state \in SignalStates
    /\ OpenOn(s) = {}
    /\ Held(s) \cup AttachedTo(s) # {}

DraftByHand(o, s) ==
    /\ advising[o] = NotAdvising /\ CanDraft(s)
    /\ advising' = [advising EXCEPT ![o] =
           [Asked EXCEPT !.signal = s, !.claims = Held(s), !.observations = AttachedTo(s)]]
    /\ UNCHANGED advice

\* recommend_top reads once which signals ever had a recommendation, and which
\* are open: the others are none of its business.
DailyStart(o) ==
    /\ advising[o] = NotAdvising
    /\ advising' = [advising EXCEPT ![o] =
           [Asked EXCEPT !.act = "between", !.daily = TRUE,
                         !.past = {s \in Codes : RowsOn(s) # {} \/ s \notin OpenSignals}]]
    /\ UNCHANGED advice

\* The next of its ranked, open signals; one draft() refuses is passed over.
DailyDraft(o, s) ==
    /\ Busy(o, "between")
    /\ advising[o].spent < RecommendTop
    /\ s \notin advising[o].past
    /\ advising' = [advising EXCEPT ![o] =
           LET tried == advising[o].past \cup {s} IN
             IF CanDraft(s)
             THEN [advising[o] EXCEPT !.act = "draft", !.signal = s, !.past = tried,
                                      !.claims = Held(s), !.observations = AttachedTo(s)]
             ELSE [advising[o] EXCEPT !.past = tried]]
    /\ UNCHANGED advice

DailyEnd(o) ==
    /\ Busy(o, "between")
    /\ advising[o].spent = RecommendTop \/ advising[o].past = Codes
    /\ Leave(o)
    /\ UNCHANGED advice

Between(run, spent) == [run EXCEPT !.act = "between", !.spent = spent,
                                   !.claims = {}, !.observations = {}, !.signal = 0]

\* Mutant of AfterDraft: a draft is counted when it is asked and when it is stored.
CountedTwice(o, spent) ==
    advising' = [advising EXCEPT ![o] =
        IF advising[o].daily THEN Between(advising[o], advising[o].spent + 2 * spent)
                             ELSE NotAdvising]

\* A draft that is over: a daily run goes on, a request is answered.
AfterDraft(o, spent) ==
    advising' = [advising EXCEPT ![o] =
        IF advising[o].daily THEN Between(advising[o], advising[o].spent + spent)
                             ELSE NotAdvising]

\* Mutant of Grounded: what an action cites is taken as it comes.
AsProposed(cs, os, claims, observations) == cs \cup os # {}

\* validate(): of what the actions cite, the claims and observations allowed
\* are kept; if no action keeps one, nothing is stored.
Grounded(cs, os, claims, observations) ==
    cs \subseteq claims /\ os \subseteq observations /\ cs \cup os # {}

Drafted(o, cs, os) ==
    /\ Busy(o, "draft") /\ NextRow \in Rows
    /\ Grounded(cs, os, advising[o].claims, advising[o].observations)
    /\ IndexAdmits(NextRow, advising[o].signal, "proposed")
    /\ advice' = [advice EXCEPT ![NextRow] =
           [signal |-> advising[o].signal, state |-> "proposed",
            claims |-> cs, observations |-> os]]
    /\ AfterDraft(o, 1)

\* Another draft of the signal was stored first: the insert breaks the index,
\* which nothing catches, and the request or the whole daily run ends.
DraftConflict(o) ==
    /\ Busy(o, "draft") /\ ~IndexAdmits(NextRow, advising[o].signal, "proposed")
    /\ Leave(o)
    /\ UNCHANGED advice

\* The model declines (counted), or fails, or nothing it said is grounded.
NotDrafted(o, declined) ==
    /\ Busy(o, "draft")
    /\ AfterDraft(o, IF declined THEN 1 ELSE 0)
    /\ UNCHANGED advice

-----------------------------------------------------------------------------
(* Operator review.                                                        *)

\* The view loads the open recommendation of the signal.
LoadAdvice(o, r, act) ==
    /\ advising[o] = NotAdvising
    /\ r \in Stored /\ advice[r].state \in OpenAdvice
    /\ advice[r].state \in (IF act = "withdraw" THEN {"approved"} ELSE Undecided)
    /\ advising' = [advising EXCEPT ![o] =
           [Asked EXCEPT !.act = act, !.row = r, !.signal = advice[r].signal,
                         !.seen = advice[r].state]]
    /\ UNCHANGED advice

\* A write of the state, refused by the index if another row is open by now.
Settle(o, state, row) ==
    /\ advice' = IF IndexAdmits(advising[o].row, advising[o].signal, state)
                 THEN [advice EXCEPT ![advising[o].row] = row] ELSE advice
    /\ Leave(o)

\* edit(): the evidence is read again, the whole row is saved.
CommitEdit(o, cs, os) ==
    /\ Busy(o, "edit")
    /\ Grounded(cs, os, Held(advising[o].signal), AttachedTo(advising[o].signal))
    /\ Settle(o, "operator edited",
              [signal |-> advising[o].signal, state |-> "operator edited",
               claims |-> cs, observations |-> os])

CommitDecide(o, verdict) ==
    /\ Busy(o, "decide") /\ verdict \in {"approved", "rejected"}
    /\ Settle(o, verdict, [advice[advising[o].row] EXCEPT !.state = verdict])

CommitWithdraw(o) ==
    /\ Busy(o, "withdraw")
    /\ Settle(o, "operator edited",
              [advice[advising[o].row] EXCEPT !.state = "operator edited"])

\* No reason given, or an edit in which no action is grounded.
RefuseAdvice(o) ==
    /\ advising[o] # NotAdvising /\ advising[o].act \in {"edit", "decide", "withdraw"}
    /\ Leave(o)
    /\ UNCHANGED advice

-----------------------------------------------------------------------------
\* What a brief would hold right now: both approvals in place.
InBrief == {r \in Stored : /\ advice[r].state = "approved"
                           /\ signal[advice[r].signal].state = "approved"}

AdviceInit ==
    /\ advice = [r \in Rows |-> NoAdvice]
    /\ advising = [o \in Requests |-> NotAdvising]

Drafting(o) ==
    \/ \E s \in Codes : DraftByHand(o, s)
    \/ DailyStart(o)
    \/ \E s \in Codes : DailyDraft(o, s)
    \/ DailyEnd(o)
    \/ \E cs \in SUBSET Claims, os \in SUBSET Observations : Drafted(o, cs, os)
    \/ DraftConflict(o)
    \/ \E declined \in BOOLEAN : NotDrafted(o, declined)

Reviewing(o) ==
    \/ \E r \in Rows, act \in {"edit", "decide", "withdraw"} : LoadAdvice(o, r, act)
    \/ \E cs \in SUBSET Claims, os \in SUBSET Observations : CommitEdit(o, cs, os)
    \/ \E verdict \in {"approved", "rejected"} : CommitDecide(o, verdict)
    \/ CommitWithdraw(o)
    \/ RefuseAdvice(o)

AdviceNext == \E o \in Requests : Drafting(o) \/ Reviewing(o)

\* Advice and the evidence it stands on: what moves one leaves the other.
GroundedNext ==
    \/ AdviceNext /\ UNCHANGED signalVars
    \/ SignalsNext /\ UNCHANGED adviceVars
GroundedSpec ==
    SignalsInit /\ AdviceInit /\ [][GroundedNext]_<<signalVars, adviceVars>>

=============================================================================
