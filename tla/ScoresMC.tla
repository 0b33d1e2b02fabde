------------------------------- MODULE ScoresMC -------------------------------
(***************************************************************************)
(* The scores and the documents in small.  A behaviour moves one of them:  *)
(* their state spaces are added up and not multiplied.                     *)
(***************************************************************************)
EXTENDS ScoresProps

CONSTANT Parts   \* the parts that move in the run
VARIABLE focus   \* the one that moves in the behaviour

Log2MC == <<0, 1000, 1585, 2000, 2322, 2585, 2807, 3000, 3170, 3322,
            3459, 3585, 3700, 3807, 3907, 4000, 4087, 4170, 4248, 4322,
            4392, 4459, 4524, 4585, 4644, 4700, 4755, 4807>>

\* One item a week, and a second, of another creator, in the fifth.  Claims 6
\* and 7 are both of item 6.
DayOfMC == [i \in Items |-> IF i = 6 THEN 28 ELSE 7 * (i - 1)]
SourceOfMC == [i \in Items |-> IF i \in {2, 4} THEN "feed2" ELSE "feed1"]
CreatorOfMC == [i \in Items |-> IF i \in {2, 6} THEN "bo" ELSE "ann"]
RouteOfMC == [i \in Items |-> IF i = 6 THEN "youtube" ELSE "podcast"]
ItemOfMC == [c \in Claims |-> IF c = 7 THEN 6 ELSE c]
GroupOfMC == [e \in Entries |-> IF e = "readers" THEN "audience" ELSE "asset"]
WeightOfMC == [e \in Entries |-> CASE e = "hero" -> 90 [] e = "tail" -> 35 [] OTHER -> 100]
NamedMC == [c \in Claims |-> CASE c = 1 -> {"hero"}
                               [] c = 2 -> {"hero", "tail", "readers"}
                               [] c \in {3, 6} -> {"tail"}
                               [] OTHER -> {}]
PublishedOnMC == [o \in Observations |-> 0]
KindOfMC == [c \in Claims |-> "effect"]

Says(d, c) == IF d = 1 THEN c \in {1, 6, 7} ELSE c = 6
Writing ==
    \/ /\ \/ \E d \in Developments, c \in Claims, role \in Roles : Says(d, c) /\ Tell(d, c, role)
          \/ \E o \in Observations : Enter(o)
          \/ \E d \in Developments, o \in {1}, role \in Roles : Show(d, o, role)
          \/ \E d \in Developments : Find(d) \/ Advise(d)
       /\ UNCHANGED scoreVars
    \/ Wait(7) /\ UNCHANGED briefVars

\* Two sections, over the evidence of one development.
Asking ==
    \/ Wait(28) /\ UNCHANGED briefVars
    \/ /\ \/ \E c \in {1, 6, 7} : Tell(1, c, "supports")
          \/ \E o \in Observations : Enter(o) \/ Show(1, o, "supports")
          \/ \E cs \in SUBSET {1, 6, 7}, os \in SUBSET Observations :
                Len(outline) < 2 /\ AskFor([claims |-> cs, observations |-> os])
       /\ UNCHANGED scoreVars

\* Two candidates, and what their texts refer to.
Pitching ==
    /\ \/ \E o \in Observations : Enter(o)
       \/ \E d \in Developments, o \in Observations :
             \/ Show(d, o, "supports")
             \/ Len(written[d]) < 2 /\ Refer(d, o)
       \/ \E d \in Developments : Find(d)
    /\ UNCHANGED scoreVars

Init ==
    /\ ScoresInit /\ BriefsInit
    /\ focus \in Parts

Next ==
    /\ UNCHANGED focus
    /\ \/ focus = "scores" /\ ScoresNext /\ UNCHANGED briefVars
       \/ focus = "brief" /\ Writing
       \/ focus = "package" /\ Asking
       \/ focus = "opportunities" /\ Pitching

Spec == Init /\ [][Next]_<<scoreVars, briefVars, focus>>

=============================================================================
