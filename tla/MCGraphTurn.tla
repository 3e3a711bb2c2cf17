---------------------------- MODULE MCGraphTurn ----------------------------
(* Instances of GraphTurn for the model checker.                           *)
EXTENDS GraphTurn

CONSTANTS Faults, Conflicted, Restarts  \* the budget of each disturbance

MCBudget == [d \in Disturbances |->
               CASE d = "fault" -> Faults [] d = "conflict" -> Conflicted
                 [] d = "restart" -> Restarts]

\* Nothing in the code stores flags, but it reads those that are there.
MCOwn == [f \in Flags |-> Unset]
MCSimilar == <<[f \in Flags |-> "yes"], [f \in Flags |-> Unset]>>

Palace == [name |-> "palace", price |-> 60, from |-> 540, to |-> 660, ride |-> 30,
           spent |-> 60, shopping |-> FALSE, words |-> {}]
Market == [Palace EXCEPT !.name = "market", !.price = Unknown, !.spent = 0, !.shopping = TRUE]

\* An unremarkable day, one of shopping, and one with a swim in the wild.
MCItineraries == {<<<<Palace>>>>, <<<<Palace, Market>>, <<Market>>>>,
                  <<<<>>, <<[Palace EXCEPT !.words = {"unsafe"}]>>>>}

MCDatabaseRows == {[n \in {} |-> 0],
                   [n \in {"palace"} |-> [closed |-> FALSE, price |-> 120]]}

Nothing == [candidates |-> {}, found |-> <<>>, famous |-> {}, km |-> 20,
            garbled |-> {}, fails |-> {}]

Found(hours) == [n \in {"palace"} |-> <<[name |-> "palace", price |-> 60, hours |-> hours]>>]

\* Places that the search finds, one that must be reserved, one that breaks
\* the JSON, and a tool that raises.
MCSources ==
  {Nothing,
   [Nothing EXCEPT !.found = Found(<<480, 1080>>), !.candidates = {"market"}],
   [Nothing EXCEPT !.found = Found(<<600>>), !.famous = {"palace"}, !.garbled = {"market"},
                   !.fails = {"get_route"}]}

MCSayings == {{}, {"tour"}}

\* No spreadsheet can be written.
MCExports == {[pdf |-> TRUE, excel |-> FALSE, key |-> TRUE]}
=============================================================================
