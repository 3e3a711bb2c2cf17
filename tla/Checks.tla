------------------------------- MODULE Checks -------------------------------
(***************************************************************************)
(* What the graph asks of an itinerary before the user sees it: the fact   *)
(* check against the database (graph/node_impl.py), the hallucination      *)
(* check against tool results (agents/hallucination_detector.py), the      *)
(* safety rules (agents/content_safety.py), and the files made of it       *)
(* (agents/output_format.py).                                              *)
(*                                                                         *)
(* An itinerary is a sequence of days, a day a sequence of activities.     *)
(* An activity is a record: name ("" for none), price, from and to (in     *)
(* minutes), ride (minutes to get there), spent (all its costs), shopping  *)
(* (it is classed or tagged so), and words, the kinds of words in its      *)
(* text: "tour" of shopping tours, "route" of forbidden areas, "unsafe",   *)
(* and "reserve".  A number may be Unknown.                                *)
(***************************************************************************)
EXTENDS Integers, Sequences, SequencesExt, FiniteSets

Unknown == -1

Activities(plan) == LET all == FlattenSeq(plan) IN {all[i] : i \in DOMAIN all}

Apart(x, y) == IF x < y THEN y - x ELSE x - y

-----------------------------------------------------------------------------
(* Facts.  The database holds [closed, price] for the names it knows.      *)

TooFar == 50

Contradicts(row, a) ==
  row.closed \/ (row.price # Unknown /\ a.price > 0 /\ Apart(row.price, a.price) > TooFar)

\* The activities are looked up in turn, until a query raises.
Conflicts(plan, rows, raisesAt) ==
  LET all == FlattenSeq(plan)
  IN  {i \in DOMAIN all: /\ i < raisesAt
                         /\ all[i].name \in DOMAIN rows
                         /\ Contradicts(rows[all[i].name], all[i])}

-----------------------------------------------------------------------------
(* Hallucinations.  The results of the tools: whether there are any, the   *)
(* names that were found, the details of some as [price, from, to], the    *)
(* durations of the routes to some, and what must be reserved.             *)

Nonexistent(a, candidates, found) == a.name \notin (candidates \cup found) \ {""}

OutOfHours(a, detail) ==
  /\ Unknown \notin {a.from, a.to, detail.from, detail.to}
  /\ a.from < detail.from \/ a.to > detail.to

\* More than 30 % off, or not free when it should be.
Overpriced(a, detail) ==
  /\ Unknown \notin {a.price, detail.price}
  /\ 10 * Apart(a.price, detail.price) > 3 * detail.price

\* More than half off the average of the routes.
Misjudged(a, routes) ==
  LET total == FoldLeft(+, 0, routes)
  IN  a.ride # Unknown /\ routes # <<>>
        /\ 2 * Apart(Len(routes) * a.ride, total) > total

Unannounced(a, reserved) == a.name \in reserved /\ "reserve" \notin a.words

\* Without an itinerary or results nothing is doubted.
Doubts(plan, candidates, r) ==
  {a \in Activities(plan):
     /\ r.any
     /\ \/ Nonexistent(a, candidates, r.found)
        \/ /\ a.name \in DOMAIN r.details
           /\ OutOfHours(a, r.details[a.name]) \/ Overpriced(a, r.details[a.name])
        \/ a.name \in DOMAIN r.routes /\ Misjudged(a, r.routes[a.name])
        \/ Unannounced(a, r.reserved)}

-----------------------------------------------------------------------------
(* Safety. *)

\* Mostly shopping, at less than 200 a day.
CheapShopping(plan) ==
  LET all == FlattenSeq(plan)
      shops == Cardinality({i \in DOMAIN all: all[i].shopping})
      spent == FoldLeft(LAMBDA s, a: s + a.spent, 0, all)
  IN  10 * shops > 4 * Len(all) /\ spent < 200 * Len(plan)

ShoppingTrip(plan, said) ==
  \/ "tour" \in said
  \/ \E a \in Activities(plan): "tour" \in a.words
  \/ CheapShopping(plan)

IllegalRoute(plan) == \E a \in Activities(plan): "route" \in a.words
UnsafeActivity(plan) == \E a \in Activities(plan): "unsafe" \in a.words

\* Of what the user says only the words of shopping tours are looked for.
Safe(plan, said) == ~(ShoppingTrip(plan, said) \/ IllegalRoute(plan) \/ UnsafeActivity(plan))

-----------------------------------------------------------------------------
(* Files.  An export says which of the libraries and keys work.            *)

GeneratePdf(e) == IF e.pdf THEN {"pdf"} ELSE {}
GenerateExcel(e) == IF e.excel THEN {"excel"} ELSE {}
GenerateMapUrl(marked, e) == IF e.key /\ marked # {} THEN {"map"} ELSE {}

\* The text itself is always there, polished or not; the map shows the places marked.
Files(marked, e) ==
  {"markdown"} \cup GeneratePdf(e) \cup GenerateExcel(e) \cup GenerateMapUrl(marked, e)
=============================================================================
