----------------------------- MODULE VrpSolver -----------------------------
(***************************************************************************)
(* How the VRP service (vrp_solver_service/solver.py) turns places and     *)
(* constraints into days: preprocessing (planner/preprocessing), the walk  *)
(* limits of the days, the commute between two places, what the CP-SAT     *)
(* model demands of a schedule, and which place the greedy heuristic may   *)
(* take next.  The heuristic itself is a loop of TripPlanner.              *)
(*                                                                         *)
(* Times are minutes of a day, distances kilometres along a line, money in *)
(* yuan, scores in hundredths.  A place is a record                        *)
(*   [id, cat, km, score, price, dur, min, max, open, close, walk, period, *)
(*    tags, peak]                                                          *)
(* and constraints are a record                                            *)
(*   [days, start, end, transit, walk, budget, food, rest, must, mode,     *)
(*    meals, traveller, recovery, interests, eps]                          *)
(* with budget 0 for none, meals 0 unless restaurants are asked for and    *)
(* recovery NotGiven for none;                                             *)
(* eps are the bounds [preference, peak, walk, cost] of whole schedules.   *)
(***************************************************************************)
EXTENDS Naturals, Integers, Sequences, FiniteSets, SequencesExt, FiniteSetsExt

DayStart == 8 * 60
DayEnd == 18 * 60
MaxPoiPerDay == 5

\* What is said of a place comes with its numbers.
ArePlaces(ps) ==
  /\ Len(ps) \in Nat /\ ps = [i \in 1..Len(ps) |-> ps[i]]
  /\ \A i \in DOMAIN ps:
       /\ {"id", "cat", "km", "score", "price", "dur", "min", "max", "open", "close", "walk",
           "period"} \subseteq DOMAIN ps[i]
       /\ {ps[i].km, ps[i].price, ps[i].dur, ps[i].min, ps[i].max, ps[i].walk} \subseteq Int

Lower(a, b) == IF a <= b THEN a ELSE b
Higher(a, b) == IF a >= b THEN a ELSE b
OrElse(value, default) == IF value = 0 THEN default ELSE value

Start(c) == OrElse(c.start, DayStart)
End(c) == OrElse(c.end, DayEnd)

-----------------------------------------------------------------------------
(* Preprocessing.                                                          *)

\* The window that is best for a place narrows its opening hours.
Window(p) ==
  CASE p.period = "evening" -> [p EXCEPT !.open = Higher(@, 16 * 60)]
    [] p.period = "morning" -> [p EXCEPT !.close = Lower(@, 12 * 60)]
    [] p.period = "night" -> [p EXCEPT !.open = Higher(@, 18 * 60), !.close = Lower(@, 23 * 60)]
    [] OTHER -> p

Adjusted(p, mode) ==
  Window([p EXCEPT !.dur = CASE mode = "quick" -> Higher(p.min, 15)
                             [] mode = "deep" -> Lower(p.max, 480)
                             [] OTHER -> Higher(p.min, Lower(p.max, @))])

\* One place to eat per meal and day; all of them share a name.
Meal(c, m) ==
  LET window == IF m = 1 THEN <<690, 810>> ELSE <<1050, 1200>>
  IN  [id |-> "__meal", cat |-> "restaurant", km |-> 0, score |-> 50,
       price |-> c.food \div (c.days * Lower(c.meals, 2)), dur |-> window[2] - window[1],
       min |-> 15, max |-> 240, open |-> window[1], close |-> window[2], walk |-> 0,
       period |-> "none", tags |-> {}, peak |-> FALSE]

Meals(c) ==
  LET m == Lower(c.meals, 2) IN [i \in 1..(c.days * m) |-> Meal(c, ((i - 1) % m) + 1)]

\* The hotel is the first node and at no distance from any other.
Hotel == 1

InjectHotel(places) ==
  <<[id |-> "__hotel", cat |-> "hotel", km |-> 0, score |-> 0, price |-> 0, dur |-> 0,
     min |-> 15, max |-> 240, open |-> 0, close |-> 1439, walk |-> 0, period |-> "none",
     tags |-> {}, peak |-> FALSE]>> \o places

Preprocessed(places, c) ==
  InjectHotel([i \in DOMAIN places |-> Adjusted(places[i], c.mode)] \o
              (IF c.meals = 0 THEN <<>> ELSE Meals(c)))

Real(nodes) == (1..Len(nodes)) \ {Hotel}

-----------------------------------------------------------------------------
(* The commute.                                                            *)

Km(a, b) == IF a.km >= b.km THEN a.km - b.km ELSE b.km - a.km

Mode(a, b) ==
  LET km == Km(a, b)
  IN  CASE km <= 1 -> "walk"
        [] km > 1 /\ km <= 5 -> IF b.cat \in {"nature", "suburb"} THEN "taxi" ELSE "subway"
        [] km > 5 /\ km <= 20 -> "taxi"
        [] OTHER -> "drive"

\* Kilometres an hour (times ten), and fen for a kilometre and for the ride.
Speed == [walk |-> 45, subway |-> 250, taxi |-> 400, drive |-> 400]
Fare == [walk |-> <<0, 0>>, subway |-> <<200, 50>>, taxi |-> <<250, 0>>, drive |-> <<150, 0>>]

Estimate(a, b) ==
  LET mode == Mode(a, b)
  IN  [minutes |-> Higher(1, (Km(a, b) * 600) \div Speed[mode]),
       fen |-> Fare[mode][2] + Km(a, b) * Fare[mode][1]]

Travel(nodes, i, j) ==
  IF i = j \/ Hotel \in {i, j} THEN 0 ELSE Estimate(nodes[i], nodes[j]).minutes

Ride(nodes, i, j) == IF i = j \/ Hotel \in {i, j} THEN 0 ELSE Estimate(nodes[i], nodes[j]).fen

-----------------------------------------------------------------------------
(* How much walking each day allows, in the unit of walk_intensity.        *)

Recovery == [family_elder |-> 70, family_kid |-> 50, adult |-> 35, solo |-> 35,
             couple |-> 35, friends |-> 30, young |-> 25]

\* A request may bring its own rate, in hundredths.
NotGiven == -1
Rate(c) == IF c.recovery = NotGiven THEN Recovery[c.traveller] ELSE c.recovery

\* Constraints of a trip of at least one day.
AreConstraints(c) ==
  /\ c.days \in Nat \ {0}
  /\ {c.start, c.end, c.transit, c.budget, c.food, c.rest, c.meals} \subseteq Nat
  /\ c.walk \in Int
  /\ c.traveller \in DOMAIN Recovery /\ c.recovery \in Nat \cup {NotGiven}

\* Fatigue is kept in ten-thousandths.
Whole == 10000

WalkLimits(c) ==
  LET base == IF c.walk <= 0 THEN 8 ELSE c.walk
      after[d \in 0..c.days] ==
        IF d = 0 THEN [limit |-> 0, fatigue |-> 0, streak |-> 0]
        ELSE LET rested == (Rate(c) * after[d - 1].fatigue) \div 100
                 able == Higher(Whole, base * Whole - rested)
                 forced == after[d - 1].streak >= 2
                 limit == Higher(1, (IF forced THEN Lower(able, base * 4000) ELSE able) \div Whole)
             IN  [limit |-> limit,
                  fatigue |-> rested + limit * Whole,
                  streak |-> IF 10 * limit < 8 * base THEN 0
                             ELSE IF forced THEN 1 ELSE after[d - 1].streak + 1]
  IN  [d \in 1..c.days |-> after[d].limit]

-----------------------------------------------------------------------------
(* Sums over a day: a sequence of visits [node, from].                     *)

Sum(values) == FoldLeft(LAMBDA a, b: a + b, 0, values)
Price(nodes, today) == Sum([v \in DOMAIN today |-> nodes[today[v].node].price])
Walk(nodes, today) == Sum([v \in DOMAIN today |-> nodes[today[v].node].walk])
Stay(nodes, today) == Sum([v \in DOMAIN today |-> nodes[today[v].node].dur])
Where(today) == IF today = <<>> THEN Hotel ELSE Last(today).node
Now(nodes, c, today) ==
  IF today = <<>> THEN Start(c) ELSE Last(today).from + nodes[Last(today).node].dur

\* A budget is split evenly over the days.
Affordable(c, amount) == c.budget = 0 \/ amount * c.days <= c.budget

-----------------------------------------------------------------------------
(* The greedy heuristic.                                                   *)

\* Mutant: walking is not added up over the day.
Fits_fresh(nodes, c, limits, day, today, i) ==
  LET travel == Travel(nodes, Where(today), i) IN
  /\ travel <= c.transit
  /\ Now(nodes, c, today) + travel + nodes[i].dur <= End(c)
  /\ Stay(nodes, today) + nodes[i].dur + travel + c.rest <= End(c) - Start(c)
  /\ Affordable(c, Price(nodes, today) + nodes[i].price)
  /\ nodes[i].walk <= limits[day]

\* Mutant: a day's walking stays short of its limit.
Fits_short(nodes, c, limits, day, today, i) ==
  LET travel == Travel(nodes, Where(today), i) IN
  /\ travel <= c.transit
  /\ Now(nodes, c, today) + travel + nodes[i].dur <= End(c)
  /\ Stay(nodes, today) + nodes[i].dur + travel + c.rest <= End(c) - Start(c)
  /\ Affordable(c, Price(nodes, today) + nodes[i].price)
  /\ Walk(nodes, today) + nodes[i].walk < limits[day]

\* Node i can follow what today already holds.  The rest of the day counts
\* the stays, the leg to i, and none of the earlier legs.
Fits(nodes, c, limits, day, today, i) ==
  LET travel == Travel(nodes, Where(today), i) IN
  /\ travel <= c.transit
  /\ Now(nodes, c, today) + travel + nodes[i].dur <= End(c)
  /\ Stay(nodes, today) + nodes[i].dur + travel + c.rest <= End(c) - Start(c)
  /\ Affordable(c, Price(nodes, today) + nodes[i].price)
  /\ Walk(nodes, today) + nodes[i].walk <= limits[day]

Worth(nodes, c, i) == nodes[i].score + (IF nodes[i].id \in c.must THEN 50 ELSE 0)

\* The best of the places that fit; which of two equally good ones is the
\* order of a Python set.
Best(nodes, c, fitting) ==
  {i \in fitting: \A j \in fitting: Worth(nodes, c, j) <= Worth(nodes, c, i)}

Visit(nodes, c, today, i) ==
  [node |-> i, from |-> Now(nodes, c, today) + Travel(nodes, Where(today), i)]

-----------------------------------------------------------------------------
(* The CP-SAT model.  A schedule gives each day a circuit through the      *)
(* hotel, written as the sequence of the nodes it visits, and an arrival   *)
(* for each node: 0 for those it does not visit.                           *)

\* Constraint 4 makes an arrival on the circuit what commuting makes it,
\* and the hotel's the start of the day.
Arrivals(nodes, c, route) ==
  LET reached[k \in 0..Len(route)] ==
        IF k = 0 THEN Start(c)
        ELSE LET from == IF k = 1 THEN Hotel ELSE route[k - 1]
             IN  reached[k - 1] + nodes[from].dur + Travel(nodes, from, route[k])
  IN  [i \in 1..Len(nodes) |->
         IF i = Hotel THEN Start(c)
         ELSE IF i \in Range(route) THEN reached[CHOOSE k \in DOMAIN route: route[k] = i]
         ELSE 0]

\* The nodes of the circuit in order, the hotel at both ends.
Arcs(route) ==
  IF route = <<>> THEN {}
  ELSE {<<Hotel, route[1]>>, <<Last(route), Hotel>>}
         \cup {<<route[k], route[k + 1]>> : k \in 1..(Len(route) - 1)}

Propagates(nodes, c, route) ==
  LET a == Arrivals(nodes, c, route)
      big == Max({Travel(nodes, i, j) : i, j \in 1..Len(nodes)})
               + Max({nodes[i].dur : i \in 1..Len(nodes)})
  IN  /\ \A i \in 1..Len(nodes): a[i] <= End(c)
      /\ \A i, j \in 1..Len(nodes):
           i # j /\ Travel(nodes, i, j) > c.transit => <<i, j>> \notin Arcs(route)
      /\ \A i, j \in 1..Len(nodes): i # j /\ Travel(nodes, i, j) <= c.transit =>
           LET reaches == a[i] + nodes[i].dur + Travel(nodes, i, j)
               slack == IF <<i, j>> \in Arcs(route) THEN 0 ELSE big
           IN  reaches - slack <= a[j] /\ a[j] <= reaches + slack

Open(nodes, c, route) ==
  LET a == Arrivals(nodes, c, route)
  IN  \A i \in Range(route): a[i] >= nodes[i].open /\ a[i] + nodes[i].dur <= nodes[i].close

Legs(nodes, route) ==
  Sum([k \in 1..(Len(route) - 1) |-> Travel(nodes, route[k], route[k + 1])])

Rides(nodes, route) ==
  Sum([k \in 1..(Len(route) - 1) |-> Ride(nodes, route[k], route[k + 1]) \div 100])

DayCost(nodes, c, route) ==
  c.food + Sum([k \in DOMAIN route |-> nodes[route[k]].price]) + Rides(nodes, route)

\* Round a circuit, constraint 4 makes the stays and rides add up to the
\* difference of the hotel's arrival and itself, so only places where one
\* stays no time can be on it.
DayRoutes(nodes, c, limit) ==
  {route \in SeqOf({i \in Real(nodes): nodes[i].dur = 0}, MaxPoiPerDay):
     /\ IsInjective(route)
     /\ Propagates(nodes, c, route)
     /\ Open(nodes, c, route)
     /\ Sum([k \in DOMAIN route |-> nodes[route[k]].dur]) + Legs(nodes, route) + c.rest
          <= End(c) - Start(c)
     /\ Sum([k \in DOMAIN route |-> nodes[route[k]].walk]) <= limit
     /\ Affordable(c, DayCost(nodes, c, route))}

\* The first node that a must-visit name means.
Musts(nodes, c) ==
  {i \in Real(nodes): /\ nodes[i].id \in c.must
                      /\ \A j \in Real(nodes): nodes[j].id = nodes[i].id => i <= j}

\* What a day may cost in the model, which bounds its variables.
MostADay == 100000

\* A place counts for more when it is what the traveller is interested in.
Preference(p, c) == Lower(100, p.score + 10 * Cardinality(p.tags \cap c.interests))

(* The epsilon constraints: how much the walking of the days may differ,   *)
(* what the dearest day may cost, how much the places must be worth        *)
(* together, and how many of them may be at their peak.                    *)
Balanced(nodes, c, days) ==
  LET walked == [d \in 1..c.days |-> Sum([k \in DOMAIN days[d] |-> nodes[days[d][k]].walk])]
      visited == UNION {Range(days[d]) : d \in 1..c.days}
      pairs == {p \in (1..c.days) \X (1..c.days): p[1] < p[2]}
  IN  /\ MapThenSumSet(LAMBDA p: Higher(walked[p[1]] - walked[p[2]], walked[p[2]] - walked[p[1]]),
                       pairs) <= c.eps.walk
      /\ \A d \in 1..c.days: DayCost(nodes, c, days[d]) <= Lower(MostADay, c.eps.cost)
      /\ MapThenSumSet(LAMBDA i: Preference(nodes[i], c), visited) >= c.eps.preference
      /\ 100 * Cardinality({i \in visited: nodes[i].peak}) <= c.eps.peak

\* Every place at most once, and the must-visit ones exactly once.  The
\* total counts the rides twice.
Schedules(nodes, c, limits) ==
  LET routes == [d \in 1..c.days |-> DayRoutes(nodes, c, limits[d])]
      Total(days) == Sum([d \in 1..c.days |-> DayCost(nodes, c, days[d]) + Rides(nodes, days[d])])
  IN  {days \in [1..c.days -> UNION Range(routes)]:
         /\ \A d \in 1..c.days: days[d] \in routes[d]
         /\ \A d, e \in 1..c.days: d # e => Range(days[d]) \cap Range(days[e]) = {}
         /\ Musts(nodes, c) \subseteq UNION {Range(days[d]) : d \in 1..c.days}
         /\ c.budget = 0 \/ Total(days) <= c.budget
         /\ Balanced(nodes, c, days)}

\* What _extract_schedule makes of a solution.
Extracted(nodes, c, days) ==
  [d \in 1..c.days |-> [k \in DOMAIN days[d] |->
     [node |-> days[d][k], from |-> Arrivals(nodes, c, days[d])[days[d][k]]]]]

-----------------------------------------------------------------------------
(* Which of the two is used.                                               *)

UsesGreedy(strategy, nodes, c) ==
  \/ strategy = "greedy"
  \/ strategy = "auto" /\ Cardinality(Real(nodes)) <= 15 /\ c.days <= 3
=============================================================================
