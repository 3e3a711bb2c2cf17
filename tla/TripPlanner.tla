---------------------------- MODULE TripPlanner ----------------------------
(***************************************************************************)
(* The planning node of the graph (graph/node_impl.py, _planner_async) and *)
(* the VRP service it calls: where the candidate places of a trip come     *)
(* from, how they are made up to a minimum, who solves the request, and    *)
(* the greedy heuristic place by place.  The service also answers requests *)
(* posted to it directly.                                                  *)
(*                                                                         *)
(* One request is followed from start to end; requests share nothing.      *)
(***************************************************************************)
EXTENDS VrpSolver, PlaceSearch, Proposal

CONSTANTS
  Turns,         \* profiles and slots with which the node is reached
  KnowledgeBase, \* the table of the places in the database, best first
  ByHeart,       \* the few places of each city the retrieval knows by heart
  Searches,      \* how the searches of the knowledge base rank it and end
  Described,     \* the places that have a text of their own
  Requests,      \* requests posted to the service directly
  CityDefaults,  \* the built-in places of each city
  Minimal,       \* the minimal list of each city
  Worlds,        \* what the place search can meet
  AmapReplies    \* the pages of attractions and restaurants AMap can answer

\* Not every city has places of its own.
Of(lists, city) == IF city \in DOMAIN lists THEN lists[city] ELSE <<>>

ASSUME TurnsAssumption ==
  \A t \in Turns: {t.days, t.budget, t.meals, t.walk, t.transit} \subseteq Nat

ASSUME RequestsAssumption ==
  \A r \in Requests: ArePlaces(r.places) /\ AreConstraints(r.c)

\* Whatever answers, answers with places; that it does so of a search is
\* said of its result, which ranks and filters what the source holds.
ASSUME RetrievalAssumption ==
  \A t \in Turns, s \in Searches: ArePlaces(Retrieved(KnowledgeBase, t, s, ByHeart))

\* Places of one name are of one kind.
ASSUME DefaultsAssumption ==
  \A city \in DOMAIN CityDefaults:
    LET ps == CityDefaults[city]
    IN  ArePlaces(ps) /\ \A i, j \in DOMAIN ps: ps[i].id = ps[j].id => ps[i].cat = ps[j].cat

ASSUME WorldsAssumption ==
  \A t \in Turns, w \in Worlds:
    LET builtin == BuiltinPois(Of(CityDefaults, t.city), Of(Minimal, t.city))
    IN  ~Late(w, builtin) => ArePlaces(QueryPois(w, builtin, t.interests))

ASSUME AmapAssumption ==
  \A r \in AmapReplies: ArePlaces(SearchPois(r.attractions)) /\ ArePlaces(SearchPois(r.restaurants))

VARIABLES
  at,      \* where the request is
  turn,    \* what the node was asked
  c,       \* the constraints
  places,  \* the candidates
  nodes,   \* the candidates as the solver sees them, the hotel first
  days,    \* the days that are finished
  today,   \* the visits of the day being filled
  status,  \* the solver's word for what it did
  wrote,   \* the number of days put into words
  text     \* the last of them

vars == <<at, turn, c, places, nodes, days, today, status, wrote, text>>

NoTurn == [city |-> "", days |-> 0, budget |-> 0, companions |-> "adult", elderly |-> FALSE,
           children |-> FALSE, wheelchair |-> FALSE, restaurants |-> FALSE, meals |-> 0,
           must |-> {}, avoid |-> {}, style |-> {}, walk |-> 0, transit |-> 0, interests |-> {}]

\* EpsilonConfig: bounds that nothing reaches.
NoBounds == [preference |-> 0, peak |-> 100000, walk |-> 100000, cost |-> 100000]

NoConstraints ==
  [days |-> 0, start |-> 0, end |-> 0, transit |-> 0, walk |-> 0, budget |-> 0, food |-> 0,
   rest |-> 0, must |-> {}, mode |-> "standard", meals |-> 0, traveller |-> "adult",
   recovery |-> NotGiven, interests |-> {}, eps |-> NoBounds]

Init ==
  /\ at = "idle"
  /\ turn = NoTurn
  /\ c = NoConstraints
  /\ places = <<>>
  /\ nodes = <<>>
  /\ days = <<>>
  /\ today = <<>>
  /\ status = ""
  /\ wrote = 0
  /\ text = FallbackProposal(<<>>)

-----------------------------------------------------------------------------
(* Places, by where they come from.                                        *)

MaxKnowledge == 30

\* What the knowledge base says of its rating and its hours is dropped.
ByRetrieval(p) == [p EXCEPT !.score = 50, !.dur = OrElse(@, 120), !.open = DayStart,
                            !.close = DayEnd, !.walk = OrElse(@, 3), !.period = "none"]

ByQuery(p) == [p EXCEPT !.dur = 120, !.open = DayStart, !.close = DayEnd, !.walk = 1,
                        !.period = "none"]

\* A built-in place is open at its best time of day.
Hours == [morning |-> <<480, 840>>, evening |-> <<960, 1320>>, night |-> <<1080, 1380>>,
          none |-> <<480, 1320>>]

ByDefaults(p) == [p EXCEPT !.dur = OrElse(@, 120), !.walk = 3, !.period = "none",
                           !.open = Hours[p.period][1], !.close = Hours[p.period][2]]

ByAmap(p) == [p EXCEPT !.score = 70, !.dur = 120, !.open = DayStart, !.close = DayEnd,
                       !.walk = 2, !.period = "none"]

Each(convert(_), ps) == [i \in DOMAIN ps |-> convert(ps[i])]

Attractions(ps) == {i \in DOMAIN ps: ps[i].cat = "attraction"}
Names(ps) == {ps[i].id : i \in DOMAIN ps}

\* AMap is asked for attractions, and for restaurants only when wanted.
AmapSupplement(reply, attractions, total, restaurants) ==
  Each(ByAmap, (IF attractions > 0 THEN SearchPois(reply.attractions) ELSE <<>>)
                 \o (IF restaurants /\ total > 0 THEN SearchPois(reply.restaurants) ELSE <<>>))

-----------------------------------------------------------------------------
(* Making the candidates up to a minimum.                                  *)

TravelDays == OrElse(turn.days, 1)
MinAttractions == Higher(6, TravelDays * 2)
MinTotal == IF turn.restaurants THEN Higher(8, TravelDays * 3) ELSE MinAttractions

Short(need, have) == IF have >= need THEN 0 ELSE need - have

\* Places with a name that is not there yet, of all kinds or attractions only.
Fresh(known, ps, all) ==
  FoldLeft(LAMBDA s, p: IF p.id \notin known \cup Names(s) /\ (all \/ p.cat = "attraction")
                        THEN Append(s, p) ELSE s,
           <<>>, ps)

BuiltIn == Fresh(Names(places), Each(ByDefaults, Of(CityDefaults, turn.city)), turn.restaurants)

Supplied(reply) ==
  LET attractions == Short(MinAttractions, Cardinality(Attractions(places))
                                             + Cardinality(Attractions(BuiltIn)))
      total == Short(MinTotal, Len(places) + Len(BuiltIn))
      more == AmapSupplement(reply, attractions, total, turn.restaurants)
  IN  BuiltIn \o (IF attractions > 0 \/ total > 0
                  THEN Fresh(Names(places) \cup Names(BuiltIn), more, TRUE) ELSE <<>>)

\* Mutant: the selection stops when either need is met.
Selected_either(added) ==
  FoldLeft(LAMBDA s, p:
             IF s.attractions = 0 \/ s.total = 0 THEN s
             ELSE IF p.cat = "attraction"
             THEN [s EXCEPT !.taken = Append(@, p), !.attractions = @ - 1]
             ELSE [s EXCEPT !.taken = Append(@, p), !.total = @ - 1],
           [taken |-> <<>>, attractions |-> Short(MinAttractions, Cardinality(Attractions(places))),
            total |-> Short(MinTotal, Len(places))],
           added).taken

\* An attraction is taken against the need for attractions, another place
\* against the need for places.
Selected(added) ==
  FoldLeft(LAMBDA s, p:
             IF p.cat = "attraction" /\ s.attractions > 0
             THEN [s EXCEPT !.taken = Append(@, p), !.attractions = @ - 1]
             ELSE IF p.cat # "attraction" /\ s.total > 0
             THEN [s EXCEPT !.taken = Append(@, p), !.total = @ - 1]
             ELSE s,
           [taken |-> <<>>, attractions |-> Short(MinAttractions, Cardinality(Attractions(places))),
            total |-> Short(MinTotal, Len(places))],
           added).taken

Sufficient == Cardinality(Attractions(places)) >= MinAttractions /\ Len(places) >= MinTotal

-----------------------------------------------------------------------------
(* The request.                                                            *)

\* Elderly and children walk less, and the elderly ride less.
WalkMinutes ==
  Lower(OrElse(turn.walk, 180), IF turn.children THEN 90 ELSE IF turn.elderly THEN 120 ELSE 180)
TransitMinutes == Lower(OrElse(turn.transit, 120), IF turn.elderly THEN 60 ELSE 120)

Traveller(companions) ==
  CASE companions = "alone" -> "solo"
    [] companions = "family" -> "family_kid"
    [] companions = "parents" -> "family_elder"
    [] companions \in {"solo", "couple", "friends", "young"} -> companions
    [] OTHER -> "adult"

Constraints ==
  [days |-> TravelDays, start |-> DayStart, end |-> DayEnd, transit |-> TransitMinutes,
   walk |-> Higher(1, (WalkMinutes * 45) \div 600), budget |-> turn.budget, food |-> 100,
   rest |-> 60, must |-> turn.must, mode |-> "standard",
   meals |-> IF turn.restaurants THEN turn.meals ELSE 0,
   traveller |-> Traveller(turn.companions), recovery |-> NotGiven,
   interests |-> turn.interests, eps |-> NoBounds]

-----------------------------------------------------------------------------
(* The planning node.                                                      *)

AskNowhere(t) ==
  /\ at = "idle"
  /\ t.city = ""
  /\ turn' = t
  /\ at' = "clarify"
  /\ UNCHANGED <<c, places, nodes, days, today, status, wrote, text>>

\* The node before this one has searched the knowledge base.
Ask(t, s) ==
  /\ at = "idle"
  /\ t.city # ""
  /\ turn' = t
  /\ places' = Each(ByRetrieval, First(MaxKnowledge,
                                         Retrieved(KnowledgeBase, t, s, ByHeart)))
  /\ at' = IF places' = <<>> THEN "query" ELSE "ensure"
  /\ UNCHANGED <<c, nodes, days, today, status, wrote, text>>

\* Nothing was retrieved: the search for places, under three seconds.
Queried(found) ==
  /\ at = "query"
  /\ places' = Each(ByQuery, found)
  /\ at' = IF found = <<>> THEN "last" ELSE "ensure"
  /\ UNCHANGED <<turn, c, nodes, days, today, status, wrote, text>>

Query(w) ==
  LET builtin == BuiltinPois(Of(CityDefaults, turn.city), Of(Minimal, turn.city))
  IN  ~Late(w, builtin) /\ Queried(QueryPois(w, builtin, turn.interests))

QueryRaises == Queried(Of(CityDefaults, turn.city))

LastResort(reply) ==
  /\ at = "last"
  /\ places' = AmapSupplement(reply, MinAttractions, MinTotal, turn.restaurants)
  /\ at' = IF places' = <<>> THEN "respond" ELSE "ensure"
  /\ UNCHANGED <<turn, c, nodes, days, today, status, wrote, text>>

Ensure(reply) ==
  /\ at = "ensure"
  /\ places' = IF Sufficient THEN places ELSE places \o Selected(Supplied(reply))
  /\ c' = Constraints
  /\ at' = "request"
  /\ UNCHANGED <<turn, nodes, days, today, status, wrote, text>>

\* The heuristic on a request as it is: nothing but the hotel is added.
GreedySolve(ps, word) ==
  /\ nodes' = InjectHotel(ps)
  /\ status' = word
  /\ at' = "greedy"

\* The service is down, answers with an error, or not within 30 seconds.
SolveLocally ==
  /\ at = "request"
  /\ GreedySolve(places, "local_fallback")
  /\ UNCHANGED <<turn, c, places, days, today, wrote, text>>

-----------------------------------------------------------------------------
(* The service.                                                            *)

Solve(strategy, ps, cs) ==
  /\ nodes' = Preprocessed(ps, cs)
  /\ IF UsesGreedy(strategy, nodes', cs)
     THEN at' = "greedy" /\ status' = "fallback"
     ELSE at' = "cpsat" /\ UNCHANGED status

SolveRemotely ==
  /\ at = "request"
  /\ Solve("auto", places, c)
  /\ UNCHANGED <<turn, c, places, days, today, wrote, text>>

Post(r) ==
  /\ at = "idle"
  /\ r.places # <<>>
  /\ places' = r.places
  /\ c' = r.c
  /\ Solve(r.strategy, r.places, r.c)
  /\ UNCHANGED <<turn, days, today, wrote, text>>

\* A request without places is answered with 422.
Reject(r) ==
  /\ at = "idle"
  /\ r.places = <<>>
  /\ at' = "rejected"
  /\ UNCHANGED <<turn, c, places, nodes, days, today, status, wrote, text>>

\* CP-SAT finds a schedule, not necessarily the best.
Scheduled ==
  /\ at = "cpsat"
  /\ \E s \in Schedules(nodes, c, WalkLimits(c)): days' = Extracted(nodes, c, s)
  /\ status' = "optimal"
  /\ at' = "scheduled"
  /\ UNCHANGED <<turn, c, places, nodes, today, wrote, text>>

\* There is none, or none was found in time: the heuristic fills in, and
\* the answer still says optimal.
Unscheduled ==
  /\ at = "cpsat"
  /\ status' = "optimal"
  /\ at' = "greedy"
  /\ UNCHANGED <<turn, c, places, nodes, days, today, wrote, text>>

SchedulingRaises ==
  /\ at = "cpsat"
  /\ status' = "fallback"
  /\ at' = "greedy"
  /\ UNCHANGED <<turn, c, places, nodes, days, today, wrote, text>>

-----------------------------------------------------------------------------
(* The heuristic.                                                          *)

Visited(day) == {day[k].node : k \in DOMAIN day}
Left == Real(nodes) \ (Visited(today) \cup UNION {Visited(days[d]) : d \in DOMAIN days})

Fitting ==
  IF Len(today) >= MaxPoiPerDay THEN {}
  ELSE {i \in Left: Fits(nodes, c, WalkLimits(c), Len(days) + 1, today, i)}

Take(i) ==
  /\ at = "greedy"
  /\ i \in Best(nodes, c, Fitting)
  /\ today' = Append(today, Visit(nodes, c, today, i))
  /\ UNCHANGED <<at, turn, c, places, nodes, days, status, wrote, text>>

EndDay ==
  /\ at = "greedy"
  /\ Fitting = {}
  /\ days' = Append(days, today)
  /\ today' = <<>>
  /\ at' = IF Len(days') = c.days THEN "planned" ELSE "greedy"
  /\ UNCHANGED <<turn, c, places, nodes, status, wrote, text>>

-----------------------------------------------------------------------------
(* The plan of a turn is put into words, day by day.                       *)

Draft(day) ==
  [k \in DOMAIN day |->
     LET id == nodes[day[k].node].id
     IN  [id |-> id, from |-> day[k].from, why |-> IF id \in Described THEN "known" ELSE ""]]

\* What the model says of a day: something of every place, and at most one
\* of them generic, blank or left out.
Batches(ids) ==
  {[id \in ids |-> "model"]}
    \cup {[id \in ids |-> IF id = odd THEN why ELSE "model"] : odd \in ids, why \in {"", "generic"}}
    \cup {[id \in ids \ {odd} |-> "model"] : odd \in ids}

Sections(draft, batches) ==
  {Section(draft, said, batch, offered, why) :
     said \in Replies, batch \in batches, offered \in BOOLEAN, why \in Reasons}

Write ==
  /\ at \in {"planned", "scheduled"}
  /\ turn # NoTurn
  /\ LET draft == Draft(days[wrote + 1])
     IN  text' \in Sections(draft, Batches({draft[k].id : k \in DOMAIN draft}))
  /\ wrote' = wrote + 1
  /\ at' = IF wrote' = Len(days) THEN "proposed" ELSE at
  /\ UNCHANGED <<turn, c, places, nodes, days, today, status>>

\* What raises on the way leaves the whole plan as it was drafted.
WritePlainly ==
  /\ at \in {"planned", "scheduled"}
  /\ turn # NoTurn
  /\ at' = "plain"
  /\ wrote' = 0
  /\ text' = FallbackProposal([d \in DOMAIN days |-> Draft(days[d])])
  /\ UNCHANGED <<turn, c, places, nodes, days, today, status>>

-----------------------------------------------------------------------------
Next ==
  \/ \E t \in Turns: AskNowhere(t) \/ \E s \in Searches: Ask(t, s)
  \/ (at = "query" /\ \E w \in Worlds: Query(w))
  \/ (at = "query" /\ QueryRaises)
  \/ \E r \in AmapReplies: LastResort(r) \/ Ensure(r)
  \/ \E r \in Requests: Post(r) \/ Reject(r)
  \/ SolveLocally \/ SolveRemotely
  \/ Scheduled \/ Unscheduled \/ SchedulingRaises
  \/ \E i \in DOMAIN nodes: Take(i)
  \/ EndDay
  \/ Write \/ WritePlainly

Spec == Init /\ [][Next]_vars

-----------------------------------------------------------------------------
(* The plan so far, today included.                                        *)
Plan == IF today = <<>> THEN days ELSE Append(days, today)

Ends(day, k) == day[k].from + nodes[day[k].node].dur

(* No day of a plan asks for more than the constraints and the traveller's *)
(* fatigue allow: the walking of a day stays within that day's limit, its  *)
(* tickets within an even share of the budget, its visits within five,     *)
(* follow each other with time for the commute, which is never longer than *)
(* the traveller accepts, and end with the day; and nobody is sent to a    *)
(* place twice.  The heuristic checks each of these against sums it keeps  *)
(* for the day (_greedy_solve, solver.py:468-536); a sum that is not kept  *)
(* up, or not started afresh, shows only on a later visit.                 *)
PlanKeepsLimits ==
  /\ \A d \in DOMAIN Plan:
       LET day == Plan[d] IN
       /\ Len(day) <= MaxPoiPerDay
       /\ Walk(nodes, day) <= WalkLimits(c)[d]
       /\ Affordable(c, Price(nodes, day))
       /\ \A k \in DOMAIN day:
            LET leg == Travel(nodes, IF k = 1 THEN Hotel ELSE day[k - 1].node, day[k].node) IN
            /\ leg <= c.transit
            /\ day[k].from = (IF k = 1 THEN Start(c) ELSE Ends(day, k - 1)) + leg
            /\ Ends(day, k) <= End(c)
  /\ \A d, e \in DOMAIN Plan: \A k \in DOMAIN Plan[d], l \in DOMAIN Plan[e]:
       Plan[d][k].node = Plan[e][l].node => d = e /\ k = l

(* Nothing that would have fitted is left out: to a finished day that has  *)
(* room for another visit, no place that the whole trip leaves out could   *)
(* be appended without breaking a limit.  The heuristic decides a day at a *)
(* time and never comes back to it (_greedy_solve, solver.py:467-541), so  *)
(* a place it passes over too early is lost to the trip.                   *)
LeavesNoRoom ==
  at = "planned" /\ wrote = 0 =>
    \A d \in DOMAIN days: \A i \in Left:
      LET day == days[d]
          longer == Append(day, Visit(nodes, c, day, i))
          k == Len(longer)
      IN  \/ k > MaxPoiPerDay
          \/ Travel(nodes, Where(day), i) > c.transit
          \/ Ends(longer, k) > End(c)
          \/ Stay(nodes, longer) + Travel(nodes, Where(day), i) + c.rest > End(c) - Start(c)
          \/ Walk(nodes, longer) > WalkLimits(c)[d]
          \/ ~Affordable(c, Price(nodes, longer))

(* The solver is asked with enough attractions whenever enough are known:  *)
(* as many as the length of the trip calls for, or all that retrieval and  *)
(* the built-in data offer.  The shortage is computed three times over     *)
(* lists that overlap by name (_ensure_sufficient_pois,                    *)
(* node_impl.py:530-596).                                                  *)
AttractionsSuffice ==
  at = "request" =>
    LET known == Of(CityDefaults, turn.city)
        unused == {known[i].id : i \in Attractions(known)} \ Names(places)
    IN  Cardinality(Attractions(places)) >=
          Lower(MinAttractions, Cardinality(Attractions(places)) + Cardinality(unused))

(* What the traveller reads is the plan: every visit of the day, in order, *)
(* at its time, and each with a reason, whatever the language model leaves *)
(* out, says in general phrases or does not answer.  The text of a day is  *)
(* put together from the answer for the whole day, from single answers and *)
(* from templates (_enrich_day_batch and enrich, writer.py:263-529).       *)
TextFitsPlan ==
  wrote > 0 =>
    /\ Len(text.lines) = Len(days[wrote])
    /\ \A k \in DOMAIN text.lines:
         /\ text.lines[k].id = nodes[days[wrote][k].node].id
         /\ text.lines[k].from = days[wrote][k].from
         /\ text.lines[k].why # ""
=============================================================================
