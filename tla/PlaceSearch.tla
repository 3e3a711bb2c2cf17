---------------------------- MODULE PlaceSearch ----------------------------
(***************************************************************************)
(* The search for places when the knowledge base has none                  *)
(* (skills/poi_search.py, called by the planner through                    *)
(* agents/realtime_query.py): for each category the built-in places of the *)
(* city, or else what the language model extracts from a web search.       *)
(*                                                                         *)
(* An item of the model's answer is [kind, place, facts]: its kind says    *)
(* whether it is "named", has a name too "short" to be one, is a "scalar"  *)
(* instead of an object, or breaks the reading, "broken"; facts are the    *)
(* details it gives.  A world is what the sources hold: open, that the     *)
(* circuit breaker refuses the search, late, the categories whose search   *)
(* outlasts the caller, and for each category found, the answers and the   *)
(* snippets its searches bring.  A search that answered is cached, so an   *)
(* answer may be an earlier one (ToolCalls has the cache).                 *)
(***************************************************************************)
EXTENDS Retrieval

PoiCategories == <<"attraction", "restaurant", "hotel", "shopping">>
EnoughPois == 10
MaxPois == 40

\* What has no coordinates lies at latitude and longitude zero.
Nowhere == 9000

\* The minimal list of a city is used when it has no detailed one.
BuiltinPois(detailed, minimal) ==
  IF detailed # <<>> THEN detailed
  ELSE [i \in DOMAIN minimal |-> [minimal[i] EXCEPT !.score = 50, !.km = Nowhere]]

InCategory(ps, category) == SelectSeq(ps, LAMBDA p: p.cat = category)

-----------------------------------------------------------------------------
(* Extraction.                                                             *)

\* One item that breaks the reading loses them all.
ParsePoiItems(items) ==
  LET named == SelectSeq(items, LAMBDA item: item.kind = "named")
  IN  IF \E i \in DOMAIN items: items[i].kind = "broken" THEN <<>>
      ELSE [i \in DOMAIN named |->
              [named[i].place EXCEPT !.km = Nowhere] @@ [facts |-> named[i].facts]]

\* The first place of each name.
UniqueNames(ps) ==
  FoldLeft(LAMBDA kept, p: IF \E i \in DOMAIN kept: kept[i].id = p.id THEN kept
                           ELSE Append(kept, p), <<>>, ps)

Bonus == [recommended_hours |-> 5, area |-> 3, best_time |-> 3, indoor_outdoor |-> 2,
          ticket_price |-> 2]

ScorePoi(p, keywords) ==
  LET AtMost(a, b) == IF a <= b THEN a ELSE b
  IN  AtMost(100, 40 + AtMost(40, 12 * Cardinality(keywords \cap p.words))
                     + FoldFunctionOnSet(LAMBDA a, b: a + b, 0, Bonus, p.facts))

ScorePois(ps, keywords) == [i \in DOMAIN ps |-> [ps[i] EXCEPT !.score = ScorePoi(ps[i], keywords)]]

\* Snippets are read only when the answers named too few places.
SearchAndExtract(found, keywords) ==
  LET answered == ParsePoiItems(found.answers)
      all == IF Len(answered) >= EnoughPois THEN answered
             ELSE answered \o ParsePoiItems(found.snippets)
      scored == ScorePois(UniqueNames(all), keywords)
      Better(i, j) == scored[i].score > scored[j].score \/ (scored[i].score = scored[j].score /\ i < j)
  IN  First(MaxPois, Ordered(scored, Better))

-----------------------------------------------------------------------------
(* The search of a city whose built-in places are builtin.                 *)

\* The sources' errors are caught where they are asked, so a search ends
\* with places, with none, or too late for whoever waits.
Late(w, builtin) ==
  ~w.open /\ \E category \in w.late: InCategory(builtin, category) = <<>>

ForCategory(w, builtin, keywords, category) ==
  IF InCategory(builtin, category) # <<>> THEN InCategory(builtin, category)
  ELSE SearchAndExtract(w.found[category], keywords)

MergedCategories(w, builtin, keywords) ==
  UniqueNames(FlattenSeq([k \in DOMAIN PoiCategories |->
                            ForCategory(w, builtin, keywords, PoiCategories[k])]))

QueryPois(w, builtin, keywords) ==
  IF w.open THEN builtin ELSE MergedCategories(w, builtin, keywords)
=============================================================================
