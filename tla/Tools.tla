-------------------------------- MODULE Tools --------------------------------
(***************************************************************************)
(* The tools the graph asks about a draft (graph/nodes.py) and what their  *)
(* handlers answer (tools/tool_executor.py), as far as the hallucination   *)
(* check reads it.                                                         *)
(*                                                                         *)
(* The city is read on top of a nested profile, where it never is: the     *)
(* tools that are told of the city alone (weather, events, emergencies,    *)
(* restaurants, hotels) are never asked, and the others get "" for it.     *)
(*                                                                         *)
(* What is behind the handlers is a record s: found, the places [name,     *)
(* price, hours] a search without a city finds for a name; famous, the     *)
(* names with a word of the places to reserve; km, between the points the  *)
(* hash of two names stands for; garbled, the names that break the JSON    *)
(* they are put into; and fails, the handlers that raise.                  *)
(***************************************************************************)
EXTENDS Checks

\* The distinct names of the first six activities of the first three days.
Firsts(plan) ==
  UNION {{plan[d][k].name : k \in DOMAIN plan[d] \cap 1..6} : d \in DOMAIN plan \cap 1..3} \ {""}

\* From where the first day begins to where the last one does.
Destination(plan) ==
  IF Len(plan) >= 2 /\ Last(plan) # <<>> THEN {Head(Last(plan)).name} \ {""} ELSE {}

Sent(name, s) == IF name \in s.garbled THEN "" ELSE name

\* _build_default_tool_calls, with the place that each is told of.
Calls(plan, s) ==
  {"check_reservation", "get_poi_detail", "get_ticket_link", "get_queue_time"}
         \X {Sent(n, s) : n \in Firsts(plan)}
  \cup {"get_route"} \X {Sent(n, s) : n \in Destination(plan)}
  \cup {<<"update_user_profile", "">>}

-----------------------------------------------------------------------------
(* The handlers. *)

Candidates(name, s) == IF name \in DOMAIN s.found THEN s.found[name] ELSE <<>>

NineToFive == <<540, 1020>>

\* Opening hours that are half known cannot be read.
Hours(hours) ==
  CASE hours = <<>> -> NineToFive [] Len(hours) = 2 -> hours [] OTHER -> <<Unknown, Unknown>>

(* The first candidate, or, without one, a place of the name asked for.    *)
PoiDetail(name, s) ==
  LET c == Candidates(name, s)
      p == IF c # <<>> THEN Head(c) ELSE [name |-> name, price |-> Unknown, hours |-> <<>>]
  IN  [name |-> p.name, price |-> p.price, from |-> Hours(p.hours)[1], to |-> Hours(p.hours)[2]]

\* No speed is known for "transit", so 40 km/h it is.
RouteMinutes(km) == IF km * 60 < 40 THEN 1 ELSE (km * 60) \div 40

-----------------------------------------------------------------------------
NoResults == [any |-> FALSE, found |-> {}, reserved |-> {}, details |-> <<>>, routes |-> <<>>]

(* What the results of the executed calls say: a handler that raises gives *)
(* a result without data, the others go on.                                *)
Results(plan, s) ==
  LET calls == {c \in Calls(plan, s): c[1] \notin s.fails}
      About(tool) == {c[2] : c \in {c \in calls: c[1] = tool}}
      details == {PoiDetail(n, s) : n \in About("get_poi_detail")}
  IN  [any |-> TRUE,
       found |-> {d.name : d \in details} \ {""},
       reserved |-> About("check_reservation") \cap s.famous,
       details |-> [n \in {d.name : d \in details} \ {""} |-> CHOOSE d \in details: d.name = n],
       routes |-> [n \in About("get_route") |-> <<RouteMinutes(s.km)>>]]
=============================================================================
