------------------------------- MODULE Skills -------------------------------
(***************************************************************************)
(* What one attempt of a tool comes to, as a function of what its sources  *)
(* reply: the forecast (skills/weather_query.py), the price of a place     *)
(* (skills/price_query.py) and the search for places                       *)
(* (skills/poi_search.py, skills/tavily_search.py).                        *)
(*                                                                         *)
(* A source replies with something usable, with nothing usable (no key, an *)
(* unknown city, an error status in the body, dates outside its horizon),  *)
(* raises, or hangs.  Each attempt is under an outer timeout shorter than  *)
(* that of any of its requests, so one source that hangs ends the attempt. *)
(***************************************************************************)
EXTENDS Naturals, Sequences

Replies == {"data", "nothing", "raises", "hangs"}

(* "live" came from a source, "guess" was computed or found empty instead, *)
(* "timeout" is an attempt that the outer timeout cancelled.               *)
Outcomes == {"live", "guess", "timeout"}

(* The sources of a cascade are asked in turn until one has data; what one *)
(* raises is caught, and the next is asked.                                *)
Asked(r) == {i \in 1..Len(r): \A j \in 1..(i - 1): r[j] \in {"nothing", "raises"}}

Cascade(r, otherwise) ==
  IF \E i \in Asked(r): r[i] = "hangs" THEN "timeout"
  ELSE IF \E i \in Asked(r): r[i] = "data" THEN "live" ELSE otherwise

-----------------------------------------------------------------------------
(* The forecast: AMap, Open-Meteo, QWeather, and the climate of the        *)
(* latitude when none of them has a day of the trip.                       *)

\* Every city has a climate, the unknown one that of 30 degrees north.
GeographyFallback == "guess"

\* AMap knows its cities by code and four days ahead.
FetchAmap(known, near, reply) == IF known THEN IF reply = "data" /\ ~near THEN "nothing" ELSE reply
                                 ELSE "nothing"

\* Open-Meteo is asked for coordinates.
FetchOpenMeteo(located, reply) == IF located THEN reply ELSE "nothing"

\* QWeather is asked for the city first, and an error there is no city.
FetchQWeather(lookup, near, reply) ==
  CASE lookup = "hangs" -> "hangs"
    [] lookup \in {"nothing", "raises"} -> "nothing"
    [] OTHER -> IF reply = "data" /\ ~near THEN "nothing" ELSE reply

Forecast ==
  {Cascade(<<FetchAmap(known, near, a), FetchOpenMeteo(located, m), FetchQWeather(q, near, w)>>,
           GeographyFallback):
     known, near, located \in BOOLEAN, a, m, q, w \in Replies}

-----------------------------------------------------------------------------
(* A search: what it raises is an empty answer, which nobody can tell from *)
(* a search that found nothing.                                            *)

SearchWithContext(reply) == IF reply = "raises" THEN "nothing" ELSE reply

(* The price: a search whose answer names one, or else the model of city   *)
(* tiers and categories.                                                   *)

\* Every place falls into a category, the unknown city into a tier.
StructuredEstimate == "guess"

FetchPrice(reply, named) ==
  LET found == SearchWithContext(reply)
  IN IF found = "data" /\ ~named THEN "nothing" ELSE found

Price == {Cascade(<<FetchPrice(r, named)>>, StructuredEstimate): r \in Replies, named \in BOOLEAN}

(* The places: several searches at once, then the model extracts places    *)
(* from their answers, and from their snippets when those gave too few.    *)
(* An extraction that raises finds none; no places is an answer too.       *)
Extract(reply) == IF reply = "raises" THEN "nothing" ELSE reply

SearchAndExtract(searches, answers, enough, snippets) ==
  LET found == {SearchWithContext(r): r \in searches}
      first == Extract(answers)
      second == Extract(snippets)
  IN IF "hangs" \in found THEN "hangs"
     ELSE IF found = {"nothing"} THEN "nothing"
     ELSE IF first = "hangs" \/ (first = "data" /\ enough) THEN first
     ELSE IF second = "hangs" THEN "hangs"
     ELSE IF "data" \in {first, second} THEN "data" ELSE "nothing"

Places ==
  {Cascade(<<SearchAndExtract(s, a, enough, n)>>, "guess"):
     s \in (SUBSET Replies) \ {{}}, a, n \in Replies, enough \in BOOLEAN}

=============================================================================
