---------------------------- MODULE Conversation ----------------------------
(***************************************************************************)
(* One gathering turn: how what the user says becomes the profile          *)
(* a trip is planned from (core/conversation_turn.py, the slot rules of    *)
(* agents/demand_parser.py, the recall of agents/profile_recall.py, the    *)
(* resolver of agents/memory_conflict_resolver.py, and merge_profile of    *)
(* core/conversation_state.py).                                            *)
(*                                                                         *)
(* Only the slots that planning requires are kept.  A profile gives each   *)
(* of them a value or leaves it Unset; the two yes/no slots are Flags.     *)
(* Text is not modelled: an utterance is the slots it states.              *)
(***************************************************************************)
EXTENDS LanguageModel, SequencesExt

CONSTANTS
  Scalars,     \* required slots with a value: "destination", "total_budget", ...
  Flags,       \* required slots that are yes or no: "has_elderly", "has_children"
  Values,      \* what a scalar slot can be
  Own,         \* the flags of the user's own stored profile
  Similar,     \* those of the users most like them, the nearest first
  PlanningIntents, ChattyIntents

Unset == "unset"
Slots == Scalars \cup Flags

ASSUME SlotsAssumption ==
  /\ "destination" \in Scalars
  /\ Scalars \cap Flags = {}
ASSUME MemoryAssumption ==
  /\ Own \in [Flags -> {"yes", "no", Unset}]
  /\ \A i \in DOMAIN Similar: Similar[i] \in [Flags -> {"yes", "no", Unset}]
ASSUME ValuesAssumption == Values \cap {Unset, "yes", "no"} = {}
ASSUME IntentsAssumption ==
  /\ "generate_itinerary" \in PlanningIntents /\ "chitchat" \in ChattyIntents
  /\ PlanningIntents \cap ChattyIntents = {}

Intents == PlanningIntents \cup ChattyIntents

Profiles == {p \in [Slots -> Values \cup {"yes", "no", Unset}]:
               /\ \A s \in Scalars: p[s] \in Values \cup {Unset}
               /\ \A f \in Flags: p[f] \in {"yes", "no", Unset}}

\* default_conversation_state
Blank == [s \in Slots |-> Unset]

\* missing_from_profile: the required slots still absent.
Missing(p) == {s \in Slots: p[s] = Unset}

\* profile_is_complete, is_profile_ready
Complete(p) == Missing(p) = {}

(* The slots of q where p leaves one unset. *)
Filled(p, q) == [s \in Slots |-> IF p[s] = Unset THEN q[s] ELSE p[s]]

Stated(said) == {s \in Slots: said[s] # Unset}

\* What is left of what the user said when only some of it is heard.
Heard(said, slots) == [s \in Slots |-> IF s \in slots THEN said[s] ELSE Unset]

(* The _extract_ functions find what is said in words their patterns know. *)
Extracted(said, plain) == Heard(said, plain)

\* _classify_intent
FallbackIntent(greeting) == IF greeting THEN "chitchat" ELSE "generate_itinerary"

(* _fallback_parse, which looks for the destination as well.               *)
FallbackParse(said, plain, greeting) ==
  [intent |-> FallbackIntent(greeting), slots |-> Extracted(said, plain)]

Replies == {StructuredCall(<<a, b>>, <<r>>, vllm) : a, b, r \in Attempts, vllm \in BOOLEAN}

(* parse: what the model makes of an utterance, whose answer may need a    *)
(* repair, or what the fallback does.                                      *)
Parses(said, plain, greeting) ==
  UNION {IF reply = "parsed"
         THEN {[intent |-> i, slots |-> Heard(said, slots)] :
                 i \in Intents, slots \in SUBSET Stated(said)}
         ELSE {FallbackParse(said, plain, greeting)} : reply \in Replies}

(* The extractors' words on every required slot but the destination.       *)
Elsewhere(extracted) == [extracted EXCEPT !["destination"] = Unset]

(* _enrich_slots_from_text: what the parse left out is extracted.          *)
Enriched(slots, extracted) == Filled(slots, Elsewhere(extracted))

(* _normalize_intent_during_gathering: while the profile is incomplete, an *)
(* utterance that states a slot is about the trip.                         *)
Normalized(parsed, known, extracted, greeting) ==
  IF /\ ~Complete(known)
     /\ parsed.intent \in ChattyIntents
     /\ ~(parsed.intent = "chitchat" /\ greeting)
     /\ Enriched(parsed.slots, extracted) # Blank
  THEN "generate_itinerary" ELSE parsed.intent

(* Memory: of the required slots it only ever holds flags.                 *)
Nobody == [f \in Flags |-> Unset]

\* _merge_layer: what the one layer leaves open, the other says.
Layered(high, low) == [f \in Flags |-> IF high[f] = Unset THEN low[f] ELSE high[f]]

\* _recall_similar_users: each of them overrides the nearer ones.
SimilarUsers == FoldLeft(LAMBDA nearer, user: Layered(user, nearer), Nobody, Similar)

\* get_profile: the user's stored profile, or nothing when the read raises.
GetProfile == {Own, Nobody}

\* The long-term layer; the search for similar users may raise as well.
LongTerm == {Layered(own, similar) : own \in GetProfile, similar \in {SimilarUsers, Nobody}}

(* The conversation's word comes before the long-term layer's, and the     *)
(* model UserProfile has false where neither has one.                      *)
Recalled(profile, longTerm) ==
  [f \in Flags |-> LET said == IF profile[f] = Unset THEN longTerm[f] ELSE profile[f]
                   IN  IF said = "yes" THEN "yes" ELSE "no"]

(* recall: of a user without a name, an empty UserProfile, whatever the    *)
(* conversation knows; of the anonymous one, no long-term layer.           *)
Recalls(user, profile) ==
  CASE user = "unnamed" -> {[f \in Flags |-> "no"]}
    [] user = "anonymous" -> {Recalled(profile, Nobody)}
    [] user = "registered" -> {Recalled(profile, longTerm) : longTerm \in LongTerm}

\* Mutant: what the user says now always wins.
Resolved_now(slots, recalled) ==
  [s \in Slots |-> IF s \in Scalars THEN slots[s]
                   ELSE IF slots[s] = Unset THEN recalled[s] ELSE slots[s]]

(* resolve: explicit scalars win, a flag is true when either side says so. *)
Resolved(slots, recalled) ==
  [s \in Slots |-> IF s \in Scalars THEN slots[s]
                   ELSE IF slots[s] = "yes" THEN "yes" ELSE recalled[s]]

(* slots_to_patch and merge_profile: what is set overwrites, what is not   *)
(* leaves the profile as it is.                                            *)
Merged(profile, slots) == Filled(slots, profile)

(* update_profile: the trips stored when one ends, in a row of its own at  *)
(* first, and what is left stored when a statement raises.  The caller     *)
(* looks for the destination on top of a nested profile, so that the trip  *)
(* is stored without a city.                                               *)
UpdateProfile(stored) == {stored, stored + 1}

(* process_user_turn: the profile after the turn. *)
AfterTurn(profile, heard, recalled) ==
  Merged(profile, Resolved(Filled(heard, profile), recalled))
=============================================================================
