--------------------------- MODULE GraphTurnProofs ---------------------------
(***************************************************************************)
(* The safety of the chat turns of GraphTurn, for every profile, every     *)
(* planner and tool, and every value of the constants.                     *)
(*                                                                         *)
(* The argument: a turn takes one of two roads.  While nothing has failed  *)
(* it is on the straight road, where the action of the channels says how   *)
(* far it has come (Straight); once a node has failed only the weaker      *)
(* facts hold that tie the node at which the turn is to the stage of the   *)
(* channels and to the patch of the output node (Answered, Written,        *)
(* Booked).                                                                *)
(***************************************************************************)
EXTENDS GraphTurn, TLAPS

Channels == [profile : Profiles, draft : Drafts \cup {NoDraft},
             stage : Stages, action : Actions, ready : BOOLEAN]

Ended == {"memory_updated", "completed"}

-----------------------------------------------------------------------------
(* The profile.  What is said and what memory recalls make a profile of a  *)
(* profile, and one that knows no less (conversation_turn.py).             *)

\* A slot that is set in p stays set in q, and a special need stays stated,
\* but for a user without a name.
Keeps(p, q, named) ==
  \A s \in Slots: p[s] = Unset \/ q[s] = p[s] \/ (q[s] # Unset /\ (p[s] # "yes" \/ ~named))

Named == user # "unnamed"

\* The slots with a value in p, and the special needs it has, are among slots.
Told(p, slots) == \A s \in Slots: p[s] \in {Unset, "no"} \/ s \in slots

LEMMA BlankProfile == Blank \in Profiles
  BY DEF Profiles, Blank, Slots

LEMMA HeardProfile ==
  ASSUME NEW said \in Profiles, NEW slots PROVE Heard(said, slots) \in Profiles
  BY DEF Profiles, Heard, Slots

LEMMA FilledProfile ==
  ASSUME NEW p \in Profiles, NEW q \in Profiles PROVE Filled(p, q) \in Profiles
  BY DEF Profiles, Filled, Slots

LEMMA ParsedSlots ==
  ASSUME NEW said \in Profiles, NEW plain, NEW greeting,
         NEW parsed \in Parses(said, plain, greeting)
  PROVE  parsed.slots \in Profiles
  BY HeardProfile DEF Parses, FallbackParse, Extracted

LEMMA EnrichedProfile ==
  ASSUME NEW slots \in Profiles, NEW extracted \in Profiles
  PROVE  Enriched(slots, extracted) \in Profiles
<1>1. Elsewhere(extracted) \in Profiles
  BY SlotsAssumption DEF Profiles, Elsewhere, Slots
<1> QED
  BY <1>1, FilledProfile DEF Enriched

LEMMA ResolvedProfile ==
  ASSUME NEW slots \in Profiles, NEW recalled, \A f \in Flags: recalled[f] \in {"yes", "no"}
  PROVE  Resolved(slots, recalled) \in Profiles
  BY DEF Profiles, Resolved, Slots

\* Recall answers every flag, and of a user with a name it answers yes where
\* the conversation does.
LEMMA RecalledFlags ==
  ASSUME NEW u \in Users, NEW profile, NEW recalled \in Recalls(u, profile)
  PROVE  /\ \A f \in Flags: recalled[f] \in {"yes", "no"}
         /\ u # "unnamed" => \A f \in Flags: profile[f] = "yes" => recalled[f] = "yes"
<1>1. CASE u = "unnamed"
  <2>1. recalled = [f \in Flags |-> "no"]
    BY <1>1 DEF Recalls
  <2> QED
    BY <1>1, <2>1
<1>2. CASE u # "unnamed"
  <2>1. u = "anonymous" \/ u = "registered"
    BY <1>2 DEF Users
  <2>2. PICK longTerm : recalled = Recalled(profile, longTerm)
    BY <2>1 DEF Recalls
  <2> QED
    BY <2>2 DEF Recalled, Unset
<1> QED
  BY <1>1, <1>2

LEMMA AfterTurnProfile ==
  ASSUME NEW u \in Users, NEW profile \in Profiles, NEW heard \in Profiles,
         NEW recalled \in Recalls(u, profile)
  PROVE  AfterTurn(profile, heard, recalled) \in Profiles
  BY FilledProfile, ResolvedProfile, RecalledFlags DEF AfterTurn, Merged

LEMMA KeepsItself == ASSUME NEW p, NEW named PROVE Keeps(p, p, named)
  BY DEF Keeps

LEMMA AfterTurnKeeps ==
  ASSUME NEW u \in Users, NEW profile \in Profiles, NEW heard \in Profiles,
         NEW recalled \in Recalls(u, profile)
  PROVE  Keeps(profile, AfterTurn(profile, heard, recalled), u # "unnamed")
<1> DEFINE resolved == Resolved(Filled(heard, profile), recalled)
<1>1. \A s \in Slots: profile[s] = "yes" => s \in Flags /\ (u # "unnamed" => resolved[s] = "yes")
  <2> SUFFICES ASSUME NEW s \in Slots, profile[s] = "yes"
               PROVE  s \in Flags /\ (u # "unnamed" => resolved[s] = "yes")
    OBVIOUS
  <2>1. s \in Flags /\ s \notin Scalars
    BY SlotsAssumption, ValuesAssumption DEF Profiles, Slots, Unset
  <2>2. u # "unnamed" => recalled[s] = "yes"
    BY <2>1, RecalledFlags
  <2> QED
    BY <2>1, <2>2 DEF Resolved
<1>2. \A s \in Slots: profile[s] # Unset => AfterTurn(profile, heard, recalled)[s] # Unset
  <2> HIDE DEF resolved
  <2> QED
    BY DEF AfterTurn, Merged, Filled
<1>3. \A s \in Slots: resolved[s] = "yes" => AfterTurn(profile, heard, recalled)[s] = "yes"
  BY DEF AfterTurn, Merged, Filled, Unset
<1> HIDE DEF resolved
<1> QED
  BY <1>1, <1>2, <1>3 DEF Keeps

\* Recall says yes only where the conversation or the memory does.
LEMMA RecalledYes ==
  ASSUME NEW profile, NEW recalled \in Recalls(user, profile), NEW f \in Flags,
         user \in Users, recalled[f] = "yes"
  PROVE  profile[f] = "yes" \/ f \in Remembered
<1>1. CASE user = "unnamed"
  BY <1>1 DEF Recalls
<1>2. CASE user = "anonymous"
  BY <1>2 DEF Recalls, Recalled, Nobody, Unset
<1>3. CASE user = "registered"
  <2>1. PICK longTerm \in LongTerm : recalled = Recalled(profile, longTerm)
    BY <1>3 DEF Recalls
  <2>2. profile[f] = "yes" \/ longTerm[f] = "yes"
    BY <2>1 DEF Recalled
  <2> QED
    BY <1>3, <2>2 DEF Remembered
<1> QED
  BY <1>1, <1>2, <1>3 DEF Users

\* The turn adds no value and no special need that was neither heard in it
\* nor remembered.
LEMMA AfterTurnTold ==
  ASSUME NEW profile \in Profiles, NEW heard \in Profiles, user \in Users,
         NEW recalled \in Recalls(user, profile), NEW slots,
         Told(profile, slots \cup Remembered)
  PROVE  Told(AfterTurn(profile, heard, recalled), slots \cup Stated(heard) \cup Remembered)
<1> DEFINE after == AfterTurn(profile, heard, recalled)
<1> SUFFICES ASSUME NEW s \in Slots, after[s] \notin {Unset, "no"}
             PROVE  s \in slots \cup Stated(heard) \cup Remembered
  BY DEF Told
<1>1. heard[s] = Unset => profile[s] \notin {Unset, "no"} \/ s \in Remembered
  <2> SUFFICES ASSUME heard[s] = Unset, profile[s] \in {Unset, "no"} PROVE s \in Remembered
    OBVIOUS
  <2>1. s \in Flags /\ s \notin Scalars
    BY SlotsAssumption, ValuesAssumption
       DEF Profiles, Slots, Unset, AfterTurn, Merged, Filled, Resolved
  <2>2. recalled[s] = "yes"
    BY <2>1, RecalledFlags DEF AfterTurn, Merged, Filled, Resolved, Unset
  <2> QED
    BY <2>1, <2>2, RecalledYes DEF Unset
<1> QED
  BY <1>1 DEF Told, Stated

-----------------------------------------------------------------------------
(* The edges of the graph.                                                 *)

\* Where the nodes lead: nothing leads back to gathering, only the output
\* node leads to booking, and a recall that finds the trip ended closes.
LEMMA Edges ==
  ASSUME NEW n \in Nodes, NEW c
  PROVE  /\ After(n, c) \in (Nodes \ {"gathering"}) \cup {"closing"}
         /\ After(n, c) = "booking" => n = "output"
         /\ After(n, c) = "profile_recall" => n \in {"gathering", "booking"}
         /\ n = "profile_recall" /\ c.stage \in Ended => After(n, c) = "closing"
  BY DEF After, Nodes, RouteAfterGathering, RouteAfterProfile, RouteAfterPlan,
         RouteAfterToolCall, RouteAfterFactcheck, RouteAfterOutput, Ended

\* The edges of the straight road.
LEMMA StraightEdges ==
  ASSUME NEW c
  PROVE  /\ After("gathering", c) = IF c.action \in {"clarify", "respond"} THEN "output"
                                                                           ELSE "profile_recall"
         /\ After("profile_recall", c) = IF c.stage \in Ended THEN "closing" ELSE "retrieve"
         /\ After("retrieve", c) = "weather_check"
         /\ After("weather_check", c) = "plan"
         /\ c.action = "confirm_draft" => After("plan", c) = "output"
         /\ After("output", c) = IF c.action \in {"clarify", "confirm_draft"} THEN "closing"
                                                                              ELSE "booking"
         /\ After("booking", c) = "profile_recall"
  BY DEF After, RouteAfterGathering, RouteAfterProfile, RouteAfterPlan, RouteAfterOutput, Ended

-----------------------------------------------------------------------------
(* Types.                                                                  *)

\* What the runtime keeps of the turn's result.
Conversations == [profile : Profiles, draft : Drafts \cup {NoDraft},
                  phase : {"gathering", "completed"}]

Logs == [failed : BOOLEAN, asked : SUBSET Slots, drafted : BOOLEAN,
         warned : BOOLEAN, booked : BOOLEAN, written : Nat]

OutType ==
  out # NoPatch => /\ out.draft \in Drafts \cup {NoDraft}
                   /\ out.profile = NoProfile \/ out.profile \in Profiles

UsedType == used \in [Disturbances -> Nat] /\ \A d \in Disturbances: used[d] <= Budget[d]

LEMMA SpendType ==
  ASSUME UsedType, NEW d \in Disturbances, Spend(d) PROVE UsedType'
<1>1. used' = [used EXCEPT ![d] = used[d] + 1] /\ used[d] < Budget[d]
  BY DEF Spend
<1>2. used' \in [Disturbances -> Nat]
  BY <1>1 DEF UsedType
<1>3. ASSUME NEW e \in Disturbances PROVE used'[e] <= Budget[e]
  <2>1. used[e] \in Nat /\ Budget[e] \in Nat /\ used[e] <= Budget[e]
    BY <1>3, BudgetAssumption DEF UsedType
  <2>2. used'[e] = IF e = d THEN used[e] + 1 ELSE used[e]
    BY <1>1, <1>3 DEF UsedType
  <2> QED
    BY <1>1, <2>1, <2>2
<1> QED
  BY <1>2, <1>3 DEF UsedType

\* The patch of the output node, and that of its failure, is a patch.
LEMMA PatchType ==
  ASSUME ch \in Channels, NEW files
  PROVE  LET patch == [Patch EXCEPT !.files = files]
         IN  /\ patch # NoPatch
             /\ patch.draft \in Drafts \cup {NoDraft}
             /\ patch.profile \in {NoProfile, ch.profile}
  BY LimitAssumption DEF Patch, NoPatch, Channels, Drafts, NoDraft

LEMMA EmptyPatchType ==
  /\ EmptyPatch # NoPatch
  /\ EmptyPatch.draft \in Drafts \cup {NoDraft}
  /\ EmptyPatch.profile = NoProfile
  BY LimitAssumption DEF EmptyPatch, NoPatch, NoDraft

\* A node that runs leaves its channels and the place of the turn in range.
LEMMA RunType ==
  ASSUME TypeOK, NEW n \in Nodes, NEW c \in Channels, Run(n, c)
  PROVE  /\ user' \in Users /\ ch' \in Channels
         /\ at' \in Nodes \cup {"idle", "closing"}
         /\ steps' \in 0..RecursionLimit /\ turns' \in 0..MaxTurns
  BY Edges, LimitAssumption DEF Run, Counted, TypeOK

LEMMA QuietType ==
  ASSUME TypeOK, NEW n \in Nodes, NEW c \in Channels, Quietly(n, c)
  PROVE  TypeOK'
<1>1. Run(n, c) /\ UNCHANGED <<stored, conv, out, log, told, used>>
  BY DEF Quietly
<1> QED
  BY <1>1, RunType DEF TypeOK, Channels

LEMMA OpenedType ==
  ASSUME TypeOK, NEW found \in BOOLEAN
  PROVE  Opened(found) \in Channels
  BY DEF Opened, Channels, TypeOK, Stages

LEMMA BeginType == TypeOK /\ Begin => TypeOK'
<1> SUFFICES ASSUME TypeOK, Begin PROVE TypeOK'
  OBVIOUS
<1>1. ch' \in Channels
  BY OpenedType DEF Begin
<1>2. turns' \in 0..MaxTurns
  BY LimitAssumption DEF Begin, TypeOK
<1>3. log' \in Logs
  BY DEF Begin, NewLog, Logs
<1> QED
  BY <1>1, <1>2, <1>3 DEF Begin, TypeOK, Channels, Logs, Nodes

LEMMA BeginFailsType == TypeOK /\ BeginFails => TypeOK'
<1> SUFFICES ASSUME TypeOK, BeginFails PROVE TypeOK'
  OBVIOUS
<1>1. UsedType'
  BY SpendType DEF BeginFails, Disturbances, TypeOK, UsedType
<1>2. turns' \in 0..MaxTurns
  BY LimitAssumption DEF BeginFails, TypeOK
<1> QED
  BY <1>1, <1>2 DEF BeginFails, TypeOK, UsedType

\* Of a gathering turn: the profile knows no less and no more than was told,
\* and a plan is only made for one that is complete.
LEMMA GatherStep ==
  ASSUME TypeOK, Gather
  PROVE  \E profile \in Profiles, action \in {"plan", "respond", "clarify"} :
           /\ Keeps(conv.profile, profile, Named)
           /\ action = "plan" => Complete(profile)
           /\ Gathered(profile, action)
           /\ told \subseteq told' /\ told' \subseteq told \cup Slots
           /\ Told(conv.profile, told \cup Remembered) => Told(profile, told' \cup Remembered)
<1> DEFINE Step(said, plain, greeting, parsed, recalled) ==
             LET extracted == Extracted(said, plain)
                 heard == Enriched(parsed.slots, extracted)
                 profile == AfterTurn(conv.profile, heard, recalled)
             IN  /\ Gathered(profile, NextAction(Normalized(parsed, conv.profile, extracted, greeting), profile))
                 /\ told' = told \cup Stated(heard)
<1>1. PICK said \in Profiles, greeting \in BOOLEAN : \E plain \in SUBSET Stated(said) :
        \E parsed \in Parses(said, plain, greeting), recalled \in Recalls(user, conv.profile) :
          Step(said, plain, greeting, parsed, recalled)
  BY Zenon DEF Gather
<1>2. PICK plain \in SUBSET Stated(said) :
        \E parsed \in Parses(said, plain, greeting), recalled \in Recalls(user, conv.profile) :
          Step(said, plain, greeting, parsed, recalled)
  BY <1>1, Zenon
<1>3. PICK parsed \in Parses(said, plain, greeting), recalled \in Recalls(user, conv.profile) :
        Step(said, plain, greeting, parsed, recalled)
  BY <1>2, Zenon
<1> DEFINE extracted == Extracted(said, plain)
           heard == Enriched(parsed.slots, extracted)
           profile == AfterTurn(conv.profile, heard, recalled)
           action == NextAction(Normalized(parsed, conv.profile, extracted, greeting), profile)
<1>4. user \in Users /\ conv.profile \in Profiles
  BY DEF TypeOK
<1>5. heard \in Profiles
  BY ParsedSlots, HeardProfile, EnrichedProfile DEF Extracted
<1>6. Gathered(profile, action) /\ told' = told \cup Stated(heard)
  BY <1>3
<1> HIDE DEF heard
<1>7. profile \in Profiles /\ Keeps(conv.profile, profile, Named)
  BY <1>4, <1>5, AfterTurnProfile, AfterTurnKeeps DEF Named
<1>8. Told(conv.profile, told \cup Remembered) => Told(profile, told' \cup Remembered)
  BY <1>4, <1>5, <1>6, AfterTurnTold
<1>9. told \subseteq told' /\ told' \subseteq told \cup Slots
  BY <1>6 DEF Stated
<1>10. /\ action \in {"plan", "respond", "clarify"}
       /\ action = "plan" => Complete(profile)
  BY DEF NextAction
<1> HIDE DEF profile, action
<1> QED
  BY <1>6, <1>7, <1>8, <1>9, <1>10

LEMMA GatherType == TypeOK /\ Gather => TypeOK'
<1> SUFFICES ASSUME TypeOK, Gather PROVE TypeOK'
  OBVIOUS
<1>1. PICK profile \in Profiles, action \in {"plan", "respond", "clarify"} :
        Gathered(profile, action) /\ told' \subseteq told \cup Slots
  BY GatherStep
<1> DEFINE left == [ch EXCEPT !.profile = profile, !.action = action,
                              !.stage = IF action = "clarify" THEN "gathering" ELSE "demand_parsed",
                              !.ready = Ready(action)]
<1>2. left \in Channels
  <2>1. Ready(action) \in BOOLEAN
    BY DEF Ready, TypeOK, Channels
  <2> HIDE DEF Ready
  <2> QED
    BY <2>1 DEF TypeOK, Channels, Stages, Actions, Levels
<1>3. conv' \in Conversations
  BY <1>1 DEF Gathered, TypeOK, Synced, Conversations
<1>4. Run("gathering", left) /\ "gathering" \in Nodes
  BY <1>1 DEF Gathered, Nodes
<1> HIDE DEF left
<1>5. UNCHANGED <<stored, out, log, used>> /\ told' \in SUBSET Slots
  BY <1>1 DEF Gather, TypeOK
<1> QED
  BY <1>2, <1>3, <1>4, <1>5, RunType DEF TypeOK, Channels, Conversations

LEMMA WriteTripType == TypeOK /\ WriteTrip => TypeOK'
<1> SUFFICES ASSUME TypeOK, WriteTrip PROVE TypeOK'
  OBVIOUS
<1>1. [ch EXCEPT !.stage = "memory_updated"] \in Channels
  BY DEF TypeOK, Channels, Stages
<1>2. stored' \in Nat
  BY DEF WriteTrip, UpdateProfile, TypeOK
<1>3. log' \in Logs
  BY DEF WriteTrip, TypeOK, Logs
<1>4. Run("profile_recall", [ch EXCEPT !.stage = "memory_updated"]) /\ "profile_recall" \in Nodes
  BY DEF WriteTrip, Nodes
<1>5. UNCHANGED <<conv, out, told, used>>
  BY DEF WriteTrip
<1> QED
  BY <1>1, <1>2, <1>3, <1>4, <1>5, RunType DEF TypeOK, Channels, Logs

LEMMA QuietNodesType ==
  TypeOK /\ (RecallProfile \/ Retrieve \/ CheckWeather \/ CallTools) => TypeOK'
<1> SUFFICES ASSUME TypeOK, RecallProfile \/ Retrieve \/ CheckWeather \/ CallTools PROVE TypeOK'
  OBVIOUS
<1>1. \E n \in Nodes, stage \in Stages : Quietly(n, [ch EXCEPT !.stage = stage])
  <2>1. ch = [ch EXCEPT !.stage = ch.stage] /\ ch.stage \in Stages
    BY DEF TypeOK
  <2>2. CASE RecallProfile
    BY <2>1, <2>2 DEF RecallProfile, Nodes, Stages
  <2>3. CASE Retrieve \/ CheckWeather \/ CallTools
    BY <2>1, <2>3 DEF Retrieve, CheckWeather, CallTools, Nodes, Stages
  <2> QED
    BY <2>2, <2>3
<1>2. \A stage \in Stages : [ch EXCEPT !.stage = stage] \in Channels
  BY DEF TypeOK, Channels
<1> QED
  BY <1>1, <1>2, QuietType

LEMMA PlanType == TypeOK /\ Plan => TypeOK'
<1> SUFFICES ASSUME TypeOK, Plan PROVE TypeOK'
  OBVIOUS
<1>1. PICK solved \in BOOLEAN : Run("plan", Planned(solved))
  BY DEF Plan
<1>2. Planned(solved) \in Channels
  <2>1. turns \in Drafts \cup {NoDraft}
    BY LimitAssumption DEF TypeOK, Drafts, NoDraft
  <2> QED
    BY <2>1 DEF Planned, TypeOK, Channels, Stages, Actions
<1>3. log' \in Logs /\ UNCHANGED <<stored, conv, out, told, used>>
  BY DEF Plan, TypeOK, Logs
<1> QED
  BY <1>1, <1>2, <1>3, RunType DEF TypeOK, Channels, Logs, Nodes

LEMMA CheckType == TypeOK /\ (CheckFacts \/ CheckHallucination) => TypeOK'
<1> SUFFICES ASSUME TypeOK, CheckFacts \/ CheckHallucination PROVE TypeOK'
  OBVIOUS
<1>1. \E n \in Nodes, c \in Channels : Run(n, c)
  <2>1. CASE CheckFacts
    <3>1. \E conflicts \in BOOLEAN :
            Run("factcheck",
                IF conflicts THEN [ch EXCEPT !.stage = "fact_check_failed", !.action = "planner"]
                ELSE [ch EXCEPT !.stage = "fact_check_done"])
      BY <2>1 DEF CheckFacts
    <3> QED
      BY <3>1 DEF TypeOK, Channels, Stages, Actions, Nodes
  <2>2. CASE CheckHallucination
    BY <2>2 DEF CheckHallucination, TypeOK, Channels, Nodes
  <2> QED
    BY <2>1, <2>2
<1>2. \E warned \in BOOLEAN : log' = [log EXCEPT !.warned = warned]
  <2>1. log.warned \in BOOLEAN
    BY DEF TypeOK
  <2> QED
    BY <2>1 DEF CheckFacts, CheckHallucination
<1>3. log' \in Logs /\ UNCHANGED <<stored, conv, out, told, used>>
  BY <1>2 DEF TypeOK, Logs, CheckFacts, CheckHallucination
<1> QED
  BY <1>1, <1>3, RunType DEF TypeOK, Channels, Logs

\* What the output node leaves.
LEMMA OutputStep ==
  ASSUME TypeOK, Output
  PROVE  /\ \E stage \in Stages : Run("output", [ch EXCEPT !.stage = stage])
         /\ out' # NoPatch /\ out'.draft \in Drafts \cup {NoDraft}
         /\ out'.profile \in {NoProfile, ch.profile}
         /\ log' = [log EXCEPT !.asked = Asked]
         /\ UNCHANGED <<stored, conv, told, used>>
<1>1. PICK stage \in Stages : \E files :
        /\ Run("output", [ch EXCEPT !.stage = stage])
        /\ out' = [Patch EXCEPT !.files = files]
  BY DEF Output, Stages
<1>2. ch \in Channels
  BY DEF TypeOK, Channels
<1>3. /\ out' # NoPatch /\ out'.draft \in Drafts \cup {NoDraft}
      /\ out'.profile \in {NoProfile, ch.profile}
  BY <1>1, <1>2, PatchType
<1> QED
  BY <1>1, <1>3 DEF Output

LEMMA OutputType == TypeOK /\ Output => TypeOK'
<1> SUFFICES ASSUME TypeOK, Output PROVE TypeOK'
  OBVIOUS
<1>1. PICK stage \in Stages : Run("output", [ch EXCEPT !.stage = stage])
  BY OutputStep
<1>2. [ch EXCEPT !.stage = stage] \in Channels /\ "output" \in Nodes
  BY DEF TypeOK, Channels, Nodes
<1>3. OutType'
  BY OutputStep DEF OutType, TypeOK
<1>4. log' \in Logs
  BY OutputStep DEF TypeOK, Logs, Asked, Missing
<1>5. UNCHANGED <<stored, conv, told, used>>
  BY OutputStep
<1> QED
  BY <1>1, <1>2, <1>3, <1>4, <1>5, RunType DEF TypeOK, OutType, Channels, Logs

LEMMA BookType == TypeOK /\ Book => TypeOK'
<1> SUFFICES ASSUME TypeOK, Book PROVE TypeOK'
  OBVIOUS
<1>1. [ch EXCEPT !.stage = "completed"] \in Channels /\ "booking" \in Nodes
  BY DEF TypeOK, Channels, Stages, Nodes
<1>2. log' \in Logs
  BY DEF Book, TypeOK, Logs
<1> QED
  BY <1>1, <1>2, RunType DEF Book, TypeOK, Channels, Logs

LEMMA NodeFailsType == TypeOK /\ NodeFails => TypeOK'
<1> SUFFICES ASSUME TypeOK, NodeFails PROVE TypeOK'
  OBVIOUS
<1>1. PICK n \in Fallible, level \in Levels :
        /\ Run(n, [ch EXCEPT !.action = level])
        /\ out' = IF n = "output" THEN EmptyPatch ELSE out
  BY DEF NodeFails
<1>2. [ch EXCEPT !.action = level] \in Channels /\ n \in Nodes
  BY DEF TypeOK, Channels, Actions, Fallible
<1>3. OutType'
  BY <1>1, EmptyPatchType DEF OutType, TypeOK
<1>4. log' \in Logs /\ UNCHANGED <<stored, conv, told, used>>
  BY DEF NodeFails, TypeOK, Logs
<1> QED
  BY <1>1, <1>2, <1>3, <1>4, RunType DEF TypeOK, OutType, Channels, Logs

LEMMA GiveUpType == TypeOK /\ GiveUp /\ UsedType' => TypeOK'
<1> SUFFICES ASSUME TypeOK, GiveUp, UsedType' PROVE TypeOK'
  OBVIOUS
<1>1. log' \in Logs
  BY DEF GiveUp, TypeOK, Logs
<1> QED
  BY <1>1 DEF GiveUp, TypeOK, Logs, UsedType

LEMMA EngineType == TypeOK /\ (Overrun \/ EngineFails) => TypeOK'
<1>1. TypeOK /\ Overrun => TypeOK'
  BY GiveUpType DEF Overrun, TypeOK, UsedType
<1>2. TypeOK /\ EngineFails => UsedType'
  BY SpendType DEF EngineFails, TypeOK, UsedType, Disturbances
<1> QED
  BY <1>1, <1>2, GiveUpType DEF EngineFails

\* The end of a turn leaves the runner without a patch and with a new log.
LEMMA NoTurnType ==
  ASSUME NoTurn PROVE steps' \in 0..RecursionLimit /\ out' = NoPatch /\ log' = NewLog /\ log' \in Logs
  BY LimitAssumption DEF NoTurn, NewLog, Logs

LEMMA CloseType ==
  ASSUME TypeOK, NEW c \in Conversations, Close(c), UsedType'
  PROVE  TypeOK'
  BY NoTurnType DEF Close, TypeOK, Conversations, UsedType, Logs

\* What the final event carries back.
LEMMA ResultType ==
  ASSUME TypeOK
  PROVE  /\ Result.draft \in Drafts \cup {NoDraft}
         /\ Result.profile = NoProfile \/ Result.profile \in Profiles
<1>1. CASE out # NoPatch
  BY <1>1 DEF Result, TypeOK
<1>2. CASE out = NoPatch
  BY <1>2 DEF Result, EmptyPatch, TypeOK
<1> QED
  BY <1>1, <1>2

LEMMA SyncedBackType ==
  ASSUME TypeOK, NEW result, result.draft \in Drafts \cup {NoDraft},
         result.profile = NoProfile \/ result.profile \in Profiles
  PROVE  SyncedBack(result) \in Conversations /\ Bare(result) \in Conversations
  BY BlankProfile DEF SyncedBack, Bare, Conversations, TypeOK

LEMMA ClosingType == TypeOK /\ (Finish \/ FinishEmpty \/ FinishRefused) => TypeOK'
<1> SUFFICES ASSUME TypeOK, Finish \/ FinishEmpty \/ FinishRefused PROVE TypeOK'
  OBVIOUS
<1>1. UsedType'
  BY SpendType DEF Finish, FinishEmpty, FinishRefused, Disturbances, TypeOK, UsedType
<1>2. \E c \in Conversations : Close(c)
  BY ResultType, SyncedBackType, EmptyPatchType DEF Finish, FinishEmpty, FinishRefused
<1> QED
  BY <1>1, <1>2, CloseType

LEMMA RestartType == TypeOK /\ Restart => TypeOK'
<1> SUFFICES ASSUME TypeOK, Restart PROVE TypeOK'
  OBVIOUS
<1>1. UsedType'
  BY SpendType DEF Restart, Disturbances, TypeOK, UsedType
<1> QED
  BY <1>1, NoTurnType DEF Restart, TypeOK, UsedType, Logs

LEMMA InitType == Init => TypeOK
<1> SUFFICES ASSUME Init PROVE TypeOK
  OBVIOUS
<1>1. UsedType
  <2>1. \A d \in Disturbances : Budget[d] \in Nat /\ used[d] = 0
    BY BudgetAssumption DEF Init
  <2>2. used \in [Disturbances -> Nat]
    BY DEF Init
  <2>3. \A d \in Disturbances : used[d] <= Budget[d]
    BY <2>1
  <2> QED
    BY <2>2, <2>3 DEF UsedType
<1>2. conv \in Conversations /\ ch \in Channels
  BY BlankProfile DEF Init, Conversations, Channels, Stages, Actions
<1>3. log \in Logs /\ stored \in Nat
  BY DEF Init, NewLog, Logs
<1>4. steps \in 0..RecursionLimit /\ turns \in 0..MaxTurns
  <2>1. steps = 0 /\ turns = 0
    BY DEF Init
  <2> QED
    BY <2>1, LimitAssumption
<1> QED
  BY <1>1, <1>2, <1>3, <1>4 DEF Init, TypeOK, UsedType, Conversations, Channels, Logs

LEMMA NextType == TypeOK /\ [Next]_vars => TypeOK'
<1>1. TypeOK /\ Work => TypeOK'
  BY GatherType, WriteTripType, QuietNodesType, PlanType, CheckType, OutputType, BookType,
     NodeFailsType, EngineType, ClosingType DEF Work
<1>2. TypeOK /\ Next => TypeOK'
  BY <1>1, BeginType, BeginFailsType, EngineType, ClosingType, RestartType DEF Next
<1>3. TypeOK /\ UNCHANGED vars => TypeOK'
  BY DEF vars, TypeOK
<1> QED
  BY <1>2, <1>3

\* In every reachable state the conversation, the channels of the checkpoint,
\* the log of the turn and the budgets are in range; in particular the engine
\* never takes a step beyond its limit.
THEOREM TypeCorrect == Spec => []TypeOK
  BY InitType, NextType, PTL DEF Spec

-----------------------------------------------------------------------------
(* The inductive invariant.                                                *)

\* Between turns nothing is left of the last one.
Idle ==
  at = "idle" => out = NoPatch /\ log = NewLog /\ stored <= turns

\* A booking, and the end of a trip, follow the output node's patch.
Answered ==
  /\ at = "gathering" => out = NoPatch
  /\ at = "booking" => out # NoPatch
  /\ at # "idle" /\ ch.stage = "completed" => out # NoPatch

\* Writing the trip closes the turn.
Written ==
  /\ log.written > 0 => log.written = 1 /\ at = "closing" /\ out # NoPatch
  /\ at # "idle" => stored <= turns - 1 + log.written

\* A booking completes the trip, and the recall after it closes the turn.
Booked ==
  log.booked => at \in {"profile_recall", "closing"} /\ ch.stage \in Ended

\* The straight road: gathering, recall, retrieval, weather, a draft, its
\* output; or gathering and a question; or gathering, words, a booking.
Straight ==
  ~log.failed =>
    /\ at \notin {"tool_call", "factcheck", "hallucination"}
    /\ at \in {"profile_recall", "retrieve", "weather_check", "plan"} =>
         \/ ch.action = "plan" /\ Complete(ch.profile)
         \/ at = "profile_recall" /\ ch.stage \in Ended
    /\ log.drafted => /\ at \in {"output", "closing"}
                      /\ ch.action = "confirm_draft" /\ Complete(ch.profile) /\ ~log.booked
    /\ log.asked # {} => at = "closing" /\ ~log.drafted

\* What the conversation knows the channels know, and the patch does not say
\* otherwise.
Carried ==
  /\ at # "idle" => Keeps(conv.profile, ch.profile, Named)
  /\ out # NoPatch => out.profile \in {NoProfile, ch.profile}

Inv == Idle /\ Answered /\ Written /\ Booked /\ Straight /\ Carried

IInv == TypeOK /\ Inv

LEMMA InitInv == Init => Inv
<1> SUFFICES ASSUME Init PROVE Inv
  OBVIOUS
<1>1. at = "idle" /\ out = NoPatch /\ log = NewLog /\ stored = 0 /\ turns = 0
  BY DEF Init
<1> QED
  BY <1>1 DEF Inv, Idle, Answered, Written, Booked, Straight, Carried, Named, NewLog

LEMMA BeginInv == IInv /\ Begin => Inv'
<1> SUFFICES ASSUME IInv, Begin PROVE Inv'
  OBVIOUS
<1>1. PICK found \in BOOLEAN : ch' = Opened(found)
  BY DEF Begin
<1>2. ch'.profile = conv.profile /\ ch'.stage \in {"resumed", "created"}
  BY <1>1 DEF IInv, TypeOK, Opened
<1>3. stored \in Nat /\ turns \in Nat
  BY LimitAssumption DEF IInv, TypeOK
<1>4. at = "idle" /\ at' = "gathering" /\ log' = NewLog /\ turns' = turns + 1
      /\ UNCHANGED <<user, stored, conv, out>>
  BY DEF Begin
<1>5. out = NoPatch /\ stored <= turns
  BY <1>4 DEF IInv, Inv, Idle
<1> QED
  BY <1>2, <1>3, <1>4, <1>5, KeepsItself
     DEF Inv, Idle, Answered, Written, Booked, Straight, Carried, Named, NewLog

LEMMA BeginFailsInv == IInv /\ BeginFails => Inv'
<1> SUFFICES ASSUME IInv, BeginFails PROVE Inv'
  OBVIOUS
<1>1. stored \in Nat /\ turns \in Nat
  BY LimitAssumption DEF IInv, TypeOK
<1>2. at = "idle" /\ turns' = turns + 1 /\ UNCHANGED <<user, stored, conv, ch, at, out, log>>
  BY DEF BeginFails
<1> QED
  BY <1>1, <1>2 DEF IInv, Inv, Idle, Answered, Written, Booked, Straight, Carried, Named, NewLog

LEMMA GatherInv == IInv /\ Gather => Inv'
<1> SUFFICES ASSUME IInv, Gather PROVE Inv'
  OBVIOUS
<1>1. PICK profile \in Profiles, action \in {"plan", "respond", "clarify"} :
        /\ Keeps(conv.profile, profile, Named)
        /\ action = "plan" => Complete(profile)
        /\ Gathered(profile, action)
  BY GatherStep DEF IInv
<1>2. /\ at = "gathering" /\ at' = After("gathering", ch')
      /\ ch'.profile = profile /\ ch'.action = action /\ ch'.stage \notin Ended
      /\ conv'.profile \in {conv.profile, profile}
      /\ UNCHANGED <<user, stored, out, log, turns>>
  <2>1. ch \in Channels /\ conv \in Conversations
    BY DEF IInv, TypeOK, Channels, Conversations
  <2>2. /\ ch'.profile = profile /\ ch'.action = action
        /\ ch'.stage = IF action = "clarify" THEN "gathering" ELSE "demand_parsed"
    BY <1>1, <2>1 DEF Gathered, Run, Channels
  <2>3. conv'.profile \in {conv.profile, profile}
    BY <1>1, <2>1 DEF Gathered, Synced, Conversations
  <2>4. at = "gathering" /\ at' = After("gathering", ch') /\ UNCHANGED <<user, stored, out, log, turns>>
    BY <1>1 DEF Gathered, Run, Gather
  <2> QED
    BY <2>2, <2>3, <2>4 DEF Ended
<1>3. at' = IF action \in {"clarify", "respond"} THEN "output" ELSE "profile_recall"
  BY <1>2, StraightEdges
<1>4. out = NoPatch /\ ~log.booked /\ log.written = 0
      /\ (~log.failed => ~log.drafted /\ log.asked = {})
  BY <1>2 DEF IInv, Inv, Answered, Written, Booked, Straight, TypeOK
<1> QED
  BY <1>1, <1>2, <1>3, <1>4, KeepsItself
     DEF IInv, Inv, Idle, Answered, Written, Booked, Straight, Carried, Named, Ended

LEMMA WriteTripInv == IInv /\ WriteTrip => Inv'
<1> SUFFICES ASSUME IInv, WriteTrip PROVE Inv'
  OBVIOUS
<1>1. ch \in Channels /\ log \in Logs /\ stored \in Nat /\ turns \in Nat
  BY LimitAssumption DEF IInv, TypeOK, Channels, Logs
<1>2. ch' = [ch EXCEPT !.stage = "memory_updated"] /\ log' = [log EXCEPT !.written = log.written + 1]
  BY DEF WriteTrip, Run
<1>3. /\ at = "profile_recall" /\ at' = After("profile_recall", ch')
      /\ ch.stage = "completed" /\ UNCHANGED <<user, conv, out, turns>>
  BY DEF WriteTrip, Run
<1>4. stored' \in {stored, stored + 1}
  BY DEF WriteTrip, UpdateProfile
<1>5. ch'.stage = "memory_updated" /\ ch'.profile = ch.profile /\ at' = "closing"
  BY <1>1, <1>2, <1>3, StraightEdges DEF Channels, Ended
<1>6. out # NoPatch /\ log.written = 0 /\ stored <= turns - 1
  BY <1>1, <1>3 DEF IInv, Inv, Answered, Written, Logs
<1>7. ~log.failed => ~log.drafted /\ log.asked = {}
  BY <1>3 DEF IInv, Inv, Straight
<1>8. /\ log'.written = 1 /\ log'.failed = log.failed /\ log'.drafted = log.drafted
      /\ log'.asked = log.asked /\ log'.booked = log.booked
  BY <1>1, <1>2, <1>6 DEF Logs
<1>9. Carried'
  BY <1>3, <1>5 DEF IInv, Inv, Carried, Named
<1>10. (Idle /\ Answered /\ Written)'
  BY <1>1, <1>3, <1>4, <1>5, <1>6, <1>8 DEF Idle, Answered, Written
<1>11. (Booked /\ Straight)'
  BY <1>5, <1>7, <1>8 DEF Booked, Straight, Ended
<1> QED
  BY <1>9, <1>10, <1>11 DEF Inv

LEMMA RecallInv == IInv /\ RecallProfile => Inv'
<1> SUFFICES ASSUME IInv, RecallProfile PROVE Inv'
  OBVIOUS
<1>1. ch \in Channels
  BY DEF IInv, TypeOK, Channels
<1>2. ch' = [ch EXCEPT !.stage = IF ch.stage \in Ended THEN ch.stage ELSE "memory_loaded"]
  BY DEF RecallProfile, Quietly, Run, Ended
<1>3. /\ at = "profile_recall" /\ at' = After("profile_recall", ch')
      /\ UNCHANGED <<user, stored, conv, out, turns, log>>
  BY DEF RecallProfile, Quietly, Run
<1>4. /\ ch'.profile = ch.profile /\ ch'.action = ch.action
      /\ ch'.stage = IF ch.stage \in Ended THEN ch.stage ELSE "memory_loaded"
      /\ ch'.stage \in Ended <=> ch.stage \in Ended
  BY <1>1, <1>2 DEF Channels, Ended
<1>5. at' = IF ch.stage \in Ended THEN "closing" ELSE "retrieve"
  BY <1>3, <1>4, StraightEdges
<1> QED
  BY <1>3, <1>4, <1>5
     DEF IInv, Inv, Idle, Answered, Written, Booked, Straight, Carried, Named, Ended

LEMMA RetrieveInv == IInv /\ (Retrieve \/ CheckWeather) => Inv'
<1> SUFFICES ASSUME IInv, Retrieve \/ CheckWeather PROVE Inv'
  OBVIOUS
<1>1. ch \in Channels
  BY DEF IInv, TypeOK, Channels
<1>2. /\ \/ at = "retrieve" /\ at' = "weather_check"
         \/ at = "weather_check" /\ at' = "plan"
      /\ ch'.profile = ch.profile /\ ch'.action = ch.action
      /\ ch'.stage = ch.stage \/ ch'.stage = "rag_done"
      /\ UNCHANGED <<user, stored, conv, out, turns, log>>
  <2>1. CASE Retrieve
    <3>1. ch' = [ch EXCEPT !.stage = "rag_done"] /\ at = "retrieve" /\ at' = After("retrieve", ch')
      BY <2>1 DEF Retrieve, Quietly, Run
    <3>2. UNCHANGED <<user, stored, conv, out, turns, log>>
      BY <2>1 DEF Retrieve, Quietly, Run
    <3> QED
      BY <1>1, <3>1, <3>2, StraightEdges DEF Channels
  <2>2. CASE CheckWeather
    <3>1. ch' = ch /\ at = "weather_check" /\ at' = After("weather_check", ch')
      BY <2>2 DEF CheckWeather, Quietly, Run
    <3>2. UNCHANGED <<user, stored, conv, out, turns, log>>
      BY <2>2 DEF CheckWeather, Quietly, Run
    <3> QED
      BY <3>1, <3>2, StraightEdges
  <2> QED
    BY <2>1, <2>2
<1> QED
  BY <1>2 DEF IInv, Inv, Idle, Answered, Written, Booked, Straight, Carried, Named, Ended

LEMMA PlanInv == IInv /\ Plan => Inv'
<1> SUFFICES ASSUME IInv, Plan PROVE Inv'
  OBVIOUS
<1>1. ch \in Channels /\ log \in Logs
  BY DEF IInv, TypeOK, Channels, Logs
<1>2. PICK solved \in BOOLEAN : Run("plan", Planned(solved))
  BY DEF Plan
<1>3. ch.stage # "confirmed"
  BY <1>1 DEF Channels, Stages
<1>4. ch'.profile = ch.profile /\ ch'.stage = "draft_ready" /\ ch'.action = "confirm_draft"
  BY <1>1, <1>2, <1>3 DEF Run, Planned, Channels
<1>5. at = "plan" /\ at' = After("plan", ch') /\ UNCHANGED <<user, stored, conv, out, turns>>
  BY <1>2 DEF Run, Plan
<1>6. at' = "output"
  BY <1>4, <1>5, StraightEdges
<1>7. /\ log'.drafted = TRUE /\ log'.written = log.written /\ log'.failed = log.failed
      /\ log'.asked = log.asked /\ log'.booked = log.booked
  BY <1>1 DEF Plan, Logs
<1>8. /\ ~log.booked /\ ~(log.written > 0)
      /\ ~log.failed => log.asked = {} /\ Complete(ch.profile)
  BY <1>5 DEF IInv, Inv, Booked, Written, Straight
<1>9. (Idle /\ Answered /\ Written /\ Carried)'
  BY <1>4, <1>5, <1>6, <1>7, <1>8 DEF IInv, Inv, Idle, Answered, Written, Carried, Named
<1>10. (Booked /\ Straight)'
  BY <1>4, <1>5, <1>6, <1>7, <1>8 DEF Booked, Straight
<1> QED
  BY <1>9, <1>10 DEF Inv

\* The tools and the checks run only when a node has failed.
LEMMA DetourInv == IInv /\ (CallTools \/ CheckFacts \/ CheckHallucination) => Inv'
<1> SUFFICES ASSUME IInv, CallTools \/ CheckFacts \/ CheckHallucination PROVE Inv'
  OBVIOUS
<1>1. ch \in Channels /\ log \in Logs
  BY DEF IInv, TypeOK, Channels, Logs
<1>2. PICK n \in {"tool_call", "factcheck", "hallucination"} : at = n /\ at' = After(n, ch')
  BY DEF CallTools, CheckFacts, CheckHallucination, Quietly, Run
<1>3. UNCHANGED <<user, stored, conv, out, turns>>
  BY DEF CallTools, CheckFacts, CheckHallucination, Quietly, Run
<1>4. ch'.profile = ch.profile /\ (ch'.stage = ch.stage \/ ch'.stage \notin Ended)
  BY <1>1 DEF CallTools, CheckFacts, CheckHallucination, Quietly, Run, Channels, Ended
<1>5. log'.written = log.written /\ log'.failed = log.failed /\ log'.booked = log.booked
  BY <1>1 DEF CallTools, CheckFacts, CheckHallucination, Quietly, Logs
<1>6. at' \in (Nodes \ {"gathering", "booking", "profile_recall"}) \cup {"closing"}
  BY <1>2, Edges DEF Nodes
<1>7. log.failed /\ ~log.booked /\ ~(log.written > 0)
  BY <1>2 DEF IInv, Inv, Straight, Booked, Written
<1> QED
  BY <1>2, <1>3, <1>4, <1>5, <1>6, <1>7
     DEF IInv, Inv, Idle, Answered, Written, Booked, Straight, Carried, Named, Nodes, Ended

LEMMA OutputInv == IInv /\ Output => Inv'
<1> SUFFICES ASSUME IInv, Output PROVE Inv'
  OBVIOUS
<1>1. ch \in Channels /\ log \in Logs
  BY DEF IInv, TypeOK, Channels, Logs
<1>2. PICK stage \in Stages : Run("output", [ch EXCEPT !.stage = stage])
  BY OutputStep DEF IInv
<1>3. ch'.profile = ch.profile /\ ch'.action = ch.action
  BY <1>1, <1>2 DEF Run, Channels
<1>4. at = "output" /\ at' = After("output", ch') /\ UNCHANGED <<user, stored, conv, turns>>
  BY <1>2, OutputStep DEF Run, IInv
<1>5. at' = IF ch.action \in {"clarify", "confirm_draft"} THEN "closing" ELSE "booking"
  BY <1>3, <1>4, StraightEdges
<1>6. out' # NoPatch /\ out'.profile \in {NoProfile, ch.profile}
  BY OutputStep DEF IInv
<1>7. /\ log'.asked = Asked /\ log'.written = log.written /\ log'.failed = log.failed
      /\ log'.drafted = log.drafted /\ log'.booked = log.booked
  BY <1>1, OutputStep DEF IInv, Logs
<1>8. /\ ~log.booked /\ ~(log.written > 0)
      /\ ~log.failed /\ log.drafted => ch.action = "confirm_draft" /\ Complete(ch.profile)
  BY <1>4 DEF IInv, Inv, Booked, Written, Straight
<1>9. (Idle /\ Answered /\ Written /\ Carried)'
  BY <1>3, <1>4, <1>5, <1>6, <1>7, <1>8 DEF IInv, Inv, Idle, Answered, Written, Carried, Named
<1>10. (Booked /\ Straight)'
  BY <1>3, <1>4, <1>5, <1>7, <1>8 DEF Booked, Straight, Asked
<1> QED
  BY <1>9, <1>10 DEF Inv

LEMMA BookInv == IInv /\ Book => Inv'
<1> SUFFICES ASSUME IInv, Book PROVE Inv'
  OBVIOUS
<1>1. ch \in Channels /\ log \in Logs
  BY DEF IInv, TypeOK, Channels, Logs
<1>2. ch'.profile = ch.profile /\ ch'.action = ch.action /\ ch'.stage = "completed"
  BY <1>1 DEF Book, Run, Channels
<1>3. /\ at = "booking" /\ at' = After("booking", ch')
      /\ UNCHANGED <<user, stored, conv, out, turns>>
  BY DEF Book, Run
<1>4. at' = "profile_recall"
  BY <1>3, StraightEdges
<1>5. /\ log'.booked = TRUE /\ log'.written = log.written /\ log'.failed = log.failed
      /\ log'.asked = log.asked /\ log'.drafted = log.drafted
  BY <1>1 DEF Book, Logs
<1>6. /\ out # NoPatch /\ ~(log.written > 0)
      /\ ~log.failed => ~log.drafted /\ log.asked = {}
  BY <1>3 DEF IInv, Inv, Answered, Written, Straight
<1> QED
  BY <1>2, <1>3, <1>4, <1>5, <1>6
     DEF IInv, Inv, Idle, Answered, Written, Booked, Straight, Carried, Named, Ended

LEMMA NodeFailsInv == IInv /\ NodeFails => Inv'
<1> SUFFICES ASSUME IInv, NodeFails PROVE Inv'
  OBVIOUS
<1>1. ch \in Channels /\ log \in Logs
  BY DEF IInv, TypeOK, Channels, Logs
<1>2. PICK n \in Fallible, level \in Levels :
        /\ at = n
        /\ Run(n, [ch EXCEPT !.action = level])
        /\ out' = IF n = "output" THEN EmptyPatch ELSE out
  BY DEF NodeFails
<1>3. n \in Nodes
  BY DEF Fallible
<1>4. ch'.profile = ch.profile /\ ch'.stage = ch.stage
  BY <1>1, <1>2 DEF Run, Channels
<1>5. at' = After(n, ch') /\ UNCHANGED <<user, stored, conv, turns>>
  BY <1>2 DEF NodeFails, Run
<1>6. /\ at' \in (Nodes \ {"gathering"}) \cup {"closing"}
      /\ at' = "booking" => n = "output"
      /\ n = "profile_recall" /\ ch.stage \in Ended => at' = "closing"
  BY <1>3, <1>4, <1>5, Edges
<1>7. log'.failed = TRUE /\ log'.written = log.written /\ log'.booked = log.booked
  BY <1>1 DEF NodeFails, Logs
<1>8. ~(log.written > 0)
  BY <1>2, <1>3 DEF IInv, Inv, Written, Nodes
<1>9. out' # NoPatch => out'.profile \in {NoProfile, ch.profile}
  BY <1>2, EmptyPatchType DEF IInv, Inv, Carried, Named
<1>10. out # NoPatch \/ n = "output" => out' # NoPatch
  BY <1>2, EmptyPatchType
<1>11. (Idle /\ Written /\ Carried)'
  BY <1>2, <1>3, <1>4, <1>5, <1>6, <1>7, <1>8, <1>9 DEF IInv, Inv, Idle, Written, Carried, Named, Nodes
<1>12. Answered'
  BY <1>2, <1>3, <1>4, <1>6, <1>10 DEF IInv, Inv, Answered, Nodes
<1>13. (Booked /\ Straight)'
  BY <1>2, <1>3, <1>4, <1>6, <1>7 DEF IInv, Inv, Booked, Straight, Nodes
<1> QED
  BY <1>11, <1>12, <1>13 DEF Inv

LEMMA EngineInv == IInv /\ (Overrun \/ EngineFails) => Inv'
<1> SUFFICES ASSUME IInv, Overrun \/ EngineFails PROVE Inv'
  OBVIOUS
<1>1. log \in Logs
  BY DEF IInv, TypeOK, Logs
<1>2. /\ at \in Nodes /\ at' = "closing" /\ UNCHANGED <<user, stored, conv, ch, out, turns>>
      /\ log' = [log EXCEPT !.failed = TRUE]
  BY DEF Overrun, EngineFails, GiveUp
<1>3. log'.failed = TRUE /\ log'.written = log.written /\ log'.booked = log.booked
  BY <1>1, <1>2 DEF Logs
<1> QED
  BY <1>2, <1>3
     DEF IInv, Inv, Idle, Answered, Written, Booked, Straight, Carried, Named, Nodes

\* However a turn ends, it leaves no trace in the runner, and no more trips
\* than turns.
LEMMA EndInv ==
  ASSUME IInv, at # "idle", at' = "idle", NoTurn, UNCHANGED <<user, stored, turns>>
  PROVE  Inv'
<1>1. stored <= turns
  <2>1. stored \in Nat /\ turns \in Nat /\ log.written \in Nat
    BY LimitAssumption DEF IInv, TypeOK
  <2>2. log.written <= 1 /\ stored <= turns - 1 + log.written
    BY <2>1 DEF IInv, Inv, Written
  <2> QED
    BY <2>1, <2>2
<1> QED
  BY <1>1 DEF NoTurn, Inv, Idle, Answered, Written, Booked, Straight, Carried, Named, NewLog

LEMMA EndingInv == IInv /\ (Finish \/ FinishEmpty \/ FinishRefused \/ Restart) => Inv'
  BY EndInv DEF Finish, FinishEmpty, FinishRefused, Restart, Close

LEMMA NextInv == IInv /\ [Next]_vars => IInv'
<1>1. IInv /\ Work => Inv'
  BY GatherInv, WriteTripInv, RecallInv, RetrieveInv, PlanInv, DetourInv, OutputInv, BookInv,
     NodeFailsInv, EngineInv, EndingInv DEF Work
<1>2. IInv /\ Next => Inv'
  BY <1>1, BeginInv, BeginFailsInv, EngineInv, EndingInv DEF Next
<1>3. IInv /\ UNCHANGED vars => Inv'
  BY DEF vars, IInv, Inv, Idle, Answered, Written, Booked, Straight, Carried, Named
<1> QED
  BY <1>2, <1>3, NextType DEF IInv

THEOREM Invariant == Spec => []IInv
  BY InitType, InitInv, NextInv, PTL DEF Spec, IInv

-----------------------------------------------------------------------------
(* The properties.                                                         *)

\* Whatever nodes raise and however the turn before ended, a turn writes the
\* end of a trip at most once and only after its own answer, and the database
\* never counts more trips than turns (node_impl.py:172).
THEOREM TripEndsOnceHolds == Spec => []TripEndsOnce
<1>1. IInv => TripEndsOnce
  <2> SUFFICES ASSUME IInv PROVE TripEndsOnce
    OBVIOUS
  <2>1. stored \in Nat /\ turns \in Nat /\ log.written \in Nat
    BY LimitAssumption DEF IInv, TypeOK
  <2>2. log.written <= IF out # NoPatch THEN 1 ELSE 0
    BY <2>1 DEF IInv, Inv, Written
  <2>3. stored <= turns
    <3>1. CASE at = "idle"
      BY <3>1 DEF IInv, Inv, Idle
    <3>2. CASE at # "idle"
      <4>1. log.written <= 1 /\ stored <= turns - 1 + log.written
        BY <2>1, <3>2 DEF IInv, Inv, Written
      <4> QED
        BY <2>1, <4>1
    <3> QED
      BY <3>1, <3>2
  <2> QED
    BY <2>2, <2>3 DEF TripEndsOnce
<1> QED
  BY <1>1, Invariant, PTL

\* On the straight road a turn that drew a draft books nothing (routers.py:81).
THEOREM DraftAwaitsUserHolds == Spec => []DraftAwaitsUser
<1>1. IInv => DraftAwaitsUser
  BY DEF IInv, Inv, Straight, DraftAwaitsUser
<1> QED
  BY <1>1, Invariant, PTL

-----------------------------------------------------------------------------
(* What is known was said: the conversation and the channels have no value *)
(* that the user did not tell in this conversation, and no special need    *)
(* that is not remembered either.                                          *)

Said ==
  /\ Told(conv.profile, told \cup Remembered)
  /\ Told(ch.profile, told \cup Remembered)

\* Nobody becomes another user.
LEMMA SameUser == TypeOK /\ [Next]_vars => Remembered' = Remembered
<1>1. TypeOK /\ Gather => UNCHANGED user
  BY GatherStep DEF Gathered, Run
<1>2. WriteTrip \/ RecallProfile \/ Retrieve \/ CheckWeather \/ CallTools => UNCHANGED user
  BY DEF WriteTrip, RecallProfile, Retrieve, CheckWeather, CallTools, Quietly, Run
<1>3. Plan \/ Book => UNCHANGED user
  BY DEF Plan, Book, Run
<1>4. CheckFacts => UNCHANGED user
  BY Zenon DEF CheckFacts, Run
<1>5. CheckHallucination => UNCHANGED user
  BY DEF CheckHallucination, Run
<1>6. Output => UNCHANGED user
  BY Zenon DEF Output, Run
<1>7. NodeFails => UNCHANGED user
  BY DEF NodeFails, Run
<1>8. TypeOK /\ [Next]_vars => UNCHANGED user
  BY <1>1, <1>2, <1>3, <1>4, <1>5, <1>6, <1>7
     DEF Next, Work, Begin, BeginFails, Overrun, EngineFails, GiveUp, Finish, FinishEmpty,
         FinishRefused, Close, Restart, vars
<1> QED
  BY <1>8 DEF Remembered

LEMMA ToldNothing == ASSUME NEW slots PROVE Told(Blank, slots)
  BY DEF Told, Blank, Slots

LEMMA InitSaid == Init => Said
<1> SUFFICES ASSUME Init PROVE Said
  OBVIOUS
<1>1. conv.profile = Blank /\ ch.profile = Blank
  BY DEF Init
<1> QED
  BY <1>1, ToldNothing DEF Said

LEMMA GatherSaid == IInv /\ Said /\ Gather => Said'
<1> SUFFICES ASSUME IInv, Said, Gather PROVE Said'
  OBVIOUS
<1>1. PICK profile \in Profiles, action \in {"plan", "respond", "clarify"} :
        /\ Gathered(profile, action)
        /\ told \subseteq told' /\ Told(profile, told' \cup Remembered)
  BY GatherStep DEF IInv, Said
<1>2. ch \in Channels /\ conv \in Conversations
  BY DEF IInv, TypeOK, Channels, Conversations
<1>3. ch'.profile = profile /\ conv'.profile \in {conv.profile, profile}
  BY <1>1, <1>2 DEF Gathered, Run, Synced, Channels, Conversations
<1>4. Told(conv.profile, told' \cup Remembered)
  BY <1>1 DEF Said, Told
<1>5. Remembered' = Remembered
  BY SameUser DEF IInv, Next, Work
<1> QED
  BY <1>1, <1>3, <1>4, <1>5 DEF Said

\* The end of a turn leaves a profile of the conversation's, the channels',
\* or a blank one.
LEMMA EndSaid == IInv /\ Said /\ (Finish \/ FinishEmpty \/ FinishRefused) => Said'
<1> SUFFICES ASSUME IInv, Said, Finish \/ FinishEmpty \/ FinishRefused PROVE Said'
  OBVIOUS
<1>1. Result.profile \in {NoProfile, ch.profile}
  <2>1. CASE out # NoPatch
    BY <2>1 DEF Result, IInv, Inv, Carried
  <2>2. CASE out = NoPatch
    BY <2>2 DEF Result, EmptyPatch
  <2> QED
    BY <2>1, <2>2
<1>2. conv'.profile \in {conv.profile, ch.profile, Blank}
  BY <1>1, EmptyPatchType DEF Finish, FinishEmpty, FinishRefused, Close, SyncedBack, Bare
<1>3. UNCHANGED <<ch, told>>
  BY DEF Finish, FinishEmpty, FinishRefused, Close
<1>4. Remembered' = Remembered
  BY SameUser DEF IInv, Next, Work
<1>5. Told(Blank, told' \cup Remembered')
  BY ToldNothing
<1> QED
  BY <1>2, <1>3, <1>4, <1>5 DEF Said

\* The other steps leave both profiles, or put the one over the other.
LEMMA OtherSaid ==
  IInv /\ Said /\ Next /\ ~Gather /\ ~Finish /\ ~FinishEmpty /\ ~FinishRefused => Said'
<1> SUFFICES ASSUME IInv, Said, Next, ~Gather, ~Finish, ~FinishEmpty, ~FinishRefused PROVE Said'
  OBVIOUS
<1>1. UNCHANGED <<conv, told>>
  BY DEF Next, Work, Begin, BeginFails, WriteTrip, RecallProfile, Retrieve, CheckWeather,
     Plan, CallTools, CheckFacts, CheckHallucination, Output, Book, NodeFails, Overrun,
     EngineFails, GiveUp, Restart, Quietly
<1>2. ch \in Channels
  BY DEF IInv, TypeOK, Channels
<1>3. ch'.profile \in {ch.profile, conv.profile}
  <2>1. CASE Begin
    BY <1>2, <2>1 DEF Begin, Opened, Channels
  <2>2. CASE ~Begin
    BY <1>2, <2>2 DEF Next, Work, BeginFails, WriteTrip, RecallProfile, Retrieve, CheckWeather,
       Plan, Planned, CallTools, CheckFacts, CheckHallucination, Output, Book, NodeFails, Overrun,
       EngineFails, GiveUp, Restart, Quietly, Run, Channels
  <2> QED
    BY <2>1, <2>2
<1>4. Remembered' = Remembered
  BY SameUser DEF IInv
<1> QED
  BY <1>1, <1>3, <1>4 DEF Said

LEMMA NextSaid == IInv /\ Said /\ [Next]_vars => Said'
<1>1. IInv /\ Said /\ UNCHANGED vars => Said'
  BY SameUser DEF IInv, vars, Said
<1> QED
  BY <1>1, GatherSaid, EndSaid, OtherSaid

\* On the straight road a trip is drawn up in no turn that asks, every slot
\* with a value was told in the conversation, and a special need that is
\* planned for was told or is remembered of the user (gathering.py:101).
THEOREM PlansOnWhatWasSaidHolds == Spec => []PlansOnWhatWasSaid
<1>1. IInv /\ Said => PlansOnWhatWasSaid
  <2> SUFFICES ASSUME IInv, Said, log.drafted, ~log.failed
               PROVE  /\ log.asked = {}
                      /\ Scalars \subseteq told
                      /\ \A f \in Flags: ch.profile[f] = "yes" => f \in told \cup Remembered
    BY DEF PlansOnWhatWasSaid
  <2>1. Complete(ch.profile) /\ log.asked = {}
    BY DEF IInv, Inv, Straight
  <2>2. ASSUME NEW s \in Scalars PROVE s \in told
    <3>1. ch.profile \in Profiles
      BY DEF IInv, TypeOK, Channels
    <3>2. ch.profile[s] # Unset
      BY <2>1 DEF Complete, Missing, Slots
    <3>3. ch.profile[s] # "no"
      BY <3>1, <3>2, ValuesAssumption DEF Profiles
    <3>4. s \notin Remembered
      BY SlotsAssumption DEF Remembered
    <3> QED
      BY <3>2, <3>3, <3>4 DEF Said, Told, Slots
  <2>3. ASSUME NEW f \in Flags, ch.profile[f] = "yes" PROVE f \in told \cup Remembered
    BY <2>3 DEF Said, Told, Slots, Unset
  <2> QED
    BY <2>1, <2>2, <2>3
<1>2. IInv /\ Said /\ [Next]_vars => (IInv /\ Said)'
  BY NextInv, NextSaid
<1>3. Spec => [](IInv /\ Said)
  BY InitType, InitInv, InitSaid, <1>2, PTL DEF Spec, IInv
<1> QED
  BY <1>1, <1>3, PTL

-----------------------------------------------------------------------------
(* What is known stays known.                                              *)

\* All but the end of a turn leaves the conversation or learns from the user.
LEMMA WorkKeeps ==
  ASSUME IInv, Next, ~Finish, ~FinishEmpty, ~FinishRefused
  PROVE  Keeps(conv.profile, conv'.profile, Named)
<1>1. CASE Gather
  <2>1. PICK profile \in Profiles, action \in {"plan", "respond", "clarify"} :
          Keeps(conv.profile, profile, Named) /\ Gathered(profile, action)
    BY <1>1, GatherStep DEF IInv
  <2>2. conv'.profile \in {conv.profile, profile}
    <3>1. conv \in Conversations
      BY DEF IInv, TypeOK, Conversations
    <3> QED
      BY <2>1, <3>1 DEF Gathered, Synced, Conversations
  <2> QED
    BY <2>1, <2>2, KeepsItself
<1>2. CASE ~Gather
  <2>1. conv' = conv
    BY <1>2 DEF Next, Work, Begin, BeginFails, WriteTrip, RecallProfile, Retrieve, CheckWeather,
       Plan, CallTools, CheckFacts, CheckHallucination, Output, Book, NodeFails, Overrun,
       EngineFails, GiveUp, Restart, Quietly
  <2> QED
    BY <2>1, KeepsItself
<1> QED
  BY <1>1, <1>2

\* The result carries back the profile of the channels or none.
LEMMA EndKeeps ==
  ASSUME IInv, Finish \/ FinishEmpty
  PROVE  Keeps(conv.profile, conv'.profile, Named)
<1>1. at = "closing" /\ Keeps(conv.profile, ch.profile, Named)
  BY DEF Finish, FinishEmpty, Close, IInv, Inv, Carried
<1>2. CASE FinishEmpty
  BY <1>2, EmptyPatchType, KeepsItself DEF FinishEmpty, Close, SyncedBack
<1>3. CASE Finish
  <2>1. Result.profile \in {NoProfile, ch.profile}
    <3>1. CASE out # NoPatch
      BY <3>1 DEF Result, IInv, Inv, Carried
    <3>2. CASE out = NoPatch
      BY <3>2 DEF Result, EmptyPatch
    <3> QED
      BY <3>1, <3>2
  <2>2. conv'.profile \in {conv.profile, ch.profile}
    BY <1>3, <2>1 DEF Finish, Close, SyncedBack
  <2> QED
    BY <1>1, <2>2, KeepsItself
<1> QED
  BY <1>2, <1>3

\* From turn to turn the conversation forgets no slot, and no special need is
\* taken back, but by a user without a name and when the save at the end of a
\* turn is refused by the lock (chat_runtime.py:403 and the conflict resolver).
THEOREM KnownStaysHolds == Spec => KnownStays
<1> DEFINE Stays == \A s \in Slots:
                      \/ conv.profile[s] = Unset
                      \/ conv'.profile[s] = conv.profile[s]
                      \/ conv'.profile[s] # Unset /\ (conv.profile[s] # "yes" \/ user = "unnamed")
                      \/ used'["conflict"] > used["conflict"]
<1>1. IInv /\ Next => Stays
  <2> SUFFICES ASSUME IInv, Next PROVE Stays
    OBVIOUS
  <2>1. CASE FinishRefused
    <3>1. used["conflict"] \in Nat /\ used' = [used EXCEPT !["conflict"] = used["conflict"] + 1]
      BY <2>1 DEF FinishRefused, Spend, IInv, TypeOK, Disturbances
    <3>2. used'["conflict"] = used["conflict"] + 1
      BY <3>1 DEF IInv, TypeOK, Disturbances
    <3> QED
      BY <3>1, <3>2
  <2>2. CASE ~FinishRefused
    BY <2>2, WorkKeeps, EndKeeps DEF Keeps, Named
  <2> QED
    BY <2>1, <2>2
<1>2. IInv /\ [Next]_vars => [Stays]_vars
  BY <1>1
<1>3. Spec => [][Stays]_vars
  BY <1>2, Invariant, PTL DEF Spec
<1> QED
  BY <1>3 DEF KnownStays
=============================================================================
