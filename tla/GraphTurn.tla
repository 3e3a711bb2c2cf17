------------------------------ MODULE GraphTurn ------------------------------
(***************************************************************************)
(* The planning graph (graph/graph.py, routers.py, nodes.py, node_impl.py, *)
(* gathering.py, exceptions.py) run turn after turn over one conversation  *)
(* by graph/runner.py for api/chat_runtime.py.                             *)
(*                                                                         *)
(* A node is a step: it reads the channels of the checkpoint, patches      *)
(* them, and its router names the next node.  Any node may raise: the      *)
(* wrapper of exceptions.py turns that into a next_action and the graph    *)
(* goes on.  The engine gives up after RecursionLimit steps.  A process    *)
(* may die in the middle of a turn; the checkpoint survives.               *)
(***************************************************************************)
EXTENDS Conversation, Tools, Naturals

CONSTANTS
  Itineraries,     \* what a draft may hold
  DatabaseRows,    \* what the database may say of the places
  Sources,         \* what may be behind the tools
  Sayings,         \* the kinds of words the user may use
  Exports,         \* which of the export libraries and keys work
  RecursionLimit,  \* the engine's limit on steps (external: LangGraph, 25)
  MaxTurns,        \* bound: how many turns the user takes
  Budget,          \* bound: how often each kind of disturbance may happen
  MaxDisturbances  \* bound: how many may happen altogether

Disturbances == {"fault", "conflict", "restart"}

ASSUME LimitAssumption == RecursionLimit \in Nat /\ MaxTurns \in Nat
ASSUME BudgetAssumption ==
  Budget \in [Disturbances -> Nat] /\ MaxDisturbances \in Nat

Drafts == 1..MaxTurns  \* a draft is named by the turn that made it
NoDraft == 0
NoProfile == [s \in Slots |-> "none"]  \* the patch says nothing of it
NoPatch == [draft |-> MaxTurns + 1, profile |-> NoProfile, files |-> {}]
EmptyPatch == [draft |-> NoDraft, profile |-> NoProfile, files |-> {}]

Nodes == {"gathering", "profile_recall", "retrieve", "weather_check", "plan",
          "tool_call", "factcheck", "hallucination", "output", "booking"}
Fallible == Nodes \ {"hallucination"}  \* it catches its own exceptions

(* The levels an exception is given.  No router tells "retry" from         *)
(* "fallback", so one name stands for both.                                *)
Levels == {"fallback", "clarify"}
Actions == Levels \cup {"", "plan", "respond", "planner", "confirm_draft", "enrich"}
Stages == {"created", "resumed", "gathering", "demand_parsed", "memory_loaded",
           "rag_done", "draft_ready", "enriching", "tools_executed", "fact_check_failed",
           "fact_check_done", "awaiting_booking", "safety_blocked", "completed",
           "memory_updated"}

VARIABLES
  user,    \* whether the messages come with a user's id, "anonymous" or none
  stored,  \* the trips the database counts of the user
  conv,    \* the conversation state of chat_runtime: profile, draft, phase
  ch,      \* the channels of the checkpoint: profile, draft, stage, action,
           \* and ready, that the message of intent_ready is among them
  at,      \* the node that runs next, "closing" after the last, "idle" between turns
  steps,   \* steps of this turn
  out,     \* the output node's patch, output_state of the runner
  turns,   \* turns begun
  log,     \* history of this turn
  told,    \* history: the slots heard of the user in this conversation
  used

vars == <<user, stored, conv, ch, at, steps, out, turns, log, told, used>>

Users == {"registered", "anonymous", "unnamed"}

Spent == MapThenSumSet(LAMBDA d: used[d], Disturbances)

Spend(d) ==
  /\ used[d] < Budget[d]
  /\ Spent < MaxDisturbances
  /\ used' = [used EXCEPT ![d] = @ + 1]

(* What a turn did: whether a node raised, the slots it asked for, whether *)
(* it drew a draft, a check warned of the draft, and it booked, and how    *)
(* often it wrote the trip to the long-term memory.                        *)
NewLog == [failed |-> FALSE, asked |-> {}, drafted |-> FALSE, warned |-> FALSE,
           booked |-> FALSE, written |-> 0]

NoTurn == steps' = 0 /\ out' = NoPatch /\ log' = NewLog

Init ==
  /\ user \in Users
  /\ stored = 0 /\ told = {}
  /\ conv = [profile |-> Blank, draft |-> NoDraft, phase |-> "gathering"]
  /\ ch = [profile |-> Blank, draft |-> NoDraft, stage |-> "created", action |-> "",
           ready |-> FALSE]
  /\ at = "idle" /\ steps = 0 /\ out = NoPatch /\ turns = 0
  /\ log = NewLog
  /\ used = [d \in Disturbances |-> 0]

-----------------------------------------------------------------------------
(* The routers, on the channels c that the node left. *)

RouteAfterGathering(c) ==
  IF c.action \in {"clarify", "respond"} THEN "output" ELSE "profile_recall"

RouteAfterProfile(c) ==
  IF c.stage \in {"memory_updated", "completed"} THEN "closing" ELSE "retrieve"

RouteAfterPlan(c) ==
  IF c.action \in {"clarify", "confirm_draft"} THEN "output" ELSE "tool_call"

RouteAfterToolCall(c) == IF c.action = "clarify" THEN "output" ELSE "factcheck"

(* The router counts the loops in a copy of the state that the engine      *)
(* throws away: loop_count is 0 whenever it is read.                       *)
RouteAfterFactcheck(c) ==
  IF c.action = "clarify" THEN "output"
  ELSE IF c.action = "planner" THEN "plan" ELSE "hallucination"

\* Mutant: a draft is booked like a final plan.
RouteAfterOutput_books(c) == IF c.action = "clarify" THEN "closing" ELSE "booking"

RouteAfterOutput(c) ==
  IF c.action \in {"clarify", "confirm_draft"} THEN "closing" ELSE "booking"

\* The edges of build_graph.
After(n, c) ==
  CASE n = "gathering"      -> RouteAfterGathering(c)
    [] n = "profile_recall" -> RouteAfterProfile(c)
    [] n = "retrieve"       -> "weather_check"
    [] n = "weather_check"  -> "plan"
    [] n = "plan"           -> RouteAfterPlan(c)
    [] n = "tool_call"      -> RouteAfterToolCall(c)
    [] n = "factcheck"      -> RouteAfterFactcheck(c)
    [] n = "hallucination"  -> "output"
    [] n = "output"         -> RouteAfterOutput(c)
    [] n = "booking"        -> "profile_recall"

\* Mutant: the engine never counts.
Counted_never == UNCHANGED steps

Counted == steps' = steps + 1

\* Node n runs, leaving the channels c.
Run(n, c) ==
  /\ at = n
  /\ steps < RecursionLimit
  /\ Counted
  /\ ch' = c
  /\ at' = After(n, c)
  /\ UNCHANGED <<user, turns>>

Quietly(n, c) == Run(n, c) /\ UNCHANGED <<stored, conv, out, log, told, used>>

-----------------------------------------------------------------------------
(* A turn begins: the runner loads the session, or creates one when the    *)
(* load found nothing, and puts the conversation's profile over it.        *)

\* Mutant: the stage of the last turn is kept.
Opened_stale(found) ==
  [ch EXCEPT !.profile = conv.profile,
             !.draft = IF found /\ conv.draft # NoDraft THEN conv.draft ELSE @]

Opened(found) ==
  [ch EXCEPT !.profile = conv.profile,
             !.draft = IF found /\ conv.draft # NoDraft THEN conv.draft ELSE @,
             !.stage = IF found THEN "resumed" ELSE "created"]

Begin ==
  /\ at = "idle" /\ turns < MaxTurns
  /\ \E found \in BOOLEAN: ch' = Opened(found)
  /\ at' = "gathering"
  /\ turns' = turns + 1
  /\ log' = NewLog
  /\ UNCHANGED <<user, stored, conv, steps, out, told, used>>

\* Creating the session may itself fail: nobody catches it, the turn is gone.
BeginFails ==
  /\ at = "idle" /\ turns < MaxTurns
  /\ Spend("fault")
  /\ turns' = turns + 1
  /\ UNCHANGED <<user, stored, conv, ch, at, steps, out, log, told>>

-----------------------------------------------------------------------------
(* The nodes. *)

\* Mutant: a turn that talks about the trip always plans.
NextAction_eager(intent, profile) ==
  IF intent \in PlanningIntents THEN "plan" ELSE "respond"

NextAction(intent, profile) ==
  IF intent \notin PlanningIntents THEN "respond"
  ELSE IF Complete(profile) THEN "plan" ELSE "clarify"

(* The first plan of a conversation that is still in its first phase puts  *)
(* the message of intent_ready into a channel, and nobody takes it out.    *)
Ready(action) == ch.ready \/ (action = "plan" /\ conv.phase = "gathering")

(* The chat runtime copies the profile back when the intent_ready event    *)
(* comes, and the phase as it was before the turn.                         *)
Synced(profile, ready) == IF ready THEN [conv EXCEPT !.profile = profile] ELSE conv

Gathered(profile, action) ==
  /\ Run("gathering", [ch EXCEPT !.profile = profile, !.action = action,
                                 !.stage = IF action = "clarify" THEN "gathering"
                                           ELSE "demand_parsed",
                                 !.ready = Ready(action)])
  /\ conv' = Synced(profile, Ready(action))

\* plain: the slots that are said in words the extractors know.
Gather ==
  /\ at = "gathering"
  /\ \E said \in Profiles, greeting \in BOOLEAN: \E plain \in SUBSET Stated(said):
       \E parsed \in Parses(said, plain, greeting), recalled \in Recalls(user, conv.profile):
         LET extracted == Extracted(said, plain)
             heard == Enriched(parsed.slots, extracted)
             profile == AfterTurn(conv.profile, heard, recalled)
         IN /\ greeting => said = Blank
            /\ Gathered(profile, NextAction(Normalized(parsed, conv.profile, extracted, greeting), profile))
            /\ told' = told \cup Stated(heard)
  /\ UNCHANGED <<stored, out, log, used>>

\* The end of a trip is written to the long-term memory of a registered
\* user, or that fails unnoticed.
WriteTrip ==
  /\ user = "registered" /\ ch.stage = "completed"
  /\ Run("profile_recall", [ch EXCEPT !.stage = "memory_updated"])
  /\ stored' \in UpdateProfile(stored)
  /\ log' = [log EXCEPT !.written = @ + 1]
  /\ UNCHANGED <<conv, out, told, used>>

RecallProfile ==
  /\ ~(user = "registered" /\ ch.stage = "completed")
  /\ Quietly("profile_recall",
             [ch EXCEPT !.stage = IF @ \in {"completed", "memory_updated"} THEN @
                                  ELSE "memory_loaded"])

Retrieve == Quietly("retrieve", [ch EXCEPT !.stage = "rag_done"])

CheckWeather == Quietly("weather_check", ch)

(* With no destination, or no place to go, the planner returns "clarify"   *)
(* or "respond" and no itinerary, and plan_node overwrites what it says.   *)
Planned(solved) ==
  IF ch.stage = "confirmed" THEN [ch EXCEPT !.action = "enrich", !.stage = "enriching"]
  ELSE [ch EXCEPT !.draft = IF solved THEN turns ELSE @,
                  !.stage = "draft_ready", !.action = "confirm_draft"]

Plan ==
  \E solved \in BOOLEAN:
    /\ solved => ch.profile["destination"] # Unset
    /\ Run("plan", Planned(solved))
    /\ log' = [log EXCEPT !.drafted = TRUE]
    /\ UNCHANGED <<stored, conv, out, told, used>>

CallTools == Quietly("tool_call", [ch EXCEPT !.stage = "tools_executed"])

\* What the draft may hold.
Held == IF ch.draft = NoDraft THEN {<<>>} ELSE Itineraries

CheckFacts ==
  /\ at = "factcheck"
  /\ \E plan \in Held, rows \in DatabaseRows: \E raisesAt \in 1..(Len(FlattenSeq(plan)) + 1):
       LET conflicts == Conflicts(plan, rows, raisesAt) # {} IN
       /\ Run("factcheck",
              IF conflicts
              THEN [ch EXCEPT !.stage = "fact_check_failed", !.action = "planner"]
              ELSE [ch EXCEPT !.stage = "fact_check_done"])
       /\ log' = [log EXCEPT !.warned = @ \/ conflicts]
  /\ UNCHANGED <<stored, conv, out, told, used>>

(* The doubts become warnings; nobody reads the score.  When the tools    *)
(* raised, the results are those of an earlier turn, or none at all.       *)
CheckHallucination ==
  /\ at = "hallucination"
  /\ \E plan \in Held, s \in Sources:
       \E results \in {Results(plan, s)} \cup (IF log.failed THEN {NoResults} ELSE {}):
         log' = [log EXCEPT !.warned = @ \/ Doubts(plan, s.candidates, results) # {}]
  /\ Run("hallucination", ch)
  /\ UNCHANGED <<stored, conv, out, told, used>>

(* The clarification carries the profile back to the runtime, a plan only  *)
(* its itinerary; the safety engine may replace either message.            *)
Patch ==
  IF ch.action = "clarify" THEN [draft |-> NoDraft, profile |-> ch.profile, files |-> {}]
                           ELSE [draft |-> ch.draft, profile |-> NoProfile, files |-> {}]

Asked == IF ch.action = "clarify" THEN Missing(ch.profile) ELSE {}

(* Files are made of a question too, with the itinerary of an earlier      *)
(* turn, but not of an apology nor of what was blocked.                    *)
Output ==
  /\ at = "output"
  /\ \E plan \in Held, said \in Sayings, e \in Exports:
       LET stage == IF ~Safe(plan, said) THEN "safety_blocked"
                    ELSE IF ch.action = "clarify" THEN "gathering"
                    ELSE IF ch.draft = NoDraft THEN "completed" ELSE "awaiting_booking"
       IN  /\ Run("output", [ch EXCEPT !.stage = stage])
           /\ out' = [Patch EXCEPT !.files =
                        IF stage \in {"safety_blocked", "completed"} THEN {} ELSE Files(Firsts(plan), e)]
  /\ log' = [log EXCEPT !.asked = Asked]
  /\ UNCHANGED <<stored, conv, told, used>>

Book ==
  /\ Run("booking", [ch EXCEPT !.stage = "completed"])
  /\ log' = [log EXCEPT !.booked = TRUE]
  /\ UNCHANGED <<stored, conv, out, told, used>>

(* global_error_handler: the level of the error becomes next_action, the   *)
(* stage stays.  The failed output node's patch is output_state as well.   *)
NodeFails ==
  \E n \in Fallible \cap {at}, level \in Levels:
    /\ Run(n, [ch EXCEPT !.action = level])
    /\ out' = IF n = "output" THEN EmptyPatch ELSE out
    /\ log' = [log EXCEPT !.failed = TRUE]
    /\ UNCHANGED <<stored, conv, told, used>>

-----------------------------------------------------------------------------
(* The end of a turn. *)

GiveUp ==
  /\ at' = "closing"
  /\ log' = [log EXCEPT !.failed = TRUE]
  /\ UNCHANGED <<user, stored, conv, ch, steps, out, turns, told>>

Overrun == at \in Nodes /\ steps = RecursionLimit /\ GiveUp /\ UNCHANGED used

EngineFails == at \in Nodes /\ Spend("fault") /\ GiveUp

\* The final event's result: of output_state, or else of the checkpoint.
Result == IF out # NoPatch THEN out ELSE [EmptyPatch EXCEPT !.draft = ch.draft, !.profile = ch.profile]

SyncedBack(result) ==
  [profile |-> IF result.profile # NoProfile THEN result.profile ELSE conv.profile,
   draft |-> IF result.draft # NoDraft THEN result.draft ELSE conv.draft,
   phase |-> "completed"]

(* What is left when the runtime's save is refused by the lock: the        *)
(* session manager has already put the bare result under the same key.     *)
Bare(result) ==
  [profile |-> IF result.profile # NoProfile THEN result.profile ELSE Blank,
   draft |-> result.draft, phase |-> "gathering"]

Close(c) ==
  /\ at = "closing"
  /\ at' = "idle"
  /\ conv' = c
  /\ NoTurn
  /\ UNCHANGED <<user, stored, ch, turns, told>>

Finish == Close(SyncedBack(Result)) /\ UNCHANGED used

\* Saving the result fails, and the final event is an empty one.
FinishEmpty ==
  Close(SyncedBack(EmptyPatch)) /\ Spend("fault")

FinishRefused == Close(Bare(Result)) /\ Spend("conflict")

\* The process dies; the task of the turn dies with it.
Restart ==
  /\ at # "idle" /\ Spend("restart")
  /\ at' = "idle"
  /\ NoTurn
  /\ UNCHANGED <<user, stored, conv, ch, turns, told>>

Work ==
  \/ Gather \/ WriteTrip \/ RecallProfile \/ Retrieve \/ CheckWeather \/ Plan
  \/ CallTools \/ CheckFacts \/ CheckHallucination \/ Output \/ Book \/ NodeFails
  \/ Overrun \/ Finish

Next ==
  Begin \/ BeginFails \/ Work \/ EngineFails \/ FinishEmpty \/ FinishRefused \/ Restart

Spec == Init /\ [][Next]_vars

(* Every await of a node ends: the calls have timeouts, and what they      *)
(* raise is caught.  Nothing makes the user take another turn.             *)
FairSpec == Spec /\ WF_vars(Work)

-----------------------------------------------------------------------------
(* Every variable has its type.                                            *)
TypeOK ==
  /\ user \in Users
  /\ stored \in Nat
  /\ conv \in [profile : Profiles, draft : Drafts \cup {NoDraft},
              phase : {"gathering", "completed"}]
  /\ ch \in [profile : Profiles, draft : Drafts \cup {NoDraft},
            stage : Stages, action : Actions, ready : BOOLEAN]
  /\ at \in Nodes \cup {"idle", "closing"}
  /\ steps \in 0..RecursionLimit
  /\ turns \in 0..MaxTurns
  /\ out # NoPatch => /\ out.draft \in Drafts \cup {NoDraft}
                      /\ out.profile = NoProfile \/ out.profile \in Profiles
  /\ log \in [failed : BOOLEAN, asked : SUBSET Slots, drafted : BOOLEAN,
             warned : BOOLEAN, booked : BOOLEAN, written : Nat]
  /\ told \in SUBSET Slots
  /\ used \in [Disturbances -> Nat] /\ \A d \in Disturbances: used[d] <= Budget[d]

(* The end of a trip is written to the long-term memory at most once in    *)
(* a turn, and only after the output node answered in that turn, however   *)
(* the turn before it ended and whatever nodes raise (node_impl.py:172);   *)
(* so the database counts no more trips than there were turns.             *)
TripEndsOnce ==
  /\ log.written <= (IF out # NoPatch THEN 1 ELSE 0)
  /\ stored <= turns

(* While no node raises, a turn that drew a draft stops there: nothing is  *)
(* booked before the user has seen it (routers.py:81).                     *)
DraftAwaitsUser == log.drafted /\ ~log.failed => ~log.booked

\* The yes/no slots that the memory of the user, or of similar ones, says yes to.
Remembered ==
  IF user = "registered"
    THEN {f \in Flags: \E longTerm \in LongTerm: longTerm[f] = "yes"} ELSE {}

(* While no node raises, a trip is drawn up only of what the user said, in *)
(* this turn or an earlier one of the conversation, whatever was saved,    *)
(* lost or failed in between, and not in a turn that asks: every slot with *)
(* a value was heard, and a special need is planned for only when it was   *)
(* heard or is remembered (gathering.py:101).  A special need nobody       *)
(* mentioned is planned without and never asked for, because the recall's  *)
(* profile says no of it (schemas.py:23), although the prompt forbids that *)
(* guess (demand_parser.py:77); so nothing is claimed of it.               *)
PlansOnWhatWasSaid ==
  log.drafted /\ ~log.failed =>
    /\ log.asked = {}
    /\ Scalars \subseteq told
    /\ \A f \in Flags: ch.profile[f] = "yes" => f \in told \cup Remembered

(* What the conversation knows stays known from turn to turn, and a        *)
(* special need once stated is never taken back, except by a user who      *)
(* sends no name, whom nothing is recalled of, and by the end of a turn    *)
(* whose save lost the lock (chat_runtime.py:403, and the resolver).       *)
KnownStays ==
  [][\A s \in Slots:
       \/ conv.profile[s] = Unset
       \/ conv'.profile[s] = conv.profile[s]
       \/ conv'.profile[s] # Unset /\ (conv.profile[s] # "yes" \/ user = "unnamed")
       \/ used'["conflict"] > used["conflict"]]_vars

(* Every turn comes to an end, whatever loops the nodes' failures and the  *)
(* fact checker's conflicts send it through.                               *)
EveryTurnEnds == at # "idle" ~> at = "idle"
=============================================================================
