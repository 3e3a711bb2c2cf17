------------------------------ MODULE Proposal ------------------------------
(***************************************************************************)
(* How a plan is put into words (planner/core/writer.py): an answer of the *)
(* language model for a whole day, for what that answer leaves out one     *)
(* answer for each activity, and a template for what is still unexplained. *)
(*                                                                         *)
(* An activity is a record [id, from, why], why being the kind of its      *)
(* recommendation: "" for none, "known" for a place with a text of its     *)
(* own, "template", "model", and "generic" for phrases that say nothing.   *)
(***************************************************************************)
EXTENDS LanguageModel, SequencesExt

Replies == {JsonChat(<<a, b>>, vllm) : a, b \in Attempts, vllm \in BOOLEAN}

-----------------------------------------------------------------------------
(* One activity.                                                           *)

MaxRetries == 2

TemplateReason(a) == [a EXCEPT !.why = "template"]

\* An answer without a reason counts as none.
LlmReason(reply, why) == IF reply = "json" THEN why ELSE ""

\* What is written is a reason and tags, so the facts, which are compared
\* with those of the draft, are the same and the first reason is taken.
EnrichedActivity(a, why) == IF why = "" THEN TemplateReason(a) ELSE [a EXCEPT !.why = why]

\* The first reason that MaxRetries + 1 answers give.
FirstReason(whys) ==
  IF \E i \in 1..(MaxRetries + 1): whys[i] # ""
  THEN whys[CHOOSE i \in 1..(MaxRetries + 1):
              whys[i] # "" /\ \A j \in 1..(i - 1): whys[j] = ""]
  ELSE ""

Reasons ==
  {FirstReason(whys) : whys \in [1..(MaxRetries + 1) ->
                         {LlmReason(r, why) : r \in Replies, why \in {"", "model", "generic"}}]}

-----------------------------------------------------------------------------
(* A day.  A batch answer is a function from names of places to reasons.   *)

\* The answer for the day is matched by name; a generic phrase gives way to
\* the template, an activity without a reason to an answer of its own.
FromBatch(a, batch, why) ==
  IF a.why = "known" THEN a
  ELSE IF a.id \notin DOMAIN batch \/ batch[a.id] = "" THEN EnrichedActivity(a, why)
  ELSE IF batch[a.id] = "generic" THEN TemplateReason(a)
  ELSE [a EXCEPT !.why = batch[a.id]]

BatchValid(day, batch) ==
  \A i \in DOMAIN day: day[i].why = "known" \/ (day[i].id \in DOMAIN batch /\ batch[day[i].id] # "")

\* Mutant: an activity that the answer leaves out is not kept.
EnrichedDay_drops(day, said, batch, why) ==
  IF said = "json"
  THEN FoldLeft(LAMBDA kept, a: IF a.why = "known" \/ a.id \in DOMAIN batch
                                THEN Append(kept, FromBatch(a, batch, why)) ELSE kept,
                <<>>, day)
  ELSE [i \in DOMAIN day |-> IF day[i].why = "known" THEN day[i] ELSE EnrichedActivity(day[i], why)]

(* A batch answer with something missing is used and then overwritten: the *)
(* whole day is asked for again, one activity at a time.                   *)
EnrichedDay(day, said, batch, why) ==
  LET written == IF said = "json" THEN [i \in DOMAIN day |-> FromBatch(day[i], batch, why)] ELSE day
  IN  IF said = "json" /\ BatchValid(day, batch) THEN written
      ELSE [i \in DOMAIN written |->
              IF written[i].why = "known" THEN written[i] ELSE EnrichedActivity(written[i], why)]

-----------------------------------------------------------------------------
(* The proposal.                                                           *)

\* The heading of a day comes with the answer for the day, if it offers one
\* of fit length; the template gives one to a day that is not answered in
\* full, or where every place has a text of its own.
Theme(day, said, batch, offered) ==
  IF \A i \in DOMAIN day: day[i].why = "known" THEN "template"
  ELSE IF said = "json" /\ offered THEN "model"
  ELSE IF said = "json" /\ BatchValid(day, batch) THEN "" ELSE "template"

\* A day of the proposal: the heading, and a line for every activity.
Section(day, said, batch, offered, why) ==
  [theme |-> Theme(day, said, batch, offered), lines |-> EnrichedDay(day, said, batch, why)]

\* Without any words: every activity of the trip, with its time.
FallbackProposal(trip) == [theme |-> "", lines |-> FlattenSeq(trip)]
=============================================================================
