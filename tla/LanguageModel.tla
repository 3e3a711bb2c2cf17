--------------------------- MODULE LanguageModel ---------------------------
(***************************************************************************)
(* What a call of the language model comes to (core/llm_client.py).  An    *)
(* attempt is turned away as "busy", "raises", "hangs", or answers: with   *)
(* the JSON asked for, with some "other" JSON, with "text" or with         *)
(* nothing, "empty".                                                       *)
(***************************************************************************)
EXTENDS Naturals, Sequences

Attempts == {"busy", "raises", "hangs", "json", "other", "text", "empty"}

\* vLLM is asked again while it is overloaded.
Completion(attempts, vllm) ==
  LET tries == IF vllm THEN Len(attempts) ELSE 1
  IN  IF \E i \in 1..tries: attempts[i] # "busy"
      THEN attempts[CHOOSE i \in 1..tries:
                      attempts[i] # "busy" /\ \A j \in 1..(i - 1): attempts[j] = "busy"]
      ELSE "raises"

\* Nothing is an object without fields.
CompletionJson(attempts, vllm) ==
  LET reply == Completion(attempts, vllm) IN IF reply = "empty" THEN "other" ELSE reply

\* An answer that is no JSON raises, an object without the fields asked for
\* is of no use, and one that hangs is cut off by the caller.
JsonChat(attempts, vllm) ==
  IF CompletionJson(attempts, vllm) = "json" THEN "json" ELSE "nothing"

(* An answer that does not parse is sent back to be repaired, once; a call *)
(* that raises, or hangs until the client's own timeout, is not repeated.  *)
StructuredCall(first, repaired, vllm) ==
  LET reply == CompletionJson(first, vllm)
  IN  IF reply = "json" THEN "parsed"
      ELSE IF reply \in {"other", "text"} /\ CompletionJson(repaired, vllm) = "json" THEN "parsed"
      ELSE "raises"
=============================================================================
