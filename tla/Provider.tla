------------------------------ MODULE Provider ------------------------------
(***************************************************************************)
(* One call of the model: what the clients of the two SDKs make of it      *)
(* (llm/src/openai.ts, anthropic.ts) and how the planner reads the object  *)
(* that comes back (core/src/plan/schema.ts).                              *)
(*                                                                         *)
(* A reply is [via, threw, choices, refusal, finish, text, plan]: the      *)
(* client; the class of the SDK's error or "nothing"; and what the message *)
(* holds.  finish is the reason it ended, refusal whether a refusal is     *)
(* spelled out (OpenAI only), text blank, garbled or json, and plan the    *)
(* object the json carries: [object, answerable, sql], with the shape of   *)
(* answerable and whether sql is a text that is not blank.                 *)
(***************************************************************************)
EXTENDS Sequences

\* translate: the same ladder in both clients; a status below 500 is ours.
Translate(threw) ==
  CASE threw = "APIConnectionTimeoutError" -> "timeout"
    [] threw = "RateLimitError"            -> "rate_limited"
    [] threw = "AuthenticationError"       -> "auth"
    [] threw = "APIError5xx"               -> "transport"
    [] threw \in {"APIError4xx", "APIConnectionError"} -> "bad_request"
    [] OTHER                               -> "transport"

Content(reply) == IF reply.text \in {"blank", "garbled"} THEN "no_output" ELSE "none"

\* The kind of the ModelError complete() throws, or none.
OpenAI(reply) ==
  IF reply.threw # "nothing" THEN Translate(reply.threw)
  ELSE IF ~reply.choices THEN "no_output"
  ELSE IF reply.refusal \/ reply.finish = "content_filter" THEN "refused"
  ELSE IF reply.finish = "length" THEN "truncated" ELSE Content(reply)

Anthropic(reply) ==
  IF reply.threw # "nothing" THEN Translate(reply.threw)
  ELSE IF reply.finish = "refusal" THEN "refused"
  ELSE IF reply.finish = "max_tokens" THEN "truncated" ELSE Content(reply)

Complete(reply) == IF reply.via = "openai" THEN OpenAI(reply) ELSE Anthropic(reply)

\* readPlan: what is claimed to be a plan, checked again.
ReadPlan(plan) ==
  IF ~plan.object \/ plan.answerable = "not a boolean" THEN "invalid"
  ELSE IF plan.answerable = "no" THEN "unanswerable"
  ELSE IF plan.sql THEN "sql" ELSE "invalid"

\* What the planner has in hand after the call: an outcome without SQL, or sql.
ReplyOutcome(reply) ==
  IF Complete(reply) # "none" THEN "model_error" ELSE ReadPlan(reply.plan)
=============================================================================
