------------------------------ MODULE AskFlow -------------------------------
(***************************************************************************)
(* One question from arrival to answer: handleAsk (server/src/ask.ts),     *)
(* planQuery (core/src/plan/planner.ts) with its repair loop, and the      *)
(* narrowing of the outcome to the wire (server/src/narrow.ts, http.ts).   *)
(*                                                                         *)
(* The model provider, the guard's verdicts, the schema loader, the read   *)
(* and the host's callbacks are the environment: each may do what its      *)
(* interface allows.  Every await ends a step; questions interleave there. *)
(* What the limiter does with admissions and strikes is module Limiter.    *)
(***************************************************************************)
EXTENDS Naturals, Sequences, SequencesExt

CONSTANTS
  Questions,    (* Handler slots.                                          *)
  MaxAttempts,  (* Total tries of a plan, the first included.              *)
  LiveEnabled,  (* The host configured live updates.                       *)
  HostListens   (* The host configured onSecurityEvent.                    *)

\* planQuery takes at least one attempt.
ASSUME AttemptsAssumption == MaxAttempts \in Nat \ {0}
ASSUME HostAssumption == LiveEnabled \in BOOLEAN /\ HostListens \in BOOLEAN

VARIABLES
  pc,        (* idle, body, schema, model, read or answered.               *)
  held,      (* The admission is not yet released.                         *)
  attempts,  (* The outcome of each attempt, a denial by the shape of its code. *)
  shown,     (* sawVerdict: the conversation holds the guard's words.      *)
  raised,    (* onSecurityEvent of handleAsk has run.                      *)
  answer,    (* Status, body and message of the response.                  *)
  issued,    (* A stream token was issued.                                 *)
  strikes,   (* History: calls of limiter.strike for this question.        *)
  told       (* History: told of phase plan or read, and security events. *)

vars == <<pc, held, attempts, shown, raised, answer, issued, strikes, told>>

\* The shapes of a DenyCode: ATTACK_SHAPED, OUR_FAULT, and the repairable rest.
Denials == {"attack", "fault", "mistake"}
Outcomes == {"approved", "unanswerable", "invalid", "model_error"} \union Denials

Answers == [status : Nat,
            body : {"none", "ok", "refused", "unanswerable", "error"},
            prose : {"none", "fixed", "model"}]
NoAnswer == [status |-> 0, body |-> "none", prose |-> "none"]
Fixed(status, body) == [status |-> status, body |-> body, prose |-> "fixed"]

Init ==
  /\ pc = [q \in Questions |-> "idle"]
  /\ held = [q \in Questions |-> FALSE]
  /\ attempts = [q \in Questions |-> <<>>]
  /\ shown = [q \in Questions |-> FALSE]
  /\ raised = [q \in Questions |-> FALSE]
  /\ answer = [q \in Questions |-> NoAnswer]
  /\ issued = [q \in Questions |-> FALSE]
  /\ strikes = [q \in Questions |-> 0]
  /\ told = [q \in Questions |-> 0]

(***************************************************************************)
(* Answering.  The finally block releases the admission in the same turn.  *)
(* A response the protocol's own parser rejects becomes a fixed 500.       *)
(***************************************************************************)
Answer(q, a) ==
  /\ answer' = [answer EXCEPT ![q] = a]
  /\ pc' = [pc EXCEPT ![q] = "answered"]
  /\ held' = [held EXCEPT ![q] = FALSE]

Leak == Fixed(500, "error")
Sent(a) == {a, Leak}

Tell(q, count) == told' = [told EXCEPT ![q] = @ + count]

\* Method, scope or limiter: the question is not admitted.
Turned(q) ==
  /\ pc[q] = "idle"
  /\ \E status \in {401, 403, 405, 429, 500, 503} : Answer(q, Fixed(status, "error"))
  /\ UNCHANGED <<attempts, shown, raised, issued, strikes, told>>

Admitted(q) ==
  /\ pc[q] = "idle"
  /\ pc' = [pc EXCEPT ![q] = "body"]
  /\ held' = [held EXCEPT ![q] = TRUE]
  /\ UNCHANGED <<attempts, shown, raised, answer, issued, strikes, told>>

BodyRefused(q) ==
  /\ pc[q] = "body"
  /\ \E status \in {400, 413, 415} : Answer(q, Fixed(status, "error"))
  /\ UNCHANGED <<attempts, shown, raised, issued, strikes, told>>

BodyRead(q) ==
  /\ pc[q] = "body"
  /\ pc' = [pc EXCEPT ![q] = "schema"]
  /\ UNCHANGED <<held, attempts, shown, raised, answer, issued, strikes, told>>

\* The schema is there: glossary, retrieval and the first call of the model.
SchemaLoaded(q) ==
  /\ pc[q] = "schema"
  /\ pc' = [pc EXCEPT ![q] = "model"]
  /\ UNCHANGED <<held, attempts, shown, raised, answer, issued, strikes, told>>

\* Slip: the question is answered outside the try block.
ThrowsUnreleased(q) ==
  /\ pc[q] \in {"body", "schema", "model", "read"}
  /\ answer' = [answer EXCEPT ![q] = Fixed(200, "error")]
  /\ pc' = [pc EXCEPT ![q] = "answered"]
  /\ Tell(q, 1)
  /\ UNCHANGED <<held, attempts, shown, raised, issued, strikes>>

\* The catch block: the body broke off, or the schema, the glossary, retrieval,
\* the host's guard or the read threw.
Throws(q) ==
  /\ pc[q] \in {"body", "schema", "model", "read"}
  /\ Answer(q, Fixed(200, "error"))
  /\ Tell(q, 1)
  /\ UNCHANGED <<attempts, shown, raised, issued, strikes>>

(***************************************************************************)
(* planQuery.                                                              *)
(***************************************************************************)
Denied(log) == \E n \in 1..Len(log) : log[n] \in Denials

\* Slip: only the last attempt is looked at.
ProseLast(log) == IF Last(log) \in Denials THEN "fixed" ELSE "model"

\* failureResponse: the model's own prose crosses for an unanswerable question
\* that met no denial.
Prose(log) == IF Denied(log) THEN "fixed" ELSE "model"

FailureBody(log) ==
  CASE Last(log) = "unanswerable" -> [status |-> 200, body |-> "unanswerable", prose |-> Prose(log)]
    [] Last(log) \in Denials      -> Fixed(200, "refused")
    [] OTHER                      -> Fixed(200, "error")

\* Slip: the host is told of a failure it has already heard of.
UntoldAlways(q) == 1

\* A failure is reported as an error unless it was one as a security event.
Untold(q) == IF raised'[q] THEN 0 ELSE 1

\* The plan failed with outcome o: the answer says which kind, and no more.
Fails(q, o) ==
  LET log == Append(attempts[q], o) IN
  /\ attempts' = [attempts EXCEPT ![q] = log]
  /\ \E a \in Sent(FailureBody(log)) : Answer(q, a)
  /\ UNCHANGED <<shown, issued>>

\* The provider threw, or returned no plan, or a plan without SQL.
NoSql(q) ==
  /\ pc[q] = "model"
  /\ \E o \in {"model_error", "invalid", "unanswerable"} : Fails(q, o)
  /\ UNCHANGED <<raised, strikes>>
  /\ Tell(q, Untold(q))

Approved(q) ==
  /\ pc[q] = "model"
  /\ attempts' = [attempts EXCEPT ![q] = Append(@, "approved")]
  /\ pc' = [pc EXCEPT ![q] = "read"]
  /\ UNCHANGED <<held, shown, raised, answer, issued, strikes, told>>

\* Attack-shaped: the event is raised, which strikes, and nothing is repaired.
Attack(q) ==
  /\ pc[q] = "model"
  /\ raised' = [raised EXCEPT ![q] = TRUE]
  /\ strikes' = [strikes EXCEPT ![q] = @ + 1]
  /\ Fails(q, "attack")
  /\ Tell(q, (IF HostListens THEN 1 ELSE 0) + Untold(q))

\* A fault of ours, or the last attempt.
GivesUp(q, o) ==
  /\ pc[q] = "model"
  /\ o = "fault" \/ (o = "mistake" /\ Len(attempts[q]) + 1 = MaxAttempts)
  /\ Fails(q, o)
  /\ UNCHANGED <<raised, strikes>>
  /\ Tell(q, Untold(q))

\* Slip: any denial is shown to the model for another try.
RepairAny(q) ==
  /\ pc[q] = "model"
  /\ Len(attempts[q]) + 1 < MaxAttempts
  /\ \E o \in Denials : attempts' = [attempts EXCEPT ![q] = Append(@, o)]
  /\ shown' = [shown EXCEPT ![q] = TRUE]
  /\ UNCHANGED <<pc, held, raised, answer, issued, strikes, told>>

\* The verdict goes into the conversation and the model is called again.
Repair(q) ==
  /\ pc[q] = "model"
  /\ Len(attempts[q]) + 1 < MaxAttempts
  /\ attempts' = [attempts EXCEPT ![q] = Append(@, "mistake")]
  /\ shown' = [shown EXCEPT ![q] = TRUE]
  /\ UNCHANGED <<pc, held, raised, answer, issued, strikes, told>>

(***************************************************************************)
(* The read returned: a token is issued - the store may throw, which costs *)
(* the token only - and then the rows are converted, which may throw too.  *)
(***************************************************************************)
Issues(q) == \E done \in {FALSE, LiveEnabled} : issued' = [issued EXCEPT ![q] = done]

ReadReturns(q) ==
  /\ pc[q] = "read"
  /\ Issues(q)
  /\ \/ /\ \E a \in Sent([status |-> 200, body |-> "ok", prose |-> "none"]) : Answer(q, a)
        /\ UNCHANGED told
     \/ Answer(q, Fixed(200, "error")) /\ Tell(q, 1)
  /\ UNCHANGED <<attempts, shown, raised, strikes>>

\* An answered question leaves its slot to another.
Forget(q) ==
  /\ pc[q] = "answered"
  /\ pc' = [pc EXCEPT ![q] = "idle"]
  /\ attempts' = [attempts EXCEPT ![q] = <<>>]
  /\ shown' = [shown EXCEPT ![q] = FALSE]
  /\ raised' = [raised EXCEPT ![q] = FALSE]
  /\ answer' = [answer EXCEPT ![q] = NoAnswer]
  /\ issued' = [issued EXCEPT ![q] = FALSE]
  /\ strikes' = [strikes EXCEPT ![q] = 0]
  /\ told' = [told EXCEPT ![q] = 0]
  /\ UNCHANGED held

Handle(q) ==
  \/ BodyRefused(q) \/ BodyRead(q) \/ SchemaLoaded(q) \/ Throws(q)
  \/ NoSql(q) \/ Approved(q) \/ Attack(q) \/ Repair(q)
  \/ \E o \in {"fault", "mistake"} : GivesUp(q, o)
  \/ ReadReturns(q)

Next == \E q \in Questions : Turned(q) \/ Admitted(q) \/ Handle(q) \/ Forget(q)

Spec == Init /\ [][Next]_vars

(***************************************************************************)
(* Whatever a question waits for comes back or throws: the body ends or    *)
(* breaks, providers abort at their timeout, reads at the statement's.     *)
(***************************************************************************)
FairSpec == Spec /\ \A q \in Questions : WF_vars(Handle(q))
-----------------------------------------------------------------------------
(***************************************************************************)
(* Once the model has been shown a verdict, none of its prose crosses the  *)
(* wire, however many turns later it declines (core/src/plan/types.ts      *)
(* "Anything forwarding detail to a client must refuse when this is true", *)
(* narrow.ts 123-137).                                                     *)
(***************************************************************************)
NoVerdictCrosses == \A q \in Questions : answer[q].prose = "model" => ~shown[q]

(***************************************************************************)
(* The model is called again only after an honest mistake, and no more     *)
(* than MaxAttempts times in all: an attack or a fault of ours is the end  *)
(* of the conversation, and so is any outcome but a denial (planner.ts     *)
(* 11-19, 67 and 143-157).                                                 *)
(***************************************************************************)
OnlyMistakesRepaired ==
  \A q \in Questions :
    /\ \A n \in 1..Len(attempts[q]) :
         n < Len(attempts[q]) \/ pc[q] = "model" => attempts[q][n] = "mistake"
    /\ Len(attempts[q]) + (IF pc[q] = "model" THEN 1 ELSE 0) <= MaxAttempts

(***************************************************************************)
(* An identity is struck once for a question whose plan was attack-shaped, *)
(* and for no other (ask.ts 93-104, planner.ts 143-146).                   *)
(***************************************************************************)
StruckOncePerAttack ==
  \A q \in Questions :
    strikes[q] = IF \E n \in 1..Len(attempts[q]) : attempts[q][n] = "attack" THEN 1 ELSE 0

(***************************************************************************)
(* An answer that hides a failure behind its 200 was told to the host once *)
(* - as an error or as a security event, when the host listens for those - *)
(* and an answer that hides none was not (ask.ts 93-98, 121-122, 139).     *)
(***************************************************************************)
FailureToldOnce ==
  HostListens =>
    \A q \in Questions :
      answer[q].status = 200 => told[q] = IF answer[q].body = "ok" THEN 0 ELSE 1

(***************************************************************************)
(* A question that was admitted gives its admission back, through every    *)
(* early return, throw and repair (ask.ts 80, 138-143).                    *)
(***************************************************************************)
EveryAdmissionReleased == \A q \in Questions : held[q] ~> ~held[q]
=============================================================================
