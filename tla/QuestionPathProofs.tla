------------------------- MODULE QuestionPathProofs -------------------------
(***************************************************************************)
(* First AskFlow, for every number of questions and attempts: what the     *)
(* model says after it has been shown a verdict does not cross the wire,   *)
(* only mistakes are repaired, an attack strikes once, and a failure is    *)
(* told once.  Then the whole path, which does what AskFlow allows a       *)
(* question, so that what holds of AskFlow holds of it: whatever order the *)
(* loads end in, a schema is loaded once in a time-to-live unless a load   *)
(* fails.                                                                  *)
(*                                                                         *)
(* Then what the parts of the path decide: the identity of the caller, the *)
(* guard, the glossary and the retrieval, each as lemmas about its         *)
(* operators; what a question has in hand at each stage; and the theorems  *)
(* that follow.                                                            *)
(***************************************************************************)
EXTENDS QuestionPath, FiniteSetTheorems, WellFoundedInduction, NaturalsInduction, TLAPS

(***************************************************************************)
(* The strengthening.  Before the model is called nothing has happened; a  *)
(* verdict was shown only if the first attempt was denied; prose of the    *)
(* model is only ever in the answer to a conversation without a denial.    *)
(***************************************************************************)
Types ==
  /\ pc \in [Questions -> {"idle", "body", "schema", "model", "read", "answered"}]
  /\ attempts \in [Questions -> Seq(Outcomes)]
  /\ shown \in [Questions -> BOOLEAN]
  /\ strikes \in [Questions -> Nat]

Unasked(q) ==
  pc[q] \in {"idle", "body", "schema"} => attempts[q] = <<>> /\ ~shown[q] /\ strikes[q] = 0
ShownDenial(q) == shown[q] => attempts[q] # <<>> /\ attempts[q][1] = "mistake"
Repaired(q) ==
  \A n \in 1..Len(attempts[q]) :
    n < Len(attempts[q]) \/ pc[q] = "model" => attempts[q][n] = "mistake"
Struck(q) ==
  strikes[q] = IF \E n \in 1..Len(attempts[q]) : attempts[q][n] = "attack" THEN 1 ELSE 0
Clean(q) == answer[q].prose = "model" => pc[q] = "answered" /\ ~Denied(attempts[q])

Rationed(q) ==
  /\ Len(attempts[q]) <= MaxAttempts
  /\ pc[q] \in {"idle", "body", "schema", "model"} => Len(attempts[q]) < MaxAttempts
QuestionInv(q) == Unasked(q) /\ ShownDenial(q) /\ Repaired(q) /\ Rationed(q) /\ Struck(q) /\ Clean(q)
FlowInv ==
  /\ Types
  /\ answer \in [Questions -> Answers]
  /\ \A q \in Questions : QuestionInv(q)
-----------------------------------------------------------------------------
\* A step of q leaves the other questions alone.
LEMMA OthersKeep ==
  ASSUME FlowInv, NEW q \in Questions, Types', answer' \in [Questions -> Answers],
         \A r \in Questions \ {q} :
           /\ pc'[r] = pc[r] /\ attempts'[r] = attempts[r] /\ shown'[r] = shown[r]
           /\ strikes'[r] = strikes[r] /\ answer'[r] = answer[r],
         QuestionInv(q)'
  PROVE  FlowInv'
<1>1. ASSUME NEW r \in Questions \ {q} PROVE QuestionInv(r)'
  <2>1. QuestionInv(r)
    BY DEF FlowInv
  <2>. QED  BY <2>1 DEF QuestionInv, Unasked, ShownDenial, Repaired, Rationed, Struck, Clean, Denied
<1>. QED  BY <1>1 DEF FlowInv, Answers

LEMMA Appended ==
  ASSUME NEW log \in Seq(Outcomes), NEW o \in Outcomes
  PROVE  /\ Append(log, o) \in Seq(Outcomes)
         /\ Append(log, o) # <<>>
         /\ Len(Append(log, o)) = Len(log) + 1
         /\ Append(log, o)[Len(log) + 1] = o
         /\ \A n \in 1..Len(log) : Append(log, o)[n] = log[n]
  OBVIOUS

\* Where the model is being called, every attempt so far was a mistake.
LEMMA AtTheModel ==
  ASSUME FlowInv, NEW q \in Questions, pc[q] = "model"
  PROVE  /\ attempts[q] \in Seq(Outcomes)
         /\ \A n \in 1..Len(attempts[q]) : attempts[q][n] = "mistake"
         /\ strikes[q] = 0
         /\ shown[q] => attempts[q] # <<>>
         /\ Len(attempts[q]) < MaxAttempts
  BY DEF FlowInv, Types, QuestionInv, Repaired, Rationed, Struck, ShownDenial

(***************************************************************************)
(* A plan that ends without SQL: the log grows by its last outcome, and    *)
(* the prose of the answer is chosen by the whole of it.                   *)
(***************************************************************************)
LEMMA FailsStep ==
  ASSUME FlowInv, NEW q \in Questions, pc[q] = "model",
         NEW o \in Outcomes \ {"approved"}, Fails(q, o),
         strikes' = IF o = "attack" THEN [strikes EXCEPT ![q] = @ + 1] ELSE strikes
  PROVE  FlowInv'
<1> DEFINE old == attempts[q]
           log == Append(old, o)
<1>1. PICK a \in Sent(FailureBody(log)) :
        /\ attempts' = [attempts EXCEPT ![q] = log]
        /\ answer' = [answer EXCEPT ![q] = a]
        /\ pc' = [pc EXCEPT ![q] = "answered"]
        /\ UNCHANGED shown
  BY DEF Fails, Answer
<1>2. /\ old \in Seq(Outcomes)
      /\ \A n \in 1..Len(old) : old[n] = "mistake"
      /\ strikes[q] = 0
      /\ shown[q] => old # <<>>
      /\ Len(old) < MaxAttempts
  BY AtTheModel
<1>3. /\ log \in Seq(Outcomes) /\ log # <<>>
      /\ Len(log) = Len(old) + 1 /\ log[Len(old) + 1] = o
      /\ \A n \in 1..Len(old) : log[n] = old[n]
  BY <1>2, Appended
<1>4. a \in Answers /\ (a.prose = "model" => ~Denied(log))
  <2>1. a \in {FailureBody(log), Leak}
    BY DEF Sent
  <2>2. FailureBody(log) \in {[status |-> 200, body |-> "unanswerable", prose |-> Prose(log)],
                              Fixed(200, "refused"), Fixed(200, "error")}
    <3>1. CASE Last(log) = "unanswerable"
      BY <3>1, Zenon DEF FailureBody, Denials
    <3>2. CASE Last(log) \in Denials
      BY <3>2, Zenon DEF FailureBody, Denials
    <3>3. CASE Last(log) # "unanswerable" /\ Last(log) \notin Denials
      BY <3>3, Zenon DEF FailureBody
    <3>. QED  BY <3>1, <3>2, <3>3
  <2>. QED  BY <2>1, <2>2 DEF Leak, Fixed, Prose, Answers
<1>5. Types' /\ answer' \in [Questions -> Answers]
  BY <1>1, <1>2, <1>3, <1>4 DEF FlowInv, Types, Answers
<1>6. /\ pc'[q] = "answered" /\ attempts'[q] = log /\ answer'[q] = a /\ shown'[q] = shown[q]
      /\ strikes'[q] = IF o = "attack" THEN 1 ELSE 0
  BY <1>1, <1>2 DEF FlowInv, Types
<1> HIDE DEF log, old
<1>7. QuestionInv(q)'
  <2>1. Unasked(q)' /\ Clean(q)'
    BY <1>4, <1>6 DEF Unasked, Clean, Denied
  <2>2. ShownDenial(q)'
    <3>1. old # <<>> => 1 \in 1..Len(old)
      BY <1>2
    <3>. QED  BY <1>2, <1>3, <1>6, <3>1 DEF ShownDenial
  <2>3. Repaired(q)'
    <3>1. \A n \in 1..Len(log) : n < Len(log) => log[n] = "mistake"
      BY <1>2, <1>3
    <3>. QED  BY <1>6, <3>1 DEF Repaired
  <2>4. Struck(q)'
    <3>1. (\E n \in 1..Len(log) : log[n] = "attack") <=> o = "attack"
      <4>1. \A n \in 1..Len(log) : n \in 1..Len(old) \/ n = Len(old) + 1
        BY <1>2, <1>3
      <4>2. Len(old) + 1 \in 1..Len(log)
        BY <1>2, <1>3
      <4>. QED  BY <1>2, <1>3, <4>1, <4>2
    <3>. QED  BY <1>6, <3>1 DEF Struck
  <2>5. Rationed(q)'
    <3>1. Len(log) <= MaxAttempts
      BY <1>2, <1>3, AttemptsAssumption
    <3>. QED  BY <1>6, <3>1 DEF Rationed
  <2>. QED  BY <2>1, <2>2, <2>3, <2>4, <2>5 DEF QuestionInv
<1>8. \A r \in Questions \ {q} :
        /\ pc'[r] = pc[r] /\ attempts'[r] = attempts[r] /\ shown'[r] = shown[r]
        /\ strikes'[r] = strikes[r] /\ answer'[r] = answer[r]
  BY <1>1 DEF FlowInv, Types
<1>. QED  BY <1>5, <1>7, <1>8, OthersKeep

\* Approved and Repair: the log grows and nothing is answered.
LEMMA GrowsStep ==
  ASSUME FlowInv, NEW q \in Questions, Approved(q) \/ Repair(q)
  PROVE  FlowInv'
<1> DEFINE old == attempts[q]
<1>1. PICK o \in {"approved", "mistake"}, next \in {"read", "model"} :
        /\ o = "approved" <=> next = "read"
        /\ attempts' = [attempts EXCEPT ![q] = Append(old, o)]
        /\ pc' = [pc EXCEPT ![q] = next]
        /\ shown' = IF o = "mistake" THEN [shown EXCEPT ![q] = TRUE] ELSE shown
        /\ UNCHANGED <<strikes, answer>>
        /\ next = "read" \/ Len(old) + 1 < MaxAttempts
  <2>1. CASE Approved(q)
    <3>1. /\ attempts' = [attempts EXCEPT ![q] = Append(old, "approved")]
          /\ pc' = [pc EXCEPT ![q] = "read"] /\ UNCHANGED <<shown, strikes, answer>>
      BY <2>1 DEF Approved
    <3>. QED  BY <3>1
  <2>2. CASE Repair(q)
    <3>1. /\ attempts' = [attempts EXCEPT ![q] = Append(old, "mistake")]
          /\ pc' = [pc EXCEPT ![q] = "model"] /\ shown' = [shown EXCEPT ![q] = TRUE]
          /\ UNCHANGED <<strikes, answer>> /\ Len(old) + 1 < MaxAttempts
      BY <2>2 DEF Repair, FlowInv, Types
    <3>. QED  BY <3>1
  <2>. QED  BY <2>1, <2>2
<1>2. pc[q] = "model"
  BY DEF Approved, Repair
<1>3. /\ old \in Seq(Outcomes)
      /\ \A n \in 1..Len(old) : old[n] = "mistake"
      /\ strikes[q] = 0
      /\ shown[q] => old # <<>>
      /\ answer[q].prose # "model"
      /\ Len(old) < MaxAttempts
  BY <1>2, AtTheModel DEF FlowInv, QuestionInv, Clean
<1> DEFINE log == Append(old, o)
<1>4. /\ log \in Seq(Outcomes) /\ log # <<>>
      /\ Len(log) = Len(old) + 1 /\ log[Len(old) + 1] = o
      /\ \A n \in 1..Len(old) : log[n] = old[n]
  BY <1>3, Appended DEF Outcomes, Denials
<1>5. Types' /\ answer' \in [Questions -> Answers]
  BY <1>1, <1>4 DEF FlowInv, Types, Answers
<1>6. /\ pc'[q] = next /\ attempts'[q] = log /\ answer'[q] = answer[q]
      /\ shown'[q] = (shown[q] \/ o = "mistake") /\ strikes'[q] = 0
  BY <1>1, <1>3 DEF FlowInv, Types
<1> HIDE DEF log, old
<1>7. QuestionInv(q)'
  <2>1. Unasked(q)' /\ Clean(q)'
    BY <1>1, <1>3, <1>6 DEF Unasked, Clean
  <2>2. ShownDenial(q)'
    <3>1. log[1] = "mistake" \/ (old = <<>> /\ log[1] = o)
      BY <1>3, <1>4
    <3>. QED  BY <1>1, <1>3, <1>4, <1>6, <3>1 DEF ShownDenial
  <2>3. Repaired(q)'
    <3>1. \A n \in 1..Len(log) : n < Len(log) \/ next = "model" => log[n] = "mistake"
      BY <1>1, <1>3, <1>4
    <3>. QED  BY <1>6, <3>1 DEF Repaired
  <2>4. Struck(q)'
    <3>1. \A n \in 1..Len(log) : log[n] # "attack"
      BY <1>1, <1>3, <1>4
    <3>. QED  BY <1>6, <3>1 DEF Struck
  <2>5. Rationed(q)'
    <3>1. Len(log) <= MaxAttempts /\ (next = "model" => Len(log) < MaxAttempts)
      BY <1>1, <1>3, <1>4, AttemptsAssumption
    <3>. QED  BY <1>6, <3>1 DEF Rationed
  <2>. QED  BY <2>1, <2>2, <2>3, <2>4, <2>5 DEF QuestionInv
<1>8. \A r \in Questions \ {q} :
        /\ pc'[r] = pc[r] /\ attempts'[r] = attempts[r] /\ shown'[r] = shown[r]
        /\ strikes'[r] = strikes[r] /\ answer'[r] = answer[r]
  BY <1>1 DEF FlowInv, Types
<1>. QED  BY <1>5, <1>7, <1>8, OthersKeep

\* An answer in fixed words, or the answer itself.
LEMMA AnswersStep ==
  ASSUME FlowInv, NEW q \in Questions, pc[q] # "answered",
         NEW a \in Answers, a.prose # "model", Answer(q, a),
         UNCHANGED <<attempts, shown, strikes>>
  PROVE  FlowInv'
<1>1. Types' /\ answer' \in [Questions -> Answers]
  BY DEF FlowInv, Types, Answer, Answers
<1>2. pc'[q] = "answered" /\ answer'[q] = a
  BY DEF Answer, FlowInv, Types
<1>3. QuestionInv(q)
  BY DEF FlowInv
<1>4. QuestionInv(q)'
  BY <1>2, <1>3 DEF QuestionInv, Unasked, ShownDenial, Repaired, Rationed, Struck, Clean
<1>5. \A r \in Questions \ {q} : pc'[r] = pc[r] /\ answer'[r] = answer[r]
  BY DEF Answer, FlowInv, Types
<1>. QED  BY <1>1, <1>4, <1>5, OthersKeep

\* A step towards the first call of the model, or a slot given back.
LEMMA MovesStep ==
  ASSUME FlowInv, NEW q \in Questions,
         Admitted(q) \/ BodyRead(q) \/ SchemaLoaded(q) \/ Forget(q)
  PROVE  FlowInv'
<1>1. CASE Forget(q)
  <2>1. NoAnswer \in Answers /\ NoAnswer.prose # "model"
    BY DEF NoAnswer, Answers
  <2>2. <<>> \in Seq(Outcomes)
    OBVIOUS
  <2>3. Types' /\ answer' \in [Questions -> Answers]
    BY <1>1, <2>1, <2>2 DEF Forget, FlowInv, Types, Answers
  <2>4. /\ pc'[q] = "idle" /\ attempts'[q] = <<>> /\ ~shown'[q] /\ strikes'[q] = 0
        /\ answer'[q] = NoAnswer
    BY <1>1 DEF Forget, FlowInv, Types
  <2>5. QuestionInv(q)'
    <3>1. Len(attempts'[q]) = 0
      BY <2>4
    <3>2. Rationed(q)'
      BY <2>4, <3>1, AttemptsAssumption DEF Rationed
    <3>. QED  BY <2>1, <2>4, <3>2 DEF QuestionInv, Unasked, ShownDenial, Repaired, Struck, Clean
  <2>6. \A r \in Questions \ {q} :
          /\ pc'[r] = pc[r] /\ attempts'[r] = attempts[r] /\ shown'[r] = shown[r]
          /\ strikes'[r] = strikes[r] /\ answer'[r] = answer[r]
    BY <1>1 DEF Forget, FlowInv, Types
  <2>. QED  BY <2>3, <2>5, <2>6, OthersKeep
<1>2. CASE Admitted(q) \/ BodyRead(q) \/ SchemaLoaded(q)
  <2>1. PICK next \in {"body", "schema", "model"} :
          /\ pc[q] \in {"idle", "body", "schema"} /\ pc' = [pc EXCEPT ![q] = next]
          /\ UNCHANGED <<attempts, shown, strikes, answer>>
    BY <1>2 DEF Admitted, BodyRead, SchemaLoaded
  <2>2. attempts[q] = <<>> /\ ~shown[q] /\ strikes[q] = 0 /\ answer[q].prose # "model"
    BY <2>1 DEF FlowInv, QuestionInv, Unasked, Clean
  <2>3. Types' /\ answer' \in [Questions -> Answers]
    BY <2>1 DEF FlowInv, Types, Answers
  <2>4. QuestionInv(q)'
    BY <2>1, <2>2 DEF QuestionInv, Unasked, ShownDenial, Repaired, Rationed, Struck, Clean, FlowInv, Types
  <2>5. \A r \in Questions \ {q} : pc'[r] = pc[r]
    BY <2>1 DEF FlowInv, Types
  <2>. QED  BY <2>1, <2>3, <2>4, <2>5, OthersKeep
<1>. QED  BY <1>1, <1>2

LEMMA HandleStep ==
  ASSUME FlowInv, NEW q \in Questions, Turned(q) \/ Admitted(q) \/ Handle(q) \/ Forget(q)
  PROVE  FlowInv'
<1>1. ASSUME NEW status \in Nat, NEW body \in {"refused", "error"}
      PROVE  Fixed(status, body) \in Answers /\ Fixed(status, body).prose # "model"
  BY DEF Fixed, Answers
<1>2. CASE Turned(q)
  BY <1>1, <1>2, AnswersStep DEF Turned
<1>3. CASE BodyRefused(q)
  BY <1>1, <1>3, AnswersStep DEF BodyRefused
<1>4. CASE Throws(q)
  BY <1>1, <1>4, AnswersStep DEF Throws
<1>5. CASE ReadReturns(q)
  <2>1. [status |-> 200, body |-> "ok", prose |-> "none"] \in Answers
    BY DEF Answers
  <2>2. PICK a \in Answers : Answer(q, a) /\ a.prose # "model"
    BY <1>1, <1>5, <2>1 DEF ReadReturns, Sent, Leak
  <2>. QED  BY <1>5, <2>2, AnswersStep DEF ReadReturns
<1>6. CASE Admitted(q) \/ BodyRead(q) \/ SchemaLoaded(q) \/ Forget(q)
  BY <1>6, MovesStep
<1>7. CASE NoSql(q)
  <2>1. PICK o \in {"model_error", "invalid", "unanswerable"} : Fails(q, o)
    BY <1>7 DEF NoSql
  <2>. QED  BY <1>7, <2>1, FailsStep DEF NoSql, Outcomes
<1>8. CASE Attack(q)
  BY <1>8, FailsStep DEF Attack, Outcomes, Denials
<1>9. ASSUME NEW o \in {"fault", "mistake"}, GivesUp(q, o) PROVE FlowInv'
  BY <1>9, FailsStep DEF GivesUp, Outcomes, Denials
<1>10. CASE Approved(q) \/ Repair(q)
  BY <1>10, GrowsStep
<1>. QED  BY <1>2, <1>3, <1>4, <1>5, <1>6, <1>7, <1>8, <1>9, <1>10 DEF Handle

-----------------------------------------------------------------------------
LEMMA Initial == Init => FlowInv
<1> SUFFICES ASSUME Init PROVE FlowInv
  OBVIOUS
<1>1. NoAnswer \in Answers /\ NoAnswer.prose # "model"
  BY DEF NoAnswer, Answers
<1>2. <<>> \in Seq(Outcomes)
  OBVIOUS
<1>3. Types /\ answer \in [Questions -> Answers]
  BY <1>1, <1>2 DEF Init, Types
<1>4. ASSUME NEW q \in Questions PROVE QuestionInv(q)
  <2>1. attempts[q] = <<>> /\ Len(attempts[q]) = 0
    BY <1>4 DEF Init
  <2>2. Rationed(q)
    BY <2>1, AttemptsAssumption DEF Rationed
  <2>. QED  BY <1>1, <1>4, <2>1, <2>2 DEF Init, QuestionInv, Unasked, ShownDenial, Repaired, Struck, Clean
<1>. QED  BY <1>3, <1>4 DEF FlowInv, Answers

LEMMA Inductive == FlowInv /\ [Next]_vars => FlowInv'
<1> SUFFICES ASSUME FlowInv, [Next]_vars PROVE FlowInv'
  OBVIOUS
<1>1. CASE Next
  BY <1>1, HandleStep DEF Next
<1>2. CASE UNCHANGED vars
  BY <1>2 DEF vars, FlowInv, Types, QuestionInv, Unasked, ShownDenial, Repaired, Rationed, Struck, Clean, Denied
<1>. QED  BY <1>1, <1>2

LEMMA Invariance == Spec => []FlowInv
  BY Initial, Inductive, PTL DEF Spec

(***************************************************************************)
(* Whatever the model says after it has been shown a verdict stays on the  *)
(* server: narrow.ts looks at the attempts, the planner at its flag, and   *)
(* the two agree.                                                          *)
(***************************************************************************)
THEOREM VerdictsStayHome == Spec => []NoVerdictCrosses
<1>1. ASSUME FlowInv PROVE NoVerdictCrosses
  <2>1. ASSUME NEW q \in Questions, answer[q].prose = "model", shown[q] PROVE FALSE
    <3>1. QuestionInv(q) /\ attempts[q] \in Seq(Outcomes)
      BY <1>1 DEF FlowInv, Types
    <3>2. attempts[q] # <<>> /\ attempts[q][1] = "mistake" /\ ~Denied(attempts[q])
      BY <2>1, <3>1 DEF QuestionInv, ShownDenial, Clean
    <3>3. 1 \in 1..Len(attempts[q])
      BY <3>1, <3>2
    <3>. QED  BY <3>2, <3>3 DEF Denied, Denials
  <2>. QED  BY <2>1 DEF NoVerdictCrosses
<1>. QED  BY <1>1, Invariance, PTL

(***************************************************************************)
(* The repair loop is for honest mistakes: nothing else is ever followed   *)
(* by another call of the model.                                           *)
(***************************************************************************)
THEOREM RepairsMistakes == Spec => []OnlyMistakesRepaired
<1>1. ASSUME FlowInv, NEW q \in Questions
      PROVE  Len(attempts[q]) + (IF pc[q] = "model" THEN 1 ELSE 0) <= MaxAttempts
  <2>1. Len(attempts[q]) \in Nat
    BY <1>1 DEF FlowInv, Types
  <2>2. Rationed(q)
    BY <1>1 DEF FlowInv, QuestionInv
  <2>3. CASE pc[q] = "model"
    BY <2>1, <2>2, <2>3, AttemptsAssumption DEF Rationed
  <2>4. CASE pc[q] # "model"
    <3>1. Len(attempts[q]) + 0 <= MaxAttempts
      BY <2>1, <2>2 DEF Rationed
    <3>. QED  BY <2>4, <3>1
  <2>. QED  BY <2>3, <2>4
<1>2. FlowInv => OnlyMistakesRepaired
  BY <1>1 DEF FlowInv, QuestionInv, Repaired, OnlyMistakesRepaired
<1>. QED  BY <1>2, Invariance, PTL

(***************************************************************************)
(* One strike for an attack-shaped question, none for any other.           *)
(***************************************************************************)
THEOREM OneStrikePerAttack == Spec => []StruckOncePerAttack
<1>1. FlowInv => StruckOncePerAttack
  BY DEF FlowInv, QuestionInv, Struck, StruckOncePerAttack
<1>. QED  BY <1>1, Invariance, PTL

(***************************************************************************)
(* What the host is told.  Nothing is told and no event raised before the  *)
(* answer, so that the step that answers tells the whole: an error, or the *)
(* security event in its place.                                            *)
(***************************************************************************)
ToldTypes == raised \in [Questions -> BOOLEAN] /\ told \in [Questions -> Nat]

Untouched(q) == pc[q] # "answered" => told[q] = 0 /\ ~raised[q] /\ answer[q].status # 200
ToldOnce(q) == answer[q].status = 200 => told[q] = IF answer[q].body = "ok" THEN 0 ELSE 1

ToldInv ==
  /\ ToldTypes
  /\ \A q \in Questions : Untouched(q)
  /\ HostListens => \A q \in Questions : ToldOnce(q)

\* A step of q leaves what the others told alone.
LEMMA OthersTellNothing ==
  ASSUME ToldInv, NEW q \in Questions, ToldTypes',
         \A r \in Questions \ {q} :
           /\ pc'[r] = pc[r] /\ raised'[r] = raised[r]
           /\ told'[r] = told[r] /\ answer'[r] = answer[r],
         Untouched(q)', HostListens => ToldOnce(q)'
  PROVE  ToldInv'
<1>1. ASSUME NEW r \in Questions \ {q} PROVE Untouched(r)' /\ (HostListens => ToldOnce(r)')
  BY DEF ToldInv, Untouched, ToldOnce
<1>. QED  BY <1>1 DEF ToldInv

\* The question is answered with a, and count things are told, the event among them.
LEMMA AnswerTells ==
  ASSUME FlowInv, ToldInv, NEW q \in Questions, pc[q] # "answered",
         NEW a \in Answers, Answer(q, a), NEW count \in Nat, Tell(q, count),
         raised' = raised \/ raised' = [raised EXCEPT ![q] = TRUE],
         HostListens /\ a.status = 200 => count = IF a.body = "ok" THEN 0 ELSE 1
  PROVE  ToldInv'
<1>1. /\ pc' = [pc EXCEPT ![q] = "answered"] /\ answer' = [answer EXCEPT ![q] = a]
      /\ told' = [told EXCEPT ![q] = @ + count]
  BY DEF Answer, Tell
<1>2. told[q] = 0 /\ told \in [Questions -> Nat] /\ raised \in [Questions -> BOOLEAN]
  BY DEF ToldInv, ToldTypes, Untouched
<1>3. pc'[q] = "answered" /\ answer'[q] = a /\ told'[q] = count
  BY <1>1, <1>2 DEF FlowInv, Types
<1>4. ToldTypes'
  <2>1. raised' \in [Questions -> BOOLEAN]
    BY <1>2
  <2>2. told' \in [Questions -> Nat]
    BY <1>1, <1>2
  <2>. QED  BY <2>1, <2>2 DEF ToldTypes
<1>5. \A r \in Questions \ {q} :
        /\ pc'[r] = pc[r] /\ raised'[r] = raised[r] /\ told'[r] = told[r] /\ answer'[r] = answer[r]
  BY <1>1, <1>2 DEF FlowInv, Types
<1>6. Untouched(q)' /\ (HostListens => ToldOnce(q)')
  BY <1>3 DEF Untouched, ToldOnce
<1>. QED  BY <1>4, <1>5, <1>6, OthersTellNothing

\* Whatever a plan failed with, the answer hides a failure, or is the leak's 500.
LEMMA FailureIsNotOk ==
  ASSUME NEW log, NEW a \in Sent(FailureBody(log))
  PROVE  a \in Answers /\ (a.status = 200 => a.body # "ok")
<1>1. FailureBody(log) \in {[status |-> 200, body |-> "unanswerable", prose |-> Prose(log)],
                            Fixed(200, "refused"), Fixed(200, "error")}
  <2>1. CASE Last(log) = "unanswerable"
    BY <2>1, Zenon DEF FailureBody, Denials
  <2>2. CASE Last(log) \in Denials
    BY <2>2, Zenon DEF FailureBody, Denials
  <2>3. CASE Last(log) # "unanswerable" /\ Last(log) \notin Denials
    BY <2>3, Zenon DEF FailureBody
  <2>. QED  BY <2>1, <2>2, <2>3
<1>. QED  BY <1>1 DEF Sent, Leak, Fixed, Prose, Answers

\* The plan failed, which a host that listens is told once.
LEMMA FailsTells ==
  ASSUME FlowInv, ToldInv, NEW q \in Questions, pc[q] = "model", NEW o, Fails(q, o),
         raised' = raised \/ raised' = [raised EXCEPT ![q] = TRUE],
         NEW count \in Nat, Tell(q, count), HostListens => count = 1
  PROVE  ToldInv'
<1>1. PICK a \in Sent(FailureBody(Append(attempts[q], o))) : Answer(q, a)
  BY DEF Fails
<1>2. a \in Answers /\ (a.status = 200 => a.body # "ok")
  BY <1>1, FailureIsNotOk
<1>. QED  BY <1>1, <1>2, AnswerTells

\* Without an event it is the error that is told.
LEMMA FailsQuietly ==
  ASSUME FlowInv, ToldInv, NEW q \in Questions, pc[q] = "model", NEW o, Fails(q, o),
         raised' = raised, Tell(q, Untold(q))
  PROVE  ToldInv'
<1>1. ~raised'[q]
  BY DEF ToldInv, Untouched
<1>2. Tell(q, 1)
  BY <1>1 DEF Untold
<1>. QED  BY <1>2, FailsTells

LEMMA HandleTells ==
  ASSUME FlowInv, ToldInv, NEW q \in Questions, Turned(q) \/ Admitted(q) \/ Handle(q) \/ Forget(q)
  PROVE  ToldInv'
<1>1. /\ raised \in [Questions -> BOOLEAN] /\ raised[q] \in BOOLEAN
      /\ told \in [Questions -> Nat] /\ told = [told EXCEPT ![q] = told[q] + 0]
  BY DEF ToldInv, ToldTypes
<1>2. ASSUME NEW status \in Nat, NEW body \in {"refused", "error"} PROVE Fixed(status, body) \in Answers
  BY DEF Fixed, Answers
<1>3. CASE Turned(q) \/ BodyRefused(q)
  <2>1. PICK status \in {400, 401, 403, 405, 413, 415, 429, 500, 503} : Answer(q, Fixed(status, "error"))
    BY <1>3 DEF Turned, BodyRefused
  <2>2. Fixed(status, "error").status # 200
    BY <2>1 DEF Fixed
  <2>3. pc[q] # "answered" /\ UNCHANGED <<raised, told>>
    BY <1>3 DEF Turned, BodyRefused
  <2>4. Tell(q, 0)
    BY <1>1, <2>3 DEF Tell
  <2>. QED  BY <1>1, <1>2, <2>1, <2>2, <2>3, <2>4, AnswerTells
<1>4. CASE Throws(q)
  <2>1. pc[q] # "answered" /\ Answer(q, Fixed(200, "error")) /\ Tell(q, 1) /\ raised' = raised
    BY <1>4 DEF Throws
  <2>2. Fixed(200, "error").body # "ok"
    BY DEF Fixed
  <2>. QED  BY <1>1, <1>2, <2>1, <2>2, AnswerTells
<1>5. CASE ReadReturns(q)
  <2>1. pc[q] # "answered" /\ raised' = raised
    BY <1>5 DEF ReadReturns
  <2>2. CASE Answer(q, Fixed(200, "error")) /\ Tell(q, 1)
    <3>1. Fixed(200, "error").body # "ok"
      BY DEF Fixed
    <3>. QED  BY <1>1, <1>2, <2>1, <2>2, <3>1, AnswerTells
  <2>3. CASE /\ \E a \in Sent([status |-> 200, body |-> "ok", prose |-> "none"]) : Answer(q, a)
             /\ UNCHANGED told
    <3>1. PICK a \in Sent([status |-> 200, body |-> "ok", prose |-> "none"]) : Answer(q, a)
      BY <2>3
    <3>2. a \in Answers /\ (a.status = 200 => a.body = "ok")
      BY <3>1 DEF Sent, Leak, Fixed, Answers
    <3>3. Tell(q, 0)
      BY <1>1, <2>3 DEF Tell
    <3>. QED  BY <1>1, <2>1, <3>1, <3>2, <3>3, AnswerTells
  <2>. QED  BY <1>5, <2>2, <2>3 DEF ReadReturns
<1>6. CASE NoSql(q)
  <2>1. PICK o \in {"model_error", "invalid", "unanswerable"} : Fails(q, o)
    BY <1>6 DEF NoSql
  <2>2. pc[q] = "model" /\ raised' = raised /\ Tell(q, Untold(q))
    BY <1>6 DEF NoSql
  <2>. QED  BY <1>1, <2>1, <2>2, FailsQuietly
<1>7. ASSUME NEW o \in {"fault", "mistake"}, GivesUp(q, o) PROVE ToldInv'
  <2>1. pc[q] = "model" /\ Fails(q, o) /\ raised' = raised /\ Tell(q, Untold(q))
    BY <1>7 DEF GivesUp
  <2>. QED  BY <2>1, FailsQuietly
<1>8. CASE Attack(q)
  <2>1. /\ pc[q] = "model" /\ Fails(q, "attack") /\ raised' = [raised EXCEPT ![q] = TRUE]
        /\ Tell(q, (IF HostListens THEN 1 ELSE 0) + Untold(q))
    BY <1>8 DEF Attack
  <2>2. Untold(q) = 0
    BY <1>1, <2>1 DEF Untold
  <2>3. PICK count \in {0, 1} : count = (IF HostListens THEN 1 ELSE 0) + Untold(q)
    BY <2>2
  <2>4. Tell(q, count) /\ (HostListens => count = 1)
    BY <2>1, <2>2, <2>3
  <2>. QED  BY <2>1, <2>4, FailsTells
<1>9. CASE Forget(q)
  <2>1. /\ told' = [told EXCEPT ![q] = 0] /\ raised' = [raised EXCEPT ![q] = FALSE]
        /\ answer' = [answer EXCEPT ![q] = NoAnswer] /\ pc' = [pc EXCEPT ![q] = "idle"]
    BY <1>9 DEF Forget
  <2>2. NoAnswer.status # 200
    BY DEF NoAnswer
  <2>3. ToldTypes' /\ told'[q] = 0 /\ raised'[q] = FALSE /\ answer'[q] = NoAnswer
    BY <1>1, <2>1 DEF ToldTypes, FlowInv
  <2>4. Untouched(q)' /\ ToldOnce(q)'
    BY <2>2, <2>3 DEF Untouched, ToldOnce
  <2>5. \A r \in Questions \ {q} :
          /\ pc'[r] = pc[r] /\ raised'[r] = raised[r] /\ told'[r] = told[r] /\ answer'[r] = answer[r]
    BY <1>1, <2>1 DEF FlowInv, Types
  <2>. QED  BY <2>3, <2>4, <2>5, OthersTellNothing
<1>10. CASE Admitted(q) \/ BodyRead(q) \/ SchemaLoaded(q) \/ Approved(q) \/ Repair(q)
  <2>1. /\ pc[q] # "answered" /\ UNCHANGED <<raised, told, answer>>
        /\ \A r \in Questions \ {q} : pc'[r] = pc[r]
    BY <1>10 DEF Admitted, BodyRead, SchemaLoaded, Approved, Repair, FlowInv, Types
  <2>2. told[q] = 0 /\ ~raised[q] /\ answer[q].status # 200
    BY <2>1 DEF ToldInv, Untouched
  <2>3. Untouched(q)' /\ ToldOnce(q)' /\ ToldTypes'
    BY <1>1, <2>1, <2>2 DEF Untouched, ToldOnce, ToldTypes
  <2>. QED  BY <2>1, <2>3, OthersTellNothing
<1>. QED  BY <1>3, <1>4, <1>5, <1>6, <1>7, <1>8, <1>9, <1>10 DEF Handle

LEMMA ToldInductive == FlowInv /\ ToldInv /\ [Next]_vars => ToldInv'
<1> SUFFICES ASSUME FlowInv, ToldInv, [Next]_vars PROVE ToldInv'
  OBVIOUS
<1>1. CASE Next
  BY <1>1, HandleTells DEF Next
<1>2. CASE UNCHANGED vars
  BY <1>2 DEF vars, ToldInv, ToldTypes, Untouched, ToldOnce
<1>. QED  BY <1>1, <1>2

LEMMA ToldInitially == Init => ToldInv
<1>1. NoAnswer.status # 200
  BY DEF NoAnswer
<1>. QED  BY <1>1 DEF Init, ToldInv, ToldTypes, Untouched, ToldOnce

(***************************************************************************)
(* A failure behind a 200 is told to a host that listens exactly once, an  *)
(* answer never: a security event stands for the error it would have been. *)
(***************************************************************************)
THEOREM FailuresAreTold == Spec => []FailureToldOnce
<1>1. ToldInv => FailureToldOnce
  BY DEF ToldInv, ToldOnce, FailureToldOnce
<1>. QED  BY <1>1, ToldInitially, ToldInductive, Invariance, PTL DEF Spec

-----------------------------------------------------------------------------
(***************************************************************************)
(* The strengthening: loads are noted in the order they began, and a load  *)
(* that no failure came after is behind the one that is cached.            *)
(***************************************************************************)
Load == [at : Nat, status : {"pending", "ok", "failed"}, schema : Schemas \union {NoSchema}, seen : Nat]

LoadTypes ==
  /\ config \in Configs \union {NoConfig}
  /\ now \in Nat
  /\ loads \in Seq(Load)
  /\ cached \in 0..Len(loads)
  /\ failures \in Nat

InOrder ==
  /\ \A a \in DOMAIN loads : loads[a].at <= now /\ loads[a].seen <= failures
  /\ \A a, b \in DOMAIN loads : a < b => loads[a].at <= loads[b].at

Covered(a) == loads[a].seen < failures \/ (cached # 0 /\ loads[cached].at >= loads[a].at)

LoadsInv ==
  /\ LoadTypes /\ InOrder
  /\ config = NoConfig => loads = <<>>
  /\ config # NoConfig /\ config.ttl > 0 => \A a \in DOMAIN loads : Covered(a)
  /\ OneLoadPerTtl
-----------------------------------------------------------------------------
(***************************************************************************)
(* The path is a way through AskFlow.                                      *)
(***************************************************************************)
LEMMA ArrivalIsOne ==
  ASSUME NEW q \in Questions, Arrives(q)
  PROVE  Next
BY DEF Arrives, MethodRefused, ScopeRefused, ResolverThrows, LimiterRefused, AdmittedAs, Next

LEMMA ServiceIsOne ==
  ASSUME NEW q \in Questions, Serve(q)
  PROVE  Next
<1>1. CASE BodyBad(q) \/ AsksForSchema(q) \/ LoaderThrows(q)
  BY <1>1 DEF BodyBad, AsksForSchema, LoaderThrows, Handle, Next
<1>2. CASE NoSchemaCame(q) \/ SchemaCame(q)
  BY <1>2 DEF NoSchemaCame, SchemaCame, Handle, Next
<1>3. CASE ReplyWithoutSql(q) \/ StatementApproved(q)
  BY <1>3 DEF ReplyWithoutSql, StatementApproved, Handle, Next
<1>4. CASE StatementDenied(q)
  BY <1>4 DEF StatementDenied, Handle, Next
<1>5. CASE Reads(q) \/ BreaksOff(q)
  BY <1>5 DEF Reads, BreaksOff, Handle, Next
<1>. QED  BY <1>1, <1>2, <1>3, <1>4, <1>5 DEF Serve

(***************************************************************************)
(* Every behaviour of the whole path is one of AskFlow: whoever asks,      *)
(* whatever the loader, the model and the deparser come back with.         *)
(***************************************************************************)
THEOREM PathIsAFlow == PathSpec => Spec
<1>1. InitPath => Init
  BY DEF InitPath
<1>2. [NextPath]_pathVars => [Next]_vars
  <2>1. CASE Elsewhere
    BY <2>1 DEF Elsewhere
  <2>2. ASSUME NEW q \in Questions, Arrives(q) PROVE Next
    BY <2>2, ArrivalIsOne
  <2>3. ASSUME NEW q \in Questions, Serve(q) PROVE Next
    BY <2>3, ServiceIsOne
  <2>4. ASSUME NEW q \in Questions, Leaves(q) PROVE Next
    BY <2>4 DEF Leaves, Next
  <2>5. CASE UNCHANGED pathVars
    BY <2>5 DEF pathVars
  <2>. QED  BY <2>1, <2>2, <2>3, <2>4, <2>5 DEF NextPath
<1>. QED  BY <1>1, <1>2, PTL DEF PathSpec, Spec

-----------------------------------------------------------------------------
(***************************************************************************)
(* The schema loader.                                                      *)
(***************************************************************************)
LEMMA LoadIsNoted ==
  ASSUME loads \in Seq(Load), NEW a \in DOMAIN loads
  PROVE  loads[a] \in Load /\ loads[a].at \in Nat /\ loads[a].seen \in Nat
<1>1. loads[a] \in Load
  OBVIOUS
<1>. QED  BY <1>1 DEF Load

LEMMA LoadsStart ==
  ASSUME LoadsInv, config # NoConfig, Start
  PROVE  LoadsInv'
<1> DEFINE b == Len(loads) + 1
           new == [at |-> now, status |-> "pending", schema |-> NoSchema, seen |-> failures]
<1>1. config \in Configs /\ config.ttl \in Int
  BY RuntimeAssumption DEF LoadsInv, LoadTypes
<1>2. new \in Load /\ loads \in Seq(Load) /\ now \in Nat /\ failures \in Nat /\ cached \in 0..Len(loads)
  BY DEF LoadsInv, LoadTypes, Load
<1> HIDE DEF new
<1>3. new.at = now /\ new.seen = failures
  BY DEF new
<1>4. loads' = Append(loads, new) /\ UNCHANGED <<config, now, failures>> /\ ~Fresh
  BY DEF Start, new
<1>5. /\ loads' \in Seq(Load) /\ Len(loads') = b /\ loads'[b] = new
      /\ \A a \in DOMAIN loads : loads'[a] = loads[a]
      /\ DOMAIN loads' = 1..b /\ DOMAIN loads = 1..(b - 1)
  BY <1>2, <1>4
<1>6. cached' \in 0..Len(loads') /\ (config.ttl > 0 => cached' = b)
  BY <1>1, <1>2, <1>5 DEF Start
<1>7. LoadTypes'
  BY <1>2, <1>4, <1>5, <1>6 DEF LoadsInv, LoadTypes
<1>8. \A a \in DOMAIN loads : loads[a].at \in Nat /\ loads[a].seen \in Nat
                              /\ loads[a].at <= now /\ loads[a].seen <= failures
  BY <1>2, LoadIsNoted DEF LoadsInv, InOrder
<1>9. InOrder'
  <2>1. ASSUME NEW a \in 1..b PROVE loads'[a].at <= now' /\ loads'[a].seen <= failures'
    <3>1. CASE a = b
      BY <3>1, <1>2, <1>3, <1>4, <1>5
    <3>2. CASE a # b
      BY <3>2, <1>2, <1>4, <1>5, <1>8
    <3>. QED  BY <3>1, <3>2
  <2>2. ASSUME NEW a \in 1..b, NEW c \in 1..b, a < c PROVE loads'[a].at <= loads'[c].at
    <3>0. a \in DOMAIN loads /\ loads'[a] = loads[a]
      BY <1>2, <1>5, <2>2
    <3>1. CASE c = b
      BY <3>0, <3>1, <1>3, <1>5, <1>8
    <3>2. CASE c # b
      BY <3>0, <3>2, <2>2, <1>2, <1>5 DEF LoadsInv, InOrder
    <3>. QED  BY <3>1, <3>2
  <2>. QED  BY <1>5, <2>1, <2>2 DEF InOrder
<1>10. ASSUME config.ttl > 0, NEW a \in 1..b PROVE Covered(a)'
  <2>1. loads'[cached'].at = now /\ cached' # 0
    BY <1>2, <1>3, <1>5, <1>6, <1>10
  <2>2. loads'[a].at <= now
    BY <1>4, <1>5, <1>9 DEF InOrder
  <2>. QED  BY <2>1, <2>2 DEF Covered
<1>11. ASSUME NEW a \in DOMAIN loads, now - loads[a].at < config.ttl PROVE failures > loads[a].seen
  <2>1. config.ttl > 0
    BY <1>1, <1>2, <1>8, <1>11
  <2>2. Covered(a)
    BY <2>1, <1>11 DEF LoadsInv
  <2>3. CASE cached # 0 /\ loads[cached].at >= loads[a].at
    <3>1. cached \in DOMAIN loads
      BY <1>2, <2>3
    <3>2. now - loads[cached].at < config.ttl
      BY <3>1, <1>1, <1>2, <1>8, <1>11, <2>3
    <3>. QED  BY <3>2, <1>4, <2>3 DEF Fresh
  <2>. QED  BY <1>2, <1>8, <2>2, <2>3 DEF Covered
<1>12. OneLoadPerTtl'
  <2>1. ASSUME NEW a \in 1..b, NEW c \in 1..b, a < c, loads'[c].at - loads'[a].at < config.ttl
        PROVE  loads'[c].seen > loads'[a].seen
    <3>0. a \in DOMAIN loads /\ loads'[a] = loads[a]
      BY <1>2, <1>5, <2>1
    <3>1. CASE c = b
      BY <3>0, <3>1, <2>1, <1>3, <1>5, <1>11
    <3>2. CASE c # b
      BY <3>0, <3>2, <2>1, <1>2, <1>5 DEF LoadsInv, OneLoadPerTtl
    <3>. QED  BY <3>1, <3>2
  <2>. QED  BY <1>4, <1>5, <2>1 DEF OneLoadPerTtl
<1>. QED  BY <1>4, <1>5, <1>7, <1>9, <1>10, <1>12 DEF LoadsInv

\* The load is noted otherwise than when it began and what had failed before.
LEMMA LoadsSettle ==
  ASSUME LoadsInv, NEW l \in DOMAIN loads, LoadEnds(l) \/ LoadFails(l)
  PROVE  LoadsInv'
<1>1. /\ loads \in Seq(Load) /\ failures \in Nat /\ config \in Configs \union {NoConfig}
      /\ cached \in 0..Len(loads) /\ l \in 1..Len(loads) /\ now \in Nat
  BY DEF LoadsInv, LoadTypes
<1>2. PICK status \in {"ok", "failed"}, schema \in Schemas \union {NoSchema} :
        loads' = [loads EXCEPT ![l].status = status, ![l].schema = schema]
  <2>1. CASE LoadEnds(l)
    BY <2>1 DEF LoadEnds
  <2>2. CASE LoadFails(l)
    <3>1. loads[l] \in Load
      BY <1>1
    <3>2. loads' = [loads EXCEPT ![l].status = "failed", ![l].schema = loads[l].schema]
      BY <1>1, <2>2, <3>1 DEF LoadFails, Load
    <3>. QED  BY <3>1, <3>2 DEF Load
  <2>. QED  BY <2>1, <2>2
<1>3. loads' \in Seq(Load) /\ DOMAIN loads' = DOMAIN loads /\ Len(loads') = Len(loads)
  <2>1. loads[l] \in Load
    BY <1>1
  <2> DEFINE settled == [loads[l] EXCEPT !.status = status, !.schema = schema]
  <2>2. settled \in Load
    BY <2>1 DEF Load
  <2>3. loads' = [loads EXCEPT ![l] = settled]
    BY <1>1, <1>2, <2>1 DEF Load
  <2> HIDE DEF settled
  <2>. QED  BY <1>1, <2>2, <2>3
<1>4. \A a \in DOMAIN loads : loads'[a].at = loads[a].at /\ loads'[a].seen = loads[a].seen
  <2>1. \A a \in DOMAIN loads : loads[a] \in Load
    BY <1>1
  <2>. QED  BY <1>1, <1>2, <2>1 DEF Load
<1>5. UNCHANGED <<config, now>>
  BY DEF LoadEnds, LoadFails
<1>6. /\ failures' \in Nat /\ failures' >= failures /\ cached' \in 0..Len(loads)
      /\ failures' = failures => cached' = cached
  <2>1. CASE LoadEnds(l)
    <3>1. failures' = failures /\ cached' = cached
      BY <2>1 DEF LoadEnds
    <3>. QED  BY <1>1, <3>1
  <2>2. CASE LoadFails(l)
    <3>1. failures' = failures + 1 /\ cached' \in {cached, 0}
      BY <2>2 DEF LoadFails
    <3>. QED  BY <1>1, <3>1
  <2>. QED  BY <2>1, <2>2
<1>7. LoadTypes'
  BY <1>1, <1>3, <1>5, <1>6 DEF LoadTypes
<1>8. \A a \in DOMAIN loads : loads[a].seen \in Nat /\ loads[a].at \in Nat /\ loads[a].seen <= failures
  BY <1>1, LoadIsNoted DEF LoadsInv, InOrder
<1>9. InOrder'
  <2>1. ASSUME NEW a \in DOMAIN loads PROVE loads'[a].at <= now' /\ loads'[a].seen <= failures'
    <3>1. loads'[a].at = loads[a].at /\ loads'[a].seen = loads[a].seen
      BY <1>4
    <3>2. loads[a].at <= now /\ loads[a].seen \in Nat /\ loads[a].seen <= failures
      BY <1>8 DEF LoadsInv, InOrder
    <3>3. failures \in Nat
      BY <1>1
    <3>. QED  BY <1>5, <1>6, <3>1, <3>2, <3>3
  <2>2. \A a, b \in DOMAIN loads : a < b => loads'[a].at <= loads'[b].at
    BY <1>4 DEF LoadsInv, InOrder
  <2>. QED  BY <1>3, <2>1, <2>2 DEF InOrder
<1>10. ASSUME NEW a \in DOMAIN loads, Covered(a) PROVE Covered(a)'
  <2>1. CASE failures' = failures
    <3>1. cached # 0 => cached \in DOMAIN loads
      BY <1>1
    <3>. QED  BY <3>1, <1>4, <1>6, <1>10, <2>1 DEF Covered
  <2>2. CASE failures' # failures
    BY <2>2, <1>1, <1>4, <1>6, <1>8 DEF Covered
  <2>. QED  BY <2>1, <2>2
<1>11. OneLoadPerTtl'
  BY <1>3, <1>4, <1>5 DEF LoadsInv, OneLoadPerTtl
<1>12. config' = NoConfig => loads' = <<>>
  BY <1>1, <1>5 DEF LoadsInv
<1>. QED  BY <1>3, <1>5, <1>7, <1>9, <1>10, <1>11, <1>12 DEF LoadsInv

\* What leaves the loads alone.
LEMMA LoadsStay ==
  ASSUME LoadsInv, UNCHANGED <<config, now, loads, cached, failures>>
  PROVE  LoadsInv'
BY DEF LoadsInv, LoadTypes, InOrder, Covered, OneLoadPerTtl

LEMMA LoadsTick == LoadsInv /\ Tick => LoadsInv'
<1> SUFFICES ASSUME LoadsInv, Tick PROVE LoadsInv'
  OBVIOUS
<1>1. now \in Nat /\ now' = now + 1 /\ UNCHANGED <<config, loads, cached, failures>> /\ loads \in Seq(Load)
  BY DEF Tick, LoadsInv, LoadTypes
<1>2. \A a \in DOMAIN loads : loads[a].at \in Nat
  BY <1>1, LoadIsNoted
<1>3. LoadTypes' /\ InOrder'
  BY <1>1, <1>2 DEF LoadsInv, LoadTypes, InOrder
<1>. QED  BY <1>1, <1>3 DEF LoadsInv, Covered, OneLoadPerTtl

LEMMA LoadsCreate == LoadsInv /\ CreateRuntime => LoadsInv'
<1> SUFFICES ASSUME LoadsInv, CreateRuntime PROVE LoadsInv'
  OBVIOUS
<1>1. loads = <<>> /\ config' \in Configs /\ UNCHANGED <<now, loads, cached, failures>>
  BY DEF CreateRuntime, LoadsInv
<1>2. loads' = <<>> /\ config' # NoConfig
  BY <1>1, RuntimeAssumption
<1>. QED  BY <1>1, <1>2 DEF LoadsInv, LoadTypes, InOrder, OneLoadPerTtl

LEMMA LoadsCall == LoadsInv /\ Call => LoadsInv'
BY LoadsStart, LoadsStay DEF Call, runtimeVars

LEMMA LoadsNext == LoadsInv /\ [NextPath]_pathVars => LoadsInv'
<1> SUFFICES ASSUME LoadsInv, [NextPath]_pathVars PROVE LoadsInv'
  OBVIOUS
<1>1. CASE Elsewhere
  <2>1. ASSUME NEW l \in DOMAIN loads, CheckGlossary(l) PROVE LoadsInv'
    BY <2>1, LoadsStay DEF CheckGlossary
  <2>. QED  BY <1>1, <2>1, LoadsCreate, LoadsTick, LoadsCall, LoadsSettle DEF Elsewhere, NextRuntime
<1>2. ASSUME NEW q \in Questions, Arrives(q) \/ Leaves(q) PROVE LoadsInv'
  BY <1>2, LoadsStay DEF Arrives, MethodRefused, ScopeRefused, ResolverThrows, LimiterRefused, AdmittedAs,
     Leaves, runtimeVars
<1>3. ASSUME NEW q \in Questions, Serve(q) PROVE LoadsInv'
  <2>1. CASE AsksForSchema(q)
    BY <2>1, LoadsCall DEF AsksForSchema
  <2>2. CASE SchemaCame(q)
    BY <2>2, LoadsStay DEF SchemaCame
  <2>3. CASE BodyBad(q) \/ LoaderThrows(q) \/ NoSchemaCame(q) \/ ReplyWithoutSql(q) \/ StatementApproved(q)
    BY <2>3, LoadsStay DEF BodyBad, LoaderThrows, NoSchemaCame, ReplyWithoutSql, StatementApproved, runtimeVars
  <2>4. CASE StatementDenied(q) \/ Reads(q) \/ BreaksOff(q)
    BY <2>4, LoadsStay DEF StatementDenied, Reads, BreaksOff, runtimeVars
  <2>. QED  BY <1>3, <2>1, <2>2, <2>3, <2>4 DEF Serve
<1>4. CASE UNCHANGED pathVars
  BY <1>4, LoadsStay DEF pathVars, runtimeVars
<1>. QED  BY <1>1, <1>2, <1>3, <1>4 DEF NextPath

(***************************************************************************)
(* However many questions come at once and in whatever order loads end,    *)
(* two introspections begin within one time-to-live only if one failed in  *)
(* between.                                                                *)
(***************************************************************************)
THEOREM OneLoad == PathSpec => []OneLoadPerTtl
<1>1. InitPath => LoadsInv
  BY DEF InitPath, InitRuntime, LoadsInv, LoadTypes, InOrder, OneLoadPerTtl
<1>2. LoadsInv => OneLoadPerTtl
  BY DEF LoadsInv
<1>. QED  BY <1>1, <1>2, LoadsNext, PTL DEF PathSpec

(***************************************************************************)
(* What AskFlow keeps, the whole path keeps.                               *)
(***************************************************************************)
COROLLARY PathKeepsVerdicts == PathSpec => []NoVerdictCrosses
BY PathIsAFlow, VerdictsStayHome, PTL

COROLLARY PathRepairsMistakes == PathSpec => []OnlyMistakesRepaired
BY PathIsAFlow, RepairsMistakes, PTL

COROLLARY PathStrikesOnce == PathSpec => []StruckOncePerAttack
BY PathIsAFlow, OneStrikePerAttack, PTL

COROLLARY PathTellsOnce == PathSpec => []FailureToldOnce
BY PathIsAFlow, FailuresAreTold, PTL

-----------------------------------------------------------------------------
\* A set of numbers has a least one.
LEMMA Least ==
  ASSUME NEW S \in SUBSET Nat, S # {}
  PROVE  \E n \in S : \A m \in S : n <= m
<1> DEFINE R == OpToRel(<, Nat)
<1>1. IsWellFoundedOn(R, Nat)
  BY NatLessThanWellFounded
<1>2. \A m, n \in Nat : m < n => <<m, n>> \in R
  BY DEF OpToRel
<1> HIDE DEF R
<1>3. PICK n \in S : \A m \in S : ~(<<m, n>> \in R)
  BY <1>1, WFMin
<1>4. ASSUME NEW m \in S PROVE n <= m
  <2>1. m \in Nat /\ n \in Nat
    OBVIOUS
  <2>2. ~(m < n)
    BY <1>2, <1>3, <2>1
  <2>. QED  BY <2>1, <2>2
<1>. QED  BY <1>4

(***************************************************************************)
(* Who is asking.  The status is decided in three parts, and each of them  *)
(* is what it claims to be.                                                *)
(***************************************************************************)
LEMMA TokenStands ==
  ASSUME NEW token \in Presented
  PROVE  /\ Stands(token) => Id!VerifyToken(token, Verifier) = "ok"
         /\ ~Stands(token) =>
              Id!VerifyToken(token, Verifier) \in
                {"E_TOKEN_MALFORMED", "E_TOKEN_ALG", "E_TOKEN_KEY", "E_TOKEN_CLAIM", "E_TOKEN_EXPIRED", "E_TOKEN_SIGNATURE"}
<1>1. /\ token.chars \in {"none", "some", "too many"} /\ token.key \in {"found", "no match", "unreachable"}
      /\ token.signed \in BOOLEAN /\ token.exp \in {"absent", "past", "ahead"}
  BY PresentedAssumption
<1>2. token.chars = "some" => (Stands(token) <=> Id!JwtVerify(token, Verifier) = "ok")
  BY <1>1 DEF Stands, Id!JwtVerify
<1>3. Id!AsIdentityError(Id!JwtVerify(token, Verifier)) \in
        {"E_TOKEN_ALG", "E_TOKEN_KEY", "E_TOKEN_CLAIM", "E_TOKEN_EXPIRED", "E_TOKEN_SIGNATURE"}
  BY DEF Id!AsIdentityError
<1>4. Stands(token) => token.chars = "some"
  BY DEF Stands
<1>. QED  BY <1>1, <1>2, <1>3, <1>4 DEF Id!VerifyToken

LEMMA ClaimsDecide ==
  ASSUME NEW claims
  PROVE  /\ Id!TenantScope(claims, Verifier.mapped) \in {"ok", "E_TENANT_CLAIM_MISSING", "E_TENANT_VALUE_UNSAFE"}
         /\ Id!TenantScope(claims, Verifier.mapped) = "ok" <=>
              \A n \in DOMAIN Verifier.mapped : claims[Verifier.mapped[n]] \in {"text", "integer"}
<1> DEFINE fault(n) == Id!ClaimFault(claims[Verifier.mapped[n]])
           bad == {n \in DOMAIN Verifier.mapped : fault(n) # "ok"}
           first == CHOOSE n \in bad : \A m \in bad : n <= m
<1>1. \A n \in DOMAIN Verifier.mapped :
        /\ fault(n) \in {"ok", "E_TENANT_CLAIM_MISSING", "E_TENANT_VALUE_UNSAFE"}
        /\ fault(n) = "ok" <=> claims[Verifier.mapped[n]] \in {"text", "integer"}
  BY DEF Id!ClaimFault, Id!Usable
<1>2. bad \in SUBSET Nat
  <2>1. PICK mapped \in Seq(STRING) : mapped = Verifier.mapped
    BY PresentedAssumption
  <2>2. DOMAIN mapped \in SUBSET Nat
    OBVIOUS
  <2>. QED  BY <2>1, <2>2
<1>3. Id!TenantScope(claims, Verifier.mapped) = IF bad = {} THEN "ok" ELSE fault(first)
  BY DEF Id!TenantScope
<1>4. bad # {} => first \in bad
  <2> HIDE DEF bad
  <2>. QED  BY <1>2, Least
<1>5. bad # {} => first \in DOMAIN Verifier.mapped /\ fault(first) # "ok"
  BY <1>4
<1>6. bad = {} <=> \A n \in DOMAIN Verifier.mapped : fault(n) = "ok"
  OBVIOUS
<1> HIDE DEF bad, fault, first
<1>. QED  BY <1>1, <1>3, <1>5, <1>6

LEMMA ScopeDecides ==
  ASSUME NEW token \in Presented
  PROVE  Id!ResolveScope(token, Verifier) = IF Stands(token) THEN (IF Carries(token) THEN 200 ELSE 403) ELSE 401
<1>1. Id!Status("ok") = 200
  BY DEF Id!Status
<1>2. \A code \in {"E_TENANT_CLAIM_MISSING", "E_TENANT_VALUE_UNSAFE"} : Id!Status(code) = 403
  BY DEF Id!Status
<1>3. \A code \in {"E_TOKEN_MALFORMED", "E_TOKEN_ALG", "E_TOKEN_KEY", "E_TOKEN_CLAIM", "E_TOKEN_EXPIRED",
                    "E_TOKEN_SIGNATURE"} : Id!Status(code) = 401 /\ code # "ok"
  BY DEF Id!Status
<1>4. Id!TenantScope(token.claims, Verifier.mapped) = "ok" <=> Carries(token)
  BY ClaimsDecide DEF Carries
<1>5. Id!TenantScope(token.claims, Verifier.mapped) \in {"ok", "E_TENANT_CLAIM_MISSING", "E_TENANT_VALUE_UNSAFE"}
  BY ClaimsDecide
<1>. QED  BY <1>1, <1>2, <1>3, <1>4, <1>5, TokenStands DEF Id!ResolveScope

(***************************************************************************)
(* What runs.  A reply with sql was whole; a statement the walk lets pass  *)
(* has no denied node, and one it approves is a capped SELECT over allowed *)
(* tables - whatever the deparser emitted, for it is looked at again.      *)
(***************************************************************************)
LEMMA WholeReply ==
  ASSUME NEW reply \in Replies, Llm!ReplyOutcome(reply) = "sql"
  PROVE  /\ reply.threw = "nothing" /\ ~reply.refusal
         /\ reply.finish \notin {"length", "max_tokens", "content_filter", "refusal"}
<1>1. Llm!Complete(reply) = "none"
  BY DEF Llm!ReplyOutcome
<1>2. Llm!Translate(reply.threw) # "none"
  BY DEF Llm!Translate
<1>3. CASE reply.via = "openai"
  BY <1>1, <1>2, <1>3, RepliesAssumption DEF Llm!Complete, Llm!OpenAI
<1>4. CASE reply.via # "openai"
  BY <1>1, <1>2, <1>4, RepliesAssumption DEF Llm!Complete, Llm!Anthropic
<1>. QED  BY <1>3, <1>4

LEMMA WalkPasses ==
  ASSUME NEW nodes \in Seq(Nodes), Guard!Walk(nodes) = "none"
  PROVE  \A n \in DOMAIN nodes : nodes[n].is \in {"plain", "cte", "table"}
<1> DEFINE denied == {n \in DOMAIN nodes : Guard!NodeDenial(nodes[n]) # "none"}
<1>1. denied \in SUBSET Nat /\ \A n \in DOMAIN nodes : nodes[n] \in Nodes
  OBVIOUS
<1>2. denied # {} => \E n \in denied : \A m \in denied : n <= m
  <2> HIDE DEF denied
  <2>. QED  BY <1>1, Least
<1>3. denied = {}
  <2> SUFFICES ASSUME denied # {} PROVE FALSE
    OBVIOUS
  <2> DEFINE first == CHOOSE n \in denied : \A m \in denied : n <= m
  <2>1. first \in denied
    BY <1>2
  <2>2. Guard!NodeDenial(nodes[first]) = "none"
    BY DEF Guard!Walk
  <2>. QED  BY <2>1, <2>2
<1>4. \A n \in DOMAIN nodes : Guard!NodeDenial(nodes[n]) = "none"
  BY <1>3
<1>5. \A is \in {"tag", "field", "call", "deep"} : \A node \in Nodes : node.is = is => Guard!NodeDenial(node) # "none"
  BY DEF Guard!NodeDenial
<1>. QED  BY <1>1, <1>4, <1>5 DEF Nodes

Vetted(text) ==
  LET stmt == text.stmts[1]
  IN  /\ ~text.nul /\ Len(text.stmts) = 1 /\ stmt.root = "SelectStmt"
      /\ \A node \in Range(stmt.nodes) : node.is \in {"plain", "cte", "table"}
      /\ Guard!Reads(stmt.nodes) \ Guard!CtesOf(stmt.nodes) \subseteq Policy.allowedTables

Readable(text) == text.nul \in BOOLEAN /\ (text.stmts = NoParse \/ text.stmts \in Seq(Statements))

LEMMA InspectPasses ==
  ASSUME NEW text, Readable(text), Guard!Inspect(text, Policy) = "none"
  PROVE  Vetted(text) /\ text.stmts \in Seq(Statements) /\ text.stmts[1] \in Statements
<1> DEFINE stmt == text.stmts[1]
<1>1. /\ ~text.nul /\ text.stmts # NoParse /\ text.stmts # <<>> /\ ~(Len(text.stmts) > 1)
      /\ stmt.root = "SelectStmt" /\ Guard!Walk(stmt.nodes) = "none"
      /\ Guard!ApplyPolicy(stmt.nodes, Policy) = "none"
  BY DEF Guard!Inspect, Readable
<1>2. text.stmts \in Seq(Statements) /\ Len(text.stmts) = 1 /\ stmt \in Statements
  <2>1. PICK stmts \in Seq(Statements) : stmts = text.stmts
    BY <1>1 DEF Readable
  <2>2. stmts # <<>> /\ ~(Len(stmts) > 1)
    BY <1>1, <2>1
  <2>3. Len(stmts) = 1 /\ stmts[1] \in Statements
    <3>1. Len(stmts) \in Nat /\ DOMAIN stmts = 1..Len(stmts)
      OBVIOUS
    <3>2. Len(stmts) # 0
      BY <2>2, <3>1
    <3>3. Len(stmts) = 1
      BY <2>2, <3>1, <3>2
    <3>4. 1 \in DOMAIN stmts
      BY <3>1, <3>3
    <3>. QED  BY <3>3, <3>4
  <2>. QED  BY <2>1, <2>3
<1>3. stmt.nodes \in Seq(Nodes)
  BY <1>2 DEF Statements
<1> HIDE DEF stmt
<1>4. \A node \in Range(stmt.nodes) : node.is \in {"plain", "cte", "table"}
  BY <1>1, <1>3, WalkPasses DEF Range
<1>5. Guard!Reads(stmt.nodes) \subseteq Guard!TablesOf(stmt.nodes)
  BY DEF Guard!Reads, Guard!TablesOf, Guard!Named
<1>6. Guard!TablesOf(stmt.nodes) \ Guard!CtesOf(stmt.nodes) \subseteq Policy.allowedTables
  BY <1>1 DEF Guard!ApplyPolicy
<1>7. Guard!Reads(stmt.nodes) \ Guard!CtesOf(stmt.nodes) \subseteq Policy.allowedTables
  BY <1>5, <1>6
<1>. QED  BY <1>1, <1>2, <1>4, <1>7 DEF Vetted, stmt

\* A deparser that is right emits a text like any other.
LEMMA EmittedIsReadable ==
  ASSUME NEW text \in Texts, NEW emitted \in Emitted(text), Guard!FirstVerdict(text, Policy) = "none"
  PROVE  Readable(emitted)
<1>1. Readable(text)
  BY TextsAssumption DEF Readable
<1>2. CASE emitted \in Emissions
  BY <1>2, TextsAssumption DEF Readable
<1>3. CASE emitted = Guard!Deparsed(text, Policy)
  <2>1. Guard!Inspect(text, Policy) = "none"
    BY DEF Guard!FirstVerdict
  <2>2. text.stmts[1] \in Statements
    BY <1>1, <2>1, InspectPasses
  <2>3. Guard!Capped(text.stmts[1], Policy.maxRows) \in Statements
    <3>1. [kind |-> "static", value |-> Policy.maxRows] \in [kind : {"none", "static", "dynamic"}, value : Int]
      BY TextsAssumption
    <3>. QED  BY <2>2, <3>1 DEF Guard!Capped, Statements
  <2> DEFINE capped == Guard!Capped(text.stmts[1], Policy.maxRows)
  <2>4. emitted = [nul |-> FALSE, stmts |-> <<capped>>]
    BY <1>3 DEF Guard!Deparsed
  <2> HIDE DEF capped
  <2>5. <<capped>> \in Seq(Statements)
    BY <2>3 DEF capped
  <2>. QED  BY <2>4, <2>5 DEF Readable
<1>. QED  BY <1>2, <1>3 DEF Emitted

LEMMA RunnableIsVetted ==
  ASSUME NEW statement \in Runnable
  PROVE  /\ statement.reply \in Replies /\ Llm!ReplyOutcome(statement.reply) = "sql"
         /\ Vetted(statement.runs)
         /\ statement.runs.stmts[1].limit.kind = "static"
         /\ statement.runs.stmts[1].limit.value <= Policy.maxRows
<1>1. PICK reply \in Writing, verdict \in Verdicts :
        statement = [reply |-> reply, runs |-> verdict.runs] /\ verdict.code = "none"
  BY DEF Runnable
<1>2. PICK text \in Texts : \E emitted \in Emitted(text) :
        verdict = [runs |-> emitted, code |-> Guard!GuardWith(text, emitted, Policy)]
  BY DEF Verdicts
<1>a. PICK emitted \in Emitted(text) :
        verdict = [runs |-> emitted, code |-> Guard!GuardWith(text, emitted, Policy)]
  BY <1>2
<1>3. statement.reply = reply /\ statement.runs = emitted /\ Guard!GuardWith(text, emitted, Policy) = "none"
  BY <1>1, <1>a
<1>4. Guard!FirstVerdict(text, Policy) = "none" /\ Guard!SecondVerdict(emitted, Policy) = "none"
  BY <1>3 DEF Guard!GuardWith
<1>5. Guard!Inspect(emitted, Policy) = "none" /\ emitted.stmts[1].limit.kind = "static"
      /\ ~(emitted.stmts[1].limit.value > Policy.maxRows)
  BY <1>4 DEF Guard!SecondVerdict
<1>6. Readable(emitted)
  BY <1>4, EmittedIsReadable
<1>7. Vetted(emitted) /\ emitted.stmts[1] \in Statements
  BY <1>5, <1>6, InspectPasses
<1>8. emitted.stmts[1].limit.value \in Int
  BY <1>7 DEF Statements
<1>9. emitted.stmts[1].limit.value <= Policy.maxRows
  BY <1>5, <1>8, TextsAssumption
<1>. QED  BY <1>3, <1>5, <1>7, <1>9 DEF Writing

-----------------------------------------------------------------------------
(***************************************************************************)
(* The glossary.  Keep keeps what it is told to: for every k up to its     *)
(* size, a finite set of numbers has a k-th.                               *)
(***************************************************************************)
UpTo(P, n) == {m \in P : m <= n}

LEMMA Ranked ==
  ASSUME NEW P \in SUBSET Nat, IsFiniteSet(P), NEW k \in 1..Cardinality(P)
  PROVE  \E n \in P : Cardinality(UpTo(P, n)) = k
<1> DEFINE Unranked == {j \in 1..Cardinality(P) : \A n \in P : Cardinality(UpTo(P, n)) # j}
<1>1. Cardinality(P) \in Nat
  BY FS_CardinalityType
<1>2. \A T \in SUBSET P : IsFiniteSet(T) /\ Cardinality(T) \in Nat
  BY FS_Subset, FS_CardinalityType
<1>3. SUFFICES ASSUME Unranked # {} PROVE FALSE
  OBVIOUS
<1>4. PICK j \in Unranked : \A m \in Unranked : j <= m
  <2>1. Unranked \in SUBSET Nat
    BY <1>1
  <2>. QED  BY <1>3, <2>1, Least
<1>5. j \in 1..Cardinality(P) /\ \A n \in P : Cardinality(UpTo(P, n)) # j
  OBVIOUS
\* Below the j-th lie the j - 1 that are ranked before it.
<1>6. PICK T \in SUBSET P : Cardinality(T) = j - 1 /\ \A m \in T, n \in P \ T : m <= n
  <2>1. CASE j = 1
    <3>1. Cardinality({}) = 0
      BY FS_EmptySet
    <3>. QED  BY <2>1, <3>1
  <2>2. CASE j # 1
    <3>1. j - 1 \in 1..Cardinality(P) /\ ~(j - 1 \in Unranked)
      BY <1>1, <1>4, <1>5, <2>2
    <3>2. PICK n \in P : Cardinality(UpTo(P, n)) = j - 1
      BY <3>1
    <3>3. UpTo(P, n) \in SUBSET P /\ \A m \in UpTo(P, n), l \in P \ UpTo(P, n) : m <= l
      BY DEF UpTo
    <3>. QED  BY <3>2, <3>3
  <2>. QED  BY <2>1, <2>2
<1>7. P \ T # {}
  <2>1. ~(Cardinality(P) = j - 1)
    BY <1>1, <1>5
  <2>2. P \ T = {} => T = P
    OBVIOUS
  <2>. QED  BY <1>6, <2>1, <2>2
<1>8. PICK n \in P \ T : \A m \in P \ T : n <= m
  <2>1. P \ T \in SUBSET Nat
    OBVIOUS
  <2>. QED  BY <1>7, <2>1, Least
<1>9. UpTo(P, n) = T \union {n}
  <2>1. \A m \in P : m \in Nat
    OBVIOUS
  <2>2. \A m \in P : m <= n /\ n <= m => m = n
    BY <2>1
  <2>3. n <= n
    BY <2>1
  <2>. QED  BY <1>6, <1>8, <2>2, <2>3 DEF UpTo
<1>10. Cardinality(UpTo(P, n)) = j
  <2>1. Cardinality(T \union {n}) = Cardinality(T) + 1
    BY <1>2, <1>8, FS_AddElement
  <2>. QED  BY <1>5, <1>6, <1>9, <2>1
<1>. QED  BY <1>5, <1>8, <1>10

\* The instance counts as the library does.
LEMMA SameCount == \A S : G!Cardinality(S) = Cardinality(S)
  BY DEF G!Cardinality, Cardinality, G!ExistsBijection, ExistsBijection, G!Bijection, Bijection, G!Injection, Injection,
     G!Surjection, Surjection, G!IsInjective, IsInjective

LEMMA Kept ==
  ASSUME NEW S, NEW entries \in Seq(S), NEW kept \in SUBSET DOMAIN entries
  PROVE  /\ G!Keep(entries, kept) \in Seq(S)
         /\ \A n \in DOMAIN G!Keep(entries, kept) : \E i \in kept : G!Keep(entries, kept)[n] = entries[i]
<1> DEFINE nth(n) == CHOOSE i \in kept : G!Cardinality({j \in kept : j <= i}) = n
<1>1. Len(entries) \in Nat /\ DOMAIN entries = 1..Len(entries)
  OBVIOUS
<1>2. IsFiniteSet(kept) /\ Cardinality(kept) \in Nat
  <2>1. IsFiniteSet(1..Len(entries))
    BY <1>1, FS_Interval
  <2>. QED  BY <1>1, <2>1, FS_Subset, FS_CardinalityType
<1>3. kept \in SUBSET Nat
  BY <1>1
<1>4. ASSUME NEW n \in 1..Cardinality(kept) PROVE nth(n) \in kept
  <2>1. PICK i \in kept : Cardinality({j \in kept : j <= i}) = n
    BY <1>2, <1>3, Ranked DEF UpTo
  <2>2. G!Cardinality({j \in kept : j <= i}) = n
    BY <2>1, SameCount
  <2>. QED  BY <2>2
<1>5. G!Keep(entries, kept) = [n \in 1..Cardinality(kept) |-> entries[nth(n)]]
  <2>1. G!Keep(entries, kept) = [n \in 1..G!Cardinality(kept) |-> entries[nth(n)]]
    BY DEF G!Keep
  <2> HIDE DEF nth
  <2>. QED  BY <2>1, SameCount
<1> HIDE DEF nth
<1>6. \A n \in 1..Cardinality(kept) : entries[nth(n)] \in S
  BY <1>1, <1>4
<1>. QED  BY <1>2, <1>4, <1>5, <1>6

\* A phrase is indexed under an entry that has it.
Indexed(glossary) ==
  \A phrase \in DOMAIN glossary.byPhrase :
    /\ glossary.byPhrase[phrase] \in DOMAIN glossary.entries
    /\ phrase \in Range(glossary.entries[glossary.byPhrase[phrase]].forms)

LEMMA DefinedIsIndexed ==
  ASSUME NEW S, NEW entries \in Seq(S)
  PROVE  Indexed(G!DefineGlossary(entries)) /\ G!DefineGlossary(entries).entries = entries
<1> DEFINE glossary == G!DefineGlossary(entries)
<1>1. glossary.entries = entries
      /\ glossary.byPhrase = [phrase \in G!Phrases(entries) |-> G!FirstClaim(entries, phrase)]
  BY DEF G!DefineGlossary
<1> HIDE DEF glossary
<1>2. ASSUME NEW phrase \in G!Phrases(entries)
      PROVE  G!FirstClaim(entries, phrase) \in DOMAIN entries
             /\ phrase \in Range(entries[G!FirstClaim(entries, phrase)].forms)
  <2> DEFINE claims == {i \in DOMAIN entries : phrase \in G!Range(entries[i].forms)}
  <2>1. claims # {}
    BY DEF G!Phrases
  <2>2. claims \in SUBSET Nat
    OBVIOUS
  <2>3. PICK n \in claims : \A m \in claims : n <= m
    <3> HIDE DEF claims
    <3>. QED  BY <2>1, <2>2, Least
  <2>4. \A j \in 1..(n - 1) : j \in DOMAIN entries /\ ~(n <= j)
    OBVIOUS
  <2>5. \A j \in 1..(n - 1) : phrase \notin G!Range(entries[j].forms)
    BY <2>3, <2>4
  <2>6. \E i \in DOMAIN entries :
          /\ phrase \in G!Range(entries[i].forms)
          /\ \A j \in 1..(i - 1) : phrase \notin G!Range(entries[j].forms)
    BY <2>5
  <2>7. G!FirstClaim(entries, phrase) \in DOMAIN entries
        /\ phrase \in G!Range(entries[G!FirstClaim(entries, phrase)].forms)
    BY <2>6 DEF G!FirstClaim
  <2>. QED  BY <2>7 DEF G!Range, Range
<1>. QED  BY <1>1, <1>2 DEF Indexed, glossary

(***************************************************************************)
(* What GlossaryFits says of a prompt, of a glossary and a schema.         *)
(***************************************************************************)
EntryFits(entry, schema) ==
  /\ \A ref \in Range(entry.refs) :
       \E t \in schema.tables :
         /\ ref.columns \subseteq t.holds
         /\ {u \in schema.tables : u.called = ref.table} = {t}
  /\ entry.sql # NoFragment => entry.refs # <<>> /\ ~entry.sql.unsafe

LEMMA UnbrokenFits ==
  ASSUME NEW schema \in Schemas, NEW i \in DOMAIN Entries, i \notin G!Broken(Host, schema)
  PROVE  EntryFits(Entries[i], schema)
<1> DEFINE entry == Entries[i]
<1>1. Host.entries = Entries
  BY GlossaryAssumption, DefinedIsIndexed DEF Host
<1>2. G!EntryIssues(Host, i, schema) \cap G!Errors = {}
  BY <1>1 DEF G!Broken
<1>3. /\ \A ref \in G!Range(entry.refs) : G!RefIssues(ref, schema) \cap G!Errors = {}
      /\ G!SqlIssues(entry, G!Unambiguous(entry, schema)) \cap G!Errors = {}
  <2>1. G!EntryIssues(Host, i, schema) =
          G!TermIssues(Host, i)
            \union (UNION {G!RefIssues(ref, schema) : ref \in G!Range(entry.refs)})
            \union G!SqlIssues(entry, G!Unambiguous(entry, schema))
    BY <1>1 DEF G!EntryIssues
  <2>2. \A ref \in G!Range(entry.refs) :
          G!RefIssues(ref, schema) \in {G!RefIssues(r, schema) : r \in G!Range(entry.refs)}
    OBVIOUS
  <2>3. \A ref \in G!Range(entry.refs) : G!RefIssues(ref, schema) \subseteq G!EntryIssues(Host, i, schema)
    BY <2>1, <2>2
  <2>4. G!SqlIssues(entry, G!Unambiguous(entry, schema)) \subseteq G!EntryIssues(Host, i, schema)
    BY <2>1
  <2>5. \A S : S \subseteq G!EntryIssues(Host, i, schema) => S \cap G!Errors = {}
    BY <1>2
  <2>. QED  BY <2>3, <2>4, <2>5
<1> HIDE DEF entry
<1>4. ASSUME NEW ref \in Range(entry.refs)
      PROVE  \E t \in schema.tables :
               /\ ref.columns \subseteq t.holds
               /\ {u \in schema.tables : u.called = ref.table} = {t}
  <2> DEFINE found == G!Found(ref, schema.tables)
  <2>1. found = {u \in schema.tables : u.called = ref.table}
    BY DEF G!Found
  <2>2. G!RefIssues(ref, schema) \cap G!Errors = {}
    BY <1>3 DEF G!Range, Range
  <2>3. found # {}
    BY <2>2 DEF G!RefIssues, G!Errors
  <2>4. ~(Cardinality(found) > 1)
    BY <2>2, <2>3, SameCount DEF G!RefIssues, G!Errors
  <2>5. \A t \in found : ref.columns \subseteq t.holds
    BY <2>2, <2>3, <2>4, SameCount DEF G!RefIssues, G!Errors
  <2>6. IsFiniteSet(found)
    BY <2>1, SchemasAssumption, FS_Subset
  <2> HIDE DEF found
  <2>7. Cardinality(found) \in Nat /\ Cardinality(found) # 0
    BY <2>3, <2>6, FS_CardinalityType, FS_EmptySet
  <2>8. Cardinality(found) = 1
    BY <2>4, <2>7
  <2>9. PICK t : found = {t}
    BY <2>6, <2>8, FS_Singleton
  <2>. QED  BY <2>1, <2>5, <2>9
<1>5. ASSUME entry.sql # NoFragment PROVE entry.refs # <<>> /\ ~entry.sql.unsafe
  BY <1>3, <1>5 DEF G!SqlIssues, G!FragmentIssues, G!Errors
<1>. QED  BY <1>4, <1>5 DEF EntryFits, entry

LEMMA VettedFits ==
  ASSUME NEW schema \in Schemas
  PROVE  /\ Indexed(G!Vetted(Host, schema))
         /\ \A n \in DOMAIN G!Vetted(Host, schema).entries : EntryFits(G!Vetted(Host, schema).entries[n], schema)
<1> DEFINE kept == DOMAIN Entries \ G!Broken(Host, schema)
           left == G!Keep(Entries, kept)
<1>1. Entries \in Seq(Range(Entries)) /\ Host.entries = Entries /\ Indexed(Host)
  BY GlossaryAssumption, DefinedIsIndexed DEF Host
<1>2. CASE G!Broken(Host, schema) = {}
  <2>1. G!Vetted(Host, schema) = Host
    BY <1>2 DEF G!Vetted
  <2>. QED  BY <1>1, <1>2, <2>1, UnbrokenFits
<1>3. CASE G!Broken(Host, schema) # {}
  <2>1. G!Vetted(Host, schema) = G!DefineGlossary(left)
    BY <1>1, <1>3 DEF G!Vetted
  <2>2. left \in Seq(Range(Entries)) /\ \A n \in DOMAIN left : \E i \in kept : left[n] = Entries[i]
    <3>1. kept \in SUBSET DOMAIN Entries
      OBVIOUS
    <3> HIDE DEF kept
    <3>. QED  BY <1>1, <3>1, Kept
  <2> HIDE DEF left
  <2>3. Indexed(G!DefineGlossary(left)) /\ G!DefineGlossary(left).entries = left
    BY <2>2, DefinedIsIndexed
  <2>. QED  BY <2>1, <2>2, <2>3, UnbrokenFits
<1>. QED  BY <1>2, <1>3

-----------------------------------------------------------------------------
(***************************************************************************)
(* The gate.  What it holds was vetted against a load that ended well, and *)
(* such a load stays as it ended; a question waits on a load there is.     *)
(***************************************************************************)
VettedInv ==
  /\ against \in {0} \union DOMAIN loads
  /\ against # 0 => loads[against].status = "ok" /\ vetted = G!Vetted(Host, loads[against].schema)
  /\ \A l \in DOMAIN loads : loads[l].status = "ok" => loads[l].schema \in Schemas
  /\ waits \in [Questions -> {0} \union DOMAIN loads]

LEMMA VettedStays ==
  ASSUME VettedInv, UNCHANGED <<loads, against, vetted>>, waits' \in [Questions -> {0} \union DOMAIN loads]
  PROVE  VettedInv'
BY DEF VettedInv

\* A load is added to those there are, and ended well by none.
LEMMA CallAdds ==
  ASSUME LoadsInv, Call
  PROVE  /\ DOMAIN loads \subseteq DOMAIN loads' /\ Awaited \in DOMAIN loads'
         /\ \A l \in DOMAIN loads : loads'[l] = loads[l]
         /\ \A l \in DOMAIN loads' \ DOMAIN loads : loads'[l].status = "pending"
         /\ UNCHANGED <<against, vetted>>
<1>1. loads \in Seq(Load) /\ cached \in 0..Len(loads)
  BY DEF LoadsInv, LoadTypes
<1>2. CASE Fresh /\ UNCHANGED runtimeVars
  <2>1. cached \in DOMAIN loads
    BY <1>1, <1>2 DEF Fresh
  <2>. QED  BY <1>2, <2>1 DEF Awaited, runtimeVars
<1>3. CASE Start
  <2> DEFINE new == [at |-> now, status |-> "pending", schema |-> NoSchema, seen |-> failures]
  <2>1. loads' = Append(loads, new) /\ ~Fresh /\ UNCHANGED <<against, vetted>>
    BY <1>3 DEF Start
  <2>2. new.status = "pending"
    OBVIOUS
  <2> HIDE DEF new
  <2>3. /\ Len(loads') = Len(loads) + 1 /\ DOMAIN loads' = 1..(Len(loads) + 1)
        /\ DOMAIN loads = 1..Len(loads) /\ Len(loads) \in Nat
        /\ loads'[Len(loads) + 1] = new
        /\ \A l \in DOMAIN loads : loads'[l] = loads[l]
    BY <1>1, <2>1
  <2>4. \A l \in DOMAIN loads' \ DOMAIN loads : l = Len(loads) + 1
    BY <2>3
  <2>. QED  BY <2>1, <2>2, <2>3, <2>4 DEF Awaited
<1>. QED  BY <1>2, <1>3 DEF Call

LEMMA VettedCall ==
  ASSUME LoadsInv, VettedInv, Call, waits' \in [Questions -> {0} \union DOMAIN loads']
  PROVE  VettedInv'
BY CallAdds DEF VettedInv

LEMMA VettedSettle ==
  ASSUME LoadsInv, VettedInv, NEW l \in DOMAIN loads, LoadEnds(l) \/ LoadFails(l), waits' = waits
  PROVE  VettedInv'
<1>1. loads \in Seq(Load) /\ loads[l].status = "pending" /\ UNCHANGED <<against, vetted>>
  BY DEF LoadsInv, LoadTypes, LoadEnds, LoadFails
<1>2. \A m \in DOMAIN loads : loads[m] \in Load
  BY <1>1
<1>3. DOMAIN loads' = DOMAIN loads /\ \A m \in DOMAIN loads \ {l} : loads'[m] = loads[m]
  BY <1>1 DEF LoadEnds, LoadFails
<1>4. loads'[l].status = "ok" => loads'[l].schema \in Schemas
  <2>1. CASE LoadEnds(l)
    <3>1. PICK s \in Schemas : loads' = [loads EXCEPT ![l].status = "ok", ![l].schema = s]
      BY <2>1 DEF LoadEnds
    <3>2. loads'[l].schema = s
      BY <1>2, <3>1 DEF Load
    <3>. QED  BY <3>2
  <2>2. CASE LoadFails(l)
    <3>1. loads'[l].status = "failed"
      BY <1>2, <2>2 DEF LoadFails, Load
    <3>. QED  BY <3>1
  <2>. QED  BY <2>1, <2>2
<1>5. against # l
  BY <1>1 DEF VettedInv
<1>. QED  BY <1>1, <1>3, <1>4, <1>5 DEF VettedInv

\* Whatever the gate held, after use or check it fits the schema it was given.
LEMMA VetVets ==
  ASSUME VettedInv, NEW l \in DOMAIN loads, loads[l].status = "ok", l # 0, Vet(l)
  PROVE  vetted' = G!Vetted(Host, loads[l].schema) /\ against' = l
BY DEF Vet, VettedInv

LEMMA VettedVet ==
  ASSUME VettedInv, NEW l \in DOMAIN loads, loads[l].status = "ok", l # 0, Vet(l), UNCHANGED <<loads, waits>>
  PROVE  VettedInv'
BY VetVets DEF VettedInv

LEMMA VettedNext == LoadsInv /\ VettedInv /\ [NextPath]_pathVars => VettedInv'
<1> SUFFICES ASSUME LoadsInv, VettedInv, [NextPath]_pathVars PROVE VettedInv'
  OBVIOUS
<1>1. DOMAIN loads \in SUBSET (Nat \ {0}) /\ waits \in [Questions -> {0} \union DOMAIN loads]
  <2>1. loads \in Seq(Load)
    BY DEF LoadsInv, LoadTypes
  <2>2. DOMAIN loads = 1..Len(loads) /\ Len(loads) \in Nat
    BY <2>1
  <2>. QED  BY <2>2 DEF VettedInv
<1>2. CASE Elsewhere
  <2>1. CASE CreateRuntime \/ Tick
    BY <1>1, <1>2, <2>1, VettedStays DEF Elsewhere, CreateRuntime, Tick
  <2>2. CASE Call
    <3>1. waits' \in [Questions -> {0} \union DOMAIN loads']
      BY <1>1, <1>2, <2>2, CallAdds DEF Elsewhere
    <3>. QED  BY <2>2, <3>1, VettedCall
  <2>3. ASSUME NEW l \in DOMAIN loads, LoadEnds(l) \/ LoadFails(l) PROVE VettedInv'
    BY <1>2, <2>3, VettedSettle DEF Elsewhere
  <2>4. ASSUME NEW l \in DOMAIN loads, CheckGlossary(l) PROVE VettedInv'
    BY <1>1, <1>2, <2>4, VettedVet DEF Elsewhere, CheckGlossary
  <2>. QED  BY <1>2, <2>1, <2>2, <2>3, <2>4 DEF Elsewhere, NextRuntime
<1>3. ASSUME NEW q \in Questions, Arrives(q) \/ Leaves(q) PROVE VettedInv'
  <2>1. waits' = waits \/ waits' = [waits EXCEPT ![q] = 0]
    BY <1>3 DEF Arrives, MethodRefused, ScopeRefused, ResolverThrows, LimiterRefused, AdmittedAs, Leaves
  <2>2. waits' \in [Questions -> {0} \union DOMAIN loads]
    BY <1>1, <2>1
  <2>. QED  BY <1>3, <2>2, VettedStays DEF Arrives, MethodRefused, ScopeRefused, ResolverThrows, LimiterRefused,
            AdmittedAs, Leaves, runtimeVars
<1>4. ASSUME NEW q \in Questions, Serve(q) PROVE VettedInv'
  <2>1. CASE AsksForSchema(q)
    <3>1. Call /\ waits' = [waits EXCEPT ![q] = Awaited]
      BY <2>1 DEF AsksForSchema
    <3>2. DOMAIN loads \subseteq DOMAIN loads' /\ Awaited \in DOMAIN loads'
      BY <3>1, CallAdds
    <3>3. waits' \in [Questions -> {0} \union DOMAIN loads']
      BY <1>1, <3>1, <3>2
    <3>. QED  BY <3>1, <3>3, VettedCall
  <2>2. CASE LoaderThrows(q)
    <3>1. waits' = [waits EXCEPT ![q] = 0] /\ UNCHANGED runtimeVars
      BY <2>2 DEF LoaderThrows
    <3>2. waits' \in [Questions -> {0} \union DOMAIN loads]
      BY <1>1, <3>1
    <3>. QED  BY <3>1, <3>2, VettedStays DEF runtimeVars
  <2>3. CASE SchemaCame(q)
    <3>1. /\ waits[q] # 0 /\ loads[waits[q]].status = "ok" /\ Vet(waits[q])
          /\ UNCHANGED <<loads, waits>>
      BY <2>3 DEF SchemaCame
    <3>2. waits[q] \in DOMAIN loads
      BY <1>1, <3>1
    <3>. QED  BY <3>1, <3>2, VettedVet
  <2>4. CASE BodyBad(q) \/ NoSchemaCame(q) \/ ReplyWithoutSql(q) \/ StatementApproved(q)
    BY <1>1, <2>4, VettedStays DEF BodyBad, NoSchemaCame, ReplyWithoutSql, StatementApproved, runtimeVars
  <2>5. CASE StatementDenied(q) \/ Reads(q) \/ BreaksOff(q)
    BY <1>1, <2>5, VettedStays DEF StatementDenied, Reads, BreaksOff, runtimeVars
  <2>. QED  BY <1>4, <2>1, <2>2, <2>3, <2>4, <2>5 DEF Serve
<1>5. CASE UNCHANGED pathVars
  BY <1>1, <1>5, VettedStays DEF pathVars, runtimeVars
<1>. QED  BY <1>2, <1>3, <1>4, <1>5 DEF NextPath

-----------------------------------------------------------------------------
(***************************************************************************)
(* What a question has in hand, by the stage it is at and what it was      *)
(* answered: a token that was accepted or one that was not, a prompt made  *)
(* with the schema its glossary was vetted against, a statement that may   *)
(* run, or nothing.                                                        *)
(***************************************************************************)
Made(prompt) ==
  \E schema \in Schemas : \E asked \in Asked : prompt = Prompt(schema, G!Vetted(Host, schema), asked)

InHand(stage, what, said) ==
  /\ stage \in {"idle", "schema"} => what = NoWork
  /\ stage = "body" => what \in Presented /\ Id!ResolveScope(what, Verifier) = 200
  /\ stage = "answered" /\ what # NoWork =>
       /\ what \in Presented
       /\ Id!ResolveScope(what, Verifier) # 200 /\ said.status = Id!ResolveScope(what, Verifier)
  /\ stage = "model" => Made(what)
  /\ stage = "read" => what \in Runnable

WorkInv ==
  /\ work = [q \in Questions |-> work[q]]
  /\ \A q \in Questions : InHand(pc[q], work[q], answer[q])

\* A step of q gives it something in hand, or nothing, and leaves the others theirs.
LEMMA HandsOne ==
  ASSUME FlowInv, WorkInv, NEW q \in Questions, NEW stage, NEW what, NEW said,
         pc' = [pc EXCEPT ![q] = stage], work' = [work EXCEPT ![q] = what],
         answer' = [answer EXCEPT ![q] = said], InHand(stage, what, said)
  PROVE  WorkInv'
<1>1. /\ pc'[q] = stage /\ work'[q] = what /\ answer'[q] = said
      /\ \A r \in Questions \ {q} : pc'[r] = pc[r] /\ work'[r] = work[r] /\ answer'[r] = answer[r]
      /\ work' = [r \in Questions |-> work'[r]]
  BY DEF FlowInv, Types, WorkInv
<1>2. \A r \in Questions : InHand(pc'[r], work'[r], answer'[r])
  BY <1>1 DEF WorkInv
<1>. QED  BY <1>1, <1>2 DEF WorkInv

\* The question goes on, unanswered.
LEMMA HandsOn ==
  ASSUME FlowInv, WorkInv, NEW q \in Questions, NEW stage, NEW what,
         pc' = [pc EXCEPT ![q] = stage], Holds(q, what), answer' = answer, InHand(stage, what, answer[q])
  PROVE  WorkInv'
<1>1. answer' = [answer EXCEPT ![q] = answer[q]]
  BY DEF FlowInv
<1>. QED  BY <1>1, HandsOne DEF Holds

\* The question is answered and has nothing in hand.
LEMMA HandsNothing ==
  ASSUME FlowInv, WorkInv, NEW q \in Questions, NEW said, Answer(q, said), Holds(q, NoWork)
  PROVE  WorkInv'
<1>1. InHand("answered", NoWork, said)
  BY DEF InHand
<1>. QED  BY <1>1, HandsOne DEF Answer, Holds

LEMMA HandsAtArrival ==
  ASSUME FlowInv, WorkInv, NEW q \in Questions, Arrives(q)
  PROVE  WorkInv'
<1>1. CASE MethodRefused(q) \/ ResolverThrows(q) \/ LimiterRefused(q)
  <2>1. work' = work /\ Turned(q)
    BY <1>1 DEF MethodRefused, ResolverThrows, LimiterRefused
  <2>2. pc[q] = "idle" /\ \E status \in {401, 403, 405, 429, 500, 503} : Answer(q, Fixed(status, "error"))
    BY <2>1 DEF Turned
  <2>3. work[q] = NoWork /\ work = [work EXCEPT ![q] = work[q]]
    BY <2>2 DEF WorkInv, InHand
  <2>4. Holds(q, NoWork)
    BY <2>1, <2>3 DEF Holds
  <2>. QED  BY <2>2, <2>4, HandsNothing
<1>2. CASE ScopeRefused(q)
  <2>1. PICK token \in Presented :
          /\ Id!ResolveScope(token, Verifier) # 200
          /\ Turned(q) /\ answer'[q].status = Id!ResolveScope(token, Verifier)
          /\ Holds(q, token)
    BY <1>2 DEF ScopeRefused
  <2>2. PICK status \in {401, 403, 405, 429, 500, 503} : Answer(q, Fixed(status, "error"))
    BY <2>1 DEF Turned
  <2>3. answer'[q] = Fixed(status, "error")
    BY <2>2 DEF Answer, FlowInv
  <2>4. Fixed(status, "error").status = Id!ResolveScope(token, Verifier)
    BY <2>1, <2>3
  <2>5. InHand("answered", token, Fixed(status, "error"))
    BY <2>1, <2>4 DEF InHand
  <2>6. /\ pc' = [pc EXCEPT ![q] = "answered"] /\ answer' = [answer EXCEPT ![q] = Fixed(status, "error")]
        /\ work' = [work EXCEPT ![q] = token]
    BY <2>1, <2>2 DEF Answer, Holds
  <2>. QED  BY <2>5, <2>6, HandsOne, ZenonT(40)
<1>3. CASE AdmittedAs(q)
  <2>1. PICK token \in Presented : Id!ResolveScope(token, Verifier) = 200 /\ Admitted(q) /\ Holds(q, token)
    BY <1>3 DEF AdmittedAs
  <2>2. InHand("body", token, answer[q])
    BY <2>1 DEF InHand
  <2>3. pc' = [pc EXCEPT ![q] = "body"] /\ answer' = answer
    BY <2>1 DEF Admitted
  <2>4. Holds(q, token)
    BY <2>1
  <2>. QED  BY <2>2, <2>3, <2>4, HandsOn
<1>. QED  BY <1>1, <1>2, <1>3 DEF Arrives

LEMMA HandsPrompt ==
  ASSUME FlowInv, VettedInv, LoadsInv, WorkInv, NEW q \in Questions, SchemaCame(q)
  PROVE  WorkInv'
<1> DEFINE l == waits[q]
<1>1. /\ l # 0 /\ loads[l].status = "ok" /\ SchemaLoaded(q) /\ Vet(l)
      /\ \E asked \in Asked : Holds(q, Prompts[loads[l].schema][vetted'][asked])
  BY DEF SchemaCame
<1>2. l \in DOMAIN loads /\ loads[l].schema \in Schemas
  BY <1>1 DEF VettedInv
<1> HIDE DEF l
<1>3. vetted' = G!Vetted(Host, loads[l].schema)
  BY <1>1, <1>2, VetVets
<1>4. PICK asked \in Asked : Holds(q, Prompts[loads[l].schema][vetted'][asked])
  BY <1>1
<1>5. PICK schema \in Schemas : schema = loads[l].schema
  BY <1>2
<1>6. G!Vetted(Host, schema) \in {Host} \union {G!Vetted(Host, s) : s \in Schemas}
  OBVIOUS
<1>7. Prompts[schema][G!Vetted(Host, schema)][asked] = Prompt(schema, G!Vetted(Host, schema), asked)
  BY <1>6, Zenon DEF Prompts
<1>8. Holds(q, Prompt(schema, G!Vetted(Host, schema), asked))
  BY <1>3, <1>4, <1>5, <1>7
<1>9. InHand("model", Prompt(schema, G!Vetted(Host, schema), asked), answer[q])
  BY DEF InHand, Made
<1>. QED  BY <1>1, <1>8, <1>9, HandsOn DEF SchemaLoaded

LEMMA HandsInService ==
  ASSUME FlowInv, VettedInv, LoadsInv, WorkInv, NEW q \in Questions, Serve(q)
  PROVE  WorkInv'
<1>1. CASE BodyBad(q)
  BY <1>1, HandsNothing DEF BodyBad, BodyRefused
<1>2. CASE AsksForSchema(q) \/ LoaderThrows(q)
  <2>1. BodyRead(q) /\ Holds(q, NoWork)
    BY <1>2 DEF AsksForSchema, LoaderThrows
  <2>2. InHand("schema", NoWork, answer[q])
    BY DEF InHand
  <2>. QED  BY <2>1, <2>2, HandsOn DEF BodyRead
<1>3. CASE NoSchemaCame(q)
  <2>1. pc[q] = "schema" /\ Throws(q) /\ work' = work
    BY <1>3 DEF NoSchemaCame
  <2>2. work[q] = NoWork /\ work = [work EXCEPT ![q] = work[q]]
    BY <2>1 DEF WorkInv, InHand
  <2>3. Holds(q, NoWork)
    BY <2>1, <2>2 DEF Holds
  <2>. QED  BY <2>1, <2>3, HandsNothing DEF Throws
<1>4. CASE SchemaCame(q)
  BY <1>4, HandsPrompt
<1>5. CASE ReplyWithoutSql(q)
  BY <1>5, HandsNothing DEF ReplyWithoutSql, NoSql, Fails
<1>6. CASE StatementApproved(q)
  <2>1. PICK statement \in Runnable : Holds(q, statement)
    BY <1>6 DEF StatementApproved
  <2>2. InHand("read", statement, answer[q])
    BY DEF InHand
  <2>. QED  BY <1>6, <2>1, <2>2, HandsOn DEF StatementApproved, Approved
<1>7. CASE StatementDenied(q)
  <2>1. CASE Repair(q) /\ work' = work
    BY <2>1 DEF Repair, WorkInv
  <2>2. ASSUME NEW o, Fails(q, o), Holds(q, NoWork) PROVE WorkInv'
    BY <2>2, HandsNothing DEF Fails
  <2>. QED  BY <1>7, <2>1, <2>2 DEF StatementDenied, Attack, GivesUp
<1>8. CASE Reads(q)
  BY <1>8, HandsNothing DEF Reads, ReadReturns, Throws
<1>9. CASE BreaksOff(q)
  BY <1>9, HandsNothing DEF BreaksOff, Throws
<1>. QED  BY <1>1, <1>2, <1>3, <1>4, <1>5, <1>6, <1>7, <1>8, <1>9 DEF Serve

LEMMA WorkNext ==
  FlowInv /\ LoadsInv /\ VettedInv /\ WorkInv /\ [NextPath]_pathVars => WorkInv'
<1> SUFFICES ASSUME FlowInv, LoadsInv, VettedInv, WorkInv, [NextPath]_pathVars PROVE WorkInv'
  OBVIOUS
<1>1. CASE Elsewhere \/ UNCHANGED pathVars
  <2>1. UNCHANGED <<pc, answer, work>>
    BY <1>1 DEF Elsewhere, vars, pathVars
  <2>. QED  BY <2>1 DEF WorkInv
<1>2. ASSUME NEW q \in Questions, Leaves(q) PROVE WorkInv'
  <2>1. InHand("idle", NoWork, NoAnswer)
    BY DEF InHand
  <2>. QED  BY <1>2, <2>1, HandsOne DEF Leaves, Forget, Holds
<1>. QED  BY <1>1, <1>2, HandsAtArrival, HandsInService DEF NextPath

PathInv == FlowInv /\ LoadsInv /\ VettedInv /\ WorkInv

LEMMA PathStarts == InitPath => PathInv
<1> SUFFICES ASSUME InitPath PROVE PathInv
  OBVIOUS
<1>1. FlowInv
  BY Initial DEF InitPath
<1>2. LoadsInv
  BY DEF InitPath, InitRuntime, LoadsInv, LoadTypes, InOrder, OneLoadPerTtl
<1>3. VettedInv
  BY DEF InitPath, InitRuntime, VettedInv
<1>4. WorkInv
  <2>1. \A said : InHand("idle", NoWork, said)
    BY DEF InHand
  <2>. QED  BY <2>1 DEF InitPath, Init, WorkInv
<1>. QED  BY <1>1, <1>2, <1>3, <1>4 DEF PathInv

LEMMA PathFlows == FlowInv /\ [NextPath]_pathVars => FlowInv'
<1>1. [NextPath]_pathVars => [Next]_vars
  BY ArrivalIsOne, ServiceIsOne DEF NextPath, Elsewhere, Leaves, pathVars, Next
<1>. QED  BY <1>1, Inductive

LEMMA PathHolds == PathSpec => []PathInv
<1>1. PathInv /\ [NextPath]_pathVars => PathInv'
  BY PathFlows, LoadsNext, VettedNext, WorkNext DEF PathInv
<1>. QED  BY <1>1, PathStarts, PTL DEF PathSpec

(***************************************************************************)
(* A refusal is a 401 for a token that does not stand, a 403 for one that  *)
(* does not carry the settings, and nobody else is let in: whatever the    *)
(* algorithms, the required claims and the mapped ones are.                *)
(***************************************************************************)
THEOREM StatusIsTheFault == PathSpec => []StatusNamesTheFault
<1>1. ASSUME PathInv, NEW q \in Questions
      PROVE  /\ pc[q] = "body" => Stands(work[q]) /\ Carries(work[q])
             /\ pc[q] = "answered" /\ work[q] # NoWork => answer[q].status = IF Stands(work[q]) THEN 403 ELSE 401
  <2>1. InHand(pc[q], work[q], answer[q])
    BY <1>1 DEF PathInv, WorkInv
  <2>2. CASE pc[q] = "body"
    <3>1. work[q] \in Presented /\ Id!ResolveScope(work[q], Verifier) = 200
      BY <2>1, <2>2 DEF InHand
    <3>. QED  BY <2>2, <3>1, ScopeDecides
  <2>3. CASE pc[q] = "answered" /\ work[q] # NoWork
    <3>1. work[q] \in Presented /\ Id!ResolveScope(work[q], Verifier) # 200
          /\ answer[q].status = Id!ResolveScope(work[q], Verifier)
      BY <2>1, <2>3 DEF InHand
    <3>. QED  BY <2>3, <3>1, ScopeDecides
  <2>. QED  BY <2>2, <2>3
<1>2. PathInv => StatusNamesTheFault
  BY <1>1 DEF StatusNamesTheFault
<1>. QED  BY <1>2, PathHolds, PTL

(***************************************************************************)
(* What reaches the database came of a whole reply and is one capped       *)
(* SELECT, for every set of replies, statements and emissions of the       *)
(* deparser: the guard looks at what will be run.  Whatever it reads under *)
(* a name that no CTE of it bears is an allowed table.                     *)
(***************************************************************************)
THEOREM VettedRuns == PathSpec => []OnlyVettedRuns
<1>1. ASSUME PathInv, NEW q \in Questions, pc[q] = "read" PROVE work[q] \in Runnable
  BY <1>1 DEF PathInv, WorkInv, InHand
<1>2. ASSUME NEW statement \in Runnable
      PROVE  /\ statement.reply.threw = "nothing" /\ ~statement.reply.refusal
             /\ statement.reply.finish \notin {"length", "max_tokens", "content_filter", "refusal"}
             /\ Vetted(statement.runs)
             /\ statement.runs.stmts[1].limit.kind = "static"
             /\ statement.runs.stmts[1].limit.value <= Policy.maxRows
  BY RunnableIsVetted, WholeReply
<1>3. PathInv => OnlyVettedRuns
  BY <1>1, <1>2 DEF OnlyVettedRuns, Vetted
<1>. QED  BY <1>3, PathHolds, PTL

(***************************************************************************)
(* However questions and loads interleave, the glossary in a prompt fits   *)
(* the schema in that prompt: no question is answered with what another    *)
(* one's schema left of the glossary.                                      *)
(***************************************************************************)
THEOREM FittingGlossary == PathSpec => []GlossaryFits
<1>1. ASSUME PathInv, NEW q \in Questions, pc[q] = "model"
      PROVE  /\ \A i \in DOMAIN work[q].glossary.entries : EntryFits(work[q].glossary.entries[i], work[q].schema)
             /\ Indexed(work[q].glossary)
  <2>1. Made(work[q])
    BY <1>1 DEF PathInv, WorkInv, InHand
  <2>2. PICK schema \in Schemas : \E asked \in Asked : work[q] = Prompt(schema, G!Vetted(Host, schema), asked)
    BY <2>1 DEF Made
  <2>3. work[q].glossary = G!Vetted(Host, schema) /\ work[q].schema = schema
    BY <2>2 DEF Prompt
  <2>. QED  BY <2>3, VettedFits
<1>2. PathInv => GlossaryFits
  BY <1>1 DEF GlossaryFits, EntryFits, Indexed
<1>. QED  BY <1>2, PathHolds, PTL

-----------------------------------------------------------------------------
\* A finite list of numbers has a bound.
LEMMA Bounded ==
  ASSUME NEW n \in Nat, NEW f \in [1..n -> Nat]
  PROVE  \E b \in Nat : \A i \in 1..n : f[i] <= b
<1> DEFINE bounds(k) == {b \in Nat : \A i \in 1..k : f[i] <= b}
           failing == {k \in 0..n : bounds(k) = {}}
<1>1. n \in 0..n
  OBVIOUS
<1>2. SUFFICES ASSUME failing # {} PROVE FALSE
  BY <1>1
<1>3. PICK k \in failing : \A m \in failing : k <= m
  <2>1. failing \in SUBSET Nat
    OBVIOUS
  <2> HIDE DEF failing
  <2>. QED  BY <1>2, <2>1, Least
<1>4. 0 \notin failing
  <2>1. 0 \in bounds(0)
    OBVIOUS
  <2>. QED  BY <2>1
<1>5. k \in 1..n /\ k - 1 \in 0..n /\ ~(k <= k - 1)
  BY <1>3, <1>4
<1>6. PICK b \in Nat : \A i \in 1..(k - 1) : f[i] <= b
  <2>1. k - 1 \notin failing
    BY <1>3, <1>5
  <2>. QED  BY <1>5, <2>1
<1>7. b + f[k] \in bounds(k)
  <2>1. f[k] \in Nat
    BY <1>5
  <2>2. ASSUME NEW i \in 1..k PROVE f[i] <= b + f[k]
    <3>1. CASE i = k
      BY <2>1, <3>1
    <3>2. CASE i # k
      <4>1. i \in 1..(k - 1) /\ f[i] \in Nat
        BY <1>5, <3>2
      <4>. QED  BY <1>6, <2>1, <4>1
    <3>. QED  BY <3>1, <3>2
  <2>. QED  BY <2>1, <2>2
<1>. QED  BY <1>3, <1>7

LEMMA Greatest ==
  ASSUME NEW N \in Nat, NEW S \in SUBSET (0..N), S # {}
  PROVE  \E n \in S : \A m \in S : n >= m
<1> DEFINE below == {k \in 0..N : N - k \in S}
<1>1. PICK s \in S : TRUE
  OBVIOUS
<1>2. N - s \in below
  <2>1. s \in Nat /\ s <= N /\ N - (N - s) = s
    OBVIOUS
  <2>. QED  BY <2>1
<1>3. PICK k \in below : \A m \in below : k <= m
  <2>1. below \in SUBSET Nat
    OBVIOUS
  <2> HIDE DEF below
  <2>. QED  BY <1>2, <2>1, Least
<1>4. ASSUME NEW m \in S PROVE N - k >= m
  <2>1. m \in Nat /\ m <= N /\ N - (N - m) = m /\ k \in Nat
    OBVIOUS
  <2>2. N - m \in below
    BY <2>1
  <2>3. k <= N - m
    BY <1>3, <2>2
  <2> HIDE DEF below
  <2>. QED  BY <2>1, <2>3
<1>. QED  BY <1>3, <1>4

\* What holds of a place when it holds of all that come after it holds of every place.
LEMMA Backwards ==
  ASSUME NEW N \in Nat, NEW S \in SUBSET (1..N),
         \A i \in 1..N : (\A j \in (i + 1)..N : j \in S) => i \in S
  PROVE  S = 1..N
<1> DEFINE left == (1..N) \ S
<1> SUFFICES ASSUME left # {} PROVE FALSE
  OBVIOUS
<1>1. PICK i \in left : \A j \in left : i >= j
  <2>1. left \in SUBSET (0..N)
    OBVIOUS
  <2> HIDE DEF left
  <2>. QED  BY <2>1, Greatest
<1>2. \A j \in (i + 1)..N : j \in 1..N /\ ~(i >= j)
  OBVIOUS
<1>3. \A j \in (i + 1)..N : j \in S
  BY <1>1, <1>2
<1>. QED  BY <1>1, <1>3

(***************************************************************************)
(* What is indexed is a phrase, and none is longer than the longest.       *)
(***************************************************************************)
Measured(glossary) ==
  /\ glossary.longest \in Nat
  /\ \A phrase \in DOMAIN glossary.byPhrase :
       phrase \in Seq(STRING) /\ phrase # <<>> /\ Len(phrase) <= glossary.longest

LEMMA DefinedIsMeasured ==
  ASSUME NEW S, NEW entries \in Seq(S), \A i \in DOMAIN entries : entries[i].forms \in Seq(Seq(STRING))
  PROVE  Measured(G!DefineGlossary(entries))
<1> DEFINE lengths == {0} \union {Len(phrase) : phrase \in G!Phrases(entries)}
           glossary == G!DefineGlossary(entries)
<1>1. /\ glossary.longest = G!Max(lengths) /\ DOMAIN glossary.byPhrase = G!Phrases(entries)
  BY DEF G!DefineGlossary
<1> HIDE DEF glossary
<1>2. G!Phrases(entries) = (UNION {G!Range(entries[i].forms) : i \in DOMAIN entries}) \ {<<>>}
  BY DEF G!Phrases
<1>3. ASSUME NEW phrase \in G!Phrases(entries)
      PROVE  /\ phrase \in Seq(STRING) /\ phrase # <<>> /\ Len(phrase) \in Nat
             /\ \E i \in DOMAIN entries : \E n \in DOMAIN entries[i].forms : phrase = entries[i].forms[n]
  <2>1. PICK i \in DOMAIN entries : phrase \in G!Range(entries[i].forms)
    BY <1>2
  <2>2. PICK n \in DOMAIN entries[i].forms : phrase = entries[i].forms[n]
    BY <2>1 DEF G!Range
  <2>3. PICK forms \in Seq(Seq(STRING)) : forms = entries[i].forms
    OBVIOUS
  <2>4. phrase \in Seq(STRING)
    <3>1. n \in DOMAIN forms /\ phrase = forms[n]
      BY <2>2, <2>3
    <3>. QED  BY <3>1
  <2>5. Len(phrase) \in Nat
    BY <2>4
  <2>6. phrase # <<>>
    BY <1>2
  <2>7. \E m \in DOMAIN entries[i].forms : phrase = entries[i].forms[m]
    BY <2>2
  <2>. QED  BY <2>4, <2>5, <2>6, <2>7
<1>4. ASSUME NEW i \in DOMAIN entries
      PROVE  \E b \in Nat : \A n \in DOMAIN entries[i].forms : Len(entries[i].forms[n]) <= b
  <2>1. PICK forms \in Seq(Seq(STRING)) : forms = entries[i].forms
    OBVIOUS
  <2>2. Len(forms) \in Nat /\ DOMAIN forms = 1..Len(forms) /\ \A n \in 1..Len(forms) : Len(forms[n]) \in Nat
    <3>1. \A n \in 1..Len(forms) : forms[n] \in Seq(STRING)
      OBVIOUS
    <3>. QED  BY <3>1
  <2> DEFINE f == [n \in 1..Len(forms) |-> Len(forms[n])]
  <2>3. f \in [1..Len(forms) -> Nat]
    BY <2>2
  <2>4. PICK b \in Nat : \A n \in 1..Len(forms) : f[n] <= b
    <3> HIDE DEF f
    <3>. QED  BY <2>2, <2>3, Bounded
  <2>. QED  BY <2>1, <2>2, <2>4
<1>5. PICK N \in Nat : \A phrase \in G!Phrases(entries) : Len(phrase) <= N
  <2> DEFINE bound(i) == CHOOSE b \in Nat : \A n \in DOMAIN entries[i].forms : Len(entries[i].forms[n]) <= b
             most == [i \in 1..Len(entries) |-> bound(i)]
  <2>0. Len(entries) \in Nat /\ DOMAIN entries = 1..Len(entries)
    OBVIOUS
  <2>a. \A i \in DOMAIN entries :
          bound(i) \in Nat /\ \A n \in DOMAIN entries[i].forms : Len(entries[i].forms[n]) <= bound(i)
    BY <1>4
  <2> HIDE DEF bound
  <2>1. \A i \in DOMAIN entries :
          most[i] \in Nat /\ \A n \in DOMAIN entries[i].forms : Len(entries[i].forms[n]) <= most[i]
    BY <2>a, <2>0
  <2>2. most \in [1..Len(entries) -> Nat]
    BY <2>a, <2>0
  <2> HIDE DEF most
  <2>3. PICK N \in Nat : \A i \in 1..Len(entries) : most[i] <= N
    BY <2>0, <2>2, Bounded
  <2>4. ASSUME NEW phrase \in G!Phrases(entries) PROVE Len(phrase) <= N
    <3>1. PICK i \in DOMAIN entries : \E n \in DOMAIN entries[i].forms : phrase = entries[i].forms[n]
      BY <1>3
    <3>2. Len(phrase) <= most[i] /\ most[i] <= N /\ most[i] \in Nat
      BY <2>0, <2>1, <2>3, <3>1
    <3>3. Len(phrase) \in Nat
      BY <1>3
    <3>. QED  BY <3>2, <3>3
  <2>. QED  BY <2>4
<1>6. lengths \in SUBSET (0..N) /\ lengths # {}
  BY <1>3, <1>5
<1> HIDE DEF lengths
<1>7. \E n \in lengths : \A m \in lengths : n >= m
  BY <1>6, Greatest
<1>8. G!Max(lengths) \in lengths /\ \A m \in lengths : G!Max(lengths) >= m
  BY <1>7 DEF G!Max
<1>9. G!Max(lengths) \in Nat
  <2>1. G!Max(lengths) \in 0..N
    BY <1>6, <1>8
  <2>. QED  BY <2>1
<1>10. \A phrase \in G!Phrases(entries) : Len(phrase) \in lengths
  BY DEF lengths
<1>11. ASSUME NEW phrase \in G!Phrases(entries) PROVE Len(phrase) <= G!Max(lengths)
  BY <1>3, <1>8, <1>9, <1>10, <1>11
<1>. QED  BY <1>1, <1>3, <1>9, <1>11 DEF Measured, glossary

LEMMA VettedIsMeasured ==
  ASSUME NEW schema \in Schemas
  PROVE  Measured(G!Vetted(Host, schema))
<1> DEFINE kept == DOMAIN Entries \ G!Broken(Host, schema)
           left == G!Keep(Entries, kept)
<1>1. Entries \in Seq(Range(Entries)) /\ \A i \in DOMAIN Entries : Entries[i].forms \in Seq(Seq(STRING))
  BY GlossaryAssumption DEF Range
<1>2. Host.entries = Entries /\ Measured(Host)
  BY <1>1, DefinedIsIndexed, DefinedIsMeasured DEF Host
<1>3. CASE G!Broken(Host, schema) = {}
  BY <1>2, <1>3 DEF G!Vetted
<1>4. CASE G!Broken(Host, schema) # {}
  <2>1. G!Vetted(Host, schema) = G!DefineGlossary(left)
    BY <1>2, <1>4 DEF G!Vetted
  <2>2. left \in Seq(Range(Entries)) /\ \A n \in DOMAIN left : \E i \in kept : left[n] = Entries[i]
    <3>1. kept \in SUBSET DOMAIN Entries
      OBVIOUS
    <3> HIDE DEF kept
    <3>. QED  BY <1>1, <3>1, Kept
  <2> HIDE DEF left
  <2>3. \A n \in DOMAIN left : left[n].forms \in Seq(Seq(STRING))
    BY <1>1, <2>2
  <2>. QED  BY <2>1, <2>2, <2>3, DefinedIsMeasured
<1>. QED  BY <1>3, <1>4

(***************************************************************************)
(* expandQuestion at one position: what it takes there is a phrase, and no *)
(* phrase that begins there is longer.                                     *)
(***************************************************************************)
Phrase(glossary, asked, from, to) == SubSeq(asked, from, to) \in DOMAIN glossary.byPhrase

LEMMA LongestIsLongest ==
  ASSUME NEW glossary, Measured(glossary), NEW asked \in Seq(STRING), NEW i \in 1..Len(asked)
  PROVE  LET n == G!LongestAt(glossary, asked, i)
         IN  /\ n \in Nat
             /\ n # 0 => i + n - 1 <= Len(asked) /\ Phrase(glossary, asked, i, i + n - 1)
             /\ \A to \in i..Len(asked) : Phrase(glossary, asked, i, to) => n # 0 /\ to <= i + n - 1
<1> DEFINE lengths == {n \in 1..glossary.longest :
                         i + n - 1 <= Len(asked) /\ SubSeq(asked, i, i + n - 1) \in DOMAIN glossary.byPhrase}
           longest == CHOOSE n \in lengths : \A m \in lengths : n >= m
<1>1. G!LongestAt(glossary, asked, i) = IF lengths = {} THEN 0 ELSE longest
  BY DEF G!LongestAt
<1>2. glossary.longest \in Nat /\ Len(asked) \in Nat /\ i \in Nat /\ i >= 1
  BY DEF Measured
<1>3. lengths # {} => longest \in lengths /\ \A m \in lengths : longest >= m
  <2>1. lengths \in SUBSET (0..glossary.longest)
    BY <1>2
  <2> HIDE DEF lengths
  <2>2. lengths # {} => \E n \in lengths : \A m \in lengths : n >= m
    BY <1>2, <2>1, Greatest
  <2>. QED  BY <2>2
<1>4. ASSUME NEW to \in i..Len(asked), Phrase(glossary, asked, i, to) PROVE to - i + 1 \in lengths
  <2>1. to \in Nat /\ i <= to /\ to <= Len(asked) /\ i + (to - i + 1) - 1 = to
    BY <1>2
  <2>2. Len(SubSeq(asked, i, to)) = to - i + 1
    BY <1>2, <2>1
  <2>3. to - i + 1 <= glossary.longest
    BY <1>4, <2>2 DEF Phrase, Measured
  <2>. QED  BY <1>2, <1>4, <2>1, <2>3 DEF Phrase
<1>5. \A n \in lengths : n \in Nat /\ n # 0 /\ i + n - 1 <= Len(asked) /\ Phrase(glossary, asked, i, i + n - 1)
  BY <1>2 DEF Phrase
<1> HIDE DEF longest, lengths
<1>6. CASE lengths = {}
  BY <1>1, <1>4, <1>6
<1>7. CASE lengths # {}
  <2>1. G!LongestAt(glossary, asked, i) = longest /\ longest \in lengths
    BY <1>1, <1>3, <1>7
  <2>2. ASSUME NEW to \in i..Len(asked), Phrase(glossary, asked, i, to) PROVE to <= i + longest - 1
    <3>1. longest >= to - i + 1 /\ longest \in Nat
      BY <1>3, <1>4, <1>5, <1>7, <2>1, <2>2
    <3>2. to \in Nat
      BY <1>2
    <3>. QED  BY <1>2, <3>1, <3>2
  <2>. QED  BY <1>5, <2>1, <2>2
<1>. QED  BY <1>6, <1>7

(***************************************************************************)
(* What the words from a position on have been expanded to.  In this way   *)
(* every phrase that begins there or later begins inside a match.          *)
(***************************************************************************)
Matched(glossary) == [entry : DOMAIN glossary.entries, from : Nat, to : Nat]

Begins(glossary, asked, found, from, to) ==
  \E m \in Range(found) : m.from <= from /\ from <= m.to /\ (m.from = from => to <= m.to)

Expanded(glossary, asked, i, found) ==
  /\ found \in Seq(Matched(glossary))
  /\ \A m \in Range(found) :
       i <= m.from /\ m.from <= m.to /\ m.to <= Len(asked) /\ Phrase(glossary, asked, m.from, m.to)
  /\ \A l, m \in Range(found) : l.from # m.from \/ l.to # m.to => l.to < m.from \/ m.to < l.from
  /\ \A from \in i..Len(asked) : \A to \in from..Len(asked) :
       Phrase(glossary, asked, from, to) => Begins(glossary, asked, found, from, to)

LEMMA NothingLeft ==
  ASSUME NEW glossary, NEW asked \in Seq(STRING)
  PROVE  Expanded(glossary, asked, Len(asked) + 1, <<>>)
<1>1. Range(<<>>) = {} /\ <<>> \in Seq(Matched(glossary))
  BY DEF Range
<1>2. Len(asked) \in Nat /\ (Len(asked) + 1)..Len(asked) = {}
  OBVIOUS
<1>. QED  BY <1>1, <1>2 DEF Expanded

LEMMA PassedOver ==
  ASSUME NEW glossary, Measured(glossary), NEW asked \in Seq(STRING), NEW i \in 1..Len(asked),
         G!LongestAt(glossary, asked, i) = 0, NEW found, Expanded(glossary, asked, i + 1, found)
  PROVE  Expanded(glossary, asked, i, found)
<1>1. Len(asked) \in Nat /\ i \in Nat
  OBVIOUS
<1>2. \A to \in i..Len(asked) : ~Phrase(glossary, asked, i, to)
  BY LongestIsLongest
<1>3. ASSUME NEW from \in i..Len(asked), NEW to \in from..Len(asked), Phrase(glossary, asked, from, to)
      PROVE  Begins(glossary, asked, found, from, to)
  <2>1. from # i
    BY <1>2, <1>3
  <2>2. from \in (i + 1)..Len(asked)
    BY <1>1, <2>1
  <2>. QED  BY <1>3, <2>2 DEF Expanded
<1>4. \A m \in Range(found) : m.from \in Nat
  <2>1. \A n \in DOMAIN found : found[n] \in Matched(glossary)
    BY DEF Expanded
  <2>. QED  BY <2>1 DEF Range, Matched
<1>5. \A m \in Range(found) : i <= m.from
  <2>1. \A m \in Range(found) : i + 1 <= m.from
    BY DEF Expanded
  <2>. QED  BY <1>1, <1>4, <2>1
<1>. QED  BY <1>3, <1>5 DEF Expanded

LEMMA Taken ==
  ASSUME NEW glossary, Measured(glossary), Indexed(glossary), NEW asked \in Seq(STRING), NEW i \in 1..Len(asked),
         NEW n, n = G!LongestAt(glossary, asked, i), n # 0,
         NEW found, Expanded(glossary, asked, i + n, found)
  PROVE  /\ G!MatchAt(glossary, asked, i, n).entry \in DOMAIN glossary.entries
         /\ Expanded(glossary, asked, i, <<G!MatchAt(glossary, asked, i, n)>> \o found)
<1> DEFINE match == G!MatchAt(glossary, asked, i, n)
           all == <<match>> \o found
<1>1. /\ n \in Nat /\ i + n - 1 <= Len(asked) /\ Phrase(glossary, asked, i, i + n - 1)
      /\ \A to \in i..Len(asked) : Phrase(glossary, asked, i, to) => to <= i + n - 1
  BY LongestIsLongest
<1>2. Len(asked) \in Nat /\ i \in Nat /\ i >= 1 /\ n \in Nat /\ n >= 1 /\ i + n - 1 \in Nat
  BY <1>1
<1>3. match.from = i /\ match.to = i + n - 1 /\ match \in Matched(glossary)
  <2>1. match = [entry |-> glossary.byPhrase[SubSeq(asked, i, i + n - 1)], from |-> i, to |-> i + n - 1]
    BY DEF G!MatchAt
  <2>2. glossary.byPhrase[SubSeq(asked, i, i + n - 1)] \in DOMAIN glossary.entries
    BY <1>1 DEF Phrase, Indexed
  <2>. QED  BY <1>2, <2>1, <2>2 DEF Matched
<1> HIDE DEF match
<1>4. found \in Seq(Matched(glossary))
  BY DEF Expanded
<1>5. /\ all \in Seq(Matched(glossary)) /\ Len(found) \in Nat
      /\ DOMAIN all = 1..(Len(found) + 1) /\ DOMAIN found = 1..Len(found)
      /\ all[1] = match /\ \A k \in 1..Len(found) : all[k + 1] = found[k]
  BY <1>3, <1>4
<1> HIDE DEF all
<1>6. Range(all) = {match} \union Range(found)
  <2>1. ASSUME NEW k \in DOMAIN all PROVE all[k] \in {match} \union Range(found)
    <3>1. CASE k = 1
      BY <1>5, <3>1
    <3>2. CASE k # 1
      <4>1. k - 1 \in 1..Len(found) /\ (k - 1) + 1 = k
        BY <1>5, <3>2
      <4>2. all[k] = found[k - 1]
        BY <1>5, <4>1
      <4>. QED  BY <1>5, <4>1, <4>2 DEF Range
    <3>. QED  BY <3>1, <3>2
  <2>2. match \in Range(all)
    <3>1. 1 \in DOMAIN all
      BY <1>5
    <3>. QED  BY <1>5, <3>1 DEF Range
  <2>3. ASSUME NEW k \in DOMAIN found PROVE found[k] \in Range(all)
    <3>1. k + 1 \in DOMAIN all /\ all[k + 1] = found[k]
      BY <1>5
    <3>. QED  BY <3>1 DEF Range
  <2>. QED  BY <2>1, <2>2, <2>3 DEF Range
<1>7. \A m \in Range(found) : m.from \in Nat /\ m.to \in Nat /\ i + n <= m.from /\ m.from <= m.to
  <2>1. \A k \in DOMAIN found : found[k] \in Matched(glossary)
    BY <1>4
  <2>2. \A m \in Range(found) : m \in Matched(glossary)
    BY <2>1 DEF Range
  <2>. QED  BY <2>2 DEF Matched, Expanded
<1>8. \A m \in Range(all) :
        i <= m.from /\ m.from <= m.to /\ m.to <= Len(asked) /\ Phrase(glossary, asked, m.from, m.to)
  <2>1. i <= match.from /\ match.from <= match.to /\ match.to <= Len(asked)
        /\ Phrase(glossary, asked, match.from, match.to)
    BY <1>1, <1>2, <1>3
  <2>2. ASSUME NEW m \in Range(found) PROVE i <= m.from
    BY <1>2, <1>7
  <2>. QED  BY <1>6, <2>1, <2>2 DEF Expanded
<1>9. \A l, m \in Range(all) : l.from # m.from \/ l.to # m.to => l.to < m.from \/ m.to < l.from
  <2>1. \A m \in Range(found) : match.to < m.from
    BY <1>2, <1>3, <1>7
  <2>2. \A l, m \in Range(found) : l.from # m.from \/ l.to # m.to => l.to < m.from \/ m.to < l.from
    BY DEF Expanded
  <2>. QED  BY <1>6, <2>1, <2>2
<1>10. ASSUME NEW from \in i..Len(asked), NEW to \in from..Len(asked), Phrase(glossary, asked, from, to)
       PROVE  Begins(glossary, asked, all, from, to)
  <2>0. from \in Nat /\ to \in Nat /\ i <= from /\ to \in i..Len(asked)
    BY <1>2
  <2>1. CASE from < i + n
    <3>1. match.from <= from /\ from <= match.to
      BY <1>2, <1>3, <2>0, <2>1
    <3>2. match.from = from => to <= match.to
      BY <1>1, <1>3, <1>10, <2>0
    <3>. QED  BY <1>6, <3>1, <3>2 DEF Begins
  <2>2. CASE ~(from < i + n)
    <3>1. from \in (i + n)..Len(asked)
      BY <1>2, <2>0, <2>2
    <3>2. Begins(glossary, asked, found, from, to)
      BY <1>10, <3>1 DEF Expanded
    <3>. QED  BY <1>6, <3>2 DEF Begins
  <2>. QED  BY <2>1, <2>2
<1>11. match.entry \in DOMAIN glossary.entries
  BY <1>3 DEF Matched
<1>. QED  BY <1>5, <1>8, <1>9, <1>10, <1>11 DEF Expanded, all, match

(***************************************************************************)
(* The walk.  What it makes of a position depends on later ones only, so   *)
(* that there is one, and it expands the words from each position on.      *)
(***************************************************************************)
Follows(glossary, asked, w, i) ==
  LET n == IF i > Len(asked) THEN 0 ELSE G!LongestAt(glossary, asked, i)
      m == G!MatchAt(glossary, asked, i, n)
  IN  IF i > Len(asked) THEN <<>>
      ELSE IF n = 0 THEN w[i + 1]
      ELSE IF m.entry \notin DOMAIN glossary.entries THEN w[i + 1]
      ELSE <<m>> \o w[i + n]

LEMMA FollowsLater ==
  ASSUME NEW glossary, Measured(glossary), NEW asked \in Seq(STRING), NEW i \in 1..(Len(asked) + 1),
         NEW v, NEW w, \A j \in (i + 1)..(Len(asked) + 1) : v[j] = w[j]
  PROVE  Follows(glossary, asked, v, i) = Follows(glossary, asked, w, i)
<1>1. Len(asked) \in Nat /\ i \in Nat
  OBVIOUS
<1>2. CASE i > Len(asked)
  BY <1>2 DEF Follows
<1>3. CASE ~(i > Len(asked))
  <2>1. i \in 1..Len(asked) /\ i + 1 \in (i + 1)..(Len(asked) + 1)
    BY <1>1, <1>3
  <2> DEFINE n == G!LongestAt(glossary, asked, i)
  <2>2. n \in Nat /\ (n # 0 => i + n - 1 <= Len(asked))
    BY <2>1, LongestIsLongest
  <2> HIDE DEF n
  <2>3. n # 0 => i + n \in (i + 1)..(Len(asked) + 1)
    BY <1>1, <2>2
  <2>4. v[i + 1] = w[i + 1] /\ (n # 0 => v[i + n] = w[i + n])
    BY <2>1, <2>3
  <2>. QED  BY <1>3, <2>4 DEF Follows, n
<1>. QED  BY <1>2, <1>3

LEMMA WalkExists ==
  ASSUME NEW glossary, Measured(glossary), NEW asked \in Seq(STRING)
  PROVE  \E w : w = [i \in 1..(Len(asked) + 1) |-> Follows(glossary, asked, w, i)]
<1> DEFINE N == Len(asked) + 1
           From(k, w) == w = [i \in k..N |-> Follows(glossary, asked, w, i)]
           some == {k \in 1..N : \E w : From(k, w)}
<1>1. N \in Nat /\ 1 \in 1..N
  OBVIOUS
<1> HIDE DEF N
<1>2. ASSUME NEW k \in 1..N, \A j \in (k + 1)..N : j \in some PROVE k \in some
  <2>1. PICK w : From(k + 1, w)
    <3>1. CASE k = N
      <4>1. (k + 1)..N = {}
        BY <1>1, <3>1
      <4> DEFINE none == [i \in (k + 1)..N |-> <<>>]
      <4>2. From(k + 1, none)
        BY <4>1
      <4>. QED  BY <4>2
    <3>2. CASE k # N
      <4>1. k + 1 \in (k + 1)..N
        BY <1>1, <3>2
      <4>. QED  BY <1>2, <4>1
    <3>. QED  BY <3>1, <3>2
  <2> DEFINE v == [i \in k..N |-> IF i = k THEN Follows(glossary, asked, w, k) ELSE w[i]]
  <2>2. \A i \in (k + 1)..N : v[i] = w[i] /\ w[i] = Follows(glossary, asked, w, i)
    <3>1. \A i \in (k + 1)..N : i \in k..N /\ i # k
      BY <1>1
    <3>. QED  BY <2>1, <3>1
  <2>3. v = [i \in k..N |-> v[i]] /\ v[k] = Follows(glossary, asked, w, k)
    BY <1>1
  <2> HIDE DEF v
  <2>4. ASSUME NEW i \in k..N PROVE v[i] = Follows(glossary, asked, v, i)
    <3>1. i \in 1..(Len(asked) + 1) /\ \A j \in (i + 1)..(Len(asked) + 1) : j \in (k + 1)..N
      BY <1>1 DEF N
    <3>2. Follows(glossary, asked, v, i) = Follows(glossary, asked, w, i)
      BY <2>2, <3>1, FollowsLater
    <3>3. i # k => i \in (k + 1)..N
      BY <1>1
    <3>. QED  BY <2>2, <2>3, <3>2, <3>3
  <2>5. From(k, v)
    BY <2>3, <2>4
  <2>. QED  BY <2>5
<1>3. some = 1..N
  <2>1. some \in SUBSET (1..N)
    OBVIOUS
  <2> HIDE DEF some
  <2>. QED  BY <1>1, <1>2, <2>1, Backwards
<1>. QED  BY <1>1, <1>3 DEF N

LEMMA WalkExpands ==
  ASSUME NEW glossary, Measured(glossary), Indexed(glossary), NEW asked \in Seq(STRING),
         NEW w, \A i \in 1..(Len(asked) + 1) : w[i] = Follows(glossary, asked, w, i)
  PROVE  \A i \in 1..(Len(asked) + 1) : Expanded(glossary, asked, i, w[i])
<1> DEFINE N == Len(asked) + 1
           done == {i \in 1..N : Expanded(glossary, asked, i, w[i])}
<1>1. N \in Nat /\ Len(asked) \in Nat
  OBVIOUS
<1>2. ASSUME NEW i \in 1..N, \A j \in (i + 1)..N : j \in done PROVE i \in done
  <2>1. w[i] = Follows(glossary, asked, w, i) /\ i \in Nat
    OBVIOUS
  <2>2. CASE i > Len(asked)
    <3>1. i = Len(asked) + 1 /\ w[i] = <<>>
      BY <1>1, <2>1, <2>2 DEF Follows
    <3>. QED  BY <3>1, NothingLeft
  <2>3. CASE ~(i > Len(asked))
    <3> DEFINE n == G!LongestAt(glossary, asked, i)
               match == G!MatchAt(glossary, asked, i, n)
    <3>0. i \in 1..Len(asked)
      BY <1>1, <2>1, <2>3
    <3>1. n \in Nat /\ (n # 0 => i + n - 1 <= Len(asked))
      BY <3>0, LongestIsLongest
    <3>2. w[i] = IF n = 0 THEN w[i + 1]
                 ELSE IF match.entry \notin DOMAIN glossary.entries THEN w[i + 1] ELSE <<match>> \o w[i + n]
      BY <2>1, <2>3 DEF Follows
    <3>3. CASE n = 0
      <4>1. i + 1 \in (i + 1)..N
        BY <1>1, <3>0
      <4>2. Expanded(glossary, asked, i + 1, w[i + 1])
        BY <1>2, <4>1
      <4>. QED  BY <3>0, <3>2, <3>3, <4>2, PassedOver
    <3>4. CASE n # 0
      <4>1. i + n \in (i + 1)..N
        <5> HIDE DEF n
        <5>. QED  BY <1>1, <2>1, <3>1, <3>4
      <4>2. Expanded(glossary, asked, i + n, w[i + n])
        BY <1>2, <4>1
      <4>3. match.entry \in DOMAIN glossary.entries /\ Expanded(glossary, asked, i, <<match>> \o w[i + n])
        BY <3>0, <3>4, <4>2, Taken
      <4>. QED  BY <3>2, <3>4, <4>3
    <3>. QED  BY <3>3, <3>4
  <2>. QED  BY <2>2, <2>3
<1>3. done = 1..N
  <2>1. done \in SUBSET (1..N)
    OBVIOUS
  <2> HIDE DEF done, N
  <2>. QED  BY <1>1, <1>2, <2>1, Backwards
<1>. QED  BY <1>3

LEMMA ExpansionExpands ==
  ASSUME NEW glossary, Measured(glossary), Indexed(glossary), NEW asked \in Seq(STRING)
  PROVE  Expanded(glossary, asked, 1, G!Expansion(glossary, asked))
<1> DEFINE walk[i \in 1..(Len(asked) + 1)] ==
             LET n == IF i > Len(asked) THEN 0 ELSE G!LongestAt(glossary, asked, i)
                 m == G!MatchAt(glossary, asked, i, n)
             IN  IF i > Len(asked) THEN <<>>
                 ELSE IF n = 0 THEN walk[i + 1]
                 ELSE IF m.entry \notin DOMAIN glossary.entries THEN walk[i + 1]
                 ELSE <<m>> \o walk[i + n]
<1>1. G!Expansion(glossary, asked) = walk[1]
  BY DEF G!Expansion
<1>2. \E w : w = [i \in 1..(Len(asked) + 1) |->
             LET n == IF i > Len(asked) THEN 0 ELSE G!LongestAt(glossary, asked, i)
                 m == G!MatchAt(glossary, asked, i, n)
             IN  IF i > Len(asked) THEN <<>>
                 ELSE IF n = 0 THEN w[i + 1]
                 ELSE IF m.entry \notin DOMAIN glossary.entries THEN w[i + 1]
                 ELSE <<m>> \o w[i + n]]
  BY WalkExists DEF Follows
<1>3. walk = [i \in 1..(Len(asked) + 1) |->
             LET n == IF i > Len(asked) THEN 0 ELSE G!LongestAt(glossary, asked, i)
                 m == G!MatchAt(glossary, asked, i, n)
             IN  IF i > Len(asked) THEN <<>>
                 ELSE IF n = 0 THEN walk[i + 1]
                 ELSE IF m.entry \notin DOMAIN glossary.entries THEN walk[i + 1]
                 ELSE <<m>> \o walk[i + n]]
  BY <1>2
<1> HIDE DEF walk
<1>4. \A i \in 1..(Len(asked) + 1) : walk[i] = Follows(glossary, asked, walk, i)
  BY <1>3 DEF Follows
<1>5. 1 \in 1..(Len(asked) + 1)
  OBVIOUS
<1>. QED  BY <1>1, <1>4, <1>5, WalkExpands

(***************************************************************************)
(* The longest phrase wins, for every glossary, schema and question: what  *)
(* is matched is a phrase, matches do not overlap, and a phrase that is    *)
(* not matched begins inside a match that is no shorter if they begin      *)
(* together.                                                               *)
(***************************************************************************)
THEOREM LongestWins == PathSpec => []LongestPhraseWins
<1>1. ASSUME PathInv, NEW q \in Questions, pc[q] = "model"
      PROVE  /\ work[q].asked \in Seq(STRING)
             /\ Expanded(work[q].glossary, work[q].asked, 1, work[q].matches)
  <2>1. PICK schema \in Schemas : \E asked \in Asked : work[q] = Prompt(schema, G!Vetted(Host, schema), asked)
    BY <1>1 DEF PathInv, WorkInv, InHand, Made
  <2>2. PICK asked \in Asked : work[q] = Prompt(schema, G!Vetted(Host, schema), asked)
    BY <2>1
  <2>3. /\ work[q].glossary = G!Vetted(Host, schema) /\ work[q].asked = asked
        /\ work[q].matches = G!Expansion(G!Vetted(Host, schema), asked)
    BY <2>2 DEF Prompt
  <2>4. asked \in Seq(STRING)
    BY GlossaryAssumption
  <2>. QED  BY <2>3, <2>4, VettedFits, VettedIsMeasured, ExpansionExpands
<1>2. ASSUME NEW glossary, NEW asked \in Seq(STRING), NEW matches, Expanded(glossary, asked, 1, matches)
      PROVE  LET spans == {s \in (DOMAIN asked) \X (DOMAIN asked) :
                             s[1] <= s[2] /\ SubSeq(asked, s[1], s[2]) \in DOMAIN glossary.byPhrase}
                 matched == {<<m.from, m.to>> : m \in Range(matches)}
             IN  /\ matched \subseteq spans
                 /\ \A s, t \in matched : s # t => s[2] < t[1] \/ t[2] < s[1]
                 /\ \A s \in spans : \E m \in matched : m[1] <= s[1] /\ s[1] <= m[2] /\ (m[1] = s[1] => s[2] <= m[2])
  <2> DEFINE spans == {s \in (DOMAIN asked) \X (DOMAIN asked) :
                         s[1] <= s[2] /\ SubSeq(asked, s[1], s[2]) \in DOMAIN glossary.byPhrase}
             matched == {<<m.from, m.to>> : m \in Range(matches)}
  <2>1. DOMAIN asked = 1..Len(asked) /\ Len(asked) \in Nat
    OBVIOUS
  <2>2. \A m \in Range(matches) :
          /\ m.from \in Nat /\ m.to \in Nat /\ 1 <= m.from /\ m.from <= m.to /\ m.to <= Len(asked)
          /\ SubSeq(asked, m.from, m.to) \in DOMAIN glossary.byPhrase
    <3>1. \A n \in DOMAIN matches : matches[n] \in Matched(glossary)
      <4>1. PICK found \in Seq(Matched(glossary)) : found = matches
        BY <1>2 DEF Expanded
      <4>. QED  BY <4>1
    <3>2. \A m \in Range(matches) : m \in Matched(glossary)
      BY <3>1 DEF Range
    <3>. QED  BY <1>2, <3>2 DEF Expanded, Matched, Phrase
  <2>3. matched \subseteq spans
    <3>1. ASSUME NEW m \in Range(matches) PROVE <<m.from, m.to>> \in spans
      <4>1. m.from \in DOMAIN asked /\ m.to \in DOMAIN asked
        BY <2>1, <2>2
      <4>. QED  BY <2>2, <4>1
    <3> HIDE DEF spans
    <3>. QED  BY <3>1
  <2>4. \A s, t \in matched : s # t => s[2] < t[1] \/ t[2] < s[1]
    <3>1. ASSUME NEW l \in Range(matches), NEW m \in Range(matches), <<l.from, l.to>> # <<m.from, m.to>>
          PROVE  l.to < m.from \/ m.to < l.from
      BY <1>2, <3>1 DEF Expanded
    <3>. QED  BY <3>1
  <2>5. ASSUME NEW s \in spans
        PROVE  \E m \in matched : m[1] <= s[1] /\ s[1] <= m[2] /\ (m[1] = s[1] => s[2] <= m[2])
    <3>1. s[1] \in 1..Len(asked) /\ s[2] \in s[1]..Len(asked) /\ Phrase(glossary, asked, s[1], s[2])
      BY <2>1 DEF Phrase
    <3>2. Begins(glossary, asked, matches, s[1], s[2])
      BY <1>2, <3>1 DEF Expanded
    <3>3. PICK m \in Range(matches) : m.from <= s[1] /\ s[1] <= m.to /\ (m.from = s[1] => s[2] <= m.to)
      BY <3>2 DEF Begins
    <3>4. <<m.from, m.to>> \in matched
      OBVIOUS
    <3>. QED  BY <3>3, <3>4
  <2>. QED  BY <2>3, <2>4, <2>5
<1>3. PathInv => LongestPhraseWins
  BY <1>1, <1>2 DEF LongestPhraseWins
<1>. QED  BY <1>3, PathHolds, PTL

-----------------------------------------------------------------------------
LEMMA CountsAlike == \A S : Retrieve!Cardinality(S) = Cardinality(S)
  BY DEF Retrieve!Cardinality, Cardinality, Retrieve!ExistsBijection, ExistsBijection, Retrieve!Bijection, Bijection,
     Retrieve!Injection, Injection, Retrieve!Surjection, Surjection, Retrieve!IsInjective, IsInjective

(***************************************************************************)
(* selectTables.  A finite set that is totally ordered can be listed: of   *)
(* no two elements as many go before, so each place is somebody's.         *)
(***************************************************************************)
Orders(before, S) ==
  /\ \A x \in S : <<x, x>> \notin before
  /\ \A x, y, z \in S : <<x, y>> \in before /\ <<y, z>> \in before => <<x, z>> \in before
  /\ \A x, y \in S : x # y => <<x, y>> \in before \/ <<y, x>> \in before

LEMMA Listed ==
  ASSUME NEW S, IsFiniteSet(S), NEW before, Orders(before, S)
  PROVE  Retrieve!InOrderOf(before, S) \in Seq(S)
<1> DEFINE N == Cardinality(S)
           Below(x) == {y \in S : <<y, x>> \in before}
           rank == [x \in S |-> Cardinality(Below(x))]
<1>1. N \in Nat
  BY FS_CardinalityType
<1>2. ASSUME NEW x \in S
      PROVE  IsFiniteSet(Below(x)) /\ Cardinality(Below(x)) \in 0..(N - 1)
  <2>1. IsFiniteSet(S \ {x}) /\ Cardinality(S \ {x}) = N - 1
    BY FS_RemoveElement
  <2>2. Below(x) \in SUBSET (S \ {x})
    BY DEF Orders
  <2>3. IsFiniteSet(Below(x)) /\ Cardinality(Below(x)) <= N - 1
    <3> HIDE DEF Below, N
    <3>. QED  BY <2>1, <2>2, FS_Subset
  <2>4. Cardinality(Below(x)) \in Nat
    BY <2>3, FS_CardinalityType
  <2>. QED  BY <1>1, <2>3, <2>4
<1>3. ASSUME NEW x \in S, NEW y \in S, <<x, y>> \in before
      PROVE  Cardinality(Below(x)) # Cardinality(Below(y))
  <2>1. x \in Below(y) /\ Below(x) \in SUBSET (Below(y) \ {x})
    BY <1>3 DEF Orders
  <2> HIDE DEF Below, N
  <2>2. IsFiniteSet(Below(y) \ {x}) /\ Cardinality(Below(y) \ {x}) = Cardinality(Below(y)) - 1
    BY <1>2, <2>1, FS_RemoveElement
  <2>3. Cardinality(Below(x)) <= Cardinality(Below(y)) - 1
    BY <2>1, <2>2, FS_Subset
  <2>4. Cardinality(Below(x)) \in Int /\ Cardinality(Below(y)) \in Int
    BY <1>2
  <2>. QED  BY <2>3, <2>4
<1>4. rank \in Injection(S, 0..(N - 1))
  <2>1. rank \in [S -> 0..(N - 1)]
    BY <1>2
  <2>2. ASSUME NEW x \in S, NEW y \in S, x # y PROVE rank[x] # rank[y]
    <3>1. <<x, y>> \in before \/ <<y, x>> \in before
      BY <2>2 DEF Orders
    <3> HIDE DEF Below
    <3>. QED  BY <1>3, <3>1
  <2> HIDE DEF rank, N
  <2>. QED  BY <2>1, <2>2 DEF Injection, IsInjective
<1>5. IsFiniteSet(0..(N - 1)) /\ Cardinality(0..(N - 1)) = N
  <2>1. 0 \in Int /\ N - 1 \in Int
    BY <1>1
  <2>2. IsFiniteSet(0..(N - 1)) /\ Cardinality(0..(N - 1)) = IF 0 > N - 1 THEN 0 ELSE (N - 1) - 0 + 1
    <3> HIDE DEF N
    <3>. QED  BY <2>1, FS_Interval
  <2>. QED  BY <1>1, <2>2
<1>6. rank \in Surjection(S, 0..(N - 1))
  <2> HIDE DEF rank
  <2>. QED  BY <1>4, <1>5, FS_Injection
<1>7. ASSUME NEW n \in 1..N PROVE \E x \in S : Cardinality(Below(x)) = n - 1
  <2>1. n - 1 \in 0..(N - 1)
    BY <1>1
  <2>2. \E x \in S : rank[x] = n - 1
    <3> HIDE DEF rank, N
    <3>. QED  BY <1>6, <2>1 DEF Surjection
  <2>. QED  BY <2>2
<1> DEFINE list == [n \in 1..N |-> CHOOSE x \in S : Cardinality(Below(x)) = n - 1]
<1>8. Retrieve!InOrderOf(before, S) = list
  <2>1. Retrieve!InOrderOf(before, S)
          = [n \in 1..Retrieve!Cardinality(S) |-> CHOOSE x \in S : Retrieve!Cardinality(Below(x)) = n - 1]
    BY DEF Retrieve!InOrderOf
  <2> HIDE DEF Below
  <2>. QED  BY <2>1, CountsAlike
<1>9. ASSUME NEW n \in 1..N PROVE list[n] \in S
  <2> HIDE DEF Below, N
  <2>. QED  BY <1>7, <1>9
<1>10. list \in [1..N -> S]
  <2> HIDE DEF Below, N
  <2>. QED  BY <1>9
<1> HIDE DEF list, N
<1>. QED  BY <1>1, <1>8, <1>10

\* A step repeated: what is counted up from a start exists, and stays where the steps stay.
Steps(f, N, start, step) == f[0] = start /\ \A n \in 1..N : f[n] = step[n][f[n - 1]]

LEMMA Iterates ==
  ASSUME NEW N \in Nat, NEW S, NEW start \in S, NEW step \in [1..N -> [S -> S]]
  PROVE  \E f \in [0..N -> S] : Steps(f, N, start, step)
<1> DEFINE Upto(k, f) == f[0] = start /\ \A n \in 1..k : f[n] = step[n][f[n - 1]]
           failing == {k \in 0..N : ~ \E f \in [0..k -> S] : Upto(k, f)}
<1> SUFFICES ASSUME failing # {} PROVE FALSE
  BY DEF Steps
<1>1. PICK k \in failing : \A m \in failing : k <= m
  <2>1. failing \in SUBSET Nat
    OBVIOUS
  <2> HIDE DEF failing
  <2>. QED  BY <2>1, Least
<1>2. CASE k = 0
  <2> DEFINE f == [n \in 0..0 |-> start]
  <2>1. f \in [0..0 -> S] /\ \A n \in 0..0 : n = 0
    OBVIOUS
  <2>2. Upto(0, f)
    BY <2>1
  <2>. QED  BY <1>1, <1>2, <2>1, <2>2
<1>3. CASE k # 0
  <2>1. k \in 1..N /\ k - 1 \in 0..N /\ ~(k <= k - 1)
    BY <1>3
  <2>2. k - 1 \notin failing
    BY <1>1, <2>1
  <2>3. PICK f \in [0..(k - 1) -> S] : Upto(k - 1, f)
    BY <2>1, <2>2
  <2> DEFINE g == [n \in 0..k |-> IF n = k THEN step[k][f[k - 1]] ELSE f[n]]
  <2>4. step[k] \in [S -> S] /\ f[k - 1] \in S
    BY <2>1
  <2>5. g \in [0..k -> S]
    <3>1. \A n \in 0..k : n # k => n \in 0..(k - 1)
      BY <2>1
    <3>. QED  BY <2>4, <3>1
  <2>6. ASSUME NEW n \in 1..k PROVE g[n] = step[n][g[n - 1]]
    <3>1. n - 1 \in 0..k /\ n \in 0..k /\ n - 1 # k
      BY <2>1
    <3>2. CASE n = k
      BY <3>1, <3>2
    <3>3. CASE n # k
      <4>1. n \in 1..(k - 1)
        BY <2>1, <3>3
      <4>. QED  BY <2>3, <3>1, <3>3, <4>1
    <3>. QED  BY <3>2, <3>3
  <2>7. g[0] = start
    BY <1>3, <2>1, <2>3
  <2>8. \E e \in [0..k -> S] : Upto(k, e)
    BY <2>5, <2>6, <2>7
  <2>. QED  BY <1>1, <2>8
<1>. QED  BY <1>2, <1>3

\* What starts inside and stays inside at each step is inside all along.
LEMMA Stays ==
  ASSUME NEW N \in Nat, NEW S, NEW f, f[0] \in S,
         \A n \in 1..N : f[n - 1] \in S => f[n] \in S
  PROVE  \A n \in 0..N : f[n] \in S
<1> DEFINE outside == {n \in 0..N : f[n] \notin S}
<1> SUFFICES ASSUME outside # {} PROVE FALSE
  OBVIOUS
<1>1. PICK k \in outside : \A m \in outside : k <= m
  <2>1. outside \in SUBSET Nat
    OBVIOUS
  <2> HIDE DEF outside
  <2>. QED  BY <2>1, Least
<1>2. k \in 0..N /\ k # 0
  OBVIOUS
<1>3. k \in 1..N /\ k - 1 \in 0..N /\ ~(k <= k - 1)
  BY <1>2
<1>4. f[k - 1] \in S
  BY <1>1, <1>3
<1>. QED  BY <1>3, <1>4

-----------------------------------------------------------------------------
\* Relevance and connection are numbers, so the tables of a schema have an order.
LEMMA ScoreType ==
  ASSUME NEW schema \in Schemas, NEW t \in schema.tables, NEW asked
  PROVE  Retrieve!Score(t, asked) \in Int
<1>1. IsFiniteSet(t.name) /\ IsFiniteSet(t.columns) /\ IsFiniteSet(t.note) /\ IsFiniteSet(t.notes)
  BY SchemasAssumption
<1>2. ASSUME NEW S, IsFiniteSet(S), NEW T PROVE Cardinality(asked \cap (S \ T)) \in Int /\ Cardinality(asked \cap S) \in Int
  <2>1. IsFiniteSet(S \ T)
    BY <1>2, FS_Difference
  <2>2. IsFiniteSet(asked \cap (S \ T)) /\ IsFiniteSet(asked \cap S)
    BY <1>2, <2>1, FS_Intersection
  <2>. QED  BY <2>2, FS_CardinalityType
<1>3. /\ Cardinality(asked \cap t.name) \in Int
      /\ Cardinality(asked \cap (t.columns \ t.name)) \in Int
      /\ Cardinality(asked \cap (t.note \ (t.name \union t.columns))) \in Int
      /\ Cardinality(asked \cap (t.notes \ (t.name \union t.columns \union t.note))) \in Int
  BY <1>1, <1>2
<1>4. Retrieve!Score(t, asked) = 10 * Cardinality(asked \cap t.name)
        + 3 * Cardinality(asked \cap (t.columns \ t.name))
        + 2 * Cardinality(asked \cap (t.note \ (t.name \union t.columns)))
        + Cardinality(asked \cap (t.notes \ (t.name \union t.columns \union t.note)))
  BY CountsAlike DEF Retrieve!Score
<1>. QED  BY <1>3, <1>4

LEMMA DegreeType ==
  ASSUME NEW schema \in Schemas, NEW id
  PROVE  Retrieve!Degree(schema, id) \in Int
<1> DEFINE out == {k \in schema.keys : k.from = id}
           in == {k \in schema.keys : k.to = id}
<1>1. IsFiniteSet(schema.keys) /\ out \in SUBSET schema.keys /\ in \in SUBSET schema.keys
  BY SchemasAssumption
<1>2. Retrieve!Degree(schema, id) = Cardinality(out) + Cardinality(in)
  BY CountsAlike DEF Retrieve!Degree
<1> HIDE DEF out, in
<1>3. Cardinality(out) \in Nat /\ Cardinality(in) \in Nat
  BY <1>1, FS_Subset, FS_CardinalityType
<1>. QED  BY <1>2, <1>3

\* By one number, then by a second, then by a third that tells apart.
LEMMA NumbersOrder ==
  ASSUME NEW S, NEW before,
         NEW a \in [S -> Int], NEW b \in [S -> Int], NEW c \in [S -> Int],
         \A x, y \in S : c[x] = c[y] => x = y,
         \A x, y \in S : <<x, y>> \in before <=>
            \/ a[x] > a[y]
            \/ a[x] = a[y] /\ b[x] > b[y]
            \/ a[x] = a[y] /\ b[x] = b[y] /\ c[x] < c[y]
  PROVE  Orders(before, S)
<1>1. ASSUME NEW x \in S PROVE <<x, x>> \notin before
  <2>1. a[x] \in Int /\ b[x] \in Int /\ c[x] \in Int
    OBVIOUS
  <2>. QED  BY <2>1
<1>2. ASSUME NEW x \in S, NEW y \in S, NEW z \in S, <<x, y>> \in before, <<y, z>> \in before
      PROVE  <<x, z>> \in before
  <2>1. a[x] \in Int /\ b[x] \in Int /\ c[x] \in Int /\ a[y] \in Int /\ b[y] \in Int /\ c[y] \in Int
        /\ a[z] \in Int /\ b[z] \in Int /\ c[z] \in Int
    OBVIOUS
  <2>2. \/ a[x] > a[y]
        \/ a[x] = a[y] /\ b[x] > b[y]
        \/ a[x] = a[y] /\ b[x] = b[y] /\ c[x] < c[y]
    BY <1>2
  <2>3. \/ a[y] > a[z]
        \/ a[y] = a[z] /\ b[y] > b[z]
        \/ a[y] = a[z] /\ b[y] = b[z] /\ c[y] < c[z]
    BY <1>2
  <2>4. \/ a[x] > a[z]
        \/ a[x] = a[z] /\ b[x] > b[z]
        \/ a[x] = a[z] /\ b[x] = b[z] /\ c[x] < c[z]
    BY <2>1, <2>2, <2>3
  <2>. QED  BY <2>4
<1>3. ASSUME NEW x \in S, NEW y \in S, x # y PROVE <<x, y>> \in before \/ <<y, x>> \in before
  <2>1. a[x] \in Int /\ b[x] \in Int /\ c[x] \in Int /\ a[y] \in Int /\ b[y] \in Int /\ c[y] \in Int /\ c[x] # c[y]
    BY <1>3
  <2>. QED  BY <2>1
<1>. QED  BY <1>1, <1>2, <1>3 DEF Orders

LEMMA AheadOrders ==
  ASSUME NEW schema \in Schemas, NEW asked, NEW S \in SUBSET schema.tables
  PROVE  Orders(Retrieve!Ahead(schema, asked), S)
<1> DEFINE a == [t \in S |-> Retrieve!Score(t, asked)]
           b == [t \in S |-> Retrieve!Degree(schema, t.id)]
           c == [t \in S |-> t.id]
           before == Retrieve!Ahead(schema, asked)
<1>1. a \in [S -> Int] /\ b \in [S -> Int] /\ c \in [S -> Int]
  BY ScoreType, DegreeType, SchemasAssumption
<1>2. \A x, y \in S : c[x] = c[y] => x = y
  BY SchemasAssumption
<1>3. ASSUME NEW x \in S, NEW y \in S
      PROVE  <<x, y>> \in before <=> \/ a[x] > a[y]
                                     \/ a[x] = a[y] /\ b[x] > b[y]
                                     \/ a[x] = a[y] /\ b[x] = b[y] /\ c[x] < c[y]
  <2>1. <<x, y>> \in before <=>
          \/ Retrieve!Score(x, asked) - Retrieve!Score(y, asked) > 0
          \/ Retrieve!Score(x, asked) - Retrieve!Score(y, asked) = 0
             /\ Retrieve!Degree(schema, x.id) - Retrieve!Degree(schema, y.id) > 0
          \/ Retrieve!Score(x, asked) - Retrieve!Score(y, asked) = 0
             /\ Retrieve!Degree(schema, x.id) - Retrieve!Degree(schema, y.id) = 0
             /\ x.id < y.id
    BY DEF Retrieve!Ahead
  <2>2. Retrieve!Score(x, asked) \in Int /\ Retrieve!Score(y, asked) \in Int
        /\ Retrieve!Degree(schema, x.id) \in Int /\ Retrieve!Degree(schema, y.id) \in Int
    BY ScoreType, DegreeType
  <2>. QED  BY <2>1, <2>2
<1> HIDE DEF a, b, c, before
<1>4. Orders(before, S)
  BY <1>1, <1>2, <1>3, NumbersOrder
<1>. QED  BY <1>4 DEF before

LEMMA DirectMatches ==
  ASSUME NEW schema \in Schemas, NEW asked
  PROVE  Retrieve!Direct(schema, asked)
           \in Seq({t \in schema.tables : Retrieve!Matches(schema, asked) => Retrieve!Score(t, asked) > 0})
<1> DEFINE S == {t \in schema.tables : Retrieve!Matches(schema, asked) => Retrieve!Score(t, asked) > 0}
<1>1. S \in SUBSET schema.tables /\ IsFiniteSet(schema.tables)
  BY SchemasAssumption
<1>2. Retrieve!Direct(schema, asked) = Retrieve!InOrderOf(Retrieve!Ahead(schema, asked), S)
  BY DEF Retrieve!Direct
<1> HIDE DEF S
<1>3. IsFiniteSet(S) /\ Orders(Retrieve!Ahead(schema, asked), S)
  BY <1>1, FS_Subset, AheadOrders
<1>4. Retrieve!Direct(schema, asked) \in Seq(S)
  BY <1>2, <1>3, Listed
<1>. QED  BY <1>4 DEF S

(***************************************************************************)
(* One hop lists tables of the schema, each linked with one of the last.   *)
(***************************************************************************)
Walks(schema) == [order : Seq(schema.tables), next : Seq(schema.tables)]

LEMMA HopReaches ==
  ASSUME NEW schema \in Schemas, NEW walk \in Walks(schema)
  PROVE  /\ Retrieve!Hop(schema, walk) \in Walks(schema)
         /\ \E found \in Seq(schema.tables) :
              /\ Retrieve!Hop(schema, walk).order = walk.order \o found
              /\ \A n \in DOMAIN found : \E s \in Range(walk.next) : Retrieve!Linked(schema, s, found[n])
<1> DEFINE at(t) == {n \in DOMAIN walk.next : Retrieve!Linked(schema, walk.next[n], t)}
           reached == {t \in schema.tables \ Retrieve!Range(walk.order) : at(t) # {}}
           before == {p \in reached \X reached :
                        \/ Retrieve!Min(at(p[1])) < Retrieve!Min(at(p[2]))
                        \/ Retrieve!Min(at(p[1])) = Retrieve!Min(at(p[2])) /\ p[1].id < p[2].id}
           found == Retrieve!InOrderOf(before, reached)
           a == [t \in reached |-> 0 - Retrieve!Min(at(t))]
           b == [t \in reached |-> 0]
           c == [t \in reached |-> t.id]
<1>1. Retrieve!Hop(schema, walk) = [order |-> walk.order \o found, next |-> found]
  BY DEF Retrieve!Hop
<1>2. walk.order \in Seq(schema.tables) /\ walk.next \in Seq(schema.tables)
  BY DEF Walks
<1>3. reached \in SUBSET schema.tables /\ IsFiniteSet(reached)
  <2>1. reached \in SUBSET schema.tables
    OBVIOUS
  <2> HIDE DEF reached
  <2>. QED  BY <2>1, SchemasAssumption, FS_Subset
<1>4. ASSUME NEW t \in reached PROVE Retrieve!Min(at(t)) \in Int
  <2>1. at(t) # {} /\ at(t) \in SUBSET Nat
    <3>1. DOMAIN walk.next = 1..Len(walk.next) /\ Len(walk.next) \in Nat
      BY <1>2
    <3>. QED  BY <3>1
  <2> HIDE DEF at
  <2>2. \E n \in at(t) : \A m \in at(t) : n <= m
    BY <2>1, Least
  <2>3. Retrieve!Min(at(t)) \in at(t)
    BY <2>2 DEF Retrieve!Min
  <2>. QED  BY <2>1, <2>3
<1>5. \A t \in reached : t.id \in Int
  BY <1>3, SchemasAssumption
<1>6. \A x, y \in reached : x.id = y.id => x = y
  BY <1>3, SchemasAssumption
<1>7. ASSUME NEW t \in reached PROVE \E s \in Range(walk.next) : Retrieve!Linked(schema, s, t)
  BY <1>2 DEF Range
<1>8. \A x, y \in reached : <<x, y>> \in before <=>
        \/ Retrieve!Min(at(x)) < Retrieve!Min(at(y))
        \/ Retrieve!Min(at(x)) = Retrieve!Min(at(y)) /\ x.id < y.id
  <2> HIDE DEF at, reached
  <2>. QED  OBVIOUS
<1> HIDE DEF at, reached, before
<1>9. a \in [reached -> Int] /\ b \in [reached -> Int] /\ c \in [reached -> Int]
  BY <1>4, <1>5
<1>10. \A x, y \in reached : c[x] = c[y] => x = y
  BY <1>6
<1>11. \A x, y \in reached : <<x, y>> \in before <=>
            \/ a[x] > a[y]
            \/ a[x] = a[y] /\ b[x] > b[y]
            \/ a[x] = a[y] /\ b[x] = b[y] /\ c[x] < c[y]
  <2> SUFFICES ASSUME NEW x \in reached, NEW y \in reached
               PROVE  <<x, y>> \in before <=>
                        \/ a[x] > a[y]
                        \/ a[x] = a[y] /\ b[x] > b[y]
                        \/ a[x] = a[y] /\ b[x] = b[y] /\ c[x] < c[y]
    OBVIOUS
  <2>1. /\ a[x] = 0 - Retrieve!Min(at(x)) /\ a[y] = 0 - Retrieve!Min(at(y))
        /\ b[x] = 0 /\ b[y] = 0 /\ c[x] = x.id /\ c[y] = y.id
    OBVIOUS
  <2>2. /\ Retrieve!Min(at(x)) \in Int /\ Retrieve!Min(at(y)) \in Int
        /\ x.id \in Int /\ y.id \in Int
    BY <1>4, <1>5
  <2>3. <<x, y>> \in before <=>
          \/ Retrieve!Min(at(x)) < Retrieve!Min(at(y))
          \/ Retrieve!Min(at(x)) = Retrieve!Min(at(y)) /\ x.id < y.id
    BY <1>8
  <2> HIDE DEF a, b, c
  <2>. QED  BY <2>1, <2>2, <2>3
<1> HIDE DEF a, b, c
<1>12. found \in Seq(reached)
  <2>1. Orders(before, reached)
    BY <1>9, <1>10, <1>11, NumbersOrder
  <2>. QED  BY <1>3, <2>1, Listed
<1> HIDE DEF found
<1>13. found \in Seq(schema.tables) /\ \A n \in DOMAIN found : found[n] \in reached
  <2>1. Len(found) \in Nat /\ DOMAIN found = 1..Len(found) /\ found = [n \in 1..Len(found) |-> found[n]]
    BY <1>12
  <2>2. \A n \in DOMAIN found : found[n] \in reached
    BY <1>12
  <2>3. \A n \in 1..Len(found) : found[n] \in schema.tables
    BY <1>3, <2>1, <2>2
  <2>. QED  BY <2>1, <2>2, <2>3
<1>14. walk.order \o found \in Seq(schema.tables)
  <2> DEFINE order == walk.order
  <2>1. order \in Seq(schema.tables)
    BY <1>2
  <2> HIDE DEF order
  <2>2. order \o found \in Seq(schema.tables)
    BY <2>1, <1>13
  <2>. QED  BY <2>2 DEF order
<1>15. Retrieve!Hop(schema, walk) \in Walks(schema)
  BY <1>1, <1>13, <1>14 DEF Walks
<1>16. Retrieve!Hop(schema, walk).order = walk.order \o found
  BY <1>1
<1>17. \A n \in DOMAIN found : \E s \in Range(walk.next) : Retrieve!Linked(schema, s, found[n])
  BY <1>7, <1>13
<1>. QED  BY <1>13, <1>15, <1>16, <1>17

(***************************************************************************)
(* The order of the walk: tables of the schema, and with one hop from      *)
(* tables that match, each of them or linked with one of them.             *)
(***************************************************************************)
LEMMA OrderReaches ==
  ASSUME NEW schema \in Schemas, NEW asked
  PROVE  LET order == Retrieve!Order(schema, asked, Selecting)
         IN  /\ order \in Seq(schema.tables)
             /\ Selecting.linkDepth = 1 /\ Retrieve!Matches(schema, asked) =>
                  \A n \in DOMAIN order :
                    \/ Retrieve!Score(order[n], asked) > 0
                    \/ \E s \in schema.tables :
                         Retrieve!Score(s, asked) > 0 /\ Retrieve!Linked(schema, s, order[n])
<1> DEFINE direct == Retrieve!Direct(schema, asked)
           count == IF Len(direct) < Selecting.maxTables THEN Len(direct) ELSE Selecting.maxTables
           start == [order |-> direct, next |-> SubSeq(direct, 1, count)]
           depth == Selecting.linkDepth
           walk[h \in 0..depth] == IF h = 0 THEN start ELSE Retrieve!Hop(schema, walk[h - 1])
           matching == {t \in schema.tables : Retrieve!Matches(schema, asked) => Retrieve!Score(t, asked) > 0}
<1>1. Retrieve!Order(schema, asked, Selecting) = walk[depth].order
  BY DEF Retrieve!Order
<1>2. depth \in Nat /\ Selecting.maxTables \in Nat
  BY SelectingAssumption
<1>3. direct \in Seq(matching)
  BY DirectMatches
<1>4. direct \in Seq(schema.tables)
  <2>1. matching \subseteq schema.tables
    OBVIOUS
  <2> HIDE DEF direct, matching
  <2>. QED  BY <1>3, <2>1
<1>5. start \in Walks(schema) /\ start.order = direct /\ \A n \in DOMAIN start.next : start.next[n] \in matching
  <2>1. count \in 0..Len(direct)
    <3> HIDE DEF direct
    <3>. QED  BY <1>2, <1>4
  <2> HIDE DEF count, direct, matching
  <2>2. SubSeq(direct, 1, count) \in Seq(schema.tables) /\ SubSeq(direct, 1, count) \in Seq(matching)
    <3>1. Len(direct) \in Nat /\ DOMAIN direct = 1..Len(direct)
      BY <1>4
    <3>2. \A n \in 1..count : n \in DOMAIN direct /\ 1 + n - 1 = n
      BY <2>1, <3>1
    <3>3. SubSeq(direct, 1, count) = [n \in 1..count |-> direct[n]]
      BY <1>4, <2>1, <3>1, <3>2
    <3>4. \A n \in 1..count : direct[n] \in schema.tables /\ direct[n] \in matching
      BY <1>3, <1>4, <3>2
    <3>5. count \in Nat
      BY <2>1, <3>1
    <3>6. [n \in 1..count |-> direct[n]] \in Seq(schema.tables) /\ [n \in 1..count |-> direct[n]] \in Seq(matching)
      BY <3>4, <3>5
    <3>. QED  BY <3>3, <3>6
  <2>3. \A n \in DOMAIN SubSeq(direct, 1, count) : SubSeq(direct, 1, count)[n] \in matching
    BY <2>2
  <2>. QED  BY <1>4, <2>2, <2>3 DEF Walks
<1> HIDE DEF start, depth
<1> DEFINE step == [h \in 1..depth |-> [w \in Walks(schema) |-> Retrieve!Hop(schema, w)]]
<1>6. step \in [1..depth -> [Walks(schema) -> Walks(schema)]]
  BY HopReaches
<1>7. PICK f \in [0..depth -> Walks(schema)] : f[0] = start /\ \A h \in 1..depth : f[h] = step[h][f[h - 1]]
  <2>1. start \in Walks(schema) /\ depth \in Nat
    BY <1>2, <1>5
  <2> HIDE DEF step
  <2> DEFINE W == Walks(schema)
  <2>2. start \in W /\ step \in [1..depth -> [W -> W]]
    BY <2>1, <1>6
  <2> HIDE DEF W, step, depth
  <2>3. \E f \in [0..depth -> W] : Steps(f, depth, start, step)
    BY <2>1, <2>2, Iterates
  <2>. QED  BY <2>3 DEF W, Steps
<1>8. f = [h \in 0..depth |-> IF h = 0 THEN start ELSE Retrieve!Hop(schema, f[h - 1])]
  <2>1. ASSUME NEW h \in 0..depth, h # 0 PROVE f[h] = Retrieve!Hop(schema, f[h - 1])
    <3>1. h \in 1..depth /\ h - 1 \in 0..depth
      BY <1>2, <2>1
    <3>2. f[h - 1] \in Walks(schema)
      BY <1>7, <3>1
    <3>. QED  BY <1>7, <3>1, <3>2
  <2>2. f = [h \in 0..depth |-> f[h]]
    BY <1>7
  <2> HIDE DEF step
  <2>. QED  BY <1>7, <2>1, <2>2
<1>9. walk = [h \in 0..depth |-> IF h = 0 THEN start ELSE Retrieve!Hop(schema, walk[h - 1])]
  BY <1>8
<1> HIDE DEF walk
<1>10. walk[0] = start /\ \A h \in 1..depth : walk[h] = Retrieve!Hop(schema, walk[h - 1])
  BY <1>2, <1>9
<1>11. \A h \in 0..depth : walk[h] \in Walks(schema)
  <2>1. \A h \in 1..depth : walk[h - 1] \in Walks(schema) => walk[h] \in Walks(schema)
    BY <1>10, HopReaches
  <2>. QED  BY <1>2, <1>5, <1>10, <2>1, Stays
<1>12. walk[depth].order \in Seq(schema.tables)
  BY <1>2, <1>11 DEF Walks
<1>13. ASSUME depth = 1, Retrieve!Matches(schema, asked), NEW n \in DOMAIN walk[depth].order
       PROVE  LET t == walk[depth].order[n]
              IN  \/ Retrieve!Score(t, asked) > 0
                  \/ \E s \in schema.tables : Retrieve!Score(s, asked) > 0 /\ Retrieve!Linked(schema, s, t)
  <2>1. walk[1] = Retrieve!Hop(schema, start)
    BY <1>10, <1>13
  <2>2. PICK found \in Seq(schema.tables) :
          /\ walk[1].order = direct \o found
          /\ \A m \in DOMAIN found : \E s \in Range(start.next) : Retrieve!Linked(schema, s, found[m])
    BY <1>5, <2>1, HopReaches
  <2>3. \A t \in matching : t \in schema.tables /\ Retrieve!Score(t, asked) > 0
    BY <1>13
  <2> HIDE DEF direct, matching
  <2>4. n \in 1..(Len(direct) + Len(found))
    BY <1>4, <1>13, <2>2
  <2>5. CASE n <= Len(direct)
    <3>1. walk[1].order[n] = direct[n] /\ direct[n] \in matching
      BY <1>3, <1>4, <2>2, <2>4, <2>5
    <3>. QED  BY <1>13, <2>3, <3>1
  <2>6. CASE ~(n <= Len(direct))
    <3> DEFINE m == n - Len(direct)
    <3>1. m \in DOMAIN found /\ walk[1].order[n] = found[m]
      BY <1>4, <2>2, <2>4, <2>6
    <3>2. PICK s \in Range(start.next) : Retrieve!Linked(schema, s, found[m])
      BY <2>2, <3>1
    <3>3. s \in matching
      BY <1>5, <3>2 DEF Range
    <3>. QED  BY <1>13, <2>3, <3>1, <3>2, <3>3
  <2>. QED  BY <2>5, <2>6
<1>. QED  BY <1>1, <1>12, <1>13 DEF depth

\* What the tables chosen cost is a number, and nothing costs nothing.
LEMMA TokensType ==
  ASSUME NEW schema \in Schemas, NEW chosen \in Seq(schema.tables)
  PROVE  Retrieve!Tokens(schema, chosen) \in Int /\ (Len(chosen) = 0 => Retrieve!Tokens(schema, chosen) = 0)
<1> DEFINE N == Len(chosen)
           sizes[n \in 0..N] == IF n = 0 THEN 0 ELSE sizes[n - 1] + chosen[n].size
           keys == Retrieve!Among(schema.keys, Retrieve!Ids(Retrieve!Range(chosen)))
           step == [n \in 1..N |-> [s \in Int |-> s + chosen[n].size]]
<1>1. Retrieve!Tokens(schema, chosen) = sizes[N] + Cardinality(keys)
  BY CountsAlike DEF Retrieve!Tokens
<1>2. Cardinality(keys) \in Nat
  <2>1. keys \in SUBSET schema.keys /\ IsFiniteSet(schema.keys)
    BY SchemasAssumption DEF Retrieve!Among
  <2> HIDE DEF keys
  <2>. QED  BY <2>1, FS_Subset, FS_CardinalityType
<1>3. N \in Nat /\ \A n \in 1..N : chosen[n].size \in Int
  BY SchemasAssumption
<1> HIDE DEF N
<1>4. step \in [1..N -> [Int -> Int]]
  BY <1>3
<1>5. PICK f \in [0..N -> Int] : Steps(f, N, 0, step)
  <2> HIDE DEF step
  <2>1. 0 \in Int
    OBVIOUS
  <2>. QED  BY <1>3, <1>4, <2>1, Iterates
<1>6. f = [n \in 0..N |-> IF n = 0 THEN 0 ELSE f[n - 1] + chosen[n].size]
  <2>1. ASSUME NEW n \in 0..N, n # 0 PROVE f[n] = f[n - 1] + chosen[n].size
    <3>1. n \in 1..N /\ n - 1 \in 0..N
      BY <1>3, <2>1
    <3>. QED  BY <1>5, <3>1 DEF Steps
  <2>2. f[0] = 0 /\ f = [n \in 0..N |-> f[n]]
    BY <1>5 DEF Steps
  <2> HIDE DEF step
  <2>. QED  BY <2>1, <2>2
<1>7. sizes = [n \in 0..N |-> IF n = 0 THEN 0 ELSE sizes[n - 1] + chosen[n].size]
  BY <1>6
<1> HIDE DEF sizes, keys
<1>8. sizes[0] = 0 /\ \A n \in 1..N : sizes[n] = sizes[n - 1] + chosen[n].size
  BY <1>3, <1>7
<1>9. \A n \in 0..N : sizes[n] \in Int
  <2>1. \A n \in 1..N : sizes[n - 1] \in Int => sizes[n] \in Int
    <3> SUFFICES ASSUME NEW n \in 1..N, sizes[n - 1] \in Int PROVE sizes[n] \in Int
      OBVIOUS
    <3>1. chosen[n].size \in Int /\ sizes[n] = sizes[n - 1] + chosen[n].size
      BY <1>3, <1>8
    <3>. QED  BY <3>1
  <2>2. sizes[0] \in Int
    BY <1>8
  <2>. QED  BY <1>3, <2>1, <2>2, Stays
<1>10. Retrieve!Tokens(schema, chosen) \in Int
  BY <1>1, <1>2, <1>3, <1>9
<1>11. ASSUME Len(chosen) = 0 PROVE Retrieve!Tokens(schema, chosen) = 0
  <2>1. N = 0
    BY <1>11 DEF N
  <2>2. Retrieve!Range(chosen) = {}
    BY <1>11 DEF Retrieve!Range
  <2>3. Retrieve!Ids(Retrieve!Range(chosen)) = {}
    BY <2>2 DEF Retrieve!Ids
  <2>4. keys = {}
    BY <2>3 DEF keys, Retrieve!Among
  <2>5. Cardinality(keys) = 0
    BY <2>4, FS_EmptySet
  <2>. QED  BY <1>1, <1>8, <2>1, <2>5
<1>. QED  BY <1>10, <1>11

(***************************************************************************)
(* What is chosen is of the order given, within the number of tables, and  *)
(* within the tokens unless it is the first alone.                         *)
(***************************************************************************)
Within(schema, order) ==
  {c \in Seq(Retrieve!Range(order)) :
     /\ Len(c) <= Selecting.maxTables
     /\ Len(c) <= 1 \/ Retrieve!Tokens(schema, c) <= Selecting.maxTokens}

LEMMA ChosenWithin ==
  ASSUME NEW schema \in Schemas, NEW order \in Seq(schema.tables)
  PROVE  Retrieve!Chosen(schema, order, Selecting) \in Within(schema, order)
<1> DEFINE N == Len(order)
           W == Within(schema, order)
           more(c, t) == IF Retrieve!Fits(schema, c, t, Selecting) THEN Append(c, t) ELSE c
           kept[n \in 0..N] == IF n = 0 THEN <<>>
                               ELSE IF Retrieve!Fits(schema, kept[n - 1], order[n], Selecting)
                                    THEN Append(kept[n - 1], order[n])
                               ELSE kept[n - 1]
           step == [n \in 1..N |-> [c \in W |-> more(c, order[n])]]
<1>1. Retrieve!Chosen(schema, order, Selecting) = kept[N]
  BY DEF Retrieve!Chosen
<1>2. N \in Nat
  OBVIOUS
<1>3. <<>> \in W
  BY SelectingAssumption DEF Within
<1>4. ASSUME NEW n \in 1..N, NEW c \in W PROVE more(c, order[n]) \in W
  <2>1. order[n] \in Retrieve!Range(order)
    BY DEF Retrieve!Range
  <2>2. c \in Seq(Retrieve!Range(order)) /\ Len(c) \in Nat
    BY DEF Within
  <2> DEFINE t == order[n]
  <2> HIDE DEF t, N
  <2>3. ASSUME Retrieve!Fits(schema, c, t, Selecting) PROVE Append(c, t) \in W
    <3>1. Append(c, t) \in Seq(Retrieve!Range(order)) /\ Len(Append(c, t)) = Len(c) + 1
      BY <2>1, <2>2 DEF t
    <3>2. Len(c) < Selecting.maxTables /\ Selecting.maxTables \in Nat
      BY <2>3, SelectingAssumption DEF Retrieve!Fits
    <3>3. Len(Append(c, t)) <= Selecting.maxTables
      BY <2>2, <3>1, <3>2
    <3>4. CASE c = <<>>
      BY <3>1, <3>3, <3>4 DEF Within
    <3>5. CASE c # <<>>
      <4>1. Retrieve!Tokens(schema, Append(c, t)) <= Selecting.maxTokens
        BY <2>3, <3>5 DEF Retrieve!Fits
      <4>. QED  BY <3>1, <3>3, <4>1 DEF Within
    <3>. QED  BY <3>4, <3>5
  <2>. QED  BY <2>3 DEF t
<1> HIDE DEF N, W, more
<1>5. step \in [1..N -> [W -> W]]
  BY <1>4
<1>6. PICK f \in [0..N -> W] : Steps(f, N, <<>>, step)
  <2> HIDE DEF step
  <2>. QED  BY <1>2, <1>3, <1>5, Iterates
<1>7. f = [n \in 0..N |-> IF n = 0 THEN <<>>
                          ELSE IF Retrieve!Fits(schema, f[n - 1], order[n], Selecting) THEN Append(f[n - 1], order[n])
                          ELSE f[n - 1]]
  <2>1. ASSUME NEW n \in 0..N, n # 0 PROVE f[n] = more(f[n - 1], order[n])
    <3>1. n \in 1..N /\ n - 1 \in 0..N
      BY <1>2, <2>1
    <3>2. f[n - 1] \in W
      BY <1>6, <3>1
    <3>. QED  BY <1>6, <3>1, <3>2 DEF Steps
  <2>2. f[0] = <<>> /\ f = [n \in 0..N |-> f[n]]
    BY <1>6 DEF Steps
  <2> HIDE DEF step
  <2>. QED  BY <2>1, <2>2 DEF more
<1>8. kept = [n \in 0..N |-> IF n = 0 THEN <<>>
                             ELSE IF Retrieve!Fits(schema, kept[n - 1], order[n], Selecting)
                                  THEN Append(kept[n - 1], order[n])
                             ELSE kept[n - 1]]
  BY <1>7
<1> HIDE DEF kept
<1>9. kept[0] = <<>> /\ \A n \in 1..N : kept[n] = more(kept[n - 1], order[n])
  <2>1. kept[0] = <<>>
    BY <1>2, <1>8
  <2>2. ASSUME NEW n \in 1..N PROVE kept[n] = more(kept[n - 1], order[n])
    <3>1. n \in 0..N /\ n # 0
      BY <1>2
    <3>. QED  BY <1>8, <3>1 DEF more
  <2>. QED  BY <2>1, <2>2
<1>10. \A n \in 0..N : kept[n] \in W
  <2>1. \A n \in 1..N : kept[n - 1] \in W => kept[n] \in W
    BY <1>4, <1>9
  <2>. QED  BY <1>2, <1>3, <1>9, <2>1, Stays
<1>. QED  BY <1>1, <1>2, <1>10 DEF W

\* A list has no more members than places.
LEMMA MembersFit ==
  ASSUME NEW S, NEW list \in Seq(S)
  PROVE  /\ IsFiniteSet(Range(list)) /\ Cardinality(Range(list)) <= Len(list)
         /\ Cardinality(Range(list)) \in Nat
         /\ Len(list) = 1 => Cardinality(Range(list)) = 1
<1> DEFINE N == Len(list)
<1>1. N \in Nat /\ DOMAIN list = 1..N /\ list = [n \in 1..N |-> list[n]]
  OBVIOUS
<1> HIDE DEF N
<1>2. IsFiniteSet(1..N) /\ Cardinality(1..N) = N
  <2>1. 1 \in Int /\ N \in Int
    BY <1>1
  <2>2. IsFiniteSet(1..N) /\ Cardinality(1..N) = IF 1 > N THEN 0 ELSE N - 1 + 1
    BY <2>1, FS_Interval
  <2>. QED  BY <1>1, <2>2
<1>3. list \in Surjection(1..N, Range(list))
  BY <1>1 DEF Surjection, Range
<1>4. IsFiniteSet(Range(list)) /\ Cardinality(Range(list)) <= N
  BY <1>2, <1>3, FS_Surjection
<1>5. ASSUME N = 1 PROVE Cardinality(Range(list)) = 1
  <2>1. Range(list) = {list[1]}
    BY <1>1, <1>5 DEF Range
  <2>. QED  BY <2>1, FS_Singleton
<1>. QED  BY <1>4, <1>5, FS_CardinalityType DEF N

(***************************************************************************)
(* What is selected: tables of the schema, within the budgets but for a    *)
(* first table kept whatever it costs, the ones that match and their       *)
(* neighbours, and the keys among them.                                    *)
(***************************************************************************)
LEMMA Selected ==
  ASSUME NEW schema \in Schemas, NEW asked
  PROVE  LET selection == Retrieve!SelectTables(schema, asked, Selecting)
             named == {t \in schema.tables : Retrieve!Score(t, asked) > 0}
         IN  /\ selection.tables \subseteq schema.tables
             /\ Cardinality(selection.tables) <= Selecting.maxTables
             /\ selection.tokens > Selecting.maxTokens => Cardinality(selection.tables) = 1
             /\ named # {} /\ Selecting.linkDepth = 1 =>
                  \A t \in selection.tables \ named :
                    \E u \in named, k \in schema.keys : {k.from, k.to} = {t.id, u.id}
             /\ \A k \in selection.keys : {k.from, k.to} \subseteq {t.id : t \in selection.tables}
<1> DEFINE order == Retrieve!Order(schema, asked, Selecting)
           chosen == Retrieve!Chosen(schema, order, Selecting)
           tables == Retrieve!Range(chosen)
           selection == Retrieve!SelectTables(schema, asked, Selecting)
           named == {t \in schema.tables : Retrieve!Score(t, asked) > 0}
<1>1. /\ selection.tables = tables
      /\ selection.keys = Retrieve!Among(schema.keys, Retrieve!Ids(tables))
      /\ selection.tokens = Retrieve!Tokens(schema, chosen)
  BY DEF Retrieve!SelectTables
<1>2. /\ order \in Seq(schema.tables)
      /\ Selecting.linkDepth = 1 /\ Retrieve!Matches(schema, asked) =>
           \A n \in DOMAIN order :
             \/ Retrieve!Score(order[n], asked) > 0
             \/ \E s \in schema.tables :
                  Retrieve!Score(s, asked) > 0 /\ Retrieve!Linked(schema, s, order[n])
  BY OrderReaches
<1> HIDE DEF order
<1>3. chosen \in Within(schema, order)
  BY <1>2, ChosenWithin
<1> HIDE DEF chosen, selection
<1>4. /\ chosen \in Seq(Retrieve!Range(order)) /\ Len(chosen) <= Selecting.maxTables
      /\ Len(chosen) <= 1 \/ Retrieve!Tokens(schema, chosen) <= Selecting.maxTokens
  BY <1>3 DEF Within
<1>5. Retrieve!Range(order) \subseteq schema.tables
  BY <1>2 DEF Retrieve!Range
<1>6. tables \subseteq Retrieve!Range(order)
  BY <1>4 DEF Retrieve!Range
<1>7. chosen \in Seq(schema.tables) /\ Len(chosen) \in Nat
  <2>1. chosen \in Seq(Retrieve!Range(order))
    BY <1>4
  <2> HIDE DEF tables
  <2>. QED  BY <1>5, <2>1
<1>8. tables = Range(chosen)
  BY DEF Retrieve!Range, Range
<1>9. /\ Cardinality(tables) <= Len(chosen) /\ Cardinality(tables) \in Nat
      /\ Len(chosen) = 1 => Cardinality(tables) = 1
  <2> HIDE DEF tables
  <2>. QED  BY <1>7, <1>8, MembersFit
<1>10. Cardinality(tables) <= Selecting.maxTables
  <2> HIDE DEF tables
  <2>. QED  BY <1>4, <1>7, <1>9, SelectingAssumption
<1>11. ASSUME Retrieve!Tokens(schema, chosen) > Selecting.maxTokens PROVE Cardinality(tables) = 1
  <2>1. Retrieve!Tokens(schema, chosen) \in Int /\ (Len(chosen) = 0 => Retrieve!Tokens(schema, chosen) = 0)
    BY <1>7, TokensType
  <2>2. Selecting.maxTokens \in Nat
    BY SelectingAssumption
  <2>3. Len(chosen) # 0 /\ Len(chosen) <= 1
    BY <1>4, <1>11, <2>1, <2>2
  <2>4. \A n \in Nat : n # 0 /\ n <= 1 => n = 1
    OBVIOUS
  <2>5. Len(chosen) = 1
    <3>1. Len(chosen) \in Nat
      BY <1>7
    <3>. QED  BY <2>3, <2>4, <3>1
  <2>. QED  BY <1>9, <2>5
<1>12. ASSUME named # {}, Selecting.linkDepth = 1, NEW t \in tables \ named
       PROVE  \E u \in named, k \in schema.keys : {k.from, k.to} = {t.id, u.id}
  <2>1. Retrieve!Matches(schema, asked)
    BY <1>12 DEF Retrieve!Matches
  <2>2. PICK n \in DOMAIN order : order[n] = t
    BY <1>6 DEF Retrieve!Range
  <2>3. t \in schema.tables /\ ~(Retrieve!Score(t, asked) > 0)
    BY <1>5, <1>6
  <2>4. PICK s \in schema.tables : Retrieve!Score(s, asked) > 0 /\ Retrieve!Linked(schema, s, t)
    BY <1>2, <1>12, <2>1, <2>2, <2>3
  <2>5. s \in named
    BY <2>4
  <2>6. PICK k \in schema.keys : {k.from, k.to} = {s.id, t.id}
    BY <2>4 DEF Retrieve!Linked
  <2>7. {s.id, t.id} = {t.id, s.id}
    OBVIOUS
  <2>. QED  BY <2>5, <2>6, <2>7
<1>13. ASSUME NEW k \in selection.keys PROVE {k.from, k.to} \subseteq {t.id : t \in tables}
  BY <1>1 DEF Retrieve!Among, Retrieve!Ids
<1> HIDE DEF tables, named
<1>14. /\ selection.tables \subseteq schema.tables
       /\ Cardinality(selection.tables) <= Selecting.maxTables
       /\ selection.tokens > Selecting.maxTokens => Cardinality(selection.tables) = 1
       /\ named # {} /\ Selecting.linkDepth = 1 =>
            \A t \in selection.tables \ named :
              \E u \in named, k \in schema.keys : {k.from, k.to} = {t.id, u.id}
       /\ \A k \in selection.keys : {k.from, k.to} \subseteq {t.id : t \in selection.tables}
  BY <1>1, <1>5, <1>6, <1>10, <1>11, <1>12, <1>13
<1>. QED  BY <1>14 DEF selection, named

\* A glossary line names nothing but the tables it is rendered for and their
\* columns, and what is passed over in its expression.
LEMMA LinesSpeakOfTables ==
  ASSUME NEW glossary, NEW tables, NEW n \in DOMAIN G!RenderGlossary(glossary, tables, MaxEntries)
  PROVE  LET line == G!RenderGlossary(glossary, tables, MaxEntries)[n]
         IN  line.names \union (line.sql \ line.passed) \subseteq UNION {{t.called} \union t.holds : t \in tables}
<1> DEFINE known == UNION {{t.called} \union t.holds : t \in tables}
<1>1. ASSUME NEW t \in tables PROVE t.called \in known /\ t.holds \subseteq known
  OBVIOUS
<1>2. ASSUME NEW entry PROVE G!Declared(entry, tables) \subseteq known
  BY <1>1 DEF G!Declared, G!Found
<1>3. ASSUME NEW entry PROVE G!Uses(entry, tables) \subseteq known
  BY <1>1 DEF G!Uses, G!Found
<1> HIDE DEF known
<1>4. ASSUME NEW entry
      PROVE  LET line == G!Line(entry, tables) IN line.names \union (line.sql \ line.passed) \subseteq known
  <2>1. ASSUME G!ShowsSql(entry, tables) PROVE entry.sql.names \ entry.sql.passed \subseteq G!Declared(entry, tables)
    BY <2>1 DEF G!ShowsSql, G!FragmentIssues
  <2>2. /\ G!Line(entry, tables).names = G!Uses(entry, tables)
        /\ G!Line(entry, tables).sql = IF G!ShowsSql(entry, tables) THEN entry.sql.names ELSE {}
        /\ G!Line(entry, tables).passed = IF G!ShowsSql(entry, tables) THEN entry.sql.passed ELSE {}
    BY DEF G!Line
  <2>. QED  BY <1>2, <1>3, <2>1, <2>2
<1>5. \E entry : G!RenderGlossary(glossary, tables, MaxEntries)[n] = G!Line(entry, tables)
  BY DEF G!RenderGlossary
<1>. QED  BY <1>4, <1>5 DEF known

(***************************************************************************)
(* A prompt tells the model of what the schema has and the budgets allow,  *)
(* for every schema, glossary and question: see PromptIsGrounded.          *)
(***************************************************************************)
THEOREM GroundedPrompts == PathSpec => []PromptIsGrounded
<1>1. ASSUME PathInv, NEW q \in Questions, pc[q] = "model"
      PROVE  LET prompt == work[q]
                 tables == prompt.selection.tables
                 named  == {t \in prompt.schema.tables :
                              Retrieve!Score(t, G!SearchWords(prompt.glossary, prompt.asked, MaxTerms)) > 0}
             IN  /\ tables \subseteq prompt.schema.tables
                 /\ Cardinality(tables) <= Selecting.maxTables
                 /\ prompt.selection.tokens > Selecting.maxTokens => Cardinality(tables) = 1
                 /\ named # {} /\ Selecting.linkDepth = 1 =>
                      \A t \in tables \ named :
                        \E u \in named, k \in prompt.schema.keys : {k.from, k.to} = {t.id, u.id}
                 /\ \A k \in prompt.selection.keys : {k.from, k.to} \subseteq {t.id : t \in tables}
                 /\ \A n \in DOMAIN prompt.lines :
                      prompt.lines[n].names \union (prompt.lines[n].sql \ prompt.lines[n].passed)
                        \subseteq UNION {{t.called} \union t.holds : t \in tables}
  <2>1. PICK schema \in Schemas : \E asked \in Asked : work[q] = Prompt(schema, G!Vetted(Host, schema), asked)
    BY <1>1 DEF PathInv, WorkInv, InHand, Made
  <2>2. PICK asked \in Asked : work[q] = Prompt(schema, G!Vetted(Host, schema), asked)
    BY <2>1
  <2> DEFINE glossary == G!Vetted(Host, schema)
             words == G!SearchWords(glossary, asked, MaxTerms)
             selection == Retrieve!SelectTables(schema, words, Selecting)
  <2>3. /\ work[q].schema = schema /\ work[q].glossary = glossary /\ work[q].asked = asked
        /\ work[q].selection = selection
        /\ work[q].lines = G!RenderGlossary(glossary, selection.tables, MaxEntries)
    BY <2>2 DEF Prompt
  <2> HIDE DEF glossary
  <2>4. G!SearchWords(work[q].glossary, work[q].asked, MaxTerms) = words
    BY <2>3
  <2> HIDE DEF words
  <2> DEFINE named == {t \in schema.tables : Retrieve!Score(t, words) > 0}
  <2>5. /\ selection.tables \subseteq schema.tables
        /\ Cardinality(selection.tables) <= Selecting.maxTables
        /\ selection.tokens > Selecting.maxTokens => Cardinality(selection.tables) = 1
        /\ named # {} /\ Selecting.linkDepth = 1 =>
             \A t \in selection.tables \ named :
               \E u \in named, k \in schema.keys : {k.from, k.to} = {t.id, u.id}
        /\ \A k \in selection.keys : {k.from, k.to} \subseteq {t.id : t \in selection.tables}
    BY Selected
  <2> HIDE DEF selection
  <2>6. \A n \in DOMAIN work[q].lines :
          work[q].lines[n].names \union (work[q].lines[n].sql \ work[q].lines[n].passed)
            \subseteq UNION {{t.called} \union t.holds : t \in work[q].selection.tables}
    BY <2>3, LinesSpeakOfTables
  <2>7. named = {t \in work[q].schema.tables :
                   Retrieve!Score(t, G!SearchWords(work[q].glossary, work[q].asked, MaxTerms)) > 0}
    BY <2>3, <2>4
  <2> HIDE DEF named
  <2>. QED  BY <2>3, <2>5, <2>6, <2>7
<1>2. PathInv => PromptIsGrounded
  BY <1>1 DEF PromptIsGrounded
<1>. QED  BY <1>2, PathHolds, PTL
=============================================================================
