---------------------------- MODULE CorpusRunner ----------------------------
(***************************************************************************)
(* The evaluation harness (eval/src): runCorpus lets a number of workers   *)
(* take cases off one list until their cost reaches a cap, and             *)
(* evaluateGate makes a verdict of the results.                            *)
(*                                                                         *)
(* Workers share the event loop: between two awaits a worker is alone.     *)
(* What a case costs and how it ends is the environment's; of a cost only  *)
(* what an outcome reports is counted, an attempt that throws has none.    *)
(***************************************************************************)
EXTENDS Integers, Sequences, FiniteSets

CONSTANTS
  Tiers,        (* The tier of each case, a sequence.                      *)
  Workers,      (* The concurrency.                                        *)
  Cap,          (* spendCapUsd.                                            *)
  MaxAttempts,
  MaxCost,      (* Bound of the model: what a case may cost.               *)
  Policies,     (* The gate's: [tier, zero, floor, prior], in percent; prior may be Unset. *)
  MaxInfra,     (* maxInfraRate and regressionTolerance, in percent.       *)
  Tolerance,
  Unset

ASSUME RunnerAssumption ==
  /\ Workers \in Nat \ {0} /\ Cap \in Nat \ {0} /\ MaxAttempts \in Nat \ {0} /\ MaxCost \in Nat
  /\ Tiers \in Seq(STRING)

\* TierPolicy: what is in percent is a number, and the baseline may know no rate.
ASSUME GateAssumption ==
  /\ {MaxInfra, Tolerance} \subseteq Int
  /\ \A p \in Policies : p.zero \in BOOLEAN /\ p.floor \in Int /\ p.prior \in Int \union {Unset}

VARIABLES
  cursor,   (* The next case.                                              *)
  at,       (* The case a worker runs, 0 when it has returned.             *)
  attempt,  (* The attempts that case has had, the running one included.   *)
  results,  (* What became of each case.                                   *)
  spent,
  aborted

runnerVars == <<cursor, at, attempt, results, spent, aborted>>

Cases == 1..Len(Tiers)
Staff == {w \in 1..Workers : w <= Len(Tiers)}
Pending == [status |-> "none", cost |-> 0]
Skipped == [status |-> "SKIPPED_CAP", cost |-> 0]

\* Every worker runs up to its first await: it takes a case.
InitRunner ==
  /\ cursor = Cardinality(Staff) + 1
  /\ at = [w \in Staff |-> w]
  /\ attempt = [w \in Staff |-> 1]
  /\ results = [i \in Cases |-> Pending]
  /\ spent = 0
  /\ aborted = FALSE

\* Slip: the cap is looked at before the cost is added.
HitsLate(cost) == spent >= Cap

Hits(cost) == spent + cost >= Cap

\* What is left when the run is aborted is skipped, by one worker in one turn.
PassOver(record) == [i \in Cases |-> IF i >= cursor THEN Skipped ELSE record[i]]

\* The result is noted, the cap checked and the next case taken, in one turn.
Settles(w, result) ==
  LET noted == [results EXCEPT ![at[w]] = result] IN
  /\ spent' = spent + result.cost
  /\ aborted' = (aborted \/ Hits(result.cost))
  /\ IF aborted'
     THEN /\ results' = PassOver(noted)
          /\ cursor' = Len(Tiers) + 1
          /\ at' = [at EXCEPT ![w] = 0]
     ELSE /\ results' = noted
          /\ IF cursor \in Cases
             THEN at' = [at EXCEPT ![w] = cursor] /\ cursor' = cursor + 1
             ELSE at' = [at EXCEPT ![w] = 0] /\ UNCHANGED cursor
  /\ attempt' = [attempt EXCEPT ![w] = 1]

Comes(w) ==
  /\ at[w] # 0
  /\ \E status \in {"PASS", "FAIL"}, cost \in 0..MaxCost : Settles(w, [status |-> status, cost |-> cost])

\* runCase: a transient error is tried again after a sleep.
Retries(w) ==
  /\ at[w] # 0 /\ attempt[w] < MaxAttempts
  /\ attempt' = [attempt EXCEPT ![w] = @ + 1]
  /\ UNCHANGED <<cursor, at, results, spent, aborted>>

\* Any other, or the last one, is an error of the infrastructure.
Breaks(w) ==
  /\ at[w] # 0
  /\ Settles(w, [status |-> "INFRA_ERROR", cost |-> 0])

NextRunner == \E w \in Staff : Comes(w) \/ Retries(w) \/ Breaks(w)

RunnerSpec == InitRunner /\ [][NextRunner]_runnerVars

Ended == \A w \in Staff : at[w] = 0

(***************************************************************************)
(* evaluateGate, over what the run returned.                               *)
(***************************************************************************)
Rows(tier) == {i \in Cases : Tiers[i] = tier}
Count(tier, status) == Cardinality({i \in Rows(tier) : results[i].status = status})
Scored(tier) == Count(tier, "PASS") + Count(tier, "FAIL")

TooMuchInfra(tier) == 100 * Count(tier, "INFRA_ERROR") > MaxInfra * (Scored(tier) + Count(tier, "INFRA_ERROR"))

Below(tier, percent) == 100 * Count(tier, "PASS") < percent * Scored(tier)

Inconclusive(tier) == Scored(tier) = 0 \/ TooMuchInfra(tier) \/ Count(tier, "SKIPPED_CAP") > 0

ScoreTier(p) ==
  IF Inconclusive(p.tier) THEN "INCONCLUSIVE"
  ELSE IF \/ p.zero /\ Count(p.tier, "FAIL") > 0
          \/ Below(p.tier, p.floor)
          \/ p.prior # Unset /\ Below(p.tier, p.prior - Tolerance)
  THEN "FAIL" ELSE "PASS"

\* Slip: the tiers alone make the verdict.
EvaluateTiers ==
  LET verdicts == {ScoreTier(p) : p \in Policies}
  IN  IF "FAIL" \in verdicts THEN "FAIL" ELSE IF "INCONCLUSIVE" \in verdicts THEN "INCONCLUSIVE" ELSE "PASS"

EvaluateGate ==
  LET verdicts == {ScoreTier(p) : p \in Policies}
  IN  IF "FAIL" \in verdicts THEN "FAIL"
      ELSE IF "INCONCLUSIVE" \in verdicts \/ aborted THEN "INCONCLUSIVE" ELSE "PASS"
-----------------------------------------------------------------------------
(***************************************************************************)
(* The cap is overshot by less than one case per worker: the cases that    *)
(* are running when it is hit still cost, and none is begun after it       *)
(* (runner.ts 91-106).                                                     *)
(***************************************************************************)
SpendBounded == spent < Cap + Workers * MaxCost

\* Every case has its result, and cases are skipped only behind the cap.
CasesAccounted ==
  Ended =>
    /\ \A i \in Cases : results[i].status # "none"
    /\ (\E i \in Cases : results[i] = Skipped) => spent >= Cap

\* The total is the cost of the results, of a case that was run or was not.
TotalIsTheSum ==
  LET upTo[n \in 0..Len(Tiers)] == IF n = 0 THEN 0 ELSE upTo[n - 1] + results[n].cost
  IN  Ended => spent = upTo[Len(Tiers)]

\* What a run that passes looks like, said without the steps of the gate.
PassIsWhole ==
  Ended /\ EvaluateGate = "PASS" =>
    /\ \A i \in Cases : results[i] # Skipped
    /\ \A p \in Policies :
         LET passed == Cardinality({i \in Rows(p.tier) : results[i].status = "PASS"})
             errors == Cardinality({i \in Rows(p.tier) : results[i].status = "INFRA_ERROR"})
             all    == Cardinality(Rows(p.tier))
         IN  /\ all > errors /\ 100 * errors <= MaxInfra * all
             /\ 100 * passed >= p.floor * (all - errors)
             /\ p.zero => passed = all - errors
             /\ p.prior # Unset => 100 * passed >= (p.prior - Tolerance) * (all - errors)

(***************************************************************************)
(* A run that ended has a result for every case in the place of that case, *)
(* whichever worker ran it and in whatever order they ended; and it passes *)
(* only as a whole: no case was skipped, gated or not, every gated tier    *)
(* has scored cases and at most the tolerated share of errors, and reaches *)
(* its floor, its baseline and, where nothing is tolerated, a clean sheet  *)
(* (runner.ts 86-109, gate.ts 23-56 and 77-81).                            *)
(***************************************************************************)
VerdictIsWhole == CasesAccounted /\ TotalIsTheSum /\ PassIsWhole
=============================================================================
