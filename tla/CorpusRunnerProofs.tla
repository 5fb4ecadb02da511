------------------------- MODULE CorpusRunnerProofs -------------------------
(***************************************************************************)
(* For every list of cases, number of workers and cap: the cap is overshot *)
(* by less than a case per worker; a run that ended has a result for every *)
(* case, each of one worker's, and its total is their sum; and for every   *)
(* policy of the gate, a run that passes is whole.                         *)
(***************************************************************************)
EXTENDS CorpusRunner, FiniteSetTheorems, WellFoundedInduction, NaturalsInduction, TLAPS

ResultType == [status : {"none", "PASS", "FAIL", "INFRA_ERROR", "SKIPPED_CAP"}, cost : Nat]

Types ==
  /\ cursor \in 1..(Len(Tiers) + 1)
  /\ at \in [Staff -> 0..Len(Tiers)]
  /\ attempt \in [Staff -> Nat]
  /\ results \in [Cases -> ResultType]
  /\ spent \in Nat
  /\ aborted \in BOOLEAN

Busy == {w \in Staff : at[w] # 0}

(***************************************************************************)
(* The strengthening: what the workers that still run may yet cost, ...    *)
(***************************************************************************)
SpendInv ==
  /\ aborted <=> spent >= Cap
  /\ spent + Cardinality(Busy) * MaxCost < Cap + Workers * MaxCost

(***************************************************************************)
(* ... and that a case without a result is on the list or with a worker,   *)
(* and no case with two.                                                   *)
(***************************************************************************)
OneWorkerPerCase ==
  /\ \A w \in Staff : at[w] < cursor
  /\ \A v, w \in Staff : at[v] = at[w] /\ at[v] # 0 => v = w

CaseInv ==
  /\ OneWorkerPerCase
  /\ \A i \in Cases : results[i].status = "none" => i >= cursor \/ \E w \in Staff : at[w] = i
  /\ aborted \/ (\E w \in Staff : at[w] = 0) => cursor = Len(Tiers) + 1
  /\ \A i \in Cases : results[i] = Skipped => aborted

RInv == Types /\ SpendInv /\ CaseInv

-----------------------------------------------------------------------------
LEMMA StaffFinite ==
  /\ Len(Tiers) \in Nat
  /\ IsFiniteSet(Staff) /\ Cardinality(Staff) \in Nat
  /\ Cardinality(Staff) <= Workers /\ Cardinality(Staff) <= Len(Tiers)
  /\ Staff = 1..Cardinality(Staff)
<1>1. Len(Tiers) \in Nat
  BY RunnerAssumption
<1> DEFINE n == IF Workers <= Len(Tiers) THEN Workers ELSE Len(Tiers)
<1>2. n \in Nat /\ n <= Workers /\ n <= Len(Tiers)
  BY <1>1, RunnerAssumption
<1>3. Staff = 1..n
  BY <1>1, RunnerAssumption DEF Staff
<1> HIDE DEF n
<1>4. IsFiniteSet(1..n) /\ Cardinality(1..n) = n
  BY <1>2, FS_Interval
<1>. QED  BY <1>1, <1>2, <1>3, <1>4

LEMMA BusyFinite ==
  /\ IsFiniteSet(Busy)
  /\ Cardinality(Busy) \in Nat
  /\ Cardinality(Busy) <= Workers
<1>1. Busy \subseteq Staff
  BY DEF Busy
<1>2. IsFiniteSet(Busy) /\ Cardinality(Busy) <= Cardinality(Staff)
  BY <1>1, StaffFinite, FS_Subset
<1>3. Cardinality(Busy) \in Nat
  BY <1>2, FS_CardinalityType
<1>. QED  BY <1>2, <1>3, StaffFinite, RunnerAssumption

LEMMA TimesMonotone ==
  ASSUME NEW a \in Nat, NEW b \in Nat, NEW c \in Nat, a <= b
  PROVE  a * c \in Nat /\ b * c \in Nat /\ a * c <= b * c
<1>1. PICK d \in Nat : b = a + d
  <2>1. b - a \in Nat /\ b = a + (b - a)
    OBVIOUS
  <2>. QED  BY <2>1
<1>2. b * c = a * c + d * c
  BY <1>1
<1>3. a * c \in Nat /\ d * c \in Nat
  OBVIOUS
<1>. QED  BY <1>2, <1>3

LEMMA TimesPred ==
  ASSUME NEW a \in Nat, NEW c \in Nat
  PROVE  (a + 1) * c = a * c + c /\ a * c \in Nat
OBVIOUS

\* What one case costs comes out of what was set aside for it.
LEMMA Paid ==
  ASSUME NEW sum \in Nat, NEW cost \in Nat, NEW most \in Nat, cost <= most,
         NEW rest \in Nat, NEW held, held = rest + most, NEW limit \in Nat
  PROVE  sum + held < limit => sum + cost + rest < limit
OBVIOUS

-----------------------------------------------------------------------------
LEMMA RunnerInit == InitRunner => RInv
<1> SUFFICES ASSUME InitRunner PROVE RInv
  OBVIOUS
<1>1. Types
  <2>1. cursor \in 1..(Len(Tiers) + 1)
    BY StaffFinite DEF InitRunner
  <2>2. at \in [Staff -> 0..Len(Tiers)]
    BY StaffFinite, RunnerAssumption DEF InitRunner, Staff
  <2>3. Pending \in ResultType
    BY DEF Pending, ResultType
  <2>. QED  BY <2>1, <2>2, <2>3 DEF InitRunner, Types
<1>2. SpendInv
  <2>1. spent = 0 /\ ~aborted
    BY DEF InitRunner
  <2>2. Cardinality(Busy) * MaxCost <= Workers * MaxCost
        /\ Cardinality(Busy) * MaxCost \in Nat /\ Workers * MaxCost \in Nat
    BY BusyFinite, TimesMonotone, RunnerAssumption
  <2>. QED  BY <2>1, <2>2, RunnerAssumption DEF SpendInv
<1>3. CaseInv
  <2>1. OneWorkerPerCase
    BY StaffFinite DEF InitRunner, OneWorkerPerCase
  <2>2. \A i \in Cases : i >= cursor \/ \E w \in Staff : at[w] = i
    BY StaffFinite DEF InitRunner, Cases
  <2>3. ~aborted /\ \A w \in Staff : at[w] # 0
    BY StaffFinite DEF InitRunner
  <2>4. \A i \in Cases : results[i] # Skipped
    BY DEF InitRunner, Pending, Skipped
  <2>. QED  BY <2>1, <2>2, <2>3, <2>4 DEF CaseInv
<1>. QED  BY <1>1, <1>2, <1>3 DEF RInv

-----------------------------------------------------------------------------
(***************************************************************************)
(* A result is noted: Comes and Breaks.                                    *)
(***************************************************************************)
LEMMA SettlesKeeps ==
  ASSUME RInv, NEW w \in Staff, at[w] # 0,
         NEW result \in ResultType, result.status \in {"PASS", "FAIL", "INFRA_ERROR"},
         result.cost <= MaxCost, Settles(w, result)
  PROVE  RInv'
<1> DEFINE noted == [results EXCEPT ![at[w]] = result]
<1> USE DEF RInv, Types
<1>0. /\ Len(Tiers) \in Nat /\ at[w] \in Cases /\ cursor \in Nat
      /\ Cap \in Nat /\ Workers \in Nat /\ MaxCost \in Nat /\ result.cost \in Nat /\ spent \in Nat
  BY StaffFinite, RunnerAssumption DEF Cases, ResultType
<1>1. noted \in [Cases -> ResultType] /\ PassOver(noted) \in [Cases -> ResultType]
  BY <1>0 DEF PassOver, Skipped, ResultType
<1>2. spent' = spent + result.cost /\ spent' \in Nat
  BY <1>0 DEF Settles
<1>3. aborted' = (aborted \/ spent + result.cost >= Cap) /\ aborted' \in BOOLEAN
  BY DEF Settles, Hits
<1>a. attempt' \in [Staff -> Nat]
  BY DEF Settles
<1>b. SpendInv /\ CaseInv
  BY DEF RInv
<1>4. CASE aborted'
  <2>1. results' = PassOver(noted) /\ cursor' = Len(Tiers) + 1 /\ at' = [at EXCEPT ![w] = 0]
    BY <1>4 DEF Settles
  <2>2. Types'
    <3>1. cursor' \in 1..(Len(Tiers) + 1)
      BY <1>0, <2>1
    <3>2. at' \in [Staff -> 0..Len(Tiers)]
      BY <1>0, <2>1
    <3>3. results' \in [Cases -> ResultType]
      BY <1>1, <2>1
    <3>. QED  BY <3>1, <3>2, <3>3, <1>2, <1>3, <1>a
  <2>3. CaseInv'
    <3>1. OneWorkerPerCase'
      BY <1>0, <2>1 DEF OneWorkerPerCase, CaseInv
    <3>2. ASSUME NEW i \in Cases PROVE results'[i].status # "none" \/ \E v \in Staff : at'[v] = i
      <4>1. CASE i >= cursor
        BY <2>1, <4>1 DEF PassOver, Skipped
      <4>2. CASE i = at[w] /\ ~(i >= cursor)
        BY <1>0, <2>1, <4>2 DEF PassOver
      <4>3. CASE i # at[w] /\ ~(i >= cursor)
        <5>1. results'[i] = results[i]
          BY <1>0, <2>1, <4>3 DEF PassOver
        <5>2. CASE results[i].status # "none"
          BY <5>1, <5>2
        <5>3. CASE results[i].status = "none"
          <6>1. PICK v \in Staff : at[v] = i
            BY <4>3, <5>3 DEF CaseInv
          <6>2. at'[v] = i
            BY <2>1, <4>3, <6>1
          <6>. QED  BY <6>2
        <5>. QED  BY <5>2, <5>3
      <4>. QED  BY <4>1, <4>2, <4>3
    <3>. QED  BY <1>4, <2>1, <3>1, <3>2 DEF CaseInv, Cases
  <2>4. SpendInv'
    <3>1. Busy' = Busy \ {w} /\ w \in Busy
      BY <1>0, <2>1 DEF Busy
    <3>2. Cardinality(Busy') \in Nat /\ Cardinality(Busy) = Cardinality(Busy') + 1
      <4>1. /\ Cardinality(Busy \ {w}) = Cardinality(Busy) - 1
            /\ IsFiniteSet(Busy \ {w})
        BY <3>1, BusyFinite, FS_RemoveElement
      <4>2. Cardinality(Busy \ {w}) \in Nat
        BY <4>1, FS_CardinalityType
      <4>. QED  BY <3>1, <4>1, <4>2, BusyFinite
    <3> DEFINE n == Cardinality(Busy')
    <3>3. n \in Nat /\ n + 1 <= Workers /\ Cardinality(Busy) = n + 1
      BY <3>2, BusyFinite
    <3> HIDE DEF n
    <3>4. (n + 1) * MaxCost = n * MaxCost + MaxCost /\ n * MaxCost \in Nat
      BY <3>3, <1>0, TimesPred
    <3>5. (n + 1) * MaxCost <= Workers * MaxCost /\ Workers * MaxCost \in Nat
      BY <3>3, <1>0, TimesMonotone
    <3>a. /\ spent \in Nat /\ result.cost \in Nat /\ MaxCost \in Nat /\ result.cost <= MaxCost
          /\ n * MaxCost \in Nat /\ (n + 1) * MaxCost = n * MaxCost + MaxCost
          /\ Cap + Workers * MaxCost \in Nat /\ spent' = spent + result.cost
      BY <1>0, <1>2, <3>4, <3>5
    <3>6. spent' + n * MaxCost < Cap + Workers * MaxCost
      <4>1. CASE aborted
        <5>1. spent + Cardinality(Busy) * MaxCost < Cap + Workers * MaxCost
          BY <1>b DEF SpendInv
        <5>a. Cardinality(Busy) * MaxCost = (n + 1) * MaxCost
          BY <3>3, Zenon
        <5>2. spent + (n + 1) * MaxCost < Cap + Workers * MaxCost
          BY <5>a, <5>1, Zenon
        <5>. QED  BY <5>2, <3>a, Paid
      <4>2. CASE ~aborted
        <5>0. aborted <=> spent >= Cap
          BY <1>b DEF SpendInv
        <5>a. ~(spent >= Cap)
          BY <4>2, <5>0, Zenon
        <5>1. spent < Cap
          BY <1>0, <5>a
        <5>2. spent + (n + 1) * MaxCost < Cap + Workers * MaxCost
          BY <5>1, <1>0, <3>a, <3>5
        <5>. QED  BY <5>2, <3>a, Paid
      <4>. QED  BY <4>1, <4>2
    <3>7. spent' >= Cap
      BY <1>0, <1>2, <1>3, <1>4 DEF SpendInv
    <3>. QED  BY <1>4, <3>6, <3>7 DEF SpendInv, n
  <2>. QED  BY <2>2, <2>3, <2>4
<1>5. CASE ~aborted'
  <2>0. results' = noted /\ ~aborted /\ spent' < Cap
    <3>1. ~aborted /\ ~(spent + result.cost >= Cap)
      BY <1>3, <1>5
    <3>2. results' = noted
      BY <1>5 DEF Settles
    <3>. QED  BY <1>0, <1>2, <3>1, <3>2
  <2>1. SpendInv'
    <3>1. Cardinality(Busy') \in Nat /\ Cardinality(Busy') <= Workers
      <4>1. Busy' \subseteq Staff
        BY DEF Busy
      <4>2. IsFiniteSet(Busy') /\ Cardinality(Busy') <= Cardinality(Staff)
        BY <4>1, StaffFinite, FS_Subset
      <4>. QED  BY <4>2, FS_CardinalityType, StaffFinite, <1>0
    <3>2. Cardinality(Busy') * MaxCost <= Workers * MaxCost
          /\ Cardinality(Busy') * MaxCost \in Nat /\ Workers * MaxCost \in Nat
      BY <3>1, <1>0, TimesMonotone
    <3>. QED  BY <1>0, <1>2, <1>5, <2>0, <3>2 DEF SpendInv
  <2>2. Types' /\ CaseInv'
    <3>1. \A i \in Cases : results'[i] # Skipped
      BY <1>0, <2>0 DEF CaseInv, Skipped
    <3>2. \A i \in Cases : results'[i].status = "none" => i # at[w] /\ results[i].status = "none"
      BY <1>0, <2>0
    <3>3. CASE cursor \in Cases
      <4>1. at' = [at EXCEPT ![w] = cursor] /\ cursor' = cursor + 1
        BY <1>5, <3>3 DEF Settles
      <4>2. Types'
        BY <1>0, <1>1, <1>2, <1>3, <1>a, <2>0, <3>3, <4>1 DEF Cases
      <4>3. OneWorkerPerCase'
        BY <1>0, <4>1 DEF OneWorkerPerCase, CaseInv
      <4>4. \A v \in Staff : at[v] # 0 /\ at'[v] # 0
        BY <1>0, <3>3, <4>1 DEF CaseInv, Cases
      <4>5. ASSUME NEW i \in Cases, results'[i].status = "none"
            PROVE  i >= cursor' \/ \E v \in Staff : at'[v] = i
        <5>1. i # at[w] /\ results[i].status = "none"
          BY <4>5, <3>2
        <5>2. CASE i >= cursor
          BY <1>0, <4>1, <5>2 DEF Cases
        <5>3. CASE \E v \in Staff : at[v] = i
          BY <4>1, <5>1, <5>3
        <5>. QED  BY <5>1, <5>2, <5>3 DEF CaseInv
      <4>. QED  BY <1>5, <3>1, <4>2, <4>3, <4>4, <4>5 DEF CaseInv
    <3>4. CASE cursor \notin Cases
      <4>1. at' = [at EXCEPT ![w] = 0] /\ cursor' = cursor /\ cursor = Len(Tiers) + 1
        BY <1>0, <1>5, <3>4 DEF Settles, Cases
      <4>2. Types'
        BY <1>0, <1>1, <1>2, <1>3, <1>a, <2>0, <4>1
      <4>3. OneWorkerPerCase'
        BY <1>0, <4>1 DEF OneWorkerPerCase, CaseInv
      <4>4. ASSUME NEW i \in Cases, results'[i].status = "none"
            PROVE  \E v \in Staff : at'[v] = i
        <5>1. i # at[w] /\ results[i].status = "none" /\ ~(i >= cursor)
          BY <1>0, <3>2, <4>1, <4>4 DEF Cases
        <5>2. PICK v \in Staff : at[v] = i
          BY <5>1 DEF CaseInv
        <5>. QED  BY <4>1, <5>1, <5>2
      <4>. QED  BY <1>5, <3>1, <4>1, <4>2, <4>3, <4>4 DEF CaseInv
    <3>. QED  BY <3>3, <3>4
  <2>. QED  BY <2>1, <2>2
<1>. QED  BY <1>3, <1>4, <1>5

LEMMA RunnerStep == RInv /\ [NextRunner]_runnerVars => RInv'
<1> SUFFICES ASSUME RInv, [NextRunner]_runnerVars PROVE RInv'
  OBVIOUS
<1>1. ASSUME NEW w \in Staff, Comes(w) PROVE RInv'
  <2>1. PICK status \in {"PASS", "FAIL"}, cost \in 0..MaxCost :
          Settles(w, [status |-> status, cost |-> cost]) /\ at[w] # 0
    BY <1>1 DEF Comes
  <2> DEFINE result == [status |-> status, cost |-> cost]
  <2>2. /\ result \in ResultType /\ result.cost <= MaxCost
        /\ result.status \in {"PASS", "FAIL", "INFRA_ERROR"} /\ Settles(w, result)
    BY <2>1, RunnerAssumption DEF ResultType
  <2> HIDE DEF result
  <2>. QED  BY <2>1, <2>2, SettlesKeeps
<1>2. ASSUME NEW w \in Staff, Retries(w) PROVE RInv'
  <2>1. UNCHANGED <<cursor, at, results, spent, aborted>> /\ attempt' \in [Staff -> Nat]
    BY <1>2 DEF Retries, RInv, Types
  <2>. QED  BY <2>1 DEF RInv, Types, SpendInv, CaseInv, OneWorkerPerCase, Busy
<1>3. ASSUME NEW w \in Staff, Breaks(w) PROVE RInv'
  <2> DEFINE result == [status |-> "INFRA_ERROR", cost |-> 0]
  <2>1. /\ result \in ResultType /\ result.cost <= MaxCost /\ at[w] # 0
        /\ result.status \in {"PASS", "FAIL", "INFRA_ERROR"} /\ Settles(w, result)
    BY <1>3, RunnerAssumption DEF ResultType, Breaks
  <2> HIDE DEF result
  <2>. QED  BY <2>1, SettlesKeeps
<1>4. CASE UNCHANGED runnerVars
  BY <1>4 DEF runnerVars, RInv, Types, SpendInv, CaseInv, OneWorkerPerCase, Busy
<1>. QED  BY <1>1, <1>2, <1>3, <1>4 DEF NextRunner

THEOREM RunnerInvariant == RunnerSpec => []RInv
BY RunnerInit, RunnerStep, PTL DEF RunnerSpec

-----------------------------------------------------------------------------
(***************************************************************************)
(* The spend of a run is less than the cap and one case per worker.        *)
(***************************************************************************)
THEOREM Overshoot == RunnerSpec => []SpendBounded
<1>1. RInv => SpendBounded
  <2> SUFFICES ASSUME RInv PROVE SpendBounded
    OBVIOUS
  <2>1. Cardinality(Busy) * MaxCost \in Nat /\ Workers * MaxCost \in Nat
    BY BusyFinite, TimesMonotone, RunnerAssumption
  <2>. QED  BY <2>1, RunnerAssumption DEF RInv, Types, SpendInv, SpendBounded
<1>. QED  BY <1>1, RunnerInvariant, PTL

(***************************************************************************)
(* A run that ended has a result for every case, and skipped some only     *)
(* behind the cap.                                                         *)
(***************************************************************************)
THEOREM EveryCaseAccounted == RunnerSpec => []CasesAccounted
<1>1. RInv => CasesAccounted
  <2> SUFFICES ASSUME RInv, Ended PROVE (\A i \in Cases : results[i].status # "none")
                                        /\ ((\E i \in Cases : results[i] = Skipped) => spent >= Cap)
    BY DEF CasesAccounted
  <2>1. ASSUME NEW i \in Cases PROVE results[i].status # "none"
    <3>1. 1 \in Staff
      BY StaffFinite, RunnerAssumption DEF Staff, Cases
    <3>2. cursor = Len(Tiers) + 1
      BY <3>1 DEF Ended, RInv, CaseInv
    <3>3. \A w \in Staff : at[w] # i
      BY DEF Ended, Cases
    <3>. QED  BY <3>2, <3>3, StaffFinite DEF RInv, CaseInv, Cases
  <2>2. (\E i \in Cases : results[i] = Skipped) => spent >= Cap
    BY DEF RInv, CaseInv, SpendInv
  <2>. QED  BY <2>1, <2>2
<1>. QED  BY <1>1, RunnerInvariant, PTL

(***************************************************************************)
(* No case is run by two workers.                                          *)
(***************************************************************************)
THEOREM NoCaseTwice == RunnerSpec => []OneWorkerPerCase
<1>1. RInv => OneWorkerPerCase
  BY DEF RInv, CaseInv
<1>. QED  BY <1>1, RunnerInvariant, PTL

-----------------------------------------------------------------------------
(***************************************************************************)
(* The total.  Partial sums of the costs end in what was spent, and a case *)
(* on the list or with a worker has cost nothing yet.                      *)
(***************************************************************************)
SumsOf(record) ==
  {sums \in [0..Len(Tiers) -> Nat] :
     sums[0] = 0 /\ \A n \in Cases : sums[n] = sums[n - 1] + record[n].cost}

SumInv ==
  /\ \E sums \in SumsOf(results) : sums[Len(Tiers)] = spent
  /\ \A i \in Cases : i >= cursor \/ (\E w \in Staff : at[w] = i) => results[i].cost = 0

\* The cost of one case moves every sum from there on.
LEMMA SumsMove ==
  ASSUME NEW record \in [Cases -> ResultType], NEW sums \in SumsOf(record), NEW k \in Cases,
         NEW cost \in Nat, record[k].cost = 0,
         NEW after \in [Cases -> ResultType], after[k].cost = cost,
         \A i \in Cases \ {k} : after[i].cost = record[i].cost
  PROVE  \E moved \in SumsOf(after) : moved[Len(Tiers)] = sums[Len(Tiers)] + cost
<1> DEFINE moved == [n \in 0..Len(Tiers) |-> IF n >= k THEN sums[n] + cost ELSE sums[n]]
<1>1. Len(Tiers) \in Nat /\ k \in 1..Len(Tiers) /\ sums \in [0..Len(Tiers) -> Nat] /\ sums[0] = 0
  BY StaffFinite DEF Cases, SumsOf
<1>2. moved \in [0..Len(Tiers) -> Nat] /\ moved[0] = 0
  BY <1>1
<1>3. ASSUME NEW n \in Cases PROVE moved[n] = moved[n - 1] + after[n].cost
  <2>1. n \in 0..Len(Tiers) /\ n - 1 \in 0..Len(Tiers) /\ n \in Nat
    BY <1>1 DEF Cases
  <2>2. sums[n] = sums[n - 1] + record[n].cost /\ sums[n] \in Nat /\ sums[n - 1] \in Nat /\ record[n].cost \in Nat
    BY <1>1, <2>1 DEF SumsOf, ResultType
  <2>3. CASE n = k
    <3>1. moved[n] = sums[n] + cost /\ moved[n - 1] = sums[n - 1]
      BY <1>1, <2>1, <2>3
    <3>. QED  BY <2>2, <2>3, <3>1
  <2>4. CASE n # k /\ n >= k
    <3>1. moved[n] = sums[n] + cost /\ moved[n - 1] = sums[n - 1] + cost
      BY <1>1, <2>1, <2>4
    <3>. QED  BY <2>2, <2>4, <3>1
  <2>5. CASE ~(n >= k)
    <3>1. moved[n] = sums[n] /\ moved[n - 1] = sums[n - 1]
      BY <1>1, <2>1, <2>5
    <3>. QED  BY <1>1, <2>2, <2>5, <3>1
  <2>. QED  BY <1>1, <2>1, <2>3, <2>4, <2>5
<1>4. moved[Len(Tiers)] = sums[Len(Tiers)] + cost
  BY <1>1
<1> HIDE DEF moved
<1>. QED  BY <1>2, <1>3, <1>4 DEF SumsOf

LEMMA SumsSettle ==
  ASSUME RInv, SumInv, NEW w \in Staff, at[w] # 0,
         NEW result \in ResultType, Settles(w, result)
  PROVE  SumInv'
<1> DEFINE k == at[w]
           noted == [results EXCEPT ![k] = result]
<1>1. /\ Len(Tiers) \in Nat /\ k \in Cases /\ k < cursor /\ cursor \in Nat /\ spent' = spent + result.cost
      /\ results \in [Cases -> ResultType] /\ result.cost \in Nat /\ results[k].cost = 0
      /\ at \in [Staff -> 0..Len(Tiers)]
  BY StaffFinite DEF RInv, Types, CaseInv, OneWorkerPerCase, SumInv, Settles, Cases, ResultType
<1>2. /\ results' \in [Cases -> ResultType]
      /\ results'[k] = result
      /\ \A i \in Cases \ {k} : results'[i].cost = results[i].cost
  <2>1. CASE aborted'
    <3>1. results' = PassOver(noted)
      BY <2>1 DEF Settles
    <3>2. \A i \in Cases : results'[i] = IF i >= cursor THEN Skipped ELSE noted[i]
      BY <3>1 DEF PassOver
    <3>3. Skipped \in ResultType /\ Skipped.cost = 0
      BY DEF Skipped, ResultType
    <3>4. results' \in [Cases -> ResultType]
      BY <1>1, <3>1, <3>3 DEF PassOver
    <3>5. results'[k] = result
      BY <1>1, <3>2 DEF Cases
    <3>6. \A i \in Cases \ {k} : results'[i].cost = results[i].cost
      BY <1>1, <3>2, <3>3 DEF SumInv
    <3>. QED  BY <3>4, <3>5, <3>6
  <2>2. CASE ~aborted'
    <3>1. results' = noted
      BY <2>2 DEF Settles
    <3>. QED  BY <1>1, <3>1
  <2>. QED  BY <2>1, <2>2
<1>3. \E sums \in SumsOf(results') : sums[Len(Tiers)] = spent'
  <2>1. PICK sums \in SumsOf(results) : sums[Len(Tiers)] = spent
    BY DEF SumInv
  <2>. QED  BY <1>1, <1>2, <2>1, SumsMove
<1>4. ASSUME NEW i \in Cases, i >= cursor' \/ \E v \in Staff : at'[v] = i
      PROVE  results'[i].cost = 0
  <2>1. cursor' \in Nat /\ cursor' >= cursor
    <3>1. cursor <= Len(Tiers) + 1
      BY DEF RInv, Types
    <3>. QED  BY <1>1, <3>1 DEF Settles, Cases
  <2>2. \A v \in Staff : at'[v] \in {0, cursor} \/ (v # w /\ at'[v] = at[v])
    BY <1>1 DEF Settles
  <2>3. i # k /\ (i >= cursor \/ \E v \in Staff : at[v] = i)
    <3>1. CASE i >= cursor'
      BY <1>1, <2>1, <3>1 DEF Cases
    <3>2. ASSUME NEW v \in Staff, at'[v] = i PROVE i # k /\ (i >= cursor \/ \E u \in Staff : at[u] = i)
      <4>1. CASE at'[v] \in {0, cursor}
        BY <1>1, <3>2, <4>1 DEF Cases
      <4>2. CASE v # w /\ at'[v] = at[v]
        <5>1. at[v] # at[w]
          BY <4>2 DEF RInv, CaseInv, OneWorkerPerCase
        <5>. QED  BY <3>2, <4>2, <5>1
      <4>. QED  BY <2>2, <4>1, <4>2
    <3>. QED  BY <1>4, <3>1, <3>2
  <2>. QED  BY <1>2, <2>3 DEF SumInv
<1>. QED  BY <1>3, <1>4 DEF SumInv, SumsOf, Cases

LEMMA SumsStart == InitRunner => SumInv
<1> SUFFICES ASSUME InitRunner PROVE SumInv
  OBVIOUS
<1> DEFINE zeros == [n \in 0..Len(Tiers) |-> 0]
<1>1. \A i \in Cases : results[i].cost = 0
  BY DEF InitRunner, Pending
<1>2. zeros \in [0..Len(Tiers) -> Nat] /\ zeros[0] = 0 /\ zeros[Len(Tiers)] = 0
  BY StaffFinite
<1>3. \A n \in Cases : zeros[n] = 0 /\ zeros[n - 1] = 0
  BY StaffFinite DEF Cases
<1> HIDE DEF zeros
<1>4. zeros \in SumsOf(results)
  BY <1>1, <1>2, <1>3 DEF SumsOf
<1>. QED  BY <1>1, <1>2, <1>4 DEF SumInv, InitRunner

LEMMA SumsStep == RInv /\ SumInv /\ [NextRunner]_runnerVars => SumInv'
<1> SUFFICES ASSUME RInv, SumInv, [NextRunner]_runnerVars PROVE SumInv'
  OBVIOUS
<1>1. ASSUME NEW w \in Staff, Comes(w) PROVE SumInv'
  <2>1. PICK status \in {"PASS", "FAIL"}, cost \in 0..MaxCost :
          Settles(w, [status |-> status, cost |-> cost]) /\ at[w] # 0
    BY <1>1 DEF Comes
  <2>2. [status |-> status, cost |-> cost] \in ResultType
    BY RunnerAssumption DEF ResultType
  <2>. QED  BY <2>1, <2>2, SumsSettle
<1>2. ASSUME NEW w \in Staff, Breaks(w) PROVE SumInv'
  <2>1. [status |-> "INFRA_ERROR", cost |-> 0] \in ResultType
    BY DEF ResultType
  <2>. QED  BY <1>2, <2>1, SumsSettle DEF Breaks
<1>3. CASE UNCHANGED <<cursor, at, results, spent>>
  BY <1>3 DEF SumInv, SumsOf
<1>. QED  BY <1>1, <1>2, <1>3 DEF NextRunner, Retries, runnerVars

\* A set of numbers has a least one.
LEMMA Least ==
  ASSUME NEW S \in SUBSET Nat, S # {}
  PROVE  \E n \in S : \A m \in S : n <= m
<1> DEFINE R == OpToRel(<, Nat)
<1>1. IsWellFoundedOn(R, Nat)
  BY NatLessThanWellFounded
<1>2. \A m, n \in Nat : m < n => <<m, n>> \in R
  BY DEF OpToRel
<1> HIDE DEF R
<1>3. PICK n \in S : \A m \in S : ~(<<m, n>> \in R)
  BY <1>1, WFMin
<1>4. ASSUME NEW m \in S PROVE n <= m
  <2>1. m \in Nat /\ n \in Nat
    OBVIOUS
  <2>2. ~(m < n)
    BY <1>2, <1>3, <2>1
  <2>. QED  BY <2>1, <2>2
<1>. QED  BY <1>4

\* Two that sum the same costs are the same.
LEMMA OneSum ==
  ASSUME NEW n \in Nat, NEW f, NEW g, NEW c,
         f[0] = g[0],
         \A i \in 1..n : f[i] = f[i - 1] + c[i] /\ g[i] = g[i - 1] + c[i]
  PROVE  f[n] = g[n]
<1> DEFINE differ == {i \in 0..n : f[i] # g[i]}
<1> SUFFICES ASSUME differ # {} PROVE FALSE
  BY DEF differ
<1>0. differ \in SUBSET Nat
  OBVIOUS
<1>1. PICK i \in differ : \A j \in differ : i <= j
  <2> HIDE DEF differ
  <2>. QED  BY <1>0, Least
<1>2. i \in 1..n /\ i - 1 \in 0..n /\ ~(i <= i - 1)
  BY <1>1
<1>3. f[i - 1] = g[i - 1]
  BY <1>1, <1>2
<1>. QED  BY <1>1, <1>2, <1>3

LEMMA TotalFollows ==
  ASSUME RInv, SumInv
  PROVE  TotalIsTheSum
<1> DEFINE upTo[n \in 0..Len(Tiers)] == IF n = 0 THEN 0 ELSE upTo[n - 1] + results[n].cost
<1>1. PICK sums \in SumsOf(results) : sums[Len(Tiers)] = spent
  BY DEF SumInv
<1>2. Len(Tiers) \in Nat
  BY StaffFinite
<1>3. sums = [n \in 0..Len(Tiers) |-> IF n = 0 THEN 0 ELSE sums[n - 1] + results[n].cost]
  <2>1. sums \in [0..Len(Tiers) -> Nat]
    BY <1>1 DEF SumsOf
  <2>2. \A n \in 0..Len(Tiers) : sums[n] = IF n = 0 THEN 0 ELSE sums[n - 1] + results[n].cost
    BY <1>1, <1>2 DEF SumsOf, Cases
  <2>. QED  BY <2>1, <2>2
<1>4. upTo = [n \in 0..Len(Tiers) |-> IF n = 0 THEN 0 ELSE upTo[n - 1] + results[n].cost]
  BY <1>3
<1> HIDE DEF upTo
<1>5. upTo[0] = 0 /\ \A n \in 1..Len(Tiers) : upTo[n] = upTo[n - 1] + results[n].cost
  BY <1>2, <1>4
<1>6. upTo[Len(Tiers)] = sums[Len(Tiers)]
  <2> DEFINE costs == [n \in 1..Len(Tiers) |-> results[n].cost]
  <2>1. \A n \in 1..Len(Tiers) : upTo[n] = upTo[n - 1] + costs[n] /\ sums[n] = sums[n - 1] + costs[n]
    BY <1>5, <1>1 DEF SumsOf, Cases
  <2>2. upTo[0] = sums[0]
    BY <1>5, <1>1 DEF SumsOf
  <2> HIDE DEF costs
  <2>. QED  BY <1>2, <2>1, <2>2, OneSum, SMTT(30)
<1>7. spent = upTo[Len(Tiers)]
  BY <1>1, <1>6
<1>. QED  BY <1>7 DEF TotalIsTheSum, upTo

-----------------------------------------------------------------------------
(***************************************************************************)
(* The gate.  Of a run that ended the rows of a tier are its passes, its   *)
(* failures, its errors and its skipped cases, and no row is two of them.  *)
(***************************************************************************)
Of(tier, status) == {i \in Rows(tier) : results[i].status = status}

LEMMA RowsFinite ==
  ASSUME NEW tier, NEW S \in SUBSET Rows(tier)
  PROVE  IsFiniteSet(S) /\ Cardinality(S) \in Nat
<1>1. IsFiniteSet(Cases)
  BY StaffFinite, FS_Interval DEF Cases
<1>2. S \subseteq Cases
  BY DEF Rows
<1>. QED  BY <1>1, <1>2, FS_Subset, FS_CardinalityType

LEMMA Disjoint ==
  ASSUME NEW A, NEW B, IsFiniteSet(A), IsFiniteSet(B), A \cap B = {}
  PROVE  /\ IsFiniteSet(A \union B)
         /\ Cardinality(A \union B) = Cardinality(A) + Cardinality(B)
<1>1. Cardinality(A \cap B) = 0
  BY FS_EmptySet
<1>2. Cardinality(A \union B) = Cardinality(A) + Cardinality(B) - Cardinality(A \cap B) /\ IsFiniteSet(A \union B)
  BY FS_Union
<1>3. Cardinality(A) \in Nat /\ Cardinality(B) \in Nat
  BY FS_CardinalityType
<1>. QED  BY <1>1, <1>2, <1>3

LEMMA RowsSplit ==
  ASSUME NEW tier, results \in [Cases -> ResultType],
         \A i \in Cases : results[i].status # "none"
  PROVE  /\ {Count(tier, "PASS"), Count(tier, "FAIL"), Count(tier, "INFRA_ERROR"), Count(tier, "SKIPPED_CAP")} \subseteq Nat
         /\ Cardinality(Rows(tier)) =
              Count(tier, "PASS") + Count(tier, "FAIL") + Count(tier, "INFRA_ERROR") + Count(tier, "SKIPPED_CAP")
<1> DEFINE P == Of(tier, "PASS")
           F == Of(tier, "FAIL")
           I == Of(tier, "INFRA_ERROR")
           S == Of(tier, "SKIPPED_CAP")
<1>1. /\ IsFiniteSet(P) /\ IsFiniteSet(F) /\ IsFiniteSet(I) /\ IsFiniteSet(S)
      /\ Cardinality(P) \in Nat /\ Cardinality(F) \in Nat /\ Cardinality(I) \in Nat /\ Cardinality(S) \in Nat
  BY RowsFinite DEF Of
<1>2. P \cap F = {} /\ (P \union F) \cap I = {} /\ (P \union F \union I) \cap S = {}
  BY DEF Of
<1>3. Rows(tier) = P \union F \union I \union S
  BY DEF Of, Rows, ResultType
<1>4. /\ Count(tier, "PASS") = Cardinality(P) /\ Count(tier, "FAIL") = Cardinality(F)
      /\ Count(tier, "INFRA_ERROR") = Cardinality(I) /\ Count(tier, "SKIPPED_CAP") = Cardinality(S)
  BY DEF Count, Of
<1> HIDE DEF P, F, I, S
<1>5. IsFiniteSet(P \union F) /\ Cardinality(P \union F) = Cardinality(P) + Cardinality(F)
  BY <1>1, <1>2, Disjoint
<1>6. IsFiniteSet(P \union F \union I) /\ Cardinality(P \union F \union I) = Cardinality(P \union F) + Cardinality(I)
  BY <1>1, <1>2, <1>5, Disjoint
<1>7. Cardinality(P \union F \union I \union S) = Cardinality(P \union F \union I) + Cardinality(S)
  BY <1>1, <1>2, <1>6, Disjoint
<1>. QED  BY <1>1, <1>3, <1>4, <1>5, <1>6, <1>7

\* A tier that passes, in numbers.
LEMMA TierPasses ==
  ASSUME NEW p \in Policies, ScoreTier(p) = "PASS", results \in [Cases -> ResultType],
         \A i \in Cases : results[i].status # "none"
  PROVE  LET passed == Cardinality(Of(p.tier, "PASS"))
             errors == Cardinality(Of(p.tier, "INFRA_ERROR"))
             all    == Cardinality(Rows(p.tier))
         IN  /\ all > errors /\ 100 * errors <= MaxInfra * all
             /\ 100 * passed >= p.floor * (all - errors)
             /\ p.zero => passed = all - errors
             /\ p.prior # Unset => 100 * passed >= (p.prior - Tolerance) * (all - errors)
<1> DEFINE passed  == Count(p.tier, "PASS")
           failed  == Count(p.tier, "FAIL")
           errors  == Count(p.tier, "INFRA_ERROR")
           skipped == Count(p.tier, "SKIPPED_CAP")
           all     == Cardinality(Rows(p.tier))
<1>1. ~Inconclusive(p.tier) /\ ~(p.zero /\ failed > 0) /\ ~Below(p.tier, p.floor)
      /\ ~(p.prior # Unset /\ Below(p.tier, p.prior - Tolerance))
  BY DEF ScoreTier
<1>2. passed \in Nat /\ failed \in Nat /\ errors \in Nat /\ skipped \in Nat /\ all = passed + failed + errors + skipped
  BY RowsSplit
<1>3. Scored(p.tier) = passed + failed
  BY DEF Scored
<1>4. passed + failed # 0 /\ ~(100 * errors > MaxInfra * (passed + failed + errors)) /\ ~(skipped > 0)
  BY <1>1, <1>3 DEF Inconclusive, TooMuchInfra
<1>5. ~(100 * passed < p.floor * (passed + failed))
  BY <1>1, <1>3 DEF Below
<1>6. p.prior # Unset => ~(100 * passed < (p.prior - Tolerance) * (passed + failed))
  BY <1>1, <1>3 DEF Below
<1>7. /\ MaxInfra \in Int /\ Tolerance \in Int /\ p.floor \in Int
      /\ p.prior # Unset => p.prior \in Int
      /\ p.zero \in BOOLEAN
  BY GateAssumption
<1>8. passed = Cardinality(Of(p.tier, "PASS")) /\ errors = Cardinality(Of(p.tier, "INFRA_ERROR"))
  BY DEF Count, Of
<1> HIDE DEF passed, failed, errors, skipped, all
<1>9. all = passed + failed + errors /\ all - errors = passed + failed /\ all > errors
  BY <1>2, <1>4
<1>10. 100 * errors <= MaxInfra * all
  <2>1. PICK n \in Int : n = MaxInfra * (passed + failed + errors)
    BY <1>2, <1>7
  <2>2. n = MaxInfra * all
    BY <1>9, <2>1
  <2>. QED  BY <1>2, <1>4, <2>1, <2>2
<1>11. 100 * passed >= p.floor * (all - errors)
  <2>1. PICK n \in Int : n = p.floor * (passed + failed)
    BY <1>2, <1>7
  <2>2. n = p.floor * (all - errors)
    BY <1>9, <2>1
  <2>. QED  BY <1>2, <1>5, <2>1, <2>2
<1>12. p.prior # Unset => 100 * passed >= (p.prior - Tolerance) * (all - errors)
  <2> SUFFICES ASSUME p.prior # Unset PROVE 100 * passed >= (p.prior - Tolerance) * (all - errors)
    OBVIOUS
  <2>1. PICK n \in Int : n = (p.prior - Tolerance) * (passed + failed)
    BY <1>2, <1>7
  <2>2. n = (p.prior - Tolerance) * (all - errors)
    BY <1>9, <2>1
  <2>. QED  BY <1>2, <1>6, <2>1, <2>2
<1>13. p.zero => passed = all - errors
  <2>1. p.zero => ~(failed > 0)
    BY <1>1 DEF failed
  <2>2. ~(failed > 0) => passed = all - errors
    BY <1>2, <1>9
  <2>. QED  BY <2>1, <2>2
<1>. QED  BY <1>8, <1>9, <1>10, <1>11, <1>12, <1>13 DEF all

(***************************************************************************)
(* A run that ended has a result for each case and their sum as its total, *)
(* and its gate passes only what is whole: nothing skipped, every gated    *)
(* tier scored, within the errors allowed and at its floor and baseline    *)
(* (runner.ts 86-109, gate.ts 23-56 and 77-81).                            *)
(***************************************************************************)
THEOREM Verdict == RunnerSpec => []VerdictIsWhole
<1>1. RunnerSpec => []SumInv
  BY RunnerInvariant, RunnerInit, SumsStart, SumsStep, PTL DEF RunnerSpec
<1>2. ASSUME RInv, CasesAccounted PROVE PassIsWhole
  <2> SUFFICES ASSUME Ended, EvaluateGate = "PASS"
               PROVE  /\ \A i \in Cases : results[i] # Skipped
                      /\ \A p \in Policies :
                           LET passed == Cardinality({i \in Rows(p.tier) : results[i].status = "PASS"})
                               errors == Cardinality({i \in Rows(p.tier) : results[i].status = "INFRA_ERROR"})
                               all    == Cardinality(Rows(p.tier))
                           IN  /\ all > errors /\ 100 * errors <= MaxInfra * all
                               /\ 100 * passed >= p.floor * (all - errors)
                               /\ p.zero => passed = all - errors
                               /\ p.prior # Unset => 100 * passed >= (p.prior - Tolerance) * (all - errors)
    BY DEF PassIsWhole
  <2>1. ~aborted /\ "FAIL" \notin {ScoreTier(p) : p \in Policies} /\ "INCONCLUSIVE" \notin {ScoreTier(p) : p \in Policies}
    BY DEF EvaluateGate
  <2>2. \A i \in Cases : results[i] # Skipped
    BY <1>2, <2>1 DEF RInv, CaseInv
  <2>3. results \in [Cases -> ResultType] /\ \A i \in Cases : results[i].status # "none"
    BY <1>2 DEF RInv, Types, CasesAccounted
  <2>4. ASSUME NEW p \in Policies PROVE ScoreTier(p) = "PASS"
    BY <2>1 DEF ScoreTier
  <2>. QED  BY <2>2, <2>3, <2>4, TierPasses DEF Of
<1>3. RInv /\ SumInv /\ CasesAccounted => VerdictIsWhole
  BY <1>2, TotalFollows DEF VerdictIsWhole
<1>. QED  BY <1>1, <1>3, RunnerInvariant, EveryCaseAccounted, PTL
=============================================================================
