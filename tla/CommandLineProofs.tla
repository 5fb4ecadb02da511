-------------------------- MODULE CommandLineProofs --------------------------
(***************************************************************************)
(* For every catalog: what a proof that holds says of the database, though *)
(* any of its checks may have failed to run and the connection been lost;  *)
(* that a command leaves nothing open, however it ends; and that a schema  *)
(* which is not said to be truncated is all the role can see.              *)
(***************************************************************************)
EXTENDS CommandLine, FiniteSetTheorems, WellFoundedInduction, NaturalsInduction, TLAPS

Ids == {Order[i] : i \in 1..12}
Report == [id : Ids, status : {"pass", "fail", "review"}, ran : BOOLEAN]

(***************************************************************************)
(* The strengthening: the reports are those of the checks in their order,  *)
(* each of what its check found or of its not having run, ...              *)
(***************************************************************************)
Told(i) == reports[i] \in {Ran(Order[i], catalog, call.scoping), Unran(Order[i], call.scoping)}

ReportsInv ==
  Proving =>
    /\ asked \in 0..12 /\ reports \in Seq(Report) /\ Len(reports) = asked
    /\ alterations = 0 => \A i \in 1..asked : Told(i)
    /\ result # <<>> => result = <<reports>> /\ asked = 12

(***************************************************************************)
(* ... and a command ends well only by way of its exit code.               *)
(***************************************************************************)
WorkInv ==
  /\ call \in Calls /\ alterations \in Nat
  /\ phase \notin {"rollback", "close", "done"} => result = <<>>
  /\ call.command = "doctor" /\ phase \notin {"arguments", "done"} => pool = "open"
  /\ phase = "done" /\ call.command = "doctor" /\ exit = 0 =>
       Proven(Outcome, call.scoping) /\ ~StrictTrips

ProofInv == ReportsInv /\ WorkInv
-----------------------------------------------------------------------------
LEMMA OrderIs ==
  /\ Len(Order) = 12
  /\ Order[4] = "A3" /\ Order[6] = "T1" /\ Order[7] = "T2" /\ Order[9] = "T4" /\ Order[11] = "B2"
BY DEF Order

LEMMA ReportIs ==
  ASSUME NEW id \in Ids, NEW cat, NEW scoping \in BOOLEAN
  PROVE  Ran(id, cat, scoping) \in Report /\ Unran(id, scoping) \in Report
<1>1. Evaluate(id, cat, scoping) \in {"pass", "fail", "review"}
  BY DEF Evaluate
<1>. QED  BY <1>1 DEF Ran, Unran, Report

LEMMA ProofInit == Init => ProofInv
<1> SUFFICES ASSUME Init PROVE ProofInv
  OBVIOUS
<1>1. /\ call \in Calls /\ alterations = 0 /\ asked = 0 /\ reports = <<>> /\ result = <<>>
      /\ phase \in {"connect", "arguments"}
      /\ call.command = "doctor" => phase = "arguments"
  BY DEF Init
<1>2. ReportsInv
  BY <1>1 DEF ReportsInv
<1>3. WorkInv
  BY <1>1 DEF WorkInv
<1>. QED  BY <1>2, <1>3 DEF ProofInv

\* A check is reported, as it ran or as it did not.
LEMMA ReportStep ==
  ASSUME ProofInv, Proving, Asking, NEW r,
         r \in {Ran(Query, catalog, call.scoping), Unran(Query, call.scoping)},
         reports' = Append(reports, r), asked' = asked + 1,
         UNCHANGED <<dbVars, call, phase, result>>
  PROVE  ReportsInv'
<1>1. /\ asked \in 0..11 /\ reports \in Seq(Report) /\ Len(reports) = asked
      /\ result = <<>> /\ call.scoping \in BOOLEAN /\ alterations \in Nat
  <2>1. asked < Len(Order) /\ phase = "ask"
    BY DEF Asking, List
  <2>2. call.scoping \in BOOLEAN
    BY DEF ProofInv, WorkInv, Calls
  <2>. QED  BY <2>1, <2>2, OrderIs DEF ProofInv, ReportsInv, WorkInv
<1>2. Query = Order[asked + 1] /\ Query \in Ids
  BY <1>1 DEF Query, List, Ids
<1>3. r \in Report
  BY <1>1, <1>2, ReportIs
<1>4. /\ reports' \in Seq(Report) /\ Len(reports') = asked' /\ reports'[asked + 1] = r
      /\ \A i \in 1..asked : reports'[i] = reports[i]
  BY <1>1, <1>3
<1>5. call' = call /\ catalog' = catalog /\ alterations' = alterations /\ result' = result
  BY DEF dbVars
<1>6. ASSUME alterations = 0, NEW i \in 1..asked' PROVE Told(i)'
  <2>1. CASE i = asked + 1
    BY <2>1, <1>1, <1>2, <1>4, <1>5 DEF Told
  <2>2. CASE i # asked + 1
    <3>1. i \in 1..asked /\ Told(i)
      BY <2>2, <1>1, <1>6 DEF ProofInv, ReportsInv
    <3>. QED  BY <3>1, <1>4, <1>5 DEF Told
  <2>. QED  BY <2>1, <2>2
<1>. QED  BY <1>1, <1>4, <1>5, <1>6 DEF ReportsInv

LEMMA ProofNext == ProofInv /\ [Next]_vars => ProofInv'
<1> SUFFICES ASSUME ProofInv, [Next]_vars PROVE ProofInv'
  OBVIOUS
<1> USE DEF ProofInv
<1>1. CASE Usage \/ OpenFails \/ OpenDatabase
  BY <1>1 DEF Usage, OpenFails, OpenDatabase, ReportsInv, WorkInv, Proving, Told, dbVars, workVars, connVars
<1>2. CASE ConnectFails \/ Connect
  BY <1>2 DEF ConnectFails, Connect, Leaves, ReportsInv, WorkInv, Proving, Told, dbVars, workVars, connVars
<1>3. CASE Begin \/ BeginFails
  BY <1>3 DEF Begin, BeginFails, ReportsInv, WorkInv, Proving, Told, dbVars, workVars
<1>4. CASE Asked
  <2>1. CASE Proving
    BY <1>4, <2>1, ReportStep DEF Asked, WorkInv, Asking, dbVars, connVars
  <2>2. CASE ~Proving
    BY <1>4, <2>2 DEF Asked, Asking, WorkInv, ReportsInv, Proving, dbVars, connVars
  <2>. QED  BY <2>1, <2>2
<1>5. CASE CheckFails
  BY <1>5, ReportStep DEF CheckFails, WorkInv, Asking, dbVars
<1>6. CASE QueryFails
  BY <1>6 DEF QueryFails, Asking, WorkInv, ReportsInv, Proving, dbVars, workVars
<1>7. CASE Returns
  BY <1>7, OrderIs DEF Returns, List, WorkInv, ReportsInv, Told, Proving, dbVars, workVars, connVars
<1>8. CASE Rollback \/ RollbackFails
  BY <1>8 DEF Rollback, RollbackFails, Leaves, WorkInv, ReportsInv, Told, Proving, dbVars, workVars
<1>9. CASE Close
  BY <1>9 DEF Close, ExitCode, WorkInv, ReportsInv, Told, Proving, StrictTrips, Outcome, dbVars, workVars
<1>10. CASE Alter
  BY <1>10 DEF Alter, WorkInv, ReportsInv, Proving, workVars, connVars
<1>11. CASE Lose
  BY <1>11 DEF Lose, WorkInv, ReportsInv, Told, Proving, dbVars, workVars
<1>12. CASE UNCHANGED vars
  BY <1>12 DEF vars, WorkInv, ReportsInv, Told, Proving, StrictTrips, Outcome
<1>. QED  BY <1>1, <1>2, <1>3, <1>4, <1>5, <1>6, <1>7, <1>8, <1>9, <1>10, <1>11, <1>12 DEF Next

(***************************************************************************)
(* What the reports say of the catalog.                                    *)
(***************************************************************************)
LEMMA PassedFoundNothing ==
  ASSUME ReportsInv, Proving, alterations = 0, result # <<>>, call.scoping \in BOOLEAN, NEW i \in 1..12
  PROVE  /\ Outcome[i] \in ToSet(Outcome)
         /\ Outcome[i].id = Order[i]
         /\ Outcome[i].status = "pass" => ~Objects(Order[i], catalog)
         /\ Outcome[i].ran /\ ~Blocking(Order[i], call.scoping) /\ Outcome[i].status # "review" =>
              ~Objects(Order[i], catalog)
<1>1. Outcome = reports /\ asked = 12 /\ reports \in Seq(Report) /\ Len(reports) = 12 /\ Told(i)
  BY DEF ReportsInv, Outcome
<1>2. Outcome[i] \in ToSet(Outcome)
  <2>1. i \in DOMAIN Outcome
    BY <1>1
  <2>. QED  BY <2>1 DEF ToSet
<1>3. CASE Outcome[i] = Unran(Order[i], call.scoping)
  BY <1>2, <1>3 DEF Unran
<1>4. CASE Outcome[i] = Ran(Order[i], catalog, call.scoping)
  <2>1. Outcome[i].id = Order[i] /\ Outcome[i].status = Evaluate(Order[i], catalog, call.scoping)
    BY <1>4 DEF Ran
  <2>2. CASE Objects(Order[i], catalog)
    <3>1. Outcome[i].status = IF Blocking(Order[i], call.scoping) THEN "fail" ELSE "review"
      BY <2>1, <2>2 DEF Evaluate
    <3>. QED  BY <1>2, <2>1, <3>1
  <2>3. CASE ~Objects(Order[i], catalog)
    BY <1>2, <2>1, <2>3
  <2>. QED  BY <2>2, <2>3
<1>. QED  BY <1>1, <1>3, <1>4 DEF Told

LEMMA NothingUnscoped ==
  ASSUME ~Objects("A3", catalog), ~Objects("T1", catalog), ~Objects("T2", catalog)
  PROVE  /\ Unscoped(catalog) \subseteq catalog.views \union Unasked(catalog)
         /\ ReadableTables(catalog) # {}
<1>1. "attribute" \notin catalog.faults
  BY DEF Objects
<1>2. ReadableTables(catalog) # {} /\ ReadableTables(catalog) \subseteq catalog.secured
  BY DEF Objects
<1>3. (ReadableTables(catalog) \cap catalog.secured \cap catalog.owned) \ catalog.forced = {}
  BY DEF Objects
<1>4. ASSUME NEW t \in Unscoped(catalog), t \in catalog.granted PROVE t \in catalog.views \union catalog.foreign
  <2>1. t \in ReadableTables(catalog) => FALSE
    BY <1>1, <1>2, <1>3 DEF Unscoped
  <2>. QED  BY <1>4, <2>1 DEF ReadableTables
<1>5. Unscoped(catalog) \subseteq Selectable(catalog)
  BY DEF Unscoped
<1>. QED  BY <1>2, <1>4, <1>5 DEF Unasked

(***************************************************************************)
(* A proof that holds is sound: for every catalog, and whichever of its    *)
(* checks could not run, what the login can read rows of without row       *)
(* security is a view, a foreign table or granted by columns only; and     *)
(* behind a strict doctor that exits with 0 and whose checks all ran, no   *)
(* view granted as a whole either.                                         *)
(***************************************************************************)
THEOREM ProofIsSound == Spec => []ProvenIsScoped
<1>1. ProofInv => ProvenIsScoped
  <2> SUFFICES ASSUME ProofInv, Reported, Proving, alterations = 0 PROVE
        /\ (call.scoping /\ Proven(Outcome, call.scoping)) =>
             Unscoped(catalog) \subseteq catalog.views \union Unasked(catalog) /\ ReadableTables(catalog) # {}
        /\ (call.strict /\ exit = 0 /\ AllRan) =>
             /\ Unscoped(catalog) \subseteq Unasked(catalog) /\ ReadableTables(catalog) # {}
             /\ catalog.granted \cap catalog.policed \cap catalog.literal = {}
    BY DEF ProvenIsScoped
  <2>1. /\ ReportsInv /\ result # <<>> /\ call \in Calls /\ call.scoping \in BOOLEAN /\ phase = "done"
    BY DEF ProofInv, WorkInv, Reported, Calls
  <2>2. ASSUME NEW i \in 1..12, Blocking(Order[i], call.scoping), Proven(Outcome, call.scoping)
        PROVE  ~Objects(Order[i], catalog)
    <3>1. Outcome[i] \notin Blockers(Outcome, call.scoping)
      BY <2>2 DEF Proven
    <3>2. Outcome[i] \in ToSet(Outcome) /\ Outcome[i].id = Order[i]
      BY <2>1, PassedFoundNothing
    <3>3. Outcome[i].status = "pass"
      BY <2>2, <3>1, <3>2 DEF Blockers
    <3>. QED  BY <2>1, <3>3, PassedFoundNothing
  <2>3. Blocking(Order[4], call.scoping)
    BY OrderIs DEF Blocking
  <2>4. ASSUME call.scoping, Proven(Outcome, call.scoping)
        PROVE  Unscoped(catalog) \subseteq catalog.views \union Unasked(catalog) /\ ReadableTables(catalog) # {}
    <3>1. Blocking(Order[6], call.scoping) /\ Blocking(Order[7], call.scoping)
      BY <2>4, OrderIs DEF Blocking
    <3>2. Proven(Outcome, call.scoping)
      BY <2>4
    <3>3. ~Objects("A3", catalog)
      BY <2>2, <2>3, <3>2, OrderIs
    <3>4. ~Objects("T1", catalog) /\ ~Objects("T2", catalog)
      BY <2>2, <3>1, <3>2, OrderIs
    <3>. QED  BY <3>3, <3>4, NothingUnscoped
  <2>5. ASSUME call.strict, exit = 0, AllRan
        PROVE  /\ Unscoped(catalog) \subseteq Unasked(catalog) /\ ReadableTables(catalog) # {}
               /\ catalog.granted \cap catalog.policed \cap catalog.literal = {}
    <3>1. call.command = "doctor" /\ ~call.scoping
      BY <2>1, <2>5 DEF Calls
    <3>2. Proven(Outcome, call.scoping) /\ NeedsReview(Outcome, call.scoping) = {}
      BY <2>1, <2>5, <3>1 DEF ProofInv, WorkInv, StrictTrips
    <3>3. ASSUME NEW i \in 1..12, ~Blocking(Order[i], call.scoping)
          PROVE  ~Objects(Order[i], catalog)
      <4>1. Outcome[i] \in ToSet(Outcome) /\ Outcome[i].id = Order[i]
        BY <2>1, PassedFoundNothing
      <4>2. Outcome[i].ran /\ Outcome[i].status # "review"
        BY <2>5, <3>2, <3>3, <4>1 DEF AllRan, NeedsReview
      <4>. QED  BY <2>1, <3>3, <4>2, PassedFoundNothing
    <3>4. /\ ~Blocking(Order[6], call.scoping) /\ ~Blocking(Order[7], call.scoping)
          /\ ~Blocking(Order[9], call.scoping) /\ ~Blocking(Order[11], call.scoping)
      BY <3>1, OrderIs DEF Blocking
    <3>5. /\ ~Objects("A3", catalog) /\ ~Objects("T1", catalog) /\ ~Objects("T2", catalog)
          /\ ~Objects("T4", catalog) /\ ~Objects("B2", catalog)
      BY <2>2, <2>3, <3>2, <3>3, <3>4, OrderIs
    <3>6. /\ catalog.granted \cap catalog.policed \cap catalog.literal = {}
          /\ catalog.granted \cap catalog.views = {}
      BY <3>5 DEF Objects
    <3>7. Unscoped(catalog) \subseteq catalog.views \union Unasked(catalog) /\ ReadableTables(catalog) # {}
      BY <3>5, NothingUnscoped
    <3>8. ASSUME NEW t \in Unscoped(catalog), t \in catalog.views PROVE t \in Unasked(catalog)
      BY <3>6, <3>8 DEF Unscoped, Unasked
    <3>. QED  BY <3>6, <3>7, <3>8
  <2>. QED  BY <2>4, <2>5
<1>. QED  BY <1>1, ProofInit, ProofNext, PTL DEF Spec

-----------------------------------------------------------------------------
(***************************************************************************)
(* What is open, await by await: the command line has its pool from        *)
(* openDatabase to closeQuietly, a connection is leased from connect to    *)
(* the finally block, and an exception is out exactly if the transaction   *)
(* is over without a result.                                               *)
(***************************************************************************)
Owned == IF call.command = "proveIsolation" THEN "none" ELSE "open"

OpenInv ==
  /\ phase \in {"arguments", "connect", "begin", "ask", "rollback", "close", "done"}
  /\ call.command = "proveIsolation" => phase \notin {"arguments", "close"}
  /\ phase = "arguments" => pool = "none" /\ client = "none"
  /\ phase \in {"connect", "begin", "ask", "rollback", "close"} => pool = Owned
  /\ phase \in {"connect", "close", "done"} => client # "leased"
  /\ phase = "done" => pool # "open"
  /\ thrown \in BOOLEAN
  /\ phase \in {"arguments", "connect", "begin", "ask"} => ~thrown /\ result = <<>>
  /\ phase \in {"rollback", "close"} => (thrown <=> result = <<>>)
  /\ phase = "done" /\ call.command # "proveIsolation" => ((exit \in {2, 3}) <=> (result = <<>>))

LEMMA OpenInitially == Init => OpenInv
  BY DEF Init, OpenInv, Owned, Calls

LEMMA ExitIs == thrown \in BOOLEAN => ExitCode \in {0, 1, 3} /\ (ExitCode = 3 <=> thrown)
  BY DEF ExitCode

LEMMA OpenStep == OpenInv /\ [Next]_vars => OpenInv'
<1> SUFFICES ASSUME OpenInv, [Next]_vars PROVE OpenInv'
  OBVIOUS
<1> USE DEF OpenInv, Owned, dbVars, connVars, workVars
<1>1. CASE Usage \/ OpenFails \/ OpenDatabase
  BY <1>1 DEF Usage, OpenFails, OpenDatabase
<1>2. CASE ConnectFails
  BY <1>2 DEF ConnectFails, Leaves
<1>3. CASE Connect
  BY <1>3 DEF Connect
<1>4. CASE Begin \/ Asked \/ CheckFails
  <2>1. UNCHANGED <<call, client, pool, thrown, result, exit>> /\ phase \in {"begin", "ask"} /\ phase' = "ask"
    BY <1>4 DEF Begin, Asked, CheckFails, Asking
  <2>. QED  BY <2>1
<1>5. CASE BeginFails \/ QueryFails
  <2>1. /\ UNCHANGED <<call, client, pool, result, exit>> /\ phase \in {"begin", "ask"}
        /\ phase' = "rollback" /\ thrown' = TRUE
    BY <1>5 DEF BeginFails, QueryFails, Asking
  <2>. QED  BY <2>1
<1>6. CASE Returns
  <2>1. result' # <<>>
    BY <1>6 DEF Returns
  <2>. QED  BY <1>6, <2>1 DEF Returns
<1>7. CASE Rollback \/ RollbackFails
  BY <1>7 DEF Rollback, RollbackFails, Leaves
<1>8. CASE Close
  BY <1>8, ExitIs DEF Close
<1>9. CASE Alter \/ Lose \/ UNCHANGED vars
  BY <1>9 DEF Alter, Lose, vars
<1>. QED  BY <1>1, <1>2, <1>3, <1>4, <1>5, <1>6, <1>7, <1>8, <1>9 DEF Next

(***************************************************************************)
(* However a command ends - a connection that is refused, a preamble or a  *)
(* statement that fails, a ROLLBACK that is not answered - it has given up *)
(* its connection and ended its pool, and its exit code is that of a fault *)
(* exactly if there is nothing to report (inReadOnlyTransaction, runDoctor *)
(* and runIntrospect with closeQuietly).                                   *)
(***************************************************************************)
THEOREM AllIsClosed == Spec => []NothingLeftOpen
<1>1. OpenInv => NothingLeftOpen
  BY DEF OpenInv, NothingLeftOpen
<1>. QED  BY <1>1, OpenInitially, OpenStep, PTL DEF Spec

-----------------------------------------------------------------------------
(***************************************************************************)
(* The schema. A set of numbers has a least one.                           *)
(***************************************************************************)
LEMMA Least ==
  ASSUME NEW S \in SUBSET Nat, S # {}
  PROVE  \E n \in S : \A m \in S : n <= m
<1> DEFINE R == OpToRel(<, Nat)
<1>1. IsWellFoundedOn(R, Nat)
  BY NatLessThanWellFounded
<1>2. \A m, n \in Nat : m < n => <<m, n>> \in R
  BY DEF OpToRel
<1> HIDE DEF R
<1>3. PICK n \in S : \A m \in S : ~(<<m, n>> \in R)
  BY <1>1, WFMin
<1>4. ASSUME NEW m \in S PROVE n <= m
  <2>1. m \in Nat /\ n \in Nat
    OBVIOUS
  <2>2. ~(m < n)
    BY <1>2, <1>3, <2>1
  <2>. QED  BY <2>1, <2>2
<1>. QED  BY <1>4

(***************************************************************************)
(* A finite set that is totally ordered can be listed: of no two elements  *)
(* as many go before, so each place is somebody's, and only his.           *)
(***************************************************************************)
Orders(before, S) ==
  /\ \A x \in S : <<x, x>> \notin before
  /\ \A x, y, z \in S : <<x, y>> \in before /\ <<y, z>> \in before => <<x, z>> \in before
  /\ \A x, y \in S : x # y => <<x, y>> \in before \/ <<y, x>> \in before

Rank(before, S, x) == Cardinality({y \in S : <<y, x>> \in before})

LEMMA Listed ==
  ASSUME NEW S, IsFiniteSet(S), NEW before, Orders(before, S)
  PROVE  /\ Cardinality(S) \in Nat
         /\ InOrder(before, S) \in [1..Cardinality(S) -> S]
         /\ \A n \in 1..Cardinality(S) : Rank(before, S, InOrder(before, S)[n]) = n - 1
         /\ \A x \in S : /\ Rank(before, S, x) + 1 \in 1..Cardinality(S)
                         /\ InOrder(before, S)[Rank(before, S, x) + 1] = x
         /\ \A x, y \in S : <<x, y>> \in before <=> Rank(before, S, x) < Rank(before, S, y)
<1> DEFINE N == Cardinality(S)
           Below(x) == {y \in S : <<y, x>> \in before}
           rank == [x \in S |-> Cardinality(Below(x))]
<1>1. N \in Nat
  BY FS_CardinalityType
<1>2. ASSUME NEW x \in S
      PROVE  IsFiniteSet(Below(x)) /\ Cardinality(Below(x)) \in 0..(N - 1)
  <2>1. IsFiniteSet(S \ {x}) /\ Cardinality(S \ {x}) = N - 1
    BY FS_RemoveElement
  <2>2. Below(x) \in SUBSET (S \ {x})
    BY DEF Orders
  <2>3. IsFiniteSet(Below(x)) /\ Cardinality(Below(x)) <= N - 1
    <3> HIDE DEF Below, N
    <3>. QED  BY <2>1, <2>2, FS_Subset
  <2>4. Cardinality(Below(x)) \in Nat
    BY <2>3, FS_CardinalityType
  <2>. QED  BY <1>1, <2>3, <2>4
<1>3. ASSUME NEW x \in S PROVE Cardinality(Below(x)) \in Int
  <2> HIDE DEF Below, N
  <2>. QED  BY <1>1, <1>2
<1>4. ASSUME NEW x \in S, NEW y \in S, <<x, y>> \in before
      PROVE  Cardinality(Below(x)) < Cardinality(Below(y))
  <2>1. x \in Below(y) /\ Below(x) \in SUBSET (Below(y) \ {x})
    BY <1>4 DEF Orders
  <2> HIDE DEF Below, N
  <2>2. IsFiniteSet(Below(y) \ {x}) /\ Cardinality(Below(y) \ {x}) = Cardinality(Below(y)) - 1
    BY <1>2, <2>1, FS_RemoveElement
  <2>3. Cardinality(Below(x)) <= Cardinality(Below(y)) - 1
    BY <2>1, <2>2, FS_Subset
  <2>4. Cardinality(Below(x)) \in Int /\ Cardinality(Below(y)) \in Int
    BY <1>2
  <2>. QED  BY <2>3, <2>4
<1>5. ASSUME NEW x \in S, NEW y \in S, x # y PROVE rank[x] # rank[y]
  <2>1. <<x, y>> \in before \/ <<y, x>> \in before
    BY <1>5 DEF Orders
  <2>2. Cardinality(Below(x)) \in Int /\ Cardinality(Below(y)) \in Int
    BY <1>3
  <2> HIDE DEF Below
  <2>. QED  BY <1>4, <2>1, <2>2
<1>6. rank \in Injection(S, 0..(N - 1))
  <2>1. rank \in [S -> 0..(N - 1)]
    BY <1>2
  <2> HIDE DEF rank, N
  <2>. QED  BY <1>5, <2>1 DEF Injection, IsInjective
<1>7. IsFiniteSet(0..(N - 1)) /\ Cardinality(0..(N - 1)) = N
  <2>1. 0 \in Int /\ N - 1 \in Int
    BY <1>1
  <2>2. IsFiniteSet(0..(N - 1)) /\ Cardinality(0..(N - 1)) = IF 0 > N - 1 THEN 0 ELSE (N - 1) - 0 + 1
    <3> HIDE DEF N
    <3>. QED  BY <2>1, FS_Interval
  <2>. QED  BY <1>1, <2>2
<1>8. rank \in Surjection(S, 0..(N - 1))
  <2> HIDE DEF rank
  <2>. QED  BY <1>6, <1>7, FS_Injection
<1>9. ASSUME NEW n \in 1..N PROVE \E x \in S : Cardinality(Below(x)) = n - 1
  <2>1. n - 1 \in 0..(N - 1)
    BY <1>1
  <2>2. \E x \in S : rank[x] = n - 1
    <3> HIDE DEF rank, N
    <3>. QED  BY <1>8, <2>1 DEF Surjection
  <2>. QED  BY <2>2
<1> DEFINE list == [n \in 1..N |-> CHOOSE x \in S : Cardinality(Below(x)) = n - 1]
<1>10. InOrder(before, S) = list
  BY DEF InOrder
<1>11. ASSUME NEW n \in 1..N PROVE list[n] \in S /\ Cardinality(Below(list[n])) = n - 1
  <2> HIDE DEF Below, N
  <2>. QED  BY <1>9, <1>11
<1>12. list \in [1..N -> S]
  <2> HIDE DEF Below, N
  <2>. QED  BY <1>11
<1>13. ASSUME NEW x \in S PROVE rank[x] + 1 \in 1..N /\ list[rank[x] + 1] = x
  <2>1. rank[x] = Cardinality(Below(x)) /\ rank[x] \in 0..(N - 1)
    BY <1>2
  <2>2. rank[x] + 1 \in 1..N /\ (rank[x] + 1) - 1 = rank[x]
    BY <1>1, <2>1
  <2>3. list[rank[x] + 1] \in S /\ rank[list[rank[x] + 1]] = rank[x]
    <3>1. \A y \in S : rank[y] = Cardinality(Below(y))
      OBVIOUS
    <3> HIDE DEF list, rank, Below, N
    <3>. QED  BY <1>11, <2>2, <3>1
  <2> HIDE DEF list, rank, Below, N
  <2>. QED  BY <1>5, <2>2, <2>3
<1>14. ASSUME NEW x \in S, NEW y \in S, ~(<<x, y>> \in before) PROVE ~(rank[x] < rank[y])
  <2>1. rank[x] = Cardinality(Below(x)) /\ rank[y] = Cardinality(Below(y))
        /\ rank[x] \in Int /\ rank[y] \in Int
    BY <1>3
  <2>2. x = y \/ <<y, x>> \in before
    BY <1>14 DEF Orders
  <2> HIDE DEF rank, Below, N
  <2>3. x = y \/ rank[y] < rank[x]
    BY <1>4, <2>1, <2>2
  <2>. QED  BY <2>1, <2>3
<1>15. \A x \in S : rank[x] = Rank(before, S, x)
  BY DEF Rank
<1> HIDE DEF list, rank, N
<1>16. \A x, y \in S : <<x, y>> \in before => rank[x] < rank[y]
  BY <1>4, <1>15 DEF Rank
<1>17. \A n \in 1..N : Rank(before, S, list[n]) = n - 1
  BY <1>11 DEF Rank
<1> HIDE DEF Below
<1>18. /\ \A x \in S : Rank(before, S, x) + 1 \in 1..N /\ list[Rank(before, S, x) + 1] = x
       /\ \A x, y \in S : <<x, y>> \in before <=> Rank(before, S, x) < Rank(before, S, y)
  BY <1>13, <1>14, <1>15, <1>16
<1>. QED  BY <1>1, <1>10, <1>12, <1>17, <1>18 DEF N

\* Rows of one query, compared column by column, have an order.
LEMMA EarlierOrders ==
  ASSUME NEW k \in Nat, NEW R, \A r \in R : r \in Seq(Nat) /\ Len(r) = k
  PROVE  Orders({p \in R \X R : Earlier(p[1], p[2])}, R)
<1> DEFINE before == {p \in R \X R : Earlier(p[1], p[2])}
<1>1. \A r \in R : Len(r) = k /\ r = [i \in 1..k |-> r[i]] /\ \A i \in 1..k : r[i] \in Nat
  OBVIOUS
<1>2. \A r, s \in R : <<r, s>> \in before <=> \E i \in 1..k : r[i] < s[i] /\ \A j \in 1..(i - 1) : r[j] = s[j]
  BY <1>1 DEF Earlier
<1> HIDE DEF before
<1>3. ASSUME NEW r \in R PROVE <<r, r>> \notin before
  <2>1. \A i \in 1..k : ~(r[i] < r[i])
    BY <1>1
  <2>. QED  BY <1>2, <2>1
<1>4. ASSUME NEW r \in R, NEW s \in R, NEW t \in R, <<r, s>> \in before, <<s, t>> \in before
      PROVE  <<r, t>> \in before
  <2>1. PICK i \in 1..k : r[i] < s[i] /\ \A j \in 1..(i - 1) : r[j] = s[j]
    BY <1>2, <1>4
  <2>2. PICK m \in 1..k : s[m] < t[m] /\ \A j \in 1..(m - 1) : s[j] = t[j]
    BY <1>2, <1>4
  <2>3. \A j \in 1..k : r[j] \in Nat /\ s[j] \in Nat /\ t[j] \in Nat
    BY <1>1
  <2>4. CASE i < m
    <3>1. i \in 1..(m - 1) /\ \A j \in 1..(i - 1) : j \in 1..(m - 1)
      BY <2>4
    <3>2. r[i] < t[i] /\ \A j \in 1..(i - 1) : r[j] = t[j]
      BY <2>1, <2>2, <3>1
    <3>. QED  BY <1>2, <3>2
  <2>5. CASE m < i
    <3>1. m \in 1..(i - 1) /\ \A j \in 1..(m - 1) : j \in 1..(i - 1)
      BY <2>5
    <3>2. r[m] < t[m] /\ \A j \in 1..(m - 1) : r[j] = t[j]
      BY <2>1, <2>2, <3>1
    <3>. QED  BY <1>2, <3>2
  <2>6. CASE m = i
    <3>1. r[i] < t[i] /\ \A j \in 1..(i - 1) : r[j] = t[j]
      BY <2>1, <2>2, <2>3, <2>6
    <3>. QED  BY <1>2, <3>1
  <2>. QED  BY <2>4, <2>5, <2>6
<1>5. ASSUME NEW r \in R, NEW s \in R, r # s PROVE <<r, s>> \in before \/ <<s, r>> \in before
  <2> DEFINE apart == {i \in 1..k : r[i] # s[i]}
  <2>1. apart # {}
    <3>1. r = [i \in 1..k |-> r[i]] /\ s = [i \in 1..k |-> s[i]]
      BY <1>1
    <3>. QED  BY <1>5, <3>1
  <2>2. apart \in SUBSET Nat
    OBVIOUS
  <2>3. PICK i \in apart : \A j \in apart : i <= j
    <3> HIDE DEF apart
    <3>. QED  BY <2>1, <2>2, Least
  <2>4. i \in 1..k /\ r[i] # s[i] /\ \A j \in 1..(i - 1) : r[j] = s[j]
    <3>1. i \in 1..k /\ r[i] # s[i]
      OBVIOUS
    <3>2. ASSUME NEW j \in 1..(i - 1) PROVE r[j] = s[j]
      <4>1. j \in 1..k /\ ~(i <= j)
        BY <3>1
      <4>. QED  BY <2>3, <4>1
    <3>. QED  BY <3>1, <3>2
  <2>5. r[i] < s[i] \/ s[i] < r[i]
    BY <1>1, <2>4
  <2>. QED  BY <1>2, <2>4, <2>5
<1>6. Orders(before, R)
  BY <1>3, <1>4, <1>5 DEF Orders
<1>. QED  BY <1>6 DEF before

\* ORDER BY lists the rows, each once, the earlier ones first.
LEMMA SortedRows ==
  ASSUME NEW k \in Nat, NEW R, IsFiniteSet(R), \A r \in R : r \in Seq(Nat) /\ Len(r) = k
  PROVE  /\ Sorted(R) \in Seq(R)
         /\ \A r \in R : \E n \in DOMAIN Sorted(R) : Sorted(R)[n] = r
         /\ \A m, n \in DOMAIN Sorted(R) : m < n => Earlier(Sorted(R)[m], Sorted(R)[n])
<1> DEFINE before == {p \in R \X R : Earlier(p[1], p[2])}
           list == InOrder(before, R)
           N == Cardinality(R)
<1>1. Sorted(R) = list
  BY DEF Sorted
<1>2. Orders(before, R)
  BY EarlierOrders
<1> HIDE DEF before
<1>3. /\ N \in Nat /\ list \in [1..N -> R]
      /\ \A n \in 1..N : Rank(before, R, list[n]) = n - 1
      /\ \A r \in R : Rank(before, R, r) + 1 \in 1..N /\ list[Rank(before, R, r) + 1] = r
      /\ \A r, s \in R : <<r, s>> \in before <=> Rank(before, R, r) < Rank(before, R, s)
  BY <1>2, Listed
<1> HIDE DEF list, N
<1>4. list \in Seq(R) /\ DOMAIN list = 1..N
  BY <1>3
<1>5. \A r \in R : \E n \in DOMAIN list : list[n] = r
  BY <1>3, <1>4
<1>6. ASSUME NEW m \in 1..N, NEW n \in 1..N, m < n PROVE Earlier(list[m], list[n])
  <2>1. list[m] \in R /\ list[n] \in R /\ Rank(before, R, list[m]) < Rank(before, R, list[n])
    BY <1>3, <1>6
  <2>2. <<list[m], list[n]>> \in before
    BY <1>3, <2>1
  <2>. QED  BY <2>2 DEF before
<1>. QED  BY <1>1, <1>4, <1>5, <1>6

(***************************************************************************)
(* Places of two lists that correspond in order are picked alike.          *)
(***************************************************************************)
Less(S) == {p \in S \X S : p[1] < p[2]}

\* Numbers are ordered, ...
LEMMA LessOrders == ASSUME NEW S \in SUBSET Nat PROVE Orders(Less(S), S)
<1>1. \A x, y \in S : x \in Nat /\ y \in Nat /\ (<<x, y>> \in Less(S) <=> x < y)
  BY DEF Less
<1>2. \A x \in S : <<x, x>> \notin Less(S)
  BY <1>1
<1>3. \A x, y, z \in S : <<x, y>> \in Less(S) /\ <<y, z>> \in Less(S) => <<x, z>> \in Less(S)
  BY <1>1
<1>4. \A x, y \in S : x # y => <<x, y>> \in Less(S) \/ <<y, x>> \in Less(S)
  BY <1>1
<1>. QED  BY <1>2, <1>3, <1>4 DEF Orders

\* ... and what maps places to places in order makes as many picks, of the same.
LEMMA PicksAlike ==
  ASSUME NEW K \in SUBSET Nat, IsFiniteSet(K), NEW J \in SUBSET Nat, NEW g \in [K -> J],
         \A j \in J : \E n \in K : g[n] = j,
         \A m, n \in K : m < n => g[m] < g[n]
  PROVE  /\ IsFiniteSet(J) /\ Cardinality(J) = Cardinality(K)
         /\ InOrder(Less(K), K) \in [1..Cardinality(K) -> K]
         /\ InOrder(Less(J), J) \in [1..Cardinality(K) -> J]
         /\ \A n \in 1..Cardinality(K) : InOrder(Less(J), J)[n] = g[InOrder(Less(K), K)[n]]
<1>1. \A m, n \in K : m \in Nat /\ n \in Nat /\ g[m] \in Nat /\ g[n] \in Nat
  OBVIOUS
<1>2. \A m, n \in K : g[m] < g[n] <=> m < n
  <2> SUFFICES ASSUME NEW m \in K, NEW n \in K, ~(m < n) PROVE ~(g[m] < g[n])
    OBVIOUS
  <2>1. m = n \/ n < m
    BY <1>1
  <2>2. g[m] = g[n] \/ g[n] < g[m]
    BY <2>1
  <2>. QED  BY <1>1, <2>2
<1>3. \A m, n \in K : g[m] = g[n] => m = n
  <2> SUFFICES ASSUME NEW m \in K, NEW n \in K, g[m] = g[n] PROVE m = n
    OBVIOUS
  <2>1. ~(m < n) /\ ~(n < m)
    BY <1>1
  <2>. QED  BY <1>1, <2>1
<1>4. g \in Bijection(K, J)
  BY <1>3 DEF Bijection, Injection, Surjection, IsInjective
<1>5. IsFiniteSet(J) /\ Cardinality(J) = Cardinality(K)
  BY <1>4, FS_Bijection DEF ExistsBijection
<1>6. ASSUME NEW n \in K PROVE Rank(Less(J), J, g[n]) = Rank(Less(K), K, n)
  <2> DEFINE A == {m \in K : <<m, n>> \in Less(K)}
             B == {j \in J : <<j, g[n]>> \in Less(J)}
             h == [m \in A |-> g[m]]
  <2>1. IsFiniteSet(A)
    <3>1. A \in SUBSET K
      OBVIOUS
    <3> HIDE DEF A
    <3>. QED  BY <3>1, FS_Subset
  <2>2. \A m \in K : m \in A <=> g[m] \in B
    BY <1>2 DEF Less
  <2>3. h \in [A -> B] /\ \A m \in A : m \in K /\ h[m] = g[m]
    BY <2>2
  <2>4. \A j \in B : \E m \in A : h[m] = j
    <3> SUFFICES ASSUME NEW j \in B PROVE \E m \in A : h[m] = j
      OBVIOUS
    <3>1. PICK m \in K : g[m] = j
      OBVIOUS
    <3>. QED  BY <2>2, <3>1
  <2> HIDE DEF A, B, h
  <2>5. h \in Bijection(A, B)
    BY <1>3, <2>3, <2>4 DEF Bijection, Injection, Surjection, IsInjective
  <2>6. Cardinality(A) = Cardinality(B)
    BY <2>1, <2>5, FS_Bijection DEF ExistsBijection
  <2>. QED  BY <2>6 DEF Rank, A, B
<1> DEFINE N == Cardinality(K)
           lK == InOrder(Less(K), K)
           lJ == InOrder(Less(J), J)
<1>7. /\ N \in Nat /\ lK \in [1..N -> K]
      /\ \A n \in 1..N : Rank(Less(K), K, lK[n]) = n - 1
  BY LessOrders, Listed
<1>8. /\ lJ \in [1..N -> J]
      /\ \A j \in J : lJ[Rank(Less(J), J, j) + 1] = j
  <2>1. Orders(Less(J), J)
    BY LessOrders
  <2>2. /\ lJ \in [1..Cardinality(J) -> J]
        /\ \A j \in J : lJ[Rank(Less(J), J, j) + 1] = j
    BY <1>5, <2>1, Listed
  <2>. QED  BY <1>5, <2>2
<1> HIDE DEF N, lK, lJ
<1>9. ASSUME NEW n \in 1..N PROVE lJ[n] = g[lK[n]]
  <2>1. lK[n] \in K
    BY <1>7
  <2>2. Rank(Less(J), J, g[lK[n]]) = n - 1
    BY <1>6, <1>7, <2>1
  <2>3. g[lK[n]] \in J
    BY <2>1
  <2>4. (n - 1) + 1 = n
    BY <1>7
  <2>. QED  BY <1>8, <2>2, <2>3, <2>4
<1>. QED  BY <1>5, <1>7, <1>8, <1>9 DEF N, lK, lJ

\* What is got of finitely many is finite.
LEMMA FiniteImage ==
  ASSUME NEW S, IsFiniteSet(S), NEW f
  PROVE  IsFiniteSet({f[x] : x \in S})
<1> DEFINE T == {f[x] : x \in S}
           h == [x \in S |-> f[x]]
<1>1. h \in [S -> T] /\ \A y \in T : \E x \in S : h[x] = y
  OBVIOUS
<1> HIDE DEF T, h
<1>2. h \in Surjection(S, T)
  BY <1>1 DEF Surjection
<1>3. IsFiniteSet(T)
  BY <1>2, FS_Surjection
<1>. QED  BY <1>3 DEF T

(***************************************************************************)
(* The rows of each query: finitely many, of numbers, all of one width.    *)
(***************************************************************************)
Table(cat) == {<<t>> : t \in cat.granted}
Column(cat) == UNION {{<<t, c>> : c \in cat.columns[t]} : t \in cat.granted}
Key(cat) ==
  UNION {{<<t, i, cat.key[t][i]>> : i \in DOMAIN cat.key[t]} : t \in cat.granted}
Seen(cat) == {k \in cat.links : {k.from, k.to} \subseteq cat.granted}
Link(cat) ==
  UNION {{<<l.from, l.name, i, l.pairs[i][1], l.to, l.pairs[i][2]>> : i \in DOMAIN l.pairs} : l \in Seen(cat)}

\* A column of a relation granted as a whole may be read, so has_column_privilege leaves none out.
LEMMA GrantCovers ==
  ASSUME NEW cat \in Catalogs
  PROVE  /\ ColumnRows(cat) = AtMost(Limit(MaxColumns), Sorted(Column(cat)))
         /\ KeyRows(cat) = Sorted(Key(cat))
<1>1. ASSUME NEW t \in cat.granted
      PROVE  /\ {d \in cat.columns[t] : MayRead(cat, t, d)} = cat.columns[t]
             /\ {j \in DOMAIN cat.key[t] : MayRead(cat, t, cat.key[t][j])} = DOMAIN cat.key[t]
  BY DEF MayRead
<1>2. UNION {{<<t, c>> : c \in {d \in cat.columns[t] : MayRead(cat, t, d)}} : t \in cat.granted} = Column(cat)
  BY <1>1 DEF Column
<1>3. UNION {{<<t, i, cat.key[t][i]>> : i \in {j \in DOMAIN cat.key[t] : MayRead(cat, t, cat.key[t][j])}}
             : t \in cat.granted} = Key(cat)
  BY <1>1 DEF Key
<1>. QED  BY <1>2, <1>3 DEF ColumnRows, KeyRows

LEMMA TableFinite ==
  ASSUME NEW cat \in Catalogs
  PROVE  IsFiniteSet(Table(cat)) /\ \A r \in Table(cat) : r \in Seq(Nat) /\ Len(r) = 1
<1>1. IsFiniteSet(cat.granted) /\ cat.granted \subseteq Nat
  BY CatalogsAssumption
<1> DEFINE f == [t \in cat.granted |-> <<t>>]
<1>2. Table(cat) = {f[t] : t \in cat.granted}
  BY DEF Table
<1>3. IsFiniteSet({f[t] : t \in cat.granted})
  <2> HIDE DEF f
  <2>. QED  BY <1>1, FiniteImage
<1>4. \A r \in Table(cat) : \E t \in Nat : r = <<t>>
  BY <1>1 DEF Table
<1>5. \A t \in Nat : <<t>> \in Seq(Nat) /\ Len(<<t>>) = 1
  OBVIOUS
<1>. QED  BY <1>2, <1>3, <1>4, <1>5

LEMMA ColumnFinite ==
  ASSUME NEW cat \in Catalogs
  PROVE  IsFiniteSet(Column(cat)) /\ \A r \in Column(cat) : r \in Seq(Nat) /\ Len(r) = 2
<1>1. /\ IsFiniteSet(cat.granted) /\ cat.granted \subseteq Nat
      /\ \A t \in cat.granted : IsFiniteSet(cat.columns[t]) /\ cat.columns[t] \subseteq Nat
  BY CatalogsAssumption
<1> DEFINE f == [t \in cat.granted |-> {<<t, c>> : c \in cat.columns[t]}]
<1>2. ASSUME NEW t \in cat.granted PROVE IsFiniteSet(f[t])
  <2> DEFINE g == [c \in cat.columns[t] |-> <<t, c>>]
  <2>1. f[t] = {g[c] : c \in cat.columns[t]}
    OBVIOUS
  <2> HIDE DEF f, g
  <2>. QED  BY <1>1, <2>1, FiniteImage
<1>3. Column(cat) = UNION {f[t] : t \in cat.granted}
  BY DEF Column
<1>4. IsFiniteSet(UNION {f[t] : t \in cat.granted})
  <2> HIDE DEF f
  <2>1. IsFiniteSet({f[t] : t \in cat.granted})
    BY <1>1, FiniteImage
  <2>. QED  BY <1>2, <2>1, FS_UNION
<1> HIDE DEF f
<1>5. \A r \in Column(cat) : \E t \in Nat, c \in Nat : r = <<t, c>>
  BY <1>1 DEF Column
<1>6. \A t \in Nat, c \in Nat : <<t, c>> \in Seq(Nat) /\ Len(<<t, c>>) = 2
  OBVIOUS
<1>. QED  BY <1>3, <1>4, <1>5, <1>6

LEMMA KeyOfNumbers == ASSUME NEW cat \in Catalogs, NEW t \in cat.granted PROVE cat.key[t] \in Seq(Nat)
<1> DEFINE C == cat.columns[t]
           k == cat.key[t]
<1>1. k \in Seq(C) /\ C \subseteq Nat
  BY CatalogsAssumption
<1> HIDE DEF C, k
<1>2. k \in [1..Len(k) -> C] /\ Len(k) \in Nat
  BY <1>1
<1>3. k \in [1..Len(k) -> Nat]
  BY <1>1, <1>2
<1>4. k \in Seq(Nat)
  BY <1>2, <1>3
<1>. QED  BY <1>4 DEF k

LEMMA KeyFinite ==
  ASSUME NEW cat \in Catalogs
  PROVE  IsFiniteSet(Key(cat)) /\ \A r \in Key(cat) : r \in Seq(Nat) /\ Len(r) = 3
<1> DEFINE at(t) == DOMAIN cat.key[t]
           f == [t \in cat.granted |-> {<<t, i, cat.key[t][i]>> : i \in at(t)}]
<1>1. IsFiniteSet(cat.granted) /\ cat.granted \subseteq Nat
  BY CatalogsAssumption
<1>2. ASSUME NEW t \in cat.granted
      PROVE  IsFiniteSet(at(t)) /\ \A i \in at(t) : i \in Nat /\ cat.key[t][i] \in Nat
  <2>1. cat.key[t] \in Seq(Nat)
    BY KeyOfNumbers
  <2> DEFINE N == Len(cat.key[t])
  <2>2. N \in Nat /\ DOMAIN cat.key[t] = 1..N /\ \A i \in 1..N : i \in Nat /\ cat.key[t][i] \in Nat
    BY <2>1
  <2>3. at(t) \in SUBSET (1..N)
    BY <2>2
  <2> HIDE DEF N
  <2>4. IsFiniteSet(1..N)
    <3>1. 1 \in Int /\ N \in Int
      BY <2>2
    <3>. QED  BY <3>1, FS_Interval
  <2>5. \A i \in at(t) : i \in 1..N
    BY <2>3
  <2> HIDE DEF at
  <2>. QED  BY <2>2, <2>3, <2>4, <2>5, FS_Subset
<1>3. ASSUME NEW t \in cat.granted PROVE IsFiniteSet(f[t])
  <2> DEFINE g == [i \in at(t) |-> <<t, i, cat.key[t][i]>>]
  <2>1. f[t] = {g[i] : i \in at(t)}
    OBVIOUS
  <2> HIDE DEF f, g, at
  <2>. QED  BY <1>2, <2>1, FiniteImage
<1>4. Key(cat) = UNION {f[t] : t \in cat.granted}
  <2> DEFINE rows_(t) == {<<t, i, cat.key[t][i]>> : i \in at(t)}
  <2>1. Key(cat) = UNION {rows_(t) : t \in cat.granted}
    BY DEF Key
  <2>2. \A t \in cat.granted : f[t] = rows_(t)
    OBVIOUS
  <2> HIDE DEF rows_, f, at
  <2>. QED  BY <2>1, <2>2
<1>5. IsFiniteSet(UNION {f[t] : t \in cat.granted})
  <2> HIDE DEF f
  <2>1. IsFiniteSet({f[t] : t \in cat.granted})
    BY <1>1, FiniteImage
  <2>. QED  BY <1>3, <2>1, FS_UNION
<1>6. ASSUME NEW r \in Key(cat) PROVE r \in Seq(Nat) /\ Len(r) = 3
  <2>1. PICK t \in cat.granted : \E i \in at(t) : r = <<t, i, cat.key[t][i]>>
    BY DEF Key
  <2>2. PICK i \in at(t) : r = <<t, i, cat.key[t][i]>>
    BY <2>1
  <2> DEFINE c == cat.key[t][i]
  <2> HIDE DEF at
  <2>3. t \in Nat /\ i \in Nat /\ c \in Nat
    BY <1>1, <1>2
  <2> HIDE DEF c
  <2>4. r = <<t, i, c>>
    BY <2>2 DEF c
  <2>. QED  BY <2>3, <2>4
<1>. QED  BY <1>4, <1>5, <1>6

\* A foreign key that is seen: its name and relation are nobody else's.
LEMMA LinkIs ==
  ASSUME NEW cat \in Catalogs, NEW l \in Seen(cat)
  PROVE  /\ l \in [name : Nat, from : Nat, to : Nat, pairs : Seq(Nat \X Nat)]
         /\ Len(l.pairs) \in Nat \ {0} /\ DOMAIN l.pairs = 1..Len(l.pairs)
         /\ \A i \in 1..Len(l.pairs) :
              l.pairs[i] = <<l.pairs[i][1], l.pairs[i][2]>> /\ l.pairs[i][1] \in Nat /\ l.pairs[i][2] \in Nat
         /\ \A k \in Seen(cat) : k.from = l.from /\ k.name = l.name => k = l
<1>1. /\ l \in [name : Nat, from : Nat, to : Nat, pairs : Seq(Nat \X Nat)] /\ l.pairs # <<>>
      /\ \A k \in Seen(cat) : k.from = l.from /\ k.name = l.name => k = l
  BY CatalogsAssumption DEF Seen
<1> DEFINE pairs == l.pairs
<1>2. pairs \in Seq(Nat \X Nat) /\ pairs # <<>>
  BY <1>1
<1> HIDE DEF pairs
<1>3. Len(pairs) \in Nat \ {0} /\ DOMAIN pairs = 1..Len(pairs)
  BY <1>2
<1>4. \A i \in 1..Len(pairs) : pairs[i] \in Nat \X Nat
  BY <1>2
<1>5. \A p \in Nat \X Nat : p = <<p[1], p[2]>> /\ p[1] \in Nat /\ p[2] \in Nat
  OBVIOUS
<1>. QED  BY <1>1, <1>3, <1>4, <1>5 DEF pairs

LEMMA LinkFinite ==
  ASSUME NEW cat \in Catalogs
  PROVE  IsFiniteSet(Link(cat)) /\ \A r \in Link(cat) : r \in Seq(Nat) /\ Len(r) = 6
<1> DEFINE row(l, i) == <<l.from, l.name, i, l.pairs[i][1], l.to, l.pairs[i][2]>>
           f == [l \in Seen(cat) |-> {row(l, i) : i \in DOMAIN l.pairs}]
<1>1. IsFiniteSet(Seen(cat))
  <2>1. Seen(cat) \in SUBSET cat.links /\ IsFiniteSet(cat.links)
    BY CatalogsAssumption DEF Seen
  <2>. QED  BY <2>1, FS_Subset
<1>2. ASSUME NEW l \in Seen(cat) PROVE IsFiniteSet(f[l])
  <2> DEFINE g == [i \in DOMAIN l.pairs |-> row(l, i)]
  <2>1. f[l] = {g[i] : i \in DOMAIN l.pairs}
    OBVIOUS
  <2>2. IsFiniteSet(DOMAIN l.pairs)
    <3> DEFINE N == Len(l.pairs)
    <3>1. N \in Nat /\ DOMAIN l.pairs = 1..N
      BY LinkIs
    <3> HIDE DEF N
    <3>. QED  BY <3>1, FS_Interval
  <2> HIDE DEF f, g
  <2>. QED  BY <2>1, <2>2, FiniteImage
<1>3. Link(cat) = UNION {f[l] : l \in Seen(cat)}
  BY DEF Link
<1>4. IsFiniteSet(UNION {f[l] : l \in Seen(cat)})
  <2> HIDE DEF f
  <2>1. IsFiniteSet({f[l] : l \in Seen(cat)})
    BY <1>1, FiniteImage
  <2>. QED  BY <1>2, <2>1, FS_UNION
<1>5. ASSUME NEW r \in Link(cat) PROVE r \in Seq(Nat) /\ Len(r) = 6
  <2>1. PICK l \in Seen(cat) : \E i \in DOMAIN l.pairs : r = row(l, i)
    BY DEF Link
  <2>2. PICK i \in DOMAIN l.pairs : r = row(l, i)
    BY <2>1
  <2> DEFINE a == l.pairs[i][1]
             b == l.pairs[i][2]
  <2>3. l.from \in Nat /\ l.name \in Nat /\ i \in Nat /\ a \in Nat /\ l.to \in Nat /\ b \in Nat
    BY LinkIs
  <2>4. \A n1, n2, n3, n4, n5, n6 \in Nat :
          <<n1, n2, n3, n4, n5, n6>> \in Seq(Nat) /\ Len(<<n1, n2, n3, n4, n5, n6>>) = 6
    OBVIOUS
  <2> HIDE DEF a, b
  <2>5. r = <<l.from, l.name, i, a, l.to, b>>
    BY <2>2 DEF a, b
  <2>. QED  BY <2>3, <2>4, <2>5
<1>. QED  BY <1>3, <1>4, <1>5

\* A list of which no more came than the cap came whole, and nothing of it is cut off.
LEMMA NotCut ==
  ASSUME NEW S, NEW list \in Seq(S), NEW cap \in Nat, Len(AtMost(Limit(cap), list)) <= cap
  PROVE  AtMost(Limit(cap), list) = list /\ AtMost(cap, list) = list
<1>1. Len(list) \in Nat /\ Limit(cap) = cap + 1
  BY DEF Limit
<1>2. SubSeq(list, 1, Len(list)) = list
  OBVIOUS
<1>3. ASSUME NEW n \in Nat PROVE AtMost(n, list) = SubSeq(list, 1, IF n < Len(list) THEN n ELSE Len(list))
  BY DEF AtMost
<1>4. ASSUME cap + 1 < Len(list) PROVE FALSE
  <2>1. AtMost(cap + 1, list) = SubSeq(list, 1, cap + 1)
    BY <1>3, <1>4
  <2>2. Len(SubSeq(list, 1, cap + 1)) = cap + 1
    BY <1>1, <1>4
  <2>. QED  BY <1>1, <2>1, <2>2
<1>5. AtMost(cap + 1, list) = list
  <2>1. cap + 1 \in Nat
    OBVIOUS
  <2>. QED  BY <1>2, <1>3, <1>4, <2>1
<1>6. Len(list) <= cap
  BY <1>1, <1>5
<1>7. AtMost(cap, list) = list
  <2>1. ~(cap < Len(list))
    BY <1>1, <1>6
  <2>. QED  BY <1>2, <1>3, <2>1
<1>. QED  BY <1>1, <1>5, <1>7

\* What of the catalog comes of the first two queries, unless they say there is more.
LEMMA WholeTables ==
  ASSUME NEW cat \in Catalogs, Len(TableRows(cat)) <= MaxTables
  PROVE  {r[1] : r \in ToSet(AtMost(MaxTables, TableRows(cat)))} = cat.granted
<1> DEFINE list == Sorted(Table(cat))
<1>1. list \in Seq(Table(cat)) /\ \A r \in Table(cat) : \E n \in DOMAIN list : list[n] = r
  <2>1. 1 \in Nat
    OBVIOUS
  <2>. QED  BY <2>1, TableFinite, SortedRows
<1>2. TableRows(cat) = AtMost(Limit(MaxTables), list)
  BY DEF TableRows, Table
<1> HIDE DEF list
<1>3. MaxTables \in Nat
  BY CapsAssumption
<1>4. AtMost(MaxTables, TableRows(cat)) = list
  BY <1>1, <1>2, <1>3, NotCut
<1>5. ToSet(list) = Table(cat)
  BY <1>1 DEF ToSet
<1>6. {r[1] : r \in Table(cat)} = cat.granted
  <2>1. \A t \in cat.granted : <<t>> \in Table(cat) /\ <<t>>[1] = t
    BY DEF Table
  <2>2. \A r \in Table(cat) : r[1] \in cat.granted
    BY DEF Table
  <2>3. \A x : x \in {r[1] : r \in Table(cat)} <=> x \in cat.granted
    BY <2>1, <2>2
  <2>. QED  BY <2>3
<1>. QED  BY <1>4, <1>5, <1>6

LEMMA WholeColumns ==
  ASSUME NEW cat \in Catalogs, Len(ColumnRows(cat)) <= MaxColumns, NEW t \in cat.granted
  PROVE  {r[2] : r \in {s \in ToSet(AtMost(MaxColumns, ColumnRows(cat))) : s[1] = t}} = cat.columns[t]
<1> DEFINE list == Sorted(Column(cat))
<1>1. list \in Seq(Column(cat)) /\ \A r \in Column(cat) : \E n \in DOMAIN list : list[n] = r
  <2>1. 2 \in Nat
    OBVIOUS
  <2>. QED  BY <2>1, ColumnFinite, SortedRows
<1>2. ColumnRows(cat) = AtMost(Limit(MaxColumns), list)
  BY GrantCovers
<1> HIDE DEF list
<1>3. MaxColumns \in Nat
  BY CapsAssumption
<1>4. AtMost(MaxColumns, ColumnRows(cat)) = list
  BY <1>1, <1>2, <1>3, NotCut
<1>5. ToSet(list) = Column(cat)
  BY <1>1 DEF ToSet
<1>6. {r[2] : r \in {s \in Column(cat) : s[1] = t}} = cat.columns[t]
  <2>1. ASSUME NEW c \in cat.columns[t] PROVE <<t, c>> \in Column(cat) /\ <<t, c>>[1] = t /\ <<t, c>>[2] = c
    BY DEF Column
  <2>2. ASSUME NEW s \in Column(cat), s[1] = t PROVE s[2] \in cat.columns[t]
    BY <2>2 DEF Column
  <2> DEFINE mine == {s \in Column(cat) : s[1] = t}
  <2>3. \A c \in cat.columns[t] : <<t, c>> \in mine /\ <<t, c>>[2] = c
    BY <2>1
  <2>4. \A s \in mine : s[2] \in cat.columns[t]
    BY <2>2
  <2> HIDE DEF mine
  <2>5. {r[2] : r \in mine} = cat.columns[t]
    BY <2>3, <2>4
  <2>. QED  BY <2>5 DEF mine
<1>. QED  BY <1>4, <1>5, <1>6

\* The places of a list, in their order, are its places.
LEMMA AllPlaces ==
  ASSUME NEW L \in Nat
  PROVE  Cardinality(1..L) = L /\ \A n \in 1..L : InOrder(Less(1..L), 1..L)[n] = n
<1> DEFINE J == 1..L
<1>1. 1 \in Int /\ L \in Int
  OBVIOUS
<1>2. Cardinality(1..L) = IF 1 > L THEN 0 ELSE L - 1 + 1
  BY <1>1, FS_Interval
<1>3. IsFiniteSet(J)
  BY <1>1, FS_Interval
<1>4. \A n \in J : n \in Nat /\ n >= 1 /\ \A m : m \in J /\ m < n <=> m \in 1..(n - 1)
  OBVIOUS
<1>5. J \in SUBSET Nat
  OBVIOUS
<1> HIDE DEF J
<1>6. ASSUME NEW n \in J PROVE InOrder(Less(J), J)[n] = n
  <2>1. Orders(Less(J), J)
    BY <1>5, LessOrders
  <2>2. InOrder(Less(J), J)[Rank(Less(J), J, n) + 1] = n
    BY <1>3, <2>1, Listed
  <2>3. {m \in J : <<m, n>> \in Less(J)} = 1..(n - 1)
    BY <1>4 DEF Less
  <2>4. Rank(Less(J), J, n) = n - 1
    <3>1. 1 \in Int /\ n - 1 \in Int /\ n \in Nat /\ n >= 1
      BY <1>4
    <3>2. Cardinality(1..(n - 1)) = IF 1 > n - 1 THEN 0 ELSE (n - 1) - 1 + 1
      BY <3>1, FS_Interval
    <3>3. Cardinality(1..(n - 1)) = n - 1
      BY <3>1, <3>2
    <3>. QED  BY <2>3, <3>3 DEF Rank
  <2>5. (n - 1) + 1 = n
    BY <1>4
  <2>. QED  BY <2>2, <2>4, <2>5
<1>7. Cardinality(1..L) = L
  BY <1>2
<1>. QED  BY <1>6, <1>7 DEF J

\* The key of a relation comes out as it is.
LEMMA WholeKey ==
  ASSUME NEW cat \in Catalogs, NEW t \in cat.granted
  PROVE  KeyOf(KeyRows(cat), t) = cat.key[t]
<1> DEFINE rows_ == KeyRows(cat)
           K == {n \in DOMAIN rows_ : rows_[n][1] = t}
           L == Len(cat.key[t])
           J == 1..L
           g == [n \in K |-> rows_[n][2]]
           lK == InOrder(Less(K), K)
           lJ == InOrder(Less(J), J)
<1>1. rows_ = Sorted(Key(cat))
  BY GrantCovers
<1>2. /\ rows_ \in Seq(Key(cat))
      /\ \A r \in Key(cat) : \E n \in DOMAIN rows_ : rows_[n] = r
      /\ \A m, n \in DOMAIN rows_ : m < n => Earlier(rows_[m], rows_[n])
  <2> HIDE DEF rows_
  <2>1. 3 \in Nat
    OBVIOUS
  <2>. QED  BY <1>1, <2>1, KeyFinite, SortedRows
<1> HIDE DEF rows_
<1>3. Len(rows_) \in Nat /\ DOMAIN rows_ = 1..Len(rows_)
  BY <1>2
<1>4. K \in SUBSET Nat /\ IsFiniteSet(K)
  <2>1. K \in SUBSET (1..Len(rows_)) /\ 1 \in Int /\ Len(rows_) \in Int
    BY <1>3
  <2>2. IsFiniteSet(1..Len(rows_))
    BY <2>1, FS_Interval
  <2>3. \A n \in 1..Len(rows_) : n \in Nat
    BY <1>3
  <2> HIDE DEF K
  <2>. QED  BY <2>1, <2>2, <2>3, FS_Subset
<1>5. J \in SUBSET Nat /\ DOMAIN cat.key[t] = J /\ L \in Nat /\ \A i \in J : cat.key[t][i] \in Nat
  <2>1. cat.key[t] \in Seq(Nat)
    BY KeyOfNumbers
  <2>2. /\ DOMAIN cat.key[t] = 1..Len(cat.key[t]) /\ Len(cat.key[t]) \in Nat
        /\ \A i \in 1..Len(cat.key[t]) : cat.key[t][i] \in Nat
    BY <2>1
  <2>. QED  BY <2>2
<1>6. ASSUME NEW n \in K
      PROVE  /\ rows_[n][2] \in J /\ rows_[n] = <<t, rows_[n][2], cat.key[t][rows_[n][2]]>>
  <2>1. rows_[n] \in Key(cat) /\ rows_[n][1] = t
    BY <1>2
  <2>2. PICK s \in cat.granted : \E i \in DOMAIN cat.key[s] : rows_[n] = <<s, i, cat.key[s][i]>>
    BY <2>1 DEF Key
  <2>3. PICK i \in DOMAIN cat.key[s] : rows_[n] = <<s, i, cat.key[s][i]>>
    BY <2>2
  <2>4. s = t /\ rows_[n][2] = i
    BY <2>1, <2>3
  <2>. QED  BY <1>5, <2>3, <2>4
<1>7. \A j \in J : \E n \in K : g[n] = j
  <2> SUFFICES ASSUME NEW j \in J PROVE \E n \in K : g[n] = j
    OBVIOUS
  <2>1. <<t, j, cat.key[t][j]>> \in Key(cat)
    BY <1>5 DEF Key
  <2>2. PICK n \in DOMAIN rows_ : rows_[n] = <<t, j, cat.key[t][j]>>
    BY <1>2, <2>1
  <2>3. n \in K /\ rows_[n][2] = j
    BY <2>2
  <2>. QED  BY <2>3
<1>8. \A n \in K : n \in DOMAIN rows_ /\ g[n] = rows_[n][2]
  OBVIOUS
<1>9. g \in [K -> J]
  BY <1>6
<1>10. KeyOf(rows_, t) = [n \in DOMAIN lK |-> rows_[lK[n]][3]]
  BY DEF KeyOf, Picked, Less
<1> HIDE DEF K, J, L, g
<1>12. ASSUME NEW m \in K, NEW n \in K, m < n PROVE g[m] < g[n]
  <2>1. Earlier(rows_[m], rows_[n])
    BY <1>2, <1>8, <1>12
  <2>2. rows_[m] = <<t, g[m], cat.key[t][g[m]]>> /\ rows_[n] = <<t, g[n], cat.key[t][g[n]]>>
    BY <1>6, <1>8
  <2>3. g[m] \in Nat /\ g[n] \in Nat /\ t \in Nat /\ cat.key[t][g[m]] \in Nat
    <3>1. g[m] \in J /\ g[n] \in J
      BY <1>9
    <3>2. t \in Nat
      BY CatalogsAssumption
    <3>. QED  BY <1>5, <3>1, <3>2
  <2> DEFINE r == rows_[m]
             s == rows_[n]
  <2>4. Len(r) = 3 /\ r[1] = t /\ s[1] = t /\ r[2] = g[m] /\ s[2] = g[n]
        /\ r[3] = cat.key[t][g[m]] /\ s[3] = cat.key[t][g[n]]
    BY <2>2
  <2> HIDE DEF r, s
  <2>5. PICK i \in 1..3 : r[i] < s[i] /\ \A j \in 1..(i - 1) : r[j] = s[j]
    BY <2>1, <2>4 DEF Earlier, r, s
  <2>6. CASE i = 1
    BY <2>3, <2>4, <2>5, <2>6
  <2>7. CASE i = 2
    BY <2>4, <2>5, <2>7
  <2>8. CASE i = 3
    <3>1. r[2] = s[2]
      BY <2>5, <2>8
    <3>2. r[3] = s[3] /\ r[3] < s[3] /\ r[3] \in Nat
      BY <2>3, <2>4, <2>5, <2>8, <3>1
    <3>. QED  BY <3>2
  <2>. QED  BY <2>5, <2>6, <2>7, <2>8
<1>13. /\ lK \in [1..Cardinality(K) -> K]
       /\ lJ \in [1..Cardinality(K) -> J]
       /\ \A n \in 1..Cardinality(K) : lJ[n] = g[lK[n]]
       /\ Cardinality(J) = Cardinality(K)
  BY <1>4, <1>5, <1>7, <1>9, <1>12, PicksAlike
<1>14. Cardinality(K) = L /\ \A n \in 1..L : lJ[n] = n
  BY <1>5, <1>13, AllPlaces DEF J
<1> HIDE DEF lK, lJ
<1>15. ASSUME NEW n \in 1..L PROVE rows_[lK[n]][3] = cat.key[t][n]
  <2>1. lK[n] \in K /\ g[lK[n]] = n
    BY <1>13, <1>14
  <2>2. rows_[lK[n]] = <<t, g[lK[n]], cat.key[t][g[lK[n]]]>>
    BY <1>6, <1>8, <2>1
  <2>. QED  BY <2>1, <2>2
<1>16. DOMAIN lK = 1..L
  BY <1>13, <1>14
<1>17. cat.key[t] = [n \in 1..L |-> cat.key[t][n]]
  <2>1. cat.key[t] \in Seq(Nat)
    BY KeyOfNumbers
  <2>. QED  BY <1>5, <2>1 DEF J
<1>18. KeyOf(rows_, t) = cat.key[t]
  BY <1>10, <1>15, <1>16, <1>17
<1>. QED  BY <1>18 DEF rows_

(***************************************************************************)
(* The rows of one foreign key are picked in the order of its columns, so  *)
(* that folding them makes that key again.                                 *)
(***************************************************************************)
LEMMA WholeLink ==
  ASSUME NEW cat \in Catalogs, NEW l \in Seen(cat), NEW r, r[1] = l.from, r[2] = l.name
  PROVE  LET rows_ == LinkRows(cat)
             mine == Picked(rows_, {i \in DOMAIN rows_ : SameLink(r, rows_[i])})
         IN  [name |-> mine[1][2], from |-> mine[1][1], to |-> mine[1][5],
              pairs |-> [i \in DOMAIN mine |-> <<mine[i][4], mine[i][6]>>]] = l
<1> DEFINE rows_ == LinkRows(cat)
           L == Len(l.pairs)
           row(i) == <<l.from, l.name, i, l.pairs[i][1], l.to, l.pairs[i][2]>>
           K == {n \in DOMAIN rows_ : SameLink(r, rows_[n])}
           J == 1..L
           g == [n \in K |-> rows_[n][3]]
           lK == InOrder(Less(K), K)
           lJ == InOrder(Less(J), J)
           mine == Picked(rows_, K)
<1>1. rows_ = Sorted(Link(cat))
  BY DEF LinkRows, Link, Seen
<1>2. /\ rows_ \in Seq(Link(cat))
      /\ \A s \in Link(cat) : \E n \in DOMAIN rows_ : rows_[n] = s
      /\ \A m, n \in DOMAIN rows_ : m < n => Earlier(rows_[m], rows_[n])
  <2> HIDE DEF rows_
  <2>1. 6 \in Nat
    OBVIOUS
  <2>. QED  BY <1>1, <2>1, LinkFinite, SortedRows
<1> HIDE DEF rows_
<1>3. Len(rows_) \in Nat /\ DOMAIN rows_ = 1..Len(rows_)
  BY <1>2
<1>4. K \in SUBSET Nat /\ IsFiniteSet(K)
  <2>1. K \in SUBSET (1..Len(rows_)) /\ 1 \in Int /\ Len(rows_) \in Int
    BY <1>3
  <2>2. IsFiniteSet(1..Len(rows_))
    BY <2>1, FS_Interval
  <2>3. \A n \in 1..Len(rows_) : n \in Nat
    BY <1>3
  <2> HIDE DEF K
  <2>. QED  BY <2>1, <2>2, <2>3, FS_Subset
<1>5. L \in Nat \ {0} /\ DOMAIN l.pairs = J /\ J \in SUBSET Nat
      /\ \A i \in J : l.pairs[i] = <<l.pairs[i][1], l.pairs[i][2]>>
  <2>1. L \in Nat \ {0} /\ DOMAIN l.pairs = 1..L /\ \A i \in 1..L : l.pairs[i] = <<l.pairs[i][1], l.pairs[i][2]>>
    BY LinkIs
  <2> HIDE DEF L
  <2>. QED  BY <2>1
<1>6. ASSUME NEW n \in K PROVE rows_[n][3] \in J /\ rows_[n] = row(rows_[n][3])
  <2>1. rows_[n] \in Link(cat) /\ rows_[n][1] = l.from /\ rows_[n][2] = l.name
    BY <1>2 DEF SameLink
  <2>2. PICK k \in Seen(cat) :
          \E i \in DOMAIN k.pairs : rows_[n] = <<k.from, k.name, i, k.pairs[i][1], k.to, k.pairs[i][2]>>
    BY <2>1 DEF Link
  <2>3. PICK i \in DOMAIN k.pairs : rows_[n] = <<k.from, k.name, i, k.pairs[i][1], k.to, k.pairs[i][2]>>
    BY <2>2
  <2>4. k.from = l.from /\ k.name = l.name /\ rows_[n][3] = i
    BY <2>1, <2>3
  <2>5. k = l
    BY <2>4, LinkIs
  <2>. QED  BY <1>5, <2>3, <2>4, <2>5
<1>7. \A j \in J : \E n \in K : g[n] = j
  <2> SUFFICES ASSUME NEW j \in J PROVE \E n \in K : g[n] = j
    OBVIOUS
  <2>1. row(j) \in Link(cat)
    BY <1>5 DEF Link
  <2>2. PICK n \in DOMAIN rows_ : rows_[n] = row(j)
    BY <1>2, <2>1
  <2>3. n \in K /\ rows_[n][3] = j
    BY <2>2 DEF SameLink
  <2>. QED  BY <2>3
<1>8. \A n \in K : n \in DOMAIN rows_ /\ g[n] = rows_[n][3]
  OBVIOUS
<1>9. g \in [K -> J]
  BY <1>6
<1>10. mine = [n \in DOMAIN lK |-> rows_[lK[n]]]
  BY DEF Picked, Less
<1> HIDE DEF K, g, L, J, mine
<1>11. ASSUME NEW m \in K, NEW n \in K, m < n PROVE g[m] < g[n]
  <2>1. Earlier(rows_[m], rows_[n])
    BY <1>2, <1>8, <1>11
  <2>2. rows_[m] = row(g[m]) /\ rows_[n] = row(g[n])
    BY <1>6, <1>8
  <2>3. g[m] \in J /\ g[n] \in J
    BY <1>9
  <2> DEFINE p == rows_[m]
             q == rows_[n]
             a == g[m]
             b == g[n]
  <2>4. Len(p) = 6 /\ p[1] = q[1] /\ p[2] = q[2] /\ p[3] = a /\ q[3] = b
        /\ p[1] = l.from /\ p[2] = l.name /\ p[4] = l.pairs[a][1] /\ p[5] = l.to /\ p[6] = l.pairs[a][2]
    BY <2>2
  <2>5. l.from \in Nat /\ l.name \in Nat /\ l.to \in Nat /\ l.pairs[a][1] \in Nat /\ l.pairs[a][2] \in Nat
    BY <2>3, LinkIs DEF J, L
  <2>6. a = b => p = q
    BY <2>2
  <2>7. a \in Nat /\ b \in Nat
    BY <1>5, <2>3
  <2> HIDE DEF p, q, a, b
  <2>8. PICK i \in 1..6 : p[i] < q[i] /\ \A j \in 1..(i - 1) : p[j] = q[j]
    BY <2>1, <2>4 DEF Earlier, p, q
  <2>9. \A j \in 1..6 : p[j] \in Nat
    BY <2>4, <2>5, <2>7
  <2>10. i # 1 /\ i # 2
    <3>1. \A x \in Nat : ~(x < x)
      OBVIOUS
    <3>2. ~(p[1] < q[1]) /\ ~(p[2] < q[2])
      BY <2>4, <2>5, <3>1
    <3>. QED  BY <2>8, <3>2
  <2>11. CASE i = 3
    BY <2>4, <2>8, <2>11 DEF a, b
  <2>12. CASE i > 3
    <3>1. 3 \in 1..(i - 1)
      BY <2>8, <2>12
    <3>2. a = b
      BY <2>4, <2>8, <3>1
    <3>3. p[i] = q[i]
      BY <2>6, <3>2
    <3>. QED  BY <2>8, <2>9, <3>3
  <2>. QED  BY <2>8, <2>10, <2>11, <2>12
<1>12. /\ lK \in [1..Cardinality(K) -> K]
       /\ lJ \in [1..Cardinality(K) -> J]
       /\ \A n \in 1..Cardinality(K) : lJ[n] = g[lK[n]]
       /\ Cardinality(J) = Cardinality(K)
  <2>1. J \in SUBSET Nat
    BY <1>5
  <2>. QED  BY <1>4, <1>7, <1>9, <1>11, <2>1, PicksAlike
<1> HIDE DEF lK, lJ
<1>13. Cardinality(J) = L /\ \A n \in J : lJ[n] = n
  BY <1>5, AllPlaces DEF J, lJ
<1>14. ASSUME NEW n \in 1..L PROVE mine[n] = row(n)
  <2>1. n \in DOMAIN lK /\ lK[n] \in K /\ n \in J
    BY <1>12, <1>13 DEF J
  <2>2. g[lK[n]] = n
    BY <1>12, <1>13, <2>1 DEF J
  <2>3. rows_[lK[n]] = row(n)
    BY <1>6, <1>8, <2>1, <2>2
  <2>. QED  BY <1>10, <2>1, <2>3
<1>15. DOMAIN mine = 1..L
  BY <1>10, <1>12, <1>13
<1>16. mine[1][2] = l.name /\ mine[1][1] = l.from /\ mine[1][5] = l.to
  <2>1. 1 \in 1..L
    BY <1>5
  <2>. QED  BY <1>14, <2>1
<1>17. [i \in DOMAIN mine |-> <<mine[i][4], mine[i][6]>>] = l.pairs
  <2>1. \A i \in 1..L : <<mine[i][4], mine[i][6]>> = l.pairs[i]
    BY <1>5, <1>14 DEF J
  <2>2. l.pairs = [i \in 1..L |-> l.pairs[i]]
    <3>1. l.pairs \in Seq(Nat \X Nat)
      BY LinkIs
    <3>. QED  BY <1>5, <3>1 DEF J
  <2>. QED  BY <1>15, <2>1, <2>2
<1>18. l = [name |-> l.name, from |-> l.from, to |-> l.to, pairs |-> l.pairs]
  BY LinkIs
<1>19. [name |-> mine[1][2], from |-> mine[1][1], to |-> mine[1][5],
        pairs |-> [i \in DOMAIN mine |-> <<mine[i][4], mine[i][6]>>]] = l
  BY <1>16, <1>17, <1>18
<1>. QED  BY <1>19 DEF mine, K, rows_

\* And all of them are there, with none besides.
LEMMA WholeLinks ==
  ASSUME NEW cat \in Catalogs
  PROVE  Folded(LinkRows(cat)) = Seen(cat)
<1> DEFINE rows_ == LinkRows(cat)
           fold(r) == LET mine == Picked(rows_, {i \in DOMAIN rows_ : SameLink(r, rows_[i])})
                      IN  [name |-> mine[1][2], from |-> mine[1][1], to |-> mine[1][5],
                           pairs |-> [i \in DOMAIN mine |-> <<mine[i][4], mine[i][6]>>]]
<1>1. Folded(rows_) = {fold(r) : r \in ToSet(rows_)}
  BY DEF Folded
<1>2. ToSet(rows_) = Link(cat)
  <2>1. rows_ = Sorted(Link(cat))
    BY DEF LinkRows, Link, Seen
  <2>2. 6 \in Nat
    OBVIOUS
  <2>3. /\ Sorted(Link(cat)) \in Seq(Link(cat))
        /\ \A s \in Link(cat) : \E n \in DOMAIN Sorted(Link(cat)) : Sorted(Link(cat))[n] = s
    BY <2>2, LinkFinite, SortedRows
  <2> HIDE DEF rows_
  <2>. QED  BY <2>1, <2>3 DEF ToSet
<1>3. ASSUME NEW l \in Seen(cat), NEW r, r[1] = l.from, r[2] = l.name PROVE fold(r) = l
  BY <1>3, WholeLink
<1> HIDE DEF rows_, fold
<1>4. ASSUME NEW r \in Link(cat) PROVE fold(r) \in Seen(cat)
  <2>1. PICK l \in Seen(cat) :
               \E i \in DOMAIN l.pairs : r = <<l.from, l.name, i, l.pairs[i][1], l.to, l.pairs[i][2]>>
    BY DEF Link
  <2>2. r[1] = l.from /\ r[2] = l.name
    BY <2>1
  <2>. QED  BY <1>3, <2>2
<1>5. ASSUME NEW l \in Seen(cat) PROVE \E r \in Link(cat) : fold(r) = l
  <2> DEFINE r == <<l.from, l.name, 1, l.pairs[1][1], l.to, l.pairs[1][2]>>
  <2>1. 1 \in DOMAIN l.pairs
    BY LinkIs
  <2>2. r \in Link(cat) /\ r[1] = l.from /\ r[2] = l.name
    BY <2>1 DEF Link
  <2> HIDE DEF r
  <2>. QED  BY <1>3, <2>2
<1>6. Folded(rows_) = Seen(cat)
  BY <1>1, <1>2, <1>4, <1>5
<1>. QED  BY <1>6 DEF rows_

\* The two lists that a cap is held against have a length.
LEMMA RowsCounted ==
  ASSUME NEW cat \in Catalogs
  PROVE  Len(TableRows(cat)) \in Nat /\ Len(ColumnRows(cat)) \in Nat
<1>1. ASSUME NEW S, NEW list \in Seq(S), NEW n \in Nat PROVE Len(AtMost(n, list)) \in Nat
  <2>1. Len(list) \in Nat
    OBVIOUS
  <2>2. CASE n < Len(list)
    BY <2>1, <2>2 DEF AtMost
  <2>3. CASE ~(n < Len(list))
    BY <2>1, <2>3 DEF AtMost
  <2>. QED  BY <2>2, <2>3
<1>2. Limit(MaxTables) \in Nat /\ Limit(MaxColumns) \in Nat /\ 1 \in Nat /\ 2 \in Nat
  BY CapsAssumption DEF Limit
<1>3. Sorted(Table(cat)) \in Seq(Table(cat))
  BY <1>2, TableFinite, SortedRows
<1>4. Sorted(Column(cat)) \in Seq(Column(cat))
  BY <1>2, ColumnFinite, SortedRows
<1>5. TableRows(cat) = AtMost(Limit(MaxTables), Sorted(Table(cat)))
  BY DEF TableRows, Table
<1>6. ColumnRows(cat) = AtMost(Limit(MaxColumns), Sorted(Column(cat)))
  BY GrantCovers
<1>. QED  BY <1>1, <1>2, <1>3, <1>4, <1>5, <1>6

\* The schema put together of the answers of one catalog is all there is, or says that it is not.
LEMMA Assembled ==
  ASSUME NEW cat \in Catalogs, NEW r,
         r[2] = TableRows(cat), r[3] = ColumnRows(cat), r[4] = KeyRows(cat), r[5] = LinkRows(cat)
  PROVE  Assemble(r).truncated \/ Assemble(r) = Visible(cat)
<1> DEFINE kept == {q[1] : q \in ToSet(AtMost(MaxTables, r[2]))}
           columns == ToSet(AtMost(MaxColumns, r[3]))
           tables == [t \in kept |->
                        [columns |-> {q[2] : q \in {s \in columns : s[1] = t}}, key |-> KeyOf(r[4], t)]]
           cut == Len(r[2]) > MaxTables \/ Len(r[3]) > MaxColumns
<1>1. Assemble(r) = [tables |-> tables, links |-> Folded(r[5]), truncated |-> cut]
  BY DEF Assemble
<1>2. SUFFICES ASSUME ~cut PROVE Assemble(r) = Visible(cat)
  <2>1. cut \in BOOLEAN
    OBVIOUS
  <2> HIDE DEF tables, cut
  <2>2. Assemble(r).truncated = cut
    BY <1>1
  <2>. QED  BY <2>1, <2>2
<1>3. Len(TableRows(cat)) <= MaxTables /\ Len(ColumnRows(cat)) <= MaxColumns
  <2>1. Len(TableRows(cat)) \in Nat /\ Len(ColumnRows(cat)) \in Nat
    BY RowsCounted
  <2>. QED  BY <1>2, <2>1, CapsAssumption
<1>4. kept = cat.granted
  BY <1>3, WholeTables
<1> DEFINE seen == [t \in cat.granted |-> [columns |-> cat.columns[t], key |-> cat.key[t]]]
<1>5. ASSUME NEW t \in cat.granted
      PROVE  /\ {q[2] : q \in {s \in columns : s[1] = t}} = cat.columns[t]
             /\ KeyOf(r[4], t) = cat.key[t]
  BY <1>3, WholeColumns, WholeKey
<1>6. Visible(cat) = [tables |-> seen, links |-> Seen(cat), truncated |-> FALSE]
  BY DEF Visible, Seen
<1>7. tables = seen
  <2> HIDE DEF kept, columns
  <2>. QED  BY <1>4, <1>5
<1>8. Folded(r[5]) = Seen(cat)
  BY WholeLinks
<1>9. cut = FALSE
  BY <1>2
<1> HIDE DEF tables, seen, cut
<1>. QED  BY <1>1, <1>6, <1>7, <1>8, <1>9

-----------------------------------------------------------------------------
(***************************************************************************)
(* The answers so far are those of the queries in their order, of the      *)
(* catalog as it is as long as nobody altered it.                          *)
(***************************************************************************)
Rows == {Answers(q, cat) : q \in {"whoami", "tables", "columns", "keys", "links"}, cat \in Catalogs}

RowsInv ==
  /\ catalog \in Catalogs /\ alterations \in Nat
  /\ ~Proving =>
       /\ asked \in 0..5 /\ rows \in Seq(Rows) /\ Len(rows) = asked
       /\ alterations = 0 => \A i \in 1..asked : rows[i] = Answers(Queries[i], catalog)
       /\ phase \notin {"rollback", "close", "done"} => result = <<>>
       /\ result # <<>> => result = <<Assemble(rows)>> /\ asked = 5

\* What is asked, and when.
LEMMA QueriesAre ==
  /\ Len(Queries) = 5
  /\ Queries[1] = "whoami" /\ Queries[2] = "tables" /\ Queries[3] = "columns"
  /\ Queries[4] = "keys" /\ Queries[5] = "links"
BY DEF Queries

LEMMA RowsInitially == Init => RowsInv
  BY DEF Init, RowsInv

LEMMA RowsAsked == RowsInv /\ Asked /\ ~Proving => RowsInv'
<1> SUFFICES ASSUME RowsInv, Asked, ~Proving PROVE RowsInv'
  OBVIOUS
<1> DEFINE row == Answers(Query, catalog)
<1>1. /\ asked < 5 /\ asked' = asked + 1 /\ rows' = Append(rows, row)
      /\ phase = "ask" /\ result = <<>> /\ Query = Queries[asked + 1]
      /\ UNCHANGED <<catalog, alterations, call, phase, result>>
  BY QueriesAre DEF RowsInv, Asked, Asking, List, Query, dbVars
<1>2. /\ catalog \in Catalogs /\ alterations \in Nat /\ asked \in 0..4 /\ rows \in Seq(Rows) /\ Len(rows) = asked
      /\ alterations = 0 => \A i \in 1..asked : rows[i] = Answers(Queries[i], catalog)
  BY <1>1 DEF RowsInv
<1>3. row \in Rows
  <2>1. asked = 0 \/ asked = 1 \/ asked = 2 \/ asked = 3 \/ asked = 4
    BY <1>2
  <2>2. Query \in {"whoami", "tables", "columns", "keys", "links"}
    BY <1>1, <2>1, QueriesAre
  <2>. QED  BY <1>2, <2>2 DEF Rows
<1> HIDE DEF row
<1>4. /\ rows' \in Seq(Rows) /\ Len(rows') = asked + 1 /\ rows'[asked + 1] = row
      /\ \A i \in 1..asked : rows'[i] = rows[i]
  BY <1>1, <1>2, <1>3
<1>5. ASSUME alterations = 0, NEW i \in 1..(asked + 1) PROVE rows'[i] = Answers(Queries[i], catalog)
  <2>1. CASE i = asked + 1
    BY <1>1, <1>4, <2>1 DEF row
  <2>2. CASE i # asked + 1
    <3>1. i \in 1..asked
      BY <1>2, <2>2
    <3>. QED  BY <1>2, <1>4, <1>5, <3>1
  <2>. QED  BY <2>1, <2>2
<1>6. asked + 1 \in 0..5
  BY <1>2
<1>. QED  BY <1>1, <1>2, <1>4, <1>5, <1>6 DEF RowsInv, Proving

LEMMA RowsNext == RowsInv /\ [Next]_vars => RowsInv'
<1> SUFFICES ASSUME RowsInv, [Next]_vars PROVE RowsInv'
  OBVIOUS
<1> USE DEF RowsInv, Proving, dbVars
<1>1. CASE Usage \/ OpenFails \/ OpenDatabase
  BY <1>1 DEF Usage, OpenFails, OpenDatabase, workVars
<1>2. CASE ConnectFails \/ Connect
  BY <1>2 DEF ConnectFails, Connect, Leaves, workVars
<1>3. CASE Begin \/ BeginFails
  BY <1>3 DEF Begin, BeginFails, workVars
<1>4. CASE Asked
  <2>1. CASE Proving
    BY <1>4, <2>1 DEF Asked
  <2>2. CASE ~Proving
    <3> USE DEF dbVars
    <3>. QED  BY <1>4, <2>2, RowsAsked
  <2>. QED  BY <2>1, <2>2
<1>5. CASE CheckFails
  BY <1>5 DEF CheckFails
<1>6. CASE QueryFails
  BY <1>6 DEF QueryFails, Asking, workVars
<1>7. CASE Returns
  BY <1>7, QueriesAre DEF Returns, List, workVars
<1>8. CASE Rollback \/ RollbackFails
  BY <1>8 DEF Rollback, RollbackFails, Leaves, workVars
<1>9. CASE Close
  BY <1>9 DEF Close, workVars
<1>10. CASE Alter
  BY <1>10 DEF Alter, workVars
<1>11. CASE Lose
  BY <1>11 DEF Lose, workVars
<1>12. CASE UNCHANGED vars
  BY <1>12 DEF vars
<1>. QED  BY <1>1, <1>2, <1>3, <1>4, <1>5, <1>6, <1>7, <1>8, <1>9, <1>10, <1>11, <1>12 DEF Next

(***************************************************************************)
(* For every catalog and both caps: a schema that does not say it is       *)
(* truncated is all the role can see (introspectSchema).                   *)
(***************************************************************************)
THEOREM SchemaIsWhole == Spec => []SchemaIsCatalog
<1>1. RowsInv => SchemaIsCatalog
  <2> SUFFICES ASSUME RowsInv, Reported, ~Proving, alterations = 0
               PROVE  Outcome.truncated \/ Outcome = Visible(catalog)
    BY DEF SchemaIsCatalog
  <2>1. /\ catalog \in Catalogs /\ Outcome = Assemble(rows)
        /\ \A i \in 1..5 : rows[i] = Answers(Queries[i], catalog)
    BY DEF RowsInv, Reported, Outcome
  <2>2. /\ rows[2] = TableRows(catalog) /\ rows[3] = ColumnRows(catalog)
        /\ rows[4] = KeyRows(catalog) /\ rows[5] = LinkRows(catalog)
    BY <2>1, QueriesAre DEF Answers
  <2>. QED  BY <2>1, <2>2, Assembled
<1>. QED  BY <1>1, RowsInitially, RowsNext, PTL DEF Spec
=============================================================================
