----------------------------- MODULE CommandLine -----------------------------
(* `ik doctor` and `ik introspect`, from the arguments to the exit code, and a *)
(* host that calls proveIsolation on its own pool. Each runs its queries one   *)
(* by one inside inReadOnlyTransaction, while other sessions alter the catalog *)
(* (the transaction is READ COMMITTED: each query sees what is committed when  *)
(* it runs), statements fail and the connection is lost.                       *)
EXTENDS Naturals, Sequences, SequencesExt, Doctor, Introspection

CONSTANTS
    Catalogs,        \* the catalogs the database may have
    MaxAlterations,  \* bound of the model: how often one run sees the catalog altered
    None             \* no exit code: a host has none, and a command none yet

\* A catalog is finite, grants and keys are of columns there are, and a foreign key has a name of its
\* own on its relation. Postgres has no row security on views and foreign tables.
ASSUME CatalogsAssumption ==
    \A cat \in Catalogs :
        /\ IsFiniteSet(cat.granted) /\ cat.granted \subseteq Nat
        /\ \A t \in cat.granted :
              IsFiniteSet(cat.columns[t]) /\ cat.columns[t] \subseteq Nat /\ cat.key[t] \in Seq(cat.columns[t])
        /\ \A t \in DOMAIN cat.byColumn : cat.byColumn[t] \subseteq cat.columns[t]
        /\ cat.secured \cap (cat.views \union cat.foreign) = {}
        /\ IsFiniteSet(cat.links)
        /\ cat.links \subseteq [name : Nat, from : Nat, to : Nat, pairs : Seq(Nat \X Nat)]
        /\ \A l \in cat.links :
              /\ l.pairs # <<>> /\ Range(l.pairs) \subseteq cat.columns[l.from] \X cat.columns[l.to]
              /\ \A k \in cat.links : k.from = l.from /\ k.name = l.name => k = l

VARIABLES
    catalog,     \* the catalog as it is committed
    alterations, \* how often it was altered while the queries ran
    call,        \* [command, strict, scoping]: what was asked for, and by whom
    phase,       \* the await the command is at
    asked,       \* how many queries of its list it has asked
    session,     \* the server's side: "none", "idle", "open" or "aborted" transaction, "lost"
    client,      \* the connection: "none", "leased", "returned" to the pool or "destroyed"
    pool,        \* the pool: "none", "open", "ended" or "stuck"; the pool of a host is not ours to end
    reports,     \* the reports of the checks so far
    rows,        \* the rows of the introspection queries so far
    thrown,      \* an exception is on its way out
    result,      \* the proof or the schema the command ends with; empty without one
    exit         \* the exit code

vars == <<catalog, alterations, call, phase, asked, session, client, pool, reports, rows, thrown, result, exit>>

dbVars == <<catalog, alterations>>
connVars == <<session, client, pool>>
workVars == <<asked, reports, rows>>

(***************************************************************************)
(* The command line cannot say that tenant scoping is wired: only a host     *)
(* does. --strict is of the command line.                                    *)
(***************************************************************************)
Calls ==
    [command : {"doctor"}, strict : BOOLEAN, scoping : {FALSE}]
    \union [command : {"introspect"}, strict : {FALSE}, scoping : {FALSE}]
    \union [command : {"proveIsolation"}, strict : {FALSE}, scoping : BOOLEAN]

Proving == call.command \in {"doctor", "proveIsolation"}

List == IF Proving THEN Order ELSE Queries

Init ==
    /\ catalog \in Catalogs
    /\ call \in Calls
    /\ phase = IF call.command = "proveIsolation" THEN "connect" ELSE "arguments"
    /\ alterations = 0 /\ asked = 0
    /\ session = "none" /\ client = "none" /\ pool = "none"
    /\ reports = <<>> /\ rows = <<>>
    /\ thrown = FALSE /\ result = <<>> /\ exit = None

(***************************************************************************)
(* Arguments. A bad flag, or a role name core refuses, is a usage error; a   *)
(* URL or a driver that is missing ends the command before anything is open. *)
(***************************************************************************)
Usage ==
    /\ phase = "arguments"
    /\ phase' = "done" /\ exit' = 2
    /\ UNCHANGED <<dbVars, call, connVars, workVars, thrown, result>>

OpenFails ==
    /\ phase = "arguments"
    /\ phase' = "done" /\ exit' = 3
    /\ UNCHANGED <<dbVars, call, connVars, workVars, thrown, result>>

OpenDatabase ==
    /\ phase = "arguments"
    /\ phase' = "connect" /\ pool' = "open"
    /\ UNCHANGED <<dbVars, call, session, client, workVars, thrown, result, exit>>

\* After the transaction the command line ends its pool; a host has its answer.
Leaves == IF pool = "open" THEN "close" ELSE "done"

\* No connection, or names and limits the queries cannot be built with: nothing is leased.
ConnectFails ==
    /\ phase = "connect"
    /\ phase' = Leaves /\ thrown' = TRUE
    /\ UNCHANGED <<dbVars, call, connVars, workVars, result, exit>>

Connect ==
    /\ phase = "connect"
    /\ phase' = "begin" /\ client' = "leased" /\ session' = "idle"
    /\ UNCHANGED <<dbVars, call, pool, workVars, thrown, result, exit>>

\* BEGIN READ ONLY and the preamble.
Begin ==
    /\ phase = "begin" /\ session = "idle"
    /\ phase' = "ask" /\ session' = "open"
    /\ UNCHANGED <<dbVars, call, client, pool, workVars, thrown, result, exit>>

\* BEGIN or a statement of the preamble fails: the body never runs.
BeginFails ==
    /\ phase = "begin"
    /\ session' \in IF session = "lost" THEN {"lost"} ELSE {"idle", "aborted"}
    /\ phase' = "rollback" /\ thrown' = TRUE
    /\ UNCHANGED <<dbVars, call, client, pool, workVars, result, exit>>

(***************************************************************************)
(* The queries of the body. A failing query aborts the transaction, and an   *)
(* aborted one fails every query after it. The doctor takes note and goes    *)
(* on; introspection gives up.                                               *)
(***************************************************************************)
Asking == phase = "ask" /\ asked < Len(List)

Query == List[asked + 1]

Asked ==
    /\ Asking /\ session = "open"
    /\ asked' = asked + 1
    /\ IF Proving
       THEN reports' = Append(reports, Ran(Query, catalog, call.scoping)) /\ UNCHANGED rows
       ELSE rows' = Append(rows, Answers(Query, catalog)) /\ UNCHANGED reports
    /\ UNCHANGED <<dbVars, call, phase, connVars, thrown, result, exit>>

Aborts == session' = IF session = "lost" THEN "lost" ELSE "aborted"

\* Slip: a check that cannot run is passed over.
CheckSkipped ==
    /\ Asking /\ Proving
    /\ asked' = asked + 1 /\ Aborts
    /\ UNCHANGED <<dbVars, call, phase, client, pool, reports, rows, thrown, result, exit>>

CheckFails ==
    /\ Asking /\ Proving
    /\ asked' = asked + 1 /\ Aborts
    /\ reports' = Append(reports, Unran(Query, call.scoping))
    /\ UNCHANGED <<dbVars, call, phase, client, pool, rows, thrown, result, exit>>

QueryFails ==
    /\ Asking /\ ~Proving
    /\ Aborts
    /\ phase' = "rollback" /\ thrown' = TRUE
    /\ UNCHANGED <<dbVars, call, client, pool, workVars, result, exit>>

\* The body returns what it has collected; ROLLBACK is still to come.
Returns ==
    /\ phase = "ask" /\ asked = Len(List)
    /\ result' = <<IF Proving THEN reports ELSE Assemble(rows)>>
    /\ phase' = "rollback"
    /\ UNCHANGED <<dbVars, call, connVars, workVars, thrown, exit>>

\* Slip: a connection that could not be rolled back stays leased.
RollbackFailsUnreleased ==
    /\ phase = "rollback"
    /\ phase' = Leaves
    /\ UNCHANGED <<dbVars, call, connVars, workVars, thrown, result, exit>>

\* The finally block: what cannot be rolled back is destroyed, and the result survives it.
RollbackFails ==
    /\ phase = "rollback"
    /\ client' = "destroyed" /\ session' = "none"
    /\ phase' = Leaves
    /\ UNCHANGED <<dbVars, call, pool, workVars, thrown, result, exit>>

Rollback ==
    /\ phase = "rollback" /\ session # "lost"
    /\ client' = "returned" /\ session' = "idle"
    /\ phase' = Leaves
    /\ UNCHANGED <<dbVars, call, pool, workVars, thrown, result, exit>>

(***************************************************************************)
(* The end of a command: closeQuietly, then what the proof or the schema     *)
(* comes to. A pool whose end() fails is left at that: it costs a line.       *)
(***************************************************************************)
Outcome == result[1]

StrictTrips == call.strict /\ NeedsReview(Outcome, call.scoping) # {}

ExitCode ==
    IF thrown THEN 3
    ELSE IF call.command = "doctor" /\ (~Proven(Outcome, call.scoping) \/ StrictTrips) THEN 1
    ELSE 0

Close ==
    /\ phase = "close"
    /\ pool' \in {"ended", "stuck"} /\ session' = "none"
    /\ phase' = "done" /\ exit' = ExitCode
    /\ UNCHANGED <<dbVars, call, client, workVars, thrown, result>>

(***************************************************************************)
(* The environment: other sessions, and the connection.                     *)
(***************************************************************************)
Alter ==
    /\ phase = "ask" /\ alterations < MaxAlterations
    /\ \E c \in Catalogs \ {catalog} : catalog' = c
    /\ alterations' = alterations + 1
    /\ UNCHANGED <<call, phase, connVars, workVars, thrown, result, exit>>

Lose ==
    /\ phase \in {"begin", "ask", "rollback"} /\ session # "lost"
    /\ session' = "lost"
    /\ UNCHANGED <<dbVars, call, phase, client, pool, workVars, thrown, result, exit>>

Next ==
    \/ Usage \/ OpenFails \/ OpenDatabase \/ ConnectFails \/ Connect \/ Begin \/ BeginFails
    \/ Asked \/ CheckFails \/ QueryFails \/ Returns \/ Rollback \/ RollbackFails \/ Close
    \/ Alter \/ Lose

Spec == Init /\ [][Next]_vars

-----------------------------------------------------------------------------
Reported == phase = "done" /\ result # <<>>

AllRan == \A r \in ToSet(Outcome) : r.ran

(***************************************************************************)
(* A proof that holds under tenant scoping means, of a catalog nobody        *)
(* altered meanwhile, that there are tables to read and that whatever the    *)
(* login can read rows of without row security is a view, a foreign table or *)
(* granted by columns only - also when checks could not run. A strict doctor *)
(* that exits 0, which cannot wire tenant scoping, means if all its checks   *)
(* ran that no view granted as a whole is among those either, and that no    *)
(* policy on what is granted as a whole is written USING (true). The checks  *)
(* do not ask about foreign tables, grants of columns, or what other         *)
(* condition of a policy is always true, so of those nothing is claimed      *)
(* (proveIsolation, T1-T4 and B2 of isolationChecks, runDoctor).             *)
(***************************************************************************)
ProvenIsScoped ==
    (Reported /\ Proving /\ alterations = 0) =>
        /\ (call.scoping /\ Proven(Outcome, call.scoping)) =>
               Unscoped(catalog) \subseteq catalog.views \union Unasked(catalog) /\ ReadableTables(catalog) # {}
        /\ (call.strict /\ exit = 0 /\ AllRan) =>
               /\ Unscoped(catalog) \subseteq Unasked(catalog) /\ ReadableTables(catalog) # {}
               /\ catalog.granted \cap catalog.policed \cap catalog.literal = {}

(***************************************************************************)
(* A schema that does not say it is truncated is all that was granted to the *)
(* role as a whole, of a catalog nobody altered while the five queries ran:  *)
(* no such relation, no column, key column or foreign key of one is lost,    *)
(* none is put together from two, and there is nothing else in it            *)
(* (introspectSchema). A relation granted by columns only, which the role    *)
(* can read too, is left out without a word: queries.ts 60-64.               *)
(***************************************************************************)
SchemaIsCatalog ==
    (Reported /\ ~Proving /\ alterations = 0) =>
        Outcome.truncated \/ Outcome = Visible(catalog)

(***************************************************************************)
(* Whatever fails on the way, a command that ends has given its connection   *)
(* back or destroyed it and has ended its pool, or tried to; and it exits    *)
(* with 2 or 3 exactly if it has nothing to report, its arguments or an      *)
(* exception having cost it its result (inReadOnlyTransaction, runDoctor,    *)
(* runIntrospect, closeQuietly).                                             *)
(***************************************************************************)
NothingLeftOpen ==
    phase = "done" =>
        /\ client # "leased" /\ pool # "open"
        /\ call.command # "proveIsolation" => ((exit \in {2, 3}) <=> (result = <<>>))

(***************************************************************************)
(* "Inside the proof the rule inverts: a single check that could not run      *)
(* counts as a failure" (packages/cli/README.md:49), and run.ts:17 has it     *)
(* "count against the proof". An advisory check that could not run is neither *)
(* a blocker nor up for review, so that the doctor exits 0 past it.           *)
(***************************************************************************)
GreenMeansAllRan == (Reported /\ call.command = "doctor" /\ exit = 0) => AllRan
=============================================================================
