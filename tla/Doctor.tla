------------------------------- MODULE Doctor -------------------------------
(* The isolation proof: the checks of isolationChecks over a catalog of        *)
(* tables and roles, and the verdict proveIsolation draws from their reports.  *)
(*                                                                             *)
(* A catalog is of the relations outside Postgres' own schemas and the         *)
(* metadata schema, and says which of them the login role was granted as a     *)
(* whole and which columns one by one - USAGE of the schema included - which   *)
(* are views and which foreign tables, and of each table whether row security  *)
(* is on, forced, escaped by an owner, policed at all, and policed by a policy *)
(* written USING (true).                                                       *)
(* What the checks ask of the roles themselves is a set of faults.             *)
EXTENDS Naturals, Sequences, SequencesExt

(***************************************************************************)
(* What the queries of A0-A4 and B1, B3 may return rows about. "inside": the *)
(* proof runs as a role it tests; "attribute": a role is a superuser, may     *)
(* bypass row security or the like; "absent": neither role exists.            *)
(***************************************************************************)
Faults == {"inside", "writes", "member", "attribute", "absent", "metadata", "definer", "extension"}

\* The checks, in the order they are asked.
Order == <<"A0", "A1", "A2", "A3", "A4", "T1", "T2", "T3", "T4", "B1", "B2", "B3">>

\* Whether a check decides the proof. Only a caller that wires tenant scoping has T1 and T2 decide.
Blocking(id, scoping) ==
    \/ id \in {"A0", "A1", "A2", "A3", "A4"}
    \/ scoping /\ id \in {"T1", "T2"}

\* "readable" of T1-T3: ordinary tables of which has_table_privilege is true, which it
\* is of those granted as a whole.
ReadableTables(cat) == cat.granted \ (cat.views \union cat.foreign)

(***************************************************************************)
(* Whether the rows of the check's query leave something to say against the *)
(* database.                                                                *)
(***************************************************************************)
Objects(id, cat) ==
    \/ id = "A0" /\ "inside" \in cat.faults
    \/ id = "A1" /\ "writes" \in cat.faults
    \/ id = "A2" /\ "member" \in cat.faults
    \/ id = "A3" /\ cat.faults \cap {"attribute", "absent"} # {}
    \/ id = "A4" /\ "metadata" \in cat.faults
    \/ id = "T1" /\ (ReadableTables(cat) = {} \/ ~(ReadableTables(cat) \subseteq cat.secured))
    \/ id = "T2" /\ (ReadableTables(cat) \cap cat.secured \cap cat.owned) \ cat.forced # {}
    \/ id = "T3" /\ (ReadableTables(cat) \cap cat.secured) \ cat.policed # {}
    \/ id = "T4" /\ cat.granted \cap cat.policed \cap cat.literal # {}
    \/ id = "B1" /\ "definer" \in cat.faults
    \/ id = "B2" /\ cat.granted \cap cat.views # {}
    \/ id = "B3" /\ "extension" \in cat.faults

\* evaluate(): what a deciding check objects to fails it, what an advisory one finds is for review.
Evaluate(id, cat, scoping) ==
    IF ~Objects(id, cat) THEN "pass" ELSE IF Blocking(id, scoping) THEN "fail" ELSE "review"

\* A check that ran, and one whose query failed.
Ran(id, cat, scoping) == [id |-> id, status |-> Evaluate(id, cat, scoping), ran |-> TRUE]

Unran(id, scoping) == [id |-> id, status |-> "fail", ran |-> FALSE]

\* The reports that stand against the proof, and those a person has to look at.
Blockers(reports, scoping) == {r \in ToSet(reports) : Blocking(r.id, scoping) /\ r.status # "pass"}

NeedsReview(reports, scoping) == {r \in ToSet(reports) : ~Blocking(r.id, scoping) /\ r.status = "review"}

Proven(reports, scoping) == Blockers(reports, scoping) = {}

(***************************************************************************)
(* What the proof is about, said of Postgres rather than of the checks: the *)
(* relations whose rows a read through the login can get - any of their      *)
(* columns is enough - and gets without any policy. Row security is off      *)
(* there, as it is on every view and foreign table, or does not apply to a   *)
(* role that bypasses it or owns the table unforced.                         *)
(***************************************************************************)
Selectable(cat) == cat.granted \union {t \in DOMAIN cat.byColumn : cat.byColumn[t] # {}}

Unscoped(cat) ==
    {t \in Selectable(cat) :
        \/ "attribute" \in cat.faults
        \/ t \notin cat.secured
        \/ t \in cat.owned \ cat.forced}

\* What no check asks about: foreign tables, and relations granted by columns only.
Unasked(cat) == cat.foreign \union (Selectable(cat) \ cat.granted)
=============================================================================
