------------------------------ MODULE SqlGuard ------------------------------
(***************************************************************************)
(* guardWith (sql-guard/src/guard.ts, rowcap.ts): a statement is inspected *)
(* and capped, deparsed, and what was emitted is inspected again.          *)
(*                                                                         *)
(* A text is a record [nul, stmts]: whether it holds a NUL byte, and what  *)
(* the parser makes of it - NoParse, or a sequence of statements.  One is  *)
(* [root, nodes, limit, ties]: the tag at its root, its nodes in the order *)
(* walk() meets them, and the LIMIT of its root.  A node is [is, what,     *)
(* scope]: the parser's tags and fields told apart as far as the guard     *)
(* does, the name a table or a CTE has, and the CTEs a reference at that   *)
(* place is in the scope of, which Postgres goes by and the guard does not *)
(* read.  A limit is [kind, value], kind none, static or dynamic.          *)
(***************************************************************************)
EXTENDS Integers, Sequences, FiniteSets, SequencesExt

CONSTANT NoParse  (* The parser refuses the text. *)

\* What the walk denies a node for; a table and the name of a CTE are collected.
NodeDenial(node) ==
  CASE node.is = "tag"   -> "E_NODE_NOT_ALLOWED"      \* not in ALLOWED_TAGS
    [] node.is = "field" -> "E_FIELD_NOT_ALLOWED"     \* not in ALLOWED_FIELDS of its tag
    [] node.is = "call"  -> "E_FUNCTION_NOT_ALLOWED"  \* name or schema not in functions.ts
    [] node.is = "deep"  -> "E_DEPTH_EXCEEDED"
    [] OTHER             -> "none"

\* walk stops at the first denial.
Walk(nodes) ==
  LET denied == {n \in DOMAIN nodes : NodeDenial(nodes[n]) # "none"}
  IN  IF denied = {} THEN "none"
      ELSE NodeDenial(nodes[CHOOSE n \in denied : \A m \in denied : n <= m])

Named(nodes, is) == {node.what : node \in {n \in Range(nodes) : n.is = is}}
TablesOf(nodes) == Named(nodes, "table")
CtesOf(nodes) == Named(nodes, "cte")

\* What Postgres reads: a reference outside the scope of every CTE of its name.
Reads(nodes) == {node.what : node \in {n \in Range(nodes) : n.is = "table" /\ n.what \notin n.scope}}

\* applyPolicy: an unqualified name that any CTE of the statement bears is let
\* through, wherever it stands; a qualified name is another `what'.  The schemas
\* a policy allows are abstracted into its tables.
ApplyPolicy(nodes, policy) ==
  IF TablesOf(nodes) \ CtesOf(nodes) \subseteq policy.allowedTables THEN "none" ELSE "E_TABLE_NOT_ALLOWED"

Inspect(text, policy) ==
  IF text.nul THEN "E_NUL_BYTE"
  ELSE IF text.stmts = NoParse THEN "E_PARSE"
  ELSE IF text.stmts = <<>> THEN "E_EMPTY"
  ELSE IF Len(text.stmts) > 1 THEN "E_MULTI_STATEMENT"
  ELSE LET stmt == text.stmts[1] IN
       IF stmt.root # "SelectStmt" THEN "E_NOT_SELECT"
       ELSE IF Walk(stmt.nodes) # "none" THEN Walk(stmt.nodes)
       ELSE ApplyPolicy(stmt.nodes, policy)

\* applyRowCap: the code it denies with.
CapDenial(stmt) ==
  IF stmt.ties THEN "E_LIMIT_NOT_ENFORCEABLE"
  ELSE IF stmt.limit.kind = "dynamic" THEN "E_LIMIT_NOT_STATIC" ELSE "none"

Capped(stmt, maxRows) ==
  IF stmt.limit.kind = "static" /\ stmt.limit.value <= maxRows THEN stmt
  ELSE [stmt EXCEPT !.limit = [kind |-> "static", value |-> maxRows]]

\* The text a deparser that is right emits.
Deparsed(text, policy) == [nul |-> FALSE, stmts |-> <<Capped(text.stmts[1], policy.maxRows)>>]

\* What the first inspection and the cap make of a text.
FirstVerdict(text, policy) ==
  IF Inspect(text, policy) # "none" THEN Inspect(text, policy) ELSE CapDenial(text.stmts[1])

\* Slip: the emitted text is trusted to carry the cap.
SecondVerdictUncapped(emitted, policy) ==
  IF Inspect(emitted, policy) # "none" THEN "E_ROUND_TRIP_FAILED" ELSE "none"

\* The deparser is not trusted: what it emitted is inspected, and its cap read.
SecondVerdict(emitted, policy) ==
  IF Inspect(emitted, policy) # "none" THEN "E_ROUND_TRIP_FAILED"
  ELSE LET limit == emitted.stmts[1].limit
       IN  IF limit.kind # "static" \/ limit.value > policy.maxRows
           THEN "E_ROUND_TRIP_FAILED" ELSE "none"

\* The code of the verdict, when the deparser emits that text: none approves it.
GuardWith(text, emitted, policy) ==
  IF FirstVerdict(text, policy) # "none" THEN FirstVerdict(text, policy)
  ELSE SecondVerdict(emitted, policy)

\* planner.ts: what a code says of the statement.
Shape(code) ==
  CASE code \in {"E_NOT_SELECT", "E_MULTI_STATEMENT", "E_NUL_BYTE"} -> "attack"
    [] code \in {"E_ROUND_TRIP_FAILED", "E_INTERNAL"} -> "fault"
    [] OTHER -> "mistake"
=============================================================================
