---------------------------- MODULE QuestionPath ----------------------------
(***************************************************************************)
(* handleAsk with what it calls: AskFlow says what becomes of a question   *)
(* for each outcome of its parts, and here the parts decide - the identity *)
(* of the caller, the schema loader and the glossary gate of Runtime, the  *)
(* retrieval of tables, the reply of the model and the SQL guard.  What a  *)
(* caller presents, asks and is replied, and what the deparser emits, is   *)
(* the environment's.                                                      *)
(***************************************************************************)
EXTENDS AskFlow, Runtime

CONSTANTS
  Presented,   (* The tokens callers present: see Identity.                 *)
  Verifier,    (* The identity configuration.                               *)
  Asked,       (* Questions, as sequences of words.                         *)
  Selecting,   (* The options of selectTables.                              *)
  MaxTerms, MaxEntries,  (* Those of the glossary.                          *)
  Replies,     (* What the model may reply: see Provider.                   *)
  Texts,       (* Statements it may write: see SqlGuard.                    *)
  Emissions,   (* Texts a deparser may emit that are not what it was given. *)
  Policy,      (* The guard's policy.                                       *)
  NoParse,     (* Of a text: see SqlGuard.                                  *)
  NoWork

\* What jose and the token's reader tell apart, and the claims mapped, in their order.
ASSUME PresentedAssumption ==
  /\ \A token \in Presented :
       /\ token.chars \in {"none", "some", "too many"} /\ token.key \in {"found", "no match", "unreachable"}
       /\ token.signed \in BOOLEAN /\ token.exp \in {"absent", "past", "ahead"}
  /\ Verifier.mapped \in Seq(STRING)

\* Each SDK has its own reasons to finish, and only one spells out a refusal.
ASSUME RepliesAssumption ==
  \A reply \in Replies :
    /\ reply.refusal \in BOOLEAN
    /\ reply.via = "openai" => reply.finish \notin {"max_tokens", "refusal"}
    /\ reply.via # "openai" => ~reply.refusal /\ reply.finish \notin {"length", "content_filter"}

Nodes == [is : {"plain", "table", "cte", "tag", "field", "call", "deep"}, what : STRING, scope : SUBSET STRING]
Statements ==
  [root : STRING, nodes : Seq(Nodes), limit : [kind : {"none", "static", "dynamic"}, value : Int], ties : BOOLEAN]

ASSUME TextsAssumption ==
  /\ \A text \in Texts \union Emissions : text.nul \in BOOLEAN /\ (text.stmts = NoParse \/ text.stmts \in Seq(Statements))
  /\ Policy.maxRows \in Int

\* The host's glossary is a list, a phrase is a list of words, as a question is.
ASSUME GlossaryAssumption ==
  /\ Entries \in Seq(Range(Entries))
  /\ \A entry \in Range(Entries) : entry.forms \in Seq(Seq(STRING))
  /\ Asked \subseteq Seq(STRING)

\* A schema is finite, and no two of its tables have one name.
ASSUME SchemasAssumption ==
  \A schema \in Schemas :
    /\ IsFiniteSet(schema.tables) /\ IsFiniteSet(schema.keys)
    /\ \A t \in schema.tables :
         /\ t.id \in Int /\ t.size \in Nat
         /\ \A words \in {t.name, t.columns, t.note, t.notes} : IsFiniteSet(words)
         /\ \A s \in schema.tables : s.id = t.id => s = t

ASSUME SelectingAssumption == {Selecting.maxTables, Selecting.maxTokens, Selecting.linkDepth, MaxEntries} \subseteq Nat

VARIABLES
  waits,  (* The load the question waits on, 0 if the loader threw at once. *)
  work    (* What the question has in hand: a token, a prompt, a statement. *)

pathVars == <<vars, runtimeVars, waits, work>>

Id == INSTANCE Identity
Retrieve == INSTANCE Retrieval
Llm == INSTANCE Provider
Guard == INSTANCE SqlGuard

InitPath ==
  /\ Init
  /\ InitRuntime
  /\ waits = [q \in Questions |-> 0]
  /\ work = [q \in Questions |-> NoWork]

Holds(q, what) == work' = [work EXCEPT ![q] = what]

(***************************************************************************)
(* Who asks: method, scope, limiter, in this order.                        *)
(***************************************************************************)
MethodRefused(q) ==
  /\ config # NoConfig
  /\ Turned(q) /\ answer'[q].status = 405
  /\ UNCHANGED <<runtimeVars, waits, work>>

ScopeRefused(q) ==
  /\ config # NoConfig
  /\ \E token \in Presented :
       /\ Id!ResolveScope(token, Verifier) # 200
       /\ Turned(q) /\ answer'[q].status = Id!ResolveScope(token, Verifier)
       /\ Holds(q, token)
  /\ UNCHANGED <<runtimeVars, waits>>

\* The resolver is the host's own and throws what is no IdentityError.
ResolverThrows(q) ==
  /\ config # NoConfig
  /\ Turned(q) /\ answer'[q].status = 500
  /\ UNCHANGED <<runtimeVars, waits, work>>

LimiterRefused(q) ==
  /\ config # NoConfig
  /\ \E token \in Presented : Id!ResolveScope(token, Verifier) = 200
  /\ Turned(q) /\ answer'[q].status \in {429, 503}
  /\ UNCHANGED <<runtimeVars, waits, work>>

AdmittedAs(q) ==
  /\ config # NoConfig
  /\ \E token \in Presented :
       /\ Id!ResolveScope(token, Verifier) = 200
       /\ Admitted(q)
       /\ Holds(q, token)
  /\ UNCHANGED <<runtimeVars, waits>>

BodyBad(q) ==
  /\ BodyRefused(q)
  /\ Holds(q, NoWork)
  /\ UNCHANGED <<runtimeVars, waits>>

(***************************************************************************)
(* The schema, and the prompt.                                             *)
(***************************************************************************)
AsksForSchema(q) ==
  /\ BodyRead(q)
  /\ Call
  /\ waits' = [waits EXCEPT ![q] = Awaited]
  /\ Holds(q, NoWork)

\* The host's loader throws before there is a promise.
LoaderThrows(q) ==
  /\ ~Fresh
  /\ BodyRead(q)
  /\ waits' = [waits EXCEPT ![q] = 0]
  /\ Holds(q, NoWork)
  /\ UNCHANGED runtimeVars

NoSchemaCame(q) ==
  /\ pc[q] = "schema"
  /\ waits[q] # 0 => loads[waits[q]].status = "failed"
  /\ Throws(q)
  /\ UNCHANGED <<runtimeVars, waits, work>>

\* Slip: the tables are rendered with the whole schema in view.
PromptOfSchema(schema, glossary, asked) ==
  LET selection == Retrieve!SelectTables(schema, G!SearchWords(glossary, asked, MaxTerms), Selecting)
  IN  [schema |-> schema, glossary |-> glossary, asked |-> asked, selection |-> selection,
       matches |-> G!Expansion(glossary, asked),
       lines |-> G!RenderGlossary(glossary, schema.tables, MaxEntries)]

\* The expanded words choose the tables; the question itself goes to the model.
Prompt(schema, glossary, asked) ==
  LET selection == Retrieve!SelectTables(schema, G!SearchWords(glossary, asked, MaxTerms), Selecting)
  IN  [schema |-> schema, glossary |-> glossary, asked |-> asked, selection |-> selection,
       matches |-> G!Expansion(glossary, asked),
       lines |-> G!RenderGlossary(glossary, selection.tables, MaxEntries)]

\* Every prompt there may be, of each schema under each glossary the gate may hold.
Prompts ==
  [schema \in Schemas |-> [glossary \in {Host} \union {G!Vetted(Host, s) : s \in Schemas} |->
     [asked \in Asked |-> Prompt(schema, glossary, asked)]]]

SchemaCame(q) ==
  /\ waits[q] # 0 /\ loads[waits[q]].status = "ok"
  /\ SchemaLoaded(q)
  /\ Vet(waits[q])
  /\ \E asked \in Asked : Holds(q, Prompts[loads[waits[q]].schema][vetted'][asked])
  /\ UNCHANGED <<config, now, loads, cached, failures, waits>>

(***************************************************************************)
(* The reply and the guard.                                                *)
(***************************************************************************)
\* What comes of a reply: an outcome without SQL, or sql to be judged.
Replied == {Llm!ReplyOutcome(reply) : reply \in Replies}

ReplyWithoutSql(q) ==
  /\ NoSql(q) /\ Last(attempts'[q]) \in Replied
  /\ Holds(q, NoWork)
  /\ UNCHANGED <<runtimeVars, waits>>

Writing == {reply \in Replies : Llm!ReplyOutcome(reply) = "sql"}

\* What the deparser may make of a text that got that far.
Emitted(text) ==
  IF Guard!FirstVerdict(text, Policy) = "none"
  THEN Emissions \union {Guard!Deparsed(text, Policy)} ELSE {text}

\* Each text with what the deparser may emit of it and the verdict on both.
Verdicts ==
  UNION {{[runs |-> emitted, code |-> Guard!GuardWith(text, emitted, Policy)] : emitted \in Emitted(text)} :
           text \in Texts}

Runnable == {[reply |-> reply, runs |-> verdict.runs] :
               reply \in Writing, verdict \in {v \in Verdicts : v.code = "none"}}

StatementApproved(q) ==
  /\ Approved(q)
  /\ \E statement \in Runnable : Holds(q, statement)
  /\ UNCHANGED <<runtimeVars, waits>>

Refusals == {Guard!Shape(verdict.code) : verdict \in {v \in Verdicts : v.code # "none"}}

Denies(shape) == Writing # {} /\ shape \in Refusals

StatementDenied(q) ==
  /\ pc[q] = "model"
  /\ \/ Denies("attack") /\ Attack(q) /\ Holds(q, NoWork)
     \/ \E shape \in {"fault", "mistake"} : Denies(shape) /\ GivesUp(q, shape) /\ Holds(q, NoWork)
     \/ Denies("mistake") /\ Repair(q) /\ UNCHANGED work
  /\ UNCHANGED <<runtimeVars, waits>>

\* The body breaks off, or the host's guard throws.
BreaksOff(q) ==
  /\ pc[q] \in {"body", "model"}
  /\ Throws(q)
  /\ Holds(q, NoWork)
  /\ UNCHANGED <<runtimeVars, waits>>

Reads(q) ==
  /\ pc[q] = "read"
  /\ ReadReturns(q) \/ Throws(q)
  /\ Holds(q, NoWork)
  /\ UNCHANGED <<runtimeVars, waits>>

Leaves(q) ==
  /\ Forget(q)
  /\ waits' = [waits EXCEPT ![q] = 0]
  /\ Holds(q, NoWork)
  /\ UNCHANGED runtimeVars

Serve(q) ==
  \/ BodyBad(q) \/ AsksForSchema(q) \/ LoaderThrows(q) \/ NoSchemaCame(q) \/ SchemaCame(q)
  \/ ReplyWithoutSql(q) \/ StatementApproved(q) \/ StatementDenied(q) \/ Reads(q) \/ BreaksOff(q)

Arrives(q) ==
  \/ MethodRefused(q) \/ ScopeRefused(q) \/ ResolverThrows(q) \/ LimiterRefused(q) \/ AdmittedAs(q)

\* Other questions use the loader and the gate too.
Elsewhere == NextRuntime /\ UNCHANGED <<vars, waits, work>>

NextPath == Elsewhere \/ \E q \in Questions : Arrives(q) \/ Serve(q) \/ Leaves(q)

PathSpec == InitPath /\ [][NextPath]_pathVars

(***************************************************************************)
(* As in AskFlow, whatever is awaited comes back or throws, the host's     *)
(* loader too.  A step of Serve is one of Handle, and the other way round; *)
(* only a question whose load has not ended cannot take it.                *)
(***************************************************************************)
Settled(q) == pc[q] = "schema" /\ waits[q] # 0 => loads[waits[q]].status # "pending"

FairPath ==
  /\ PathSpec
  /\ \A q \in Questions : WF_vars(Settled(q) /\ Handle(q))
  /\ WF_loads(\E l \in DOMAIN loads : LoadEnds(l) \/ LoadFails(l))
-----------------------------------------------------------------------------
(***************************************************************************)
(* The status of a refusal names its fault and nothing else: 401 for a     *)
(* token that does not stand on its own - missing, oversized, unknown key, *)
(* wrong algorithm, bad signature, no or past expiry - whatever its claims *)
(* say, 403 for one that does but does not carry every setting, and no     *)
(* question is admitted with less (verify.ts 169-203, scope.ts 53-89).     *)
(***************************************************************************)
Stands(token) ==
  /\ token.chars = "some" /\ token.alg \in Verifier.algorithms
  /\ token.key = "found" /\ token.signed /\ token.exp = "ahead"
  /\ \A c \in Verifier.required : token.claims[c] # "absent"

Carries(token) ==
  \A n \in DOMAIN Verifier.mapped : token.claims[Verifier.mapped[n]] \in {"text", "integer"}

StatusNamesTheFault ==
  \A q \in Questions :
    /\ pc[q] = "body" => Stands(work[q]) /\ Carries(work[q])
    /\ pc[q] = "answered" /\ work[q] # NoWork =>
         answer[q].status = IF Stands(work[q]) THEN 403 ELSE 401

(***************************************************************************)
(* The glossary a prompt is made with fits the schema that prompt is made  *)
(* with, however loads and other questions interleave: each ref names one  *)
(* table and columns it shows, an expression has refs, and a phrase leads  *)
(* to an entry that has it (config.ts 124-163).                            *)
(***************************************************************************)
GlossaryFits ==
  \A q \in Questions :
    pc[q] = "model" =>
      LET prompt == work[q]
          entries == prompt.glossary.entries
      IN  /\ \A i \in DOMAIN entries :
               /\ \A ref \in Range(entries[i].refs) :
                    \E t \in prompt.schema.tables :
                      /\ ref.columns \subseteq t.holds
                      /\ {u \in prompt.schema.tables : u.called = ref.table} = {t}
               /\ entries[i].sql # NoFragment => entries[i].refs # <<>> /\ ~entries[i].sql.unsafe
          /\ \A phrase \in DOMAIN prompt.glossary.byPhrase :
               phrase \in Range(entries[prompt.glossary.byPhrase[phrase]].forms)

(***************************************************************************)
(* The longest phrase wins at each position and consumes it (expand.ts 14, *)
(* "an entry for revenue cannot fire inside monthly recurring revenue"):   *)
(* matches do not overlap, and every phrase of the glossary in the         *)
(* question begins inside a match - at its start only if no longer.        *)
(***************************************************************************)
LongestPhraseWins ==
  \A q \in Questions :
    pc[q] = "model" =>
      LET prompt == work[q]
          spans == {s \in (DOMAIN prompt.asked) \X (DOMAIN prompt.asked) :
                      s[1] <= s[2] /\ SubSeq(prompt.asked, s[1], s[2]) \in DOMAIN prompt.glossary.byPhrase}
          matched == {<<m.from, m.to>> : m \in Range(prompt.matches)}
      IN  /\ matched \subseteq spans
          /\ \A s, t \in matched : s # t => s[2] < t[1] \/ t[2] < s[1]
          /\ \A s \in spans : \E m \in matched : m[1] <= s[1] /\ s[1] <= m[2] /\ (m[1] = s[1] => s[2] <= m[2])

(***************************************************************************)
(* What a prompt tells the model exists: tables of the schema and within   *)
(* the budgets, but for a first table kept whatever it costs; beside those *)
(* the question names only their neighbours; keys and glossary lines that  *)
(* speak of selected tables and of nothing else (retrieve.ts 128-236,      *)
(* render.ts 24 "cannot put that column into a prompt") - but for what     *)
(* an expression names by a keyword, or before a parenthesis: a withheld   *)
(* column called date or text is not looked for (fragment.ts 134-143).     *)
(***************************************************************************)
PromptIsGrounded ==
  \A q \in Questions :
    pc[q] = "model" =>
      LET prompt == work[q]
          tables == prompt.selection.tables
          ids    == {t.id : t \in tables}
          known  == UNION {{t.called} \union t.holds : t \in tables}
          named  == {t \in prompt.schema.tables :
                       Retrieve!Score(t, G!SearchWords(prompt.glossary, prompt.asked, MaxTerms)) > 0}
      IN  /\ tables \subseteq prompt.schema.tables
          /\ Cardinality(tables) <= Selecting.maxTables
          /\ prompt.selection.tokens > Selecting.maxTokens => Cardinality(tables) = 1
          /\ named # {} /\ Selecting.linkDepth = 1 =>
               \A t \in tables \ named :
                 \E u \in named, k \in prompt.schema.keys : {k.from, k.to} = {t.id, u.id}
          /\ \A k \in prompt.selection.keys : {k.from, k.to} \subseteq ids
          /\ \A n \in DOMAIN prompt.lines :
               prompt.lines[n].names \union (prompt.lines[n].sql \ prompt.lines[n].passed) \subseteq known

(***************************************************************************)
(* Whatever the model replied and the deparser emitted, a statement that   *)
(* runs came of a reply that was whole, is one SELECT of allowed nodes,    *)
(* and carries the row cap (guard.ts 151-193, anthropic.ts 104 "a cut-off  *)
(* statement can still be valid syntax").  The tables it reads, by the     *)
(* scopes Postgres goes by, are allowed ones - but for a table whose name  *)
(* some CTE of the statement bears: the guard lets such a name through     *)
(* wherever it stands (guard.ts 86-88), so of it nothing is claimed.       *)
(***************************************************************************)
OnlyVettedRuns ==
  \A q \in Questions :
    pc[q] = "read" =>
      LET reply == work[q].reply
          stmt  == work[q].runs.stmts[1]
      IN  /\ reply.threw = "nothing" /\ ~reply.refusal
          /\ reply.finish \notin {"length", "max_tokens", "content_filter", "refusal"}
          /\ ~work[q].runs.nul /\ Len(work[q].runs.stmts) = 1 /\ stmt.root = "SelectStmt"
          /\ \A node \in Range(stmt.nodes) : node.is \in {"plain", "cte", "table"}
          /\ Guard!Reads(stmt.nodes) \ Guard!CtesOf(stmt.nodes) \subseteq Policy.allowedTables
          /\ stmt.limit.kind = "static" /\ stmt.limit.value <= Policy.maxRows
=============================================================================
