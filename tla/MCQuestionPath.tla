--------------------------- MODULE MCQuestionPath ---------------------------
(***************************************************************************)
(* QuestionPath over a small business: orders, users and invoices, before  *)
(* and after a migration that takes a column away and brings a second      *)
(* table called "user"; a glossary with overlapping phrases, one of whose  *)
(* entries is never right and one of which the migration breaks; and a     *)
(* token, a reply and a statement for every way each may go wrong.         *)
(***************************************************************************)
EXTENDS QuestionPath, TLC

Table(id, called, holds, notes, size) ==
  [id |-> id, called |-> called, holds |-> holds, size |-> size,
   name |-> {called}, columns |-> holds, note |-> {}, notes |-> notes]

MCSchemas ==
  {[tables |-> {Table(1, "order", {"amount", "day"}, {"sale"}, 3), Table(2, "user", {"plan"}, {}, 3),
                Table(3, "invoice", {"amount"}, {}, 8)},
    keys   |-> {[from |-> 1, to |-> 2], [from |-> 3, to |-> 1], [from |-> 2, to |-> 9]}],
   [tables |-> {Table(1, "order", {"day"}, {"sale"}, 3), Table(2, "user", {"plan"}, {}, 3),
                Table(3, "invoice", {"amount"}, {}, 8), Table(4, "user", {"plan"}, {}, 2)},
    keys   |-> {[from |-> 1, to |-> 2], [from |-> 3, to |-> 3]}]}

\* Bare: "day" is among the keywords.
Fragment(names) == [unsafe |-> FALSE, long |-> FALSE, names |-> names, passed |-> names \cap {"day"}]
MCEntries ==
  <<[forms |-> <<<<"churn">>>>, defined |-> TRUE, refs |-> <<>>, sql |-> Fragment({"plan"})],
    [forms |-> <<<<"revenue">>, <<"sale">>>>, defined |-> FALSE,
     refs |-> <<[table |-> "order", columns |-> {"amount"}]>>, sql |-> Fragment({"order", "amount", "day"})],
    [forms |-> <<<<"monthly", "recurring", "revenue">>>>, defined |-> TRUE,
     refs |-> <<[table |-> "order", columns |-> {"day"}], [table |-> "invoice", columns |-> {"amount"}]>>,
     sql |-> Fragment({"day", "amount"})],
    [forms |-> <<<<"monthly">>, <<"revenue">>>>, defined |-> TRUE, refs |-> <<>>, sql |-> NoFragment]>>

MCAsked ==
  {<<"monthly", "recurring", "revenue">>, <<"sale", "monthly", "recurring", "revenue", "active">>,
   <<"recurring", "revenue">>, <<"invoice">>, <<"weather">>}
MCSelecting == [maxTables |-> 2, maxTokens |-> 7, linkDepth |-> 1]

GoodToken == [chars |-> "some", alg |-> "RS256", key |-> "found", signed |-> TRUE, exp |-> "ahead",
              claims |-> [tenant |-> "text", role |-> "text"]]
With(tenant, role) == [tenant |-> tenant, role |-> role]
MCPresented ==
  {GoodToken,
   [GoodToken EXCEPT !.claims = With("integer", "text")],
   [GoodToken EXCEPT !.chars = "none"],
   [GoodToken EXCEPT !.chars = "too many"],
   [GoodToken EXCEPT !.alg = "none"],
   [GoodToken EXCEPT !.key = "no match"],
   [GoodToken EXCEPT !.key = "unreachable"],
   [GoodToken EXCEPT !.signed = FALSE, !.claims = With("absent", "absent")],
   [GoodToken EXCEPT !.exp = "absent"],
   [GoodToken EXCEPT !.exp = "past", !.claims = With("empty", "text")],
   [GoodToken EXCEPT !.claims = With("absent", "text")],
   [GoodToken EXCEPT !.claims = With("text", "absent")],
   [GoodToken EXCEPT !.claims = With("empty", "text")],
   [GoodToken EXCEPT !.claims = With("text", "object")],
   [GoodToken EXCEPT !.claims = With("unsafe text", "text")]}
MCVerifier == [algorithms |-> {"RS256"}, required |-> {"role"}, mapped |-> <<"tenant", "role">>]

GoodReply == [via |-> "openai", threw |-> "nothing", choices |-> TRUE, refusal |-> FALSE, finish |-> "stop",
              text |-> "json", plan |-> [object |-> TRUE, answerable |-> "yes", sql |-> TRUE]]
Claude == [GoodReply EXCEPT !.via = "anthropic", !.finish = "end_turn"]
MCReplies ==
  {GoodReply, Claude,
   [GoodReply EXCEPT !.choices = FALSE],
   [GoodReply EXCEPT !.refusal = TRUE],
   [GoodReply EXCEPT !.finish = "content_filter"],
   [GoodReply EXCEPT !.finish = "length"],
   [GoodReply EXCEPT !.finish = "length", !.text = "garbled"],
   [GoodReply EXCEPT !.text = "blank"],
   [Claude EXCEPT !.finish = "refusal"],
   [Claude EXCEPT !.finish = "max_tokens"],
   [Claude EXCEPT !.text = "garbled"],
   [Claude EXCEPT !.plan.object = FALSE],
   [Claude EXCEPT !.plan.answerable = "not a boolean"],
   [Claude EXCEPT !.plan.answerable = "no"],
   [Claude EXCEPT !.plan.sql = FALSE]}
  \union {[GoodReply EXCEPT !.threw = e, !.via = v] :
            v \in {"openai", "anthropic"},
            e \in {"APIConnectionTimeoutError", "RateLimitError", "AuthenticationError", "APIError4xx",
                   "APIError5xx", "APIConnectionError", "TypeError"}}

Node(is, what) == [is |-> is, what |-> what, scope |-> {}]
InScope(name) == [Node("table", name) EXCEPT !.scope = {name}]
Limit(kind, value) == [kind |-> kind, value |-> value]
Select(nodes, limit) == [root |-> "SelectStmt", nodes |-> nodes, limit |-> limit, ties |-> FALSE]
Text(stmts) == [nul |-> FALSE, stmts |-> stmts]
Plain == <<Node("plain", ""), Node("table", "order")>>
Mine == Select(Plain, Limit("none", 0))
MCTexts ==
  {Text(<<Mine>>),
   Text(<<Select(Plain, Limit("static", 1))>>),
   Text(<<Select(Plain, Limit("static", 9))>>),
   Text(<<Select(Plain, Limit("dynamic", 0))>>),
   Text(<<[Mine EXCEPT !.ties = TRUE]>>),
   Text(<<Select(<<Node("cte", "recent"), Node("table", "order"), InScope("recent")>>, Limit("none", 0))>>),
   Text(<<Select(<<Node("cte", "order"), Node("table", "order"), InScope("order")>>, Limit("none", 0))>>),
   Text(<<Select(<<Node("table", "payroll")>>, Limit("none", 0))>>),
   Text(<<[Mine EXCEPT !.root = "DeleteStmt"]>>),
   Text(<<Mine, [Mine EXCEPT !.root = "DeleteStmt"]>>),
   Text(<<>>), Text(NoParse), [nul |-> TRUE, stmts |-> <<Mine>>]}
  \union {Text(<<Select(<<Node("plain", ""), Node(is, "x"), Node("deep", "x")>>, Limit("none", 0))>>) :
            is \in {"tag", "field", "call", "deep"}}
MCEmissions ==
  {Text(NoParse), Text(<<Mine>>), Text(<<Select(Plain, Limit("static", 9))>>),
   Text(<<Mine, Mine>>), Text(<<Select(<<Node("table", "payroll")>>, Limit("static", 1))>>)}
MCPolicy == [allowedTables |-> {"order", "user", "invoice"}, maxRows |-> 3]

Live == [min |-> Unset, max |-> Unset, default |-> 60, fallback |-> [min |-> 5, max |-> 40, default |-> 15]]
Mild == [algorithms |-> {"RS256"}, supported |-> {"RS256", "ES256"}, key |-> [kind |-> "publicKey", fits |-> TRUE],
         tolerance |-> Unset, maxTolerance |-> 300, missing |-> {}, counts |-> {Unset, 1}, ttl |-> 1, live |-> Live, route |-> Unset]
MCConfigs ==
  {Mild, [Mild EXCEPT !.ttl = 0, !.key.kind = "jwks", !.algorithms = {"RS256", "ES256"}],
   [Mild EXCEPT !.ttl = -1], [Mild EXCEPT !.algorithms = {}], [Mild EXCEPT !.algorithms = {"RS256", "ES256"}],
   [Mild EXCEPT !.algorithms = {"none"}], [Mild EXCEPT !.key.fits = FALSE], [Mild EXCEPT !.tolerance = 301],
   [Mild EXCEPT !.missing = {"guard"}], [Mild EXCEPT !.counts = {Unset, 0}], [Mild EXCEPT !.live.min = 0], [Mild EXCEPT !.live.min = 50], [Mild EXCEPT !.route = "a/b"]}
=============================================================================
