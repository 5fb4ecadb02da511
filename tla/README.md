# Insightics in TLA+

A verification project for the Insightics SDK (`src/`): TLA+ modules of the parts
whose correctness depends on ordering, failure and shared state, TLC runs that
check them on small instances, and theorems that TLAPS proves for every value of
the constants. Paths below are relative to `src/packages/`.

## 1. The system

A browser asks a question; the server has a model write SQL for it, has the SQL
guard approve it, runs it read-only under the tenant's scope and answers with a
chart. A live answer comes with a token, on which the server streams snapshots.

```
 react hooks --POST /ask--> server/ask.ts --> limits.ts (admit / strike / release)
      |                        |---------> scope.ts (resolver: identity/verify.ts)
      |                        |---------> config.ts (schema cache, glossary gate)
      |                        |---------> core/plan (retrieve, prompt, planner)
      |                        |                |--> llm (provider), sql-guard (verdict)
      |                        |---------> core/execute.ts --> pg.ts --> Postgres
      |                        '---------> store.ts (token) --> narrow.ts, http.ts
      '--EventSource--> adapters/node.ts --> server/subscribe.ts --> store.ts,
                                             core/execute.ts on a timer

 host process --> core/store (migrations, query cache) --> write.ts --> Postgres
 ik (cli) --> core/doctor, core/introspect --> inReadOnlyTransaction --> Postgres
 eval --> runner (workers), compare, gate
```

All server code runs on one event loop. A step is what happens between two
awaits; every `await` is a point where other requests, the clock, the pool and
the database move. Processes share only Postgres.

### Inventory

| Component | State | Operations | What is hard | What makes it correct |
|---|---|---|---|---|
| Guarded reads (`core/src/execute.ts`, `session.ts`, `pg.ts`, `server/src/scope.ts`) | leased connection, the session's transaction and settings | connect, BEGIN READ ONLY, the SET LOCALs, SHOW, query, ROLLBACK, release | a session outlives the request that used it; each statement can fail, or be executed though the client gave up on it | rows are read under the whole scope of the own tenant, in a transaction that cannot write; a reused session is clean; no leak |
| Limiter (`server/src/limits.ts`) | map of identities with bucket, count, cooldown and strikes; global count | admit, release, strike, sweep | entries are swept while questions that hold them are in progress | counters are the questions; ceilings, budgets and cooldowns hold across sweeps |
| Ask endpoint and planner (`server/src/ask.ts`, `narrow.ts`, `http.ts`, `core/src/plan/planner.ts`) | one question's conversation, its admission and answer | body, schema, attempts and repairs, read, token, narrowing | many outcomes, two reporting channels, the verdict of the guard in the conversation | no verdict crosses the wire; only mistakes are retried; one strike per attack; every failure told once; admission released |
| Tenant identity (`core/src/identity`) | none | verify a JWT, derive a scope | the order of many checks | a scope only from a token that stands; a refusal names its fault |
| Runtime configuration (`server/src/config.ts`) | memoised schema promise, vetted glossary | schemaLoader, glossaryGate | loads that end late and out of order, questions with different schemas | one load per time-to-live; the glossary used fits the schema used |
| Glossary (`core/src/semantic`) | none | define, validate, expand, render | overlapping phrases, a schema that changes under it | the longest phrase wins; only what the schema has reaches a prompt |
| Schema retrieval (`core/src/plan/retrieve.ts`) | none | score, rank, walk along foreign keys, budgets | expansion at the budget's edge | a prompt speaks of selected tables only, and stays in its budget |
| Model providers (`llm/src`) | none | one HTTP call | replies cut off, refused, or failing in many ways | an incomplete reply is an outcome, never a plan |
| SQL guard (`sql-guard/src`) | none | stages of validation, row cap, deparse, second inspection | a deparser that is not trusted; names that depend on their scope | what runs is one SELECT of allowed nodes and tables under the cap |
| Live streams (`server/src/subscribe.ts`, `store.ts`) | token records, registry, per stream a timer or a read, error count, queue | issue, subscribe, displace, tick, keepalive, finish, close, revoke, evict | a read is out while its stream is displaced, closed or its token evicted | registry = open streams; nothing is added to a closed stream; caps; reads approved; streams end |
| Node adapter (`server/src/adapters/node.ts`) | one response being pumped | collect, write, drain, close, cancel | backpressure and a client that leaves | at most the high-water mark is buffered; an abandoned stream ends |
| React hooks (`react/src/use-ask.ts`, `use-live-result.ts`, `insight.tsx`) | hook state, sequence number, refs, event source | effects, replies, frames, renders | answers out of order, aborts, frames between a render and its effects | what is shown belongs to the current question |
| Metadata store (`core/src/store`) | schema, ledger and rows in Postgres; the write transaction | runMigrations, save, lookup, invalidate, invalidateAll, purgeExpired | concurrent builds, lost COMMIT answers, policies that differ between processes | ledger = tables; migrations whole or not at all; replies truthful; lookups re-approved |
| Doctor (`core/src/doctor`) | one read-only transaction | twelve checks, report | a check that fails aborts the transaction for the rest | a proof that holds is sound |
| Introspection (`core/src/introspect`) | one read-only transaction | five queries with limits | rows cut off at a limit, composite keys | the schema is what the role was granted, or a warning says it is not |
| Command line (`cli/src`) | pool, connection, exit code | arguments, connect, prove or introspect, close | every step can fail and all have to be undone | nothing left open; the exit code tells the truth |
| Evaluation (`eval/src/runner.ts`, `gate.ts`, `compare.ts`) | shared cursor, spend and results of the workers | runCorpus, evaluateGate | the spend cap is checked before costs are known | overshoot below one case per worker; a pass is a whole tier |
| Wire protocol (`protocol/src`), charts (`react/src`), cache key and names (`core/src/store/key.ts`, `names.ts`) | none | parsers, drawing, hashing and quoting | - | - |

`PROJECT.json` lists each with its status, and under `hazards` every place in
the code where something can go wrong that a test would hardly reach, with the
properties that would catch it.

## 2. The modules

Each module's constants, variables and actions carry the names of the code;
`PROJECT.json` maps every definition to its lines. Definitions under a comment
that starts with "Slip:" are plausible mistakes. They are no part of any
specification; each stands beside the definition it would replace, to show
which property notices it. An `MC` module gives a specification the constants of
a run; a `Proofs` module extends it with theorems.

### Reading as a tenant

**TenantRead** is the abstract promise of a read: a request is refused, or is
answered with the rows of its own tenant out of a transaction that cannot write.
**ReadSession** is the code behind it. A request goes through resolveScope, the
pool, BEGIN, the preamble one SET LOCAL at a time, the SHOW of the read-only
assertion, the query, ROLLBACK and release; a catalog read
(inReadOnlyTransaction) takes the same way without scope and assertion. The
session - transaction, read-only flag, settings - is a variable of the
connection, not of the request, so what one request leaves behind is what the
next one finds. Statements fail, BEGIN may be executed although the client gave
up on it, a server may ignore READ ONLY, sessions die at any point. Setting
names and values are data: the fixed settings have one value, those of the scope
carry the tenant.

### A question

**Limiter** is createLimiter as handleAsk uses it: Admit, Strike and Finish are
one step each, as they are synchronous, and the clock and other questions move
between them. The bucket is counted in time. The map's order of eviction matters
for nothing a property says, so the sweep picks any idle entries.

**AskFlow** is one question from its arrival to its answer, with every outcome
of its parts chosen freely: a denial is of one of three shapes (attack, our own
fault, an honest mistake), which is all the planner looks at. The conversation
is the sequence of outcomes.

**QuestionPath** composes AskFlow with the parts that decide these outcomes, and
is shown to implement it:

- **Identity** decides whether a token is a tenant (`verify.ts`, `scope.ts`): the
  checks in their order, the claims the scope needs, the status of each fault.
  jose is external: a token has a form, an algorithm, a key, a signature, an
  expiry and claims, each good or wrong in the ways jose tells apart.
- **Runtime** is what a configuration has to be (`config.ts`), the schema loader
  with its time-to-live, and the glossary gate, which remembers the schema it
  last vetted against. The host's loader is external: loads end in any order,
  well or not.
- **Glossary** indexes the host's entries, drops those a schema has no place
  for, expands a question and renders what is left for the selected tables.
- **Retrieval** is selectTables: scores, ranks, the walk along foreign keys, and
  the budgets of tables and tokens.
- **Provider** is what the two providers make of every reply and exception of
  their SDKs, and what readPlan makes of a text.
- **SqlGuard** is guardWith: inspection, row cap, the text a deparser emits -
  the right one or any other - and its second inspection. A reference to a table
  also carries the CTEs it is in the scope of. Postgres goes by them (`Reads`);
  the guard does not, and lets a name through wherever it stands if any CTE of
  the statement bears it.

A question holds in `work` what it has in hand (token, prompt, statement) so
that properties can speak of the very prompt and the very statement that is used.
Other questions are represented by `Elsewhere`, which moves the loader and the
gate as they would, so one question in detail is enough.

Abstracted here: stemming and the tokens a table renders to are data of the
instance; the glossary section's token budget counts lines; warnings that drop
nothing (`globals_exceed_budget`) and the schema part of a reference's name are
left out; `policy.maxRows` is always set; a connection error of an SDK counts as
the bad request the code reports it as. Two corners of the code show in the
model as they are: the first table is kept though it alone exceeds the budget,
and a failing older load clears the promise of a newer one - OneLoadPerTtl says
how much that can cost. A question may be broken off by an exception at each of
its awaits: the body, the schema, the host's guard, the read.

### Streaming to a page

**Streams** is the subscribe endpoint with its registry and the token store. A
stream is a chain of ticks, each cut in two by the await of its read. Time is
relative (what is left of a token, the age of a stream), so the clock needs no
bound. A read may come back after its stream was closed. What a stream has
buffered when it closes stays readable, and if there is a reason to tell, a
`closed` frame is behind it; the reader takes these frames or drops them.

**NodeAdapter** is toNodeHandler from the request to the end of its response:
the body is collected (one step; it may be too large, or break off), the handler
answers or throws - then nothing is written - and the pump moves chunks from the web stream into the socket, waits for `drain`,
and hears when the client leaves.

**Insight** is the component with both hooks over what React promises: a render
takes every update queued since the last, effects of a render run together after
it and before the next, and between these steps replies and frames arrive. A
`fetchImpl` that ignores its abort, and an event source that speaks after it was
closed, are among the environment's choices. Requests are told apart by their
ticket, so a single question asked again is as good as several. `reconnect()` of
useLiveResult has no caller and is left out.

**Browser** composes the two: each event source has an exchange of the adapter
at a time, the browser reconnects when one breaks, and closing the source on the
page is what makes the server's side hear it. Exchanges share nothing, so one
slot, reused, is enough.

### Beside the server

**MetadataStore** is runMigrations and the query store over inWriteTransaction,
by processes that carry different builds (for each version its DDL) and
different policies (the plans their guard approves). The database is READ
COMMITTED: a statement sees what is committed and waits for a transaction that
has written the same row or object. CREATE ... IF NOT EXISTS passes over what is
there, the ledger's primary key does not. A COMMIT whose answer is lost may be
carried out later. A statement that waits sees the database as it is when the
wait is over.

**CommandLine** is `ik doctor` and `ik introspect` from their arguments to the
exit code, and a host that calls proveIsolation on its own pool. **Doctor** is
what the twelve checks say of a catalog, **Introspection** the five queries with
their limits and the schema built of their rows. The queries are asked one by
one; each may fail, which aborts the transaction under those that follow, the
connection may be lost, and the catalog may be altered between them (READ
COMMITTED). The command line cannot wire tenant scoping; only a host can. A
missing role is a catalog in which nothing can be read. A catalog tells relations
granted as a whole from single columns granted, and ordinary tables from views
and foreign tables, because the checks and the queries go by `has_table_privilege`
and by `relkind`, and what the login can read (`Selectable`) does not.

**CorpusRunner** is runCorpus - workers that take cases off one cursor, retry,
add up what cases cost and stop at the cap - and evaluateGate over its results. A
cap of zero is excluded (nothing would run); as in the code, an attempt that
throws has no cost, and the run counts as capped also if its last case reached
the cap. Whether a case passed is the environment's choice (`compare.ts`).

How they fit together: AskFlow calls the Limiter through `held` and `strikes`,
and ReadSession through its "read" step; Streams issues tokens for it and reads
through ReadSession at each tick; NodeAdapter carries Streams' frames; CommandLine
takes ReadSession's way to the database. The modules meet at these awaits and
are checked apart, because each guarantees its side of the interface whatever
the other does: AskFlow gives every admission back (EveryAdmissionReleased),
which is the Finish the Limiter relies on, each read ends (EveryRequestEnds),
which is the fairness of the read step in AskFlow and Streams, and a stream ends
when its signal aborts (StreamsEnd), which is the web stream of NodeAdapter.

## 3. What is checked

| Run | Instance | Shows |
|---|---|---|
| `read_session` | 2 requests, 2 connections, 2 tenants, 1 fixed and 2 scope settings | ReadUnderOwnScope, IdleSessionsAreClean, LeasesMatchReads |
| `read_live` | 2 requests on 1 connection, fair | every request is answered; ReadSession implements TenantRead |
| `limiter` | 2 questions, 3 identities, a map of 2, clock to 3 | CountsMatch, CeilingsHold, BudgetKept, CooldownHeld |
| `streams` | 2 subscribers, 2 identities, 3 tokens, ages to 2, rows that may not convert | RegistryMatches, ClosedIsInert, ReadsAreApproved |
| `streams_live` | 2 subscribers, 1 identity at a limit of 1, ages to 2, fair | CapsHold, MemoryBounded, FailingStreamsClose, StreamsEnd |
| `streams_errors` | 1 stream whose rows never convert | finding: FailingStreamsClose fails |
| `metadata_store` | 2 processes, 3 builds over 3 versions, 2 policies, 1 key, 2 plans | LedgerMatchesTables, MigratedIsMigrated, TruthfulReplies, HandsOutApproved, LiveRowsStay |
| `question_path` | 1 question among others; 15 tokens, 2 schemas, 4 glossary entries, 29 replies, 17 statements, 2 attempts, 3 loads, fair | NoVerdictCrosses, OnlyMistakesRepaired, StruckOncePerAttack, FailureToldOnce, OneLoadPerTtl, StatusNamesTheFault, GlossaryFits, LongestPhraseWins, PromptIsGrounded, OnlyVettedRuns; every admission is released |
| `browser` | 2 requests, 2 sources, 1 exchange, 1 transport failure, high water 1, fair | PanelIsCurrent, BackpressureHolds; feeds that were given up end |
| `corpus` | 5 cases of 3 tiers, 2 workers, 2 attempts, cap 3, costs to 2 | SpendBounded, VerdictIsWhole |
| `command_line` | 21 catalogs, limits of 2 tables and 4 columns, 1 alteration | ProvenIsScoped, SchemaIsCatalog, NothingLeftOpen |
| `doctor_unran` | as above | finding: GreenMeansAllRan fails |

Why the bounds are enough.

- *read_session*: two requests and two connections give every reuse and every
  competition for a session, and two scope settings the reads between them; a
  third setting only repeats the second.
- *limiter*: with three identities over a map of two the sweep has a choice and
  can be left without one; the clock reaches past one cooldown and one window.
  The ceiling per identity binds; the one in total is that of the two slots and
  does not. That it holds of more questions than it allows is a theorem.
- *streams*: two subscribers displace each other, three tokens overflow a store
  of two, so one is evicted under an open stream. *streams_live* gives a stream
  two reads, which is `maxConsecutiveErrors`, and a tick that finds it over.
- *metadata_store*: a build, its successor with two more migrations - so a
  half-applied one can be told from either - and one whose first migration
  differs; one policy that approves both plans and a tighter one.
- *question_path*: a token for each check that can fail, and for faults in pairs
  (an unsigned token without a tenant, an expired one with an empty tenant), as
  their order is what is at stake; a schema before and after a migration that
  takes a column away and makes a name ambiguous, so a glossary vetted for one
  is wrong for the other; phrases that are contained in and overlap one another;
  tables of which two fit the count, and not every two the tokens; a reply for
  each stop reason and exception, a statement for each denial, and two
  with a CTE, of which one has the name of a table. Two attempts give
  a mistake followed by each outcome. A tick and three loads give a load that
  fails after a newer one began.
- *browser*: two requests and two sources are an old and a new one; one
  transport failure is tolerated and the second is fatal; high water 1 makes
  every write after the first wait.
- *corpus*: a cap that one worker reaches while the other runs, tiers of one and
  of several cases, gated with and without a baseline, and one that is not gated.
- *command_line*: a clean catalog, one for each fault a check looks for, and some
  with a foreign table or with columns granted alone, which no check looks for;
  relations as many as the limit and one more; two foreign keys of one name, one
  of them over two columns.

Model bounds in guards are `MaxTime` (Limiter, Runtime: the clock stops),
`MaxLoads` (Runtime), `MaxBuffered` (Streams: keepalives stop at this backlog),
`Depth` (NodeAdapter: the web stream's queue), `MaxRequests` and `MaxSources`
(Insight), `MaxCost` (CorpusRunner) and `MaxAlterations` (CommandLine); slots
that are "done", "answered", "closed" or "ended" are reused, so runs of any
length are covered. Symmetry is used in runs without liveness only. Deadlock is
not checked where the system ends: `browser` (the bounds on requests are spent),
`corpus` (the workers return), `command_line` and `doctor_unran` (the process
exits).

Fairness. Every handler on the event loop is resumed when what it awaits
settles, so its own steps are weakly fair (ReadSession, AskFlow, QuestionPath).
What it awaits settles because the code sets a timeout on it: `fromPgPool`
insists on a connect timeout (`pg.ts:84-95`), every session sets a
`statement_timeout`, providers have one. Of the host's schema loader it is
assumed that each load ends some time, well or not; a loader that hangs keeps
its questions, in the code as well. Streams assumes that timers fire (`WF(Time)`,
`WF(Tick)`) and reads return (`WF(ReadReturns)`). Browser assumes that the
adapter's promises settle and that a connection the client has closed is
reported closed by the socket. Nothing is assumed of readers, of replies and
frames, of the arrival of requests, or of failures: they may never happen, and
may always.

### What the runs found

Two statements of the repository are not what the code does, and have a run:

- `server/src/subscribe.ts:236`: a stream whose rows never convert resets its
  error count at every read, and is never given up (`streams_errors`).
- `core/src/doctor/run.ts:20`: an advisory check that could not run is reported
  as "fail", which is neither a blocker (it does not block) nor up for review;
  the doctor exits 0 past it, with `--strict` too. `cli/README.md:49` says that "a
  single check that could not run counts as a failure" (`doctor_unran`).
  ProvenIsScoped states what holds all the same: the checks that block still do.

More were met while modelling. The properties state what holds instead:

- `server/src/limits.ts:97`: when the map is full of identities that are busy or
  cooling down, the sweep removes the entry being struck; the cooldown that
  `strike` reports is remembered by nobody. CooldownHeld: every announced
  cooldown holds until the first such overflow.
- `server/src/subscribe.ts:140`: an identity at its limit cannot reconnect to its
  own token, though "a second subscriber to the same token displaces the first".
- `sql-guard/src/guard.ts:86`: the names of CTEs are exempt from `allowedTables`
  in the whole statement, though the scope of a CTE may be a part of it: outside
  of that, Postgres reads the table. `sql-guard/test/guard.test.ts:115` says
  "denies tables outside allowedTables". OnlyVettedRuns: the tables a statement
  reads are allowed, but for those that bear the name of one of its CTEs.
- `core/src/doctor/checks.ts:32`: T1 and T2 ask about ordinary tables of which
  `has_table_privilege` is true, and B2 about views. No check asks about foreign
  tables or about tables granted by columns only, and T4 (line 169) knows no
  policy that is always true but one written `USING (true)`. ProvenIsScoped: what
  can be read without row security is a view, a foreign table or granted by
  columns; for a strict doctor with all checks run, one of the last two.
- `core/src/introspect/queries.ts:60` and `:96`: `has_table_privilege` is asked for
  besides `has_column_privilege`, and is false for a table granted by columns, so
  such a table is left out and `truncated` is not set. The comment at line 17 says
  that the set "has to equal the set the querying role can actually read", and
  `docs/adr/0008`, line 19, "Column grants are real". SchemaIsCatalog: the schema
  is what was granted as a whole.
- `core/src/semantic/fragment.ts:134`: keywords, and words before a parenthesis,
  are not looked for among the columns, though `render.ts:24` beside it says that an entry
  "cannot put that column into a prompt". PromptIsGrounded: what an expression
  names is declared, but for those.
- `server/src/ask.ts:140`: a cell the wire cannot carry is answered with 200 and
  an error body; `narrow.ts:45` says 500.

## 4. What is proved

Each theorem holds for every value of the constants, under the assumptions the
modules name. Limits are positive, sentinels are not members of the sets they
extend, and slots are finite where a proof counts them. QuestionPath assumes
what its parts are typed by: which reasons to finish an SDK has
(`RepliesAssumption`), what jose and the parser tell apart
(`PresentedAssumption`, `TextsAssumption`), that the host's glossary is a list
of entries whose phrases are lists of words (`GlossaryAssumption`), that a schema
is finite and names no two tables alike (`SchemasAssumption`) and that the
budgets of a prompt are numbers (`SelectingAssumption`). CommandLine assumes of a
catalog what Postgres keeps to (`CatalogsAssumption`): it is finite, grants and
keys are of columns there are, a foreign key has at least one pair of columns and
a name of its own on its relation, and views and foreign tables have no row
security. TLC checks
the property first; TLAPS then proves that Init implies an inductive invariant,
every action keeps it and it implies the property. An action property follows
from such an invariant and one step.

- **ReadSessionProofs** (`IInv`): TypeCorrect, TenantIsolation, ReadOnly,
  CleanReuse, NoLeaks and Refinement (ReadSession implements TenantRead, by a
  step-by-step mapping of its actions). The properties speak of what was read
  and of idle sessions. They become inductive with SessionInv, which says
  statement by statement what a session in use is in: at statement k of the
  preamble exactly the settings before k are in force and belong to the tenant
  of the request that holds the lease. The proofs cover single-tenant mode too,
  which no run instantiates.
- **LimiterProofs** (`LInv`): SlotsAccounted, Ceilings, BoundedMap. The
  strengthening says that only an overflow makes an admission whose entry is not
  in the map; counting uses the theorems on finite cardinality. Budget rests on
  PayInv: what an entry has paid and what is left in its bucket are together at
  most the burst and what came back since the entry was made. Cooldowns rests on
  CoolInv: until an overflow, an identity whose announced cooldown has not run
  is in the map, with an entry blocked at least as long, which keeps the sweep
  away from it.
- **StreamsProofs** (`StreamInv`): OneStreamPerToken, TimersMatchStreams,
  StreamCaps. The strengthening says that a request that is not yet a stream has
  no task, and whoever asks or streams has a token and an identity. Of the
  frames, FramesInv says that an open stream holds no `closed` frame, so that the
  one finish writes is the last; Moved says of every action what it does to the
  frames of each stream.
  BoundedMemory adds StoreInv (the store's log holds each token once; every
  eviction, however it chooses, leaves room for the record that is added) and
  RoomInv: while a read is out there is room in the queue for its snapshot,
  which makes the bound on the queue inductive. ApprovedReads adds that the
  owner of an open stream's token, while the store has it, is the caller.
  ErrorsEndStreams says `RowsConvert => FailingStreamsClose`: the hypothesis is
  the case `streams_errors` shows to be needed.
- **QuestionPathProofs** starts with AskFlow (`FlowInv`): VerdictsStayHome,
  RepairsMistakes, OneStrikePerAttack and FailuresAreTold, for any number of
  questions and attempts. FlowInv ties `shown` to a first attempt that was
  denied: prose of the model crosses only out of a conversation without a
  denial. Rationed says that a question with the model, or on its way to it, has
  an attempt left. ToldInv says that nothing is told before there is an answer.
  PathIsAFlow then shows that every step of QuestionPath is a step of AskFlow or
  a stutter, whatever the identity checks, the glossary, the retrieval, the
  providers and the guard decide, so PathKeepsVerdicts, PathRepairsMistakes,
  PathStrikesOnce and PathTellsOnce follow. OneLoad (`LoadsInv`) is about the
  schema cache: loads are noted in the order they began, and of every load
  either some failure came after it, or the cached one is at least as young; so
  a second load in its time has a failure behind it. A time-to-live of zero
  caches nothing, and the statement is then empty.
- The rest of **QuestionPathProofs** is about what those parts decide. PathInv
  says what a question has in hand at each stage: a token that was accepted, or
  one refused with the status in its answer; a prompt made with some schema and
  the glossary vetted against that very schema (VettedInv, on the gate's memory);
  a statement that passed the guard twice. With lemmas on the operators of
  Identity, SqlGuard and Glossary this gives StatusIsTheFault, VettedRuns,
  FittingGlossary, LongestWins and GroundedPrompts. LongestWins is about a recursive walk over the
  question, of which no induction can be made; it argues by the greatest
  counterexample instead: the walk exists, since of the positions from which it
  would not one is the last, and from the position after it it does; and in the
  same way what holds of the walk from each position follows from what holds of
  it further on. GroundedPrompts needs that a set totally ordered can be listed by
  rank (Listed), which is why the order of tables is a relation in Retrieval, and
  that a step repeated stays where one step stays (Iterates, Stays): with that, of
  the walk along the keys every table found is linked with one of the hop before,
  and of the tables chosen so far the budgets hold after each.
- **MetadataStoreProofs** (`MInv`): TypeCorrect, LedgerIsTrue, Migrated,
  RepliesAreTrue, RestoredIsApproved. Writes says that a transaction notes only
  what it has made, has made only what is missing and nobody else is making, and
  comes to COMMIT with nothing made but not noted; Progress says that a version
  of the build is still to do, noted, or recorded. LiveRows, an action property,
  needs RowInv: what a purge has found expired stays expired until it ends, as
  no other transaction writes a row it has written.
- **BrowserProofs** (`BrowserInv`): CurrentPanel, for any questions and any
  bounds on requests and sources, and Backpressure, for any exchanges and
  high-water mark. PageInv relates what React has queued to what the effects
  last ran for: the queued answer is of the last request if the effect last ran
  for a question; of all sources only the last is not done, it is of the token
  followed, and the ref holds rows of that token or none. AdapterInv says that
  the pump reads on only while the socket has room.
- **CorpusRunnerProofs** (`RInv`): Overshoot, EveryCaseAccounted, NoCaseTwice and
  Verdict, for any cases, workers, cap and gate. The bound on what was spent is
  not inductive; SpendInv adds what the busy workers may yet cost, MaxCost each:
  a worker that ends a case after the cap was hit gives up its share. CaseInv says
  that a case without a result is on the list or with exactly one worker. For the
  total, SumInv carries the partial sums of the results as a witness, which one
  more result moves from its place on.
- **CommandLineProofs** (`ProofInv`): ProofIsSound, for any set of catalogs. What
  it says is of a catalog nobody altered between the checks: they share a
  transaction, but not a snapshot. The strengthening (ReportsInv) says that report i
  is of check i, and is what the check finds of the catalog or that it did not
  run; WorkInv, that a result of the doctor is behind its exit code. The theorem
  then reads off the blocking checks (A3, T1, T2) that row security covers every
  ordinary table granted as a whole. AllIsClosed rests on OpenInv, which says await by await what is open and
  that an exception is out exactly if the transaction is over without a result.
  A pool whose end() fails is "stuck": closeQuietly reports it and goes on.
  SchemaIsWhole rests on RowsInv (answer i is that of query i, asked of this very
  catalog) and on what becomes of the answers: of a relation granted as a whole
  every column may be read (GrantCovers); rows that are compared column by
  column are totally ordered (EarlierOrders), so ORDER BY lists each once
  (SortedRows); fewer rows than were asked for means all of them (NotCut); and the
  rows picked for one key, or one foreign key, come in the order of its columns,
  since a map that keeps order makes the same picks (PicksAlike).

Some definitions are written for the provers. `Only` in Streams and `Keep` in
Glossary select elements of a sequence by their rank instead of with SelectSeq,
`InOrderOf` in Retrieval sorts by rank instead of with SetToSortSeq, the walk
along the keys and the choice within the budgets are recursive functions
instead of folds, `Sorted` and `Picked` in Introspection list rows by rank, the
longest phrase is a maximum over the phrases, and the total of a run is a
recursive function: the provers know nothing of the library's recursive
operators. The runs use the same definitions.

Facts that hold for all constants by these proofs and would be shallow as runs
(types, the bound of the limiter's map, that a planned query runs in a confirmed
read-only transaction) have no run of their own.

Only model-checked: liveness (EveryRequestEnds, StreamsEnd,
EveryAdmissionReleased, AbandonedFeedsEnd), which needs fairness and ENABLED,
out of the prover's reach. Every safety property of a passing run is a theorem;
what FailingStreamsClose needs for it is said above.

## 5. Not modelled

Wording, logging, SVG (`react/src/chart.tsx` and what it draws with), argument
parsing (`--help` too), SQL text, hashes and quoted names (`core/src/store/key.ts`, `names.ts`)
and the parsers of the wire protocol are left out: they keep no state and no
order is in them. `core/src/provision.ts` and `ik init` compose SQL and run
nothing. `compare.ts`, which decides whether an evaluation case passed, is a pure
function of two results. The adapters of Next, Hono and Fastify hand a Request on
and keep nothing. The walk over the syntax tree of the guard is modelled by what
it denies, node by node; the lists of tags, fields and functions are data.
`reset()`, `countFor` and `sweep` of the limiter and the token store, and
`reconnect()` of useLiveResult, have no caller in the source. A subscribe
request's interval is fixed. The comments written to a reader that
has stopped are a hazard without a property; `PROJECT.json` says why.

External, modelled by how the code uses them: jose (a token stands or fails in
the ways `verify.ts` tells apart), the SDKs of the providers, the SQL parser and
deparser, the host's schema loader, React's scheduling, node:http, Postgres.

## 6. Plan

Done: every module above and the proofs of section 4. Next, in this order:

1. Limiter and AskFlow composed, so that the ceilings hold of questions rather
   than of slots.
2. `compare.ts` as operators against a reference definition.
