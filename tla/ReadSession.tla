---------------------------- MODULE ReadSession -----------------------------
(***************************************************************************)
(* One read of the host's database, from the resolved token to the release *)
(* of the connection: resolveScope and runScopedRead of the server         *)
(* (server/src/scope.ts), runGuardedRead and sessionPreamble of the core   *)
(* (core/src/execute.ts), inReadOnlyTransaction (core/src/session.ts) and  *)
(* the sealed client of core/src/pg.ts.  Every `await` of the code is a    *)
(* point where other requests, the server and the network may step.        *)
(*                                                                         *)
(* Node-postgres' pool and Postgres itself are not in the repository: the  *)
(* connection variables model what the code assumes of them.               *)
(***************************************************************************)
EXTENDS Integers

CONSTANTS
  Requests,     (* Handler slots: each serves one request after another.    *)
  Connections,  (* The pool's slots; a slot is empty until it connects.     *)
  Tenants,
  Nobody,       (* A token that speaks for no tenant, and the empty scope.  *)
  NFixed,       (* SET LOCALs of every session: timeouts, row_security, ... *)
  NScope,       (* SET LOCALs of a tenant's scope, which follow them.       *)
  SingleTenant, (* tenancy.mode = "single".                                 *)
  Pinned,       (* The value the preamble gives to a setting of its own.    *)
  Unset,        (* The value of a setting outside a transaction that set it. *)
  NoConn        (* No connection leased.                                    *)

ASSUME CountsAssumption == NFixed \in Nat \ {0} /\ NScope \in Nat \ {0}
ASSUME ModeAssumption == SingleTenant \in BOOLEAN
ASSUME ValuesAssumption ==
  /\ Nobody \notin Tenants
  /\ Pinned \notin Tenants
  /\ Unset \notin Tenants \union {Pinned}
  /\ NoConn \notin Connections

VARIABLES
  pc,      (* Where each request stands; "free" is an unused slot.          *)
  who,     (* Whose token the request presents (of ResolveScope's input).   *)
  kind,    (* "guarded": runGuardedRead.  "catalog": inReadOnlyTransaction. *)
  scope,   (* ReadScope: a tenant, or Nobody for the empty scope.           *)
  lease,   (* The connection the request holds.                             *)
  at,      (* The next statement of the preamble.                           *)
  outcome, (* "none", then "rows" or "error".                               *)
  view,    (* The settings in force when the query ran.                     *)
  viewRo,  (* Whether it ran in a read-only transaction.                    *)
  slot,    (* Pool: absent, idle or leased.                                 *)
  alive,   (* Postgres: the backend is there and reachable.                 *)
  tx,      (* Postgres: none, open or aborted.                              *)
  ro,      (* Postgres: transaction_read_only.                              *)
  guc      (* Postgres: the settings of the session, by preamble position.  *)

handlerVars == <<who, kind, scope>>
viewVars == <<view, viewRo>>
sessionVars == <<tx, ro, guc>>
vars == <<pc, handlerVars, lease, at, outcome, viewVars, slot, alive, sessionVars>>

Settings == 1..(NFixed + NScope)
NoSettings == [k \in Settings |-> Unset]

PreambleLength(r) == IF scope[r] = Nobody THEN NFixed ELSE NFixed + NScope
Preamble(r, k) == IF k <= NFixed THEN Pinned ELSE scope[r]

Init ==
  /\ pc      = [r \in Requests |-> "free"]
  /\ who     = [r \in Requests |-> Nobody]
  /\ kind    = [r \in Requests |-> "guarded"]
  /\ scope   = [r \in Requests |-> Nobody]
  /\ lease   = [r \in Requests |-> NoConn]
  /\ at      = [r \in Requests |-> 1]
  /\ outcome = [r \in Requests |-> "none"]
  /\ view    = [r \in Requests |-> NoSettings]
  /\ viewRo  = [r \in Requests |-> FALSE]
  /\ slot    = [c \in Connections |-> "absent"]
  /\ alive   = [c \in Connections |-> FALSE]
  /\ tx      = [c \in Connections |-> "none"]
  /\ ro      = [c \in Connections |-> FALSE]
  /\ guc     = [c \in Connections |-> NoSettings]

Goto(r, from, to) == pc[r] = from /\ pc' = [pc EXCEPT ![r] = to]

(***************************************************************************)
(* Entry.  A guarded read first awaits the tenancy's resolver; a catalog   *)
(* read carries no scope and goes straight to the pool.                    *)
(***************************************************************************)
Arrive(r, t, k) ==
  /\ Goto(r, "free", IF k = "guarded" THEN "resolve" ELSE "connect")
  /\ who'  = [who EXCEPT ![r] = t]
  /\ kind' = [kind EXCEPT ![r] = k]
  /\ UNCHANGED <<scope, lease, at, outcome, viewVars, slot, alive, sessionVars>>

\* Slip: the tenant's settings are not carried into the read.
ResolveOkUnscoped(r) ==
  /\ Goto(r, "resolve", "connect")
  /\ SingleTenant \/ who[r] \in Tenants
  /\ UNCHANGED <<handlerVars, lease, at, outcome, viewVars, slot, alive, sessionVars>>

\* A resolver answers for the token's tenant and for nobody else; an empty
\* scope is refused unless the host declared single-tenant mode.
ResolveOk(r) ==
  /\ Goto(r, "resolve", "connect")
  /\ SingleTenant \/ who[r] \in Tenants
  /\ scope' = [scope EXCEPT ![r] = IF SingleTenant THEN Nobody ELSE who[r]]
  /\ UNCHANGED <<who, kind, lease, at, outcome, viewVars, slot, alive, sessionVars>>

\* No token, a token refused (401, 403), a resolver that threw (500), or a
\* setting the preamble will not write: all before any connection is leased.
ResolveFails(r) ==
  /\ Goto(r, "resolve", "done")
  /\ outcome' = [outcome EXCEPT ![r] = "error"]
  /\ UNCHANGED <<handlerVars, lease, at, viewVars, slot, alive, sessionVars>>

(***************************************************************************)
(* The pool.  Connect hands out an idle session as it was left, or opens   *)
(* one; a pool with connectionTimeoutMillis gives up instead of hanging.   *)
(***************************************************************************)
Connect(r, c) ==
  /\ Goto(r, "connect", "begin")
  /\ slot[c] \in {"idle", "absent"}
  /\ slot'  = [slot EXCEPT ![c] = "leased"]
  /\ lease' = [lease EXCEPT ![r] = c]
  /\ IF slot[c] = "absent"
     THEN /\ alive' = [alive EXCEPT ![c] = TRUE]
          /\ tx'    = [tx EXCEPT ![c] = "none"]
          /\ ro'    = [ro EXCEPT ![c] = FALSE]
          /\ guc'   = [guc EXCEPT ![c] = NoSettings]
     ELSE UNCHANGED <<alive, sessionVars>>
  /\ UNCHANGED <<handlerVars, at, outcome, viewVars>>

\* Slip: a pool without connectionTimeoutMillis waits for ever.
ConnectWaits(r) ==
  /\ pc[r] = "connect"
  /\ UNCHANGED vars

ConnectTimesOut(r) ==
  /\ Goto(r, "connect", "done")
  /\ outcome' = [outcome EXCEPT ![r] = "error"]
  /\ UNCHANGED <<handlerVars, lease, at, viewVars, slot, alive, sessionVars>>

\* The release of the sealed client: destroy drops the session from the pool.
Release(r, destroy) ==
  /\ slot'  = [slot EXCEPT ![lease[r]] = IF destroy THEN "absent" ELSE "idle"]
  /\ lease' = [lease EXCEPT ![r] = NoConn]

(***************************************************************************)
(* The statements of a read, each awaited.  BEGIN READ ONLY may reach a    *)
(* server or a proxy that does not honour READ ONLY: the code asks.        *)
(***************************************************************************)
Begin(r) ==
  LET c == lease[r] IN
  /\ Goto(r, "begin", "preamble")
  /\ alive[c]
  /\ tx' = [tx EXCEPT ![c] = "open"]
  /\ \E honoured \in BOOLEAN : ro' = [ro EXCEPT ![c] = honoured]
  /\ UNCHANGED <<handlerVars, lease, at, outcome, viewVars, slot, alive, guc>>

\* SET LOCAL outside a transaction is a warning and sets nothing.
SetLocal(c, k, value) ==
  guc' = IF tx[c] = "open" THEN [guc EXCEPT ![c] = [@ EXCEPT ![k] = value]] ELSE guc

RunPreamble(r) ==
  LET c == lease[r] IN
  /\ pc[r] = "preamble"
  /\ alive[c] /\ tx[c] # "aborted"
  /\ SetLocal(c, at[r], Preamble(r, at[r]))
  /\ at' = [at EXCEPT ![r] = @ + 1]
  /\ pc' = [pc EXCEPT ![r] =
              IF at[r] < PreambleLength(r) THEN "preamble"
              ELSE IF kind[r] = "guarded" THEN "assert" ELSE "query"]
  /\ UNCHANGED <<handlerVars, lease, outcome, viewVars, slot, alive, tx, ro>>

\* Slip: the answer of SHOW is awaited and not compared.
AssertNothing(r) ==
  /\ Goto(r, "assert", "query")
  /\ alive[lease[r]] /\ tx[lease[r]] # "aborted"
  /\ UNCHANGED <<handlerVars, lease, at, outcome, viewVars, slot, alive, sessionVars>>

\* SHOW transaction_read_only must say "on".
AssertReadOnly(r) ==
  LET c == lease[r] IN
  /\ pc[r] = "assert"
  /\ alive[c] /\ tx[c] # "aborted"
  /\ pc' = [pc EXCEPT ![r] = IF ro[c] THEN "query" ELSE "rollback"]
  /\ outcome' = [outcome EXCEPT ![r] = IF ro[c] THEN @ ELSE "error"]
  /\ UNCHANGED <<handlerVars, lease, at, viewVars, slot, alive, sessionVars>>

\* The approved query, or the body of a catalog read.
RunQuery(r) ==
  LET c == lease[r] IN
  /\ Goto(r, "query", "rollback")
  /\ alive[c] /\ tx[c] # "aborted"
  /\ outcome' = [outcome EXCEPT ![r] = "rows"]
  /\ view'    = [view EXCEPT ![r] = guc[c]]
  /\ viewRo'  = [viewRo EXCEPT ![r] = ro[c] /\ tx[c] = "open"]
  /\ UNCHANGED <<handlerVars, lease, at, slot, alive, sessionVars>>

\* Slip: a connection is given back only on the path that succeeds.
StatementFailsUnreleased(r) ==
  /\ pc[r] \in {"begin", "preamble", "assert", "query"}
  /\ pc' = [pc EXCEPT ![r] = "done"]
  /\ outcome' = [outcome EXCEPT ![r] = "error"]
  /\ UNCHANGED <<handlerVars, lease, at, viewVars, slot, alive, sessionVars>>

\* A statement rejects: an SQL error aborts the transaction; a client-side
\* timeout rejects a BEGIN the server may still execute; the rest of the try
\* block is skipped and its finally block runs.
StatementFails(r) ==
  LET c == lease[r] IN
  /\ pc[r] \in {"begin", "preamble", "assert", "query"}
  /\ pc' = [pc EXCEPT ![r] = "rollback"]
  /\ outcome' = [outcome EXCEPT ![r] = "error"]
  /\ tx' = [tx EXCEPT ![c] = IF @ = "none" THEN @ ELSE "aborted"]
           \/ (pc[r] = "begin" /\ alive[c] /\ tx' = [tx EXCEPT ![c] = "open"])
  /\ UNCHANGED <<handlerVars, lease, at, viewVars, slot, alive, ro, guc>>

(***************************************************************************)
(* The finally block: ROLLBACK, then release, destroying the connection    *)
(* when the ROLLBACK did not succeed.                                      *)
(***************************************************************************)
RollbackOk(r) ==
  LET c == lease[r] IN
  /\ Goto(r, "rollback", "done")
  /\ alive[c]
  /\ tx'  = [tx EXCEPT ![c] = "none"]
  /\ ro'  = [ro EXCEPT ![c] = FALSE]
  /\ guc' = [guc EXCEPT ![c] = NoSettings]
  /\ Release(r, FALSE)
  /\ UNCHANGED <<handlerVars, at, outcome, viewVars, alive>>

\* Slip: release() without the flag that destroys the connection.
RollbackFailsReused(r) ==
  /\ Goto(r, "rollback", "done")
  /\ Release(r, FALSE)
  /\ UNCHANGED <<handlerVars, at, outcome, viewVars, alive, sessionVars>>

RollbackFails(r) ==
  /\ Goto(r, "rollback", "done")
  /\ Release(r, TRUE)
  /\ UNCHANGED <<handlerVars, at, outcome, viewVars, alive, sessionVars>>

\* The response is sent and the slot is free for another request.
Leave(r) ==
  /\ Goto(r, "done", "free")
  /\ who'     = [who EXCEPT ![r] = Nobody]
  /\ kind'    = [kind EXCEPT ![r] = "guarded"]
  /\ scope'   = [scope EXCEPT ![r] = Nobody]
  /\ at'      = [at EXCEPT ![r] = 1]
  /\ outcome' = [outcome EXCEPT ![r] = "none"]
  /\ view'    = [view EXCEPT ![r] = NoSettings]
  /\ viewRo'  = [viewRo EXCEPT ![r] = FALSE]
  /\ UNCHANGED <<lease, slot, alive, sessionVars>>

\* idle_in_transaction_session_timeout, an administrator or the network ends
\* a session, whether or not a request holds it.
Terminate(c) ==
  /\ slot[c] # "absent"
  /\ alive[c]
  /\ alive' = [alive EXCEPT ![c] = FALSE]
  /\ UNCHANGED <<pc, handlerVars, lease, at, outcome, viewVars, slot, sessionVars>>

Step(r) ==
  \/ ResolveOk(r)
  \/ ResolveFails(r)
  \/ \E c \in Connections : Connect(r, c)
  \/ ConnectTimesOut(r)
  \/ Begin(r)
  \/ RunPreamble(r)
  \/ AssertReadOnly(r)
  \/ RunQuery(r)
  \/ StatementFails(r)
  \/ RollbackOk(r)
  \/ RollbackFails(r)
  \/ Leave(r)

Next ==
  \/ \E r \in Requests :
       \/ \E t \in Tenants \union {Nobody} : Arrive(r, t, "guarded")
       \/ Arrive(r, Nobody, "catalog")
       \/ Step(r)
  \/ \E c \in Connections : Terminate(c)

Spec == Init /\ [][Next]_vars

\* Every await settles: the event loop runs on, the pool's connect times out
\* and so does a statement.  Requests need not arrive, sessions need not die.
FairSpec == Spec /\ \A r \in Requests : WF_vars(Step(r))
-----------------------------------------------------------------------------
TypeOK ==
  /\ pc \in [Requests -> {"free", "resolve", "connect", "begin", "preamble",
                           "assert", "query", "rollback", "done"}]
  /\ who \in [Requests -> Tenants \union {Nobody}]
  /\ kind \in [Requests -> {"guarded", "catalog"}]
  /\ scope \in [Requests -> Tenants \union {Nobody}]
  /\ lease \in [Requests -> Connections \union {NoConn}]
  /\ at \in [Requests -> 1..(NFixed + NScope + 1)]
  /\ outcome \in [Requests -> {"none", "rows", "error"}]
  /\ view \in [Requests -> [Settings -> Tenants \union {Pinned, Unset}]]
  /\ viewRo \in [Requests -> BOOLEAN]
  /\ slot \in [Connections -> {"absent", "idle", "leased"}]
  /\ alive \in [Connections -> BOOLEAN]
  /\ tx \in [Connections -> {"none", "open", "aborted"}]
  /\ ro \in [Connections -> BOOLEAN]
  /\ guc \in [Connections -> [Settings -> Tenants \union {Pinned, Unset}]]

InSession == {"begin", "preamble", "assert", "query", "rollback"}

\* The preamble a request is owed, whoever held the connection before.
Owed(r) ==
  [k \in Settings |->
     IF k <= NFixed THEN Pinned
     ELSE IF SingleTenant \/ kind[r] = "catalog" THEN Unset
     ELSE who[r]]

(***************************************************************************)
(* Rows are only ever read under the whole preamble, with the scope of the *)
(* tenant whose token the request carried: not part of it, not what an     *)
(* earlier request left on the connection, not the scope of a request that *)
(* shares the pool (runGuardedRead, execute.ts 156-170; ADR 0013).         *)
(***************************************************************************)
ReadUnderOwnScope ==
  \A r \in Requests : outcome[r] = "rows" =>
    /\ view[r] = Owed(r)
    /\ kind[r] = "guarded" /\ ~SingleTenant => who[r] \in Tenants

(***************************************************************************)
(* A planned query never ran in a transaction the server had not confirmed *)
(* to be read only (the comparison of execute.ts 160-165).                 *)
(***************************************************************************)
GuardedReadsCannotWrite ==
  \A r \in Requests : kind[r] = "guarded" /\ outcome[r] = "rows" => viewRo[r]

(***************************************************************************)
(* A session the pool may hand to another tenant's request is outside any  *)
(* transaction and carries no setting of the last one (the ROLLBACK and    *)
(* the destroying release of execute.ts 174-182 and session.ts 24-30).     *)
(***************************************************************************)
IdleSessionsAreClean ==
  \A c \in Connections : slot[c] = "idle" /\ alive[c] =>
    tx[c] = "none" /\ guc[c] = NoSettings

(***************************************************************************)
(* No connection is leaked and none is shared: the leased ones are exactly *)
(* those some read in progress holds, each held by one (execute.ts 147 and *)
(* 181, pg.ts 76-80).                                                      *)
(***************************************************************************)
LeasesMatchReads ==
  /\ \A r \in Requests : pc[r] \in InSession <=> lease[r] # NoConn
  /\ \A c \in Connections : slot[c] = "leased" <=> \E r \in Requests : lease[r] = c
  /\ \A r, q \in Requests : lease[r] = lease[q] /\ lease[r] # NoConn => r = q

(***************************************************************************)
(* A request that arrived is answered, even when the pool is exhausted by  *)
(* other requests for ever (fromPgPool insists on a connect timeout for    *)
(* this: pg.ts 88-93).                                                     *)
(***************************************************************************)
EveryRequestEnds ==
  \A r \in Requests : pc[r] # "free" ~> pc[r] = "done"

(***************************************************************************)
(* The abstract specification.  Row-level security shows a tenant's rows   *)
(* to a session whose every scope setting names that tenant; a database of *)
(* a single tenant has no such policy.                                     *)
(***************************************************************************)
Visible(v) ==
  IF SingleTenant THEN Tenants
  ELSE {t \in Tenants : \A k \in Settings : k > NFixed => v[k] = t}

Answered(r) == pc[r] = "done" /\ outcome[r] = "rows"

Phase(r) ==
  CASE pc[r] = "free" -> "free"
    [] Answered(r) -> "served"
    [] pc[r] = "done" /\ outcome[r] # "rows" -> "refused"
    [] OTHER -> "pending"

PhaseBar == [r \in Requests |-> Phase(r)]
RowsBar == [r \in Requests |-> IF Answered(r) THEN Visible(view[r]) ELSE {}]
SafeBar == [r \in Requests |-> IF Answered(r) THEN viewRo[r] ELSE FALSE]

Abstract == INSTANCE TenantRead WITH
  phase <- PhaseBar, asker <- who, sort <- kind, rows <- RowsBar, safe <- SafeBar

\* Every behaviour of the session is one the abstract read allows.
ImplementsTenantRead == Abstract!Spec
=============================================================================
