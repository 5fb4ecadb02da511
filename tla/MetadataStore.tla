---------------------------- MODULE MetadataStore ----------------------------
(***************************************************************************)
(* The metadata schema of the SDK in the host's database: the migrations   *)
(* (core/src/store/migrations.ts) and the cache of approved plans          *)
(* (core/src/store/store.ts), each operation of which is one write         *)
(* transaction (core/src/store/write.ts).  Processes of different builds   *)
(* and policies work on one database, and every statement is awaited.      *)
(*                                                                         *)
(* The database is external: READ COMMITTED, a row or an object another    *)
(* transaction has written is waited for, and a COMMIT whose answer does   *)
(* not arrive may have been, or may yet be, carried out.                   *)
(***************************************************************************)
EXTENDS Integers, FiniteSets

CONSTANTS
  Workers,   (* Processes, one operation at a time each.                   *)
  Versions,  (* Migration versions that some build knows.                  *)
  Builds,    (* What a build carries: for each version its DDL, or NoDdl.  *)
  NoDdl,
  First,     (* The version that creates approved_query.                   *)
  Keys,      (* Cache keys.                                                *)
  Plans,     (* Approved plans, as the SQL a row stores.                   *)
  Policies,  (* What a process's guard and policy approve: sets of plans.  *)
  NoPlan,    (* No row, and the answer of a miss.                          *)
  Untouched, (* A transaction has not written this row.                    *)
  TouchOnHit (* Option: a hit updates the row it reads.                    *)

ASSUME VersionsAssumption ==
  /\ Versions \subseteq Nat
  /\ First \in Versions
  /\ \A b \in Builds : DOMAIN b = Versions /\ b[First] # NoDdl
ASSUME PlansAssumption ==
  /\ NoPlan \notin Plans /\ Untouched \notin Plans \union {NoPlan}
  /\ Policies \subseteq SUBSET Plans
  /\ TouchOnHit \in BOOLEAN

VARIABLES
  \* What the database has committed.
  booted,   (* The schema and the ledger table exist.                      *)
  tables,   (* The DDL each version's tables were made from.               *)
  ledger,   (* The DDL each version is recorded with (its checksum).       *)
  rows,     (* approved_query: the plan of each key.                       *)
  expired,  (* Keys whose row is past its expires_at.                      *)
  \* What each process is doing.
  pc,
  job,      (* Its operation: kind, build, policy, key and plan.           *)
  todo,     (* Versions it has still to apply.                             *)
  reply,    (* none or ok; an exception is error, or lost out of COMMIT.   *)
  found,    (* The plan its statement returned, and later its answer.      *)
  \* The transaction of its session.
  tx,       (* none, open, or sent: COMMIT is in the server's hands.       *)
  alive,    (* The session and its process still reach each other.         *)
  boot,     (* Uncommitted: it creates the schema,                         *)
  made,     (* the tables of these versions,                               *)
  noted,    (* the ledger rows of these versions,                          *)
  put,      (* and these rows (NoPlan deletes).                            *)
  stale,    (* Keys that had expired when it began: now() is that time.    *)
  landed    (* History: its writes have been committed.                    *)

schemaVars == <<booted, tables, ledger>>
dbVars == <<schemaVars, rows, expired>>
jobVars == <<job, todo, found>>
writeVars == <<boot, made, noted, put>>
vars == <<dbVars, pc, jobVars, reply, tx, alive, writeVars, stale, landed>>

Ddl == {b[v] : b \in Builds, v \in Versions} \union {NoDdl}

Idle == [kind |-> "none"]
Jobs ==
  [kind : {"migrate"}, build : Builds]
  \union [kind : {"save"}, key : Keys, plan : Plans, policy : Policies]
  \union [kind : {"lookup"}, key : Keys, policy : Policies]
  \union [kind : {"invalidate"}, key : Keys]
  \union [kind : {"invalidateAll", "purgeExpired"}]

Untried == [k \in Keys |-> Untouched]

Init ==
  /\ booted = FALSE
  /\ tables = [v \in Versions |-> NoDdl]
  /\ ledger = [v \in Versions |-> NoDdl]
  /\ rows = [k \in Keys |-> NoPlan]
  /\ expired = {}
  /\ pc = [w \in Workers |-> "idle"]
  /\ job = [w \in Workers |-> Idle]
  /\ todo = [w \in Workers |-> {}]
  /\ reply = [w \in Workers |-> "none"]
  /\ found = [w \in Workers |-> NoPlan]
  /\ tx = [w \in Workers |-> "none"]
  /\ alive = [w \in Workers |-> TRUE]
  /\ boot = [w \in Workers |-> FALSE]
  /\ made = [w \in Workers |-> {}]
  /\ noted = [w \in Workers |-> {}]
  /\ put = [w \in Workers |-> Untried]
  /\ stale = [w \in Workers |-> {}]
  /\ landed = [w \in Workers |-> FALSE]

Others(w) == Workers \ {w}
Known(w) == {v \in Versions : job[w].build[v] # NoDdl}

(***************************************************************************)
(* A call takes a connection.  Only a plan its own process has approved    *)
(* can be saved: the rest is refused before anything is sent.              *)
(***************************************************************************)
Call(w, j) ==
  /\ pc[w] = "idle"
  /\ j.kind = "save" => j.plan \in j.policy
  /\ pc' = [pc EXCEPT ![w] = "begin"]
  /\ job' = [job EXCEPT ![w] = j]
  /\ UNCHANGED <<dbVars, todo, found, reply, tx, alive, writeVars, stale, landed>>

\* BEGIN and the preamble.
Begin(w) ==
  /\ pc[w] = "begin"
  /\ alive[w]
  /\ pc' = [pc EXCEPT ![w] = IF job[w].kind = "migrate" THEN "exists" ELSE "statement"]
  /\ tx' = [tx EXCEPT ![w] = "open"]
  /\ stale' = [stale EXCEPT ![w] = expired]
  /\ UNCHANGED <<dbVars, jobVars, reply, alive, writeVars, landed>>

InBody(w) == pc[w] \in {"exists", "boot", "ledger", "create", "record", "statement"}

\* Slip: a statement that fails is logged and passed over.
StatementFailsCommits(w) ==
  /\ InBody(w) \/ pc[w] = "begin"
  /\ pc' = [pc EXCEPT ![w] = IF InBody(w) THEN "commit" ELSE "rollback"]
  /\ reply' = [reply EXCEPT ![w] = IF InBody(w) THEN "none" ELSE "error"]
  /\ UNCHANGED <<dbVars, jobVars, tx, alive, writeVars, stale, landed>>

(***************************************************************************)
(* A statement is refused (the table is missing, a key is taken, a lock is *)
(* waited for too long), the session is gone, or the client gives up on    *)
(* what the server may have done: the exception goes to the caller after a *)
(* ROLLBACK.                                                               *)
(***************************************************************************)
StatementFails(w) ==
  /\ InBody(w) \/ pc[w] = "begin"
  /\ pc' = [pc EXCEPT ![w] = "rollback"]
  /\ reply' = [reply EXCEPT ![w] = "error"]
  /\ UNCHANGED <<dbVars, jobVars, tx, alive, writeVars, stale, landed>>

\* A statement reaches a transaction the server still has.
Runs(w, at) ==
  /\ pc[w] = at
  /\ alive[w]
  /\ tx[w] = "open"
  /\ UNCHANGED <<dbVars, job, reply, tx, alive, stale, landed>>

(***************************************************************************)
(* runMigrations.  to_regclass sees what has been committed.               *)
(***************************************************************************)
Exists(w) ==
  /\ Runs(w, "exists")
  /\ pc' = [pc EXCEPT ![w] = IF booted THEN "ledger" ELSE "boot"]
  /\ UNCHANGED <<todo, found, writeVars>>

\* CREATE ... IF NOT EXISTS waits for a transaction that creates the same.
\* The ledger is then taken to be empty.
Boot(w) ==
  /\ Runs(w, "boot")
  /\ \A o \in Others(w) : ~boot[o]
  /\ boot' = [boot EXCEPT ![w] = ~booted]
  /\ todo' = [todo EXCEPT ![w] = Known(w)]
  /\ pc' = [pc EXCEPT ![w] = "create"]
  /\ UNCHANGED <<found, made, noted, put>>

\* Slip: what is recorded is done, whatever it was made from.
ReconcilesAhead(w) == \A v \in Versions : ledger[v] # NoDdl => v \in Known(w)

\* Nothing recorded is unknown to this build, or made from other DDL.
Reconciles(w) == \A v \in Versions : ledger[v] # NoDdl => ledger[v] = job[w].build[v]

ReadLedger(w) ==
  /\ Runs(w, "ledger")
  /\ Reconciles(w)
  /\ LET pending == {v \in Known(w) : ledger[v] = NoDdl}
     IN  /\ todo' = [todo EXCEPT ![w] = pending]
         /\ pc' = [pc EXCEPT ![w] = IF pending = {} THEN "commit" ELSE "create"]
  /\ UNCHANGED <<found, writeVars>>

NextPending(w, v) == v \in todo[w] /\ \A u \in todo[w] : v <= u

\* IF NOT EXISTS: tables that are there are left as they are.
Create(w, v) ==
  /\ Runs(w, "create")
  /\ NextPending(w, v)
  /\ \A o \in Others(w) : v \notin made[o]
  /\ made' = [made EXCEPT ![w] = IF tables[v] = NoDdl THEN @ \union {v} ELSE @]
  /\ pc' = [pc EXCEPT ![w] = "record"]
  /\ UNCHANGED <<todo, found, boot, noted, put>>

\* The version is the primary key: one that is recorded, or about to be,
\* cannot be inserted again.
Record(w, v) ==
  /\ Runs(w, "record")
  /\ NextPending(w, v)
  /\ ledger[v] = NoDdl
  /\ \A o \in Others(w) : v \notin noted[o]
  /\ noted' = [noted EXCEPT ![w] = @ \union {v}]
  /\ todo' = [todo EXCEPT ![w] = @ \ {v}]
  /\ pc' = [pc EXCEPT ![w] = IF todo[w] = {v} THEN "commit" ELSE "create"]
  /\ UNCHANGED <<found, boot, made, put>>

(***************************************************************************)
(* The query store: each operation is one statement.                       *)
(***************************************************************************)
Present(k) == rows[k] # NoPlan
HeldByOther(w, k) == \E o \in Others(w) : put[o][k] # Untouched

\* Slip: purgeExpired takes what has not expired too.
SelectedAll(w) ==
  {k \in Keys :
     /\ Present(k)
     /\ job[w].kind \in {"lookup", "invalidate"} => k = job[w].key
     /\ job[w].kind = "lookup" => k \notin stale[w]}

\* What the WHERE clause of the job selects; now() is when it began.
Selected(w) ==
  {k \in Keys :
     /\ Present(k)
     /\ job[w].kind \in {"lookup", "invalidate"} => k = job[w].key
     /\ job[w].kind = "lookup" => k \notin stale[w]
     /\ job[w].kind = "purgeExpired" => k \in stale[w]}

Stated(w) ==
  /\ Runs(w, "statement")
  /\ tables[First] # NoDdl
  /\ pc' = [pc EXCEPT ![w] = "commit"]
  /\ UNCHANGED <<todo, boot, made, noted>>

\* INSERT ... ON CONFLICT DO UPDATE waits for whoever writes the key.
Save(w) ==
  /\ job[w].kind = "save"
  /\ Stated(w)
  /\ ~HeldByOther(w, job[w].key)
  /\ put' = [put EXCEPT ![w][job[w].key] = job[w].plan]
  /\ UNCHANGED found

\* A hit locks its row only if it touches it.
Lookup(w) ==
  /\ job[w].kind = "lookup"
  /\ Stated(w)
  /\ TouchOnHit => \A k \in Selected(w) : ~HeldByOther(w, k)
  /\ put' = [put EXCEPT ![w] = [k \in Keys |->
               IF TouchOnHit /\ k \in Selected(w) THEN rows[k] ELSE Untouched]]
  /\ found' = [found EXCEPT ![w] =
                 IF job[w].key \in Selected(w) THEN rows[job[w].key] ELSE NoPlan]

Delete(w) ==
  /\ job[w].kind \in {"invalidate", "invalidateAll", "purgeExpired"}
  /\ Stated(w)
  /\ \A k \in Selected(w) : ~HeldByOther(w, k)
  /\ put' = [put EXCEPT ![w] = [k \in Keys |-> IF k \in Selected(w) THEN NoPlan ELSE Untouched]]
  /\ UNCHANGED found

(***************************************************************************)
(* The end of the transaction.                                             *)
(***************************************************************************)
Discard(w) ==
  /\ boot' = [boot EXCEPT ![w] = FALSE]
  /\ made' = [made EXCEPT ![w] = {}]
  /\ noted' = [noted EXCEPT ![w] = {}]
  /\ put' = [put EXCEPT ![w] = Untried]
  /\ tx' = [tx EXCEPT ![w] = "none"]

\* A row that is saved or deleted has not expired; a touched one may have.
Renewed(w) == {k \in Keys : put[w][k] # Untouched /\ job[w].kind # "lookup"}

Commits(w) ==
  /\ booted' = (booted \/ boot[w])
  /\ tables' = [v \in Versions |-> IF v \in made[w] THEN job[w].build[v] ELSE tables[v]]
  /\ ledger' = [v \in Versions |-> IF v \in noted[w] THEN job[w].build[v] ELSE ledger[v]]
  /\ rows' = [k \in Keys |-> IF put[w][k] = Untouched THEN rows[k] ELSE put[w][k]]
  /\ expired' = expired \ Renewed(w)
  /\ stale' = [o \in Workers |-> stale[o] \ Renewed(w)]
  /\ landed' = [landed EXCEPT ![w] = TRUE]
  /\ Discard(w)

\* Slip: what was stored is handed out without asking the guard again.
CommitOkUnchecked(w) ==
  /\ pc[w] = "commit"
  /\ tx[w] = "open"
  /\ Commits(w)
  /\ pc' = [pc EXCEPT ![w] = "done"]
  /\ reply' = [reply EXCEPT ![w] = "ok"]
  /\ UNCHANGED <<job, todo, found, alive>>

\* restore: a plan this process's guard denies now is a miss, after the hit.
CommitOk(w) ==
  /\ pc[w] = "commit"
  /\ tx[w] = "open"
  /\ Commits(w)
  /\ pc' = [pc EXCEPT ![w] = "done"]
  /\ reply' = [reply EXCEPT ![w] = "ok"]
  /\ found' = [found EXCEPT ![w] =
                 IF job[w].kind = "lookup" /\ @ \in job[w].policy THEN @ ELSE NoPlan]
  /\ UNCHANGED <<job, todo, alive>>

\* The server refuses the COMMIT, or has ended the session before it.
CommitRefused(w) ==
  /\ pc[w] = "commit"
  /\ Discard(w)
  /\ pc' = [pc EXCEPT ![w] = "rollback"]
  /\ reply' = [reply EXCEPT ![w] = "lost"]
  /\ UNCHANGED <<dbVars, jobVars, alive, stale, landed>>

\* Slip: no answer to COMMIT is taken for a yes.
CommitUnansweredOk(w) ==
  /\ pc[w] = "commit"
  /\ tx[w] = "open"
  /\ tx' = [tx EXCEPT ![w] = "sent"]
  /\ pc' = [pc EXCEPT ![w] = "done"]
  /\ reply' = [reply EXCEPT ![w] = "ok"]
  /\ UNCHANGED <<dbVars, jobVars, alive, writeVars, stale, landed>>

\* The COMMIT is on its way, and the client gives up on its answer.
CommitUnanswered(w) ==
  /\ pc[w] = "commit"
  /\ tx[w] = "open"
  /\ tx' = [tx EXCEPT ![w] = "sent"]
  /\ pc' = [pc EXCEPT ![w] = "rollback"]
  /\ reply' = [reply EXCEPT ![w] = "lost"]
  /\ UNCHANGED <<dbVars, jobVars, alive, writeVars, stale, landed>>

\* The server comes to a COMMIT nobody waits for.
ServerCommits(w) ==
  /\ tx[w] = "sent"
  /\ Commits(w)
  /\ UNCHANGED <<pc, jobVars, reply, alive>>

\* ROLLBACK is carried out after whatever was sent before it.
RollbackOk(w) ==
  /\ pc[w] = "rollback"
  /\ alive[w]
  /\ tx[w] # "sent"
  /\ Discard(w)
  /\ pc' = [pc EXCEPT ![w] = "done"]
  /\ UNCHANGED <<dbVars, jobVars, reply, alive, stale, landed>>

\* The connection is destroyed; what the server still has ends by itself.
RollbackFails(w) ==
  /\ pc[w] = "rollback"
  /\ pc' = [pc EXCEPT ![w] = "done"]
  /\ alive' = [alive EXCEPT ![w] = FALSE]
  /\ UNCHANGED <<dbVars, jobVars, reply, tx, writeVars, stale, landed>>

\* The server ends a session: a restart, a timeout, a connection it lost.
Terminate(w) ==
  /\ tx[w] # "none"
  /\ Discard(w)
  /\ alive' = [alive EXCEPT ![w] = FALSE]
  /\ UNCHANGED <<dbVars, pc, jobVars, reply, stale, landed>>

\* The expires_at of a row passes.
Expire(k) ==
  /\ Present(k)
  /\ k \notin expired
  /\ expired' = expired \union {k}
  /\ UNCHANGED <<schemaVars, rows, pc, jobVars, reply, tx, alive, writeVars, stale, landed>>

\* The slot serves another call, once its last session is gone.
Return(w) ==
  /\ pc[w] = "done"
  /\ tx[w] = "none"
  /\ pc' = [pc EXCEPT ![w] = "idle"]
  /\ job' = [job EXCEPT ![w] = Idle]
  /\ todo' = [todo EXCEPT ![w] = {}]
  /\ reply' = [reply EXCEPT ![w] = "none"]
  /\ found' = [found EXCEPT ![w] = NoPlan]
  /\ alive' = [alive EXCEPT ![w] = TRUE]
  /\ stale' = [stale EXCEPT ![w] = {}]
  /\ landed' = [landed EXCEPT ![w] = FALSE]
  /\ UNCHANGED <<dbVars, tx, writeVars>>

Step(w) ==
  \/ \E j \in Jobs : Call(w, j)
  \/ Begin(w)
  \/ Exists(w) \/ Boot(w) \/ ReadLedger(w)
  \/ \E v \in Versions : Create(w, v) \/ Record(w, v)
  \/ Save(w) \/ Lookup(w) \/ Delete(w)
  \/ StatementFails(w)
  \/ CommitOk(w) \/ CommitRefused(w) \/ CommitUnanswered(w) \/ ServerCommits(w)
  \/ RollbackOk(w) \/ RollbackFails(w)
  \/ Terminate(w)
  \/ Return(w)

Next == (\E w \in Workers : Step(w)) \/ (\E k \in Keys : Expire(k))

Spec == Init /\ [][Next]_vars
-----------------------------------------------------------------------------
(***************************************************************************)
(* Properties                                                              *)
(***************************************************************************)

\* Every variable has its type.
TypeOK ==
  /\ booted \in BOOLEAN
  /\ tables \in [Versions -> Ddl]
  /\ ledger \in [Versions -> Ddl]
  /\ rows \in [Keys -> Plans \union {NoPlan}]
  /\ expired \subseteq Keys
  /\ pc \in [Workers -> {"idle", "begin", "exists", "boot", "ledger", "create", "record",
                         "statement", "commit", "rollback", "done"}]
  /\ job \in [Workers -> Jobs \union {Idle}]
  /\ todo \in [Workers -> SUBSET Versions]
  /\ reply \in [Workers -> {"none", "ok", "error", "lost"}]
  /\ found \in [Workers -> Plans \union {NoPlan}]
  /\ tx \in [Workers -> {"none", "open", "sent"}]
  /\ alive \in [Workers -> BOOLEAN]
  /\ boot \in [Workers -> BOOLEAN]
  /\ made \in [Workers -> SUBSET Versions]
  /\ noted \in [Workers -> SUBSET Versions]
  /\ put \in [Workers -> [Keys -> Plans \union {NoPlan, Untouched}]]
  /\ stale \in [Workers -> SUBSET Keys]
  /\ landed \in [Workers -> BOOLEAN]

\* The ledger names exactly the tables that exist, with the DDL they were
\* made from, whatever build fails at whatever statement and however two
\* builds that migrate at once interleave: migrations.ts records a version in
\* the transaction that creates its tables.
LedgerMatchesTables == ledger = tables

\* A process told that its migrations are in place has the tables of its own
\* build, not of another one that came first: reconcile compares checksums.
MigratedIsMigrated ==
  \A w \in Workers :
    job[w].kind = "migrate" /\ reply[w] = "ok"
      => \A v \in Known(w) : ledger[v] = job[w].build[v]

\* Success is only reported of what has been committed, and an exception out
\* of anything before COMMIT means that nothing ever will be.  Only the
\* exception out of COMMIT itself says neither.
TruthfulReplies ==
  \A w \in Workers :
    /\ reply[w] = "ok" => landed[w]
    /\ reply[w] = "error" => ~landed[w] /\ tx[w] # "sent"

\* A lookup hands out only what the policy of its own process approves now,
\* whichever process saved the row under whichever policy (store.ts: "The
\* policy a restored plan is re-approved against. Tightening it retires stale
\* plans.").
HandsOutApproved ==
  \A w \in Workers :
    job[w].kind = "lookup" /\ reply[w] = "ok" /\ found[w] # NoPlan
      => found[w] \in job[w].policy

\* A row disappears only if it had expired or an invalidation asked for it:
\* a purge that races a save of the same key leaves the renewed row alone.
LiveRowsStay ==
  [][\A k \in Keys :
       rows[k] # NoPlan /\ rows'[k] = NoPlan =>
         \/ k \in expired
         \/ \E w \in Workers :
              /\ put[w][k] = NoPlan
              /\ \/ job[w].kind = "invalidateAll"
                 \/ job[w].kind = "invalidate" /\ job[w].key = k]_vars
=============================================================================
