------------------------- MODULE MetadataStoreProofs -------------------------
(***************************************************************************)
(* For every set of processes, builds, keys, plans and policies: the       *)
(* ledger names exactly the tables that exist, a migration that succeeded  *)
(* has the tables of its own build, replies tell the truth, a lookup hands *)
(* out what its own policy approves, and no row that is still good goes    *)
(* unasked.                                                                *)
(***************************************************************************)
EXTENDS MetadataStore, TLAPS

Starting == {"idle", "begin"}
Body == {"exists", "boot", "ledger", "create", "record", "statement"}

\* What is said to the caller, and when it can be said.
Replies ==
  \A w \in Workers :
    /\ pc[w] \in Starting \union Body \union {"commit"} => reply[w] = "none" /\ ~landed[w]
    /\ pc[w] \in Starting => tx[w] = "none"
    /\ reply[w] = "ok" => landed[w] /\ pc[w] = "done"
    /\ reply[w] = "error" => ~landed[w] /\ tx[w] # "sent"
    /\ tx[w] = "sent" => reply[w] = "lost"

\* What a transaction has written: it only notes what it has made, has made
\* only what is missing, and comes to COMMIT with nothing made but not noted.
WriteOk(w) ==
  /\ tx[w] = "none" => made[w] = {} /\ noted[w] = {} /\ put[w] = Untried
  /\ pc[w] \in {"exists", "boot", "ledger", "create", "record"} => job[w].kind = "migrate"
  /\ made[w] # {} => job[w].kind = "migrate"
  /\ pc[w] \in {"exists", "boot", "ledger", "statement"} => made[w] = {} /\ noted[w] = {}
  /\ pc[w] = "create" => made[w] = noted[w]
  /\ pc[w] = "record" =>
       \A v \in Versions : NextPending(w, v) =>
         \/ made[w] = noted[w] \union {v}
         \/ made[w] = noted[w] /\ (tx[w] = "open" => tables[v] # NoDdl)
  /\ pc[w] = "commit" \/ tx[w] = "sent" => made[w] = noted[w]
  /\ \A v \in made[w] : tables[v] = NoDdl /\ \A o \in Others(w) : v \notin made[o]
Writes == \A w \in Workers : WriteOk(w)

\* How far a migration has come.
ProgressOk(w) ==
  job[w].kind = "migrate" =>
    \A v \in Known(w) :
      /\ tx[w] = "open" /\ pc[w] \in {"create", "record"} =>
           v \in todo[w] \/ v \in noted[w] \/ ledger[v] = job[w].build[v]
      /\ tx[w] = "open" /\ pc[w] = "commit" => v \in noted[w] \/ ledger[v] = job[w].build[v]
      /\ reply[w] = "ok" => ledger[v] = job[w].build[v]
Progress == \A w \in Workers : ProgressOk(w)

MInv ==
  /\ TypeOK
  /\ Replies
  /\ Writes
  /\ Progress
  /\ LedgerMatchesTables
  /\ HandsOutApproved

-----------------------------------------------------------------------------
\* What the type of a job says of the fields of each kind.
LEMMA JobFields ==
  ASSUME NEW j \in Jobs \union {Idle}
  PROVE  /\ j.kind = "migrate" => j.build \in Builds
         /\ j.kind \in {"save", "lookup", "invalidate"} => j.key \in Keys
         /\ j.kind = "save" => j.plan \in Plans
<1>1. CASE j \in [kind : {"migrate"}, build : Builds]
  BY <1>1
<1>2. CASE j \in [kind : {"save"}, key : Keys, plan : Plans, policy : Policies]
  BY <1>2
<1>3. CASE j \in [kind : {"lookup"}, key : Keys, policy : Policies]
  BY <1>3
<1>4. CASE j \in [kind : {"invalidate"}, key : Keys]
  BY <1>4
<1>5. CASE j \in [kind : {"invalidateAll", "purgeExpired"}]
  BY <1>5
<1>6. CASE j = Idle
  BY <1>6 DEF Idle
<1>. QED  BY <1>1, <1>2, <1>3, <1>4, <1>5, <1>6 DEF Jobs

LEMMA BuildDdl ==
  ASSUME NEW b \in Builds, NEW v \in Versions
  PROVE  b[v] \in Ddl
BY DEF Ddl

LEMMA UntriedType == Untried \in [Keys -> Plans \union {NoPlan, Untouched}]
BY DEF Untried

LEMMA InitInv == Init => MInv
<1> SUFFICES ASSUME Init PROVE MInv
  OBVIOUS
<1>1. TypeOK
  <2>1. NoDdl \in Ddl /\ Idle \in Jobs \union {Idle}
    BY DEF Ddl
  <2>. QED  BY <2>1, UntriedType DEF Init, TypeOK
<1>2. Replies /\ Writes
  BY DEF Init, Replies, Writes, WriteOk, Starting, Body
<1>3. Progress /\ LedgerMatchesTables /\ HandsOutApproved
  BY DEF Init, Progress, ProgressOk, LedgerMatchesTables, HandsOutApproved, Idle
<1>. QED  BY <1>1, <1>2, <1>3 DEF MInv

-----------------------------------------------------------------------------
\* A COMMIT the server carries out is of an open or a sent transaction that
\* has noted all it made.
LEMMA CommitTypes ==
  ASSUME MInv, NEW w \in Workers, Commits(w), made[w] = noted[w]
  PROVE  /\ tables' \in [Versions -> Ddl]
         /\ ledger' \in [Versions -> Ddl]
         /\ rows' \in [Keys -> Plans \union {NoPlan}]
         /\ booted' \in BOOLEAN
         /\ expired' \subseteq Keys
         /\ stale' \in [Workers -> SUBSET Keys]
         /\ landed' \in [Workers -> BOOLEAN]
         /\ ledger' = tables'
<1>1. ASSUME NEW v \in made[w] PROVE job[w].build[v] \in Ddl
  <2>1. job[w].kind = "migrate" /\ v \in Versions /\ job[w] \in Jobs \union {Idle}
    BY DEF MInv, Writes, WriteOk, TypeOK
  <2>2. job[w].build \in Builds
    BY <2>1, JobFields
  <2>. QED  BY <2>1, <2>2, BuildDdl
<1>2. tables' \in [Versions -> Ddl] /\ ledger' \in [Versions -> Ddl]
  BY <1>1 DEF MInv, TypeOK, Commits
<1>3. rows' \in [Keys -> Plans \union {NoPlan}]
  BY DEF MInv, TypeOK, Commits
<1>4. booted' \in BOOLEAN /\ expired' \subseteq Keys /\ stale' \in [Workers -> SUBSET Keys]
  BY DEF MInv, TypeOK, Commits
<1>5. landed' \in [Workers -> BOOLEAN]
  BY DEF MInv, TypeOK, Commits
<1>6. ledger' = tables'
  BY DEF MInv, LedgerMatchesTables, Commits
<1>. QED  BY <1>2, <1>3, <1>4, <1>5, <1>6

LEMMA StepTypes ==
  ASSUME MInv, [Next]_vars
  PROVE  TypeOK'
<1>0. TypeOK
  BY DEF MInv
<1> USE <1>0 DEF TypeOK, dbVars, schemaVars, jobVars, writeVars
<1>1. ASSUME NEW w \in Workers, NEW j \in Jobs, Call(w, j) PROVE TypeOK'
  BY <1>1 DEF Call
<1>2. ASSUME NEW w \in Workers, Begin(w) PROVE TypeOK'
  BY <1>2 DEF Begin
<1>3. ASSUME NEW w \in Workers, Exists(w) PROVE TypeOK'
  BY <1>3 DEF Exists, Runs
<1>4. ASSUME NEW w \in Workers, Boot(w) PROVE TypeOK'
  BY <1>4 DEF Boot, Runs, Known
<1>5. ASSUME NEW w \in Workers, ReadLedger(w) PROVE TypeOK'
  BY <1>5 DEF ReadLedger, Runs, Known
<1>6. ASSUME NEW w \in Workers, NEW v \in Versions, Create(w, v) PROVE TypeOK'
  BY <1>6 DEF Create, Runs
<1>7. ASSUME NEW w \in Workers, NEW v \in Versions, Record(w, v) PROVE TypeOK'
  BY <1>7 DEF Record, Runs
<1>8. ASSUME NEW w \in Workers, Save(w) PROVE TypeOK'
  <2>1. job[w].key \in Keys /\ job[w].plan \in Plans
    BY <1>8, JobFields DEF Save
  <2>. QED  BY <1>8, <2>1 DEF Save, Stated, Runs
<1>9. ASSUME NEW w \in Workers, Lookup(w) PROVE TypeOK'
  <2>1. job[w].key \in Keys
    BY <1>9, JobFields DEF Lookup
  <2>. QED  BY <1>9, <2>1 DEF Lookup, Stated, Runs
<1>10. ASSUME NEW w \in Workers, Delete(w) PROVE TypeOK'
  BY <1>10 DEF Delete, Stated, Runs
<1>11. ASSUME NEW w \in Workers, StatementFails(w) PROVE TypeOK'
  BY <1>11 DEF StatementFails
<1>12. ASSUME NEW w \in Workers, Discard(w)
       PROVE  /\ boot' \in [Workers -> BOOLEAN]
              /\ made' \in [Workers -> SUBSET Versions] /\ noted' \in [Workers -> SUBSET Versions]
              /\ put' \in [Workers -> [Keys -> Plans \union {NoPlan, Untouched}]]
              /\ tx' \in [Workers -> {"none", "open", "sent"}]
  BY <1>12, UntriedType DEF Discard
<1>20. ASSUME NEW w \in Workers, CommitOk(w) PROVE TypeOK'
  <2>1. Commits(w) /\ made[w] = noted[w]
    BY <1>20 DEF CommitOk, MInv, Writes, WriteOk
  <2>2. Discard(w)
    BY <2>1 DEF Commits
  <2>. QED  BY <1>20, <1>12, <2>1, <2>2, CommitTypes DEF CommitOk
<1>21. ASSUME NEW w \in Workers, ServerCommits(w) PROVE TypeOK'
  <2>1. Commits(w) /\ made[w] = noted[w]
    BY <1>21 DEF ServerCommits, MInv, Writes, WriteOk
  <2>2. Discard(w)
    BY <2>1 DEF Commits
  <2>. QED  BY <1>21, <1>12, <2>1, <2>2, CommitTypes DEF ServerCommits
<1>13. ASSUME NEW w \in Workers, CommitRefused(w) PROVE TypeOK'
  BY <1>13, <1>12 DEF CommitRefused
<1>14. ASSUME NEW w \in Workers, CommitUnanswered(w) PROVE TypeOK'
  BY <1>14 DEF CommitUnanswered
<1>15. ASSUME NEW w \in Workers, RollbackOk(w) PROVE TypeOK'
  BY <1>15, <1>12 DEF RollbackOk
<1>16. ASSUME NEW w \in Workers, RollbackFails(w) PROVE TypeOK'
  BY <1>16 DEF RollbackFails
<1>17. ASSUME NEW w \in Workers, Terminate(w) PROVE TypeOK'
  BY <1>17, <1>12 DEF Terminate
<1>18. ASSUME NEW w \in Workers, Return(w) PROVE TypeOK'
  BY <1>18 DEF Return
<1>19. ASSUME NEW k \in Keys, Expire(k) PROVE TypeOK'
  BY <1>19 DEF Expire
<1>22. CASE UNCHANGED vars
  BY <1>22 DEF vars
<1>. QED
  BY <1>1, <1>2, <1>3, <1>4, <1>5, <1>6, <1>7, <1>8, <1>9, <1>10, <1>11, <1>13, <1>14, <1>15,
     <1>16, <1>17, <1>18, <1>19, <1>20, <1>21, <1>22 DEF Next, Step

-----------------------------------------------------------------------------
LEMMA StepReplies ==
  ASSUME MInv, [Next]_vars
  PROVE  Replies'
<1>0. TypeOK
  BY DEF MInv
<1> USE <1>0 DEF MInv, Replies, Starting, Body, TypeOK, dbVars, schemaVars, jobVars, writeVars
<1>1. ASSUME NEW w \in Workers, NEW j \in Jobs, Call(w, j) PROVE Replies'
  BY <1>1 DEF Call
<1>2. ASSUME NEW w \in Workers, Begin(w) PROVE Replies'
  BY <1>2 DEF Begin
<1>3. ASSUME NEW w \in Workers, Exists(w) PROVE Replies'
  BY <1>3 DEF Exists, Runs
<1>4. ASSUME NEW w \in Workers, Boot(w) PROVE Replies'
  BY <1>4 DEF Boot, Runs
<1>5. ASSUME NEW w \in Workers, ReadLedger(w) PROVE Replies'
  BY <1>5 DEF ReadLedger, Runs
<1>6. ASSUME NEW w \in Workers, NEW v \in Versions, Create(w, v) PROVE Replies'
  BY <1>6 DEF Create, Runs
<1>7. ASSUME NEW w \in Workers, NEW v \in Versions, Record(w, v) PROVE Replies'
  BY <1>7 DEF Record, Runs
<1>8. ASSUME NEW w \in Workers, Save(w) PROVE Replies'
  BY <1>8 DEF Save, Stated, Runs
<1>9. ASSUME NEW w \in Workers, Lookup(w) PROVE Replies'
  BY <1>9 DEF Lookup, Stated, Runs
<1>10. ASSUME NEW w \in Workers, Delete(w) PROVE Replies'
  BY <1>10 DEF Delete, Stated, Runs
<1>11. ASSUME NEW w \in Workers, StatementFails(w) PROVE Replies'
  BY <1>11 DEF StatementFails, InBody
<1>12. ASSUME NEW w \in Workers, CommitOk(w) PROVE Replies'
  BY <1>12 DEF CommitOk, Commits, Discard
<1>13. ASSUME NEW w \in Workers, CommitRefused(w) PROVE Replies'
  BY <1>13 DEF CommitRefused, Discard
<1>14. ASSUME NEW w \in Workers, CommitUnanswered(w) PROVE Replies'
  BY <1>14 DEF CommitUnanswered
<1>15. ASSUME NEW w \in Workers, ServerCommits(w) PROVE Replies'
  BY <1>15 DEF ServerCommits, Commits, Discard
<1>16. ASSUME NEW w \in Workers, RollbackOk(w) PROVE Replies'
  BY <1>16 DEF RollbackOk, Discard
<1>17. ASSUME NEW w \in Workers, RollbackFails(w) PROVE Replies'
  BY <1>17 DEF RollbackFails
<1>18. ASSUME NEW w \in Workers, Terminate(w) PROVE Replies'
  BY <1>18 DEF Terminate, Discard
<1>19. ASSUME NEW w \in Workers, Return(w) PROVE Replies'
  BY <1>19 DEF Return
<1>20. ASSUME NEW k \in Keys, Expire(k) PROVE Replies'
  BY <1>20 DEF Expire
<1>21. CASE UNCHANGED vars
  BY <1>21 DEF vars
<1>. QED
  BY <1>1, <1>2, <1>3, <1>4, <1>5, <1>6, <1>7, <1>8, <1>9, <1>10, <1>11,
     <1>12, <1>13, <1>14, <1>15, <1>16, <1>17, <1>18, <1>19, <1>20, <1>21
  DEF Next, Step

-----------------------------------------------------------------------------
\* A step of one process leaves another one as it is.
Kept(o) ==
  /\ pc'[o] = pc[o] /\ job'[o] = job[o] /\ todo'[o] = todo[o]
  /\ reply'[o] = reply[o] /\ found'[o] = found[o] /\ tx'[o] = tx[o]
  /\ made'[o] = made[o] /\ noted'[o] = noted[o] /\ put'[o] = put[o]

LEMMA Frame ==
  ASSUME TypeOK, NEW w \in Workers, Step(w), NEW o \in Others(w)
  PROVE  Kept(o)
<1> USE DEF TypeOK, Kept, Others, dbVars, schemaVars, jobVars, writeVars
<1>1. ASSUME NEW j \in Jobs, Call(w, j) PROVE Kept(o)
  BY <1>1 DEF Call
<1>2. CASE Begin(w)
  BY <1>2 DEF Begin
<1>3. CASE Exists(w) \/ Boot(w) \/ ReadLedger(w)
  BY <1>3 DEF Exists, Boot, ReadLedger, Runs
<1>4. ASSUME NEW v \in Versions, Create(w, v) \/ Record(w, v) PROVE Kept(o)
  BY <1>4 DEF Create, Record, Runs
<1>5. CASE Save(w) \/ Lookup(w) \/ Delete(w)
  BY <1>5 DEF Save, Lookup, Delete, Stated, Runs
<1>6. CASE StatementFails(w)
  BY <1>6 DEF StatementFails
<1>7. CASE CommitOk(w) \/ ServerCommits(w)
  BY <1>7 DEF CommitOk, ServerCommits, Commits, Discard
<1>8. CASE CommitRefused(w) \/ CommitUnanswered(w)
  BY <1>8 DEF CommitRefused, CommitUnanswered, Discard
<1>9. CASE RollbackOk(w) \/ RollbackFails(w) \/ Terminate(w)
  BY <1>9 DEF RollbackOk, RollbackFails, Terminate, Discard
<1>10. CASE Return(w)
  BY <1>10 DEF Return
<1>. QED
  BY <1>1, <1>2, <1>3, <1>4, <1>5, <1>6, <1>7, <1>8, <1>9, <1>10 DEF Step

\* The schema changes only with a COMMIT.
SchemaStep(w) ==
  \/ UNCHANGED schemaVars
  \/ Commits(w) /\ made[w] = noted[w]

LEMMA SchemaSteps ==
  ASSUME MInv, NEW w \in Workers, Step(w)
  PROVE  SchemaStep(w)
<1> USE DEF SchemaStep, dbVars, schemaVars, jobVars, writeVars
<1>1. CASE CommitOk(w) \/ ServerCommits(w)
  BY <1>1 DEF CommitOk, ServerCommits, MInv, Writes, WriteOk
<1>2. CASE CommitRefused(w) \/ CommitUnanswered(w) \/ RollbackOk(w) \/ RollbackFails(w)
           \/ Terminate(w) \/ Return(w) \/ StatementFails(w) \/ Begin(w)
  BY <1>2 DEF CommitRefused, CommitUnanswered, RollbackOk, RollbackFails, Terminate, Return,
              StatementFails, Begin
<1>3. CASE Exists(w) \/ Boot(w) \/ ReadLedger(w) \/ Save(w) \/ Lookup(w) \/ Delete(w)
  BY <1>3 DEF Exists, Boot, ReadLedger, Save, Lookup, Delete, Stated, Runs
<1>4. ASSUME NEW v \in Versions, Create(w, v) \/ Record(w, v) PROVE SchemaStep(w)
  BY <1>4 DEF Create, Record, Runs
<1>5. ASSUME NEW j \in Jobs, Call(w, j) PROVE SchemaStep(w)
  BY <1>5 DEF Call
<1>. QED  BY <1>1, <1>2, <1>3, <1>4, <1>5 DEF Step

\* What is recorded stays as it is, and a COMMIT changes only what was missing.
LEMMA SchemaGrows ==
  ASSUME MInv, NEW w \in Workers, Step(w), NEW v \in Versions
  PROVE  /\ ledger[v] # NoDdl => ledger'[v] = ledger[v]
         /\ tables[v] # NoDdl => tables'[v] = tables[v]
         /\ v \notin made[w] => tables'[v] = tables[v]
         /\ ledger' = tables'
<1>1. CASE UNCHANGED schemaVars
  BY <1>1 DEF schemaVars, MInv, LedgerMatchesTables
<1>2. CASE Commits(w) /\ made[w] = noted[w]
  <2>1. ledger' = tables'
    BY <1>2, CommitTypes
  <2>. QED  BY <1>2, <2>1 DEF Commits, MInv, Writes, WriteOk, LedgerMatchesTables
<1>. QED  BY <1>1, <1>2, SchemaSteps DEF SchemaStep

\* What a process makes is missing, and nobody else is making it.
LEMMA MadeSteps ==
  ASSUME MInv, NEW w \in Workers, Step(w), NEW v \in made'[w], v \notin made[w]
  PROVE  tables[v] = NoDdl /\ tables' = tables /\ \A o \in Others(w) : v \notin made[o]
<1> USE DEF MInv, TypeOK, dbVars, schemaVars, jobVars, writeVars
<1>1. CASE \E u \in Versions : Create(w, u)
  BY <1>1 DEF Create, Runs
<1>2. CASE made'[w] \subseteq made[w]
  BY <1>2
<1>3. CASE Exists(w) \/ Boot(w) \/ ReadLedger(w) \/ Save(w) \/ Lookup(w) \/ Delete(w)
           \/ \E u \in Versions : Record(w, u)
  BY <1>2, <1>3 DEF Exists, Boot, ReadLedger, Save, Lookup, Delete, Record, Stated, Runs
<1>4. CASE \/ CommitOk(w) \/ ServerCommits(w) \/ CommitRefused(w) \/ CommitUnanswered(w)
           \/ RollbackOk(w) \/ RollbackFails(w) \/ Terminate(w) \/ Return(w)
           \/ StatementFails(w) \/ Begin(w) \/ \E j \in Jobs : Call(w, j)
  BY <1>2, <1>4 DEF CommitOk, ServerCommits, CommitRefused, CommitUnanswered, RollbackOk,
     RollbackFails, Terminate, Return, StatementFails, Begin, Call, Commits, Discard
<1>. QED  BY <1>1, <1>3, <1>4 DEF Step

LEMMA OthersWrites ==
  ASSUME MInv, NEW w \in Workers, Step(w), NEW o \in Others(w)
  PROVE  WriteOk(o)'
<1>1. Kept(o) /\ o \in Workers /\ WriteOk(o) /\ WriteOk(w) /\ made[o] \subseteq Versions
  BY Frame DEF MInv, Writes, Others, TypeOK
<1>2. ASSUME NEW v \in made[o] PROVE tables'[v] = NoDdl /\ v \notin made'[w]
  <2>1. v \notin made[w]
    BY <1>1 DEF WriteOk, Others
  <2>. QED  BY <1>1, <2>1, SchemaGrows, MadeSteps DEF WriteOk
<1>3. ASSUME NEW q \in Others(o), NEW v \in made[o] PROVE v \notin made'[q]
  <2>1. CASE q = w
    BY <1>2, <2>1
  <2>2. CASE q # w
    <3>1. q \in Others(w) /\ v \notin made[q]
      BY <1>1, <2>2 DEF Others, WriteOk
    <3>2. Kept(q)
      BY <3>1, Frame DEF MInv
    <3>. QED  BY <3>1, <3>2 DEF Kept
  <2>. QED  BY <2>1, <2>2
<1>4. \A v \in Versions : tables[v] # NoDdl => tables'[v] # NoDdl
  BY SchemaGrows
<1>. QED  BY <1>1, <1>2, <1>3, <1>4 DEF WriteOk, Kept, NextPending

LEMMA OwnWrites ==
  ASSUME MInv, NEW w \in Workers, Step(w)
  PROVE  WriteOk(w)'
<1>0. TypeOK /\ WriteOk(w) /\ Replies
  BY DEF MInv, Writes
<1> USE <1>0 DEF TypeOK, WriteOk, NextPending, dbVars, schemaVars, jobVars, writeVars
<1>1. \A o \in Others(w) : made'[o] = made[o]
  BY Frame DEF Kept
<1>2. ASSUME NEW v \in made'[w], tables'[v] = tables[v] \/ v \notin made[w]
      PROVE  tables'[v] = NoDdl /\ \A o \in Others(w) : v \notin made'[o]
  BY <1>1, <1>2, MadeSteps
<1>3. ASSUME NEW j \in Jobs, Call(w, j) PROVE WriteOk(w)'
  BY <1>2, <1>3 DEF Call, Replies, Starting
<1>4. CASE Begin(w)
  BY <1>2, <1>4 DEF Begin, Replies, Starting
<1>5. CASE Exists(w)
  BY <1>2, <1>5 DEF Exists, Runs
<1>6. CASE Boot(w)
  BY <1>2, <1>6 DEF Boot, Runs
<1>7. CASE ReadLedger(w)
  BY <1>2, <1>7 DEF ReadLedger, Runs
<1>8. ASSUME NEW v \in Versions, Create(w, v) PROVE WriteOk(w)'
  <2>1. \A u \in Versions : NextPending(w, u) => u = v
    BY <1>8, VersionsAssumption DEF Create
  <2>. QED  BY <1>2, <1>8, <2>1 DEF Create, Runs
<1>9. ASSUME NEW v \in Versions, Record(w, v) PROVE WriteOk(w)'
  <2>1. made[w] = noted[w] \union {v}
    BY <1>9 DEF Record, Runs, MInv, LedgerMatchesTables
  <2>. QED  BY <1>2, <1>9, <2>1 DEF Record, Runs
<1>10. CASE Save(w) \/ Lookup(w) \/ Delete(w)
  BY <1>2, <1>10 DEF Save, Lookup, Delete, Stated, Runs
<1>11. CASE StatementFails(w)
  BY <1>2, <1>11 DEF StatementFails, Replies, Starting
<1>12. CASE CommitOk(w) \/ ServerCommits(w) \/ CommitRefused(w) \/ RollbackOk(w) \/ Terminate(w)
  <2>1. Discard(w)
    BY <1>12 DEF CommitOk, ServerCommits, CommitRefused, RollbackOk, Terminate, Commits
  <2>2. tx'[w] = "none" /\ made'[w] = {} /\ noted'[w] = {} /\ put'[w] = Untried
    BY <2>1 DEF Discard
  <2>3. job' = job /\ pc'[w] \in {pc[w], "done", "rollback"}
    BY <1>12 DEF CommitOk, ServerCommits, CommitRefused, RollbackOk, Terminate
  <2>. QED  BY <2>2, <2>3
<1>13. CASE CommitUnanswered(w)
  BY <1>2, <1>13 DEF CommitUnanswered
<1>14. CASE RollbackFails(w)
  BY <1>2, <1>14 DEF RollbackFails
<1>15. CASE Return(w)
  BY <1>2, <1>15 DEF Return
<1>. QED
  BY <1>3, <1>4, <1>5, <1>6, <1>7, <1>8, <1>9, <1>10, <1>11, <1>12, <1>13, <1>14, <1>15 DEF Step

LEMMA OthersProgress ==
  ASSUME MInv, NEW w \in Workers, Step(w), NEW o \in Others(w)
  PROVE  ProgressOk(o)'
<1>1. Kept(o) /\ ProgressOk(o)
  BY Frame DEF MInv, Progress, Others
<1>2. \A v \in Known(o) : v \in Versions /\ job[o].build[v] # NoDdl
  BY DEF Known
<1>3. \A v \in Known(o) : ledger[v] = job[o].build[v] => ledger'[v] = ledger[v]
  BY <1>2, SchemaGrows
<1>. QED  BY <1>1, <1>2, <1>3 DEF ProgressOk, Kept, Known

LEMMA OwnProgress ==
  ASSUME MInv, NEW w \in Workers, Step(w)
  PROVE  ProgressOk(w)'
<1>0. TypeOK /\ ProgressOk(w) /\ Replies
  BY DEF MInv, Progress
<1> USE <1>0 DEF TypeOK, ProgressOk, Known, dbVars, schemaVars, jobVars, writeVars
<1>1. ASSUME NEW j \in Jobs, Call(w, j) PROVE ProgressOk(w)'
  BY <1>1 DEF Call, Replies, Starting
<1>2. CASE Begin(w)
  BY <1>2 DEF Begin
<1>3. CASE Exists(w)
  BY <1>3 DEF Exists, Runs
<1>4. CASE Boot(w)
  BY <1>4 DEF Boot, Runs
<1>5. CASE ReadLedger(w)
  BY <1>5 DEF ReadLedger, Reconciles, Runs
<1>6. ASSUME NEW v \in Versions, Create(w, v) PROVE ProgressOk(w)'
  BY <1>6 DEF Create, Runs
<1>7. ASSUME NEW v \in Versions, Record(w, v) PROVE ProgressOk(w)'
  BY <1>7 DEF Record, Runs
<1>8. CASE Save(w) \/ Lookup(w) \/ Delete(w)
  BY <1>8, <1>0 DEF Save, Lookup, Delete, Stated, Runs
<1>9. CASE StatementFails(w)
  BY <1>9 DEF StatementFails
<1>10. CASE CommitOk(w)
  BY <1>10 DEF CommitOk, Commits, Discard
<1>11. CASE ServerCommits(w)
  BY <1>11 DEF ServerCommits, Commits, Discard, Replies
<1>12. CASE CommitRefused(w) \/ CommitUnanswered(w)
  BY <1>12 DEF CommitRefused, CommitUnanswered, Discard
<1>13. CASE RollbackOk(w) \/ RollbackFails(w) \/ Terminate(w)
  BY <1>13 DEF RollbackOk, RollbackFails, Terminate, Discard
<1>14. CASE Return(w)
  BY <1>14 DEF Return
<1>. QED
  BY <1>1, <1>2, <1>3, <1>4, <1>5, <1>6, <1>7, <1>8, <1>9, <1>10, <1>11, <1>12, <1>13, <1>14
  DEF Step

LEMMA StepHandsOut ==
  ASSUME MInv, NEW w \in Workers, Step(w)
  PROVE  HandsOutApproved'
<1>1. ASSUME NEW o \in Others(w)
      PROVE  job'[o].kind = "lookup" /\ reply'[o] = "ok" /\ found'[o] # NoPlan
               => found'[o] \in job'[o].policy
  BY Frame DEF MInv, HandsOutApproved, Kept, Others
<1>2. job'[w].kind = "lookup" /\ reply'[w] = "ok" /\ found'[w] # NoPlan
        => found'[w] \in job'[w].policy
  <2>0. /\ TypeOK /\ Replies
        /\ job[w].kind = "lookup" /\ reply[w] = "ok" /\ found[w] # NoPlan
             => found[w] \in job[w].policy
    BY DEF MInv, HandsOutApproved
  <2> USE <2>0 DEF TypeOK, dbVars, schemaVars, jobVars, writeVars
  <2>1. CASE CommitOk(w)
    BY <2>1 DEF CommitOk
  <2>2. CASE \/ RollbackOk(w) \/ RollbackFails(w) \/ Terminate(w) \/ ServerCommits(w) \/ Begin(w)
             \/ CommitRefused(w) \/ CommitUnanswered(w) \/ Return(w) \/ StatementFails(w)
    BY <2>2 DEF RollbackOk, RollbackFails, Terminate, ServerCommits, Begin, CommitRefused,
       CommitUnanswered, Return, StatementFails
  <2>3. CASE Exists(w) \/ Boot(w) \/ ReadLedger(w) \/ \E v \in Versions : Create(w, v) \/ Record(w, v)
    BY <2>3 DEF Exists, Boot, ReadLedger, Create, Record, Runs
  <2>4. CASE Save(w) \/ Lookup(w) \/ Delete(w)
    BY <2>4 DEF Save, Lookup, Delete, Stated, Runs, Replies, Body
  <2>5. CASE \E j \in Jobs : Call(w, j)
    BY <2>5 DEF Call, Replies, Starting
  <2>. QED  BY <2>1, <2>2, <2>3, <2>4, <2>5 DEF Step
<1>. QED  BY <1>1, <1>2 DEF HandsOutApproved, Others

\* The invariant is inductive.
LEMMA StepInv == MInv /\ [Next]_vars => MInv'
<1> SUFFICES ASSUME MInv, [Next]_vars PROVE MInv'
  OBVIOUS
<1>1. ASSUME NEW w \in Workers, Step(w) PROVE MInv'
  <2>1. TypeOK' /\ Replies'
    BY StepTypes, StepReplies
  <2>2. Writes'
    BY <1>1, OwnWrites, OthersWrites DEF Writes, Others
  <2>3. Progress'
    BY <1>1, OwnProgress, OthersProgress DEF Progress, Others
  <2>4. LedgerMatchesTables'
    <3>1. CASE UNCHANGED schemaVars
      BY <3>1 DEF schemaVars, MInv, LedgerMatchesTables
    <3>2. CASE Commits(w) /\ made[w] = noted[w]
      BY <3>2, CommitTypes DEF LedgerMatchesTables
    <3>. QED  BY <1>1, <3>1, <3>2, SchemaSteps DEF SchemaStep
  <2>5. HandsOutApproved'
    BY <1>1, StepHandsOut
  <2>. QED  BY <2>1, <2>2, <2>3, <2>4, <2>5 DEF MInv
<1>2. ASSUME NEW k \in Keys, Expire(k) PROVE MInv'
  <2>1. TypeOK' /\ Replies'
    BY StepTypes, StepReplies
  <2>2. Writes' /\ Progress' /\ LedgerMatchesTables' /\ HandsOutApproved'
    BY <1>2 DEF Expire, MInv, Writes, WriteOk, Progress, ProgressOk, Known, NextPending,
       LedgerMatchesTables, HandsOutApproved, schemaVars, jobVars, writeVars
  <2>. QED  BY <2>1, <2>2 DEF MInv
<1>3. CASE UNCHANGED vars
  BY <1>3, StepTypes, StepReplies DEF vars, dbVars, schemaVars, jobVars, writeVars, MInv, Writes, WriteOk,
     Progress, ProgressOk, Known, NextPending, LedgerMatchesTables, HandsOutApproved
<1>. QED  BY <1>1, <1>2, <1>3 DEF Next

LEMMA Invariant == Spec => []MInv
<1>. QED  BY InitInv, StepInv, PTL DEF Spec

-----------------------------------------------------------------------------
\* Every variable of the store keeps its type.
THEOREM TypeCorrect == Spec => []TypeOK
BY Invariant, PTL DEF MInv

\* The ledger of the migrations names exactly the tables that exist, with the
\* DDL they were made from, however many builds migrate at once and whatever
\* fails: runMigrations records a version in the transaction that creates it.
THEOREM LedgerIsTrue == Spec => []LedgerMatchesTables
BY Invariant, PTL DEF MInv

\* A process whose runMigrations returned finds every migration of its build
\* recorded with its build's DDL, from then on.
THEOREM Migrated == Spec => []MigratedIsMigrated
<1>1. MInv => MigratedIsMigrated
  BY DEF MInv, Progress, ProgressOk, MigratedIsMigrated
<1>. QED  BY <1>1, Invariant, PTL

\* inWriteTransaction reports success only of what is committed; an exception
\* out of anything but COMMIT means that nothing is.
THEOREM RepliesAreTrue == Spec => []TruthfulReplies
<1>1. MInv => TruthfulReplies
  BY DEF MInv, Replies, TruthfulReplies
<1>. QED  BY <1>1, Invariant, PTL

\* A lookup hands out only what the policy of its own process approves.
THEOREM RestoredIsApproved == Spec => []HandsOutApproved
BY Invariant, PTL DEF MInv

-----------------------------------------------------------------------------
(***************************************************************************)
(* Who may delete a row.  A row another transaction has written is not     *)
(* touched, so what a purge has found expired stays expired until the      *)
(* purge ends: no save can renew it in between.                            *)
(***************************************************************************)
MayDelete(w, k) ==
  \/ job[w].kind = "invalidateAll"
  \/ job[w].kind = "invalidate" /\ job[w].key = k
  \/ job[w].kind = "purgeExpired" /\ k \in stale[w]

RowsOk(w) ==
  /\ pc[w] = "statement" => put[w] = Untried
  /\ stale[w] \subseteq expired
  /\ \A k \in Keys :
       /\ put[w][k] = NoPlan => MayDelete(w, k)
       /\ put[w][k] # Untouched => \A o \in Others(w) : put[o][k] = Untouched
RowInv == \A w \in Workers : RowsOk(w)

\* Nobody wants anything new of a row, and what has expired stays so.
LEMMA SameRows ==
  ASSUME MInv, RowInv, UNCHANGED put, stale' = stale, expired \subseteq expired',
         \A w \in Workers : /\ put[w] = Untried \/ job'[w] = job[w]
                            /\ pc'[w] = "statement" => put[w] = Untried
  PROVE  RowInv'
<1>1. \A k \in Keys : Untried[k] = Untouched /\ Untouched # NoPlan
  BY PlansAssumption DEF Untried
<1>. QED  BY <1>1 DEF RowInv, RowsOk, MayDelete, Others

\* A statement locks the rows it writes, or waits.
LEMMA LocksRows ==
  ASSUME MInv, RowInv, NEW w \in Workers, NEW p,
         put' = [put EXCEPT ![w] = p],
         pc'[w] # "statement", \A o \in Others(w) : pc'[o] = pc[o],
         UNCHANGED <<job, stale, expired>>,
         \A k \in Keys : /\ p[k] = NoPlan => MayDelete(w, k)
                         /\ p[k] # Untouched => ~HeldByOther(w, k)
  PROVE  RowInv'
<1>1. put'[w] = p /\ \A o \in Others(w) : put'[o] = put[o]
  BY DEF MInv, TypeOK, Others
<1>2. \A k \in Keys : p[k] # Untouched => \A o \in Others(w) : put[o][k] = Untouched
  BY DEF HeldByOther
<1>3. RowsOk(w)'
  BY <1>1, <1>2 DEF RowInv, RowsOk, MayDelete
<1>4. ASSUME NEW o \in Others(w) PROVE RowsOk(o)'
  <2>1. o \in Workers /\ RowsOk(o) /\ pc'[o] = pc[o] /\ put'[o] = put[o]
    BY <1>1, <1>4 DEF RowInv, Others
  <2>2. ASSUME NEW k \in Keys, put[o][k] # Untouched, NEW q \in Others(o) PROVE put'[q][k] = Untouched
    <3>1. CASE q = w
      BY <1>1, <1>2, <2>2, <3>1
    <3>2. CASE q # w
      BY <1>1, <2>1, <2>2, <3>2 DEF RowsOk, Others
    <3>. QED  BY <3>1, <3>2
  <2>. QED  BY <2>1, <2>2 DEF RowsOk, MayDelete
<1>. QED  BY <1>3, <1>4 DEF RowInv, Others

\* The end of a transaction unlocks its rows, of which some may be renewed.
LEMMA UnlocksRows ==
  ASSUME MInv, RowInv, NEW w \in Workers, Discard(w), UNCHANGED job,
         pc'[w] # "statement", \A o \in Others(w) : pc'[o] = pc[o],
         NEW S \in SUBSET {k \in Keys : put[w][k] # Untouched},
         expired' = expired \ S,
         \A o \in Workers : stale'[o] = stale[o] \ S
  PROVE  RowInv'
<1>1. put'[w] = Untried /\ \A o \in Others(w) : put'[o] = put[o]
  BY DEF MInv, TypeOK, Others, Discard
<1>2. \A k \in Keys : Untried[k] = Untouched /\ Untouched # NoPlan
  BY PlansAssumption DEF Untried
<1>3. RowsOk(w)'
  BY <1>1, <1>2 DEF RowInv, RowsOk
<1>4. ASSUME NEW o \in Others(w) PROVE RowsOk(o)'
  <2>1. o \in Workers /\ RowsOk(o) /\ pc'[o] = pc[o] /\ put'[o] = put[o] /\ w \in Others(o)
    BY <1>1, <1>4 DEF RowInv, Others
  <2>2. \A k \in Keys : put[o][k] # Untouched => ~(k \in S)
    BY <2>1 DEF RowsOk
  <2>3. \A k \in Keys : put[o][k] = NoPlan => MayDelete(o, k)'
    BY <1>2, <2>1, <2>2 DEF RowsOk, MayDelete
  <2>4. \A k \in Keys, q \in Others(o) : put[o][k] # Untouched => put'[q][k] = Untouched
    BY <1>1, <1>2, <2>1 DEF RowsOk, Others
  <2>. QED  BY <2>1, <2>3, <2>4 DEF RowsOk
<1>. QED  BY <1>3, <1>4 DEF RowInv, Others

LEMMA StatedRows ==
  ASSUME MInv, RowInv, NEW w \in Workers, Save(w) \/ Lookup(w) \/ Delete(w)
  PROVE  RowInv'
<1>1. /\ pc[w] = "statement" /\ put[w] = Untried /\ pc'[w] = "commit"
      /\ \A o \in Others(w) : pc'[o] = pc[o]
      /\ UNCHANGED <<job, stale, expired>>
      /\ job[w] \in Jobs \union {Idle}
  BY DEF Save, Lookup, Delete, Stated, Runs, dbVars, MInv, TypeOK, RowInv, RowsOk, Others
<1>2. \A k \in Keys : Untried[k] = Untouched /\ Untouched # NoPlan
  BY PlansAssumption DEF Untried
<1>3. CASE Save(w)
  <2> DEFINE p == [Untried EXCEPT ![job[w].key] = job[w].plan]
  <2>1. job[w].key \in Keys /\ job[w].plan \in Plans
    BY <1>1, <1>3, JobFields DEF Save
  <2>2. put' = [put EXCEPT ![w] = p]
    BY <1>1, <1>3 DEF Save
  <2>3. \A k \in Keys : p[k] = IF k = job[w].key THEN job[w].plan ELSE Untouched
    BY DEF Untried
  <2>4. ~HeldByOther(w, job[w].key) /\ job[w].plan # NoPlan
    BY <1>3, <2>1, PlansAssumption DEF Save
  <2> HIDE DEF p
  <2>5. \A k \in Keys : /\ p[k] = NoPlan => MayDelete(w, k)
                        /\ p[k] # Untouched => ~HeldByOther(w, k)
    BY <1>2, <2>3, <2>4
  <2>. QED  BY <1>1, <2>2, <2>5, LocksRows
<1>4. CASE Lookup(w)
  <2> DEFINE p == [k \in Keys |-> IF TouchOnHit /\ k \in Selected(w) THEN rows[k] ELSE Untouched]
  <2>1. put' = [put EXCEPT ![w] = p] /\ (TouchOnHit => \A k \in Selected(w) : ~HeldByOther(w, k))
    BY <1>4 DEF Lookup
  <2>2. \A k \in Keys : p[k] = IF TouchOnHit /\ k \in Selected(w) THEN rows[k] ELSE Untouched
    OBVIOUS
  <2>3. \A k \in Selected(w) : rows[k] # NoPlan
    BY DEF Selected, Present
  <2> HIDE DEF p
  <2>4. \A k \in Keys : /\ p[k] = NoPlan => MayDelete(w, k)
                        /\ p[k] # Untouched => ~HeldByOther(w, k)
    BY <1>2, <2>1, <2>2, <2>3
  <2>. QED  BY <1>1, <2>1, <2>4, LocksRows
<1>5. CASE Delete(w)
  <2> DEFINE p == [k \in Keys |-> IF k \in Selected(w) THEN NoPlan ELSE Untouched]
  <2>1. put' = [put EXCEPT ![w] = p] /\ \A k \in Selected(w) : ~HeldByOther(w, k)
    BY <1>5 DEF Delete
  <2>2. \A k \in Keys : p[k] = IF k \in Selected(w) THEN NoPlan ELSE Untouched
    OBVIOUS
  <2>3. \A k \in Selected(w) : MayDelete(w, k)
    BY <1>5 DEF Delete, Selected, MayDelete
  <2> HIDE DEF p
  <2>4. \A k \in Keys : /\ p[k] = NoPlan => MayDelete(w, k)
                        /\ p[k] # Untouched => ~HeldByOther(w, k)
    BY <1>2, <2>1, <2>2, <2>3
  <2>. QED  BY <1>1, <2>1, <2>4, LocksRows
<1>. QED  BY <1>3, <1>4, <1>5

LEMMA StepRows ==
  ASSUME MInv, RowInv, NEW w \in Workers, Step(w)
  PROVE  RowInv'
<1> USE DEF dbVars, schemaVars, jobVars, writeVars
<1>0. /\ TypeOK
      /\ \A o \in Workers : tx[o] = "none" => put[o] = Untried
      /\ \A o \in Workers : pc[o] \in Starting => tx[o] = "none"
      /\ \A o \in Workers : pc[o] = "statement" => put[o] = Untried
      /\ \A o \in Others(w) : o \in Workers /\ o # w
  BY DEF MInv, Replies, Writes, WriteOk, RowInv, RowsOk, Others
<1>1. CASE \E j \in Jobs : Call(w, j)
  BY <1>0, <1>1, SameRows DEF Call, Starting, TypeOK
<1>2. CASE Begin(w)
  <2>1. /\ put[w] = Untried /\ UNCHANGED <<put, job, expired>>
        /\ stale' = [stale EXCEPT ![w] = expired]
        /\ \A o \in Others(w) : pc'[o] = pc[o]
    BY <1>0, <1>2 DEF Begin, Starting, TypeOK
  <2>2. stale'[w] = expired /\ \A o \in Others(w) : stale'[o] = stale[o]
    BY <1>0, <2>1 DEF TypeOK
  <2>3. \A k \in Keys : Untried[k] = Untouched /\ Untouched # NoPlan
    BY PlansAssumption DEF Untried
  <2>. QED  BY <1>0, <2>1, <2>2, <2>3 DEF RowInv, RowsOk, MayDelete, Others
<1>3. CASE \/ Exists(w) \/ Boot(w) \/ ReadLedger(w) \/ StatementFails(w)
           \/ \E v \in Versions : Create(w, v) \/ Record(w, v)
           \/ CommitUnanswered(w) \/ RollbackFails(w)
  <2>1. /\ UNCHANGED <<put, job, stale, expired>>
        /\ \A o \in Workers : pc'[o] = "statement" => pc[o] = "statement"
    BY <1>0, <1>3 DEF Exists, Boot, ReadLedger, StatementFails, Create, Record, CommitUnanswered, RollbackFails,
       Runs, TypeOK
  <2>. QED  BY <1>0, <2>1, SameRows
<1>4. CASE Save(w) \/ Lookup(w) \/ Delete(w)
  BY <1>4, StatedRows
<1>5. CASE CommitOk(w) \/ ServerCommits(w)
  <2>1. Commits(w) /\ UNCHANGED job
    BY <1>5 DEF CommitOk, ServerCommits
  <2>2. Renewed(w) \in SUBSET {k \in Keys : put[w][k] # Untouched}
    BY DEF Renewed
  <2>3. /\ Discard(w) /\ expired' = expired \ Renewed(w)
        /\ \A o \in Workers : stale'[o] = stale[o] \ Renewed(w)
    BY <2>1 DEF Commits
  <2>4. pc'[w] # "statement" /\ \A o \in Others(w) : pc'[o] = pc[o]
    <3>1. CASE CommitOk(w)
      BY <1>0, <3>1 DEF CommitOk, TypeOK
    <3>2. CASE ServerCommits(w)
      <4>1. pc' = pc /\ tx[w] = "sent"
        BY <3>2 DEF ServerCommits
      <4>2. reply[w] = "lost"
        BY <4>1 DEF MInv, Replies
      <4>3. pc[w] # "statement"
        BY <4>2 DEF MInv, Replies, Body
      <4>. QED  BY <4>1, <4>3
    <3>. QED  BY <1>5, <3>1, <3>2
  <2>. QED  BY <2>1, <2>2, <2>3, <2>4, UnlocksRows
<1>6. CASE CommitRefused(w) \/ RollbackOk(w)
  <2>1. /\ Discard(w) /\ UNCHANGED <<job, stale, expired>>
        /\ pc'[w] # "statement" /\ \A o \in Others(w) : pc'[o] = pc[o]
    BY <1>0, <1>6 DEF CommitRefused, RollbackOk, TypeOK
  <2>2. {} \in SUBSET {k \in Keys : put[w][k] # Untouched}
    OBVIOUS
  <2>3. expired' = expired \ {} /\ \A o \in Workers : stale'[o] = stale[o] \ {}
    BY <2>1
  <2>. QED  BY <2>1, <2>2, <2>3, UnlocksRows
<1>7. CASE Terminate(w)
  <2>1. Discard(w) /\ UNCHANGED <<job, stale, expired, pc>>
    BY <1>7 DEF Terminate
  <2>2. put'[w] = Untried /\ \A o \in Others(w) : put'[o] = put[o]
    BY <1>0, <2>1 DEF Discard, TypeOK
  <2>3. \A k \in Keys : Untried[k] = Untouched /\ Untouched # NoPlan
    BY PlansAssumption DEF Untried
  <2>. QED  BY <1>0, <2>1, <2>2, <2>3 DEF RowInv, RowsOk, MayDelete, Others
<1>8. CASE Return(w)
  <2>1. /\ put[w] = Untried /\ UNCHANGED <<put, expired>>
        /\ job' = [job EXCEPT ![w] = Idle]
        /\ stale' = [stale EXCEPT ![w] = {}]
        /\ pc' = [pc EXCEPT ![w] = "idle"]
    BY <1>0, <1>8 DEF Return
  <2>2. /\ stale'[w] = {} /\ pc'[w] = "idle"
        /\ \A o \in Others(w) : stale'[o] = stale[o] /\ job'[o] = job[o] /\ pc'[o] = pc[o]
    BY <1>0, <2>1 DEF TypeOK
  <2>3. \A k \in Keys : Untried[k] = Untouched /\ Untouched # NoPlan
    BY PlansAssumption DEF Untried
  <2>. QED  BY <1>0, <2>1, <2>2, <2>3 DEF RowInv, RowsOk, MayDelete, Others
<1>. QED  BY <1>1, <1>2, <1>3, <1>4, <1>5, <1>6, <1>7, <1>8 DEF Step

LEMMA RowStep == MInv /\ RowInv /\ [Next]_vars => RowInv'
<1> SUFFICES ASSUME MInv, RowInv, [Next]_vars PROVE RowInv'
  OBVIOUS
<1>1. ASSUME NEW k \in Keys, Expire(k) PROVE RowInv'
  <2>1. expired \subseteq expired' /\ UNCHANGED <<put, stale, job, pc>>
    BY <1>1 DEF Expire, jobVars, writeVars
  <2>. QED  BY <2>1, SameRows DEF RowInv, RowsOk
<1>2. CASE UNCHANGED vars
  <2>1. UNCHANGED <<put, stale, expired, job, pc>>
    BY <1>2 DEF vars, dbVars, jobVars, writeVars
  <2>. QED  BY <2>1, SameRows DEF RowInv, RowsOk
<1>. QED  BY <1>1, <1>2, StepRows DEF Next

\* Only a COMMIT changes rows, and only those its transaction has written.
RowLeaves(k) ==
  rows[k] # NoPlan /\ rows'[k] = NoPlan =>
    \/ k \in expired
    \/ \E w \in Workers :
         /\ put[w][k] = NoPlan
         /\ \/ job[w].kind = "invalidateAll"
            \/ job[w].kind = "invalidate" /\ job[w].key = k

LEMMA RowsLeave ==
  ASSUME MInv, RowInv, [Next]_vars, NEW k \in Keys
  PROVE  RowLeaves(k)
<1>1. ASSUME NEW w \in Workers, Commits(w) PROVE RowLeaves(k)
  <2>1. rows'[k] = IF put[w][k] = Untouched THEN rows[k] ELSE put[w][k]
    BY <1>1 DEF Commits
  <2>2. put[w][k] = NoPlan => MayDelete(w, k) /\ stale[w] \subseteq expired
    BY DEF RowInv, RowsOk
  <2>. QED  BY <2>1, <2>2 DEF RowLeaves, MayDelete
<1>2. CASE UNCHANGED rows
  BY <1>2 DEF RowLeaves
<1>3. ASSUME NEW w \in Workers, Step(w) PROVE Commits(w) \/ UNCHANGED rows
  BY <1>3 DEF Step, Call, Begin, Exists, Boot, ReadLedger, Create, Record, Save, Lookup, Delete, Stated, Runs,
     StatementFails, CommitOk, CommitRefused, CommitUnanswered, ServerCommits, RollbackOk, RollbackFails,
     Terminate, Return, dbVars
<1>4. CASE (\E e \in Keys : Expire(e)) \/ UNCHANGED vars
  BY <1>2, <1>4 DEF Expire, vars, dbVars
<1>. QED  BY <1>1, <1>2, <1>3, <1>4 DEF Next

(***************************************************************************)
(* A row goes only because it has expired or because somebody asked for it *)
(* by invalidate or invalidateAll: purgeExpired, which looks at expires_at *)
(* in the statement that deletes, never takes a row that a save of another *)
(* process has renewed (store.ts 184-273).                                 *)
(***************************************************************************)
THEOREM LiveRows == Spec => LiveRowsStay
<1>1. Init => RowInv
  BY PlansAssumption DEF Init, RowInv, RowsOk, Untried, Others
<1>2. Spec => []RowInv
  BY <1>1, RowStep, Invariant, PTL DEF Spec
<1>3. MInv /\ RowInv /\ [Next]_vars =>
        [\A k \in Keys :
           rows[k] # NoPlan /\ rows'[k] = NoPlan =>
             \/ k \in expired
             \/ \E w \in Workers :
                  /\ put[w][k] = NoPlan
                  /\ \/ job[w].kind = "invalidateAll"
                     \/ job[w].kind = "invalidate" /\ job[w].key = k]_vars
  BY RowsLeave DEF RowLeaves
<1>. QED  BY <1>2, <1>3, Invariant, PTL DEF Spec, LiveRowsStay
=============================================================================
