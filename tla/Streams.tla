------------------------------ MODULE Streams -------------------------------
(***************************************************************************)
(* Live queries: the subscribe endpoint (server/src/subscribe.ts) with its *)
(* registry of open streams, and the token store behind it                 *)
(* (server/src/store.ts).  A stream re-runs one approved query on a timer  *)
(* until its token or its time is up, the reader leaves, another           *)
(* subscriber takes its token, or the server closes.                       *)
(*                                                                         *)
(* handleSubscribe awaits the caller's scope and body, then runs without a *)
(* pause to the first read; from there a stream is a chain of ticks, each  *)
(* cut in two by the await of its read.                                    *)
(*                                                                         *)
(* Time is relative: what is left of a token, how old a stream is, how     *)
(* long a timer still waits.  All stop changing at their end, so the clock *)
(* needs no bound.  Tokens are random: one that no record, stream or       *)
(* request mentions stands for a fresh one.                                *)
(***************************************************************************)
EXTENDS Integers, Sequences, FiniteSets

CONSTANTS
  Subs,            (* Subscribe requests and the streams they become.      *)
  Identities,
  Tokens,
  NoOne,           (* No identity, no token and no stream.                 *)
  MaxTotal,        (* One configuration value bounds streams and records.  *)
  MaxPerIdentity,  (* So does this one.                                    *)
  TokenTtl,
  MaxDuration,
  Interval,
  MaxErrors,       (* maxConsecutiveErrors.                                *)
  QueueDepth,
  MaxBuffered,     (* Bound of the model: keepalives stop at this backlog. *)
  RowsConvert      (* Every row a read returns can cross the wire.         *)

\* liveRuntime refuses a limit that is not positive.
ASSUME LimitsAssumption ==
  /\ {MaxTotal, MaxPerIdentity, TokenTtl, MaxDuration, Interval} \subseteq Nat \ {0}
  /\ {MaxErrors, QueueDepth, MaxBuffered} \subseteq Nat \ {0}
  /\ RowsConvert \in BOOLEAN
ASSUME NoOneAssumption == NoOne \notin Identities \union Tokens \union Subs
ASSUME FiniteAssumption == IsFiniteSet(Subs) /\ IsFiniteSet(Identities) /\ IsFiniteSet(Tokens)

VARIABLES
  records,   (* The tokens of the store, in the order of its Map.          *)
  owner,     (* The identity a token was issued to.                        *)
  left,      (* Time before the token expires.                             *)
  live,      (* The registry: the stream of each token.                    *)
  phase,     (* idle, asked (awaiting scope and body), open or closed.     *)
  who,       (* The identity behind each request and stream.               *)
  token,     (* The token it asks for.                                     *)
  gone,      (* Its signal is aborted.                                     *)
  age,       (* Time since startedAt.                                      *)
  task,      (* none, timer or read.                                       *)
  wait,      (* Time before the timer fires.                               *)
  errors,    (* consecutiveErrors.                                         *)
  queue,     (* Frames buffered for the reader: comment, data or closed.   *)
  failing    (* History: ticks in a row that ended in an error frame.      *)

storeVars == <<records, owner, left>>
requestVars == <<who, token, gone>>
tickVars == <<task, wait, errors, queue, failing>>
vars == <<storeVars, live, phase, requestVars, age, tickVars>>

Init ==
  /\ records = <<>>
  /\ owner = [t \in Tokens |-> NoOne]
  /\ left = [t \in Tokens |-> 0]
  /\ live = [t \in Tokens |-> NoOne]
  /\ phase = [s \in Subs |-> "idle"]
  /\ who = [s \in Subs |-> NoOne]
  /\ token = [s \in Subs |-> NoOne]
  /\ gone = [s \in Subs |-> FALSE]
  /\ age = [s \in Subs |-> 0]
  /\ task = [s \in Subs |-> "none"]
  /\ wait = [s \in Subs |-> 0]
  /\ errors = [s \in Subs |-> 0]
  /\ queue = [s \in Subs |-> <<>>]
  /\ failing = [s \in Subs |-> 0]

Open == {s \in Subs : phase[s] = "open"}
OpenFor(i) == {s \in Open : who[s] = i}

Members(log) == {log[n] : n \in 1..Len(log)}

\* What log holds of S, in its order: the k-th such entry for every k there is.
Only(log, S) ==
  LET at == {n \in 1..Len(log) : log[n] \in S} IN
  [k \in 1..Cardinality(at) |-> log[CHOOSE n \in at : Cardinality({m \in at : m <= n}) = k]]

Without(log, t) == Only(log, Tokens \ {t})

\* The store holds log and no more.
Hold(log) ==
  /\ records' = log
  /\ owner' = [t \in Tokens |-> IF t \in Members(log) THEN owner[t] ELSE NoOne]
  /\ left' = [t \in Tokens |-> IF t \in Members(log) THEN left[t] ELSE 0]

\* store.get: an expired record is deleted by whoever looks for it.
Found(t) == t \in Members(records) /\ left[t] > 0
Get(t) == Hold(IF left[t] > 0 THEN records ELSE Without(records, t))

(***************************************************************************)
(* store.issue: expired records go, then the oldest of an identity at its  *)
(* limit, then - at the limit of the store - whoever came first.           *)
(***************************************************************************)
Current == Only(records, {t \in Tokens : left[t] > 0})
Issued(i) == {t \in Tokens : owner[t] = i}
Mine(log, i) == Members(log) \cap Issued(i)

\* Slip: the limit of an identity is compared one too late.
SpareMineLate(log, i) ==
  IF Cardinality(Mine(log, i)) > MaxPerIdentity
  THEN Without(log, Head(Only(log, Issued(i))))
  ELSE log

SpareMine(log, i) ==
  IF Cardinality(Mine(log, i)) >= MaxPerIdentity
  THEN Without(log, Head(Only(log, Issued(i))))
  ELSE log

SpareAny(log) ==
  IF Len(log) >= MaxTotal THEN SubSeq(log, Len(log) - MaxTotal + 2, Len(log)) ELSE log

\* issueStream, at the end of an answered question.
Issue(i, t) ==
  LET log == SpareAny(SpareMine(Current, i)) IN
  /\ t \notin Members(records)
  /\ \A s \in Subs : token[s] # t
  /\ records' = Append(log, t)
  /\ owner' = [u \in Tokens |-> IF u = t THEN i ELSE IF u \in Members(log) THEN owner[u] ELSE NoOne]
  /\ left' = [u \in Tokens |-> IF u = t THEN TokenTtl ELSE IF u \in Members(log) THEN left[u] ELSE 0]
  /\ UNCHANGED <<live, phase, requestVars, age, tickVars>>

\* The host ends a subscription early: store.revoke.
Revoke(t) ==
  /\ t \in Members(records)
  /\ Hold(Without(records, t))
  /\ UNCHANGED <<live, phase, requestVars, age, tickVars>>

\* A subscribe request arrives and waits for its scope and its body.  One that
\* is refused for either changes nothing and is not a step of the model.
Ask(s, i, t) ==
  /\ phase[s] = "idle"
  /\ phase' = [phase EXCEPT ![s] = "asked"]
  /\ who' = [who EXCEPT ![s] = i]
  /\ token' = [token EXCEPT ![s] = t]
  /\ gone' = [gone EXCEPT ![s] = FALSE]
  /\ UNCHANGED <<storeVars, live, age, tickVars>>

(***************************************************************************)
(* finish(reason) of every stream in S: closed, its timer cleared, out of  *)
(* the registry if the registry still holds this very stream.  What is     *)
(* buffered stays readable; a reason is told in one last frame (Send).     *)
(***************************************************************************)
Inert(S, f, value) == [s \in Subs |-> IF s \in S THEN value ELSE f[s]]
Released(S) == [t \in Tokens |-> IF live[t] \in S THEN NoOne ELSE live[t]]
Send(S, frames) == queue' = [s \in Subs |-> IF s \in S THEN queue[s] \o frames ELSE queue[s]]

\* Slip: clearTimeout is forgotten.
StopsTimerRunning(S) == task

\* A timer is cleared; a read that is out comes back to a closed stream.
Stops(S) == [s \in Subs |-> IF s \in S /\ task[s] = "timer" THEN "none" ELSE task[s]]

Finish(S) ==
  /\ phase' = Inert(S, phase, "closed")
  /\ task' = Stops(S)
  /\ wait' = Inert(S, wait, 0)
  /\ errors' = Inert(S, errors, 0)
  /\ failing' = Inert(S, failing, 0)
  /\ live' = Released(S)

Full == Cardinality(Open) >= MaxTotal
FullFor(i) == Cardinality(OpenFor(i)) >= MaxPerIdentity

\* 503, 429, or a stream that holds one closed frame.
Refuse(s) ==
  LET t == token[s] IN
  /\ phase[s] = "asked"
  /\ \/ (Full \/ FullFor(who[s])) /\ UNCHANGED storeVars
     \/ ~Full /\ ~FullFor(who[s]) /\ ~(Found(t) /\ owner[t] = who[s]) /\ Get(t)
  /\ phase' = [phase EXCEPT ![s] = "idle"]
  /\ who' = [who EXCEPT ![s] = NoOne]
  /\ token' = [token EXCEPT ![s] = NoOne]
  /\ gone' = [gone EXCEPT ![s] = FALSE]
  /\ UNCHANGED <<live, age, tickVars>>

\* Slip: one more stream than the limit of the identity.
AcceptedLate(s) ==
  /\ ~Full /\ Cardinality(OpenFor(who[s])) <= MaxPerIdentity
  /\ Found(token[s]) /\ owner[token[s]] = who[s]

Accepted(s) ==
  /\ ~Full /\ ~FullFor(who[s])
  /\ Found(token[s]) /\ owner[token[s]] = who[s]

\* Slip: take overwrites the entry and leaves the first stream running.
DisplacedNone(s) == {}

\* registry.take stops the stream that holds the token, which tells its reader.
Displaced(s) == {live[token[s]]} \ {NoOne}

\* A new stream takes its token, sends its opening comment and starts to read.
Start(s) ==
  LET stopped == Displaced(s) IN
  /\ phase[s] = "asked"
  /\ Accepted(s)
  /\ ~gone[s]
  /\ phase' = [Inert(stopped, phase, "closed") EXCEPT ![s] = "open"]
  /\ live' = [live EXCEPT ![token[s]] = s]
  /\ age' = [age EXCEPT ![s] = 0]
  /\ queue' = [r \in Subs |-> IF r = s THEN <<"comment">>
                              ELSE IF r \in stopped THEN Append(queue[r], "closed") ELSE queue[r]]
  /\ task' = [Stops(stopped) EXCEPT
                ![s] = IF QueueDepth > 1 THEN "read" ELSE "timer"]
  /\ wait' = [Inert(stopped, wait, 0) EXCEPT ![s] = IF QueueDepth > 1 THEN 0 ELSE Interval]
  /\ errors' = [Inert(stopped, errors, 0) EXCEPT ![s] = 0]
  /\ failing' = [Inert(stopped, failing, 0) EXCEPT ![s] = 0]
  /\ UNCHANGED <<storeVars, requestVars>>

\* The caller left before the stream began: it still displaces, and closes.
StartGone(s) ==
  /\ phase[s] = "asked"
  /\ Accepted(s)
  /\ gone[s]
  /\ Finish({s} \union Displaced(s))
  /\ Send(Displaced(s), <<"closed">>)
  /\ UNCHANGED <<storeVars, requestVars, age>>

\* The abort signal, or the reader cancelling the stream and what it holds.
Leave(s) ==
  /\ phase[s] \in {"asked", "open"} /\ ~gone[s]
  /\ gone' = [gone EXCEPT ![s] = TRUE]
  /\ Finish(IF phase[s] = "open" THEN {s} ELSE {})
  /\ \/ UNCHANGED queue
     \/ phase[s] = "open" /\ queue' = [queue EXCEPT ![s] = <<>>]
  /\ UNCHANGED <<storeVars, who, token, age>>

Schedule(s) ==
  /\ task' = [task EXCEPT ![s] = "timer"]
  /\ wait' = [wait EXCEPT ![s] = Interval]

(***************************************************************************)
(* tick, as far as its await: over, unknown to the store, reader too slow, *)
(* or a read begins.                                                       *)
(***************************************************************************)
Due(s) == phase[s] = "open" /\ task[s] = "timer" /\ wait[s] = 0
Stalled(s) == Len(queue[s]) >= QueueDepth

\* Slip: the tick trusts the token it was opened with.
OverNoToken(s) == age[s] >= MaxDuration

\* Slip: a reader too slow is looked for first.
OverUnlessStalled(s) == ~Stalled(s) /\ (age[s] >= MaxDuration \/ ~Found(token[s]))

Over(s) == age[s] >= MaxDuration \/ ~Found(token[s])

TickEnds(s) ==
  /\ Due(s)
  /\ Over(s)
  /\ IF age[s] < MaxDuration THEN Get(token[s]) ELSE UNCHANGED storeVars
  /\ Finish({s}) /\ Send({s}, <<"closed">>)
  /\ UNCHANGED <<requestVars, age>>

TickSkips(s) ==
  /\ Due(s)
  /\ ~Over(s)
  /\ Stalled(s)
  /\ Schedule(s)
  /\ UNCHANGED <<storeVars, live, phase, requestVars, age, errors, queue, failing>>

TickReads(s) ==
  /\ Due(s)
  /\ ~Over(s)
  /\ ~Stalled(s)
  /\ task' = [task EXCEPT ![s] = "read"]
  /\ UNCHANGED <<storeVars, live, phase, requestVars, age, wait, errors, queue, failing>>

(***************************************************************************)
(* tick, after its await.                                                  *)
(***************************************************************************)
Reading(s) == phase[s] = "open" /\ task[s] = "read"
Emit(s) == Send({s}, <<"data">>)

ReadOk(s) ==
  /\ Reading(s)
  /\ errors' = [errors EXCEPT ![s] = 0]
  /\ failing' = [failing EXCEPT ![s] = 0]
  /\ Emit(s)
  /\ Schedule(s)
  /\ UNCHANGED <<storeVars, live, phase, requestVars, age>>

\* The catch block.  The count starts from what the try block left of it.
Caught(s, count) ==
  /\ Reading(s)
  /\ IF count + 1 >= MaxErrors
     THEN Finish({s}) /\ Send({s}, <<"data", "closed">>) /\ UNCHANGED <<storeVars, requestVars, age>>
     ELSE /\ errors' = [errors EXCEPT ![s] = count + 1]
          /\ failing' = [failing EXCEPT ![s] = IF @ < MaxErrors THEN @ + 1 ELSE @]
          /\ Emit(s)
          /\ Schedule(s)
          /\ UNCHANGED <<storeVars, live, phase, requestVars, age>>

\* Slip: every error is the first.
ReadFailsUncounted(s) == Caught(s, 0)

ReadFails(s) == Caught(s, errors[s])

\* toResultSet throws on a cell the wire cannot carry: the read was a
\* success, so the count is reset before the catch block raises it.
ConvertFails(s) == ~RowsConvert /\ Caught(s, 0)

\* parseStreamEvent refuses the snapshot.
FrameRejected(s) ==
  /\ Reading(s)
  /\ Finish({s}) /\ Send({s}, <<"closed">>)
  /\ UNCHANGED <<storeVars, requestVars, age>>

\* The stream was closed while its read was out: nothing is sent.
ReadComesLate(s) ==
  /\ phase[s] = "closed" /\ task[s] = "read"
  /\ task' = [task EXCEPT ![s] = "none"]
  /\ UNCHANGED <<storeVars, live, phase, requestVars, age, wait, errors, queue, failing>>

Keepalive(s) ==
  /\ phase[s] = "open"
  /\ Len(queue[s]) < MaxBuffered
  /\ Send({s}, <<"comment">>)
  /\ UNCHANGED <<storeVars, live, phase, requestVars, age, task, wait, errors, failing>>

\* The reader takes a frame, from a closed stream too.
Pull(s) ==
  /\ queue[s] # <<>>
  /\ queue' = [queue EXCEPT ![s] = Tail(@)]
  /\ UNCHANGED <<storeVars, live, phase, requestVars, age, task, wait, errors, failing>>

\* The reader cancels a stream that is closed already, or is never seen again.
Drop(s) ==
  /\ phase[s] = "closed" /\ queue[s] # <<>>
  /\ queue' = [queue EXCEPT ![s] = <<>>]
  /\ UNCHANGED <<storeVars, live, phase, requestVars, age, task, wait, errors, failing>>

\* InsighticsServer.close: registry.shutdown.  Requests are still answered, so
\* one that was waiting, or that comes later, may open a stream again.
Close ==
  /\ Open # {}
  /\ Finish(Open) /\ Send(Open, <<"closed">>)
  /\ UNCHANGED <<storeVars, requestVars, age>>

\* A request or stream that is all over, read to its end, leaves its slot.
Forget(s) ==
  /\ phase[s] = "closed" /\ task[s] = "none" /\ queue[s] = <<>>
  /\ phase' = [phase EXCEPT ![s] = "idle"]
  /\ who' = [who EXCEPT ![s] = NoOne]
  /\ token' = [token EXCEPT ![s] = NoOne]
  /\ gone' = [gone EXCEPT ![s] = FALSE]
  /\ age' = [age EXCEPT ![s] = 0]
  /\ UNCHANGED <<storeVars, live, tickVars>>

\* Time passes; no timer is made to wait past its time.
Time ==
  /\ left' = [t \in Tokens |-> IF left[t] > 0 THEN left[t] - 1 ELSE 0]
  /\ age' = [s \in Subs |-> IF phase[s] = "open" /\ age[s] < MaxDuration THEN age[s] + 1 ELSE age[s]]
  /\ wait' = [s \in Subs |-> IF wait[s] > 0 THEN wait[s] - 1 ELSE 0]
  /\ UNCHANGED <<records, owner, live, phase, requestVars, task, errors, queue, failing>>

ReadReturns(s) == ReadOk(s) \/ ReadFails(s) \/ ConvertFails(s) \/ FrameRejected(s)
Tick(s) == TickEnds(s) \/ TickSkips(s) \/ TickReads(s)

Next ==
  \/ \E s \in Subs :
       \/ \E i \in Identities, t \in Tokens : Ask(s, i, t)
       \/ Refuse(s) \/ Start(s) \/ StartGone(s) \/ Leave(s)
       \/ Tick(s) \/ ReadReturns(s) \/ ReadComesLate(s)
       \/ Keepalive(s) \/ Pull(s) \/ Drop(s) \/ Forget(s)
  \/ \E i \in Identities, t \in Tokens : Issue(i, t)
  \/ \E t \in Tokens : Revoke(t)
  \/ Close
  \/ Time

Spec == Init /\ [][Next]_vars

(***************************************************************************)
(* Timers fire, time passes, and a read returns (its statement timeout,    *)
(* which ReadSession models).  Readers, callers and the host owe nothing.  *)
(***************************************************************************)
FairSpec ==
  /\ Spec
  /\ WF_vars(Time)
  /\ \A s \in Subs : WF_vars(Tick(s)) /\ WF_vars(ReadReturns(s))
-----------------------------------------------------------------------------
(***************************************************************************)
(* The registry is the open streams: each is found under its own token and *)
(* no token has two, through displacements, departures and late finishes   *)
(* (take and release of subscribe.ts 51-59, called from finish 204).       *)
(***************************************************************************)
RegistryMatches ==
  \A s \in Subs, t \in Tokens : live[t] = s <=> phase[s] = "open" /\ token[s] = t

(***************************************************************************)
(* No more streams are open than the configuration allows, in total and    *)
(* per identity, though every request waits between its arrival and its    *)
(* check (subscribe.ts 117-142).                                           *)
(***************************************************************************)
CapsHold ==
  /\ Cardinality(Open) <= MaxTotal
  /\ \A i \in Identities : Cardinality(OpenFor(i)) <= MaxPerIdentity

(***************************************************************************)
(* A closed stream is inert, whatever was out when it closed: no timer of  *)
(* it runs, the frames its reader has still to take only become fewer,     *)
(* from the front, and none follows the one that says it is closed         *)
(* (finish 186-210, write 160, schedule 215, tick 235 and 245; the tests   *)
(* subscribe.test.ts 117, 195 and 234 read that frame after finish).       *)
(***************************************************************************)
Rest(frames, n) == SubSeq(frames, n + 1, Len(frames))
NoneAfterClosed(frames) == \A n \in 1..Len(frames) : frames[n] = "closed" => n = Len(frames)
ClosedIsInert ==
  [][\A s \in Subs :
       /\ phase'[s] = "closed" => task'[s] # "timer" /\ NoneAfterClosed(queue'[s])
       /\ phase[s] = "closed" => \E n \in 0..Len(queue[s]) : queue'[s] = Rest(queue[s], n)]_vars

(***************************************************************************)
(* An open stream always has something that will move it on - a timer or a *)
(* read - so none stays in the registry for good after a skipped snapshot, *)
(* an error or a snapshot (the schedule calls of tick 220-252).            *)
(***************************************************************************)
OpenIsDriven == \A s \in Open : task[s] # "none"

\* The store keeps to its limits (store.ts 33-46).
StoreBounded ==
  /\ Len(records) <= MaxTotal
  /\ \A i \in Identities : Cardinality(Mine(records, i)) <= MaxPerIdentity

\* No more snapshots and errors wait for a reader than its queue is deep (subscribe.ts 19-20 and 227-231).
DataIn(frames) == {n \in 1..Len(frames) : frames[n] = "data"}
BacklogBounded == \A s \in Subs : Cardinality(DataIn(queue[s])) <= QueueDepth

(***************************************************************************)
(* What the server keeps for live answers is bounded: records, in total    *)
(* and per identity, while expired, revoked and evicted ones come and go,  *)
(* and what is buffered for a reader that has stopped consuming, whatever  *)
(* comments lie between the snapshots, while a read is out and when the    *)
(* last error closes the stream.                                           *)
(***************************************************************************)
MemoryBounded == StoreBounded /\ BacklogBounded

(***************************************************************************)
(* A read begins only for a token that the store holds in this very step,  *)
(* unexpired and issued to the identity of the stream, and within the      *)
(* time of the stream: an evicted or revoked token reads no more.          *)
(***************************************************************************)
ReadsAreApproved ==
  [][\A s \in Subs :
       task[s] # "read" /\ task'[s] = "read" =>
         /\ Found(token[s])
         /\ owner[token[s]] = who[s]
         /\ phase[s] = "open" => age[s] < MaxDuration]_vars

(***************************************************************************)
(* A stream whose reads all fail is closed by the last of                  *)
(* maxConsecutiveErrors of them (subscribe.ts 247-249, types.ts 57).       *)
(***************************************************************************)
FailingStreamsClose == \A s \in Open : failing[s] < MaxErrors

(***************************************************************************)
(* Every stream ends, with a reader that never reads, reads that fail and  *)
(* a token that outlives it (maxDurationMs, subscribe.ts 222-231).         *)
(***************************************************************************)
StreamsEnd == \A s \in Subs : phase[s] = "open" ~> phase[s] # "open"

=============================================================================
