------------------------------ MODULE Limiter -------------------------------
(***************************************************************************)
(* The admission control of the ask endpoint: createLimiter                *)
(* (server/src/limits.ts) and the way handleAsk (server/src/ask.ts) uses   *)
(* it - admit a question, strike its identity when the planner reports an  *)
(* attack-shaped denial, release in the finally block.  Each of the three  *)
(* is synchronous; everything between them is awaited, so other requests   *)
(* and the clock step in between.                                          *)
(*                                                                         *)
(* The token bucket is counted in time: a question costs the time its      *)
(* token takes to come back (60 000 / questionsPerMinute ms), so a refill  *)
(* adds the elapsed time itself.  The fractions of the code stay exact.    *)
(***************************************************************************)
EXTENDS Integers, Sequences, FiniteSets

CONSTANTS
  Requests,        (* Handler slots.                                        *)
  Identities,      (* Rate-limit buckets: what identify() or a scope names. *)
  NoOne,           (* The bucket of a slot that serves no question.         *)
  MaxConcurrent,
  MaxPerIdentity,  (* maxConcurrentPerIdentity.                             *)
  MaxTracked,      (* maxTrackedIdentities.                                 *)
  Burst,           (* Tokens of a full bucket.                              *)
  Cost,            (* The time one token takes to come back.                *)
  SecurityStrikes,
  StrikeWindow,
  BlockFor,        (* blockMs.                                              *)
  MaxTime          (* Bound of the model: the clock stops there.            *)

\* limitsRuntime refuses a limit that is not positive.
ASSUME LimitsAssumption ==
  /\ {MaxConcurrent, MaxPerIdentity, MaxTracked, Burst, Cost} \subseteq Nat \ {0}
  /\ {SecurityStrikes, StrikeWindow, BlockFor, MaxTime} \subseteq Nat \ {0}
ASSUME NoOneAssumption == NoOne \notin Identities
ASSUME FiniteAssumption == IsFiniteSet(Requests) /\ IsFiniteSet(Identities)

VARIABLES
  now,       (* rt.now().                                                   *)
  tracked,   (* The keys of the limiter's map.                              *)
  entry,     (* Its values, but for                                         *)
  strikes,   (* the times of their recent attack-shaped denials.            *)
  inFlight,  (* The limiter's global count.                                 *)
  asking,    (* The bucket each slot was admitted under, or NoOne.          *)
  held,      (* The entry of that admission is the one in the map.          *)
  struck,    (* The planner of that question has reported its denial.       *)
  overflow,  (* History: some fresh entry was swept as it was made.         *)
  cooling,   (* History: until when strike() last announced a cooldown.     *)
  spent,     (* History: time paid out of an entry's bucket ...             *)
  born       (* ... since the entry was made.                               *)

entryVars == <<tracked, entry, strikes>>
slotVars == <<asking, held, struck>>
historyVars == <<overflow, cooling, spent, born>>
vars == <<now, entryVars, inFlight, slotVars, historyVars>>

Fresh == [tokens |-> Burst * Cost, refilledAt |-> now, inFlight |-> 0,
          blockedUntil |-> 0, seenAt |-> now]
Blank == [tokens |-> 0, refilledAt |-> 0, inFlight |-> 0,
          blockedUntil |-> 0, seenAt |-> 0]

Init ==
  /\ now = 0
  /\ tracked = {}
  /\ entry = [i \in Identities |-> Blank]
  /\ strikes = [i \in Identities |-> <<>>]
  /\ inFlight = 0
  /\ asking = [r \in Requests |-> NoOne]
  /\ held = [r \in Requests |-> FALSE]
  /\ struck = [r \in Requests |-> FALSE]
  /\ overflow = FALSE
  /\ cooling = [i \in Identities |-> 0]
  /\ spent = [i \in Identities |-> 0]
  /\ born = [i \in Identities |-> 0]

(***************************************************************************)
(* entryFor: what is found is stamped, what is not is made and put in the  *)
(* map, and the map is swept.                                              *)
(***************************************************************************)
EntryFor(i) == IF i \in tracked THEN [entry[i] EXCEPT !.seenAt = now] ELSE Fresh

\* Slip: a cooldown does not keep an entry from being swept.
IdleBusyOnly(i) == {i} \union {j \in tracked : entry[j].inFlight = 0}

\* What a sweep may take, with i just added: nothing in flight, no cooldown.
Idle(i) ==
  {i} \union {j \in tracked : entry[j].inFlight = 0 /\ entry[j].blockedUntil <= now}

\* Oldest first; of those seen in this very instant the new entry goes last.
Victims(i, excess) ==
  {V \in SUBSET Idle(i) :
     /\ Cardinality(V) = IF excess < Cardinality(Idle(i)) THEN excess ELSE Cardinality(Idle(i))
     /\ \A v \in V \ {i}, w \in Idle(i) \ (V \union {i}) : entry[v].seenAt <= entry[w].seenAt
     /\ i \in V => V = Idle(i)}

\* The keys the map may have once entryFor(i) returns.
Swept(i) ==
  LET keys   == tracked \union {i}
      excess == Cardinality(keys) - MaxTracked
  IN  IF i \in tracked \/ excess <= 0 THEN {keys} ELSE {keys \ V : V \in Victims(i, excess)}

\* Write the entry of i back to a map whose keys are now the given ones.
Put(i, e, log, keys) ==
  /\ tracked' = keys
  /\ entry' = [j \in Identities |->
                 IF j \notin keys THEN Blank ELSE IF j = i THEN e ELSE entry[j]]
  /\ strikes' = [j \in Identities |->
                   IF j \notin keys THEN <<>> ELSE IF j = i THEN log ELSE strikes[j]]
  /\ overflow' = (overflow \/ i \notin keys)

\* Slip: the time already credited is credited again.
RefillUnstamped(e) ==
  LET elapsed == IF now > e.refilledAt THEN now - e.refilledAt ELSE 0
      full    == Burst * Cost
  IN  [e EXCEPT !.tokens = IF @ + elapsed < full THEN @ + elapsed ELSE full]

Refill(e) ==
  LET elapsed == IF now > e.refilledAt THEN now - e.refilledAt ELSE 0
      full    == Burst * Cost
  IN  [e EXCEPT !.tokens = IF @ + elapsed < full THEN @ + elapsed ELSE full,
                !.refilledAt = now]

\* Slip: the count of the identity is compared one too late.
AdmissibleLate(e) ==
  /\ e.blockedUntil <= now
  /\ inFlight < MaxConcurrent
  /\ e.inFlight <= MaxPerIdentity

(***************************************************************************)
(* admit: the checks in the order of the code.  Only the last one refills. *)
(***************************************************************************)
Admissible(e) ==
  /\ e.blockedUntil <= now
  /\ inFlight < MaxConcurrent
  /\ e.inFlight < MaxPerIdentity

\* A whole token must be there once the bucket is refilled.
Affordable(e) == e.tokens >= Cost

Admit(r, i) ==
  LET e    == EntryFor(i)
      full == Refill(e)
      paid == [full EXCEPT !.tokens = @ - Cost, !.inFlight = @ + 1]
  IN
  /\ asking[r] = NoOne
  /\ Admissible(e)
  /\ Affordable(full)
  /\ \E keys \in Swept(i) :
       /\ Put(i, paid, strikes[i], keys)
       /\ held' = [held EXCEPT ![r] = i \in keys]
  /\ inFlight' = inFlight + 1
  /\ asking' = [asking EXCEPT ![r] = i]
  /\ struck' = [struck EXCEPT ![r] = FALSE]
  /\ spent' = [spent EXCEPT ![i] = (IF i \in tracked THEN @ ELSE 0) + Cost]
  /\ born' = [born EXCEPT ![i] = IF i \in tracked THEN @ ELSE now]
  /\ UNCHANGED <<now, cooling>>

\* 429 or 503.  A refusal still makes, stamps and, at the last check, refills.
Refuse(i) ==
  LET e    == EntryFor(i)
      full == Refill(e)
  IN
  /\ ~Admissible(e) \/ ~Affordable(full)
  /\ \E keys \in Swept(i) : Put(i, IF Admissible(e) THEN full ELSE e, strikes[i], keys)
  /\ spent' = [spent EXCEPT ![i] = IF i \in tracked THEN @ ELSE 0]
  /\ born' = [born EXCEPT ![i] = IF i \in tracked THEN @ ELSE now]
  /\ UNCHANGED <<now, inFlight, slotVars, cooling>>

(***************************************************************************)
(* strike, from the onSecurityEvent of handleAsk.  A planner reports an    *)
(* attack at most once per question.                                       *)
(***************************************************************************)
Recent(log) == Append(SelectSeq(log, LAMBDA at : now - at < StrikeWindow), now)

\* This denial starts a cooldown, and the log starts anew.
Cools(i) == Len(Recent(strikes[i])) >= SecurityStrikes
StruckEntry(i) ==
  IF Cools(i) THEN [EntryFor(i) EXCEPT !.blockedUntil = now + BlockFor] ELSE EntryFor(i)
StruckLog(i) == IF Cools(i) THEN <<>> ELSE Recent(strikes[i])

Strike(r) ==
  LET i == asking[r] IN
  /\ i # NoOne
  /\ ~struck[r]
  /\ \E keys \in Swept(i) : Put(i, StruckEntry(i), StruckLog(i), keys)
  /\ struck' = [struck EXCEPT ![r] = TRUE]
  /\ cooling' = [cooling EXCEPT ![i] = IF Cools(i) THEN now + BlockFor ELSE @]
  /\ spent' = [spent EXCEPT ![i] = IF i \in tracked THEN @ ELSE 0]
  /\ born' = [born EXCEPT ![i] = IF i \in tracked THEN @ ELSE now]
  /\ UNCHANGED <<now, inFlight, asking, held>>

\* Slip: the release gives back the global slot and not the identity's.
FinishGlobalOnly(r) ==
  /\ asking[r] # NoOne
  /\ inFlight' = IF inFlight > 0 THEN inFlight - 1 ELSE 0
  /\ asking' = [asking EXCEPT ![r] = NoOne]
  /\ held' = [held EXCEPT ![r] = FALSE]
  /\ struck' = [struck EXCEPT ![r] = FALSE]
  /\ UNCHANGED <<now, entryVars, historyVars>>

\* The finally block of handleAsk: release, once, whatever was returned or
\* thrown.  An entry that is not in the map is given back to nobody.
Finish(r) ==
  LET i == asking[r] IN
  /\ i # NoOne
  /\ inFlight' = IF inFlight > 0 THEN inFlight - 1 ELSE 0
  /\ entry' = IF held[r]
              THEN [entry EXCEPT ![i].inFlight = IF @ > 0 THEN @ - 1 ELSE 0]
              ELSE entry
  /\ asking' = [asking EXCEPT ![r] = NoOne]
  /\ held' = [held EXCEPT ![r] = FALSE]
  /\ struck' = [struck EXCEPT ![r] = FALSE]
  /\ UNCHANGED <<now, tracked, strikes, historyVars>>

Tick ==
  /\ now < MaxTime
  /\ now' = now + 1
  /\ UNCHANGED <<entryVars, inFlight, slotVars, historyVars>>

Next ==
  \/ \E r \in Requests :
       \/ \E i \in Identities : Admit(r, i)
       \/ Strike(r)
       \/ Finish(r)
  \/ \E i \in Identities : Refuse(i)
  \/ Tick

Spec == Init /\ [][Next]_vars
-----------------------------------------------------------------------------
Outstanding == {r \in Requests : asking[r] # NoOne}
Asking(i) == {r \in Requests : asking[r] = i}
Holding(i) == {r \in Requests : asking[r] = i /\ held[r]}

(***************************************************************************)
(* The counters are the questions: one slot is given back for each that    *)
(* was taken, to the entry it was taken from, across sweeps of the map in  *)
(* between.  A slot lost would refuse an identity for ever; one given back *)
(* twice would lift the ceiling (limits.ts 161-172, ask.ts 141-143).       *)
(***************************************************************************)
CountsMatch ==
  /\ inFlight = Cardinality(Outstanding)
  /\ \A i \in Identities : Holding(i) # {} => i \in tracked
  /\ \A i \in tracked : entry[i].inFlight = Cardinality(Holding(i))

(***************************************************************************)
(* No more questions are being answered at once than the configuration     *)
(* allows, in total and - until the map overflows with identities that are *)
(* all busy or cooling down - from one identity (limits.ts 145-150).       *)
(***************************************************************************)
CeilingsHold ==
  /\ Cardinality(Outstanding) <= MaxConcurrent
  /\ ~overflow => \A i \in Identities : Cardinality(Asking(i)) <= MaxPerIdentity

(***************************************************************************)
(* What one entry admits is bounded by its burst and the time since it was *)
(* made, whatever the interleaving of refusals, strikes and releases that  *)
(* also touch it (refill and the tokens of limits.ts 128-132, 151-161).    *)
(***************************************************************************)
BudgetKept ==
  \A i \in tracked : spent[i] <= Burst * Cost + (now - born[i])

\* The map is bounded although entries in use are never swept (97-107).
MapBounded == Cardinality(tracked) <= MaxTracked

\* A question admitted in this step is one of an identity not cooling down.
AdmitsNoneCooling ==
  \A r \in Requests : asking[r] = NoOne /\ asking'[r] # NoOne => cooling[asking'[r]] <= now

(***************************************************************************)
(* An announced cooldown holds: no question of that identity is admitted   *)
(* before it ends, however many other identities come and go and have      *)
(* entries swept (limits.ts 102, 137 and 176-184) - until the overflow.    *)
(***************************************************************************)
CooldownHeld == [][~overflow' => AdmitsNoneCooling]_vars

=============================================================================
