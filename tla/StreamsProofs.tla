--------------------------- MODULE StreamsProofs ----------------------------
(***************************************************************************)
(* For every set of subscribers, tokens and identities and every limit:    *)
(* the registry is the open streams, a closed stream is inert, an open one *)
(* is driven; the caps on streams hold and what is kept for them is        *)
(* bounded; a read begins only for a token in force; a stream whose reads  *)
(* fail ends.                                                              *)
(***************************************************************************)
EXTENDS Streams, FiniteSetTheorems, WellFoundedInduction, NaturalsInduction, TLAPS

Types ==
  /\ live \in [Tokens -> Subs \union {NoOne}]
  /\ phase \in [Subs -> {"idle", "asked", "open", "closed"}]
  /\ who \in [Subs -> Identities \union {NoOne}]
  /\ token \in [Subs -> Tokens \union {NoOne}]
  /\ task \in [Subs -> {"none", "timer", "read"}]

(***************************************************************************)
(* The strengthening: a request that is not yet a stream does nothing, and *)
(* whoever asked or streams has a token and an identity, and only an open  *)
(* stream has a timer.                                                     *)
(***************************************************************************)
Quiet == \A s \in Subs : phase[s] \in {"idle", "asked"} => task[s] = "none"
Named == \A s \in Subs : phase[s] \in {"asked", "open"} => token[s] \in Tokens /\ who[s] \in Identities
TimersAreOpen == \A s \in Subs : task[s] = "timer" => phase[s] = "open"

StreamInv == Types /\ Quiet /\ Named /\ RegistryMatches /\ TimersAreOpen /\ OpenIsDriven

-----------------------------------------------------------------------------
\* Closing streams, with whatever it closes taken out of the registry.
LEMMA FinishStep ==
  ASSUME StreamInv, NEW S \in SUBSET Subs, Finish(S), UNCHANGED <<who, token>>
  PROVE  StreamInv'
<1>1. /\ phase' = [s \in Subs |-> IF s \in S THEN "closed" ELSE phase[s]]
      /\ task' = [s \in Subs |-> IF s \in S /\ task[s] = "timer" THEN "none" ELSE task[s]]
      /\ live' = [t \in Tokens |-> IF live[t] \in S THEN NoOne ELSE live[t]]
  BY DEF Finish, Inert, Stops, Released
<1>2. Types'
  BY <1>1 DEF StreamInv, Types
<1>3. Quiet' /\ Named'
  BY <1>1 DEF StreamInv, Types, Quiet, Named
<1>4. RegistryMatches'
  BY <1>1, NoOneAssumption DEF StreamInv, Types, RegistryMatches
<1>5. TimersAreOpen' /\ OpenIsDriven'
  BY <1>1 DEF StreamInv, Types, TimersAreOpen, OpenIsDriven, Open
<1>. QED  BY <1>2, <1>3, <1>4, <1>5 DEF StreamInv

\* A step of an open stream that stays open, with a timer or a read to come.
LEMMA OpenStep ==
  ASSUME StreamInv, NEW s \in Subs, phase[s] = "open",
         UNCHANGED <<live, phase, who, token>>,
         task' = task \/ \E next \in {"timer", "read"} : task' = [task EXCEPT ![s] = next]
  PROVE  StreamInv'
<1>1. Types'
  BY DEF StreamInv, Types
<1>2. Quiet' /\ Named' /\ RegistryMatches'
  BY DEF StreamInv, Types, Quiet, Named, RegistryMatches
<1>3. TimersAreOpen' /\ OpenIsDriven'
  BY DEF StreamInv, Types, TimersAreOpen, OpenIsDriven, Open
<1>. QED  BY <1>1, <1>2, <1>3 DEF StreamInv

LEMMA StartStep ==
  ASSUME StreamInv, NEW s \in Subs, Start(s)
  PROVE  StreamInv'
<1> DEFINE t == token[s]
           stopped == Displaced(s)
<1>1. /\ phase[s] = "asked" /\ t \in Tokens /\ task[s] = "none"
      /\ stopped \in SUBSET (Subs \ {s})
      /\ \A r \in Subs : r \in stopped <=> live[t] = r
  BY NoOneAssumption DEF Start, StreamInv, Types, Quiet, Named, Displaced, RegistryMatches
<1>2. PICK next \in {"timer", "read"} :
        /\ phase' = [[r \in Subs |-> IF r \in stopped THEN "closed" ELSE phase[r]]
                       EXCEPT ![s] = "open"]
        /\ task' = [[r \in Subs |-> IF r \in stopped /\ task[r] = "timer" THEN "none" ELSE task[r]]
                       EXCEPT ![s] = next]
        /\ live' = [live EXCEPT ![t] = s]
        /\ UNCHANGED <<who, token>>
  BY DEF Start, Inert, Stops, requestVars
<1> HIDE DEF stopped
<1>3. Types'
  <2>1. task' \in [Subs -> {"none", "timer", "read"}]
    BY <1>2 DEF StreamInv, Types
  <2>2. phase' \in [Subs -> {"idle", "asked", "open", "closed"}]
    BY <1>2 DEF StreamInv, Types
  <2>. QED  BY <1>1, <1>2, <2>1, <2>2 DEF StreamInv, Types
<1>4. Quiet' /\ Named'
  BY <1>1, <1>2 DEF StreamInv, Types, Quiet, Named
<1>5. RegistryMatches'
  BY <1>1, <1>2, NoOneAssumption DEF StreamInv, Types, RegistryMatches
<1>6. TimersAreOpen' /\ OpenIsDriven'
  BY <1>1, <1>2 DEF StreamInv, Types, TimersAreOpen, OpenIsDriven, Open
<1>. QED  BY <1>3, <1>4, <1>5, <1>6 DEF StreamInv

\* A slot that is no stream is filled, emptied, or hears of a late read.
LEMMA SlotStep ==
  ASSUME StreamInv, NEW s \in Subs, phase[s] # "open",
         NEW p \in {"idle", "asked", "closed"}, NEW i, NEW t,
         p = "asked" => i \in Identities /\ t \in Tokens,
         i \in Identities \union {NoOne}, t \in Tokens \union {NoOne},
         p # "closed" => task[s] = "none",
         phase' = [phase EXCEPT ![s] = p],
         who' = [who EXCEPT ![s] = i],
         token' = [token EXCEPT ![s] = t],
         task' = task \/ task' = [task EXCEPT ![s] = "none"],
         UNCHANGED live
  PROVE  StreamInv'
<1>1. Types'
  BY DEF StreamInv, Types
<1>2. Quiet' /\ Named'
  BY DEF StreamInv, Types, Quiet, Named
<1>3. RegistryMatches'
  BY DEF StreamInv, Types, RegistryMatches
<1>4. TimersAreOpen' /\ OpenIsDriven'
  BY DEF StreamInv, Types, TimersAreOpen, OpenIsDriven, Open
<1>. QED  BY <1>1, <1>2, <1>3, <1>4 DEF StreamInv

LEMMA SubscriberStep ==
  ASSUME StreamInv, NEW s \in Subs,
         \/ \E i \in Identities, t \in Tokens : Ask(s, i, t)
         \/ Refuse(s) \/ Start(s) \/ StartGone(s) \/ Leave(s) \/ Forget(s)
  PROVE  StreamInv'
<1>1. ASSUME NEW i \in Identities, NEW t \in Tokens, Ask(s, i, t) PROVE StreamInv'
  <2>1. phase[s] = "idle" /\ task[s] = "none"
    BY <1>1 DEF Ask, StreamInv, Quiet
  <2>2. /\ phase' = [phase EXCEPT ![s] = "asked"]
        /\ who' = [who EXCEPT ![s] = i] /\ token' = [token EXCEPT ![s] = t]
        /\ UNCHANGED <<task, live>>
    BY <1>1 DEF Ask, tickVars
  <2>. QED  BY <2>1, <2>2, SlotStep
<1>2. CASE Refuse(s)
  <2>1. phase[s] = "asked" /\ task[s] = "none"
    BY <1>2 DEF Refuse, StreamInv, Quiet
  <2>2. /\ phase' = [phase EXCEPT ![s] = "idle"]
        /\ who' = [who EXCEPT ![s] = NoOne] /\ token' = [token EXCEPT ![s] = NoOne]
        /\ UNCHANGED <<task, live>>
    BY <1>2 DEF Refuse, tickVars
  <2>. QED  BY <2>1, <2>2, SlotStep
<1>3. CASE Start(s)
  BY <1>3, StartStep
<1>4. CASE StartGone(s)
  <2>1. {s} \union Displaced(s) \in SUBSET Subs
    BY <1>4 DEF StartGone, Displaced, StreamInv, Types, Named
  <2>. QED  BY <1>4, <2>1, FinishStep DEF StartGone, requestVars
<1>5. CASE Leave(s)
  BY <1>5, FinishStep DEF Leave
<1>6. CASE Forget(s)
  <2>1. phase[s] = "closed" /\ task[s] = "none"
    BY <1>6 DEF Forget
  <2>2. /\ phase' = [phase EXCEPT ![s] = "idle"]
        /\ who' = [who EXCEPT ![s] = NoOne] /\ token' = [token EXCEPT ![s] = NoOne]
        /\ UNCHANGED <<task, live>>
    BY <1>6 DEF Forget, tickVars
  <2>. QED  BY <2>1, <2>2, SlotStep
<1>. QED  BY <1>1, <1>2, <1>3, <1>4, <1>5, <1>6

LEMMA CaughtStep ==
  ASSUME StreamInv, NEW s \in Subs, NEW count, Caught(s, count)
  PROVE  StreamInv'
<1>1. CASE count + 1 >= MaxErrors
  BY <1>1, FinishStep DEF Caught, requestVars
<1>2. CASE ~(count + 1 >= MaxErrors)
  <2>1. /\ phase[s] = "open" /\ UNCHANGED <<live, phase, who, token>>
        /\ task' = [task EXCEPT ![s] = "timer"]
    BY <1>2 DEF Caught, Reading, Schedule, requestVars
  <2>. QED  BY <2>1, OpenStep
<1>. QED  BY <1>1, <1>2

LEMMA StreamStep ==
  ASSUME StreamInv, NEW s \in Subs,
         \/ Tick(s) \/ ReadReturns(s) \/ ReadComesLate(s)
  PROVE  StreamInv'
<1>1. CASE TickEnds(s) \/ FrameRejected(s)
  BY <1>1, FinishStep DEF TickEnds, FrameRejected, requestVars
<1>2. CASE TickSkips(s)
  BY <1>2, OpenStep DEF TickSkips, Due, Schedule, requestVars
<1>3. CASE TickReads(s)
  BY <1>3, OpenStep DEF TickReads, Due, requestVars
<1>4. CASE ReadOk(s)
  <2>1. /\ phase[s] = "open" /\ UNCHANGED <<live, phase, who, token>>
        /\ task' = [task EXCEPT ![s] = "timer"]
    BY <1>4 DEF ReadOk, Reading, Schedule, requestVars
  <2>. QED  BY <2>1, OpenStep
<1>5. CASE ReadFails(s)
  BY <1>5, CaughtStep DEF ReadFails
<1>6. CASE ConvertFails(s)
  BY <1>6, CaughtStep DEF ConvertFails
<1>7. CASE ReadComesLate(s)
  <2>1. /\ phase[s] = "closed" /\ UNCHANGED <<live, phase, who, token>>
        /\ task' = [task EXCEPT ![s] = "none"]
    BY <1>7 DEF ReadComesLate, requestVars
  <2>2. Types'
    BY <2>1 DEF StreamInv, Types
  <2>. QED  BY <2>1, <2>2 DEF StreamInv, Types, Quiet, Named, RegistryMatches, TimersAreOpen, OpenIsDriven, Open
<1>. QED  BY <1>1, <1>2, <1>3, <1>4, <1>5, <1>6, <1>7 DEF Tick, ReadReturns

LEMMA OtherStep ==
  ASSUME StreamInv,
         \/ \E i \in Identities, t \in Tokens : Issue(i, t)
         \/ \E t \in Tokens : Revoke(t)
         \/ \E s \in Subs : Keepalive(s) \/ Pull(s) \/ Drop(s)
         \/ Close \/ Time \/ UNCHANGED vars
  PROVE  StreamInv'
<1>1. CASE Close
  BY <1>1, FinishStep DEF Close, Open, requestVars
<1>2. CASE ~Close
  <2>1. UNCHANGED <<live, phase, who, token, task>>
    BY <1>2 DEF Issue, Revoke, Keepalive, Pull, Drop, Time, vars, requestVars, tickVars
  <2>. QED  BY <2>1 DEF StreamInv, Types, Quiet, Named, RegistryMatches, TimersAreOpen, OpenIsDriven, Open
<1>. QED  BY <1>1, <1>2

LEMMA Inductive == StreamInv /\ [Next]_vars => StreamInv'
  BY SubscriberStep, StreamStep, OtherStep DEF Next

(***************************************************************************)
(* The caps: only a stream that starts is new among the open ones, and it  *)
(* starts below both limits.                                               *)
(***************************************************************************)
LEMMA SmallerSet ==
  ASSUME NEW S \in SUBSET Subs, NEW T \in SUBSET S
  PROVE  Cardinality(T) \in Nat /\ Cardinality(S) \in Nat /\ Cardinality(T) <= Cardinality(S)
  BY FiniteAssumption, FS_Subset, FS_CardinalityType

LEMMA OneMore ==
  ASSUME NEW S \in SUBSET Subs, NEW s \in Subs, NEW T \in SUBSET (S \union {s}),
         NEW limit \in Nat, ~(Cardinality(S) >= limit)
  PROVE  Cardinality(T) <= limit
<1>1. IsFiniteSet(S)
  BY FiniteAssumption, FS_Subset
<1>2. Cardinality(S \union {s}) <= Cardinality(S) + 1
  <2>1. Cardinality(S \union {s}) = IF s \in S THEN Cardinality(S) ELSE Cardinality(S) + 1
    BY <1>1, FS_AddElement
  <2>2. Cardinality(S) \in Nat
    BY <1>1, FS_CardinalityType
  <2>. QED  BY <2>1, <2>2
<1>3. Cardinality(T) <= Cardinality(S \union {s}) /\ Cardinality(T) \in Nat
  BY SmallerSet
<1>4. Cardinality(S) \in Nat /\ Cardinality(S \union {s}) \in Nat
  BY SmallerSet
<1>. QED  BY <1>2, <1>3, <1>4

LEMMA StartKeepsCaps ==
  ASSUME StreamInv, CapsHold, NEW s \in Subs, Start(s)
  PROVE  CapsHold'
<1>1. /\ Open \in SUBSET Subs /\ \A i \in Identities : OpenFor(i) \in SUBSET Subs
      /\ ~Full /\ ~FullFor(who[s]) /\ who[s] \in Identities /\ who' = who
      /\ \A r \in Subs : phase'[r] = "open" => phase[r] = "open" \/ r = s
  BY DEF Start, Accepted, Inert, requestVars, Open, OpenFor, StreamInv, Named, Types
<1>2. Open' \in SUBSET (Open \union {s})
  BY <1>1 DEF Open
<1>3. Cardinality(Open') <= MaxTotal
  BY <1>1, <1>2, OneMore, LimitsAssumption DEF Full
<1>4. ASSUME NEW i \in Identities PROVE Cardinality(OpenFor(i)') <= MaxPerIdentity
  <2>1. CASE i = who[s]
    <3>1. OpenFor(i)' \in SUBSET (OpenFor(i) \union {s})
      BY <1>1 DEF OpenFor, Open
    <3>. QED  BY <1>1, <2>1, <3>1, OneMore, LimitsAssumption DEF FullFor
  <2>2. CASE i # who[s]
    <3>1. OpenFor(i)' \in SUBSET OpenFor(i)
      BY <1>1, <2>2 DEF OpenFor, Open
    <3>2. Cardinality(OpenFor(i)) <= MaxPerIdentity
      BY DEF CapsHold
    <3>. QED  BY <1>1, <3>1, <3>2, SmallerSet, LimitsAssumption
  <2>. QED  BY <2>1, <2>2
<1>. QED  BY <1>3, <1>4 DEF CapsHold

\* Whoever streams is the same as before.
Same(r) == who'[r] = who[r] /\ token'[r] = token[r]

LEMMA OthersOpenNone ==
  ASSUME StreamInv, [Next]_vars, \A s \in Subs : ~Start(s)
  PROVE  \A r \in Subs : phase'[r] = "open" => phase[r] = "open" /\ Same(r)
<1>1. ASSUME NEW S \in SUBSET Subs, Finish(S), UNCHANGED <<who, token>>
      PROVE  \A r \in Subs : phase'[r] = "open" => phase[r] = "open" /\ Same(r)
  BY <1>1 DEF Finish, Inert, Same
<1>2. ASSUME NEW s \in Subs,
             \/ \E i \in Identities, t \in Tokens : Ask(s, i, t)
             \/ Refuse(s) \/ Forget(s)
      PROVE  \A r \in Subs : phase'[r] = "open" => phase[r] = "open" /\ Same(r)
  BY <1>2 DEF Ask, Refuse, Forget, StreamInv, Types, Same
<1>3. ASSUME NEW s \in Subs, StartGone(s) \/ Leave(s)
      PROVE  \A r \in Subs : phase'[r] = "open" => phase[r] = "open" /\ Same(r)
  <2>1. CASE StartGone(s)
    <3>1. {s} \union Displaced(s) \in SUBSET Subs
      BY <2>1 DEF StartGone, Displaced, StreamInv, Types, Named
    <3>. QED  BY <1>1, <2>1, <3>1 DEF StartGone, requestVars
  <2>2. CASE Leave(s)
    BY <1>1, <2>2 DEF Leave
  <2>. QED  BY <1>3, <2>1, <2>2
<1>4. ASSUME NEW s \in Subs, Tick(s) \/ ReadReturns(s)
      PROVE  \A r \in Subs : phase'[r] = "open" => phase[r] = "open" /\ Same(r)
  <2>1. \/ Finish({s}) /\ UNCHANGED <<who, token>>
        \/ UNCHANGED <<phase, who, token>>
    BY <1>4 DEF Tick, TickEnds, TickSkips, TickReads, ReadReturns, ReadOk, ReadFails,
                ConvertFails, Caught, FrameRejected, requestVars
  <2>. QED  BY <1>1, <2>1 DEF Same
<1>5. CASE Close
  BY <1>1, <1>5 DEF Close, Open, requestVars
<1>6. CASE \/ \E s \in Subs : ReadComesLate(s) \/ Keepalive(s) \/ Pull(s) \/ Drop(s)
           \/ \E i \in Identities, t \in Tokens : Issue(i, t)
           \/ \E t \in Tokens : Revoke(t)
           \/ Time \/ UNCHANGED vars
  BY <1>6 DEF ReadComesLate, Keepalive, Pull, Drop, Issue, Revoke, Time, vars, requestVars, Same
<1>. QED  BY <1>2, <1>3, <1>4, <1>5, <1>6 DEF Next

LEMMA CapStep == StreamInv /\ CapsHold /\ [Next]_vars => CapsHold'
<1> SUFFICES ASSUME StreamInv, CapsHold, [Next]_vars PROVE CapsHold'
  OBVIOUS
<1>1. CASE \E s \in Subs : Start(s)
  BY <1>1, StartKeepsCaps
<1>2. CASE \A s \in Subs : ~Start(s)
  <2>1. Open' \in SUBSET Open /\ \A i \in Identities : OpenFor(i)' \in SUBSET OpenFor(i)
    BY <1>2, OthersOpenNone DEF Open, OpenFor, Same
  <2>2. Open \in SUBSET Subs /\ \A i \in Identities : OpenFor(i) \in SUBSET Subs
    BY DEF Open, OpenFor
  <2>. QED  BY <2>1, <2>2, SmallerSet, LimitsAssumption DEF CapsHold
<1>. QED  BY <1>1, <1>2

LEMMA Initial == Init => StreamInv
  BY NoOneAssumption DEF Init, StreamInv, Types, Quiet, Named, RegistryMatches, TimersAreOpen, OpenIsDriven, Open

LEMMA Invariance == Spec => []StreamInv
  BY Initial, Inductive, PTL DEF Spec

LEMMA CapsInitially == Init => CapsHold
<1> SUFFICES ASSUME Init PROVE CapsHold
  OBVIOUS
<1>1. Open = {} /\ \A i \in Identities : OpenFor(i) = {}
  BY DEF Init, Open, OpenFor
<1>. QED  BY <1>1, FS_EmptySet, LimitsAssumption DEF CapsHold

(***************************************************************************)
(* The registry of subscribe.ts 48-71 is exactly the open streams: one for *)
(* each token, through every displacement and every late finish.           *)
(***************************************************************************)
THEOREM OneStreamPerToken == Spec => []RegistryMatches
<1>1. StreamInv => RegistryMatches
  BY DEF StreamInv
<1>. QED  BY <1>1, Invariance, PTL

(***************************************************************************)
(* Neither limit on open streams is ever passed, though a request waits    *)
(* between its arrival and its check (subscribe.ts 117-142).               *)
(***************************************************************************)
THEOREM StreamCaps == Spec => []CapsHold
  BY CapsInitially, CapStep, Invariance, PTL DEF Spec
-----------------------------------------------------------------------------
\* Of some numbers one is the least.
LEMMA Least ==
  ASSUME NEW S \in SUBSET Nat, S # {}
  PROVE  \E n \in S : \A m \in S : n <= m
<1> DEFINE R == OpToRel(<, Nat)
<1>1. IsWellFoundedOn(R, Nat)
  BY NatLessThanWellFounded
<1>2. \A m, n \in Nat : m < n => <<m, n>> \in R
  BY DEF OpToRel
<1> HIDE DEF R
<1>3. PICK n \in S : \A m \in S : ~(<<m, n>> \in R)
  BY <1>1, WFMin
<1>4. ASSUME NEW m \in S PROVE n <= m
  <2>1. m \in Nat /\ n \in Nat
    OBVIOUS
  <2>2. ~(m < n)
    BY <1>2, <1>3, <2>1
  <2>. QED  BY <2>1, <2>2
<1>. QED  BY <1>4

LEMMA IntervalSize ==
  ASSUME NEW n \in Nat
  PROVE  IsFiniteSet(1..n) /\ Cardinality(1..n) = n
<1>1. Cardinality(1..n) = IF 1 > n THEN 0 ELSE n - 1 + 1
  BY FS_Interval
<1>2. Cardinality(1..n) = n
  BY <1>1
<1>3. IsFiniteSet(1..n)
  BY FS_Interval
<1>. QED  BY <1>2, <1>3

UpTo(P, n) == {m \in P : m <= n}

\* Of a finite set of numbers there is a k-th, for every k up to its size.
LEMMA Ranked ==
  ASSUME NEW P \in SUBSET Nat, IsFiniteSet(P), NEW k \in 1..Cardinality(P)
  PROVE  \E n \in P : Cardinality(UpTo(P, n)) = k
<1> DEFINE Unranked == {j \in 1..Cardinality(P) : \A n \in P : Cardinality(UpTo(P, n)) # j}
<1>1. Cardinality(P) \in Nat
  BY FS_CardinalityType
<1>2. \A T \in SUBSET P : IsFiniteSet(T) /\ Cardinality(T) \in Nat
  BY FS_Subset, FS_CardinalityType
<1>3. SUFFICES ASSUME Unranked # {} PROVE FALSE
  OBVIOUS
<1>4. PICK j \in Unranked : \A m \in Unranked : j <= m
  <2>1. Unranked \in SUBSET Nat
    BY <1>1
  <2>. QED  BY <1>3, <2>1, Least
<1>5. j \in 1..Cardinality(P) /\ \A n \in P : Cardinality(UpTo(P, n)) # j
  OBVIOUS
\* Below the j-th lie the j - 1 that are ranked before it.
<1>6. PICK T \in SUBSET P : /\ Cardinality(T) = j - 1
                            /\ \A m \in T, n \in P \ T : m <= n
  <2>1. CASE j = 1
    <3>1. Cardinality({}) = 0
      BY FS_EmptySet
    <3>. QED  BY <2>1, <3>1
  <2>2. CASE j # 1
    <3>1. j - 1 \in 1..Cardinality(P) /\ ~(j - 1 \in Unranked)
      BY <1>1, <1>4, <1>5, <2>2
    <3>2. PICK n \in P : Cardinality(UpTo(P, n)) = j - 1
      BY <3>1
    <3>3. UpTo(P, n) \in SUBSET P /\ \A m \in UpTo(P, n), l \in P \ UpTo(P, n) : m <= l
      BY DEF UpTo
    <3>. QED  BY <3>2, <3>3
  <2>. QED  BY <2>1, <2>2
<1>7. P \ T # {}
  <2>1. ~(Cardinality(P) = j - 1)
    BY <1>1, <1>5
  <2>2. P \ T = {} => T = P
    OBVIOUS
  <2>. QED  BY <1>6, <2>1, <2>2
<1>8. PICK n \in P \ T : \A m \in P \ T : n <= m
  <2>1. P \ T \in SUBSET Nat
    OBVIOUS
  <2>. QED  BY <1>7, <2>1, Least
<1>9. UpTo(P, n) = T \union {n}
  <2>1. \A m \in P : m \in Nat
    OBVIOUS
  <2>2. \A m \in P : m <= n /\ n <= m => m = n
    BY <2>1
  <2>3. n <= n
    BY <2>1
  <2>. QED  BY <1>6, <1>8, <2>2, <2>3 DEF UpTo
<1>10. Cardinality(UpTo(P, n)) = j
  <2>1. Cardinality(T \union {n}) = Cardinality(T) + 1
    BY <1>2, <1>8, FS_AddElement
  <2>. QED  BY <1>5, <1>6, <1>9, <2>1
<1>. QED  BY <1>5, <1>8, <1>10

(***************************************************************************)
(* What Only picks are entries of the log that are in S, and it picks no   *)
(* more of them than there are.                                            *)
(***************************************************************************)
LEMMA OnlyPicks ==
  ASSUME NEW log \in Seq(Tokens), NEW S
  PROVE  /\ Only(log, S) \in Seq(Tokens)
         /\ Members(Only(log, S)) \subseteq Members(log) \cap S
         /\ Len(Only(log, S)) <= Len(log)
         /\ Members(log) \cap S # {} => Only(log, S) # <<>>
<1> DEFINE at == {n \in 1..Len(log) : log[n] \in S}
           nth(k) == CHOOSE n \in at : Cardinality({m \in at : m <= n}) = k
<1>1. /\ IsFiniteSet(1..Len(log)) /\ Cardinality(1..Len(log)) = Len(log)
  <2>1. Len(log) \in Nat
    OBVIOUS
  <2>. QED  BY <2>1, IntervalSize
<1>2. /\ IsFiniteSet(at) /\ Cardinality(at) \in Nat /\ Cardinality(at) <= Len(log)
  BY <1>1, FS_Subset, FS_CardinalityType
<1>3. \A k \in 1..Cardinality(at) : nth(k) \in at
  <2>1. TAKE k \in 1..Cardinality(at)
  <2>2. at \in SUBSET Nat
    OBVIOUS
  <2> HIDE DEF at
  <2>3. \E n \in at : Cardinality({m \in at : m <= n}) = k
    BY <1>2, <2>2, Ranked DEF UpTo
  <2>. QED  BY <2>3
<1>4. Only(log, S) = [k \in 1..Cardinality(at) |-> log[nth(k)]]
  BY DEF Only
<1>5. at = {} => ~(Members(log) \cap S # {})
  BY DEF Members
<1>6. at # {} => Cardinality(at) # 0
  BY <1>2, FS_EmptySet
<1>7. \A n \in at : log[n] \in Tokens /\ log[n] \in Members(log) \cap S
  BY DEF Members
<1> HIDE DEF nth, at
<1>8. Only(log, S) \in Seq(Tokens) /\ Len(Only(log, S)) = Cardinality(at)
  BY <1>2, <1>3, <1>4, <1>7
<1>9. Members(Only(log, S)) \subseteq Members(log) \cap S
  BY <1>3, <1>4, <1>7, <1>8 DEF Members
<1>10. Members(log) \cap S # {} => Len(Only(log, S)) # 0
  BY <1>5, <1>6, <1>8
<1>. QED  BY <1>2, <1>8, <1>9, <1>10
-----------------------------------------------------------------------------
(***************************************************************************)
(* The store.  A record keeps the identity it was issued to, so the owner  *)
(* of the token of an open stream is its caller for as long as the store   *)
(* has the token: tokens are never issued twice.                           *)
(***************************************************************************)
StoreTypes ==
  /\ records \in Seq(Tokens)
  /\ owner \in [Tokens -> Identities \union {NoOne}]
  /\ left \in [Tokens -> Nat]

OwnersAgree == \A s \in Open : token[s] \in Members(records) => owner[token[s]] = who[s]

StoreInv == StoreTypes /\ StoreBounded /\ OwnersAgree

\* The store loses records, or none, and time may pass.
Shrinks ==
  /\ StoreTypes'
  /\ Members(records)' \subseteq Members(records)
  /\ Len(records') <= Len(records)
  /\ \A t \in Members(records)' : owner'[t] = owner[t]

LEMMA MembersAreTokens ==
  ASSUME NEW log \in Seq(Tokens) PROVE Members(log) \in SUBSET Tokens
  BY DEF Members

LEMMA FewerTokens ==
  ASSUME NEW S \in SUBSET Tokens, NEW T \in SUBSET S
  PROVE  /\ Cardinality(T) \in Nat /\ Cardinality(S) \in Nat
         /\ Cardinality(T) <= Cardinality(S)
         /\ \A t \in S : ~(t \in T) => Cardinality(T) + 1 <= Cardinality(S)
<1>1. IsFiniteSet(S) /\ IsFiniteSet(T)
  BY FiniteAssumption, FS_Subset
<1>2. /\ Cardinality(T) \in Nat /\ Cardinality(S) \in Nat
      /\ Cardinality(T) <= Cardinality(S)
  BY <1>1, FS_Subset, FS_CardinalityType
<1>3. ASSUME NEW t \in S, ~(t \in T) PROVE Cardinality(T) + 1 <= Cardinality(S)
  <2>1. Cardinality(T \union {t}) = Cardinality(T) + 1
    BY <1>1, <1>3, FS_AddElement
  <2>2. T \union {t} \in SUBSET S
    OBVIOUS
  <2>3. Cardinality(T \union {t}) <= Cardinality(S)
    BY <1>1, <2>2, FS_Subset
  <2>. QED  BY <2>1, <2>3
<1>. QED  BY <1>2, <1>3

LEMMA WithoutLoses ==
  ASSUME NEW log \in Seq(Tokens), NEW t
  PROVE  /\ Without(log, t) \in Seq(Tokens)
         /\ Members(Without(log, t)) \subseteq Members(log) \ {t}
         /\ Len(Without(log, t)) <= Len(log)
  BY OnlyPicks DEF Without

LEMMA HoldShrinks ==
  ASSUME StoreTypes, NEW log \in Seq(Tokens), Hold(log),
         Members(log) \subseteq Members(records), Len(log) <= Len(records)
  PROVE  Shrinks
<1>1. /\ records' = log
      /\ owner' = [t \in Tokens |-> IF t \in Members(log) THEN owner[t] ELSE NoOne]
      /\ left' = [t \in Tokens |-> IF t \in Members(log) THEN left[t] ELSE 0]
  BY DEF Hold
<1>2. Members(records)' = Members(log) /\ Members(log) \in SUBSET Tokens
  BY <1>1, MembersAreTokens DEF Members
<1>3. StoreTypes'
  BY <1>1 DEF StoreTypes
<1>. QED  BY <1>1, <1>2, <1>3 DEF Shrinks

LEMMA GetShrinks ==
  ASSUME StoreTypes, NEW t, Get(t)
  PROVE  Shrinks
<1>1. records \in Seq(Tokens)
  BY DEF StoreTypes
<1>2. CASE left[t] > 0
  BY <1>1, <1>2, HoldShrinks DEF Get, StoreTypes
<1>3. CASE ~(left[t] > 0)
  <2>1. Hold(Without(records, t))
    BY <1>3 DEF Get
  <2>. QED  BY <1>1, <2>1, WithoutLoses, HoldShrinks
<1>. QED  BY <1>2, <1>3

LEMMA StillShrinks ==
  ASSUME StoreTypes, UNCHANGED storeVars
  PROVE  Shrinks
  BY DEF storeVars, Shrinks, StoreTypes, Members

LEMMA OnlyIssueAdds ==
  ASSUME StoreTypes, [Next]_vars, \A i \in Identities, t \in Tokens : ~Issue(i, t)
  PROVE  Shrinks
<1>1. ASSUME NEW t \in Tokens, Revoke(t) PROVE Shrinks
  <2>1. Hold(Without(records, t)) /\ records \in Seq(Tokens)
    BY <1>1 DEF Revoke, StoreTypes
  <2>. QED  BY <2>1, WithoutLoses, HoldShrinks
<1>2. CASE Time
  <2>1. left' \in [Tokens -> Nat]
    BY <1>2 DEF Time, StoreTypes
  <2>. QED  BY <1>2, <2>1 DEF Time, Shrinks, StoreTypes, Members
<1>3. ASSUME NEW s \in Subs, Refuse(s) \/ TickEnds(s) PROVE Shrinks
  <2>1. (\E t : Get(t)) \/ UNCHANGED storeVars
    BY <1>3 DEF Refuse, TickEnds
  <2>. QED  BY <2>1, GetShrinks, StillShrinks
<1>4. CASE \/ Close \/ UNCHANGED vars
           \/ \E s \in Subs :
                \/ \E i \in Identities, t \in Tokens : Ask(s, i, t)
                \/ Start(s) \/ StartGone(s) \/ Leave(s) \/ TickSkips(s) \/ TickReads(s)
                \/ ReadReturns(s) \/ ReadComesLate(s) \/ Keepalive(s) \/ Pull(s) \/ Drop(s) \/ Forget(s)
  <2>1. UNCHANGED storeVars
    BY <1>4 DEF Close, vars, Ask, Start, StartGone, Leave, TickSkips, TickReads, ReadReturns, ReadOk,
                ReadFails, ConvertFails, Caught, FrameRejected, ReadComesLate, Keepalive, Pull, Drop, Forget
  <2>. QED  BY <2>1, StillShrinks
<1>. QED  BY <1>1, <1>2, <1>3, <1>4 DEF Next, Tick

LEMMA MineShrinks ==
  ASSUME StoreInv, Shrinks
  PROVE  StoreBounded'
<1>1. Len(records') <= MaxTotal
  BY LimitsAssumption DEF StoreInv, StoreTypes, StoreBounded, Shrinks
<1>2. ASSUME NEW i \in Identities PROVE Cardinality(Mine(records, i)') <= MaxPerIdentity
  <2>1. Mine(records, i)' \in SUBSET Mine(records, i) /\ Mine(records, i) \in SUBSET Tokens
    BY DEF Mine, Issued, Shrinks
  <2>2. Cardinality(Mine(records, i)) <= MaxPerIdentity
    BY DEF StoreInv, StoreBounded
  <2>. QED  BY <2>1, <2>2, FewerTokens, LimitsAssumption
<1>. QED  BY <1>1, <1>2 DEF StoreBounded

(***************************************************************************)
(* issue: expired records go, the first of an identity at its limit, then  *)
(* the first of the store; the new one brings it to the limit at most.     *)
(***************************************************************************)
LEMMA SpareMineSpares ==
  ASSUME NEW log \in Seq(Tokens), NEW i, Cardinality(Mine(log, i)) <= MaxPerIdentity
  PROVE  /\ SpareMine(log, i) \in Seq(Tokens)
         /\ Members(SpareMine(log, i)) \subseteq Members(log)
         /\ Len(SpareMine(log, i)) <= Len(log)
         /\ Cardinality(Mine(SpareMine(log, i), i)) < MaxPerIdentity
<1> DEFINE first == Head(Only(log, Issued(i)))
<1>1. Mine(log, i) \in SUBSET Tokens
  BY DEF Mine, Issued
<1>2. Cardinality(Mine(log, i)) \in Nat /\ MaxPerIdentity \in Nat /\ MaxPerIdentity >= 1
  BY <1>1, FewerTokens, LimitsAssumption
<1>3. CASE Cardinality(Mine(log, i)) >= MaxPerIdentity
  <2>1. SpareMine(log, i) = Without(log, first)
    BY <1>3 DEF SpareMine
  <2>2. Mine(log, i) # {}
    BY <1>2, <1>3, FS_EmptySet
  <2>3. first \in Mine(log, i)
    <3>1. Only(log, Issued(i)) \in Seq(Tokens) /\ Only(log, Issued(i)) # <<>>
      BY <2>2, OnlyPicks DEF Mine
    <3>2. first \in Members(Only(log, Issued(i)))
      BY <3>1 DEF Members
    <3>. QED  BY <3>2, OnlyPicks DEF Mine
  <2> HIDE DEF first
  <2>4. Mine(Without(log, first), i) \in SUBSET Mine(log, i) /\ ~(first \in Mine(Without(log, first), i))
    BY WithoutLoses DEF Mine
  <2>5. Cardinality(Mine(Without(log, first), i)) + 1 <= Cardinality(Mine(log, i))
    BY <1>1, <2>3, <2>4, FewerTokens
  <2>6. Cardinality(Mine(Without(log, first), i)) \in Nat
    BY <1>1, <2>4, FewerTokens
  <2>7. Cardinality(Mine(Without(log, first), i)) < MaxPerIdentity
    BY <1>2, <2>5, <2>6
  <2>8. Members(Without(log, first)) \subseteq Members(log)
    BY WithoutLoses
  <2>. QED  BY <2>1, <2>7, <2>8, WithoutLoses
<1>4. CASE ~(Cardinality(Mine(log, i)) >= MaxPerIdentity)
  <2>1. SpareMine(log, i) = log
    BY <1>4 DEF SpareMine
  <2>. QED  BY <1>2, <1>4, <2>1
<1>. QED  BY <1>3, <1>4

LEMMA SpareAnySpares ==
  ASSUME NEW log \in Seq(Tokens)
  PROVE  /\ SpareAny(log) \in Seq(Tokens)
         /\ Members(SpareAny(log)) \subseteq Members(log)
         /\ Len(SpareAny(log)) < MaxTotal
<1>1. Len(log) \in Nat /\ MaxTotal \in Nat /\ MaxTotal >= 1
  BY LimitsAssumption
<1>2. CASE Len(log) >= MaxTotal
  <2> DEFINE m == Len(log) - MaxTotal + 2
             kept == SubSeq(log, m, Len(log))
  <2>1. m \in Nat /\ m >= 1 /\ m <= Len(log) + 1
    BY <1>1, <1>2
  <2>2. /\ kept \in Seq(Tokens)
        /\ Len(kept) = MaxTotal - 1
        /\ \A k \in 1..Len(kept) : kept[k] = log[m + k - 1] /\ m + k - 1 \in 1..Len(log)
    BY <1>1, <1>2, <2>1, SMTT(30)
  <2> HIDE DEF kept
  <2>3. Members(kept) \subseteq Members(log)
    BY <2>2 DEF Members
  <2>4. SpareAny(log) = kept
    BY <1>2 DEF SpareAny, kept
  <2>. QED  BY <1>1, <2>2, <2>3, <2>4
<1>3. CASE ~(Len(log) >= MaxTotal)
  BY <1>1, <1>3 DEF SpareAny
<1>. QED  BY <1>2, <1>3

LEMMA IssueKeeps ==
  ASSUME StreamInv, StoreInv, NEW i \in Identities, NEW t \in Tokens, Issue(i, t)
  PROVE  StoreInv'
<1> DEFINE log == SpareAny(SpareMine(Current, i))
<1>1. /\ records \in Seq(Tokens) /\ Cardinality(Mine(records, i)) <= MaxPerIdentity
      /\ \A j \in Identities : Mine(records, j) \in SUBSET Tokens
  BY DEF StoreInv, StoreTypes, StoreBounded, Mine, Issued
<1>2. Current \in Seq(Tokens) /\ Members(Current) \subseteq Members(records)
  BY <1>1, OnlyPicks DEF Current
<1>3. Cardinality(Mine(Current, i)) <= MaxPerIdentity
  <2>1. Mine(Current, i) \in SUBSET Mine(records, i)
    BY <1>2 DEF Mine
  <2>. QED  BY <1>1, <2>1, FewerTokens, LimitsAssumption
<1>4. PICK mid \in Seq(Tokens) :
        /\ mid = SpareMine(Current, i)
        /\ Members(mid) \subseteq Members(records)
        /\ Cardinality(Mine(mid, i)) < MaxPerIdentity
  BY <1>2, <1>3, SpareMineSpares
<1>5. /\ log \in Seq(Tokens) /\ Len(log) < MaxTotal
      /\ Members(log) \subseteq Members(mid) /\ Members(log) \subseteq Members(records)
  BY <1>4, SpareAnySpares
<1>6. /\ ~(t \in Members(records)) /\ \A s \in Subs : token[s] # t
      /\ records' = Append(log, t)
      /\ owner' = [u \in Tokens |-> IF u = t THEN i ELSE IF u \in Members(log) THEN owner[u] ELSE NoOne]
      /\ left' = [u \in Tokens |-> IF u = t THEN TokenTtl ELSE IF u \in Members(log) THEN left[u] ELSE 0]
      /\ UNCHANGED <<phase, token, who>>
  BY DEF Issue, requestVars
<1> HIDE DEF log
<1>7. Members(records)' = Members(log) \union {t}
  <2>1. Members(Append(log, t)) = Members(log) \union {t}
    BY <1>5 DEF Members
  <2>. QED  BY <1>6, <2>1 DEF Members
<1>8. StoreTypes'
  <2>1. left' \in [Tokens -> Nat]
    BY <1>6, LimitsAssumption DEF StoreInv, StoreTypes
  <2>. QED  BY <1>5, <1>6, <2>1 DEF StoreInv, StoreTypes
<1>9. Len(records') <= MaxTotal
  BY <1>5, <1>6, LimitsAssumption
<1>10. ASSUME NEW j \in Identities PROVE Cardinality(Mine(records, j)') <= MaxPerIdentity
  <2>1. CASE j = i
    <3>1. Mine(records, j)' \in SUBSET (Mine(mid, i) \union {t})
      BY <1>5, <1>6, <1>7, <2>1 DEF Mine, Issued
    <3>2. Mine(mid, i) \union {t} \in SUBSET Tokens /\ Mine(mid, i) \in SUBSET Tokens
      BY DEF Mine, Issued
    <3>3. IsFiniteSet(Mine(mid, i)) /\ Cardinality(Mine(mid, i)) \in Nat
      BY <3>2, FiniteAssumption, FS_Subset, FS_CardinalityType
    <3>4. Cardinality(Mine(mid, i) \union {t}) <= Cardinality(Mine(mid, i)) + 1
      <4> DEFINE M == Mine(mid, i)
      <4>1. IsFiniteSet(M) /\ Cardinality(M) \in Nat
        BY <3>3
      <4> HIDE DEF M
      <4>2. Cardinality(M \union {t}) = IF t \in M THEN Cardinality(M) ELSE Cardinality(M) + 1
        BY <4>1, FS_AddElement
      <4>3. Cardinality(M \union {t}) <= Cardinality(M) + 1
        BY <4>1, <4>2
      <4>. QED  BY <4>3 DEF M
    <3>5. /\ Cardinality(Mine(records, j)') <= Cardinality(Mine(mid, i) \union {t})
          /\ Cardinality(Mine(records, j)') \in Nat /\ Cardinality(Mine(mid, i) \union {t}) \in Nat
      BY <3>1, <3>2, FewerTokens
    <3>. QED  BY <1>4, <3>3, <3>4, <3>5, LimitsAssumption
  <2>2. CASE j # i
    <3>1. Mine(records, j)' \in SUBSET Mine(records, j)
      BY <1>5, <1>6, <1>7, <2>2 DEF Mine, Issued
    <3>2. Cardinality(Mine(records, j)) <= MaxPerIdentity
      BY DEF StoreInv, StoreBounded
    <3>. QED  BY <1>1, <3>1, <3>2, FewerTokens, LimitsAssumption
  <2>. QED  BY <2>1, <2>2
<1>11. OwnersAgree'
  <2>1. SUFFICES ASSUME NEW s \in Subs, phase[s] = "open", token[s] \in Members(log) \union {t}
                 PROVE  owner'[token[s]] = who[s]
    BY <1>6, <1>7 DEF OwnersAgree, Open
  <2>2. token[s] \in Members(records) /\ token[s] # t /\ token[s] \in Members(log) /\ token[s] \in Tokens
    BY <1>1, <1>5, <1>6, <2>1, MembersAreTokens
  <2>. QED  BY <1>6, <2>1, <2>2 DEF StoreInv, OwnersAgree, Open
<1>. QED  BY <1>8, <1>9, <1>10, <1>11 DEF StoreInv, StoreBounded

LEMMA StoreStep == StreamInv /\ StoreInv /\ [Next]_vars => StoreInv'
<1> SUFFICES ASSUME StreamInv, StoreInv, [Next]_vars PROVE StoreInv'
  OBVIOUS
<1>1. ASSUME NEW i \in Identities, NEW t \in Tokens, Issue(i, t) PROVE StoreInv'
  BY <1>1, IssueKeeps
<1>2. CASE \A i \in Identities, t \in Tokens : ~Issue(i, t)
  <2>1. Shrinks
    BY <1>2, OnlyIssueAdds DEF StoreInv
  <2>2. OwnersAgree'
    <3>1. ASSUME NEW s \in Subs, Start(s) PROVE OwnersAgree'
      <4>1. /\ owner[token[s]] = who[s] /\ UNCHANGED <<records, owner, who, token>>
            /\ \A r \in Subs : phase'[r] = "open" => phase[r] = "open" \/ r = s
        BY <3>1 DEF Start, Accepted, Inert, requestVars, storeVars, StreamInv, Types
      <4>. QED  BY <4>1 DEF StoreInv, OwnersAgree, Open, Members
    <3>2. CASE \A s \in Subs : ~Start(s)
      <4>1. \A r \in Subs : phase'[r] = "open" => phase[r] = "open" /\ Same(r)
        BY <3>2, OthersOpenNone
      <4>. QED  BY <2>1, <4>1 DEF StoreInv, OwnersAgree, Open, Same, Shrinks
    <3>. QED  BY <3>1, <3>2
  <2>. QED  BY <2>1, <2>2, MineShrinks DEF StoreInv, Shrinks
<1>. QED  BY <1>1, <1>2

LEMMA StoreInitially == Init => StoreInv
<1> SUFFICES ASSUME Init PROVE StoreInv
  OBVIOUS
<1>1. StoreTypes /\ OwnersAgree /\ Len(records) <= MaxTotal
  BY LimitsAssumption DEF Init, StoreTypes, OwnersAgree, Open
<1>2. ASSUME NEW i \in Identities PROVE Cardinality(Mine(records, i)) <= MaxPerIdentity
  <2>1. Mine(records, i) = {}
    BY DEF Init, Mine, Members
  <2>. QED  BY <2>1, FS_EmptySet, LimitsAssumption
<1>. QED  BY <1>1, <1>2 DEF StoreInv, StoreBounded

-----------------------------------------------------------------------------
(***************************************************************************)
(* What waits for a reader.  Nothing before a stream is open, no closed    *)
(* frame while it is, and then at most one, at the end.                    *)
(***************************************************************************)
Frames == Seq({"comment", "data", "closed"})

FramesOf(s) ==
  /\ queue[s] \in Frames
  /\ phase[s] \in {"idle", "asked"} => queue[s] = <<>>
  /\ phase[s] = "open" => \A n \in 1..Len(queue[s]) : queue[s][n] # "closed"
  /\ phase[s] = "closed" => NoneAfterClosed(queue[s])

FramesInv == queue \in [Subs -> Frames] /\ \A s \in Subs : FramesOf(s)

\* While a read is out there is room for one more snapshot, so a read that
\* returns never passes the depth of the queue.
RoomFor(s) ==
  /\ Cardinality(DataIn(queue[s])) <= QueueDepth
  /\ phase[s] = "open" /\ task[s] = "read" => Cardinality(DataIn(queue[s])) < QueueDepth

RoomInv == \A s \in Subs : RoomFor(s)

\* What a step may do to the frames of one stream.
Keeps(s) ==
  /\ queue'[s] = queue[s]
  /\ \/ phase'[s] = phase[s]
     \/ phase'[s] = "closed" /\ phase[s] \in {"asked", "open"}
     \/ phase'[s] \in {"idle", "asked"} /\ queue[s] = <<>>
  /\ task'[s] = "read" => task[s] = "read" \/ ~(Len(queue[s]) >= QueueDepth)
  /\ phase'[s] = "open" => phase[s] = "open"

Begins(s) ==
  /\ phase[s] = "asked" /\ phase'[s] = "open" /\ queue'[s] = <<"comment">>

Writes(s) ==
  /\ phase[s] = "open" /\ phase'[s] = "open"
  /\ \/ queue'[s] = queue[s] \o <<"comment">> /\ task'[s] = task[s]
     \/ queue'[s] = queue[s] \o <<"data">> /\ task[s] = "read" /\ task'[s] = "timer"

Ends(s) ==
  /\ phase[s] = "open" /\ phase'[s] = "closed"
  /\ \/ queue'[s] = queue[s] \o <<"closed">>
     \/ queue'[s] = queue[s] \o <<"data", "closed">> /\ task[s] = "read"

Takes(s) ==
  /\ queue[s] # <<>> /\ queue'[s] = Tail(queue[s])
  /\ phase'[s] = phase[s] /\ task'[s] = task[s]

Empties(s) == phase'[s] = "closed" /\ queue'[s] = <<>>

Moves(s) == Keeps(s) \/ Begins(s) \/ Writes(s) \/ Ends(s) \/ Takes(s) \/ Empties(s)

\* A function of the streams that says what each of them has to read.
Queued == queue' \in [Subs -> Frames]
AllMove == Queued /\ \A s \in Subs : Moves(s)

LEMMA FinishMoves ==
  ASSUME StreamInv, FramesInv, NEW S \in SUBSET Open, Finish(S), Send(S, <<"closed">>)
  PROVE  AllMove
<1>1. /\ phase' = [s \in Subs |-> IF s \in S THEN "closed" ELSE phase[s]]
      /\ task' = [s \in Subs |-> IF s \in S /\ task[s] = "timer" THEN "none" ELSE task[s]]
      /\ queue' = [s \in Subs |-> IF s \in S THEN queue[s] \o <<"closed">> ELSE queue[s]]
  BY DEF Finish, Inert, Stops, Send
<1>2. \A s \in Subs : queue[s] \o <<"closed">> \in Frames
  BY DEF FramesInv, FramesOf, Frames
<1>3. Queued
  BY <1>1, <1>2 DEF Queued, FramesInv, FramesOf
<1>4. ASSUME NEW s \in Subs PROVE Moves(s)
  <2>1. CASE s \in S
    BY <1>1, <2>1 DEF Moves, Ends, Open
  <2>2. CASE ~(s \in S)
    BY <1>1, <2>2 DEF Moves, Keeps
  <2>. QED  BY <2>1, <2>2
<1>. QED  BY <1>3, <1>4 DEF AllMove

LEMMA StartMoves ==
  ASSUME StreamInv, FramesInv, NEW r \in Subs, Start(r)
  PROVE  AllMove
<1>1. /\ phase[r] = "asked"
      /\ Displaced(r) \in SUBSET Open /\ ~(r \in Displaced(r))
  BY NoOneAssumption DEF Start, StreamInv, Types, Named, Displaced, RegistryMatches, Open
<1>2. /\ phase' = [[s \in Subs |-> IF s \in Displaced(r) THEN "closed" ELSE phase[s]] EXCEPT ![r] = "open"]
      /\ task' = [[s \in Subs |-> IF s \in Displaced(r) /\ task[s] = "timer" THEN "none" ELSE task[s]]
                    EXCEPT ![r] = IF QueueDepth > 1 THEN "read" ELSE "timer"]
      /\ queue' = [s \in Subs |-> IF s = r THEN <<"comment">>
                                  ELSE IF s \in Displaced(r) THEN Append(queue[s], "closed") ELSE queue[s]]
  BY DEF Start, Inert, Stops
<1>3. \A s \in Subs : /\ Append(queue[s], "closed") = queue[s] \o <<"closed">>
                      /\ Append(queue[s], "closed") \in Frames
  BY DEF FramesInv, FramesOf, Frames
<1>4. Queued
  <2>1. <<"comment">> \in Frames
    BY DEF Frames
  <2>. QED  BY <1>2, <1>3, <2>1 DEF Queued, FramesInv, FramesOf
<1>5. ASSUME NEW s \in Subs PROVE Moves(s)
  <2>1. CASE s = r
    BY <1>1, <1>2, <2>1 DEF Moves, Begins
  <2>2. CASE s # r /\ s \in Displaced(r)
    BY <1>1, <1>2, <1>3, <2>2 DEF Moves, Ends, Open
  <2>3. CASE s # r /\ ~(s \in Displaced(r))
    BY <1>2, <2>3 DEF Moves, Keeps
  <2>. QED  BY <2>1, <2>2, <2>3
<1>. QED  BY <1>4, <1>5 DEF AllMove

LEMMA LeavingMoves ==
  ASSUME StreamInv, FramesInv, NEW r \in Subs, StartGone(r) \/ Leave(r) \/ Forget(r)
  PROVE  AllMove
<1>1. CASE StartGone(r)
  <2>1. /\ phase[r] = "asked"
        /\ Displaced(r) \in SUBSET Open /\ ~(r \in Displaced(r))
    BY <1>1, NoOneAssumption DEF StartGone, StreamInv, Types, Named, Displaced, RegistryMatches, Open
  <2>2. /\ phase' = [s \in Subs |-> IF s \in {r} \union Displaced(r) THEN "closed" ELSE phase[s]]
        /\ task' = [s \in Subs |-> IF s \in {r} \union Displaced(r) /\ task[s] = "timer" THEN "none" ELSE task[s]]
        /\ queue' = [s \in Subs |-> IF s \in Displaced(r) THEN queue[s] \o <<"closed">> ELSE queue[s]]
    BY <1>1 DEF StartGone, Finish, Inert, Stops, Send
  <2>3. \A s \in Subs : queue[s] \o <<"closed">> \in Frames
    BY DEF FramesInv, FramesOf, Frames
  <2>4. Queued
    BY <2>2, <2>3 DEF Queued, FramesInv, FramesOf
  <2>5. ASSUME NEW s \in Subs PROVE Moves(s)
    <3>1. CASE s \in Displaced(r)
      BY <2>1, <2>2, <3>1 DEF Moves, Ends, Open
    <3>2. CASE ~(s \in Displaced(r))
      BY <2>1, <2>2, <3>2 DEF Moves, Keeps
    <3>. QED  BY <3>1, <3>2
  <2>. QED  BY <2>4, <2>5 DEF AllMove
<1>2. CASE Leave(r)
  <2>1. /\ phase[r] \in {"asked", "open"}
        /\ phase' = [s \in Subs |-> IF s = r /\ phase[r] = "open" THEN "closed" ELSE phase[s]]
        /\ task' = [s \in Subs |-> IF s = r /\ phase[r] = "open" /\ task[s] = "timer" THEN "none" ELSE task[s]]
        /\ \/ queue' = queue
           \/ phase[r] = "open" /\ queue' = [queue EXCEPT ![r] = <<>>]
    <3>1. CASE phase[r] = "open"
      BY <1>2, <3>1 DEF Leave, Finish, Inert, Stops
    <3>2. CASE phase[r] # "open"
      BY <1>2, <3>2 DEF Leave, Finish, Inert, Stops
    <3>. QED  BY <3>1, <3>2
  <2>2. Queued
    <3>1. <<>> \in Frames
      BY DEF Frames
    <3>. QED  BY <2>1, <3>1 DEF Queued, FramesInv
  <2>3. ASSUME NEW s \in Subs PROVE Moves(s)
    <3>1. CASE queue' = queue
      BY <2>1, <3>1 DEF Moves, Keeps
    <3>2. CASE phase[r] = "open" /\ queue' = [queue EXCEPT ![r] = <<>>]
      BY <2>1, <3>2 DEF Moves, Keeps, Empties, FramesInv
    <3>. QED  BY <2>1, <3>1, <3>2
  <2>. QED  BY <2>2, <2>3 DEF AllMove
<1>3. CASE Forget(r)
  <2>1. /\ phase' = [phase EXCEPT ![r] = "idle"] /\ queue[r] = <<>>
        /\ UNCHANGED <<task, queue>>
    BY <1>3 DEF Forget, tickVars
  <2>. QED  BY <2>1 DEF AllMove, Queued, FramesInv, Moves, Keeps, StreamInv, Types
<1>. QED  BY <1>1, <1>2, <1>3

\* One stream is written to, and stays open.
LEMMA WriteMoves ==
  ASSUME StreamInv, FramesInv, NEW r \in Subs, phase[r] = "open", UNCHANGED phase,
         NEW f \in {"comment", "data"}, Send({r}, <<f>>),
         f = "comment" => UNCHANGED task,
         f = "data" => task[r] = "read" /\ task' = [task EXCEPT ![r] = "timer"]
  PROVE  AllMove
<1>1. queue' = [s \in Subs |-> IF s = r THEN queue[s] \o <<f>> ELSE queue[s]]
  BY DEF Send
<1>2. \A s \in Subs : queue[s] \o <<f>> \in Frames
  BY DEF FramesInv, FramesOf, Frames
<1>3. Queued
  BY <1>1, <1>2 DEF Queued, FramesInv, FramesOf
<1>4. ASSUME NEW s \in Subs PROVE Moves(s)
  <2>1. CASE s = r
    BY <1>1, <2>1 DEF Moves, Writes, StreamInv, Types
  <2>2. CASE s # r
    BY <1>1, <2>2 DEF Moves, Keeps, StreamInv, Types
  <2>. QED  BY <2>1, <2>2
<1>. QED  BY <1>3, <1>4 DEF AllMove

LEMMA CaughtMoves ==
  ASSUME StreamInv, FramesInv, NEW r \in Subs, NEW count, Caught(r, count)
  PROVE  AllMove
<1>1. CASE count + 1 >= MaxErrors
  <2>1. /\ phase[r] = "open" /\ task[r] = "read"
        /\ phase' = [s \in Subs |-> IF s \in {r} THEN "closed" ELSE phase[s]]
        /\ task' = [s \in Subs |-> IF s \in {r} /\ task[s] = "timer" THEN "none" ELSE task[s]]
        /\ queue' = [s \in Subs |-> IF s \in {r} THEN queue[s] \o <<"data", "closed">> ELSE queue[s]]
    BY <1>1 DEF Caught, Reading, Finish, Inert, Stops, Send
  <2>2. \A s \in Subs : queue[s] \o <<"data", "closed">> \in Frames
    BY DEF FramesInv, FramesOf, Frames
  <2>3. Queued
    BY <2>1, <2>2 DEF Queued, FramesInv, FramesOf
  <2>4. ASSUME NEW s \in Subs PROVE Moves(s)
    <3>1. CASE s = r
      BY <2>1, <3>1 DEF Moves, Ends
    <3>2. CASE s # r
      BY <2>1, <3>2 DEF Moves, Keeps
    <3>. QED  BY <3>1, <3>2
  <2>. QED  BY <2>3, <2>4 DEF AllMove
<1>2. CASE ~(count + 1 >= MaxErrors)
  <2>1. /\ phase[r] = "open" /\ UNCHANGED phase /\ task[r] = "read"
        /\ task' = [task EXCEPT ![r] = "timer"] /\ Send({r}, <<"data">>)
    BY <1>2 DEF Caught, Reading, Schedule, Emit
  <2>. QED  BY <2>1, WriteMoves
<1>. QED  BY <1>1, <1>2

LEMMA Moved ==
  ASSUME StreamInv, FramesInv, [Next]_vars
  PROVE  AllMove
<1>1. ASSUME NEW r \in Subs, Start(r) PROVE AllMove
  BY <1>1, StartMoves
<1>2. ASSUME NEW r \in Subs, StartGone(r) \/ Leave(r) \/ Forget(r) PROVE AllMove
  BY <1>2, LeavingMoves
<1>3. ASSUME NEW r \in Subs, TickEnds(r) \/ FrameRejected(r) PROVE AllMove
  <2>1. {r} \in SUBSET Open /\ Finish({r}) /\ Send({r}, <<"closed">>)
    BY <1>3 DEF TickEnds, Due, FrameRejected, Reading, Open
  <2>. QED  BY <2>1, FinishMoves
<1>4. CASE Close
  BY <1>4, FinishMoves DEF Close
<1>5. ASSUME NEW r \in Subs, ReadFails(r) \/ ConvertFails(r) PROVE AllMove
  BY <1>5, CaughtMoves DEF ReadFails, ConvertFails
<1>6. ASSUME NEW r \in Subs, ReadOk(r) PROVE AllMove
  <2>1. /\ phase[r] = "open" /\ UNCHANGED phase /\ task[r] = "read"
        /\ task' = [task EXCEPT ![r] = "timer"] /\ Send({r}, <<"data">>)
    BY <1>6 DEF ReadOk, Reading, Schedule, Emit
  <2>. QED  BY <2>1, WriteMoves
<1>7. ASSUME NEW r \in Subs, Keepalive(r) PROVE AllMove
  <2>1. phase[r] = "open" /\ UNCHANGED <<phase, task>> /\ Send({r}, <<"comment">>)
    BY <1>7 DEF Keepalive
  <2>. QED  BY <2>1, WriteMoves
<1>8. ASSUME NEW r \in Subs, Pull(r) PROVE AllMove
  <2>1. /\ queue[r] # <<>> /\ queue' = [queue EXCEPT ![r] = Tail(queue[r])]
        /\ UNCHANGED <<phase, task>>
    BY <1>8 DEF Pull
  <2>2. Tail(queue[r]) \in Frames
    BY <2>1 DEF FramesInv, FramesOf, Frames
  <2>. QED  BY <2>1, <2>2 DEF AllMove, Queued, FramesInv, Moves, Takes, Keeps
<1>9. ASSUME NEW r \in Subs, Drop(r) PROVE AllMove
  <2>1. /\ phase[r] = "closed" /\ queue' = [queue EXCEPT ![r] = <<>>] /\ UNCHANGED <<phase, task>>
    BY <1>9 DEF Drop
  <2>2. <<>> \in Frames
    BY DEF Frames
  <2>. QED  BY <2>1, <2>2 DEF AllMove, Queued, FramesInv, Moves, Empties, Keeps
<1>10. ASSUME NEW r \in Subs, \/ \E i \in Identities, t \in Tokens : Ask(r, i, t)
                              \/ Refuse(r)
       PROVE  AllMove
  <2>1. /\ phase[r] \in {"idle", "asked"} /\ UNCHANGED <<queue, task>>
        /\ \E p \in {"idle", "asked"} : phase' = [phase EXCEPT ![r] = p]
    BY <1>10 DEF Ask, Refuse, tickVars
  <2>2. queue[r] = <<>>
    BY <2>1 DEF FramesInv, FramesOf
  <2>. QED  BY <2>1, <2>2 DEF AllMove, Queued, FramesInv, Moves, Keeps, StreamInv, Types
<1>11. ASSUME NEW r \in Subs, TickReads(r) PROVE AllMove
  <2>1. /\ ~(Len(queue[r]) >= QueueDepth) /\ UNCHANGED <<phase, queue>>
        /\ task' = [task EXCEPT ![r] = "read"]
    BY <1>11 DEF TickReads, Stalled
  <2>. QED  BY <2>1 DEF AllMove, Queued, FramesInv, Moves, Keeps, StreamInv, Types
<1>12. CASE \/ \E r \in Subs : TickSkips(r) \/ ReadComesLate(r)
            \/ \E i \in Identities, t \in Tokens : Issue(i, t)
            \/ \E t \in Tokens : Revoke(t)
            \/ Time \/ UNCHANGED vars
  <2>1. /\ UNCHANGED <<phase, queue>>
        /\ \A s \in Subs : task'[s] = "read" => task[s] = "read"
    BY <1>12 DEF TickSkips, Schedule, ReadComesLate, Issue, Revoke, Time, vars, tickVars, StreamInv, Types
  <2>. QED  BY <2>1 DEF AllMove, Queued, FramesInv, Moves, Keeps
<1>13. ASSUME NEW r \in Subs,
              \/ \E i \in Identities, t \in Tokens : Ask(r, i, t)
              \/ Refuse(r) \/ Start(r) \/ StartGone(r) \/ Leave(r)
              \/ Tick(r) \/ ReadReturns(r) \/ ReadComesLate(r)
              \/ Keepalive(r) \/ Pull(r) \/ Drop(r) \/ Forget(r)
       PROVE  AllMove
  <2>1. CASE Tick(r) \/ ReadReturns(r)
    BY <1>3, <1>5, <1>6, <1>11, <1>12, <2>1 DEF Tick, ReadReturns
  <2>2. CASE ~(Tick(r) \/ ReadReturns(r))
    BY <1>1, <1>2, <1>7, <1>8, <1>9, <1>10, <1>12, <1>13, <2>2
  <2>. QED  BY <2>1, <2>2
<1>. QED  BY <1>4, <1>12, <1>13 DEF Next

LEMMA FramesStay ==
  ASSUME NEW s \in Subs, FramesOf(s), Moves(s), queue'[s] \in Frames
  PROVE  FramesOf(s)'
<1>1. queue[s] \in Frames
  BY DEF FramesOf
<1>2. CASE Keeps(s)
  BY <1>2 DEF Keeps, FramesOf, NoneAfterClosed
<1>3. CASE Begins(s)
  BY <1>3 DEF Begins, FramesOf
<1>4. CASE Writes(s)
  <2>1. PICK f \in {"comment", "data"} : queue'[s] = queue[s] \o <<f>>
    BY <1>4 DEF Writes
  <2>2. phase[s] = "open" /\ phase'[s] = "open"
    BY <1>4 DEF Writes
  <2>3. \A n \in 1..Len(queue[s]) : queue[s][n] # "closed"
    BY <2>2 DEF FramesOf
  <2>4. /\ Len(queue'[s]) = Len(queue[s]) + 1 /\ queue'[s][Len(queue[s]) + 1] = f
        /\ \A n \in 1..Len(queue[s]) : queue'[s][n] = queue[s][n]
    BY <1>1, <2>1 DEF Frames
  <2>5. \A n \in 1..Len(queue'[s]) : queue'[s][n] # "closed"
    <3>1. Len(queue[s]) \in Nat
      BY <1>1 DEF Frames
    <3>2. ASSUME NEW n \in 1..Len(queue'[s]) PROVE n \in 1..Len(queue[s]) \/ n = Len(queue[s]) + 1
      BY <2>4, <3>1
    <3>. QED  BY <2>3, <2>4, <3>2
  <2>. QED  BY <2>2, <2>5 DEF FramesOf
<1>5. CASE Ends(s)
  BY <1>1, <1>5 DEF Ends, FramesOf, NoneAfterClosed, Frames
<1>6. CASE Takes(s)
  BY <1>1, <1>6 DEF Takes, FramesOf, NoneAfterClosed, Frames
<1>7. CASE Empties(s)
  BY <1>7 DEF Empties, FramesOf, NoneAfterClosed
<1>. QED  BY <1>2, <1>3, <1>4, <1>5, <1>6, <1>7 DEF Moves

LEMMA FramesStep == StreamInv /\ FramesInv /\ [Next]_vars => FramesInv'
<1> SUFFICES ASSUME StreamInv, FramesInv, [Next]_vars PROVE FramesInv'
  OBVIOUS
<1>1. Queued /\ \A s \in Subs : Moves(s)
  BY Moved DEF AllMove
<1>2. ASSUME NEW s \in Subs PROVE FramesOf(s)'
  BY <1>1, FramesStay DEF FramesInv, Queued
<1>. QED  BY <1>1, <1>2 DEF FramesInv, Queued

LEMMA FramesAlways == Spec => []FramesInv
<1>1. Init => FramesInv
  <2> SUFFICES ASSUME Init PROVE FramesInv
    OBVIOUS
  <2>1. queue = [s \in Subs |-> <<>>] /\ phase = [s \in Subs |-> "idle"] /\ <<>> \in Frames
    BY DEF Init, Frames
  <2>. QED  BY <2>1 DEF FramesInv, FramesOf
<1>. QED  BY <1>1, FramesStep, Invariance, PTL DEF Spec

\* What a reader has still to take of a closed stream is the end of what it had.
LEMMA RestOf ==
  ASSUME NEW q \in Frames
  PROVE  /\ Rest(q, 0) = q /\ Rest(q, Len(q)) = <<>>
         /\ q # <<>> => Rest(q, 1) = Tail(q) /\ 1 \in 0..Len(q)
         /\ 0 \in 0..Len(q) /\ Len(q) \in 0..Len(q)
<1>1. Len(q) \in Nat
  BY DEF Frames
<1>2. Rest(q, 0) = q
  BY <1>1 DEF Rest, Frames
<1>3. Rest(q, Len(q)) = <<>>
  BY <1>1 DEF Rest, Frames
<1>4. q # <<>> => Rest(q, 1) = Tail(q) /\ 1 \in 0..Len(q)
  BY <1>1 DEF Rest, Frames
<1>. QED  BY <1>1, <1>2, <1>3, <1>4

LEMMA InertStep ==
  ASSUME StreamInv, FramesInv, [Next]_vars, NEW s \in Subs
  PROVE  /\ phase'[s] = "closed" => task'[s] # "timer" /\ NoneAfterClosed(queue'[s])
         /\ phase[s] = "closed" => \E n \in 0..Len(queue[s]) : queue'[s] = Rest(queue[s], n)
<1>1. StreamInv' /\ FramesInv' /\ Moves(s)
  BY Inductive, FramesStep, Moved DEF AllMove
<1>2. ASSUME phase'[s] = "closed" PROVE task'[s] # "timer" /\ NoneAfterClosed(queue'[s])
  <2>1. task'[s] # "timer"
    BY <1>1, <1>2 DEF StreamInv, TimersAreOpen
  <2>2. NoneAfterClosed(queue'[s])
    BY <1>1, <1>2 DEF FramesInv, FramesOf, NoneAfterClosed
  <2>. QED  BY <2>1, <2>2
<1>3. ASSUME phase[s] = "closed" PROVE \E n \in 0..Len(queue[s]) : queue'[s] = Rest(queue[s], n)
  <2>1. queue[s] \in Frames
    BY DEF FramesInv, FramesOf
  <2>2. \/ queue'[s] = queue[s] \/ queue'[s] = <<>>
        \/ queue[s] # <<>> /\ queue'[s] = Tail(queue[s])
    <3>1. Moves(s)
      BY <1>1
    <3>. QED  BY <1>3, <3>1 DEF Moves, Keeps, Begins, Writes, Ends, Takes, Empties
  <2>. QED  BY <2>1, <2>2, RestOf
<1>. QED  BY <1>2, <1>3

(***************************************************************************)
(* Nothing runs on behalf of a closed stream but a read that was out, its  *)
(* reader gets nothing that was not there when it closed and nothing after *)
(* the closed frame (finish 186-210), and something always runs on behalf  *)
(* of an open one (schedule 212-252).                                      *)
(***************************************************************************)
THEOREM TimersMatchStreams == Spec => ClosedIsInert /\ []OpenIsDriven
<1>1. StreamInv => OpenIsDriven
  BY DEF StreamInv
<1>2. StreamInv /\ FramesInv /\ [Next]_vars =>
        [\A s \in Subs :
           /\ phase'[s] = "closed" => task'[s] # "timer" /\ NoneAfterClosed(queue'[s])
           /\ phase[s] = "closed" => \E n \in 0..Len(queue[s]) : queue'[s] = Rest(queue[s], n)]_vars
  BY InertStep
<1>. QED  BY <1>1, <1>2, FramesAlways, Invariance, PTL DEF Spec, ClosedIsInert

LEMMA DataInType ==
  ASSUME NEW q \in Frames
  PROVE  /\ IsFiniteSet(DataIn(q)) /\ Cardinality(DataIn(q)) \in Nat
         /\ Cardinality(DataIn(q)) <= Len(q)
<1>1. Len(q) \in Nat
  BY DEF Frames
<1>2. IsFiniteSet(1..Len(q)) /\ Cardinality(1..Len(q)) = Len(q)
  BY <1>1, IntervalSize
<1>3. DataIn(q) \in SUBSET (1..Len(q))
  BY DEF DataIn
<1>. QED  BY <1>2, <1>3, FS_Subset, FS_CardinalityType

\* A comment or a closed frame is no data, and one more frame of data is one more.
LEMMA SendAdds ==
  ASSUME NEW q \in Frames
  PROVE  /\ DataIn(q \o <<"comment">>) = DataIn(q)
         /\ DataIn(q \o <<"closed">>) = DataIn(q)
         /\ DataIn(q \o <<"data", "closed">>) = DataIn(q \o <<"data">>)
         /\ Cardinality(DataIn(q \o <<"data">>)) = Cardinality(DataIn(q)) + 1
<1>1. DataIn(q \o <<"comment">>) = DataIn(q)
  BY DEF DataIn, Frames
<1>2. DataIn(q \o <<"closed">>) = DataIn(q)
  BY DEF DataIn, Frames
<1>3. DataIn(q \o <<"data">>) = DataIn(q) \union {Len(q) + 1}
  BY DEF DataIn, Frames
<1>4. DataIn(q \o <<"data", "closed">>) = DataIn(q) \union {Len(q) + 1}
  BY DEF DataIn, Frames
<1>5. ~(Len(q) + 1 \in DataIn(q))
  BY DEF DataIn, Frames
<1>6. Cardinality(DataIn(q) \union {Len(q) + 1}) = Cardinality(DataIn(q)) + 1
  BY <1>5, DataInType, FS_AddElement
<1>. QED  BY <1>1, <1>2, <1>3, <1>4, <1>6

\* The reader takes the first frame: what is left holds no more data.
LEMMA PullTakes ==
  ASSUME NEW q \in Frames, q # <<>>
  PROVE  Cardinality(DataIn(Tail(q))) <= Cardinality(DataIn(q))
<1> DEFINE S == DataIn(Tail(q))
           T == DataIn(q)
           f == [n \in S |-> n + 1]
<1>1. \A n \in S : n \in Nat /\ n + 1 \in T
  BY DEF DataIn, Frames
<1>2. f \in Injection(S, T)
  <2> HIDE DEF S, T
  <2>. QED  BY <1>1 DEF Injection, IsInjective
<1>3. IsFiniteSet(T)
  BY DataInType
<1> HIDE DEF S, T, f
<1>4. Cardinality(S) <= Cardinality(T)
  BY <1>2, <1>3, FS_Injection
<1>. QED  BY <1>4 DEF S, T

LEMMA RoomStays ==
  ASSUME NEW s \in Subs, FramesOf(s), RoomFor(s), Moves(s), queue'[s] \in Frames
  PROVE  RoomFor(s)'
<1> DEFINE before == Cardinality(DataIn(queue[s]))
           after == Cardinality(DataIn(queue'[s]))
<1>1. /\ queue[s] \in Frames /\ before \in Nat /\ before <= Len(queue[s]) /\ Len(queue[s]) \in Nat
      /\ after \in Nat /\ QueueDepth \in Nat /\ QueueDepth >= 1
  BY DataInType, LimitsAssumption DEF FramesOf, Frames
<1>2. /\ before <= QueueDepth
      /\ phase[s] = "open" /\ task[s] = "read" => before < QueueDepth
  BY DEF RoomFor
<1>3. /\ after <= QueueDepth
      /\ phase'[s] = "open" /\ task'[s] = "read" => after < QueueDepth
  <2>1. CASE Keeps(s)
    <3>1. after = before
      BY <2>1 DEF Keeps
    <3> HIDE DEF before, after
    <3>. QED  BY <1>1, <1>2, <2>1, <3>1 DEF Keeps
  <2>2. CASE Begins(s)
    <3>1. queue'[s] = <<"comment">> /\ DataIn(<<"comment">>) = {}
      BY <2>2 DEF Begins, DataIn
    <3>2. after = 0
      BY <3>1, FS_EmptySet
    <3> HIDE DEF before, after
    <3>. QED  BY <1>1, <3>2
  <2>3. CASE Writes(s)
    <3>1. \/ after = before /\ task'[s] = task[s] /\ phase[s] = "open"
          \/ after = before + 1 /\ phase[s] = "open" /\ task[s] = "read" /\ task'[s] = "timer"
      BY <1>1, <2>3, SendAdds DEF Writes
    <3> HIDE DEF before, after
    <3>. QED  BY <1>1, <1>2, <3>1
  <2>4. CASE Ends(s)
    <3>1. /\ phase'[s] = "closed" /\ phase[s] = "open"
          /\ \/ after = before
             \/ after = before + 1 /\ task[s] = "read"
      <4>1. /\ Cardinality(DataIn(queue[s] \o <<"closed">>)) = before
            /\ Cardinality(DataIn(queue[s] \o <<"data", "closed">>)) = before + 1
        BY <1>1, SendAdds
      <4>. QED  BY <2>4, <4>1 DEF Ends
    <3> HIDE DEF before, after
    <3>. QED  BY <1>1, <1>2, <3>1
  <2>5. CASE Takes(s)
    <3>1. after <= before /\ phase'[s] = phase[s] /\ task'[s] = task[s]
      BY <1>1, <2>5, PullTakes DEF Takes
    <3> HIDE DEF before, after
    <3>. QED  BY <1>1, <1>2, <3>1
  <2>6. CASE Empties(s)
    <3>1. queue'[s] = <<>> /\ DataIn(<<>>) = {}
      BY <2>6 DEF Empties, DataIn
    <3>2. after = 0 /\ phase'[s] = "closed"
      BY <2>6, <3>1, FS_EmptySet DEF Empties
    <3> HIDE DEF before, after
    <3>. QED  BY <1>1, <3>2
  <2>. QED  BY <2>1, <2>2, <2>3, <2>4, <2>5, <2>6 DEF Moves
<1>. QED  BY <1>3 DEF RoomFor, DataIn

LEMMA RoomStep == StreamInv /\ FramesInv /\ RoomInv /\ [Next]_vars => RoomInv'
<1> SUFFICES ASSUME StreamInv, FramesInv, RoomInv, [Next]_vars, NEW s \in Subs PROVE RoomFor(s)'
  BY DEF RoomInv
<1>1. Queued /\ Moves(s)
  BY Moved DEF AllMove
<1>. QED  BY <1>1, RoomStays DEF RoomInv, FramesInv, Queued

(***************************************************************************)
(* The memory kept for live answers has a bound whatever the order of      *)
(* issues, expiries, revocations and reads: the limits of the store        *)
(* (store.ts 33-46) and, of the data for each reader, the depth of its     *)
(* queue (subscribe.ts 227-231).                                           *)
(***************************************************************************)
THEOREM BoundedMemory == Spec => []MemoryBounded
<1>1. Init => RoomInv
  <2> SUFFICES ASSUME Init, NEW s \in Subs PROVE RoomFor(s)
    BY DEF RoomInv
  <2>1. queue[s] = <<>> /\ task[s] = "none"
    BY DEF Init
  <2>2. DataIn(<<>>) = {}
    BY DEF DataIn
  <2>3. Cardinality(DataIn(queue[s])) = 0
    BY <2>1, <2>2, FS_EmptySet
  <2>. QED  BY <2>1, <2>3, LimitsAssumption DEF RoomFor
<1>2. Spec => []RoomInv
  BY <1>1, RoomStep, FramesAlways, Invariance, PTL DEF Spec
<1>3. Spec => []StoreInv
  BY StoreInitially, StoreStep, Invariance, PTL DEF Spec
<1>4. StoreInv /\ RoomInv => MemoryBounded
  BY DEF StoreInv, RoomInv, RoomFor, MemoryBounded, BacklogBounded
<1>. QED  BY <1>2, <1>3, <1>4, PTL

LEMMA OthersReadNone ==
  ASSUME StreamInv, [Next]_vars, NEW s \in Subs, ~Start(s), ~TickReads(s), task'[s] = "read"
  PROVE  task[s] = "read"
<1> USE DEF StreamInv
<1>1. ASSUME NEW r \in Subs, Start(r) PROVE task[s] = "read"
  BY <1>1 DEF Start, Stops, Types
<1>2. ASSUME NEW r \in Subs, Tick(r) \/ ReadReturns(r) PROVE task[s] = "read"
  BY <1>2 DEF Tick, TickEnds, TickSkips, TickReads, ReadReturns, ReadOk, ReadFails, ConvertFails, Caught,
              FrameRejected, Finish, Stops, Schedule, Types
<1>3. ASSUME NEW r \in Subs, StartGone(r) \/ Leave(r) PROVE task[s] = "read"
  <2>1. \E S : Finish(S)
    BY <1>3 DEF StartGone, Leave
  <2>. QED  BY <2>1 DEF Finish, Stops
<1>4. ASSUME NEW r \in Subs, ReadComesLate(r) PROVE task[s] = "read"
  BY <1>4 DEF ReadComesLate, Types
<1>5. CASE \/ \E r \in Subs : \/ \E i \in Identities, t \in Tokens : Ask(r, i, t)
                             \/ Refuse(r) \/ Keepalive(r) \/ Pull(r) \/ Drop(r) \/ Forget(r)
           \/ \E i \in Identities, t \in Tokens : Issue(i, t)
           \/ \E t \in Tokens : Revoke(t)
           \/ Time \/ UNCHANGED vars
  BY <1>5 DEF Ask, Refuse, Keepalive, Pull, Drop, Forget, Issue, Revoke, Time, vars, tickVars
<1>6. CASE Close
  BY <1>6 DEF Close, Finish, Stops
<1>. QED  BY <1>1, <1>2, <1>3, <1>4, <1>5, <1>6 DEF Next

AgeTyped == age \in [Subs -> Nat]

ReadBegins(s) ==
  task[s] # "read" /\ task'[s] = "read" =>
    /\ Found(token[s])
    /\ owner[token[s]] = who[s]
    /\ phase[s] = "open" => age[s] < MaxDuration

LEMMA ReadsStep ==
  ASSUME StreamInv, StoreInv, AgeTyped, [Next]_vars, NEW s \in Subs
  PROVE  ReadBegins(s)
<1>1. CASE Start(s)
  BY <1>1 DEF Start, Accepted, ReadBegins
<1>2. CASE TickReads(s)
  <2>1. phase[s] = "open" /\ Found(token[s]) /\ ~(age[s] >= MaxDuration)
    BY <1>2 DEF TickReads, Due, Over
  <2>2. owner[token[s]] = who[s]
    BY <2>1 DEF StoreInv, OwnersAgree, Open, Found
  <2>3. age[s] < MaxDuration
    BY <2>1, LimitsAssumption DEF AgeTyped
  <2>. QED  BY <2>1, <2>2, <2>3 DEF ReadBegins
<1>3. CASE ~Start(s) /\ ~TickReads(s)
  BY <1>3, OthersReadNone DEF ReadBegins
<1>. QED  BY <1>1, <1>2, <1>3

LEMMA AgeStep == AgeTyped /\ [Next]_vars => AgeTyped'
<1> SUFFICES ASSUME AgeTyped, [Next]_vars PROVE AgeTyped'
  OBVIOUS
<1> USE DEF AgeTyped
<1>1. CASE Time
  BY <1>1 DEF Time
<1>2. ASSUME NEW s \in Subs, Start(s) \/ Forget(s) PROVE AgeTyped'
  BY <1>2 DEF Start, Forget
<1>3. CASE UNCHANGED age
  BY <1>3
<1>4. ASSUME NEW s \in Subs, Tick(s) \/ ReadReturns(s) PROVE UNCHANGED age
  BY <1>4 DEF Tick, TickEnds, TickSkips, TickReads, ReadReturns, ReadOk, ReadFails, ConvertFails, Caught, FrameRejected
<1>5. CASE \/ \E s \in Subs : \/ \E i \in Identities, t \in Tokens : Ask(s, i, t)
                             \/ Refuse(s) \/ StartGone(s) \/ Leave(s) \/ ReadComesLate(s)
                             \/ Keepalive(s) \/ Pull(s) \/ Drop(s)
           \/ \E i \in Identities, t \in Tokens : Issue(i, t)
           \/ \E t \in Tokens : Revoke(t)
           \/ Close \/ UNCHANGED vars
  BY <1>3, <1>5 DEF Ask, Refuse, StartGone, Leave, ReadComesLate, Keepalive, Pull, Drop, Issue, Revoke, Close, vars
<1>. QED  BY <1>1, <1>2, <1>3, <1>4, <1>5 DEF Next

(***************************************************************************)
(* A read begins only behind a look at the store: in the very step that    *)
(* begins it the token of the stream is there, unexpired, and its owner is *)
(* the caller of the stream (handleSubscribe 135-147, tick 222-233).       *)
(***************************************************************************)
THEOREM ApprovedReads == Spec => ReadsAreApproved
<1>1. Init => AgeTyped
  BY DEF Init, AgeTyped
<1>2. Spec => []AgeTyped
  BY <1>1, AgeStep, PTL DEF Spec
<1>3. Spec => []StoreInv
  BY StoreInitially, StoreStep, Invariance, PTL DEF Spec
<1>4. StreamInv /\ StoreInv /\ AgeTyped /\ [Next]_vars =>
        [\A s \in Subs :
           task[s] # "read" /\ task'[s] = "read" =>
             /\ Found(token[s])
             /\ owner[token[s]] = who[s]
             /\ phase[s] = "open" => age[s] < MaxDuration]_vars
  BY ReadsStep DEF ReadBegins
<1>. QED  BY <1>2, <1>3, <1>4, Invariance, PTL DEF Spec, ReadsAreApproved

-----------------------------------------------------------------------------
(***************************************************************************)
(* Reads that fail.  While every row converts, the count of the code is    *)
(* the count of failures in a row, and it is below the limit.              *)
(***************************************************************************)
ErrorTypes == errors \in [Subs -> Nat] /\ failing \in [Subs -> Nat]
Counted(s) == failing[s] = errors[s] /\ errors[s] < MaxErrors
ErrorInv == ErrorTypes /\ (RowsConvert => \A s \in Open : Counted(s))

LEMMA ErrorsStay ==
  ASSUME ErrorInv, UNCHANGED <<errors, failing>>,
         \A r \in Subs : phase'[r] = "open" => phase[r] = "open"
  PROVE  ErrorInv'
  BY DEF ErrorInv, ErrorTypes, Counted, Open

LEMMA FinishForgetsErrors ==
  ASSUME ErrorInv, NEW S \in SUBSET Subs, Finish(S)
  PROVE  ErrorInv'
<1>1. /\ errors' = [s \in Subs |-> IF s \in S THEN 0 ELSE errors[s]]
      /\ failing' = [s \in Subs |-> IF s \in S THEN 0 ELSE failing[s]]
      /\ \A s \in Subs : phase'[s] = "open" => phase[s] = "open" /\ ~(s \in S)
  BY DEF Finish, Inert
<1>2. ErrorTypes'
  BY <1>1 DEF ErrorInv, ErrorTypes
<1>. QED  BY <1>1, <1>2 DEF ErrorInv, Counted, Open

LEMMA StartForgetsErrors ==
  ASSUME ErrorInv, NEW s \in Subs, Start(s)
  PROVE  ErrorInv'
<1>1. /\ errors' = [[r \in Subs |-> IF r \in Displaced(s) THEN 0 ELSE errors[r]] EXCEPT ![s] = 0]
      /\ failing' = [[r \in Subs |-> IF r \in Displaced(s) THEN 0 ELSE failing[r]] EXCEPT ![s] = 0]
      /\ phase' = [[r \in Subs |-> IF r \in Displaced(s) THEN "closed" ELSE phase[r]] EXCEPT ![s] = "open"]
  BY DEF Start, Inert
<1>2. ErrorTypes'
  BY <1>1 DEF ErrorInv, ErrorTypes
<1>3. \A r \in Subs \ {s} :
        phase'[r] = "open" => phase[r] = "open" /\ errors'[r] = errors[r] /\ failing'[r] = failing[r]
  BY <1>1
<1>4. errors'[s] = 0 /\ failing'[s] = 0
  BY <1>1
<1>. QED  BY <1>2, <1>3, <1>4, LimitsAssumption DEF ErrorInv, Counted, Open

LEMMA CaughtCounts ==
  ASSUME ErrorInv, NEW s \in Subs, NEW count \in Nat, Caught(s, count), RowsConvert => count = errors[s]
  PROVE  ErrorInv'
<1>1. CASE count + 1 >= MaxErrors
  BY <1>1, FinishForgetsErrors DEF Caught
<1>2. CASE ~(count + 1 >= MaxErrors)
  <2>1. /\ phase[s] = "open" /\ UNCHANGED phase
        /\ errors' = [errors EXCEPT ![s] = count + 1]
        /\ failing' = [failing EXCEPT ![s] = IF failing[s] < MaxErrors THEN failing[s] + 1 ELSE failing[s]]
    BY <1>2 DEF Caught, Reading
  <2>2. ErrorTypes'
    BY <2>1 DEF ErrorInv, ErrorTypes
  <2>3. /\ errors'[s] = count + 1
        /\ failing'[s] = IF failing[s] < MaxErrors THEN failing[s] + 1 ELSE failing[s]
        /\ \A r \in Subs \ {s} : errors'[r] = errors[r] /\ failing'[r] = failing[r]
    BY <2>1 DEF ErrorInv, ErrorTypes
  <2>4. RowsConvert => Counted(s) /\ count = errors[s]
    BY <2>1 DEF ErrorInv, Open
  <2>5. RowsConvert => Counted(s)'
    BY <1>2, <2>3, <2>4, LimitsAssumption DEF Counted
  <2>. QED  BY <2>1, <2>2, <2>3, <2>5 DEF ErrorInv, Counted, Open
<1>. QED  BY <1>1, <1>2

LEMMA ErrorStep == StreamInv /\ ErrorInv /\ [Next]_vars => ErrorInv'
<1> SUFFICES ASSUME StreamInv, ErrorInv, [Next]_vars PROVE ErrorInv'
  OBVIOUS
<1>1. ASSUME NEW s \in Subs, Start(s) PROVE ErrorInv'
  BY <1>1, StartForgetsErrors
<1>2. ASSUME NEW s \in Subs, ReadOk(s) PROVE ErrorInv'
  <2>1. errors' = [errors EXCEPT ![s] = 0] /\ failing' = [failing EXCEPT ![s] = 0] /\ UNCHANGED phase
    BY <1>2 DEF ReadOk
  <2>. QED  BY <2>1, LimitsAssumption DEF ErrorInv, ErrorTypes, Counted, Open
<1>3. ASSUME NEW s \in Subs, ReadFails(s) PROVE ErrorInv'
  <2>1. errors[s] \in Nat
    BY DEF ErrorInv, ErrorTypes
  <2>. QED  BY <1>3, <2>1, CaughtCounts DEF ReadFails
<1>4. ASSUME NEW s \in Subs, ConvertFails(s) PROVE ErrorInv'
  BY <1>4, CaughtCounts DEF ConvertFails
<1>5. ASSUME NEW s \in Subs, TickEnds(s) \/ FrameRejected(s) \/ StartGone(s) \/ Leave(s) PROVE ErrorInv'
  <2>1. \E S \in SUBSET Subs : Finish(S)
    BY <1>5 DEF TickEnds, FrameRejected, StartGone, Leave, Displaced, StreamInv, Types, Named
  <2>. QED  BY <2>1, FinishForgetsErrors
<1>6. CASE Close
  BY <1>6, FinishForgetsErrors DEF Close, Open
<1>7. CASE \/ \E s \in Subs : \/ \E i \in Identities, t \in Tokens : Ask(s, i, t)
                             \/ Refuse(s) \/ TickSkips(s) \/ TickReads(s) \/ ReadComesLate(s)
                             \/ Keepalive(s) \/ Pull(s) \/ Drop(s) \/ Forget(s)
           \/ \E i \in Identities, t \in Tokens : Issue(i, t)
           \/ \E t \in Tokens : Revoke(t)
           \/ Time \/ UNCHANGED vars
  <2>1. /\ UNCHANGED <<errors, failing>>
        /\ \A r \in Subs : phase'[r] = "open" => phase[r] = "open"
    BY <1>7 DEF Ask, Refuse, TickSkips, TickReads, ReadComesLate, Keepalive, Pull, Drop, Forget, Issue, Revoke, Time,
                vars, tickVars, StreamInv, Types
  <2>. QED  BY <2>1, ErrorsStay
<1>. QED  BY <1>1, <1>2, <1>3, <1>4, <1>5, <1>6, <1>7 DEF Next, Tick, ReadReturns

(***************************************************************************)
(* Where every row of a read can cross the wire, a stream never outlives   *)
(* maxConsecutiveErrors failures in a row (tick 244-251).  Where one       *)
(* cannot, the count is reset before it is raised, and the property does   *)
(* not hold (StreamsErrors.cfg).                                           *)
(***************************************************************************)
THEOREM ErrorsEndStreams == Spec => [](RowsConvert => FailingStreamsClose)
<1>1. Init => ErrorInv
  BY DEF Init, ErrorInv, ErrorTypes, Open
<1>2. Spec => []ErrorInv
  BY <1>1, ErrorStep, Invariance, PTL DEF Spec
<1>3. ErrorInv => (RowsConvert => FailingStreamsClose)
  BY DEF ErrorInv, Counted, FailingStreamsClose
<1>. QED  BY <1>2, <1>3, PTL
=============================================================================
