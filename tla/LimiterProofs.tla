--------------------------- MODULE LimiterProofs ----------------------------
(***************************************************************************)
(* For every set of requests and identities and every limit: the counters  *)
(* of the limiter are the questions being answered, the ceilings hold, the *)
(* map stays within its bound, nobody is admitted past the budget, and a   *)
(* failure keeps an identity out until its cooldown is over.               *)
(***************************************************************************)
EXTENDS Limiter, FiniteSetTheorems, TLAPS

EntryType == [tokens : Int, refilledAt : Nat, inFlight : Nat, blockedUntil : Nat, seenAt : Nat]

Types ==
  /\ now \in Nat
  /\ tracked \in SUBSET Identities
  /\ entry \in [Identities -> EntryType]
  /\ inFlight \in Nat
  /\ asking \in [Requests -> Identities \union {NoOne}]
  /\ held \in [Requests -> BOOLEAN]
  /\ overflow \in BOOLEAN

(***************************************************************************)
(* The strengthening: what the counters say of the ceilings, and that only *)
(* an overflow makes an admission whose entry is not in the map.           *)
(***************************************************************************)
CountInv ==
  /\ CountsMatch
  /\ \A r \in Requests : held[r] => asking[r] # NoOne
  /\ ~overflow => \A r \in Requests : asking[r] # NoOne => held[r]
  /\ inFlight <= MaxConcurrent
  /\ \A i \in tracked : entry[i].inFlight <= MaxPerIdentity

LInv == Types /\ CountInv /\ MapBounded

-----------------------------------------------------------------------------
LEMMA EntryForType ==
  ASSUME Types, NEW i \in Identities
  PROVE  /\ EntryFor(i) \in EntryType
         /\ EntryFor(i).inFlight = IF i \in tracked THEN entry[i].inFlight ELSE 0
         /\ Refill(EntryFor(i)) \in EntryType
         /\ Refill(EntryFor(i)).inFlight = EntryFor(i).inFlight
<1>1. /\ EntryFor(i) \in EntryType
      /\ EntryFor(i).inFlight = IF i \in tracked THEN entry[i].inFlight ELSE 0
  BY LimitsAssumption DEF EntryFor, Fresh, Types, EntryType
<1> DEFINE e       == EntryFor(i)
           elapsed == IF now > e.refilledAt THEN now - e.refilledAt ELSE 0
           full    == Burst * Cost
           tokens  == IF e.tokens + elapsed < full THEN e.tokens + elapsed ELSE full
<1>2. tokens \in Int
  <2>1. elapsed \in Int
    BY <1>1 DEF EntryType, Types
  <2>2. full \in Int
    BY LimitsAssumption
  <2> HIDE DEF e, elapsed, full
  <2>3. e.tokens \in Int
    BY <1>1 DEF EntryType, e
  <2>. QED  BY <2>1, <2>2, <2>3
<1>3. Refill(e) = [e EXCEPT !.tokens = tokens, !.refilledAt = now]
  BY DEF Refill
<1> HIDE DEF e, tokens
<1>4. Refill(e) \in EntryType /\ Refill(e).inFlight = e.inFlight
  BY <1>1, <1>2, <1>3 DEF EntryType, Types, e
<1>. QED  BY <1>1, <1>4 DEF e

\* What a sweep leaves: nothing in flight is dropped, the map fits its bound.
LEMMA SweptKeeps ==
  ASSUME Types, NEW i \in Identities, NEW keys \in Swept(i)
  PROVE  /\ keys \in SUBSET Identities
         /\ keys \subseteq tracked \union {i}
         /\ i \in tracked => keys = tracked
         /\ \A j \in tracked \ keys : entry[j].inFlight = 0 /\ entry[j].blockedUntil <= now
<1>1. CASE i \in tracked
  BY <1>1 DEF Swept, Types
<1>2. CASE i \notin tracked
  <2>1. keys = tracked \union {i} \/ \E V \in SUBSET Idle(i) : keys = (tracked \union {i}) \ V
    BY <1>2 DEF Swept, Victims
  <2>. QED  BY <1>2, <2>1 DEF Idle, Types
<1>. QED  BY <1>1, <1>2

LEMMA SweptBounded ==
  ASSUME Types, MapBounded, NEW i \in Identities, NEW keys \in Swept(i)
  PROVE  Cardinality(keys) <= MaxTracked
<1> DEFINE all == tracked \union {i}
           excess == Cardinality(all) - MaxTracked
<1>1. IsFiniteSet(tracked) /\ Cardinality(tracked) \in Nat /\ Cardinality(tracked) <= MaxTracked
  BY FiniteAssumption, FS_Subset, FS_CardinalityType DEF Types, MapBounded
<1>2. CASE i \in tracked
  BY <1>1, <1>2, SweptKeeps
<1>3. CASE i \notin tracked /\ excess <= 0
  <2>1. IsFiniteSet(all) /\ Cardinality(all) \in Nat
    BY <1>1, FS_AddElement, FS_CardinalityType
  <2>2. keys = all
    BY <1>3 DEF Swept
  <2>. QED  BY <1>3, <2>1, <2>2, LimitsAssumption
<1>4. CASE i \notin tracked /\ ~(excess <= 0)
  <2>1. IsFiniteSet(all) /\ Cardinality(all) = Cardinality(tracked) + 1
    BY <1>1, <1>4, FS_AddElement
  <2>2. excess = 1
    BY <1>1, <1>4, <2>1, LimitsAssumption
  <2>3. PICK V \in Victims(i, excess) : keys = all \ V
    BY <1>4 DEF Swept
  <2>4. IsFiniteSet(Idle(i)) /\ Cardinality(Idle(i)) \in Nat /\ Cardinality(Idle(i)) # 0
    <3>1. Idle(i) \in SUBSET all /\ i \in Idle(i)
      BY DEF Idle
    <3>. QED  BY <2>1, <3>1, FS_Subset, FS_CardinalityType, FS_EmptySet
  <2>5. V \in SUBSET all /\ Cardinality(V) = 1
    BY <2>2, <2>3, <2>4 DEF Victims, Idle
  <2>6. Cardinality(all \cap V) = 1
    <3>1. all \cap V = V
      BY <2>5
    <3>. QED  BY <2>5, <3>1
  <2>7. Cardinality(keys) = Cardinality(all) - 1
    BY <2>1, <2>3, <2>6, FS_Difference
  <2>. QED  BY <1>1, <2>1, <2>7
<1>. QED  BY <1>2, <1>3, <1>4

LEMMA CountsFinite ==
  ASSUME NEW S \in SUBSET Requests
  PROVE  IsFiniteSet(S) /\ Cardinality(S) \in Nat
  BY FiniteAssumption, FS_Subset, FS_CardinalityType

(***************************************************************************)
(* A write to the map that takes and gives back no slot: Refuse and Strike. *)
(***************************************************************************)
LEMMA PutKeepsCounts ==
  ASSUME LInv, NEW i \in Identities, NEW keys \in Swept(i), NEW log,
         NEW e \in EntryType, e.inFlight = EntryFor(i).inFlight,
         Put(i, e, log, keys), UNCHANGED <<inFlight, asking, held, now>>
  PROVE  LInv'
<1>1. /\ keys \in SUBSET Identities
      /\ keys \subseteq tracked \union {i}
      /\ i \in tracked => keys = tracked
      /\ \A j \in tracked \ keys : entry[j].inFlight = 0
  BY SweptKeeps DEF LInv
<1>2. Types'
  <2>1. Blank \in EntryType
    BY DEF Blank, EntryType
  <2>. QED  BY <1>1, <2>1 DEF Put, LInv, Types
<1>3. \A j \in Identities : Holding(j)' = Holding(j)
  BY DEF Holding
<1>4. ~(i \in tracked) => Holding(i) = {}
  BY DEF LInv, CountInv, CountsMatch
<1>5. \A j \in tracked' : entry'[j].inFlight = Cardinality(Holding(j))
  <2>1. CASE i \in tracked
    BY <1>1, <2>1, EntryForType DEF Put, LInv, Types, CountInv, CountsMatch
  <2>2. CASE i \notin tracked
    <3>1. e.inFlight = Cardinality(Holding(i))
      BY <1>4, <2>2, EntryForType, FS_EmptySet DEF LInv
    <3>2. ASSUME NEW j \in tracked' PROVE entry'[j].inFlight = Cardinality(Holding(j))
      <4>1. CASE j = i
        BY <1>1, <3>1, <3>2, <4>1 DEF Put
      <4>2. CASE j # i
        BY <1>1, <3>2, <4>2 DEF Put, LInv, Types, CountInv, CountsMatch
      <4>. QED  BY <4>1, <4>2
    <3>. QED  BY <3>2
  <2>. QED  BY <2>1, <2>2
<1>6. \A j \in Identities : Holding(j) # {} => j \in tracked'
  <2>1. ASSUME NEW j \in Identities, Holding(j) # {} PROVE j \in tracked'
    <3>1. j \in tracked /\ entry[j].inFlight = Cardinality(Holding(j))
      BY <2>1 DEF LInv, CountInv, CountsMatch
    <3>2. Holding(j) \in SUBSET Requests
      BY DEF Holding
    <3>3. entry[j].inFlight # 0
      BY <2>1, <3>1, <3>2, CountsFinite, FS_EmptySet
    <3>. QED  BY <1>1, <3>1, <3>3 DEF Put
  <2>. QED  BY <2>1
<1>7. CountsMatch'
  <2>1. Outstanding' = Outstanding
    BY DEF Outstanding
  <2>2. inFlight' = Cardinality(Outstanding')
    BY <2>1 DEF LInv, CountInv, CountsMatch
  <2>3. tracked' \in SUBSET Identities
    BY <1>2 DEF Types
  <2>. QED  BY <1>3, <1>5, <1>6, <2>2, <2>3 DEF CountsMatch
<1>8. \A j \in tracked' : entry'[j].inFlight <= MaxPerIdentity
  <2>1. EntryFor(i).inFlight <= MaxPerIdentity
    BY EntryForType, LimitsAssumption DEF LInv, CountInv
  <2>. QED  BY <1>1, <2>1 DEF Put, LInv, Types, CountInv
<1>9. CountInv'
  BY <1>7, <1>8 DEF LInv, CountInv, Put
<1>10. MapBounded'
  BY SweptBounded DEF LInv, MapBounded, Put
<1>. QED  BY <1>2, <1>9, <1>10 DEF LInv

LEMMA RefuseStep ==
  ASSUME LInv, NEW i \in Identities, Refuse(i)
  PROVE  LInv'
<1> DEFINE e == IF Admissible(EntryFor(i)) THEN Refill(EntryFor(i)) ELSE EntryFor(i)
<1>1. e \in EntryType /\ e.inFlight = EntryFor(i).inFlight
  BY EntryForType DEF LInv
<1>2. PICK keys \in Swept(i) : Put(i, e, strikes[i], keys)
  BY DEF Refuse
<1>. QED  BY <1>1, <1>2, PutKeepsCounts DEF Refuse, slotVars

LEMMA StrikeStep ==
  ASSUME LInv, NEW r \in Requests, Strike(r)
  PROVE  LInv'
<1>1. PICK i \in Identities : i = asking[r]
  BY DEF Strike, LInv, Types
<1>2. StruckEntry(i) \in EntryType /\ StruckEntry(i).inFlight = EntryFor(i).inFlight
  BY <1>1, EntryForType, LimitsAssumption DEF LInv, Types, EntryType, StruckEntry
<1>3. PICK keys \in Swept(i) : Put(i, StruckEntry(i), StruckLog(i), keys)
  BY <1>1 DEF Strike
<1>4. UNCHANGED <<inFlight, asking, held, now>>
  BY DEF Strike
<1>. QED  BY <1>1, <1>2, <1>3, <1>4, PutKeepsCounts

(***************************************************************************)
(* A question admitted: one more of its identity, in the global count and, *)
(* when its entry stays in the map, in that entry.                         *)
(***************************************************************************)
LEMMA AdmitStep ==
  ASSUME LInv, NEW r \in Requests, NEW i \in Identities, Admit(r, i)
  PROVE  LInv'
<1> DEFINE full == Refill(EntryFor(i))
           paid == [full EXCEPT !.tokens = @ - Cost, !.inFlight = @ + 1]
<1>1. PICK keys \in Swept(i) : /\ Put(i, paid, strikes[i], keys)
                              /\ held' = [held EXCEPT ![r] = i \in keys]
  BY DEF Admit
<1>2. /\ keys \in SUBSET Identities
      /\ keys \subseteq tracked \union {i}
      /\ i \in tracked => keys = tracked
      /\ \A j \in tracked \ keys : entry[j].inFlight = 0
  BY SweptKeeps DEF LInv
<1>3. /\ paid \in EntryType
      /\ paid.inFlight = (IF i \in tracked THEN entry[i].inFlight ELSE 0) + 1
      /\ paid.inFlight <= MaxPerIdentity
  <2>1. full \in EntryType /\ full.inFlight = EntryFor(i).inFlight
    BY EntryForType DEF LInv
  <2>2. EntryFor(i).inFlight = (IF i \in tracked THEN entry[i].inFlight ELSE 0)
    BY EntryForType DEF LInv
  <2>3. EntryFor(i).inFlight < MaxPerIdentity
    BY DEF Admit, Admissible
  <2>6. Cost \in Int
    BY LimitsAssumption
  <2> HIDE DEF full
  <2>4. paid \in EntryType /\ paid.inFlight = full.inFlight + 1
    <3>1. ASSUME NEW f \in EntryType, NEW t \in Int, NEW n \in Nat
          PROVE  LET g == [f EXCEPT !.tokens = t, !.inFlight = n]
                 IN  g \in EntryType /\ g.inFlight = n
      BY DEF EntryType
    <3>2. full.tokens - Cost \in Int /\ full.inFlight + 1 \in Nat
      BY <2>1, <2>6 DEF EntryType
    <3>. QED  BY <2>1, <3>1, <3>2, ZenonT(40)
  <2>5. full.inFlight \in Nat
    BY <2>1 DEF EntryType
  <2>. QED  BY <2>1, <2>2, <2>3, <2>4, <2>5, LimitsAssumption
<1>4. /\ asking[r] = NoOne
      /\ inFlight < MaxConcurrent
      /\ inFlight' = inFlight + 1
      /\ asking' = [asking EXCEPT ![r] = i]
      /\ now' = now
  BY DEF Admit, Admissible
<1> HIDE DEF paid
<1>5. Types'
  <2>1. Blank \in EntryType
    BY DEF Blank, EntryType
  <2>. QED  BY <1>1, <1>2, <1>3, <1>4, <2>1 DEF Put, LInv, Types
<1>6. ~held[r]
  BY <1>4 DEF LInv, CountInv, Types
<1>7. inFlight' = Cardinality(Outstanding')
  <2>1. Outstanding' = Outstanding \union {r} /\ r \notin Outstanding
    BY <1>4, NoOneAssumption DEF Outstanding, LInv, Types
  <2>2. Outstanding \in SUBSET Requests
    BY DEF Outstanding
  <2>. QED  BY <1>4, <2>1, <2>2, CountsFinite, FS_AddElement DEF LInv, CountInv, CountsMatch
<1>8. \A j \in Identities : Holding(j)' =
        IF j = i /\ i \in keys THEN Holding(j) \union {r} ELSE Holding(j)
  BY <1>1, <1>4, <1>6, NoOneAssumption DEF Holding, LInv, Types
<1>9. r \notin Holding(i) /\ Holding(i) \in SUBSET Requests
  BY <1>6 DEF Holding
<1>10. Cardinality(Holding(i)) = IF i \in tracked THEN entry[i].inFlight ELSE 0
  <2>1. CASE i \in tracked
    BY <2>1 DEF LInv, CountInv, CountsMatch
  <2>2. CASE i \notin tracked
    <3>1. Holding(i) = {}
      BY <2>2 DEF LInv, CountInv, CountsMatch
    <3>. QED  BY <2>2, <3>1, FS_EmptySet
  <2>. QED  BY <2>1, <2>2
<1>11. \A j \in tracked' : entry'[j].inFlight = Cardinality(Holding(j)')
  <2>1. ASSUME NEW j \in tracked', j = i
        PROVE  entry'[j].inFlight = Cardinality(Holding(j)')
    <3>1. i \in keys /\ entry'[i] = paid
      BY <1>1, <2>1 DEF Put
    <3>2. Cardinality(Holding(i)') = Cardinality(Holding(i)) + 1
      BY <1>8, <1>9, <3>1, CountsFinite, FS_AddElement
    <3>. QED  BY <1>3, <1>10, <2>1, <3>1, <3>2
  <2>2. ASSUME NEW j \in tracked', j # i
        PROVE  entry'[j].inFlight = Cardinality(Holding(j)')
    <3>1. j \in tracked /\ j \in Identities /\ entry'[j] = entry[j]
      BY <1>1, <1>2, <2>2 DEF Put
    <3>. QED  BY <1>8, <2>2, <3>1 DEF LInv, CountInv, CountsMatch
  <2>. QED  BY <2>1, <2>2
<1>12. \A j \in Identities : Holding(j)' # {} => j \in tracked'
  <2>1. ASSUME NEW j \in Identities, Holding(j)' # {} PROVE j \in tracked'
    <3>1. tracked' = keys
      BY <1>1 DEF Put
    <3>2. CASE Holding(j) # {}
      <4>1. j \in tracked /\ entry[j].inFlight = Cardinality(Holding(j))
        BY <3>2 DEF LInv, CountInv, CountsMatch
      <4>2. Holding(j) \in SUBSET Requests
        BY DEF Holding
      <4>3. entry[j].inFlight # 0
        BY <3>2, <4>1, <4>2, CountsFinite, FS_EmptySet
      <4>. QED  BY <1>2, <3>1, <4>1, <4>3
    <3>3. CASE Holding(j) = {}
      BY <1>8, <2>1, <3>1, <3>3
    <3>. QED  BY <3>2, <3>3
  <2>. QED  BY <2>1
<1>13. CountsMatch'
  <2>1. tracked' \in SUBSET Identities
    BY <1>5 DEF Types
  <2>. QED  BY <1>7, <1>11, <1>12, <2>1 DEF CountsMatch
<1>14. \A j \in tracked' : entry'[j].inFlight <= MaxPerIdentity
  BY <1>1, <1>2, <1>3 DEF Put, LInv, CountInv, Types
<1>15. (\A q \in Requests : held[q] => asking[q] # NoOne)'
  BY <1>1, <1>4, NoOneAssumption DEF LInv, CountInv, Types
<1>16. (~overflow => \A q \in Requests : asking[q] # NoOne => held[q])'
  BY <1>1, <1>4 DEF LInv, CountInv, Types, Put
<1>17. (inFlight <= MaxConcurrent)'
  BY <1>4, LimitsAssumption DEF LInv, Types
<1>18. MapBounded'
  BY <1>1, SweptBounded DEF LInv, MapBounded, Put
<1>. QED  BY <1>5, <1>13, <1>14, <1>15, <1>16, <1>17, <1>18 DEF LInv, CountInv

(***************************************************************************)
(* A question ended: what Admit added is taken away again, from the same   *)
(* entry, and from nobody's when that entry never was in the map.          *)
(***************************************************************************)
LEMMA FinishStep ==
  ASSUME LInv, NEW r \in Requests, Finish(r)
  PROVE  LInv'
<1>1. PICK i \in Identities : i = asking[r]
  BY DEF Finish, LInv, Types
<1>2. /\ inFlight' = IF inFlight > 0 THEN inFlight - 1 ELSE 0
      /\ entry' = IF held[r]
                  THEN [entry EXCEPT ![i].inFlight = IF @ > 0 THEN @ - 1 ELSE 0]
                  ELSE entry
      /\ asking' = [asking EXCEPT ![r] = NoOne]
      /\ held' = [held EXCEPT ![r] = FALSE]
      /\ UNCHANGED <<now, tracked, overflow>>
  BY <1>1 DEF Finish, historyVars
<1>3. Types'
  <2>1. ASSUME NEW n \in Nat PROVE (IF n > 0 THEN n - 1 ELSE 0) \in Nat
    OBVIOUS
  <2>2. inFlight' \in Nat
    BY <1>2, <2>1 DEF LInv, Types
  <2>3. entry' \in [Identities -> EntryType]
    BY <1>2, <2>1 DEF LInv, Types, EntryType
  <2>. QED  BY <1>2, <2>2, <2>3 DEF LInv, Types
<1>4. inFlight' = Cardinality(Outstanding')
  <2>1. Outstanding' = Outstanding \ {r} /\ r \in Outstanding
    BY <1>1, <1>2, NoOneAssumption DEF Outstanding, LInv, Types
  <2>2. Outstanding \in SUBSET Requests
    BY DEF Outstanding
  <2>3. Cardinality(Outstanding') = Cardinality(Outstanding) - 1 /\ Cardinality(Outstanding) # 0
    BY <2>1, <2>2, CountsFinite, FS_RemoveElement, FS_EmptySet
  <2>. QED  BY <1>2, <2>2, <2>3, CountsFinite DEF LInv, CountInv, CountsMatch
<1>5. \A j \in Identities : Holding(j)' = Holding(j) \ {r}
  BY <1>2, NoOneAssumption DEF Holding, LInv, Types
<1>6. \A j \in Identities : r \in Holding(j) <=> j = i /\ held[r]
  BY <1>1 DEF Holding
<1>7. \A j \in tracked' : entry'[j].inFlight = Cardinality(Holding(j)')
  <2>1. ASSUME NEW j \in tracked PROVE entry'[j].inFlight = Cardinality(Holding(j)')
    <3>1. j \in Identities /\ entry[j].inFlight = Cardinality(Holding(j))
      BY DEF LInv, Types, CountInv, CountsMatch
    <3>2. IsFiniteSet(Holding(j)) /\ Cardinality(Holding(j)) \in Nat
      <4>1. Holding(j) \in SUBSET Requests
        BY DEF Holding
      <4>. QED  BY <4>1, CountsFinite
    <3>3. CASE j = i /\ held[r]
      <4>1. /\ Cardinality(Holding(j)') = Cardinality(Holding(j)) - 1
            /\ Cardinality(Holding(j)) # 0
        BY <1>5, <1>6, <3>1, <3>2, <3>3, FS_RemoveElement, FS_EmptySet
      <4>2. entry'[j].inFlight = IF entry[j].inFlight > 0 THEN entry[j].inFlight - 1 ELSE 0
        BY <1>2, <3>1, <3>3 DEF LInv, Types, EntryType
      <4>. QED  BY <3>1, <3>2, <4>1, <4>2
    <3>4. CASE ~(j = i /\ held[r])
      <4>1. Holding(j)' = Holding(j)
        BY <1>5, <1>6, <3>1, <3>4
      <4>2. entry'[j] = entry[j]
        BY <1>2, <3>1, <3>4 DEF LInv, Types
      <4>. QED  BY <3>1, <4>1, <4>2
    <3>. QED  BY <3>3, <3>4
  <2>. QED  BY <1>2, <2>1
<1>8. CountsMatch'
  BY <1>2, <1>4, <1>5, <1>7 DEF LInv, Types, CountInv, CountsMatch
<1>9. \A j \in tracked' : entry'[j].inFlight <= MaxPerIdentity
  <2>1. ASSUME NEW j \in tracked PROVE entry'[j].inFlight <= MaxPerIdentity
    <3>1. entry[j].inFlight \in Nat /\ entry[j].inFlight <= MaxPerIdentity /\ j \in Identities
      BY DEF LInv, Types, CountInv, EntryType
    <3>2. \/ entry'[j].inFlight = entry[j].inFlight
          \/ entry'[j].inFlight = IF entry[j].inFlight > 0 THEN entry[j].inFlight - 1 ELSE 0
      BY <1>2, <3>1 DEF LInv, Types, EntryType
    <3>. QED  BY <3>1, <3>2, LimitsAssumption
  <2>. QED  BY <1>2, <2>1
<1>10. (\A q \in Requests : held[q] => asking[q] # NoOne)'
  BY <1>2 DEF LInv, CountInv, Types
<1>11. (~overflow => \A q \in Requests : asking[q] # NoOne => held[q])'
  BY <1>2 DEF LInv, CountInv, Types
<1>12. (inFlight <= MaxConcurrent)'
  BY <1>2, LimitsAssumption DEF LInv, CountInv, Types
<1>13. MapBounded'
  BY <1>2 DEF LInv, MapBounded
<1>. QED  BY <1>3, <1>8, <1>9, <1>10, <1>11, <1>12, <1>13 DEF LInv, CountInv

LEMMA IdleStep ==
  ASSUME LInv, Tick \/ UNCHANGED vars
  PROVE  LInv'
<1>1. /\ now' \in Nat
      /\ UNCHANGED <<tracked, entry, inFlight, asking, held, overflow>>
  BY DEF Tick, vars, entryVars, slotVars, historyVars, LInv, Types
<1>2. CountInv'
  BY <1>1 DEF LInv, CountInv, CountsMatch, Outstanding, Holding
<1>. QED  BY <1>1, <1>2 DEF LInv, Types, MapBounded

-----------------------------------------------------------------------------
LEMMA Initial == Init => LInv
<1> SUFFICES ASSUME Init PROVE LInv
  OBVIOUS
<1>1. Types
  <2>1. Blank \in EntryType
    BY DEF Blank, EntryType
  <2>. QED  BY <2>1 DEF Init, Types
<1>2. Outstanding = {} /\ \A i \in Identities : Holding(i) = {}
  BY DEF Init, Outstanding, Holding
<1>3. CountsMatch
  BY <1>2, FS_EmptySet DEF Init, CountsMatch
<1>4. CountInv
  BY <1>3, LimitsAssumption DEF Init, CountInv
<1>5. MapBounded
  BY FS_EmptySet, LimitsAssumption DEF Init, MapBounded
<1>. QED  BY <1>1, <1>4, <1>5 DEF LInv

LEMMA Inductive == LInv /\ [Next]_vars => LInv'
<1> SUFFICES ASSUME LInv, [Next]_vars PROVE LInv'
  OBVIOUS
<1>1. ASSUME NEW r \in Requests, NEW i \in Identities, Admit(r, i) PROVE LInv'
  BY <1>1, AdmitStep
<1>2. ASSUME NEW r \in Requests, Strike(r) PROVE LInv'
  BY <1>2, StrikeStep
<1>3. ASSUME NEW r \in Requests, Finish(r) PROVE LInv'
  BY <1>3, FinishStep
<1>4. ASSUME NEW i \in Identities, Refuse(i) PROVE LInv'
  BY <1>4, RefuseStep
<1>5. CASE Tick \/ UNCHANGED vars
  BY <1>5, IdleStep
<1>. QED  BY <1>1, <1>2, <1>3, <1>4, <1>5 DEF Next

LEMMA Invariance == Spec => []LInv
  BY Initial, Inductive, PTL DEF Spec

(***************************************************************************)
(* The counts are the questions: every slot taken is given back once, to   *)
(* the entry it was taken from, whatever the map sweeps in between.        *)
(***************************************************************************)
THEOREM SlotsAccounted == Spec => []CountsMatch
<1>1. LInv => CountsMatch
  BY DEF LInv, CountInv
<1>. QED  BY <1>1, Invariance, PTL

(***************************************************************************)
(* The ceilings of limits.ts 145-150 hold, in total always and for one     *)
(* identity until the map overflows.                                       *)
(***************************************************************************)
THEOREM Ceilings == Spec => []CeilingsHold
<1>1. ASSUME LInv PROVE CeilingsHold
  <2>1. Cardinality(Outstanding) <= MaxConcurrent
    BY <1>1 DEF LInv, CountInv, CountsMatch
  <2>2. ASSUME ~overflow, NEW i \in Identities PROVE Cardinality(Asking(i)) <= MaxPerIdentity
    <3>1. Asking(i) = Holding(i)
      BY <1>1, <2>2, NoOneAssumption DEF LInv, CountInv, Asking, Holding
    <3>2. CASE Holding(i) = {}
      BY <3>1, <3>2, FS_EmptySet, LimitsAssumption
    <3>3. CASE Holding(i) # {}
      BY <1>1, <3>1, <3>3 DEF LInv, CountInv, CountsMatch
    <3>. QED  BY <3>2, <3>3
  <2>. QED  BY <2>1, <2>2 DEF CeilingsHold
<1>. QED  BY <1>1, Invariance, PTL

(***************************************************************************)
(* The map of identities never outgrows maxTrackedIdentities, however many *)
(* are in use: then it is the newcomer that is not kept.                   *)
(***************************************************************************)
THEOREM BoundedMap == Spec => []MapBounded
<1>1. LInv => MapBounded
  BY DEF LInv
<1>. QED  BY <1>1, Invariance, PTL
-----------------------------------------------------------------------------
(***************************************************************************)
(* The budget.  Whatever touches an entry leaves it funded: what was paid  *)
(* from it and what is left in it came with it or came back since.  And a  *)
(* cooldown is in the map: it keeps its entry from being swept.            *)
(***************************************************************************)
Full == Burst * Cost

Funded(e, paid, since) ==
  /\ e.tokens >= 0
  /\ since <= e.refilledAt /\ e.refilledAt <= now
  /\ paid + e.tokens <= Full + (e.refilledAt - since)

PayTypes == spent \in [Identities -> Nat] /\ born \in [Identities -> Nat]
PayInv == PayTypes /\ \A i \in tracked : Funded(entry[i], spent[i], born[i])

Cooled(i) == cooling[i] > now => i \in tracked /\ entry[i].blockedUntil >= cooling[i]
CoolInv ==
  /\ cooling \in [Identities -> Nat]
  /\ ~overflow => \A i \in Identities : Cooled(i)

\* What an entry that is looked up has paid, and since when.
Paid(i) == IF i \in tracked THEN spent[i] ELSE 0
Since(i) == IF i \in tracked THEN born[i] ELSE now

LEMMA FullIsNatural == Full \in Nat
<1>1. Burst \in Nat /\ Cost \in Nat
  BY LimitsAssumption
<1>. QED  BY <1>1 DEF Full

LEMMA EntryForFunded ==
  ASSUME Types, PayInv, NEW i \in Identities
  PROVE  /\ Paid(i) \in Nat /\ Since(i) \in Nat
         /\ Funded(EntryFor(i), Paid(i), Since(i))
<1>1. CASE i \in tracked
  <2>1. entry[i] \in EntryType /\ Funded(entry[i], spent[i], born[i]) /\ Paid(i) = spent[i] /\ Since(i) = born[i]
    BY <1>1 DEF Types, PayInv, Paid, Since
  <2>2. EntryFor(i).tokens = entry[i].tokens /\ EntryFor(i).refilledAt = entry[i].refilledAt
    BY <1>1, <2>1 DEF EntryFor, EntryType
  <2>. QED  BY <2>1, <2>2 DEF Funded, PayInv, PayTypes
<1>2. CASE i \notin tracked
  <2>1. EntryFor(i) = Fresh /\ Paid(i) = 0 /\ Since(i) = now
    BY <1>2 DEF EntryFor, Paid, Since
  <2>2. Fresh.tokens = Full /\ Fresh.refilledAt = now /\ now \in Nat
    BY DEF Fresh, Full, Types
  <2>. QED  BY <2>1, <2>2, FullIsNatural DEF Funded
<1>. QED  BY <1>1, <1>2

LEMMA RefillFunds ==
  ASSUME Types, NEW e \in EntryType, NEW paid \in Nat, NEW since \in Nat, Funded(e, paid, since)
  PROVE  Funded(Refill(e), paid, since)
<1> DEFINE elapsed == IF now > e.refilledAt THEN now - e.refilledAt ELSE 0
           tokens  == IF e.tokens + elapsed < Full THEN e.tokens + elapsed ELSE Full
<1>1. e.tokens \in Int /\ e.refilledAt \in Nat /\ now \in Nat /\ Full \in Nat
  BY FullIsNatural DEF EntryType, Types
<1>2. Refill(e) = [e EXCEPT !.tokens = tokens, !.refilledAt = now]
  BY DEF Refill, Full
<1>3. elapsed = now - e.refilledAt
  BY <1>1 DEF Funded
<1>4. /\ tokens \in Int /\ tokens >= 0 /\ tokens <= e.tokens + elapsed
  BY <1>1, <1>3 DEF Funded
<1> HIDE DEF tokens
<1>5. Refill(e).tokens = tokens /\ Refill(e).refilledAt = now
  BY <1>2 DEF EntryType
<1> HIDE DEF elapsed
<1>. QED  BY <1>1, <1>3, <1>4, <1>5 DEF Funded

\* A write to the map of an entry that is funded.
LEMMA PutKeepsFunds ==
  ASSUME Types, PayInv, NEW i \in Identities, NEW keys \in Swept(i), NEW log,
         NEW e, Put(i, e, log, keys), UNCHANGED now,
         NEW paid \in Nat, NEW since \in Nat, Funded(e, paid, since),
         spent' = [spent EXCEPT ![i] = paid], born' = [born EXCEPT ![i] = since]
  PROVE  PayInv'
<1>1. keys \in SUBSET Identities /\ keys \subseteq tracked \union {i}
  BY SweptKeeps
<1>2. PayTypes'
  <2>1. spent' \in [Identities -> Nat]
    BY DEF PayInv, PayTypes
  <2>2. born' \in [Identities -> Nat]
    BY DEF PayInv, PayTypes
  <2>. QED  BY <2>1, <2>2 DEF PayTypes
<1>3. ASSUME NEW j \in tracked' PROVE Funded(entry[j], spent[j], born[j])'
  <2>1. j \in keys /\ j \in Identities
    BY <1>1 DEF Put
  <2>2. CASE j = i
    <3>1. entry'[j] = e /\ spent'[j] = paid /\ born'[j] = since
      BY <2>1, <2>2 DEF Put, PayInv, PayTypes
    <3>. QED  BY <3>1 DEF Funded
  <2>3. CASE j # i
    <3>1. j \in tracked /\ entry'[j] = entry[j] /\ spent'[j] = spent[j] /\ born'[j] = born[j]
      BY <1>1, <2>1, <2>3 DEF Put, PayInv, PayTypes
    <3>. QED  BY <3>1 DEF Funded, PayInv
  <2>. QED  BY <2>2, <2>3
<1>. QED  BY <1>2, <1>3 DEF PayInv

LEMMA AdmitPays ==
  ASSUME Types, PayInv, NEW r \in Requests, NEW i \in Identities, Admit(r, i)
  PROVE  PayInv'
<1> DEFINE full == Refill(EntryFor(i))
           paid == [full EXCEPT !.tokens = @ - Cost, !.inFlight = @ + 1]
<1>1. PICK keys \in Swept(i) : Put(i, paid, strikes[i], keys)
  BY DEF Admit
<1>2. full \in EntryType /\ Funded(full, Paid(i), Since(i)) /\ Paid(i) \in Nat /\ Since(i) \in Nat
  BY EntryForType, EntryForFunded, RefillFunds
<1>3. full.tokens >= Cost /\ Cost \in Nat
  BY LimitsAssumption DEF Admit, Affordable
<1> HIDE DEF full
<1>4. paid.tokens = full.tokens - Cost /\ paid.refilledAt = full.refilledAt
  BY <1>2 DEF EntryType
<1>5. Funded(paid, Paid(i) + Cost, Since(i))
  <2>1. full.tokens \in Int /\ full.refilledAt \in Nat /\ now \in Nat /\ Full \in Nat
    BY <1>2, FullIsNatural DEF EntryType, Types
  <2> HIDE DEF paid
  <2>. QED  BY <1>2, <1>3, <1>4, <2>1 DEF Funded
<1>6. /\ spent' = [spent EXCEPT ![i] = Paid(i) + Cost]
      /\ born' = [born EXCEPT ![i] = Since(i)] /\ UNCHANGED now
  BY DEF Admit, Paid, Since, PayInv, PayTypes
<1> HIDE DEF paid
<1>7. Paid(i) + Cost \in Nat
  BY <1>2, <1>3
<1>. QED  BY <1>1, <1>2, <1>5, <1>6, <1>7, PutKeepsFunds

LEMMA RefusePays ==
  ASSUME Types, PayInv, NEW i \in Identities, Refuse(i)
  PROVE  PayInv'
<1> DEFINE e == IF Admissible(EntryFor(i)) THEN Refill(EntryFor(i)) ELSE EntryFor(i)
<1>1. PICK keys \in Swept(i) : Put(i, e, strikes[i], keys)
  BY DEF Refuse
<1>2. Funded(e, Paid(i), Since(i)) /\ Paid(i) \in Nat /\ Since(i) \in Nat
  BY EntryForType, EntryForFunded, RefillFunds
<1>3. /\ spent' = [spent EXCEPT ![i] = Paid(i)]
      /\ born' = [born EXCEPT ![i] = Since(i)] /\ UNCHANGED now
  BY DEF Refuse, Paid, Since, PayInv, PayTypes
<1> HIDE DEF e
<1>. QED  BY <1>1, <1>2, <1>3, PutKeepsFunds

LEMMA StrikePays ==
  ASSUME Types, PayInv, NEW r \in Requests, Strike(r)
  PROVE  PayInv'
<1>1. PICK i \in Identities : i = asking[r]
  BY DEF Strike, Types
<1>2. PICK keys \in Swept(i) : Put(i, StruckEntry(i), StruckLog(i), keys)
  BY <1>1 DEF Strike
<1>3. Funded(EntryFor(i), Paid(i), Since(i)) /\ Paid(i) \in Nat /\ Since(i) \in Nat
  BY EntryForFunded
<1>4. StruckEntry(i).tokens = EntryFor(i).tokens /\ StruckEntry(i).refilledAt = EntryFor(i).refilledAt
  BY EntryForType DEF StruckEntry, EntryType
<1>5. Funded(StruckEntry(i), Paid(i), Since(i))
  BY <1>3, <1>4 DEF Funded
<1>6. /\ spent' = [spent EXCEPT ![i] = Paid(i)]
      /\ born' = [born EXCEPT ![i] = Since(i)] /\ UNCHANGED now
  BY <1>1 DEF Strike, Paid, Since, PayInv, PayTypes
<1>. QED  BY <1>2, <1>3, <1>5, <1>6, PutKeepsFunds

LEMMA PayInductive == LInv /\ PayInv /\ [Next]_vars => PayInv'
<1> SUFFICES ASSUME LInv, PayInv, [Next]_vars PROVE PayInv'
  OBVIOUS
<1>1. Types
  BY DEF LInv
<1>2. ASSUME NEW r \in Requests, Finish(r) PROVE PayInv'
  <2>1. /\ UNCHANGED <<now, tracked, spent, born>>
        /\ \A j \in tracked : entry'[j].tokens = entry[j].tokens /\ entry'[j].refilledAt = entry[j].refilledAt
    BY <1>1, <1>2 DEF Finish, historyVars, Types, EntryType
  <2>. QED  BY <2>1 DEF PayInv, PayTypes, Funded
<1>3. CASE Tick
  <2>1. UNCHANGED <<tracked, entry, spent, born>> /\ now' = now + 1
    BY <1>3 DEF Tick, entryVars, historyVars
  <2>2. \A j \in tracked : entry[j].refilledAt \in Nat
    BY <1>1 DEF Types, EntryType
  <2>. QED  BY <1>1, <2>1, <2>2 DEF PayInv, PayTypes, Funded, Types
<1>4. CASE UNCHANGED vars
  BY <1>4 DEF vars, entryVars, historyVars, PayInv, PayTypes, Funded
<1>. QED  BY <1>1, <1>2, <1>3, <1>4, AdmitPays, RefusePays, StrikePays DEF Next

(***************************************************************************)
(* What an entry admits is bounded by its burst and the time since it was  *)
(* made: refill credits no moment twice, whoever else touches the entry.   *)
(***************************************************************************)
THEOREM Budget == Spec => []BudgetKept
<1>1. Init => PayInv
  BY DEF Init, PayInv, PayTypes
<1>2. ASSUME LInv, PayInv PROVE BudgetKept
  <2>1. ASSUME NEW i \in tracked PROVE spent[i] <= Burst * Cost + (now - born[i])
    <3>1. /\ entry[i].tokens \in Int /\ entry[i].refilledAt \in Nat /\ now \in Nat
          /\ spent[i] \in Nat /\ born[i] \in Nat /\ Funded(entry[i], spent[i], born[i])
      BY <1>2 DEF LInv, Types, EntryType, PayInv, PayTypes
    <3>2. spent[i] <= Full + (now - born[i])
      BY <3>1, FullIsNatural DEF Funded
    <3>. QED  BY <3>2 DEF Full
  <2>. QED  BY <2>1 DEF BudgetKept
<1>. QED  BY <1>1, <1>2, PayInductive, Invariance, PTL DEF Spec

-----------------------------------------------------------------------------
(***************************************************************************)
(* The cooldown.                                                           *)
(***************************************************************************)
\* A write to the map: what it may drop is not cooling down.
LEMMA PutKeepsCooldowns ==
  ASSUME Types, CoolInv, NEW i \in Identities, NEW keys \in Swept(i), NEW log,
         NEW e \in EntryType, Put(i, e, log, keys), UNCHANGED now,
         NEW until \in Nat, cooling' = [cooling EXCEPT ![i] = until],
         ~overflow /\ until > now => e.blockedUntil >= until
  PROVE  CoolInv'
<1>1. /\ keys \in SUBSET Identities
      /\ \A j \in tracked \ keys : entry[j].blockedUntil <= now
  BY SweptKeeps
<1>2. cooling' \in [Identities -> Nat] /\ cooling \in [Identities -> Nat] /\ now \in Nat
  BY DEF CoolInv, Types
<1>3. ASSUME ~overflow', NEW j \in Identities PROVE Cooled(j)'
  <2>1. i \in keys /\ ~overflow
    BY <1>3 DEF Put
  <2>2. CASE j = i
    BY <1>2, <2>1, <2>2 DEF Put, Cooled
  <2>3. CASE j # i
    <3>1. cooling'[j] = cooling[j] /\ Cooled(j)
      BY <1>2, <2>1, <2>3 DEF CoolInv
    <3>2. ASSUME cooling[j] > now PROVE j \in keys /\ entry'[j] = entry[j]
      <4>1. j \in tracked /\ entry[j].blockedUntil >= cooling[j] /\ entry[j].blockedUntil \in Nat
        BY <3>1, <3>2 DEF Cooled, Types, EntryType
      <4>2. j \in keys
        BY <1>1, <1>2, <3>2, <4>1
      <4>. QED  BY <2>3, <4>2 DEF Put
    <3>. QED  BY <3>1, <3>2 DEF Cooled, Put
  <2>. QED  BY <2>2, <2>3
<1>. QED  BY <1>2, <1>3 DEF CoolInv

\* Looking an entry up does not end its cooldown.
LEMMA EntryForCools ==
  ASSUME Types, CoolInv, NEW i \in Identities
  PROVE  /\ ~overflow /\ cooling[i] > now => EntryFor(i).blockedUntil >= cooling[i]
         /\ Refill(EntryFor(i)).blockedUntil = EntryFor(i).blockedUntil
<1>1. ~overflow /\ cooling[i] > now => EntryFor(i).blockedUntil >= cooling[i]
  BY DEF CoolInv, Cooled, EntryFor, Types, EntryType
<1>2. EntryFor(i) \in EntryType
  BY EntryForType
<1>3. ASSUME NEW e \in EntryType, NEW tokens
      PROVE  [e EXCEPT !.tokens = tokens, !.refilledAt = now].blockedUntil = e.blockedUntil
  BY DEF EntryType
<1>. QED  BY <1>1, <1>2, <1>3, Zenon DEF Refill

LEMMA CoolInductive == LInv /\ CoolInv /\ [Next]_vars => CoolInv'
<1> SUFFICES ASSUME LInv, CoolInv, [Next]_vars PROVE CoolInv'
  OBVIOUS
<1>1. Types /\ cooling \in [Identities -> Nat] /\ now \in Nat
  BY DEF LInv, CoolInv, Types
<1>2. ASSUME NEW r \in Requests, NEW i \in Identities, Admit(r, i) PROVE CoolInv'
  <2> DEFINE full == Refill(EntryFor(i))
             paid == [full EXCEPT !.tokens = @ - Cost, !.inFlight = @ + 1]
  <2>1. PICK keys \in Swept(i) : Put(i, paid, strikes[i], keys)
    BY <1>2 DEF Admit
  <2>2. full \in EntryType
    BY <1>1, EntryForType
  <2>3. full.blockedUntil = EntryFor(i).blockedUntil
    BY <1>1, EntryForCools
  <2> HIDE DEF full
  <2>4. paid \in EntryType /\ paid.blockedUntil = full.blockedUntil
    <3>1. full.tokens - Cost \in Int /\ full.inFlight + 1 \in Nat
      BY <2>2, LimitsAssumption DEF EntryType
    <3>. QED  BY <2>2, <3>1 DEF EntryType
  <2> HIDE DEF paid
  <2>5. cooling' = [cooling EXCEPT ![i] = cooling[i]] /\ UNCHANGED now /\ cooling[i] \in Nat
    BY <1>1, <1>2 DEF Admit
  <2>6. ~overflow /\ cooling[i] > now => paid.blockedUntil >= cooling[i]
    BY <1>1, <2>3, <2>4, EntryForCools
  <2>. QED  BY <1>1, <2>1, <2>4, <2>5, <2>6, PutKeepsCooldowns
<1>3. ASSUME NEW i \in Identities, Refuse(i) PROVE CoolInv'
  <2> DEFINE e == IF Admissible(EntryFor(i)) THEN Refill(EntryFor(i)) ELSE EntryFor(i)
  <2>1. PICK keys \in Swept(i) : Put(i, e, strikes[i], keys)
    BY <1>3 DEF Refuse
  <2>2. e \in EntryType /\ e.blockedUntil = EntryFor(i).blockedUntil
    BY <1>1, EntryForType, EntryForCools
  <2>3. cooling' = [cooling EXCEPT ![i] = cooling[i]] /\ UNCHANGED now
    BY <1>1, <1>3 DEF Refuse
  <2> HIDE DEF e
  <2>. QED  BY <1>1, <2>1, <2>2, <2>3, EntryForCools, PutKeepsCooldowns
<1>4. ASSUME NEW r \in Requests, Strike(r) PROVE CoolInv'
  <2>1. PICK i \in Identities : i = asking[r]
    BY <1>1, <1>4 DEF Strike, Types
  <2> DEFINE until == IF Cools(i) THEN now + BlockFor ELSE cooling[i]
  <2>2. PICK keys \in Swept(i) : Put(i, StruckEntry(i), StruckLog(i), keys)
    BY <1>4, <2>1 DEF Strike
  <2>3. now + BlockFor \in Nat /\ EntryFor(i) \in EntryType
    BY <1>1, LimitsAssumption, EntryForType
  <2>4. StruckEntry(i) \in EntryType /\ until \in Nat
    BY <1>1, <2>3 DEF StruckEntry, EntryType
  <2>5. ~overflow /\ until > now => StruckEntry(i).blockedUntil >= until
    <3>1. CASE Cools(i)
      BY <2>3, <3>1 DEF StruckEntry, EntryType
    <3>2. CASE ~Cools(i)
      BY <1>1, <3>2, EntryForCools DEF StruckEntry
    <3>. QED  BY <3>1, <3>2
  <2>6. cooling' = [cooling EXCEPT ![i] = until] /\ UNCHANGED now
    BY <1>1, <1>4, <2>1 DEF Strike
  <2> HIDE DEF until
  <2>. QED  BY <1>1, <2>2, <2>4, <2>5, <2>6, PutKeepsCooldowns
<1>5. ASSUME NEW r \in Requests, Finish(r) PROVE CoolInv'
  <2>1. /\ UNCHANGED <<now, tracked, cooling, overflow>>
        /\ \A j \in Identities : entry'[j].blockedUntil = entry[j].blockedUntil
    BY <1>1, <1>5 DEF Finish, historyVars, Types, EntryType
  <2>. QED  BY <2>1 DEF CoolInv, Cooled
<1>6. CASE Tick
  <2>1. UNCHANGED <<tracked, entry, cooling, overflow>> /\ now' = now + 1
    BY <1>6 DEF Tick, entryVars, historyVars
  <2>. QED  BY <1>1, <2>1 DEF CoolInv, Cooled
<1>7. CASE UNCHANGED vars
  BY <1>7 DEF vars, entryVars, historyVars, CoolInv, Cooled
<1>. QED  BY <1>2, <1>3, <1>4, <1>5, <1>6, <1>7 DEF Next

(***************************************************************************)
(* An announced cooldown holds until its time, whatever else is swept from *)
(* the map: only an overflow of the map can end it early.                  *)
(***************************************************************************)
THEOREM Cooldowns == Spec => CooldownHeld
<1>1. Init => CoolInv
  BY DEF Init, CoolInv, Cooled
<1>2. LInv /\ CoolInv /\ [Next]_vars => [~overflow' => AdmitsNoneCooling]_vars
  <2> SUFFICES ASSUME LInv, CoolInv, Next, ~overflow',
                      NEW r \in Requests, asking[r] = NoOne, asking'[r] # NoOne
               PROVE  cooling[asking'[r]] <= now
    BY DEF AdmitsNoneCooling
  <2>1. PICK i \in Identities : Admit(r, i)
    BY NoOneAssumption DEF Next, Admit, Refuse, Strike, Finish, Tick, slotVars, LInv, Types
  <2>2. asking'[r] = i /\ ~overflow /\ EntryFor(i).blockedUntil <= now
    BY <2>1 DEF Admit, Admissible, Put, LInv, Types
  <2>3. cooling[i] \in Nat /\ now \in Nat /\ EntryFor(i).blockedUntil \in Nat
    BY EntryForType DEF CoolInv, LInv, Types, EntryType
  <2>. QED  BY <2>2, <2>3, EntryForCools DEF LInv
<1>. QED  BY <1>1, <1>2, CoolInductive, Invariance, PTL DEF Spec, CooldownHeld
=============================================================================
