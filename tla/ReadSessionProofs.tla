------------------------- MODULE ReadSessionProofs --------------------------
(***************************************************************************)
(* For every number of requests, connections, tenants and settings: a read *)
(* runs under its own tenant's scope, a planned query cannot write, and no *)
(* connection is shared, leaked or handed on dirty.                        *)
(***************************************************************************)
EXTENDS ReadSession, TLAPS

(***************************************************************************)
(* The strengthening.  The properties above speak of what was read and of  *)
(* idle sessions; they are inductive only with what is true of a session   *)
(* while a read is using it, statement by statement.                       *)
(***************************************************************************)
OwnScope(r) == IF SingleTenant \/ kind[r] = "catalog" THEN Nobody ELSE who[r]

\* What a request knows before and after the resolver answered.
HandlerInv ==
  \A r \in Requests :
    /\ pc[r] \in {"free", "resolve", "connect", "begin"} => at[r] = 1
    /\ pc[r] \in {"free", "resolve", "connect", "begin", "preamble", "assert", "query"}
         => outcome[r] = "none"
    /\ pc[r] \in {"free", "resolve"} => scope[r] = Nobody
    /\ kind[r] = "catalog" => pc[r] \notin {"free", "resolve", "assert"}
    /\ pc[r] \in {"connect"} \union InSession =>
         /\ scope[r] = OwnScope(r)
         /\ kind[r] = "guarded" /\ ~SingleTenant => who[r] \in Tenants

\* What the session a request holds is in, while it is reachable.
SessionOf(r) ==
  pc[r] \in InSession /\ alive[lease[r]] =>
    /\ pc[r] = "begin" => tx[lease[r]] = "none" /\ guc[lease[r]] = NoSettings
    /\ pc[r] = "preamble" =>
         /\ tx[lease[r]] = "open"
         /\ at[r] <= PreambleLength(r)
         /\ \A k \in Settings :
              guc[lease[r]][k] = IF k < at[r] THEN Preamble(r, k) ELSE Unset
    /\ pc[r] \in {"assert", "query"} =>
         tx[lease[r]] = "open" /\ guc[lease[r]] = Owed(r)
    /\ pc[r] = "query" /\ kind[r] = "guarded" => ro[lease[r]]

SessionInv == \A r \in Requests : SessionOf(r)

IInv ==
  /\ TypeOK
  /\ LeasesMatchReads
  /\ IdleSessionsAreClean
  /\ HandlerInv
  /\ SessionInv
  /\ ReadUnderOwnScope
  /\ GuardedReadsCannotWrite

-----------------------------------------------------------------------------
LEMMA NoSettingsType == NoSettings \in [Settings -> Tenants \union {Pinned, Unset}]
  BY DEF NoSettings

\* A read in progress holds a leased connection that nobody else holds.
LEMMA Holder ==
  ASSUME TypeOK, LeasesMatchReads, NEW r \in Requests, pc[r] \in InSession
  PROVE  /\ lease[r] \in Connections
         /\ slot[lease[r]] = "leased"
         /\ \A q \in Requests \ {r} : lease[q] # lease[r]
  BY DEF TypeOK, LeasesMatchReads

\* What another request or the network leaves alone keeps its SessionOf.
LEMMA SessionFrame ==
  ASSUME NEW q \in Requests, SessionOf(q),
         pc'[q] = pc[q], kind'[q] = kind[q], scope'[q] = scope[q], who'[q] = who[q],
         at'[q] = at[q], lease'[q] = lease[q],
         pc[q] \in InSession /\ alive'[lease[q]] =>
           /\ alive[lease[q]]
           /\ tx'[lease[q]] = tx[lease[q]]
           /\ guc'[lease[q]] = guc[lease[q]]
           /\ ro'[lease[q]] = ro[lease[q]]
  PROVE  SessionOf(q)'
  BY DEF SessionOf, InSession, PreambleLength, Preamble, Owed

\* A session whose preamble has run to its end.
LEMMA SessionReady ==
  ASSUME NEW q \in Requests,
         pc'[q] \in {"assert", "query"},
         tx'[lease'[q]] = "open",
         guc'[lease'[q]] = Owed(q)',
         pc'[q] = "query" => kind'[q] # "guarded"
  PROVE  SessionOf(q)'
  BY DEF SessionOf

LEMMA InitEstablishes == Init => IInv
  BY CountsAssumption, ValuesAssumption
  DEF Init, IInv, TypeOK, LeasesMatchReads, IdleSessionsAreClean, HandlerInv, SessionInv,
      SessionOf, ReadUnderOwnScope, GuardedReadsCannotWrite, InSession, Settings, NoSettings

LEMMA ArriveStep ==
  ASSUME IInv, NEW r \in Requests, NEW t \in Tenants \union {Nobody},
         NEW k \in {"guarded", "catalog"}, k = "catalog" => t = Nobody, Arrive(r, t, k)
  PROVE  IInv'
<1> USE CountsAssumption, ValuesAssumption DEF Arrive, Goto, handlerVars, viewVars, sessionVars
<1>1. TypeOK'
  BY NoSettingsType DEF IInv, TypeOK
<1>2. LeasesMatchReads'
  BY <1>1 DEF IInv, TypeOK, LeasesMatchReads, InSession
<1>3. IdleSessionsAreClean'
  BY <1>1 DEF IInv, TypeOK, LeasesMatchReads, IdleSessionsAreClean, InSession
<1>4. HandlerInv'
  BY DEF IInv, TypeOK, HandlerInv, InSession, OwnScope
<1>5. SessionInv'
  <2>1. SessionOf(r)'
    BY <1>1 DEF IInv, TypeOK, LeasesMatchReads, IdleSessionsAreClean, HandlerInv, SessionInv, SessionOf,
           InSession, OwnScope, PreambleLength, Preamble, Owed, NoSettings, Settings
  <2>2. ASSUME NEW q \in Requests \ {r} PROVE SessionOf(q)'
    BY <2>2, SessionFrame DEF IInv, TypeOK, LeasesMatchReads, SessionInv, InSession
  <2>. QED  BY <2>1, <2>2 DEF SessionInv
<1>6. ReadUnderOwnScope'
  BY <1>1 DEF IInv, TypeOK, HandlerInv, SessionInv, SessionOf, ReadUnderOwnScope, InSession, Owed
<1>7. GuardedReadsCannotWrite'
  BY <1>1 DEF IInv, TypeOK, HandlerInv, SessionInv, SessionOf, GuardedReadsCannotWrite, InSession
<1>. QED
  BY <1>1, <1>2, <1>3, <1>4, <1>5, <1>6, <1>7 DEF IInv

LEMMA ResolveOkStep ==
  ASSUME IInv, NEW r \in Requests, ResolveOk(r)
  PROVE  IInv'
<1> USE CountsAssumption, ValuesAssumption DEF ResolveOk, Goto, handlerVars, viewVars, sessionVars
<1>1. TypeOK'
  BY NoSettingsType DEF IInv, TypeOK
<1>2. LeasesMatchReads'
  BY <1>1 DEF IInv, TypeOK, LeasesMatchReads, InSession
<1>3. IdleSessionsAreClean'
  BY <1>1 DEF IInv, TypeOK, LeasesMatchReads, IdleSessionsAreClean, InSession
<1>4. HandlerInv'
  BY DEF IInv, TypeOK, HandlerInv, InSession, OwnScope
<1>5. SessionInv'
  <2>1. SessionOf(r)'
    BY <1>1 DEF IInv, TypeOK, LeasesMatchReads, IdleSessionsAreClean, HandlerInv, SessionInv, SessionOf,
           InSession, OwnScope, PreambleLength, Preamble, Owed, NoSettings, Settings
  <2>2. ASSUME NEW q \in Requests \ {r} PROVE SessionOf(q)'
    BY <2>2, SessionFrame DEF IInv, TypeOK, LeasesMatchReads, SessionInv, InSession
  <2>. QED  BY <2>1, <2>2 DEF SessionInv
<1>6. ReadUnderOwnScope'
  BY <1>1 DEF IInv, TypeOK, HandlerInv, SessionInv, SessionOf, ReadUnderOwnScope, InSession, Owed
<1>7. GuardedReadsCannotWrite'
  BY <1>1 DEF IInv, TypeOK, HandlerInv, SessionInv, SessionOf, GuardedReadsCannotWrite, InSession
<1>. QED
  BY <1>1, <1>2, <1>3, <1>4, <1>5, <1>6, <1>7 DEF IInv

LEMMA ResolveFailsStep ==
  ASSUME IInv, NEW r \in Requests, ResolveFails(r)
  PROVE  IInv'
<1> USE CountsAssumption, ValuesAssumption DEF ResolveFails, Goto, handlerVars, viewVars, sessionVars
<1>1. TypeOK'
  BY NoSettingsType DEF IInv, TypeOK
<1>2. LeasesMatchReads'
  BY <1>1 DEF IInv, TypeOK, LeasesMatchReads, InSession
<1>3. IdleSessionsAreClean'
  BY <1>1 DEF IInv, TypeOK, LeasesMatchReads, IdleSessionsAreClean, InSession
<1>4. HandlerInv'
  BY DEF IInv, TypeOK, HandlerInv, InSession, OwnScope
<1>5. SessionInv'
  <2>1. SessionOf(r)'
    BY <1>1 DEF IInv, TypeOK, LeasesMatchReads, IdleSessionsAreClean, HandlerInv, SessionInv, SessionOf,
           InSession, OwnScope, PreambleLength, Preamble, Owed, NoSettings, Settings
  <2>2. ASSUME NEW q \in Requests \ {r} PROVE SessionOf(q)'
    BY <2>2, SessionFrame DEF IInv, TypeOK, LeasesMatchReads, SessionInv, InSession
  <2>. QED  BY <2>1, <2>2 DEF SessionInv
<1>6. ReadUnderOwnScope'
  BY <1>1 DEF IInv, TypeOK, HandlerInv, SessionInv, SessionOf, ReadUnderOwnScope, InSession, Owed
<1>7. GuardedReadsCannotWrite'
  BY <1>1 DEF IInv, TypeOK, HandlerInv, SessionInv, SessionOf, GuardedReadsCannotWrite, InSession
<1>. QED
  BY <1>1, <1>2, <1>3, <1>4, <1>5, <1>6, <1>7 DEF IInv

LEMMA ConnectStep ==
  ASSUME IInv, NEW r \in Requests, NEW c \in Connections, Connect(r, c)
  PROVE  IInv'
<1> USE CountsAssumption, ValuesAssumption DEF Connect, Goto, handlerVars, viewVars, sessionVars
<1>0. lease[r] = NoConn /\ \A q \in Requests : lease[q] # c
  BY DEF IInv, LeasesMatchReads, InSession
<1>1. TypeOK'
  BY NoSettingsType, ZenonT(40) DEF IInv, TypeOK
<1>2. LeasesMatchReads'
  <2>1. \A q \in Requests : lease'[q] = IF q = r THEN c ELSE lease[q]
    BY DEF IInv, TypeOK
  <2>2. \A q \in Requests : pc'[q] = IF q = r THEN "begin" ELSE pc[q]
    BY DEF IInv, TypeOK
  <2>3. \A d \in Connections : slot'[d] = IF d = c THEN "leased" ELSE slot[d]
    BY DEF IInv, TypeOK
  <2>. QED  BY <1>0, <2>1, <2>2, <2>3 DEF IInv, LeasesMatchReads, InSession
<1>3. IdleSessionsAreClean'
  BY <1>1 DEF IInv, TypeOK, LeasesMatchReads, IdleSessionsAreClean, InSession
<1>4. HandlerInv'
  BY DEF IInv, TypeOK, HandlerInv, InSession, OwnScope
<1>5. SessionInv'
  <2>1. SessionOf(r)'
    BY <1>1 DEF IInv, TypeOK, LeasesMatchReads, IdleSessionsAreClean, HandlerInv, SessionInv, SessionOf,
           InSession, OwnScope, PreambleLength, Preamble, Owed, NoSettings, Settings
  <2>2. ASSUME NEW q \in Requests \ {r} PROVE SessionOf(q)'
    <3>1. /\ pc'[q] = pc[q] /\ kind'[q] = kind[q] /\ scope'[q] = scope[q]
          /\ who'[q] = who[q] /\ at'[q] = at[q] /\ lease'[q] = lease[q]
      BY <2>2 DEF IInv, TypeOK
    <3>2. pc[q] \in InSession => lease[q] \in Connections \ {c}
      BY <1>0, <2>2 DEF IInv, TypeOK, LeasesMatchReads
    <3>3. \A d \in Connections \ {c} :
            /\ alive'[d] = alive[d] /\ tx'[d] = tx[d] /\ guc'[d] = guc[d] /\ ro'[d] = ro[d]
      BY DEF IInv, TypeOK
    <3>4. SessionOf(q)
      BY <2>2 DEF IInv, SessionInv
    <3>. QED  BY <2>2, <3>1, <3>2, <3>3, <3>4, SessionFrame
  <2>. QED  BY <2>1, <2>2 DEF SessionInv
<1>6. ReadUnderOwnScope'
  BY <1>1 DEF IInv, TypeOK, HandlerInv, SessionInv, SessionOf, ReadUnderOwnScope, InSession, Owed
<1>7. GuardedReadsCannotWrite'
  BY <1>1 DEF IInv, TypeOK, HandlerInv, SessionInv, SessionOf, GuardedReadsCannotWrite, InSession
<1>. QED
  BY <1>1, <1>2, <1>3, <1>4, <1>5, <1>6, <1>7 DEF IInv

LEMMA ConnectTimesOutStep ==
  ASSUME IInv, NEW r \in Requests, ConnectTimesOut(r)
  PROVE  IInv'
<1> USE CountsAssumption, ValuesAssumption DEF ConnectTimesOut, Goto, handlerVars, viewVars, sessionVars
<1>1. TypeOK'
  BY NoSettingsType DEF IInv, TypeOK
<1>2. LeasesMatchReads'
  BY <1>1 DEF IInv, TypeOK, LeasesMatchReads, InSession
<1>3. IdleSessionsAreClean'
  BY <1>1 DEF IInv, TypeOK, LeasesMatchReads, IdleSessionsAreClean, InSession
<1>4. HandlerInv'
  BY DEF IInv, TypeOK, HandlerInv, InSession, OwnScope
<1>5. SessionInv'
  <2>1. SessionOf(r)'
    BY <1>1 DEF IInv, TypeOK, LeasesMatchReads, IdleSessionsAreClean, HandlerInv, SessionInv, SessionOf,
           InSession, OwnScope, PreambleLength, Preamble, Owed, NoSettings, Settings
  <2>2. ASSUME NEW q \in Requests \ {r} PROVE SessionOf(q)'
    BY <2>2, SessionFrame DEF IInv, TypeOK, LeasesMatchReads, SessionInv, InSession
  <2>. QED  BY <2>1, <2>2 DEF SessionInv
<1>6. ReadUnderOwnScope'
  BY <1>1 DEF IInv, TypeOK, HandlerInv, SessionInv, SessionOf, ReadUnderOwnScope, InSession, Owed
<1>7. GuardedReadsCannotWrite'
  BY <1>1 DEF IInv, TypeOK, HandlerInv, SessionInv, SessionOf, GuardedReadsCannotWrite, InSession
<1>. QED
  BY <1>1, <1>2, <1>3, <1>4, <1>5, <1>6, <1>7 DEF IInv

LEMMA BeginStep ==
  ASSUME IInv, NEW r \in Requests, Begin(r)
  PROVE  IInv'
<1> USE CountsAssumption, ValuesAssumption DEF Begin, Goto, handlerVars, viewVars, sessionVars
<1>0. /\ lease[r] \in Connections
      /\ slot[lease[r]] = "leased"
      /\ \A q \in Requests \ {r} : lease[q] # lease[r]
  BY Holder DEF IInv, InSession
<1>1. TypeOK'
  BY <1>0, NoSettingsType DEF IInv, TypeOK
<1>2. LeasesMatchReads'
  BY <1>0, <1>1 DEF IInv, TypeOK, LeasesMatchReads, InSession
<1>3. IdleSessionsAreClean'
  BY <1>0, <1>1 DEF IInv, TypeOK, LeasesMatchReads, IdleSessionsAreClean, InSession
<1>4. HandlerInv'
  BY DEF IInv, TypeOK, HandlerInv, InSession, OwnScope
<1>5. SessionInv'
  <2>1. SessionOf(r)'
    <3>1. pc'[r] = "preamble" /\ at'[r] = 1 /\ lease' = lease /\ alive' = alive
      BY <1>0 DEF IInv, TypeOK, HandlerInv
    <3>2. tx'[lease[r]] = "open" /\ guc' = guc
      BY <1>0 DEF IInv, TypeOK
    <3>3. guc[lease[r]] = NoSettings
      BY <1>0 DEF IInv, SessionInv, SessionOf, InSession
    <3>4. 1 <= PreambleLength(r)'
      BY DEF PreambleLength
    <3>. QED  BY <3>1, <3>2, <3>3, <3>4 DEF SessionOf, NoSettings, Settings
  <2>2. ASSUME NEW q \in Requests \ {r} PROVE SessionOf(q)'
    BY <1>0, <2>2, SessionFrame DEF IInv, TypeOK, LeasesMatchReads, SessionInv, InSession
  <2>. QED  BY <2>1, <2>2 DEF SessionInv
<1>6. ReadUnderOwnScope'
  BY <1>0, <1>1 DEF IInv, TypeOK, HandlerInv, SessionInv, SessionOf, ReadUnderOwnScope, InSession, Owed
<1>7. GuardedReadsCannotWrite'
  BY <1>0, <1>1 DEF IInv, TypeOK, HandlerInv, SessionInv, SessionOf, GuardedReadsCannotWrite, InSession
<1>. QED
  BY <1>1, <1>2, <1>3, <1>4, <1>5, <1>6, <1>7 DEF IInv

LEMMA RunPreambleStep ==
  ASSUME IInv, NEW r \in Requests, RunPreamble(r)
  PROVE  IInv'
<1> USE CountsAssumption, ValuesAssumption DEF RunPreamble, SetLocal, handlerVars, viewVars, sessionVars
<1>0. /\ lease[r] \in Connections
      /\ slot[lease[r]] = "leased"
      /\ \A q \in Requests \ {r} : lease[q] # lease[r]
  BY Holder DEF IInv, InSession
<1>1. TypeOK'
  <2>1. at[r] \in Settings /\ at[r] <= PreambleLength(r) /\ tx[lease[r]] = "open"
    BY <1>0 DEF IInv, TypeOK, SessionInv, SessionOf, InSession, PreambleLength, Settings
  <2>2. Preamble(r, at[r]) \in Tenants \union {Pinned}
    BY <2>1 DEF IInv, TypeOK, Preamble, PreambleLength, Settings
  <2>3. guc' \in [Connections -> [Settings -> Tenants \union {Pinned, Unset}]]
    BY <1>0, <2>1, <2>2 DEF IInv, TypeOK
  <2>4. at' \in [Requests -> 1..(NFixed + NScope + 1)]
    BY <2>1 DEF IInv, TypeOK, Settings
  <2>. QED  BY <2>3, <2>4 DEF IInv, TypeOK
<1>2. LeasesMatchReads'
  BY <1>0, <1>1 DEF IInv, TypeOK, LeasesMatchReads, InSession
<1>3. IdleSessionsAreClean'
  BY <1>0, <1>1 DEF IInv, TypeOK, LeasesMatchReads, IdleSessionsAreClean, InSession
<1>4. HandlerInv'
  BY DEF IInv, TypeOK, HandlerInv, InSession, OwnScope
<1>5. SessionInv'
  <2>1. SessionOf(r)'
    <3>1. SessionOf(r)
      BY DEF IInv, SessionInv
    <3>2. /\ tx[lease[r]] = "open" /\ at[r] \in Settings /\ at[r] <= PreambleLength(r)
          /\ \A k \in Settings : guc[lease[r]][k] = IF k < at[r] THEN Preamble(r, k) ELSE Unset
      BY <1>0, <3>1 DEF SessionOf, InSession, IInv, TypeOK, PreambleLength, Settings
    <3>3. /\ at'[r] = at[r] + 1 /\ tx' = tx /\ lease' = lease /\ scope' = scope
          /\ kind' = kind /\ who' = who
      BY DEF IInv, TypeOK
    <3>4. \A k \in Settings :
            guc'[lease[r]][k] = IF k = at[r] THEN Preamble(r, k) ELSE guc[lease[r]][k]
      BY <1>0, <3>2 DEF IInv, TypeOK
    <3>5. \A k \in Settings :
            guc'[lease[r]][k] = IF k < at[r] + 1 THEN Preamble(r, k) ELSE Unset
      BY <3>2, <3>4 DEF IInv, TypeOK, Settings
    <3>6. CASE at[r] < PreambleLength(r)
      <4>1. pc'[r] = "preamble" /\ at'[r] <= PreambleLength(r)
        BY <3>3, <3>6 DEF IInv, TypeOK, PreambleLength, Settings
      <4>. QED  BY <3>2, <3>3, <3>5, <4>1 DEF SessionOf, PreambleLength, Preamble
    <3>7. CASE at[r] = PreambleLength(r)
      <4>1. pc'[r] = IF kind[r] = "guarded" THEN "assert" ELSE "query"
        BY <3>7 DEF IInv, TypeOK, PreambleLength
      <4>2. \A k \in Settings : guc'[lease[r]][k] = Owed(r)[k]
        BY <3>5, <3>7 DEF IInv, TypeOK, HandlerInv, InSession, OwnScope,
                          PreambleLength, Preamble, Owed, Settings
      <4>3. guc'[lease[r]] = Owed(r)
        <5>1. guc'[lease[r]] \in [Settings -> Tenants \union {Pinned, Unset}]
          BY <1>0, <1>1 DEF TypeOK
        <5>2. Owed(r) = [k \in Settings |-> Owed(r)[k]]
          BY DEF Owed
        <5>. QED  BY <4>2, <5>1, <5>2
      <4>4. Owed(r)' = Owed(r)
        BY <3>3 DEF Owed
      <4>5. /\ tx'[lease'[r]] = "open"
            /\ guc'[lease'[r]] = Owed(r)'
            /\ pc'[r] = "query" => kind'[r] # "guarded"
        BY <3>2, <3>3, <4>1, <4>3, <4>4
      <4>6. pc'[r] \in {"assert", "query"}
        BY <4>1
      <4>. QED  BY <4>5, <4>6, SessionReady
    <3>8. at[r] \in Int /\ PreambleLength(r) \in Int
      BY <3>2 DEF PreambleLength, Settings
    <3>9. at[r] < PreambleLength(r) \/ at[r] = PreambleLength(r)
      BY <3>2, <3>8
    <3>. QED  BY <3>6, <3>7, <3>9
  <2>2. ASSUME NEW q \in Requests \ {r} PROVE SessionOf(q)'
    BY <1>0, <2>2, SessionFrame DEF IInv, TypeOK, LeasesMatchReads, SessionInv, InSession
  <2>. QED  BY <2>1, <2>2 DEF SessionInv
<1>6. ReadUnderOwnScope'
  BY <1>0, <1>1 DEF IInv, TypeOK, HandlerInv, SessionInv, SessionOf, ReadUnderOwnScope, InSession, Owed
<1>7. GuardedReadsCannotWrite'
  BY <1>0, <1>1 DEF IInv, TypeOK, HandlerInv, SessionInv, SessionOf, GuardedReadsCannotWrite, InSession
<1>. QED
  BY <1>1, <1>2, <1>3, <1>4, <1>5, <1>6, <1>7 DEF IInv

LEMMA AssertReadOnlyStep ==
  ASSUME IInv, NEW r \in Requests, AssertReadOnly(r)
  PROVE  IInv'
<1> USE CountsAssumption, ValuesAssumption DEF AssertReadOnly, handlerVars, viewVars, sessionVars
<1>0. /\ lease[r] \in Connections
      /\ slot[lease[r]] = "leased"
      /\ \A q \in Requests \ {r} : lease[q] # lease[r]
  BY Holder DEF IInv, InSession
<1>1. TypeOK'
  BY <1>0, NoSettingsType DEF IInv, TypeOK
<1>2. LeasesMatchReads'
  BY <1>0, <1>1 DEF IInv, TypeOK, LeasesMatchReads, InSession
<1>3. IdleSessionsAreClean'
  BY <1>0, <1>1 DEF IInv, TypeOK, LeasesMatchReads, IdleSessionsAreClean, InSession
<1>4. HandlerInv'
  BY DEF IInv, TypeOK, HandlerInv, InSession, OwnScope
<1>5. SessionInv'
  <2>1. SessionOf(r)'
    <3>1. SessionOf(r)
      BY DEF IInv, SessionInv
    <3>2. Owed(r)' = Owed(r)
      BY DEF Owed
    <3>3. pc'[r] = IF ro[lease[r]] THEN "query" ELSE "rollback"
      BY DEF IInv, TypeOK
    <3>. QED  BY <1>0, <3>1, <3>2, <3>3 DEF SessionOf, InSession
  <2>2. ASSUME NEW q \in Requests \ {r} PROVE SessionOf(q)'
    BY <1>0, <2>2, SessionFrame DEF IInv, TypeOK, LeasesMatchReads, SessionInv, InSession
  <2>. QED  BY <2>1, <2>2 DEF SessionInv
<1>6. ReadUnderOwnScope'
  BY <1>0, <1>1 DEF IInv, TypeOK, HandlerInv, SessionInv, SessionOf, ReadUnderOwnScope, InSession, Owed
<1>7. GuardedReadsCannotWrite'
  BY <1>0, <1>1 DEF IInv, TypeOK, HandlerInv, SessionInv, SessionOf, GuardedReadsCannotWrite, InSession
<1>. QED
  BY <1>1, <1>2, <1>3, <1>4, <1>5, <1>6, <1>7 DEF IInv

LEMMA RunQueryStep ==
  ASSUME IInv, NEW r \in Requests, RunQuery(r)
  PROVE  IInv'
<1> USE CountsAssumption, ValuesAssumption DEF RunQuery, Goto, handlerVars, viewVars, sessionVars
<1>0. /\ lease[r] \in Connections
      /\ slot[lease[r]] = "leased"
      /\ \A q \in Requests \ {r} : lease[q] # lease[r]
  BY Holder DEF IInv, InSession
<1>1. TypeOK'
  BY <1>0, NoSettingsType DEF IInv, TypeOK
<1>2. LeasesMatchReads'
  BY <1>0, <1>1 DEF IInv, TypeOK, LeasesMatchReads, InSession
<1>3. IdleSessionsAreClean'
  BY <1>0, <1>1 DEF IInv, TypeOK, LeasesMatchReads, IdleSessionsAreClean, InSession
<1>4. HandlerInv'
  BY DEF IInv, TypeOK, HandlerInv, InSession, OwnScope
<1>5. SessionInv'
  <2>1. SessionOf(r)'
    BY <1>0, <1>1 DEF IInv, TypeOK, LeasesMatchReads, IdleSessionsAreClean, HandlerInv, SessionInv, SessionOf,
           InSession, OwnScope, PreambleLength, Preamble, Owed, NoSettings, Settings
  <2>2. ASSUME NEW q \in Requests \ {r} PROVE SessionOf(q)'
    BY <1>0, <2>2, SessionFrame DEF IInv, TypeOK, LeasesMatchReads, SessionInv, InSession
  <2>. QED  BY <2>1, <2>2 DEF SessionInv
<1>6. ReadUnderOwnScope'
  <2>1. \A q \in Requests : Owed(q)' = Owed(q)
    BY DEF Owed
  <2>2. guc[lease[r]] = Owed(r) /\ (kind[r] = "guarded" /\ ~SingleTenant => who[r] \in Tenants)
    BY DEF IInv, HandlerInv, SessionInv, SessionOf, InSession
  <2>3. \A q \in Requests :
          /\ outcome'[q] = IF q = r THEN "rows" ELSE outcome[q]
          /\ view'[q] = IF q = r THEN guc[lease[r]] ELSE view[q]
    BY DEF IInv, TypeOK
  <2>. QED  BY <2>1, <2>2, <2>3 DEF IInv, ReadUnderOwnScope
<1>7. GuardedReadsCannotWrite'
  BY <1>0, <1>1 DEF IInv, TypeOK, HandlerInv, SessionInv, SessionOf, GuardedReadsCannotWrite, InSession
<1>. QED
  BY <1>1, <1>2, <1>3, <1>4, <1>5, <1>6, <1>7 DEF IInv

LEMMA StatementFailsStep ==
  ASSUME IInv, NEW r \in Requests, StatementFails(r)
  PROVE  IInv'
<1> USE CountsAssumption, ValuesAssumption DEF StatementFails, handlerVars, viewVars, sessionVars
<1>0. /\ lease[r] \in Connections
      /\ slot[lease[r]] = "leased"
      /\ \A q \in Requests \ {r} : lease[q] # lease[r]
  BY Holder DEF IInv, InSession
<1>1. TypeOK'
  BY <1>0, NoSettingsType DEF IInv, TypeOK
<1>2. LeasesMatchReads'
  BY <1>0, <1>1 DEF IInv, TypeOK, LeasesMatchReads, InSession
<1>3. IdleSessionsAreClean'
  BY <1>0, <1>1 DEF IInv, TypeOK, LeasesMatchReads, IdleSessionsAreClean, InSession
<1>4. HandlerInv'
  BY DEF IInv, TypeOK, HandlerInv, InSession, OwnScope
<1>5. SessionInv'
  <2>1. SessionOf(r)'
    BY <1>0, <1>1 DEF IInv, TypeOK, LeasesMatchReads, IdleSessionsAreClean, HandlerInv, SessionInv, SessionOf,
           InSession, OwnScope, PreambleLength, Preamble, Owed, NoSettings, Settings
  <2>2. ASSUME NEW q \in Requests \ {r} PROVE SessionOf(q)'
    BY <1>0, <2>2, SessionFrame DEF IInv, TypeOK, LeasesMatchReads, SessionInv, InSession
  <2>. QED  BY <2>1, <2>2 DEF SessionInv
<1>6. ReadUnderOwnScope'
  BY <1>0, <1>1 DEF IInv, TypeOK, HandlerInv, SessionInv, SessionOf, ReadUnderOwnScope, InSession, Owed
<1>7. GuardedReadsCannotWrite'
  BY <1>0, <1>1 DEF IInv, TypeOK, HandlerInv, SessionInv, SessionOf, GuardedReadsCannotWrite, InSession
<1>. QED
  BY <1>1, <1>2, <1>3, <1>4, <1>5, <1>6, <1>7 DEF IInv

LEMMA RollbackOkStep ==
  ASSUME IInv, NEW r \in Requests, RollbackOk(r)
  PROVE  IInv'
<1> USE CountsAssumption, ValuesAssumption DEF RollbackOk, Goto, Release, handlerVars, viewVars, sessionVars
<1>0. /\ lease[r] \in Connections
      /\ slot[lease[r]] = "leased"
      /\ \A q \in Requests \ {r} : lease[q] # lease[r]
  BY Holder DEF IInv, InSession
<1>1. TypeOK'
  BY <1>0, NoSettingsType DEF IInv, TypeOK
<1>2. LeasesMatchReads'
  BY <1>0, <1>1 DEF IInv, TypeOK, LeasesMatchReads, InSession
<1>3. IdleSessionsAreClean'
  BY <1>0, <1>1 DEF IInv, TypeOK, LeasesMatchReads, IdleSessionsAreClean, InSession
<1>4. HandlerInv'
  BY DEF IInv, TypeOK, HandlerInv, InSession, OwnScope
<1>5. SessionInv'
  <2>1. SessionOf(r)'
    BY <1>0, <1>1 DEF IInv, TypeOK, LeasesMatchReads, IdleSessionsAreClean, HandlerInv, SessionInv, SessionOf,
           InSession, OwnScope, PreambleLength, Preamble, Owed, NoSettings, Settings
  <2>2. ASSUME NEW q \in Requests \ {r} PROVE SessionOf(q)'
    <3>1. /\ pc'[q] = pc[q] /\ kind'[q] = kind[q] /\ scope'[q] = scope[q]
          /\ who'[q] = who[q] /\ at'[q] = at[q] /\ lease'[q] = lease[q]
      BY <2>2 DEF IInv, TypeOK
    <3>2. pc[q] \in InSession => lease[q] \in Connections \ {lease[r]}
      BY <1>0, <2>2 DEF IInv, TypeOK, LeasesMatchReads
    <3>3. \A d \in Connections \ {lease[r]} :
            /\ alive'[d] = alive[d] /\ tx'[d] = tx[d] /\ guc'[d] = guc[d] /\ ro'[d] = ro[d]
      BY DEF IInv, TypeOK
    <3>4. SessionOf(q)
      BY <2>2 DEF IInv, SessionInv
    <3>. QED  BY <2>2, <3>1, <3>2, <3>3, <3>4, SessionFrame
  <2>. QED  BY <2>1, <2>2 DEF SessionInv
<1>6. ReadUnderOwnScope'
  BY <1>0, <1>1 DEF IInv, TypeOK, HandlerInv, SessionInv, SessionOf, ReadUnderOwnScope, InSession, Owed
<1>7. GuardedReadsCannotWrite'
  BY <1>0, <1>1 DEF IInv, TypeOK, HandlerInv, SessionInv, SessionOf, GuardedReadsCannotWrite, InSession
<1>. QED
  BY <1>1, <1>2, <1>3, <1>4, <1>5, <1>6, <1>7 DEF IInv

LEMMA RollbackFailsStep ==
  ASSUME IInv, NEW r \in Requests, RollbackFails(r)
  PROVE  IInv'
<1> USE CountsAssumption, ValuesAssumption DEF RollbackFails, Goto, Release, handlerVars, viewVars, sessionVars
<1>0. /\ lease[r] \in Connections
      /\ slot[lease[r]] = "leased"
      /\ \A q \in Requests \ {r} : lease[q] # lease[r]
  BY Holder DEF IInv, InSession
<1>1. TypeOK'
  BY <1>0, NoSettingsType DEF IInv, TypeOK
<1>2. LeasesMatchReads'
  BY <1>0, <1>1 DEF IInv, TypeOK, LeasesMatchReads, InSession
<1>3. IdleSessionsAreClean'
  BY <1>0, <1>1 DEF IInv, TypeOK, LeasesMatchReads, IdleSessionsAreClean, InSession
<1>4. HandlerInv'
  BY DEF IInv, TypeOK, HandlerInv, InSession, OwnScope
<1>5. SessionInv'
  <2>1. SessionOf(r)'
    BY <1>0, <1>1 DEF IInv, TypeOK, LeasesMatchReads, IdleSessionsAreClean, HandlerInv, SessionInv, SessionOf,
           InSession, OwnScope, PreambleLength, Preamble, Owed, NoSettings, Settings
  <2>2. ASSUME NEW q \in Requests \ {r} PROVE SessionOf(q)'
    BY <1>0, <2>2, SessionFrame DEF IInv, TypeOK, LeasesMatchReads, SessionInv, InSession
  <2>. QED  BY <2>1, <2>2 DEF SessionInv
<1>6. ReadUnderOwnScope'
  BY <1>0, <1>1 DEF IInv, TypeOK, HandlerInv, SessionInv, SessionOf, ReadUnderOwnScope, InSession, Owed
<1>7. GuardedReadsCannotWrite'
  BY <1>0, <1>1 DEF IInv, TypeOK, HandlerInv, SessionInv, SessionOf, GuardedReadsCannotWrite, InSession
<1>. QED
  BY <1>1, <1>2, <1>3, <1>4, <1>5, <1>6, <1>7 DEF IInv

LEMMA LeaveStep ==
  ASSUME IInv, NEW r \in Requests, Leave(r)
  PROVE  IInv'
<1> USE CountsAssumption, ValuesAssumption DEF Leave, Goto, handlerVars, viewVars, sessionVars
<1>1. TypeOK'
  BY NoSettingsType DEF IInv, TypeOK
<1>2. LeasesMatchReads'
  BY <1>1 DEF IInv, TypeOK, LeasesMatchReads, InSession
<1>3. IdleSessionsAreClean'
  BY <1>1 DEF IInv, TypeOK, LeasesMatchReads, IdleSessionsAreClean, InSession
<1>4. HandlerInv'
  BY DEF IInv, TypeOK, HandlerInv, InSession, OwnScope
<1>5. SessionInv'
  <2>1. SessionOf(r)'
    BY <1>1 DEF IInv, TypeOK, LeasesMatchReads, IdleSessionsAreClean, HandlerInv, SessionInv, SessionOf,
           InSession, OwnScope, PreambleLength, Preamble, Owed, NoSettings, Settings
  <2>2. ASSUME NEW q \in Requests \ {r} PROVE SessionOf(q)'
    BY <2>2, SessionFrame DEF IInv, TypeOK, LeasesMatchReads, SessionInv, InSession
  <2>. QED  BY <2>1, <2>2 DEF SessionInv
<1>6. ReadUnderOwnScope'
  <2>1. outcome'[r] = "none"
    BY DEF IInv, TypeOK
  <2>2. ASSUME NEW q \in Requests \ {r}
        PROVE  /\ outcome'[q] = outcome[q] /\ view'[q] = view[q] /\ who'[q] = who[q]
               /\ kind'[q] = kind[q] /\ Owed(q)' = Owed(q)
    BY <2>2 DEF IInv, TypeOK, Owed
  <2>. QED  BY <2>1, <2>2 DEF IInv, ReadUnderOwnScope
<1>7. GuardedReadsCannotWrite'
  BY <1>1 DEF IInv, TypeOK, HandlerInv, SessionInv, SessionOf, GuardedReadsCannotWrite, InSession
<1>. QED
  BY <1>1, <1>2, <1>3, <1>4, <1>5, <1>6, <1>7 DEF IInv
LEMMA TerminateStep ==
  ASSUME IInv, NEW c \in Connections, Terminate(c)
  PROVE  IInv'
<1> USE DEF Terminate, handlerVars, viewVars, sessionVars
<1>1. TypeOK'
  BY DEF IInv, TypeOK
<1>2. LeasesMatchReads'
  BY DEF IInv, LeasesMatchReads
<1>3. IdleSessionsAreClean'
  BY DEF IInv, TypeOK, IdleSessionsAreClean
<1>4. HandlerInv'
  BY DEF IInv, HandlerInv, OwnScope
<1>5. SessionInv'
  <2>1. ASSUME NEW q \in Requests PROVE SessionOf(q)'
    <3>1. pc[q] \in InSession /\ alive'[lease[q]] => alive[lease[q]]
      BY <2>1 DEF IInv, TypeOK, LeasesMatchReads
    <3>. QED  BY <2>1, <3>1, SessionFrame DEF IInv, SessionInv
  <2>. QED  BY <2>1 DEF SessionInv
<1>6. ReadUnderOwnScope' /\ GuardedReadsCannotWrite'
  BY DEF IInv, ReadUnderOwnScope, GuardedReadsCannotWrite, Owed
<1>. QED
  BY <1>1, <1>2, <1>3, <1>4, <1>5, <1>6 DEF IInv

LEMMA StutterStep ==
  ASSUME IInv, UNCHANGED vars
  PROVE  IInv'
<1> USE DEF vars, handlerVars, viewVars, sessionVars
<1>1. SessionInv'
  <2>1. ASSUME NEW q \in Requests PROVE SessionOf(q)'
    BY <2>1, SessionFrame DEF IInv, SessionInv
  <2>. QED  BY <2>1 DEF SessionInv
<1>2. TypeOK' /\ LeasesMatchReads' /\ IdleSessionsAreClean'
  BY DEF IInv, TypeOK, LeasesMatchReads, IdleSessionsAreClean
<1>3. HandlerInv' /\ ReadUnderOwnScope' /\ GuardedReadsCannotWrite'
  BY DEF IInv, HandlerInv, OwnScope, ReadUnderOwnScope, GuardedReadsCannotWrite, Owed
<1>. QED  BY <1>1, <1>2, <1>3 DEF IInv

LEMMA NextPreserves == IInv /\ [Next]_vars => IInv'
<1> SUFFICES ASSUME IInv, [Next]_vars PROVE IInv'
  OBVIOUS
<1>1. ASSUME NEW r \in Requests, NEW t \in Tenants \union {Nobody}, Arrive(r, t, "guarded")
      PROVE  IInv'
  BY <1>1, ArriveStep
<1>2. ASSUME NEW r \in Requests, Arrive(r, Nobody, "catalog") PROVE IInv'
  BY <1>2, ArriveStep
<1>3. ASSUME NEW r \in Requests, Step(r) PROVE IInv'
  BY <1>3, ResolveOkStep, ResolveFailsStep, ConnectStep, ConnectTimesOutStep, BeginStep,
     RunPreambleStep, AssertReadOnlyStep, RunQueryStep, StatementFailsStep, RollbackOkStep,
     RollbackFailsStep, LeaveStep DEF Step
<1>4. ASSUME NEW c \in Connections, Terminate(c) PROVE IInv'
  BY <1>4, TerminateStep
<1>5. CASE UNCHANGED vars
  BY <1>5, StutterStep
<1>. QED  BY <1>1, <1>2, <1>3, <1>4, <1>5 DEF Next

LEMMA Inductive == Spec => []IInv
  BY InitEstablishes, NextPreserves, PTL DEF Spec

-----------------------------------------------------------------------------
(* Every variable keeps its type, for every pool and set of tenants.       *)
THEOREM TypeCorrect == Spec => []TypeOK
<1>1. IInv => TypeOK
  BY DEF IInv
<1>. QED  BY <1>1, Inductive, PTL

(***************************************************************************)
(* Rows are only ever read under the whole preamble and the scope of the   *)
(* tenant whose token the request carried (execute.ts, runGuardedRead).    *)
(***************************************************************************)
THEOREM TenantIsolation == Spec => []ReadUnderOwnScope
<1>1. IInv => ReadUnderOwnScope
  BY DEF IInv
<1>. QED  BY <1>1, Inductive, PTL

(* A planned query only ever runs in a confirmed read-only transaction.    *)
THEOREM ReadOnly == Spec => []GuardedReadsCannotWrite
<1>1. IInv => GuardedReadsCannotWrite
  BY DEF IInv
<1>. QED  BY <1>1, Inductive, PTL

(* No read leaves a session in the pool with a transaction or a scope.     *)
THEOREM CleanReuse == Spec => []IdleSessionsAreClean
<1>1. IInv => IdleSessionsAreClean
  BY DEF IInv
<1>. QED  BY <1>1, Inductive, PTL

(* Connections are neither leaked nor shared between reads in progress.    *)
THEOREM NoLeaks == Spec => []LeasesMatchReads
<1>1. IInv => LeasesMatchReads
  BY DEF IInv
<1>. QED  BY <1>1, Inductive, PTL
-----------------------------------------------------------------------------
(***************************************************************************)
(* The session implements TenantRead.  Statements of a session are hidden; *)
(* a request is answered when its connection has been released.            *)
(***************************************************************************)

\* The scope owed to a request shows it what it is entitled to.
LEMMA OwedShowsRightful ==
  ASSUME NEW r \in Requests, kind[r] \in {"guarded", "catalog"},
         kind[r] = "guarded" /\ ~SingleTenant => who[r] \in Tenants
  PROVE  Visible(Owed(r)) = Abstract!Rightful(who[r], kind[r])
<1> USE CountsAssumption, ModeAssumption, ValuesAssumption DEF Visible, Owed, Abstract!Rightful
<1>1. CASE SingleTenant
  BY <1>1
<1>2. CASE ~SingleTenant
  <2>1. NFixed + 1 \in Settings /\ NFixed + 1 > NFixed
    BY DEF Settings
  <2>2. CASE kind[r] = "catalog"
    <3>1. Owed(r)[NFixed + 1] \notin Tenants
      BY <2>1, <2>2
    <3>. QED  BY <1>2, <2>1, <2>2, <3>1
  <2>3. CASE kind[r] = "guarded"
    <3>1. \A k \in Settings : k > NFixed => Owed(r)[k] = who[r]
      BY <1>2, <2>3 DEF Settings
    <3>. QED  BY <1>2, <2>1, <2>3, <3>1
  <2>. QED  BY <2>2, <2>3
<1>. QED  BY <1>1, <1>2

LEMMA InitRefines == Init => Abstract!Init
  BY DEF Init, Abstract!Init, PhaseBar, RowsBar, SafeBar, Phase, Answered

\* A step that leaves every request in the phase it was in is a stutter.
LEMMA HiddenStep ==
  ASSUME who' = who, kind' = kind,
         \A q \in Requests :
           \/ Phase(q)' = Phase(q) /\ ~Answered(q)' /\ ~Answered(q)
           \/ /\ pc'[q] = pc[q] /\ outcome'[q] = outcome[q]
              /\ view'[q] = view[q] /\ viewRo'[q] = viewRo[q]
  PROVE  UNCHANGED Abstract!vars
<1>1. \A q \in Requests : Phase(q)' = Phase(q)
  BY DEF Phase, Answered
<1>2. \A q \in Requests :
        (IF Answered(q) THEN Visible(view[q]) ELSE {})'
          = IF Answered(q) THEN Visible(view[q]) ELSE {}
  BY DEF Answered, Visible
<1>3. \A q \in Requests :
        (IF Answered(q) THEN viewRo[q] ELSE FALSE)'
          = IF Answered(q) THEN viewRo[q] ELSE FALSE
  BY DEF Answered
<1>. QED  BY <1>1, <1>2, <1>3 DEF Abstract!vars, PhaseBar, RowsBar, SafeBar

\* The facts about the bars that a step on one request needs: the others keep
\* their phase, rows and safety.
LEMMA OneRequest ==
  ASSUME NEW r \in Requests,
         \A q \in Requests \ {r} :
           pc'[q] = pc[q] /\ outcome'[q] = outcome[q] /\ view'[q] = view[q] /\ viewRo'[q] = viewRo[q]
  PROVE  /\ PhaseBar' = [PhaseBar EXCEPT ![r] = Phase(r)']
         /\ RowsBar' = [RowsBar EXCEPT ![r] = IF Answered(r)' THEN Visible(view[r])' ELSE {}]
         /\ SafeBar' = [SafeBar EXCEPT ![r] = IF Answered(r)' THEN viewRo'[r] ELSE FALSE]
<1>1. \A q \in Requests \ {r} :
        /\ Phase(q)' = Phase(q)
        /\ Answered(q)' <=> Answered(q)
        /\ Visible(view[q])' = Visible(view[q])
  BY DEF Phase, Answered, Visible
<1>2. PhaseBar' = [PhaseBar EXCEPT ![r] = Phase(r)']
  BY <1>1 DEF PhaseBar
<1>3. RowsBar' = [RowsBar EXCEPT ![r] = IF Answered(r)' THEN Visible(view[r])' ELSE {}]
  BY <1>1 DEF RowsBar
<1>4. SafeBar' = [SafeBar EXCEPT ![r] = IF Answered(r)' THEN viewRo'[r] ELSE FALSE]
  BY <1>1 DEF SafeBar
<1>. QED  BY <1>2, <1>3, <1>4

LEMMA AskStep ==
  ASSUME IInv, NEW r \in Requests, NEW t \in Tenants \union {Nobody},
         NEW k \in {"guarded", "catalog"}, Arrive(r, t, k)
  PROVE  Abstract!Ask(r, t, k)
<1>1. \A q \in Requests \ {r} : pc'[q] = pc[q] /\ outcome'[q] = outcome[q]
                                /\ view'[q] = view[q] /\ viewRo'[q] = viewRo[q]
  BY DEF Arrive, Goto, IInv, TypeOK, viewVars
<1>2. Phase(r) = "free" /\ Phase(r)' = "pending" /\ ~Answered(r) /\ ~Answered(r)'
  BY DEF Phase, Answered, Arrive, Goto, IInv, TypeOK
<1>3. PhaseBar[r] = "free" /\ RowsBar[r] = {} /\ SafeBar[r] = FALSE
  BY <1>2 DEF PhaseBar, RowsBar, SafeBar
<1>4. /\ PhaseBar' = [PhaseBar EXCEPT ![r] = "pending"]
      /\ RowsBar' = [RowsBar EXCEPT ![r] = {}]
      /\ SafeBar' = [SafeBar EXCEPT ![r] = FALSE]
  BY <1>1, <1>2, OneRequest
<1>5. RowsBar' = RowsBar /\ SafeBar' = SafeBar
  BY <1>3, <1>4 DEF RowsBar, SafeBar
<1>. QED  BY <1>3, <1>4, <1>5 DEF Abstract!Ask, Arrive

\* A request that ends without rows, at whatever statement it failed.
LEMMA RefuseStep ==
  ASSUME IInv, NEW r \in Requests, pc[r] \notin {"free", "done"}, pc'[r] = "done",
         outcome'[r] # "rows", who' = who, kind' = kind,
         \A q \in Requests \ {r} : pc'[q] = pc[q] /\ outcome'[q] = outcome[q]
                                  /\ view'[q] = view[q] /\ viewRo'[q] = viewRo[q]
  PROVE  Abstract!Refuse(r)
<1>1. Phase(r) = "pending" /\ Phase(r)' = "refused" /\ ~Answered(r) /\ ~Answered(r)'
  BY DEF Phase, Answered
<1>2. PhaseBar[r] = "pending" /\ RowsBar[r] = {} /\ SafeBar[r] = FALSE
  BY <1>1 DEF PhaseBar, RowsBar, SafeBar
<1>3. /\ PhaseBar' = [PhaseBar EXCEPT ![r] = "refused"]
      /\ RowsBar' = [RowsBar EXCEPT ![r] = {}]
      /\ SafeBar' = [SafeBar EXCEPT ![r] = FALSE]
  BY <1>1, OneRequest
<1>4. RowsBar' = RowsBar /\ SafeBar' = SafeBar
  BY <1>2, <1>3 DEF RowsBar, SafeBar
<1>. QED  BY <1>2, <1>3, <1>4 DEF Abstract!Refuse

\* A request whose query ran is served as its connection is released.
LEMMA ServeStep ==
  ASSUME IInv, NEW r \in Requests, pc[r] = "rollback", outcome[r] = "rows", pc'[r] = "done",
         outcome' = outcome, view' = view, viewRo' = viewRo, who' = who, kind' = kind,
         \A q \in Requests \ {r} : pc'[q] = pc[q]
  PROVE  Abstract!Serve(r, viewRo[r])
<1>1. Phase(r) = "pending" /\ Phase(r)' = "served" /\ ~Answered(r) /\ Answered(r)'
  BY DEF Phase, Answered
<1>2. /\ kind[r] \in {"guarded", "catalog"}
      /\ view[r] = Owed(r)
      /\ kind[r] = "guarded" /\ ~SingleTenant => who[r] \in Tenants
      /\ kind[r] = "guarded" => viewRo[r]
  BY DEF IInv, TypeOK, ReadUnderOwnScope, GuardedReadsCannotWrite
<1>3. Visible(view[r])' = Abstract!Rightful(who[r], kind[r])
  <2>1. Visible(view[r])' = Visible(view[r])
    BY DEF Visible
  <2>2. Visible(view[r]) = Abstract!Rightful(who[r], kind[r])
    BY <1>2, OwedShowsRightful
  <2>. QED  BY <2>1, <2>2
<1>4. /\ PhaseBar' = [PhaseBar EXCEPT ![r] = "served"]
      /\ RowsBar' = [RowsBar EXCEPT ![r] = Abstract!Rightful(who[r], kind[r])]
      /\ SafeBar' = [SafeBar EXCEPT ![r] = viewRo[r]]
  BY <1>1, <1>3, OneRequest
<1>5. PhaseBar[r] = "pending"
  BY <1>1 DEF PhaseBar
<1>. QED  BY <1>2, <1>4, <1>5 DEF Abstract!Serve

LEMMA LeaveRefines ==
  ASSUME IInv, NEW r \in Requests, Leave(r)
  PROVE  Abstract!Leave(r)
<1> USE DEF Leave, Goto, IInv, TypeOK
<1>1. \A q \in Requests \ {r} : pc'[q] = pc[q] /\ outcome'[q] = outcome[q]
                                /\ view'[q] = view[q] /\ viewRo'[q] = viewRo[q]
  OBVIOUS
<1>2. Phase(r) \in {"served", "refused"} /\ Phase(r)' = "free" /\ ~Answered(r)'
  BY DEF Phase, Answered
<1>3. PhaseBar[r] \in {"served", "refused"}
  BY <1>2 DEF PhaseBar
<1>4. /\ PhaseBar' = [PhaseBar EXCEPT ![r] = "free"]
      /\ RowsBar' = [RowsBar EXCEPT ![r] = {}]
      /\ SafeBar' = [SafeBar EXCEPT ![r] = FALSE]
  BY <1>1, <1>2, OneRequest
<1>. QED  BY <1>3, <1>4 DEF Abstract!Leave

LEMMA ReleaseRefines ==
  ASSUME IInv, NEW r \in Requests, RollbackOk(r) \/ RollbackFails(r)
  PROVE  Abstract!Serve(r, viewRo[r]) \/ Abstract!Refuse(r)
<1>1. /\ pc[r] = "rollback" /\ pc'[r] = "done" /\ \A q \in Requests \ {r} : pc'[q] = pc[q]
      /\ outcome' = outcome /\ view' = view /\ viewRo' = viewRo /\ who' = who /\ kind' = kind
  BY DEF RollbackOk, RollbackFails, Goto, IInv, TypeOK, handlerVars, viewVars
<1>2. CASE outcome[r] = "rows"
  BY <1>1, <1>2, ServeStep
<1>3. CASE outcome[r] # "rows"
  BY <1>1, <1>3, RefuseStep
<1>. QED  BY <1>2, <1>3

LEMMA StepRefines ==
  ASSUME IInv, NEW r \in Requests, Step(r)
  PROVE  \/ \E safely \in BOOLEAN : Abstract!Serve(r, safely)
         \/ Abstract!Refuse(r)
         \/ Abstract!Leave(r)
         \/ UNCHANGED Abstract!vars
<1>1. CASE ResolveFails(r) \/ ConnectTimesOut(r)
  BY <1>1, RefuseStep DEF ResolveFails, ConnectTimesOut, Goto, IInv, TypeOK, handlerVars, viewVars
<1>2. CASE RollbackOk(r) \/ RollbackFails(r)
  BY <1>2, ReleaseRefines DEF IInv, TypeOK
<1>3. CASE Leave(r)
  BY <1>3, LeaveRefines
<1>4. CASE \/ ResolveOk(r) \/ (\E c \in Connections : Connect(r, c)) \/ Begin(r)
           \/ RunPreamble(r) \/ AssertReadOnly(r) \/ RunQuery(r) \/ StatementFails(r)
  <2>1. /\ who' = who /\ kind' = kind
        /\ pc[r] \notin {"free", "done"} /\ pc'[r] \notin {"free", "done"}
        /\ \A q \in Requests \ {r} : pc'[q] = pc[q] /\ outcome'[q] = outcome[q]
                                    /\ view'[q] = view[q] /\ viewRo'[q] = viewRo[q]
    BY <1>4 DEF ResolveOk, Connect, Begin, RunPreamble, AssertReadOnly, RunQuery,
                StatementFails, Goto, IInv, TypeOK, handlerVars, viewVars
  <2>2. Phase(r) = "pending" /\ Phase(r)' = "pending" /\ ~Answered(r) /\ ~Answered(r)'
    BY <2>1 DEF Phase, Answered
  <2>. QED  BY <2>1, <2>2, HiddenStep
<1>. QED  BY <1>1, <1>2, <1>3, <1>4 DEF Step

LEMMA NextRefines == IInv /\ [Next]_vars => [Abstract!Next]_(Abstract!vars)
<1> SUFFICES ASSUME IInv, [Next]_vars PROVE [Abstract!Next]_(Abstract!vars)
  OBVIOUS
<1>1. ASSUME NEW r \in Requests, NEW t \in Tenants \union {Nobody}, Arrive(r, t, "guarded")
      PROVE  Abstract!Next
  BY <1>1, AskStep DEF Abstract!Next
<1>2. ASSUME NEW r \in Requests, Arrive(r, Nobody, "catalog") PROVE Abstract!Next
  BY <1>2, AskStep DEF Abstract!Next
<1>3. ASSUME NEW r \in Requests, Step(r) PROVE [Abstract!Next]_(Abstract!vars)
  BY <1>3, StepRefines DEF Abstract!Next
<1>4. ASSUME NEW c \in Connections, Terminate(c) PROVE UNCHANGED Abstract!vars
  BY <1>4, HiddenStep DEF Terminate, handlerVars, viewVars
<1>5. CASE UNCHANGED vars
  BY <1>5, HiddenStep DEF vars, handlerVars, viewVars
<1>. QED  BY <1>1, <1>2, <1>3, <1>4, <1>5 DEF Next

(***************************************************************************)
(* Every behaviour of the read session, on any pool, is one TenantRead     *)
(* allows: refused, or served its own tenant's rows read-only.             *)
(***************************************************************************)
THEOREM Refinement == Spec => ImplementsTenantRead
  BY InitRefines, NextRefines, Inductive, PTL DEF Spec, ImplementsTenantRead, Abstract!Spec
=============================================================================
