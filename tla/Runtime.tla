------------------------------ MODULE Runtime -------------------------------
(***************************************************************************)
(* createRuntime (server/src/config.ts): what a configuration has to be to *)
(* become a server, the schema loader with its time-to-live, and the gate  *)
(* that vets the host's glossary against each schema it meets.  The loader *)
(* is the host's: a load ends well, with some schema, or fails, whenever   *)
(* it likes - after others that began later, too.                          *)
(***************************************************************************)
EXTENDS Integers, Sequences, FiniteSets, SequencesExt

CONSTANTS
  Configs,    (* What a host may pass; see Accepted.                         *)
  NoConfig,   (* No server runs.                                             *)
  Schemas,    (* The schemas the host's loader may come back with.           *)
  NoSchema,   (* A load that has not ended well.                             *)
  Entries,    (* The entries of the host's glossary.                         *)
  NoFragment, (* Of an entry: see Glossary.                                  *)
  Unset,      (* An option that is not given.                                *)
  MaxTime,    (* Bounds of the model: the clock,                             *)
  MaxLoads    (* and the calls of the host's loader.                         *)

ASSUME RuntimeAssumption ==
  /\ {MaxTime, MaxLoads} \subseteq Nat
  /\ NoSchema \notin Schemas /\ NoConfig \notin Configs
  /\ \A c \in Configs : c.ttl \in Int

VARIABLES
  config,    (* The configuration that was accepted.                         *)
  now,
  loads,     (* Every load there was: when it began, how it stands, what it brought. *)
  cached,    (* The load whose promise is cached, 0 for none.                *)
  against,   (* The load the glossary was last vetted against, 0 for none.   *)
  vetted,    (* What that left of it.                                        *)
  failures   (* History: the loads that failed.                              *)

runtimeVars == <<config, now, loads, cached, against, vetted, failures>>

G == INSTANCE Glossary

Host == G!DefineGlossary(Entries)

(***************************************************************************)
(* Configuring.  A key is [kind, fits]: a secret long enough, a PEM that   *)
(* imports, a url that is https.  Missing is what of tenancy, guard,       *)
(* source and provider is not there or not of its kind; counts are the     *)
(* limits.                                                                 *)
(***************************************************************************)
Or(value, fallback) == IF value = Unset THEN fallback ELSE value

\* count: what is given has to be positive.
Positive(value) == value = Unset \/ value > 0

KeyFits(key, algorithms) ==
  /\ key.fits
  /\ key.kind = "publicKey" => Cardinality(algorithms) = 1

VerifierFits(c) ==
  /\ c.algorithms # {} /\ c.algorithms \subseteq c.supported
  /\ KeyFits(c.key, c.algorithms)
  /\ c.tolerance = Unset \/ c.tolerance \in 1..c.maxTolerance

\* liveRuntime; the defaults are part of the configuration here.
LiveFits(live) ==
  /\ Positive(live.min) /\ Positive(live.max) /\ Positive(live.default)
  /\ Or(live.min, live.fallback.min) <= Or(live.max, live.fallback.max)

\* route: one segment.
RouteFits(name) == name = Unset \/ name = "segment"

Accepted(c) ==
  /\ c.missing = {}
  /\ \A count \in c.counts : Positive(count)
  /\ VerifierFits(c)
  /\ c.ttl >= 0
  /\ LiveFits(c.live)
  /\ RouteFits(c.route)

InitRuntime ==
  /\ config = NoConfig
  /\ now = 0
  /\ loads = <<>>
  /\ cached = 0
  /\ against = 0
  /\ vetted = Host
  /\ failures = 0

\* A configuration that does not fit throws and leaves no server.
CreateRuntime ==
  /\ config = NoConfig
  /\ \E c \in {c \in Configs : Accepted(c)} : config' = c
  /\ UNCHANGED <<now, loads, cached, against, vetted, failures>>

Tick ==
  /\ now < MaxTime
  /\ now' = now + 1
  /\ UNCHANGED <<config, loads, cached, against, vetted, failures>>

(***************************************************************************)
(* schemaLoader.  A call is synchronous up to the promise it returns.      *)
(***************************************************************************)
Fresh == cached # 0 /\ now - loads[cached].at < config.ttl

\* Slip: the promise is cached only once it has settled.
StartUncached ==
  /\ ~Fresh
  /\ Len(loads) < MaxLoads
  /\ loads' = Append(loads, [at |-> now, status |-> "pending", schema |-> NoSchema, seen |-> failures])
  /\ UNCHANGED <<config, now, cached, against, vetted, failures>>

\* The host's loader is called and its promise cached, unless nothing is to be kept.
Start ==
  /\ ~Fresh
  /\ Len(loads) < MaxLoads
  /\ loads' = Append(loads, [at |-> now, status |-> "pending", schema |-> NoSchema, seen |-> failures])
  /\ cached' = IF config.ttl = 0 THEN cached ELSE Len(loads')
  /\ UNCHANGED <<config, now, against, vetted, failures>>

\* The load that rt.schema() waits on.
Awaited == IF Fresh THEN cached ELSE Len(loads')

Call ==
  /\ config # NoConfig
  /\ Start \/ (Fresh /\ UNCHANGED runtimeVars)

LoadEnds(l) ==
  /\ loads[l].status = "pending"
  /\ \E s \in Schemas : loads' = [loads EXCEPT ![l].status = "ok", ![l].schema = s]
  /\ UNCHANGED <<config, now, cached, against, vetted, failures>>

\* The cache is cleared whatever is in it, a load that began later included.
LoadFails(l) ==
  /\ loads[l].status = "pending"
  /\ loads' = [loads EXCEPT ![l].status = "failed"]
  /\ cached' = IF config.ttl = 0 THEN cached ELSE 0
  /\ failures' = failures + 1
  /\ UNCHANGED <<config, now, against, vetted>>

(***************************************************************************)
(* glossaryGate.  Every load brings an object of its own, so the schema it *)
(* was vetted against is known by the load.                                *)
(***************************************************************************)
\* Slip: vetted once and for all.
VetOnce(l) ==
  /\ against' = l
  /\ vetted' = IF against # 0 THEN vetted ELSE G!Vetted(Host, loads[l].schema)

\* use and check: what the glossary is worth under the schema of a load.
Vet(l) ==
  /\ against' = l
  /\ vetted' = IF against = l THEN vetted ELSE G!Vetted(Host, loads[l].schema)

\* The host asks for the report, of a schema it was given.
CheckGlossary(l) ==
  /\ loads[l].status = "ok" /\ against # l
  /\ Vet(l)
  /\ UNCHANGED <<config, now, loads, cached, failures>>

NextRuntime ==
  \/ CreateRuntime \/ Tick \/ Call
  \/ \E l \in DOMAIN loads : LoadEnds(l) \/ LoadFails(l) \/ CheckGlossary(l)

(***************************************************************************)
(* A second introspection within the time-to-live of another begins only   *)
(* after one has failed (config.ts 106-118): however many questions come   *)
(* at once, and in whatever order the loads end.                           *)
(***************************************************************************)
OneLoadPerTtl ==
  config # NoConfig =>
    \A a, b \in DOMAIN loads :
      a < b /\ loads[b].at - loads[a].at < config.ttl => loads[b].seen > loads[a].seen
=============================================================================
