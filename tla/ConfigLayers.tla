----------------------------- MODULE ConfigLayers -----------------------------
(***************************************************************************)
(* How a node makes its configuration (config.py): its own file, read at   *)
(* start and at a reload, over the dynamic configuration of the cluster,   *)
(* over the defaults; the timeouts it adjusts, and the copy it keeps of    *)
(* the dynamic configuration for its next start.                           *)
(*                                                                         *)
(* One setting stands for all of a kind.  The environment counts as a part *)
(* of the file; sections of the old format are left out.                   *)
(***************************************************************************)
EXTENDS Integers

CONSTANTS
  Node,
  Number,       \* what a setting may be set to
  MaxVersion,   \* bound: versions of /config
  MaxRestarts,  \* bound
  Garbled       \* may a client set a timeout to what is no number?

VARIABLES
  key,          \* /config: [version, config]
  local,        \* _local_configuration
  dynamic,      \* _dynamic_configuration
  effective,    \* __effective_configuration
  seen,         \* _modify_version
  cache,        \* patroni.dynamic.json
  restarts

vars == <<key, local, dynamic, effective, seen, cache, restarts>>

Timeout == {"loop_wait", "retry_timeout", "ttl"}
CmdLine == {"max_connections", "port"}        \* CMDLINE_OPTIONS
DynamicOnly == Timeout \cup {"use_slots"}
LocalOnly == {"listen"}
Name == DynamicOnly \cup CmdLine \cup LocalOnly \cup {"work_mem"}
ClusterWide == DynamicOnly \cup CmdLine

Unset == -1
Garbage == -2
Nothing == [n \in Name |-> Unset]
DefaultTimeout == [loop_wait |-> 10, retry_timeout |-> 10, ttl |-> 30]
Default ==
  [n \in Name |-> IF n \in Timeout THEN DefaultTimeout[n]
                  ELSE IF n = "max_connections" THEN 100
                  ELSE IF n = "use_slots" THEN 1 ELSE Unset]

-----------------------------------------------------------------------------
\* _validate_and_adjust_timeouts

Value(c, n) == IF c[n] = Unset THEN Default[n] ELSE c[n]
Minimum == [loop_wait |-> 1, retry_timeout |-> 3, ttl |-> 20]
AtLeast(c) ==
  [n \in Name |-> IF n \in Timeout /\ Value(c, n) < Minimum[n] THEN Minimum[n] ELSE c[n]]
Shortened(c) ==
  LET retry == Value(c, "retry_timeout")
      ttl == Value(c, "ttl") IN
  IF 1 + 2 * retry > ttl
  THEN [c EXCEPT !["loop_wait"] = 1, !["retry_timeout"] = (ttl - 1) \div 2]
  ELSE IF Value(c, "loop_wait") + 2 * retry > ttl
  THEN [c EXCEPT !["loop_wait"] = ttl - 2 * retry] ELSE c
Adjusted(c) == Shortened(AtLeast(c))
IsNumeric(c) == \A n \in Timeout : c[n] # Garbage

-----------------------------------------------------------------------------
\* _build_effective_configuration

Over(low, high) == [n \in Name |-> IF high[n] = Unset THEN low[n] ELSE high[n]]
Without(c, names) == [n \in Name |-> IF n \in names THEN Unset ELSE c[n]]

ParametersOfAll(c, isLocal) == Without(c, {n \in CmdLine : c[n] = Garbage \/ n = "port"})
\* _process_postgresql_parameters: of the command line, nothing local, nothing invalid.
Parameters(c, isLocal) ==
  Without(c, {n \in CmdLine : isLocal \/ c[n] = Garbage \/ n = "port"})
SafeCopy(d) == Over(Default, Without(Parameters(d, FALSE), LocalOnly))
Build(d, l) == Over(SafeCopy(d), Without(Parameters(l, TRUE), DynamicOnly))

-----------------------------------------------------------------------------
Init ==
  /\ key = [version |-> 0, config |-> Nothing]
  /\ local = [n \in Node |-> Nothing] /\ dynamic = local /\ cache = local
  /\ effective = [n \in Node |-> Build(Nothing, Nothing)]
  /\ seen = [n \in Node |-> -1] /\ restarts = 0

Set(f, n, v) == [f EXCEPT ![n] = v]

\* A client changes a setting of the cluster.
Write ==
  /\ key.version < MaxVersion
  /\ \E n \in Name, v \in Number \cup {Unset, Garbage} :
       /\ v # key.config[n] /\ (v = Garbage /\ n \in Timeout => Garbled)
       /\ key' = [version |-> key.version + 1, config |-> [key.config EXCEPT ![n] = v]]
  /\ UNCHANGED <<local, dynamic, effective, seen, cache, restarts>>

\* The end of a cycle: set_dynamic_configuration, which remembers a version that it
\* then refuses, and save_cache, which may fail.
Apply(n) ==
  /\ key.version # 0 /\ key.version # seen[n] /\ seen' = Set(seen, n, key.version)
  /\ IF dynamic[n] # key.config /\ IsNumeric(key.config)
     THEN /\ dynamic' = Set(dynamic, n, Adjusted(key.config))
          /\ effective' = Set(effective, n, Build(Adjusted(key.config), local[n]))
     ELSE UNCHANGED <<dynamic, effective>>
  /\ cache' \in {cache, Set(cache, n, dynamic'[n])}
  /\ UNCHANGED <<key, local, restarts>>

\* The file is changed and reloaded: reload_local_configuration.
ReloadLocal(n) ==
  /\ \A m \in Node : local[m] = Nothing   \* bound
  /\ \E name \in Name, v \in Number :
       /\ local' = [local EXCEPT ![n][name] = v]
       /\ effective' = Set(effective, n, Build(dynamic[n], local'[n]))
  /\ UNCHANGED <<key, dynamic, seen, cache, restarts>>

\* Config.__init__, _load_cache
Restart(n) ==
  /\ restarts < MaxRestarts /\ restarts' = restarts + 1
  /\ dynamic' = Set(dynamic, n, Adjusted(cache[n]))
  /\ effective' = Set(effective, n, Build(dynamic'[n], local[n]))
  /\ seen' = Set(seen, n, -1)
  /\ UNCHANGED <<key, local, cache>>

LayersNext == Write \/ \E n \in Node : Apply(n) \/ ReloadLocal(n) \/ Restart(n)
LayersSpec == Init /\ [][LayersNext]_vars

-----------------------------------------------------------------------------
\* Whatever anybody sets, the timeouts of a node leave room for two retries of a request
\* before the ttl is over, as the leader lock needs (_validate_and_adjust_timeouts).
Fits(v) ==
  /\ \A t \in Timeout : v[t] >= Minimum[t]
  /\ v["loop_wait"] + 2 * v["retry_timeout"] <= v["ttl"]
TimeoutsFit == \A n \in Node : Fits(effective[n])

\* Nodes that have looked at the same /config have the same settings where the cluster
\* needs it, whatever their files say, and whatever they had before they looked
\* (_build_effective_configuration, _load_cache).
OneConfiguration ==
  \A m, n \in Node :
    seen[m] = key.version /\ seen[n] = key.version =>
      \A s \in ClusterWide : effective[m][s] = effective[n][s]
=============================================================================
