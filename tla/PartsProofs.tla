----------------------------- MODULE PartsProofs ------------------------------
(***************************************************************************)
(* Proofs about the parts of Patroni that MCStores checks side by side,    *)
(* about LeaderKey and about Citus, for every value of their constants.  A *)
(* part comes under its letter in the runs' modules; the parts share       *)
(* constants and variables of the same names.                              *)
(***************************************************************************)
EXTENDS Integers, FiniteSets, TLAPS

CONSTANTS
  Node, None,
  Client, MaxWrites, MaxOps, EarlyPut, WhileStarting, ZeroIsAny,  \* of Configuration
  Ttl, Quorum, Prompt, MaxFaults,                      \* of Health
  Number, MaxVersion, MaxRestarts, Garbled,            \* of ConfigLayers
  Host, Up, Other, MaxUsed                             \* of Citus

VARIABLES
  key, written, client, daemon, params, pg, pending, primary, ops,   \* of Configuration
  leader, left, sync, view, until, step, asked, api, faults,         \* of Health
  local, dynamic, effective, seen, cache, restarts,                  \* of ConfigLayers
  holder, sure,                                                      \* of LeaderKey
  worker, queue, flight, late, load, job, table, open, leads, mixed, used   \* of Citus

D == INSTANCE Configuration
H == INSTANCE Health
Y == INSTANCE ConfigLayers
K == INSTANCE LeaderKey WITH Member <- Node
C == INSTANCE Citus

-----------------------------------------------------------------------------
\* Configuration: what clients write.

Config == [version : Nat, conn : 1 .. 2, mem : 1 .. 2]
Pair == [conn : 1 .. 2, mem : 1 .. 2]
Latest == [conn : 1 .. 2, mem : 1 .. 2, lost : BOOLEAN]
Request == [base : Config, conn : 0 .. 2, mem : 0 .. 2]
Cycle == [step : {"idle", "leads", "follows"}, view : Config, seen : Nat]
Server == [up : {"down", "starting", "running"}, conn : 1 .. 2, mem : 1 .. 2, control : 1 .. 2]

ConfigurationType ==
  /\ key \in Config /\ written \in Latest
  /\ client \in [Client -> Request]
  /\ daemon \in [Node -> Cycle]
  /\ params \in [Node -> Pair] /\ pg \in [Node -> Server]
  /\ pending \in [Node -> BOOLEAN] /\ primary \in Node

\* Nobody knows a version that is not there yet.
Seen == \A n \in Node : daemon[n].view.version <= key.version

\* What a request rests on was there, and is what is there if the version is.
Based ==
  \A c \in Client : client[c] # D!NoRequest =>
    /\ client[c].base.version \in 1 .. key.version
    /\ client[c].base.version = key.version => client[c].base = key

\* Only the primary's cycle leads, and it has not missed the first version.
Leading ==
  \A n \in Node : daemon[n].step = "leads" =>
    n = primary /\ (daemon[n].view.version = 0 => key.version = 0)

\* Until there is a configuration every node runs with what it started with.
Beginning ==
  key.version = 0 =>
    /\ written.conn = 1 /\ written.mem = 1
    /\ \A n \in Node : params[n] = [conn |-> 1, mem |-> 1]

WritesInv == ConfigurationType /\ Seen /\ Based /\ Leading /\ Beginning /\ D!WritesKept

LEMMA ConfigurationInitially == D!Init => WritesInv
<1> SUFFICES ASSUME D!Init PROVE WritesInv
  OBVIOUS
<1> USE DEF D!Init, D!NoKey, D!NoRequest, D!Keep
<1>1. ConfigurationType
  BY DEF ConfigurationType, Config, Pair, Latest, Request, Server, Cycle
<1>2. Seen /\ Based /\ Leading /\ Beginning /\ D!WritesKept
  BY DEF Seen, Based, Leading, Beginning, D!WritesKept
<1> QED BY <1>1, <1>2 DEF WritesInv

\* The type of the state is kept.
LEMMA ConfigurationTypeKept ==
  ASSUME ConfigurationType, [D!ConfigurationNext]_(D!vars)
  PROVE  ConfigurationType'
<1> USE DEF ConfigurationType, D!Set
<1>a. /\ \A x \in Config : x.version \in Nat /\ x.conn \in 1 .. 2 /\ x.mem \in 1 .. 2
      /\ \A x \in Nat, v, w \in 1 .. 2 : [version |-> x, conn |-> v, mem |-> w] \in Config
  BY DEF Config
<1>b. /\ \A x \in Pair : x.conn \in 1 .. 2 /\ x.mem \in 1 .. 2
      /\ \A v, w \in 1 .. 2 : [conn |-> v, mem |-> w] \in Pair
      /\ \A x \in Latest : x.conn \in 1 .. 2 /\ x.mem \in 1 .. 2 /\ x.lost \in BOOLEAN
      /\ \A v, w \in 1 .. 2, u \in BOOLEAN : [conn |-> v, mem |-> w, lost |-> u] \in Latest
  BY DEF Pair, Latest
<1>c. /\ \A x \in Request : x.base \in Config /\ x.conn \in 0 .. 2 /\ x.mem \in 0 .. 2
      /\ \A x \in Config, v, w \in 0 .. 2 : [base |-> x, conn |-> v, mem |-> w] \in Request
      /\ D!NoRequest \in Request
  BY DEF Request, D!NoRequest, D!NoKey, D!Keep, Config
<1>d. \A v \in 1 .. 2, w \in 0 .. 2 : D!Patched(v, w) \in 1 .. 2
  BY DEF D!Patched, D!Keep
<1>e. ASSUME NEW v \in 1 .. 2, NEW w \in 1 .. 2, D!Stored(v, w) PROVE key' \in Config
  <2>1. key.version + 1 \in Nat
    BY <1>a
  <2> QED BY <2>1, <1>a, <1>e DEF D!Stored
<1>1. ASSUME NEW c \in Client, D!Ask(c) PROVE ConfigurationType'
  <2>1. ASSUME NEW v \in 1 .. 2
        PROVE  /\ [base |-> key, conn |-> v, mem |-> 0] \in Request
               /\ [base |-> key, conn |-> 0, mem |-> v] \in Request
    <3>1. v \in 0 .. 2 /\ 0 \in 0 .. 2 /\ key \in Config
      OBVIOUS
    <3> QED BY <3>1, <1>c
  <2>2. \E r \in Request : client' = [client EXCEPT ![c] = r]
    BY <1>1, <2>1, Zenon DEF D!Ask, D!Value, D!Keep
  <2> QED BY <1>1, <2>2 DEF D!Ask
<1>2. ASSUME NEW c \in Client, D!Patch(c) PROVE ConfigurationType'
  <2>1. client[c] \in Request
    OBVIOUS
  <2> DEFINE r == client[c]
  <2>2. CASE D!Expects(c)
    <3>1. /\ D!Patched(r.base.conn, r.conn) \in 1 .. 2 /\ D!Patched(r.base.mem, r.mem) \in 1 .. 2
          /\ D!Patched(written.conn, r.conn) \in 1 .. 2 /\ D!Patched(written.mem, r.mem) \in 1 .. 2
      BY <2>1, <1>a, <1>b, <1>c, <1>d
    <3> HIDE DEF r
    <3>2. /\ D!Stored(D!Patched(r.base.conn, r.conn), D!Patched(r.base.mem, r.mem))
          /\ \E u \in BOOLEAN :
               written' = [conn |-> D!Patched(written.conn, r.conn),
                           mem |-> D!Patched(written.mem, r.mem), lost |-> u]
      BY <1>2, <2>2 DEF D!Patch, D!Blind, r
    <3>3. key' \in Config
      BY <3>1, <3>2, <1>e
    <3>4. written' \in Latest
      BY <3>1, <3>2, <1>b
    <3> QED BY <1>2, <3>3, <3>4, <1>c DEF D!Patch
  <2> QED BY <1>2, <2>2, <1>c DEF D!Patch
<1>3. CASE D!Put
  BY <1>3, <1>b, <1>e DEF D!Put, D!Value
<1>4. ASSUME NEW n \in Node, D!Load(n) PROVE ConfigurationType'
  BY <1>4 DEF D!Load, Cycle
<1>5. ASSUME NEW n \in Node, D!SetDefault(n) PROVE ConfigurationType'
  <2>1. key' \in Config
    BY <1>5, <1>b, <1>e DEF D!SetDefault
  <2> QED BY <1>5, <2>1 DEF D!SetDefault, Cycle
<1>6. ASSUME NEW n \in Node, D!Apply(n) PROVE ConfigurationType'
  <2>1. daemon[n].view \in Config /\ daemon' \in [Node -> Cycle]
    BY <1>6, <1>a DEF D!Apply, Cycle
  <2>2. ASSUME D!Reload(n)
        PROVE  params' \in [Node -> Pair] /\ pg' \in [Node -> Server] /\ pending' \in [Node -> BOOLEAN]
    <3>1. D!Parameters(daemon[n].view) \in Pair
      BY <2>1, <1>a, <1>b DEF D!Parameters
    <3>2. params' \in [Node -> Pair] /\ pending' \in [Node -> BOOLEAN]
      BY <2>2, <3>1 DEF D!Reload, D!Live
    <3>3. pg' \in [Node -> Server]
      BY <2>2, <3>1, <1>b DEF D!Reload, Server
    <3> QED BY <3>2, <3>3
  <2> QED
    BY <1>6, <2>1, <2>2 DEF D!Apply
<1>7. ASSUME NEW n \in Node, D!Start(n) PROVE ConfigurationType'
  <2>1. params[n] \in Pair /\ pg[n].control \in 1 .. 2 /\ D!Effective(n) \in 1 .. 2
    BY <1>b DEF Server, D!Effective, D!Larger
  <2> QED BY <1>7, <2>1, <1>b DEF D!Start, D!PendingAtStart, Server
<1>8. ASSUME NEW n \in Node, D!Started(n) PROVE ConfigurationType'
  BY <1>8 DEF D!Started, Server
<1>9. ASSUME NEW n \in Node, D!Replay(n) PROVE ConfigurationType'
  <2>1. pg[n] \in Server /\ pg[primary].control \in 1 .. 2
    BY DEF Server
  <2>2. PICK s \in Server : pg' = [pg EXCEPT ![n] = s]
    BY <1>9, <2>1 DEF D!Replay, Server
  <2>3. pg' \in [Node -> Server]
    BY <2>2
  <2> QED BY <1>9, <2>3 DEF D!Replay
<1>10. ASSUME NEW n \in Node, D!Crash(n) PROVE ConfigurationType'
  BY <1>10 DEF D!Crash, D!Op, Server
<1>11. ASSUME NEW n \in Node, D!Switchover(n) PROVE ConfigurationType'
  <2>1. pg[n] \in Server /\ pg[primary] \in Server
    BY <1>11 DEF D!Switchover
  <2>2. PICK s, t \in Server : pg' = [pg EXCEPT ![n] = s, ![primary] = t]
    BY <1>11, <2>1 DEF D!Switchover, Server
  <2>3. pg' \in [Node -> Server]
    BY <2>2
  <2> QED BY <1>11, <2>3 DEF D!Switchover
<1>12. ASSUME NEW n \in Node, D!Restart(n) PROVE ConfigurationType'
  BY <1>12 DEF D!Restart, Server
<1>13. CASE UNCHANGED D!vars
  BY <1>13 DEF D!vars
<1> QED
  BY <1>1, <1>2, <1>3, <1>4, <1>5, <1>6, <1>7, <1>8, <1>9, <1>10, <1>11, <1>12, <1>13
  DEF D!ConfigurationNext

\* What the steps that do not write /config leave of the rest.
LEMMA WritesInvQuiet ==
  ASSUME WritesInv, UNCHANGED <<key, written, client, daemon, params>>, UNCHANGED primary
  PROVE  Seen' /\ Based' /\ Leading' /\ Beginning' /\ D!WritesKept'
BY DEF WritesInv, Seen, Based, Leading, Beginning, D!WritesKept

LEMMA WritesInvKept ==
  ASSUME ~EarlyPut, WritesInv, [D!ConfigurationNext]_(D!vars)
  PROVE  WritesInv'
<1> DEFINE Rest == Seen' /\ Based' /\ Leading' /\ Beginning' /\ D!WritesKept'
<1> SUFFICES Rest
  BY ConfigurationTypeKept DEF WritesInv
<1>a. /\ key.version \in Nat
      /\ \A n \in Node : daemon[n].view.version \in Nat
      /\ \A c \in Client : client[c].base.version \in Nat
      /\ DOMAIN client = Client /\ DOMAIN daemon = Node /\ primary \in Node
  BY DEF WritesInv, ConfigurationType, Config, Request, Cycle
<1>b. \A n \in Node : DOMAIN daemon[n] = {"step", "view", "seen"}
  BY DEF WritesInv, ConfigurationType, Cycle
<1>c. \A c \in Client : client' = [client EXCEPT ![c] = D!NoRequest] =>
        \A x \in Client : client'[x] = IF x = c THEN D!NoRequest ELSE client[x]
  BY <1>a
<1> USE DEF WritesInv, Seen, Based, Leading, Beginning, D!WritesKept
\* A client writes what it takes for the configuration, or /config grows by one version.
<1>w. ASSUME key.version > 0, key'.version = key.version + 1, D!WritesKept',
             UNCHANGED <<daemon, params, primary>>,
             \A x \in Client : client'[x] \in {client[x], D!NoRequest}
      PROVE  Rest
  <2>1. Seen' /\ Leading' /\ Beginning'
    BY <1>w, <1>a
  <2>2. ASSUME NEW x \in Client, client'[x] # D!NoRequest
        PROVE  client'[x].base.version \in 1 .. key'.version /\ client'[x].base.version # key'.version
    BY <1>w, <1>a, <2>2
  <2> QED BY <1>w, <2>1, <2>2
<1>1. ASSUME NEW c \in Client, D!Ask(c) PROVE Rest
  <2>1. PICK r : r.base = key /\ client' = [client EXCEPT ![c] = r]
    BY <1>1 DEF D!Ask, D!Set
  <2>2. \A x \in Client : client'[x] = IF x = c THEN r ELSE client[x]
    BY <2>1, <1>a
  <2> QED BY <1>1, <1>a, <2>1, <2>2 DEF D!Ask
<1>2. ASSUME NEW c \in Client, D!Patch(c) PROVE Rest
  <2>1. /\ client[c] # D!NoRequest /\ client' = [client EXCEPT ![c] = D!NoRequest]
        /\ UNCHANGED <<daemon, params, primary>>
    BY <1>2 DEF D!Patch, D!Set
  <2>2. \A x \in Client : client'[x] \in {client[x], D!NoRequest}
    BY <2>1, <1>c
  <2>3. CASE UNCHANGED <<key, written>>
    BY <2>1, <2>2, <2>3
  <2>4. CASE D!Expects(c)
    <3>1. client[c].base.version \in 1 .. key.version /\ key.version > 0
      BY <2>1, <1>a
    <3>2. /\ key' = [version |-> key.version + 1, conn |-> D!Patched(client[c].base.conn, client[c].conn),
                     mem |-> D!Patched(client[c].base.mem, client[c].mem)]
          /\ written' = [conn |-> D!Patched(written.conn, client[c].conn),
                         mem |-> D!Patched(written.mem, client[c].mem),
                         lost |-> written.lost \/ (D!Blind(c) /\ key.version # client[c].base.version)]
      BY <1>2, <2>4 DEF D!Patch, D!Stored
    <3>3. ASSUME ~written'.lost PROVE key'.conn = written'.conn /\ key'.mem = written'.mem
      <4>1. ~written.lost /\ key.version = client[c].base.version
        BY <2>4, <3>2, <3>3 DEF D!Expects
      <4>2. client[c].base = key
        BY <2>1, <4>1
      <4>3. written.conn = key.conn /\ written.mem = key.mem
        BY <3>1, <4>1
      <4> QED BY <3>2, <4>2, <4>3
    <3>4. D!WritesKept' /\ key'.version = key.version + 1
      BY <3>2, <3>3
    <3> QED BY <1>w, <2>1, <2>2, <3>1, <3>4
  <2> QED BY <1>2, <2>3, <2>4 DEF D!Patch
<1>3. CASE D!Put
  <2>1. /\ key.version > 0 /\ UNCHANGED <<client, daemon, params, primary>>
        /\ key'.version = key.version + 1 /\ D!WritesKept'
    BY <1>3 DEF D!Put, D!Stored
  <2> QED BY <2>1, <1>w
<1>4. ASSUME NEW n \in Node, D!Load(n) PROVE Rest
  <2>1. UNCHANGED <<key, written, client, params, primary>>
    BY <1>4 DEF D!Load
  <2>2. \A m \in Node : IF m = n THEN daemon'[m].view = key /\ (daemon'[m].step = "leads" => m = primary)
                                 ELSE daemon'[m] = daemon[m]
    BY <1>4, <1>a, <1>b DEF D!Load
  <2> QED BY <2>1, <2>2, <1>a
<1>5. ASSUME NEW n \in Node, D!SetDefault(n) PROVE Rest
  <2>1. key.version = 0 /\ n = primary /\ UNCHANGED <<written, client, params, primary>>
    BY <1>5 DEF D!SetDefault, D!At
  <2>2. key' = [version |-> 1, conn |-> 1, mem |-> 1] /\ written.conn = 1 /\ written.mem = 1
    BY <1>5, <2>1 DEF D!SetDefault, D!Stored
  <2>3. \A m \in Node : IF m = n THEN daemon'[m].view = key' ELSE daemon'[m] = daemon[m]
    BY <1>5, <1>a, <1>b DEF D!SetDefault
  <2>4. \A m \in Node : m # n => daemon'[m].step # "leads"
    BY <2>1, <2>3
  <2>5. Based'
    BY <2>1, <1>a
  <2>6. Seen' /\ Leading'
    BY <2>1, <2>2, <2>3, <2>4, <1>a
  <2> QED BY <2>1, <2>2, <2>5, <2>6
<1>6. ASSUME NEW n \in Node, D!Apply(n) PROVE Rest
  <2>1. UNCHANGED <<key, written, client, primary>>
    BY <1>6 DEF D!Apply
  <2>2. \A m \in Node : IF m = n THEN daemon'[m].view = daemon[m].view /\ daemon'[m].step = "idle"
                                 ELSE daemon'[m] = daemon[m]
    BY <1>6, <1>a, <1>b DEF D!Apply
  <2>3. Seen' /\ Based' /\ Leading' /\ D!WritesKept'
    BY <2>1, <2>2
  <2>4. key.version = 0 => daemon[n].view.version = 0
    BY <1>a
  <2>5. key.version = 0 => params' = params
    BY <1>6, <2>4 DEF D!Apply, D!Changed
  <2> QED BY <2>1, <2>3, <2>5
<1>7. ASSUME NEW n \in Node, D!Switchover(n) PROVE Rest
  <2>1. daemon[primary].step = "idle" /\ UNCHANGED <<key, written, client, daemon, params>>
    BY <1>7 DEF D!Switchover, D!At
  <2>2. \A m \in Node : daemon[m].step # "leads"
    BY <2>1
  <2> QED BY <2>1, <2>2
<1>8. ASSUME NEW n \in Node, D!Start(n) \/ D!Started(n) \/ D!Replay(n) \/ D!Crash(n) \/ D!Restart(n)
      PROVE Rest
  BY <1>8, WritesInvQuiet DEF D!Start, D!Started, D!Replay, D!Crash, D!Restart
<1>9. CASE UNCHANGED D!vars
  BY <1>9, WritesInvQuiet DEF D!vars
<1> QED
  BY <1>1, <1>2, <1>3, <1>4, <1>5, <1>6, <1>7, <1>8, <1>9 DEF D!ConfigurationNext

\* No client's change of /config is lost by another's change of something else, as long
\* as there is a configuration before clients write (api.py do_PATCH_config, ctl.py
\* edit_config): for any nodes, any number of clients, writes, crashes and switchovers.
\* On ZooKeeper (ZeroIsAny) only a write that rests on the first version can do it.
THEOREM PatchesAreKept ==
  ASSUME ~EarlyPut
  PROVE  D!ConfigurationSpec => []D!WritesKept
<1>1. WritesInv => D!WritesKept
  BY DEF WritesInv
<1> QED BY <1>1, ConfigurationInitially, WritesInvKept, PTL DEF D!ConfigurationSpec

-----------------------------------------------------------------------------
\* Configuration: what waits for a restart.

\* From its start on, not only once it takes connections, a server knows what it lacks.
PendingInv ==
  /\ ConfigurationType
  /\ \A n \in Node : pg[n].up # "down" =>
       /\ pending[n] = (pg[n].conn # params[n].conn)
       /\ pg[n].mem = params[n].mem

LEMMA PendingInvKept ==
  ASSUME ~WhileStarting, PendingInv, [D!ConfigurationNext]_(D!vars)
  PROVE  PendingInv'
<1>a. ConfigurationType /\ ConfigurationType'
  BY ConfigurationTypeKept DEF PendingInv
<1> SUFFICES ASSUME NEW m \in Node, pg'[m].up # "down"
             PROVE  pending'[m] = (pg'[m].conn # params'[m].conn) /\ pg'[m].mem = params'[m].mem
  BY <1>a DEF PendingInv
<1> DEFINE Told == pending'[m] = (pg'[m].conn # params'[m].conn) /\ pg'[m].mem = params'[m].mem
<1> USE DEF PendingInv, ConfigurationType, Pair, Server, D!Set
<1>1. CASE UNCHANGED <<params, pg, pending>>
  BY <1>1
<1>2. ASSUME NEW n \in Node, D!Reload(n) PROVE Told
  BY <1>2, <1>a DEF D!Reload, D!Parameters, D!Live
<1>3. ASSUME NEW n \in Node, D!Start(n) PROVE Told
  BY <1>3, <1>a DEF D!Start, D!PendingAtStart
<1>4. ASSUME NEW n \in Node, D!Started(n) \/ D!Replay(n) \/ D!Crash(n) \/ D!Restart(n) \/ D!Switchover(n)
      PROVE Told
  <2>1. UNCHANGED <<params, pending>>
    BY <1>4 DEF D!Started, D!Replay, D!Crash, D!Restart, D!Switchover
  <2>2. pg'[m].conn = pg[m].conn /\ pg'[m].mem = pg[m].mem /\ pg[m].up # "down"
    <3>1. CASE D!Started(n) \/ D!Crash(n) \/ D!Restart(n)
      BY <3>1 DEF D!Started, D!Crash, D!Restart
    <3>2. CASE D!Replay(n)
      BY <3>2 DEF D!Replay, D!Live
    <3>3. CASE D!Switchover(n)
      BY <3>3 DEF D!Switchover, D!Live
    <3> QED BY <1>4, <3>1, <3>2, <3>3
  <2> QED BY <2>1, <2>2
<1>5. D!vars' = D!vars => Told
  BY <1>1 DEF D!vars
<1>6. ASSUME NEW n, D!Ask(n) \/ D!Patch(n) \/ D!Put \/ D!Load(n) \/ D!SetDefault(n)
      PROVE Told
  <2>1. UNCHANGED <<params, pg, pending>>
    <3>1. CASE D!Ask(n)
      BY <3>1 DEF D!Ask
    <3>2. CASE D!Patch(n)
      BY <3>2 DEF D!Patch
    <3>3. CASE D!Put
      BY <3>3 DEF D!Put
    <3>4. CASE D!Load(n)
      BY <3>4 DEF D!Load
    <3>5. CASE D!SetDefault(n)
      BY <3>5 DEF D!SetDefault
    <3> QED BY <1>6, <3>1, <3>2, <3>3, <3>4, <3>5
  <2> QED BY <1>1, <2>1
<1>7. ASSUME NEW n \in Node, D!Apply(n) PROVE Told
  BY <1>1, <1>2, <1>7 DEF D!Apply
<1> QED
  BY <1>2, <1>3, <1>4, <1>5, <1>6, <1>7 DEF D!ConfigurationNext

LEMMA PendingInitially == D!Init => PendingInv
<1> SUFFICES ASSUME D!Init PROVE PendingInv
  OBVIOUS
<1>1. ConfigurationType
  BY ConfigurationInitially DEF WritesInv
<1>2. \A n \in Node : pending[n] = FALSE /\ pg[n].conn = 1 /\ params[n].conn = 1
                      /\ pg[n].mem = 1 /\ params[n].mem = 1
  BY DEF D!Init
<1> QED BY <1>1, <1>2 DEF PendingInv

LEMMA PendingInvTells == PendingInv => D!PendingIsTold
BY DEF PendingInv, D!PendingIsTold, D!Live

\* A server that has to be restarted for its configuration says so, and no other does, as
\* long as no change is noticed while it starts (postgresql/config.py reload_config,
\* effective_configuration, postgresql/__init__.py set_pending_restart_reason).
THEOREM PendingIsAlwaysTold ==
  ASSUME ~WhileStarting
  PROVE  D!ConfigurationSpec => []D!PendingIsTold
BY PendingInitially, PendingInvTells, PendingInvKept, PTL DEF D!ConfigurationSpec

-----------------------------------------------------------------------------
\* Health: whom the load balancer sends writes to.

\* A node that answers as the leader has the key for that long; a member of `asked' waits
\* for an answer to its write, of this very tick; the daemon of a node whose API is closed
\* has ended; and who deletes the key has stopped answering before.
Stage == {"idle", "start", "loaded", "asked", "leads", "release", "delete", "demote"}
HealthType ==
  /\ left \in Nat /\ until \in [Node -> Nat] /\ step \in [Node -> Stage]
  /\ asked \subseteq Node /\ api \subseteq Node
HealthInv ==
  /\ HealthType /\ left <= Ttl
  /\ \A n \in api : until[n] > 0 => leader = n /\ until[n] <= left
  /\ \A n \in asked : leader = n /\ left = Ttl /\ step[n] = "asked" /\ n \in api
  /\ \A n \in Node : n \notin api => step[n] = "idle"
  /\ \A n \in Node : step[n] = "delete" => until[n] = 0

LEMMA HealthInitially ==
  ASSUME Ttl \in Nat, H!Init
  PROVE  HealthInv
<1>1. HealthType
  BY DEF H!Init, HealthType, Stage
<1> QED BY <1>1 DEF H!Init, HealthInv

LEMMA HealthTypeKept ==
  ASSUME Ttl \in Nat, HealthType, [H!HealthNext]_(H!vars)
  PROVE  HealthType'
<1> USE DEF HealthType
<1>1. left' \in Nat
  <2>1. CASE H!Tick
    BY <2>1 DEF H!Tick, H!Less
  <2>2. CASE ~H!Tick
    <3>1. left' \in {left, Ttl, 0}
      BY <2>2
      DEF H!HealthNext, H!vars, H!dcs, H!Load, H!LoadFails, H!Start, H!Acquire, H!Update,
          H!UpdateFails, H!Answer, H!Lead, H!Follow, H!Demote, H!StepDown, H!Release, H!DeleteKey,
          H!CloseApi, H!Shutdown, H!StartPatroni
    <3> QED BY <3>1
  <2> QED BY <2>1, <2>2
<1>2. until' \in [Node -> Nat]
  <2>1. CASE H!Tick
    BY <2>1 DEF H!Tick, H!Less
  <2>2. ASSUME NEW n \in Node, NEW v \in BOOLEAN, H!SetIsLeader(n, v) PROVE until' \in [Node -> Nat]
    BY <2>2 DEF H!SetIsLeader, H!Set
  <2>3. CASE ~H!Tick
    BY <2>2, <2>3
    DEF H!HealthNext, H!vars, H!Load, H!LoadFails, H!Start, H!Acquire, H!Update,
        H!UpdateFails, H!Answer, H!Lead, H!Follow, H!Demote, H!StepDown, H!Release, H!DeleteKey,
        H!CloseApi, H!Shutdown, H!StartPatroni
  <2> QED BY <2>1, <2>3
<1>3. step' \in [Node -> Stage]
  <2>1. ASSUME NEW n \in Node, NEW to \in Stage, H!Goes(n, to) PROVE step' \in [Node -> Stage]
    BY <2>1 DEF H!Goes, H!Set
  <2>2. /\ "idle" \in Stage /\ "start" \in Stage /\ "loaded" \in Stage /\ "asked" \in Stage
        /\ "leads" \in Stage /\ "release" \in Stage /\ "delete" \in Stage /\ "demote" \in Stage
    BY DEF Stage
  <2> QED
    BY <2>1, <2>2
    DEF H!HealthNext, H!vars, H!Tick, H!Load, H!LoadFails, H!Start, H!Acquire, H!Update,
        H!UpdateFails, H!Answer, H!Lead, H!Follow, H!Demote, H!StepDown, H!Release, H!DeleteKey,
        H!CloseApi, H!Shutdown, H!StartPatroni
<1>4. asked' \subseteq Node /\ api' \subseteq Node
  BY DEF H!HealthNext, H!vars, H!dcs, H!Tick, H!Less, H!Load, H!LoadFails, H!Start, H!Acquire, H!Update,
         H!UpdateFails, H!Answer, H!Lead, H!Follow, H!Demote, H!StepDown, H!Release, H!DeleteKey,
         H!CloseApi, H!Shutdown, H!StartPatroni
<1> QED BY <1>1, <1>2, <1>3, <1>4

LEMMA HealthInvKept ==
  ASSUME Ttl \in Nat, None \notin Node, Prompt, HealthInv, [H!HealthNext]_(H!vars)
  PROVE  HealthInv'
<1>t. HealthType /\ HealthType'
  BY HealthTypeKept DEF HealthInv
<1> DEFINE A == \A n \in api : until[n] > 0 => leader = n /\ until[n] <= left
           B == \A n \in asked : leader = n /\ left = Ttl /\ step[n] = "asked" /\ n \in api
           F == \A n \in Node : n \notin api => step[n] = "idle"
           E == \A n \in Node : step[n] = "delete" => until[n] = 0
<1>i. A /\ B /\ F /\ E /\ left <= Ttl
  BY DEF HealthInv
<1>0. left' <= Ttl
  <2>1. CASE H!Tick
    BY <1>i, <1>t, <2>1 DEF H!Tick, H!Less, HealthType
  <2>2. CASE ~H!Tick
    <3>1. left' \in {left, Ttl, 0}
      BY <2>2
      DEF H!HealthNext, H!vars, H!dcs, H!Load, H!LoadFails, H!Start, H!Acquire, H!Update,
          H!UpdateFails, H!Answer, H!Lead, H!Follow, H!Demote, H!StepDown, H!Release, H!DeleteKey,
          H!CloseApi, H!Shutdown, H!StartPatroni
    <3> QED BY <1>i, <3>1
  <2> QED BY <2>1, <2>2
<1> SUFFICES A' /\ B' /\ F' /\ E'
  BY <1>0, <1>t DEF HealthInv
<1> USE <1>i DEF HealthType, H!Set, H!Goes, H!At, H!SetIsLeader, H!dcs
<1>1. CASE H!Tick
  <2>1. /\ \A t \in Nat : H!Less(t) \in Nat /\ (t > 0 => H!Less(t) = t - 1) /\ (t = 0 => H!Less(t) = 0)
        /\ UNCHANGED <<step, asked, api>> /\ asked = {}
        /\ left' = H!Less(left) /\ leader' = (IF left > 1 THEN leader ELSE None)
        /\ until' = [n \in Node |-> H!Less(until[n])]
    BY <1>1 DEF H!Tick, H!Less
  <2>2. A'
    <3> SUFFICES ASSUME NEW n \in api, until'[n] > 0 PROVE leader' = n /\ until'[n] <= left'
      BY <2>1
    <3>1. n \in Node /\ until[n] \in Nat /\ until[n] > 0 /\ until'[n] = until[n] - 1
      BY <1>t, <2>1
    <3> QED BY <1>t, <2>1, <3>1
  <2>3. E'
    BY <1>t, <2>1
  <2> QED BY <2>1, <2>2, <2>3
<1>2. ASSUME NEW n \in Node, H!Load(n) PROVE A' /\ B' /\ F' /\ E'
  BY <1>2, <1>t DEF H!Load
<1>3. ASSUME NEW n \in Node, H!LoadFails(n) \/ H!Start(n) \/ H!Lead(n) \/ H!Follow(n)
      PROVE  A' /\ B' /\ F' /\ E'
  BY <1>3, <1>t DEF H!LoadFails, H!Start, H!Lead, H!Follow
<1>4. ASSUME NEW n \in Node, H!Acquire(n) PROVE A' /\ B' /\ F' /\ E'
  <2>1. n \in api
    BY <1>4 DEF H!Acquire
  <2>2. CASE leader = None
    <3>1. /\ leader' = n /\ left' = Ttl /\ asked' = asked \cup {n} /\ api' = api /\ until' = until
          /\ step' = [step EXCEPT ![n] = "asked"]
      BY <1>4, <2>2 DEF H!Acquire
    <3> QED BY <1>t, <2>1, <2>2, <3>1
  <2>3. CASE leader # None
    <3>1. /\ leader' = leader /\ left' = left /\ asked' = asked /\ api' = api
          /\ until' = [until EXCEPT ![n] = 0] /\ step' = [step EXCEPT ![n] = "idle"]
          /\ step[n] = "loaded"
      BY <1>4, <2>3 DEF H!Acquire
    <3> QED BY <1>t, <2>1, <3>1
  <2> QED BY <2>2, <2>3
<1>5. ASSUME NEW n \in Node, H!Update(n) PROVE A' /\ B' /\ F' /\ E'
  <2>1. n \in api /\ step[n] = "loaded" /\ leader' = leader /\ api' = api
    BY <1>5 DEF H!Update
  <2>2. CASE leader = n
    <3>1. /\ left' = Ttl /\ asked' = asked \cup {n} /\ until' = until
          /\ step' = [step EXCEPT ![n] = "asked"]
      BY <1>5, <2>2 DEF H!Update
    <3> QED BY <1>t, <2>1, <2>2, <3>1
  <2>3. CASE leader # n
    <3>1. /\ left' = left /\ asked' = asked
          /\ until' = [until EXCEPT ![n] = 0]
          /\ step' = [step EXCEPT ![n] = IF pg[n] = "primary" THEN "demote" ELSE "idle"]
      BY <1>5, <2>3 DEF H!Update
    <3> QED BY <1>t, <2>1, <3>1
  <2> QED BY <2>2, <2>3
<1>6. ASSUME NEW n \in Node, H!UpdateFails(n) PROVE A' /\ B' /\ F' /\ E'
  <2>1. /\ n \in api /\ step[n] = "loaded" /\ leader' = leader /\ api' = api /\ asked' = asked
        /\ until' = until /\ left' \in {left, IF leader = n THEN Ttl ELSE left}
        /\ step' = [step EXCEPT ![n] = IF pg[n] = "primary" THEN "demote" ELSE "idle"]
    BY <1>6 DEF H!UpdateFails
  <2> QED BY <1>t, <2>1
<1>7. ASSUME NEW n \in Node, H!Answer(n) PROVE A' /\ B' /\ F' /\ E'
  BY <1>7, <1>t DEF H!Answer
<1>8. ASSUME NEW n \in Node, H!Demote(n) \/ H!StepDown(n) \/ H!Release(n) PROVE A' /\ B' /\ F' /\ E'
  BY <1>8, <1>t DEF H!Demote, H!StepDown, H!Release
<1>9. ASSUME NEW n \in Node, H!DeleteKey(n) PROVE A' /\ B' /\ F' /\ E'
  BY <1>9, <1>t DEF H!DeleteKey
<1>10. ASSUME NEW n \in Node, H!CloseApi(n) \/ H!Shutdown(n) \/ H!StartPatroni(n)
       PROVE  A' /\ B' /\ F' /\ E'
  BY <1>10, <1>t DEF H!CloseApi, H!Shutdown, H!StartPatroni
<1>11. CASE UNCHANGED H!vars
  BY <1>11 DEF H!vars
<1> QED
  BY <1>1, <1>2, <1>3, <1>4, <1>5, <1>6, <1>7, <1>8, <1>9, <1>10, <1>11 DEF H!HealthNext

LEMMA HealthInvAnswers == HealthInv => H!OneAnswers
<1>1. ASSUME HealthInv, NEW m \in Node, NEW n \in Node, H!Ok(m, "primary"), H!Ok(n, "primary")
      PROVE  m = n
  <2>1. m \in api /\ n \in api /\ until[m] > 0 /\ until[n] > 0
    BY <1>1 DEF H!Ok, H!Serves, H!PrimaryOk, H!IsLeader
  <2> QED BY <1>1, <2>1 DEF HealthInv
<1>2. ASSUME NEW n \in Node, NEW p \in {"sync", "quorum", "async"}, NEW q \in {"sync", "quorum", "async"},
             H!Ok(n, p), H!Ok(n, q)
      PROVE  p = q
  <2>1. /\ H!Ok(n, "sync") => H!Status(n).sync
        /\ H!Ok(n, "quorum") => H!Status(n).quorum
        /\ H!Ok(n, "async") => ~H!Status(n).sync /\ ~H!Status(n).quorum
    BY DEF H!Ok, H!Serves
  <2>2. ~(H!Status(n).sync /\ H!Status(n).quorum)
    BY DEF H!Status
  <2> QED BY <1>2, <2>1, <2>2
<1> QED BY <1>1, <1>2 DEF H!OneAnswers

\* Only one node answers 200 to the health check of the read-write port, as long as the
\* answers of the DCS come in the tick of the write (api.py do_GET, ha.py set_is_leader,
\* update_lock, release_leader_key_voluntarily): for any nodes, any ttl, and any faults.
THEOREM OneNodeAnswers ==
  ASSUME Ttl \in Nat, None \notin Node, Prompt
  PROVE  H!HealthSpec => []H!OneAnswers
<1>1. H!Init => HealthInv
  BY HealthInitially
<1> QED BY <1>1, HealthInvKept, HealthInvAnswers, PTL DEF H!HealthSpec

-----------------------------------------------------------------------------
\* ConfigLayers: what a node makes of its configuration.

Setting == [Y!Name -> Int]
Values(c) == [t \in Y!Timeout |-> Y!Value(c, t)]

\* Adjusting makes the timeouts fit, and does not change those that do.
LEMMA AdjustedFits ==
  ASSUME NEW c \in Setting
  PROVE  Y!Adjusted(c) \in Setting /\ Y!Fits(Values(Y!Adjusted(c)))
<1> DEFINE a == Y!AtLeast(c)
           l == Y!Value(a, "loop_wait")
           r == Y!Value(a, "retry_timeout")
           u == Y!Value(a, "ttl")
<1>1. a \in Setting
  BY DEF Y!AtLeast, Setting, Y!Minimum, Y!Timeout
<1>2. l \in Int /\ r \in Int /\ u \in Int /\ l >= 1 /\ r >= 3 /\ u >= 20
  BY DEF Y!AtLeast, Setting, Y!Minimum, Y!Timeout, Y!Value, Y!Default, Y!DefaultTimeout, Y!Unset, Y!Name, Y!DynamicOnly
<1>3. {"loop_wait", "retry_timeout", "ttl"} \subseteq Y!Name
  BY DEF Y!Name, Y!DynamicOnly, Y!Timeout
<1>4. CASE 1 + 2 * r > u
  <2>1. Y!Adjusted(c) = [a EXCEPT !["loop_wait"] = 1, !["retry_timeout"] = (u - 1) \div 2]
    BY <1>4 DEF Y!Adjusted, Y!Shortened
  <2>2. (u - 1) \div 2 \in Int /\ (u - 1) \div 2 >= 9 /\ 1 + 2 * ((u - 1) \div 2) <= u
    BY <1>2
  <2>3. /\ Y!Adjusted(c) \in Setting
        /\ Y!Value(Y!Adjusted(c), "loop_wait") = 1
        /\ Y!Value(Y!Adjusted(c), "retry_timeout") = (u - 1) \div 2
        /\ Y!Value(Y!Adjusted(c), "ttl") = u
    BY <1>1, <1>3, <2>1, <2>2 DEF Setting, Y!Value, Y!Unset
  <2> QED BY <1>2, <2>2, <2>3 DEF Y!Fits, Values, Y!Timeout, Y!Minimum
<1>5. CASE ~(1 + 2 * r > u) /\ l + 2 * r > u
  <2>1. Y!Adjusted(c) = [a EXCEPT !["loop_wait"] = u - 2 * r]
    BY <1>5 DEF Y!Adjusted, Y!Shortened
  <2>2. u - 2 * r \in Int /\ u - 2 * r >= 1
    BY <1>2, <1>5
  <2>3. /\ Y!Adjusted(c) \in Setting
        /\ Y!Value(Y!Adjusted(c), "loop_wait") = u - 2 * r
        /\ Y!Value(Y!Adjusted(c), "retry_timeout") = r
        /\ Y!Value(Y!Adjusted(c), "ttl") = u
    BY <1>1, <1>3, <2>1, <2>2 DEF Setting, Y!Value, Y!Unset
  <2> QED BY <1>2, <2>2, <2>3 DEF Y!Fits, Values, Y!Timeout, Y!Minimum
<1>6. CASE ~(1 + 2 * r > u) /\ ~(l + 2 * r > u)
  <2>1. Y!Adjusted(c) = a
    BY <1>6 DEF Y!Adjusted, Y!Shortened
  <2> QED BY <1>1, <1>2, <1>6, <2>1 DEF Y!Fits, Values, Y!Timeout, Y!Minimum
<1> QED BY <1>4, <1>5, <1>6

LEMMA AdjustedOnce ==
  ASSUME NEW c \in Setting, Y!Fits(Values(c))
  PROVE  Y!Adjusted(c) = c
<1>1. /\ Y!Value(c, "loop_wait") >= 1 /\ Y!Value(c, "retry_timeout") >= 3 /\ Y!Value(c, "ttl") >= 20
      /\ Y!Value(c, "loop_wait") + 2 * Y!Value(c, "retry_timeout") <= Y!Value(c, "ttl")
  BY DEF Y!Fits, Values, Y!Timeout, Y!Minimum
<1>2. \A n \in Y!Name : ~(n \in Y!Timeout /\ Y!Value(c, n) < Y!Minimum[n])
  <2> SUFFICES ASSUME NEW n \in Y!Timeout, Y!Value(c, n) < Y!Minimum[n] PROVE FALSE
    OBVIOUS
  <2>1. Y!Value(c, n) \in Int /\ Y!Minimum[n] \in Int /\ Y!Value(c, n) >= Y!Minimum[n]
    BY DEF Y!Fits, Values, Y!Timeout, Y!Minimum, Y!Value, Setting, Y!Default, Y!DefaultTimeout, Y!Name, Y!DynamicOnly
  <2> QED BY <2>1
<1>3. Y!AtLeast(c) = c
  <2>1. Y!AtLeast(c) = [n \in Y!Name |-> c[n]]
    BY <1>2 DEF Y!AtLeast
  <2> QED BY <2>1 DEF Setting
<1>4. /\ Y!Value(c, "loop_wait") \in Int /\ Y!Value(c, "retry_timeout") \in Int /\ Y!Value(c, "ttl") \in Int
  BY DEF Y!Value, Setting, Y!Default, Y!DefaultTimeout, Y!Name, Y!DynamicOnly, Y!Timeout
<1>5. ~(1 + 2 * Y!Value(c, "retry_timeout") > Y!Value(c, "ttl"))
      /\ ~(Y!Value(c, "loop_wait") + 2 * Y!Value(c, "retry_timeout") > Y!Value(c, "ttl"))
  BY <1>1, <1>4
<1>6. Y!Shortened(c) = c
  BY <1>5 DEF Y!Shortened
<1> QED BY <1>3, <1>6 DEF Y!Adjusted

-----------------------------------------------------------------------------
\* The timeouts of the effective configuration are those of the dynamic one, and what
\* is cluster-wide does not depend on the file.
LEMMA BuildType ==
  ASSUME NEW d \in Setting, NEW l \in Setting
  PROVE  Y!Build(d, l) \in Setting
  BY DEF Y!Build, Y!Over, Y!Without, Y!SafeCopy, Y!Parameters, Setting, Y!Default, Y!DefaultTimeout, Y!Timeout, Y!Unset

LEMMA BuildTimeouts ==
  ASSUME NEW d \in Setting, NEW l \in Setting, Y!Fits(Values(d))
  PROVE  Y!Fits(Y!Build(d, l))
<1>1. ASSUME NEW t \in Y!Timeout PROVE Y!Build(d, l)[t] = Y!Value(d, t)
  <2>1. t \in Y!Name /\ t \in Y!DynamicOnly /\ t \notin Y!CmdLine /\ t \notin Y!LocalOnly
    BY DEF Y!Timeout, Y!Name, Y!DynamicOnly, Y!CmdLine, Y!LocalOnly
  <2>2. Y!Build(d, l)[t] = Y!SafeCopy(d)[t]
    BY <2>1 DEF Y!Build, Y!Over, Y!Without
  <2>3. Y!SafeCopy(d)[t] = Y!Value(d, t)
    BY <2>1 DEF Y!SafeCopy, Y!Over, Y!Without, Y!Parameters, Y!Value, Y!Unset
  <2> QED BY <2>2, <2>3
<1> QED BY <1>1 DEF Y!Fits, Values, Y!Timeout

LEMMA BuildClusterWide ==
  ASSUME NEW d \in Setting, NEW l \in Setting, NEW k \in Setting, NEW s \in Y!ClusterWide
  PROVE  Y!Build(d, l)[s] = Y!Build(d, k)[s]
<1>1. s \in Y!Name /\ (s \in Y!DynamicOnly \/ s \in Y!CmdLine)
  BY DEF Y!ClusterWide, Y!Name
<1>2. ASSUME NEW c \in Setting
      PROVE  Y!Without(Y!Parameters(c, TRUE), Y!DynamicOnly)[s] = Y!Unset
  BY <1>1 DEF Y!Without, Y!Parameters
<1> QED BY <1>1, <1>2 DEF Y!Build, Y!Over

-----------------------------------------------------------------------------
LayersType ==
  /\ key \in [version : Nat, config : Setting]
  /\ local \in [Node -> Setting] /\ dynamic \in [Node -> Setting] /\ cache \in [Node -> Setting]
  /\ effective \in [Node -> Setting]
  /\ seen \in [Node -> Int]

\* Everything a node takes up is adjusted, and what it runs with is made of that; of
\* the present version it has taken up just what was written.
LayersInv ==
  /\ LayersType
  /\ \A n \in Node : Y!Fits(Values(dynamic[n])) /\ Y!Fits(Values(cache[n]))
  /\ \A n \in Node : effective[n] = Y!Build(dynamic[n], local[n])
  /\ \A n \in Node : seen[n] <= key.version
  /\ ~Garbled => Y!IsNumeric(key.config)
  /\ ~Garbled => \A n \in Node : seen[n] = key.version => dynamic[n] = Y!Adjusted(key.config)

LEMMA LayersInitially == Y!Init => LayersInv
<1> SUFFICES ASSUME Y!Init PROVE LayersInv
  OBVIOUS
<1>1. Y!Nothing \in Setting /\ Y!IsNumeric(Y!Nothing)
  BY DEF Y!Nothing, Setting, Y!Unset, Y!IsNumeric, Y!Garbage, Y!Timeout, Y!Name, Y!DynamicOnly
<1>2. Y!Fits(Values(Y!Nothing))
  <2>1. \A t \in Y!Timeout : Y!Value(Y!Nothing, t) = Y!DefaultTimeout[t]
    BY DEF Y!Value, Y!Nothing, Y!Default, Y!Timeout, Y!Name, Y!DynamicOnly
  <2> QED BY <2>1 DEF Y!Fits, Values, Y!Timeout, Y!DefaultTimeout, Y!Minimum
<1>3. Y!Build(Y!Nothing, Y!Nothing) \in Setting
  BY <1>1, BuildType
<1> QED BY <1>1, <1>2, <1>3 DEF LayersInv, LayersType, Y!Init

LEMMA LayersInvKept ==
  ASSUME Number \subseteq Int, LayersInv, [Y!LayersNext]_(Y!vars)
  PROVE  LayersInv'
<1> USE DEF LayersInv, LayersType
<1>1. CASE Y!Write
  <2>1. PICK n \in Y!Name, v \in Number \cup {Y!Unset, Y!Garbage} :
          /\ v = Y!Garbage /\ n \in Y!Timeout => Garbled
          /\ key' = [version |-> key.version + 1, config |-> [key.config EXCEPT ![n] = v]]
    BY <1>1 DEF Y!Write
  <2>2. key' \in [version : Nat, config : Setting] /\ key'.version = key.version + 1
    BY <2>1 DEF Setting, Y!Unset, Y!Garbage
  <2>3. ~Garbled => Y!IsNumeric(key'.config)
    BY <2>1 DEF Y!IsNumeric, Setting
  <2>4. \A m \in Node : seen[m] < key'.version
    BY <2>2
  <2> QED BY <1>1, <2>2, <2>3, <2>4 DEF Y!Write
<1>2. ASSUME NEW n \in Node, Y!Apply(n) PROVE LayersInv'
  <2>1. seen' = [seen EXCEPT ![n] = key.version] /\ UNCHANGED <<key, local, restarts>>
    BY <1>2 DEF Y!Apply, Y!Set
  <2>2. Y!Adjusted(key.config) \in Setting /\ Y!Fits(Values(Y!Adjusted(key.config)))
    BY AdjustedFits
  <2>3. /\ dynamic' \in [Node -> Setting]
        /\ \A m \in Node : m # n => dynamic'[m] = dynamic[m]
        /\ Y!Fits(Values(dynamic'[n]))
        /\ ~Garbled => dynamic'[n] = Y!Adjusted(key.config)
    <3>1. CASE dynamic[n] # key.config /\ Y!IsNumeric(key.config)
      <4>1. dynamic' = [dynamic EXCEPT ![n] = Y!Adjusted(key.config)]
        BY <1>2, <3>1 DEF Y!Apply, Y!Set
      <4> QED BY <2>2, <4>1
    <3>2. CASE ~(dynamic[n] # key.config /\ Y!IsNumeric(key.config))
      <4>1. dynamic' = dynamic
        BY <1>2, <3>2 DEF Y!Apply
      <4>2. ~Garbled => dynamic[n] = Y!Adjusted(key.config)
        BY <3>2, AdjustedOnce
      <4> QED BY <4>1, <4>2
    <3> QED BY <3>1, <3>2
  <2>4. /\ effective' \in [Node -> Setting]
        /\ \A m \in Node : effective'[m] = Y!Build(dynamic'[m], local[m])
    <3>1. CASE dynamic[n] # key.config /\ Y!IsNumeric(key.config)
      <4>1. /\ effective' = [effective EXCEPT ![n] = Y!Build(Y!Adjusted(key.config), local[n])]
            /\ dynamic' = [dynamic EXCEPT ![n] = Y!Adjusted(key.config)]
        BY <1>2, <3>1 DEF Y!Apply, Y!Set
      <4>2. Y!Build(Y!Adjusted(key.config), local[n]) \in Setting
        BY <2>2, BuildType
      <4> QED BY <4>1, <4>2
    <3>2. CASE ~(dynamic[n] # key.config /\ Y!IsNumeric(key.config))
      BY <1>2, <3>2 DEF Y!Apply
    <3> QED BY <3>1, <3>2
  <2>5. cache' \in [Node -> Setting] /\ \A m \in Node : Y!Fits(Values(cache'[m]))
    <3>1. cache' = cache \/ cache' = [cache EXCEPT ![n] = dynamic'[n]]
      BY <1>2 DEF Y!Apply, Y!Set
    <3> QED BY <2>3, <3>1
  <2>6. /\ seen' \in [Node -> Int] /\ \A m \in Node : seen'[m] <= key'.version
        /\ key' = key /\ local' = local
    BY <2>1
  <2>7. ASSUME ~Garbled, NEW m \in Node, seen'[m] = key'.version
        PROVE  dynamic'[m] = Y!Adjusted(key'.config)
    <3>1. CASE m = n
      BY <2>3, <2>6, <2>7, <3>1
    <3>2. CASE m # n
      BY <2>1, <2>3, <2>6, <2>7, <3>2
    <3> QED BY <3>1, <3>2
  <2>8. \A m \in Node : Y!Fits(Values(dynamic'[m]))
    BY <2>3
  <2> QED BY <2>3, <2>4, <2>5, <2>6, <2>7, <2>8
<1>3. ASSUME NEW n \in Node, Y!ReloadLocal(n) PROVE LayersInv'
  <2>1. PICK name \in Y!Name, v \in Number :
          /\ local' = [local EXCEPT ![n][name] = v]
          /\ effective' = [effective EXCEPT ![n] = Y!Build(dynamic[n], local'[n])]
    BY <1>3 DEF Y!ReloadLocal, Y!Set
  <2>2. [local[n] EXCEPT ![name] = v] \in Setting
    BY DEF Setting
  <2>3. local' \in [Node -> Setting] /\ \A m \in Node : m # n => local'[m] = local[m]
    BY <2>1, <2>2
  <2>4. Y!Build(dynamic[n], local'[n]) \in Setting
    BY <2>3, BuildType
  <2>5. /\ effective' \in [Node -> Setting]
        /\ \A m \in Node : effective'[m] = Y!Build(dynamic[m], local'[m])
    BY <2>1, <2>3, <2>4
  <2>6. UNCHANGED <<key, dynamic, seen, cache>>
    BY <1>3 DEF Y!ReloadLocal
  <2> QED BY <2>3, <2>5, <2>6
<1>4. ASSUME NEW n \in Node, Y!Restart(n) PROVE LayersInv'
  <2>1. /\ dynamic' = [dynamic EXCEPT ![n] = Y!Adjusted(cache[n])]
        /\ effective' = [effective EXCEPT ![n] = Y!Build(dynamic'[n], local[n])]
        /\ seen' = [seen EXCEPT ![n] = -1] /\ UNCHANGED <<key, local, cache>>
    BY <1>4 DEF Y!Restart, Y!Set
  <2>2. Y!Adjusted(cache[n]) \in Setting /\ Y!Fits(Values(Y!Adjusted(cache[n])))
    BY AdjustedFits
  <2>3. Y!Build(Y!Adjusted(cache[n]), local[n]) \in Setting
    BY <2>2, BuildType
  <2>4. dynamic' \in [Node -> Setting] /\ \A m \in Node : Y!Fits(Values(dynamic'[m]))
    BY <2>1, <2>2
  <2>5. /\ effective' \in [Node -> Setting]
        /\ \A m \in Node : effective'[m] = Y!Build(dynamic'[m], local[m])
    BY <2>1, <2>2, <2>3
  <2>6. seen'[n] < key.version
    BY <2>1
  <2> QED BY <2>1, <2>4, <2>5, <2>6
<1>5. CASE UNCHANGED Y!vars
  BY <1>5 DEF Y!vars
<1> QED BY <1>1, <1>2, <1>3, <1>4, <1>5 DEF Y!LayersNext

\* ConfigLayers' TimeoutsFit: the leader lock's assumption about the timeouts holds on
\* every node, also with settings that are no numbers.
THEOREM TimeoutsAlwaysFit ==
  ASSUME Number \subseteq Int
  PROVE  Y!LayersSpec => []Y!TimeoutsFit
<1>1. LayersInv => Y!TimeoutsFit
  BY BuildTimeouts DEF LayersInv, LayersType, Y!TimeoutsFit
<1> QED BY LayersInitially, LayersInvKept, <1>1, PTL DEF Y!LayersSpec

LEMMA OneIfApplied ==
  ASSUME ~Garbled, LayersInv
  PROVE  Y!OneConfiguration
<1> SUFFICES ASSUME NEW m \in Node, NEW n \in Node, NEW s \in Y!ClusterWide,
                    seen[m] = key.version, seen[n] = key.version
             PROVE  effective[m][s] = effective[n][s]
  BY DEF Y!OneConfiguration
<1>1. dynamic[m] = dynamic[n]
  BY DEF LayersInv
<1> QED BY <1>1, BuildClusterWide DEF LayersInv, LayersType

\* ConfigLayers' OneConfiguration.
THEOREM ConfigurationIsOne ==
  ASSUME Number \subseteq Int, ~Garbled
  PROVE  Y!LayersSpec => []Y!OneConfiguration
BY LayersInitially, LayersInvKept, OneIfApplied, PTL DEF Y!LayersSpec

-----------------------------------------------------------------------------
\* LeaderKey: what follows from the promise of a back end.

\* The type of the state.
KeyType == holder \in Node \cup {None} /\ sure \in [Node -> 0 .. Ttl]

\* The answers of an expired key are no longer good.
LEMMA ElapseType ==
  ASSUME Ttl \in Nat, NEW s \in [Node -> 0 .. Ttl]
  PROVE  /\ K!Elapse(s) \in [Node -> 0 .. Ttl]
         /\ \A m \in Node : K!Elapse(s)[m] > 0 => s[m] > 0
BY DEF K!Elapse

\* The key and the answers keep their types (dcs/__init__.py, the leader key).
LEMMA KeyTypeKept ==
  ASSUME Ttl \in Nat
  PROVE  K!LeaderKeySpec => []KeyType
<1>1. K!LeaderKeyInit => KeyType
  BY DEF K!LeaderKeyInit, KeyType
<1>2. KeyType /\ [K!LeaderKeyNext]_(K!leaderKeyVars) => KeyType'
  <2> SUFFICES ASSUME KeyType, [K!LeaderKeyNext]_(K!leaderKeyVars) PROVE KeyType'
    OBVIOUS
  <2> USE DEF KeyType
  <2>1. ASSUME NEW m \in Node, K!Grant(m) PROVE KeyType'
    BY <2>1 DEF K!Grant
  <2>2. ASSUME NEW m \in Node, K!Refuse(m) PROVE KeyType'
    BY <2>2 DEF K!Refuse
  <2>3. ASSUME NEW m \in Node, K!Release(m) PROVE KeyType'
    BY <2>3 DEF K!Release
  <2>4. CASE K!Lapse
    BY <2>4 DEF K!Lapse
  <2>5. CASE K!Pass
    BY <2>5, ElapseType DEF K!Pass
  <2>6. CASE UNCHANGED K!leaderKeyVars
    BY <2>6 DEF K!leaderKeyVars
  <2> QED
    BY <2>1, <2>2, <2>3, <2>4, <2>5, <2>6 DEF K!LeaderKeyNext
<1> QED
  BY <1>1, <1>2, PTL DEF K!LeaderKeySpec

\* Whoever was told TRUE holds the key (AbstractDCS.attempt_to_acquire_leader and
\* _update_leader): there is never a second member that is sure to lead.
THEOREM SureIsHolder ==
  ASSUME Ttl \in Nat, None \notin Node
  PROVE  K!LeaderKeySpec => []K!OneSureLeader
<1>1. K!LeaderKeyInit => K!OneSureLeader
  BY DEF K!LeaderKeyInit, K!OneSureLeader
<1>2. KeyType /\ K!OneSureLeader /\ [K!LeaderKeyNext]_(K!leaderKeyVars) => K!OneSureLeader'
  <2> SUFFICES ASSUME KeyType, K!OneSureLeader, [K!LeaderKeyNext]_(K!leaderKeyVars),
                      NEW n \in Node, sure'[n] > 0
               PROVE  holder' = n
    BY DEF K!OneSureLeader
  <2> USE DEF KeyType, K!OneSureLeader
  <2>1. ASSUME NEW m \in Node, K!Grant(m) PROVE holder' = n
    BY <2>1 DEF K!Grant
  <2>2. ASSUME NEW m \in Node, K!Refuse(m) PROVE holder' = n
    BY <2>2 DEF K!Refuse
  <2>3. ASSUME NEW m \in Node, K!Release(m) PROVE holder' = n
    BY <2>3 DEF K!Release
  <2>4. CASE K!Lapse
    BY <2>4 DEF K!Lapse
  <2>5. CASE K!Pass
    BY <2>5, ElapseType DEF K!Pass
  <2>6. CASE UNCHANGED K!leaderKeyVars
    BY <2>6 DEF K!leaderKeyVars
  <2> QED
    BY <2>1, <2>2, <2>3, <2>4, <2>5, <2>6 DEF K!LeaderKeyNext
<1> QED
  BY <1>1, <1>2, KeyTypeKept, PTL DEF K!LeaderKeySpec

-----------------------------------------------------------------------------
\* Citus.  Between the tasks the cached topology is the table; within one, the rows are those of
\* the topology as far as it has got.

\* What is a function is not None.
NoFunction(v) == v # [x \in DOMAIN v |-> v[x]]
CitusAssumption ==
  /\ NoFunction(None) /\ NoFunction(Other) /\ None # Other
  /\ None \notin Host /\ None \notin Host \X Nat /\ None \notin Nat
  /\ Up \subseteq Host /\ Up # {}

Name == Host \X Nat
NodeOf == [role : {"primary", "secondary", "demoted"}, id : Nat \cup {None}]
Group(g) ==
  /\ g = [n \in DOMAIN g |-> g[n]] /\ DOMAIN g \subseteq Name
  /\ \A n \in DOMAIN g : g[n] \in NodeOf
  /\ \A m, n \in DOMAIN g : C!IsPrimary(g[m]) /\ C!IsPrimary(g[n]) => m = n
Table(r) ==
  /\ r = [i \in DOMAIN r |-> r[i]] /\ DOMAIN r \subseteq Nat
  /\ \A i \in DOMAIN r : r[i] \in [name : Name, role : {"primary", "secondary"}]
  /\ \A i, j \in DOMAIN r :
       r[i].name = r[j].name \/ (r[i].role = "primary" /\ r[j].role = "primary") => i = j
State(t) ==
  /\ t = [old |-> t.old, new |-> t.new, failover |-> t.failover, rows |-> t.rows, ok |-> t.ok,
          sent |-> t.sent, gone |-> t.gone, added |-> t.added]
  /\ Group(t.old) /\ Group(t.new) /\ t.ok \in BOOLEAN /\ t.failover \in BOOLEAN
  /\ t.gone \subseteq DOMAIN t.old /\ \A n \in t.gone : t.old[n].role = "secondary"
  /\ t.added \subseteq DOMAIN t.new
  /\ t.gone \cap DOMAIN t.new = {} /\ t.added \cap DOMAIN t.old = {}
  /\ \A n \in t.added : t.new[n].role = "secondary"
  /\ DOMAIN t.rows \subseteq Nat /\ (t.ok => Table(t.rows))

\* The nodes that go to a row each, and those that get one.
Ids(nodes) == {nodes[n].id : n \in DOMAIN nodes} \ {None}
Adds(nodes) == {n \in DOMAIN nodes : nodes[n].id = None /\ nodes[n].role # "demoted"}
Written(n, node) == <<n[1], n[2] + (IF node.role = "demoted" THEN 1 ELSE 0)>>
Apart(nodes) ==
  \A m, n \in DOMAIN nodes : nodes[m].id = nodes[n].id /\ nodes[m].id # None => m = n

\* What comes of sending the nodes.
SentRows(t, nodes, u) ==
  /\ t.ok /\ Ids(nodes) \subseteq DOMAIN t.rows /\ DOMAIN t.rows \subseteq DOMAIN u.rows
  /\ \A i \in DOMAIN t.rows :
       u.rows[i].role = t.rows[i].role /\ (i \notin Ids(nodes) => u.rows[i] = t.rows[i])
  /\ \A n \in DOMAIN nodes :
       nodes[n].id # None => u.rows[nodes[n].id].name = Written(n, nodes[n])
  /\ \A n \in Adds(nodes) \cap DOMAIN t.new :
       /\ u.new[n].id \in DOMAIN u.rows /\ u.rows[u.new[n].id].name = n
       /\ u.new[n].id \notin DOMAIN t.rows => u.rows[u.new[n].id].role = nodes[n].role
  /\ \A i \in DOMAIN u.rows \ DOMAIN t.rows : u.rows[i].name \in Adds(nodes)
Sent(t, nodes, u) ==
  /\ u.old = t.old /\ u.failover = t.failover /\ u.gone = t.gone /\ u.added = t.added
  /\ DOMAIN u.new = DOMAIN t.new
  /\ \A n \in DOMAIN t.new :
       u.new[n].role = t.new[n].role /\ (n \notin Adds(nodes) => u.new[n] = t.new[n])
  /\ u.ok => t.ok /\ (Apart(nodes) => SentRows(t, nodes, u))

\* citus_update_node
Renamed(t, to, u) ==
  /\ u.old = t.old /\ u.failover = t.failover /\ u.gone = t.gone /\ u.added = t.added /\ u.new = t.new
  /\ u.ok => /\ t.ok /\ DOMAIN to \subseteq DOMAIN t.rows /\ DOMAIN u.rows = DOMAIN t.rows
             /\ \A i \in DOMAIN t.rows :
                  u.rows[i] = IF i \in DOMAIN to THEN [name |-> to[i], role |-> t.rows[i].role]
                              ELSE t.rows[i]

LEMMA StateFields ==
  ASSUME NEW t, NEW u, State(t),
         u = [t EXCEPT !.rows = u.rows, !.ok = u.ok, !.sent = u.sent, !.new = u.new],
         Group(u.new), u.ok \in BOOLEAN, DOMAIN u.new = DOMAIN t.new,
         \A n \in DOMAIN t.new : u.new[n].role = t.new[n].role,
         DOMAIN u.rows \subseteq Nat, u.ok => Table(u.rows)
  PROVE  State(u)
<1>1. u = [old |-> t.old, new |-> u.new, failover |-> t.failover, rows |-> u.rows, ok |-> u.ok,
           sent |-> u.sent, gone |-> t.gone, added |-> t.added]
  BY Zenon DEF State
<1>2. u.old = t.old /\ u.failover = t.failover /\ u.gone = t.gone /\ u.added = t.added
  BY <1>1
<1> QED
  BY <1>1, <1>2 DEF State

LEMMA RenamedBy ==
  ASSUME NEW t, State(t), NEW to, NEW u \in C!citus_update_node(t, to),
         \A i \in DOMAIN to : to[i] \in Name
  PROVE  State(u) /\ Renamed(t, to, u)
<1> DEFINE ok == /\ t.ok /\ DOMAIN to \subseteq DOMAIN t.rows /\ C!IsInjective(to)
                 /\ \A id \in DOMAIN to : C!Named(t.rows, to[id]) \subseteq {id}
           rs == [id \in DOMAIN t.rows |->
                    IF id \in DOMAIN to THEN [name |-> to[id], role |-> t.rows[id].role] ELSE t.rows[id]]
<1>1. u = [t EXCEPT !.ok = ok, !.rows = rs]
  BY Zenon DEF C!citus_update_node
<1> HIDE DEF ok, rs
<1>2. u = [old |-> t.old, new |-> t.new, failover |-> t.failover, rows |-> rs, ok |-> ok,
           sent |-> t.sent, gone |-> t.gone, added |-> t.added]
  BY <1>1, Zenon DEF State
<1>3. /\ u.old = t.old /\ u.failover = t.failover /\ u.gone = t.gone /\ u.added = t.added
      /\ u.new = t.new /\ u.rows = rs /\ u.ok = ok /\ u.sent = t.sent
  BY <1>2, Zenon
<1>4. ok \in BOOLEAN
  BY DEF ok
<1>5. ASSUME ok PROVE Table(rs)
  <2>1. Table(t.rows) /\ DOMAIN to \subseteq DOMAIN t.rows
    BY <1>5 DEF ok, State
  <2>2. DOMAIN rs = DOMAIN t.rows /\ rs = [i \in DOMAIN rs |-> rs[i]]
    BY DEF rs
  <2>3. ASSUME NEW i \in DOMAIN rs PROVE rs[i] \in [name : Name, role : {"primary", "secondary"}]
    BY <2>1, <2>2, <2>3 DEF rs, Table
  <2>4. \A i \in DOMAIN rs : rs[i].role = t.rows[i].role
                             /\ rs[i].name = IF i \in DOMAIN to THEN to[i] ELSE t.rows[i].name
    BY <2>2 DEF rs
  <2>5. ASSUME NEW i \in DOMAIN rs, NEW j \in DOMAIN rs, rs[i].name = rs[j].name PROVE i = j
    <3>1. CASE i \in DOMAIN to /\ j \in DOMAIN to
      BY <1>5, <2>4, <2>5, <3>1 DEF ok, C!IsInjective
    <3>2. CASE i \in DOMAIN to /\ j \notin DOMAIN to
      BY <1>5, <2>2, <2>4, <2>5, <3>2 DEF ok, C!Named
    <3>3. CASE i \notin DOMAIN to /\ j \in DOMAIN to
      BY <1>5, <2>2, <2>4, <2>5, <3>3 DEF ok, C!Named
    <3>4. CASE i \notin DOMAIN to /\ j \notin DOMAIN to
      BY <2>1, <2>2, <2>4, <2>5, <3>4 DEF Table
    <3> QED
      BY <3>1, <3>2, <3>3, <3>4
  <2> QED
    BY <2>1, <2>2, <2>3, <2>4, <2>5 DEF Table
<1>6. State(u)
  <2>1. DOMAIN rs = DOMAIN t.rows
    BY DEF rs
  <2> QED
    BY <1>2, <1>3, <1>4, <1>5, <2>1 DEF State
<1>7. u.ok => /\ t.ok /\ DOMAIN to \subseteq DOMAIN t.rows /\ DOMAIN u.rows = DOMAIN t.rows
              /\ \A i \in DOMAIN t.rows :
                   u.rows[i] = IF i \in DOMAIN to THEN [name |-> to[i], role |-> t.rows[i].role]
                               ELSE t.rows[i]
  BY <1>3 DEF ok, rs
<1> QED
  BY <1>3, <1>6, <1>7 DEF Renamed

\* citus_add_node
AddedRows(t, nodes, u) ==
  /\ t.ok /\ DOMAIN t.rows \subseteq DOMAIN u.rows
  /\ \A i \in DOMAIN t.rows : u.rows[i] = t.rows[i]
  /\ \A n \in DOMAIN nodes \cap DOMAIN t.new :
       /\ u.new[n].id \in DOMAIN u.rows /\ u.rows[u.new[n].id].name = n
       /\ u.new[n].id \notin DOMAIN t.rows => u.rows[u.new[n].id].role = nodes[n].role
  /\ \A i \in DOMAIN u.rows \ DOMAIN t.rows : u.rows[i].name \in DOMAIN nodes
Added(t, nodes, u) ==
  /\ u.old = t.old /\ u.failover = t.failover /\ u.gone = t.gone /\ u.added = t.added
  /\ DOMAIN u.new = DOMAIN t.new
  /\ \A n \in DOMAIN t.new :
       u.new[n].role = t.new[n].role /\ (n \notin DOMAIN nodes => u.new[n] = t.new[n])
  /\ u.ok => AddedRows(t, nodes, u)

LEMMA AddedBy ==
  ASSUME NEW t, State(t), NEW nodes, Group(nodes), \A n \in DOMAIN nodes : nodes[n].role # "demoted",
         NEW u \in C!citus_add_node(t, nodes)
  PROVE  State(u) /\ Added(t, nodes, u)
<1> DEFINE ns == {n \in DOMAIN nodes : C!Named(t.rows, n) = {}}
           free == (1 .. C!Cardinality(DOMAIN t.rows) + C!Cardinality(ns)) \ DOMAIN t.rows
           id(f, n) == IF n \in ns THEN f[n] ELSE CHOOSE i \in C!Named(t.rows, n) : TRUE
           ok == t.ok /\ \A n \in ns, i \in DOMAIN t.rows :
                           ~(nodes[n].role = "primary" /\ t.rows[i].role = "primary")
           rs(f) == [i \in DOMAIN t.rows \cup C!Range(f) |->
                       IF i \in DOMAIN t.rows THEN t.rows[i]
                       ELSE LET n == CHOOSE m \in ns : f[m] = i IN [name |-> n, role |-> nodes[n].role]]
           new(f) == [n \in DOMAIN t.new |->
                        IF n \in DOMAIN nodes THEN C!Node(t.new[n].role, id(f, n)) ELSE t.new[n]]
           out(f) == [t EXCEPT !.ok = ok, !.rows = rs(f), !.new = new(f)]
<1>0. u \in {out(f) : f \in C!Injection(ns, free)}
  BY Zenon DEF C!citus_add_node
<1>1. PICK f \in C!Injection(ns, free) : u = out(f)
  <2> HIDE DEF out
  <2> QED
    BY <1>0
<1>2. f \in [ns -> free] /\ \A a, b \in ns : f[a] = f[b] => a = b
  BY DEF C!Injection, C!IsInjective
<1>3. free \subseteq Nat /\ free \cap DOMAIN t.rows = {}
  OBVIOUS
<1>a. PICK n1 : n1 = new(f)
  OBVIOUS
<1>b. PICK r1 : r1 = rs(f)
  OBVIOUS
<1>c. PICK o1 : o1 = ok
  OBVIOUS
<1>4. C!Range(f) = {f[n] : n \in ns}
  BY <1>2 DEF C!Range
<1>5. DOMAIN r1 = DOMAIN t.rows \cup C!Range(f) /\ r1 = [i \in DOMAIN r1 |-> r1[i]]
  BY <1>b
<1>6. \A i \in DOMAIN t.rows : r1[i] = t.rows[i]
  BY <1>b
<1>7. ASSUME NEW n \in ns
      PROVE  /\ f[n] \in DOMAIN r1 \ DOMAIN t.rows /\ r1[f[n]] = [name |-> n, role |-> nodes[n].role]
             /\ r1[f[n]].name = n /\ r1[f[n]].role = nodes[n].role
  <2>1. f[n] \in C!Range(f) /\ f[n] \notin DOMAIN t.rows
    BY <1>2, <1>3, <1>4
  <2>2. (CHOOSE m \in ns : f[m] = f[n]) = n
    BY <1>2
  <2>3. r1[f[n]] = LET k == CHOOSE m \in ns : f[m] = f[n] IN [name |-> k, role |-> nodes[k].role]
    BY <1>b, <1>5, <2>1
  <2>4. r1[f[n]] = [name |-> n, role |-> nodes[n].role]
    BY <2>2, <2>3
  <2>5. r1[f[n]].name = n /\ r1[f[n]].role = nodes[n].role
    BY <2>4
  <2> QED
    BY <1>5, <2>1, <2>4, <2>5
<1>8. \A i \in DOMAIN r1 \ DOMAIN t.rows : \E n \in ns : i = f[n]
  BY <1>4, <1>5
<1>9. DOMAIN n1 = DOMAIN t.new /\ n1 = [n \in DOMAIN n1 |-> n1[n]]
  BY <1>a
<1>10. ASSUME NEW n \in DOMAIN t.new
       PROVE  n1[n] = IF n \in DOMAIN nodes THEN C!Node(t.new[n].role, id(f, n)) ELSE t.new[n]
  BY <1>a
<1>11. ASSUME NEW n \in DOMAIN nodes
       PROVE  id(f, n) \in Nat /\ (n \notin ns => id(f, n) \in DOMAIN t.rows /\ t.rows[id(f, n)].name = n)
  <2>1. CASE n \in ns
    BY <1>2, <1>3, <2>1
  <2>2. CASE n \notin ns
    <3>1. (CHOOSE i \in C!Named(t.rows, n) : TRUE) \in C!Named(t.rows, n)
      BY <2>2
    <3> QED
      BY <2>2, <3>1 DEF C!Named, State
  <2> QED
    BY <2>1, <2>2
<1> HIDE DEF id, new, rs, ok, free
<1>12. u = [old |-> t.old, new |-> n1, failover |-> t.failover, rows |-> r1, ok |-> o1,
            sent |-> t.sent, gone |-> t.gone, added |-> t.added]
  BY <1>1, <1>a, <1>b, <1>c, Zenon DEF State
<1>13. /\ u.old = t.old /\ u.failover = t.failover /\ u.gone = t.gone /\ u.added = t.added
       /\ u.new = n1 /\ u.rows = r1 /\ u.ok = o1 /\ u.sent = t.sent
  BY <1>12, Zenon
<1>14. o1 \in BOOLEAN
  BY <1>c DEF ok
<1>a15. ASSUME NEW n \in DOMAIN t.new
        PROVE  n1[n].role = t.new[n].role /\ (n \in DOMAIN nodes => n1[n].id = id(f, n))
  <2>1. CASE n \in DOMAIN nodes
    <3>1. n1[n] = [role |-> t.new[n].role, id |-> id(f, n)]
      BY <1>10, <2>1, Zenon DEF C!Node
    <3> QED
      BY <3>1
  <2>2. CASE n \notin DOMAIN nodes
    BY <1>10, <2>2
  <2> QED
    BY <2>1, <2>2
<1>15. \A n \in DOMAIN t.new : n1[n].role = t.new[n].role
  BY <1>a15
<1>16. Group(n1)
  <2>1. ASSUME NEW n \in DOMAIN n1 PROVE n1[n] \in NodeOf
    <3>1. CASE n \in DOMAIN nodes
      <4>1. n1[n] = [role |-> t.new[n].role, id |-> id(f, n)] /\ id(f, n) \in Nat
        BY <1>9, <1>10, <1>11, <3>1 DEF C!Node
      <4>2. t.new[n].role \in {"primary", "secondary", "demoted"}
        BY <1>9 DEF State, Group, NodeOf
      <4> QED
        BY <4>1, <4>2 DEF NodeOf
    <3>2. CASE n \notin DOMAIN nodes
      BY <1>9, <1>10, <3>2 DEF State, Group
    <3> QED
      BY <3>1, <3>2
  <2> QED
    BY <1>9, <1>15, <2>1 DEF State, Group, C!IsPrimary
<1>17. DOMAIN r1 \subseteq Nat
  BY <1>2, <1>3, <1>8 DEF State
<1>18. ASSUME o1 PROVE Table(r1)
  <2>1. Table(t.rows)
    BY <1>18, <1>c DEF ok, State
  <2>2. ASSUME NEW i \in DOMAIN r1 PROVE r1[i] \in [name : Name, role : {"primary", "secondary"}]
    <3>1. CASE i \in DOMAIN t.rows
      BY <1>6, <2>1, <3>1 DEF Table
    <3>2. CASE i \notin DOMAIN t.rows
      <4>1. PICK n \in ns : i = f[n]
        BY <1>8, <3>2
      <4>2. r1[i] = [name |-> n, role |-> nodes[n].role]
        BY <1>7, <4>1
      <4>3. n \in Name /\ nodes[n].role \in {"primary", "secondary"}
        BY DEF Group, NodeOf
      <4> QED
        BY <4>2, <4>3
    <3> QED
      BY <3>1, <3>2
  <2>3. ASSUME NEW i \in DOMAIN r1, NEW j \in DOMAIN r1,
               r1[i].name = r1[j].name \/ (r1[i].role = "primary" /\ r1[j].role = "primary")
        PROVE  i = j
    <3>1. CASE i \in DOMAIN t.rows /\ j \in DOMAIN t.rows
      BY <1>6, <2>1, <2>3, <3>1 DEF Table
    <3>2. ASSUME NEW k \in DOMAIN r1, NEW l \in DOMAIN r1, k \in DOMAIN t.rows, l \notin DOMAIN t.rows
          PROVE  r1[k].name # r1[l].name /\ ~(r1[k].role = "primary" /\ r1[l].role = "primary")
      <4>1. PICK n \in ns : l = f[n]
        BY <1>8, <3>2
      <4>2. r1[l].name = n /\ r1[l].role = nodes[n].role /\ C!Named(t.rows, n) = {}
        BY <1>7, <4>1
      <4>3. t.rows[k].name # n
        BY <3>2, <4>2 DEF C!Named
      <4> QED
        BY <1>6, <1>18, <1>c, <3>2, <4>2, <4>3 DEF ok
    <3>3. CASE i \notin DOMAIN t.rows /\ j \notin DOMAIN t.rows
      <4>1. PICK m \in ns, n \in ns : i = f[m] /\ j = f[n]
        BY <1>8, <3>3
      <4>2. r1[i].name = m /\ r1[i].role = nodes[m].role /\ r1[j].name = n /\ r1[j].role = nodes[n].role
        BY <1>7, <4>1
      <4> QED
        BY <2>3, <4>1, <4>2 DEF Group, C!IsPrimary
    <3> QED
      BY <2>3, <3>1, <3>2, <3>3
  <2> QED
    BY <1>5, <1>17, <2>1, <2>2, <2>3 DEF Table
<1>19. State(u)
  BY <1>9, <1>12, <1>13, <1>14, <1>15, <1>16, <1>17, <1>18 DEF State
<1>20. ASSUME o1 PROVE AddedRows(t, nodes, u)
  <2>1. ASSUME NEW n \in DOMAIN nodes \cap DOMAIN t.new
        PROVE  /\ n1[n].id \in DOMAIN r1 /\ r1[n1[n].id].name = n
               /\ n1[n].id \notin DOMAIN t.rows => r1[n1[n].id].role = nodes[n].role
    <3>1. n1[n].id = id(f, n)
      BY <1>a15
    <3>2. CASE n \in ns
      BY <1>7, <3>1, <3>2 DEF id
    <3>3. CASE n \notin ns
      BY <1>5, <1>6, <1>11, <3>1, <3>3
    <3> QED
      BY <3>2, <3>3
  <2>2. ASSUME NEW i \in DOMAIN r1 \ DOMAIN t.rows PROVE r1[i].name \in DOMAIN nodes
    <3>1. PICK n \in ns : i = f[n]
      BY <1>8
    <3> QED
      BY <1>7, <3>1
  <2>3. t.ok
    BY <1>20, <1>c DEF ok
  <2> QED
    BY <1>5, <1>6, <1>13, <2>1, <2>2, <2>3 DEF AddedRows
<1> QED
  BY <1>9, <1>10, <1>13, <1>15, <1>19, <1>20 DEF Added

\* update_node: what is sent keeps the types, and is written.
LEMMA SentBy ==
  ASSUME NEW t, State(t), NEW nodes, Group(nodes), NEW u \in C!update_node(t, nodes)
  PROVE  State(u) /\ Sent(t, nodes, u)
<1> DEFINE takes(id) == CHOOSE n \in DOMAIN nodes : nodes[n].id = id
           to == [id \in Ids(nodes) |-> Written(takes(id), nodes[takes(id)])]
           put == C!Restrict(nodes, Adds(nodes))
           out(w) == C!citus_add_node([w EXCEPT !.sent = @ + C!Cardinality(DOMAIN nodes)], put)
<1>0. u \in UNION {out(w) : w \in C!citus_update_node(t, to)}
  BY Zenon DEF C!update_node, Ids, Adds, Written
<1>1. PICK w \in C!citus_update_node(t, to) : u \in out(w)
  <2> HIDE DEF out, to, put
  <2> QED
    BY <1>0
<1>2. PICK v : v = [w EXCEPT !.sent = @ + C!Cardinality(DOMAIN nodes)]
  OBVIOUS
<1>3. \A i \in Ids(nodes) : takes(i) \in DOMAIN nodes /\ nodes[takes(i)].id = i
  BY DEF Ids
<1>4. DOMAIN to = Ids(nodes) /\ \A i \in Ids(nodes) : to[i] = Written(takes(i), nodes[takes(i)])
  OBVIOUS
<1>5. \A n \in DOMAIN nodes : Written(n, nodes[n]) \in Name
  BY DEF Written, Group, Name
<1>6. DOMAIN put = Adds(nodes) /\ \A n \in Adds(nodes) : put[n] = nodes[n]
  BY DEF C!Restrict
<1>7. put = [n \in DOMAIN put |-> put[n]]
  BY DEF C!Restrict
<1> HIDE DEF to, put, takes
<1>8. State(w) /\ Renamed(t, to, w)
  <2>1. \A i \in DOMAIN to : to[i] \in Name
    BY <1>3, <1>4, <1>5
  <2> QED
    BY <2>1, RenamedBy
<1>9. /\ v.old = w.old /\ v.failover = w.failover /\ v.gone = w.gone /\ v.added = w.added
      /\ v.new = w.new /\ v.rows = w.rows /\ v.ok = w.ok
  BY <1>2, <1>8, Zenon DEF State
<1>10. State(v)
  <2>1. v = [w EXCEPT !.rows = v.rows, !.ok = v.ok, !.sent = v.sent, !.new = v.new]
    <3>1. PICK s : s = w.sent + C!Cardinality(DOMAIN nodes)
      OBVIOUS
    <3>2. v = [old |-> w.old, new |-> w.new, failover |-> w.failover, rows |-> w.rows, ok |-> w.ok,
               sent |-> s, gone |-> w.gone, added |-> w.added]
      BY <1>2, <1>8, <3>1, Zenon DEF State
    <3>3. v.sent = s
      BY <3>2
    <3> QED
      BY <1>8, <1>9, <3>2, <3>3, Zenon DEF State
  <2> QED
    BY <1>8, <1>9, <2>1, StateFields, Zenon DEF State
<1>11. Group(put) /\ \A n \in DOMAIN put : put[n].role # "demoted"
  BY <1>6, <1>7 DEF Group, Adds
<1>12. State(u) /\ Added(v, put, u)
  BY <1>1, <1>2, <1>10, <1>11, AddedBy
<1>13. /\ u.old = t.old /\ u.failover = t.failover /\ u.gone = t.gone /\ u.added = t.added
       /\ DOMAIN u.new = DOMAIN t.new
       /\ \A n \in DOMAIN t.new :
            u.new[n].role = t.new[n].role /\ (n \notin Adds(nodes) => u.new[n] = t.new[n])
  BY <1>6, <1>8, <1>9, <1>12 DEF Added, Renamed
<1>15. ASSUME u.ok PROVE t.ok
  BY <1>8, <1>9, <1>12, <1>15 DEF Added, AddedRows, Renamed
<1>14. ASSUME u.ok, Apart(nodes) PROVE SentRows(t, nodes, u)
  <2>1. AddedRows(v, put, u) /\ v.ok /\ w.ok
    BY <1>9, <1>12, <1>14 DEF Added, AddedRows
  <2>2. /\ t.ok /\ Ids(nodes) \subseteq DOMAIN t.rows /\ DOMAIN v.rows = DOMAIN t.rows
        /\ \A i \in DOMAIN t.rows :
             v.rows[i] = IF i \in Ids(nodes) THEN [name |-> to[i], role |-> t.rows[i].role] ELSE t.rows[i]
    BY <1>4, <1>8, <1>9, <2>1 DEF Renamed
  <2>a. ASSUME NEW i \in DOMAIN t.rows
        PROVE  /\ v.rows[i].role = t.rows[i].role /\ (i \notin Ids(nodes) => v.rows[i] = t.rows[i])
               /\ i \in Ids(nodes) => v.rows[i].name = to[i]
    <3>1. CASE i \in Ids(nodes)
      <4>1. v.rows[i] = [name |-> to[i], role |-> t.rows[i].role]
        BY <2>2, <3>1
      <4> QED
        BY <3>1, <4>1
    <3>2. CASE i \notin Ids(nodes)
      BY <2>2, <3>2
    <3> QED
      BY <3>1, <3>2
  <2>3. DOMAIN t.rows \subseteq DOMAIN u.rows /\ \A i \in DOMAIN t.rows : u.rows[i] = v.rows[i]
    BY <2>1, <2>2 DEF AddedRows
  <2>4. \A i \in DOMAIN t.rows :
          u.rows[i].role = t.rows[i].role /\ (i \notin Ids(nodes) => u.rows[i] = t.rows[i])
    BY <2>a, <2>3
  <2>5. ASSUME NEW n \in DOMAIN nodes, nodes[n].id # None
        PROVE  u.rows[nodes[n].id].name = Written(n, nodes[n])
    <3>1. nodes[n].id \in Ids(nodes)
      BY <2>5 DEF Ids
    <3>2. takes(nodes[n].id) = n
      BY <1>3, <1>14, <2>5, <3>1 DEF Apart
    <3> QED
      BY <1>4, <2>a, <2>2, <2>3, <3>1, <3>2
  <2>6. /\ \A n \in Adds(nodes) \cap DOMAIN t.new :
             /\ u.new[n].id \in DOMAIN u.rows /\ u.rows[u.new[n].id].name = n
             /\ u.new[n].id \notin DOMAIN t.rows => u.rows[u.new[n].id].role = nodes[n].role
        /\ \A i \in DOMAIN u.rows \ DOMAIN t.rows : u.rows[i].name \in Adds(nodes)
    <3>1. v.new = t.new
      BY <1>8, <1>9 DEF Renamed
    <3> QED
      BY <1>6, <2>1, <2>2, <3>1 DEF AddedRows
  <2> QED
    BY <2>2, <2>3, <2>4, <2>5, <2>6 DEF SentRows
<1> QED
  BY <1>12, <1>13, <1>14, <1>15 DEF Sent

\* The rows are those of the nodes of a view, but for the rows in X.
Holds(row, n, node) == row.name = Written(n, node) /\ (row.role = "primary" <=> C!IsPrimary(node))
Held(r, v, X) ==
  /\ X \subseteq DOMAIN r
  /\ \A n \in DOMAIN v :
       v[n].id # None => v[n].id \in DOMAIN r \ X /\ Holds(r[v[n].id], n, v[n])
  /\ \A i \in DOMAIN r \ X : \E n \in DOMAIN v : v[n].id = i

LEMMA WrittenIs ==
  ASSUME NEW n \in Name, NEW node
  PROVE  /\ node.role # "demoted" => Written(n, node) = n
         /\ Written(n, node) \in Name
         /\ n[2] = 0 /\ node.role = "demoted" => Written(n, node)[2] = 1
BY DEF Written, Name

\* What the nodes that are sent get, the view w has then, and v had not.
Fits(t, nodes, u, v, w) ==
  /\ \A n \in DOMAIN nodes :
       /\ n \in DOMAIN v => v[n].id = None
       /\ nodes[n].id # None => (t.rows[nodes[n].id].role = "primary" <=> C!IsPrimary(nodes[n]))
       /\ nodes[n].id = None =>
            /\ nodes[n].role # "demoted" /\ n \in DOMAIN t.new /\ C!Named(t.rows, n) = {}
            /\ \A m \in DOMAIN nodes : Written(m, nodes[m]) = n => m = n
       /\ w[n].role = nodes[n].role
       /\ w[n].id = IF nodes[n].id = None THEN u.new[n].id ELSE nodes[n].id
  /\ DOMAIN w = DOMAIN v \cup DOMAIN nodes
  /\ \A n \in DOMAIN v \ DOMAIN nodes : w[n] = v[n]

LEMMA HeldBy ==
  ASSUME CitusAssumption, NEW t, State(t), NEW nodes, Group(nodes), Apart(nodes), NEW u \in C!update_node(t, nodes),
         NEW v, NEW X, Held(t.rows, v, X), Ids(nodes) \subseteq X, NEW w,
         Fits(t, nodes, u, v, w),
         u.ok
  PROVE  Held(u.rows, w, X \ Ids(nodes))
<1>1. State(u) /\ SentRows(t, nodes, u)
  BY SentBy DEF Sent
<1>2. Table(t.rows) /\ Table(u.rows)
  BY <1>1 DEF State, SentRows
<1> USE DEF Fits
<1>3. X \ Ids(nodes) \subseteq DOMAIN u.rows
  BY <1>1 DEF SentRows, Held
<1>4. ASSUME NEW n \in DOMAIN nodes, nodes[n].id = None
      PROVE  /\ u.new[n].id \in DOMAIN u.rows \ DOMAIN t.rows /\ u.rows[u.new[n].id].name = n
             /\ u.rows[u.new[n].id].role = nodes[n].role /\ n \in Adds(nodes)
  <2>1. n \in Adds(nodes) /\ n \in DOMAIN t.new
    BY <1>4 DEF Adds
  <2>2. u.new[n].id \in DOMAIN u.rows /\ u.rows[u.new[n].id].name = n
    BY <1>1, <2>1 DEF SentRows
  <2>3. ASSUME u.new[n].id \in DOMAIN t.rows PROVE FALSE
    <3>1. CASE u.new[n].id \in Ids(nodes)
      <4>1. PICK m \in DOMAIN nodes : nodes[m].id = u.new[n].id /\ nodes[m].id # None
        BY <3>1 DEF Ids
      <4>2. Written(m, nodes[m]) = n
        BY <1>1, <2>2, <4>1 DEF SentRows
      <4> QED
        BY <1>4, <4>1, <4>2
    <3>2. CASE u.new[n].id \notin Ids(nodes)
      <4>1. t.rows[u.new[n].id].name = n
        BY <1>1, <2>2, <2>3, <3>2 DEF SentRows
      <4> QED
        BY <1>4, <2>3, <4>1 DEF C!Named
    <3> QED
      BY <3>1, <3>2
  <2> QED
    BY <1>1, <2>1, <2>2, <2>3 DEF SentRows
<1>5. ASSUME NEW n \in DOMAIN w, w[n].id # None
      PROVE  w[n].id \in DOMAIN u.rows \ (X \ Ids(nodes)) /\ Holds(u.rows[w[n].id], n, w[n])
  <2>1. CASE n \notin DOMAIN nodes
    <3>1. w[n] = v[n] /\ n \in DOMAIN v
      BY <2>1
    <3>2. v[n].id \in DOMAIN t.rows \ X /\ Holds(t.rows[v[n].id], n, v[n])
      BY <1>5, <3>1 DEF Held
    <3>3. u.rows[v[n].id] = t.rows[v[n].id] /\ v[n].id \in DOMAIN u.rows
      BY <1>1, <3>2 DEF SentRows
    <3> QED
      BY <3>1, <3>2, <3>3
  <2>2. CASE n \in DOMAIN nodes /\ nodes[n].id # None
    <3>1. w[n].id = nodes[n].id /\ nodes[n].id \in Ids(nodes) /\ w[n].role = nodes[n].role
      BY <2>2 DEF Ids
    <3>2. nodes[n].id \in DOMAIN u.rows /\ u.rows[nodes[n].id].name = Written(n, nodes[n])
          /\ u.rows[nodes[n].id].role = t.rows[nodes[n].id].role
      BY <1>1, <2>2, <3>1 DEF SentRows
    <3> QED
      BY <2>2, <3>1, <3>2 DEF Holds, Written, C!IsPrimary
  <2>3. CASE n \in DOMAIN nodes /\ nodes[n].id = None
    <3>1. w[n].id = u.new[n].id /\ w[n].role = nodes[n].role /\ nodes[n].role # "demoted"
      BY <2>3
    <3>2. u.new[n].id \notin X
      BY <1>4, <2>3 DEF Held
    <3>3. n \in Name /\ Written(n, w[n]) = n
      <4>1. n \in Name
        BY <2>3 DEF Group
      <4> QED
        BY <3>1, <4>1, WrittenIs
    <3> QED
      BY <1>4, <2>3, <3>1, <3>2, <3>3 DEF Holds, C!IsPrimary
  <2> QED
    BY <2>1, <2>2, <2>3
<1>6. ASSUME NEW i \in DOMAIN u.rows \ (X \ Ids(nodes)) PROVE \E n \in DOMAIN w : w[n].id = i
  <2>1. CASE i \in Ids(nodes)
    BY <2>1 DEF Ids
  <2>2. CASE i \in DOMAIN t.rows \ Ids(nodes)
    <3>1. PICK n \in DOMAIN v : v[n].id = i
      BY <2>2 DEF Held
    <3>2. i # None
      <4>1. i \in Nat
        BY <1>2, <2>2 DEF Table
      <4> QED
        BY <4>1 DEF CitusAssumption
    <3> QED
      BY <3>1, <3>2
  <2>3. CASE i \notin DOMAIN t.rows /\ i \notin Ids(nodes)
    <3>1. PICK n \in Adds(nodes) : u.rows[i].name = n
      BY <1>1, <2>3 DEF SentRows
    <3>2. n \in DOMAIN nodes /\ nodes[n].id = None
      BY <3>1 DEF Adds
    <3>3. u.new[n].id = i
      BY <1>2, <1>4, <3>1, <3>2 DEF Table
    <3> QED
      BY <3>2, <3>3
  <2> QED
    BY <2>1, <2>2, <2>3
<1> QED
  BY <1>3, <1>5, <1>6 DEF Held

\* A node of the new topology takes a row, or gets one.
Frame(t, u) == u.old = t.old /\ u.failover = t.failover /\ u.gone = t.gone /\ u.added = t.added
Taken(t, n, role, id, u) ==
  /\ Frame(t, u) /\ (u.ok => t.ok) /\ DOMAIN u.new = DOMAIN t.new \cup {n}
  /\ \A m \in DOMAIN t.new \ {n} : u.new[m] = t.new[m]
  /\ u.new[n].role = role /\ u.new[n] \in NodeOf
  /\ id # None \/ role = "demoted" => u.new[n].id = id
  /\ u.ok => \A i \in DOMAIN t.rows : i \in DOMAIN u.rows /\ u.rows[i].role = t.rows[i].role
TakenHeld(t, n, id, u) ==
  \A v, X :
    /\ u.ok /\ Held(t.rows, v, X)
    /\ n \in DOMAIN v => v[n].id = None
    /\ id # None => id \in X /\ (t.rows[id].role = "primary" <=> C!IsPrimary(u.new[n]))
    /\ id = None => u.new[n].role = "secondary" /\ C!Named(t.rows, n) = {}
    => Held(u.rows, C!With(v, n, u.new[n]), X \ {id})

LEMMA OnlyOne ==
  ASSUME NEW n \in Name, NEW node \in NodeOf
  PROVE  /\ Group(C!Only(n, node)) /\ Apart(C!Only(n, node))
         /\ DOMAIN C!Only(n, node) = {n} /\ C!Only(n, node)[n] = node
         /\ Ids(C!Only(n, node)) = {node.id} \ {None}
         /\ Adds(C!Only(n, node)) = (IF node.id = None /\ node.role # "demoted" THEN {n} ELSE {})
<1>1. PICK g : g = C!Only(n, node)
  OBVIOUS
<1>2. DOMAIN g = {n} /\ g[n] = node /\ g = [m \in DOMAIN g |-> g[m]]
  BY <1>1 DEF C!Only
<1>3. Ids(g) = {node.id} \ {None} /\ Adds(g) = (IF node.id = None /\ node.role # "demoted" THEN {n} ELSE {})
  BY <1>2 DEF Ids, Adds
<1>4. Group(g) /\ Apart(g)
  BY <1>2 DEF Group, Apart
<1> QED
  BY <1>1, <1>2, <1>3, <1>4

\* The state with another node.
Put(t, n, node) == [t EXCEPT !.new = C!With(@, n, node)]
LEMMA PutBy ==
  ASSUME NEW t, State(t), NEW n \in Name, n \notin t.gone, n \notin t.added, NEW node \in NodeOf,
         C!IsPrimary(node) => \A m \in DOMAIN t.new \ {n} : ~C!IsPrimary(t.new[m]),
         NEW u, u = Put(t, n, node)
  PROVE  /\ State(u) /\ Frame(t, u) /\ u.rows = t.rows /\ u.ok = t.ok
         /\ DOMAIN u.new = DOMAIN t.new \cup {n} /\ u.new[n] = node
         /\ \A m \in DOMAIN t.new \ {n} : u.new[m] = t.new[m]
<1>1. PICK g : g = C!With(t.new, n, node)
  OBVIOUS
<1>2. /\ DOMAIN g = DOMAIN t.new \cup {n} /\ g[n] = node /\ g = [m \in DOMAIN g |-> g[m]]
      /\ \A m \in DOMAIN t.new \ {n} : g[m] = t.new[m]
  BY <1>1 DEF C!With
<1>3. u = [old |-> t.old, new |-> g, failover |-> t.failover, rows |-> t.rows, ok |-> t.ok,
           sent |-> t.sent, gone |-> t.gone, added |-> t.added]
  BY <1>1, Zenon DEF State, Put
<1>4. /\ u.old = t.old /\ u.new = g /\ u.failover = t.failover /\ u.rows = t.rows /\ u.ok = t.ok
      /\ u.sent = t.sent /\ u.gone = t.gone /\ u.added = t.added
  BY <1>3
<1>5. Group(g)
  BY <1>2 DEF State, Group
<1>6. State(u)
  BY <1>2, <1>3, <1>4, <1>5 DEF State
<1> QED
  BY <1>2, <1>4, <1>6 DEF Frame

LEMMA TakesBy ==
  ASSUME CitusAssumption, NEW t, State(t), NEW n \in Name, n \notin t.gone, n \notin t.added,
         NEW role, NEW id, C!Node(role, id) \in NodeOf,
         role # "secondary" => \A m \in DOMAIN t.new \ {n} : ~C!IsPrimary(t.new[m]),
         NEW u \in C!Takes(t, n, role, id)
  PROVE  State(u) /\ Taken(t, n, role, id, u) /\ TakenHeld(t, n, id, u)
<1>1. PICK node : node = C!Node(role, id)
  OBVIOUS
<1>2. node.role = role /\ node.id = id /\ node \in NodeOf
  BY <1>1 DEF C!Node
<1>3. PICK s : s = Put(t, n, node)
  OBVIOUS
<1>4. PICK g : g = C!Only(n, node)
  OBVIOUS
<1>5. u \in C!update_node(s, g)
  BY <1>1, <1>3, <1>4, Zenon DEF C!Takes, Put
<1>6. /\ State(s) /\ Frame(t, s) /\ s.rows = t.rows /\ s.ok = t.ok
      /\ DOMAIN s.new = DOMAIN t.new \cup {n} /\ s.new[n] = node
      /\ \A m \in DOMAIN t.new \ {n} : s.new[m] = t.new[m]
  <2>1. C!IsPrimary(node) => \A m \in DOMAIN t.new \ {n} : ~C!IsPrimary(t.new[m])
    BY <1>2 DEF C!IsPrimary
  <2> QED
    BY <1>2, <1>3, <2>1, PutBy
<1>7. /\ Group(g) /\ Apart(g) /\ DOMAIN g = {n} /\ g[n] = node /\ Ids(g) = {id} \ {None}
      /\ Adds(g) = (IF id = None /\ role # "demoted" THEN {n} ELSE {})
  BY <1>2, <1>4, OnlyOne
<1>8. State(u) /\ Sent(s, g, u)
  BY <1>5, <1>6, <1>7, SentBy
<1>9. u.new[n].role = role /\ u.new[n] \in NodeOf /\ DOMAIN u.new = DOMAIN t.new \cup {n}
  <2>1. DOMAIN u.new = DOMAIN t.new \cup {n} /\ u.new[n].role = role
    BY <1>2, <1>6, <1>8 DEF Sent
  <2> QED
    BY <1>8, <2>1 DEF State, Group
<1>10. id # None \/ role = "demoted" => u.new[n].id = id
  BY <1>2, <1>6, <1>7, <1>8 DEF Sent
<1>11. Taken(t, n, role, id, u)
  <2>1. \A m \in DOMAIN t.new \ {n} : u.new[m] = t.new[m]
    BY <1>6, <1>7, <1>8 DEF Sent
  <2>2. Frame(t, u) /\ (u.ok => t.ok)
    BY <1>6, <1>8 DEF Sent, SentRows, Frame
  <2>3. u.ok => \A i \in DOMAIN t.rows : i \in DOMAIN u.rows /\ u.rows[i].role = t.rows[i].role
    BY <1>6, <1>7, <1>8 DEF Sent, SentRows
  <2> QED
    BY <1>9, <1>10, <2>1, <2>2, <2>3 DEF Taken
<1>12. ASSUME NEW v, NEW X, u.ok, Held(t.rows, v, X), n \in DOMAIN v => v[n].id = None,
              id # None => id \in X /\ (t.rows[id].role = "primary" <=> C!IsPrimary(u.new[n])),
              id = None => u.new[n].role = "secondary" /\ C!Named(t.rows, n) = {}
       PROVE  Held(u.rows, C!With(v, n, u.new[n]), X \ {id})
  <2>1. PICK w : w = C!With(v, n, u.new[n])
    OBVIOUS
  <2>2. DOMAIN w = DOMAIN v \cup {n} /\ w[n] = u.new[n] /\ \A m \in DOMAIN v \ {n} : w[m] = v[m]
    BY <2>1 DEF C!With
  <2>3. Ids(g) \subseteq X
    BY <1>7, <1>12
  <2>4. Fits(s, g, u, v, w)
    <3>2. C!IsPrimary(u.new[n]) <=> C!IsPrimary(node)
      BY <1>2, <1>9 DEF C!IsPrimary
    <3>3. id = None => node.role = "secondary"
      BY <1>2, <1>9, <1>12
    <3> QED
      BY <1>2, <1>6, <1>7, <1>9, <1>10, <1>12, <2>2, <3>2, <3>3 DEF Fits
  <2>5. Held(u.rows, w, X \ Ids(g))
    <3>2. Held(s.rows, v, X)
      BY <1>6, <1>12
    <3> QED
      BY <1>5, <1>6, <1>7, <1>12, <2>3, <2>4, <3>2, HeldBy
  <2>6. X \ Ids(g) = X \ {id}
    <3>1. X \subseteq Nat
      BY <1>12 DEF Held, State
    <3>2. None \notin X
      BY <3>1 DEF CitusAssumption
    <3> QED
      BY <1>7, <3>2
  <2> QED
    BY <2>1, <2>5, <2>6
<1>13. TakenHeld(t, n, id, u)
  BY <1>12 DEF TakenHeld
<1> QED
  BY <1>8, <1>11, <1>13

\* What the rows are of while a transition is under way: the nodes that are gone, those that
\* stay, whose ids are filled in later, and those of the new topology that have a row by now.
Stay(t) ==
  {n \in DOMAIN t.new \cap DOMAIN t.old :
     t.new[n].id = None /\ ~C!IsPrimary(t.new[n]) /\ ~C!IsPrimary(t.old[n])}
View(t) ==
  [n \in DOMAIN t.new \cup t.gone |-> IF n \in t.gone \cup Stay(t) THEN t.old[n] ELSE t.new[n]]
Zero(g) == \A n \in DOMAIN g : n[2] = 0

LEMMA ViewIs ==
  ASSUME NEW t
  PROVE  /\ DOMAIN View(t) = DOMAIN t.new \cup t.gone
         /\ \A n \in DOMAIN t.new \cup t.gone :
              View(t)[n] = IF n \in t.gone \cup Stay(t) THEN t.old[n] ELSE t.new[n]
BY DEF View

\* The view is kept by what keeps its parts.
LEMMA SameView ==
  ASSUME NEW t, NEW u, u.new = t.new, u.gone = t.gone, Stay(u) = Stay(t),
         \A n \in t.gone \cup Stay(t) : u.old[n] = t.old[n]
  PROVE  View(u) = View(t)
BY DEF View

LEMMA TakesView ==
  ASSUME NEW t, State(t), NEW n, NEW role, NEW id, NEW u, Taken(t, n, role, id, u), n \notin t.gone,
         role # "secondary" \/ n \notin DOMAIN t.old \/ C!IsPrimary(t.old[n]),
         role \in {"primary", "secondary", "demoted"}
  PROVE  View(u) = C!With(View(t), n, u.new[n])
<1>1. /\ u.old = t.old /\ u.gone = t.gone /\ DOMAIN u.new = DOMAIN t.new \cup {n} /\ u.new[n].role = role
      /\ \A m \in DOMAIN t.new \ {n} : u.new[m] = t.new[m]
  BY DEF Taken, Frame
<1>2. n \notin Stay(u)
  BY <1>1 DEF Stay, C!IsPrimary
<1>3. \A m : m # n => (m \in Stay(u) <=> m \in Stay(t))
  BY <1>1 DEF Stay
<1>4. PICK v : v = View(t)
  OBVIOUS
<1>5. PICK x : x = u.new[n]
  OBVIOUS
<1>6. \A m \in DOMAIN v \ {n} : v[m] = IF m \in t.gone \cup Stay(t) THEN t.old[m] ELSE t.new[m]
  BY <1>4, ViewIs
<1>7. DOMAIN v = DOMAIN t.new \cup t.gone
  BY <1>4, ViewIs
<1>8. View(u) = [m \in DOMAIN v \cup {n} |-> IF m = n THEN x ELSE v[m]]
  <2>1. PICK w : w = View(u)
    OBVIOUS
  <2>2. DOMAIN w = DOMAIN v \cup {n} /\ w = [m \in DOMAIN w |-> w[m]]
    BY <1>1, <1>7, <2>1 DEF View
  <2>3. w[n] = x
    BY <1>1, <1>2, <1>5, <2>1, ViewIs
  <2>4. ASSUME NEW m \in DOMAIN v \ {n} PROVE w[m] = v[m]
    <3>1. w[m] = IF m \in u.gone \cup Stay(u) THEN u.old[m] ELSE u.new[m]
      BY <1>1, <1>7, <2>1, ViewIs
    <3> QED
      BY <1>1, <1>3, <1>6, <1>7, <3>1
  <2> QED
    BY <2>1, <2>2, <2>3, <2>4
<1> QED
  BY <1>4, <1>5, <1>8, Zenon DEF C!With

\* The rows and the nodes they are of determine each other.
LEMMA UniqueIds ==
  ASSUME NEW r, Table(r), NEW v, Group(v), NEW X, Held(r, v, X)
  PROVE  Apart(v)
<1> SUFFICES ASSUME NEW m \in DOMAIN v, NEW n \in DOMAIN v, v[m].id = v[n].id, v[m].id # None
             PROVE  m = n
  BY DEF Apart
<1>1. Holds(r[v[m].id], m, v[m]) /\ Holds(r[v[m].id], n, v[n])
  BY DEF Held
<1>2. Written(m, v[m]) = Written(n, v[n]) /\ (C!IsPrimary(v[m]) <=> C!IsPrimary(v[n]))
  BY <1>1 DEF Holds
<1>3. CASE C!IsPrimary(v[m])
  BY <1>2, <1>3 DEF Group
<1>4. CASE ~C!IsPrimary(v[m])
  <2>1. v[m].role # "demoted" /\ v[n].role # "demoted" /\ m \in Name /\ n \in Name
    BY <1>2, <1>4 DEF C!IsPrimary, Group
  <2> QED
    BY <1>2, <2>1, WrittenIs
<1> QED
  BY <1>3, <1>4

\* A name is free when only its node could have it, and that has no row.
LEMMA FreshBy ==
  ASSUME CitusAssumption, NEW r, Table(r), NEW v, DOMAIN v \subseteq Name, NEW X, Held(r, v, X), Zero(v),
         NEW n \in Name, n[2] = 0, n \in DOMAIN v => v[n].id = None, \A i \in X : r[i].name # n
  PROVE  C!Named(r, n) = {}
<1> SUFFICES ASSUME NEW i \in DOMAIN r, r[i].name = n PROVE FALSE
  BY DEF C!Named
<1>1. i \notin X /\ i # None
  BY DEF Table, CitusAssumption
<1>2. PICK m \in DOMAIN v : v[m].id = i
  BY <1>1 DEF Held
<1>3. Written(m, v[m]) = n
  BY <1>1, <1>2 DEF Held, Holds
<1>4. m \in Name /\ m[2] = 0
  BY <1>2 DEF Zero
<1>5. v[m].role # "demoted"
  BY <1>3, <1>4, WrittenIs
<1>6. m = n
  BY <1>3, <1>4, <1>5, WrittenIs
<1> QED
  BY <1>1, <1>2, <1>6

\* A node put where its row is left out of the view, and one taken out of it.
LEMMA PutHeld ==
  ASSUME NEW r, None \notin DOMAIN r, NEW v, NEW X, Held(r, v, X), NEW n, NEW node, node.id \in X,
         n \in DOMAIN v => v[n].id = None, Holds(r[node.id], n, node)
  PROVE  Held(r, C!With(v, n, node), X \ {node.id})
<1>1. PICK w : w = C!With(v, n, node)
  OBVIOUS
<1>2. DOMAIN w = DOMAIN v \cup {n} /\ w[n] = node /\ \A m \in DOMAIN v \ {n} : w[m] = v[m]
  BY <1>1 DEF C!With
<1>3. ASSUME NEW m \in DOMAIN w, w[m].id # None
      PROVE  w[m].id \in DOMAIN r \ (X \ {node.id}) /\ Holds(r[w[m].id], m, w[m])
  <2>1. CASE m = n
    BY <1>2, <2>1 DEF Held
  <2>2. CASE m # n
    BY <1>2, <1>3, <2>2 DEF Held
  <2> QED
    BY <2>1, <2>2
<1>4. ASSUME NEW i \in DOMAIN r \ (X \ {node.id}) PROVE \E m \in DOMAIN w : w[m].id = i
  <2>1. CASE i = node.id
    BY <1>2, <2>1
  <2>2. CASE i # node.id
    <3>1. PICK m \in DOMAIN v : v[m].id = i
      BY <1>4, <2>2 DEF Held
    <3>2. m # n
      BY <3>1
    <3> QED
      BY <1>2, <3>1, <3>2
  <2> QED
    BY <2>1, <2>2
<1>5. X \ {node.id} \subseteq DOMAIN r
  BY DEF Held
<1> QED
  BY <1>1, <1>3, <1>4, <1>5 DEF Held

\* A transition that begins, from the group the rows are of; and once the primary is settled.
Begun(t, p, q) ==
  /\ State(t) /\ p \in DOMAIN t.old /\ C!IsPrimary(t.old[p]) /\ q \in DOMAIN t.new /\ C!IsPrimary(t.new[q])
  /\ \A n \in DOMAIN t.new : t.new[n].id = None
  /\ t.gone = DOMAIN t.old \ (DOMAIN t.new \cup {p}) /\ t.added = DOMAIN t.new \ (DOMAIN t.old \cup {q})
InStep(t, p) ==
  /\ Zero(t.old) /\ Zero(t.new) /\ t.old[p].id # None
  /\ t.ok => Held(t.rows, t.old, {})
  /\ ~t.failover => t.old[p].role = "primary"
Promoted(t, q, role) ==
  /\ State(t) /\ q \in DOMAIN t.new /\ C!IsPrimary(t.new[q]) /\ t.new[q].role = role
  /\ \A n \in t.added : t.new[n].id = None
Synced(t, q) ==
  /\ Zero(t.new) /\ (\A n \in t.gone : n[2] = 0) /\ t.new[q].id # None
  /\ t.ok => Held(t.rows, View(t), {})
  /\ ~t.failover => t.new[q].role = "primary"

RowsOf(t, ns) == {t.old[n].id : n \in ns \cap DOMAIN t.old} \ {None}

LEMMA BeginHeld ==
  ASSUME CitusAssumption, NEW t, NEW p, NEW q, Begun(t, p, q), InStep(t, p), t.ok
  PROVE  Held(t.rows, View(t), RowsOf(t, {p, q}))
<1> DEFINE X == RowsOf(t, {p, q})
<1>1. Held(t.rows, t.old, {}) /\ Table(t.rows) /\ Group(t.old) /\ Group(t.new)
  BY DEF InStep, Begun, State
<1>2. Apart(t.old)
  BY <1>1, UniqueIds
<1>3. PICK v : v = View(t)
  OBVIOUS
<1>4. DOMAIN v = DOMAIN t.new \cup t.gone
      /\ \A n \in DOMAIN v : v[n] = IF n \in t.gone \cup Stay(t) THEN t.old[n] ELSE t.new[n]
  BY <1>3, ViewIs
<1>5. \A n \in t.gone \cup Stay(t) : n \in DOMAIN t.old /\ n # p /\ n # q
  BY DEF Begun, Stay
<1>6. \A n \in DOMAIN t.old : n # p /\ n # q => n \in t.gone \cup Stay(t)
  <2> SUFFICES ASSUME NEW n \in DOMAIN t.old, n # p, n # q, n \notin t.gone PROVE n \in Stay(t)
    OBVIOUS
  <2>1. n \in DOMAIN t.new /\ t.new[n].id = None
    BY DEF Begun
  <2>2. ~C!IsPrimary(t.old[n]) /\ ~C!IsPrimary(t.new[n])
    BY <1>1, <2>1 DEF Begun, Group
  <2> QED
    BY <2>1, <2>2 DEF Stay
<1>7. X \subseteq DOMAIN t.rows
  BY <1>1 DEF RowsOf, Held
<1>8. ASSUME NEW n \in DOMAIN v, v[n].id # None
      PROVE  v[n].id \in DOMAIN t.rows \ X /\ Holds(t.rows[v[n].id], n, v[n])
  <2>1. n \in t.gone \cup Stay(t) /\ v[n] = t.old[n]
    BY <1>4, <1>8 DEF Begun
  <2>2. n \in DOMAIN t.old /\ n # p /\ n # q
    BY <1>5, <2>1
  <2>3. v[n].id \notin X
    BY <1>2, <1>8, <2>1, <2>2 DEF RowsOf, Apart
  <2> QED
    BY <1>1, <1>8, <2>1, <2>2, <2>3 DEF Held
<1>9. ASSUME NEW i \in DOMAIN t.rows \ X PROVE \E n \in DOMAIN v : v[n].id = i
  <2>1. PICK n \in DOMAIN t.old : t.old[n].id = i
    BY <1>1 DEF Held
  <2>2. i # None
    BY <1>1 DEF Table, CitusAssumption
  <2>3. n # p /\ n # q
    BY <2>1, <2>2 DEF RowsOf
  <2>4. n \in t.gone \cup Stay(t)
    BY <1>6, <2>3
  <2>5. n \in DOMAIN v
    BY <1>4, <2>4 DEF Stay
  <2> QED
    BY <1>4, <2>1, <2>4, <2>5
<1> QED
  BY <1>3, <1>7, <1>8, <1>9 DEF Held

\* failover
LEMMA OverBy ==
  ASSUME NEW t, State(t), NEW u, u = [t EXCEPT !.failover = TRUE]
  PROVE  /\ State(u) /\ u.failover = TRUE /\ u.old = t.old /\ u.new = t.new /\ u.rows = t.rows /\ u.ok = t.ok
         /\ u.gone = t.gone /\ u.added = t.added /\ Stay(u) = Stay(t) /\ View(u) = View(t)
<1>1. u = [old |-> t.old, new |-> t.new, failover |-> TRUE, rows |-> t.rows, ok |-> t.ok,
           sent |-> t.sent, gone |-> t.gone, added |-> t.added]
  BY Zenon DEF State
<1>2. /\ u.old = t.old /\ u.new = t.new /\ u.failover = TRUE /\ u.rows = t.rows /\ u.ok = t.ok
      /\ u.sent = t.sent /\ u.gone = t.gone /\ u.added = t.added
  BY <1>1
<1>3. State(u)
  BY <1>1, <1>2 DEF State
<1>4. Stay(u) = Stay(t)
  BY <1>2 DEF Stay
<1>5. View(u) = View(t)
  BY <1>2, <1>4, SameView
<1> QED
  BY <1>2, <1>3, <1>4, <1>5

LEMMA SamePrimaryBy ==
  ASSUME CitusAssumption, NEW t, NEW p, Begun(t, p, p), NEW u \in C!SamePrimary(t, p)
  PROVE  Promoted(u, p, t.new[p].role) /\ (InStep(t, p) => Synced(u, p))
<1>1. State(t) /\ p \notin t.gone /\ p \notin t.added /\ p \in Name /\ p \in DOMAIN t.old /\ p \in DOMAIN t.new
      /\ C!IsPrimary(t.old[p]) /\ C!IsPrimary(t.new[p])
  BY DEF Begun, State, Group
<1>2. \A m \in DOMAIN t.new \ {p} : ~C!IsPrimary(t.new[m])
  BY <1>1 DEF State, Group
<1>3. t.old[p] \in NodeOf /\ t.new[p] \in NodeOf
  BY <1>1 DEF State, Group
<1>4. ASSUME InStep(t, p), t.ok
      PROVE  /\ Held(t.rows, View(t), {t.old[p].id}) /\ t.old[p].id \in DOMAIN t.rows
             /\ Holds(t.rows[t.old[p].id], p, t.old[p])
  <2>1. RowsOf(t, {p, p}) = {t.old[p].id}
    BY <1>1, <1>4 DEF RowsOf, InStep
  <2>2. Held(t.rows, View(t), {t.old[p].id})
    BY <1>4, <2>1, BeginHeld
  <2> QED
    BY <1>1, <1>4, <2>2 DEF InStep, Held
<1>5. p \in DOMAIN View(t) => View(t)[p].id = None
  BY <1>1, ViewIs DEF Stay, Begun
<1>6. CASE t.old[p].role = t.new[p].role
  <2>1. PICK node : node = t.old[p]
    OBVIOUS
  <2>2. u = Put(t, p, node)
    BY <1>6, <2>1, Zenon DEF C!SamePrimary, Put
  <2>3. /\ State(u) /\ Frame(t, u) /\ u.rows = t.rows /\ u.ok = t.ok
        /\ DOMAIN u.new = DOMAIN t.new \cup {p} /\ u.new[p] = node
        /\ \A m \in DOMAIN t.new \ {p} : u.new[m] = t.new[m]
    BY <1>1, <1>2, <1>3, <2>1, <2>2, PutBy
  <2>4. Promoted(u, p, t.new[p].role)
    BY <1>1, <1>6, <2>1, <2>3 DEF Promoted, Frame, Begun, State
  <2>5. Taken(t, p, node.role, node.id, u)
    BY <1>3, <2>1, <2>3 DEF Taken
  <2>6. View(u) = C!With(View(t), p, node)
    <3>1. node.role \in {"primary", "secondary", "demoted"}
      BY <1>3, <2>1 DEF NodeOf
    <3> QED
      BY <1>1, <2>1, <2>3, <2>5, <3>1, TakesView
  <2>7. ASSUME InStep(t, p), t.ok PROVE Held(u.rows, View(u), {})
    <3>1. None \notin DOMAIN t.rows
      BY <1>1 DEF State, CitusAssumption
    <3>2. Held(t.rows, C!With(View(t), p, node), {node.id} \ {node.id})
      BY <1>4, <1>5, <2>1, <2>7, <3>1, PutHeld
    <3> QED
      BY <2>3, <2>6, <3>2
  <2>8. ASSUME InStep(t, p) PROVE Synced(u, p)
    BY <1>1, <1>6, <2>1, <2>3, <2>7, <2>8 DEF Synced, InStep, Frame, Zero, State, Begun
  <2> QED
    BY <2>4, <2>8
<1>7. CASE t.old[p].role # t.new[p].role
  <2>1. PICK s : s = [t EXCEPT !.failover = TRUE]
    OBVIOUS
  <2>2. /\ State(s) /\ s.failover = TRUE /\ s.old = t.old /\ s.new = t.new /\ s.rows = t.rows /\ s.ok = t.ok
        /\ s.gone = t.gone /\ s.added = t.added /\ View(s) = View(t)
    BY <1>1, <2>1, OverBy
  <2>3. PICK role, id : role = t.new[p].role /\ id = t.old[p].id
    OBVIOUS
  <2>4. u \in C!Takes(s, p, role, id)
    BY <1>7, <2>1, <2>3, Zenon DEF C!SamePrimary
  <2>5. C!Node(role, id) \in NodeOf /\ role \in {"primary", "demoted"}
    BY <1>1, <1>3, <2>3 DEF C!Node, NodeOf, C!IsPrimary
  <2>6. State(u) /\ Taken(s, p, role, id, u) /\ TakenHeld(s, p, id, u)
    BY <1>1, <1>2, <2>2, <2>4, <2>5, TakesBy
  <2>7. Promoted(u, p, t.new[p].role)
    BY <1>1, <2>2, <2>3, <2>5, <2>6 DEF Promoted, Taken, Frame, Begun, State, C!IsPrimary
  <2>8. View(u) = C!With(View(s), p, u.new[p])
    BY <1>1, <2>2, <2>5, <2>6, TakesView
  <2>9. ASSUME InStep(t, p), u.ok PROVE Held(u.rows, View(u), {})
    <3>1. t.ok /\ C!IsPrimary(u.new[p]) /\ id # None
      BY <2>2, <2>3, <2>5, <2>6, <2>9 DEF Taken, C!IsPrimary, InStep
    <3>2. Held(s.rows, View(s), {id}) /\ (s.rows[id].role = "primary" <=> C!IsPrimary(u.new[p]))
      BY <1>1, <1>4, <2>2, <2>3, <2>9, <3>1 DEF Holds
    <3>3. Held(u.rows, C!With(View(s), p, u.new[p]), {id} \ {id})
      BY <1>5, <2>2, <2>6, <2>9, <3>1, <3>2 DEF TakenHeld
    <3> QED
      BY <2>8, <3>3
  <2>10. ASSUME InStep(t, p) PROVE Synced(u, p)
    <3>1. u.new[p].id # None /\ u.failover = TRUE
      BY <2>2, <2>3, <2>6, <2>10 DEF Taken, Frame, InStep
    <3>2. Zero(u.new) /\ \A n \in u.gone : n[2] = 0
      BY <1>1, <2>2, <2>6, <2>10 DEF Taken, Frame, InStep, Zero, State
    <3> QED
      BY <2>9, <2>10, <3>1, <3>2 DEF Synced
  <2> QED
    BY <2>7, <2>10
<1> QED
  BY <1>6, <1>7

\* The state when the role of the old primary has been changed, in place.
Redone(t, as, p, role) == [t EXCEPT !.added = as, !.old[p].role = role]
LEMMA OldBy ==
  ASSUME NEW t, State(t), NEW p \in DOMAIN t.old, C!IsPrimary(t.old[p]), NEW role \in {"secondary", "demoted"},
         p \in DOMAIN t.new => role = "demoted",
         NEW u, NEW as \in SUBSET t.added, u = Redone(t, as, p, role)
  PROVE  /\ State(u) /\ u.new = t.new /\ u.failover = t.failover /\ u.rows = t.rows /\ u.ok = t.ok
         /\ u.gone = t.gone /\ u.added = as /\ View(u) = View(t)
         /\ DOMAIN u.old = DOMAIN t.old /\ u.old[p].role = role /\ u.old[p].id = t.old[p].id
         /\ \A n \in DOMAIN t.old \ {p} : u.old[n] = t.old[n]
<1>1. PICK o : o = [t.old EXCEPT ![p].role = role]
  OBVIOUS
<1>2. u = [old |-> o, new |-> t.new, failover |-> t.failover, rows |-> t.rows, ok |-> t.ok,
           sent |-> t.sent, gone |-> t.gone, added |-> as]
  BY <1>1, Zenon DEF State, Redone
<1>3. /\ u.old = o /\ u.new = t.new /\ u.failover = t.failover /\ u.rows = t.rows /\ u.ok = t.ok
      /\ u.sent = t.sent /\ u.gone = t.gone /\ u.added = as
  BY <1>2
<1>4. Group(t.old)
  BY DEF State
<1>5. /\ DOMAIN o = DOMAIN t.old /\ o[p] = [t.old[p] EXCEPT !.role = role]
      /\ o = [n \in DOMAIN o |-> o[n]] /\ \A n \in DOMAIN t.old \ {p} : o[n] = t.old[n]
  BY <1>1, <1>4 DEF Group
<1>6. o[p].role = role /\ o[p].id = t.old[p].id /\ o[p] \in NodeOf
  <2>1. t.old[p] \in NodeOf
    BY <1>4 DEF Group
  <2> QED
    BY <1>5, <2>1 DEF NodeOf
<1>7. Group(o)
  BY <1>4, <1>5, <1>6 DEF Group, C!IsPrimary
<1>8. p \notin t.gone
  BY DEF State, C!IsPrimary
<1>9. State(u)
  <2>1. u = [old |-> u.old, new |-> u.new, failover |-> u.failover, rows |-> u.rows, ok |-> u.ok,
             sent |-> u.sent, gone |-> u.gone, added |-> u.added]
    BY <1>2, <1>3
  <2>2. /\ t.gone \subseteq DOMAIN o /\ \A n \in t.gone : o[n].role = "secondary"
        /\ as \cap DOMAIN o = {} /\ as \subseteq t.added
    BY <1>5, <1>8 DEF State
  <2>3. /\ Group(t.new) /\ t.ok \in BOOLEAN /\ t.failover \in BOOLEAN /\ t.gone \cap DOMAIN t.new = {}
        /\ as \subseteq DOMAIN t.new /\ \A n \in as : t.new[n].role = "secondary"
        /\ DOMAIN t.rows \subseteq Nat /\ (t.ok => Table(t.rows))
    BY DEF State
  <2> QED
    BY <1>3, <1>7, <2>1, <2>2, <2>3 DEF State
<1>10. Stay(u) = Stay(t)
  <2>1. p \in DOMAIN t.new => C!IsPrimary(o[p])
    BY <1>6 DEF C!IsPrimary
  <2>2. \A n \in DOMAIN t.new \cap DOMAIN t.old : C!IsPrimary(o[n]) <=> C!IsPrimary(t.old[n])
    BY <1>5, <2>1
  <2> QED
    BY <1>3, <1>5, <2>2 DEF Stay
<1>11. View(u) = View(t)
  <2>1. \A n \in t.gone \cup Stay(t) : n # p /\ n \in DOMAIN t.old
    BY <1>8 DEF Stay, State
  <2> QED
    BY <1>3, <1>5, <1>10, <2>1, SameView
<1> QED
  BY <1>3, <1>5, <1>6, <1>9, <1>11

\* The new primary's row is given to another: what is left out of the view is the old one's.
Vacated(t, u, p, q) ==
  /\ State(u) /\ u.gone = t.gone /\ u.added \subseteq t.added /\ u.failover = t.failover
  /\ DOMAIN u.old = DOMAIN t.old /\ DOMAIN u.new \subseteq DOMAIN t.new \cup {p} /\ q \in DOMAIN u.new /\ u.new[q] = t.new[q]
  /\ \A n \in u.added : u.new[n].id = None
  /\ InStep(t, p) /\ u.ok =>
       Held(u.rows, View(u), {t.old[p].id}) /\ u.rows[t.old[p].id].role = "primary"

Rows2(t, p, q) ==
  /\ t.old[p].id \in DOMAIN t.rows /\ Holds(t.rows[t.old[p].id], p, t.old[p])
  /\ t.rows[t.old[p].id].role = "primary" /\ t.old[p].id # None
  /\ q \notin DOMAIN t.old => RowsOf(t, {p, q}) = {t.old[p].id}
  /\ q \in DOMAIN t.old =>
       /\ RowsOf(t, {p, q}) = {t.old[p].id, t.old[q].id} \ {None}
       /\ RowsOf(t, {p, q}) \ {t.old[q].id} = {t.old[p].id}
       /\ t.old[q].id # None => t.rows[t.old[q].id].role # "primary"

LEMMA TwoRows ==
  ASSUME CitusAssumption, NEW t, NEW p, NEW q, Begun(t, p, q), p # q, InStep(t, p), t.ok
  PROVE  Rows2(t, p, q)
<1>1. Held(t.rows, t.old, {}) /\ Table(t.rows) /\ Group(t.old) /\ t.old[p].id # None /\ p \in DOMAIN t.old
      /\ C!IsPrimary(t.old[p])
  BY DEF InStep, Begun, State
<1>2. t.old[p].id \in DOMAIN t.rows /\ Holds(t.rows[t.old[p].id], p, t.old[p])
      /\ t.rows[t.old[p].id].role = "primary"
  BY <1>1 DEF Held, Holds
<1>3. q \notin DOMAIN t.old => RowsOf(t, {p, q}) = {t.old[p].id}
  BY <1>1 DEF RowsOf
<1>4. ASSUME q \in DOMAIN t.old
      PROVE  /\ RowsOf(t, {p, q}) = {t.old[p].id, t.old[q].id} \ {None}
             /\ RowsOf(t, {p, q}) \ {t.old[q].id} = {t.old[p].id}
             /\ t.old[q].id # None => t.rows[t.old[q].id].role # "primary"
  <2>1. RowsOf(t, {p, q}) = {t.old[p].id, t.old[q].id} \ {None}
    BY <1>1, <1>4 DEF RowsOf
  <2>2. t.old[p].id # t.old[q].id
    BY <1>1, <1>4, UniqueIds DEF Apart
  <2>3. ~C!IsPrimary(t.old[q])
    BY <1>1, <1>4 DEF Group
  <2>4. t.old[q].id # None => t.rows[t.old[q].id].role # "primary"
    BY <1>1, <1>4, <2>3 DEF Held, Holds
  <2> QED
    BY <1>1, <2>1, <2>2, <2>4
<1> QED
  BY <1>1, <1>2, <1>3, <1>4 DEF Rows2

LEMMA VacateWithAddedBy ==
  ASSUME CitusAssumption, NEW t, NEW p, NEW q, Begun(t, p, q), p # q, q \in DOMAIN t.old, p \notin DOMAIN t.new,
         NEW u \in C!VacateWithAdded(t, p, q)
  PROVE  Vacated(t, u, p, q)
<1> DEFINE out(a) == C!Takes([t EXCEPT !.added = @ \ {a}, !.old[p].role = "secondary"], a, "secondary", t.old[q].id)
<1>0. u \in UNION {out(a) : a \in t.added}
  BY Zenon DEF C!VacateWithAdded
<1>1. PICK a \in t.added : u \in out(a)
  <2> HIDE DEF out
  <2> QED
    BY <1>0
<1>2. PICK s : s = [t EXCEPT !.added = @ \ {a}, !.old[p].role = "secondary"]
  OBVIOUS
<1>3. State(t) /\ p \in DOMAIN t.old /\ C!IsPrimary(t.old[p]) /\ q \in DOMAIN t.new /\ C!IsPrimary(t.new[q])
      /\ \A n \in DOMAIN t.new : t.new[n].id = None
  BY DEF Begun
<1>4. /\ State(s) /\ s.new = t.new /\ s.failover = t.failover /\ s.rows = t.rows /\ s.ok = t.ok
      /\ s.gone = t.gone /\ s.added = t.added \ {a} /\ View(s) = View(t)
      /\ DOMAIN s.old = DOMAIN t.old
  <2>1. PICK as : as = t.added \ {a}
    OBVIOUS
  <2>2. s = Redone(t, as, p, "secondary") /\ as \in SUBSET t.added
    BY <1>2, <2>1, Zenon DEF Redone
  <2> QED
    BY <1>3, <2>1, <2>2, OldBy
<1>5. PICK id : id = t.old[q].id
  OBVIOUS
<1>6. /\ a \in Name /\ a \notin s.gone /\ a \notin s.added /\ a \in DOMAIN t.new /\ a \notin DOMAIN t.old
      /\ a # q /\ a # p
  BY <1>3, <1>4 DEF State, Group, Begun
<1>7. C!Node("secondary", id) \in NodeOf /\ id \in Nat \cup {None}
  BY <1>3, <1>5 DEF State, Group, NodeOf, C!Node
<1>8. u \in C!Takes(s, a, "secondary", id)
  BY <1>1, <1>2, <1>5, Zenon
<1>9. State(u) /\ Taken(s, a, "secondary", id, u) /\ TakenHeld(s, a, id, u)
  BY <1>4, <1>6, <1>7, <1>8, TakesBy
<1>10. View(u) = C!With(View(s), a, u.new[a])
  BY <1>4, <1>6, <1>9, TakesView
<1>11. /\ u.gone = t.gone /\ u.added = t.added \ {a} /\ u.failover = t.failover /\ DOMAIN u.new = DOMAIN t.new /\ DOMAIN u.old = DOMAIN t.old
       /\ u.new[q] = t.new[q] /\ \A n \in u.added : u.new[n].id = None
  BY <1>3, <1>4, <1>6, <1>9 DEF Taken, Frame, State
<1>12. ASSUME InStep(t, p), u.ok
       PROVE  Held(u.rows, View(u), {t.old[p].id}) /\ u.rows[t.old[p].id].role = "primary"
  <2>1. t.ok /\ Table(t.rows)
    BY <1>3, <1>4, <1>9, <1>12 DEF Taken, State
  <2>2. /\ t.old[p].id \in DOMAIN t.rows /\ Holds(t.rows[t.old[p].id], p, t.old[p])
        /\ t.rows[t.old[p].id].role = "primary"
        /\ RowsOf(t, {p, q}) = {t.old[p].id, id} \ {None}
        /\ RowsOf(t, {p, q}) \ {id} = {t.old[p].id}
        /\ id # None => t.rows[id].role # "primary"
    <3>1. Rows2(t, p, q)
      BY <1>12, <2>1, TwoRows
    <3> QED
      BY <1>5, <3>1 DEF Rows2
  <2>3. Held(t.rows, View(t), RowsOf(t, {p, q}))
    BY <1>12, <2>1, BeginHeld
  <2>4. View(t)[a].id = None
    <3>1. a \notin Stay(t) /\ a \notin t.gone /\ a \in DOMAIN t.new
      BY <1>4, <1>6 DEF Stay
    <3> QED
      BY <1>3, <3>1, ViewIs
  <2>5. id = None => C!Named(t.rows, a) = {}
    <3>1. SUFFICES ASSUME id = None PROVE C!Named(t.rows, a) = {}
      OBVIOUS
    <3>2. a[2] = 0 /\ p \in Name /\ p[2] = 0 /\ Zero(View(t)) /\ DOMAIN View(t) \subseteq Name
      <4>1. DOMAIN View(t) \subseteq DOMAIN t.new \cup DOMAIN t.old
        BY <1>3, ViewIs DEF State
      <4> QED
        BY <1>3, <1>6, <1>12, <4>1 DEF InStep, Zero, State, Group
    <3>3. \A i \in RowsOf(t, {p, q}) : i = t.old[p].id
      BY <2>2, <3>1
    <3>4. t.rows[t.old[p].id].name # a
      <4>1. CASE t.old[p].role = "demoted"
        BY <2>2, <3>2, <4>1, WrittenIs DEF Holds
      <4>2. CASE t.old[p].role # "demoted"
        BY <1>6, <2>2, <3>2, <4>2, WrittenIs DEF Holds
      <4> QED
        BY <4>1, <4>2
    <3> QED
      BY <1>6, <2>1, <2>3, <2>4, <3>2, <3>3, <3>4, FreshBy
  <2>6. u.new[a].role = "secondary" /\ ~C!IsPrimary(u.new[a])
    BY <1>9 DEF Taken, C!IsPrimary
  <2>7. id # None => id \in RowsOf(t, {p, q})
    BY <2>2
  <2>8. Held(u.rows, C!With(View(s), a, u.new[a]), RowsOf(t, {p, q}) \ {id})
    BY <1>4, <1>9, <1>12, <2>2, <2>3, <2>4, <2>5, <2>6, <2>7 DEF TakenHeld
  <2>9. u.rows[t.old[p].id].role = "primary"
    BY <1>4, <1>9, <1>12, <2>2 DEF Taken
  <2> QED
    BY <1>10, <2>2, <2>8, <2>9
<1> QED
  BY <1>3, <1>9, <1>11, <1>12 DEF Vacated

\* The name of the old primary is made free.
Demoted(t, p, s) ==
  /\ State(s) /\ s.new = t.new /\ s.failover = t.failover /\ s.gone = t.gone /\ s.added = t.added
  /\ View(s) = View(t) /\ DOMAIN s.old = DOMAIN t.old /\ s.old[p].role = "demoted"
  /\ \A n \in DOMAIN t.old \ {p} : s.old[n] = t.old[n]
  /\ s.ok => /\ t.ok
             /\ \A i \in DOMAIN t.rows : i \in DOMAIN s.rows /\ s.rows[i].role = t.rows[i].role
             /\ \A v, X : Held(t.rows, v, X) /\ t.old[p].id \in X => Held(s.rows, v, X)
             /\ t.old[p].id # None /\ t.rows[t.old[p].id].name = Written(p, t.old[p]) =>
                  s.rows[t.old[p].id].name = Written(p, s.old[p])

LEMMA DemotedBy ==
  ASSUME CitusAssumption, NEW t, State(t), NEW p \in DOMAIN t.old, t.old[p].role = "primary",
         NEW r, r = [t EXCEPT !.old[p].role = "demoted"],
         NEW s \in C!update_node(r, C!Only(p, C!Node("demoted", t.old[p].id)))
  PROVE  Demoted(t, p, s)
<1>1. /\ State(r) /\ r.new = t.new /\ r.failover = t.failover /\ r.rows = t.rows /\ r.ok = t.ok
      /\ r.gone = t.gone /\ r.added = t.added /\ View(r) = View(t)
      /\ DOMAIN r.old = DOMAIN t.old /\ r.old[p].role = "demoted" /\ r.old[p].id = t.old[p].id
      /\ \A n \in DOMAIN t.old \ {p} : r.old[n] = t.old[n]
  <2>1. PICK as : as = t.added
    OBVIOUS
  <2>2. r = Redone(t, as, p, "demoted") /\ as \in SUBSET t.added
    BY <2>1, Zenon DEF Redone, State
  <2> QED
    BY <2>1, <2>2, OldBy DEF C!IsPrimary
<1>2. PICK node : node = C!Node("demoted", t.old[p].id)
  OBVIOUS
<1>3. node.role = "demoted" /\ node.id = t.old[p].id /\ node \in NodeOf /\ p \in Name
  <2>1. t.old[p] \in NodeOf /\ p \in Name
    BY DEF State, Group
  <2> QED
    BY <1>2, <2>1 DEF C!Node, NodeOf
<1>4. PICK g : g = C!Only(p, node)
  OBVIOUS
<1>5. /\ Group(g) /\ Apart(g) /\ DOMAIN g = {p} /\ g[p] = node /\ Ids(g) = {t.old[p].id} \ {None}
      /\ Adds(g) = {}
  BY <1>3, <1>4, OnlyOne
<1>6. s \in C!update_node(r, g)
  BY <1>2, <1>4
<1>7. State(s) /\ Sent(r, g, s)
  BY <1>1, <1>5, <1>6, SentBy
<1>8. s.new = t.new
  BY <1>1, <1>5, <1>7 DEF Sent, State, Group
<1>9. s.old = r.old /\ s.gone = t.gone /\ s.added = t.added /\ s.failover = t.failover
  BY <1>1, <1>7 DEF Sent
<1>10. View(s) = View(t)
  <2>1. Stay(s) = Stay(r)
    BY <1>1, <1>8, <1>9 DEF Stay
  <2> QED
    BY <1>1, <1>8, <1>9, <2>1, SameView
<1>11. ASSUME s.ok
       PROVE  /\ t.ok
              /\ \A i \in DOMAIN t.rows : i \in DOMAIN s.rows /\ s.rows[i].role = t.rows[i].role
              /\ \A v, X : Held(t.rows, v, X) /\ t.old[p].id \in X => Held(s.rows, v, X)
              /\ t.old[p].id # None => s.rows[t.old[p].id].name = Written(p, s.old[p])
  <2>1. SentRows(r, g, s)
    BY <1>5, <1>7, <1>11 DEF Sent
  <2>2. t.ok /\ DOMAIN s.rows = DOMAIN t.rows
        /\ \A i \in DOMAIN t.rows :
             s.rows[i].role = t.rows[i].role /\ (i \notin {t.old[p].id} \ {None} => s.rows[i] = t.rows[i])
    <3>1. t.ok /\ DOMAIN t.rows \subseteq DOMAIN s.rows
      BY <1>1, <2>1 DEF SentRows
    <3>2. \A i \in DOMAIN s.rows \ DOMAIN t.rows : FALSE
      BY <1>1, <1>5, <2>1 DEF SentRows
    <3>3. \A i \in DOMAIN t.rows :
            s.rows[i].role = t.rows[i].role /\ (i \notin {t.old[p].id} \ {None} => s.rows[i] = t.rows[i])
      BY <1>1, <1>5, <2>1 DEF SentRows
    <3> QED
      BY <3>1, <3>2, <3>3
  <2>3. ASSUME NEW v, NEW X, Held(t.rows, v, X), t.old[p].id \in X PROVE Held(s.rows, v, X)
    BY <2>2, <2>3 DEF Held
  <2>4. t.old[p].id # None => s.rows[t.old[p].id].name = Written(p, s.old[p])
    BY <1>1, <1>3, <1>5, <1>9, <2>1 DEF SentRows, Written
  <2> QED
    BY <2>2, <2>3, <2>4
<1> QED
  BY <1>1, <1>7, <1>8, <1>9, <1>10, <1>11 DEF Demoted

LEMMA VacateWithOldBy ==
  ASSUME CitusAssumption, NEW t, NEW p, NEW q, Begun(t, p, q), p # q, q \in DOMAIN t.old,
         NEW u \in C!VacateWithOld(t, p, q)
  PROVE  Vacated(t, u, p, q)
<1> DEFINE role == IF p \in DOMAIN t.new THEN t.new[p].role ELSE t.old[q].role
           first == IF t.old[p].role = "primary"
                    THEN C!update_node([t EXCEPT !.old[p].role = "demoted"],
                                       C!Only(p, C!Node("demoted", t.old[p].id)))
                    ELSE {t}
           out(s) == C!Takes(s, p, role, t.old[q].id)
<1>0. u \in UNION {out(s) : s \in first}
  BY Zenon DEF C!VacateWithOld
<1>1. PICK s \in first : u \in out(s)
  <2> HIDE DEF out, first
  <2> QED
    BY <1>0
<1>2. /\ State(t) /\ p \in DOMAIN t.old /\ C!IsPrimary(t.old[p]) /\ q \in DOMAIN t.new /\ C!IsPrimary(t.new[q])
      /\ (\A n \in DOMAIN t.new : t.new[n].id = None) /\ Group(t.old) /\ Group(t.new)
  BY DEF Begun, State
<1>3. Demoted(t, p, s)
  <2>1. CASE t.old[p].role = "primary"
    <3>1. PICK r : r = [t EXCEPT !.old[p].role = "demoted"]
      OBVIOUS
    <3>2. s \in C!update_node(r, C!Only(p, C!Node("demoted", t.old[p].id)))
      BY <1>1, <2>1, <3>1, Zenon
    <3> HIDE DEF first, out
    <3> QED
      BY <1>2, <2>1, <3>1, <3>2, DemotedBy
  <2>2. CASE t.old[p].role # "primary"
    <3>1. s = t /\ t.old[p].role = "demoted"
      BY <1>1, <1>2, <2>2 DEF C!IsPrimary
    <3> HIDE DEF first, out
    <3> QED
      BY <1>2, <3>1 DEF Demoted, State
  <2> QED
    BY <2>1, <2>2
<1>4. PICK rl, id : rl = role /\ id = t.old[q].id
  OBVIOUS
<1>5. u \in C!Takes(s, p, rl, id)
  BY <1>1, <1>4, Zenon
<1>6. rl = "secondary"
  BY <1>2, <1>4 DEF Group, NodeOf, C!IsPrimary
<1>7. C!Node(rl, id) \in NodeOf /\ id \in Nat \cup {None}
  BY <1>2, <1>4, <1>6 DEF Group, NodeOf, C!Node
<1> HIDE DEF first, out, role
<1>8. /\ State(s) /\ s.new = t.new /\ s.failover = t.failover /\ s.gone = t.gone /\ s.added = t.added
      /\ View(s) = View(t) /\ DOMAIN s.old = DOMAIN t.old /\ s.old[p].role = "demoted"
  BY <1>3 DEF Demoted
<1>9. p \in Name /\ p \notin s.gone /\ p \notin s.added /\ p \notin t.gone /\ p \notin Stay(t)
  BY <1>2, <1>8 DEF Begun, Group, Stay
<1>10. State(u) /\ Taken(s, p, rl, id, u) /\ TakenHeld(s, p, id, u)
  BY <1>5, <1>6, <1>7, <1>8, <1>9, TakesBy
<1>11. View(u) = C!With(View(s), p, u.new[p])
  BY <1>6, <1>8, <1>9, <1>10, TakesView DEF C!IsPrimary
<1>12. /\ u.gone = t.gone /\ u.added = t.added /\ u.failover = t.failover /\ DOMAIN u.old = DOMAIN t.old
       /\ DOMAIN u.new = DOMAIN t.new \cup {p} /\ u.new[q] = t.new[q] /\ \A n \in u.added : u.new[n].id = None
  <2>1. p \notin t.added /\ t.added \subseteq DOMAIN t.new
    BY <1>2, <1>8, <1>9 DEF State
  <2> QED
    BY <1>2, <1>8, <1>10, <2>1 DEF Taken, Frame
<1>13. ASSUME InStep(t, p), u.ok
       PROVE  Held(u.rows, View(u), {t.old[p].id}) /\ u.rows[t.old[p].id].role = "primary"
  <2>1. s.ok /\ t.ok /\ Table(s.rows)
    BY <1>3, <1>8, <1>10, <1>13 DEF Taken, Demoted, State
  <2>2. /\ t.old[p].id \in DOMAIN t.rows /\ Holds(t.rows[t.old[p].id], p, t.old[p])
        /\ t.rows[t.old[p].id].role = "primary" /\ t.old[p].id # None
        /\ RowsOf(t, {p, q}) = {t.old[p].id, id} \ {None}
        /\ RowsOf(t, {p, q}) \ {id} = {t.old[p].id}
        /\ id # None => t.rows[id].role # "primary"
    <3>1. Rows2(t, p, q)
      BY <1>13, <2>1, TwoRows
    <3> QED
      BY <1>4, <3>1 DEF Rows2
  <2>3. Held(t.rows, View(t), RowsOf(t, {p, q}))
    BY <1>13, <2>1, BeginHeld
  <2>4. Held(s.rows, View(s), RowsOf(t, {p, q}))
    BY <1>3, <1>8, <2>1, <2>2, <2>3 DEF Demoted
  <2>5. p \in DOMAIN View(s) => View(s)[p].id = None
    <3>1. p \notin t.gone \cup Stay(t)
      BY <1>9
    <3>2. p \in DOMAIN View(t) => p \in DOMAIN t.new /\ View(t)[p] = t.new[p]
      BY <3>1, ViewIs
    <3> QED
      BY <1>2, <1>8, <3>2
  <2>6. id = None => C!Named(s.rows, p) = {}
    <3>1. SUFFICES ASSUME id = None PROVE C!Named(s.rows, p) = {}
      OBVIOUS
    <3>2. p[2] = 0 /\ Zero(View(s)) /\ DOMAIN View(s) \subseteq Name
      <4>1. DOMAIN View(s) \subseteq DOMAIN t.new \cup DOMAIN t.old
        <5>1. t.gone \subseteq DOMAIN t.old
          BY <1>2 DEF State
        <5> QED
          BY <1>8, <5>1, ViewIs
      <4> QED
        BY <1>2, <1>13, <4>1 DEF InStep, Zero, Group
    <3>3. \A i \in RowsOf(t, {p, q}) : i = t.old[p].id
      BY <2>2, <3>1
    <3>4. s.rows[t.old[p].id].name # p
      <4>1. s.rows[t.old[p].id].name = Written(p, s.old[p])
        BY <1>3, <2>1, <2>2 DEF Demoted, Holds
      <4>2. Written(p, s.old[p])[2] = 1
        BY <1>8, <1>9, <3>2, WrittenIs
      <4> QED
        BY <3>2, <4>1, <4>2
    <3> QED
      BY <1>9, <2>1, <2>4, <2>5, <3>2, <3>3, <3>4, FreshBy
  <2>7. u.new[p].role = "secondary" /\ ~C!IsPrimary(u.new[p])
    BY <1>6, <1>10 DEF Taken, C!IsPrimary
  <2>8. id # None => id \in RowsOf(t, {p, q}) /\ s.rows[id].role # "primary"
    <3>1. id # None => id \in RowsOf(t, {p, q}) /\ id \in DOMAIN t.rows
      BY <2>2, <2>3 DEF Held
    <3> QED
      BY <1>3, <2>1, <2>2, <3>1 DEF Demoted
  <2>9. Held(u.rows, C!With(View(s), p, u.new[p]), RowsOf(t, {p, q}) \ {id})
    BY <1>10, <1>13, <2>4, <2>5, <2>6, <2>7, <2>8 DEF TakenHeld
  <2>10. u.rows[t.old[p].id].role = "primary"
    BY <1>3, <1>10, <1>13, <2>1, <2>2 DEF Taken, Demoted
  <2> QED
    BY <1>11, <2>2, <2>9, <2>10
<1> QED
  BY <1>2, <1>10, <1>12, <1>13 DEF Vacated

LEMMA ViewGroup ==
  ASSUME NEW t, State(t)
  PROVE  Group(View(t))
<1>1. PICK v : v = View(t)
  OBVIOUS
<1>2. DOMAIN v = DOMAIN t.new \cup t.gone /\ v = [n \in DOMAIN v |-> v[n]]
  BY <1>1 DEF View
<1>3. \A n \in DOMAIN v : v[n] = IF n \in t.gone \cup Stay(t) THEN t.old[n] ELSE t.new[n]
  BY <1>1, <1>2, ViewIs
<1>4. Group(t.old) /\ Group(t.new) /\ t.gone \subseteq DOMAIN t.old /\ \A n \in t.gone : t.old[n].role = "secondary"
  BY DEF State
<1>5. \A n \in t.gone \cup Stay(t) : n \in DOMAIN t.old /\ ~C!IsPrimary(t.old[n])
  BY <1>4 DEF Stay, C!IsPrimary
<1>6. ASSUME NEW n \in DOMAIN v
      PROVE  v[n] \in NodeOf /\ n \in Name /\ (C!IsPrimary(v[n]) => n \in DOMAIN t.new /\ C!IsPrimary(t.new[n]))
  <2>1. CASE n \in t.gone \cup Stay(t)
    BY <1>3, <1>4, <1>5, <2>1 DEF Group
  <2>2. CASE n \notin t.gone \cup Stay(t)
    BY <1>2, <1>3, <1>4, <2>2 DEF Group
  <2> QED
    BY <2>1, <2>2
<1> QED
  BY <1>1, <1>2, <1>4, <1>6 DEF Group

IdsOf(v, gs) == {v[g].id : g \in gs} \ {None}
LEMMA DropHeld ==
  ASSUME NEW r, None \notin DOMAIN r, NEW v, NEW X, Held(r, v, X), Apart(v), NEW gs \in SUBSET DOMAIN v,
         NEW w, DOMAIN w = DOMAIN v \ gs, \A m \in DOMAIN w : w[m] = v[m]
  PROVE  Held(r, w, X \cup IdsOf(v, gs))
<1> USE DEF IdsOf
<1> DEFINE Z == X \cup ({v[g].id : g \in gs} \ {None})
<1>1. Z \subseteq DOMAIN r
  BY DEF Held
<1>2. ASSUME NEW n \in DOMAIN w, w[n].id # None
      PROVE  w[n].id \in DOMAIN r \ Z /\ Holds(r[w[n].id], n, w[n])
  <2>1. n \in DOMAIN v /\ w[n] = v[n] /\ \A g \in gs : v[n].id # v[g].id
    BY <1>2 DEF Apart
  <2> QED
    BY <1>2, <2>1 DEF Held
<1>3. ASSUME NEW i \in DOMAIN r \ Z PROVE \E n \in DOMAIN w : w[n].id = i
  <2>1. PICK n \in DOMAIN v : v[n].id = i
    BY <1>3 DEF Held
  <2>2. n \notin gs
    BY <1>3, <2>1
  <2> QED
    BY <2>1, <2>2
<1> QED
  BY <1>1, <1>2, <1>3 DEF Held

\* A node that was to be gone is not, or has given its row away.
Less(t, gs) == [t EXCEPT !.gone = @ \ gs]
LEMMA GoneBy ==
  ASSUME NEW t, State(t), NEW gs \in SUBSET t.gone, NEW u, u = Less(t, gs)
  PROVE  /\ State(u) /\ u.old = t.old /\ u.new = t.new /\ u.failover = t.failover /\ u.rows = t.rows
         /\ u.ok = t.ok /\ u.gone = t.gone \ gs /\ u.added = t.added /\ Stay(u) = Stay(t)
<1>1. PICK go : go = t.gone \ gs
  OBVIOUS
<1>2. u = [old |-> t.old, new |-> t.new, failover |-> t.failover, rows |-> t.rows, ok |-> t.ok,
           sent |-> t.sent, gone |-> go, added |-> t.added]
  BY <1>1, Zenon DEF State, Less
<1>3. /\ u.old = t.old /\ u.new = t.new /\ u.failover = t.failover /\ u.rows = t.rows /\ u.ok = t.ok
      /\ u.sent = t.sent /\ u.gone = go /\ u.added = t.added
  BY <1>2
<1>4. State(u)
  BY <1>1, <1>2, <1>3 DEF State
<1>5. Stay(u) = Stay(t)
  BY <1>3 DEF Stay
<1> QED
  BY <1>1, <1>3, <1>4, <1>5

LEMMA KeepOldBy ==
  ASSUME CitusAssumption, NEW t, NEW p \in Name, NEW q, NEW role, p # q, Promoted(t, q, role), t.failover = TRUE, p \notin t.added,
         q \notin DOMAIN t.old =>
           /\ p \in DOMAIN t.old /\ C!IsPrimary(t.old[p]) /\ (p \in DOMAIN t.new => t.new[p].id = None),
         NEW u \in C!KeepOld(t, p, q)
  PROVE  Promoted(u, q, role) /\ (Synced(t, q) /\ p[2] = 0 => Synced(u, q))
<1>1. CASE u = t
  BY <1>1
<1>2. CASE u # t
  <2> DEFINE out(g) == C!Takes([t EXCEPT !.gone = @ \ {g}], p, "secondary", t.old[g].id)
  <2>0. q \notin DOMAIN t.old /\ u \in UNION {out(g) : g \in t.gone}
    BY <1>2, Zenon DEF C!KeepOld
  <2>1. PICK g \in t.gone : u \in out(g)
    <3> HIDE DEF out
    <3> QED
      BY <2>0
  <2>2. State(t) /\ q \in DOMAIN t.new /\ C!IsPrimary(t.new[q]) /\ t.new[q].role = role /\ Group(t.new) /\ Group(t.old)
        /\ g \in DOMAIN t.old /\ t.old[g].role = "secondary" /\ g \notin DOMAIN t.new
        /\ p \in DOMAIN t.old /\ C!IsPrimary(t.old[p]) /\ (p \in DOMAIN t.new => t.new[p].id = None)
    BY <2>0 DEF Promoted, State
  <2>3. PICK s : s = [t EXCEPT !.gone = @ \ {g}]
    OBVIOUS
  <2>4. /\ State(s) /\ s.old = t.old /\ s.new = t.new /\ s.failover = t.failover /\ s.rows = t.rows
        /\ s.ok = t.ok /\ s.gone = t.gone \ {g} /\ s.added = t.added /\ Stay(s) = Stay(t)
    <3>1. {g} \in SUBSET t.gone /\ s = Less(t, {g})
      BY <2>3, Zenon DEF Less
    <3> QED
      BY <2>2, <3>1, GoneBy
  <2>5. PICK id : id = t.old[g].id
    OBVIOUS
  <2>6. C!Node("secondary", id) \in NodeOf /\ id \in Nat \cup {None}
    BY <2>2, <2>5 DEF Group, NodeOf, C!Node
  <2>7. p \notin t.gone /\ p \notin Stay(t)
    BY <2>2 DEF State, C!IsPrimary, Stay
  <2>8. u \in C!Takes(s, p, "secondary", id)
    BY <2>1, <2>3, <2>5, Zenon
  <2>9. State(u) /\ Taken(s, p, "secondary", id, u) /\ TakenHeld(s, p, id, u)
    BY <2>4, <2>6, <2>7, <2>8, TakesBy
  <2>10. View(u) = C!With(View(s), p, u.new[p])
    BY <2>2, <2>4, <2>7, <2>9, TakesView
  <2>11. Promoted(u, q, role)
    <3>1. u.added = t.added /\ u.new[q] = t.new[q] /\ \A n \in t.added : u.new[n] = t.new[n]
      BY <2>2, <2>4, <2>9 DEF Taken, Frame, State
    <3> QED
      BY <2>2, <2>4, <2>9, <3>1 DEF Promoted, Taken
  <2>12. ASSUME Synced(t, q), p[2] = 0, u.ok PROVE Held(u.rows, View(u), {})
    <3>1. t.ok /\ Held(t.rows, View(t), {}) /\ Table(t.rows)
      BY <2>2, <2>4, <2>9, <2>12 DEF Taken, Synced, State
    <3>2. Apart(View(t))
      BY <2>2, <3>1, ViewGroup, UniqueIds
    <3>3. PICK v, w : v = View(t) /\ w = View(s)
      OBVIOUS
    <3>a. /\ DOMAIN w = DOMAIN t.new \cup (t.gone \ {g})
          /\ \A n \in DOMAIN w : w[n] = IF n \in (t.gone \ {g}) \cup Stay(t) THEN t.old[n] ELSE t.new[n]
      <4>1. /\ DOMAIN View(s) = DOMAIN s.new \cup s.gone
            /\ \A n \in DOMAIN s.new \cup s.gone :
                 View(s)[n] = IF n \in s.gone \cup Stay(s) THEN s.old[n] ELSE s.new[n]
        BY ViewIs
      <4> QED
        BY <2>4, <3>3, <4>1
    <3>4. /\ DOMAIN w = DOMAIN v \ {g} /\ g \in DOMAIN v /\ v[g] = t.old[g]
          /\ \A m \in DOMAIN w : w[m] = v[m]
      <4>1. DOMAIN v = DOMAIN t.new \cup t.gone
            /\ \A n \in DOMAIN v : v[n] = IF n \in t.gone \cup Stay(t) THEN t.old[n] ELSE t.new[n]
        BY <3>3, ViewIs
      <4> QED
        BY <2>2, <3>a, <4>1
    <3>5. Held(t.rows, w, {} \cup ({id} \ {None}))
      <4>1. None \notin DOMAIN t.rows
        BY <2>2 DEF State, CitusAssumption
      <4>2. Held(t.rows, v, {}) /\ Apart(v) /\ v[g].id = id
        BY <2>5, <3>1, <3>2, <3>3, <3>4
      <4>3. {g} \in SUBSET DOMAIN v /\ IdsOf(v, {g}) = {id} \ {None}
        BY <3>4, <4>2 DEF IdsOf
      <4>4. Held(t.rows, w, {} \cup IdsOf(v, {g}))
        BY <3>4, <4>1, <4>2, <4>3, DropHeld
      <4> QED
        BY <4>3, <4>4
    <3>6. p \in DOMAIN w => w[p].id = None
      BY <2>2, <2>7, <3>a
    <3>7. id # None => t.rows[id].role # "primary"
      BY <2>2, <2>5, <3>1, <3>3, <3>4 DEF Held, Holds, C!IsPrimary
    <3>8. id = None => C!Named(t.rows, p) = {}
      <4>1. SUFFICES ASSUME id = None PROVE C!Named(t.rows, p) = {}
        OBVIOUS
      <4>2. Zero(w) /\ DOMAIN w \subseteq Name
        <5>1. DOMAIN w \subseteq DOMAIN t.new \cup t.gone
          BY <3>a
        <5> QED
          BY <2>2, <2>12, <5>1 DEF Synced, Zero, State, Group
      <4>3. Held(t.rows, w, {})
        BY <3>5, <4>1
      <4> QED
        BY <2>12, <3>1, <3>6, <4>2, <4>3, FreshBy
    <3>9. u.new[p].role = "secondary" /\ ~C!IsPrimary(u.new[p])
      BY <2>9 DEF Taken, C!IsPrimary
    <3>10. Held(u.rows, C!With(w, p, u.new[p]), ({} \cup ({id} \ {None})) \ {id})
      BY <2>4, <2>9, <2>12, <3>5, <3>6, <3>7, <3>8, <3>9 DEF TakenHeld
    <3>11. ({} \cup ({id} \ {None})) \ {id} = {}
      OBVIOUS
    <3> QED
      BY <2>10, <3>3, <3>10, <3>11
  <2>13. ASSUME Synced(t, q), p[2] = 0 PROVE Synced(u, q)
    <3>1. u.new[q].id # None /\ u.failover = TRUE
      BY <2>2, <2>4, <2>9, <2>13 DEF Taken, Frame, Synced
    <3>2. Zero(u.new) /\ \A n \in u.gone : n[2] = 0
      BY <2>4, <2>9, <2>13 DEF Taken, Frame, Synced, Zero
    <3> QED
      BY <2>12, <2>13, <3>1, <3>2 DEF Synced
  <2> QED
    BY <2>11, <2>13
<1> QED
  BY <1>1, <1>2

LEMMA VacateBy ==
  ASSUME CitusAssumption, NEW t, NEW p, NEW q, Begun(t, p, q), p # q, NEW u \in C!Vacate(t, p, q)
  PROVE  Vacated(t, u, p, q) /\ (q \notin DOMAIN t.old => u = t)
<1>1. CASE q \notin DOMAIN t.old
  <2>1. u = t
    BY <1>1, Zenon DEF C!Vacate
  <2>2. State(t) /\ q \in DOMAIN t.new /\ \A n \in t.added : t.new[n].id = None
    BY DEF Begun, State
  <2>3. ASSUME InStep(t, p), t.ok
        PROVE  Held(t.rows, View(t), {t.old[p].id}) /\ t.rows[t.old[p].id].role = "primary"
    <3>1. Rows2(t, p, q)
      BY <2>3, TwoRows
    <3>2. Held(t.rows, View(t), RowsOf(t, {p, q}))
      BY <2>3, BeginHeld
    <3> QED
      BY <1>1, <3>1, <3>2 DEF Rows2
  <2> QED
    BY <2>1, <2>2, <2>3 DEF Vacated
<1>2. CASE q \in DOMAIN t.old /\ p \notin DOMAIN t.new /\ t.added # {}
  <2>1. u \in C!VacateWithAdded(t, p, q)
    BY <1>2, Zenon DEF C!Vacate
  <2> QED
    BY <1>2, <2>1, VacateWithAddedBy
<1>3. CASE q \in DOMAIN t.old /\ ~(p \notin DOMAIN t.new /\ t.added # {})
  <2>1. u \in C!VacateWithOld(t, p, q)
    BY <1>3, Zenon DEF C!Vacate
  <2> QED
    BY <1>3, <2>1, VacateWithOldBy
<1> QED
  BY <1>1, <1>2, <1>3

LEMMA NewPrimaryBy ==
  ASSUME CitusAssumption, NEW t, NEW p, NEW q, Begun(t, p, q), p # q, NEW u \in C!NewPrimary(t, p, q)
  PROVE  Promoted(u, q, t.new[q].role) /\ (InStep(t, p) => Synced(u, q))
<1>1. PICK s : s = [t EXCEPT !.failover = TRUE]
  OBVIOUS
<1> DEFINE out(v) == C!Takes(v, q, v.new[q].role, t.old[p].id)
           mid == UNION {out(v) : v \in C!Vacate(s, p, q)}
           end(w) == C!KeepOld(w, p, q)
<1>2. u \in UNION {end(w) : w \in mid}
  BY <1>1, Zenon DEF C!NewPrimary
<1>3. PICK w \in mid : u \in end(w)
  <2> HIDE DEF mid, end
  <2> QED
    BY <1>2
<1>4. PICK v \in C!Vacate(s, p, q) : w \in out(v)
  <2> HIDE DEF out
  <2> QED
    BY <1>3
<1>5. u \in C!KeepOld(w, p, q) /\ w \in C!Takes(v, q, v.new[q].role, t.old[p].id)
  BY <1>3, <1>4
<1> HIDE DEF out, mid, end
<1>6. /\ State(t) /\ p \in DOMAIN t.old /\ C!IsPrimary(t.old[p]) /\ q \in DOMAIN t.new /\ C!IsPrimary(t.new[q])
      /\ (\A n \in DOMAIN t.new : t.new[n].id = None) /\ Group(t.old) /\ Group(t.new) /\ p \in Name /\ q \in Name
      /\ p \notin t.gone /\ p \notin t.added /\ q \notin t.gone /\ q \notin t.added
  BY DEF Begun, State, Group
<1>7. /\ State(s) /\ s.failover = TRUE /\ s.old = t.old /\ s.new = t.new /\ s.rows = t.rows /\ s.ok = t.ok
      /\ s.gone = t.gone /\ s.added = t.added /\ View(s) = View(t)
  BY <1>1, <1>6, OverBy
<1>8. Begun(s, p, q) /\ (InStep(t, p) => InStep(s, p))
  BY <1>6, <1>7 DEF Begun, InStep
<1>9. Vacated(s, v, p, q) /\ (q \notin DOMAIN t.old => v = s)
  BY <1>7, <1>8, VacateBy
<1>10. PICK role, id : role = v.new[q].role /\ id = t.old[p].id
  OBVIOUS
<1>11. /\ State(v) /\ v.gone = t.gone /\ v.added \subseteq t.added /\ v.failover = TRUE
       /\ DOMAIN v.new \subseteq DOMAIN t.new \cup {p} /\ q \in DOMAIN v.new /\ v.new[q] = t.new[q]
       /\ \A n \in v.added : v.new[n].id = None
  BY <1>7, <1>9 DEF Vacated
<1>12. role \in {"primary", "demoted"} /\ id \in Nat \cup {None} /\ C!Node(role, id) \in NodeOf
  BY <1>6, <1>10, <1>11 DEF Group, NodeOf, C!Node, C!IsPrimary
<1>13. \A m \in DOMAIN v.new \ {q} : ~C!IsPrimary(v.new[m])
  BY <1>6, <1>11 DEF State, Group
<1>14. State(w) /\ Taken(v, q, role, id, w) /\ TakenHeld(v, q, id, w)
  BY <1>5, <1>6, <1>10, <1>11, <1>12, <1>13, TakesBy
<1>15. View(w) = C!With(View(v), q, w.new[q])
  BY <1>6, <1>11, <1>12, <1>14, TakesView
<1>16. /\ DOMAIN w.new = DOMAIN v.new /\ w.new[q].role = role /\ w.gone = t.gone /\ w.added = v.added
       /\ w.failover = TRUE /\ w.old = v.old /\ \A m \in DOMAIN v.new \ {q} : w.new[m] = v.new[m]
  BY <1>11, <1>14 DEF Taken, Frame
<1>17. Promoted(w, q, t.new[q].role)
  <2>1. \A n \in v.added : n \in DOMAIN v.new \ {q}
    BY <1>6, <1>11 DEF State
  <2> QED
    BY <1>6, <1>10, <1>11, <1>12, <1>14, <1>16, <2>1 DEF Promoted, C!IsPrimary
<1>18. ASSUME InStep(t, p) PROVE Synced(w, q)
  <2>1. id # None /\ Zero(t.new) /\ Zero(t.old)
    BY <1>10, <1>18 DEF InStep
  <2>2. w.new[q].id # None
    BY <1>14, <2>1 DEF Taken
  <2>3. Zero(w.new) /\ \A n \in w.gone : n[2] = 0
    BY <1>6, <1>11, <1>16, <2>1 DEF Zero, State
  <2>4. ASSUME w.ok PROVE Held(w.rows, View(w), {})
    <3>1. v.ok /\ C!IsPrimary(w.new[q])
      BY <1>12, <1>14, <1>16, <2>4 DEF Taken, C!IsPrimary
    <3>2. Held(v.rows, View(v), {id}) /\ v.rows[id].role = "primary"
      BY <1>7, <1>8, <1>9, <1>10, <1>18, <3>1 DEF Vacated
    <3>3. q \notin v.gone \cup Stay(v) /\ q \in DOMAIN v.new /\ v.new[q].id = None
      BY <1>6, <1>11 DEF Stay
    <3>4. View(v)[q].id = None
      BY <3>3, ViewIs
    <3>5. Held(w.rows, C!With(View(v), q, w.new[q]), {id} \ {id})
      BY <1>14, <2>1, <2>4, <3>1, <3>2, <3>4 DEF TakenHeld
    <3> QED
      BY <1>15, <3>5
  <2> QED
    BY <1>16, <2>2, <2>3, <2>4 DEF Synced
<1>19. q \notin DOMAIN w.old =>
         /\ p \in DOMAIN w.old /\ C!IsPrimary(w.old[p]) /\ (p \in DOMAIN w.new => w.new[p].id = None)
  <2> SUFFICES ASSUME q \notin DOMAIN w.old
               PROVE  /\ p \in DOMAIN w.old /\ C!IsPrimary(w.old[p])
                      /\ (p \in DOMAIN w.new => w.new[p].id = None)
    OBVIOUS
  <2>1. v = s
    <3>1. CASE q \notin DOMAIN t.old
      BY <1>9, <3>1
    <3>2. CASE q \in DOMAIN t.old
      BY <1>7, <1>9, <1>16, <3>2 DEF Vacated
    <3> QED
      BY <3>1, <3>2
  <2> QED
    BY <1>6, <1>7, <1>16, <2>1
<1>20. p \notin w.added
  BY <1>6, <1>11, <1>16
<1>21. Promoted(u, q, t.new[q].role) /\ (Synced(w, q) /\ p[2] = 0 => Synced(u, q))
  BY <1>5, <1>6, <1>16, <1>17, <1>19, <1>20, KeepOldBy
<1>22. InStep(t, p) => p[2] = 0
  BY <1>6 DEF InStep, Zero
<1> QED
  BY <1>18, <1>21, <1>22

\* What a task of this group is made of, and how a transition begins with it.
Fresh(new) ==
  /\ Group(new) /\ Zero(new) /\ C!Primary(new) \in DOMAIN new /\ C!IsPrimary(new[C!Primary(new)])
  /\ \A n \in DOMAIN new : new[n].id = None
PrimaryOf(g) == C!Primary(g)

LEMMA PrimaryIs ==
  ASSUME CitusAssumption, NEW g, Group(g)
  PROVE  /\ C!Primary(g) # None => C!Primary(g) \in DOMAIN g /\ C!IsPrimary(g[C!Primary(g)])
         /\ C!Primary(g) = None => \A n \in DOMAIN g : ~C!IsPrimary(g[n])
<1>1. CASE \E n \in DOMAIN g : C!IsPrimary(g[n])
  <2>1. C!Primary(g) = CHOOSE n \in DOMAIN g : C!IsPrimary(g[n])
    BY <1>1 DEF C!Primary
  <2>2. C!Primary(g) \in DOMAIN g /\ C!IsPrimary(g[C!Primary(g)])
    BY <1>1, <2>1
  <2>3. C!Primary(g) \in Name
    BY <2>2 DEF Group
  <2> QED
    BY <2>2, <2>3 DEF CitusAssumption, Name
<1>2. CASE ~\E n \in DOMAIN g : C!IsPrimary(g[n])
  BY <1>2 DEF C!Primary
<1> QED
  BY <1>1, <1>2

Begins(t, new, old, failover, r) ==
  /\ State(t) /\ t.old = old /\ t.new = new /\ t.failover = failover /\ t.rows = r /\ t.ok = TRUE
  /\ t.gone = DOMAIN old \ (DOMAIN new \cup {C!Primary(old)})
  /\ t.added = DOMAIN new \ (DOMAIN old \cup {C!Primary(new)})

LEMMA BeginBy ==
  ASSUME CitusAssumption, NEW new, Fresh(new), NEW old, Group(old), NEW failover \in BOOLEAN,
         NEW r, Table(r), NEW t, t = C!Begin(new, old, failover, r)
  PROVE  Begins(t, new, old, failover, r)
<1>1. PICK go, ad : /\ go = DOMAIN old \ (DOMAIN new \cup {C!Primary(old)})
                    /\ ad = DOMAIN new \ (DOMAIN old \cup {C!Primary(new)})
  OBVIOUS
<1>2. t = [old |-> old, new |-> new, failover |-> failover, rows |-> r, ok |-> TRUE, sent |-> 0,
           gone |-> go, added |-> ad]
  BY <1>1, Zenon DEF C!Begin
<1>3. /\ t.old = old /\ t.new = new /\ t.failover = failover /\ t.rows = r /\ t.ok = TRUE /\ t.sent = 0
      /\ t.gone = go /\ t.added = ad
  BY <1>2
<1>4. t = [old |-> t.old, new |-> t.new, failover |-> t.failover, rows |-> t.rows, ok |-> t.ok,
           sent |-> t.sent, gone |-> t.gone, added |-> t.added]
  BY <1>2, <1>3
<1>5. \A n \in go : old[n].role = "secondary"
  <2> SUFFICES ASSUME NEW n \in go PROVE old[n].role = "secondary"
    OBVIOUS
  <2>1. n \in DOMAIN old /\ n # C!Primary(old)
    BY <1>1
  <2>2. ~C!IsPrimary(old[n])
    BY <2>1, PrimaryIs DEF Group
  <2> QED
    BY <2>1, <2>2 DEF Group, NodeOf, C!IsPrimary
<1>6. \A n \in ad : new[n].role = "secondary"
  <2> SUFFICES ASSUME NEW n \in ad PROVE new[n].role = "secondary"
    OBVIOUS
  <2>1. n \in DOMAIN new /\ n # C!Primary(new)
    BY <1>1
  <2>2. ~C!IsPrimary(new[n])
    BY <2>1 DEF Group, Fresh
  <2> QED
    BY <2>1, <2>2 DEF Group, NodeOf, C!IsPrimary, Fresh
<1>7. State(t)
  <2>1. go \subseteq DOMAIN old /\ ad \subseteq DOMAIN new /\ go \cap DOMAIN new = {} /\ ad \cap DOMAIN old = {}
    BY <1>1
  <2>2. DOMAIN r \subseteq Nat /\ Group(new)
    BY DEF Table, Fresh
  <2> QED
    BY <1>3, <1>4, <1>5, <1>6, <2>1, <2>2 DEF State
<1> QED
  BY <1>1, <1>3, <1>7 DEF Begins

LEMMA PromoteBy ==
  ASSUME CitusAssumption, NEW new, Fresh(new), NEW old, Group(old), NEW failover \in BOOLEAN,
         NEW r, Table(r), NEW t, t = C!Begin(new, old, failover, r), NEW u \in C!Promote(t)
  PROVE  /\ Promoted(u, PrimaryOf(new), new[PrimaryOf(new)].role)
         /\ PrimaryOf(old) # None /\ InStep(t, PrimaryOf(old)) => Synced(u, PrimaryOf(new))
<1>1. PICK p, q : p = C!Primary(old) /\ q = C!Primary(new)
  OBVIOUS
<1>2. /\ State(t) /\ t.old = old /\ t.new = new /\ t.failover = failover /\ t.rows = r /\ t.ok = TRUE
      /\ t.gone = DOMAIN old \ (DOMAIN new \cup {p}) /\ t.added = DOMAIN new \ (DOMAIN old \cup {q})
  <2>1. Begins(t, new, old, failover, r)
    BY BeginBy
  <2> QED
    BY <1>1, <2>1 DEF Begins
<1>3. q \in DOMAIN new /\ C!IsPrimary(new[q]) /\ (\A n \in DOMAIN new : new[n].id = None) /\ Group(new)
  BY <1>1 DEF Fresh
<1>4. CASE p = None
  <2>1. PICK node : node = new[q]
    OBVIOUS
  <2>2. PICK g : g = C!Only(q, node)
    OBVIOUS
  <2>3. u \in C!update_node(t, g)
    BY <1>1, <1>2, <1>4, <2>1, <2>2, Zenon DEF C!Promote
  <2>4. q \in Name /\ node \in NodeOf /\ node.id = None
    BY <1>3, <2>1 DEF Group
  <2>5. /\ Group(g) /\ Apart(g) /\ DOMAIN g = {q} /\ g[q] = node /\ Ids(g) = {None} \ {None}
        /\ Adds(g) = (IF node.role # "demoted" THEN {q} ELSE {})
    BY <2>2, <2>4, OnlyOne
  <2>6. State(u) /\ Sent(t, g, u)
    BY <1>2, <2>3, <2>5, SentBy
  <2>7. /\ DOMAIN u.new = DOMAIN new /\ u.added = t.added /\ u.old = old /\ u.gone = t.gone
        /\ u.failover = failover
        /\ \A n \in DOMAIN new : u.new[n].role = new[n].role /\ (n # q => u.new[n] = new[n])
    BY <1>2, <2>5, <2>6 DEF Sent
  <2>8. Promoted(u, q, new[q].role)
    BY <1>2, <1>3, <2>6, <2>7 DEF Promoted, C!IsPrimary
  <2> QED
    BY <1>1, <1>2, <1>4, <2>7, <2>8 DEF PrimaryOf
<1>5. CASE p # None
  <2>1. p \in DOMAIN old /\ C!IsPrimary(old[p])
    BY <1>1, <1>5, PrimaryIs
  <2>2. Begun(t, p, q)
    BY <1>2, <1>3, <2>1 DEF Begun
  <2>3. CASE p = q
    <3>1. u \in C!SamePrimary(t, p)
      BY <1>1, <1>2, <1>5, <2>3, Zenon DEF C!Promote
    <3> QED
      BY <1>1, <1>2, <2>1, <2>2, <2>3, <3>1, SamePrimaryBy DEF PrimaryOf
  <2>4. CASE p # q
    <3>1. u \in C!NewPrimary(t, p, q)
      BY <1>1, <1>2, <1>5, <2>4, Zenon DEF C!Promote
    <3> QED
      BY <1>1, <1>2, <2>1, <2>2, <2>4, <3>1, NewPrimaryBy DEF PrimaryOf
  <2> QED
    BY <2>3, <2>4
<1> QED
  BY <1>4, <1>5

\* What the rows are of once the ids are filled in.
Kept(t) == [n \in DOMAIN t.new \cup t.gone |-> IF n \in t.gone THEN t.old[n] ELSE t.new[n]]
Full(t, q) ==
  /\ Zero(t.new) /\ (\A n \in t.gone : n[2] = 0) /\ t.new[q].id # None
  /\ t.ok => Held(t.rows, Kept(t), {})
  /\ ~t.failover => t.new[q].role = "primary"

LEMMA KeptIs ==
  ASSUME NEW t
  PROVE  /\ DOMAIN Kept(t) = DOMAIN t.new \cup t.gone
         /\ \A n \in DOMAIN t.new \cup t.gone : Kept(t)[n] = IF n \in t.gone THEN t.old[n] ELSE t.new[n]
BY DEF Kept

LEMMA KeptGroup ==
  ASSUME NEW t, State(t)
  PROVE  Group(Kept(t))
<1>1. PICK v : v = Kept(t)
  OBVIOUS
<1>2. DOMAIN v = DOMAIN t.new \cup t.gone /\ v = [n \in DOMAIN v |-> v[n]]
  BY <1>1 DEF Kept
<1>3. \A n \in DOMAIN v : v[n] = IF n \in t.gone THEN t.old[n] ELSE t.new[n]
  BY <1>1, <1>2, KeptIs
<1>4. Group(t.old) /\ Group(t.new) /\ t.gone \subseteq DOMAIN t.old /\ \A n \in t.gone : t.old[n].role = "secondary"
  BY DEF State
<1>5. ASSUME NEW n \in DOMAIN v
      PROVE  v[n] \in NodeOf /\ n \in Name /\ (C!IsPrimary(v[n]) => n \in DOMAIN t.new /\ C!IsPrimary(t.new[n]))
  <2>1. CASE n \in t.gone
    BY <1>3, <1>4, <2>1 DEF Group, C!IsPrimary
  <2>2. CASE n \notin t.gone
    BY <1>2, <1>3, <1>4, <2>2 DEF Group
  <2> QED
    BY <2>1, <2>2
<1> QED
  BY <1>1, <1>2, <1>4, <1>5 DEF Group

LEMMA LikeHeld ==
  ASSUME NEW r, NEW v, NEW X, Held(r, v, X), NEW w, DOMAIN w = DOMAIN v,
         \A n \in DOMAIN v : w[n].id = v[n].id /\ w[n].role = v[n].role
  PROVE  Held(r, w, X)
BY DEF Held, Holds, Written, C!IsPrimary

LEMMA FillBy ==
  ASSUME CitusAssumption, NEW t, NEW q, NEW role, Promoted(t, q, role), NEW u, u = C!FillIds(t)
  PROVE  /\ Promoted(u, q, role) /\ (Synced(t, q) => Full(u, q)) /\ u.rows = t.rows /\ u.ok = t.ok
         /\ u.gone = t.gone /\ u.failover = t.failover /\ u.old = t.old /\ DOMAIN u.new = DOMAIN t.new
<1>1. State(t) /\ Group(t.old) /\ Group(t.new) /\ q \in DOMAIN t.new /\ C!IsPrimary(t.new[q])
  BY DEF Promoted, State
<1>2. PICK g : g = [n \in DOMAIN t.new |-> IF n \in Stay(t) THEN C!Node(t.new[n].role, t.old[n].id) ELSE t.new[n]]
  OBVIOUS
<1>3. g = [n \in DOMAIN t.new |->
             IF /\ ~C!IsPrimary(t.new[n]) /\ t.new[n].id = None
                /\ n \in DOMAIN t.old /\ ~C!IsPrimary(t.old[n])
             THEN C!Node(t.new[n].role, t.old[n].id) ELSE t.new[n]]
  BY <1>2 DEF Stay
<1>4. u = [t EXCEPT !.new = g]
  BY <1>3, Zenon DEF C!FillIds
<1>5. u = [old |-> t.old, new |-> g, failover |-> t.failover, rows |-> t.rows, ok |-> t.ok,
           sent |-> t.sent, gone |-> t.gone, added |-> t.added]
  BY <1>1, <1>4, Zenon DEF State
<1>6. /\ u.old = t.old /\ u.new = g /\ u.failover = t.failover /\ u.rows = t.rows /\ u.ok = t.ok
      /\ u.sent = t.sent /\ u.gone = t.gone /\ u.added = t.added
  BY <1>5
<1>7. DOMAIN g = DOMAIN t.new /\ g = [n \in DOMAIN g |-> g[n]]
  BY <1>2
<1>8. ASSUME NEW n \in DOMAIN t.new
      PROVE  /\ g[n].role = t.new[n].role /\ g[n] \in NodeOf /\ (n \notin Stay(t) => g[n] = t.new[n])
             /\ n \in Stay(t) => g[n].id = t.old[n].id /\ t.old[n].role = "secondary" /\ t.new[n].role = "secondary"
  <2>1. CASE n \in Stay(t)
    <3>1. g[n] = [role |-> t.new[n].role, id |-> t.old[n].id]
      BY <1>2, <2>1 DEF C!Node
    <3>2. g[n].role = t.new[n].role /\ g[n].id = t.old[n].id
      BY <3>1
    <3>3. n \in DOMAIN t.old /\ t.old[n] \in NodeOf /\ t.new[n] \in NodeOf
      BY <1>1, <2>1 DEF Stay, Group
    <3>4. ~C!IsPrimary(t.old[n]) /\ ~C!IsPrimary(t.new[n])
      BY <2>1 DEF Stay
    <3>5. t.old[n].role = "secondary" /\ t.new[n].role = "secondary"
      BY <3>3, <3>4 DEF NodeOf, C!IsPrimary
    <3> QED
      BY <2>1, <3>1, <3>2, <3>3, <3>5 DEF NodeOf
  <2>2. CASE n \notin Stay(t)
    BY <1>1, <1>2, <2>2 DEF Group
  <2> QED
    BY <2>1, <2>2
<1>9. Group(g)
  BY <1>1, <1>7, <1>8 DEF Group, C!IsPrimary
<1>10. State(u)
  <2>1. u = [old |-> u.old, new |-> u.new, failover |-> u.failover, rows |-> u.rows, ok |-> u.ok,
             sent |-> u.sent, gone |-> u.gone, added |-> u.added]
    BY <1>5, <1>6
  <2>2. \A n \in t.added : g[n].role = "secondary"
    BY <1>1, <1>8 DEF State
  <2>3. /\ t.gone \subseteq DOMAIN t.old /\ \A n \in t.gone : t.old[n].role = "secondary"
        /\ t.added \subseteq DOMAIN g /\ t.gone \cap DOMAIN g = {} /\ t.added \cap DOMAIN t.old = {}
        /\ DOMAIN t.rows \subseteq Nat /\ (t.ok => Table(t.rows)) /\ t.ok \in BOOLEAN /\ t.failover \in BOOLEAN
    BY <1>1, <1>7 DEF State
  <2> QED
    BY <1>1, <1>6, <1>9, <2>1, <2>2, <2>3 DEF State
<1>11. q \notin Stay(t) /\ g[q] = t.new[q]
  BY <1>1, <1>8 DEF Stay
<1>12. \A n \in t.added : g[n].id = None
  <2> SUFFICES ASSUME NEW n \in t.added PROVE g[n].id = None
    OBVIOUS
  <2>1. n \in DOMAIN t.new /\ n \notin Stay(t) /\ t.new[n].id = None
    BY <1>1 DEF State, Stay, Promoted
  <2> QED
    BY <1>8, <2>1
<1>13. Promoted(u, q, role)
  BY <1>1, <1>6, <1>7, <1>10, <1>11, <1>12 DEF Promoted
<1>14. ASSUME Synced(t, q) PROVE Full(u, q)
  <2>1. ASSUME t.ok PROVE Held(u.rows, Kept(u), {})
    <3>1. PICK v, w : v = View(t) /\ w = Kept(u)
      OBVIOUS
    <3>2. DOMAIN v = DOMAIN t.new \cup t.gone
          /\ \A n \in DOMAIN v : v[n] = IF n \in t.gone \cup Stay(t) THEN t.old[n] ELSE t.new[n]
      BY <3>1, ViewIs
    <3>3. DOMAIN w = DOMAIN t.new \cup t.gone
          /\ \A n \in DOMAIN w : w[n] = IF n \in t.gone THEN t.old[n] ELSE g[n]
      <4>1. DOMAIN Kept(u) = DOMAIN u.new \cup u.gone
            /\ \A n \in DOMAIN u.new \cup u.gone : Kept(u)[n] = IF n \in u.gone THEN u.old[n] ELSE u.new[n]
        BY KeptIs
      <4> QED
        BY <1>6, <1>7, <3>1, <4>1
    <3>4. ASSUME NEW n \in DOMAIN v PROVE w[n].id = v[n].id /\ w[n].role = v[n].role
      <4>1. CASE n \in t.gone
        BY <3>2, <3>3, <4>1
      <4>2. CASE n \notin t.gone /\ n \in Stay(t)
        BY <1>8, <3>2, <3>3, <4>2
      <4>3. CASE n \notin t.gone /\ n \notin Stay(t)
        BY <1>8, <3>2, <3>3, <4>3
      <4> QED
        BY <4>1, <4>2, <4>3
    <3>5. Held(t.rows, v, {})
      BY <1>14, <2>1, <3>1 DEF Synced
    <3>6. Held(t.rows, w, {})
      BY <3>2, <3>3, <3>4, <3>5, LikeHeld
    <3> QED
      BY <1>6, <3>1, <3>6
  <2>2. Zero(u.new) /\ \A n \in u.gone : n[2] = 0
    BY <1>6, <1>7, <1>14 DEF Synced, Zero
  <2> QED
    BY <1>6, <1>11, <1>14, <2>1, <2>2 DEF Synced, Full
<1> QED
  BY <1>6, <1>7, <1>13, <1>14

\* Rows of gone nodes are given to added ones.
Gives(t, row, nodes, s) ==
  /\ row \in [DOMAIN row -> t.gone] /\ DOMAIN row \subseteq t.added
  /\ \A m, n \in DOMAIN row : row[m] = row[n] => m = n
  /\ nodes = [n \in DOMAIN row |-> C!Node(t.new[n].role, t.old[row[n]].id)]
  /\ s = [t EXCEPT !.gone = @ \ C!Range(row), !.added = @ \ DOMAIN row,
                   !.new = [n \in DOMAIN @ |-> IF n \in DOMAIN row THEN nodes[n] ELSE @[n]]]

LEMMA ReuseGives ==
  ASSUME NEW t, NEW u \in C!Reuse(t)
  PROVE  \E row, nodes, s : Gives(t, row, nodes, s) /\ u \in C!update_node(s, nodes)
<1> DEFINE k == IF C!Cardinality(t.gone) < C!Cardinality(t.added) THEN C!Cardinality(t.gone) ELSE C!Cardinality(t.added)
           nodes(row) == [n \in DOMAIN row |-> C!Node(t.new[n].role, t.old[row[n]].id)]
           st(row) == [t EXCEPT !.gone = @ \ C!Range(row), !.added = @ \ DOMAIN row,
                         !.new = [n \in DOMAIN @ |-> IF n \in DOMAIN row THEN nodes(row)[n] ELSE @[n]]]
           give(row) == C!update_node(st(row), nodes(row))
           sets == {s \in SUBSET t.added : C!Cardinality(s) = k}
           inj(ns) == C!Injection(ns, t.gone)
<1>1. u \in UNION {give(row) : row \in UNION {inj(ns) : ns \in sets}}
  BY Zenon DEF C!Reuse
<1>2. PICK row \in UNION {inj(ns) : ns \in sets} : u \in give(row)
  <2> HIDE DEF give, inj, sets
  <2> QED
    BY <1>1
<1>3. PICK ns \in sets : row \in inj(ns)
  <2> HIDE DEF give, inj, sets
  <2> QED
    BY <1>2
<1>4. row \in [ns -> t.gone] /\ ns \subseteq t.added /\ \A a, b \in ns : row[a] = row[b] => a = b
  BY <1>3 DEF C!Injection, C!IsInjective
<1>5. DOMAIN row = ns
  BY <1>4
<1>6. PICK gs, s : gs = nodes(row) /\ s = st(row)
  <2> HIDE DEF nodes, st
  <2> QED
    OBVIOUS
<1>7. u \in C!update_node(s, gs)
  BY <1>2, <1>6, Zenon
<1>8. /\ gs = [n \in DOMAIN row |-> C!Node(t.new[n].role, t.old[row[n]].id)]
      /\ s = [t EXCEPT !.gone = @ \ C!Range(row), !.added = @ \ DOMAIN row,
                       !.new = [n \in DOMAIN @ |-> IF n \in DOMAIN row THEN gs[n] ELSE @[n]]]
  BY <1>6, Zenon
<1> HIDE DEF give, inj, sets, nodes, st, k
<1>9. row \in [DOMAIN row -> t.gone] /\ DOMAIN row \subseteq t.added
      /\ \A m, n \in DOMAIN row : row[m] = row[n] => m = n
  BY <1>4, <1>5
<1>10. Gives(t, row, gs, s)
  BY <1>8, <1>9, Zenon DEF Gives
<1> QED
  BY <1>7, <1>10

\* The nodes and the state of that.
Given(t, row, nodes, s) ==
  /\ State(s) /\ s.old = t.old /\ s.failover = t.failover /\ s.rows = t.rows /\ s.ok = t.ok
  /\ s.gone = t.gone \ C!Range(row) /\ s.added = t.added \ DOMAIN row
  /\ DOMAIN s.new = DOMAIN t.new
  /\ \A n \in DOMAIN t.new :
       s.new[n].role = t.new[n].role /\ s.new[n] = (IF n \in DOMAIN row THEN nodes[n] ELSE t.new[n])
  /\ Group(nodes) /\ DOMAIN nodes = DOMAIN row
  /\ \A n \in DOMAIN row : nodes[n].role = "secondary" /\ nodes[n].id = t.old[row[n]].id

LEMMA GivenBy ==
  ASSUME NEW t, State(t), NEW row, NEW nodes, NEW s, Gives(t, row, nodes, s)
  PROVE  Given(t, row, nodes, s)
<1>1. /\ DOMAIN row \subseteq t.added /\ DOMAIN row \subseteq DOMAIN t.new /\ (\A n \in DOMAIN row : row[n] \in t.gone)
      /\ Group(t.old) /\ Group(t.new) /\ t.gone \subseteq DOMAIN t.old
      /\ \A n \in DOMAIN row : t.new[n].role = "secondary"
  BY DEF Gives, State
<1>2. DOMAIN nodes = DOMAIN row /\ nodes = [n \in DOMAIN nodes |-> nodes[n]]
  BY DEF Gives
<1>3. ASSUME NEW n \in DOMAIN row
      PROVE  nodes[n].role = "secondary" /\ nodes[n].id = t.old[row[n]].id /\ nodes[n] \in NodeOf
  <2>1. nodes[n] = [role |-> t.new[n].role, id |-> t.old[row[n]].id]
    BY DEF Gives, C!Node
  <2>2. t.new[n].role = "secondary" /\ t.old[row[n]] \in NodeOf
    BY <1>1 DEF Group
  <2>3. nodes[n].role = "secondary" /\ nodes[n].id = t.old[row[n]].id
    BY <2>1, <2>2
  <2> QED
    BY <2>1, <2>2, <2>3 DEF NodeOf
<1>4. Group(nodes)
  BY <1>1, <1>2, <1>3 DEF Group, C!IsPrimary
<1>5. PICK g, go, ad : /\ g = [n \in DOMAIN t.new |-> IF n \in DOMAIN row THEN nodes[n] ELSE t.new[n]]
                       /\ go = t.gone \ C!Range(row) /\ ad = t.added \ DOMAIN row
  OBVIOUS
<1>6. s = [old |-> t.old, new |-> g, failover |-> t.failover, rows |-> t.rows, ok |-> t.ok,
           sent |-> t.sent, gone |-> go, added |-> ad]
  BY <1>5, Zenon DEF State, Gives
<1>7. /\ s.old = t.old /\ s.new = g /\ s.failover = t.failover /\ s.rows = t.rows /\ s.ok = t.ok
      /\ s.sent = t.sent /\ s.gone = go /\ s.added = ad
  BY <1>6
<1>8. DOMAIN g = DOMAIN t.new /\ g = [n \in DOMAIN g |-> g[n]]
  BY <1>5
<1>9. ASSUME NEW n \in DOMAIN t.new
      PROVE  /\ g[n].role = t.new[n].role /\ g[n] = (IF n \in DOMAIN row THEN nodes[n] ELSE t.new[n])
             /\ g[n] \in NodeOf
  BY <1>1, <1>3, <1>5 DEF Group
<1>10. Group(g)
  BY <1>1, <1>8, <1>9 DEF Group, C!IsPrimary
<1>11. State(s)
  <2>1. s = [old |-> s.old, new |-> s.new, failover |-> s.failover, rows |-> s.rows, ok |-> s.ok,
             sent |-> s.sent, gone |-> s.gone, added |-> s.added]
    BY <1>6, <1>7
  <2>2. /\ go \subseteq t.gone /\ ad \subseteq t.added
    BY <1>5
  <2>3. /\ t.gone \subseteq DOMAIN t.old /\ \A n \in t.gone : t.old[n].role = "secondary"
        /\ t.added \subseteq DOMAIN t.new /\ t.gone \cap DOMAIN t.new = {} /\ t.added \cap DOMAIN t.old = {}
        /\ DOMAIN t.rows \subseteq Nat /\ (t.ok => Table(t.rows)) /\ t.ok \in BOOLEAN /\ t.failover \in BOOLEAN
        /\ \A n \in t.added : t.new[n].role = "secondary"
    BY DEF State
  <2>4. \A n \in ad : g[n].role = "secondary"
    BY <1>9, <2>2, <2>3
  <2>5. /\ go \subseteq DOMAIN t.old /\ (\A n \in go : t.old[n].role = "secondary")
        /\ ad \subseteq DOMAIN g /\ go \cap DOMAIN g = {} /\ ad \cap DOMAIN t.old = {}
    BY <1>8, <2>2, <2>3
  <2> QED
    BY <1>1, <1>7, <1>10, <2>1, <2>3, <2>4, <2>5 DEF State
<1> QED
  BY <1>2, <1>3, <1>4, <1>5, <1>7, <1>8, <1>9, <1>11 DEF Given

LEMMA ReuseBy ==
  ASSUME CitusAssumption, NEW t, NEW q, NEW role, Promoted(t, q, role), NEW u \in C!Reuse(t)
  PROVE  /\ Promoted(u, q, role) /\ (Full(t, q) => Full(u, q)) /\ u.failover = t.failover
         /\ u.gone \subseteq t.gone /\ u.old = t.old /\ DOMAIN u.new = DOMAIN t.new
<1>1. PICK row, nodes, s : Gives(t, row, nodes, s) /\ u \in C!update_node(s, nodes)
  BY ReuseGives
<1>2. State(t) /\ q \in DOMAIN t.new /\ C!IsPrimary(t.new[q]) /\ t.new[q].role = role
      /\ (\A n \in t.added : t.new[n].id = None) /\ Group(t.old) /\ Group(t.new)
  BY DEF Promoted, State
<1>3. Given(t, row, nodes, s)
  BY <1>1, <1>2, GivenBy
<1>4. /\ (\A n \in DOMAIN row : row[n] \in t.gone) /\ DOMAIN row \subseteq t.added
      /\ \A m, n \in DOMAIN row : row[m] = row[n] => m = n
  BY <1>1 DEF Gives
<1>5. C!Range(row) = {row[n] : n \in DOMAIN row}
  BY DEF C!Range
<1>6. /\ State(s) /\ s.old = t.old /\ s.failover = t.failover /\ s.rows = t.rows /\ s.ok = t.ok
      /\ s.gone = t.gone \ C!Range(row) /\ s.added = t.added \ DOMAIN row
      /\ DOMAIN s.new = DOMAIN t.new /\ Group(nodes) /\ DOMAIN nodes = DOMAIN row
  BY <1>3 DEF Given
<1>7. ASSUME NEW n \in DOMAIN t.new
      PROVE  s.new[n].role = t.new[n].role /\ s.new[n] = (IF n \in DOMAIN row THEN nodes[n] ELSE t.new[n])
  BY <1>3 DEF Given
<1>8. ASSUME NEW n \in DOMAIN row
      PROVE  nodes[n].role = "secondary" /\ nodes[n].id = t.old[row[n]].id
  BY <1>3 DEF Given
<1>9. State(u) /\ Sent(s, nodes, u)
  BY <1>1, <1>6, SentBy
<1>a. /\ u.old = s.old /\ u.failover = s.failover /\ u.gone = s.gone /\ u.added = s.added
      /\ DOMAIN u.new = DOMAIN s.new
      /\ \A n \in DOMAIN s.new :
           u.new[n].role = s.new[n].role /\ (n \notin Adds(nodes) => u.new[n] = s.new[n])
  BY <1>9 DEF Sent
<1>10. Adds(nodes) \subseteq DOMAIN row /\ DOMAIN row \subseteq DOMAIN t.new /\ q \notin DOMAIN row
  <2>1. DOMAIN row \subseteq DOMAIN t.new /\ \A n \in t.added : ~C!IsPrimary(t.new[n])
    BY <1>2, <1>4 DEF State, C!IsPrimary
  <2> QED
    BY <1>2, <1>4, <1>6, <2>1 DEF Adds
<1>11. \A n \in DOMAIN t.new \ DOMAIN row : u.new[n] = t.new[n]
  BY <1>6, <1>7, <1>a, <1>10
<1>12. Promoted(u, q, role)
  <2>1. \A n \in u.added : n \in DOMAIN t.new \ DOMAIN row /\ n \in t.added
    BY <1>2, <1>6, <1>a DEF State
  <2> QED
    BY <1>2, <1>6, <1>9, <1>a, <1>10, <1>11, <2>1 DEF Promoted
<1>14. ASSUME Full(t, q) PROVE Full(u, q)
  <2>1. Zero(u.new) /\ (\A n \in u.gone : n[2] = 0) /\ u.new[q] = t.new[q]
    BY <1>2, <1>6, <1>a, <1>10, <1>11, <1>14 DEF Full, Zero
  <2>2. ASSUME u.ok PROVE Held(u.rows, Kept(u), {})
    <3> DEFINE gs == C!Range(row)
    <3>1. PICK v : v = Kept(t)
      OBVIOUS
    <3>2. DOMAIN v = DOMAIN t.new \cup t.gone
          /\ \A n \in DOMAIN v : v[n] = IF n \in t.gone THEN t.old[n] ELSE t.new[n]
      BY <3>1, KeptIs
    <3>3. t.ok
      BY <2>2, <1>6, <1>9 DEF Sent
    <3>4. Held(t.rows, v, {}) /\ Table(t.rows) /\ Group(v)
      BY <1>2, <1>14, <3>1, <3>3, KeptGroup DEF Full, State
    <3>5. Apart(v)
      BY <3>4, UniqueIds
    <3>6. PICK w : w = [n \in DOMAIN v \ gs |-> v[n]]
      OBVIOUS
    <3>7. DOMAIN w = DOMAIN v \ gs /\ \A n \in DOMAIN w : w[n] = v[n]
      BY <3>6
    <3>8. gs \subseteq t.gone /\ gs \in SUBSET DOMAIN v
      BY <1>4, <1>5, <3>2
    <3>9. IdsOf(v, gs) = Ids(nodes)
      BY <1>4, <1>5, <1>6, <1>8, <3>2, <3>8 DEF IdsOf, Ids
    <3>10. Apart(nodes)
      <4> SUFFICES ASSUME NEW m \in DOMAIN row, NEW n \in DOMAIN row, nodes[m].id = nodes[n].id, nodes[m].id # None
                   PROVE  m = n
        BY <1>6 DEF Apart
      <4>1. v[row[m]].id = v[row[n]].id /\ v[row[m]].id # None /\ row[m] \in DOMAIN v /\ row[n] \in DOMAIN v
        BY <1>4, <1>8, <3>2
      <4> QED
        BY <1>4, <3>5, <4>1 DEF Apart
    <3>11. Held(s.rows, w, Ids(nodes))
      <4>1. None \notin DOMAIN t.rows
        BY <1>2 DEF State, CitusAssumption
      <4>2. Held(t.rows, w, {} \cup IdsOf(v, gs))
        <5> HIDE DEF gs
        <5> QED
          BY <3>4, <3>5, <3>7, <3>8, <4>1, DropHeld
      <4> QED
        BY <1>6, <3>9, <4>2
    <3>12. PICK x : x = Kept(u)
      OBVIOUS
    <3>13. /\ DOMAIN x = DOMAIN t.new \cup (t.gone \ gs)
           /\ \A n \in DOMAIN x : x[n] = IF n \in t.gone \ gs THEN t.old[n] ELSE u.new[n]
      <4>1. /\ DOMAIN Kept(u) = DOMAIN u.new \cup u.gone
            /\ \A n \in DOMAIN u.new \cup u.gone : Kept(u)[n] = IF n \in u.gone THEN u.old[n] ELSE u.new[n]
        BY KeptIs
      <4> QED
        BY <1>6, <1>a, <3>12, <4>1
    <3>14. t.gone \cap DOMAIN t.new = {} /\ \A n \in DOMAIN row : n \notin t.gone /\ n \in t.added /\ n \in DOMAIN t.new
      BY <1>2, <1>4, <1>10 DEF State
    <3>15. DOMAIN x = DOMAIN w \cup DOMAIN nodes
      BY <1>6, <3>2, <3>7, <3>8, <3>13, <3>14
    <3>16. \A n \in DOMAIN w \ DOMAIN nodes : x[n] = w[n]
      BY <1>6, <1>11, <3>2, <3>7, <3>13, <3>14
    <3>17. ASSUME NEW n \in DOMAIN nodes
           PROVE  /\ n \in DOMAIN w => w[n].id = None
                  /\ nodes[n].id # None => (s.rows[nodes[n].id].role = "primary" <=> C!IsPrimary(nodes[n]))
                  /\ nodes[n].id = None =>
                       /\ nodes[n].role # "demoted" /\ n \in DOMAIN s.new /\ C!Named(s.rows, n) = {}
                       /\ \A m \in DOMAIN nodes : Written(m, nodes[m]) = n => m = n
                  /\ x[n].role = nodes[n].role
                  /\ x[n].id = IF nodes[n].id = None THEN u.new[n].id ELSE nodes[n].id
      <4>1. n \in DOMAIN row /\ n \in DOMAIN t.new /\ n \notin t.gone /\ t.new[n].id = None /\ row[n] \in t.gone
        BY <1>2, <1>4, <1>6, <3>14
      <4>2. v[n].id = None /\ n \in DOMAIN v
        BY <3>2, <4>1
      <4>3. nodes[n].role = "secondary" /\ ~C!IsPrimary(nodes[n])
        BY <1>8, <4>1 DEF C!IsPrimary
      <4>4. ASSUME nodes[n].id # None PROVE s.rows[nodes[n].id].role # "primary"
        <5>1. v[row[n]] = t.old[row[n]] /\ row[n] \in DOMAIN v /\ t.old[row[n]].role = "secondary"
          BY <1>2, <3>2, <4>1 DEF State
        <5> QED
          BY <1>6, <1>8, <3>4, <4>1, <4>4, <5>1 DEF Held, Holds, C!IsPrimary
      <4>5. C!Named(s.rows, n) = {}
        <5>1. n \in Name /\ n[2] = 0 /\ Zero(v) /\ DOMAIN v \subseteq Name
          BY <1>2, <1>14, <3>2, <3>4, <4>1 DEF Full, Zero, Group
        <5>2. \A i \in {} : t.rows[i].name # n
          OBVIOUS
        <5>3. C!Named(t.rows, n) = {}
          BY <3>4, <4>2, <5>1, <5>2, FreshBy
        <5> QED
          BY <1>6, <5>3
      <4>6. \A m \in DOMAIN nodes : Written(m, nodes[m]) = m
        <5> SUFFICES ASSUME NEW m \in DOMAIN nodes PROVE Written(m, nodes[m]) = m
          OBVIOUS
        <5>1. m \in Name /\ nodes[m].role = "secondary"
          BY <1>6, <1>8 DEF Group
        <5> QED
          BY <5>1, WrittenIs
      <4>7. x[n] = u.new[n] /\ n \in DOMAIN s.new
        BY <1>6, <3>13, <4>1
      <4>8. u.new[n].role = "secondary" /\ (nodes[n].id # None => u.new[n] = nodes[n])
        BY <1>2, <1>6, <1>7, <1>8, <1>a, <4>1, <4>3 DEF Adds, State
      <4> QED
        BY <3>7, <4>2, <4>3, <4>4, <4>5, <4>6, <4>7, <4>8
    <3>18. Fits(s, nodes, u, w, x)
      BY <3>15, <3>16, <3>17 DEF Fits
    <3>19. Held(u.rows, x, Ids(nodes) \ Ids(nodes))
      BY <1>1, <1>6, <2>2, <3>10, <3>11, <3>18, HeldBy
    <3> QED
      BY <3>12, <3>19
  <2> QED
    BY <1>6, <1>a, <1>14, <2>1, <2>2 DEF Full
<1> QED
  BY <1>6, <1>a, <1>12, <1>14

\* The rows are those of the group.
Good(r, g, failover) ==
  /\ Group(g) /\ Zero(g) /\ Held(r, g, {})
  /\ \E p \in DOMAIN g : C!IsPrimary(g[p]) /\ g[p].id # None /\ (~failover => g[p].role = "primary")

\* citus_remove_node
LEMMA RemovedBy ==
  ASSUME NEW t, State(t), NEW ns, NEW u \in C!citus_remove_node(t, ns)
  PROVE  /\ State(u) /\ u.old = t.old /\ u.new = t.new /\ u.failover = t.failover
         /\ u.gone = t.gone /\ u.added = t.added /\ (u.ok => t.ok)
         /\ DOMAIN u.rows = {i \in DOMAIN t.rows : t.rows[i].name \notin ns}
         /\ \A i \in DOMAIN u.rows : u.rows[i] = t.rows[i]
<1> DEFINE ok == t.ok /\ \A n \in ns : C!Named(t.rows, n) # {}
           rs == [id \in {i \in DOMAIN t.rows : t.rows[i].name \notin ns} |-> t.rows[id]]
           se == t.sent + C!Cardinality(ns)
<1>1. u = [t EXCEPT !.ok = ok, !.rows = rs, !.sent = se]
  BY Zenon DEF C!citus_remove_node
<1>2. PICK o1, r1, s1 : o1 = ok /\ r1 = rs /\ s1 = se
  <2> HIDE DEF ok, rs, se
  <2> QED
    OBVIOUS
<1>3. DOMAIN r1 = {i \in DOMAIN t.rows : t.rows[i].name \notin ns} /\ r1 = [i \in DOMAIN r1 |-> r1[i]]
      /\ \A i \in DOMAIN r1 : r1[i] = t.rows[i]
  BY <1>2
<1>4. o1 \in BOOLEAN /\ (o1 => t.ok)
  BY <1>2
<1> HIDE DEF ok, rs, se
<1>5. u = [old |-> t.old, new |-> t.new, failover |-> t.failover, rows |-> r1, ok |-> o1,
           sent |-> s1, gone |-> t.gone, added |-> t.added]
  BY <1>1, <1>2, Zenon DEF State
<1>6. /\ u.old = t.old /\ u.new = t.new /\ u.failover = t.failover /\ u.rows = r1 /\ u.ok = o1
      /\ u.sent = s1 /\ u.gone = t.gone /\ u.added = t.added
  BY <1>5
<1>7. DOMAIN r1 \subseteq DOMAIN t.rows /\ (o1 => Table(r1))
  BY <1>3, <1>4 DEF State, Table
<1>8. State(u)
  <2>1. u = [old |-> u.old, new |-> u.new, failover |-> u.failover, rows |-> u.rows, ok |-> u.ok,
             sent |-> u.sent, gone |-> u.gone, added |-> u.added]
    BY <1>5, <1>6
  <2> QED
    BY <1>4, <1>6, <1>7, <2>1 DEF State
<1> QED
  BY <1>3, <1>4, <1>6, <1>8

Ended(u, q, role) ==
  /\ Group(u.new) /\ Group(u.old) /\ u.failover \in BOOLEAN /\ u.ok \in BOOLEAN
  /\ u.ok => Table(u.rows)
  /\ q \in DOMAIN u.new /\ C!IsPrimary(u.new[q]) /\ u.new[q].role = role

LEMMA LeftAsIs ==
  ASSUME CitusAssumption, NEW t, NEW q, NEW role, Promoted(t, q, role), t.failover = TRUE,
         NEW u \in C!AddRemove(t)
  PROVE  Ended(u, q, role) /\ (Full(t, q) /\ u.ok => Good(u.rows, u.new, u.failover))
<1>1. State(t) /\ q \in DOMAIN t.new /\ C!IsPrimary(t.new[q]) /\ t.new[q].role = role
      /\ (\A n \in t.added : t.new[n].id = None) /\ Group(t.old) /\ Group(t.new)
      /\ t.gone \cap DOMAIN t.new = {} /\ t.added \subseteq DOMAIN t.new /\ t.gone \subseteq DOMAIN t.old
      /\ \A n \in t.added : t.new[n].role = "secondary"
  BY DEF Promoted, State
<1>2. PICK g : g = [n \in (DOMAIN t.new \ t.added) \cup t.gone |-> IF n \in DOMAIN t.new THEN t.new[n] ELSE t.old[n]]
  OBVIOUS
<1>3. u = [t EXCEPT !.new = g]
  BY <1>2, Zenon DEF C!AddRemove
<1>4. u = [old |-> t.old, new |-> g, failover |-> t.failover, rows |-> t.rows, ok |-> t.ok,
           sent |-> t.sent, gone |-> t.gone, added |-> t.added]
  BY <1>1, <1>3, Zenon DEF State
<1>5. /\ u.old = t.old /\ u.new = g /\ u.failover = t.failover /\ u.rows = t.rows /\ u.ok = t.ok
  BY <1>4
<1>6. PICK v : v = Kept(t)
  OBVIOUS
<1>7. Group(v) /\ DOMAIN v = DOMAIN t.new \cup t.gone
      /\ \A n \in DOMAIN v : v[n] = IF n \in t.gone THEN t.old[n] ELSE t.new[n]
  BY <1>1, <1>6, KeptIs, KeptGroup
<1>8. DOMAIN g = DOMAIN v \ t.added /\ g = [n \in DOMAIN g |-> g[n]] /\ \A n \in DOMAIN g : g[n] = v[n]
  <2>1. DOMAIN g = DOMAIN v \ t.added /\ g = [n \in DOMAIN g |-> g[n]]
    BY <1>1, <1>2, <1>7
  <2>2. \A n \in DOMAIN g : g[n] = IF n \in DOMAIN t.new THEN t.new[n] ELSE t.old[n]
    BY <1>2
  <2> QED
    BY <1>1, <1>7, <2>1, <2>2
<1>9. Group(g)
  BY <1>7, <1>8 DEF Group
<1>10. q \in DOMAIN g /\ g[q] = t.new[q]
  BY <1>1, <1>7, <1>8 DEF C!IsPrimary
<1>11. Ended(u, q, role)
  BY <1>1, <1>5, <1>9, <1>10 DEF Ended, State
<1>12. ASSUME Full(t, q), u.ok PROVE Good(u.rows, u.new, u.failover)
  <2>1. Held(t.rows, v, {}) /\ Table(t.rows)
    BY <1>1, <1>5, <1>6, <1>12 DEF Full, State
  <2>2. Apart(v)
    BY <1>7, <2>1, UniqueIds
  <2>3. IdsOf(v, t.added) = {}
    BY <1>1, <1>7 DEF IdsOf
  <2>4. Held(t.rows, g, {} \cup IdsOf(v, t.added))
    <3>1. None \notin DOMAIN t.rows /\ t.added \in SUBSET DOMAIN v
      BY <1>1, <1>7 DEF State, CitusAssumption
    <3> QED
      BY <1>8, <2>1, <2>2, <3>1, DropHeld
  <2>5. Held(u.rows, g, {})
    BY <1>5, <2>3, <2>4
  <2>6. Zero(g)
    BY <1>7, <1>8, <1>12 DEF Full, Zero
  <2> QED
    BY <1>1, <1>5, <1>9, <1>10, <1>12, <2>5, <2>6 DEF Good, Full
<1> QED
  BY <1>11, <1>12

LEMMA AddedAndRemoved ==
  ASSUME CitusAssumption, NEW t, NEW q, NEW role, Promoted(t, q, role), t.failover = FALSE,
         NEW u \in C!AddRemove(t)
  PROVE  Ended(u, q, role) /\ (Full(t, q) /\ u.ok => Good(u.rows, u.new, u.failover))
<1>1. State(t) /\ q \in DOMAIN t.new /\ C!IsPrimary(t.new[q]) /\ t.new[q].role = role
      /\ (\A n \in t.added : t.new[n].id = None) /\ Group(t.old) /\ Group(t.new)
      /\ t.gone \cap DOMAIN t.new = {} /\ t.added \subseteq DOMAIN t.new /\ t.gone \subseteq DOMAIN t.old
      /\ \A n \in t.added : t.new[n].role = "secondary"
  BY DEF Promoted, State
<1> DEFINE out(v) == C!update_node(v, C!Restrict(t.new, t.added))
<1>2. u \in UNION {out(v) : v \in C!citus_remove_node(t, t.gone)}
  BY Zenon DEF C!AddRemove
<1>3. PICK v \in C!citus_remove_node(t, t.gone) : u \in out(v)
  <2> HIDE DEF out
  <2> QED
    BY <1>2
<1>4. PICK nodes : nodes = C!Restrict(t.new, t.added)
  OBVIOUS
<1>5. u \in C!update_node(v, nodes)
  BY <1>3, <1>4
<1> HIDE DEF out
<1>6. /\ State(v) /\ v.old = t.old /\ v.new = t.new /\ v.failover = t.failover
      /\ v.gone = t.gone /\ v.added = t.added /\ (v.ok => t.ok)
      /\ DOMAIN v.rows = {i \in DOMAIN t.rows : t.rows[i].name \notin t.gone}
      /\ \A i \in DOMAIN v.rows : v.rows[i] = t.rows[i]
  BY <1>1, <1>3, RemovedBy
<1>7. DOMAIN nodes = t.added /\ nodes = [n \in DOMAIN nodes |-> nodes[n]] /\ \A n \in t.added : nodes[n] = t.new[n]
  BY <1>4 DEF C!Restrict
<1>8. Group(nodes)
  BY <1>1, <1>7 DEF Group
<1>9. Ids(nodes) = {} /\ Apart(nodes) /\ Adds(nodes) = t.added
  BY <1>1, <1>7 DEF Ids, Apart, Adds
<1>10. State(u) /\ Sent(v, nodes, u)
  BY <1>5, <1>6, <1>8, SentBy
<1>11. /\ u.old = t.old /\ u.failover = FALSE /\ DOMAIN u.new = DOMAIN t.new
       /\ \A n \in DOMAIN t.new : u.new[n].role = t.new[n].role /\ (n \notin t.added => u.new[n] = t.new[n])
       /\ u.ok => v.ok
  BY <1>6, <1>9, <1>10 DEF Sent
<1>12. q \notin t.added /\ u.new[q] = t.new[q]
  BY <1>1, <1>11 DEF C!IsPrimary
<1>13. Ended(u, q, role)
  BY <1>1, <1>10, <1>11, <1>12 DEF Ended, State
<1>14. ASSUME Full(t, q), u.ok PROVE Good(u.rows, u.new, u.failover)
  <2>1. t.ok /\ v.ok /\ Held(t.rows, Kept(t), {}) /\ Table(t.rows) /\ Table(v.rows)
    BY <1>1, <1>6, <1>11, <1>14 DEF Full, State
  <2>2. PICK k : k = Kept(t)
    OBVIOUS
  <2>3. DOMAIN k = DOMAIN t.new \cup t.gone
        /\ \A n \in DOMAIN k : k[n] = IF n \in t.gone THEN t.old[n] ELSE t.new[n]
    BY <2>2, KeptIs
  <2>4. \A n \in DOMAIN k : k[n].role # "demoted" /\ n \in Name
    <3>1. t.new[q].role = "primary"
      BY <1>14 DEF Full
    <3>2. \A n \in DOMAIN t.new : t.new[n].role # "demoted"
      BY <1>1, <3>1 DEF Group, C!IsPrimary
    <3>3. \A n \in t.gone : t.old[n].role = "secondary"
      BY <1>1 DEF State
    <3> QED
      BY <1>1, <2>3, <3>2, <3>3 DEF Group
  <2>5. \A n \in DOMAIN k : k[n].id # None =>
          /\ k[n].id \in DOMAIN t.rows /\ Holds(t.rows[k[n].id], n, k[n]) /\ t.rows[k[n].id].name = n
    <3> SUFFICES ASSUME NEW n \in DOMAIN k, k[n].id # None
                 PROVE  /\ k[n].id \in DOMAIN t.rows /\ Holds(t.rows[k[n].id], n, k[n])
                        /\ t.rows[k[n].id].name = n
      OBVIOUS
    <3>1. k[n].id \in DOMAIN t.rows /\ Holds(t.rows[k[n].id], n, k[n])
      BY <2>1, <2>2 DEF Held
    <3>2. Written(n, k[n]) = n
      BY <2>4, WrittenIs
    <3> QED
      BY <3>1, <3>2 DEF Holds
  <2>6. Held(v.rows, t.new, {})
    <3>1. ASSUME NEW n \in DOMAIN t.new, t.new[n].id # None
          PROVE  t.new[n].id \in DOMAIN v.rows \ {} /\ Holds(v.rows[t.new[n].id], n, t.new[n])
      <4>1. n \in DOMAIN k /\ k[n] = t.new[n] /\ n \notin t.gone
        BY <1>1, <2>3
      <4>2. t.new[n].id \in DOMAIN t.rows /\ t.rows[t.new[n].id].name = n /\ Holds(t.rows[t.new[n].id], n, t.new[n])
        BY <2>5, <3>1, <4>1
      <4> QED
        BY <1>6, <4>1, <4>2
    <3>2. ASSUME NEW i \in DOMAIN v.rows \ {} PROVE \E n \in DOMAIN t.new : t.new[n].id = i
      <4>1. i \in DOMAIN t.rows /\ t.rows[i].name \notin t.gone
        BY <1>6
      <4>2. PICK n \in DOMAIN k : k[n].id = i
        BY <2>1, <2>2, <4>1 DEF Held
      <4>3. i # None
        BY <2>1, <4>1 DEF Table, CitusAssumption
      <4>4. n \notin t.gone
        BY <2>5, <4>1, <4>2, <4>3
      <4> QED
        BY <2>3, <4>2, <4>4
    <3> QED
      BY <3>1, <3>2 DEF Held
  <2>7. Zero(t.new) /\ Zero(u.new)
    BY <1>11, <1>14 DEF Full, Zero
  <2>8. ASSUME NEW n \in DOMAIN nodes
        PROVE  /\ n \in DOMAIN t.new => t.new[n].id = None
               /\ nodes[n].id # None => (v.rows[nodes[n].id].role = "primary" <=> C!IsPrimary(nodes[n]))
               /\ nodes[n].id = None =>
                    /\ nodes[n].role # "demoted" /\ n \in DOMAIN v.new /\ C!Named(v.rows, n) = {}
                    /\ \A m \in DOMAIN nodes : Written(m, nodes[m]) = n => m = n
               /\ u.new[n].role = nodes[n].role
               /\ u.new[n].id = IF nodes[n].id = None THEN u.new[n].id ELSE nodes[n].id
    <3>1. n \in t.added /\ n \in DOMAIN t.new /\ nodes[n] = t.new[n] /\ nodes[n].id = None /\ nodes[n].role = "secondary"
          /\ n \in Name
      BY <1>1, <1>7 DEF Group
    <3>2. C!Named(v.rows, n) = {}
      <4>1. \A i \in {} : v.rows[i].name # n
        OBVIOUS
      <4>2. n[2] = 0 /\ DOMAIN t.new \subseteq Name
        BY <1>1, <2>7, <3>1 DEF Zero, Group
      <4> QED
        BY <2>1, <2>6, <2>7, <3>1, <4>1, <4>2, FreshBy
    <3>3. \A m \in DOMAIN nodes : Written(m, nodes[m]) = m
      <4> SUFFICES ASSUME NEW m \in DOMAIN nodes PROVE Written(m, nodes[m]) = m
        OBVIOUS
      <4>1. m \in Name /\ nodes[m].role = "secondary"
        BY <1>1, <1>7 DEF Group
      <4> QED
        BY <4>1, WrittenIs
    <3> QED
      BY <1>6, <1>11, <3>1, <3>2, <3>3
  <2>9. Fits(v, nodes, u, t.new, u.new)
    BY <1>1, <1>7, <1>11, <2>8 DEF Fits
  <2>10. Held(u.rows, u.new, {} \ Ids(nodes))
    BY <1>5, <1>6, <1>8, <1>9, <1>14, <2>6, <2>9, HeldBy
  <2>11. Held(u.rows, u.new, {})
    BY <1>9, <2>10
  <2>12. Group(u.new) /\ q \in DOMAIN u.new /\ u.new[q] = t.new[q]
    BY <1>1, <1>10, <1>11, <1>12 DEF State
  <2>13. t.new[q].id # None /\ t.new[q].role = "primary"
    BY <1>14 DEF Full
  <2>14. \E p \in DOMAIN u.new : C!IsPrimary(u.new[p]) /\ u.new[p].id # None /\ (~u.failover => u.new[p].role = "primary")
    BY <1>1, <2>12, <2>13
  <2> QED
    BY <2>7, <2>11, <2>12, <2>14 DEF Good
<1> QED
  BY <1>13, <1>14

\* transition: how it goes, and what comes of it.
Goes(new, old, failover, r, t, w, f, v, u) ==
  /\ t = C!Begin(new, old, failover, r) /\ w \in C!Promote(t) /\ f = C!FillIds(w)
  /\ v \in C!Reuse(f) /\ u \in C!AddRemove(v)

LEMMA TransitionGoes ==
  ASSUME NEW new, NEW old, NEW failover, NEW r, NEW u \in C!transition(new, old, failover, r)
  PROVE  \E t, w, f, v : Goes(new, old, failover, r, t, w, f, v, u)
<1>1. PICK t : t = C!Begin(new, old, failover, r)
  OBVIOUS
<1> DEFINE promoted == UNION {C!Promote(s) : s \in {t}}
           reused == UNION {C!Reuse(s) : s \in {C!FillIds(x) : x \in promoted}}
<1>2. u \in UNION {C!AddRemove(s) : s \in reused}
  BY <1>1, Zenon DEF C!transition
<1>3. PICK v \in reused : u \in C!AddRemove(v)
  <2> HIDE DEF reused
  <2> QED
    BY <1>2, Zenon
<1>4. PICK f \in {C!FillIds(x) : x \in promoted} : v \in C!Reuse(f)
  <2> HIDE DEF promoted
  <2> QED
    BY <1>3, Zenon
<1>5. PICK w \in promoted : f = C!FillIds(w)
  <2> HIDE DEF promoted
  <2> QED
    BY <1>4, Zenon
<1>6. w \in C!Promote(t)
  BY <1>5, Zenon
<1> QED
  BY <1>1, <1>3, <1>4, <1>5, <1>6, Zenon DEF Goes

TransitionEnds(new, old, failover, r, u) ==
  /\ Ended(u, PrimaryOf(new), new[PrimaryOf(new)].role)
  /\ Good(r, old, failover) /\ u.ok => Good(u.rows, u.new, u.failover)

LEMMA TransitionBy ==
  ASSUME CitusAssumption, NEW new, Fresh(new), NEW old, Group(old), NEW failover \in BOOLEAN,
         NEW r, Table(r), NEW u \in C!transition(new, old, failover, r)
  PROVE  TransitionEnds(new, old, failover, r, u)
<1>1. PICK t, w, f, v : Goes(new, old, failover, r, t, w, f, v, u)
  BY TransitionGoes
<1>2. PICK p, q, role : p = PrimaryOf(old) /\ q = PrimaryOf(new) /\ role = new[PrimaryOf(new)].role
  OBVIOUS
<1>3. Begins(t, new, old, failover, r)
  BY <1>1, BeginBy DEF Goes
<1>4. /\ Promoted(w, q, role)
      /\ p # None /\ InStep(t, p) => Synced(w, q)
  BY <1>1, <1>2, PromoteBy DEF Goes
<1>5. /\ Promoted(f, q, role) /\ (Synced(w, q) => Full(f, q)) /\ f.rows = w.rows /\ f.ok = w.ok
      /\ f.gone = w.gone /\ f.failover = w.failover /\ f.old = w.old /\ DOMAIN f.new = DOMAIN w.new
  BY <1>1, <1>4, FillBy DEF Goes
<1>6. /\ Promoted(v, q, role) /\ (Full(f, q) => Full(v, q)) /\ v.failover = f.failover
      /\ v.gone \subseteq f.gone /\ v.old = f.old /\ DOMAIN v.new = DOMAIN f.new
  BY <1>1, <1>5, ReuseBy DEF Goes
<1>7. Ended(u, q, role) /\ (Full(v, q) /\ u.ok => Good(u.rows, u.new, u.failover))
  <2>1. u \in C!AddRemove(v) /\ v.failover \in BOOLEAN
    BY <1>1, <1>6 DEF Goes, Promoted, State
  <2>2. CASE v.failover = TRUE
    BY <1>6, <2>1, <2>2, LeftAsIs
  <2>3. CASE v.failover = FALSE
    BY <1>6, <2>1, <2>3, AddedAndRemoved
  <2> QED
    BY <2>1, <2>2, <2>3
<1>8. ASSUME Good(r, old, failover), u.ok PROVE Good(u.rows, u.new, u.failover)
  <2>1. PICK n \in DOMAIN old : C!IsPrimary(old[n]) /\ old[n].id # None /\ (~failover => old[n].role = "primary")
    BY <1>8 DEF Good
  <2>2. p # None /\ p \in DOMAIN old /\ C!IsPrimary(old[p])
    BY <1>2, <2>1, PrimaryIs DEF PrimaryOf
  <2>3. n = p
    BY <2>1, <2>2 DEF Group
  <2>4. InStep(t, p)
    BY <1>3, <1>8, <2>1, <2>3 DEF InStep, Begins, Good, Fresh
  <2> QED
    BY <1>4, <1>5, <1>6, <1>7, <1>8, <2>2, <2>4
<1> QED
  BY <1>2, <1>7, <1>8 DEF TransitionEnds

-----------------------------------------------------------------------------
\* The tasks, and what holds between the steps of the thread and the events around it.
TaskOf(t) ==
  /\ t = [event |-> t.event, rest |-> t.rest, failover |-> t.failover, nodes |-> t.nodes]
  /\ Group(t.nodes) /\ t.failover \in BOOLEAN
FreshTask(t) ==
  /\ TaskOf(t) /\ t.failover = FALSE /\ Fresh(t.nodes)
  /\ t.event = "after_promote" => t.nodes[PrimaryOf(t.nodes)].role = "primary"
QueueOf(s) == s = [task |-> s.task, other |-> s.other] /\ (s.task = None \/ FreshTask(s.task)) /\ s.other \in BOOLEAN
JobOf(s) ==
  /\ s = [task |-> s.task, done |-> s.done, queued |-> s.queued]
  /\ TaskOf(s.task) /\ s.done \in {"picked", "failed", "opened", "closed"}
  /\ s.done = "picked" => FreshTask(s.task)
WorkerOf(s) ==
  s = [leader |-> s.leader, ready |-> s.ready, up |-> s.up] /\ s.leader \in Host \cup {None} /\ s.up \subseteq Host

CitusType ==
  /\ WorkerOf(worker) /\ QueueOf(queue)
  /\ C!Ours => TaskOf(flight)
  /\ job = None \/ JobOf(job)
  /\ cache = None \/ Group(cache)
  /\ Table(table) /\ (open = None \/ Table(open))
  /\ leads \in BOOLEAN /\ mixed \in BOOLEAN /\ load \in BOOLEAN

Opened == job # None /\ job.done = "opened"
Still == job = None \/ job.done = "picked"

\* A transaction is open from the task that opens it to the one that closes it.
Working ==
  /\ job # None => flight # Other
  /\ job # None /\ job.done = "failed" => load
  /\ ~leads => flight = None /\ cache = None /\ ~C!Queued
  /\ leads /\ job # None => C!Queued
  /\ leads => (open # None <=> Opened \/ (C!Ours /\ Still))

\* The rows, as the connection sees them, are those of the topology the next task starts from.
InSync ==
  ~mixed =>
    /\ C!Whole(table)
    /\ leads /\ Still /\ ~C!Ours /\ (job = None => ~load) => cache # None /\ Good(table, cache, FALSE)
    /\ leads /\ Still /\ C!Ours => Good(open, flight.nodes, flight.failover)
    /\ leads /\ job # None /\ job.done = "closed" => Good(table, job.task.nodes, FALSE)
    /\ leads /\ Opened => Good(open, job.task.nodes, job.task.failover)

CitusInvariant == CitusType /\ Working /\ InSync

LEMMA RecordsAreThere ==
  ASSUME CitusAssumption
  PROVE  /\ \A t : TaskOf(t) => t # None /\ t # Other
         /\ \A s : JobOf(s) => s # None
         /\ \A g : Group(g) => g # None
         /\ \A r : Table(r) => r # None
<1>1. ASSUME NEW t, t = None \/ t = Other PROVE ~(t = [x \in DOMAIN t |-> t[x]])
  BY <1>1 DEF CitusAssumption, NoFunction
<1>2. ASSUME NEW t, TaskOf(t) PROVE t = [x \in DOMAIN t |-> t[x]]
  BY <1>2, Zenon DEF TaskOf
<1>3. ASSUME NEW s, JobOf(s) PROVE s = [x \in DOMAIN s |-> s[x]]
  BY <1>3, Zenon DEF JobOf
<1> QED
  BY <1>1, <1>2, <1>3 DEF Group, Table

\* A topology in sync whose primary runs as one leaves the table whole.
LEMMA GoodIsWhole ==
  ASSUME CitusAssumption, NEW r, Table(r), NEW g, Good(r, g, FALSE)
  PROVE  C!Whole(r)
<1>1. PICK p \in DOMAIN g : C!IsPrimary(g[p]) /\ g[p].id # None /\ g[p].role = "primary"
  BY DEF Good
<1>2. g[p].id \in DOMAIN r /\ r[g[p].id].role = "primary"
  BY <1>1 DEF Good, Held, Holds, Table
<1>3. ASSUME NEW i \in DOMAIN r PROVE r[i].name[2] = 0
  <2>1. PICK n \in DOMAIN g : g[n].id = i
    BY DEF Good, Held
  <2>2. i # None
    BY DEF Table, CitusAssumption
  <2>3. Holds(r[i], n, g[n]) /\ n \in Name /\ n[2] = 0
    BY <2>1, <2>2 DEF Good, Held, Group, Zero
  <2>4. g[n].role # "demoted"
    BY <1>1 DEF Good, Group, C!IsPrimary
  <2> QED
    BY <2>3, <2>4, WrittenIs DEF Holds
<1> QED
  BY <1>2, <1>3 DEF C!Whole

\* What was read is what is there.
IsRead(r, g) ==
  /\ DOMAIN g = {r[id].name : id \in DOMAIN r} /\ g = [n \in DOMAIN g |-> g[n]]
  /\ \A i \in DOMAIN r : r[i].name \in DOMAIN g /\ g[r[i].name].role = r[i].role /\ g[r[i].name].id = i
  /\ \A n \in DOMAIN g : \E i \in DOMAIN r : r[i].name = n /\ g[n] = C!Node(r[i].role, i)

LEMMA ReadBy ==
  ASSUME NEW r, Table(r), NEW g,
         g = [n \in {r[id].name : id \in DOMAIN r} |->
                 LET id == CHOOSE i \in DOMAIN r : r[i].name = n IN C!Node(r[id].role, id)]
  PROVE  IsRead(r, g)
<1>1. DOMAIN g = {r[id].name : id \in DOMAIN r} /\ g = [n \in DOMAIN g |-> g[n]]
  OBVIOUS
<1>2. ASSUME NEW i \in DOMAIN r
      PROVE  r[i].name \in DOMAIN g /\ g[r[i].name].role = r[i].role /\ g[r[i].name].id = i
  <2>1. PICK n : n = r[i].name
    OBVIOUS
  <2>2. PICK k : k = CHOOSE j \in DOMAIN r : r[j].name = n
    OBVIOUS
  <2>3. k = i
    BY <2>1, <2>2 DEF Table
  <2>4. n \in DOMAIN g /\ g[n] = C!Node(r[k].role, k)
    BY <2>1, <2>2
  <2> QED
    BY <2>1, <2>3, <2>4 DEF C!Node
<1>3. ASSUME NEW n \in DOMAIN g
      PROVE \E i \in DOMAIN r : r[i].name = n /\ g[n] = C!Node(r[i].role, i)
  <2>1. PICK i \in DOMAIN r : r[i].name = n
    BY <1>1
  <2>2. PICK k : k = CHOOSE j \in DOMAIN r : r[j].name = n
    OBVIOUS
  <2>3. k \in DOMAIN r /\ r[k].name = n
    BY <2>1, <2>2
  <2>4. g[n] = C!Node(r[k].role, k)
    BY <2>2
  <2> QED
    BY <2>3, <2>4
<1> QED
  BY <1>1, <1>2, <1>3 DEF IsRead

LEMMA ReadIsGood ==
  ASSUME CitusAssumption, NEW r, Table(r), NEW g, IsRead(r, g)
  PROVE  Group(g) /\ (C!Whole(r) => Good(r, g, FALSE))
<1>1. ASSUME NEW i \in DOMAIN r
      PROVE  /\ r[i].name \in DOMAIN g /\ g[r[i].name].role = r[i].role /\ g[r[i].name].id = i
             /\ r[i].name \in Name /\ r[i].role \in {"primary", "secondary"} /\ i \in Nat /\ i # None
  BY DEF IsRead, Table, CitusAssumption
<1>2. ASSUME NEW n \in DOMAIN g
      PROVE  \E i \in DOMAIN r : /\ r[i].name = n /\ g[n] = [role |-> r[i].role, id |-> i]
                                 /\ g[n].id = i /\ g[n].role = r[i].role
  BY DEF IsRead, C!Node
<1>3. ASSUME NEW n \in DOMAIN g PROVE n \in Name /\ g[n] \in NodeOf /\ g[n].role # "demoted"
  <2>1. PICK i \in DOMAIN r : r[i].name = n /\ g[n] = [role |-> r[i].role, id |-> i]
    BY <1>2
  <2>2. n \in Name /\ r[i].role \in {"primary", "secondary"} /\ i \in Nat
    BY <1>1, <2>1
  <2> QED
    BY <2>1, <2>2 DEF NodeOf
<1>4. Group(g)
  <2>1. ASSUME NEW m \in DOMAIN g, NEW n \in DOMAIN g, C!IsPrimary(g[m]), C!IsPrimary(g[n]) PROVE m = n
    <3>1. PICK i \in DOMAIN r : r[i].name = m /\ g[m].role = r[i].role
      BY <1>2
    <3>2. PICK j \in DOMAIN r : r[j].name = n /\ g[n].role = r[j].role
      BY <1>2
    <3>3. r[i].role = "primary" /\ r[j].role = "primary"
      BY <1>1, <2>1, <3>1, <3>2 DEF C!IsPrimary
    <3> QED
      BY <3>1, <3>2, <3>3 DEF Table
  <2>2. DOMAIN g \subseteq Name /\ g = [n \in DOMAIN g |-> g[n]]
    BY <1>3 DEF IsRead
  <2> QED
    BY <1>3, <2>1, <2>2 DEF Group
<1>5. ASSUME C!Whole(r) PROVE Good(r, g, FALSE)
  <2>1. Zero(g)
    <3> SUFFICES ASSUME NEW n \in DOMAIN g PROVE n[2] = 0
      BY DEF Zero
    <3> QED
      BY <1>2, <1>5 DEF C!Whole
  <2>2. ASSUME NEW n \in DOMAIN g, g[n].id # None
        PROVE  g[n].id \in DOMAIN r \ {} /\ Holds(r[g[n].id], n, g[n])
    <3>1. PICK i \in DOMAIN r : r[i].name = n /\ g[n].id = i /\ g[n].role = r[i].role
      BY <1>2
    <3>2. r[i].role = g[n].role /\ g[n].role \in {"primary", "secondary"}
      BY <1>1, <3>1
    <3>3. Written(n, g[n]) = n
      BY <1>3, WrittenIs
    <3>4. r[i].role = "primary" <=> C!IsPrimary(g[n])
      BY <3>2 DEF C!IsPrimary
    <3> QED
      BY <3>1, <3>3, <3>4 DEF Holds
  <2>3. ASSUME NEW i \in DOMAIN r \ {} PROVE \E n \in DOMAIN g : g[n].id = i
    BY <1>1
  <2>4. Held(r, g, {})
    BY <2>2, <2>3 DEF Held
  <2>5. PICK i \in DOMAIN r : r[i].role = "primary"
    BY <1>5 DEF C!Whole
  <2>6. PICK p \in DOMAIN g : p = r[i].name /\ g[p].id = i /\ g[p].role = "primary"
    BY <1>1, <2>5
  <2>7. C!IsPrimary(g[p]) /\ g[p].id # None
    BY <1>1, <2>6 DEF C!IsPrimary
  <2> QED
    BY <1>4, <2>1, <2>4, <2>6, <2>7 DEF Good
<1> QED
  BY <1>4, <1>5, Zenon

LEMMA TaskIsFresh ==
  ASSUME CitusAssumption, WorkerOf(worker), worker.leader # None, NEW event, NEW rest
  PROVE  FreshTask(C!Task(event, rest))
<1>1. PICK q : q = C!Name(worker.leader)
  OBVIOUS
<1>2. q \in Name /\ q[2] = 0
  BY <1>1 DEF C!Name, WorkerOf, Name
<1>3. PICK role : role = (IF event = "before_demote" THEN "demoted" ELSE "primary")
  OBVIOUS
<1>4. PICK ns : ns = {C!Name(h) : h \in worker.up}
  OBVIOUS
<1>5. \A n \in ns : n \in Name /\ n[2] = 0
  BY <1>4 DEF C!Name, WorkerOf, Name
<1>6. PICK s : s = [n \in ns |-> C!Node("secondary", None)]
  OBVIOUS
<1>7. PICK g : g = C!With(s, q, C!Node(role, None))
  OBVIOUS
<1>8. C!Task(event, rest) = [event |-> event, rest |-> rest, failover |-> FALSE, nodes |-> g]
  BY <1>1, <1>3, <1>4, <1>6, <1>7, Zenon DEF C!Task
<1>8a. DOMAIN g = ns \cup {q} /\ g = [n \in DOMAIN g |-> g[n]]
  BY <1>6, <1>7 DEF C!With
<1>8b. \A n \in DOMAIN g : g[n] = IF n = q THEN C!Node(role, None) ELSE C!Node("secondary", None)
  BY <1>6, <1>7 DEF C!With
<1>9. \A n \in DOMAIN g : g[n].id = None /\ g[n].role = (IF n = q THEN role ELSE "secondary")
  BY <1>8b DEF C!Node
<1>10. /\ q \in DOMAIN g /\ g[q].role = role /\ role \in {"primary", "demoted"}
       /\ event = "after_promote" => role = "primary"
  BY <1>3, <1>8a, <1>9
<1>11. \A n \in DOMAIN g : n \in Name /\ n[2] = 0 /\ g[n].id = None /\ (n # q => g[n].role = "secondary")
  BY <1>2, <1>5, <1>8a, <1>9
<1>12. \A n \in DOMAIN g : g[n] \in NodeOf
  BY <1>8b, <1>10 DEF NodeOf, C!Node
<1>13. Group(g)
  BY <1>8a, <1>9, <1>10, <1>11, <1>12 DEF Group, C!IsPrimary
<1>14. C!IsPrimary(g[q])
  BY <1>10 DEF C!IsPrimary
<1>15. C!Primary(g) # None
  BY <1>10, <1>13, <1>14, PrimaryIs
<1>16. C!Primary(g) \in DOMAIN g /\ C!IsPrimary(g[C!Primary(g)])
  BY <1>13, <1>15, PrimaryIs
<1>17. C!Primary(g) = q
  BY <1>10, <1>13, <1>14, <1>16 DEF Group
<1>18. Fresh(g)
  BY <1>11, <1>13, <1>16 DEF Fresh, Zero
<1>19. PICK t : t = [event |-> event, rest |-> rest, failover |-> FALSE, nodes |-> g]
  OBVIOUS
<1>20. t.event = event /\ t.rest = rest /\ t.failover = FALSE /\ t.nodes = g
  BY <1>19
<1>21. TaskOf(t)
  BY <1>13, <1>19, <1>20 DEF TaskOf
<1>22. FreshTask(t)
  BY <1>10, <1>17, <1>18, <1>20, <1>21 DEF FreshTask, PrimaryOf
<1> QED
  BY <1>8, <1>19, <1>22

LEMMA QueuePut ==
  ASSUME NEW s, QueueOf(s), NEW t, NEW u, u = [s EXCEPT !.task = t]
  PROVE  u.task = t /\ u.other = s.other /\ (t = None \/ FreshTask(t) => QueueOf(u))
<1>1. u = [task |-> t, other |-> s.other]
  BY Zenon DEF QueueOf
<1>2. u.task = t /\ u.other = s.other
  BY <1>1
<1> QED
  BY <1>1, <1>2 DEF QueueOf

LEMMA QueueOther ==
  ASSUME NEW s, QueueOf(s), NEW v \in BOOLEAN, NEW u, u = [s EXCEPT !.other = v]
  PROVE  u.task = s.task /\ u.other = v /\ QueueOf(u)
<1>1. u = [task |-> s.task, other |-> v]
  BY Zenon DEF QueueOf
<1>2. u.task = s.task /\ u.other = v
  BY <1>1
<1> QED
  BY <1>1, <1>2 DEF QueueOf

LEMMA JobForgotten ==
  ASSUME NEW s, JobOf(s), NEW u, u = [s EXCEPT !.queued = FALSE]
  PROVE  JobOf(u) /\ u.task = s.task /\ u.done = s.done
<1>1. u = [task |-> s.task, done |-> s.done, queued |-> FALSE]
  BY Zenon DEF JobOf
<1>2. u.task = s.task /\ u.done = s.done /\ u.queued = FALSE
  BY <1>1
<1> QED
  BY <1>1, <1>2 DEF JobOf

LEMMA JobFails ==
  ASSUME NEW s, JobOf(s), NEW u, u = [s EXCEPT !.done = "failed"]
  PROVE  JobOf(u) /\ u.done = "failed"
<1>1. u = [task |-> s.task, done |-> "failed", queued |-> s.queued]
  BY Zenon DEF JobOf
<1>2. u.task = s.task /\ u.done = "failed" /\ u.queued = s.queued
  BY <1>1
<1> QED
  BY <1>1, <1>2 DEF JobOf

JobPut(s, d, g, f) == [s EXCEPT !.done = d, !.task.nodes = g, !.task.failover = f]

JobHas(s, d, g, f) == JobOf(s) /\ s.done = d /\ s.task.nodes = g /\ s.task.failover = f

LEMMA JobSent ==
  ASSUME NEW s, JobOf(s), NEW d \in {"opened", "closed"}, NEW g, Group(g), NEW f, f \in BOOLEAN,
         NEW u, u = JobPut(s, d, g, f)
  PROVE  JobHas(u, d, g, f)
<1>1. PICK t : t = [s.task EXCEPT !.nodes = g, !.failover = f]
  OBVIOUS
<1>2. t = [event |-> s.task.event, rest |-> s.task.rest, failover |-> f, nodes |-> g]
  BY <1>1, Zenon DEF JobOf, TaskOf
<1>3. t.event = s.task.event /\ t.rest = s.task.rest /\ t.failover = f /\ t.nodes = g
  BY <1>2
<1>4. TaskOf(t)
  BY <1>2, <1>3 DEF TaskOf
<1>5. u = [[[s EXCEPT !.done = d] EXCEPT !.task = [@ EXCEPT !.nodes = g]] EXCEPT !.task = [@ EXCEPT !.failover = f]]
  BY DEF JobPut
<1>6. u = [task |-> t, done |-> d, queued |-> s.queued]
  BY <1>1, <1>5 DEF JobOf, TaskOf
<1>7. u.task = t /\ u.done = d /\ u.queued = s.queued
  <2> DEFINE v == [task |-> t, done |-> d, queued |-> s.queued]
  <2>1. v.task = t /\ v.done = d /\ v.queued = s.queued
    OBVIOUS
  <2>2. u = v
    BY <1>6, Zenon
  <2> HIDE DEF v
  <2> QED
    BY <2>1, <2>2, Zenon
<1> QED
  BY <1>3, <1>4, <1>6, <1>7 DEF JobOf, JobHas

LEMMA FlightOld ==
  ASSUME NEW s, TaskOf(s), NEW g, Group(g), NEW u, u = [s EXCEPT !.nodes = g]
  PROVE  TaskOf(u)
<1>1. u = [event |-> s.event, rest |-> s.rest, failover |-> s.failover, nodes |-> g]
  BY Zenon DEF TaskOf
<1>2. u.event = s.event /\ u.rest = s.rest /\ u.failover = s.failover /\ u.nodes = g
  BY <1>1
<1> QED
  BY <1>1, <1>2 DEF TaskOf

\* What a step leaves in place when the thread does nothing and nothing goes wrong.
TaskKept ==
  \/ job' = job
  \/ job # None /\ job' # None /\ JobOf(job') /\ job'.task = job.task /\ job'.done = job.done
RowsKept ==
  /\ flight' = flight /\ cache' = cache /\ table' = table /\ open' = open /\ leads' = leads
  /\ mixed' = mixed /\ TaskKept

LEMMA RowsKeptInSync ==
  ASSUME InSync, RowsKept, load' = load \/ load' = TRUE
  PROVE  InSync'
<1>1. Still' <=> Still
  BY DEF RowsKept, TaskKept, Still
<1>2. Opened' <=> Opened
  BY DEF RowsKept, TaskKept, Opened
<1>3. C!Ours' <=> C!Ours
  BY DEF RowsKept, C!Ours
<1>4. job = None <=> job' = None
  BY DEF RowsKept, TaskKept
<1>5. job # None => job'.task = job.task /\ job'.done = job.done
  BY DEF RowsKept, TaskKept
<1> QED
  BY <1>1, <1>2, <1>3, <1>4, <1>5 DEF InSync, RowsKept, Opened

\* A step that also leaves the tasks that wait as they are, or adds one.
LEMMA RowsKeptWorking ==
  ASSUME Working, RowsKept, load' = load \/ load' = TRUE, leads /\ C!Queued => C!Queued',
         ~leads => C!Queued' = C!Queued
  PROVE  Working'
<1>1. (Still' <=> Still) /\ (Opened' <=> Opened) /\ (C!Ours' <=> C!Ours)
  BY DEF RowsKept, TaskKept, Still, Opened, C!Ours
<1>2. job = None <=> job' = None
  BY DEF RowsKept, TaskKept
<1>3. job # None => job'.done = job.done
  BY DEF RowsKept, TaskKept
<1> QED
  BY <1>1, <1>2, <1>3 DEF Working, RowsKept

LEMMA RowsKeptType ==
  ASSUME CitusType, RowsKept, WorkerOf(worker)', QueueOf(queue)', load' \in BOOLEAN
  PROVE  CitusType'
<1>1. C!Ours' => TaskOf(flight')
  BY DEF RowsKept, C!Ours, CitusType
<1>2. job' = None \/ JobOf(job')
  BY DEF RowsKept, TaskKept, CitusType
<1> QED
  BY <1>1, <1>2 DEF CitusType, RowsKept

\* _add_task
LEMMA AddTaskKeeps ==
  ASSUME CitusAssumption, CitusInvariant, leads, NEW t, FreshTask(t), C!_add_task(t)
  PROVE  QueueOf(queue') /\ TaskKept /\ (C!Queued => C!Queued')
<1>1. t # None
  BY RecordsAreThere DEF FreshTask
<1>2. QueueOf(queue) /\ (job = None \/ JobOf(job))
  BY DEF CitusInvariant, CitusType
<1>3. CASE UNCHANGED <<queue, job>>
  BY <1>2, <1>3 DEF TaskKept, C!Queued
<1>4. CASE /\ queue' = [queue EXCEPT !.task = t]
           /\ job' = IF job = None THEN None ELSE [job EXCEPT !.queued = FALSE]
  <2>1. QueueOf(queue') /\ queue'.task = t
    BY <1>2, <1>4, QueuePut
  <2>2. TaskKept
    <3>1. CASE job = None
      BY <1>4, <3>1 DEF TaskKept
    <3>2. CASE job # None
      <4>1. JobOf(job)
        BY <1>2, <3>2
      <4>2. job' = [job EXCEPT !.queued = FALSE]
        BY <1>4, <3>2
      <4>3. JobOf(job') /\ job'.task = job.task /\ job'.done = job.done
        BY <4>1, <4>2, JobForgotten
      <4> QED
        BY <3>2, <4>3, RecordsAreThere DEF TaskKept
    <3> QED
      BY <3>1, <3>2
  <2> QED
    BY <1>1, <2>1, <2>2 DEF C!Queued
<1>5. CASE queue' = [queue EXCEPT !.task = t] /\ UNCHANGED job
  <2>1. QueueOf(queue') /\ queue'.task = t
    BY <1>2, <1>5, QueuePut
  <2> QED
    BY <1>1, <1>5, <2>1 DEF C!Queued, TaskKept
<1> QED
  BY <1>3, <1>4, <1>5, Zenon DEF C!_add_task

LEMMA AddsTask ==
  ASSUME CitusAssumption, CitusInvariant, leads, worker.leader # None, NEW e, NEW rest, C!_add_task(C!Task(e, rest)),
         worker' = worker, flight' = flight, cache' = cache, load' = load, table' = table, open' = open,
         leads' = leads, mixed' = mixed
  PROVE  CitusInvariant'
<1>1. FreshTask(C!Task(e, rest))
  BY TaskIsFresh DEF CitusInvariant, CitusType
<1>2. QueueOf(queue') /\ TaskKept /\ (C!Queued => C!Queued')
  BY <1>1, AddTaskKeeps
<1>3. RowsKept
  BY <1>2 DEF RowsKept
<1>4. WorkerOf(worker') /\ load' \in BOOLEAN
  BY DEF CitusInvariant, CitusType
<1>5. CitusType'
  BY <1>2, <1>3, <1>4, RowsKeptType DEF CitusInvariant
<1>6. Working'
  BY <1>2, <1>3, RowsKeptWorking DEF CitusInvariant
<1>7. InSync'
  BY <1>3, RowsKeptInSync DEF CitusInvariant
<1> QED
  BY <1>5, <1>6, <1>7 DEF CitusInvariant

LEMMA KeptAll ==
  ASSUME CitusInvariant, RowsKept, WorkerOf(worker)', QueueOf(queue)', load' = load \/ load' = TRUE,
         leads /\ C!Queued => C!Queued', ~leads => C!Queued' = C!Queued
  PROVE  CitusInvariant'
<1>1. CitusType'
  BY RowsKeptType DEF CitusInvariant, CitusType
<1>2. Working'
  BY RowsKeptWorking, Zenon DEF CitusInvariant
<1>3. InSync'
  BY RowsKeptInSync, Zenon DEF CitusInvariant
<1> QED
  BY <1>1, <1>2, <1>3 DEF CitusInvariant

LEMMA Stays ==
  ASSUME CitusAssumption, CitusInvariant,
         \/ C!OtherTask \/ C!Deadline \/ C!schedule_cache_rebuild \/ C!WorkerChanges \/ C!WorkerPromoted
         \/ UNCHANGED C!vars
  PROVE  CitusInvariant'
<1>1. WorkerOf(worker) /\ QueueOf(queue) /\ load \in BOOLEAN
  BY DEF CitusInvariant, CitusType
<1>2. CASE C!OtherTask
  <2>1. QueueOf(queue') /\ queue'.task = queue.task /\ queue'.other = TRUE
    BY <1>1, <1>2, QueueOther DEF C!OtherTask
  <2>2. RowsKept /\ worker' = worker /\ load' = load /\ leads
    BY <1>2 DEF C!OtherTask, RowsKept, TaskKept, C!rows
  <2>3. C!Queued'
    BY <2>1 DEF C!Queued
  <2> QED
    BY <1>1, <2>1, <2>2, <2>3, KeptAll
<1>3. CASE C!Deadline
  <2>1. RowsKept /\ worker' = worker /\ load' = load /\ queue' = queue
    BY <1>3 DEF C!Deadline, RowsKept, TaskKept, C!rows
  <2> QED
    BY <1>1, <2>1, KeptAll DEF C!Queued
<1>4. CASE C!schedule_cache_rebuild
  <2>1. RowsKept /\ worker' = worker /\ load' = TRUE /\ queue' = queue
    BY <1>4 DEF C!schedule_cache_rebuild, RowsKept, TaskKept, C!rows
  <2> QED
    BY <1>1, <2>1, KeptAll DEF C!Queued
<1>5. CASE C!WorkerChanges \/ C!WorkerPromoted
  <2>1. RowsKept /\ load' = load /\ queue' = queue
    BY <1>5 DEF C!WorkerChanges, C!WorkerPromoted, RowsKept, TaskKept, C!rows, C!tasks
  <2>2. WorkerOf(worker')
    <3>1. CASE C!WorkerPromoted
      <4>1. worker' = [leader |-> worker.leader, ready |-> TRUE, up |-> worker.up \cup {worker.leader}]
        BY <1>1, <3>1, Zenon DEF C!WorkerPromoted, WorkerOf
      <4>2. worker.leader \in Host
        BY <1>1, <3>1 DEF C!WorkerPromoted, WorkerOf
      <4>3. worker'.leader = worker.leader /\ worker'.ready = TRUE /\ worker'.up = worker.up \cup {worker.leader}
        BY <4>1
      <4> QED
        BY <1>1, <4>1, <4>2, <4>3 DEF WorkerOf
    <3>2. CASE \E h \in worker.up \cup {worker.leader, None}, u \in {worker.up, worker.up \ {worker.leader}} :
                 worker' = [leader |-> h, ready |-> FALSE, up |-> u]
      <4>1. PICK h \in worker.up \cup {worker.leader, None}, u \in {worker.up, worker.up \ {worker.leader}} :
                 worker' = [leader |-> h, ready |-> FALSE, up |-> u]
        BY <3>2
      <4>2. worker'.leader = h /\ worker'.ready = FALSE /\ worker'.up = u
        BY <4>1
      <4> QED
        BY <1>1, <4>1, <4>2 DEF WorkerOf
    <3>3. CASE \E h \in Host \ {worker.leader} :
                 worker' = [worker EXCEPT !.up = IF h \in @ THEN @ \ {h} ELSE @ \cup {h}]
      <4>1. PICK h \in Host \ {worker.leader} :
                 worker' = [worker EXCEPT !.up = IF h \in @ THEN @ \ {h} ELSE @ \cup {h}]
        BY <3>3
      <4>2. PICK u : u = IF h \in worker.up THEN worker.up \ {h} ELSE worker.up \cup {h}
        OBVIOUS
      <4>3. worker' = [worker EXCEPT !.up = u]
        BY <4>1, <4>2
      <4>4. worker' = [leader |-> worker.leader, ready |-> worker.ready, up |-> u]
        BY <1>1, <4>3, Zenon DEF WorkerOf
      <4>5. worker'.leader = worker.leader /\ worker'.ready = worker.ready /\ worker'.up = u
        BY <4>4
      <4> QED
        BY <1>1, <4>2, <4>4, <4>5 DEF WorkerOf
    <3> QED
      BY <1>5, <3>1, <3>2, <3>3, Zenon DEF C!WorkerChanges
  <2> QED
    BY <1>1, <2>1, <2>2, KeptAll DEF C!Queued
<1>6. CASE UNCHANGED C!vars
  <2>1. RowsKept /\ worker' = worker /\ load' = load /\ queue' = queue
    BY <1>6 DEF C!vars, RowsKept, TaskKept
  <2> QED
    BY <1>1, <2>1, KeptAll DEF C!Queued
<1> QED
  BY <1>2, <1>3, <1>4, <1>5, <1>6

LEMMA Reads ==
  ASSUME CitusAssumption, CitusInvariant, C!load_pg_dist_group
  PROVE  CitusInvariant'
<1>1. /\ leads /\ job = None /\ flight = None /\ load' = FALSE /\ mixed' = (mixed /\ ~C!Whole(table))
      /\ worker' = worker /\ queue' = queue /\ flight' = flight /\ job' = job /\ table' = table /\ open' = open
      /\ leads' = leads
      /\ cache' = [n \in {table[id].name : id \in DOMAIN table} |->
                     LET id == CHOOSE i \in DOMAIN table : table[i].name = n IN C!Node(table[id].role, id)]
  BY DEF C!load_pg_dist_group, C!rows
<1>2. Table(table)
  BY DEF CitusInvariant, CitusType
<1>3. PICK g : g = cache'
  OBVIOUS
<1>4. Group(g) /\ (C!Whole(table) => Good(table, g, FALSE))
  <2>1. IsRead(table, g)
    BY <1>1, <1>2, <1>3, ReadBy
  <2> QED
    BY <1>2, <2>1, ReadIsGood, Zenon
<1>5. ~C!Ours /\ ~C!Ours' /\ Still /\ Still' /\ ~Opened /\ ~Opened' /\ C!Queued' = C!Queued
  BY <1>1 DEF C!Ours, C!Queued, Still, Opened
<1>6. CitusType'
  BY <1>1, <1>3, <1>4, <1>5 DEF CitusInvariant, CitusType
<1>7. Working'
  BY <1>1, <1>5 DEF CitusInvariant, Working
<1>8. InSync'
  <2>1. C!Whole(table)' = C!Whole(table)
    BY <1>1 DEF C!Whole
  <2>2. ~mixed' => C!Whole(table)
    BY <1>1 DEF CitusInvariant, InSync
  <2>3. cache' # None
    BY <1>3, <1>4, RecordsAreThere
  <2> QED
    BY <1>1, <1>3, <1>4, <1>5, <2>1, <2>2, <2>3 DEF InSync
<1> QED
  BY <1>6, <1>7, <1>8 DEF CitusInvariant

LEMMA Picks ==
  ASSUME CitusAssumption, CitusInvariant, C!pick_task
  PROVE  CitusInvariant'
<1>1. /\ leads /\ job = None /\ (flight = None => ~load) /\ queue.task # None /\ flight # Other
      /\ worker' = worker /\ flight' = flight /\ cache' = cache /\ load' = load /\ table' = table /\ open' = open
      /\ leads' = leads /\ mixed' = mixed
      /\ \/ queue' = [queue EXCEPT !.task = None] /\ job' = job
         \/ job' = C!Job(queue.task) /\ queue' = queue
  BY DEF C!pick_task, C!CanPick, C!rows
<1>2. QueueOf(queue) /\ WorkerOf(worker) /\ load \in BOOLEAN
  BY DEF CitusInvariant, CitusType
<1>3. CASE queue' = [queue EXCEPT !.task = None] /\ job' = job
  <2>1. QueueOf(queue')
    BY <1>2, <1>3, QueuePut
  <2>2. RowsKept
    BY <1>1, <1>3 DEF RowsKept, TaskKept
  <2>3. CitusType' /\ InSync'
    BY <1>1, <1>2, <2>1, <2>2, RowsKeptType, RowsKeptInSync DEF CitusInvariant
  <2>4. Working'
    BY <1>1, <1>3 DEF CitusInvariant, Working, Still, Opened, C!Ours
  <2> QED
    BY <2>3, <2>4 DEF CitusInvariant
<1>4. CASE job' = C!Job(queue.task) /\ queue' = queue
  <2>1. job' = [task |-> queue.task, done |-> "picked", queued |-> TRUE]
    BY <1>4 DEF C!Job
  <2>2. job'.task = queue.task /\ job'.done = "picked" /\ job'.queued = TRUE
    BY <2>1
  <2>3. FreshTask(queue.task)
    BY <1>1, <1>2 DEF QueueOf
  <2>4. JobOf(job')
    BY <2>1, <2>2, <2>3 DEF JobOf, FreshTask
  <2>5. job' # None
    BY <2>4, RecordsAreThere
  <2>6. /\ Still /\ Still' /\ ~Opened /\ ~Opened' /\ (C!Ours' <=> C!Ours) /\ (C!Queued' <=> C!Queued) /\ C!Queued
        /\ (~C!Ours => flight = None)
    BY <1>1, <1>4, <2>2, <2>5 DEF Still, Opened, C!Ours, C!Queued
  <2>7. CitusType'
    BY <1>1, <1>2, <1>4, <2>4, <2>6 DEF CitusInvariant, CitusType
  <2>8. Working'
    BY <1>1, <2>2, <2>5, <2>6 DEF CitusInvariant, Working
  <2>9. InSync'
    BY <1>1, <2>2, <2>5, <2>6 DEF CitusInvariant, InSync
  <2> QED
    BY <2>7, <2>8, <2>9 DEF CitusInvariant
<1> QED
  BY <1>1, <1>3, <1>4

\* query fails, whatever the statement.
LEMMA Fails ==
  ASSUME CitusAssumption, CitusInvariant, job # None, job.done = "picked", C!QueryFails,
         worker' = worker, queue' = queue, leads' = leads, mixed' = mixed
  PROVE  CitusInvariant'
<1>1. /\ open' = None /\ table' = table /\ flight' = None /\ load' = TRUE /\ cache' = cache
      /\ job' = [job EXCEPT !.done = "failed"]
  BY DEF C!QueryFails, C!Disconnect
<1>2. JobOf(job') /\ job'.done = "failed"
  BY <1>1, JobFails DEF CitusInvariant, CitusType
<1>3. job' # None
  BY <1>2, RecordsAreThere
<1>4. ~Still' /\ ~Opened' /\ ~C!Ours' /\ (C!Queued' <=> C!Queued)
  BY <1>1, <1>2, <1>3 DEF Still, Opened, C!Ours, C!Queued
<1>5. CitusType'
  BY <1>1, <1>2, <1>4 DEF CitusInvariant, CitusType
<1>6. flight' = None /\ (flight = None \/ flight # Other \/ job = None)
  BY <1>1 DEF CitusInvariant, Working
<1>7. Working'
  <2>1. flight' # Other
    BY <1>1 DEF CitusAssumption
  <2> QED
    BY <1>1, <1>2, <1>3, <1>4, <2>1 DEF CitusInvariant, Working
<1>8. InSync'
  <2>1. C!Whole(table)' = C!Whole(table)
    BY <1>1 DEF C!Whole
  <2> QED
    BY <1>2, <1>4, <2>1 DEF CitusInvariant, InSync
<1> QED
  BY <1>5, <1>7, <1>8 DEF CitusInvariant

LEMMA LosesConnection ==
  ASSUME CitusAssumption, CitusInvariant, C!ConnectionLost
  PROVE  CitusInvariant'
BY Fails DEF C!ConnectionLost

LEMMA Finishes ==
  ASSUME CitusAssumption, CitusInvariant, C!Finish
  PROVE  CitusInvariant'
<1>1. /\ job # None /\ job.done # "picked" /\ job' = None /\ worker' = worker /\ load' = load
      /\ table' = table /\ open' = open /\ leads' = leads /\ mixed' = mixed
  BY DEF C!Finish, C!rows
<1>2. JobOf(job) /\ QueueOf(queue) /\ WorkerOf(worker)
  BY <1>1 DEF CitusInvariant, CitusType
<1>3. TaskOf(job.task) /\ job.done \in {"failed", "opened", "closed"}
  BY <1>1, <1>2 DEF JobOf
<1>4. Still' /\ ~Opened' /\ ~Still
  BY <1>1 DEF Still, Opened
<1>5. C!Whole(table)' = C!Whole(table)
  BY <1>1 DEF C!Whole
<1>6. CASE ~C!Queued
  <2>1. queue' = queue /\ flight' = flight /\ cache' = cache
    BY <1>6 DEF C!Finish
  <2>2. ~leads /\ flight = None /\ cache = None /\ ~C!Ours /\ ~C!Ours' /\ ~C!Queued'
    BY <1>1, <1>6, <2>1 DEF CitusInvariant, Working, C!Ours, C!Queued
  <2>3. CitusType'
    BY <1>1, <2>1, <2>2 DEF CitusInvariant, CitusType
  <2>4. Working'
    BY <1>1, <2>1, <2>2 DEF CitusInvariant, Working
  <2>5. InSync'
    BY <1>1, <1>5, <2>2 DEF CitusInvariant, InSync
  <2> QED
    BY <2>3, <2>4, <2>5 DEF CitusInvariant
<1>7. CASE C!Queued
  <2>1. /\ queue' = IF job.queued THEN [queue EXCEPT !.task = None] ELSE queue
        /\ flight' = IF job.done = "opened" THEN job.task ELSE None
        /\ cache' = IF job.done = "closed" THEN job.task.nodes ELSE cache
    BY <1>7, Zenon DEF C!Finish
  <2>2. leads /\ QueueOf(queue')
    <3>1. leads
      BY <1>7 DEF CitusInvariant, Working
    <3>2. QueueOf(queue')
      BY <1>2, <2>1, QueuePut
    <3> QED
      BY <3>1, <3>2
  <2>3. CASE job.done = "opened"
    <3>1. flight' = job.task /\ cache' = cache
      BY <2>1, <2>3
    <3>2. flight' # None /\ flight' # Other
      BY <1>3, <3>1, RecordsAreThere
    <3>3. C!Ours' /\ Opened
      BY <1>1, <2>3, <3>2 DEF C!Ours, Opened
    <3>4. CitusType'
      BY <1>1, <1>2, <1>3, <2>2, <3>1 DEF CitusInvariant, CitusType
    <3>5. Working'
      BY <1>1, <1>4, <2>2, <3>3 DEF CitusInvariant, Working
    <3>6. InSync'
      BY <1>1, <1>4, <1>5, <2>2, <3>1, <3>3 DEF CitusInvariant, InSync
    <3> QED
      BY <3>4, <3>5, <3>6 DEF CitusInvariant
  <2>4. CASE job.done = "closed"
    <3>1. flight' = None /\ cache' = job.task.nodes /\ ~C!Ours' /\ ~Opened
      BY <2>1, <2>4 DEF C!Ours, Opened
    <3>2. Group(cache') /\ cache' # None
      BY <1>3, <3>1, RecordsAreThere DEF TaskOf
    <3>3. CitusType'
      BY <1>1, <1>2, <2>2, <3>1, <3>2 DEF CitusInvariant, CitusType
    <3>4. Working'
      BY <1>1, <1>4, <2>2, <3>1 DEF CitusInvariant, Working
    <3>5. InSync'
      BY <1>1, <1>4, <1>5, <2>2, <2>4, <3>1, <3>2 DEF CitusInvariant, InSync
    <3> QED
      BY <3>3, <3>4, <3>5 DEF CitusInvariant
  <2>5. CASE job.done = "failed"
    <3>1. flight' = None /\ cache' = cache /\ ~C!Ours' /\ ~Opened /\ load
      BY <1>1, <2>1, <2>5 DEF C!Ours, Opened, CitusInvariant, Working
    <3>2. CitusType'
      BY <1>1, <1>2, <2>2, <3>1 DEF CitusInvariant, CitusType
    <3>3. Working'
      BY <1>1, <1>4, <2>2, <3>1 DEF CitusInvariant, Working
    <3>4. InSync'
      BY <1>1, <1>4, <1>5, <2>2, <3>1 DEF CitusInvariant, InSync
    <3> QED
      BY <3>2, <3>3, <3>4 DEF CitusInvariant
  <2> QED
    BY <1>3, <2>3, <2>4, <2>5
<1> QED
  BY <1>6, <1>7

LEMMA OthersProcessed ==
  ASSUME CitusAssumption, CitusInvariant, C!ProcessOther
  PROVE  CitusInvariant'
<1>1. /\ leads /\ job = None /\ (flight = None => ~load) /\ ~C!Ours /\ queue' = [queue EXCEPT !.other = FALSE]
      /\ flight' \in {None, Other} /\ worker' = worker /\ cache' = cache /\ load' = load /\ job' = job
      /\ table' = table /\ open' = open /\ leads' = leads /\ mixed' = mixed
  BY DEF C!ProcessOther, C!CanPick, C!rows
<1>2. QueueOf(queue')
  BY <1>1, QueueOther DEF CitusInvariant, CitusType
<1>3. ~C!Ours' /\ Still /\ Still' /\ ~Opened /\ ~Opened'
  BY <1>1 DEF C!Ours, Still, Opened
<1>4. CitusType'
  BY <1>1, <1>2, <1>3 DEF CitusInvariant, CitusType
<1>5. Working'
  BY <1>1, <1>3 DEF CitusInvariant, Working
<1>6. InSync'
  <2>1. C!Whole(table)' = C!Whole(table)
    BY <1>1 DEF C!Whole
  <2> QED
    BY <1>1, <1>3, <2>1 DEF CitusInvariant, InSync
<1> QED
  BY <1>4, <1>5, <1>6 DEF CitusInvariant

LEMMA RollsBack ==
  ASSUME CitusAssumption, CitusInvariant, C!Rollback
  PROVE  CitusInvariant'
<1>1. /\ leads /\ job = None /\ flight # None /\ flight' = None /\ open' = None
      /\ mixed' = (mixed \/ flight # Other) /\ worker' = worker /\ queue' = queue /\ cache' = cache
      /\ load' = load /\ job' = job /\ table' = table /\ leads' = leads
  BY DEF C!Rollback
<1>2. ~C!Ours' /\ Still /\ Still' /\ ~Opened /\ ~Opened' /\ (C!Queued' <=> C!Queued)
  BY <1>1 DEF C!Ours, Still, Opened, C!Queued
<1>3. CitusType'
  BY <1>1, <1>2 DEF CitusInvariant, CitusType
<1>4. Working'
  BY <1>1, <1>2 DEF CitusInvariant, Working
<1>5. InSync'
  <2>1. C!Whole(table)' = C!Whole(table)
    BY <1>1 DEF C!Whole
  <2>2. ~mixed' => ~mixed /\ flight = Other /\ ~C!Ours
    BY <1>1, Zenon DEF C!Ours
  <2> QED
    BY <1>1, <1>2, <2>1, <2>2 DEF CitusInvariant, InSync
<1> QED
  BY <1>3, <1>4, <1>5 DEF CitusInvariant

LEMMA StepsDown ==
  ASSUME CitusAssumption, CitusInvariant, C!on_demote
  PROVE  CitusInvariant'
<1>1. /\ leads /\ leads' = FALSE /\ cache' = None /\ queue' = [task |-> None, other |-> FALSE] /\ flight' = None
      /\ job' = (IF job = None THEN None ELSE [job EXCEPT !.queued = FALSE])
      /\ worker' = worker /\ load' = load /\ table' = table /\ open' = open /\ mixed' = mixed
  BY DEF C!on_demote, C!rows
<1>2. queue'.task = None /\ queue'.other = FALSE
  BY <1>1
<1>3. QueueOf(queue') /\ ~C!Queued' /\ ~C!Ours'
  BY <1>1, <1>2 DEF QueueOf, C!Queued, C!Ours
<1>4. job' = None \/ (JobOf(job') /\ job # None /\ job'.done = job.done)
  BY <1>1, JobForgotten DEF CitusInvariant, CitusType
<1>5. CitusType'
  BY <1>1, <1>3, <1>4 DEF CitusInvariant, CitusType
<1>6. Working'
  <2>1. flight' # Other
    BY <1>1 DEF CitusAssumption
  <2> QED
    BY <1>1, <1>3, <1>4, <2>1 DEF CitusInvariant, Working
<1>7. InSync'
  <2>1. C!Whole(table)' = C!Whole(table)
    BY <1>1 DEF C!Whole
  <2> QED
    BY <1>1, <2>1 DEF CitusInvariant, InSync
<1> QED
  BY <1>5, <1>6, <1>7 DEF CitusInvariant

LEMMA LeadsAgain ==
  ASSUME CitusAssumption, CitusInvariant, C!PromotedAgain
  PROVE  CitusInvariant'
<1>1. /\ ~leads /\ job = None /\ leads' = TRUE /\ load' = TRUE /\ open' = None /\ table' = table
      /\ worker' = worker /\ queue' = queue /\ flight' = flight /\ cache' = cache /\ job' = job /\ mixed' = mixed
  BY DEF C!PromotedAgain, C!Disconnect
<1>2. flight = None /\ cache = None
  BY <1>1 DEF CitusInvariant, Working
<1>3. ~C!Ours' /\ Still' /\ ~Opened'
  BY <1>1, <1>2 DEF C!Ours, Still, Opened
<1>4. CitusType'
  BY <1>1, <1>3 DEF CitusInvariant, CitusType
<1>5. Working'
  BY <1>1, <1>3 DEF CitusInvariant, Working
<1>6. InSync'
  <2>1. C!Whole(table)' = C!Whole(table)
    BY <1>1 DEF C!Whole
  <2> QED
    BY <1>1, <1>3, <2>1 DEF CitusInvariant, InSync, Opened
<1> QED
  BY <1>4, <1>5, <1>6 DEF CitusInvariant

\* What process_task sets out from.
SetsOut(new, cur, failover, r) ==
  /\ job # None /\ job.done = "picked" /\ JobOf(job) /\ new = job.task.nodes /\ Fresh(new)
  /\ job.task.event = "after_promote" => new[PrimaryOf(new)].role = "primary"
  /\ cur = C!Current /\ Group(cur) /\ failover = C!WasFailover /\ failover \in BOOLEAN
  /\ r = (IF open # None THEN open ELSE table) /\ Table(r) /\ QueueOf(queue) /\ WorkerOf(worker)
  /\ leads /\ ~mixed => Good(r, cur, failover)
  /\ leads => (open # None <=> C!Ours) /\ C!Queued
  /\ ~C!Ours => failover = FALSE
  /\ cache # None /\ ~C!Ours => cur = cache

LEMMA ProcessSetsOut ==
  ASSUME CitusAssumption, CitusInvariant, C!process_task,
         NEW new, new = job.task.nodes, NEW cur, cur = C!Current, NEW failover, failover = C!WasFailover,
         NEW r, r = (IF open # None THEN open ELSE table)
  PROVE  SetsOut(new, cur, failover, r)
<1>1. job # None /\ job.done = "picked"
  BY DEF C!process_task
<1>2. JobOf(job) /\ FreshTask(job.task) /\ Table(table) /\ (open = None \/ Table(open)) /\ QueueOf(queue) /\ WorkerOf(worker)
      /\ (C!Ours => TaskOf(flight)) /\ (cache = None \/ Group(cache))
  BY <1>1 DEF CitusInvariant, CitusType, JobOf
<1>3. Fresh(new) /\ (job.task.event = "after_promote" => new[PrimaryOf(new)].role = "primary")
  BY <1>2 DEF FreshTask
<1>4. Group(cur)
  <2>1. CASE C!Ours
    <3>1. cur = flight.nodes
      BY <2>1 DEF C!Current
    <3> QED
      BY <1>2, <2>1, <3>1 DEF TaskOf
  <2>2. CASE ~C!Ours /\ cache # None
    BY <1>2, <2>2 DEF C!Current
  <2>3. CASE ~C!Ours /\ cache = None
    <3>1. cur = <<>>
      BY <2>3 DEF C!Current
    <3> QED
      BY <3>1 DEF Group
  <2> QED
    BY <2>1, <2>2, <2>3
<1>5. failover \in BOOLEAN /\ (~C!Ours => failover = FALSE)
  BY <1>2 DEF C!WasFailover, TaskOf
<1>6. Table(r)
  BY <1>2
<1>7. Still /\ ~Opened
  BY <1>1 DEF Still, Opened
<1>8. leads => (open # None <=> C!Ours) /\ C!Queued
  BY <1>1, <1>7 DEF CitusInvariant, Working
<1>9. ASSUME leads, ~mixed PROVE Good(r, cur, failover)
  <2>1. CASE C!Ours
    <3>1. r = open /\ cur = flight.nodes /\ failover = flight.failover
      <4>1. TaskOf(flight) /\ open # None
        BY <1>2, <1>8, <1>9, <2>1
      <4> QED
        BY <2>1, <4>1 DEF C!Current, C!WasFailover, TaskOf
    <3> QED
      BY <1>7, <1>9, <2>1, <3>1 DEF CitusInvariant, InSync
  <2>2. CASE ~C!Ours
    <3>1. cache # None /\ Good(table, cache, FALSE)
      BY <1>1, <1>7, <1>9, <2>2 DEF CitusInvariant, InSync
    <3>2. r = table /\ cur = cache /\ failover = FALSE
      BY <1>5, <1>8, <1>9, <2>2, <3>1 DEF C!Current
    <3> QED
      BY <3>1, <3>2
  <2> QED
    BY <2>1, <2>2
<1>10. cache # None /\ ~C!Ours => cur = cache
  BY DEF C!Current
<1> QED
  BY <1>1, <1>2, <1>3, <1>4, <1>5, <1>6, <1>8, <1>9, <1>10 DEF SetsOut

\* What comes of the task: one that is closed, and one that leaves the transaction open.
Sends(t, done) ==
  /\ worker' = worker /\ queue' = queue /\ leads' = leads /\ load' = load
  /\ mixed' = (mixed \/ (~leads /\ ~C!Whole(table)'))
  /\ job' # None /\ JobOf(job') /\ job'.done = done /\ job'.task.nodes = t.new
  /\ job'.task.failover = IF done = "closed" THEN FALSE ELSE t.failover
  /\ (C!Ours' <=> C!Ours) /\ (C!Ours => TaskOf(flight')) /\ (~C!Ours => flight' = flight)
  /\ IF C!Ours THEN cache' = cache ELSE cache' = None \/ Group(cache')
  /\ cache = None => cache' = None

LEMMA SendsBy ==
  ASSUME CitusAssumption, CitusInvariant, NEW t, NEW done \in {"opened", "closed"}, C!Changed(t, done),
         job # None, Group(t.old), Group(t.new), t.failover \in BOOLEAN,
         worker' = worker, queue' = queue, leads' = leads, mixed' = (mixed \/ (~leads /\ ~C!Whole(table)'))
  PROVE  Sends(t, done)
<1>1. JobOf(job) /\ (C!Ours => TaskOf(flight))
  BY DEF CitusInvariant, CitusType
<1>2. PICK f : f = (IF done = "closed" THEN FALSE ELSE t.failover)
  OBVIOUS
<1>3. f \in BOOLEAN
  BY <1>2
<1>4. job' = JobPut(job, done, t.new, f)
  BY <1>2, Zenon DEF C!Changed, JobPut
<1>5. JobOf(job') /\ job'.done = done /\ job'.task.nodes = t.new /\ job'.task.failover = f
  <2>1. PICK s, u, g : s = job /\ u = job' /\ g = t.new
    OBVIOUS
  <2>2. JobOf(s) /\ Group(g) /\ u = JobPut(s, done, g, f)
    BY <1>1, <1>4, <2>1
  <2>3. JobHas(u, done, g, f)
    BY <1>3, <2>2, JobSent
  <2> QED
    BY <2>1, <2>3 DEF JobHas
<1>6. job' # None
  BY <1>5, RecordsAreThere
<1>7. load' = load
  BY DEF C!Changed
<1>8. CASE C!Ours
  <2>1. flight' = [flight EXCEPT !.nodes = t.old] /\ cache' = cache
    BY <1>8 DEF C!Changed
  <2>2. TaskOf(flight')
    BY <1>1, <1>8, <2>1, FlightOld
  <2>3. C!Ours'
    BY <2>2, RecordsAreThere DEF C!Ours
  <2> QED
    BY <1>2, <1>5, <1>6, <1>7, <1>8, <2>1, <2>2, <2>3 DEF Sends
<1>9. CASE ~C!Ours
  <2>1. cache' = (IF cache = None THEN None ELSE t.old) /\ flight' = flight
    BY <1>9 DEF C!Changed
  <2>2. ~C!Ours'
    BY <1>9, <2>1 DEF C!Ours
  <2> QED
    BY <1>2, <1>5, <1>6, <1>7, <1>9, <2>1, <2>2 DEF Sends
<1> QED
  BY <1>8, <1>9

LEMMA SendsType ==
  ASSUME CitusInvariant, NEW t, NEW done, Sends(t, done), Table(table'), open' = None \/ Table(open')
  PROVE  CitusType'
<1>1. C!Ours' => TaskOf(flight')
  BY DEF Sends
<1>2. cache' = None \/ Group(cache')
  BY DEF Sends, CitusInvariant, CitusType
<1>3. mixed' \in BOOLEAN
  BY DEF Sends
<1> QED
  BY <1>1, <1>2, <1>3 DEF CitusInvariant, CitusType, Sends

\* The topology is not one that is demoted when the primary runs as one.
LEMMA RunsAsPrimary ==
  ASSUME NEW r, NEW g, NEW f, Good(r, g, f), NEW q, q \in DOMAIN g, g[q].role = "primary"
  PROVE  Good(r, g, FALSE)
<1>1. PICK p \in DOMAIN g : C!IsPrimary(g[p]) /\ g[p].id # None
  BY DEF Good
<1>2. p = q
  BY <1>1 DEF Good, Group, C!IsPrimary
<1> QED
  BY <1>1, <1>2 DEF Good

LEMMA Closes ==
  ASSUME CitusAssumption, CitusInvariant, NEW new, NEW cur, NEW failover, NEW r, SetsOut(new, cur, failover, r),
         NEW t, TransitionEnds(new, cur, failover, r, t), t.ok, job.task.event = "after_promote",
         Sends(t, "closed"), IF C!Ours \/ open = None \/ t.sent > 1
                             THEN table' = t.rows /\ open' = None ELSE open' = t.rows /\ UNCHANGED table
  PROVE  CitusInvariant'
<1>1. Table(t.rows) /\ PrimaryOf(new) \in DOMAIN t.new /\ t.new[PrimaryOf(new)].role = "primary"
  BY DEF TransitionEnds, Ended, SetsOut
<1>2. CitusType'
  <2>1. Table(table') /\ (open' = None \/ Table(open'))
    BY <1>1 DEF CitusInvariant, CitusType
  <2> QED
    BY <2>1, SendsType
<1>3. ~Still' /\ ~Opened' /\ (C!Queued' <=> C!Queued)
  BY DEF Sends, Still, Opened, C!Queued
<1>4. leads => table' = t.rows /\ open' = None
  BY DEF SetsOut
<1>5. Working'
  <2>1. flight' # Other
    BY RecordsAreThere DEF Sends, SetsOut, CitusInvariant, Working
  <2>2. ~leads => ~C!Ours
    BY DEF CitusInvariant, Working, C!Ours
  <2> QED
    BY <1>3, <1>4, <2>1, <2>2 DEF Sends, SetsOut, CitusInvariant, Working
<1>6. ASSUME leads, ~mixed PROVE Good(table', t.new, FALSE) /\ C!Whole(table)'
  <2>1. Good(t.rows, t.new, t.failover)
    BY <1>6 DEF SetsOut, TransitionEnds
  <2>2. Good(t.rows, t.new, FALSE)
    BY <1>1, <2>1, RunsAsPrimary
  <2>3. C!Whole(t.rows)
    BY <1>1, <2>2, GoodIsWhole
  <2> QED
    BY <1>4, <1>6, <2>2, <2>3 DEF C!Whole
<1>7. InSync'
  <2>1. ~mixed' => ~mixed /\ (leads \/ C!Whole(table)')
    BY DEF Sends
  <2> QED
    BY <1>3, <1>6, <2>1 DEF Sends, InSync
<1> QED
  BY <1>2, <1>5, <1>7 DEF CitusInvariant

LEMMA Opens ==
  ASSUME CitusAssumption, CitusInvariant, NEW new, NEW cur, NEW failover, NEW r, SetsOut(new, cur, failover, r),
         NEW t, TransitionEnds(new, cur, failover, r, t), t.ok,
         Sends(t, "opened"), open' = t.rows, table' = table
  PROVE  CitusInvariant'
<1>1. Table(t.rows)
  BY DEF TransitionEnds, Ended
<1>2. open' # None
  BY <1>1, RecordsAreThere
<1>3. CitusType'
  <2>1. Table(table') /\ Table(open')
    BY <1>1 DEF CitusInvariant, CitusType
  <2> QED
    BY <2>1, SendsType
<1>4. ~Still' /\ Opened' /\ (C!Queued' <=> C!Queued)
  BY DEF Sends, Still, Opened, C!Queued
<1>5. Working'
  <2>1. flight' # Other
    BY RecordsAreThere DEF Sends, SetsOut, CitusInvariant, Working
  <2>2. ~leads => ~C!Ours
    BY DEF CitusInvariant, Working, C!Ours
  <2> QED
    BY <1>2, <1>4, <2>1, <2>2 DEF Sends, SetsOut, CitusInvariant, Working
<1>6. C!Whole(table)' = C!Whole(table)
  BY DEF C!Whole
<1>7. ASSUME leads, ~mixed PROVE Good(open', t.new, t.failover)
  BY <1>7 DEF SetsOut, TransitionEnds
<1>8. InSync'
  <2>1. ~mixed' => ~mixed
    BY DEF Sends
  <2> QED
    BY <1>4, <1>6, <1>7, <2>1 DEF Sends, InSync, CitusInvariant
<1> QED
  BY <1>3, <1>5, <1>8 DEF CitusInvariant

LEMMA Processes ==
  ASSUME CitusAssumption, CitusInvariant, C!process_task
  PROVE  CitusInvariant'
<1>1. PICK new, cur, failover, r :
        /\ new = job.task.nodes /\ cur = C!Current /\ failover = C!WasFailover
        /\ r = (IF open # None THEN open ELSE table)
  OBVIOUS
<1>2. SetsOut(new, cur, failover, r)
  BY <1>1, ProcessSetsOut
<1>3. PICK t \in C!transition(new, cur, failover, r) :
        IF ~t.ok THEN C!QueryFails
        ELSE IF job.task.event = "after_promote"
             THEN /\ C!Changed(t, "closed")
                  /\ IF C!Ours \/ open = None \/ t.sent > 1
                     THEN table' = t.rows /\ open' = None ELSE open' = t.rows /\ UNCHANGED table
             ELSE /\ C!Changed(t, "opened")
                  /\ open' = t.rows
                  /\ UNCHANGED table
  BY <1>1, Zenon DEF C!process_task
<1>4. TransitionEnds(new, cur, failover, r, t)
  BY <1>2, <1>3, TransitionBy DEF SetsOut
<1>5. Group(t.old) /\ Group(t.new) /\ t.failover \in BOOLEAN
  BY <1>4 DEF TransitionEnds, Ended
<1>6. /\ job # None /\ job.done = "picked" /\ worker' = worker /\ queue' = queue /\ leads' = leads
      /\ mixed' = (mixed \/ (~leads /\ ~C!Whole(table)'))
  BY DEF C!process_task, C!Whole
<1>7. CASE ~t.ok
  <2>1. C!QueryFails
    BY <1>3, <1>7
  <2>2. table' = table
    BY <2>1 DEF C!QueryFails, C!Disconnect
  <2>3. C!Whole(table)' = C!Whole(table)
    BY <2>2 DEF C!Whole
  <2>4. mixed' = mixed
    <3>1. mixed \in BOOLEAN /\ (~mixed => C!Whole(table))
      BY DEF CitusInvariant, CitusType, InSync
    <3> QED
      BY <1>6, <2>3, <3>1
  <2> QED
    BY <1>6, <2>1, <2>4, Fails
<1>8. CASE t.ok /\ job.task.event = "after_promote"
  <2>1. /\ C!Changed(t, "closed")
        /\ IF C!Ours \/ open = None \/ t.sent > 1
           THEN table' = t.rows /\ open' = None ELSE open' = t.rows /\ UNCHANGED table
    BY <1>3, <1>8
  <2>2. Sends(t, "closed")
    BY <1>5, <1>6, <2>1, SendsBy
  <2> QED
    BY <1>2, <1>4, <1>8, <2>1, <2>2, Closes
<1>9. CASE t.ok /\ job.task.event # "after_promote"
  <2>1. C!Changed(t, "opened") /\ open' = t.rows /\ table' = table
    BY <1>3, <1>9
  <2>2. Sends(t, "opened")
    BY <1>5, <1>6, <2>1, SendsBy
  <2> QED
    BY <1>2, <1>4, <1>9, <2>1, <2>2, Opens
<1> QED
  BY <1>7, <1>8, <1>9

LEMMA CitusStep ==
  ASSUME CitusAssumption, CitusInvariant, [C!CitusNext]_(C!vars)
  PROVE  CitusInvariant'
<1>1. CASE C!sync_meta_data
  BY <1>1, AddsTask DEF C!sync_meta_data, C!rows
<1>2. CASE C!handle_event
  <2>1. PICK e : C!_add_task(C!Task(e, TRUE))
    BY <1>2 DEF C!handle_event
  <2> QED
    BY <1>2, <2>1, AddsTask DEF C!handle_event, C!rows
<1>3. CASE C!load_pg_dist_group
  BY <1>3, Reads
<1>4. CASE C!pick_task
  BY <1>4, Picks
<1>5. CASE C!process_task
  BY <1>5, Processes
<1>6. CASE C!Finish
  BY <1>6, Finishes
<1>7. CASE C!ProcessOther
  BY <1>7, OthersProcessed
<1>8. CASE C!Rollback
  BY <1>8, RollsBack
<1>9. CASE C!ConnectionLost
  BY <1>9, LosesConnection
<1>10. CASE C!on_demote
  BY <1>10, StepsDown
<1>11. CASE C!PromotedAgain
  BY <1>11, LeadsAgain
<1>12. CASE \/ C!OtherTask \/ C!Deadline \/ C!schedule_cache_rebuild \/ C!WorkerChanges \/ C!WorkerPromoted
            \/ UNCHANGED C!vars
  BY <1>12, Stays, Zenon
<1> QED
  BY <1>1, <1>2, <1>3, <1>4, <1>5, <1>6, <1>7, <1>8, <1>9, <1>10, <1>11, <1>12, Zenon
  DEF C!CitusNext, C!CitusThread

LEMMA CitusStart ==
  ASSUME CitusAssumption, C!Init
  PROVE  CitusInvariant
<1>1. PICK h \in Up : h = CHOOSE x \in Up : TRUE
  BY DEF CitusAssumption
<1>2. /\ worker = [leader |-> h, ready |-> TRUE, up |-> Up] /\ queue = [task |-> None, other |-> FALSE]
      /\ flight = None /\ cache = None /\ load = TRUE /\ job = None /\ open = None /\ leads = TRUE
      /\ mixed = FALSE /\ table = [id \in {1} |-> [name |-> C!Name(worker.leader), role |-> "primary"]]
  BY <1>1 DEF C!Init
<1>3. worker.leader = h /\ worker.ready = TRUE /\ worker.up = Up /\ queue.task = None /\ queue.other = FALSE
  BY <1>2
<1>4. WorkerOf(worker) /\ QueueOf(queue)
  BY <1>2, <1>3 DEF WorkerOf, QueueOf, CitusAssumption
<1>5. PICK n : n = C!Name(h)
  OBVIOUS
<1>6. n \in Name /\ n[2] = 0
  BY <1>5 DEF C!Name, Name, CitusAssumption
<1>7. DOMAIN table = {1} /\ table = [i \in DOMAIN table |-> table[i]] /\ table[1] = [name |-> n, role |-> "primary"]
  BY <1>2, <1>3, <1>5
<1>8. Table(table) /\ C!Whole(table)
  BY <1>6, <1>7 DEF Table, C!Whole
<1>9. ~C!Ours /\ ~Opened /\ Still
  BY <1>2 DEF C!Ours, Opened, Still
<1>10. CitusType
  BY <1>2, <1>4, <1>8, <1>9 DEF CitusType
<1>11. Working
  BY <1>2, <1>9 DEF Working
<1>12. InSync
  BY <1>2, <1>8, <1>9 DEF InSync
<1> QED
  BY <1>10, <1>11, <1>12 DEF CitusInvariant

LEMMA InSyncIsTable ==
  ASSUME CitusAssumption, CitusInvariant
  PROVE  C!CacheIsTable
<1> SUFFICES ASSUME leads, ~load, job = None, flight = None, cache # None, ~mixed
             PROVE  {[name |-> table[id].name, role |-> table[id].role, id |-> id] : id \in DOMAIN table}
                    = {[name |-> n, role |-> cache[n].role, id |-> cache[n].id]
                       : n \in {m \in DOMAIN cache : cache[m].id # None}}
  BY DEF C!CacheIsTable
<1>1. Good(table, cache, FALSE) /\ Table(table)
  BY DEF CitusInvariant, CitusType, InSync, Still, C!Ours
<1>2. ASSUME NEW n \in DOMAIN cache, cache[n].id # None
      PROVE  /\ cache[n].id \in DOMAIN table /\ table[cache[n].id].name = n
             /\ table[cache[n].id].role = cache[n].role
  <2>1. cache[n].id \in DOMAIN table /\ Holds(table[cache[n].id], n, cache[n]) /\ n \in Name
        /\ cache[n].role \in {"primary", "secondary", "demoted"}
    BY <1>1, <1>2 DEF Good, Held, Group, NodeOf
  <2>2. cache[n].role # "demoted"
    BY <1>1 DEF Good, Group, C!IsPrimary
  <2>3. table[cache[n].id].name = n
    BY <2>1, <2>2, WrittenIs DEF Holds
  <2>4. table[cache[n].id].role \in {"primary", "secondary"}
    BY <1>1, <2>1 DEF Table
  <2>5. table[cache[n].id].role = "primary" <=> cache[n].role = "primary"
    BY <2>1, <2>2 DEF Holds, C!IsPrimary
  <2> QED
    BY <2>1, <2>2, <2>3, <2>4, <2>5
<1>3. ASSUME NEW i \in DOMAIN table PROVE \E n \in DOMAIN cache : cache[n].id = i /\ cache[n].id # None
  <2>1. i # None
    BY <1>1 DEF Table, CitusAssumption
  <2> QED
    BY <1>1, <2>1 DEF Good, Held
<1> QED
  BY <1>2, <1>3

\* CacheIsTable: between the tasks the cached topology is what pg_dist_node holds, row for
\* row, whatever requests come, fail or are lost, for any hosts and any number of them.
THEOREM CacheIsTheTable == CitusAssumption /\ C!CitusSpec => []C!CacheIsTable
<1> SUFFICES ASSUME CitusAssumption PROVE C!CitusSpec => []C!CacheIsTable
  OBVIOUS
<1>1. C!Init => CitusInvariant
  BY CitusStart
<1>2. CitusInvariant /\ [C!CitusNext]_(C!vars) => CitusInvariant'
  BY CitusStep
<1>3. CitusInvariant => C!CacheIsTable
  BY InSyncIsTable
<1> QED
  BY <1>1, <1>2, <1>3, PTL DEF C!CitusSpec
=============================================================================
