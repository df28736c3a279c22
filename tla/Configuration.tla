---------------------------- MODULE Configuration ----------------------------
(***************************************************************************)
(* The dynamic configuration (config.py, global /config key): how clients  *)
(* change it (api.py PATCH and PUT, patronictl edit-config), how a node    *)
(* applies it, what PostgreSQL runs with (postgresql/config.py), and the   *)
(* restarts that make a change take effect.                                *)
(*                                                                         *)
(* It has two parameters: `conn', as max_connections, takes effect when    *)
(* PostgreSQL starts, and a standby needs at least its primary's value;    *)
(* `mem', as work_mem, takes effect with a reload.  Local configuration,   *)
(* the other sections of the file and pg_hba.conf are left out.            *)
(***************************************************************************)
EXTENDS Naturals

CONSTANTS
  Node, Client,
  MaxWrites,   \* bound: clients ask for no change of a later version of /config
  MaxOps,      \* bound: crashes and switchovers
  EarlyPut,    \* may a client write /config before there is one?
  WhileStarting,  \* may a change be noticed while PostgreSQL starts?
  ZeroIsAny    \* is the first version 0, which a write takes for "any" (ZooKeeper)?

VARIABLES
  key,         \* /config: [version, conn, mem]; version 0: there is none
  written,     \* for each parameter the last value a client has written, and
               \* lost: has one been written over by a client that did not know it?
  client,      \* the request a client has under way
  daemon,      \* of each node: [step, view, seen], its cycle and modify_version
  params,      \* ConfigHandler._server_parameters
  pg,          \* PostgreSQL: [up, conn, mem, control]
  pending,     \* has the node pending_restart_reason?
  primary,
  ops

vars == <<key, written, client, daemon, params, pg, pending, primary, ops>>

Value == 1 .. 2
Keep == 0     \* a patch does not name the parameter
NoKey == [version |-> 0, conn |-> 1, mem |-> 1]
NoRequest == [base |-> NoKey, conn |-> Keep, mem |-> Keep]

Init ==
  /\ key = NoKey /\ written = [conn |-> 1, mem |-> 1, lost |-> FALSE]
  /\ client = [c \in Client |-> NoRequest]
  /\ daemon = [n \in Node |-> [step |-> "idle", view |-> key, seen |-> 0]]
  /\ params = [n \in Node |-> [conn |-> 1, mem |-> 1]]
  /\ pg = [n \in Node |-> [up |-> "running", conn |-> 1, mem |-> 1, control |-> 1]]
  /\ pending = [n \in Node |-> FALSE] /\ primary \in Node
  /\ ops = 0

Set(f, x, v) == [f EXCEPT ![x] = v]
Larger(x, y) == IF x > y THEN x ELSE y
Op == ops < MaxOps /\ ops' = ops + 1

-----------------------------------------------------------------------------
\* /config

\* patch_config
Patched(value, to) == IF to = Keep THEN value ELSE to

\* set_config_value(value, version)
Stored(conn, mem) ==
  /\ key' = [version |-> key.version + 1, conn |-> conn, mem |-> mem]

\* A client reads the configuration, and names the parameter it changes (PATCH and
\* patronictl; without a configuration there is nothing to change).
Ask(c) ==
  /\ client[c] = NoRequest /\ key.version > 0 /\ key.version < MaxWrites
  /\ \E v \in Value :
       \/ client' = Set(client, c, [base |-> key, conn |-> v, mem |-> Keep])
       \/ client' = Set(client, c, [base |-> key, conn |-> Keep, mem |-> v])
  /\ UNCHANGED <<key, written, daemon, params, pg, pending, primary, ops>>

\* A write that rests on the first version of /config: ZooKeeper numbers it 0, and
\* _set_or_create takes "version or -1", which is any version.
Blind(c) == ZeroIsAny /\ client[c].base.version = 1

\* The write expects the version that was read.
ExpectsAny(c) == TRUE
Expects(c) == Blind(c) \/ key.version = client[c].base.version
Patch(c) ==
  /\ client[c] # NoRequest /\ client' = Set(client, c, NoRequest)
  /\ LET r == client[c] IN
     IF Expects(c)
     THEN /\ Stored(Patched(r.base.conn, r.conn), Patched(r.base.mem, r.mem))
          /\ written' = [conn |-> Patched(written.conn, r.conn), mem |-> Patched(written.mem, r.mem),
                         lost |-> written.lost \/ (Blind(c) /\ key.version # r.base.version)]
     ELSE UNCHANGED <<key, written>>
  /\ UNCHANGED <<daemon, params, pg, pending, primary, ops>>

\* PUT, of one more client, replaces the configuration, whatever it is.
Put ==
  /\ EarlyPut \/ key.version > 0
  /\ key.version < MaxWrites
  /\ \E conn, mem \in Value :
       Stored(conn, mem) /\ written' = [conn |-> conn, mem |-> mem, lost |-> FALSE]
  /\ UNCHANGED <<client, daemon, params, pg, pending, primary, ops>>

-----------------------------------------------------------------------------
\* A node's cycle

At(n, step) == daemon[n].step = step
Live(n) == pg[n].up = "running"

Load(n) ==
  /\ At(n, "idle")
  /\ daemon' = [daemon EXCEPT ![n] = [@ EXCEPT !.step = IF n = primary THEN "leads" ELSE "follows",
                                             !.view = key]]
  /\ UNCHANGED <<key, written, client, params, pg, pending, primary, ops>>

\* The leader writes what it started with if it has read that there is nothing.
SetDefault(n) ==
  /\ At(n, "leads") /\ daemon[n].view.version = 0
  /\ Stored(params[n].conn, params[n].mem)
  /\ daemon' = [daemon EXCEPT ![n].view = key']
  /\ UNCHANGED <<written, client, params, pg, pending, primary, ops>>

\* What PostgreSQL is to run with.
Parameters(config) == [conn |-> config.conn, mem |-> config.mem]

\* set_dynamic_configuration: is there a new version, and does it say something else?
Changed(n) ==
  LET v == daemon[n].view IN
  v.version # 0 /\ v.version # daemon[n].seen /\ params[n] # Parameters(v)

\* reload_config: PostgreSQL gets to know what it may change as it runs, and is compared
\* with the rest, if it runs.
Reload(n) ==
  LET p == Parameters(daemon[n].view) IN
  /\ WhileStarting \/ pg[n].up # "starting"
  /\ params' = Set(params, n, p)
  /\ pg' = (IF Live(n) THEN [pg EXCEPT ![n].mem = p.mem] ELSE pg)
  /\ pending' = Set(pending, n, Live(n) /\ pg[n].conn # p.conn)

\* The rest of _run_cycle, once the leader has seen to it that there is a configuration.
Apply(n) ==
  /\ At(n, "follows") \/ (At(n, "leads") /\ daemon[n].view.version # 0)
  /\ IF Changed(n) THEN Reload(n) ELSE UNCHANGED <<params, pg, pending>>
  /\ daemon' = [daemon EXCEPT ![n] = [@ EXCEPT !.step = "idle", !.seen = daemon[n].view.version]]
  /\ UNCHANGED <<key, written, client, primary, ops>>

-----------------------------------------------------------------------------
\* PostgreSQL

\* start: a primary with what is configured, a standby with effective_configuration.
Effective(n) == IF n = primary THEN params[n].conn ELSE Larger(pg[n].control, params[n].conn)
PendingKept(n, conn) == pending[n]
PendingAtStart(n, conn) == conn # params[n].conn
Start(n) ==
  /\ pg[n].up = "down"
  /\ LET conn == Effective(n) IN
     /\ pg' = Set(pg, n, [up |-> "starting", conn |-> conn, mem |-> params[n].mem,
                          control |-> IF n = primary THEN conn ELSE pg[n].control])
     /\ pending' = Set(pending, n, PendingAtStart(n, conn))
  /\ UNCHANGED <<key, written, client, daemon, params, primary, ops>>

Started(n) ==
  /\ pg[n].up = "starting" /\ pg' = [pg EXCEPT ![n].up = "running"]
  /\ UNCHANGED <<key, written, client, daemon, params, pending, primary, ops>>

\* A standby replays its primary's change of conn.  A server that has less pauses, is
\* told to go on by handle_parameter_change, and ends.
Replay(n) ==
  /\ n # primary /\ Live(n) /\ pg[n].control # pg[primary].control
  /\ pg' = [pg EXCEPT ![n] = [@ EXCEPT !.control = pg[primary].control,
                      !.up = IF pg[n].conn < pg[primary].control THEN "down" ELSE "running"]]
  /\ UNCHANGED <<key, written, client, daemon, params, pending, primary, ops>>

Crash(n) ==
  /\ Op /\ pg[n].up # "down" /\ pg' = [pg EXCEPT ![n].up = "down"]
  /\ UNCHANGED <<key, written, client, daemon, params, pending, primary>>

\* Another node is promoted; the former primary, between two of its cycles, is started
\* again as a standby.
Switchover(n) ==
  /\ Op /\ n # primary /\ Live(n) /\ At(primary, "idle") /\ primary' = n
  /\ pg' = [pg EXCEPT ![n].control = pg[n].conn, ![primary].up = "down"]
  /\ UNCHANGED <<key, written, client, daemon, params, pending>>

\* Ha.restart: stop, then start.  With restart_pending only if the flag is set.
Restart(n) ==
  /\ Live(n) /\ pending[n] /\ pg' = [pg EXCEPT ![n].up = "down"]
  /\ UNCHANGED <<key, written, client, daemon, params, pending, primary, ops>>

ConfigurationNext ==
  \/ \E c \in Client : Ask(c) \/ Patch(c)
  \/ Put
  \/ \E n \in Node :
       \/ Load(n) \/ SetDefault(n) \/ Apply(n)
       \/ Start(n) \/ Started(n) \/ Replay(n) \/ Crash(n) \/ Switchover(n)
       \/ Restart(n)
ConfigurationSpec == Init /\ [][ConfigurationNext]_vars

-----------------------------------------------------------------------------
\* No change of the configuration that a client has made is lost by another's change
\* of something else (api.py do_PATCH_config, ctl.py edit_config), except by a write
\* that rests on ZooKeeper's version 0 (zookeeper.py _set_or_create).
WritesKept ==
  key.version > 0 /\ ~written.lost => key.conn = written.conn /\ key.mem = written.mem

\* A server that runs with another value than it should says so, and one that says so
\* does; what needs no restart is in force.
PendingIsTold ==
  \A n \in Node : Live(n) =>
    /\ pending[n] <=> pg[n].conn # params[n].conn
    /\ pg[n].mem = params[n].mem
=============================================================================
