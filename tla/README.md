# Formal models of the course repository's programs

The repository holds course material and three code projects under `src/code/`.
This directory holds TLA+ models of the parts of them that have a protocol worth
checking, the TLC configurations that check the models on small instances, and
proofs that TLAPS checks for every value of the constants.

Paths below are relative to the repository root; `P/` stands for
`src/code/postgres-ha/patroni-master/patroni/`.

## 1. The system

| Part | State | Operations | Interacts with |
|---|---|---|---|
| **bank-cache-demo backend** (`src/code/bank-cache-demo/backend/main.py`, `db/init.sql`) | PostgreSQL tables `accounts`, `transactions`; Redis keys with a time to live | `POST /transfer`, `GET` balance, summary, credit score and rate, `DELETE /cache/clear` | a thread per request; shared database and cache |
| **Patroni, quorum commit** (`P/quorum.py`, `P/postgresql/sync.py`, part of `P/ha.py`) | the `/sync` key, `synchronous_standby_names`, `SyncHandler`'s memory of ready replicas | `_process_quorum_replication`, `process_sync_replication_prepromote`, `_is_healthiest_node` | the key in the DCS, PostgreSQL's acknowledgements, other nodes' positions |
| **Patroni, leader key** (`P/ha.py`, `P/dcs/`, `P/watchdog/`) | the `/leader` key and its lease, what the node last saw, the promotion thread, the watchdog | the HA cycle: load, update or acquire the key, enforce the role, follow, demote | the DCS, the watchdog device, PostgreSQL |
| **Patroni, DCS back ends** (`P/dcs/*.py`) | the store's log of versions, sessions or leases, each member's copy | take, update and delete the leader key, watches, reconnection | etcd v2 and v3, Consul, ZooKeeper, Raft, Kubernetes |
| **Patroni, AsyncExecutor** (`P/async_executor.py`, `P/postgresql/cancellable.py`, functions of `P/postgresql/__init__.py`, callers in `P/ha.py`) | the scheduled action and whether it is cancelled, the finish event, two critical tasks, the subprocess | `schedule`, `run`, `try_run_async`, `cancel`; promote, restart, start, follow, reinitialize | the HA loop, the threads of the REST API and one background thread work on one PostgreSQL |
| **Patroni, priority synchronous mode** (`P/ha.py`, `P/postgresql/sync.py`) | `/sync`, `synchronous_standby_names` | `_process_multisync_replication` | as quorum commit |
| **Patroni, failsafe mode** (`P/ha.py`, `P/api.py`) | `/failsafe`, what each member remembers of being asked | `check_failsafe_topology`, `POST /failsafe` | REST calls between members |
| **Patroni, requests** (`P/api.py`, `P/ctl.py`, `P/ha.py`) | `/failover`, a scheduled restart, pause | switchover, failover, restart, at once or scheduled | the HA loop of every node |
| **Patroni, life of a node** (`P/postgresql/bootstrap.py`, `rewind.py`, `slots.py`, `config.py`, `P/ha.py`) | `/initialize`, data directories, timelines, slots, `/status`, recovery configuration | bootstrap, clone, crash recovery, `pg_rewind`, reinitialize; create, keep, copy and drop slots | the leader, PostgreSQL's files |
| **Patroni, configuration and health checks** (`P/config.py`, `P/api.py`, `P/postgresql/config.py`, `P/utils.py`) | `/config`, files, caches, settings that wait for a restart, a deadline until which a node answers as leader | PATCH and PUT `/config`, reload, `GET /primary` and its kind | clients, load balancers |
| **Patroni, Citus** (`P/postgresql/mpp/citus.py`) | `pg_dist_node`, the coordinator's cache of it, a queue of tasks, an open transaction | `sync_meta_data`, `handle_event`, `process_tasks` | REST calls of the worker groups |
| demo-app-1 (`backend/main.go`, HAProxy, nginx) | tables `users`, `orders` | CRUD handlers, one SQL statement each | PostgreSQL |
| Deployment, dashboards, load generators, course documents | none of the program's own | | |

Which behaviours are hard:

* *bank*: two handlers interleave between any two calls to the database or the
  cache; the deletes of cache keys follow the commit and are outside of the
  transaction; opposite transfers deadlock; a handler may die after any call;
  amounts with a fraction of a cent are rounded twice.
* *synchronous replication*: three writes that must be ordered, any of which may
  fail or be the last before a crash, with a failover in between; the logic's
  inputs (who is connected, who caught up) change from cycle to cycle.
* *leader key*: a lease that runs out while the process does not get to run, a
  cache of the DCS that lags, a promotion in another thread, a watchdog whose
  deadline must not be later than the lease's, a process that restarts while
  PostgreSQL goes on.
* *back ends*: an answer that is lost although the call took effect, a session
  that ended unnoticed, a command applied after its caller gave up.
* *executor*: the thread of an action starts some time after it was scheduled;
  an action can be cancelled before, while and after it starts a process; the
  HA loop, which holds the executor's lock for a whole cycle, demotes a node
  whose postmaster is being started by another thread; `cancel` waits without
  a timeout.
* *requests and life of a node*: every cycle acts on a snapshot of the cluster
  that others have changed since; a crash at any point leaves a data directory,
  a key or a slot behind that the next cycle has to make sense of.

`PROJECT.json` lists the hazards at their lines, with the properties that cover
them; those without a property have a note.

## 2. The modules

| Module | Models | Code |
|---|---|---|
| `BankCache` | the request handlers over the database and the cache | `backend/main.py` |
| `QuorumResolver` | the pure algorithm: from a configuration and the nodes' state to a sequence of transitions | `P/quorum.py` |
| `QuorumConfig` | the configuration of a cluster: `/sync`, `synchronous_standby_names`, the transitions not yet carried out; cycles interrupted anywhere, failover | `P/ha.py`, `P/postgresql/sync.py` |
| `QuorumCommit` | the same with logs, acknowledgements, `SyncHandler` and the leader race | `P/postgresql/sync.py`, `P/ha.py` |
| `MultiSync` | priority synchronous replication, its order of writes | `P/ha.py`, `P/postgresql/sync.py` |
| `LeaderLock` | the leader key on etcd v3, the HA cycle, the promotion thread, the watchdog | `P/ha.py`, `P/dcs/etcd3.py`, `P/watchdog/base.py` |
| `LeaderKey` | abstract: what every back end promises about the leader key | `P/dcs/__init__.py` |
| `LeaderStore`, `StoreEtcd`, `StoreEtcd3`, `StoreConsul`, `StoreZooKeeper`, `StoreRaft`, `StoreKubernetes` | what the back ends have in common; each of them | `P/dcs/*.py` |
| `EtcdClient` | calls to a DCS of several servers: retries, reloads of the list of servers | `P/dcs/etcd.py`, `P/dcs/kubernetes.py`, `P/utils.py` |
| `AsyncExecutor` | the executor with the functions it runs, and those who schedule and cancel them | `P/async_executor.py`, `P/postgresql/cancellable.py`, `P/postgresql/__init__.py`, `P/ha.py` |
| `Failsafe` | failsafe mode | `P/ha.py`, `P/api.py` |
| `Switchover` | switchover and failover, scheduled or not, pause, the race they steer | `P/ha.py`, `P/api.py`, `P/ctl.py` |
| `Restarts` | restarts of PostgreSQL, asked for, scheduled or after a crash | `P/ha.py`, `P/api.py` |
| `Bootstrap` | who creates the cluster, clones, what is found at start | `P/ha.py`, `P/postgresql/bootstrap.py` |
| `Rewind` | how a node whose WAL has diverged gets back | `P/postgresql/rewind.py`, `P/ha.py` |
| `MemberSlots`, `LogicalSlots` | physical slots of members and their retention; a permanent logical slot on all nodes | `P/postgresql/slots.py`, `P/dcs/__init__.py` |
| `Recovery` | the recovery configuration of a standby | `P/postgresql/config.py` |
| `Configuration`, `ConfigLayers`, `Units` | changes of `/config` and their application; the layers of a node's configuration and the timeouts; settings with units | `P/config.py`, `P/api.py`, `P/postgresql/config.py`, `P/utils.py` |
| `Health` | health checks of the REST API | `P/api.py`, `P/ha.py` |
| `PgDistGroup`, `Citus` | one group of `pg_dist_node` and the statements that change it; the coordinator's thread and the events | `P/postgresql/mpp/citus.py` |

`QuorumConfig` EXTENDS `QuorumResolver` and `QuorumCommit` EXTENDS `QuorumConfig`:
the resolver is used as is, and `QuorumConfig` is the abstract specification that
`QuorumCommit` implements. The `Store...` modules EXTEND `LeaderStore` and
implement `LeaderKey`. `Citus` EXTENDS `PgDistGroup`. The other models stand
alone and say at their head what they take as given: what one module takes as
one step, a choice or a fact, another one takes apart. `LeaderLock`, for
example, has a promotion as one step of a thread, which `AsyncExecutor` takes
apart; `AsyncExecutor` has the leader lock as a choice at the start of each
cycle, which `LeaderLock` explains.

Four modules put models side by side for TLC: `MCCluster`, `MCParts`,
`MCExecutor` and `MCStores`. There `part` (`backend`), chosen at the start, says
whose turn it is: a behaviour of the composition is a behaviour of one part, with
the other parts at rest. The parts do not interact; they share variables named
`a`, `b`, ..., by INSTANCE ... WITH. A property of a part reads
`part = "..." => ...`. `MCBankCache`, `MCQuorumCommit` and `MCLeaderLock` have
values and symmetry for one module.

The proofs are in `BankCacheProofs`, `QuorumCommitProofs`, `PartsProofs`,
`ClusterProofs`, `StoresProofs`, `MCPartsProofs`, `MCExecutorProofs` and
`MCClusterProofs` (section 5).

### How they correspond to the code

`BankCache`. One action per call of a handler: `pc[w]` names the next call of
thread `w`, `req[w]` its parameters and `data[w]` its local variables. `lock` is
PostgreSQL's row locks: `SELECT ... FOR UPDATE` and the second `UPDATE` wait for
them, `DeadlockDetected` aborts one transaction of a cycle. A transaction's
writes stay in `data` until `Commit` makes both balances and the row visible.
`Fail` is an exception, a lost connection or a crash after any call.
Money is in cents, the amount asked for in 1/`Scale` of a cent, and `ToCents` is
the rounding of `DECIMAL(15, 2)`, which the balances and `transactions.amount` have:
a row stores the rounded amount, and keeps what was asked for in `asked`, a history
that only properties read. The three roundings of a half cent go up, so that its payer
keeps a cent that no row tells of (`Left`). Statistics and scores are functions of the
account's transaction rows, so a cached copy is the set of their ids.

`QuorumResolver`. `Generate` is `_generate_transitions`, with one operator per
method it calls. A resolver is a record; a generator that yields, changes its
state and yields again is a record with the list of what it has yielded so far;
a `QuorumError` or failed assertion marks the record `Raised`, and the methods
that follow do nothing. `Transitions` merges adjacent transitions as `__iter__` does.

`QuorumConfig`. `ComputeTransitions` starts a cycle, `WriteSyncKey` and
`SetStandbyNames` carry out the next transition, `AbandonTransitions` is a
failed write or a restart, `LosePrimary` and `WinElection` a failover in which
any node that the votes admit is promoted. Node names are numbers, as the code
sorts them. PostgreSQL rejects `ANY 0`: then what was in force stays.

`QuorumCommit` adds the logs (sequences of the terms that wrote the records),
`Acknowledge` (what PostgreSQL answers under the names in force), what
`SyncHandler` memorises when the names change, and the race, in which a node
sees any subset of the members that run. `MultiSync` has a log as its length,
and the cycle in steps: `plan` is the turn at which it stands and what it has
loaded and picked.

`LeaderLock`. `pc[n]` is the place in the cycle: loaded, racing (lease
refreshed, key not yet put), acquired, refreshed (etcd confirmed, watchdog not
yet pinged), leading, three ways to demote, closing (before `touch_member`).
`pg[n]` joins PostgreSQL's role with the promotion thread. Time is two
countdowns, `lease` and `wd`, and `Tick` is the only step that takes time: a
stall is a run of `Tick`s between two steps of a node. `Tick` also removes an
expired key and resets a node whose watchdog fires. `Restart` is the Patroni
process alone. A call to etcd has its effect or not, and its answer arrives
or not (`DcsError` with the effect). A request that is still under way when the
node has given it up, and takes effect later, is left out here (and is in
`StoreRaft`). So is the pause of a ttl before a node races again after its
`pre_promote` script failed: the model lets it race at once, which adds
behaviours and removes none.

`LeaderStore` and the back ends. `log` is the history of the leader key, a copy
an index of it. `sure[m]` is for how long the last TRUE that member `m` was given
is good: it is what `LeaderKey` is about. The back ends differ in who
expires the key, in what a write is compared with, and in what a member reads.
On etcd v3 and Kubernetes that is a cache with three writers: the events of a
watch, the answers to the member's own calls, and the list that is read when the watch
broke and installed without a look at what is there. `RebuildCache` is read and
installation in one step, and makes up for it by taking any version: on etcd v3, whose
read is serializable, any at all, on Kubernetes any from the last event on. What
a call has put into the cache since the read is thereby overwritten with something
older, as in the code (a read from before the call, or from a server that lags, is the
same list). The check of the Raft term (`StaleEtcdNodeGuard`) only makes some old
lists impossible and is left out. An answer comes before the events that follow it.

`AsyncExecutor`. `task[w]` is a thread that `run_async` has started (or the API
thread that executes a restart): its action and the next step of the function
it runs. `pc` is where the HA loop and the API threads are; the HA loop holds
the executor's lock from `BeginCycle` to `EndCycle`, everybody else within one
step (`LockFree`). `crit` and `resp` are the two `CriticalTask`s: the
executor's own, which is reset when an action ends, and that of a promotion,
which is not. PostgreSQL is `up`, `role` (what Patroni believes) and `datadir`
(whether it comes up as a primary). The lock of the cluster is found held or not
at the start of each cycle, and PostgreSQL may crash at any time. `fenced`
records, for a property, that the node was demoted for the lost lock during the
action under way. A start that
fails is `Launch`'s second outcome, one that hangs ends by its timeout in `Wait`.

`Failsafe`, `MemberSlots`, `Bootstrap`, `Switchover`, `Restarts`, `Rewind`,
`Health` have a cycle in steps as well: `step[n]` (`task`, `busy`) is where node
`n` is, `view[n]` or the locals in `step[n]` the cluster as it loaded it.
`faults`, `moves`, `ids`, `count` are bounds. In `Failsafe` a second passes only
when every primary had its cycle, that is, a cycle is shorter than the ttl.

`LogicalSlots`. Positions in the WAL and transaction ids are one number;
`removed[n]` is up to where node `n` has vacuumed its catalog, `mind[n]` what its
Patroni remembers of the copies that are not safe yet.

`Rewind`. The WAL of a node is the sequence of the timelines its records were
written on; `history` is the timeline that the key `/history` tells of; `state[n]`
is `Rewind._state`, `busy` the asynchronous action of each node.

`Recovery`. `known` is what `ConfigHandler` remembers of a running PostgreSQL
(`_current_recovery_params`), `params` what it has written last
(`_recovery_params`), `dirty` the files that have changed since their times were
noted, `conf` and `auto` the files themselves, `loaded` what PostgreSQL
runs with. A signal to reload and the reload are two steps.

`Switchover`. The leader, after each cycle in which it goes on leading, looks after
`/sync` (`LookAfterSync`, one step for the key; the order of writes within it is
`MultiSync`'s subject), and the winner of a race puts itself alone there
before it promotes (`Prepromote`), or does not promote in this cycle (`Postpone`: `/sync`
has another version, or the write fails). It keeps the key then, and its next
cycle tries again, as the comment in `P/ha.py` at 1144 says. The promotion itself is in
another thread (`Promoted`), which may be stopped when the key is lost (`Cancelled`).
`view[n].outdated` says that `/sync` has been written since `n` loaded it, which is what
the version tells. `lagging` is who lacks what counts; `FallBehind` spares only
the standbys of `/sync`, whom a commit waits for.

`Configuration`. Two parameters stand for those that need a restart and those
that do not. `client` is a PATCH between its read and its compare-and-set, which is one
unless `Blind`: the first version of `/config` is 0 on ZooKeeper (`ZeroIsAny`), and
`_set_or_create` passes `version or -1`, any version. `written.lost` notes a
parameter that such a write has taken back.
`ConfigLayers` is the other half: file, cached copy and `/config` of a node
layered to its effective configuration, with `AdjustedTimeouts` for the rule
`loop_wait + 2 * retry_timeout <= ttl`. `Units` starts from a setting of any unit
and base unit and writes one value after another into it; values are fractions.

`EtcdClient`. One record `call` is the request under way: which servers are left,
the time that is left, what to do next. Time passes as a call uses it up.

`PgDistGroup` and `Citus`. A name is a pair of a host and the number of times
"-demoted" was appended to it; a group is a function from names, the table one
from ids. `transition` gives the outcomes of the statements the code may yield, one
for each way in which it pops its sets: the rows then, the ids that added nodes got,
and whether every statement succeeded. They are carried out in a transaction
`open`, which `process_task` commits or which is lost. The other groups' tasks are a bit that waits for this group's
transaction.

What each module leaves out of the code it models is at its head; some points
need more than a line:

* *`Citus`*. The group is registered at first. `citus_add_node` with a name that
  is there changes nothing. After a rollback the cache, changed in place, may
  hold rows that the table does not, and what the next task makes of them may
  leave the table itself without its primary; and a thread that was at work when
  `on_demote` cleared the cache may commit a switchover halfway, with a row under
  the name of a demoted node. `mixed` marks both, until the table is read and is
  `Whole`; `CacheIsTable` and `RoutedAgain` except it. A `before_demote` for a
  group without a cached primary only registers the secondaries.
* *`LogicalSlots`*. One slot, one fault, standbys that follow a new primary with a
  restart (`Reload = FALSE`). With three faults `ReadyIsSafe` does not hold: a
  standby whose copy was declared safe under the first primary stands aside while
  another leads and dies, and is promoted with a replayed removal of catalog rows
  that nothing held back. Section 5 says what is needed against it.
* *`Units`*. Whole numbers only, unless the unit is the setting's own; `K` stands for
  1024 and values are scaled down.
* *`EtcdClient`*. The bound on a call is four times `retry_timeout`, while the rule of
  `P/config.py` 318 reckons with two calls of one.
* *`Recovery`*. A cycle comes after PostgreSQL has reloaded; version 10, whose
  recovery configuration is a file of its own, is modelled with Patroni never
  killed; of the parameters `primary_conninfo` and `restore_command`.
* *`Rewind`*. With some seven faults a promotion that a crash cancels resets
  the state of a node whose WAL holds a record of single-user mode, and
  `DivergenceIsSeen` fails; the run has two.
* *`StoreConsul`, `StoreZooKeeper`*. A member whose session was replaced deletes the key
  and creates it again. That is not atomic in the code, and `ImplementsLeaderKey`
  promises nothing from then on (`Recreated`).
* *`StoreEtcd3`*. A member that has deleted its own key, and whose lease lives, may get a list
  from before the delete. `_update_leader` then compares copy and lease (`P/dcs/etcd3.py`
  957, 970), finds them equal, and answers TRUE without a transaction and without the
  key. `ImplementsLeaderKey` has that one step as an exception (`Misled`), for a member
  with the very lease with which it deleted the key (`extra`). It lasts until the watch
  catches up.
* *`Configuration`*. `WritesKept` excepts what is lost to a `Blind` write, and
  nothing else: two clients that both read version 0 of `/config` overwrite each other
  on ZooKeeper. `write_sync_state` on ZooKeeper has the same gap at version 0 of `/sync`,
  the very first write of the key; `Switchover` has the compare-and-set of the other
  back ends.
* *`Switchover`*. In synchronous mode there is no pause: in one a primary on an old
  timeline may lead again. A replica does not lose the key within the cycle in which it
  won it, that is, from the race to the promotion (`Stall`); that a lock is not lost
  unnoticed is `LeaderLock`'s subject. Requests are called off before a fault only.
* *`LeaderLock`*. A key that was deleted is gone from the caches of its former holder too:
  the `Misled` member above is not part of it.

Some constants are flags for a behaviour of the code that breaks a property;
runs that must pass have the other value, and the proofs assume it:
`Prompt = FALSE` (a stall where nothing guards against it, finding 4), `Forgetful`
(Patroni started again on a running node, finding 6), `MaxByHand > 0` (a
promotion by hand, finding 5), `Lossy` (an answer to a write of `/failsafe` is
lost), `Untidy` (a failed bootstrap leaves its directory), `EarlyPut` (a PUT of
`/config` before the cluster has one), `WhileStarting` (a change is noticed while
PostgreSQL starts), `Garbled` (a timeout that is not a number), `Reload`,
`TRUE \in Forces` (a forced reinitialize, section 5), `Insistent` and
`PreVote = FALSE` (etcd's servers). Each is a hazard in `PROJECT.json`, or stands
next to one.

## 3. The runs

| Run | Checks | Bounds |
|---|---|---|
| `bank_books` | `NonNegative`, `BooksBalance`, `DriftBounded`: no account is overdrawn, the balances are what the stored rows add up to, but for the cent a payer keeps of each half cent, rounding moves the total by at most a cent a transfer | 2 threads, 2 accounts and an unknown one, 3 transfers, reads of one account |
| `bank_stale` | *violates* `FreshAfterInvalidation` (finding 1) | 2 threads, no faults |
| `cluster_parts` | quorum configuration: `QuorumsMeet` (whoever acknowledges meets whoever elects, in every intermediate state), `ElectableSettles` (four cycles lead to the optimal configuration); switchover: `RequestsSettle`; `HeirsAreCurrent`: whoever `/sync` lets race lacks nothing that counts, also after the winner has promoted and the old leader's cycle goes on; restarts: `KeyFreed`; Citus: `CacheIsTable`, `RoutedAgain` | 3 nodes, factor 1 and 2; switchover with 1 request and 1 fault (a pause counts as one); restarts with 2 crashes, 2 requests and timeouts of 1; Citus with 3 hosts and 3 events |
| `quorum_stuck` | *violates* `Settles` (finding 2) | 3 nodes, factor 1 |
| `commit_one_fault` | `NoLostCommit`: a new primary has every acknowledged commit; `SteadyHasLatestCommit`: until a fault or a change of `synchronous_node_count` every electing set has them; `ConfigSpec` (the refinement) | 3 nodes, logs of 3, one failover, one fault or change |
| `commit_evicted` | *violates* `QuorumHasLatestCommit` (finding 3) | 3 nodes, one fault |
| `patroni_parts` | `WriterHoldsKey`: a node that writes holds the leader key; `StallsEnd`: one that writes without it, after a stall, stops though nothing but time goes on; `HeirsHaveCommits`: whoever may be elected in priority mode has every commit; `OnePrimary`: no second primary in failsafe mode; `OneSystem`; `SlotKept`; `ReadyIsSafe`: a logical slot declared safe is; `SettingsAgree`: Patroni reads a setting as PostgreSQL does | 2 nodes for the lock (ttl 5, loop_wait 1, timeout 2) and the stalls (3, 1, 1); 3 nodes and one fault for the others |
| `lock_stalled` | *violates* `WriterHoldsKey` (finding 4) | 2 nodes, ttl 6, loop_wait 2, timeout 3 |
| `multisync_by_hand` | *violates* `HeirsHaveCommits` (finding 5) | 3 nodes, one promotion by hand |
| `executor_parts` | executor: `OneAction`: one function at a time, and the executor is busy with it; `StaysDown`: after a demotion during an action this action brings up no primary; `QuietAfterCancel`: nothing runs after `cancel` has returned at shutdown; `ShutdownEnds`, `ActionEnds`. Bank: `SummaryCoherent`, `EventuallyFresh`, `RequestsEnd`. Rewind: `DivergenceIsSeen`, `AllJoin`. DCS client: `CallsInTime`, `Reconnects`. Recovery configuration: `Settles` | 1 API thread, 2 background threads, requests not forced; 1 or 2 transfers; 2 nodes, 1 record, 2 faults; 3 servers, 2 changes; 2 targets, 2 changes, versions 10, 12, 13, 14 |
| `stores` | `ImplementsLeaderKey` on six back ends; `NoEventLost`: a copy that was put back, by a late event, an answer or an old list, is right once all events have come (etcd v3, Kubernetes); `OneAnswers`: one node answers for the primary; `WritesKept`: no change of `/config` is lost by another's, but for a `Blind` one; `PendingIsTold`: a server that waits for a restart says so; `OneConfiguration`: nodes that have seen one version agree | 2 members, ttl 1 (health checks 2), 5 versions of the key (etcd v3 and Raft 4), 3 sessions; 3 versions of `/config` and 1 crash or switchover, and 2 versions and 1 restart for the layers |
| `slots_forgotten` | *violates* `SlotKept` (finding 6) | 3 nodes, Patroni restarts once |

Each property of a passing run has a mutant in `PROJECT.json`: a plausible bug
of the code that makes TLC report the property violated. The mutated
definitions are in the modules, next to those they mutate.

**Why the bounds are enough.** *bank*: two threads are the least that race and
deadlock; three transfers make a cycle through both accounts and one that is
refused; one transfer suffices for the races between a reader and a commit, since
a key's value depends only on the transfer before and after it. The amounts have
a negative one, a whole cent and half a cent. *quorum*: with three nodes and a
factor of two every case of the resolver is reached except those that need two
replicas to go and come at once (see finding 2 for four nodes).
*commits*: one failover is what the property is about, and a loss needs a
commit on a replica, one that lags, and one fault. *lock*: two nodes are the
least that can both write; the timings are the smallest that satisfy the
configuration's rule with the strict and the non-strict case of each comparison
reachable. *executor*: two background threads
are what it takes for a second action to be scheduled beside the first, one API
thread is enough to race with the HA loop. *back ends*: two members race for a key
that changes hands twice and comes back. *nodes in threes*: the former
leader, the new one, and a third that either may have told. *switchover*: both its
properties also hold with two faults, and with two requests and no fault. For most of the safety
properties the question is moot, since the proofs are for any bounds
(section 5).
All bounds are named constants: `MaxTransfers`, `MaxLog`, `MaxTerm`,
`MaxFaults`, `MaxMoves`, `MaxIds`, `MaxXid`, `MaxOps`, `MaxVersion`,
`MaxRestarts`, `MaxRequests`, `MaxCrashes`, `MaxTime`, `MaxInserts`,
`MaxChanges`, `MaxUsed`, `MaxWrites`, `MaxSessions`, `MaxByHand`, `MaxValue`, and
the set `Workers` of `AsyncExecutor`. The others are finite
without a bound. Deadlock is not checked where a bound stops the system or where
it ends (a shutdown); in `cluster_parts` and `patroni_parts` it is.

**Fairness.** *bank*: a thread that can make its next call makes it (WF); a lock
that keeps becoming free is granted in the end (SF, PostgreSQL queues waiters);
deadlocks are detected (WF, `deadlock_timeout`); times to live run out (WF).
Nothing is assumed of callers and failures. *stalls*: only `Tick` is fair. No
process is assumed to run again, which is the situation the watchdog is for.
*executor*: a cycle ends, and so does a function, since its scripts do, or are
killed, and starts have a timeout (WF). The lock is free now and then only: who
waits for it gets it in the end (SF), for which the loop sleeps between cycles
(`P/__main__.py` 190-192). Nothing is assumed of clients, crashes, or whether
another cycle begins. *switchover, restarts, rewind*: the cycles of a node that is
up come again and again, the threads it started end, keys expire, and PostgreSQL
receives and replays (WF); nothing is assumed of people and crashes, which are
bounded. In `Switchover` that is `Turn(n)`, `Expire`, `CatchUp(n)`, and time, which makes a
schedule due. *Citus*: the thread runs, the heartbeat comes, deadlines pass, and a
worker that was promoted says so again (its `sync_meta_data` in every cycle) (WF).
*client*: the client goes on, and servers with a majority elect (WF).
*recovery*: Patroni's cycles come, PostgreSQL becomes ready, reloads when it is
told to and streams (WF). The hosts state the fairness of each part's own
specification, restricted to the part (`Fairness`, `PartsFairness`).

## 4. Findings

1. `bank_stale`: the README of the demo says that after a transfer the next
   request brings fresh data into the cache. A reader that missed before the
   commit stores the old balance after the delete.
2. `quorum_stuck`: the comment of `quorum.py` says that the desired state can be
   reached from any other. A quorum as large as the number of voters can be
   stored and makes every later cycle raise `QuorumError`.
   With four nodes and a factor of 2 an interrupted cycle does the same: a
   cycle that shrinks the voters stops between its writes, a node goes away,
   and `ElectableSettles` fails too (`N = 4`, `Counts = {2}`, `MinSync = 0`).
3. `commit_evicted`: the documentation says that any electing subset of voters
   has the latest commit at all times. A replica that was ready once stays so,
   and the quorum is lowered for it although it lags now. Without any fault the
   same happens when `synchronous_node_count` is raised from 1 to 2.
4. `lock_stalled`: the documentation says that with `safety_margin: -1` the
   watchdog triggers in all circumstances. The first activation takes the full
   timeout and does not look at the lease: a node that stalls between the
   acquisition of the key and the activation promotes after its key has expired.
   The window closes after `ttl // 2`, which `StallsEnd` shows.
5. `multisync_by_hand`: a comment of `ha.py` says that only standbys that were
   guaranteed to be synchronous are considered for a promotion. After a
   promotion outside Patroni a lagging replica that the former leader's `/sync`
   named is written to the new leader's.
6. `slots_forgotten`: the documentation says that the slot of an absent member is
   dropped after `member_slots_ttl`. When Patroni restarts on the leader it is
   dropped at once, on all nodes.

## 5. What is proved

All proofs are for every value of the constants that satisfies the assumptions
of the modules (`...Assumption`) and those that a theorem names, and use no axiom.
Hardly any of the invariants is inductive; what follows says how each was
strengthened.

**Bank** (`BankCacheProofs`).

* `TypeCorrect`: the variables, and the locals of a handler
  at each of its calls, keep their types. `NoOverdraft`: `NonNegative`. It is
  not inductive: the debit is computed two calls after the check of the funds.
  The strengthening says that a transfer past its check owns the row's lock
  until it ends (`Held`), and that what it holds for the commit is what the
  committed balances give (`Checked`, `Computed`); as nobody else may write a
  locked row, the check remains true.
* `NoUpdateLost`: `BooksBalance`. `Ledger` is a recursive function on sequences,
  so that it adds up a ledger longer by one row as it should has to be proved
  first: the function of a prefix's length that satisfies the recursion exists
  and is the only one (`BooksExist`, `BooksAgree`). Then `Safe` from the theorem
  above says that what `Commit` writes is the old balance and the row, whose amount
  is rounded by itself: `RoundedDebit` says that the rounded rest of the payer is what
  the stored amount leaves, and a cent more for an amount midway between two cents.
* `MoneyIsKept`: `DriftBounded`, for finitely many accounts. The total of the
  balances is a sum over a set; that it changes by what the two accounts
  of a transfer change by (`TotalMoves`) is proved by induction over finite sets,
  and that two roundings of opposite sides differ by at most a cent in
  `RoundedSides`.
* `SummariesCohere`: a reader that holds a balance holds one of a moment not later
  than that of its statistics (`ReadersCoherent`), as rows are only added.

  The two inductions are proved from the well-founded order of the naturals
  (`SetInduction`), as the library's theorems with an operator parameter cannot
  be instantiated here.

**Quorum commit** (`QuorumCommitProofs`).

* `ConfigMeets`: `QuorumsMeet`, for any number of nodes and any node counts. The
  resolver has a *view* of `/sync` and `synchronous_standby_names`, and a view is
  *safe* when any set that can acknowledge and any that can elect meet in it.
  `GenerateGood`, with a lemma for each method of the resolver, says that every
  transition it yields leads from a safe view to a safe view; `MergedLeads` that
  this survives the merging of adjacent transitions. The invariant `ConfigInv`
  says that what is left of a cycle's transitions leads on from what is in the
  two places now (`Led`), wherever the cycle is interrupted, and that
  PostgreSQL's names and the key are one view of each other (`Tracks`), also
  when PostgreSQL has refused `ANY 0` or a transition was a `restart`.
* `ImplementsConfig`: every behaviour of `QuorumCommit`
  is one of `QuorumConfig`. The invariant `Placed` says where the variables of
  the logs have to be for a step to be one of the abstract ones: replicas are
  nodes other than the primary, and only listed replicas are ready. Each action
  maps to the action of `QuorumConfig` it contains, or stutters.
  `QuorumsAlwaysMeet` follows for the cluster with logs.
* `SteadyCommits`: `SteadyHasLatestCommit`, for any number of nodes, node counts and
  logs of any length. `QuorumsMeet` is not enough: the set that may elect can
  be met by a replica that was listed after the commit and has not caught up. The
  invariant `SteadyInv` counts instead: of the voters in `/sync`, no more than its
  quorum may lack what was acknowledged (`KeyFits`), which `Acknowledge` keeps
  because it waits for `numsync` of the listed names, and `StepSyncKey` because of
  what the generator did when it computed the transition. For that, `TransitionsFit`
  goes through the methods of the resolver once more: with a right view of the
  connections every transition adds connected replicas only, takes no listed one
  away, and votes in a set of which enough have confirmed (`Fits`);
  `LaterFits` and the `...TailFits` lemmas carry this to the moment the
  transition is applied, with more replicas caught up (`Later`). A change of the
  node count, a stop or a lost connection ends the premise (`faults = 0`).
* `OneFaultLosesNothing`: `NoLostCommit` up to one fault, whenever it comes, for any
  number of nodes, node counts and logs of any length. A fault under a primary that
  goes on takes nothing from its log (`PrimaryHasAll`). When the primary stops,
  `SteadyInv` says for the last time that every electing set has the commits;
  until somebody wins, logs, `/sync` and the answer to that question stay
  (`Leaderless`), and `WinnerHasAll` compares the winner with the voters it
  counted. A winner outside of `/sync` cannot be: only if nothing was
  acknowledged is the key without a leader (`Unused`). With two faults the
  statement is false (finding 3).

**Leader lock** (`MCPartsProofs`). `TypeCorrect`, and `LockKept`: under `Prompt`,
`WriterHoldsKey`. The invariant says of each node: in promotion or writing,
its watchdog is armed and fires no later than its lease expires (`Guarded`);
what the cycle learned from etcd still holds (`Held`); no promotion is under
way where one may be started (`Idle`); and, the core, between etcd's answer
and the ping the watchdog has at least `Ttl - Timeout` less to go than the
lease (`Armed`), so that a ping, which gives it `Timeout <= Ttl - Timeout`,
cannot take it past the lease. `Prompt` is used only for nodes whose watchdog
is not open yet (`Unarmed`). Finding 4 shows that it cannot be dropped.

**Back ends** (`StoresProofs`, `PartsProofs`). `BackEndsImplementLeaderKey`: every
step of each of the six back ends is one of `LeaderKey`, and `SureIsHolder`: there
who is sure holds the key, hence at most one is. `NoEventIsLost`: a copy is never
behind the events its member has had (`Ahead`), because `set` and `delete` leave a newer
entry alone, and a list takes the place of the events before it only. The
invariants differ as the products do:

* etcd v2 and Raft: who is sure has the key for longer than it is sure
  (`SureByTime`); in Raft, a member whose call was given up while its command
  is under way is not sure (`Unsure`), and an expiry under way is for a key that
  has run out (`ExpiresLate`).
* etcd v3: who is sure has a lease that lasts longer, and the key hangs on it
  (`SureBySession`); leases are apart; and an entry of the history, whichever a copy
  shows, that names a member's live lease is the key as it is, unless the member has
  deleted it with that lease (`LeaseUsed`). This is why an update may skip the write,
  however old the copy, and why `Misled` is the only exception.
* Consul and ZooKeeper: the same of sessions, until somebody recreates its key.
* Kubernetes: a member that has observed the record which is there gives it at
  least the time it has (`ObservedLongEnough`), and writes against what it
  observed (`LoadedObserved`); an older copy makes the write fail.

**Executor** (`MCExecutorProofs`). `TypesKept`, and, for any number of threads and
requests that are not forced, `OneActionAtATime`, `DemotedStaysDown`,
`CalledOffStaysOff` (a promotion called off does not reach `pg_ctl promote`; no run
checks it), `QuietAfterShutdownCancel`. The
invariant says that at most one thread has an action, from its scheduling to
its end (`OneWorker`); that the event is set only when no function runs and
that a cancellation, once made at shutdown, is not revoked (`Flags`); how far
a promotion may be with what its critical task says (`Promotion`); that the
start under which the node was demoted is called off or has its postmaster
terminated (`Fence`); and that an action which starts a replica has written
its configuration by then (`Standby`), since such an action is not called off
by a demotion and must not start a primary either.
The assumption on forced requests is needed: `cancel` returns at once for an
action whose thread has not begun, as `schedule` sets the event, and the
`schedule` of the forced request takes the cancellation back, so that both
functions run. With `Forces = {TRUE}` TLC shows `OneAction` violated in nine
steps. It is listed as a hazard.

**Parts of a cluster** (`ClusterProofs`), for any number of nodes.

* `FailsafeOnePrimary`: a primary without the leader key is *vouched for* by
  every other member of `/failsafe`, each of which counts it as leader for some
  time (`Protected`), and has more than a cycle of it left after its own cycle
  (`Renewed`); nobody else is about to take the key. Needs a ttl of two cycles.
* `BootstrapOneSystem`: one node at most bootstraps, with its mark in `/initialize`
  (`OneActive`), and all settled nodes have the identifier that the key has or
  will get (`OneId`).
* `MultiSyncHeirs`: the leader and the voters of `/sync` have what was acknowledged
  (`Keyed`), because voters are always among the names PostgreSQL waits for
  (`Led`), and the handler trusts only replicas that have everything since
  the names changed (`Trusted`). `Planned` carries that through the steps of a cycle.
* `MemberSlotsKept`: an absent member is owed some time still. Then it is in
  `retain_slots` (`Listed`), in what every cycle under way will write or use
  (`Carried`), and the leader, or one that is about to be, gives it at least
  as long (`Counted`, `Writing`).
* `CallsEndInTime`: asking some of the servers, each for its share, takes no longer
  than asking all of them; the stages of a call add up to less than four times
  `retry_timeout` (`Timely`).
* `ReadyCopyIsSafe`: `ReadyIsSafe` for one fault, any number of nodes and transactions.
  A copy that may be declared safe *guards* itself: nobody, up to the primary, has
  removed what it needs, and its physical slot holds vacuum back to there
  (`Guards`). While it waits the same holds of the remembered `catalog_xmin`
  (`Waits`), as the slot sends feedback only to who it follows (`FedBack`).
  `FollowedCopyIsSafe` is for any number of faults: it suffices that a primary dies
  only when each of the others follows it or nobody (`Followed`), which one
  fault cannot violate.
* `SettingsMeanTheSame`: `SettingsAgree`, for any value, with 1024 or any other multiple
  of 16 as the kB. Both programs round twice, to the next smaller unit and to
  the base unit, in different order of multiplication and division. Rounding depends
  on the ratio only (`RoundSame`), a smaller unit is a whole part of the larger
  (`MakesMemory`, `MakesTime`), so that whole numbers of units are not changed by
  the first rounding (`WholeReads`), and with a plain base unit both roundings are of
  equal ratios (`PlainReads`). What is shown of a value is a whole number of the
  largest unit that divides it (`ShownReads`); a MB is to be a whole number of
  base units of 8 or 16 kB, for which the multiple of 16 is needed.
* `HeirsStayCurrent`: `HeirsAreCurrent` is not inductive, as anyone who writes `/sync`
  later could break it. Added is who may do so (`Entitled`): who leads and holds the
  key lacks nothing; a primary whose view of `/sync` is not outdated, and which
  thinks that it has the key, lacks nothing even if the key is gone; and
  a leader that lacks nothing is the leader `/sync` names, so that there is one at most.
  `LeftEntitled` is for the steps that leave `/sync` alone, `WrittenEntitled` for those
  that write it.

**Configuration and health** (`PartsProofs`). `PatchesAreKept` (a PATCH is based on
the version it names, `Based`), `PendingIsAlwaysTold`, `OneNodeAnswers` (who
answers has the key for that long), `TimeoutsAlwaysFit` (the adjustment makes any
integers fit, and adjusting them twice changes nothing), `ConfigurationIsOne`.

**Citus** (`PartsProofs`). `CacheIsTheTable`: `CacheIsTable`, for any hosts and any
number of events. Most of the proof is about `transition`. Its argument is a topology
that is *good* for the rows (`Good`: one primary, and the nodes with an id are the rows,
one each). From there each part of `transition` adds its share: a node that takes an
id takes it from a node that is renamed, removed, or put aside in the same transition,
so that no two rows get one name (`Fits`, `Taken`); after `Promote` the new primary has
the primary's row (`Promoted`), after `FillIds` and `Reuse` what is left of `gone` has
the rows without a node and what is left of `added` no row (`Full`), and
`AddRemove` closes that gap in the table or in the topology (`Ended`). Over the
actions the invariant says that the topology the next task starts from is good
for the table that task sees, in a transaction or not (`Working`, `InSync`); it
speaks of the cache, of the task in flight, and of the thread's own task, since the
three are one object in the code at different moments. None of this
holds after a rollback. Assumed is that `None` and `Other` are no hosts, names, numbers
or records, and that some host is up at first (`CitusAssumption`).

**Hosts** (`MCPartsProofs`, `MCExecutorProofs`, `MCClusterProofs`, `StoresProofs`). What the theorems say
of a module by itself holds of the specifications the runs check, in which the
parts share variables: theorems `Host...` state the properties of the runs
literally. Lemmas `...Same` say that an INSTANCE of a part in the host is the
INSTANCE in the module of proofs.

### What is only model-checked

* The liveness properties (`RequestsSettle`, `KeyFreed`, `RoutedAgain`, `StallsEnd`,
  `ShutdownEnds`, `ActionEnds`, `EventuallyFresh`, `RequestsEnd`, `AllJoin`,
  `Reconnects`, `Settles`): fairness and ENABLED are out of the prover's reach.
* `ElectableSettles` follows four cycles of the resolver, and holds for three nodes
  only (finding 2).
* `DivergenceIsSeen` holds for few faults only (it fails with some seven, section 2).
* `RequestsSettle` excepts what the code does not settle: a pause, nobody up who
  may lead, and a switchover whose candidate the leader has dropped from `/sync`
  (`Wedged`). That one is a hazard without a property: the leader writes `/sync` in
  the cycle before, or carries out a request it loaded before, the candidate may not
  race then, the others wait for the candidate, which answers, and the former leader
  may not lead for a request that names it. Until somebody removes the request the
  cluster has no primary.

## 6. What is not modelled

The parts listed as `not_modelled` in `PROJECT.json`, with the reasons there.
Within the modelled parts: `GET /rates/{currency}` (the service never writes that
table, so its cached copy is always right); start-up and the statistics
endpoints of the bank; `maximum_lag_on_failover`, `check_timeline`, tags and
priorities in the races; standby clusters; custom bootstrap and replica methods;
validation of files, `pg_hba.conf` and authentication; the other keys on
each back end, TLS and Exhibitor; Citus before version 11; in `LeaderLock` a stop
of PostgreSQL that disables the watchdog although it gave up waiting for its
backends; in `AsyncExecutor` bootstrap, `pg_rewind` and crash
recovery as actions, `before_stop`, demotions that run as an action, stops that
fail outside of a restart, and API threads still in flight at a shutdown.
The modules are checked by themselves: a fault that needs two of them, say a
switchover in failsafe mode, is out of scope.

## 7. Plan

Done: the modules of section 2 and the proofs of section 5. Left:

1. `OrdersApp`: users and orders of demo-app-1 with uniqueness and cascade.
