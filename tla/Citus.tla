-------------------------------- MODULE Citus --------------------------------
(***************************************************************************)
(* How the coordinator of a Citus cluster keeps pg_dist_node true to the   *)
(* primary of one group of workers (patroni/postgresql/mpp/citus.py): the  *)
(* heartbeat of its HA loop and the REST requests of the workers make      *)
(* tasks, and one thread carries them out, in a transaction that may stay  *)
(* open from before_demote to after_promote. The tasks of the other groups *)
(* are one bit: they wait for this group's transaction and it for theirs.  *)
(***************************************************************************)
EXTENDS PgDistGroup

CONSTANTS
  Host, Up, \* the hosts of the group, and those that run at first
  Other,
  MaxUsed   \* bound of what happens from outside

VARIABLES
  worker,   \* of the worker group, in the DCS: its leader, whether its key says it runs as primary, and who runs
  queue,    \* _tasks: the task of this group and whether one of another group waits
  flight,   \* _in_flight: None, a task of this group, or Other
  late,     \* the deadline of the transaction in flight has passed
  cache,    \* _pg_dist_group[group], or None
  load,     \* _schedule_load_pg_dist_group
  job,      \* what the thread works on: None or the task, how far it is, and whether it is still queued
  table,    \* pg_dist_node as committed
  open,     \* pg_dist_node as the open transaction sees it, or None
  leads,    \* the coordinator's PostgreSQL runs as primary
  mixed,    \* the cache may differ from the table since a rollback, or the table is not Whole
  used      \* how often something happened from outside

vars == <<worker, queue, flight, late, cache, load, job, table, open, leads, mixed, used>>
tasks == <<queue, flight, late, cache, load, job, mixed>>
rows == <<table, open>>

Name(h) == <<h, 0>>
\* It has its primary, and no row is put aside under the name of a demoted one.
Whole(r) ==
  (\E id \in DOMAIN r : r[id].role = "primary") /\ \A id \in DOMAIN r : r[id].name[2] = 0
Ours == flight \notin {None, Other}
Queued == queue.task # None \/ queue.other

Init ==
  /\ worker = [leader |-> CHOOSE h \in Up : TRUE, ready |-> TRUE, up |-> Up]
  /\ queue = [task |-> None, other |-> FALSE]
  /\ flight = None
  /\ late = FALSE
  /\ cache = None
  /\ load = TRUE
  /\ job = None
  /\ table = [id \in {1} |-> [name |-> Name(worker.leader), role |-> "primary"]]   \* registered before
  /\ open = None
  /\ leads = TRUE
  /\ mixed = FALSE
  /\ used = 0

External == used < MaxUsed /\ used' = used + 1

(***************************************************************************)
(* add_task, _add_task: rest is "the task has a timeout".                  *)
(***************************************************************************)
Task(event, rest) ==
  [event |-> event, rest |-> rest, failover |-> FALSE,
   nodes |-> With([n \in {Name(h) : h \in worker.up} |-> Node("secondary", None)], Name(worker.leader),
                  Node(IF event = "before_demote" THEN "demoted" ELSE "primary", None))]

Same(t, event, nodes) == t.event = event /\ Roles(t.nodes) = Roles(nodes)
IsCached(t) == cache # None /\ t.event = "after_promote" /\ Roles(t.nodes) = Roles(cache)

\* Mutant: also to one in flight whose deadline has passed.
YieldsAlways(t) == ~t.rest /\ ((queue.task # None /\ queue.task.rest) \/ Ours)
\* A task of the heartbeat yields to one of a request, queued or in flight and not late.
Yields(t) ==
  ~t.rest /\ ((queue.task # None /\ queue.task.rest) \/ (Ours /\ ~late))

_add_task(t) ==
  IF Yields(t) THEN UNCHANGED <<queue, job>>
  ELSE IF queue.task # None
       THEN IF Same(t, queue.task.event, queue.task.nodes) THEN UNCHANGED <<queue, job>>
            ELSE /\ queue' = [queue EXCEPT !.task = t]
                 /\ job' = IF job = None THEN None ELSE [job EXCEPT !.queued = FALSE]
  ELSE /\ queue' = IF load \/ ~IsCached(t) \/ Ours THEN [queue EXCEPT !.task = t] ELSE queue
       /\ UNCHANGED job

\* The heartbeat of the coordinator's leader.
sync_meta_data ==
  /\ leads /\ worker.leader # None /\ worker.ready
  /\ _add_task(Task("after_promote", FALSE))
  /\ UNCHANGED <<worker, flight, late, cache, load, rows, leads, mixed, used>>

\* A request, perhaps delayed, from who is still the leader of the worker group.
handle_event ==
  /\ leads /\ worker.leader # None /\ External
  /\ \E e \in {"before_demote", "before_promote", "after_promote"} : _add_task(Task(e, TRUE))
  /\ UNCHANGED <<worker, flight, late, cache, load, rows, leads, mixed>>

OtherTask ==
  /\ leads /\ ~queue.other /\ External
  /\ queue' = [queue EXCEPT !.other = TRUE]
  /\ UNCHANGED <<worker, flight, late, cache, load, job, rows, leads, mixed>>

(***************************************************************************)
(* The thread: run, process_tasks.                                         *)
(***************************************************************************)
load_pg_dist_group ==
  /\ leads /\ job = None /\ flight = None /\ load
  /\ load' = FALSE
  /\ cache' = [n \in {table[id].name : id \in DOMAIN table} |->
                  LET id == CHOOSE i \in DOMAIN table : table[i].name = n IN Node(table[id].role, id)]
  /\ mixed' = (mixed /\ ~Whole(table))
  /\ UNCHANGED <<worker, queue, flight, late, job, rows, leads, used>>

Job(t) == [task |-> t, done |-> "picked", queued |-> TRUE]
CanPick == leads /\ job = None /\ (flight = None => ~load)

\* The task of a group whose cached topology matches is dropped, unless a transaction is open.
pick_task ==
  /\ CanPick /\ queue.task # None /\ flight # Other
  /\ IF flight = None /\ IsCached(queue.task)
     THEN queue' = [queue EXCEPT !.task = None] /\ UNCHANGED job
     ELSE job' = Job(queue.task) /\ UNCHANGED queue
  /\ UNCHANGED <<worker, flight, late, cache, load, rows, leads, mixed, used>>

Disconnect == open' = None /\ UNCHANGED table

\* query: any statement that fails closes the connection, and the table is read again.
QueryFails ==
  /\ Disconnect
  /\ flight' = None
  /\ load' = TRUE
  /\ job' = [job EXCEPT !.done = "failed"]
  /\ UNCHANGED cache

\* The task when its statements were sent: its nodes have the ids of their rows.
\* The topology it started from is the cached one itself, or that of the task in flight.
Changed(t, done) ==
  /\ job' = [job EXCEPT !.done = done, !.task.nodes = t.new,
                        !.task.failover = IF done = "closed" THEN FALSE ELSE t.failover]
  /\ IF Ours THEN flight' = [flight EXCEPT !.nodes = t.old] /\ UNCHANGED cache
     ELSE cache' = (IF cache = None THEN None ELSE t.old) /\ UNCHANGED flight
  /\ UNCHANGED load

Current == IF Ours THEN flight.nodes ELSE IF cache # None THEN cache ELSE <<>>
WasFailover == Ours /\ flight.failover

\* After on_demote the thread goes on from no topology, in the transaction it had open:
\* it may commit what was half done there.
process_task ==
  /\ job # None /\ job.done = "picked"
  /\ \E t \in transition(job.task.nodes, Current, WasFailover, IF open # None THEN open ELSE table) :
       IF ~t.ok THEN QueryFails
       ELSE IF job.task.event = "after_promote"
            THEN /\ Changed(t, "closed")
                 /\ IF Ours \/ open = None \/ t.sent > 1
                    THEN table' = t.rows /\ open' = None ELSE open' = t.rows /\ UNCHANGED table
            ELSE /\ Changed(t, "opened")
                 /\ open' = t.rows
                 /\ UNCHANGED table
  /\ mixed' = (mixed \/ (~leads /\ ~Whole(table')))
  /\ UNCHANGED <<worker, queue, late, leads, used>>

\* Under the lock again: nothing is noted when the tasks were cleared meanwhile (on_demote).
Finish ==
  /\ job # None /\ job.done # "picked"
  /\ job' = None
  /\ IF ~Queued THEN UNCHANGED <<queue, flight, late, cache>>
     ELSE /\ queue' = IF job.queued THEN [queue EXCEPT !.task = None] ELSE queue
          /\ flight' = IF job.done = "opened" THEN job.task ELSE None
          /\ late' = FALSE
          /\ cache' = IF job.done = "closed" THEN job.task.nodes ELSE cache
  /\ UNCHANGED <<worker, load, rows, leads, mixed, used>>

\* A task of another group: done, failed, or it leaves a transaction open.
ProcessOther ==
  /\ CanPick /\ queue.other /\ ~Ours
  /\ queue' = [queue EXCEPT !.other = FALSE]
  /\ flight' \in {None, Other}
  /\ late' = FALSE
  /\ UNCHANGED <<worker, cache, load, job, rows, leads, mixed, used>>

\* The deadline is looked at only when some task waits; a scheduled reading does not wait for it.
Rollback ==
  /\ leads /\ job = None /\ flight # None
  /\ load \/ (late /\ Queued)
  /\ flight' = None
  /\ open' = None
  /\ mixed' = (mixed \/ flight # Other)
  /\ UNCHANGED <<worker, queue, late, cache, load, job, table, leads, used>>

Deadline ==
  /\ flight # None /\ ~late
  /\ late' = TRUE
  /\ UNCHANGED <<worker, queue, flight, cache, load, job, rows, leads, mixed, used>>

(***************************************************************************)
(* What happens to the coordinator and to the workers.                     *)
(***************************************************************************)
ConnectionLost ==
  /\ job # None /\ job.done = "picked"
  /\ IF leads THEN External ELSE UNCHANGED used
  /\ QueryFails
  /\ UNCHANGED <<worker, queue, late, leads, mixed>>

\* demote: before PostgreSQL is shut down everything is forgotten.
on_demote ==
  /\ leads /\ External
  /\ leads' = FALSE
  /\ cache' = None
  /\ queue' = [task |-> None, other |-> FALSE]
  /\ flight' = None
  /\ job' = IF job = None THEN None ELSE [job EXCEPT !.queued = FALSE]
  /\ UNCHANGED <<worker, late, load, rows, mixed>>

\* promote, once the connection is gone: schedule_cache_rebuild.
PromotedAgain ==
  /\ ~leads /\ job = None
  /\ leads' = TRUE
  /\ load' = TRUE
  /\ Disconnect
  /\ UNCHANGED <<worker, queue, flight, late, cache, job, mixed, used>>

schedule_cache_rebuild ==
  /\ leads /\ External
  /\ load' = TRUE
  /\ UNCHANGED <<worker, queue, flight, late, cache, job, rows, leads, mixed>>

\* The worker group: its leader stops or leaves, another takes the lock and
\* is promoted, members come and go.
WorkerChanges ==
  /\ External
  /\ \/ \E h \in worker.up \cup {worker.leader, None}, u \in {worker.up, worker.up \ {worker.leader}} :
          worker' = [leader |-> h, ready |-> FALSE, up |-> u]
     \/ \E h \in Host \ {worker.leader} :
          worker' = [worker EXCEPT !.up = IF h \in @ THEN @ \ {h} ELSE @ \cup {h}]
  /\ UNCHANGED <<tasks, rows, leads>>
WorkerPromoted ==
  /\ ~worker.ready /\ worker.leader # None
  /\ worker' = [worker EXCEPT !.ready = TRUE, !.up = @ \cup {worker.leader}]
  /\ UNCHANGED <<tasks, rows, leads, used>>

CitusThread ==
  load_pg_dist_group \/ pick_task \/ process_task \/ Finish \/ ProcessOther \/ Rollback
CitusNext ==
  \/ sync_meta_data \/ handle_event \/ OtherTask \/ CitusThread \/ Deadline
  \/ ConnectionLost \/ on_demote \/ PromotedAgain \/ schedule_cache_rebuild
  \/ WorkerChanges \/ WorkerPromoted

CitusFairness ==
  /\ WF_vars(CitusThread) /\ WF_vars(sync_meta_data) /\ WF_vars(Deadline) /\ WF_vars(PromotedAgain)
CitusSpec == Init /\ [][CitusNext]_vars /\ CitusFairness

(***************************************************************************)
(* Properties                                                              *)
(***************************************************************************)
\* Between the tasks the cached topology is what the table holds: its rows are
\* the cached nodes that have one, each with its id and role (transition fills
\* the ids as it yields the statements, update_node those of added rows).
CacheIsTable ==
  leads /\ ~load /\ job = None /\ flight = None /\ cache # None /\ ~mixed =>
    {[name |-> table[id].name, role |-> table[id].role, id |-> id] : id \in DOMAIN table}
    = {[name |-> n, role |-> cache[n].role, id |-> cache[n].id]
       : n \in {m \in DOMAIN cache : cache[m].id # None}}

\* Queries for the group go to its primary, and are not paused.
Routed == \E id \in DOMAIN table : table[id] = [name |-> Name(worker.leader), role |-> "primary"]
IsRouted == worker.ready /\ ~mixed => Routed

=============================================================================
