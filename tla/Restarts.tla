------------------------------ MODULE Restarts -------------------------------
(***************************************************************************)
(* PostgreSQL of one node starts, crashes and is restarted: at once or at  *)
(* a scheduled time (api.py POST and DELETE /restart, patronictl restart   *)
(* and flush), after a crash (Ha.recover), with what the HA loop does when *)
(* a start fails or takes too long.                                        *)
(*                                                                         *)
(* There is always another node that could lead.  Pause, the loss of the   *)
(* leader key to the clock (LeaderLock), pg_rewind (Rewind) and the        *)
(* interlock of a demotion with a restart (AsyncExecutor) are left out.    *)
(***************************************************************************)
EXTENDS Naturals

CONSTANTS
  Timeout,       \* primary_start_timeout
  LoopWait,
  MaxTime, MaxCrashes, MaxRequests   \* bounds

VARIABLES
  key,        \* the leader key: of "me", of "other", "free"
  pg,         \* PostgreSQL
  state,      \* what Patroni takes it for (state_handler.state)
  role,       \* state_handler.role
  task,       \* the executor: [action, step]
  recovering, \* Ha.recovering
  waited,     \* time_in_state, while the state is "starting"
  sched,      \* patroni.scheduled_restart: [at, of, role], of which postmaster
  look,       \* the cycle's copy of it, while the cycle sleeps until its time
  count       \* [now, crashes, requests]

vars == <<key, pg, state, role, task, recovering, waited, sched, look, count>>

NoTask == [action |-> "none", step |-> "none"]
NoRestart == [at |-> 0, of |-> "unknown", role |-> "none"]
Now == count.now
Up(x) == pg = x
Does(action) == task.action = action

Init ==
  /\ key = "me" /\ role = "primary"
  /\ pg = "running" /\ state = "running"
  /\ task = NoTask /\ recovering = FALSE /\ waited = 0
  /\ sched = NoRestart /\ look = NoRestart
  /\ count = [now |-> 0, crashes |-> 0, requests |-> 0]

-----------------------------------------------------------------------------
\* Requests

Request == count.requests < MaxRequests /\ count' = [count EXCEPT !.requests = @ + 1]

\* schedule_future_restart: for the postmaster that runs, if one can be asked.
Schedule(at, whom) ==
  /\ Request /\ at > Now
  /\ sched' = IF sched = NoRestart
              THEN [at |-> at, of |-> IF Up("running") THEN "this" ELSE "unknown", role |-> whom]
              ELSE sched
  /\ UNCHANGED <<key, pg, state, role, task, recovering, waited, look>>

\* delete_future_restart
Delete ==
  /\ Request /\ sched # NoRestart /\ sched' = NoRestart
  /\ UNCHANGED <<key, pg, state, role, task, recovering, waited, look>>

\* restart_matches
Matches(whom) == whom \in {"any", role}

\* Ha.restart: unless the executor is busy.  A restart that fails is to be noticed by
\* the next cycle as a recovery that fails.
Begin(whom) ==
  IF Matches(whom) /\ task = NoTask
  THEN task' = [action |-> "restart", step |-> "stop"] /\ recovering' = TRUE
  ELSE UNCHANGED <<task, recovering>>

RestartNow(whom) ==
  /\ Request /\ Begin(whom)
  /\ UNCHANGED <<key, pg, state, role, waited, sched, look>>

-----------------------------------------------------------------------------
\* The executor's thread: Postgresql.restart, start, follow

Goes(from, to) == task.step = from /\ task' = [task EXCEPT !.step = to]

Stop ==
  /\ Goes("stop", "start") /\ state' = "restarting" /\ pg' = "down"
  /\ UNCHANGED <<key, role, recovering, waited, sched, look, count>>

\* start: the postmaster opens its ports and recovers, or ends at once.
Earlier(r) == IF r.of = "this" THEN [r EXCEPT !.of = "earlier"] ELSE r
Launch ==
  /\ Goes("start", "wait") /\ state' = "starting" /\ waited' = 0
  /\ pg' \in {"starting", "down"}
  /\ role' = IF Does("follow") THEN "replica" ELSE role
  /\ sched' = Earlier(sched) /\ look' = Earlier(look)
  /\ UNCHANGED <<key, recovering, count>>

\* check_startup_state_changed
Seen ==
  IF state # "starting" \/ Up("starting") THEN state
  ELSE IF Up("running") THEN "running" ELSE "start failed"

\* wait_for_startup
Wait ==
  /\ task.step = "wait" /\ (~Up("starting") \/ waited >= Timeout)
  /\ task' = NoTask /\ state' = Seen
  /\ UNCHANGED <<key, pg, role, recovering, waited, sched, look, count>>

Thread == Stop \/ Launch \/ Wait

-----------------------------------------------------------------------------
\* The HA loop's cycle, when the executor is free

\* demote(`immediate'), which then has the executor start PostgreSQL as a standby
Demote ==
  /\ pg' = "down" /\ state' = "stopped" /\ role' = "replica" /\ key' = "free"
  /\ task' = [action |-> "follow", step |-> "start"]
  /\ UNCHANGED <<recovering, waited, sched, look>>

\* handle_starting_instance
HandleStarting ==
  IF waited >= Timeout THEN Demote
  ELSE UNCHANGED <<key, pg, state, role, task, recovering, waited, sched, look>>

\* post_recover: the start that the cycle, or a restart, has asked for has failed.
PostRecover ==
  /\ recovering' = FALSE /\ state' = Seen
  /\ IF key = "me" THEN key' = "free" /\ role' = "replica" ELSE UNCHANGED <<key, role>>
  /\ UNCHANGED <<pg, task, waited, sched, look>>

\* recover: a primary that has crashed is started as it was; anything else as a standby.
IsForgotten == recovering' = FALSE
IsNoticed == recovering' = TRUE
Recover ==
  LET crashed == Seen \in {"running", "starting"}
      action == IF key = "me" /\ role = "primary" /\ crashed THEN "start" ELSE "follow"
  IN
  IF key = "me" /\ Timeout = 0 THEN Demote
  ELSE /\ task' = [action |-> action, step |-> "start"] /\ IsNoticed
       /\ state' = IF crashed THEN "crashed" ELSE Seen
       /\ UNCHANGED <<key, pg, role, waited, sched, look>>

\* should_run_scheduled_action: is it near, is it stale?
Awaits(r) == r.at > Now + LoopWait
Stale(r) == Now > r.at + LoopWait

\* evaluate_scheduled_restart: not of a postmaster that has been restarted since.
RestartedSince(r) == Up("running") /\ r.of = "earlier"
Evaluate ==
  IF sched = NoRestart \/ (Awaits(sched) /\ ~RestartedSince(sched)) THEN UNCHANGED <<sched, look>>
  ELSE IF RestartedSince(sched) \/ Stale(sched) THEN sched' = NoRestart /\ UNCHANGED look
  ELSE look' = sched /\ UNCHANGED sched

\* process_healthy_cluster and process_unhealthy_cluster
Healthy ==
  /\ recovering' = FALSE /\ state' = Seen
  /\ \/ /\ key = "me" /\ role' = (IF Up("running") THEN "primary" ELSE role)
        /\ Evaluate /\ UNCHANGED key
     \/ key = "other" /\ Evaluate /\ UNCHANGED <<key, role>>
     \/ key = "free" /\ key' \in {"me", "free"} /\ UNCHANGED <<role, sched, look>>
  /\ UNCHANGED <<pg, task, waited>>

Cycle ==
  /\ task = NoTask /\ look = NoRestart
  /\ IF Seen = "starting" /\ key = "me" THEN HandleStarting
     ELSE IF Up("down") THEN IF recovering THEN PostRecover ELSE Recover
     ELSE Healthy
  /\ UNCHANGED count

\* The rest of the cycle that has slept until the time of a scheduled restart.
Fire ==
  /\ look # NoRestart /\ Now >= look.at
  /\ Begin(look.role) /\ sched' = NoRestart /\ look' = NoRestart
  /\ UNCHANGED <<key, pg, state, role, waited, count>>

-----------------------------------------------------------------------------
\* PostgreSQL, the other node, time

Postgres ==
  /\ \/ Up("starting") /\ pg' = "running" /\ UNCHANGED count
     \/ /\ ~Up("down") /\ pg' = "down"
        /\ count.crashes < MaxCrashes /\ count' = [count EXCEPT !.crashes = @ + 1]
  /\ UNCHANGED <<key, state, role, task, recovering, waited, sched, look>>

OtherLeads ==
  /\ key = "free" /\ key' = "other"
  /\ UNCHANGED <<pg, state, role, task, recovering, waited, sched, look, count>>

Tick ==
  /\ \/ Now < MaxTime
     \/ state = "starting" /\ waited < Timeout
  /\ count' = [count EXCEPT !.now = IF @ < MaxTime THEN @ + 1 ELSE @]
  /\ waited' = IF state = "starting" /\ waited < Timeout THEN waited + 1 ELSE waited
  /\ UNCHANGED <<key, pg, state, role, task, recovering, sched, look>>

RestartsNext ==
  \/ \E whom \in {"any", "primary"} :
       RestartNow(whom) \/ \E at \in 1 .. MaxTime : Schedule(at, whom)
  \/ Delete \/ Thread \/ Cycle \/ Fire \/ Postgres \/ OtherLeads \/ Tick

\* The main loop and the executor's thread go on; a PostgreSQL that starts need not.
Progress == Cycle \/ Fire \/ Thread \/ Tick
RestartsSpec == Init /\ [][RestartsNext]_vars /\ WF_vars(Progress)

-----------------------------------------------------------------------------
\* A node whose PostgreSQL does not run gives the leader key up if it cannot get
\* PostgreSQL to run within primary_start_timeout (docs/dynamic_configuration.rst),
\* whoever has asked for the start, and whether it fails or hangs.
KeyIsIdle == key = "me" /\ ~Up("running")
KeyFreed == []<>~KeyIsIdle
=============================================================================
