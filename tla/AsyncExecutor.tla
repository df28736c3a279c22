--------------------------- MODULE AsyncExecutor ---------------------------
(***************************************************************************)
(* The one background action of a Patroni node (async_executor.py), the    *)
(* subprocess it may run (postgresql/cancellable.py), the functions it     *)
(* executes (postgresql/__init__.py) and those who schedule, call off and  *)
(* cancel it: the HA loop and the threads of the REST API (ha.py).         *)
(*                                                                         *)
(* The HA loop holds the executor's lock for a whole cycle; everybody else *)
(* holds it for one step.  Left out: pause, bootstrap, pg_rewind, standby  *)
(* clusters, scheduled restarts, a before_stop script, demotions that run  *)
(* as an action or for want of the DCS, restarts of a replica to change    *)
(* its settings.  A failed clone leaves no primary's data behind.          *)
(***************************************************************************)
CONSTANTS
    Main,       \* the main thread, which runs the HA loop
    Clients,    \* threads of the REST API
    Workers,    \* bound: threads that run_async has started and that live
    Forces,     \* values of "force" in requests to reinitialize
    None

ASSUME ExecutorAssumption ==
    /\ Main \notin Clients
    /\ None \notin {"promote", "restart", "start", "follow", "reinitialize",
                    "ok", "failed", "postmaster"}
    /\ Forces \subseteq BOOLEAN

VARIABLES
    action,     \* AsyncExecutor._scheduled_action
    cancelled,  \* AsyncExecutor._is_cancelled
    finished,   \* AsyncExecutor._finish_event
    sub,        \* CancellableSubprocess._is_cancelled
    crit,       \* AsyncExecutor.critical_task
    resp,       \* Ha._async_response, the critical task of a promotion
    task,       \* what each worker runs, and how far it has come
    pc,         \* where the HA loop and the API threads are
    locked,     \* the last cycle found that the node has the leader lock
    role,       \* the role Patroni believes PostgreSQL to have
    up,         \* a postmaster runs
    datadir,    \* what PostgreSQL is when started on this data directory
    fenced      \* demoted for the lost lock during the action under way

executor == <<action, cancelled, finished>>
critical == <<crit, resp>>
postgres == <<role, up, datadir>>
vars == <<executor, sub, critical, task, pc, locked, postgres, fenced>>

Threads == Clients \cup {Main}
Kinds == {"promote", "restart", "start", "follow", "reinitialize"}
Stages == {"free", "ready", "entered", "stopping", "calling", "in_call", "script_ok",
           "script_failed", "checking", "promoting", "starting", "launching",
           "waiting", "leaving"}
Pcs == {"idle", "cycle", "terminate", "demote", "checked", "cancel", "signal", "await",
        "unschedule", "stopping", "exited"}

TypeOK ==
    /\ action \in Kinds \cup {None}
    /\ cancelled \in BOOLEAN /\ finished \in BOOLEAN /\ sub \in BOOLEAN
    /\ crit \in [is_cancelled : BOOLEAN, result : {None, "postmaster"}]
    /\ resp \in [is_cancelled : BOOLEAN, result : {None, "ok", "failed"}]
    /\ task \in [Workers -> [kind : Kinds \cup {None}, stage : Stages]]
    /\ pc \in [Threads -> Pcs]
    /\ locked \in BOOLEAN /\ up \in BOOLEAN /\ fenced \in BOOLEAN
    /\ role \in {"replica", "promoted", "primary", "demoted"}
    /\ datadir \in {"standby", "primary"}

Free == [kind |-> None, stage |-> "free"]

LockFree == pc[Main] \notin {"cycle", "terminate", "demote"}
Busy == action # None
Goes(t, to) == pc' = [pc EXCEPT ![t] = to]
At(w, stage) == task[w].stage = stage
Moves(w, to) == task' = [task EXCEPT ![w] = [kind |-> task[w].kind, stage |-> to]]

(* Workers whose function is under way.                                    *)
Running == {w \in Workers : task[w].stage \notin {"free", "ready", "leaving"}}

-----------------------------------------------------------------------------
(* Mutants: an action scheduled over another; a task that does not look    *)
(* whether it was called off; a cancel that does not wait; an event that   *)
(* is not set and an action that is not unscheduled when the task is over; *)
(* a flag reset to None.                                                   *)
ScheduleOver == TRUE
CalledOffUnseen(critical_task) == FALSE
FinishedAtOnce == TRUE
DoneSilently == action' = None /\ UNCHANGED finished
DoneStillBusy == finished' = TRUE /\ UNCHANGED action

(* CriticalTask: reset, complete, cancel.                                  *)
Fresh == [is_cancelled |-> FALSE, result |-> None]
Completed(critical_task, result) == [critical_task EXCEPT !.result = result]
Abandoned(critical_task) == [critical_task EXCEPT !.is_cancelled = TRUE]

(* A replica that runs, with nothing under way.                            *)
Init ==
    /\ action = None /\ cancelled = FALSE /\ finished = FALSE
    /\ sub = FALSE
    /\ crit = Fresh /\ resp = Fresh
    /\ task = [w \in Workers |-> Free]
    /\ pc = [t \in Threads |-> "idle"]
    /\ locked = FALSE /\ fenced = FALSE
    /\ role = "replica" /\ up = TRUE /\ datadir = "standby"

(* schedule: no other action may be scheduled.                             *)
Unscheduled == action = None

Schedule(kind) ==
    /\ Unscheduled
    /\ action' = kind /\ cancelled' = FALSE /\ finished' = TRUE
    /\ \E w \in Workers :
        At(w, "free") /\ task' = [task EXCEPT ![w] = [kind |-> kind, stage |-> "ready"]]

(* try_run_async.                                                          *)
TryRun(kind) ==
    \/ Schedule(kind)
    \/ ~Unscheduled /\ UNCHANGED <<executor, task>>

(* CriticalTask: is_cancelled is read before the task runs.                *)
CalledOff(critical_task) == critical_task.is_cancelled

(* What run does last, whatever became of its function.                    *)
Done == action' = None /\ finished' = TRUE

(* cancel waits for the event.                                             *)
Finished == finished

-----------------------------------------------------------------------------
(* AsyncExecutor.run in a worker.                                          *)

Enter(w) ==
    /\ At(w, "ready") /\ LockFree
    /\ IF cancelled
       THEN Moves(w, "leaving") /\ UNCHANGED finished
       ELSE Moves(w, "entered") /\ finished' = FALSE
    /\ UNCHANGED <<action, cancelled, sub, critical, pc, locked, postgres, fenced>>

FirstStage(kind) ==
    IF kind \in {"restart", "reinitialize"} THEN "stopping"
    ELSE IF kind # "promote" THEN "starting"
    ELSE IF role \in {"promoted", "primary"} THEN "leaving" ELSE "calling"

(* reset_is_cancelled, no longer under the lock, and the function begins.  *)
Begin(w) ==
    /\ At(w, "entered")
    /\ sub' = FALSE
    /\ Moves(w, FirstStage(task[w].kind))
    /\ UNCHANGED <<executor, critical, pc, locked, postgres, fenced>>

Leave(w) ==
    /\ At(w, "leaving") /\ LockFree
    /\ Done
    /\ crit' = Fresh
    /\ fenced' = FALSE
    /\ task' = [task EXCEPT ![w] = Free]
    /\ UNCHANGED <<cancelled, sub, resp, pc, locked, postgres>>

(* stop, by restart, which gives up if it fails, and by _do_reinitialize.  *)
StopPostgres(w) ==
    /\ At(w, "stopping")
    /\ \/ /\ up' = FALSE
          /\ Moves(w, IF task[w].kind = "restart" THEN "starting" ELSE "calling")
       \/ /\ task[w].kind = "restart" /\ Moves(w, "leaving") /\ UNCHANGED up
    /\ UNCHANGED <<executor, sub, critical, pc, locked, role, datadir, fenced>>

(* CancellableSubprocess.call: the pre_promote script, if there is one, or *)
(* pg_basebackup.                                                          *)
Call(w) ==
    /\ At(w, "calling")
    /\ \/ Moves(w, IF sub THEN "leaving" ELSE "in_call")
       \/ task[w].kind = "promote" /\ Moves(w, "script_ok")
    /\ datadir' = IF task[w].kind = "reinitialize" THEN "standby" ELSE datadir
    /\ UNCHANGED <<executor, sub, critical, pc, locked, role, up, fenced>>

(* The process ends, by itself or because of cancel.                       *)
CallEnds(w) ==
    /\ At(w, "in_call")
    /\ \E to \in IF task[w].kind = "promote" THEN {"script_ok", "script_failed"}
                 ELSE {"starting", "leaving"} : Moves(w, to)
    /\ UNCHANGED <<executor, sub, critical, pc, locked, postgres, fenced>>

(* promote: under the lock of its critical task, is it called off?         *)
CompleteScript(w) ==
    /\ task[w].stage \in {"script_ok", "script_failed"}
    /\ IF CalledOff(resp)
       THEN Moves(w, "leaving") /\ UNCHANGED resp
       ELSE /\ resp' = Completed(resp, IF At(w, "script_ok") THEN "ok" ELSE "failed")
            /\ Moves(w, IF At(w, "script_ok") THEN "checking" ELSE "leaving")
    /\ UNCHANGED <<executor, sub, crit, pc, locked, postgres, fenced>>

CheckCancelled(w) ==
    /\ At(w, "checking")
    /\ Moves(w, IF sub THEN "leaving" ELSE "promoting")
    /\ UNCHANGED <<executor, sub, critical, pc, locked, postgres, fenced>>

(* pg_ctl promote, which fails if there is nothing to promote.             *)
PgPromote(w) ==
    /\ At(w, "promoting")
    /\ \/ /\ up
          /\ datadir' = "primary" /\ role' = "promoted"
          /\ Moves(w, "waiting")
       \/ Moves(w, "leaving") /\ UNCHANGED <<role, datadir>>
    /\ UNCHANGED <<executor, sub, critical, pc, locked, up, fenced>>

(* start, up to its look at the subprocess's flag; follow has written the  *)
(* recovery configuration.  A postmaster that runs already is left alone.  *)
Prepare(w) ==
    /\ At(w, "starting")
    /\ datadir' = IF task[w].kind = "follow" THEN "standby" ELSE datadir
    /\ role' = IF up THEN role ELSE IF datadir' = "standby" THEN "replica" ELSE "primary"
    /\ Moves(w, IF up \/ sub THEN "leaving" ELSE "launching")
    /\ UNCHANGED <<executor, sub, critical, pc, locked, up, fenced>>

(* The postmaster is started under the lock of the critical task, if the   *)
(* caller gave one; not if it is called off, or it fails to start.         *)
Critically(w) == task[w].kind \in {"restart", "start"}

Launch(w) ==
    /\ At(w, "launching")
    /\ \/ /\ ~(Critically(w) /\ CalledOff(crit))
          /\ up' = TRUE
          /\ crit' = IF Critically(w) THEN Completed(crit, "postmaster") ELSE crit
          /\ Moves(w, "waiting")
       \/ Moves(w, "leaving") /\ UNCHANGED <<crit, up>>
    /\ UNCHANGED <<executor, sub, resp, pc, locked, role, datadir, fenced>>

(* wait_for_startup and _wait_promote: until it runs, or a timeout.        *)
Wait(w) ==
    /\ At(w, "waiting")
    /\ role' \in IF task[w].kind = "promote" /\ up /\ datadir = "primary"
                 THEN {role, "primary"} ELSE {role}
    /\ Moves(w, "leaving")
    /\ UNCHANGED <<executor, sub, critical, pc, locked, up, datadir, fenced>>

Function(w) ==
    \/ Begin(w) \/ StopPostgres(w) \/ Call(w) \/ CallEnds(w) \/ CompleteScript(w)
    \/ CheckCancelled(w) \/ PgPromote(w) \/ Prepare(w) \/ Launch(w) \/ Wait(w)

-----------------------------------------------------------------------------
(* AsyncExecutor.cancel, called by an API thread or at shutdown.           *)

AfterCancel(t) == IF t = Main THEN "stopping" ELSE "checked"

Cancel(t) ==
    /\ pc[t] = "cancel" /\ LockFree
    /\ IF Busy THEN cancelled' = TRUE /\ Goes(t, "signal")
       ELSE Goes(t, AfterCancel(t)) /\ UNCHANGED cancelled
    /\ UNCHANGED <<action, finished, sub, critical, task, locked, postgres, fenced>>

(* CancellableSubprocess.cancel.                                           *)
Signal(t) ==
    /\ pc[t] = "signal"
    /\ sub' = TRUE
    /\ Goes(t, "await")
    /\ UNCHANGED <<executor, critical, task, locked, postgres, fenced>>

Await(t) ==
    /\ pc[t] = "await" /\ Finished
    /\ Goes(t, "unschedule")
    /\ UNCHANGED <<executor, sub, critical, task, locked, postgres, fenced>>

Unschedule(t) ==
    /\ pc[t] = "unschedule" /\ LockFree
    /\ action' = None
    /\ Goes(t, AfterCancel(t))
    /\ UNCHANGED <<cancelled, finished, sub, critical, task, locked, postgres, fenced>>

CancelStep(t) == Cancel(t) \/ Signal(t) \/ Await(t) \/ Unschedule(t)

(* reinitialize: the checks under the lock, cancel if forced, and, under   *)
(* the lock again, schedule.                                               *)
CheckReinitialize(c) ==
    /\ pc[c] = "idle" /\ LockFree
    /\ ~locked
    /\ \E force \in Forces : Goes(c, IF force THEN "cancel" ELSE "checked")
    /\ UNCHANGED <<executor, sub, critical, task, locked, postgres, fenced>>

Reinitialize(c) ==
    /\ pc[c] = "checked" /\ LockFree
    /\ TryRun("reinitialize")
    /\ Goes(c, "idle")
    /\ UNCHANGED <<sub, critical, locked, postgres, fenced>>

(* restart: the API thread that executes it is a worker here.              *)
Restart(c) ==
    /\ pc[c] = "idle" /\ LockFree
    /\ Schedule("restart")
    /\ UNCHANGED <<sub, critical, pc, locked, postgres, fenced>>

-----------------------------------------------------------------------------
(* The HA loop.                                                            *)

(* load_cluster_from_dcs and update_lock or the race: is the lock held?    *)
BeginCycle ==
    /\ pc[Main] = "idle"
    /\ locked' \in BOOLEAN
    /\ fenced' = (fenced /\ ~locked')
    /\ Goes(Main, "cycle")
    /\ UNCHANGED <<executor, sub, critical, task, postgres>>

EndCycle == Goes(Main, "idle")

(* handle_long_action_in_progress, with the lock: let it go on.  Without   *)
(* it, a promotion is called off if its script has not ended.              *)
LetGoOn ==
    /\ pc[Main] = "cycle" /\ Busy
    /\ \/ locked
       \/ role # "primary" /\ (action = "promote" => resp.result # None)
    /\ EndCycle
    /\ UNCHANGED <<executor, sub, critical, task, locked, postgres, fenced>>

CallOffPromotion ==
    /\ pc[Main] = "cycle" /\ action = "promote" /\ ~locked
    /\ resp.result = None
    /\ resp' = Abandoned(resp)
    /\ Goes(Main, "terminate")
    /\ UNCHANGED <<executor, sub, crit, task, locked, postgres, fenced>>

Terminate ==
    /\ pc[Main] = "terminate"
    /\ sub' = TRUE
    /\ EndCycle
    /\ UNCHANGED <<executor, critical, task, locked, postgres, fenced>>

(* Without the lock a primary is demoted.  First a start under way is      *)
(* called off, or the postmaster it has started terminated.                *)
CallOffStart ==
    /\ pc[Main] = "cycle" /\ Busy /\ ~locked
    /\ action = "promote" => resp.result # None
    /\ role = "primary"
    /\ IF action \notin {"restart", "start"} THEN UNCHANGED <<crit, up>>
       ELSE IF crit.result = None
            THEN crit' = Abandoned(crit) /\ UNCHANGED up
            ELSE up' = FALSE /\ UNCHANGED crit
    /\ Goes(Main, "demote")
    /\ UNCHANGED <<executor, sub, resp, task, locked, role, datadir, fenced>>

(* demote("immediate-nolock"): stop, and follow the leader.                *)
Demote ==
    /\ pc[Main] = "demote"
    /\ up' = FALSE /\ role' = "demoted"
    /\ fenced' = TRUE
    /\ TryRun("follow")
    /\ EndCycle
    /\ UNCHANGED <<sub, critical, locked, datadir>>

(* No action is under way: recover a PostgreSQL that does not run.         *)
Recover ==
    /\ pc[Main] = "cycle" /\ ~Busy /\ ~up
    /\ Schedule(IF locked /\ role = "primary" /\ datadir = "primary" THEN "start" ELSE "follow")
    /\ EndCycle
    /\ UNCHANGED <<sub, critical, locked, postgres, fenced>>

(* follow, by a node that is a primary and not the leader.                 *)
StepDown ==
    /\ pc[Main] = "cycle" /\ ~Busy /\ up
    /\ ~locked /\ datadir = "primary"
    /\ Goes(Main, "demote")
    /\ UNCHANGED <<executor, sub, critical, task, locked, postgres, fenced>>

FollowLeader ==
    /\ pc[Main] = "cycle" /\ ~Busy /\ up
    /\ ~locked /\ datadir = "standby"
    /\ EndCycle
    /\ UNCHANGED <<executor, sub, critical, task, locked, postgres, fenced>>

(* enforce_primary_role: give the lock back after a failed script.         *)
GiveUpLock ==
    /\ pc[Main] = "cycle" /\ ~Busy /\ up
    /\ locked /\ resp.result = "failed"
    /\ resp' = Fresh /\ locked' = FALSE
    /\ EndCycle
    /\ UNCHANGED <<executor, sub, crit, task, postgres, fenced>>

(* A primary stays one; a replica is promoted.                             *)
EnforcePrimaryRole ==
    /\ pc[Main] = "cycle" /\ ~Busy /\ up
    /\ locked /\ resp.result # "failed"
    /\ IF datadir = "primary"
       THEN role' = "primary" /\ UNCHANGED <<executor, resp, task>>
       ELSE /\ IF role \in {"promoted", "primary"}
               THEN UNCHANGED <<executor, resp, task>>
               ELSE resp' = Fresh /\ Schedule("promote")
            /\ UNCHANGED role
    /\ EndCycle
    /\ UNCHANGED <<sub, crit, locked, up, datadir, fenced>>

Cycle ==
    \/ LetGoOn \/ CallOffPromotion \/ Terminate \/ CallOffStart \/ Demote \/ Recover
    \/ StepDown \/ FollowLeader \/ GiveUpLock \/ EnforcePrimaryRole

(* shutdown, once the REST API is down and no request is under way.        *)
BeginShutdown ==
    /\ pc[Main] = "idle"
    /\ \A c \in Clients : pc[c] = "idle"
    /\ pc' = [t \in Threads |-> IF t = Main THEN "cancel" ELSE "exited"]
    /\ UNCHANGED <<executor, sub, critical, task, locked, postgres, fenced>>

StopAtShutdown ==
    /\ pc[Main] = "stopping"
    /\ up' = FALSE
    /\ Goes(Main, "exited")
    /\ UNCHANGED <<executor, sub, critical, task, locked, role, datadir, fenced>>

(* PostgreSQL may crash.                                                   *)
Crash ==
    /\ up /\ up' = FALSE
    /\ UNCHANGED <<executor, sub, critical, task, pc, locked, role, datadir, fenced>>

Next ==
    \/ \E w \in Workers : Enter(w) \/ Function(w) \/ Leave(w)
    \/ \E t \in Threads : CancelStep(t)
    \/ \E c \in Clients : CheckReinitialize(c) \/ Reinitialize(c) \/ Restart(c)
    \/ BeginCycle \/ Cycle \/ BeginShutdown \/ StopAtShutdown \/ Crash

Spec == Init /\ [][Next]_vars

(* Threads get to run, scripts and starts end or are killed, and the HA    *)
(* loop sleeps between cycles so that nobody who waits for the lock is     *)
(* starved (__main__.py).  Event.wait misses no set.                       *)
FairSpec ==
    /\ Spec
    /\ WF_vars(Cycle) /\ WF_vars(StopAtShutdown)
    /\ WF_vars(\E w \in Workers : Function(w))
    /\ SF_vars(\E w \in Workers : Enter(w) \/ Leave(w))
    /\ SF_vars(\E t \in Threads : CancelStep(t))

-----------------------------------------------------------------------------
(* Only one function is under way at a time, as there must be only one     *)
(* process that a cancel can reach (cancellable.py), and the executor is   *)
(* busy with its action until it ends: or the HA loop would go to work on  *)
(* PostgreSQL beside it.                                                   *)
OneAction ==
    /\ \A v, w \in Running : v = w
    /\ \A w \in Running : action = task[w].kind

(* When the HA loop has demoted the node during an action, a restart for   *)
(* example, this action does not bring PostgreSQL up as a primary behind   *)
(* its back (the interlock of handle_long_action_in_progress).             *)
StaysDown == fenced => ~(up /\ datadir = "primary")

(* A promotion that was called off gets no further than its script: once   *)
(* cancel has returned True the task notices (CriticalTask).               *)
PromotionCalledOff ==
    resp.is_cancelled =>
        \A w \in Workers : task[w].kind = "promote"
            => task[w].stage \notin {"checking", "promoting", "waiting"}

(* When cancel has returned at shutdown, nothing starts any more and       *)
(* nothing touches PostgreSQL while the main thread stops it.              *)
QuietAfterCancel == pc[Main] \in {"stopping", "exited"} => Running = {}

(* A shutdown comes to its end, whatever is under way when cancel is       *)
(* called: its wait for the event is not in vain.                          *)
ShutdownEnds == pc[Main] = "cancel" ~> pc[Main] = "exited"

(* No action blocks the executor for good.                                 *)
ActionEnds == Busy ~> ~Busy
=============================================================================
