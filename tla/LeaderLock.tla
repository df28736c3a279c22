----------------------------- MODULE LeaderLock -----------------------------
(***************************************************************************)
(* The leader key of a Patroni cluster on etcd v3 and what stands between  *)
(* it and PostgreSQL: the HA loop (ha.py), the lease the key hangs on      *)
(* (dcs/etcd3.py), the promotion that runs in another thread               *)
(* (async_executor.py, postgresql/__init__.py) and the watchdog device     *)
(* that resets a node whose HA loop no longer runs (watchdog/base.py).     *)
(*                                                                         *)
(* Time is discrete: lease and wd count down what is left, and no step of  *)
(* a node but Tick takes time, so a stall of any length is any number of   *)
(* Ticks between two of its steps.  The watchdog is required and works     *)
(* with the timeout the configuration asks for; failsafe mode, pause,      *)
(* switchovers, standby clusters, bootstrap and a crash of PostgreSQL      *)
(* alone are left out.  Which replica is healthy enough to race is open.   *)
(***************************************************************************)
EXTENDS Naturals

CONSTANTS
    Nodes,
    None,
    Ttl,        \* seconds a lease lives after a keepalive
    LoopWait,   \* seconds between two cycles of the HA loop
    Timeout,    \* WatchdogConfig.timeout
    Prompt      \* assume no node that has yet to open its watchdog sleeps
                \* until its lease has less than Timeout left

(* Timeout is ttl // 2 with safety_margin = -1, and the watchdog is usable *)
(* only if timing_slack is not negative.                                   *)
ASSUME LockAssumption ==
    /\ None \notin Nodes
    /\ Ttl \in Nat /\ LoopWait \in Nat \ {0} /\ Timeout \in Nat
    /\ LoopWait <= Timeout
    /\ 2 * Timeout <= Ttl
    /\ Prompt \in BOOLEAN

VARIABLES
    leader,     \* the /leader key
    lease,      \* what is left of the lease of each node, 0 once it expired
    view,       \* the leader each node saw when it last loaded the cluster
    pc,         \* where in the cycle the HA loop of each node is
    pg,         \* PostgreSQL of each node, and the promotion under way
    opened,     \* nodes whose Patroni process holds the watchdog open
    wd          \* what is left until the watchdog fires, 0 when it is off

vars == <<leader, lease, view, pc, pg, opened, wd>>

PCs == {"watch", "loaded", "racing", "acquired", "refreshed", "leading",
        "demoting", "offline", "stepping_down", "closing"}
PGs == {"replica", "pre_promote", "failed", "promoting", "promoted", "primary"}

TypeOK ==
    /\ leader \in Nodes \cup {None}
    /\ lease \in [Nodes -> 0..Ttl]
    /\ view \in [Nodes -> Nodes \cup {None}]
    /\ pc \in [Nodes -> PCs]
    /\ pg \in [Nodes -> PGs]
    /\ opened \in SUBSET Nodes
    /\ wd \in [Nodes -> 0..Timeout]

Init ==
    /\ leader = None
    /\ lease = [n \in Nodes |-> Ttl]
    /\ view = [n \in Nodes |-> None]
    /\ pc = [n \in Nodes |-> "watch"]
    /\ pg = [n \in Nodes |-> "replica"]
    /\ opened = {}
    /\ wd = [n \in Nodes |-> 0]

(* PostgreSQL commits transactions of its own.                             *)
Writes(n) == pg[n] \in {"promoted", "primary"}

(* The promotion thread has not finished (AsyncExecutor.busy).             *)
Busy(n) == pg[n] \in {"pre_promote", "promoting", "promoted"}

Goes(n, to) == pc' = [pc EXCEPT ![n] = to]

-----------------------------------------------------------------------------
(* Mutants: the key is put without comparing it; the watchdog of mode      *)
(* "automatic", which may be missing.                                      *)
RefreshKeyBlind(n) ==
    /\ lease' = [lease EXCEPT ![n] = Ttl]
    /\ leader' = n
ActivateAutomatic(n) == opened' = opened \cup {n} /\ UNCHANGED wd

(* The keepalive of update_leader: an expired lease is granted again, and  *)
(* a key that is gone created again, unless another node has it.           *)
RefreshKey(n) ==
    /\ lease' = [lease EXCEPT ![n] = Ttl]
    /\ leader' = IF leader = None THEN n ELSE leader

(* refresh_lease without force: skipped within loop_wait of the last one.  *)
RefreshLease(n) ==
    \/ lease' = [lease EXCEPT ![n] = Ttl]
    \/ lease[n] + LoopWait > Ttl /\ UNCHANGED lease

(* Watchdog.activate that succeeds.                                        *)
Activate(n) ==
    /\ opened' = opened \cup {n}
    /\ wd' = [wd EXCEPT ![n] = Timeout]

(* delete_leader: only the node's own key; its cache sees the deletion.    *)
Release(n) ==
    /\ leader' = IF leader = n THEN None ELSE leader
    /\ view' = [view EXCEPT ![n] = leader']

(* What the cycle does without the lock: cancels a promotion that has not  *)
(* passed its pre_promote script, demotes a primary.  A promotion past the *)
(* script runs on, its role is not "primary" before it is over.            *)
WithoutLock(n) ==
    /\ pg' = [pg EXCEPT ![n] = IF @ = "pre_promote" THEN "replica" ELSE @]
    /\ Goes(n, IF pg[n] = "primary" THEN "demoting" ELSE "closing")

-----------------------------------------------------------------------------
(* load_cluster_from_dcs: from the cache, which may lag behind etcd.       *)
Load(n) ==
    /\ pc[n] = "watch"
    /\ \E seen \in {leader, view[n]} : view' = [view EXCEPT ![n] = seen]
    /\ Goes(n, "loaded")
    /\ UNCHANGED <<leader, lease, pg, opened, wd>>

(* update_lock, confirmed by etcd: the key is the node's.                  *)
Refresh(n) ==
    /\ pc[n] = "loaded" /\ view[n] = n
    /\ leader \in {n, None}
    /\ RefreshKey(n)
    /\ Goes(n, "refreshed")
    /\ UNCHANGED <<view, pg, opened, wd>>

(* update_lock that returns False: somebody else has the key, or the calls *)
(* failed.                                                                 *)
RefreshFails(n) ==
    /\ pc[n] = "loaded" /\ view[n] = n
    /\ \/ leader # n /\ RefreshKey(n) /\ leader' # n
       \/ UNCHANGED <<leader, lease>>
    /\ WithoutLock(n)
    /\ UNCHANGED <<view, opened, wd>>

(* watchdog.keepalive of update_lock, a step after etcd's answer; the rest *)
(* of the cycle waits for a promotion that is under way.                   *)
Keepalive(n) ==
    /\ pc[n] = "refreshed"
    /\ wd' = [wd EXCEPT ![n] = IF n \in opened THEN Timeout ELSE @]
    /\ Goes(n, IF Busy(n) THEN "closing" ELSE "leading")
    /\ UNCHANGED <<leader, lease, view, pg, opened>>

(* Another node leads, or none and this one may not race, or is busy.      *)
Follow(n) ==
    /\ pc[n] = "loaded" /\ view[n] # n
    /\ WithoutLock(n)
    /\ UNCHANGED <<leader, lease, view, opened, wd>>

(* attempt_to_acquire_leader, first the lease.                             *)
Race(n) ==
    /\ pc[n] = "loaded" /\ view[n] = None
    /\ ~Busy(n)
    /\ RefreshLease(n)
    /\ Goes(n, "racing")
    /\ UNCHANGED <<leader, view, pg, opened, wd>>

(* Then the key, if there is none; a lease that expired in the meantime is *)
(* granted again and the put repeated, or given up at the deadline.        *)
Acquire(n) ==
    /\ pc[n] = "racing"
    /\ leader = None
    /\ leader' = n
    /\ lease' = [lease EXCEPT ![n] = IF @ = 0 THEN Ttl ELSE @]
    /\ view' = [view EXCEPT ![n] = n]
    /\ Goes(n, "acquired")
    /\ UNCHANGED <<pg, opened, wd>>

AcquireFails(n) ==
    /\ pc[n] = "racing"
    /\ \/ leader # None /\ lease' = [lease EXCEPT ![n] = IF @ = 0 THEN Ttl ELSE @]
       \/ lease[n] = 0 /\ UNCHANGED lease
    /\ view' = [view EXCEPT ![n] = leader]
    /\ WithoutLock(n)
    /\ UNCHANGED <<leader, opened, wd>>

(* A DCSError leaves the cycle, with or without the effect of its call;    *)
(* _handle_dcs_error demotes a primary and touches nothing else.           *)
DcsError(n) ==
    /\ \/ pc[n] \in {"watch", "loaded", "racing", "acquired"} /\ UNCHANGED <<leader, lease>>
       \/ pc[n] = "loaded" /\ view[n] = n /\ RefreshKey(n)
       \/ pc[n] = "racing" /\ leader = None /\ lease[n] > 0 /\ leader' = n /\ UNCHANGED lease
    /\ Goes(n, IF Writes(n) THEN "offline" ELSE "watch")
    /\ UNCHANGED <<view, pg, opened, wd>>

-----------------------------------------------------------------------------
(* enforce_primary_role.                                                   *)
(*                                                                         *)
(* The watchdog cannot be opened: a primary steps down, a replica gives    *)
(* the key back.                                                           *)
ActivateFails(n) ==
    /\ pc[n] \in {"acquired", "leading"}
    /\ n \notin opened
    /\ IF Writes(n)
       THEN Goes(n, "stepping_down") /\ UNCHANGED <<leader, view>>
       ELSE Goes(n, "closing") /\ Release(n)
    /\ UNCHANGED <<lease, pg, opened, wd>>

(* The watchdog runs.  After a failed pre_promote script the key is given  *)
(* back; a replica is promoted, or waits for the next cycle if the /sync   *)
(* key could not be written.                                               *)
Enforce(n) ==
    /\ pc[n] \in {"acquired", "leading"}
    /\ IF n \in opened THEN UNCHANGED <<opened, wd>> ELSE Activate(n)
    /\ IF pg[n] = "failed" THEN Release(n) ELSE UNCHANGED <<leader, view>>
    /\ \E next \in IF pg[n] = "replica" THEN {"replica", "pre_promote"}
                   ELSE {IF pg[n] = "failed" THEN "replica" ELSE pg[n]} :
            pg' = [pg EXCEPT ![n] = next]
    /\ Goes(n, "closing")
    /\ UNCHANGED lease

(* Postgresql.promote in its thread: the script, pg_ctl promote, the wait. *)
PrePromote(n) ==
    /\ pg[n] = "pre_promote"
    /\ \E result \in {"promoting", "failed"} : pg' = [pg EXCEPT ![n] = result]
    /\ UNCHANGED <<leader, lease, view, pc, opened, wd>>

Promote(n) ==
    /\ pg[n] = "promoting"
    /\ \E result \in {"promoted", "replica"} : pg' = [pg EXCEPT ![n] = result]
    /\ UNCHANGED <<leader, lease, view, pc, opened, wd>>

Promoted(n) ==
    /\ pg[n] = "promoted"
    /\ pg' = [pg EXCEPT ![n] = "primary"]
    /\ UNCHANGED <<leader, lease, view, pc, opened, wd>>

(* demote: PostgreSQL has stopped, the watchdog that the process opened is *)
(* disabled, and mode "immediate" releases the key.                        *)
Stopped(n) ==
    /\ pc[n] \in {"demoting", "offline", "stepping_down"}
    /\ pg' = [pg EXCEPT ![n] = "replica"]
    /\ opened' = opened \ {n}
    /\ wd' = [wd EXCEPT ![n] = IF n \in opened THEN 0 ELSE @]
    /\ IF pc[n] = "stepping_down" THEN Release(n) ELSE UNCHANGED <<leader, view>>
    /\ Goes(n, IF pc[n] = "offline" THEN "watch" ELSE "closing")
    /\ UNCHANGED lease

(* touch_member at the end of the cycle, which may fail, and watch.        *)
Touch(n) ==
    /\ pc[n] = "closing"
    /\ RefreshLease(n) \/ UNCHANGED lease
    /\ Goes(n, "watch")
    /\ UNCHANGED <<leader, view, pg, opened, wd>>

-----------------------------------------------------------------------------
(* The Patroni process dies and starts again: PostgreSQL and the watchdog  *)
(* run on, the promotion thread is gone.  The new process has a new lease; *)
(* a key of the node stays with the old one until update_lock moves it.    *)
Restart(n) ==
    /\ pg' = [pg EXCEPT ![n] = IF @ \in {"promoted", "primary"} THEN "primary" ELSE "replica"]
    /\ pc' = [pc EXCEPT ![n] = "watch"]
    /\ opened' = opened \ {n}
    /\ view' = [view EXCEPT ![n] = leader]
    /\ lease' = [lease EXCEPT ![n] = IF leader = n THEN @ ELSE Ttl]
    /\ UNCHANGED <<leader, wd>>

Left(t) == IF t = 0 THEN 0 ELSE t - 1

(* A second passes: leases expire, the key with its lease, and watchdogs   *)
(* reset their nodes, which boot as replicas.                              *)
Tick ==
    LET fired == {n \in Nodes : wd[n] = 1}
        After(f, value) == [n \in Nodes |-> IF n \in fired THEN value ELSE f[n]]
    IN  /\ \A n \in Nodes :
                Prompt /\ pc[n] \in {"racing", "acquired", "refreshed", "leading"} /\ n \notin opened
                    => lease[n] > Timeout
        /\ leader' = IF \E n \in Nodes : leader = n /\ lease[n] <= 1 THEN None ELSE leader
        /\ lease' = [n \in Nodes |-> IF n \in fired /\ leader # n THEN Ttl ELSE Left(lease[n])]
        /\ wd' = [n \in Nodes |-> Left(wd[n])]
        /\ pg' = After(pg, "replica")
        /\ pc' = After(pc, "watch")
        /\ view' = After(view, leader')
        /\ opened' = opened \ fired

HaStep(n) ==
    \/ Load(n) \/ Refresh(n) \/ RefreshFails(n) \/ Keepalive(n) \/ Follow(n)
    \/ Race(n) \/ Acquire(n) \/ AcquireFails(n) \/ DcsError(n)
    \/ ActivateFails(n) \/ Enforce(n) \/ Stopped(n) \/ Touch(n)

PromotionStep(n) == PrePromote(n) \/ Promote(n) \/ Promoted(n)

Next == Tick \/ \E n \in Nodes : HaStep(n) \/ PromotionStep(n) \/ Restart(n)

Spec == Init /\ [][Next]_vars

-----------------------------------------------------------------------------
(* No transaction is committed by a node whose leader key has expired,     *)
(* however long Patroni does not get to run and wherever it stops: so two  *)
(* nodes never write at once (ha.py, watchdog.rst).                        *)
WriterHoldsKey == \A n \in Nodes : Writes(n) => leader = n
=============================================================================
