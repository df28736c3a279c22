-------------------------------- MODULE Health --------------------------------
(***************************************************************************)
(* Whom the load balancer sends writes to: the health checks of the REST   *)
(* API (api.py do_GET) while the leader key is taken, updated, released    *)
(* and lost (ha.py set_is_leader and its callers).  A node does not ask    *)
(* the DCS when it is checked; it answers from a deadline of its own.      *)
(*                                                                         *)
(* Standby clusters and pause are left out; a query is one whose lag and   *)
(* tags the node meets, where others only make a 503 of a 200.  Time is    *)
(* counted in ticks.                                                       *)
(***************************************************************************)
EXTENDS Naturals

CONSTANTS
  Node, None,
  Ttl,         \* of the leader key
  Quorum,      \* quorum commit instead of synchronous replicas
  Prompt,      \* is a write of the DCS answered in the tick it takes effect?
  MaxFaults    \* bound: failed requests, restarts

VARIABLES
  leader, left,   \* the leader key, and what is left of its lease
  sync,           \* the replicas that /sync names
  view,           \* what a node has last loaded: [leader, sync], or NoView
  until,          \* what is left until _leader_expiry
  pg,             \* "primary", "replica" or "down"
  step,           \* where in its cycle a node is
  asked,          \* writes of the leader key whose answer is on its way
  api,            \* the nodes whose REST API listens
  faults

vars == <<leader, left, sync, view, until, pg, step, asked, api, faults>>
dcs == <<leader, left, sync>>

NoView == [leader |-> None, sync |-> {None}]

Init ==
  /\ leader = None /\ left = 0 /\ sync = {}
  /\ view = [n \in Node |-> NoView] /\ until = [n \in Node |-> 0]
  /\ pg = [n \in Node |-> "replica"] /\ step = [n \in Node |-> "idle"]
  /\ asked = {} /\ api = Node /\ faults = 0

Set(f, n, v) == [f EXCEPT ![n] = v]
At(n, where) == step[n] = where
Goes(n, to) == step' = Set(step, n, to)
Fault == faults < MaxFaults /\ faults' = faults + 1

\* set_is_leader
IsLeader(n) == until[n] > 0
SetIsLeader(n, value) == until' = Set(until, n, IF value THEN Ttl ELSE 0)

-----------------------------------------------------------------------------
\* What a request is answered

Known(n) == view[n] # NoView

\* get_postgresql_status.  A role the server cannot be asked for is the last known one.
Status(n) ==
  LET role == IF pg[n] = "primary" THEN "primary" ELSE "replica"
      matches == pg[n] # "down" /\ role = "replica" /\ Known(n) /\ n \in view[n].sync IN
  [state |-> IF pg[n] = "down" THEN "down" ELSE "running",
   role |-> role,
   sync |-> matches /\ ~Quorum,
   quorum |-> matches /\ Quorum]

\* do_GET: is the path answered 200?
ReplicaOk(n) == Status(n).role = "replica" /\ Status(n).state = "running"
PrimaryOk(n) == IsLeader(n)
Serves(n, path) ==
  \/ path \in {"primary", "read-write", "leader"} /\ PrimaryOk(n)
  \/ path = "replica" /\ ReplicaOk(n)
  \/ path = "read-only" /\ (PrimaryOk(n) \/ ReplicaOk(n))
  \/ path = "health" /\ Status(n).state = "running"
  \/ /\ Known(n) /\ ReplicaOk(n)
     /\ \/ path \in {"sync", "read-only-sync"} /\ Status(n).sync
        \/ path \in {"quorum", "read-only-quorum"} /\ Status(n).quorum
        \/ path = "async" /\ ~Status(n).sync /\ ~Status(n).quorum
  \/ Known(n) /\ path \in {"read-only-sync", "read-only-quorum"} /\ PrimaryOk(n)

\* The answer of a node to GET, HEAD or OPTIONS is 200 (with a lag and tags that are met).
Ok(n, path) == n \in api /\ Serves(n, path)

-----------------------------------------------------------------------------
\* A cycle

Load(n) ==
  /\ At(n, "idle") /\ n \in api
  /\ view' = Set(view, n, [leader |-> leader, sync |-> sync])
  /\ IF leader = n THEN UNCHANGED until ELSE SetIsLeader(n, FALSE)
  /\ Goes(n, IF pg[n] = "down" THEN "start" ELSE "loaded")
  /\ UNCHANGED <<dcs, pg, asked, api, faults>>

\* get_cluster fails, and so does what follows it on a primary.
LoadFails(n) ==
  /\ At(n, "idle") /\ n \in api /\ Fault
  /\ view' = Set(view, n, NoView)
  /\ Goes(n, IF pg[n] = "primary" THEN "demote" ELSE "idle")
  /\ UNCHANGED <<dcs, until, pg, asked, api>>

Start(n) ==
  /\ At(n, "start") /\ pg' = Set(pg, n, "replica") /\ Goes(n, "idle")
  /\ UNCHANGED <<dcs, view, until, asked, api, faults>>

\* acquire_lock, then enforce_primary_role
Acquire(n) ==
  /\ At(n, "loaded") /\ view[n].leader = None
  /\ IF leader = None THEN leader' = n /\ left' = Ttl ELSE UNCHANGED <<leader, left>>
  /\ IF leader = None THEN asked' = asked \cup {n} /\ UNCHANGED until
     ELSE SetIsLeader(n, FALSE) /\ UNCHANGED asked
  /\ Goes(n, IF leader = None THEN "asked" ELSE "idle")
  /\ UNCHANGED <<sync, view, pg, api, faults>>

\* update_lock
Update(n) ==
  /\ At(n, "loaded") /\ view[n].leader = n
  /\ IF leader = n THEN left' = Ttl /\ asked' = asked \cup {n} /\ Goes(n, "asked") /\ UNCHANGED until
     ELSE Goes(n, IF pg[n] = "primary" THEN "demote" ELSE "idle")
          /\ SetIsLeader(n, FALSE) /\ UNCHANGED <<left, asked>>
  /\ UNCHANGED <<leader, sync, view, pg, api, faults>>

\* DCSError: the key is not written, or it is and the answer is lost.
UpdateFails(n) ==
  /\ At(n, "loaded") /\ view[n].leader = n /\ Fault
  /\ left' \in {left, IF leader = n THEN Ttl ELSE left}
  /\ Goes(n, IF pg[n] = "primary" THEN "demote" ELSE "idle")
  /\ UNCHANGED <<leader, sync, view, until, pg, asked, api>>

\* The answer, and what the leader does with its key.
Answer(n) ==
  /\ n \in asked /\ asked' = asked \ {n}
  /\ SetIsLeader(n, TRUE) /\ Goes(n, "leads")
  /\ UNCHANGED <<dcs, view, pg, api, faults>>

Lead(n) ==
  /\ At(n, "leads") /\ Goes(n, "idle")
  /\ pg' = Set(pg, n, "primary")
  /\ \E names \in SUBSET (Node \ {n}) : sync' = (IF pg[n] = "primary" THEN names ELSE sync)
  /\ UNCHANGED <<leader, left, view, until, asked, api, faults>>

Follow(n) ==
  /\ At(n, "loaded") /\ view[n].leader \notin {n, None}
  /\ pg' = Set(pg, n, IF pg[n] = "primary" THEN "down" ELSE "replica") /\ Goes(n, "idle")
  /\ UNCHANGED <<dcs, view, until, asked, api, faults>>

-----------------------------------------------------------------------------
\* The end of a leader

\* demote without a request to release the key, once PostgreSQL is down
Demote(n) ==
  /\ At(n, "demote") /\ pg' = Set(pg, n, "down") /\ SetIsLeader(n, FALSE) /\ Goes(n, "idle")
  /\ UNCHANGED <<dcs, view, asked, api, faults>>

\* A switchover, or no reason to stay: the shutdown, then release_leader_key_voluntarily.
StepDown(n) ==
  /\ At(n, "leads") /\ pg[n] = "primary"
  /\ pg' = Set(pg, n, "down") /\ Goes(n, "release")
  /\ UNCHANGED <<dcs, view, until, asked, api, faults>>

\* _delete_leader
ReleaseForgets(n) ==
  /\ At(n, "release") /\ Goes(n, "delete")
  /\ UNCHANGED <<dcs, view, until, pg, asked, api, faults>>
Release(n) ==
  /\ At(n, "release") /\ SetIsLeader(n, FALSE) /\ Goes(n, "delete")
  /\ UNCHANGED <<dcs, view, pg, asked, api, faults>>
DeleteKey(n) ==
  /\ At(n, "delete") /\ Goes(n, "idle")
  /\ leader' = (IF leader = n THEN None ELSE leader) /\ left' = (IF leader = n THEN 0 ELSE left)
  /\ view' = Set(view, n, NoView)
  /\ UNCHANGED <<sync, until, pg, asked, api, faults>>

\* Patroni._shutdown: the REST API first, then Ha.shutdown
CloseApi(n) ==
  /\ At(n, "idle") /\ n \in api /\ Fault /\ api' = api \ {n}
  /\ UNCHANGED <<dcs, view, until, pg, step, asked>>
Shutdown(n) ==
  /\ n \notin api /\ pg[n] # "down" /\ pg' = Set(pg, n, "down")
  /\ leader' = (IF leader = n /\ IsLeader(n) THEN None ELSE leader)
  /\ left' = (IF leader = n /\ IsLeader(n) THEN 0 ELSE left)
  /\ UNCHANGED <<sync, view, until, step, asked, api, faults>>
StartPatroni(n) ==
  /\ n \notin api /\ pg[n] = "down" /\ api' = api \cup {n}
  /\ SetIsLeader(n, FALSE) /\ view' = Set(view, n, NoView) /\ Goes(n, "idle")
  /\ UNCHANGED <<dcs, pg, asked, faults>>

-----------------------------------------------------------------------------
Less(t) == IF t > 0 THEN t - 1 ELSE 0
Tick ==
  /\ Prompt => asked = {}
  /\ \E n \in Node : left > 0 \/ until[n] > 0
  /\ left' = Less(left) /\ leader' = (IF left > 1 THEN leader ELSE None)
  /\ until' = [n \in Node |-> Less(until[n])]
  /\ UNCHANGED <<sync, view, pg, step, asked, api, faults>>

HealthNext ==
  \/ Tick
  \/ \E n \in Node :
       \/ Load(n) \/ LoadFails(n) \/ Start(n) \/ Acquire(n) \/ Update(n) \/ UpdateFails(n)
       \/ Answer(n) \/ Lead(n) \/ Follow(n) \/ Demote(n) \/ StepDown(n) \/ Release(n)
       \/ DeleteKey(n) \/ CloseApi(n) \/ Shutdown(n) \/ StartPatroni(n)
HealthSpec == Init /\ [][HealthNext]_vars

-----------------------------------------------------------------------------
\* No two nodes answer 200 to the health check of the read-write port, and no node is in
\* two of the pools of synchronous, quorum and asynchronous standbys.
OneAnswers ==
  /\ \A m, n \in Node : Ok(m, "primary") /\ Ok(n, "primary") => m = n
  /\ \A n \in Node : \A p, q \in {"sync", "quorum", "async"} : Ok(n, p) /\ Ok(n, q) => p = q
=============================================================================
