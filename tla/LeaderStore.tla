----------------------------- MODULE LeaderStore -----------------------------
(***************************************************************************)
(* What the back ends of patroni/dcs have in common: a store with a leader *)
(* key whose every change has a version, and members that work with copies *)
(* of it.  `log' is the history of the key, the last entry being its       *)
(* value, and a copy is an index of `log': the code's ModifyIndex,         *)
(* mod_revision or resourceVersion.  What a member reads may lag behind:   *)
(* its server's replica (etcd v2, Consul, ZooKeeper, Raft) or its own      *)
(* cache fed by a watch (etcd v3, Kubernetes).                             *)
(*                                                                         *)
(* Time is counted down: by `left' for a key, `alive' for the sessions     *)
(* (leases) on the server, `sure' for how long the last TRUE given to a    *)
(* member is good.  MaxWrites and MaxSessions bound the history.           *)
(***************************************************************************)
EXTENDS Integers, Sequences, FiniteSets

CONSTANTS Member, None, Ttl, MaxWrites, MaxSessions

ASSUME StoreAssumption ==
  /\ None \notin Member
  /\ Ttl \in Nat \ {0}
  /\ MaxWrites \in Nat \ {0}
  /\ MaxSessions \in Nat

VARIABLES
  log,     \* entries [owner, by]: by is the session, or what else a back end compares
  left,    \* time to live of the key, where the key has one
  alive,   \* for each session granted, the time until the server ends it
  sess,    \* the session a member believes to have, 0 if none
  cursor,  \* how much of the history has been delivered to a member
  seen,    \* the copy a member's cache or server holds
  view,    \* the copy its HA cycle has loaded, 0 between cycles
  pc,      \* where the call of the HA cycle is
  sure,    \* see LeaderKey
  extra    \* what one back end needs besides

storeVars == <<log, left, alive, sess, cursor, seen, view, pc, sure, extra>>

Nobody == [owner |-> None, by |-> 0]
Session == 1 .. MaxSessions
Version == 1 .. MaxWrites

StoreInit ==
  /\ log = <<Nobody>>
  /\ left = 0
  /\ alive = [s \in Session |-> 0]
  /\ sess = [m \in Member |-> 0]
  /\ cursor = [m \in Member |-> 1]
  /\ seen = [m \in Member |-> 1]
  /\ view = [m \in Member |-> 0]
  /\ pc = [m \in Member |-> "idle"]
  /\ sure = [m \in Member |-> 0]

Last == Len(log)
Key == log[Last]
Dec(n) == IF n = 0 THEN 0 ELSE n - 1
SeesOwner(m, o) == view[m] # 0 /\ log[view[m]].owner = o

\* Sessions: a member's is live until the server ends it; an id that is known to
\* anybody is not given again, and which of the others is given makes no difference.
Live(m) == sess[m] # 0 /\ alive[sess[m]] > 0
Unknown == {s \in Session : /\ alive[s] = 0
                            /\ \A m \in Member : sess[m] # s
                            /\ \A i \in 1 .. Last : log[i].by # s}
Unused == {s \in Unknown : \A t \in Unknown : s <= t}

\* One change of the key.
Put(e) == Last < MaxWrites /\ log' = Append(log, e)

\* The answer to the HA cycle, which ends the call.
Say(m, good) ==
  /\ sure' = [sure EXCEPT ![m] = good]
  /\ view' = [view EXCEPT ![m] = 0]
  /\ pc' = [pc EXCEPT ![m] = "idle"]
SayNo(m) == Say(m, 0)

\* get_cluster: the copy the cycle works with.
Load(m) ==
  /\ pc[m] = "idle"
  /\ view' = [view EXCEPT ![m] = seen[m]]

\* A change reaches the member's server or cache.  What it has already, from the
\* answer to a call of its own, is not replaced by an older event.
Deliver(m) ==
  /\ cursor[m] < Last
  /\ cursor' = [cursor EXCEPT ![m] = @ + 1]
  /\ seen' = [seen EXCEPT ![m] = IF @ < cursor[m] + 1 THEN cursor[m] + 1 ELSE @]
  /\ UNCHANGED <<log, left, alive, sess, view, pc, sure, extra>>

\* The member's own write is in its copy at once.
SeeOwn(m) == seen' = [seen EXCEPT ![m] = Last + 1]

\* A cycle that ends without a call, or in which the member stops leading.
GiveUp(m) ==
  /\ view[m] # 0
  /\ SayNo(m)
  /\ UNCHANGED <<log, left, alive, sess, cursor, seen, extra>>

PassTime ==
  /\ left' = Dec(left)
  /\ alive' = [s \in Session |-> Dec(alive[s])]
  /\ sure' = [m \in Member |-> Dec(sure[m])]
  /\ UNCHANGED <<log, sess, cursor, seen, view, pc>>
=============================================================================
