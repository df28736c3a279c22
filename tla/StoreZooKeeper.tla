---------------------------- MODULE StoreZooKeeper ---------------------------
(***************************************************************************)
(* dcs/zookeeper.py.  The key is an ephemeral node of the client's session,*)
(* which kazoo's thread keeps alive beside the HA loop and replaces when   *)
(* the server has ended it.  Reads come from the server the client is      *)
(* connected to, which may lag, but never behind the client's own writes.  *)
(***************************************************************************)
EXTENDS LeaderStore

\* What extra[m] holds: the member has recreated its key in an update.
ZooKeeperInit == StoreInit /\ extra = [m \in Member |-> FALSE]

\* kazoo's pings, as long as the session lives ...
Heartbeat(m) ==
  /\ Live(m) /\ alive[sess[m]] < Ttl
  /\ alive' = [alive EXCEPT ![sess[m]] = Ttl]
  /\ UNCHANGED <<log, left, sess, cursor, seen, view, pc, sure, extra>>

\* ... and a new session when it learns that the old one has expired.
Reconnect(m) ==
  /\ ~Live(m)
  /\ \E s \in Unused : alive' = [alive EXCEPT ![s] = Ttl] /\ sess' = [sess EXCEPT ![m] = s]
  /\ UNCHANGED <<log, left, cursor, seen, view, pc, sure, extra>>

LoadCluster(m) ==
  /\ Load(m) /\ Live(m)
  /\ alive' = [alive EXCEPT ![sess[m]] = Ttl]
  /\ UNCHANGED <<log, left, sess, cursor, seen, pc, sure, extra>>

\* create(ephemeral); repeated after a lost answer it says NodeExists, FALSE.
AttemptToAcquireLeader(m) ==
  /\ SeesOwner(m, None) /\ pc[m] = "idle" /\ Live(m)
  /\ IF Key.owner = None
     THEN Put([owner |-> m, by |-> sess[m]]) /\ SeeOwn(m) /\ (Say(m, alive[sess[m]]) \/ SayNo(m))
     ELSE SayNo(m) /\ UNCHANGED <<log, seen>>
  /\ UNCHANGED <<left, alive, sess, cursor, extra>>

\* _update_leader: the session on the key as loaded is the client's.  No call is made.
SessionKept(m) ==
  /\ SeesOwner(m, m) /\ pc[m] = "idle" /\ sess[m] # 0
  /\ log[view[m]].by = sess[m]
  /\ Say(m, alive[sess[m]])
  /\ UNCHANGED <<log, left, alive, sess, cursor, seen, extra>>

\* Otherwise the node is deleted, whoever it belongs to by now ...
DeleteOld(m) ==
  /\ SeesOwner(m, m) /\ pc[m] = "idle" /\ Live(m)
  /\ log[view[m]].by # sess[m]
  /\ IF Key.owner = None THEN UNCHANGED <<log, seen>> ELSE Put(Nobody) /\ SeeOwn(m)
  /\ pc' = [pc EXCEPT ![m] = "deleted"]
  /\ extra' = [extra EXCEPT ![m] = TRUE]
  /\ UNCHANGED <<left, alive, sess, cursor, view, sure>>

\* ... and created.
Recreate(m) ==
  /\ pc[m] = "deleted"
  /\ IF Key.owner = None /\ Live(m)
     THEN Put([owner |-> m, by |-> sess[m]]) /\ SeeOwn(m) /\ Say(m, alive[sess[m]])
     ELSE SayNo(m) /\ UNCHANGED <<log, seen>>
  /\ UNCHANGED <<left, alive, sess, cursor, extra>>

\* _delete_leader closes the session, and the node goes with it.
DeleteLeader(m) ==
  /\ SeesOwner(m, m) /\ pc[m] = "idle" /\ Live(m)
  /\ SayNo(m)
  /\ alive' = [alive EXCEPT ![sess[m]] = 0]
  /\ sess' = [sess EXCEPT ![m] = 0]
  /\ IF Key.by = sess[m] THEN Put(Nobody) /\ SeeOwn(m) ELSE UNCHANGED <<log, seen>>
  /\ UNCHANGED <<left, cursor, extra>>

Expire ==
  /\ Key.owner # None /\ alive[Key.by] = 0
  /\ Put(Nobody)
  /\ UNCHANGED <<left, alive, sess, cursor, seen, view, pc, sure, extra>>

Tick == PassTime /\ UNCHANGED extra

ZooKeeperNext ==
  \/ \E m \in Member :
       \/ LoadCluster(m) \/ Deliver(m) \/ Heartbeat(m) \/ Reconnect(m) \/ GiveUp(m)
       \/ AttemptToAcquireLeader(m) \/ DeleteLeader(m)
       \/ SessionKept(m) \/ DeleteOld(m) \/ Recreate(m)
  \/ Expire
  \/ Tick
=============================================================================
