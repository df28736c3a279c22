------------------------------ MODULE StoreConsul ----------------------------
(***************************************************************************)
(* dcs/consul.py.  The key is locked by a session, which the member renews;*)
(* a session that ends takes the key with it (behavior=delete).  Reads go  *)
(* to the leading server, so a member loads what is there.                 *)
(***************************************************************************)
EXTENDS LeaderStore

\* What extra[m] holds: the member has recreated its key in an update.
ConsulInit == StoreInit /\ extra = [m \in Member |-> FALSE]

\* _do_refresh_session: renew, or create when Consul does not know it any more.
Refreshed(m) ==
  IF Live(m)
  THEN alive' = [alive EXCEPT ![sess[m]] = Ttl] /\ UNCHANGED sess
  ELSE \E s \in Unused : alive' = [alive EXCEPT ![s] = Ttl] /\ sess' = [sess EXCEPT ![m] = s]

\* kv.put(leader, acquire=session): locks a free key, or one locked by the session.
Acquired(m, s) == Key.owner = None \/ Key.by = s

LoadCluster(m) ==
  /\ pc[m] = "idle"
  /\ view' = [view EXCEPT ![m] = Last]
  /\ UNCHANGED <<log, left, alive, sess, cursor, seen, pc, sure, extra>>

\* attempt_to_acquire_leader; on InvalidSession a new session and once more.
AttemptToAcquireLeader(m) ==
  /\ SeesOwner(m, None) /\ pc[m] = "idle"
  /\ Refreshed(m) \/ (Live(m) /\ UNCHANGED <<alive, sess>>)
  /\ IF Acquired(m, sess'[m])
     THEN Put([owner |-> m, by |-> sess'[m]]) /\ (Say(m, alive'[sess'[m]]) \/ SayNo(m))
     ELSE SayNo(m) /\ UNCHANGED log
  /\ UNCHANGED <<left, cursor, seen, extra>>

\* _update_leader, first call.
RefreshSession(m) ==
  /\ SeesOwner(m, m) /\ pc[m] = "idle"
  /\ Refreshed(m)
  /\ pc' = [pc EXCEPT ![m] = "refreshed"]
  /\ UNCHANGED <<log, left, cursor, seen, view, sure, extra>>

SessionKept(m) ==
  /\ pc[m] = "refreshed"
  /\ log[view[m]].by = sess[m]
  /\ Say(m, alive[sess[m]])
  /\ UNCHANGED <<log, left, alive, sess, cursor, seen, extra>>

\* The key as loaded has another session: delete it (cas), whatever comes of it ...
DeleteOld(m) ==
  /\ pc[m] = "refreshed"
  /\ log[view[m]].by # sess[m]
  /\ IF view[m] = Last THEN Put(Nobody) ELSE UNCHANGED log
  /\ pc' = [pc EXCEPT ![m] = "deleted"]
  /\ extra' = [extra EXCEPT ![m] = TRUE]
  /\ UNCHANGED <<left, alive, sess, cursor, seen, view, sure>>

\* ... and lock it anew, whatever comes of it: what put returns is not looked at.
Recreate(m) ==
  /\ pc[m] = "deleted"
  /\ IF Acquired(m, sess[m]) /\ Live(m) THEN Put([owner |-> m, by |-> sess[m]]) ELSE UNCHANGED log
  /\ Say(m, alive[sess[m]])
  /\ UNCHANGED <<left, alive, sess, cursor, seen, extra>>

\* kv.delete(cas): the key must be as it was loaded.
DeleteLeader(m) ==
  /\ SeesOwner(m, m) /\ pc[m] = "idle"
  /\ SayNo(m)
  /\ IF view[m] = Last THEN Put(Nobody) ELSE UNCHANGED log
  /\ UNCHANGED <<left, alive, sess, cursor, seen, extra>>

\* set_ttl with a new value, or a restart of the process.
ForgetSession(m) ==
  /\ pc[m] = "idle" /\ sess[m] # 0
  /\ sess' = [sess EXCEPT ![m] = 0]
  /\ UNCHANGED <<log, left, alive, cursor, seen, view, pc, sure, extra>>

Expire ==
  /\ Key.owner # None /\ alive[Key.by] = 0
  /\ Put(Nobody)
  /\ UNCHANGED <<left, alive, sess, cursor, seen, view, pc, sure, extra>>

Tick == PassTime /\ UNCHANGED extra

ConsulNext ==
  \/ \E m \in Member :
       \/ LoadCluster(m) \/ ForgetSession(m) \/ GiveUp(m)
       \/ AttemptToAcquireLeader(m) \/ DeleteLeader(m)
       \/ RefreshSession(m) \/ SessionKept(m) \/ DeleteOld(m) \/ Recreate(m)
  \/ Expire
  \/ Tick
=============================================================================
