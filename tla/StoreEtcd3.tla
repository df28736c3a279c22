------------------------------ MODULE StoreEtcd3 -----------------------------
(***************************************************************************)
(* dcs/etcd3.py: etcd v3.  The key belongs to a lease, which the member    *)
(* keeps alive; a member reads from a cache fed by a watch (KVCache), into *)
(* which the answers to its own calls go, too.  When the watch breaks the  *)
(* cache is listed again, by a read that any server of etcd answers from   *)
(* what it has (serializable), and the list is installed as it is.  So     *)
(* `seen' may go back.                                                     *)
(***************************************************************************)
EXTENDS LeaderStore

\* extra: not in the code, the lease a member had when it last deleted its own key.
Etcd3Init == StoreInit /\ extra = [m \in Member |-> 0]

\* _do_refresh_lease: keep the lease alive, or get a new one when it is gone.
Refreshed(m) ==
  IF Live(m)
  THEN alive' = [alive EXCEPT ![sess[m]] = Ttl] /\ UNCHANGED sess
  ELSE \E s \in Unused : alive' = [alive EXCEPT ![s] = Ttl] /\ sess' = [sess EXCEPT ![m] = s]

\* attempt_to_acquire_leader.  A lease refreshed within loop_wait is used as it is;
\* if it has ended the put says LeaseNotFound and is repeated with a new one.
AttemptToAcquireLeader(m) ==
  /\ SeesOwner(m, None) /\ pc[m] = "idle"
  /\ Refreshed(m) \/ (Live(m) /\ UNCHANGED <<alive, sess>>)
  /\ IF Key.owner = None
     THEN /\ Put([owner |-> m, by |-> sess'[m]])
          /\ \/ Say(m, alive'[sess'[m]]) /\ SeeOwn(m)
             \/ SayNo(m) /\ UNCHANGED seen
     ELSE SayNo(m) /\ UNCHANGED <<log, seen>>
  /\ UNCHANGED <<left, cursor, extra>>

\* _update_leader, first call: the lease.
RefreshLease(m) ==
  /\ SeesOwner(m, m) /\ pc[m] = "idle"
  /\ Refreshed(m)
  /\ pc' = [pc EXCEPT ![m] = "refreshed"]
  /\ UNCHANGED <<log, left, cursor, seen, view, sure, extra>>

\* The key as loaded has the same lease: nothing more to do.
LeaseKept(m) ==
  /\ pc[m] = "refreshed"
  /\ log[view[m]].by = sess[m]
  /\ Say(m, alive[sess[m]])
  /\ UNCHANGED <<log, left, alive, sess, cursor, seen, extra>>

\* Otherwise a transaction gives the key the new lease if the key still names the
\* member, or creates it if there is none.
Rewrite(m) ==
  /\ pc[m] = "refreshed"
  /\ log[view[m]].by # sess[m]
  /\ IF Key.owner \in {m, None} /\ Live(m)
     THEN /\ Put([owner |-> m, by |-> sess[m]])
          /\ \/ Say(m, alive[sess[m]]) /\ SeeOwn(m)
             \/ SayNo(m) /\ UNCHANGED seen
     ELSE SayNo(m) /\ UNCHANGED <<log, seen>>
  /\ UNCHANGED <<left, alive, sess, cursor, extra>>

\* The key is deleted if it names the member.  Without the answer the cache does not
\* know.
DeleteLeader(m) ==
  /\ SeesOwner(m, m) /\ pc[m] = "idle"
  /\ SayNo(m)
  /\ IF Key.owner = m
     THEN /\ Put(Nobody)
          /\ SeeOwn(m) \/ UNCHANGED seen
          /\ extra' = [extra EXCEPT ![m] = sess[m]]
     ELSE UNCHANGED <<log, seen, extra>>
  /\ UNCHANGED <<left, alive, sess, cursor>>

\* set_ttl with a new value, or a restart of the process: the lease is forgotten.
ForgetLease(m) ==
  /\ pc[m] = "idle" /\ sess[m] # 0
  /\ sess' = [sess EXCEPT ![m] = 0]
  /\ UNCHANGED <<log, left, alive, cursor, seen, view, pc, sure, extra>>

\* KVCache._process_event: set and delete leave what is newer alone, but what has been
\* deleted has no version any more, and an older put brings it back.
ProcessEvent(m) ==
  /\ cursor[m] < Last
  /\ cursor' = [cursor EXCEPT ![m] = @ + 1]
  /\ LET e == cursor[m] + 1 IN
     IF seen[m] < e \/ (log[seen[m]].owner = None /\ log[e].owner # None)
     THEN seen' = [seen EXCEPT ![m] = e]
     ELSE UNCHANGED seen
  /\ UNCHANGED <<log, left, alive, sess, view, pc, sure, extra>>

WatchFromNow(m) ==
  /\ cursor' = [cursor EXCEPT ![m] = Last]
  /\ \E r \in 1 .. Last : seen' = [seen EXCEPT ![m] = r]
  /\ UNCHANGED <<log, left, alive, sess, view, pc, sure, extra>>

\* KVCache._build_cache: the watch broke and the cache is replaced by a list, whatever it
\* has; then the watch goes on from the list.  The list is old if the server that is
\* read lags, and in any case when calls have put their answers into the cache
\* since; until it is there nothing is read from the cache (_wait_cache).
RebuildCache(m) ==
  /\ \E r \in 1 .. Last : /\ cursor' = [cursor EXCEPT ![m] = r]
                          /\ seen' = [seen EXCEPT ![m] = r]
  /\ UNCHANGED <<log, left, alive, sess, view, pc, sure, extra>>

LoadCluster(m) ==
  /\ Load(m)
  /\ UNCHANGED <<log, left, alive, sess, cursor, seen, pc, sure, extra>>

\* A lease ends, and the key attached to it goes.
Expire ==
  /\ Key.owner # None /\ alive[Key.by] = 0
  /\ Put(Nobody)
  /\ UNCHANGED <<left, alive, sess, cursor, seen, view, pc, sure, extra>>

Tick == PassTime /\ UNCHANGED extra

Etcd3Next ==
  \/ \E m \in Member :
       \/ LoadCluster(m) \/ ForgetLease(m) \/ GiveUp(m)
       \/ ProcessEvent(m) \/ RebuildCache(m)
       \/ AttemptToAcquireLeader(m) \/ DeleteLeader(m)
       \/ RefreshLease(m) \/ LeaseKept(m) \/ Rewrite(m)
  \/ Expire
  \/ Tick
=============================================================================
