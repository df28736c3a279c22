------------------------------ MODULE StoreEtcd ------------------------------
(***************************************************************************)
(* dcs/etcd.py: etcd v2.  The key has a time to live, every call is one    *)
(* compare-and-set on its value, and the request is repeated by the client *)
(* until it succeeds or retry_timeout is over.                             *)
(***************************************************************************)
EXTENDS LeaderStore

EtcdInit == StoreInit /\ extra = 0

Mine(m) == [owner |-> m, by |-> 0]

\* write(..., ttl): its effect, and the answer, which may be lost.  A create that
\* is repeated after a lost answer meets its own key and is told FALSE.
Written(m) ==
  /\ Put(Mine(m))
  /\ left' = Ttl
  /\ Say(m, Ttl) \/ SayNo(m)

Denied(m) == SayNo(m) /\ UNCHANGED <<log, left>>

\* prevExist=False
AttemptToAcquireLeader(m) ==
  /\ SeesOwner(m, None)
  /\ IF Key.owner = None THEN Written(m) ELSE Denied(m)
  /\ UNCHANGED <<alive, sess, cursor, seen, extra>>

\* prevValue=name; when the key is not there, as attempt_to_acquire_leader.
UpdateLeader(m) ==
  /\ SeesOwner(m, m)
  /\ IF Key.owner \in {m, None} THEN Written(m) ELSE Denied(m)
  /\ UNCHANGED <<alive, sess, cursor, seen, extra>>

DeleteLeader(m) ==
  /\ SeesOwner(m, m)
  /\ SayNo(m)
  /\ IF Key.owner = m THEN Put(Nobody) /\ left' = 0 ELSE UNCHANGED <<log, left>>
  /\ UNCHANGED <<alive, sess, cursor, seen, extra>>

LoadCluster(m) ==
  /\ Load(m)
  /\ UNCHANGED <<log, left, alive, sess, cursor, seen, pc, sure, extra>>

\* The server removes a key that has expired.
Expire ==
  /\ left = 0 /\ Key.owner # None
  /\ Put(Nobody)
  /\ UNCHANGED <<left, alive, sess, cursor, seen, view, pc, sure, extra>>

Tick == PassTime /\ UNCHANGED extra

EtcdNext ==
  \/ \E m \in Member :
       \/ LoadCluster(m) \/ Deliver(m) \/ GiveUp(m)
       \/ AttemptToAcquireLeader(m) \/ UpdateLeader(m) \/ DeleteLeader(m)
  \/ Expire
  \/ Tick
=============================================================================
