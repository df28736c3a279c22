------------------------------ MODULE StoreRaft ------------------------------
(***************************************************************************)
(* dcs/raft.py: KVStoreTTL, the store that the members replicate among     *)
(* themselves with PySyncObj, and class Raft on top of it.  A command is   *)
(* checked against the member's own copy, sent, and checked again where it *)
(* is applied.  The caller waits, but not for ever: a command that was     *)
(* given up may still be applied.  The time to live counts from the        *)
(* request; the raft leader expires keys, by a command of its own.         *)
(***************************************************************************)
EXTENDS LeaderStore

NoCommand == [op |-> "none", left |-> 0]
Create == "create"   \* _set with prevExist=False
Renew == "renew"     \* _set with prevValue=name
Remove == "remove"   \* _delete with prevValue=name

\* cmd: the command of a member that is under way; limb: the version for which an
\* _expire is under way, 0 if none.
RaftInit == StoreInit /\ extra = [cmd |-> [m \in Member |-> NoCommand], limb |-> 0]

\* __check_requirements
Meets(op, m, entry) ==
  \/ op = Create /\ entry.owner = None
  \/ op \in {Renew, Remove} /\ entry.owner = m

\* set, delete: the check before anything is sent.  One command at a time: the next
\* one is behind it in the log of Raft anyway.
Send(m, op) ==
  /\ pc[m] = "idle" /\ extra.cmd[m] = NoCommand
  /\ IF Meets(op, m, log[seen[m]])
     THEN /\ extra' = [extra EXCEPT !.cmd[m] = [op |-> op, left |-> Ttl]]
          /\ pc' = [pc EXCEPT ![m] = "waiting"]
          /\ UNCHANGED <<view, sure>>
     ELSE SayNo(m) /\ UNCHANGED extra
  /\ UNCHANGED <<log, left, alive, sess, cursor, seen>>

AttemptToAcquireLeader(m) == SeesOwner(m, None) /\ Send(m, Create)

\* _update_leader: renew, or acquire when the member's copy has no key.
UpdateLeader(m) ==
  /\ SeesOwner(m, m)
  /\ Send(m, IF log[seen[m]].owner = None THEN Create ELSE Renew)

\* The member stops leading before it removes the key.
DeleteLeader(m) ==
  /\ SeesOwner(m, m) /\ sure[m] = 0
  /\ Send(m, Remove)

\* The replicated _set or _delete: the answer is good for what is left of the ttl.
Apply(m) ==
  LET c == extra.cmd[m] IN
  /\ c # NoCommand
  /\ extra' = [extra EXCEPT !.cmd[m] = NoCommand]
  /\ IF Meets(c.op, m, Key)
     THEN /\ Put(IF c.op = Remove THEN Nobody ELSE [owner |-> m, by |-> 0])
          /\ left' = (IF c.op = Remove THEN 0 ELSE c.left)
          /\ IF pc[m] = "waiting" THEN Say(m, left') ELSE UNCHANGED <<view, pc, sure>>
     ELSE /\ IF pc[m] = "waiting" THEN SayNo(m) ELSE UNCHANGED <<view, pc, sure>>
          /\ UNCHANGED <<log, left>>
  /\ UNCHANGED <<alive, sess, cursor, seen>>

\* The command is refused or lost on its way.
Lose(m) ==
  /\ extra.cmd[m] # NoCommand
  /\ extra' = [extra EXCEPT !.cmd[m] = NoCommand]
  /\ IF pc[m] = "waiting" THEN SayNo(m) ELSE UNCHANGED <<view, pc, sure>>
  /\ UNCHANGED <<log, left, alive, sess, cursor, seen>>

\* retry: RaftError('timeout').  The command stays under way.
TimeOut(m) ==
  /\ pc[m] = "waiting"
  /\ SayNo(m)
  /\ UNCHANGED <<log, left, alive, sess, cursor, seen, extra>>

\* __expire_keys on the raft leader, once for a value, and _expire, which removes the
\* key if it still has the value that expired.
SendExpire ==
  /\ Key.owner # None /\ left = 0 /\ extra.limb # Last
  /\ extra' = [extra EXCEPT !.limb = Last]
  /\ UNCHANGED <<log, left, alive, sess, cursor, seen, view, pc, sure>>
ApplyExpire ==
  /\ extra.limb # 0
  /\ extra' = [extra EXCEPT !.limb = 0]
  /\ IF extra.limb = Last THEN Put(Nobody) ELSE UNCHANGED log
  /\ UNCHANGED <<left, alive, sess, cursor, seen, view, pc, sure>>

LoadCluster(m) ==
  /\ Load(m)
  /\ UNCHANGED <<log, left, alive, sess, cursor, seen, pc, sure, extra>>

\* A cycle given up between calls: the leader's is a demotion.
StopLeading(m) ==
  /\ view[m] # 0 /\ pc[m] = "idle" /\ sure[m] > 0
  /\ sure' = [sure EXCEPT ![m] = 0]
  /\ UNCHANGED <<log, left, alive, sess, cursor, seen, view, pc, extra>>

Tick ==
  /\ PassTime
  /\ extra' = [extra EXCEPT !.cmd = [m \in Member |-> [op |-> @[m].op, left |-> Dec(@[m].left)]]]

RaftNext ==
  \/ \E m \in Member :
       \/ LoadCluster(m) \/ Deliver(m) \/ StopLeading(m) \/ TimeOut(m)
       \/ AttemptToAcquireLeader(m) \/ UpdateLeader(m) \/ DeleteLeader(m)
       \/ Apply(m) \/ Lose(m)
  \/ SendExpire \/ ApplyExpire
  \/ Tick
=============================================================================
