--------------------------- MODULE StoreKubernetes ---------------------------
(***************************************************************************)
(* dcs/kubernetes.py.  The leader is an annotation of an object, which     *)
(* nobody expires: each member takes the leader for gone when it has seen  *)
(* the same record for a ttl on its own clock, and every write must name   *)
(* the resourceVersion it replaces.  `by' of an entry is the version that  *)
(* wrote the record (renewTime), as a change of the object need not change *)
(* the record.  Entry 1 is the object that does not exist yet.  `left' is  *)
(* not in the store: it says how old the record is.                        *)
(***************************************************************************)
EXTENDS LeaderStore

\* observed: _leader_observed_record; since: the time _leader_observed_time leaves it.
KubernetesInit ==
  /\ StoreInit
  /\ extra = [observed |-> [m \in Member |-> 1], since |-> [m \in Member |-> 0]]

Record(i) == [owner |-> log[i].owner, by |-> log[i].by]
Observed(m) == Record(extra.observed[m])

\* _cluster_from_nodes: a new record starts the clock, a record older than its ttl
\* means there is no leader.
LoadCluster(m) ==
  /\ pc[m] = "idle"
  /\ view' = [view EXCEPT ![m] = seen[m]]
  /\ extra' = IF Record(seen[m]) # Observed(m)
              THEN [extra EXCEPT !.observed[m] = seen[m], !.since[m] = Ttl]
              ELSE extra
  /\ UNCHANGED <<log, left, alive, sess, cursor, seen, pc, sure>>
Unlocked(m) ==
  view[m] # 0 /\ (log[view[m]].owner = None \/ extra.since[m] = 0)

\* _patch_or_create with the version it replaces.  The answer may be lost; a retry
\* then conflicts with the member's own write, which reading the object clears up.
Patch(m, o) == Put([owner |-> o, by |-> Last + 1]) /\ left' = Ttl
Answered(m) == (Say(m, Ttl) /\ SeeOwn(m)) \/ (SayNo(m) /\ UNCHANGED seen)
Conflict(m) == SayNo(m) /\ UNCHANGED <<log, left, seen>>

\* The version memorised when the cluster was loaded, or the one in the cache now if
\* the record is still the one observed.
AttemptToAcquireLeader(m) ==
  /\ Unlocked(m) /\ pc[m] = "idle"
  /\ LET base == IF Record(seen[m]) = Observed(m) THEN seen[m] ELSE view[m] IN
     IF base = Last THEN Patch(m, m) /\ Answered(m) ELSE Conflict(m)
  /\ UNCHANGED <<alive, sess, cursor, extra>>

UpdateWithoutReading(m) ==
  /\ SeesOwner(m, m) /\ ~Unlocked(m) /\ pc[m] = "idle"
  /\ IF log[seen[m]].owner = m
     THEN Patch(m, m) /\ Answered(m)
     ELSE Conflict(m)
  /\ UNCHANGED <<alive, sess, cursor, extra>>

\* update_leader goes by the cache, which may be newer than the cluster loaded.  After
\* a conflict the object is read, and if it names the member the update is repeated.
UpdateLeader(m) ==
  /\ SeesOwner(m, m) /\ ~Unlocked(m) /\ pc[m] = "idle"
  /\ IF log[seen[m]].owner = m /\ Key.owner = m
     THEN Patch(m, m) /\ Answered(m)
     ELSE Conflict(m)
  /\ UNCHANGED <<alive, sess, cursor, extra>>

\* delete_leader: the annotation is set to null, if the object is as cached.  The answer
\* may be lost.
DeleteLeader(m) ==
  /\ view[m] # 0 /\ pc[m] = "idle" /\ log[seen[m]].owner = m
  /\ SayNo(m)
  /\ IF seen[m] = Last
     THEN Put([owner |-> None, by |-> Last + 1]) /\ left' = 0 /\ (SeeOwn(m) \/ UNCHANGED seen)
     ELSE UNCHANGED <<log, left, seen>>
  /\ UNCHANGED <<alive, sess, cursor, extra>>

\* write_leader_optime, or somebody else, changes the object but not the record.
Touch ==
  /\ Last > 1
  /\ Put(Key)
  /\ UNCHANGED <<left, alive, sess, cursor, seen, view, pc, sure, extra>>

\* ObjectCache._build_cache: the watch ended and the objects are listed again.  The list
\* is not older than what the watch had brought, but calls may have put their answers
\* into the cache since, and it replaces them.  The watch goes on from the list.
RebuildCache(m) ==
  /\ \E r \in cursor[m] .. Last : /\ cursor' = [cursor EXCEPT ![m] = r]
                                  /\ seen' = [seen EXCEPT ![m] = r]
  /\ UNCHANGED <<log, left, alive, sess, view, pc, sure, extra>>

Tick ==
  /\ PassTime
  /\ extra' = [extra EXCEPT !.since = [m \in Member |-> Dec(@[m])]]

KubernetesNext ==
  \/ \E m \in Member :
       \/ LoadCluster(m) \/ Deliver(m) \/ RebuildCache(m) \/ GiveUp(m)
       \/ AttemptToAcquireLeader(m) \/ UpdateLeader(m) \/ DeleteLeader(m)
  \/ Touch
  \/ Tick
=============================================================================
