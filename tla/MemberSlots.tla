----------------------------- MODULE MemberSlots ------------------------------
(***************************************************************************)
(* The physical replication slots of members (dcs/__init__.py,             *)
(* postgresql/slots.py): every node keeps a slot for every other member,   *)
(* and for member_slots_ttl after the member's key is gone, so that the    *)
(* WAL it needs is still there when it comes back.  Only the leader knows  *)
(* since when; the others keep what it lists as retain_slots in /status.   *)
(*                                                                         *)
(* A slot has the name of its member.  PostgreSQL 11 or newer; tags, pause *)
(* and permanent slots are left out, and so are the positions of slots, a  *)
(* slot that cannot be created and one that is in use and not dropped yet. *)
(***************************************************************************)
EXTENDS Naturals, FiniteSets

CONSTANTS
  Node, None,
  SlotTtl,       \* member_slots_ttl, in cycles of the HA loop
  MaxMoves,      \* bound: members' keys that vanish or come back
  MaxFaults,     \* bound: leader keys lost and restarts of Patroni
  Forgetful      \* may Patroni restart on a running node?

VARIABLES
  leader, members,   \* /leader, the keys under /members
  retained,          \* retain_slots of /status
  slots,             \* pg_replication_slots of each node
  loaded,            \* nodes where _replication_slots is what PostgreSQL has
  age,               \* _last_retain_slots: how long a slot is still retained, 0 is not at all
  step,              \* where in its cycle a node is, with what it has loaded
  ran,               \* has the leader had its cycle in this period?
  owed,              \* history: how long the slot of a member that was there and listed is promised
  moves, faults

vars == <<leader, members, retained, slots, loaded, age, step, ran, owed, moves, faults>>

AtEase == [at |-> "idle", members |-> {}, retained |-> {}]
NoneRetained == [m \in Node |-> 0]

Owing == SlotTtl - 1   \* a new leader counts from before its first cycle

\* A cluster whose leader has listed everybody.
Init ==
  /\ leader = CHOOSE n \in Node : TRUE
  /\ members = Node /\ retained = Node
  /\ slots = [n \in Node |-> Node \ {n}] /\ loaded = Node
  /\ age = [n \in Node |-> IF n = leader THEN [m \in Node |-> SlotTtl] ELSE NoneRetained]
  /\ step = [n \in Node |-> AtEase] /\ ran = {}
  /\ owed = [m \in Node |-> Owing]
  /\ moves = 0 /\ faults = 0

Goes(n, to) == step' = [step EXCEPT ![n].at = to]

-----------------------------------------------------------------------------
\* A cycle

Load(n) ==
  /\ step[n].at = "idle" /\ (leader = n => ran = {})
  /\ step' = [step EXCEPT ![n] =
       [members |-> members, retained |-> retained,
        at |-> IF leader = n THEN "update" ELSE IF leader = None THEN "acquire" ELSE "sync"]]
  /\ UNCHANGED <<leader, members, retained, slots, loaded, age, ran, owed, moves, faults>>

RetainNone(n) == NoneRetained
\* acquire_leader_lock: retention starts again for all that /status lists.
Retain(n) == [m \in Node |-> IF m \in step[n].retained THEN SlotTtl ELSE 0]
Acquire(n) ==
  /\ step[n].at = "acquire"
  /\ IF leader = None
     THEN leader' = n /\ age' = [age EXCEPT ![n] = Retain(n)]
     ELSE UNCHANGED <<leader, age>>
  /\ Goes(n, "sync")
  /\ UNCHANGED <<members, retained, slots, loaded, ran, owed, moves, faults>>

\* process_permanent_slots: what the cache and PostgreSQL agree on, and the leader itself.
Published(n) == {n} \cup (IF n \in loaded THEN slots[n] ELSE {})
\* _build_retain_slots
Refreshed(n) ==
  [m \in Node |-> IF m \in Published(n) \cap (step[n].members \cup {n}) THEN SlotTtl ELSE age[n][m]]

\* update_leader, first the key
Update(n) ==
  /\ step[n].at = "update"
  /\ IF leader = n THEN age' = [age EXCEPT ![n] = Refreshed(n)] /\ Goes(n, "write")
                   ELSE step' = [step EXCEPT ![n] = AtEase] /\ UNCHANGED age
  /\ UNCHANGED <<leader, members, retained, slots, loaded, ran, owed, moves, faults>>

\* then /status (write_status), without a look at what it is by now, or at who leads;
\* it may be left alone when nothing has changed.
Write(n) ==
  LET kept == {m \in Node : age[n][m] > 0} IN
  /\ step[n].at = "write"
  /\ retained' = kept \/ (kept = step[n].retained /\ UNCHANGED retained)
  /\ Goes(n, "sync")
  /\ UNCHANGED <<leader, members, slots, loaded, age, ran, owed, moves, faults>>

\* _get_members_slots
Wanted(n) == (step[n].members \cup step[n].retained) \ {n}

LoadSlots(n) == loaded' = loaded \cup {n}

\* sync_replication_slots
Sync(n) ==
  /\ step[n].at = "sync"
  /\ slots' = [slots EXCEPT ![n] = Wanted(n)]
  /\ LoadSlots(n)
  /\ step' = [step EXCEPT ![n] = AtEase]
  /\ ran' = IF leader = n THEN {n} \cup {m \in step[n].members : age[n][m] = SlotTtl} ELSE ran
  /\ UNCHANGED <<leader, members, retained, age, owed, moves, faults>>

-----------------------------------------------------------------------------
\* A member's key expires or is there again.
Move(m) ==
  /\ moves < MaxMoves /\ moves' = moves + 1
  /\ members' = IF m \in members THEN members \ {m} ELSE members \cup {m}
  /\ UNCHANGED <<leader, retained, slots, loaded, age, step, ran, owed, faults>>

\* The leader loses its key; what it still writes it writes.
LoseKey ==
  /\ faults < MaxFaults /\ faults' = faults + 1
  /\ leader # None /\ leader' = None /\ ran' = {}
  /\ UNCHANGED <<members, retained, slots, loaded, age, step, owed, moves>>

\* Patroni is started again on a node where PostgreSQL runs on: what was in memory is gone.
Restart(n) ==
  /\ Forgetful /\ faults < MaxFaults /\ faults' = faults + 1
  /\ age' = [age EXCEPT ![n] = NoneRetained] /\ loaded' = loaded \ {n}
  /\ step' = [step EXCEPT ![n] = AtEase]
  /\ UNCHANGED <<leader, members, retained, slots, ran, owed, moves>>

\* A period of the HA loop, in which the leader had its cycle.
Less(t) == IF t = 0 THEN 0 ELSE t - 1
Tick ==
  /\ leader # None => ran # {}
  /\ \A n \in Node : step[n] = AtEase
  /\ age' = [n \in Node |-> IF n = leader THEN [m \in Node |-> Less(age[n][m])] ELSE NoneRetained]
  /\ owed' = [m \in Node |-> IF m \in ran \cap members \cap retained THEN Owing ELSE Less(owed[m])]
  /\ ran' = {}
  /\ UNCHANGED <<leader, members, retained, slots, loaded, step, moves, faults>>

MemberSlotsNext ==
  \/ LoseKey \/ Tick
  \/ \E n \in Node :
       \/ Load(n) \/ Acquire(n) \/ Update(n) \/ Write(n) \/ Sync(n) \/ Move(n) \/ Restart(n)
MemberSlotsSpec == Init /\ [][MemberSlotsNext]_vars

-----------------------------------------------------------------------------
\* No node drops the slot of a member that has been away for less than member_slots_ttl
\* less a cycle,
\* not even across a change of the leader (docs/dynamic_configuration.rst, member_slots_ttl).
SlotStays == \A n, m \in Node : owed[m] > 0 /\ m \in slots[n] => m \in slots'[n]
SlotKept == [][SlotStays]_vars
=============================================================================
