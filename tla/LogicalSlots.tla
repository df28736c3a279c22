----------------------------- MODULE LogicalSlots ------------------------------
(***************************************************************************)
(* A permanent logical replication slot (postgresql/slots.py): the primary *)
(* creates it, the standbys copy its state file, and move their copies on  *)
(* behind the position that the primary publishes in /status.  A copy is   *)
(* of use after a failover only if the rows of the catalog that it needs   *)
(* have not been vacuumed away: on the primary the physical slot of the    *)
(* standby holds vacuum back, but not from the first moment.  A node keeps *)
(* a queue of the copies that are not safe yet.                            *)
(*                                                                         *)
(* Positions in the WAL and transaction ids are one and the same number.   *)
(* All that is up to MaxXid has happened already.  PostgreSQL 11 or newer, *)
(* hot_standby_feedback; one slot.                                         *)
(***************************************************************************)
EXTENDS Naturals

CONSTANTS
  Node, None,
  MaxXid,      \* bound: transactions
  MaxFaults,   \* bound: crashes, failovers and slots that cannot be moved on
  Reload       \* does a standby follow a new primary without a restart (PostgreSQL 13)?

VARIABLES
  primary,
  follows,   \* the primary a standby streams from; None when it is down
  slot,      \* the logical slot of each node: confirmed position and catalog_xmin
  removed,   \* up to where a node's catalog is vacuumed, or has replayed that
  phys,      \* on the primary: catalog_xmin of each standby's physical slot
  status,    \* the slot's position in /status, 0 when there is none
  mind,      \* SlotsHandler and SlotsAdvanceThread of each node
  faults

vars == <<primary, follows, slot, removed, phys, status, mind, faults>>

NoSlot == [lsn |-> 0, xmin |-> 0]
Slot == {s \in [lsn : 1..MaxXid, xmin : 1..MaxXid] : s.xmin <= s.lsn}
Unknown == 0          \* in the queue, with no catalog_xmin remembered yet
Done == MaxXid + 1    \* not in the queue

Fresh(forced) == [queue |-> Done, forced |-> forced, known |-> FALSE, advance |-> 0,
                  again |-> FALSE, copying |-> FALSE, data |-> NoSlot]

\* The first standbys have just been created.
Init ==
  /\ primary = CHOOSE n \in Node : TRUE
  /\ follows = [n \in Node |-> primary]
  /\ slot = [n \in Node |-> IF n = primary THEN [lsn |-> 1, xmin |-> 1] ELSE NoSlot]
  /\ removed = [n \in Node |-> 1] /\ phys = [n \in Node |-> 0]
  /\ status = 1
  /\ mind = [n \in Node |-> [Fresh(FALSE) EXCEPT !.known = n = primary]]
  /\ faults = 0

Standby(n) == n # primary /\ follows[n] # None
Streams(n) == Standby(n) /\ follows[n] = primary
Fault == faults < MaxFaults /\ faults' = faults + 1

-----------------------------------------------------------------------------
\* PostgreSQL

\* A slot moves on; its catalog_xmin may stay behind.
Later(s, lsn) == {t \in Slot : t.lsn = lsn /\ t.xmin >= s.xmin}

Consume ==
  /\ primary # None /\ slot[primary] # NoSlot
  /\ \E lsn \in slot[primary].lsn..MaxXid : \E s \in Later(slot[primary], lsn) :
       slot' = [slot EXCEPT ![primary] = s]
  /\ UNCHANGED <<primary, follows, removed, phys, status, mind, faults>>

Needed == {slot[primary].xmin} \cup {phys[n] : n \in Node \ {primary}}
Vacuum ==
  /\ primary # None
  /\ \E x \in removed[primary]..MaxXid :
       /\ \A y \in Needed \ {0} : x <= y
       /\ removed' = [removed EXCEPT ![primary] = x]
  /\ UNCHANGED <<primary, follows, slot, phys, status, mind, faults>>

Replay(n) ==
  /\ Streams(n)
  /\ removed' = [removed EXCEPT ![n] = removed[primary]]
  /\ UNCHANGED <<primary, follows, slot, phys, status, mind, faults>>

\* hot_standby_feedback: the physical slot's catalog_xmin never goes back.
Feedback(n) ==
  /\ Streams(n)
  /\ slot[n] = NoSlot \/ phys[n] < slot[n].xmin
  /\ phys' = [phys EXCEPT ![n] = slot[n].xmin]
  /\ UNCHANGED <<primary, follows, slot, removed, status, mind, faults>>

-----------------------------------------------------------------------------
\* The HA loop

\* load_replication_slots: what is in PostgreSQL, and after a restart all of it is to be checked.
Loaded(n) ==
  IF mind[n].forced
  THEN [mind[n] EXCEPT !.known = slot[n] # NoSlot, !.forced = FALSE,
          !.queue = IF slot[n] = NoSlot THEN Done ELSE Unknown]
  ELSE mind[n]

\* update_leader publishes the slot where it is known; then sync_replication_slots.
Lead ==
  LET n == primary
      new == [lsn |-> MaxXid, xmin |-> MaxXid] IN
  /\ n # None
  /\ status' = IF mind[n].known THEN slot[n].lsn ELSE 0
  /\ slot' = IF slot[n] = NoSlot THEN [slot EXCEPT ![n] = new] ELSE slot
  /\ mind' = [mind EXCEPT ![n] = [Loaded(n) EXCEPT !.queue = Done, !.known = TRUE]]
  /\ UNCHANGED <<primary, follows, removed, phys, faults>>

\* _update_pending_logical_slot_primary: from when the physical slot counts, the primary's
\* catalog_xmin is remembered, once.
Remembered(n, q) ==
  IF q = Unknown /\ primary # None /\ phys[n] # 0 THEN slot[primary].xmin ELSE q

BehindStandby(n, m, q) == primary # None /\ phys[n] # 0 /\ phys[n] <= slot[n].xmin
\* _ready_logical_slots
Safe(n, m, q) == primary # None /\ phys[n] # 0 /\ q <= phys[n] /\ phys[n] <= slot[n].xmin

\* check_logical_slots_readiness
Checked(n, m) ==
  LET q == Remembered(n, m.queue) IN
  IF m.queue = Done \/ ~m.known \/ Safe(n, m, q) THEN Done ELSE q

\* A copy is compared with a slot that the primary does not have (yet): an exception.
Confused(n, m) ==
  /\ m.queue = Unknown /\ m.known
  /\ primary # None /\ phys[n] # 0 /\ slot[primary] = NoSlot

\* _ensure_logical_slots_replica: a copy moves on to what is published, as far as it has
\* been replayed, and one that is missing or had failed is copied.
Advances(n, m) ==
  {m.advance} \cup (IF ~m.known \/ m.again THEN {} ELSE slot[n].lsn + 1..status)
Wanted(m) == primary # None /\ (m.again \/ (~m.known /\ status # 0))

\* sync_replication_slots on a standby
Sync(n) ==
  LET m == Loaded(n) IN
  /\ Standby(n) /\ ~mind[n].copying
  /\ IF Confused(n, m) THEN mind' = [mind EXCEPT ![n] = m]
     ELSE \E lsn \in Advances(n, m) :
            mind' = [mind EXCEPT ![n] =
              [m EXCEPT !.queue = Checked(n, m), !.advance = lsn, !.again = FALSE,
                        !.copying = Wanted(m)]]
  /\ UNCHANGED <<primary, follows, slot, removed, phys, status, faults>>

-----------------------------------------------------------------------------
\* SlotsAdvanceThread

\* sync_slot
Advance(n) ==
  /\ Standby(n) /\ mind[n].advance # 0
  /\ \/ /\ slot[n] # NoSlot /\ slot[n].lsn <= mind[n].advance
        /\ \E s \in Later(slot[n], mind[n].advance) : slot' = [slot EXCEPT ![n] = s]
        /\ mind' = [mind EXCEPT ![n].advance = 0]
        /\ UNCHANGED faults
     \/ \* its WAL is gone
        /\ Fault /\ UNCHANGED slot
        /\ mind' = [mind EXCEPT ![n].advance = 0, ![n].again = TRUE]
  /\ UNCHANGED <<primary, follows, removed, phys, status>>

-----------------------------------------------------------------------------
\* copy_logical_slots, in a thread of its own

CopyRead(n) ==
  /\ Standby(n) /\ mind[n].copying /\ mind[n].data = NoSlot
  /\ IF primary # None /\ slot[primary] # NoSlot
     THEN mind' = [mind EXCEPT ![n].data = slot[primary]]
     ELSE mind' = [mind EXCEPT ![n].copying = FALSE]
  /\ UNCHANGED <<primary, follows, slot, removed, phys, status, faults>>

\* PostgreSQL is stopped, the thread's state cleaned, the file written, PostgreSQL started.
CopyWrite(n) ==
  /\ Standby(n) /\ mind[n].data # NoSlot
  /\ slot' = [slot EXCEPT ![n] = mind[n].data]
  /\ mind' = [mind EXCEPT ![n] =
       [Fresh(TRUE) EXCEPT !.queue = Unknown, !.known = mind[n].known]]
  /\ UNCHANGED <<primary, follows, removed, phys, status, faults>>

-----------------------------------------------------------------------------
\* Crashes and failovers

\* A standby's PostgreSQL is started again after a crash: its slot may be as it was once.
Crash(n) ==
  /\ Fault /\ Standby(n) /\ ~mind[n].copying
  /\ \E s \in Slot \cup {NoSlot} :
       /\ s = NoSlot <=> slot[n] = NoSlot
       /\ s.lsn <= slot[n].lsn /\ s.xmin <= slot[n].xmin
       /\ slot' = [slot EXCEPT ![n] = s]
  /\ mind' = [mind EXCEPT ![n].forced = TRUE]
  /\ UNCHANGED <<primary, follows, removed, phys, status>>

PrimaryDies ==
  /\ Fault /\ primary # None
  /\ primary' = None /\ follows' = [follows EXCEPT ![primary] = None]
  /\ UNCHANGED <<slot, removed, phys, status, mind>>

\* on_promote, of a node whose slot is safe: otherwise there is a warning, and what becomes
\* of the slot then is not modelled.  Nobody's physical slot holds anything back on the new
\* primary yet.
Promote(n) ==
  /\ primary = None /\ Standby(n) /\ ~mind[n].copying
  /\ mind[n].queue = Done /\ ~mind[n].forced
  /\ primary' = n
  /\ mind' = [mind EXCEPT ![n].advance = 0, ![n].again = FALSE]
  /\ phys' = [m \in Node |-> 0]
  /\ UNCHANGED <<follows, slot, removed, status, faults>>

\* follow
Follow(n) ==
  /\ primary # None /\ Standby(n) /\ follows[n] # primary /\ ~mind[n].copying
  /\ follows' = [follows EXCEPT ![n] = primary]
  /\ mind' = IF Reload THEN mind ELSE [mind EXCEPT ![n].forced = TRUE]
  /\ UNCHANGED <<primary, slot, removed, phys, status, faults>>

\* The former primary is back, maybe after pg_rewind, which removes slots.
Rejoin(n) ==
  /\ primary # None /\ n # primary /\ follows[n] = None
  /\ follows' = [follows EXCEPT ![n] = primary]
  /\ removed' = [removed EXCEPT ![n] = removed[primary]]
  /\ slot' = slot \/ slot' = [slot EXCEPT ![n] = NoSlot]
  /\ mind' = [mind EXCEPT ![n] = Fresh(TRUE)]
  /\ UNCHANGED <<primary, phys, status, faults>>

LogicalSlotsNext ==
  \/ Consume \/ Vacuum \/ Lead \/ PrimaryDies
  \/ \E n \in Node :
       \/ Replay(n) \/ Feedback(n) \/ Sync(n) \/ Advance(n)
       \/ CopyRead(n) \/ CopyWrite(n)
       \/ Crash(n) \/ Promote(n) \/ Follow(n) \/ Rejoin(n)
LogicalSlotsSpec == Init /\ [][LogicalSlotsNext]_vars

-----------------------------------------------------------------------------
\* A copy that is not in the queue has all the rows of the catalog that it needs, so it is safe
\* to be used after a failover, as the log says (postgresql/slots.py, _ready_logical_slots).
ReadyIsSafe ==
  \A n \in Node :
    Standby(n) /\ slot[n] # NoSlot /\ ~mind[n].forced /\ mind[n].queue = Done
      => removed[n] <= slot[n].xmin
=============================================================================
