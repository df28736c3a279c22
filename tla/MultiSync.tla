------------------------------- MODULE MultiSync ------------------------------
(***************************************************************************)
(* Priority synchronous replication, the mode without quorum: every name   *)
(* in synchronous_standby_names must confirm a commit, and only the nodes  *)
(* in /sync may take over (ha.py _process_multisync_replication,           *)
(* postgresql/sync.py).  A cycle of the primary takes its steps one by     *)
(* one; replication, commits and faults go on between them.                *)
(*                                                                         *)
(* A log is its length: at a promotion the logs of the others are cut to   *)
(* the winner's, as pg_rewind would.  The leader lock is taken as given.   *)
(* maximum_lag_on_syncnode (off by default) and tags are left out.         *)
(***************************************************************************)
EXTENDS Integers, FiniteSets

CONSTANTS
  Node, None,
  Strict,      \* synchronous_mode_strict
  MaxLog,      \* bound: the length of a log
  MaxFaults,   \* bound: crashes and lost connections
  MaxByHand    \* bound: promotions by hand

VARIABLES
  primary, log, streaming, acked,
  faults, byHand,
  sync,      \* the /sync key: leader, voters
  ssn,       \* synchronous_standby_names of each node, {None} for a star
  handler,   \* SyncHandler of the primary: names it knows, position, who reached it
  wanted,    \* synchronous_node_count
  plan       \* what the cycle has read, and where it is

vars == <<primary, log, streaming, acked, faults, byHand, sync, ssn, handler, wanted, plan>>

Forgotten == [known |-> {}, flush |-> 0, ready |-> {}]
Idle == [at |-> "idle", picked |-> {}, allow |-> {}, voters |-> {}, loaded |-> {}]
Star == {None}

Init ==
  /\ primary = CHOOSE n \in Node : TRUE
  /\ log = [n \in Node |-> 0] /\ acked = 0
  /\ streaming = {}
  /\ sync = [leader |-> None, voters |-> {}]
  /\ ssn = [n \in Node |-> {}]
  /\ handler = Forgotten
  /\ wanted \in {1, 2}
  /\ plan = Idle
  /\ faults = 0 /\ byHand = 0

-----------------------------------------------------------------------------
\* SyncHandler

\* _handle_synchronous_standby_names_change
Noticed(h, names) ==
  IF h.known = names THEN h
  ELSE [known |-> names, flush |-> log[primary], ready |-> h.ready \cap names]

\* sync_state in pg_stat_replication: all the names have to confirm, or the first
\* connection when the name is a star.
Synchronous == {r \in streaming : r \in ssn[primary] \/ ssn[primary] = Star}

\* _process_replica_readiness
WithReady(h, loaded) ==
  [h EXCEPT !.ready = @ \cup {r \in streaming \cap h.known :
                                r \in loaded \/ (r \in Synchronous /\ log[r] >= h.flush)}]

\* current_state: the choice of the active replicas, synchronous ones first, then by
\* position, and which of them are confirmed.
Better(r, q) ==
  \/ r \in Synchronous /\ q \notin Synchronous
  \/ (r \in Synchronous <=> q \in Synchronous) /\ log[r] > log[q]
Choices ==
  {A \in SUBSET streaming :
     /\ Cardinality(A) = IF Cardinality(streaming) < wanted THEN Cardinality(streaming) ELSE wanted
     /\ \A r \in A, q \in streaming \ A : ~Better(q, r)}
Confirmed(h, active) == active \cap Synchronous \cap h.ready

-----------------------------------------------------------------------------
\* A cycle of the primary

At(step) == primary # None /\ plan.at = step
Goes(step) == plan' = [plan EXCEPT !.at = step]
Write(voters) == sync' = [leader |-> primary, voters |-> voters]

\* _maybe_enable_synchronous_mode, current_state
Begin ==
  /\ At("idle")
  /\ sync' = IF sync.leader = None THEN [leader |-> primary, voters |-> {}] ELSE sync
  /\ handler' = WithReady(Noticed(handler, ssn[primary]), sync.voters)
  /\ \E active \in Choices :
       plan' = [at |-> "leader", picked |-> active, allow |-> Confirmed(handler', active),
                voters |-> sync.voters, loaded |-> sync.voters]
  /\ UNCHANGED <<byHand, primary, log, streaming, acked, faults, ssn, wanted>>

\* /sync names another leader, after a promotion by hand.
TakeOverKey ==
  /\ At("leader")
  /\ IF sync.leader = primary THEN UNCHANGED sync ELSE Write({})
  /\ plan' = [plan EXCEPT !.at = "repair", !.voters = sync'.voters]
  /\ UNCHANGED <<byHand, primary, log, streaming, acked, faults, ssn, handler, wanted>>

\* The names and /sync disagree, after a cycle that did not end.
RepairKey ==
  /\ At("repair")
  /\ IF plan.picked = plan.voters /\ plan.voters # plan.allow THEN Write(plan.allow) ELSE UNCHANGED sync
  /\ plan' = IF plan.picked = sync'.voters /\ plan.picked = ssn[primary] THEN Idle
             ELSE [plan EXCEPT !.at = "narrow", !.voters = sync'.voters]
  /\ UNCHANGED <<byHand, primary, log, streaming, acked, faults, ssn, handler, wanted>>

\* First /sync is reduced to the nodes that stay, ...
NarrowKey ==
  /\ At("narrow")
  /\ Write(plan.voters \cap plan.allow)
  /\ Goes("names")
  /\ UNCHANGED <<byHand, primary, log, streaming, acked, faults, ssn, handler, wanted>>

\* ... then the names are set, and seen by the handler, ...
SetNames ==
  /\ At("names")
  /\ ssn' = [ssn EXCEPT ![primary] = IF Strict /\ plan.picked = {} THEN Star ELSE plan.picked]
  /\ handler' = IF ssn'[primary] = Star THEN handler ELSE Noticed(handler, ssn'[primary])
  /\ Goes(IF plan.picked # {} /\ plan.allow # plan.picked THEN "confirm" ELSE "widen")
  /\ UNCHANGED <<byHand, primary, log, streaming, acked, faults, sync, wanted>>

\* ... two seconds later current_state again, ...
Confirm ==
  /\ At("confirm")
  /\ handler' = WithReady(Noticed(handler, ssn[primary]), plan.loaded)
  /\ \E active \in Choices :
       plan' = [plan EXCEPT !.at = "widen", !.allow = Confirmed(handler', active)]
  /\ UNCHANGED <<byHand, primary, log, streaming, acked, faults, sync, ssn, wanted>>

\* ... and /sync gets those that are confirmed.
\* (A mutant: it gets those that were picked.)
WidenKeyToPicked ==
  /\ At("widen")
  /\ IF plan.picked # {} THEN Write(plan.picked) ELSE UNCHANGED sync
  /\ plan' = Idle
  /\ UNCHANGED <<byHand, primary, log, streaming, acked, faults, ssn, handler, wanted>>
WidenKey ==
  /\ At("widen")
  /\ IF plan.allow # {} THEN Write(plan.allow) ELSE UNCHANGED sync
  /\ plan' = Idle
  /\ UNCHANGED <<byHand, primary, log, streaming, acked, faults, ssn, handler, wanted>>

\* The DCS or PostgreSQL fails in the middle, or Patroni is started again.
Interrupted ==
  /\ primary # None /\ plan # Idle
  /\ plan' = Idle
  /\ handler' \in {handler, Forgotten}
  /\ UNCHANGED <<byHand, primary, log, streaming, acked, faults, sync, ssn, wanted>>

ChangeCount ==
  /\ plan = Idle
  /\ wanted' = 3 - wanted
  /\ UNCHANGED <<byHand, primary, log, streaming, acked, faults, sync, ssn, handler, plan>>

-----------------------------------------------------------------------------
\* PostgreSQL, as the code relies on it

Commit ==
  /\ primary # None /\ log[primary] < MaxLog
  /\ log' = [log EXCEPT ![primary] = @ + 1]
  /\ UNCHANGED <<byHand, primary, streaming, acked, faults, sync, ssn, handler, wanted, plan>>
Replicate(r) ==
  /\ r \in streaming /\ log[r] < log[primary]
  /\ log' = [log EXCEPT ![r] = log[primary]]
  /\ UNCHANGED <<byHand, primary, streaming, acked, faults, sync, ssn, handler, wanted, plan>>
Connect(r) ==
  /\ primary # None /\ r # primary /\ r \notin streaming
  /\ streaming' = streaming \cup {r}
  /\ UNCHANGED <<byHand, primary, log, acked, faults, sync, ssn, handler, wanted, plan>>
\* (Counted since /sync names the primary.)
Acknowledge ==
  /\ primary # None /\ sync.leader = primary
  /\ acked' \in acked + 1 .. log[primary]
  /\ LET have == {r \in streaming : log[r] >= acked'} IN
     IF ssn[primary] = Star THEN have # {} ELSE ssn[primary] \subseteq have
  /\ UNCHANGED <<byHand, primary, log, streaming, faults, sync, ssn, handler, wanted, plan>>

-----------------------------------------------------------------------------
\* Faults and failover

Fault == faults < MaxFaults /\ faults' = faults + 1
Disconnect(r) ==
  /\ r \in streaming /\ Fault
  /\ streaming' = streaming \ {r}
  /\ UNCHANGED <<byHand, primary, log, acked, sync, ssn, handler, wanted, plan>>
LosePrimary ==
  /\ primary # None /\ Fault
  /\ primary' = None /\ streaming' = {}
  /\ plan' = Idle /\ handler' = Forgotten
  /\ UNCHANGED <<byHand, log, acked, sync, ssn, wanted>>

Electable(n) == sync.leader = None \/ n = sync.leader \/ n \in sync.voters
Cut(n) == log' = [m \in Node |-> IF log[m] > log[n] THEN log[n] ELSE log[m]]

\* The race among the nodes of /sync (those that answer, and the former leader does not
\* count), and process_sync_replication_prepromote.
Promote(n) ==
  /\ primary = None /\ Electable(n)
  /\ \E seen \in SUBSET (Node \ {sync.leader}) : \A m \in seen : Electable(m) => log[m] <= log[n]
  /\ primary' = n
  /\ IF sync.leader = None THEN UNCHANGED sync ELSE sync' = [leader |-> n, voters |-> {}]
  /\ ssn' = [ssn EXCEPT ![n] = IF Strict THEN Star ELSE {}]
  /\ Cut(n)
  /\ UNCHANGED <<byHand, streaming, acked, faults, handler, wanted, plan>>

\* In pause somebody promotes a node: what it does not have is given up.
PromoteByHand(n) ==
  /\ primary = None /\ byHand < MaxByHand
  /\ byHand' = byHand + 1
  /\ primary' = n
  /\ Cut(n)
  /\ acked' = IF acked > log[n] THEN log[n] ELSE acked
  /\ UNCHANGED <<streaming, faults, sync, ssn, handler, wanted, plan>>

MultiSyncNext ==
  \/ Begin \/ TakeOverKey \/ RepairKey \/ NarrowKey \/ SetNames \/ Confirm \/ WidenKey
  \/ Interrupted \/ ChangeCount \/ Commit \/ Acknowledge \/ LosePrimary
  \/ \E n \in Node : Replicate(n) \/ Connect(n) \/ Disconnect(n) \/ Promote(n) \/ PromoteByHand(n)

MultiSyncSpec == Init /\ [][MultiSyncNext]_vars

-----------------------------------------------------------------------------
\* Whoever may take over has every commit that was acknowledged, at every step of a
\* cycle and whatever interrupts it ("we only consider promoting standbys that were
\* guaranteed to be replicating synchronously", ha.py:915).
HeirsHaveCommits ==
  sync.leader # None => \A n \in Node : Electable(n) /\ n # sync.leader => log[n] >= acked
=============================================================================
