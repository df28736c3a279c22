---------------------------- MODULE QuorumCommit ----------------------------
(***************************************************************************)
(* Commits and elections of a Patroni cluster in quorum commit mode: the   *)
(* configuration of QuorumConfig together with the write-ahead logs it     *)
(* protects, PostgreSQL's acknowledgement of commits, what SyncHandler     *)
(* (postgresql/sync.py) remembers of the replicas that caught up, and the  *)
(* leader race of Ha._is_healthiest_node (ha.py).                          *)
(*                                                                         *)
(* A log is the sequence of the terms (primaries, counted) that wrote its  *)
(* records; a position is a length.  A promotion writes one record.  A     *)
(* replica receives everything up to the primary's position in one step,   *)
(* after a rewind if its log has diverged.  maximum_lag_on_failover,       *)
(* check_timeline (off by default), tags and priorities are left out.      *)
(***************************************************************************)
EXTENDS QuorumConfig

CONSTANTS
    MaxLog,         \* bound: the length of a log
    MaxTerm,        \* bound: the number of primaries
    MaxFaults       \* bound: nodes that stop, connections lost, counts changed

ASSUME CommitAssumption ==
    /\ MaxLog \in Nat \ {0}
    /\ MaxTerm \in Nat \ {0}
    /\ MaxFaults \in Nat

VARIABLES
    log,        \* the write-ahead log of each node
    up,         \* nodes whose PostgreSQL and Patroni run
    streaming,  \* replicas in pg_stat_replication of the primary
    handler,    \* SyncHandler of each node: the names and the position it saw
                \* when they changed, and the replicas that reached it
    term,       \* the number of the current primary
    faults,     \* nodes stopped, connections lost, counts changed so far
    acked       \* history: the longest log a client was told is committed

vars == <<config, log, up, streaming, handler, term, faults, acked>>

EmptyHandler == [known |-> EmptySsn, flush |-> 0, ready |-> {}]

Init ==
    /\ ConfigInit
    /\ log = [n \in Nodes |-> <<1>>]
    /\ up = Nodes
    /\ streaming = {}
    /\ handler = [n \in Nodes |-> EmptyHandler]
    /\ term = 1
    /\ faults = 0
    /\ acked = << >>

-----------------------------------------------------------------------------
(* Mutants: new replicas are trusted at once, or without being listed; a   *)
(* candidate does not look at the logs of others.                          *)
WithReadyAtOnce(h, replicas) == [h EXCEPT !.ready = @ \cup (replicas \cap h.known.names)]
WithReadyUnlisted(h, replicas) ==
    [h EXCEPT !.ready = @ \cup {r \in replicas : Len(log[r]) >= h.flush}]
HealthiestBlind(n, seen) == Elects(n, Cardinality(seen), TRUE)

(* _handle_synchronous_standby_names_change: names that stay listed are    *)
(* not asked to catch up again.                                            *)
Noticed(h, names, position) ==
    IF h.known = names THEN h
    ELSE [known |-> names, flush |-> position, ready |-> h.ready \cap names.names]

(* _process_replica_readiness                                              *)
WithReady(h, replicas) ==
    [h EXCEPT !.ready = @ \cup {r \in replicas \cap h.known.names : Len(log[r]) >= h.flush}]

(* current_state of the primary, then the transitions from it.             *)
Cycle ==
    /\ primary # NoNode
    /\ LET h == WithReady(Noticed(handler[primary], ssn, Len(log[primary])), streaming)
       IN  /\ ComputeTransitions(streaming, h.ready \cap streaming)
           /\ handler' = [handler EXCEPT ![primary] = h]
    /\ UNCHANGED <<log, up, streaming, term, faults, acked>>

EnableSyncMode ==
    /\ EnableSync
    /\ UNCHANGED <<log, up, streaming, handler, term, faults, acked>>

StepSyncKey ==
    /\ WriteSyncKey
    /\ UNCHANGED <<log, up, streaming, handler, term, faults, acked>>

(* set_synchronous_standby_names returns before it looks at the handler    *)
(* when the names are a star.                                              *)
StepStandbyNames ==
    /\ SetStandbyNames
    /\ handler' = IF ssn'.star THEN handler
                  ELSE [handler EXCEPT ![primary] = Noticed(@, ssn', Len(log[primary]))]
    /\ UNCHANGED <<log, up, streaming, term, faults, acked>>

Abandon ==
    /\ AbandonTransitions
    /\ UNCHANGED <<log, up, streaming, handler, term, faults, acked>>

(* An operator changes synchronous_node_count.                             *)
SetCount(n) ==
    /\ faults < MaxFaults
    /\ faults' = faults + 1
    /\ ChangeCount(n)
    /\ UNCHANGED <<log, up, streaming, handler, term, acked>>

-----------------------------------------------------------------------------
(* PostgreSQL, as the code relies on it.                                   *)

Write ==
    /\ primary # NoNode
    /\ Len(log[primary]) < MaxLog
    /\ log' = [log EXCEPT ![primary] = Append(@, term)]
    /\ UNCHANGED <<config, up, streaming, handler, term, faults, acked>>

Replicate(r) ==
    /\ r \in streaming
    /\ log[r] # log[primary]
    /\ log' = [log EXCEPT ![r] = log[primary]]
    /\ UNCHANGED <<config, up, streaming, handler, term, faults, acked>>

(* The commits that enough of the named replicas have are acknowledged.    *)
Confirmable(s) ==
    LET have == {r \in streaming : IsPrefix(s, log[r])}
    IN  IF ssn.star THEN Cardinality(have) >= ssn.num
        ELSE Cardinality(have \cap ssn.names) >= ssn.num

Acknowledge ==
    /\ primary # NoNode
    /\ sync.leader # NoNode
    /\ acked' \in {s \in Prefixes(log[primary]) : Confirmable(s)}
    /\ Len(acked') > Len(acked)
    /\ UNCHANGED <<config, log, up, streaming, handler, term, faults>>

(* A replica has to hold a prefix of the primary's log to stream from it;  *)
(* otherwise it is rewound first.                                          *)
Connect(r) ==
    /\ primary # NoNode
    /\ r \in up \ (streaming \cup {primary})
    /\ IsPrefix(log[r], log[primary])
    /\ streaming' = streaming \cup {r}
    /\ UNCHANGED <<config, log, up, handler, term, faults, acked>>

Rewind(r) ==
    /\ primary # NoNode
    /\ r \in up \ (streaming \cup {primary})
    /\ ~IsPrefix(log[r], log[primary])
    /\ log' = [log EXCEPT ![r] = LongestCommonPrefix({@, log[primary]})]
    /\ UNCHANGED <<config, up, streaming, handler, term, faults, acked>>

-----------------------------------------------------------------------------
(* A node stops, its Patroni with it or not.                               *)
Stop(n) ==
    /\ n \in up
    /\ faults < MaxFaults
    /\ faults' = faults + 1
    /\ up' = up \ {n}
    /\ IF n = primary
       THEN LosePrimary /\ streaming' = {}
       ELSE UNCHANGED config /\ streaming' = streaming \ {n}
    /\ handler' \in {handler, [handler EXCEPT ![n] = EmptyHandler]}
    /\ UNCHANGED <<log, term, acked>>

Disconnect(r) ==
    /\ r \in streaming
    /\ faults < MaxFaults
    /\ faults' = faults + 1
    /\ streaming' = streaming \ {r}
    /\ UNCHANGED <<config, log, up, handler, term, acked>>

Start(n) ==
    /\ n \notin up
    /\ up' = up \cup {n}
    /\ UNCHANGED <<config, log, streaming, handler, term, faults, acked>>

(* The leader race of a node that sees some of the members: it defers to a *)
(* member that is ahead, unless that is the former leader.                 *)
Healthiest(n, seen) ==
    LET ahead == {m \in seen : Len(log[m]) > Len(log[n])}
    IN  /\ ahead \subseteq {sync.leader}
        /\ Elects(n, Cardinality(seen \ ahead), ahead = {})

(* The winner takes the leader lock, sets its names and is promoted.       *)
Election(n) ==
    /\ n \in up
    /\ primary = NoNode
    /\ term < MaxTerm
    /\ \E seen \in SUBSET ((IF Members = {} THEN Nodes ELSE Members) \cap (up \ {n})) :
          Healthiest(n, seen)
    /\ Promote(n)
    /\ term' = term + 1
    /\ log' = [log EXCEPT ![n] = Append(@, term')]
    /\ UNCHANGED <<up, streaming, handler, faults, acked>>

Next ==
    \/ Cycle
    \/ EnableSyncMode
    \/ StepSyncKey
    \/ StepStandbyNames
    \/ Abandon
    \/ \E n \in Counts : SetCount(n)
    \/ Write
    \/ Acknowledge
    \/ \E n \in Nodes : \/ Replicate(n) \/ Connect(n) \/ Rewind(n)
                        \/ Stop(n) \/ Disconnect(n) \/ Start(n) \/ Election(n)

Spec == Init /\ [][Next]_vars

-----------------------------------------------------------------------------
TypeOK ==
    /\ ConfigTypeOK
    /\ log \in [Nodes -> Seq(1..MaxTerm)]
    /\ primary \in up \cup {NoNode} /\ streaming \subseteq up \ {primary}
    /\ \A n \in Nodes : handler[n].ready \subseteq handler[n].known.names
    /\ term \in 1..MaxTerm /\ faults \in 0..MaxFaults

(* "At all times any subset of voters that can achieve quorum includes at  *)
(* least one node with the latest successful commit"                       *)
(* (docs/replication_modes.rst).                                           *)
QuorumHasLatestCommit ==
    \A E \in Electors : \E n \in E : IsPrefix(acked, log[n])

(* The same as long as nothing fails and synchronous_node_count stays.     *)
SteadyHasLatestCommit == faults = 0 => QuorumHasLatestCommit

(* A primary has every commit that was acknowledged before it.             *)
NoLostCommit == primary # NoNode => IsPrefix(acked, log[primary])

=============================================================================
