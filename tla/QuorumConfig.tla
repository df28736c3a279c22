---------------------------- MODULE QuorumConfig ----------------------------
(***************************************************************************)
(* The quorum commit configuration of a Patroni cluster: what the /sync    *)
(* key in the DCS and synchronous_standby_names of the primary hold, and   *)
(* how the HA loop of the primary (ha.py) moves the pair, one transition   *)
(* of the QuorumStateResolver at a time, while replicas come and go, the   *)
(* loop is interrupted, and another node is promoted.                      *)
(*                                                                         *)
(* Write-ahead logs are not here: which replicas stream ("active") and     *)
(* which of them have caught up ("confirmed") are chosen freely at each    *)
(* cycle.  QuorumCommit adds the logs.                                     *)
(*                                                                         *)
(* The leader lock is taken as given: one primary at a time, and the old   *)
(* one has stopped writing /sync when another is promoted.                 *)
(***************************************************************************)
EXTENDS QuorumResolver, SequencesExt

CONSTANTS
    N,          \* the cluster members are 1..N
    Counts,     \* the values synchronous_node_count is given
    MinSync     \* min_synchronous_nodes: 1 under synchronous_mode_strict, else 0

ASSUME ConfigAssumption ==
    /\ N \in Nat \ {0}
    /\ Counts \subseteq Nat \ {0} /\ Counts # {}
    /\ MinSync \in {0, 1}

Nodes == 1..N

VARIABLES
    primary,    \* the node that runs as primary, NoNode when there is none
    sync,       \* the /sync key: leader, quorum, voters
    ssn,        \* synchronous_standby_names: ANY num (names), or ANY num (*)
    pending,    \* transitions the running cycle has computed and not done yet
    wanted      \* synchronous_node_count

config == <<primary, sync, ssn, pending, wanted>>

EmptySync == [leader |-> NoNode, quorum |-> 0, voters |-> {}]
EmptySsn == [num |-> 0, names |-> {}, star |-> FALSE]

Members == IF sync.leader = NoNode THEN {} ELSE {sync.leader} \cup sync.voters

(* set_synchronous_standby_names: an empty set with a number means any     *)
(* standby (a star).  PostgreSQL rejects a number below 1, and the value   *)
(* in force stays: one of "before".                                        *)
Accepted(num, names) == names = {} \/ num >= 1
StandbyNames(num, names, before) ==
    IF Accepted(num, names)
    THEN {[num |-> num, names |-> names, star |-> names = {} /\ num >= 1]}
    ELSE before

ConfigInit ==
    /\ primary = 1
    /\ sync = EmptySync
    /\ ssn = EmptySsn
    /\ pending = << >>
    /\ wanted \in Counts

(* _maybe_enable_synchronous_mode: the first write of /sync.               *)
EnableSync ==
    /\ primary # NoNode
    /\ sync.leader = NoNode
    /\ sync' = [EmptySync EXCEPT !.leader = primary]
    /\ UNCHANGED <<primary, ssn, pending, wanted>>

(* The resolver that a cycle of the primary starts from.                   *)
CycleResolver(active, confirmed) ==
    Resolver(sync.leader, sync.quorum, sync.voters, ssn.num, ssn.names,
             Cardinality(confirmed), active, wanted, primary)

(* One turn of the loop of _process_quorum_replication: the state is read  *)
(* and all transitions are computed before the first is carried out.       *)
ComputeTransitions(active, confirmed) ==
    /\ primary # NoNode
    /\ sync.leader # NoNode
    /\ pending = << >>
    /\ pending' = Transitions(CycleResolver(active, confirmed))
    /\ UNCHANGED <<primary, sync, ssn, wanted>>

(* A "quorum" transition: write_sync_state.                                *)
WriteSyncKey ==
    /\ primary # NoNode
    /\ pending # << >> /\ Head(pending).type = "quorum"
    /\ sync' = [leader |-> Head(pending).leader, quorum |-> Head(pending).num,
                voters |-> Head(pending).names]
    /\ pending' = Tail(pending)
    /\ UNCHANGED <<primary, ssn, wanted>>

(* A "sync" transition: the number is raised to the configured minimum.    *)
SetStandbyNames ==
    /\ primary # NoNode
    /\ pending # << >> /\ Head(pending).type = "sync"
    /\ ssn' \in StandbyNames(Max2(Head(pending).num, MinSync), Head(pending).names, {ssn})
    /\ pending' = Tail(pending)
    /\ UNCHANGED <<primary, sync, wanted>>

(* The "restart" hint, a timeout or an error: what is left is dropped, and *)
(* a later cycle looks at the state again.                                 *)
AbandonTransitions ==
    /\ primary # NoNode
    /\ pending # << >>
    /\ pending' = << >>
    /\ UNCHANGED <<primary, sync, ssn, wanted>>

ChangeCount(n) ==
    /\ n \in Counts \ {wanted}
    /\ wanted' = n
    /\ UNCHANGED <<primary, sync, ssn, pending>>

(* The primary crashes or is demoted; the rest of its cycle is lost.       *)
LosePrimary ==
    /\ primary # NoNode
    /\ primary' = NoNode
    /\ pending' = << >>
    /\ UNCHANGED <<sync, ssn, wanted>>

(* Mutant: an outsider takes a voter's number.                            *)
PrepromoteNumOfVoter(n) ==
    IF sync.leader = NoNode THEN MinSync ELSE Cardinality(Members) - sync.quorum - 1

(* process_sync_replication_prepromote of the node that won the leader     *)
(* race: it will sync to the other members, to enough of them to meet the  *)
(* next election.  /sync keeps the old leader until the first cycle.  When *)
(* /sync is not in use yet, there is nobody to sync to.                    *)
PrepromoteNum(n) ==
    IF sync.leader = NoNode THEN MinSync
    ELSE Cardinality(Members) - sync.quorum - 1 + IF n \in Members THEN 0 ELSE 1

PrepromoteNames(n) == Members \ {n}

(* What a node has in force when its new names are rejected: none, or what *)
(* the last primary ran with if that was this node.                        *)
Promote(n) ==
    /\ primary = NoNode
    /\ primary' = n
    /\ ssn' \in StandbyNames(PrepromoteNum(n), PrepromoteNames(n),
                            {EmptySsn} \cup {s \in {ssn} : n \notin s.names})
    /\ UNCHANGED <<sync, pending, wanted>>

(* _is_healthiest_node, the logs aside: the votes of the members that      *)
(* answered, where a candidate outside the voting set starts from -1; the  *)
(* leader named in /sync needs none.                                       *)
Elects(n, votes, unopposed) ==
    \/ sync.leader = NoNode
    \/ votes - (IF n \in Members THEN 0 ELSE 1) >= sync.quorum
    \/ unopposed /\ sync.leader = n

WinElection(n) ==
    /\ \E seen \in SUBSET (Members \ {n}) : Elects(n, Cardinality(seen), TRUE)
    /\ Promote(n)

ConfigNext ==
    \/ EnableSync
    \/ \E active \in SUBSET (Nodes \ {primary}) :
          \E confirmed \in SUBSET (active \cap ssn.names) : ComputeTransitions(active, confirmed)
    \/ WriteSyncKey
    \/ SetStandbyNames
    \/ AbandonTransitions
    \/ \E n \in Counts : ChangeCount(n)
    \/ LosePrimary
    \/ \E n \in Nodes : WinElection(n)

\* (The stutter first, as TLC tries the disjuncts in order.)
ConfigStep == UNCHANGED config \/ ConfigNext

ConfigSpec == ConfigInit /\ [][ConfigStep]_config

-----------------------------------------------------------------------------
TransitionType ==
    [type : {"quorum", "sync", "restart"}, leader : Nodes, num : Nat, names : SUBSET Nodes]

(* Types; a leader is no voter of its own, and does not replicate to       *)
(* itself.                                                                 *)
ConfigTypeOK ==
    /\ primary \in Nodes \cup {NoNode}
    /\ sync \in [leader : Nodes \cup {NoNode}, quorum : Nat, voters : SUBSET Nodes]
    /\ ssn \in [num : 0..N, names : SUBSET Nodes, star : BOOLEAN]
    /\ pending \in Seq(TransitionType)
    /\ wanted \in Counts
    /\ sync.leader \notin sync.voters
    /\ primary \notin ssn.names

(* Whoever can acknowledge a commit: the primary and ssn.num of the names, *)
(* and whoever can elect a primary: sync.quorum + 1 of the members.        *)
Acknowledgers == {A \cup {primary} : A \in {B \in SUBSET ssn.names : Cardinality(B) >= ssn.num}}
Electors == {E \in SUBSET Members : Cardinality(E) > sync.quorum}

(* The two always meet: what QuorumStateResolver keeps check_invariants    *)
(* for, on the real configuration, at all times and across failovers.      *)
QuorumsMeet ==
    primary # NoNode =>
        \A A \in Acknowledgers, E \in Electors : A \cap E # {}

(* quorum_update raises "Quorum {quorum} >= N of ({voters})" when asked for *)
(* a quorum that the voters without the leader cannot reach.               *)
QuorumBelowVoters == sync.quorum > 0 => sync.quorum < Cardinality(sync.voters)

-----------------------------------------------------------------------------
(* The configuration after a cycle that nothing interrupts, with every     *)
(* active node caught up.                                                  *)
Apply(c, t) ==
    CASE t.type = "quorum" ->
            [c EXCEPT !.sync = [leader |-> t.leader, quorum |-> t.num, voters |-> t.names]]
      [] t.type = "sync" ->
            [c EXCEPT !.ssn = CHOOSE s \in StandbyNames(Max2(t.num, MinSync), t.names, {@}) : TRUE]
      [] t.type = "restart" -> c

WholeCycle(c, active) ==
    LET q == Resolver(c.sync.leader, c.sync.quorum, c.sync.voters, c.ssn.num, c.ssn.names,
                      Cardinality(active \cap c.ssn.names), active, wanted, primary)
    IN  FoldLeft(Apply, c, Transitions(q))

(* The optimal state of quorum.py for the nodes that are active.           *)
Optimal(c, active) ==
    LET num == Min2(wanted, Cardinality(active))
    IN  /\ c.sync = [leader |-> primary, quorum |-> Cardinality(active) - num, voters |-> active]
        /\ c.ssn.names = active
        /\ active # {} => c.ssn.num = Max2(num, MinSync)

(* "We need to be able to produce a series of state changes that take the  *)
(* system to this desired state from any other arbitrary state given       *)
(* arbitrary changes [in] node availability, configuration and interrupted *)
(* transitions" (quorum.py): four undisturbed cycles lead to the optimal   *)
(* state, whatever happened before, and whichever nodes are active.        *)
Settles ==
    primary # NoNode /\ sync.leader # NoNode /\ pending = << >> =>
        \A active \in SUBSET (Nodes \ {primary}) :
            LET c == [sync |-> sync, ssn |-> ssn]
                twice(x) == WholeCycle(WholeCycle(x, active), active)
            IN  Optimal(twice(twice(c)), active)

(* The same, from the states in which the voters can reach the quorum.     *)
ElectableSettles == QuorumBelowVoters => Settles

=============================================================================
