--------------------------- MODULE QuorumResolver ---------------------------
(***************************************************************************)
(* QuorumStateResolver of patroni/quorum.py: given what the /sync key and  *)
(* synchronous_standby_names hold now and which nodes replicate, the       *)
(* changes to both, in order, that lead to the desired state.              *)
(*                                                                         *)
(* The generator methods of the class are operators from a resolver record *)
(* to a resolver record.  The record holds the object's attributes, the    *)
(* transitions generated so far in "out", and in "exit" how the generator  *)
(* ended: "running" while it runs, "return" for an early return, and       *)
(* "QuorumError" or "AssertionError" when it raised.  An operator that     *)
(* gets a record which has ended returns it as it is.  __iter__ drops      *)
(* transitions from the finished list; here "out" never holds those.       *)
(*                                                                         *)
(* Node names are numbers, in the order in which Python sorts the names.   *)
(***************************************************************************)
EXTENDS Integers, Sequences, FiniteSets

NoNode == 0     \* "leader is None": quorum_update was not asked to change it

Min2(x, y) == IF x < y THEN x ELSE y
Max2(x, y) == IF x > y THEN x ELSE y

(* sorted(S)[:n] and sorted(S, reverse=True)[:n], as sets.                 *)
Lowest(S, n) == {x \in S : Cardinality({y \in S : y < x}) < n}
Highest(S, n) == {x \in S : Cardinality({y \in S : y > x}) < n}

Transition(type, leader, num, names) ==
    [type |-> type, leader |-> leader, num |-> num, names |-> names]

(* QuorumStateResolver.__init__                                            *)
Resolver(leader, quorum, voters, numsync, sync, confirmed, active, wanted, leader_wanted) ==
    [leader |-> leader, quorum |-> quorum, voters |-> voters,
     numsync |-> Min2(numsync, Cardinality(sync)), sync |-> sync,
     confirmed |-> confirmed, active |-> active, wanted |-> wanted,
     leader_wanted |-> leader_wanted, out |-> << >>, exit |-> "running"]

(* Any nodes that can acknowledge a commit meet any that can promote, and  *)
(* of the two sets one includes the other.                                 *)
Overlap(q) ==
    LET voters == q.voters \cup {q.leader}
        sync == q.sync \cup {q.leader_wanted}
    IN  /\ q.voters # {} => Cardinality(voters \cup sync) <= q.quorum + q.numsync + 1
        /\ voters \subseteq sync \/ sync \subseteq voters

Raise(q, error) == [q EXCEPT !.exit = error]

(* __iter__: of neighbours of one type the last, nothing after a restart.  *)
Merged(out, t) ==
    LET last == out[Len(out)]
    IN  CASE out = << >> -> <<t>>
          [] out # << >> /\ last.type = "restart" -> out
          [] out # << >> /\ last.type # "restart" /\ last.type = t.type ->
                [out EXCEPT ![Len(out)] = t]
          [] OTHER -> Append(out, t)

(* check_invariants, then yield: a broken state raises instead.            *)
Yield(q, t) ==
    IF Overlap(q) THEN [q EXCEPT !.out = Merged(@, t)] ELSE Raise(q, "QuorumError")

(* quorum_update                                                           *)
QuorumUpdate(q, quorum, voters, leader, adjust) ==
    LET reset == leader = NoNode /\ q.confirmed = 0 /\ q.voters = {}
        lead == IF leader # NoNode THEN leader ELSE q.leader
        quor == CASE leader # NoNode -> quorum
                  [] reset -> 0
                  [] OTHER -> quorum + IF adjust THEN Max2(q.numsync - q.confirmed, 0) ELSE 0
        vote == IF reset THEN {} ELSE voters
        same == <<lead, quor, vote>> = <<q.leader, q.quorum, q.voters>>
        restart == Transition("restart", lead, q.quorum, q.voters)
        hint == IF same THEN Merged(q.out, restart) ELSE q.out
        new == [q EXCEPT !.leader = lead, !.quorum = quor, !.voters = vote, !.out = hint]
    IN  IF q.exit # "running" THEN q
        ELSE IF quorum < 0 \/ (quorum > 0 /\ quorum >= Cardinality(voters))
             THEN Raise(q, "QuorumError")
        ELSE IF same /\ q.voters # {} THEN q
        ELSE Yield(new, Transition("quorum", lead, quor, vote))

(* sync_update                                                             *)
SyncUpdate(q, numsync, sync) ==
    IF q.exit # "running" THEN q
    ELSE IF numsync < 0 \/ numsync > Cardinality(sync) THEN Raise(q, "QuorumError")
    ELSE Yield([q EXCEPT !.numsync = numsync, !.sync = sync],
               Transition("sync", q.leader, numsync, sync))

AssertThat(q, cond) == IF q.exit = "running" /\ ~cond THEN Raise(q, "AssertionError") ELSE q

-----------------------------------------------------------------------------
(* __handle_non_steady_cases: a previous run was interrupted.              *)

(* Case 1: voters were being changed; evict the dead, sync to the living.  *)
EvictDeadVoters(q) ==
    LET remove == q.voters \ (q.sync \cup q.active)
    IN  IF remove = {} THEN q
        ELSE QuorumUpdate(q, Cardinality(q.voters) - Cardinality(remove) - q.numsync,
                          q.voters \ remove, NoNode, q.sync \subseteq q.active)

SyncToLivingVoters(q) ==
    LET add == (q.voters \cap q.active) \ q.sync
    IN  IF add = {} THEN q ELSE SyncUpdate(q, q.numsync, q.sync \cup add)

(* Case 2: the replication factor was being changed; drop the dead from    *)
(* sync if a voter stays in it, let the synced vote, drop who does not.    *)
KeepInSync(q, keep) == SyncUpdate(q, Min2(q.numsync, Cardinality(keep)), keep)

DropDeadFromSync(q) ==
    LET alive == q.sync \cap q.active
    IN  IF alive \notin {{}, q.sync} /\ (q.voters = {} \/ alive \cap q.voters # {})
        THEN KeepInSync(q, alive)
        ELSE q

LetSyncedVote(q) ==
    LET all == q.voters \cup (q.sync \cap q.active)
    IN  IF all = q.voters THEN q
        ELSE QuorumUpdate(q, Cardinality(all) - q.numsync, all, NoNode, TRUE)

DropNonVoters(q) ==
    IF q.sync \subseteq q.voters THEN q ELSE KeepInSync(q, q.sync \cap q.voters)

(* A mutant: what was raised for safety is never lowered.                  *)
SafetyMarginKept(q) == q

(* Cases 3 and 4: numsync or quorum is bigger than it needs to be.         *)
LowerQuorum(q) == QuorumUpdate(q, Cardinality(q.sync) - q.numsync, q.voters, NoNode, TRUE)

SafetyMargin(q) ==
    LET nodes == Cardinality(q.voters \cup q.sync)
        certain == q.quorum + Min2(q.numsync, q.confirmed) - nodes
        nominal == q.quorum + q.numsync - nodes
    IN  CASE certain > 0 /\ q.numsync > q.wanted ->
                SyncUpdate(q, Max2(q.wanted, Cardinality(q.voters) - q.quorum), q.sync)
          [] certain > 0 /\ q.numsync <= q.wanted -> LowerQuorum(q)
          [] certain <= 0 /\ nominal > 0 /\ q.numsync = q.wanted /\ q.numsync > q.confirmed ->
                LowerQuorum(q)
          [] OTHER -> q

AssertVotersSynced(q) == AssertThat(q, q.voters = q.sync)

HandleNonSteadyCases(q) ==
    SafetyMargin(AssertVotersSynced(
        CASE q.sync \subseteq q.voters /\ q.sync # q.voters ->
                SyncToLivingVoters(EvictDeadVoters(q))
          [] q.voters \subseteq q.sync /\ q.sync # q.voters ->
                DropNonVoters(LetSyncedVote(DropDeadFromSync(q)))
          [] OTHER -> q))

(* __remove_gone_nodes: all of them, or first as many as the quorum lets,  *)
(* and the rest where it has come down to 0.                               *)
RemoveAllNodes(q) == SyncUpdate(QuorumUpdate(q, 0, {}, NoNode, FALSE), 0, {})

RemoveFromVoters(q, remove) ==
    QuorumUpdate(q, Cardinality(q.voters \ remove) - q.numsync, q.voters \ remove, NoNode,
                 q.sync \subseteq q.active)

RemoveWithinQuorum(q) ==
    LET remove == Highest(q.sync \ q.active, q.quorum)
        fewer == q.sync \ remove
    IN  RemoveFromVoters(
            SyncUpdate(q, Min2(Max2(q.wanted, q.numsync), Cardinality(fewer)), fewer), remove)

RemoveTheRest(q) ==
    LET rest == q.sync \ q.active
        numsync == q.numsync - Cardinality(rest)
        voters == q.voters \ rest
        decrease == numsync - Min2(q.wanted, Cardinality(q.sync \ rest))
        quorum == IF decrease # 0 THEN Min2(decrease, Cardinality(voters) - 1) ELSE 0
    IN  IF rest = {} THEN q
        ELSE SyncUpdate(QuorumUpdate(AssertThat(q, q.quorum = 0), quorum, voters, NoNode, FALSE),
                        numsync, q.sync \ rest)

RemoveGoneNodes(q) ==
    CASE q.sync \subseteq q.active -> q
      [] q.sync # {} /\ q.sync \cap q.active = {} -> RemoveAllNodes(q)
      [] OTHER -> RemoveTheRest(IF q.quorum = 0 THEN q ELSE RemoveWithinQuorum(q))

(* __add_new_nodes: up to the replication factor first, then the others.   *)
Factor(q) == Min2(q.wanted, Cardinality(q.sync \cup q.active))

LetNewVote(q, add, adjust) ==
    LET voters == q.voters \cup add
    IN  QuorumUpdate(q, Cardinality(voters) - Factor(q), voters, NoNode, adjust)

AddUpToFactor(q) ==
    LET new == q.active \ q.sync
        increase == Factor(q) - q.numsync
        add == IF q.sync # {} THEN Lowest(new, increase) ELSE new
        by == IF q.sync # {} THEN Cardinality(add) ELSE increase
    IN  LetNewVote(SyncUpdate(q, q.numsync + by, q.sync \cup add), add, TRUE)

AddTheRest(q) ==
    IF q.active \subseteq q.sync THEN q
    ELSE SyncUpdate(LetNewVote(q, q.active \ q.sync, Factor(q) > q.confirmed),
                    Factor(q), q.sync \cup q.active)

AddNewNodes(q) ==
    IF q.active \subseteq q.sync THEN q
    ELSE AddTheRest(IF Factor(q) > q.numsync THEN AddUpToFactor(q) ELSE q)

(* __handle_replication_factor_change                                      *)
ReduceQuorum(q, by) ==
    IF q.quorum + by < Cardinality(q.voters)
    THEN QuorumUpdate(q, Cardinality(q.voters) - q.numsync + by, q.voters, NoNode,
                      q.wanted > q.confirmed)
    ELSE q

MatchQuorum(q) == QuorumUpdate(q, Cardinality(q.voters) - q.numsync, q.voters, NoNode, TRUE)

HandleReplicationFactorChange(q) ==
    LET target == Min2(q.wanted, Cardinality(q.sync))
    IN  CASE target = q.numsync -> q
          [] target > q.numsync -> MatchQuorum(SyncUpdate(q, target, q.sync))
          [] target < q.numsync ->
                SyncUpdate(ReduceQuorum(q, q.numsync - target), target, q.sync)

-----------------------------------------------------------------------------
(* The try block of _generate_transitions: a failover, or the check of a   *)
(* state that should satisfy the invariant.  After a failover nothing more *)
(* is done until replicas stream.                                          *)
SyncToVoters(q, voters) ==
    IF q.sync # {} THEN q ELSE SyncUpdate(q, Cardinality(voters) - q.quorum, voters)

ChangeLeader(q, voters) == QuorumUpdate(q, q.quorum, voters, q.leader_wanted, TRUE)

WaitForReplicas(q) ==
    IF q.exit = "running" /\ q.sync \cap q.active = {} THEN [q EXCEPT !.exit = "return"] ELSE q

Failover(q) ==
    LET voters == (q.voters \ {q.leader_wanted}) \cup {q.leader}
    IN  WaitForReplicas(ChangeLeader(SyncToVoters(q, voters), voters))

TryLeader(q) ==
    IF q.leader_wanted # q.leader THEN Failover(q)
    ELSE IF Overlap(q) THEN q ELSE Raise(q, "QuorumError")

(* except QuorumError: fall back to what synchronous_standby_names says.   *)
Recover(q) ==
    IF q.exit # "QuorumError" THEN q
    ELSE QuorumUpdate([q EXCEPT !.exit = "running"], Cardinality(q.sync) - q.numsync, q.sync,
                      NoNode, TRUE)

AssertLeader(q) == AssertThat(q, q.leader = q.leader_wanted)

(* After a restart nothing is confirmed: derive it from the quorum.        *)
AdjustConfirmed(q) ==
    LET streaming == q.sync \cap q.active
    IN  IF q.exit = "running" /\ q.confirmed = 0 /\ streaming # {}
        THEN [q EXCEPT !.confirmed = Min2(Cardinality(streaming),
                                          Cardinality(q.voters) - q.quorum)]
        ELSE q

(* _generate_transitions                                                   *)
Generate(q) ==
    HandleReplicationFactorChange(AddNewNodes(RemoveGoneNodes(HandleNonSteadyCases(
        AdjustConfirmed(AssertLeader(Recover(TryLeader(q))))))))

Raised(q) == q.exit \in {"QuorumError", "AssertionError"}

(* What a loop over the object sees: nothing when the generator raised,    *)
(* since the list is built before the first transition is yielded.         *)
Transitions(q) ==
    LET end == Generate(q) IN IF Raised(end) THEN << >> ELSE end.out

=============================================================================
