------------------------ MODULE QuorumCommitProofs --------------------------
(***************************************************************************)
(* Four facts about quorum commit, for any number of nodes.                *)
(*                                                                         *)
(* QuorumConfig keeps QuorumsMeet.  What the resolver takes the pair of    *)
(* /sync and synchronous_standby_names to be is a "view" of it.  Every     *)
(* transition the resolver generates leads to a view in which the quorums  *)
(* meet (a "safe" one): it checks that before it yields.  An interrupted   *)
(* cycle stops at one of these views, and the next cycle starts from what  *)
(* it finds.                                                               *)
(*                                                                         *)
(* QuorumCommit implements QuorumConfig: whatever the logs do, the pair of *)
(* /sync and synchronous_standby_names changes only in the ways that       *)
(* QuorumConfig allows, so what holds of the configuration there holds of  *)
(* a cluster of any size.                                                  *)
(*                                                                         *)
(* As long as no node stops, no connection is lost and the count stays,    *)
(* every set that can elect a primary has what was acknowledged.  The      *)
(* invariant (SteadyInv) counts: of the voters of /sync, no more than the  *)
(* quorum may be without it.  Every transition of a cycle whose view of    *)
(* the connections is right adds only connected replicas, and gives votes  *)
(* only where enough had confirmed (Fits).                                 *)
(*                                                                         *)
(* With one fault, or one change of the count, no commit that was          *)
(* acknowledged is lost.  Until then the primary is the one of the         *)
(* beginning and has everything; when it is that one which stops, nothing  *)
(* more is acknowledged and nothing but /sync says who may win, so that    *)
(* the counting of SteadyInv is still right when the race is won           *)
(* (Leaderless), and who wins it has everything again.                     *)
(***************************************************************************)
EXTENDS QuorumCommit, FiniteSetTheorems, TLAPS

-----------------------------------------------------------------------------
(* The names are finite sets.                                              *)

LEMMA FiniteNames ==
    /\ N \in Nat /\ NoNode \notin Nodes /\ IsFiniteSet(Nodes)
    /\ \A S \in SUBSET Nodes : IsFiniteSet(S) /\ Cardinality(S) \in Nat
  <1>1. N \in Nat /\ NoNode \notin Nodes
    BY ConfigAssumption DEF Nodes, NoNode
  <1>2. IsFiniteSet(Nodes)
    BY <1>1, FS_Interval DEF Nodes
  <1>3. ASSUME NEW S \in SUBSET Nodes
        PROVE  IsFiniteSet(S) /\ Cardinality(S) \in Nat
    BY <1>2, FS_Subset, FS_CardinalityType
  <1> QED
    BY <1>1, <1>2, <1>3

-----------------------------------------------------------------------------
(* What a resolver takes the pair of /sync and synchronous_standby_names   *)
(* to be.                                                                  *)
View == [leader : Nodes, quorum : Nat, voters : SUBSET Nodes,
         numsync : Int, sync : SUBSET Nodes]
ViewOf(q) == [leader |-> q.leader, quorum |-> q.quorum, voters |-> q.voters,
              numsync |-> q.numsync, sync |-> q.sync]
Trans == [type : {"quorum", "sync", "restart"}, leader : Nodes, num : Nat, names : SUBSET Nodes]

(* The view of primary p is one of the configuration: a number of 0 may    *)
(* have been rejected, and then anything may be in force.                  *)
Tracks(key, names, v) ==
    /\ key = [leader |-> v.leader, quorum |-> v.quorum, voters |-> v.voters]
    /\ v.numsync <= 0 \/ (names.names = v.sync /\ names.num >= v.numsync)

(* Either all the nodes are too few for two quorums beside each other, or  *)
(* the primary alone can vote.                                             *)
Together(v, p) == v.voters \cup {v.leader} \cup v.sync \cup {p}
Safe(v, p) ==
    /\ p \notin v.sync
    /\ \/ Cardinality(Together(v, p)) <= v.quorum + v.numsync + 1
       \/ v.voters = {} /\ v.leader = p

-----------------------------------------------------------------------------
(* A list of transitions leads from view to view, each of them safe.       *)
Follows(u, t, v) ==
    /\ t.type = "quorum" =>
         v = [leader |-> t.leader, quorum |-> t.num, voters |-> t.names,
              numsync |-> u.numsync, sync |-> u.sync]
    /\ t.type = "sync" =>
         v = [leader |-> u.leader, quorum |-> u.quorum, voters |-> u.voters,
              numsync |-> t.num, sync |-> t.names]
    /\ t.type = "restart" => v = u

Chain(out, R, p) ==
    /\ out \in Seq(Trans)
    /\ R \in [0..Len(out) -> View]
    /\ \A i \in 1..Len(out) :
         /\ Follows(R[i - 1], out[i], R[i])
         /\ out[i].type # "restart" => Safe(R[i], p)

(* Where the list leads; after a restart nothing is done any more.         *)
Ends(out) == out # << >> /\ out[Len(out)].type = "restart"
Leads(out, p, from, to) ==
    \E R : Chain(out, R, p) /\ R[0] = from /\ (Ends(out) \/ R[Len(out)] = to)

LEMMA MergedLeads ==
    ASSUME NEW out, NEW p, NEW from, NEW u \in View, NEW v \in View, NEW t \in Trans,
           Leads(out, p, from, u), Follows(u, t, v), t.type # "restart" => Safe(v, p)
    PROVE  Leads(Merged(out, t), p, from, v) /\ (t.type = "restart" => Ends(Merged(out, t)))
  <1>1. PICK R : Chain(out, R, p) /\ R[0] = from /\ (Ends(out) \/ R[Len(out)] = u)
    BY DEF Leads
  <1>2. /\ out \in Seq(Trans) /\ Len(out) \in Nat
        /\ R \in [0..Len(out) -> View]
        /\ \A i \in 1..Len(out) : out[i] \in Trans
    BY <1>1 DEF Chain
  <1>3. CASE out = << >>
    <2> DEFINE Q == [i \in 0..1 |-> IF i = 0 THEN from ELSE v]
    <2>1. Merged(out, t) = <<t>>
      BY <1>3 DEF Merged
    <2>2. R[0] = u /\ from = u
      BY <1>1, <1>3 DEF Ends
    <2>3. Chain(<<t>>, Q, p)
      BY <2>2 DEF Chain
    <2>4. Q[0] = from /\ Q[Len(<<t>>)] = v
      OBVIOUS
    <2> QED
      BY <2>1, <2>3, <2>4 DEF Leads, Ends
  <1>4. CASE out # << >> /\ out[Len(out)].type = "restart"
    <2>1. Merged(out, t) = out
      BY <1>4 DEF Merged
    <2> QED
      BY <1>1, <1>4, <2>1 DEF Leads, Ends
  <1>5. CASE out # << >> /\ out[Len(out)].type # "restart" /\ out[Len(out)].type = t.type
    <2> DEFINE L == Len(out)
               o == [out EXCEPT ![L] = t]
               Q == [R EXCEPT ![L] = v]
    <2>1. Merged(out, t) = o /\ L \in Nat /\ L > 0 /\ R[L] = u
      BY <1>1, <1>2, <1>5 DEF Merged, Ends
    <2>2. o \in Seq(Trans) /\ Len(o) = L /\ o[L] = t /\ \A i \in 1..L : i # L => o[i] = out[i]
      BY <1>2, <2>1
    <2>3. Q \in [0..L -> View] /\ Q[L] = v /\ \A i \in 0..L : i # L => Q[i] = R[i]
      BY <1>2, <2>1
    <2>4. Follows(R[L - 1], t, v)
      <3>1. R[L - 1] \in View /\ Follows(R[L - 1], out[L], u)
        BY <1>1, <1>2, <2>1 DEF Chain
      <3> QED
        BY <3>1, <1>5 DEF Follows, View, Trans
    <2>5. Chain(o, Q, p)
      <3> SUFFICES ASSUME NEW i \in 1..L
                   PROVE  Follows(Q[i - 1], o[i], Q[i]) /\ (o[i].type # "restart" => Safe(Q[i], p))
        BY <2>2, <2>3 DEF Chain
      <3>1. i - 1 \in 0..L /\ i - 1 # L /\ Q[i - 1] = R[i - 1]
        BY <2>1, <2>3
      <3>2. CASE i = L
        BY <3>1, <3>2, <2>2, <2>3, <2>4
      <3>3. CASE i # L
        BY <3>1, <3>3, <2>2, <2>3, <1>1 DEF Chain
      <3> QED
        BY <3>2, <3>3
    <2>6. Q[0] = from
      BY <2>1, <2>3, <1>1
    <2>7. Q[Len(o)] = v
      BY <2>2, <2>3
    <2>8. t.type # "restart"
      BY <1>5
    <2> QED
      BY <2>1, <2>5, <2>6, <2>7, <2>8 DEF Leads
  <1>6. CASE out # << >> /\ out[Len(out)].type # "restart" /\ out[Len(out)].type # t.type
    <2> DEFINE L == Len(out)
               o == Append(out, t)
               Q == [i \in 0..(L + 1) |-> IF i = L + 1 THEN v ELSE R[i]]
    <2>1. Merged(out, t) = o /\ L \in Nat /\ R[L] = u
      BY <1>1, <1>2, <1>6 DEF Merged, Ends
    <2>2. o \in Seq(Trans) /\ Len(o) = L + 1 /\ o[L + 1] = t /\ \A i \in 1..L : o[i] = out[i]
      BY <1>2, <2>1
    <2>3. Q \in [0..(L + 1) -> View] /\ Q[L + 1] = v /\ \A i \in 0..L : Q[i] = R[i]
      BY <1>2, <2>1
    <2>4. Chain(o, Q, p)
      <3> SUFFICES ASSUME NEW i \in 1..(L + 1)
                   PROVE  Follows(Q[i - 1], o[i], Q[i]) /\ (o[i].type # "restart" => Safe(Q[i], p))
        BY <2>2, <2>3 DEF Chain
      <3>1. i - 1 \in 0..L /\ Q[i - 1] = R[i - 1]
        BY <2>1, <2>3
      <3>2. CASE i = L + 1
        BY <3>1, <3>2, <2>1, <2>2, <2>3
      <3>3. CASE i # L + 1
        <4>1. i \in 1..L /\ i \in 0..L
          BY <3>3, <2>1
        <4> QED
          BY <3>1, <4>1, <2>2, <2>3, <1>1 DEF Chain
      <3> QED
        BY <3>2, <3>3
    <2> QED
      BY <2>1, <2>2, <2>3, <2>4, <1>1 DEF Leads, Ends
  <1> QED
    BY <1>3, <1>4, <1>5, <1>6

-----------------------------------------------------------------------------
(* A resolver that works for primary p: it syncs to others.                *)
Res(p) ==
    [leader : Nodes, quorum : Nat, voters : SUBSET Nodes,
     numsync : Int, sync : SUBSET (Nodes \ {p}),
     confirmed : Int, active : SUBSET (Nodes \ {p}), wanted : Int, leader_wanted : {p},
     out : Seq(Trans), exit : {"running", "return", "QuorumError", "AssertionError"}]

LEMMA ResFields ==
    ASSUME NEW p, NEW q \in Res(p)
    PROVE  /\ q.leader \in Nodes /\ q.quorum \in Nat /\ q.voters \in SUBSET Nodes
           /\ q.numsync \in Int /\ q.sync \in SUBSET (Nodes \ {p})
           /\ q.confirmed \in Int /\ q.active \in SUBSET (Nodes \ {p}) /\ q.wanted \in Int
           /\ q.leader_wanted = p /\ q.out \in Seq(Trans)
           /\ q.exit \in {"running", "return", "QuorumError", "AssertionError"}
           /\ ViewOf(q) \in View
  BY DEF Res, ViewOf, View

(* The transitions so far lead from what was there to what the resolver    *)
(* has in mind, which it has checked, if it has not raised an error.       *)
Good(q, p, from) ==
    /\ q \in Res(p)
    /\ ~Raised(q) => Leads(q.out, p, from, ViewOf(q))
    /\ q.exit = "running" => q.leader = p

LEMMA OverlapSafe ==
    ASSUME NEW p \in Nodes, NEW q \in Res(p), Overlap(q), q.voters = {} => q.leader = p
    PROVE  Safe(ViewOf(q), p)
  <1>1. /\ p \notin q.sync /\ q.leader_wanted = p
        /\ q.voters # {} => Cardinality(q.voters \cup {q.leader} \cup (q.sync \cup {p})) <= q.quorum + q.numsync + 1
    BY ResFields DEF Overlap
  <1>2. q.voters \cup {q.leader} \cup (q.sync \cup {p}) = q.voters \cup {q.leader} \cup q.sync \cup {p}
    OBVIOUS
  <1> QED
    BY <1>1, <1>2 DEF Safe, Together, ViewOf

(* Yield, where all but the last change is what the transitions led to.    *)
LEMMA YieldGood ==
    ASSUME NEW p \in Nodes, NEW q \in Res(p), q.exit = "running", NEW t \in Trans, t.type # "restart",
           NEW from, NEW u \in View, Leads(q.out, p, from, u), Follows(u, t, ViewOf(q)),
           q.leader = p
    PROVE  /\ Good(Yield(q, t), p, from)
           /\ Yield(q, t).sync = q.sync /\ Yield(q, t).active = q.active
           /\ Yield(q, t).voters = q.voters /\ Yield(q, t).numsync = q.numsync
  <1>1. CASE Overlap(q)
    <2> DEFINE r == Yield(q, t)
    <2>1. r = [q EXCEPT !.out = Merged(q.out, t)]
      BY <1>1 DEF Yield
    <2>2. Leads(Merged(q.out, t), p, from, ViewOf(q))
      BY <1>1, OverlapSafe, MergedLeads, ResFields
    <2>3. Merged(q.out, t) \in Seq(Trans)
      BY <2>2 DEF Leads, Chain
    <2>4. r \in Res(p)
      BY <2>1, <2>3 DEF Res
    <2>5. /\ r.out = Merged(q.out, t) /\ ViewOf(r) = ViewOf(q) /\ r.leader = p
          /\ r.sync = q.sync /\ r.active = q.active /\ r.voters = q.voters /\ r.numsync = q.numsync
      BY <2>1 DEF Res, ViewOf
    <2> QED
      BY <2>2, <2>4, <2>5 DEF Good
  <1>2. CASE ~Overlap(q)
    <2>1. Yield(q, t) = [q EXCEPT !.exit = "QuorumError"]
      BY <1>2 DEF Yield, Raise
    <2> QED
      BY <2>1 DEF Good, Res, Raised
  <1> QED
    BY <1>1, <1>2

LEMMA RaiseGood ==
    ASSUME NEW p, NEW q \in Res(p), NEW from, NEW error \in {"QuorumError", "AssertionError"}
    PROVE  /\ Good(Raise(q, error), p, from)
           /\ Raise(q, error).sync = q.sync /\ Raise(q, error).active = q.active
           /\ Raise(q, error).voters = q.voters /\ Raise(q, error).numsync = q.numsync
  BY DEF Raise, Good, Res, Raised

(* What the two kinds of changes make of the resolver's attributes.         *)
QuorumTo(q, quorum, voters, out) ==
    [q EXCEPT !.leader = q.leader, !.quorum = quorum, !.voters = voters, !.out = out]
SyncTo(q, numsync, names) == [q EXCEPT !.numsync = numsync, !.sync = names]

LEMMA QuorumChanged ==
    ASSUME NEW p, NEW q \in Res(p), NEW quorum \in Nat, NEW voters \in SUBSET Nodes, NEW out \in Seq(Trans),
           NEW new, new = QuorumTo(q, quorum, voters, out)
    PROVE  /\ new \in Res(p) /\ new.out = out /\ new.exit = q.exit /\ new.leader = q.leader
           /\ new.quorum = quorum /\ new.voters = voters /\ new.numsync = q.numsync
           /\ new.sync = q.sync /\ new.active = q.active
  <1>1. new \in Res(p)
    BY ResFields DEF Res, QuorumTo
  <1>2. /\ new.out = out /\ new.exit = q.exit /\ new.leader = q.leader /\ new.quorum = quorum
        /\ new.voters = voters /\ new.numsync = q.numsync /\ new.sync = q.sync
        /\ new.active = q.active
    BY DEF Res, QuorumTo
  <1> QED
    BY <1>1, <1>2

LEMMA SyncChanged ==
    ASSUME NEW p, NEW q \in Res(p), NEW numsync \in Int, NEW names \in SUBSET (Nodes \ {p}),
           NEW new, new = SyncTo(q, numsync, names)
    PROVE  /\ new \in Res(p) /\ new.out = q.out /\ new.exit = q.exit /\ new.leader = q.leader
           /\ new.quorum = q.quorum /\ new.voters = q.voters /\ new.numsync = numsync
           /\ new.sync = names /\ new.active = q.active
  <1>1. new \in Res(p)
    BY DEF Res, SyncTo
  <1>2. /\ new.out = q.out /\ new.exit = q.exit /\ new.leader = q.leader /\ new.quorum = q.quorum
        /\ new.voters = q.voters /\ new.numsync = numsync /\ new.sync = names
        /\ new.active = q.active
    BY DEF Res, SyncTo
  <1> QED
    BY <1>1, <1>2

LEMMA QuorumYieldGood ==
    ASSUME NEW p \in Nodes, NEW from, NEW u \in View, NEW new \in Res(p),
           new.exit = "running", new.leader = p, u.numsync = new.numsync, u.sync = new.sync,
           Leads(new.out, p, from, u),
           NEW t, t = Transition("quorum", p, new.quorum, new.voters)
    PROVE  /\ Good(Yield(new, t), p, from)
           /\ Yield(new, t).sync = new.sync /\ Yield(new, t).active = new.active
           /\ Yield(new, t).numsync = new.numsync
  <1>1. t \in Trans /\ t.type = "quorum" /\ t.leader = p /\ t.num = new.quorum /\ t.names = new.voters
    BY ResFields DEF Trans, Transition
  <1>2. ViewOf(new) = [leader |-> p, quorum |-> new.quorum, voters |-> new.voters,
                       numsync |-> u.numsync, sync |-> u.sync]
    BY DEF ViewOf
  <1>3. Follows(u, t, ViewOf(new)) /\ t.type # "restart"
    BY <1>1, <1>2 DEF Follows
  <1> QED
    BY <1>1, <1>3, YieldGood

LEMMA SyncYieldGood ==
    ASSUME NEW p \in Nodes, NEW from, NEW u \in View, NEW new \in Res(p),
           new.exit = "running", new.leader = p, u.leader = p, u.quorum = new.quorum,
           u.voters = new.voters, Leads(new.out, p, from, u), new.numsync \in Nat,
           NEW t, t = Transition("sync", p, new.numsync, new.sync)
    PROVE  /\ Good(Yield(new, t), p, from)
           /\ Yield(new, t).active = new.active /\ Yield(new, t).voters = new.voters
  <1>1. t \in Trans /\ t.type = "sync" /\ t.num = new.numsync /\ t.names = new.sync
    BY ResFields DEF Trans, Transition
  <1>2. ViewOf(new) = [leader |-> u.leader, quorum |-> u.quorum, voters |-> u.voters,
                       numsync |-> new.numsync, sync |-> new.sync]
    BY DEF ViewOf
  <1>3. Follows(u, t, ViewOf(new)) /\ t.type # "restart"
    BY <1>1, <1>2 DEF Follows
  <1> QED
    BY <1>1, <1>3, YieldGood

LEMMA QuorumUpdateGood ==
    ASSUME NEW p \in Nodes, NEW q, NEW from, Good(q, p, from),
           NEW quorum \in Int, NEW voters \in SUBSET Nodes, NEW adjust \in BOOLEAN
    PROVE  /\ Good(QuorumUpdate(q, quorum, voters, NoNode, adjust), p, from)
           /\ QuorumUpdate(q, quorum, voters, NoNode, adjust).sync = q.sync
           /\ QuorumUpdate(q, quorum, voters, NoNode, adjust).active = q.active
           /\ QuorumUpdate(q, quorum, voters, NoNode, adjust).numsync = q.numsync
  <1> DEFINE reset == q.confirmed = 0 /\ q.voters = {}
             more == IF adjust THEN Max2(q.numsync - q.confirmed, 0) ELSE 0
             quor == IF reset THEN 0 ELSE quorum + more
             vote == IF reset THEN {} ELSE voters
             same == <<q.leader, quor, vote>> = <<q.leader, q.quorum, q.voters>>
             restart == Transition("restart", q.leader, q.quorum, q.voters)
             hint == IF same THEN Merged(q.out, restart) ELSE q.out
             t == Transition("quorum", q.leader, quor, vote)
             r == QuorumUpdate(q, quorum, voters, NoNode, adjust)
             refused == quorum < 0 \/ (quorum > 0 /\ quorum >= Cardinality(voters))
  <1>1. q \in Res(p)
    BY DEF Good
  <1>2. CASE q.exit # "running"
    BY <1>2 DEF QuorumUpdate
  <1>3. CASE q.exit = "running" /\ refused
    BY <1>1, <1>3, RaiseGood DEF QuorumUpdate
  <1>4. CASE q.exit = "running" /\ ~refused /\ same /\ q.voters # {}
    <2>1. r = q
      BY <1>4 DEF QuorumUpdate
    <2> QED
      BY <2>1
  <1>5. CASE q.exit = "running" /\ ~refused /\ ~(same /\ q.voters # {})
    <2>1. r = Yield(QuorumTo(q, quor, vote, hint), t)
      BY <1>5 DEF QuorumUpdate, QuorumTo
    <2>2. vote \in SUBSET Nodes
      BY <1>1, ResFields
    <2>3. quor \in Nat
      <3>1. more \in Nat
        BY <1>1, ResFields DEF Max2
      <3> HIDE DEF more
      <3>2. quorum \in Nat
        BY <1>5
      <3> QED
        BY <3>1, <3>2
    <2>4. restart \in Trans /\ restart.type = "restart"
      BY <1>1, ResFields DEF Trans, Transition
    <2>5. Leads(q.out, p, from, ViewOf(q)) /\ ViewOf(q) \in View /\ q.leader = p
      BY <1>1, <1>5, ResFields DEF Good, Raised
    <2> HIDE DEF restart, quor, vote, same, r
    <2>6. Leads(hint, p, from, ViewOf(q))
      <3>1. Follows(ViewOf(q), restart, ViewOf(q))
        BY <2>4 DEF Follows
      <3>2. Leads(Merged(q.out, restart), p, from, ViewOf(q))
        BY <2>4, <2>5, <3>1, MergedLeads
      <3> QED
        BY <2>5, <3>2
    <2>7. ViewOf(q).numsync = q.numsync /\ ViewOf(q).sync = q.sync /\ q.exit = "running"
      BY <1>5 DEF ViewOf
    <2> HIDE DEF hint
    <2>8. hint \in Seq(Trans)
      BY <2>6 DEF Leads, Chain
    <2>9. PICK z : z = QuorumTo(q, quor, vote, hint)
      OBVIOUS
    <2>10. /\ z \in Res(p) /\ z.out = hint /\ z.exit = q.exit /\ z.leader = q.leader
           /\ z.quorum = quor /\ z.voters = vote /\ z.numsync = q.numsync
           /\ z.sync = q.sync /\ z.active = q.active
      <3> HIDE DEF more, t, refused, reset
      <3>1. z \in Res(p)
        BY <1>1, <2>2, <2>3, <2>8, <2>9, QuorumChanged
      <3>2. z.out = hint
        BY <1>1, <2>2, <2>3, <2>8, <2>9, QuorumChanged
      <3>3. z.exit = q.exit /\ z.leader = q.leader
        BY <1>1, <2>2, <2>3, <2>8, <2>9, QuorumChanged
      <3>4. z.quorum = quor /\ z.voters = vote
        BY <1>1, <2>2, <2>3, <2>8, <2>9, QuorumChanged
      <3>5. z.numsync = q.numsync /\ z.sync = q.sync /\ z.active = q.active
        BY <1>1, <2>2, <2>3, <2>8, <2>9, QuorumChanged
      <3> QED
        BY <3>1, <3>2, <3>3, <3>4, <3>5
    <2>11. r = Yield(z, Transition("quorum", p, z.quorum, z.voters))
      BY <2>1, <2>5, <2>9, <2>10
    <2> QED
      BY <2>5, <2>6, <2>7, <2>10, <2>11, QuorumYieldGood DEF r
  <1> QED
    BY <1>2, <1>3, <1>4, <1>5

LEMMA SyncUpdateGood ==
    ASSUME NEW p \in Nodes, NEW q, NEW from, Good(q, p, from),
           NEW numsync \in Int, NEW names \in SUBSET (Nodes \ {p})
    PROVE  /\ Good(SyncUpdate(q, numsync, names), p, from)
           /\ SyncUpdate(q, numsync, names).active = q.active
           /\ SyncUpdate(q, numsync, names).voters = q.voters
  <1> DEFINE refused == numsync < 0 \/ numsync > Cardinality(names)
  <1>1. q \in Res(p)
    BY DEF Good
  <1>2. CASE q.exit # "running"
    BY <1>2 DEF SyncUpdate
  <1>3. CASE q.exit = "running" /\ refused
    BY <1>1, <1>3, RaiseGood DEF SyncUpdate
  <1>4. CASE q.exit = "running" /\ ~refused
    <2>0. PICK z : z = SyncTo(q, numsync, names)
      OBVIOUS
    <2>1. /\ z \in Res(p) /\ z.out = q.out /\ z.exit = q.exit /\ z.leader = q.leader
          /\ z.quorum = q.quorum /\ z.voters = q.voters /\ z.numsync = numsync
          /\ z.sync = names /\ z.active = q.active
      BY <1>1, <2>0, SyncChanged
    <2>2. Leads(q.out, p, from, ViewOf(q)) /\ q.leader = p /\ numsync \in Nat
      BY <1>4 DEF Good, Raised
    <2>3. SyncUpdate(q, numsync, names) = Yield(z, Transition("sync", p, z.numsync, z.sync))
      BY <1>4, <2>0, <2>1, <2>2 DEF SyncUpdate, SyncTo
    <2>4. /\ ViewOf(q) \in View /\ ViewOf(q).leader = p /\ ViewOf(q).quorum = q.quorum
          /\ ViewOf(q).voters = q.voters
      BY <1>1, <2>2, ResFields DEF ViewOf
    <2>5. Leads(z.out, p, from, ViewOf(q)) /\ z.exit = "running" /\ z.leader = p /\ z.numsync \in Nat
      BY <1>4, <2>1, <2>2
    <2>6. PICK u \in View : u.leader = p /\ u.quorum = z.quorum /\ u.voters = z.voters /\ Leads(z.out, p, from, u)
      BY <2>1, <2>4, <2>5
    <2>7. PICK t : t = Transition("sync", p, z.numsync, z.sync)
      OBVIOUS
    <2>8. /\ Good(Yield(z, t), p, from)
          /\ Yield(z, t).active = z.active /\ Yield(z, t).voters = z.voters
      BY <2>1, <2>5, <2>6, <2>7, SyncYieldGood
    <2> QED
      BY <2>1, <2>3, <2>7, <2>8
  <1> QED
    BY <1>2, <1>3, <1>4

LEMMA AssertGood ==
    ASSUME NEW p \in Nodes, NEW q, NEW from, Good(q, p, from), NEW cond
    PROVE  /\ Good(AssertThat(q, cond), p, from)
           /\ AssertThat(q, cond).sync = q.sync /\ AssertThat(q, cond).active = q.active
           /\ AssertThat(q, cond).voters = q.voters /\ AssertThat(q, cond).numsync = q.numsync
  <1>1. q \in Res(p)
    BY DEF Good
  <1> QED
    BY <1>1, RaiseGood DEF AssertThat

-----------------------------------------------------------------------------
(* The beginning of a generator, up to the point where the primary is the  *)
(* leader.                                                                 *)

LEMMA NothingLeads ==
    ASSUME NEW p, NEW v \in View
    PROVE  Leads(<< >>, p, v, v)
  <1> DEFINE R == [i \in 0..0 |-> v]
  <1>1. Chain(<< >>, R, p) /\ R[0] = v
    BY DEF Chain
  <1> QED
    BY <1>1 DEF Leads

LEMMA MergedType ==
    ASSUME NEW out \in Seq(Trans), NEW t \in Trans
    PROVE  Merged(out, t) \in Seq(Trans)
  BY DEF Merged

(* A failing generator goes on from where it was.                          *)
LEMMA ExitChanged ==
    ASSUME NEW p, NEW q \in Res(p), NEW exit \in {"running", "return", "QuorumError", "AssertionError"},
           NEW r, r = [q EXCEPT !.exit = exit]
    PROVE  /\ r \in Res(p) /\ r.exit = exit /\ r.leader = q.leader /\ r.quorum = q.quorum
           /\ r.voters = q.voters /\ r.numsync = q.numsync /\ r.sync = q.sync
           /\ r.confirmed = q.confirmed /\ r.active = q.active /\ r.out = q.out
           /\ ViewOf(r) = ViewOf(q)
  BY DEF Res, ViewOf

LEMMA QuorumUpdateRes ==
    ASSUME NEW p, NEW q \in Res(p), q.exit = "running",
           NEW quorum \in Int, NEW voters \in SUBSET Nodes, NEW adjust \in BOOLEAN
    PROVE  /\ QuorumUpdate(q, quorum, voters, NoNode, adjust) \in Res(p)
           /\ QuorumUpdate(q, quorum, voters, NoNode, adjust).exit \in {"running", "QuorumError"}
           /\ QuorumUpdate(q, quorum, voters, NoNode, adjust).leader = q.leader
  <1> DEFINE reset == q.confirmed = 0 /\ q.voters = {}
             more == IF adjust THEN Max2(q.numsync - q.confirmed, 0) ELSE 0
             quor == IF reset THEN 0 ELSE quorum + more
             vote == IF reset THEN {} ELSE voters
             same == <<q.leader, quor, vote>> = <<q.leader, q.quorum, q.voters>>
             restart == Transition("restart", q.leader, q.quorum, q.voters)
             hint == IF same THEN Merged(q.out, restart) ELSE q.out
             t == Transition("quorum", q.leader, quor, vote)
             r == QuorumUpdate(q, quorum, voters, NoNode, adjust)
             refused == quorum < 0 \/ (quorum > 0 /\ quorum >= Cardinality(voters))
  <1>1. CASE refused
    <2>1. r = [q EXCEPT !.exit = "QuorumError"]
      BY <1>1 DEF QuorumUpdate, Raise
    <2> HIDE DEF r
    <2>2. r \in Res(p) /\ r.exit = "QuorumError" /\ r.leader = q.leader
      BY <2>1, ExitChanged
    <2> QED
      BY <2>2 DEF r
  <1>2. CASE ~refused /\ same /\ q.voters # {}
    <2>1. r = q
      BY <1>2 DEF QuorumUpdate
    <2> QED
      BY <2>1
  <1>3. CASE ~refused /\ ~(same /\ q.voters # {})
    <2>1. r = Yield(QuorumTo(q, quor, vote, hint), t)
      BY <1>3 DEF QuorumUpdate, QuorumTo
    <2>2. vote \in SUBSET Nodes
      BY ResFields
    <2>3. quor \in Nat
      <3>1. more \in Nat
        BY ResFields DEF Max2
      <3> HIDE DEF more
      <3>2. quorum \in Nat
        BY <1>3
      <3> QED
        BY <3>1, <3>2
    <2>4. restart \in Trans /\ t \in Trans
      BY <2>2, <2>3, ResFields DEF Trans, Transition
    <2>5. q.out \in Seq(Trans)
      BY ResFields
    <2> HIDE DEF restart, quor, vote, t
    <2>6. hint \in Seq(Trans)
      BY <2>4, <2>5, MergedType
    <2> HIDE DEF hint
    <2>7. PICK z : z = QuorumTo(q, quor, vote, hint)
      OBVIOUS
    <2>8. z \in Res(p) /\ z.exit = "running" /\ z.leader = q.leader /\ z.out = hint
      BY <2>2, <2>3, <2>6, <2>7, QuorumChanged
    <2>9. Merged(z.out, t) \in Seq(Trans)
      BY <2>4, <2>6, <2>8, MergedType
    <2>10. CASE Overlap(z)
      <3>1. Yield(z, t) = [z EXCEPT !.out = Merged(z.out, t)]
        BY <2>10 DEF Yield
      <3>2. Yield(z, t) \in Res(p) /\ Yield(z, t).exit = "running" /\ Yield(z, t).leader = q.leader
        BY <3>1, <2>8, <2>9 DEF Res
      <3> HIDE DEF r
      <3> QED
        BY <3>2, <2>1, <2>7 DEF r
    <2>11. CASE ~Overlap(z)
      <3>1. Yield(z, t) = [z EXCEPT !.exit = "QuorumError"]
        BY <2>11 DEF Yield, Raise
      <3>2. PICK y : y = Yield(z, t)
        OBVIOUS
      <3>3. y \in Res(p) /\ y.exit = "QuorumError" /\ y.leader = q.leader
        BY <3>1, <3>2, <2>8, ExitChanged
      <3> QED
        BY <3>2, <3>3, <2>1, <2>7 DEF r
    <2> QED
      BY <2>10, <2>11
  <1> QED
    BY <1>1, <1>2, <1>3

LEMMA Raises ==
    ASSUME NEW p, NEW q \in Res(p), NEW r, r = Raise(q, "QuorumError")
    PROVE  /\ r \in Res(p) /\ r.exit = "QuorumError" /\ r.leader = q.leader /\ r.quorum = q.quorum
           /\ r.voters = q.voters /\ r.numsync = q.numsync /\ r.sync = q.sync
           /\ r.confirmed = q.confirmed /\ r.active = q.active /\ r.out = q.out
           /\ ViewOf(r) = ViewOf(q)
  BY DEF Raise, Res, ViewOf

LEMMA Pair ==
    ASSUME NEW x, NEW y, x # y
    PROVE  Cardinality({x, y}) = 2
  <1>1. IsFiniteSet({y}) /\ Cardinality({y}) = 1
    BY FS_Singleton
  <1>2. Cardinality({y} \cup {x}) = 2
    BY <1>1, FS_AddElement
  <1>3. {y} \cup {x} = {x, y}
    OBVIOUS
  <1> QED
    BY <1>2, <1>3

(* SyncToVoters: the new primary syncs to all who may vote without it.     *)
LEMMA SyncToVotersLeads ==
    ASSUME NEW p \in Nodes, NEW q \in Res(p), q.exit = "running", q.out = << >>, q.leader # p,
           NEW voters, voters = (q.voters \ {p}) \cup {q.leader},
           NEW r, r = SyncToVoters(q, voters)
    PROVE  /\ r \in Res(p) /\ r.leader = q.leader
           /\ \/ r.exit = "QuorumError"
              \/ r.exit = "running" /\ Leads(r.out, p, ViewOf(q), ViewOf(r))
  <1> DEFINE num == Cardinality(voters) - q.quorum
             t == Transition("sync", q.leader, num, voters)
  <1>1. CASE q.sync # {}
    <2>1. r = q
      BY <1>1 DEF SyncToVoters
    <2> QED
      BY <2>1, NothingLeads, ResFields
  <1>2. CASE q.sync = {}
    <2>1. r = SyncUpdate(q, num, voters)
      BY <1>2 DEF SyncToVoters
    <2>2. voters \in SUBSET (Nodes \ {p}) /\ voters \in SUBSET Nodes
      BY ResFields
    <2>3. Cardinality(voters) \in Nat /\ num \in Int
      BY <2>2, FiniteNames, ResFields
    <2> HIDE DEF num
    <2>4. CASE num < 0 \/ num > Cardinality(voters)
      <3>1. r = Raise(q, "QuorumError")
        BY <2>1, <2>4 DEF SyncUpdate
      <3>2. r \in Res(p) /\ r.exit = "QuorumError" /\ r.leader = q.leader
        BY <3>1, Raises
      <3> QED
        BY <3>2
    <2>5. CASE ~(num < 0 \/ num > Cardinality(voters))
      <3>1. PICK z : z = SyncTo(q, num, voters)
        OBVIOUS
      <3>2. /\ z \in Res(p) /\ z.out = q.out /\ z.exit = q.exit /\ z.leader = q.leader
            /\ z.quorum = q.quorum /\ z.voters = q.voters /\ z.numsync = num
            /\ z.sync = voters /\ z.active = q.active
        BY <2>2, <2>3, <3>1, SyncChanged
      <3>3. r = Yield(z, t)
        BY <2>1, <2>5, <3>1 DEF SyncUpdate, SyncTo
      <3>4. CASE ~Overlap(z)
        <4>1. r = Raise(z, "QuorumError")
          BY <3>3, <3>4 DEF Yield
        <4>2. r \in Res(p) /\ r.exit = "QuorumError" /\ r.leader = z.leader
          BY <4>1, <3>2, Raises
        <4> QED
          BY <4>2, <3>2
      <3>5. CASE Overlap(z)
        <4>1. r = [z EXCEPT !.out = Merged(z.out, t)]
          BY <3>3, <3>5 DEF Yield
        <4>2. ViewOf(z) \in View /\ ViewOf(q) \in View
          BY <3>2, ResFields
        <4>3. t \in Trans /\ t.type = "sync" /\ t.num = num /\ t.names = voters
          BY <2>2, <2>3, <2>5, ResFields DEF Trans, Transition
        <4>4. ViewOf(z) = [leader |-> ViewOf(q).leader, quorum |-> ViewOf(q).quorum,
                           voters |-> ViewOf(q).voters, numsync |-> num, sync |-> voters]
          BY <3>2 DEF ViewOf
        <4>5. Follows(ViewOf(q), t, ViewOf(z))
          BY <4>3, <4>4 DEF Follows
        <4>6. Safe(ViewOf(z), p)
          <5>1. CASE z.voters # {}
            BY <5>1, <3>2, <3>5, OverlapSafe
          <5>2. CASE z.voters = {}
            <6>1. voters = {q.leader} /\ Together(ViewOf(z), p) = {q.leader, p}
              BY <5>2, <3>2 DEF Together, ViewOf
            <6>2. Cardinality(voters) = 1 /\ Cardinality({q.leader, p}) = 2
              BY <6>1, FS_Singleton, Pair
            <6>3. ViewOf(z).quorum = q.quorum /\ ViewOf(z).numsync = 1 - q.quorum /\ p \notin ViewOf(z).sync
              BY <3>2, <6>2, <2>2 DEF ViewOf, num
            <6>4. q.quorum \in Nat
              BY ResFields
            <6> QED
              BY <6>1, <6>2, <6>3, <6>4 DEF Safe
          <5> QED
            BY <5>1, <5>2
        <4>7. Leads(q.out, p, ViewOf(q), ViewOf(q))
          BY <4>2, NothingLeads
        <4> HIDE DEF t
        <4>8. Leads(Merged(z.out, t), p, ViewOf(q), ViewOf(z))
          BY <4>2, <4>3, <4>5, <4>6, <4>7, <3>2, MergedLeads
        <4>9. Merged(z.out, t) \in Seq(Trans)
          BY <4>8 DEF Leads, Chain
        <4>10. r \in Res(p)
          BY <4>1, <4>9, <3>2 DEF Res
        <4>11. /\ r.out = Merged(z.out, t) /\ ViewOf(r) = ViewOf(z)
               /\ r.leader = z.leader /\ r.exit = z.exit
          BY <4>1, <3>2 DEF Res, ViewOf
        <4> QED
          BY <4>8, <4>10, <4>11, <3>2
      <3> QED
        BY <3>4, <3>5
    <2> QED
      BY <2>4, <2>5
  <1> QED
    BY <1>1, <1>2

(* ChangeLeader: it is refused, or the primary becomes the leader, in a    *)
(* state that satisfies the invariant or is raised for.                    *)
LeadTo(q, leader, voters) ==
    [q EXCEPT !.leader = leader, !.quorum = q.quorum, !.voters = voters, !.out = q.out]

LEMMA LeaderChanged ==
    ASSUME NEW p \in Nodes, NEW q \in Res(p), NEW voters \in SUBSET Nodes,
           NEW new, new = LeadTo(q, p, voters)
    PROVE  /\ new \in Res(p) /\ new.out = q.out /\ new.exit = q.exit /\ new.leader = p
           /\ new.quorum = q.quorum /\ new.voters = voters /\ new.numsync = q.numsync
           /\ new.sync = q.sync /\ new.active = q.active
  <1>1. new \in Res(p)
    BY DEF Res, LeadTo
  <1>2. /\ new.out = q.out /\ new.exit = q.exit /\ new.leader = p /\ new.quorum = q.quorum
        /\ new.voters = voters /\ new.numsync = q.numsync /\ new.sync = q.sync
        /\ new.active = q.active
    BY DEF Res, LeadTo
  <1> QED
    BY <1>1, <1>2

Refused(r, q, p, from) ==
    r \in Res(p) /\ r.exit = "QuorumError" /\ r.leader # p
Installed(r, q, p, from) ==
    /\ r \in Res(p) /\ r.leader = p /\ r.voters # {}
    /\ r.numsync = q.numsync /\ r.sync = q.sync
    /\ \/ r.exit = "running" /\ Leads(r.out, p, from, ViewOf(r))
       \/ r.exit = "QuorumError" /\ r.out = q.out /\ ~Overlap(r)

LEMMA ChangeLeaderLeads ==
    ASSUME NEW p \in Nodes, NEW q \in Res(p), q.exit = "running", q.leader # p,
           NEW from, Leads(q.out, p, from, ViewOf(q)),
           NEW voters \in SUBSET Nodes, voters # {},
           NEW r, r = ChangeLeader(q, voters)
    PROVE  Refused(r, q, p, from) \/ Installed(r, q, p, from)
  <1> DEFINE t == Transition("quorum", p, q.quorum, voters)
  <1>1. q.leader_wanted = p /\ p # NoNode /\ q.quorum \in Nat /\ ViewOf(q) \in View
    BY ResFields, FiniteNames
  <1>2. r = IF q.quorum < 0 \/ (q.quorum > 0 /\ q.quorum >= Cardinality(voters))
            THEN Raise(q, "QuorumError")
            ELSE Yield(LeadTo(q, p, voters), t)
    BY <1>1 DEF ChangeLeader, QuorumUpdate, LeadTo
  <1>3. CASE r = Raise(q, "QuorumError")
    BY <1>3, Raises DEF Refused
  <1>4. CASE r = Yield(LeadTo(q, p, voters), t)
    <2>1. PICK z : z = LeadTo(q, p, voters)
      OBVIOUS
    <2>2. /\ z \in Res(p) /\ z.out = q.out /\ z.exit = "running" /\ z.leader = p
          /\ z.quorum = q.quorum /\ z.voters = voters /\ z.numsync = q.numsync
          /\ z.sync = q.sync
      BY <2>1, LeaderChanged
    <2>3. r = Yield(z, Transition("quorum", p, z.quorum, z.voters))
      BY <1>4, <2>1, <2>2
    <2>4. PICK s : s = Transition("quorum", p, z.quorum, z.voters)
      OBVIOUS
    <2>5. r = Yield(z, s)
      BY <2>3, <2>4
    <2>6. CASE Overlap(z)
      <3>1. ViewOf(q).numsync = z.numsync /\ ViewOf(q).sync = z.sync /\ Leads(z.out, p, from, ViewOf(q))
        BY <2>2 DEF ViewOf
      <3>2. PICK u \in View : u.numsync = z.numsync /\ u.sync = z.sync /\ Leads(z.out, p, from, u)
        BY <3>1, <1>1
      <3>3. Good(Yield(z, s), p, from)
        BY <3>2, <2>2, <2>4, QuorumYieldGood
      <3>4. r = [z EXCEPT !.out = Merged(z.out, s)]
        BY <2>5, <2>6 DEF Yield
      <3>5. /\ r.exit = "running" /\ r.voters = z.voters
            /\ r.numsync = z.numsync /\ r.sync = z.sync
        BY <3>4, <2>2 DEF Res
      <3>6. r \in Res(p) /\ r.leader = p /\ Leads(r.out, p, from, ViewOf(r))
        BY <3>3, <3>5, <2>5 DEF Good, Raised
      <3> QED
        BY <3>5, <3>6, <2>2 DEF Installed
    <2>7. CASE ~Overlap(z)
      <3>1. r = Raise(z, "QuorumError")
        BY <2>5, <2>7 DEF Yield
      <3>2. /\ r \in Res(p) /\ r.exit = "QuorumError" /\ r.leader = z.leader /\ r.quorum = z.quorum
            /\ r.voters = z.voters /\ r.numsync = z.numsync /\ r.sync = z.sync /\ r.out = z.out
        BY <3>1, <2>2, Raises
      <3>3. r.leader_wanted = p /\ z.leader_wanted = p
        BY <3>2, <2>2, ResFields
      <3>4. ~Overlap(r)
        BY <3>2, <3>3, <2>7 DEF Overlap
      <3> QED
        BY <3>2, <3>4, <2>2 DEF Installed
    <2> QED
      BY <2>6, <2>7
  <1> QED
    BY <1>2, <1>3, <1>4

(* What is raised for with the primary as leader is no state to stay in:   *)
(* the fall-back changes it to one that satisfies the invariant.           *)
LEMMA FallBackGood ==
    ASSUME NEW p \in Nodes, NEW q \in Res(p), q.exit = "running", q.leader = p, q.voters # {}, ~Overlap(q),
           NEW from, NEW u \in View, u.numsync = q.numsync, u.sync = q.sync, Leads(q.out, p, from, u),
           NEW r, r = QuorumUpdate(q, Cardinality(q.sync) - q.numsync, q.sync, NoNode, TRUE)
    PROVE  Good(r, p, from)
  <1> DEFINE quorum == Cardinality(q.sync) - q.numsync
             more == Max2(q.numsync - q.confirmed, 0)
             quor == quorum + more
             same == quor = q.quorum /\ q.sync = q.voters
  <1>1. quorum \in Int /\ more \in Nat /\ Cardinality(q.sync) \in Nat
    <2>1. q.sync \in SUBSET Nodes
      BY ResFields
    <2> QED
      BY <2>1, ResFields, FiniteNames DEF Max2
  <1>2. ~same
    <2> SUFFICES ASSUME same PROVE FALSE
      OBVIOUS
    <2>1. q.leader_wanted = p /\ p \notin q.sync /\ IsFiniteSet(q.sync)
      BY ResFields, FiniteNames
    <2>2. q.voters \cup {q.leader} \cup (q.sync \cup {q.leader_wanted}) = q.sync \cup {p}
      BY <2>1
    <2>3. Cardinality(q.sync \cup {p}) = Cardinality(q.sync) + 1
      BY <2>1, FS_AddElement
    <2>4. Cardinality(q.sync) + 1 <= q.quorum + q.numsync + 1
      BY <1>1, ResFields
    <2>5. Overlap(q)
      BY <2>1, <2>2, <2>3, <2>4 DEF Overlap
    <2> QED
      BY <2>5
  <1>3. r = IF quorum < 0 \/ (quorum > 0 /\ quorum >= Cardinality(q.sync))
            THEN Raise(q, "QuorumError")
            ELSE Yield(QuorumTo(q, quor, q.sync, q.out), Transition("quorum", p, quor, q.sync))
    BY <1>2 DEF QuorumUpdate, QuorumTo
  <1>4. CASE r = Raise(q, "QuorumError")
    BY <1>4, RaiseGood
  <1>5. CASE r # Raise(q, "QuorumError")
    <2>1. /\ quor \in Nat
          /\ r = Yield(QuorumTo(q, quor, q.sync, q.out), Transition("quorum", p, quor, q.sync))
      <3>1. /\ ~(quorum < 0)
            /\ r = Yield(QuorumTo(q, quor, q.sync, q.out), Transition("quorum", p, quor, q.sync))
        BY <1>3, <1>5
      <3> HIDE DEF quorum, more
      <3>2. quor \in Nat
        BY <3>1, <1>1
      <3> QED
        BY <3>1, <3>2
    <2> HIDE DEF quor, same
    <2>2. PICK z : z = QuorumTo(q, quor, q.sync, q.out)
      OBVIOUS
    <2>3. q.sync \in SUBSET Nodes /\ q.out \in Seq(Trans)
      BY ResFields
    <2>4. /\ z \in Res(p) /\ z.out = q.out /\ z.exit = "running" /\ z.leader = p
          /\ z.quorum = quor /\ z.voters = q.sync /\ z.numsync = q.numsync /\ z.sync = q.sync
      BY <2>1, <2>2, <2>3, QuorumChanged
    <2>5. PICK t : t = Transition("quorum", p, z.quorum, z.voters)
      OBVIOUS
    <2>6. r = Yield(z, t)
      BY <2>1, <2>2, <2>4, <2>5
    <2>7. u.numsync = z.numsync /\ u.sync = z.sync /\ Leads(z.out, p, from, u)
      BY <2>4
    <2>8. Good(Yield(z, t), p, from)
      BY <2>4, <2>5, <2>7, QuorumYieldGood
    <2> QED
      BY <2>6, <2>8
  <1> QED
    BY <1>4, <1>5

LEMMA AssertLeaderGood ==
    ASSUME NEW p \in Nodes, NEW q, NEW from, Good(q, p, from)
    PROVE  Good(AssertLeader(q), p, from)
  <1>1. PICK cond : cond = (q.leader = q.leader_wanted)
    OBVIOUS
  <1>2. AssertLeader(q) = AssertThat(q, cond)
    BY <1>1 DEF AssertLeader
  <1> QED
    BY <1>2, AssertGood

(* The beginning of the fall-back.                                         *)
FellBack(z, q) ==
    /\ z \in Res(q.leader_wanted) /\ z.exit = "running" /\ z.leader = q.leader
    /\ z.quorum = q.quorum /\ z.voters = q.voters /\ z.numsync = q.numsync
    /\ z.sync = q.sync /\ z.out = q.out /\ ViewOf(z) = ViewOf(q)
    /\ Overlap(z) <=> Overlap(q)

LEMMA FallsBack ==
    ASSUME NEW p \in Nodes, NEW q \in Res(p), q.exit = "QuorumError",
           NEW r, r = AssertLeader(Recover(q))
    PROVE  \E z : FellBack(z, q) /\
              r = AssertLeader(QuorumUpdate(z, Cardinality(z.sync) - z.numsync, z.sync, NoNode, TRUE))
  <1>1. PICK z : z = [q EXCEPT !.exit = "running"]
    OBVIOUS
  <1>2. /\ z \in Res(p) /\ z.exit = "running" /\ z.leader = q.leader /\ z.quorum = q.quorum
        /\ z.voters = q.voters /\ z.numsync = q.numsync /\ z.sync = q.sync /\ z.out = q.out
        /\ ViewOf(z) = ViewOf(q)
    BY <1>1, ExitChanged
  <1>3. r = AssertLeader(QuorumUpdate(z, Cardinality(z.sync) - z.numsync, z.sync, NoNode, TRUE))
    BY <1>1, <1>2 DEF Recover
  <1>4. z.leader_wanted = q.leader_wanted
    BY <1>2, ResFields
  <1>5. Overlap(z) <=> Overlap(q)
    BY <1>2, <1>4 DEF Overlap
  <1> QED
    BY <1>2, <1>3, <1>5, ResFields DEF FellBack

(* A generator that goes on has the primary as leader, and has checked     *)
(* every change it has yielded.                                            *)
LEMMA StartGood ==
    ASSUME NEW p \in Nodes, NEW q \in Res(p), q.exit = "running", q.out = << >>,
           NEW r, r = AssertLeader(Recover(TryLeader(q)))
    PROVE  Good(r, p, ViewOf(q))
  <1> DEFINE from == ViewOf(q)
  <1>1. from \in View /\ Leads(q.out, p, from, from) /\ q.leader_wanted = p
    BY ResFields, NothingLeads
  <1>2. CASE q.leader = p /\ Overlap(q)
    <2>1. r = AssertLeader(q)
      BY <1>1, <1>2 DEF TryLeader, Recover
    <2>2. Good(q, p, from)
      BY <1>1, <1>2 DEF Good
    <2> QED
      BY <2>1, <2>2, AssertLeaderGood
  <1>3. CASE q.leader = p /\ ~Overlap(q)
    <2>1. PICK b : b = Raise(q, "QuorumError")
      OBVIOUS
    <2>2. TryLeader(q) = b
      BY <1>1, <1>3, <2>1 DEF TryLeader
    <2>3. b \in Res(p) /\ b.exit = "QuorumError" /\ b.leader = p /\ b.out = q.out /\ ViewOf(b) = from
      BY <1>3, <2>1, Raises
    <2>4. r = AssertLeader(Recover(b))
      BY <2>2
    <2>5. PICK z : FellBack(z, b) /\
              r = AssertLeader(QuorumUpdate(z, Cardinality(z.sync) - z.numsync, z.sync, NoNode, TRUE))
      BY <2>3, <2>4, FallsBack
    <2>6. z \in Res(p) /\ Good(z, p, from)
      BY <1>1, <2>3, <2>5, ResFields DEF Good, FellBack
    <2>7. Cardinality(z.sync) - z.numsync \in Int /\ z.sync \in SUBSET Nodes
      BY <2>6, ResFields, FiniteNames
    <2>8. Good(QuorumUpdate(z, Cardinality(z.sync) - z.numsync, z.sync, NoNode, TRUE), p, from)
      BY <2>6, <2>7, QuorumUpdateGood
    <2> QED
      BY <2>5, <2>8, AssertLeaderGood
  <1>4. CASE q.leader # p
    <2> DEFINE voters == (q.voters \ {p}) \cup {q.leader}
    <2>1. voters \in SUBSET Nodes /\ voters # {}
      BY ResFields
    <2>2. PICK a : a = SyncToVoters(q, voters)
      OBVIOUS
    <2>3. PICK b : b = ChangeLeader(a, voters)
      OBVIOUS
    <2>4. r = AssertLeader(Recover(WaitForReplicas(b)))
      BY <1>1, <1>4, <2>2, <2>3 DEF TryLeader, Failover
    <2>5. /\ a \in Res(p) /\ a.leader # p
          /\ \/ a.exit = "QuorumError"
             \/ a.exit = "running" /\ Leads(a.out, p, from, ViewOf(a))
      BY <1>4, <2>2, SyncToVotersLeads
    <2> HIDE DEF voters, from
    <2>6. Refused(b, a, p, from) \/ Installed(b, a, p, from)
      <3>1. CASE a.exit = "QuorumError"
        <4>1. b = a
          BY <3>1, <2>3 DEF ChangeLeader, QuorumUpdate
        <4> QED
          BY <3>1, <4>1, <2>5 DEF Refused
      <3>2. CASE a.exit = "running" /\ Leads(a.out, p, from, ViewOf(a))
        BY <3>2, <2>1, <2>3, <2>5, ChangeLeaderLeads
      <3> QED
        BY <3>1, <3>2, <2>5
    <2>7. CASE Refused(b, a, p, from)
      <3>1. b \in Res(p) /\ b.exit = "QuorumError" /\ b.leader # p
        BY <2>7 DEF Refused
      <3>2. r = AssertLeader(Recover(b))
        BY <2>4, <3>1 DEF WaitForReplicas
      <3>3. PICK z : FellBack(z, b) /\
              r = AssertLeader(QuorumUpdate(z, Cardinality(z.sync) - z.numsync, z.sync, NoNode, TRUE))
        BY <3>1, <3>2, FallsBack
      <3>10. z \in Res(p) /\ z.exit = "running" /\ z.leader = b.leader
        BY <3>1, <3>3, ResFields DEF FellBack
      <3>4. PICK y : y = QuorumUpdate(z, Cardinality(z.sync) - z.numsync, z.sync, NoNode, TRUE)
        OBVIOUS
      <3>5. Cardinality(z.sync) - z.numsync \in Int /\ z.sync \in SUBSET Nodes
        BY <3>10, ResFields, FiniteNames
      <3>6. y \in Res(p) /\ y.exit \in {"running", "QuorumError"} /\ y.leader # p
        BY <3>1, <3>10, <3>4, <3>5, QuorumUpdateRes
      <3>7. r = AssertLeader(y) /\ y.leader_wanted = p
        BY <3>3, <3>4, <3>6, ResFields
      <3>8. CASE y.exit = "running"
        <4>1. r = Raise(y, "AssertionError")
          BY <3>6, <3>7, <3>8 DEF AssertLeader, AssertThat
        <4> QED
          BY <4>1, <3>6, RaiseGood
      <3>9. CASE y.exit = "QuorumError"
        <4>1. r = y
          BY <3>7, <3>9 DEF AssertLeader, AssertThat
        <4> QED
          BY <4>1, <3>6, <3>9 DEF Good, Raised
      <3> QED
        BY <3>6, <3>8, <3>9
    <2>8. CASE Installed(b, a, p, from)
      <3>1. /\ b \in Res(p) /\ b.leader = p /\ b.voters # {}
            /\ b.numsync = a.numsync /\ b.sync = a.sync
        BY <2>8 DEF Installed
      <3>2. CASE b.exit = "running" /\ Leads(b.out, p, from, ViewOf(b))
        <4>1. PICK c : c = WaitForReplicas(b)
          OBVIOUS
        <4>2. Good(b, p, from)
          BY <3>1, <3>2 DEF Good
        <4>3. Good(c, p, from) /\ c.exit # "QuorumError"
          <5>1. CASE c = b
            BY <5>1, <4>2, <3>2
          <5>2. CASE c = [b EXCEPT !.exit = "return"]
            <6>1. c \in Res(p) /\ c.exit = "return" /\ c.out = b.out /\ ViewOf(c) = ViewOf(b)
              BY <5>2, <3>1, ExitChanged
            <6> QED
              BY <6>1, <3>2 DEF Good
          <5> QED
            BY <4>1, <5>1, <5>2 DEF WaitForReplicas
        <4>4. r = AssertLeader(c)
          BY <2>4, <4>1, <4>3 DEF Recover
        <4> QED
          BY <4>3, <4>4, AssertLeaderGood DEF from
      <3>3. CASE b.exit = "QuorumError" /\ b.out = a.out /\ ~Overlap(b)
        <4>1. r = AssertLeader(Recover(b))
          BY <2>4, <3>3 DEF WaitForReplicas
        <4>9. PICK z : FellBack(z, b) /\
              r = AssertLeader(QuorumUpdate(z, Cardinality(z.sync) - z.numsync, z.sync, NoNode, TRUE))
          BY <3>1, <3>3, <4>1, FallsBack
        <4>2. /\ z \in Res(p) /\ z.exit = "running" /\ z.leader = b.leader
              /\ z.voters = b.voters /\ z.numsync = b.numsync /\ z.sync = b.sync
              /\ z.out = b.out /\ ~Overlap(z)
          BY <3>1, <3>3, <4>9, ResFields DEF FellBack
        <4>3. a.exit = "running" /\ Leads(a.out, p, from, ViewOf(a))
          <5>1. CASE a.exit = "QuorumError"
            <6>1. b = a
              BY <5>1, <2>3 DEF ChangeLeader, QuorumUpdate
            <6> QED
              BY <6>1, <2>5, <3>1
          <5> QED
            BY <5>1, <2>5
        <4>4. ViewOf(a) \in View /\ ViewOf(a).numsync = a.numsync /\ ViewOf(a).sync = a.sync
          BY <2>5, ResFields DEF ViewOf
        <4>5. PICK u \in View : u.numsync = z.numsync /\ u.sync = z.sync /\ Leads(z.out, p, from, u)
          BY <4>2, <4>3, <4>4, <3>1, <3>3
        <4>6. PICK y : y = QuorumUpdate(z, Cardinality(z.sync) - z.numsync, z.sync, NoNode, TRUE)
          OBVIOUS
        <4>7. Good(y, p, from)
          BY <4>2, <4>5, <4>6, <3>1, FallBackGood
        <4>8. r = AssertLeader(y)
          BY <4>9, <4>6
        <4> QED
          BY <4>7, <4>8, AssertLeaderGood DEF from
      <3> QED
        BY <2>8, <3>2, <3>3 DEF Installed
    <2> QED
      BY <2>6, <2>7, <2>8 DEF from
  <1> QED
    BY <1>2, <1>3, <1>4

-----------------------------------------------------------------------------
(* Every further step of a generator keeps it so.                          *)

LEMMA GoodFields ==
    ASSUME NEW p \in Nodes, NEW q, NEW from, Good(q, p, from)
    PROVE  /\ q.quorum \in Int /\ q.numsync \in Int /\ q.confirmed \in Int /\ q.wanted \in Int
           /\ q.voters \in SUBSET Nodes
           /\ q.sync \in SUBSET (Nodes \ {p}) /\ q.active \in SUBSET (Nodes \ {p})
           /\ q.sync \in SUBSET Nodes /\ q.active \in SUBSET Nodes
  BY ResFields DEF Good

LEMMA Counted == \A S \in SUBSET Nodes : Cardinality(S) \in Int
  BY FiniteNames

LEMMA Smaller == \A x, y \in Int : Min2(x, y) \in Int /\ Max2(x, y) \in Int
  BY DEF Min2, Max2

LEMMA AdjustConfirmedGood ==
    ASSUME NEW p \in Nodes, NEW q, NEW from, Good(q, p, from)
    PROVE  Good(AdjustConfirmed(q), p, from)
  <1> DEFINE nearby == q.sync \cap q.active
             num == Min2(Cardinality(nearby), Cardinality(q.voters) - q.quorum)
  <1>1. num \in Int
    <2>1. Cardinality(nearby) \in Int /\ Cardinality(q.voters) - q.quorum \in Int
      BY GoodFields, Counted
    <2> QED
      BY <2>1, Smaller
  <1> HIDE DEF num
  <1>2. CASE AdjustConfirmed(q) = q
    BY <1>2
  <1>3. CASE AdjustConfirmed(q) = [q EXCEPT !.confirmed = num]
    <2>1. PICK r : r = [q EXCEPT !.confirmed = num]
      OBVIOUS
    <2>2. q \in Res(p)
      BY DEF Good
    <2>3. r \in Res(p)
      BY <1>1, <2>1, <2>2 DEF Res
    <2>4. r.out = q.out /\ r.exit = q.exit /\ r.leader = q.leader /\ ViewOf(r) = ViewOf(q)
      BY <2>1, <2>2 DEF Res, ViewOf
    <2> QED
      BY <1>3, <2>1, <2>3, <2>4 DEF Good, Raised
  <1> QED
    BY <1>2, <1>3 DEF AdjustConfirmed, num

LEMMA EvictGood ==
    ASSUME NEW p \in Nodes, NEW q, NEW from, Good(q, p, from)
    PROVE  Good(EvictDeadVoters(q), p, from)
  <1> DEFINE remove == q.voters \ (q.sync \cup q.active)
  <1>1. q.voters \ remove \in SUBSET Nodes /\ remove \in SUBSET Nodes
    BY GoodFields
  <1>2. Cardinality(q.voters) - Cardinality(remove) - q.numsync \in Int
    BY <1>1, GoodFields, Counted
  <1> QED
    BY <1>1, <1>2, QuorumUpdateGood DEF EvictDeadVoters

LEMMA SyncToLivingGood ==
    ASSUME NEW p \in Nodes, NEW q, NEW from, Good(q, p, from)
    PROVE  Good(SyncToLivingVoters(q), p, from)
  <1> DEFINE add == (q.voters \cap q.active) \ q.sync
  <1>1. q.sync \cup add \in SUBSET (Nodes \ {p}) /\ q.numsync \in Int
    BY GoodFields
  <1> QED
    BY <1>1, SyncUpdateGood DEF SyncToLivingVoters

LEMMA KeepGood ==
    ASSUME NEW p \in Nodes, NEW q, NEW from, Good(q, p, from),
           NEW keep \in SUBSET (Nodes \ {p})
    PROVE  Good(KeepInSync(q, keep), p, from)
  <1>1. Min2(q.numsync, Cardinality(keep)) \in Int
    BY GoodFields, Counted, Smaller
  <1> QED
    BY <1>1, SyncUpdateGood DEF KeepInSync

LEMMA DropDeadGood ==
    ASSUME NEW p \in Nodes, NEW q, NEW from, Good(q, p, from)
    PROVE  Good(DropDeadFromSync(q), p, from)
  <1>1. q.sync \cap q.active \in SUBSET (Nodes \ {p})
    BY GoodFields
  <1> QED
    BY <1>1, KeepGood DEF DropDeadFromSync

LEMMA SyncedVoteGood ==
    ASSUME NEW p \in Nodes, NEW q, NEW from, Good(q, p, from)
    PROVE  Good(LetSyncedVote(q), p, from)
  <1> DEFINE all == q.voters \cup (q.sync \cap q.active)
  <1>1. all \in SUBSET Nodes
    BY GoodFields
  <1>2. Cardinality(all) - q.numsync \in Int
    BY <1>1, GoodFields, Counted
  <1> QED
    BY <1>1, <1>2, QuorumUpdateGood DEF LetSyncedVote

LEMMA DropNonVotersGood ==
    ASSUME NEW p \in Nodes, NEW q, NEW from, Good(q, p, from)
    PROVE  Good(DropNonVoters(q), p, from)
  <1>1. q.sync \cap q.voters \in SUBSET (Nodes \ {p})
    BY GoodFields
  <1> QED
    BY <1>1, KeepGood DEF DropNonVoters

LEMMA SafetyMarginGood ==
    ASSUME NEW p \in Nodes, NEW q, NEW from, Good(q, p, from)
    PROVE  Good(SafetyMargin(q), p, from)
  <1>1. Good(LowerQuorum(q), p, from)
    <2>1. Cardinality(q.sync) - q.numsync \in Int /\ q.voters \in SUBSET Nodes
      BY GoodFields, Counted
    <2> QED
      BY <2>1, QuorumUpdateGood DEF LowerQuorum
  <1>2. Good(SyncUpdate(q, Max2(q.wanted, Cardinality(q.voters) - q.quorum), q.sync), p, from)
    <2>1. Cardinality(q.voters) - q.quorum \in Int /\ q.wanted \in Int /\ q.sync \in SUBSET (Nodes \ {p})
      BY GoodFields, Counted
    <2>2. Max2(q.wanted, Cardinality(q.voters) - q.quorum) \in Int
      BY <2>1, Smaller
    <2> QED
      BY <2>1, <2>2, SyncUpdateGood
  <1> DEFINE nodes == Cardinality(q.voters \cup q.sync)
             certain == q.quorum + Min2(q.numsync, q.confirmed) - nodes
             nominal == q.quorum + q.numsync - nodes
  <1>3. \/ SafetyMargin(q) = q
        \/ SafetyMargin(q) = LowerQuorum(q)
        \/ SafetyMargin(q) = SyncUpdate(q, Max2(q.wanted, Cardinality(q.voters) - q.quorum), q.sync)
    <2>1. nodes \in Int /\ q.quorum \in Int /\ q.numsync \in Int /\ q.wanted \in Int
      BY GoodFields, Counted
    <2>2. certain \in Int
      <3>1. Min2(q.numsync, q.confirmed) \in Int
        BY GoodFields, Smaller
      <3> HIDE DEF nodes
      <3> QED
        BY <2>1, <3>1
    <2> HIDE DEF certain, nominal
    <2>3. CASE certain > 0
      BY <2>1, <2>2, <2>3 DEF SafetyMargin, certain
    <2>4. CASE ~(certain > 0)
      <3>1. CASE nominal > 0 /\ q.numsync = q.wanted /\ q.numsync > q.confirmed
        BY <2>1, <2>2, <2>4, <3>1 DEF SafetyMargin, certain, nominal
      <3>2. CASE ~(nominal > 0 /\ q.numsync = q.wanted /\ q.numsync > q.confirmed)
        BY <2>1, <2>2, <2>4, <3>2 DEF SafetyMargin, certain, nominal
      <3> QED
        BY <3>1, <3>2
    <2> QED
      BY <2>3, <2>4
  <1> QED
    BY <1>1, <1>2, <1>3

LEMMA NonSteadyGood ==
    ASSUME NEW p \in Nodes, NEW q, NEW from, Good(q, p, from)
    PROVE  Good(HandleNonSteadyCases(q), p, from)
  <1>1. Good(SyncToLivingVoters(EvictDeadVoters(q)), p, from)
    BY EvictGood, SyncToLivingGood
  <1>2. Good(DropNonVoters(LetSyncedVote(DropDeadFromSync(q))), p, from)
    BY DropDeadGood, SyncedVoteGood, DropNonVotersGood
  <1>3. PICK r : /\ Good(r, p, from)
                 /\ HandleNonSteadyCases(q) = SafetyMargin(AssertVotersSynced(r))
    BY <1>1, <1>2 DEF HandleNonSteadyCases
  <1>4. Good(AssertVotersSynced(r), p, from)
    <2>1. PICK cond : cond = (r.voters = r.sync)
      OBVIOUS
    <2>2. AssertVotersSynced(r) = AssertThat(r, cond)
      BY <2>1 DEF AssertVotersSynced
    <2> QED
      BY <1>3, <2>2, AssertGood
  <1> QED
    BY <1>3, <1>4, SafetyMarginGood

LEMMA RemoveAllGood ==
    ASSUME NEW p \in Nodes, NEW q, NEW from, Good(q, p, from)
    PROVE  Good(RemoveAllNodes(q), p, from)
  <1>1. PICK r : r = QuorumUpdate(q, 0, {}, NoNode, FALSE)
    OBVIOUS
  <1>2. Good(r, p, from)
    <2>1. 0 \in Int /\ {} \in SUBSET Nodes /\ FALSE \in BOOLEAN
      OBVIOUS
    <2> QED
      BY <1>1, <2>1, QuorumUpdateGood
  <1>3. Good(SyncUpdate(r, 0, {}), p, from)
    BY <1>2, SyncUpdateGood
  <1> QED
    BY <1>1, <1>3 DEF RemoveAllNodes

LEMMA RemoveWithinGood ==
    ASSUME NEW p \in Nodes, NEW q, NEW from, Good(q, p, from)
    PROVE  Good(RemoveWithinQuorum(q), p, from)
  <1> DEFINE remove == Highest(q.sync \ q.active, q.quorum)
             fewer == q.sync \ remove
             num == Min2(Max2(q.wanted, q.numsync), Cardinality(fewer))
  <1>1. fewer \in SUBSET (Nodes \ {p}) /\ fewer \in SUBSET Nodes
    BY GoodFields
  <1>2. num \in Int
    <2>1. Cardinality(fewer) \in Int
      BY <1>1, Counted
    <2>2. Max2(q.wanted, q.numsync) \in Int
      BY GoodFields, Smaller
    <2> HIDE DEF fewer
    <2> QED
      BY <2>1, <2>2, Smaller
  <1>3. PICK r : r = SyncUpdate(q, num, fewer)
    OBVIOUS
  <1> HIDE DEF num, fewer, remove
  <1>4. Good(r, p, from)
    BY <1>1, <1>2, <1>3, SyncUpdateGood
  <1>5. r.voters \ remove \in SUBSET Nodes /\ r.numsync \in Int
    BY <1>4, GoodFields
  <1>6. Cardinality(r.voters \ remove) - r.numsync \in Int
    BY <1>5, Counted
  <1>7. PICK adjust \in BOOLEAN : adjust = (r.sync \subseteq r.active)
    OBVIOUS
  <1>8. RemoveFromVoters(r, remove) = QuorumUpdate(r, Cardinality(r.voters \ remove) - r.numsync, r.voters \ remove, NoNode, adjust)
    BY <1>7 DEF RemoveFromVoters
  <1>9. Good(RemoveFromVoters(r, remove), p, from)
    BY <1>4, <1>5, <1>6, <1>8, QuorumUpdateGood
  <1> QED
    BY <1>3, <1>9 DEF RemoveWithinQuorum, num, fewer, remove

LEMMA RemoveRestGood ==
    ASSUME NEW p \in Nodes, NEW q, NEW from, Good(q, p, from)
    PROVE  Good(RemoveTheRest(q), p, from)
  <1> DEFINE rest == q.sync \ q.active
             numsync == q.numsync - Cardinality(rest)
             voters == q.voters \ rest
             decrease == numsync - Min2(q.wanted, Cardinality(q.sync \ rest))
             quorum == IF decrease # 0 THEN Min2(decrease, Cardinality(voters) - 1) ELSE 0
  <1>1. rest \in SUBSET Nodes /\ voters \in SUBSET Nodes /\ q.sync \ rest \in SUBSET (Nodes \ {p}) /\ q.sync \ rest \in SUBSET Nodes
    BY GoodFields
  <1>2. Cardinality(rest) \in Int /\ Cardinality(voters) \in Int /\ Cardinality(q.sync \ rest) \in Int
    BY <1>1, Counted
  <1> HIDE DEF rest, voters
  <1>3. numsync \in Int
    BY <1>2, GoodFields
  <1>4. Min2(q.wanted, Cardinality(q.sync \ rest)) \in Int
    BY <1>2, GoodFields, Smaller
  <1>5. decrease \in Int
    <2> HIDE DEF numsync
    <2> QED
      BY <1>3, <1>4
  <1> HIDE DEF decrease, numsync
  <1>6. quorum \in Int
    <2>1. Cardinality(voters) - 1 \in Int
      BY <1>2
    <2> QED
      BY <2>1, <1>5, Smaller
  <1> HIDE DEF quorum
  <1>7. PICK a : a = AssertThat(q, q.quorum = 0)
    OBVIOUS
  <1>8. Good(a, p, from)
    <2>1. PICK cond : cond = (q.quorum = 0)
      OBVIOUS
    <2>2. a = AssertThat(q, cond)
      BY <1>7, <2>1
    <2> QED
      BY <2>2, AssertGood
  <1>9. PICK b : b = QuorumUpdate(a, quorum, voters, NoNode, FALSE)
    OBVIOUS
  <1>10. Good(b, p, from)
    BY <1>1, <1>6, <1>8, <1>9, QuorumUpdateGood
  <1>11. Good(SyncUpdate(b, numsync, q.sync \ rest), p, from)
    BY <1>1, <1>3, <1>10, SyncUpdateGood
  <1> QED
    BY <1>7, <1>9, <1>11 DEF RemoveTheRest, rest, voters, numsync, decrease, quorum

LEMMA RemoveGoneGood ==
    ASSUME NEW p \in Nodes, NEW q, NEW from, Good(q, p, from)
    PROVE  Good(RemoveGoneNodes(q), p, from)
  <1>1. PICK r : Good(r, p, from) /\ r = IF q.quorum = 0 THEN q ELSE RemoveWithinQuorum(q)
    BY RemoveWithinGood
  <1>2. Good(RemoveTheRest(r), p, from)
    BY <1>1, RemoveRestGood
  <1>3. \/ RemoveGoneNodes(q) = q
        \/ RemoveGoneNodes(q) = RemoveAllNodes(q)
        \/ RemoveGoneNodes(q) = RemoveTheRest(r)
    BY <1>1 DEF RemoveGoneNodes
  <1> QED
    BY <1>2, <1>3, RemoveAllGood

LEMMA FactorInt ==
    ASSUME NEW p \in Nodes, NEW q, NEW from, Good(q, p, from)
    PROVE  Factor(q) \in Int
  <1>1. q.sync \cup q.active \in SUBSET Nodes /\ q.wanted \in Int
    BY GoodFields
  <1> QED
    BY <1>1, Counted, Smaller DEF Factor

LEMMA LetNewVoteGood ==
    ASSUME NEW p \in Nodes, NEW q, NEW from, Good(q, p, from),
           NEW add \in SUBSET Nodes, NEW adjust \in BOOLEAN
    PROVE  Good(LetNewVote(q, add, adjust), p, from)
  <1> DEFINE voters == q.voters \cup add
  <1>1. voters \in SUBSET Nodes
    BY GoodFields
  <1>2. Cardinality(voters) - Factor(q) \in Int
    BY <1>1, Counted, FactorInt
  <1> QED
    BY <1>1, <1>2, QuorumUpdateGood DEF LetNewVote

LEMMA AddUpToGood ==
    ASSUME NEW p \in Nodes, NEW q, NEW from, Good(q, p, from)
    PROVE  Good(AddUpToFactor(q), p, from)
  <1> DEFINE new == q.active \ q.sync
             increase == Factor(q) - q.numsync
             add == IF q.sync # {} THEN Lowest(new, increase) ELSE new
             by == IF q.sync # {} THEN Cardinality(add) ELSE increase
  <1>1. add \in SUBSET Nodes /\ q.sync \cup add \in SUBSET (Nodes \ {p})
    BY GoodFields DEF Lowest
  <1> HIDE DEF add
  <1>2. increase \in Int
    BY FactorInt, GoodFields
  <1>3. by \in Int
    <2> HIDE DEF increase
    <2> QED
      BY <1>1, <1>2, Counted
  <1> HIDE DEF by
  <1>4. q.numsync + by \in Int
    BY <1>3, GoodFields
  <1>5. PICK r : r = SyncUpdate(q, q.numsync + by, q.sync \cup add)
    OBVIOUS
  <1>6. Good(r, p, from)
    BY <1>1, <1>4, <1>5, SyncUpdateGood
  <1>7. Good(LetNewVote(r, add, TRUE), p, from)
    BY <1>1, <1>6, LetNewVoteGood
  <1> QED
    BY <1>5, <1>7 DEF AddUpToFactor, add, by, increase

LEMMA AddRestGood ==
    ASSUME NEW p \in Nodes, NEW q, NEW from, Good(q, p, from)
    PROVE  Good(AddTheRest(q), p, from)
  <1>1. PICK add \in SUBSET Nodes : add = q.active \ q.sync
    BY GoodFields
  <1>2. PICK adjust \in BOOLEAN : adjust = (Factor(q) > q.confirmed)
    <2>1. (Factor(q) > q.confirmed) \in BOOLEAN
      OBVIOUS
    <2> QED
      BY <2>1, Zenon
  <1>3. PICK r : r = LetNewVote(q, add, adjust)
    OBVIOUS
  <1>4. Good(r, p, from)
    BY <1>3, LetNewVoteGood
  <1>5. q.sync \cup q.active \in SUBSET (Nodes \ {p}) /\ Factor(q) \in Int
    BY GoodFields, FactorInt
  <1>6. Good(SyncUpdate(r, Factor(q), q.sync \cup q.active), p, from)
    BY <1>4, <1>5, SyncUpdateGood
  <1> QED
    BY <1>1, <1>2, <1>3, <1>6 DEF AddTheRest

LEMMA AddNewGood ==
    ASSUME NEW p \in Nodes, NEW q, NEW from, Good(q, p, from)
    PROVE  Good(AddNewNodes(q), p, from)
  <1>1. PICK r : Good(r, p, from) /\ r = IF Factor(q) > q.numsync THEN AddUpToFactor(q) ELSE q
    BY AddUpToGood
  <1>2. Good(AddTheRest(r), p, from)
    BY <1>1, AddRestGood
  <1> QED
    BY <1>1, <1>2 DEF AddNewNodes

LEMMA ReduceGood ==
    ASSUME NEW p \in Nodes, NEW q, NEW from, Good(q, p, from), NEW by \in Int
    PROVE  Good(ReduceQuorum(q, by), p, from)
  <1>1. Cardinality(q.voters) - q.numsync + by \in Int /\ q.voters \in SUBSET Nodes
    BY GoodFields, Counted
  <1>2. PICK adjust \in BOOLEAN : adjust = (q.wanted > q.confirmed)
    <2>1. (q.wanted > q.confirmed) \in BOOLEAN
      OBVIOUS
    <2> QED
      BY <2>1, Zenon
  <1>3. Good(QuorumUpdate(q, Cardinality(q.voters) - q.numsync + by, q.voters, NoNode, adjust), p, from)
    BY <1>1, QuorumUpdateGood
  <1> QED
    BY <1>2, <1>3 DEF ReduceQuorum

LEMMA FactorChangeGood ==
    ASSUME NEW p \in Nodes, NEW q, NEW from, Good(q, p, from)
    PROVE  Good(HandleReplicationFactorChange(q), p, from)
  <1> DEFINE target == Min2(q.wanted, Cardinality(q.sync))
  <1>1. target \in Int /\ q.numsync - target \in Int /\ q.numsync \in Int /\ q.sync \in SUBSET (Nodes \ {p})
    <2>1. q.wanted \in Int /\ Cardinality(q.sync) \in Int /\ q.numsync \in Int /\ q.sync \in SUBSET (Nodes \ {p})
      BY GoodFields, Counted
    <2>2. target \in Int
      BY <2>1, Smaller
    <2> HIDE DEF target
    <2> QED
      BY <2>1, <2>2
  <1> HIDE DEF target
  <1>2. PICK a : a = SyncUpdate(q, target, q.sync)
    OBVIOUS
  <1>3. Good(a, p, from)
    BY <1>1, <1>2, SyncUpdateGood
  <1>4. Good(MatchQuorum(a), p, from)
    <2>1. Cardinality(a.voters) - a.numsync \in Int /\ a.voters \in SUBSET Nodes
      BY <1>3, GoodFields, Counted
    <2> QED
      BY <1>3, <2>1, QuorumUpdateGood DEF MatchQuorum
  <1>5. PICK b : b = ReduceQuorum(q, q.numsync - target)
    OBVIOUS
  <1>6. Good(b, p, from)
    BY <1>1, <1>5, ReduceGood
  <1>7. Good(SyncUpdate(b, target, q.sync), p, from)
    BY <1>1, <1>6, SyncUpdateGood
  <1>8. CASE target = q.numsync
    BY <1>1, <1>8 DEF HandleReplicationFactorChange, target
  <1>9. CASE target > q.numsync
    BY <1>1, <1>2, <1>4, <1>9 DEF HandleReplicationFactorChange, target
  <1>10. CASE target < q.numsync
    BY <1>1, <1>5, <1>7, <1>10 DEF HandleReplicationFactorChange, target
  <1> QED
    BY <1>1, <1>8, <1>9, <1>10

(* What a generator yields leads through safe views to what it ends with.  *)
LEMMA GenerateGood ==
    ASSUME NEW p \in Nodes, NEW q \in Res(p), q.exit = "running", q.out = << >>
    PROVE  Good(Generate(q), p, ViewOf(q))
  <1>1. PICK r : r = AssertLeader(Recover(TryLeader(q)))
    OBVIOUS
  <1>2. Good(r, p, ViewOf(q))
    BY <1>1, StartGood
  <1>3. Generate(q) = HandleReplicationFactorChange(AddNewNodes(RemoveGoneNodes(
                          HandleNonSteadyCases(AdjustConfirmed(r)))))
    BY <1>1 DEF Generate
  <1> QED
    BY <1>2, <1>3, AdjustConfirmedGood, NonSteadyGood, RemoveGoneGood, AddNewGood, FactorChangeGood

-----------------------------------------------------------------------------
(* The configuration.                                                      *)

(* QuorumsMeet of any configuration, to speak of the next one too.         *)
MeetIn(p, key, names) ==
    p # NoNode =>
        \A B \in SUBSET names.names :
            Cardinality(B) >= names.num =>
                \A E \in SUBSET (IF key.leader = NoNode THEN {} ELSE {key.leader} \cup key.voters) :
                    Cardinality(E) > key.quorum => (B \cup {p}) \cap E # {}

LEMMA MeetNow == QuorumsMeet <=> MeetIn(primary, sync, ssn)
  BY DEF QuorumsMeet, MeetIn, Acknowledgers, Electors, Members

LEMMA MeetNext == QuorumsMeet' <=> MeetIn(primary', sync', ssn')
  BY DEF QuorumsMeet, MeetIn, Acknowledgers, Electors, Members

LEMMA ChainTail ==
    ASSUME NEW out, NEW R, NEW p, Chain(out, R, p), out # << >>
    PROVE  \E Q : Chain(Tail(out), Q, p) /\ Q[0] = R[1]
  <1> DEFINE L == Len(out)
             Q == [i \in 0..(L - 1) |-> R[i + 1]]
             o == Tail(out)
  <1>1. out \in Seq(Trans) /\ R \in [0..L -> View] /\ L \in Nat /\ L > 0
    BY DEF Chain
  <1>2. o \in Seq(Trans) /\ Len(o) = L - 1 /\ \A i \in 1..(L - 1) : o[i] = out[i + 1]
    BY <1>1
  <1>3. Q \in [0..(L - 1) -> View] /\ \A i \in 0..(L - 1) : Q[i] = R[i + 1]
    BY <1>1
  <1>4. ASSUME NEW i \in 1..(L - 1)
        PROVE  Follows(Q[i - 1], o[i], Q[i]) /\ (o[i].type # "restart" => Safe(Q[i], p))
    <2>1. i - 1 \in 0..(L - 1) /\ i \in 0..(L - 1) /\ i + 1 \in 1..L /\ (i + 1) - 1 = i
      BY <1>1
    <2>2. Q[i - 1] = R[i] /\ Q[i] = R[i + 1] /\ o[i] = out[i + 1]
      BY <1>1, <1>2, <1>3, <2>1
    <2>3. Follows(R[i], out[i + 1], R[i + 1]) /\ (out[i + 1].type # "restart" => Safe(R[i + 1], p))
      BY <2>1 DEF Chain
    <2> QED
      BY <2>2, <2>3
  <1>5. Q[0] = R[1]
    BY <1>1, <1>3
  <1> HIDE DEF Q, o
  <1>6. Chain(o, Q, p)
    BY <1>1, <1>2, <1>3, <1>4 DEF Chain
  <1> QED
    BY <1>5, <1>6 DEF o

(* A list of transitions that starts from the configuration.               *)
Led(out, p, key, names) == \E R : Chain(out, R, p) /\ Tracks(key, names, R[0])

ConfigTyped ==
    /\ primary \in Nodes \cup {NoNode}
    /\ sync = [leader |-> sync.leader, quorum |-> sync.quorum, voters |-> sync.voters]
    /\ sync.leader \in Nodes \cup {NoNode} /\ sync.quorum \in Nat /\ sync.voters \in SUBSET Nodes
    /\ ssn.num \in Int /\ ssn.names \in SUBSET Nodes
    /\ primary \notin ssn.names
    /\ wanted \in Counts

(* Whatever is left of a cycle leads on from the configuration through     *)
(* safe views of it.                                                       *)
ConfigInv ==
    /\ ConfigTyped
    /\ QuorumsMeet
    /\ pending # << >> =>
          primary # NoNode /\ sync.leader # NoNode /\ Led(pending, primary, sync, ssn)

LEMMA ConfigInitially == ConfigInit => ConfigInv
  <1> SUFFICES ASSUME ConfigInit PROVE ConfigInv
    OBVIOUS
  <1>1. ConfigTyped
    BY ConfigAssumption DEF ConfigInit, ConfigTyped, EmptySync, EmptySsn, Nodes, NoNode
  <1>2. Members = {}
    BY DEF ConfigInit, EmptySync, Members
  <1>3. Electors = {}
    <2>1. ASSUME NEW E \in Electors PROVE FALSE
      BY <1>2, <2>1, FS_EmptySet DEF Electors, ConfigInit, EmptySync
    <2> QED
      BY <2>1
  <1> QED
    BY <1>1, <1>3 DEF ConfigInv, QuorumsMeet, ConfigInit

(* A cycle computes transitions that start from what is there.             *)
LEMMA CycleLeads ==
    ASSUME ConfigTyped, primary # NoNode, sync.leader # NoNode,
           NEW active \in SUBSET (Nodes \ {primary}), NEW confirmed \in SUBSET active,
           NEW out, out = Transitions(CycleResolver(active, confirmed)), out # << >>
    PROVE  Led(out, primary, sync, ssn)
  <1>1. PICK q : q = CycleResolver(active, confirmed)
    OBVIOUS
  <1> DEFINE num == Min2(ssn.num, Cardinality(ssn.names))
  <1>2. /\ primary \in Nodes /\ sync.leader \in Nodes /\ sync.quorum \in Nat /\ sync.voters \in SUBSET Nodes
        /\ ssn.num \in Int /\ ssn.names \in SUBSET Nodes /\ ssn.names \in SUBSET (Nodes \ {primary})
        /\ wanted \in Int /\ confirmed \in SUBSET Nodes
        /\ sync = [leader |-> sync.leader, quorum |-> sync.quorum, voters |-> sync.voters]
    BY ConfigAssumption DEF ConfigTyped
  <1>3. Cardinality(confirmed) \in Int /\ Cardinality(ssn.names) \in Int
    BY <1>2, Counted
  <1>4. num \in Int /\ num <= ssn.num
    BY <1>2, <1>3 DEF Min2
  <1> HIDE DEF num
  <1>5. q = [leader |-> sync.leader, quorum |-> sync.quorum, voters |-> sync.voters,
             numsync |-> num, sync |-> ssn.names,
             confirmed |-> Cardinality(confirmed), active |-> active, wanted |-> wanted,
             leader_wanted |-> primary, out |-> << >>, exit |-> "running"]
    BY <1>1 DEF CycleResolver, Resolver, num
  <1>6. << >> \in Seq(Trans)
    OBVIOUS
  <1>7. q \in Res(primary)
    BY <1>2, <1>3, <1>4, <1>5, <1>6 DEF Res
  <1>8. q.exit = "running" /\ q.out = << >>
    BY <1>5
  <1>9. ViewOf(q) = [leader |-> sync.leader, quorum |-> sync.quorum, voters |-> sync.voters,
                     numsync |-> num, sync |-> ssn.names]
    BY <1>5 DEF ViewOf
  <1>10. Tracks(sync, ssn, ViewOf(q))
    BY <1>2, <1>4, <1>9 DEF Tracks
  <1>11. Good(Generate(q), primary, ViewOf(q))
    BY <1>2, <1>7, <1>8, GenerateGood
  <1>12. PICK e : e = Generate(q)
    OBVIOUS
  <1>13. ~Raised(e) /\ out = e.out
    BY <1>1, <1>12 DEF Transitions
  <1>14. PICK R : Chain(out, R, primary) /\ R[0] = ViewOf(q)
    BY <1>11, <1>12, <1>13 DEF Good, Leads
  <1> QED
    BY <1>10, <1>14 DEF Led

(* Carrying out the first of them leaves a safe view.                      *)
LEMMA FirstStep ==
    ASSUME NEW out, out # << >>, NEW p, NEW key, NEW names, Led(out, p, key, names)
    PROVE  \E u, v \in View :
              /\ Tracks(key, names, u) /\ out[1] \in Trans /\ Follows(u, out[1], v)
              /\ out[1].type # "restart" => Safe(v, p)
              /\ \A k, s : Tracks(k, s, v) => Led(Tail(out), p, k, s)
  <1>1. PICK R : Chain(out, R, p) /\ Tracks(key, names, R[0])
    BY DEF Led
  <1>2. out \in Seq(Trans) /\ R \in [0..Len(out) -> View] /\ Len(out) \in Nat /\ Len(out) > 0
    BY <1>1 DEF Chain
  <1>3. R[0] \in View /\ R[1] \in View /\ 1 \in 1..Len(out) /\ out[1] \in Trans
    BY <1>2
  <1>4. Follows(R[0], out[1], R[1]) /\ (out[1].type # "restart" => Safe(R[1], p))
    BY <1>1, <1>3 DEF Chain
  <1>5. PICK Q : Chain(Tail(out), Q, p) /\ Q[0] = R[1]
    BY <1>1, ChainTail
  <1>6. \A k, s : Tracks(k, s, R[1]) => Led(Tail(out), p, k, s)
    BY <1>5 DEF Led
  <1> QED
    BY <1>1, <1>3, <1>4, <1>6

LEMMA SafeMeetsIn ==
    ASSUME NEW p \in Nodes, NEW key, NEW names, NEW v \in View, Tracks(key, names, v), Safe(v, p),
           names.num \in Int, p \notin names.names, names.names \in SUBSET Nodes
    PROVE  MeetIn(p, key, names)
  <1> SUFFICES ASSUME NEW B \in SUBSET names.names, Cardinality(B) >= names.num,
                      NEW E \in SUBSET ({key.leader} \cup key.voters), Cardinality(E) > key.quorum
               PROVE  (B \cup {p}) \cap E # {}
    <2>1. key.leader # NoNode
      BY FiniteNames DEF Tracks, View
    <2> QED
      BY <2>1 DEF MeetIn
  <1> DEFINE A == B \cup {p}
             U == Together(v, p)
  <1>1. /\ v.quorum \in Nat /\ v.leader \in Nodes /\ v.voters \in SUBSET Nodes
        /\ v.sync \in SUBSET Nodes /\ v.numsync \in Int
        /\ key.quorum = v.quorum /\ key.leader = v.leader /\ key.voters = v.voters
    BY DEF Tracks, View
  <1>2. E \in SUBSET Nodes /\ B \in SUBSET Nodes /\ A \in SUBSET Nodes /\ p \in A /\ p \notin B
    BY <1>1
  <1>3. Cardinality(E) \in Nat /\ Cardinality(B) \in Nat /\ IsFiniteSet(B)
    BY <1>2, FiniteNames
  <1>4. Cardinality(A) = Cardinality(B) + 1
    BY <1>2, <1>3, FS_AddElement
  <1>5. CASE v.voters = {} /\ v.leader = p
    <2>1. E \subseteq {p} /\ E # {}
      BY <1>1, <1>3, <1>5, FS_EmptySet
    <2> QED
      BY <2>1
  <1>6. CASE Cardinality(U) <= v.quorum + v.numsync + 1
    <2>1. U \in SUBSET Nodes /\ E \subseteq U /\ p \in U
      BY <1>1 DEF Together
    <2>2. IsFiniteSet(U) /\ Cardinality(U) \in Nat
      BY <2>1, FiniteNames
    <2>3. CASE v.numsync <= 0
      <3>1. {p} \subseteq U /\ Cardinality({p}) = 1
        BY <2>1, FS_Singleton
      <3>2. Cardinality(E) + Cardinality({p}) > Cardinality(U)
        <4> HIDE DEF U
        <4> QED
          BY <3>1, <2>2, <2>3, <1>1, <1>3, <1>6
      <3>3. E \cap {p} # {}
        BY <3>1, <3>2, <2>1, <2>2, FS_MajoritiesIntersect
      <3> QED
        BY <3>3
    <2>4. CASE ~(v.numsync <= 0)
      <3>1. names.names = v.sync /\ names.num >= v.numsync
        BY <2>4 DEF Tracks
      <3>2. A \subseteq U
        BY <3>1 DEF Together
      <3>3. Cardinality(E) + Cardinality(A) > Cardinality(U)
        <4> HIDE DEF U, A
        <4> QED
          BY <3>1, <2>2, <1>1, <1>3, <1>4, <1>6
      <3> QED
        BY <3>2, <3>3, <2>1, <2>2, FS_MajoritiesIntersect
    <2> QED
      BY <2>3, <2>4
  <1> QED
    BY <1>5, <1>6 DEF Safe

-----------------------------------------------------------------------------
LEMMA EnableSyncKeeps ==
    ASSUME ConfigInv, EnableSync
    PROVE  ConfigInv'
  <1>1. /\ primary \in Nodes /\ primary' = primary /\ ssn' = ssn /\ wanted' = wanted
        /\ pending' = pending /\ pending = << >>
        /\ sync' = [leader |-> primary, quorum |-> 0, voters |-> {}]
    BY DEF ConfigInv, ConfigTyped, EnableSync, EmptySync
  <1>2. ConfigTyped'
    BY <1>1 DEF ConfigInv, ConfigTyped
  <1>3. MeetIn(primary', sync', ssn')
    <2> SUFFICES ASSUME NEW B \in SUBSET ssn.names, NEW E \in SUBSET {primary}, Cardinality(E) > 0
                 PROVE  (B \cup {primary}) \cap E # {}
      BY <1>1 DEF MeetIn
    <2> QED
      BY FS_EmptySet
  <1> QED
    BY <1>1, <1>2, <1>3, MeetNext DEF ConfigInv

LEMMA ComputeKeeps ==
    ASSUME ConfigInv, NEW active \in SUBSET (Nodes \ {primary}), NEW confirmed \in SUBSET active,
           ComputeTransitions(active, confirmed)
    PROVE  ConfigInv'
  <1>1. /\ primary # NoNode /\ sync.leader # NoNode
        /\ pending' = Transitions(CycleResolver(active, confirmed))
        /\ primary' = primary /\ sync' = sync /\ ssn' = ssn /\ wanted' = wanted
    BY DEF ComputeTransitions
  <1>2. pending' # << >> => Led(pending', primary, sync, ssn)
    BY <1>1, CycleLeads DEF ConfigInv
  <1>3. ConfigTyped'
    BY <1>1 DEF ConfigInv, ConfigTyped
  <1>4. QuorumsMeet'
    BY <1>1, MeetNow, MeetNext DEF ConfigInv
  <1> QED
    BY <1>1, <1>2, <1>3, <1>4 DEF ConfigInv

LEMMA WriteKeeps ==
    ASSUME ConfigInv, WriteSyncKey
    PROVE  ConfigInv'
  <1> DEFINE t == pending[1]
  <1>1. /\ primary \in Nodes /\ pending # << >> /\ t.type = "quorum"
        /\ sync' = [leader |-> t.leader, quorum |-> t.num, voters |-> t.names]
        /\ pending' = Tail(pending) /\ primary' = primary /\ ssn' = ssn /\ wanted' = wanted
    BY DEF ConfigInv, ConfigTyped, WriteSyncKey
  <1>2. PICK u, v \in View :
              /\ Tracks(sync, ssn, u) /\ t \in Trans /\ Follows(u, t, v)
              /\ Safe(v, primary)
              /\ \A k, s : Tracks(k, s, v) => Led(Tail(pending), primary, k, s)
    BY <1>1, FirstStep DEF ConfigInv
  <1>3. v = [leader |-> t.leader, quorum |-> t.num, voters |-> t.names,
             numsync |-> u.numsync, sync |-> u.sync]
    BY <1>1, <1>2 DEF Follows
  <1>4. Tracks(sync', ssn, v)
    BY <1>1, <1>2, <1>3 DEF Tracks
  <1>5. t.leader \in Nodes /\ t.num \in Nat /\ t.names \in SUBSET Nodes
    BY <1>2 DEF Trans
  <1>6. ssn.num \in Int /\ primary \notin ssn.names /\ ssn.names \in SUBSET Nodes
    BY DEF ConfigInv, ConfigTyped
  <1>7. MeetIn(primary, sync', ssn)
    BY <1>1, <1>2, <1>4, <1>6, SafeMeetsIn
  <1>8. QuorumsMeet'
    BY <1>1, <1>7, MeetNext
  <1>9. ConfigTyped'
    BY <1>1, <1>5 DEF ConfigInv, ConfigTyped
  <1>10. primary' # NoNode /\ sync'.leader # NoNode /\ Led(pending', primary', sync', ssn')
    BY <1>1, <1>2, <1>4, <1>5, FiniteNames
  <1> QED
    BY <1>8, <1>9, <1>10 DEF ConfigInv

LEMMA SetNamesKeeps ==
    ASSUME ConfigInv, SetStandbyNames
    PROVE  ConfigInv'
  <1> DEFINE t == pending[1]
             num == Max2(t.num, MinSync)
  <1>1. /\ primary \in Nodes /\ pending # << >> /\ t.type = "sync" /\ sync.leader # NoNode
        /\ ssn' \in StandbyNames(num, t.names, {ssn})
        /\ pending' = Tail(pending) /\ primary' = primary /\ sync' = sync /\ wanted' = wanted
    BY DEF ConfigInv, ConfigTyped, SetStandbyNames
  <1>2. PICK u, v \in View :
              /\ Tracks(sync, ssn, u) /\ t \in Trans /\ Follows(u, t, v)
              /\ Safe(v, primary)
              /\ \A k, s : Tracks(k, s, v) => Led(Tail(pending), primary, k, s)
    BY <1>1, FirstStep DEF ConfigInv
  <1>3. v = [leader |-> u.leader, quorum |-> u.quorum, voters |-> u.voters,
             numsync |-> t.num, sync |-> t.names]
    BY <1>1, <1>2 DEF Follows
  <1>4. t.num \in Nat /\ t.names \in SUBSET Nodes /\ primary \notin t.names
    BY <1>2, <1>3 DEF Trans, Safe
  <1>5. num \in Int /\ num >= t.num /\ (num < 1 => t.num <= 0)
    BY <1>4, ConfigAssumption DEF Max2
  <1> HIDE DEF num, t
  <1>6. /\ ssn'.num \in Int /\ ssn'.names \in SUBSET Nodes /\ primary \notin ssn'.names
        /\ Tracks(sync, ssn', v)
    <2>1. CASE Accepted(num, t.names)
      <3>1. ssn' = [num |-> num, names |-> t.names, star |-> t.names = {} /\ num >= 1]
        BY <1>1, <2>1 DEF StandbyNames
      <3>2. ssn'.num = num /\ ssn'.names = t.names
        BY <3>1
      <3>3. Tracks(sync, ssn', v)
        BY <1>2, <1>3, <1>5, <3>2 DEF Tracks
      <3> QED
        BY <1>4, <1>5, <3>2, <3>3
    <2>2. CASE ~Accepted(num, t.names)
      <3>1. ssn' = ssn /\ t.num <= 0
        BY <1>1, <1>5, <2>2 DEF StandbyNames, Accepted
      <3>2. Tracks(sync, ssn', v)
        BY <1>2, <1>3, <3>1 DEF Tracks
      <3> QED
        BY <3>1, <3>2 DEF ConfigInv, ConfigTyped
    <2> QED
      BY <2>1, <2>2
  <1>7. MeetIn(primary, sync, ssn')
    BY <1>1, <1>2, <1>6, SafeMeetsIn
  <1>8. QuorumsMeet'
    BY <1>1, <1>7, MeetNext
  <1>9. ConfigTyped'
    BY <1>1, <1>6 DEF ConfigInv, ConfigTyped
  <1>10. primary' # NoNode /\ sync'.leader # NoNode /\ Led(pending', primary', sync', ssn')
    BY <1>1, <1>2, <1>6, FiniteNames
  <1> QED
    BY <1>8, <1>9, <1>10 DEF ConfigInv

(* A node that is promoted syncs to enough of the others to meet whoever   *)
(* can elect another.                                                      *)
LEMMA PromoteMeets ==
    ASSUME ConfigTyped, sync.leader # NoNode, NEW n \in Nodes,
           NEW B \in SUBSET PrepromoteNames(n),
           Cardinality(B) >= PrepromoteNum(n) \/ PrepromoteNum(n) < 1,
           NEW E \in SUBSET Members, Cardinality(E) > sync.quorum
    PROVE  (B \cup {n}) \cap E # {}
  <1> DEFINE A == B \cup {n}
             U == Members \cup {n}
             more == IF n \in Members THEN 0 ELSE 1
  <1>1. Members \in SUBSET Nodes /\ sync.quorum \in Nat /\ U \in SUBSET Nodes
        /\ E \in SUBSET Nodes /\ B \in SUBSET Nodes /\ n \notin B
    BY DEF ConfigTyped, Members, PrepromoteNames
  <1>2. /\ IsFiniteSet(Members) /\ Cardinality(Members) \in Nat /\ IsFiniteSet(U) /\ Cardinality(U) \in Nat
        /\ Cardinality(E) \in Nat /\ IsFiniteSet(B) /\ Cardinality(B) \in Nat
    BY <1>1, FiniteNames
  <1>3. Cardinality(A) = Cardinality(B) + 1
    BY <1>1, <1>2, FS_AddElement
  <1>4. Cardinality(U) = Cardinality(Members) + more
    BY <1>2, FS_AddElement
  <1>5. PrepromoteNum(n) = Cardinality(Members) - sync.quorum - 1 + more
    BY DEF PrepromoteNum
  <1>6. A \subseteq U /\ E \subseteq U /\ {n} \subseteq U /\ Cardinality({n}) = 1
    BY FS_Singleton DEF PrepromoteNames
  <1>7. more \in {0, 1}
    OBVIOUS
  <1> HIDE DEF A, U, more
  <1>8. CASE Cardinality(B) >= PrepromoteNum(n)
    <2>1. Cardinality(A) + Cardinality(E) > Cardinality(U)
      BY <1>1, <1>2, <1>3, <1>4, <1>5, <1>7, <1>8
    <2>2. A \cap E # {}
      BY <2>1, <1>2, <1>6, FS_MajoritiesIntersect
    <2> QED
      BY <2>2 DEF A
  <1>9. CASE PrepromoteNum(n) < 1
    <2>1. Cardinality({n}) + Cardinality(E) > Cardinality(U)
      BY <1>1, <1>2, <1>4, <1>5, <1>6, <1>7, <1>9
    <2>2. {n} \cap E # {}
      BY <2>1, <1>2, <1>6, FS_MajoritiesIntersect
    <2> QED
      BY <2>2
  <1> QED
    BY <1>8, <1>9

LEMMA PromoteKeeps ==
    ASSUME ConfigInv, NEW n \in Nodes, Promote(n)
    PROVE  ConfigInv'
  <1> DEFINE num == PrepromoteNum(n)
             names == PrepromoteNames(n)
  <1>1. /\ primary = NoNode /\ primary' = n /\ sync' = sync /\ pending' = pending /\ wanted' = wanted
        /\ ssn' \in StandbyNames(num, names, {EmptySsn} \cup {s \in {ssn} : n \notin s.names})
    BY DEF Promote
  <1>2. pending = << >> /\ ConfigTyped
    BY <1>1 DEF ConfigInv
  <1>3. Members \in SUBSET Nodes /\ names \in SUBSET Nodes /\ n \notin names
    BY <1>2 DEF ConfigTyped, Members, PrepromoteNames
  <1>4. num \in Int
    BY <1>2, <1>3, Counted, ConfigAssumption DEF ConfigTyped, PrepromoteNum
  <1>5. /\ ssn'.num \in Int /\ ssn'.names \in SUBSET Nodes /\ n \notin ssn'.names
        /\ num < 1 \/ (ssn'.num = num /\ ssn'.names = names)
        /\ ssn'.names \in SUBSET names \/ num < 1
    <2> HIDE DEF num, names
    <2>1. CASE Accepted(num, names)
      <3>1. ssn' = [num |-> num, names |-> names, star |-> names = {} /\ num >= 1]
        BY <1>1, <2>1 DEF StandbyNames
      <3> QED
        BY <1>3, <1>4, <3>1
    <2>2. CASE ~Accepted(num, names)
      <3>1. num < 1 /\ (ssn' = EmptySsn \/ (ssn' = ssn /\ n \notin ssn.names))
        BY <1>1, <1>4, <2>2 DEF StandbyNames, Accepted
      <3> QED
        BY <3>1, <1>2 DEF EmptySsn, ConfigTyped
    <2> QED
      BY <2>1, <2>2
  <1>6. ConfigTyped'
    BY <1>1, <1>2, <1>5 DEF ConfigTyped
  <1>7. MeetIn(n, sync, ssn')
    <2>1. CASE sync.leader = NoNode
      <3>1. \A E \in SUBSET {} : Cardinality(E) = 0
        BY FS_EmptySet
      <3> QED
        BY <2>1, <3>1, <1>2 DEF MeetIn, ConfigTyped
    <2>2. CASE sync.leader # NoNode
      <3> SUFFICES ASSUME NEW B \in SUBSET ssn'.names, Cardinality(B) >= ssn'.num,
                          NEW E \in SUBSET Members, Cardinality(E) > sync.quorum
                   PROVE  (B \cup {n}) \cap E # {}
        BY <2>2 DEF MeetIn, Members
      <3>1. CASE num < 1
        <4>1. ({} \cup {n}) \cap E # {}
          BY <1>2, <2>2, <3>1, PromoteMeets
        <4> QED
          BY <4>1
      <3>2. CASE ~(num < 1)
        BY <1>2, <1>5, <2>2, <3>2, PromoteMeets
      <3> QED
        BY <3>1, <3>2
    <2> QED
      BY <2>1, <2>2
  <1>8. QuorumsMeet'
    BY <1>1, <1>7, MeetNext
  <1> QED
    BY <1>1, <1>2, <1>6, <1>8 DEF ConfigInv

LEMMA ConfigStepKeeps ==
    ASSUME ConfigInv, ConfigStep \/ UNCHANGED config
    PROVE  ConfigInv'
  <1>1. CASE EnableSync
    BY <1>1, EnableSyncKeeps
  <1>2. CASE \E active \in SUBSET (Nodes \ {primary}) :
                \E confirmed \in SUBSET (active \cap ssn.names) : ComputeTransitions(active, confirmed)
    BY <1>2, ComputeKeeps
  <1>3. CASE WriteSyncKey
    BY <1>3, WriteKeeps
  <1>4. CASE SetStandbyNames
    BY <1>4, SetNamesKeeps
  <1>5. CASE AbandonTransitions
    <2>1. /\ primary' = primary /\ sync' = sync /\ ssn' = ssn /\ wanted' = wanted /\ pending' = << >>
      BY <1>5 DEF AbandonTransitions
    <2> QED
      BY <2>1, MeetNow, MeetNext DEF ConfigInv, ConfigTyped
  <1>6. CASE \E n \in Counts : ChangeCount(n)
    <2>1. /\ primary' = primary /\ sync' = sync /\ ssn' = ssn /\ wanted' \in Counts /\ pending' = pending
      BY <1>6 DEF ChangeCount
    <2> QED
      BY <2>1, MeetNow, MeetNext DEF ConfigInv, ConfigTyped
  <1>7. CASE LosePrimary
    <2>1. /\ primary' = NoNode /\ sync' = sync /\ ssn' = ssn /\ wanted' = wanted /\ pending' = << >>
      BY <1>7 DEF LosePrimary
    <2>2. MeetIn(primary', sync', ssn')
      BY <2>1 DEF MeetIn
    <2> QED
      BY <2>1, <2>2, MeetNext, FiniteNames DEF ConfigInv, ConfigTyped
  <1>8. CASE \E n \in Nodes : WinElection(n)
    BY <1>8, PromoteKeeps DEF WinElection
  <1>9. CASE UNCHANGED config
    <2>1. /\ primary' = primary /\ sync' = sync /\ ssn' = ssn /\ wanted' = wanted /\ pending' = pending
      BY <1>9 DEF config
    <2> QED
      BY <2>1, MeetNow, MeetNext DEF ConfigInv, ConfigTyped
  <1> QED
    BY <1>1, <1>2, <1>3, <1>4, <1>5, <1>6, <1>7, <1>8, <1>9 DEF ConfigStep, ConfigNext

(* Whoever can acknowledge a commit and whoever can elect a primary have a *)
(* node in common, whatever happens to the cycles that change the          *)
(* configuration (QuorumStateResolver and its users in ha.py).             *)
THEOREM ConfigMeets == ConfigSpec => []QuorumsMeet
  <1>1. ConfigInit => ConfigInv
    BY ConfigInitially
  <1>2. ConfigInv /\ [ConfigStep]_config => ConfigInv'
    BY ConfigStepKeeps
  <1>3. ConfigInv => QuorumsMeet
    BY DEF ConfigInv
  <1> QED
    BY <1>1, <1>2, <1>3, PTL DEF ConfigSpec

-----------------------------------------------------------------------------
(* A SyncHandler record, whose ready replicas are all listed.              *)
Handler(h) ==
    /\ h = [known |-> h.known, flush |-> h.flush, ready |-> h.ready]
    /\ h.ready \subseteq h.known.names

(* Only connected replicas are looked at, and only listed ones are ready.  *)
Placed ==
    /\ up \subseteq Nodes
    /\ primary \in Nodes \cup {NoNode}
    /\ streaming \subseteq Nodes \ {primary}
    /\ primary = NoNode => streaming = {}
    /\ handler = [n \in Nodes |-> handler[n]]
    /\ \A n \in Nodes : Handler(handler[n])

(* What the handler memorises when it looks at the names in force.         *)
LEMMA NoticedHandler ==
    ASSUME NEW h, Handler(h), NEW names, NEW position
    PROVE  /\ Handler(Noticed(h, names, position))
           /\ Noticed(h, names, position).known = names
  <1>1. CASE h.known = names
    BY <1>1 DEF Noticed
  <1>2. CASE h.known # names
    BY <1>2 DEF Noticed, Handler
  <1> QED
    BY <1>1, <1>2

LEMMA ReadyHandler ==
    ASSUME NEW h, Handler(h), NEW replicas
    PROVE  /\ Handler(WithReady(h, replicas))
           /\ WithReady(h, replicas).known = h.known
  <1> DEFINE caught == {r \in replicas \cap h.known.names : Len(log[r]) >= h.flush}
  <1>1. caught \subseteq h.known.names
    OBVIOUS
  <1> HIDE DEF caught
  <1>2. WithReady(h, replicas) = [h EXCEPT !.ready = @ \cup caught]
    BY DEF WithReady, caught
  <1>3. WithReady(h, replicas)
            = [known |-> h.known, flush |-> h.flush, ready |-> h.ready \cup caught]
    BY <1>2 DEF Handler
  <1> QED
    BY <1>1, <1>3 DEF Handler

LEMMA InitPlaced == Init => Placed
<1> SUFFICES ASSUME Init PROVE Placed
  OBVIOUS
<1>1. handler = [n \in Nodes |-> EmptyHandler]
  BY DEF Init
<1>2. Handler(EmptyHandler)
  BY DEF Handler, EmptyHandler
<1>3. \A n \in Nodes : handler[n] = EmptyHandler
  BY <1>1
<1>4. handler = [n \in Nodes |-> handler[n]]
  BY <1>1
<1>5. up = Nodes /\ streaming = {} /\ primary = 1
  BY DEF Init, ConfigInit
<1>6. 1 \in Nodes /\ 1 # NoNode
  BY ConfigAssumption DEF ConfigAssumption, Nodes, NoNode
<1> QED
  BY <1>2, <1>3, <1>4, <1>5, <1>6 DEF Placed

(* A handler of the primary replaced by another one.                       *)
LEMMA HandlerReplaced ==
    ASSUME Placed, NEW n \in Nodes, NEW h, Handler(h),
           handler' = [handler EXCEPT ![n] = h]
    PROVE  /\ handler' = [m \in Nodes |-> handler'[m]]
           /\ \A m \in Nodes : Handler(handler'[m])
  <1>1. handler = [m \in Nodes |-> handler[m]]
    BY DEF Placed
  <1>2. handler' = [m \in Nodes |-> IF m = n THEN h ELSE handler[m]]
    BY <1>1
  <1>3. \A m \in Nodes : handler'[m] = h \/ handler'[m] = handler[m]
    BY <1>2
  <1>4. \A m \in Nodes : Handler(handler[m])
    BY DEF Placed
  <1>5. \A m \in Nodes : Handler(handler'[m])
    BY <1>3, <1>4
  <1>6. handler' = [m \in Nodes |-> handler'[m]]
    BY <1>2
  <1> QED
    BY <1>5, <1>6

-----------------------------------------------------------------------------
(* A cycle of the primary: the replicas it counts as confirmed stream and  *)
(* are listed in the names in force.                                       *)
LEMMA CycleStep ==
    ASSUME Placed, Cycle
    PROVE  Placed' /\ ConfigNext
  <1> DEFINE g == Noticed(handler[primary], ssn, Len(log[primary]))
             h == WithReady(g, streaming)
  <1>1. primary \in Nodes
    BY DEF Placed, Cycle, NoNode
  <1>2. Handler(handler[primary])
    BY <1>1 DEF Placed
  <1>3. Handler(g) /\ g.known = ssn
    BY <1>2, NoticedHandler
  <1> HIDE DEF g
  <1>4. Handler(h) /\ h.known = ssn
    BY <1>3, ReadyHandler
  <1>5. /\ ComputeTransitions(streaming, h.ready \cap streaming)
        /\ handler' = [handler EXCEPT ![primary] = h]
        /\ UNCHANGED <<log, up, streaming, term, faults, acked>>
    BY DEF Cycle, g
  <1> HIDE DEF h
  <1>6. h.ready \cap streaming \in SUBSET (streaming \cap ssn.names)
    BY <1>4 DEF Handler
  <1>7. streaming \in SUBSET (Nodes \ {primary})
    BY DEF Placed
  <1>8. ConfigNext
    BY <1>5, <1>6, <1>7 DEF ConfigNext
  <1>9. primary' = primary
    BY <1>5 DEF ComputeTransitions
  <1>10. /\ handler' = [m \in Nodes |-> handler'[m]]
         /\ \A m \in Nodes : Handler(handler'[m])
    BY <1>1, <1>4, <1>5, HandlerReplaced
  <1>11. Placed'
    BY <1>5, <1>9, <1>10 DEF Placed, Handler
  <1> QED
    BY <1>8, <1>11

LEMMA StandbyNamesStep ==
    ASSUME Placed, StepStandbyNames
    PROVE  Placed' /\ ConfigNext
  <1>1. SetStandbyNames /\ primary \in Nodes
    BY DEF Placed, StepStandbyNames, SetStandbyNames, NoNode
  <1>2. ConfigNext
    BY <1>1 DEF ConfigNext
  <1>3. primary' = primary /\ up' = up /\ streaming' = streaming
    BY <1>1 DEF StepStandbyNames, SetStandbyNames
  <1>4. /\ handler' = [m \in Nodes |-> handler'[m]]
        /\ \A m \in Nodes : Handler(handler'[m])
    <2>1. CASE handler' = handler
      BY <2>1 DEF Placed, Handler
    <2>2. CASE handler' # handler
      <3> DEFINE h == Noticed(handler[primary], ssn', Len(log[primary]))
      <3>1. Handler(handler[primary])
        BY <1>1 DEF Placed
      <3>2. Handler(h)
        BY <3>1, NoticedHandler
      <3>3. handler' = [handler EXCEPT ![primary] = h]
        BY <2>2 DEF StepStandbyNames
      <3> HIDE DEF h
      <3> QED
        BY <1>1, <3>2, <3>3, HandlerReplaced
    <2> QED
      BY <2>1, <2>2
  <1>5. Placed'
    BY <1>3, <1>4 DEF Placed, Handler
  <1> QED
    BY <1>2, <1>5

(* A node that stops takes its connections with it.                        *)
LEMMA StopStep ==
    ASSUME Placed, NEW n \in Nodes, Stop(n)
    PROVE  Placed' /\ (ConfigNext \/ UNCHANGED config)
  <1>1. Handler(EmptyHandler)
    BY DEF Handler, EmptyHandler
  <1>2. /\ handler' = [m \in Nodes |-> handler'[m]]
        /\ \A m \in Nodes : Handler(handler'[m])
    <2>1. CASE handler' = handler
      BY <2>1 DEF Placed, Handler
    <2>2. CASE handler' # handler
      <3>1. handler' = [handler EXCEPT ![n] = EmptyHandler]
        BY <2>2 DEF Stop
      <3> QED
        BY <1>1, <3>1, HandlerReplaced
    <2> QED
      BY <2>1, <2>2
  <1>3. up' \subseteq Nodes
    BY DEF Stop, Placed
  <1>4. CASE n = primary
    <2>1. LosePrimary /\ streaming' = {} /\ primary' = NoNode
      BY <1>4 DEF Stop, LosePrimary
    <2> QED
      BY <1>2, <1>3, <2>1 DEF Placed, Handler, ConfigNext
  <1>5. CASE n # primary
    <2>1. UNCHANGED config /\ streaming' \subseteq streaming /\ primary' = primary
      BY <1>5 DEF Stop, config
    <2> QED
      BY <1>2, <1>3, <2>1 DEF Placed, Handler
  <1> QED
    BY <1>4, <1>5

(* Who wins the race by its log also wins it when logs are not looked at.  *)
LEMMA ElectionStep ==
    ASSUME Placed, NEW n \in Nodes, Election(n)
    PROVE  Placed' /\ ConfigNext
  <1>1. Promote(n) /\ primary' = n /\ primary = NoNode
    BY DEF Election, Promote
  <1>2. PICK seen \in SUBSET ((IF Members = {} THEN Nodes ELSE Members) \cap (up \ {n})) :
            Healthiest(n, seen)
    BY DEF Election
  <1> DEFINE ahead == {m \in seen : Len(log[m]) > Len(log[n])}
             votes == seen \ ahead
  <1>3. Elects(n, Cardinality(votes), ahead = {})
    BY <1>2 DEF Healthiest
  <1>4. \E s \in SUBSET (Members \ {n}) : Elects(n, Cardinality(s), TRUE)
    <2>1. CASE sync.leader = NoNode
      <3>1. Elects(n, Cardinality({}), TRUE)
        BY <2>1 DEF Elects
      <3> QED
        BY <3>1
    <2>2. CASE sync.leader # NoNode
      <3>1. Members # {}
        BY <2>2 DEF Members
      <3>2. votes \in SUBSET (Members \ {n})
        BY <1>2, <3>1
      <3>3. Elects(n, Cardinality(votes), TRUE)
        BY <1>3 DEF Elects
      <3> QED
        BY <3>2, <3>3
    <2> QED
      BY <2>1, <2>2
  <1>5. WinElection(n)
    BY <1>1, <1>4 DEF WinElection
  <1>6. UNCHANGED <<up, streaming, handler>> /\ streaming = {}
    BY <1>1 DEF Election, Placed
  <1>7. n # NoNode
    BY DEF Nodes, NoNode
  <1>8. Placed'
    BY <1>1, <1>6, <1>7 DEF Placed, Handler
  <1> QED
    BY <1>5, <1>8 DEF ConfigNext

-----------------------------------------------------------------------------
(* The steps that change the configuration alone, or not at all.           *)
LEMMA OtherSteps ==
    ASSUME Placed, NEW n \in Nodes, NEW c \in Counts,
           \/ EnableSyncMode \/ StepSyncKey \/ Abandon \/ SetCount(c)
           \/ Write \/ Acknowledge \/ Replicate(n) \/ Connect(n) \/ Rewind(n)
           \/ Disconnect(n) \/ Start(n) \/ UNCHANGED vars
    PROVE  Placed' /\ (ConfigNext \/ UNCHANGED config)
  <1>1. ConfigNext \/ UNCHANGED config
    BY DEF EnableSyncMode, StepSyncKey, Abandon, SetCount, Write, Acknowledge, Replicate,
           Connect, Rewind, Disconnect, Start, vars, ConfigNext
  <1>2. UNCHANGED <<primary, handler>>
    BY DEF EnableSyncMode, StepSyncKey, Abandon, SetCount, Write, Acknowledge, Replicate,
           Connect, Rewind, Disconnect, Start, vars, config,
           EnableSync, WriteSyncKey, AbandonTransitions, ChangeCount
  <1>3. up' \in {up, up \cup {n}}
    BY DEF EnableSyncMode, StepSyncKey, Abandon, SetCount, Write, Acknowledge, Replicate,
           Connect, Rewind, Disconnect, Start, vars
  <1>4. \/ streaming' \subseteq streaming
        \/ primary # NoNode /\ n # primary /\ streaming' = streaming \cup {n}
    BY DEF EnableSyncMode, StepSyncKey, Abandon, SetCount, Write, Acknowledge, Replicate,
           Connect, Rewind, Disconnect, Start, vars
  <1> QED
    BY <1>1, <1>2, <1>3, <1>4 DEF Placed, Handler

LEMMA PlacedStep ==
    ASSUME Placed, [Next]_vars
    PROVE  Placed' /\ (ConfigStep \/ UNCHANGED config)
<1> SUFFICES Placed' /\ (ConfigNext \/ UNCHANGED config)
  BY DEF ConfigStep
<1>0. 1 \in Nodes /\ Counts # {}
  BY ConfigAssumption DEF ConfigAssumption, Nodes
<1>1. CASE Cycle
  BY <1>1, CycleStep
<1>2. CASE StepStandbyNames
  BY <1>2, StandbyNamesStep
<1>3. CASE \E n \in Nodes : Stop(n)
  BY <1>3, StopStep
<1>4. CASE \E n \in Nodes : Election(n)
  BY <1>4, ElectionStep
<1>5. CASE \/ EnableSyncMode \/ StepSyncKey \/ Abandon \/ \E c \in Counts : SetCount(c)
           \/ Write \/ Acknowledge \/ UNCHANGED vars
           \/ \E n \in Nodes : \/ Replicate(n) \/ Connect(n) \/ Rewind(n)
                               \/ Disconnect(n) \/ Start(n)
  <2>1. PICK n \in Nodes, c \in Counts :
            \/ EnableSyncMode \/ StepSyncKey \/ Abandon \/ SetCount(c)
            \/ Write \/ Acknowledge \/ Replicate(n) \/ Connect(n) \/ Rewind(n)
            \/ Disconnect(n) \/ Start(n) \/ UNCHANGED vars
    BY <1>0, <1>5
  <2> QED
    BY <2>1, OtherSteps
<1> QED
  BY <1>1, <1>2, <1>3, <1>4, <1>5 DEF Next

(* The configuration of a cluster with logs changes only as QuorumConfig   *)
(* says.                                                                   *)
THEOREM ImplementsConfig == Spec => ConfigSpec
<1>1. Init => Placed /\ ConfigInit
  BY InitPlaced DEF Init
<1>2. Placed /\ [Next]_vars => Placed' /\ [ConfigStep]_config
  BY PlacedStep
<1> QED
  BY <1>1, <1>2, PTL DEF Spec, ConfigSpec

(* The quorums of a cluster with logs always meet.                         *)
THEOREM QuorumsAlwaysMeet == Spec => []QuorumsMeet
BY ImplementsConfig, ConfigMeets, PTL

-----------------------------------------------------------------------------
(* A cycle that nothing disturbs: the names in force still replicate, and  *)
(* more nodes may. s.have are the nodes that have what was acknowledged.   *)
Calm(s, p) ==
    /\ s.names \subseteq s.active /\ s.active \in SUBSET (Nodes \ {p})
    /\ s.wanted \in Nat \ {0}
    /\ s.num = Min2(s.wanted, Cardinality(s.names))
    /\ s.have \in SUBSET Nodes

(* Voters that are not listed are added when the number is the one wanted. *)
Covers(voters, names, num, s) == voters \subseteq names \/ num = s.wanted

(* Whoever is listed stays so. The voters of whom sync.quorum may be       *)
(* without what was acknowledged: Few at least have it.                    *)
FitSync(t, s) ==
    /\ s.names \subseteq t.names /\ t.names \subseteq s.active /\ t.names # {}
    /\ t.num = Min2(s.wanted, Cardinality(t.names))
Few(t) == Cardinality(t.names) - t.num
FitQuorum(t, s, p) ==
    /\ t.leader = p
    /\ s.names # {} /\ s.names \subseteq t.names /\ t.names \subseteq s.active
    /\ Few(t) <= s.num /\ Few(t) <= Cardinality(s.have \cap t.names)
Covered(out, j, t, s) ==
    \/ Covers(t.names, s.names, s.num, s)
    \/ \E i \in 1..j : out[i].type = "sync" /\ Covers(t.names, out[i].names, out[i].num, s)

Fits(out, s, p) ==
    /\ out \in Seq(Trans)
    /\ \A j \in 1..Len(out) :
          /\ out[j].type = "sync" => FitSync(out[j], s)
          /\ out[j].type = "quorum" => FitQuorum(out[j], s, p) /\ Covered(out, j - 1, out[j], s)
          /\ \A i \in 1..(j - 1) :
                out[i].type = "sync" /\ out[j].type # "restart" => out[i].names \subseteq out[j].names

(* One more transition fits, too, when it lists or lets vote all of those  *)
(* that are listed by then.                                                *)
LEMMA MergedFits ==
    ASSUME NEW out, NEW s, NEW p, Fits(out, s, p), ~Ends(out), NEW t \in Trans, t.type # "restart",
           t.type = "sync" => FitSync(t, s),
           t.type = "quorum" => FitQuorum(t, s, p) /\ Covered(out, Len(out), t, s),
           \A i \in 1..Len(out) : out[i].type = "sync" => out[i].names \subseteq t.names,
           NEW o, o = Merged(out, t)
    PROVE  /\ Fits(o, s, p) /\ ~Ends(o)
           /\ Len(o) \in Nat /\ Len(o) > 0 /\ o[Len(o)] = t
           /\ \A i \in 1..Len(o) : i # Len(o) => i \in 1..Len(out) /\ o[i] = out[i]
           /\ \A i \in 1..Len(out) : out[i].type = "sync" /\ t.type = "quorum" =>
                 i \in 1..Len(o) /\ i # Len(o) /\ o[i] = out[i]
  <1>1. out \in Seq(Trans) /\ Len(out) \in Nat /\ \A i \in 1..Len(out) : out[i] \in Trans
    BY DEF Fits
  <1>2. PICK n \in Nat :
          /\ n > 0 /\ n - 1 <= Len(out) /\ Len(o) = n /\ o \in Seq(Trans) /\ o[n] = t
          /\ \A i \in 1..(n - 1) : o[i] = out[i]
          /\ \A i \in n..Len(out) : out[i].type = t.type
    <2>1. CASE out = << >>
      <3>1. o = <<t>> /\ Len(out) = 0
        BY <2>1 DEF Merged
      <3> QED
        BY <3>1
    <2>2. CASE out # << >> /\ out[Len(out)].type = t.type
      <3> DEFINE L == Len(out)
      <3>1. o = [out EXCEPT ![L] = t] /\ L > 0
        BY <1>1, <2>2 DEF Merged, Ends
      <3>2. o \in Seq(Trans) /\ Len(o) = L /\ o[L] = t /\ \A i \in 1..(L - 1) : o[i] = out[i]
        BY <1>1, <3>1
      <3>3. L \in Nat /\ L > 0 /\ L - 1 <= L /\ \A i \in L..L : out[i].type = t.type
        BY <1>1, <2>2, <3>1
      <3> QED
        BY <3>2, <3>3
    <2>3. CASE out # << >> /\ out[Len(out)].type # t.type
      <3>1. o = Append(out, t)
        BY <1>1, <2>3 DEF Merged, Ends
      <3>2. o \in Seq(Trans) /\ Len(o) = Len(out) + 1 /\ o[Len(out) + 1] = t /\ \A i \in 1..Len(out) : o[i] = out[i]
        BY <1>1, <3>1
      <3> QED
        BY <1>1, <3>2
    <2> QED
      BY <2>1, <2>2, <2>3
  <1>3. \A i \in 1..Len(out) : out[i].type = "sync" /\ t.type = "quorum" => i \in 1..(n - 1)
    BY <1>1, <1>2
  <1>4. \A i \in 1..(n - 1) : i \in 1..Len(out) /\ o[i] = out[i]
    BY <1>1, <1>2
  <1>5. ASSUME NEW j \in 1..n
        PROVE  /\ o[j].type = "sync" => FitSync(o[j], s)
               /\ o[j].type = "quorum" => FitQuorum(o[j], s, p) /\ Covered(o, j - 1, o[j], s)
               /\ \A i \in 1..(j - 1) :
                     o[i].type = "sync" /\ o[j].type # "restart" => o[i].names \subseteq o[j].names
    <2>1. CASE j = n
      <3>1. o[j] = t /\ j - 1 = n - 1
        BY <1>2, <2>1
      <3>2. t.type = "quorum" => Covered(o, n - 1, t, s)
        BY <1>3, <1>4 DEF Covered
      <3> QED
        BY <3>1, <3>2, <1>4
    <2>2. CASE j # n
      <3>1. j \in 1..(n - 1) /\ j \in 1..Len(out) /\ o[j] = out[j] /\ \A i \in 1..(j - 1) : i \in 1..(n - 1)
        BY <1>2, <1>4, <2>2
      <3>2. \A i \in 1..(j - 1) : o[i] = out[i]
        BY <1>4, <3>1
      <3>3. Covered(out, j - 1, out[j], s) => Covered(o, j - 1, o[j], s)
        BY <3>1, <3>2 DEF Covered
      <3> QED
        BY <3>1, <3>2, <3>3 DEF Fits
    <2> QED
      BY <2>1, <2>2
  <1>6. Fits(o, s, p)
    BY <1>2, <1>5 DEF Fits
  <1>7. ~Ends(o)
    BY <1>2 DEF Ends
  <1> QED
    BY <1>2, <1>3, <1>4, <1>6, <1>7

(* A restart fits always.                                                  *)
LEMMA RestartFits ==
    ASSUME NEW out, NEW s, NEW p, Fits(out, s, p), ~Ends(out), NEW t \in Trans, t.type = "restart"
    PROVE  Fits(Merged(out, t), s, p) /\ Ends(Merged(out, t))
  <1>1. out \in Seq(Trans) /\ Len(out) \in Nat
    BY DEF Fits
  <1>2. Merged(out, t) = Append(out, t)
    <2>1. CASE out = << >>
      BY <2>1 DEF Merged
    <2>2. CASE out # << >>
      BY <1>1, <2>2 DEF Merged, Ends
    <2> QED
      BY <2>1, <2>2
  <1>3. PICK o : o = Append(out, t)
    OBVIOUS
  <1>4. o \in Seq(Trans) /\ Len(o) = Len(out) + 1 /\ o[Len(out) + 1] = t /\ \A i \in 1..Len(out) : o[i] = out[i]
    BY <1>1, <1>3
  <1>5. ASSUME NEW j \in 1..Len(out)
        PROVE  /\ o[j].type = "sync" => FitSync(o[j], s)
               /\ o[j].type = "quorum" => FitQuorum(o[j], s, p) /\ Covered(o, j - 1, o[j], s)
               /\ \A i \in 1..(j - 1) :
                     o[i].type = "sync" /\ o[j].type # "restart" => o[i].names \subseteq o[j].names
    <2>1. o[j] = out[j] /\ \A i \in 1..(j - 1) : i \in 1..Len(out) /\ o[i] = out[i]
      BY <1>1, <1>4
    <2>2. Covered(out, j - 1, out[j], s) => Covered(o, j - 1, o[j], s)
      BY <2>1 DEF Covered
    <2> QED
      BY <2>1, <2>2 DEF Fits
  <1>6. Fits(o, s, p)
    BY <1>1, <1>4, <1>5 DEF Fits
  <1>7. Ends(o)
    BY <1>1, <1>4 DEF Ends
  <1> QED
    BY <1>2, <1>3, <1>6, <1>7

-----------------------------------------------------------------------------
(* A generator at work in such a cycle.                                    *)
Live(q) == q.exit = "running" /\ ~Ends(q.out)

(* How many of the listed nodes are certain to have what was acknowledged. *)
Certain(q) == Min2(q.wanted, q.confirmed)

(* It lists and lets vote more and more of the active nodes; the names     *)
(* it works with are those of the last change it yielded.                  *)
Grows(q, s) ==
    /\ q.active = s.active /\ q.wanted = s.wanted
    /\ s.names \subseteq q.sync /\ q.sync \subseteq s.active /\ q.voters \subseteq s.active
    /\ q.numsync = Min2(s.wanted, Cardinality(q.sync))
    /\ Covers(q.voters, q.sync, q.numsync, s)
    /\ q.voters = {} => q.quorum = 0
    /\ s.names = {} => q.voters = {} /\ q.confirmed = 0
    /\ q.confirmed <= Cardinality(s.names)
Yielded(q, s) ==
    /\ \A i \in 1..Len(q.out) : q.out[i].type = "sync" => q.out[i].names \subseteq q.sync
    /\ \/ q.sync = s.names /\ q.numsync = s.num
       \/ \E i \in 1..Len(q.out) :
            q.out[i].type = "sync" /\ q.out[i].names = q.sync /\ q.out[i].num = q.numsync
Steady(q, s) ==
    /\ Grows(q, s) /\ Yielded(q, s)
    /\ Certain(q) <= Cardinality(s.have \cap (q.sync \cup q.voters))

Keeps(q, p, from, s) ==
    /\ Good(q, p, from)
    /\ Live(q) => Steady(q, s)
    /\ ~Raised(q) => Fits(q.out, s, p)

LEMMA Fewer ==
    ASSUME NEW T \in SUBSET Nodes, NEW S \in SUBSET T
    PROVE  /\ IsFiniteSet(S) /\ Cardinality(S) \in Nat /\ Cardinality(T) \in Nat
           /\ Cardinality(S) <= Cardinality(T)
           /\ S # T => Cardinality(S) < Cardinality(T)
  <1>1. S \in SUBSET Nodes /\ IsFiniteSet(T) /\ Cardinality(T) \in Nat
    BY FiniteNames
  <1>2. IsFiniteSet(S) /\ Cardinality(S) \in Nat
    BY <1>1, FiniteNames
  <1>3. Cardinality(S) <= Cardinality(T) /\ (Cardinality(S) = Cardinality(T) => S = T)
    BY <1>1, FS_Subset
  <1> QED
    BY <1>1, <1>2, <1>3

(* What holds of such a generator's attributes.                            *)
LEMMA SteadyFields ==
    ASSUME NEW p \in Nodes, NEW q, NEW from, NEW s, Calm(s, p), Keeps(q, p, from, s), Live(q)
    PROVE  /\ q \in Res(p) /\ q.leader = p /\ q.leader_wanted = p /\ q.exit = "running"
           /\ q.out \in Seq(Trans) /\ Fits(q.out, s, p)
           /\ q.active = s.active /\ q.wanted = s.wanted /\ s.wanted \in Nat /\ s.wanted >= 1
           /\ s.names \subseteq q.sync /\ q.sync \subseteq s.active
           /\ q.voters \subseteq s.active /\ p \notin s.active /\ s.active \in SUBSET Nodes
           /\ Cardinality(q.sync) \in Nat /\ Cardinality(q.voters) \in Nat /\ Cardinality(s.active) \in Nat
           /\ Cardinality(s.names) \in Nat /\ Cardinality(s.names) <= Cardinality(q.sync)
           /\ Cardinality(q.sync) <= Cardinality(s.active)
           /\ q.quorum \in Nat /\ q.confirmed \in Int /\ q.confirmed <= Cardinality(s.names)
           /\ q.numsync \in Nat /\ q.numsync <= q.wanted /\ q.numsync <= Cardinality(q.sync)
           /\ s.num \in Nat /\ Min2(q.numsync, q.confirmed) <= Certain(q) /\ Certain(q) <= s.num
           /\ Min2(q.numsync, q.confirmed) \in Int /\ Certain(q) \in Int
  <1>1. q \in Res(p) /\ q.leader = p /\ q.exit = "running"
    BY DEF Keeps, Good, Live
  <1>2. /\ q.leader_wanted = p /\ q.out \in Seq(Trans) /\ q.quorum \in Nat /\ q.confirmed \in Int
    BY <1>1, ResFields
  <1>3. Fits(q.out, s, p)
    BY DEF Keeps, Raised, Live
  <1>4. /\ q.active = s.active /\ q.wanted = s.wanted /\ s.wanted \in Nat /\ s.wanted >= 1
        /\ s.names \subseteq q.sync /\ q.sync \subseteq s.active
        /\ q.voters \subseteq s.active /\ p \notin s.active /\ s.active \in SUBSET Nodes
        /\ q.confirmed <= Cardinality(s.names)
        /\ s.num = Min2(s.wanted, Cardinality(s.names))
        /\ q.numsync = Min2(s.wanted, Cardinality(q.sync))
    BY DEF Keeps, Steady, Grows, Calm
  <1>5. /\ Cardinality(q.sync) \in Nat /\ Cardinality(q.voters) \in Nat /\ Cardinality(s.active) \in Nat
        /\ Cardinality(s.names) \in Nat /\ Cardinality(s.names) <= Cardinality(q.sync)
        /\ Cardinality(q.sync) <= Cardinality(s.active)
    BY <1>4, Fewer
  <1>6. /\ q.numsync \in Nat /\ q.numsync <= q.wanted /\ q.numsync <= Cardinality(q.sync)
        /\ s.num \in Nat /\ Min2(q.numsync, q.confirmed) <= Certain(q) /\ Certain(q) <= s.num
        /\ Min2(q.numsync, q.confirmed) \in Int /\ Certain(q) \in Int
    BY <1>2, <1>4, <1>5 DEF Min2, Certain
  <1> QED
    BY <1>1, <1>2, <1>3, <1>4, <1>5, <1>6

(* An update that is yielded.                                              *)
LEMMA YieldKeeps ==
    ASSUME NEW p \in Nodes, NEW z \in Res(p), NEW s, Fits(z.out, s, p), Live(z),
           NEW t \in Trans, t.type # "restart",
           t.type = "sync" => FitSync(t, s),
           t.type = "quorum" => FitQuorum(t, s, p) /\ Covered(z.out, Len(z.out), t, s),
           \A i \in 1..Len(z.out) : z.out[i].type = "sync" => z.out[i].names \subseteq t.names,
           Overlap(z), NEW r, r = Yield(z, t)
    PROVE  /\ r = [z EXCEPT !.out = Merged(z.out, t)]
           /\ Live(r) /\ Fits(r.out, s, p)
           /\ r.sync = z.sync /\ r.voters = z.voters /\ r.numsync = z.numsync /\ r.active = z.active
           /\ r.quorum = z.quorum /\ r.confirmed = z.confirmed /\ r.wanted = z.wanted
           /\ t.type = "sync" /\ t.names = z.sync /\ t.num = z.numsync => Yielded(r, s)
           /\ t.type = "quorum" /\ Yielded(z, s) /\ z.sync \subseteq t.names => Yielded(r, s)
  <1>1. r = [z EXCEPT !.out = Merged(z.out, t)]
    BY DEF Yield
  <1>2. /\ r.sync = z.sync /\ r.voters = z.voters /\ r.numsync = z.numsync /\ r.active = z.active
        /\ r.quorum = z.quorum /\ r.confirmed = z.confirmed /\ r.wanted = z.wanted
        /\ r.exit = z.exit /\ r.out = Merged(z.out, t)
    BY <1>1 DEF Res
  <1>3. PICK o : o = Merged(z.out, t)
    OBVIOUS
  <1>4. ~Ends(z.out)
    BY DEF Live
  <1>5. /\ Fits(o, s, p) /\ ~Ends(o)
        /\ Len(o) \in Nat /\ Len(o) > 0 /\ o[Len(o)] = t
        /\ \A i \in 1..Len(o) : i # Len(o) => i \in 1..Len(z.out) /\ o[i] = z.out[i]
        /\ \A i \in 1..Len(z.out) : z.out[i].type = "sync" /\ t.type = "quorum" =>
              i \in 1..Len(o) /\ i # Len(o) /\ o[i] = z.out[i]
    BY <1>3, <1>4, MergedFits
  <1>6. Live(r) /\ Fits(r.out, s, p)
    BY <1>2, <1>3, <1>5 DEF Live
  <1>7. ASSUME t.type = "sync", t.names = z.sync, t.num = z.numsync PROVE Yielded(r, s)
    <2>1. Len(o) \in 1..Len(o)
      BY <1>5
    <2>2. \A i \in 1..Len(o) : o[i].type = "sync" => o[i].names \subseteq z.sync
      BY <1>5, <1>7
    <2> QED
      BY <1>2, <1>3, <1>5, <1>7, <2>1, <2>2 DEF Yielded
  <1>8. ASSUME t.type = "quorum", Yielded(z, s) PROVE Yielded(r, s)
    <2>1. \A i \in 1..Len(o) : o[i].type = "sync" => i # Len(o)
      BY <1>5, <1>8
    <2>2. \A i \in 1..Len(o) : o[i].type = "sync" => o[i].names \subseteq z.sync
      BY <1>5, <1>8, <2>1 DEF Yielded
    <2>3. \/ z.sync = s.names /\ z.numsync = s.num
          \/ \E i \in 1..Len(o) : o[i].type = "sync" /\ o[i].names = z.sync /\ o[i].num = z.numsync
      BY <1>5, <1>8 DEF Yielded
    <2> QED
      BY <1>2, <1>3, <2>2, <2>3 DEF Yielded
  <1> QED
    BY <1>1, <1>2, <1>6, <1>7, <1>8

-----------------------------------------------------------------------------
(* A generator that has ended, or asks for a restart, yields nothing more. *)
Dead(q, s, p) ==
    /\ q = [leader |-> q.leader, quorum |-> q.quorum, voters |-> q.voters,
            numsync |-> q.numsync, sync |-> q.sync, confirmed |-> q.confirmed,
            active |-> q.active, wanted |-> q.wanted, leader_wanted |-> q.leader_wanted,
            out |-> q.out, exit |-> q.exit]
    /\ ~Live(q)
    /\ ~Raised(q) => Fits(q.out, s, p)

LEMMA DeadRaises ==
    ASSUME NEW q, NEW s, NEW p, Dead(q, s, p), NEW error \in {"QuorumError", "AssertionError"}
    PROVE  Dead(Raise(q, error), s, p)
  <1>1. PICK r : r = Raise(q, error)
    OBVIOUS
  <1>2. r = [leader |-> q.leader, quorum |-> q.quorum, voters |-> q.voters,
            numsync |-> q.numsync, sync |-> q.sync, confirmed |-> q.confirmed,
            active |-> q.active, wanted |-> q.wanted, leader_wanted |-> q.leader_wanted,
            out |-> q.out, exit |-> error]
    BY <1>1 DEF Raise, Dead
  <1>3. Dead(r, s, p)
    BY <1>2 DEF Dead, Live, Raised
  <1> QED
    BY <1>1, <1>3

(* The out of r is that of q with more appended, which a restart prevents. *)
LEMMA DeadYields ==
    ASSUME NEW q, NEW s, NEW p, Dead(q, s, p), q.exit = "running", NEW t,
           NEW leader, NEW quorum, NEW voters, NEW numsync, NEW names,
           NEW z, z = [leader |-> leader, quorum |-> quorum, voters |-> voters,
                       numsync |-> numsync, sync |-> names, confirmed |-> q.confirmed,
                       active |-> q.active, wanted |-> q.wanted, leader_wanted |-> q.leader_wanted,
                       out |-> q.out, exit |-> q.exit]
    PROVE  Dead(Yield(z, t), s, p)
  <1>1. Ends(q.out) /\ Merged(q.out, t) = q.out
    BY DEF Dead, Live, Ends, Merged
  <1>2. Dead(z, s, p)
    BY DEF Dead, Live, Raised
  <1>3. CASE Overlap(z)
    <2>1. Yield(z, t) = [z EXCEPT !.out = Merged(z.out, t)]
      BY <1>3 DEF Yield
    <2>2. Yield(z, t) = z
      BY <1>1, <2>1
    <2> QED
      BY <1>2, <2>2
  <1>4. CASE ~Overlap(z)
    <2>1. Yield(z, t) = Raise(z, "QuorumError")
      BY <1>4 DEF Yield
    <2> QED
      BY <1>2, <2>1, DeadRaises
  <1> QED
    BY <1>3, <1>4

LEMMA DeadUpdate ==
    ASSUME NEW q, NEW s, NEW p, Dead(q, s, p), NEW quorum, NEW voters, NEW adjust
    PROVE  Dead(QuorumUpdate(q, quorum, voters, NoNode, adjust), s, p)
  <1> DEFINE reset == q.confirmed = 0 /\ q.voters = {}
             quor == IF reset THEN 0 ELSE quorum + IF adjust THEN Max2(q.numsync - q.confirmed, 0) ELSE 0
             vote == IF reset THEN {} ELSE voters
             same == <<q.leader, quor, vote>> = <<q.leader, q.quorum, q.voters>>
             restart == Transition("restart", q.leader, q.quorum, q.voters)
             hint == IF same THEN Merged(q.out, restart) ELSE q.out
             t == Transition("quorum", q.leader, quor, vote)
             r == QuorumUpdate(q, quorum, voters, NoNode, adjust)
  <1>1. CASE q.exit # "running"
    BY <1>1 DEF QuorumUpdate
  <1>2. CASE q.exit = "running"
    <2>1. Ends(q.out) /\ hint = q.out
      BY <1>2 DEF Dead, Live, Ends, Merged
    <2>2. \/ r = Raise(q, "QuorumError")
          \/ r = q
          \/ r = Yield([q EXCEPT !.leader = q.leader, !.quorum = quor, !.voters = vote, !.out = hint], t)
      BY <1>2 DEF QuorumUpdate
    <2> HIDE DEF r, quor, vote, t, same, hint
    <2>3. CASE r = Yield([q EXCEPT !.leader = q.leader, !.quorum = quor, !.voters = vote, !.out = hint], t)
      <3>1. PICK z : z = [q EXCEPT !.leader = q.leader, !.quorum = quor, !.voters = vote, !.out = hint]
        OBVIOUS
      <3>2. z = [leader |-> q.leader, quorum |-> quor, voters |-> vote,
                       numsync |-> q.numsync, sync |-> q.sync, confirmed |-> q.confirmed,
                       active |-> q.active, wanted |-> q.wanted, leader_wanted |-> q.leader_wanted,
                       out |-> q.out, exit |-> q.exit]
        BY <2>1, <3>1 DEF Dead
      <3>3. Dead(Yield(z, t), s, p)
        BY <1>2, <3>2, DeadYields
      <3> QED
        BY <2>3, <3>1, <3>3 DEF r
    <2> QED
      BY <2>2, <2>3, DeadRaises DEF r
  <1> QED
    BY <1>1, <1>2

LEMMA DeadSync ==
    ASSUME NEW q, NEW s, NEW p, Dead(q, s, p), NEW numsync, NEW names
    PROVE  Dead(SyncUpdate(q, numsync, names), s, p)
  <1>1. CASE q.exit # "running"
    BY <1>1 DEF SyncUpdate
  <1>2. CASE q.exit = "running"
    <2>1. \/ SyncUpdate(q, numsync, names) = Raise(q, "QuorumError")
          \/ SyncUpdate(q, numsync, names)
               = Yield([q EXCEPT !.numsync = numsync, !.sync = names], Transition("sync", q.leader, numsync, names))
      BY <1>2 DEF SyncUpdate
    <2>2. PICK z : z = [q EXCEPT !.numsync = numsync, !.sync = names]
      OBVIOUS
    <2>3. z = [leader |-> q.leader, quorum |-> q.quorum, voters |-> q.voters,
                       numsync |-> numsync, sync |-> names, confirmed |-> q.confirmed,
                       active |-> q.active, wanted |-> q.wanted, leader_wanted |-> q.leader_wanted,
                       out |-> q.out, exit |-> q.exit]
      BY <2>2 DEF Dead
    <2>4. Dead(Yield(z, Transition("sync", q.leader, numsync, names)), s, p)
      BY <1>2, <2>3, DeadYields
    <2> QED
      BY <2>1, <2>2, <2>4, DeadRaises
  <1> QED
    BY <1>1, <1>2

LEMMA DeadAsserts ==
    ASSUME NEW q, NEW s, NEW p, Dead(q, s, p), NEW cond
    PROVE  Dead(AssertThat(q, cond), s, p)
  BY DeadRaises DEF AssertThat

LEMMA DeadKeeps ==
    ASSUME NEW p, NEW q, NEW from, NEW s
    PROVE  /\ Keeps(q, p, from, s) /\ ~Live(q) => Dead(q, s, p)
           /\ Good(q, p, from) /\ Dead(q, s, p) => Keeps(q, p, from, s)
  BY DEF Keeps, Dead, Good, Res

(* The rest of a generator, once it is dead.                               *)
LEMMA StepsDead ==
    ASSUME NEW q, NEW s, NEW p, Dead(q, s, p)
    PROVE  /\ Dead(EvictDeadVoters(q), s, p)
           /\ Dead(SyncToLivingVoters(q), s, p)
           /\ Dead(DropDeadFromSync(q), s, p)
           /\ Dead(LetSyncedVote(q), s, p)
           /\ Dead(DropNonVoters(q), s, p)
           /\ Dead(AssertVotersSynced(q), s, p)
           /\ Dead(LowerQuorum(q), s, p)
           /\ \A adjust, add : Dead(LetNewVote(q, add, adjust), s, p)
  <1>1. Dead(EvictDeadVoters(q), s, p) /\ Dead(LetSyncedVote(q), s, p) /\ Dead(LowerQuorum(q), s, p)
    BY DeadUpdate DEF EvictDeadVoters, LetSyncedVote, LowerQuorum
  <1>2. Dead(SyncToLivingVoters(q), s, p)
    BY DeadSync DEF SyncToLivingVoters
  <1>3. Dead(DropDeadFromSync(q), s, p) /\ Dead(DropNonVoters(q), s, p)
    BY DeadSync DEF DropDeadFromSync, DropNonVoters, KeepInSync
  <1>4. Dead(AssertVotersSynced(q), s, p)
    BY DeadAsserts DEF AssertVotersSynced
  <1>5. \A adjust, add : Dead(LetNewVote(q, add, adjust), s, p)
    BY DeadUpdate DEF LetNewVote
  <1> QED
    BY <1>1, <1>2, <1>3, <1>4, <1>5

-----------------------------------------------------------------------------
Voted(r, q, voters) ==
    /\ r.voters = voters /\ r.sync = q.sync /\ r.numsync = q.numsync
    /\ r.confirmed = q.confirmed /\ Cardinality(r.voters) - r.quorum <= Certain(q)

(* More voters: those who may be without what was acknowledged are         *)
(* allowed for by the quorum.                                              *)
LEMMA VotesKeep ==
    ASSUME NEW p \in Nodes, NEW q, NEW from, NEW s, Calm(s, p), Keeps(q, p, from, s),
           NEW voters \in SUBSET Nodes, NEW adjust \in BOOLEAN, NEW quorum \in Int,
           Live(q) => /\ q.sync \subseteq voters /\ voters \subseteq s.active
                      /\ Covers(voters, q.sync, q.numsync, s)
                      /\ Certain(q) <= Cardinality(s.have \cap voters)
                      /\ adjust = TRUE \/ q.numsync <= q.confirmed
                      /\ quorum = Cardinality(voters) - q.numsync,
           NEW r, r = QuorumUpdate(q, quorum, voters, NoNode, adjust)
    PROVE  /\ Keeps(r, p, from, s)
           /\ Live(r) => Live(q) /\ Voted(r, q, voters)
  <1>1. Good(r, p, from)
    BY QuorumUpdateGood DEF Keeps
  <1>2. CASE ~Live(q)
    <2>1. Dead(r, s, p)
      BY <1>2, DeadKeeps, DeadUpdate
    <2> QED
      BY <1>1, <2>1, DeadKeeps DEF Dead
  <1>3. CASE Live(q)
    <2> DEFINE n == Cardinality(voters)
               reset == q.confirmed = 0 /\ q.voters = {}
               more == IF adjust THEN Max2(q.numsync - q.confirmed, 0) ELSE 0
               quor == IF reset THEN 0 ELSE quorum + more
               vote == IF reset THEN {} ELSE voters
               same == <<q.leader, quor, vote>> = <<q.leader, q.quorum, q.voters>>
               restart == Transition("restart", q.leader, q.quorum, q.voters)
               hint == IF same THEN Merged(q.out, restart) ELSE q.out
               t == Transition("quorum", q.leader, quor, vote)
    <2>1. /\ q \in Res(p) /\ q.leader = p /\ q.exit = "running" /\ q.out \in Seq(Trans) /\ Fits(q.out, s, p)
          /\ s.names \subseteq q.sync /\ q.quorum \in Nat /\ q.confirmed \in Int
          /\ q.numsync \in Nat /\ Min2(q.numsync, q.confirmed) <= Certain(q) /\ Certain(q) <= s.num
          /\ Min2(q.numsync, q.confirmed) \in Int /\ Certain(q) \in Int
          /\ s.num \in Nat
      BY <1>3, SteadyFields
    <2>2. Steady(q, s)
      BY <1>3 DEF Keeps
    <2>3. n \in Nat /\ Cardinality(s.have \cap voters) \in Nat
      BY FiniteNames, Fewer
    <2> HIDE DEF n
    <2>4. CASE reset
      <3>1. q.quorum = 0 /\ same
        BY <2>2, <2>4 DEF Steady, Grows
      <3>2. \/ r = Raise(q, "QuorumError")
            \/ r = Yield([q EXCEPT !.leader = q.leader, !.quorum = 0, !.voters = {}, !.out = Merged(q.out, restart)], t)
        BY <2>1, <2>4, <3>1 DEF QuorumUpdate
      <3>3. CASE r = Raise(q, "QuorumError")
        <4>1. r.exit = "QuorumError"
          BY <2>1, <3>3 DEF Raise, Res
        <4> QED
          BY <1>1, <4>1 DEF Keeps, Live, Raised
      <3>4. CASE r = Yield([q EXCEPT !.leader = q.leader, !.quorum = 0, !.voters = {}, !.out = Merged(q.out, restart)], t)
        <4>1. PICK z : z = [q EXCEPT !.leader = q.leader, !.quorum = 0, !.voters = {}, !.out = Merged(q.out, restart)]
          OBVIOUS
        <4>2. /\ z.out = Merged(q.out, restart) /\ z.exit = "running"
              /\ z = [leader |-> z.leader, quorum |-> z.quorum, voters |-> z.voters,
                      numsync |-> z.numsync, sync |-> z.sync, confirmed |-> z.confirmed,
                      active |-> z.active, wanted |-> z.wanted, leader_wanted |-> z.leader_wanted,
                      out |-> z.out, exit |-> z.exit]
          BY <2>1, <4>1 DEF Res
        <4>3. restart \in Trans /\ restart.type = "restart"
          BY <2>1, ResFields DEF Trans, Transition
        <4> HIDE DEF restart, t
        <4>4. Ends(z.out) /\ Fits(z.out, s, p)
          BY <1>3, <2>1, <4>2, <4>3, RestartFits DEF Live
        <4>5. Dead(z, s, p)
          BY <4>2, <4>4 DEF Dead, Live
        <4>6. Dead(Yield(z, t), s, p)
          BY <4>2, <4>5, DeadYields
        <4>7. Dead(r, s, p)
          BY <3>4, <4>1, <4>6
        <4> QED
          BY <1>1, <4>7, DeadKeeps DEF Dead
      <3> QED
        BY <3>2, <3>3, <3>4
    <2>5. CASE ~reset
      <3>1. quor = n - Min2(q.numsync, q.confirmed) /\ vote = voters
        BY <1>3, <2>1, <2>3, <2>5 DEF Max2, Min2, n
      <3>2. s.names # {}
        BY <2>2, <2>5 DEF Steady, Grows
      <3>3. q.sync \subseteq voters /\ voters \subseteq s.active /\ Covers(voters, q.sync, q.numsync, s)
            /\ Certain(q) <= Cardinality(s.have \cap voters)
        BY <1>3
      <3>4. voters # {}
        BY <2>1, <3>2, <3>3
      <3> HIDE DEF quor, vote, more, reset
      <3>5. \/ r = Raise(q, "QuorumError")
            \/ r = q /\ quor = q.quorum /\ voters = q.voters
            \/ quorum >= 0 /\ ~same /\ r = Yield([q EXCEPT !.leader = q.leader, !.quorum = quor, !.voters = voters, !.out = q.out], t)
        <4>1. same => voters = q.voters /\ quor = q.quorum /\ q.voters # {}
          BY <3>1, <3>4
        <4>2. \/ r = Raise(q, "QuorumError")
              \/ same /\ r = q
              \/ quorum >= 0 /\ ~(same /\ q.voters # {}) /\ r = Yield([q EXCEPT !.leader = q.leader, !.quorum = quor, !.voters = vote, !.out = hint], t)
          BY <2>1 DEF QuorumUpdate, reset, quor, vote, more
        <4> QED
          BY <3>1, <4>1, <4>2
      <3>6. CASE r = Raise(q, "QuorumError")
        <4>1. r.exit = "QuorumError"
          BY <2>1, <3>6 DEF Raise, Res
        <4> QED
          BY <1>1, <4>1 DEF Keeps, Live, Raised
      <3>7. CASE r = q /\ quor = q.quorum /\ voters = q.voters
        BY <1>3, <2>1, <2>3, <3>1, <3>7 DEF n, Voted
      <3>8. CASE quorum >= 0 /\ ~same /\ r = Yield([q EXCEPT !.leader = q.leader, !.quorum = quor, !.voters = voters, !.out = q.out], t)
        <4>1. PICK z : z = QuorumTo(q, quor, voters, q.out)
          OBVIOUS
        <4>0. quor \in Nat
          <5>1. more \in Nat
            BY <2>1 DEF more, Max2
          <5>2. quor = quorum + more
            BY <2>5 DEF quor
          <5> QED
            BY <3>8, <5>1, <5>2
        <4>2. /\ z \in Res(p) /\ z.out = q.out /\ z.exit = q.exit /\ z.leader = q.leader
              /\ z.quorum = quor /\ z.voters = voters /\ z.numsync = q.numsync
              /\ z.sync = q.sync /\ z.active = q.active
          BY <2>1, <4>0, <4>1, QuorumChanged
        <4>3. z.confirmed = q.confirmed /\ z.wanted = q.wanted
          BY <2>1, <4>1 DEF QuorumTo, Res
        <4>4. r = Yield(z, t)
          BY <3>8, <4>1 DEF QuorumTo
        <4>5. t \in Trans /\ t.type = "quorum" /\ t.leader = p /\ t.num = quor /\ t.names = voters
          BY <2>1, <3>1, <4>0, ResFields DEF Trans, Transition
        <4> HIDE DEF t, same, hint
        <4>6. CASE ~Overlap(z)
          <5>1. r = Raise(z, "QuorumError")
            BY <4>4, <4>6 DEF Yield
          <5>2. r.exit = "QuorumError"
            BY <4>2, <5>1 DEF Raise, Res
          <5> QED
            BY <1>1, <5>2 DEF Keeps, Live, Raised
        <4>7. CASE Overlap(z)
          <5>1. Few(t) = Min2(q.numsync, q.confirmed)
            BY <2>1, <2>3, <3>1, <4>5 DEF Few, n
          <5>2. FitQuorum(t, s, p)
            BY <2>1, <2>3, <3>2, <3>3, <4>5, <5>1 DEF FitQuorum
          <5>3. Covered(z.out, Len(z.out), t, s)
            BY <2>2, <3>3, <4>2, <4>5 DEF Steady, Yielded, Covered, Covers
          <5>4. \A i \in 1..Len(z.out) : z.out[i].type = "sync" => z.out[i].names \subseteq t.names
            BY <2>2, <3>3, <4>2, <4>5 DEF Steady, Yielded
          <5>5. Yielded(z, s) /\ Live(z) /\ Fits(z.out, s, p)
            BY <1>3, <2>1, <2>2, <4>2 DEF Steady, Yielded, Live
          <5>6. /\ Live(r) /\ Fits(r.out, s, p) /\ Yielded(r, s)
                /\ r.sync = q.sync /\ r.voters = voters /\ r.numsync = q.numsync /\ r.active = q.active
                /\ r.quorum = quor /\ r.confirmed = q.confirmed /\ r.wanted = q.wanted
            BY <3>3, <4>2, <4>3, <4>4, <4>5, <4>7, <5>2, <5>3, <5>4, <5>5, YieldKeeps
          <5>7. Grows(r, s)
            BY <2>2, <3>2, <3>3, <3>4, <5>6 DEF Steady, Grows
          <5>8. Certain(r) <= Cardinality(s.have \cap (r.sync \cup r.voters))
            <6>1. r.sync \cup r.voters = voters /\ Certain(r) = Certain(q)
              BY <3>3, <5>6 DEF Certain
            <6> QED
              BY <3>3, <6>1
          <5>9. Cardinality(r.voters) - r.quorum <= Certain(q)
            BY <2>1, <2>3, <3>1, <5>6 DEF n
          <5> QED
            BY <1>1, <1>3, <5>6, <5>7, <5>8, <5>9 DEF Keeps, Steady, Voted
        <4> QED
          BY <4>6, <4>7
      <3> QED
        BY <3>5, <3>6, <3>7, <3>8
    <2> QED
      BY <2>4, <2>5
  <1> QED
    BY <1>2, <1>3

(* Those listed may vote.                                                  *)
LEMMA SyncedVote ==
    ASSUME NEW p \in Nodes, NEW q, NEW from, NEW s, Calm(s, p), Keeps(q, p, from, s), Live(q),
           Certain(q) <= Cardinality(s.have \cap q.sync),
           NEW r, r = QuorumUpdate(q, Cardinality(q.sync) - q.numsync, q.sync, NoNode, TRUE)
    PROVE  Keeps(r, p, from, s) /\ (Live(r) => Voted(r, q, q.sync))
  <1>1. /\ q.numsync \in Nat /\ q.sync \subseteq s.active /\ s.active \in SUBSET Nodes
    BY SteadyFields
  <1>2. PICK voters \in SUBSET Nodes : voters = q.sync
    BY <1>1
  <1>3. PICK quorum \in Int : quorum = Cardinality(voters) - q.numsync
    BY <1>1, FiniteNames
  <1>4. PICK adjust \in BOOLEAN : adjust = TRUE
    OBVIOUS
  <1>5. Live(q) => /\ q.sync \subseteq voters /\ voters \subseteq s.active
                   /\ Covers(voters, q.sync, q.numsync, s)
                   /\ Certain(q) <= Cardinality(s.have \cap voters)
                   /\ adjust = TRUE \/ q.numsync <= q.confirmed
                   /\ quorum = Cardinality(voters) - q.numsync
    BY <1>1, <1>2, <1>3, <1>4 DEF Covers
  <1>6. PICK y : y = QuorumUpdate(q, quorum, voters, NoNode, adjust)
    OBVIOUS
  <1>7. Keeps(y, p, from, s) /\ (Live(y) => Voted(y, q, voters))
    BY <1>5, <1>6, VotesKeep
  <1>8. y = r
    BY <1>2, <1>3, <1>4, <1>6
  <1> QED
    BY <1>2, <1>7, <1>8

(* More names.                                                             *)
LEMMA NamesKeep ==
    ASSUME NEW p \in Nodes, NEW q, NEW from, NEW s, Calm(s, p), Keeps(q, p, from, s),
           NEW names \in SUBSET (Nodes \ {p}), NEW numsync \in Int,
           Live(q) => /\ q.sync \subseteq names /\ names \subseteq s.active /\ names # {}
                      /\ numsync = Min2(s.wanted, Cardinality(names))
                      /\ Covers(q.voters, names, numsync, s),
           NEW r, r = SyncUpdate(q, numsync, names)
    PROVE  /\ Keeps(r, p, from, s)
           /\ Live(r) => /\ Live(q) /\ r.voters = q.voters /\ r.sync = names /\ r.numsync = numsync
                         /\ r.confirmed = q.confirmed /\ r.quorum = q.quorum
  <1>1. Good(r, p, from)
    BY SyncUpdateGood DEF Keeps
  <1>2. CASE ~Live(q)
    <2>1. Dead(r, s, p)
      BY <1>2, DeadKeeps, DeadSync
    <2> QED
      BY <1>1, <2>1, DeadKeeps DEF Dead
  <1>3. CASE Live(q)
    <2> DEFINE t == Transition("sync", q.leader, numsync, names)
    <2>1. /\ q \in Res(p) /\ q.leader = p /\ q.exit = "running" /\ q.out \in Seq(Trans) /\ Fits(q.out, s, p)
          /\ s.names \subseteq q.sync /\ Certain(q) \in Int /\ s.wanted \in Nat
      BY <1>3, SteadyFields
    <2>2. Steady(q, s)
      BY <1>3 DEF Keeps
    <2>3. Cardinality(names) \in Nat /\ numsync \in Nat
      BY <1>3, <2>1, FiniteNames DEF Min2
    <2>4. \/ r = Raise(q, "QuorumError")
          \/ r = Yield(SyncTo(q, numsync, names), t)
      BY <2>1 DEF SyncUpdate, SyncTo
    <2>5. CASE r = Raise(q, "QuorumError")
      <3>1. r.exit = "QuorumError"
        BY <2>1, <2>5 DEF Raise, Res
      <3> QED
        BY <1>1, <3>1 DEF Keeps, Live, Raised
    <2>6. CASE r = Yield(SyncTo(q, numsync, names), t)
      <3>1. PICK z : z = SyncTo(q, numsync, names)
        OBVIOUS
      <3>2. /\ z \in Res(p) /\ z.out = q.out /\ z.exit = q.exit /\ z.leader = q.leader
            /\ z.quorum = q.quorum /\ z.voters = q.voters /\ z.numsync = numsync
            /\ z.sync = names /\ z.active = q.active
        BY <2>1, <3>1, SyncChanged
      <3>3. z.confirmed = q.confirmed /\ z.wanted = q.wanted
        BY <2>1, <3>1 DEF SyncTo, Res
      <3>4. t \in Trans /\ t.type = "sync" /\ t.num = numsync /\ t.names = names
        BY <2>1, <2>3, ResFields DEF Trans, Transition
      <3> HIDE DEF t
      <3>5. CASE ~Overlap(z)
        <4>1. r = Raise(z, "QuorumError")
          BY <2>6, <3>1, <3>5 DEF Yield
        <4>2. r.exit = "QuorumError"
          BY <3>2, <4>1 DEF Raise, Res
        <4> QED
          BY <1>1, <4>2 DEF Keeps, Live, Raised
      <3>6. CASE Overlap(z)
        <4>1. FitSync(t, s)
          BY <1>3, <2>1, <3>4 DEF FitSync
        <4>2. \A i \in 1..Len(z.out) : z.out[i].type = "sync" => z.out[i].names \subseteq t.names
          BY <1>3, <2>2, <3>2, <3>4 DEF Steady, Yielded
        <4>3. Live(z) /\ Fits(z.out, s, p)
          BY <1>3, <2>1, <3>2 DEF Live
        <4>4. /\ Live(r) /\ Fits(r.out, s, p) /\ Yielded(r, s)
              /\ r.sync = names /\ r.voters = q.voters /\ r.numsync = numsync /\ r.active = q.active
              /\ r.quorum = q.quorum /\ r.confirmed = q.confirmed /\ r.wanted = q.wanted
          BY <2>6, <3>1, <3>2, <3>3, <3>4, <3>6, <4>1, <4>2, <4>3, YieldKeeps
        <4>5. Grows(r, s)
          BY <1>3, <2>1, <2>2, <4>4 DEF Steady, Grows
        <4>6. Certain(r) <= Cardinality(s.have \cap (r.sync \cup r.voters))
          <5>1. s.have \cap (q.sync \cup q.voters) \subseteq s.have \cap (r.sync \cup r.voters)
            BY <1>3, <4>4
          <5>2. s.have \cap (r.sync \cup r.voters) \in SUBSET Nodes
            BY DEF Calm
          <5>3. /\ Cardinality(s.have \cap (q.sync \cup q.voters)) \in Nat
                /\ Cardinality(s.have \cap (r.sync \cup r.voters)) \in Nat
                /\ Cardinality(s.have \cap (q.sync \cup q.voters)) <= Cardinality(s.have \cap (r.sync \cup r.voters))
            BY <5>1, <5>2, Fewer
          <5>4. Certain(r) = Certain(q) /\ Certain(q) <= Cardinality(s.have \cap (q.sync \cup q.voters))
            BY <2>2, <4>4 DEF Certain, Steady
          <5> QED
            BY <2>1, <5>3, <5>4
        <4> QED
          BY <1>1, <1>3, <4>4, <4>5, <4>6 DEF Keeps, Steady
      <3> QED
        BY <3>5, <3>6
    <2> QED
      BY <2>4, <2>5, <2>6
  <1> QED
    BY <1>2, <1>3

LEMMA AssertKeeps ==
    ASSUME NEW p \in Nodes, NEW q, NEW from, NEW s, Keeps(q, p, from, s), NEW cond,
           NEW r, r = AssertThat(q, cond)
    PROVE  Keeps(r, p, from, s) /\ (Live(r) => r = q /\ cond)
  <1>1. q \in Res(p) /\ Good(r, p, from)
    BY AssertGood DEF Keeps, Good
  <1>2. CASE r = Raise(q, "AssertionError")
    <2>1. r.exit = "AssertionError"
      BY <1>1, <1>2 DEF Raise, Res
    <2> QED
      BY <1>1, <2>1 DEF Keeps, Live, Raised
  <1>3. CASE r = q /\ (q.exit # "running" \/ cond)
    BY <1>3 DEF Live
  <1> QED
    BY <1>2, <1>3 DEF AssertThat

-----------------------------------------------------------------------------
(* Nobody listed is gone, so no node is dropped.                           *)

(* Voters that are not listed yet are listed.                              *)
LEMMA SyncToLivingKeeps ==
    ASSUME NEW p \in Nodes, NEW q, NEW from, NEW s, Calm(s, p), Keeps(q, p, from, s),
           NEW r, r = SyncToLivingVoters(EvictDeadVoters(q))
    PROVE  Keeps(r, p, from, s)
  <1>1. Good(r, p, from)
    BY EvictGood, SyncToLivingGood DEF Keeps
  <1>2. CASE ~Live(q)
    BY <1>1, <1>2, DeadKeeps, StepsDead
  <1>3. CASE Live(q)
    <2> DEFINE add == (q.voters \cap q.active) \ q.sync
               all == q.sync \cup add
    <2>1. /\ q.active = s.active /\ q.sync \subseteq s.active /\ q.voters \subseteq s.active
          /\ s.active \in SUBSET (Nodes \ {p}) /\ q.numsync \in Nat /\ s.wanted \in Nat
          /\ q.numsync <= Cardinality(q.sync) /\ q.wanted = s.wanted
      BY <1>3, SteadyFields DEF Calm
    <2>2. EvictDeadVoters(q) = q
      BY <2>1 DEF EvictDeadVoters
    <2>3. CASE add = {}
      BY <2>2, <2>3 DEF SyncToLivingVoters
    <2>4. CASE add # {}
      <3>1. r = SyncUpdate(q, q.numsync, all)
        BY <2>2, <2>4 DEF SyncToLivingVoters
      <3>2. q.numsync = s.wanted
        BY <1>3, <2>4 DEF Keeps, Steady, Grows, Covers
      <3>3. Cardinality(q.sync) \in Nat /\ Cardinality(all) \in Nat /\ Cardinality(q.sync) <= Cardinality(all)
        BY <2>1, Fewer
      <3>4. q.numsync = Min2(s.wanted, Cardinality(all))
        BY <2>1, <3>2, <3>3 DEF Min2
      <3>5. /\ all \in SUBSET (Nodes \ {p}) /\ all \subseteq s.active /\ q.sync \subseteq all /\ all # {}
            /\ Covers(q.voters, all, q.numsync, s)
        BY <2>1, <2>4 DEF Covers
      <3>6. PICK num \in Int : num = q.numsync
        BY <2>1
      <3> HIDE DEF all
      <3> QED
        BY <3>1, <3>4, <3>5, <3>6, NamesKeep
    <2> QED
      BY <2>3, <2>4
  <1> QED
    BY <1>2, <1>3

(* Those listed that may not vote yet may vote.                            *)
LEMMA LetSyncedVoteKeeps ==
    ASSUME NEW p \in Nodes, NEW q, NEW from, NEW s, Calm(s, p), Keeps(q, p, from, s),
           NEW r, r = DropNonVoters(LetSyncedVote(DropDeadFromSync(q))),
           q.voters \subseteq q.sync
    PROVE  Keeps(r, p, from, s)
  <1>1. Good(r, p, from)
    BY DropDeadGood, SyncedVoteGood, DropNonVotersGood DEF Keeps
  <1>2. CASE ~Live(q)
    BY <1>1, <1>2, DeadKeeps, StepsDead
  <1>3. CASE Live(q)
    <2> DEFINE all == q.voters \cup (q.sync \cap q.active)
    <2>1. /\ q.active = s.active /\ q.sync \subseteq s.active
          /\ s.active \in SUBSET Nodes /\ q.numsync \in Nat
      BY <1>3, SteadyFields
    <2>2. DropDeadFromSync(q) = q /\ all = q.sync
      BY <2>1 DEF DropDeadFromSync
    <2>3. CASE q.voters = q.sync
      BY <2>2, <2>3 DEF LetSyncedVote, DropNonVoters
    <2>4. CASE q.voters # q.sync
      <3>1. PICK b : b = QuorumUpdate(q, Cardinality(q.sync) - q.numsync, q.sync, NoNode, TRUE)
        OBVIOUS
      <3>2. r = DropNonVoters(b)
        BY <2>2, <2>4, <3>1 DEF LetSyncedVote
      <3>4. Certain(q) <= Cardinality(s.have \cap q.sync)
        <4>1. q.sync \cup q.voters = q.sync
          OBVIOUS
        <4> QED
          BY <1>3, <4>1 DEF Keeps, Steady
      <3>5. Keeps(b, p, from, s) /\ (Live(b) => b.voters = q.sync /\ b.sync = q.sync)
        BY <1>3, <3>1, <3>4, SyncedVote DEF Voted
      <3>6. CASE Live(b)
        BY <3>2, <3>5, <3>6 DEF DropNonVoters
      <3>7. CASE ~Live(b)
        BY <1>1, <3>2, <3>5, <3>7, DeadKeeps, StepsDead
      <3> QED
        BY <3>6, <3>7
    <2> QED
      BY <2>3, <2>4
  <1> QED
    BY <1>2, <1>3

(* The quorum is lowered by the nodes that are certain now.                *)
LEMMA SafetyMarginKeeps ==
    ASSUME NEW p \in Nodes, NEW q, NEW from, NEW s, Calm(s, p), Keeps(q, p, from, s),
           Live(q) => q.voters = q.sync,
           NEW r, r = SafetyMargin(q)
    PROVE  Keeps(r, p, from, s) /\ (Live(r) => r.voters = r.sync)
  <1>1. Good(r, p, from)
    BY SafetyMarginGood DEF Keeps
  <1> DEFINE nodes == Cardinality(q.voters \cup q.sync)
             certain == q.quorum + Min2(q.numsync, q.confirmed) - nodes
             nominal == q.quorum + q.numsync - nodes
             first == certain > 0 /\ q.numsync > q.wanted
             second == certain > 0 /\ q.numsync <= q.wanted
             third == certain <= 0 /\ nominal > 0 /\ q.numsync = q.wanted /\ q.numsync > q.confirmed
  <1>2. \/ first /\ r = SyncUpdate(q, Max2(q.wanted, Cardinality(q.voters) - q.quorum), q.sync)
        \/ r = LowerQuorum(q)
        \/ r = q
    BY DEF SafetyMargin
  <1>3. CASE ~Live(q)
    <2>1. Dead(r, s, p)
      BY <1>2, <1>3, DeadKeeps, StepsDead, DeadSync
    <2> QED
      BY <1>1, <2>1, DeadKeeps DEF Dead
  <1>4. CASE Live(q)
    <2>1. /\ q.numsync \in Nat /\ q.wanted = s.wanted /\ s.wanted \in Nat /\ q.numsync <= s.wanted
          /\ q.sync \subseteq s.active /\ s.active \in SUBSET Nodes
      BY <1>4, SteadyFields
    <2>2. ~first
      BY <2>1
    <2>3. CASE r = q
      BY <1>4, <2>3
    <2>4. CASE r = LowerQuorum(q)
      <3>1. r = QuorumUpdate(q, Cardinality(q.sync) - q.numsync, q.sync, NoNode, TRUE)
        BY <1>4, <2>4 DEF LowerQuorum
      <3>2. Certain(q) <= Cardinality(s.have \cap q.sync)
        <4>1. q.sync \cup q.voters = q.sync
          BY <1>4
        <4> QED
          BY <1>4, <4>1 DEF Keeps, Steady
      <3>3. Keeps(r, p, from, s) /\ (Live(r) => Voted(r, q, q.sync))
        BY <1>4, <3>1, <3>2, SyncedVote
      <3> QED
        BY <3>3 DEF Voted
    <2> QED
      BY <1>2, <2>2, <2>3, <2>4
  <1> QED
    BY <1>3, <1>4

LEMMA NonSteadyKeeps ==
    ASSUME NEW p \in Nodes, NEW q, NEW from, NEW s, Calm(s, p), Keeps(q, p, from, s),
           NEW r, r = HandleNonSteadyCases(q)
    PROVE  Keeps(r, p, from, s) /\ (Live(r) => r.voters = r.sync)
  <1>1. PICK a : a = CASE q.sync \subseteq q.voters /\ q.sync # q.voters ->
                              SyncToLivingVoters(EvictDeadVoters(q))
                       [] q.voters \subseteq q.sync /\ q.sync # q.voters ->
                              DropNonVoters(LetSyncedVote(DropDeadFromSync(q)))
                       [] OTHER -> q
    OBVIOUS
  <1>2. Keeps(a, p, from, s)
    <2>1. \/ a = SyncToLivingVoters(EvictDeadVoters(q))
          \/ q.voters \subseteq q.sync /\ a = DropNonVoters(LetSyncedVote(DropDeadFromSync(q)))
          \/ a = q
      BY <1>1
    <2> QED
      BY <2>1, SyncToLivingKeeps, LetSyncedVoteKeeps
  <1>3. PICK b : b = AssertVotersSynced(a)
    OBVIOUS
  <1>4. PICK cond : cond = (a.voters = a.sync)
    OBVIOUS
  <1>5. b = AssertThat(a, cond)
    BY <1>3, <1>4 DEF AssertVotersSynced
  <1>6. Keeps(b, p, from, s) /\ (Live(b) => b = a /\ cond)
    BY <1>2, <1>5, AssertKeeps
  <1>7. r = SafetyMargin(b)
    BY <1>1, <1>3 DEF HandleNonSteadyCases
  <1> QED
    BY <1>4, <1>6, <1>7, SafetyMarginKeeps

LEMMA LateStepsDead ==
    ASSUME NEW p \in Nodes, NEW q, NEW from, NEW s, Good(q, p, from), Dead(q, s, p)
    PROVE  /\ Dead(RemoveGoneNodes(q), s, p)
           /\ Dead(AddNewNodes(q), s, p)
           /\ Dead(HandleReplicationFactorChange(q), s, p)
  <1>1. Dead(RemoveAllNodes(q), s, p)
    BY DeadUpdate, DeadSync DEF RemoveAllNodes
  <1>2. Dead(RemoveWithinQuorum(q), s, p)
    BY DeadUpdate, DeadSync DEF RemoveWithinQuorum, RemoveFromVoters
  <1>3. ASSUME NEW z, Dead(z, s, p) PROVE Dead(RemoveTheRest(z), s, p)
    <2> DEFINE rest == z.sync \ z.active
               numsync == z.numsync - Cardinality(rest)
               voters == z.voters \ rest
               decrease == numsync - Min2(z.wanted, Cardinality(z.sync \ rest))
               quorum == IF decrease # 0 THEN Min2(decrease, Cardinality(voters) - 1) ELSE 0
    <2>1. PICK cond : cond = (z.quorum = 0)
      OBVIOUS
    <2>2. PICK a : a = AssertThat(z, cond)
      OBVIOUS
    <2>3. PICK b : b = QuorumUpdate(a, quorum, voters, NoNode, FALSE)
      OBVIOUS
    <2>4. Dead(a, s, p)
      BY <1>3, <2>2, DeadAsserts
    <2>5. Dead(b, s, p)
      BY <2>3, <2>4, DeadUpdate
    <2>6. Dead(SyncUpdate(b, numsync, z.sync \ rest), s, p)
      BY <2>5, DeadSync
    <2> QED
      BY <1>3, <2>1, <2>2, <2>3, <2>6 DEF RemoveTheRest
  <1>4. Dead(RemoveGoneNodes(q), s, p)
    <2>1. \/ RemoveGoneNodes(q) = q
          \/ RemoveGoneNodes(q) = RemoveAllNodes(q)
          \/ RemoveGoneNodes(q) = RemoveTheRest(q)
          \/ RemoveGoneNodes(q) = RemoveTheRest(RemoveWithinQuorum(q))
      BY DEF RemoveGoneNodes
    <2> QED
      BY <1>1, <1>2, <1>3, <2>1
  <1>5. Dead(AddNewNodes(q), s, p)
    <2>1. Dead(AddUpToFactor(q), s, p)
      BY DeadSync, StepsDead DEF AddUpToFactor
    <2>2. \A z : Dead(z, s, p) => Dead(AddTheRest(z), s, p)
      BY DeadSync, StepsDead DEF AddTheRest
    <2> QED
      BY <2>1, <2>2 DEF AddNewNodes
  <1>6. Dead(HandleReplicationFactorChange(q), s, p)
    <2>1. \A n : Dead(MatchQuorum(SyncUpdate(q, n, q.sync)), s, p)
      BY DeadSync, DeadUpdate DEF MatchQuorum
    <2>2. \A by, n : Dead(SyncUpdate(ReduceQuorum(q, by), n, q.sync), s, p)
      BY DeadSync, DeadUpdate DEF ReduceQuorum
    <2> DEFINE target == Min2(q.wanted, Cardinality(q.sync))
    <2>3. target \in Int /\ q.numsync \in Int
      BY GoodFields, Counted, Smaller
    <2> HIDE DEF target
    <2>4. target = q.numsync \/ target > q.numsync \/ target < q.numsync
      BY <2>3
    <2>5. \/ HandleReplicationFactorChange(q) = q
          \/ HandleReplicationFactorChange(q) = MatchQuorum(SyncUpdate(q, target, q.sync))
          \/ HandleReplicationFactorChange(q)
               = SyncUpdate(ReduceQuorum(q, q.numsync - target), target, q.sync)
      BY <2>3, <2>4 DEF HandleReplicationFactorChange, target
    <2> QED
      BY <2>1, <2>2, <2>5
  <1> QED
    BY <1>4, <1>5, <1>6

(* The n elements of S that an enumeration of S puts below n.              *)
LEMMA FirstCount ==
    ASSUME NEW S, NEW c \in Nat, NEW n \in 0..c,
           NEW f \in [S -> 0..(c - 1)],
           \A x, y \in S : f[x] = f[y] => x = y,
           \A k \in 0..(c - 1) : \E x \in S : f[x] = k,
           NEW L, L = {x \in S : f[x] < n}
    PROVE  Cardinality(L) = n
  <1>1. PICK g : g = [x \in L |-> f[x]]
    OBVIOUS
  <1>2. \A x \in L : x \in S /\ f[x] \in 0..(n - 1) /\ g[x] = f[x]
    BY <1>1
  <1>3. g \in [L -> 0..(n - 1)]
    BY <1>1, <1>2
  <1>4. \A x, y \in L : g[x] = g[y] => x = y
    BY <1>2
  <1>5. \A k \in 0..(n - 1) : \E x \in L : g[x] = k
    <2>1. \A k \in 0..(n - 1) : k \in 0..(c - 1) /\ k < n
      OBVIOUS
    <2>2. \A k \in 0..(n - 1) : \E x \in S : f[x] = k /\ k < n
      BY <2>1
    <2> QED
      BY <1>2, <2>2
  <1>6. IsFiniteSet(0..(n - 1)) /\ Cardinality(0..(n - 1)) = n
    <2>1. n \in Int /\ n >= 0
      OBVIOUS
    <2>2. IsFiniteSet(0..(n - 1)) /\ Cardinality(0..(n - 1)) = IF 0 > n - 1 THEN 0 ELSE (n - 1) - 0 + 1
      BY <2>1, FS_Interval
    <2> QED
      BY <2>1, <2>2
  <1>7. g \in Injection(L, 0..(n - 1)) /\ g \in Surjection(L, 0..(n - 1))
    BY <1>3, <1>4, <1>5 DEF Injection, IsInjective, Surjection
  <1> QED
    BY <1>6, <1>7, FS_Injection

(* sorted(S)[:n] has n elements: how many are smaller enumerates S.        *)
LEMMA LowestCount ==
    ASSUME NEW S \in SUBSET Nodes, NEW n \in 0..Cardinality(S)
    PROVE  Cardinality(Lowest(S, n)) = n
  <1> DEFINE below(x) == {y \in S : y < x}
  <1>0. PICK c \in Nat : c = Cardinality(S)
    BY FiniteNames
  <1>1. c \in Nat /\ S \subseteq Int /\ \A x \in S : Cardinality(below(x)) \in Nat
    BY <1>0, FiniteNames, Fewer DEF Nodes
  <1>2. ASSUME NEW x \in S, NEW y \in S, x < y
        PROVE  Cardinality(below(x)) < Cardinality(below(y))
    <2>1. x \in below(y) /\ x \notin below(x) /\ below(x) \subseteq below(y)
      <3>1. x \in Int /\ y \in Int /\ \A z \in S : z \in Int
        BY <1>1
      <3>2. \A z \in S : z < x => z < y
        BY <1>2, <3>1
      <3>3. ~(x < x)
        BY <3>1
      <3> QED
        BY <1>2, <3>2, <3>3
    <2>2. below(y) \in SUBSET Nodes /\ below(x) \in SUBSET below(y) /\ below(x) # below(y)
      BY <2>1
    <2> HIDE DEF below
    <2> QED
      BY <2>2, Fewer
  <1>3. ASSUME NEW x \in S
        PROVE  Cardinality(below(x)) \in 0..(c - 1)
    <2>1. below(x) \in SUBSET S /\ below(x) # S
      BY <1>1
    <2> HIDE DEF below
    <2>2. Cardinality(below(x)) \in Nat /\ Cardinality(below(x)) < c
      BY <1>0, <2>1, Fewer
    <2> QED
      BY <1>1, <2>2
  <1>4. Lowest(S, n) = {x \in S : Cardinality(below(x)) < n}
    BY DEF Lowest
  <1> HIDE DEF below
  <1>5. PICK f : f = [x \in S |-> Cardinality(below(x))]
    OBVIOUS
  <1>6. f \in [S -> 0..(c - 1)]
    BY <1>3, <1>5
  <1>7. \A x, y \in S : f[x] = f[y] => x = y
    <2>1. \A x, y \in S : x # y => x < y \/ y < x
      BY <1>1
    <2>2. \A x \in S : f[x] \in Nat /\ f[x] = Cardinality(below(x))
      BY <1>1, <1>5
    <2> QED
      BY <1>2, <2>1, <2>2
  <1>8. \A k \in 0..(c - 1) : \E x \in S : f[x] = k
    <2>1. IsFiniteSet(0..(c - 1)) /\ Cardinality(0..(c - 1)) = c
      <3>1. 0 \in Int /\ c - 1 \in Int
        BY <1>0
      <3>2. IsFiniteSet(0..(c - 1)) /\ Cardinality(0..(c - 1)) = IF 0 > c - 1 THEN 0 ELSE (c - 1) - 0 + 1
        BY <3>1, FS_Interval
      <3> QED
        BY <1>0, <3>2
    <2>2. f \in Injection(S, 0..(c - 1)) /\ IsFiniteSet(S)
      BY <1>6, <1>7, FiniteNames DEF Injection, IsInjective
    <2>3. f \in Surjection(S, 0..(c - 1))
      BY <1>0, <2>1, <2>2, FS_Injection
    <2> QED
      BY <2>3 DEF Surjection
  <1>9. Lowest(S, n) = {x \in S : f[x] < n}
    BY <1>4, <1>5
  <1>10. n \in 0..c
    BY <1>0
  <1> QED
    BY <1>6, <1>7, <1>8, <1>9, <1>10, FirstCount

-----------------------------------------------------------------------------
(* A generator about to start on what the configuration says, where the    *)
(* voters that the quorum lets be missing leave enough with what was       *)
(* acknowledged.                                                           *)
Backed(q, s) ==
    /\ q.sync = s.names
    /\ Cardinality(q.voters) - q.quorum <= Cardinality(s.have \cap q.voters)
Begins(q, s, p) ==
    /\ q \in Res(p) /\ q.exit = "running" /\ q.out = << >> /\ q.leader = p
    /\ Grows(q, s) /\ Backed(q, s) /\ q.numsync = s.num
    /\ Certain(q) <= Cardinality(s.have \cap q.sync)

LEMMA BeginsKeeps ==
    ASSUME NEW p \in Nodes, NEW s, Calm(s, p), NEW q, Begins(q, s, p)
    PROVE  Keeps(q, p, ViewOf(q), s) /\ Live(q)
  <1>1. q \in Res(p) /\ q.exit = "running" /\ q.out = << >> /\ q.leader = p
    BY DEF Begins
  <1>2. Good(q, p, ViewOf(q))
    <2>1. ViewOf(q) \in View
      BY <1>1, ResFields
    <2>2. Leads(q.out, p, ViewOf(q), ViewOf(q))
      BY <1>1, <2>1, NothingLeads
    <2> QED
      BY <1>1, <2>2 DEF Good
  <1>3. Live(q)
    BY <1>1 DEF Live, Ends
  <1>4. Fits(q.out, s, p)
    BY <1>1 DEF Fits
  <1>5. Yielded(q, s)
    BY <1>1 DEF Yielded, Begins, Backed
  <1>6. Certain(q) <= Cardinality(s.have \cap (q.sync \cup q.voters))
    <2>1. s.have \cap q.sync \subseteq s.have \cap (q.sync \cup q.voters)
      OBVIOUS
    <2>2. s.have \cap (q.sync \cup q.voters) \in SUBSET Nodes
      BY DEF Calm
    <2>3. /\ Cardinality(s.have \cap q.sync) \in Nat
          /\ Cardinality(s.have \cap (q.sync \cup q.voters)) \in Nat
          /\ Cardinality(s.have \cap q.sync) <= Cardinality(s.have \cap (q.sync \cup q.voters))
      BY <2>1, <2>2, Fewer
    <2>4. Certain(q) \in Int
      BY <1>1, ResFields DEF Certain, Min2
    <2> QED
      BY <2>3, <2>4 DEF Begins
  <1> QED
    BY <1>2, <1>3, <1>4, <1>5, <1>6 DEF Keeps, Steady, Begins

(* The try block: nothing to do, or the names in force say who may vote.   *)
LEMMA StartKeeps ==
    ASSUME NEW p \in Nodes, NEW s, Calm(s, p), NEW q, Begins(q, s, p),
           NEW r, r = AssertLeader(Recover(TryLeader(q)))
    PROVE  Keeps(r, p, ViewOf(q), s) /\ (Live(r) => Backed(r, s))
  <1>1. q \in Res(p) /\ q.exit = "running" /\ q.leader = p /\ q.leader_wanted = p
    BY ResFields DEF Begins
  <1>2. Keeps(q, p, ViewOf(q), s) /\ Live(q)
    BY BeginsKeeps
  <1>3. PICK b : b = Recover(TryLeader(q))
    OBVIOUS
  <1>4. PICK cond : cond = (b.leader = b.leader_wanted)
    OBVIOUS
  <1>5. r = AssertThat(b, cond)
    BY <1>3, <1>4 DEF AssertLeader
  <1>6. CASE Overlap(q)
    <2>1. b = q
      BY <1>1, <1>3, <1>6 DEF TryLeader, Recover
    <2> QED
      BY <1>2, <1>5, <2>1, AssertKeeps DEF Begins
  <1>7. CASE ~Overlap(q)
    <2>1. PICK e : e = Raise(q, "QuorumError")
      OBVIOUS
    <2>2. b = Recover(e)
      BY <1>1, <1>3, <1>7, <2>1 DEF TryLeader
    <2>3. e.exit = "QuorumError" /\ e.sync = q.sync /\ e.numsync = q.numsync /\ [e EXCEPT !.exit = "running"] = q
      BY <1>1, <2>1 DEF Raise, Res
    <2>4. b = QuorumUpdate(q, Cardinality(q.sync) - q.numsync, q.sync, NoNode, TRUE)
      BY <2>2, <2>3 DEF Recover
    <2>5. Keeps(b, p, ViewOf(q), s) /\ (Live(b) => Voted(b, q, q.sync))
      BY <1>2, <2>4, SyncedVote DEF Begins
    <2>6. Keeps(r, p, ViewOf(q), s) /\ (Live(r) => r = b)
      BY <1>5, <2>5, AssertKeeps
    <2>7. ASSUME Live(r) PROVE Backed(r, s)
      <3>1. Voted(r, q, q.sync)
        BY <2>5, <2>6, <2>7
      <3>2. r \in Res(p)
        BY <2>6 DEF Keeps, Good
      <3>3. Cardinality(r.voters) \in Int /\ r.quorum \in Int
        BY <3>2, ResFields, Counted
      <3>4. Certain(q) \in Int
        BY <1>1, ResFields DEF Certain, Min2
      <3>5. Cardinality(s.have \cap q.sync) \in Int
        <4>1. s.have \cap q.sync \in SUBSET Nodes
          BY DEF Calm
        <4> QED
          BY <4>1, Counted
      <3> QED
        BY <3>1, <3>3, <3>4, <3>5 DEF Voted, Backed, Begins
    <2> QED
      BY <2>6, <2>7
  <1> QED
    BY <1>6, <1>7

(* What is derived from the quorum is no more than what the voters have.   *)
LEMMA AdjustKeeps ==
    ASSUME NEW p \in Nodes, NEW q, NEW from, NEW s, Calm(s, p), Keeps(q, p, from, s),
           Live(q) => Backed(q, s),
           NEW r, r = AdjustConfirmed(q)
    PROVE  Keeps(r, p, from, s)
  <1>1. Good(r, p, from)
    BY AdjustConfirmedGood DEF Keeps
  <1>2. CASE r = q
    BY <1>2
  <1>3. CASE r # q
    <2> DEFINE some == q.sync \cap q.active
               num == Min2(Cardinality(some), Cardinality(q.voters) - q.quorum)
    <2>1. q.exit = "running" /\ q.confirmed = 0 /\ some # {} /\ r = [q EXCEPT !.confirmed = num]
      BY <1>3 DEF AdjustConfirmed
    <2>2. q \in Res(p)
      BY DEF Keeps, Good
    <2> HIDE DEF num
    <2>3. /\ r.out = q.out /\ r.exit = q.exit /\ r.confirmed = num /\ r.wanted = q.wanted
          /\ r.active = q.active /\ r.voters = q.voters /\ r.sync = q.sync
          /\ r.numsync = q.numsync /\ r.quorum = q.quorum
      BY <2>1, <2>2 DEF Res
    <2>4. ASSUME Live(r) PROVE Steady(r, s)
      <3>1. Live(q)
        BY <2>3, <2>4 DEF Live
      <3>2. Steady(q, s) /\ Backed(q, s)
        BY <3>1 DEF Keeps
      <3>3. q.sync = s.names /\ s.names \subseteq q.active /\ some = s.names /\ s.names # {} /\ q.wanted \in Int
        BY <2>1, <2>2, <3>2, ResFields DEF Backed, Calm, Steady, Grows
      <3>4. Cardinality(s.names) \in Int /\ Cardinality(q.voters) \in Int /\ q.quorum \in Int
        BY <2>2, <3>3, ResFields, Counted
      <3>5. num \in Int /\ num <= Cardinality(s.names) /\ num <= Cardinality(q.voters) - q.quorum
        BY <3>3, <3>4 DEF num, Min2
      <3>6. Grows(r, s)
        BY <2>3, <3>2, <3>3, <3>5 DEF Grows, Steady
      <3>7. Yielded(r, s)
        BY <2>3, <3>2 DEF Yielded, Steady
      <3>8. Certain(r) <= Cardinality(s.have \cap (r.sync \cup r.voters))
        <4>1. s.have \cap q.voters \subseteq s.have \cap (q.sync \cup q.voters)
          OBVIOUS
        <4>2. s.have \cap (q.sync \cup q.voters) \in SUBSET Nodes
          BY DEF Calm
        <4>3. /\ Cardinality(s.have \cap q.voters) \in Nat
              /\ Cardinality(s.have \cap (q.sync \cup q.voters)) \in Nat
              /\ Cardinality(s.have \cap q.voters) <= Cardinality(s.have \cap (q.sync \cup q.voters))
          BY <4>1, <4>2, Fewer
        <4>4. Certain(r) \in Int /\ Certain(r) <= num
          BY <2>3, <3>3, <3>5 DEF Certain, Min2
        <4>5. Cardinality(q.voters) - q.quorum <= Cardinality(s.have \cap q.voters)
          BY <3>2 DEF Backed
        <4>6. Certain(r) <= Cardinality(s.have \cap (q.sync \cup q.voters))
          BY <3>4, <3>5, <4>3, <4>4, <4>5
        <4> QED
          BY <2>3, <4>6
      <3> QED
        BY <3>6, <3>7, <3>8 DEF Steady
    <2>5. ~Raised(r) => Fits(r.out, s, p)
      BY <2>3 DEF Keeps, Raised
    <2> QED
      BY <1>1, <2>4, <2>5 DEF Keeps
  <1> QED
    BY <1>2, <1>3

(* Nobody listed is gone.                                                  *)
LEMMA RemoveGoneKeeps ==
    ASSUME NEW p \in Nodes, NEW q, NEW from, NEW s, Calm(s, p), Keeps(q, p, from, s),
           NEW r, r = RemoveGoneNodes(q)
    PROVE  Keeps(r, p, from, s) /\ (Live(r) => r = q)
  <1>1. Good(r, p, from) /\ Good(q, p, from)
    BY RemoveGoneGood DEF Keeps
  <1>2. CASE Live(q)
    <2>1. q.sync \subseteq q.active
      BY <1>2 DEF Keeps, Steady, Grows
    <2>2. r = q
      BY <2>1 DEF RemoveGoneNodes
    <2> QED
      BY <2>2
  <1>3. CASE ~Live(q)
    <2>1. Dead(r, s, p)
      BY <1>1, <1>3, DeadKeeps, LateStepsDead
    <2> QED
      BY <1>1, <2>1, DeadKeeps DEF Dead
  <1> QED
    BY <1>2, <1>3

(* The number is the one wanted.                                           *)
LEMMA FactorChangeKeeps ==
    ASSUME NEW p \in Nodes, NEW q, NEW from, NEW s, Calm(s, p), Keeps(q, p, from, s),
           NEW r, r = HandleReplicationFactorChange(q)
    PROVE  Keeps(r, p, from, s)
  <1>1. Good(r, p, from) /\ Good(q, p, from)
    BY FactorChangeGood DEF Keeps
  <1>2. CASE Live(q)
    <2>1. Min2(q.wanted, Cardinality(q.sync)) = q.numsync
      BY <1>2 DEF Keeps, Steady, Grows
    <2>2. q.numsync \in Int
      BY <1>1, GoodFields
    <2>3. r = q
      BY <2>1, <2>2 DEF HandleReplicationFactorChange
    <2> QED
      BY <1>2, <2>3
  <1>3. CASE ~Live(q)
    <2>1. Dead(r, s, p)
      BY <1>1, <1>3, DeadKeeps, LateStepsDead
    <2> QED
      BY <1>1, <2>1, DeadKeeps DEF Dead
  <1> QED
    BY <1>2, <1>3

-----------------------------------------------------------------------------
(* The active nodes that are not listed: enough of them for the factor are *)
(* listed, and then allowed to vote.                                       *)
LEMMA FactorOf ==
    ASSUME NEW p \in Nodes, NEW q, NEW from, NEW s, Calm(s, p), Keeps(q, p, from, s), Live(q)
    PROVE  /\ Factor(q) = Min2(s.wanted, Cardinality(s.active)) /\ Factor(q) \in Nat
           /\ q.numsync = Min2(s.wanted, Cardinality(q.sync))
           /\ Cardinality(q.sync) \in Nat /\ Cardinality(s.active) \in Nat /\ s.wanted \in Nat
           /\ Cardinality(q.sync) <= Cardinality(s.active)
           /\ q.sync # s.active => Cardinality(q.sync) < Cardinality(s.active)
           /\ Cardinality(s.active \ q.sync) = Cardinality(s.active) - Cardinality(q.sync)
  <1>1. /\ q.active = s.active /\ q.wanted = s.wanted /\ s.wanted \in Nat /\ q.sync \subseteq s.active
        /\ s.active \in SUBSET Nodes
    BY SteadyFields
  <1>2. /\ IsFiniteSet(q.sync) /\ Cardinality(q.sync) \in Nat /\ Cardinality(s.active) \in Nat
        /\ Cardinality(q.sync) <= Cardinality(s.active)
        /\ q.sync # s.active => Cardinality(q.sync) < Cardinality(s.active)
    BY <1>1, Fewer
  <1>3. q.sync \cup q.active = s.active
    BY <1>1
  <1>4. q.numsync = Min2(s.wanted, Cardinality(q.sync))
    BY DEF Keeps, Steady, Grows
  <1>5. Factor(q) = Min2(s.wanted, Cardinality(s.active)) /\ Factor(q) \in Nat
    BY <1>1, <1>2, <1>3 DEF Factor, Min2
  <1>6. Cardinality(s.active \ q.sync) = Cardinality(s.active) - Cardinality(q.sync)
    <2>1. IsFiniteSet(s.active) /\ s.active \cap q.sync = q.sync
      BY <1>1, FiniteNames
    <2>2. Cardinality(s.active \ q.sync) = Cardinality(s.active) - Cardinality(s.active \cap q.sync)
      BY <1>2, <2>1, FS_Difference
    <2> QED
      BY <2>1, <2>2
  <1> QED
    BY <1>1, <1>2, <1>4, <1>5, <1>6

LEMMA AddUpToKeeps ==
    ASSUME NEW p \in Nodes, NEW q, NEW from, NEW s, Calm(s, p), Keeps(q, p, from, s),
           Live(q) => q.voters = q.sync /\ Factor(q) > q.numsync,
           NEW r, r = AddUpToFactor(q)
    PROVE  Keeps(r, p, from, s) /\ (Live(r) => r.voters = r.sync /\ ~(Factor(r) > r.numsync))
  <1>1. Good(q, p, from) /\ Good(r, p, from)
    BY AddUpToGood DEF Keeps
  <1> DEFINE new == q.active \ q.sync
             increase == Factor(q) - q.numsync
             add == IF q.sync # {} THEN Lowest(new, increase) ELSE new
             by == IF q.sync # {} THEN Cardinality(add) ELSE increase
             names == q.sync \cup add
  <1>2. CASE ~Live(q)
    <2>1. Dead(AddUpToFactor(q), s, p)
      <3>1. Dead(q, s, p)
        BY <1>2, DeadKeeps
      <3>2. Dead(SyncUpdate(q, q.numsync + by, names), s, p)
        BY <3>1, DeadSync
      <3> QED
        BY <3>2, StepsDead DEF AddUpToFactor
    <2> QED
      BY <1>1, <2>1, DeadKeeps DEF Dead
  <1>3. CASE Live(q)
    <2>1. /\ Factor(q) = Min2(s.wanted, Cardinality(s.active)) /\ Factor(q) \in Nat
          /\ q.numsync = Min2(s.wanted, Cardinality(q.sync))
          /\ Cardinality(q.sync) \in Nat /\ Cardinality(s.active) \in Nat /\ s.wanted \in Nat
          /\ Cardinality(q.sync) <= Cardinality(s.active)
          /\ Cardinality(s.active \ q.sync) = Cardinality(s.active) - Cardinality(q.sync)
      BY <1>3, FactorOf
    <2>2. /\ q.active = s.active /\ q.wanted = s.wanted /\ q.sync \subseteq s.active
          /\ s.active \in SUBSET (Nodes \ {p}) /\ q.voters = q.sync /\ Factor(q) > q.numsync
      BY <1>3, SteadyFields DEF Calm
    <2>3. q.numsync = Cardinality(q.sync) /\ Factor(q) <= s.wanted /\ Factor(q) <= Cardinality(s.active)
      BY <2>1, <2>2 DEF Min2
    <2>4. add \subseteq new /\ add \subseteq s.active /\ add \cap q.sync = {}
      BY <2>2 DEF Lowest
    <2>5. q.numsync + by = Factor(q) /\ Factor(q) = Min2(s.wanted, Cardinality(names))
      <3>1. CASE q.sync = {}
        <4>1. names = s.active /\ by = increase
          BY <2>2, <3>1
        <4>2. q.numsync + increase = Factor(q)
          BY <2>1, <2>3
        <4> QED
          BY <2>1, <4>1, <4>2
      <3>2. CASE q.sync # {}
        <4>1. add = Lowest(new, increase) /\ by = Cardinality(add)
          BY <3>2
        <4>2. increase \in Nat /\ increase <= Cardinality(new) /\ q.numsync + increase = Factor(q)
          BY <2>1, <2>2, <2>3
        <4>3. new \in SUBSET Nodes /\ Cardinality(new) \in Nat
          BY <2>1, <2>2, <2>3
        <4>4. Cardinality(add) = increase
          <5>1. PICK k \in 0..Cardinality(new) : k = increase
            BY <4>2, <4>3
          <5> HIDE DEF new, increase
          <5> QED
            BY <4>1, <4>3, <5>1, LowestCount
        <4>5. IsFiniteSet(add) /\ IsFiniteSet(q.sync)
          BY <2>2, <2>4, FiniteNames
        <4>6. Cardinality(names) = Cardinality(q.sync) + Cardinality(add)
          <5>1. Cardinality(q.sync \cap add) = 0
            BY <2>4, FS_EmptySet
          <5>2. Cardinality(names) = Cardinality(q.sync) + Cardinality(add) - Cardinality(q.sync \cap add)
            BY <4>5, FS_Union
          <5>3. Cardinality(add) \in Int
            BY <4>2, <4>4
          <5> HIDE DEF add, names
          <5> QED
            BY <2>1, <5>1, <5>2, <5>3
        <4>7. Cardinality(names) = Factor(q)
          BY <2>3, <4>2, <4>4, <4>6
        <4> HIDE DEF names, add, increase
        <4> QED
          BY <2>1, <2>3, <4>1, <4>2, <4>4, <4>7 DEF Min2
      <3> QED
        BY <3>1, <3>2
    <2>6. names # {}
      <3>1. CASE names = {}
        <4>1. Cardinality(names) = 0
          BY <3>1, FS_EmptySet
        <4> HIDE DEF names
        <4>2. Factor(q) <= 0
          BY <2>1, <2>5, <4>1 DEF Min2
        <4> QED
          BY <2>1, <2>2, <2>3, <4>2
      <3> QED
        BY <3>1
    <2>7. names \in SUBSET (Nodes \ {p}) /\ names \subseteq s.active /\ q.sync \subseteq names
      BY <2>2, <2>4
    <2> HIDE DEF add, by, increase
    <2>8. PICK num \in Int : num = Factor(q)
      BY <2>1
    <2>9. PICK z : z = SyncUpdate(q, num, names)
      OBVIOUS
    <2>10. /\ Keeps(z, p, from, s)
           /\ Live(z) => z.voters = q.voters /\ z.sync = names /\ z.numsync = num
      <3>1. Covers(q.voters, names, num, s)
        BY <2>2, <2>7 DEF Covers
      <3> HIDE DEF names
      <3> QED
        BY <2>5, <2>6, <2>7, <2>8, <2>9, <3>1, NamesKeep
    <2>11. r = LetNewVote(z, add, TRUE)
      BY <2>5, <2>8, <2>9 DEF AddUpToFactor, add, by, increase
    <2>12. CASE ~Live(z)
      <3>1. Dead(r, s, p)
        BY <2>10, <2>11, <2>12, DeadKeeps, StepsDead
      <3> QED
        BY <1>1, <3>1, DeadKeeps DEF Dead
    <2>13. CASE Live(z)
      <3>1. z.voters = q.sync /\ z.sync = names /\ z.numsync = num /\ z.voters \cup add = names
        BY <2>2, <2>10, <2>13
      <3>2. Factor(z) = num /\ Factor(z) \in Nat
        <4>1. Factor(z) = Min2(s.wanted, Cardinality(s.active))
          BY <2>10, <2>13, FactorOf
        <4> QED
          BY <2>1, <2>8, <4>1
      <3>3. PICK quorum \in Int : quorum = Cardinality(names) - num
        <4>1. Cardinality(names) \in Int
          BY <2>7, Counted
        <4> QED
          BY <4>1
      <3>4. PICK adjust \in BOOLEAN : adjust = TRUE
        OBVIOUS
      <3>5. r = QuorumUpdate(z, quorum, names, NoNode, adjust)
        BY <2>11, <3>1, <3>2, <3>3, <3>4 DEF LetNewVote
      <3>6. Certain(z) <= Cardinality(s.have \cap names)
        <4>1. z.sync \cup z.voters = names
          BY <2>7, <3>1
        <4> QED
          BY <2>10, <2>13, <4>1 DEF Keeps, Steady
      <3>7. Keeps(r, p, from, s) /\ (Live(r) => Voted(r, z, names))
        <4>1. names \in SUBSET Nodes
          BY <2>7
        <4>2. Covers(names, z.sync, z.numsync, s)
          BY <3>1 DEF Covers
        <4> HIDE DEF names
        <4> QED
          BY <2>7, <2>10, <3>1, <3>3, <3>4, <3>5, <3>6, <4>1, <4>2, VotesKeep
      <3>8. ASSUME Live(r) PROVE r.voters = r.sync /\ ~(Factor(r) > r.numsync)
        <4>1. r.voters = names /\ r.sync = names /\ r.numsync = num
          BY <3>1, <3>7, <3>8 DEF Voted
        <4>2. Factor(r) = num
          <5>1. Factor(r) = Min2(s.wanted, Cardinality(s.active))
            BY <3>7, <3>8, FactorOf
          <5> QED
            BY <2>1, <2>8, <5>1
        <4> QED
          BY <4>1, <4>2
      <3> QED
        BY <3>7, <3>8
    <2> QED
      BY <2>12, <2>13
  <1> QED
    BY <1>2, <1>3

(* The others are allowed to vote, and then listed.                        *)
LEMMA AddTheRestKeeps ==
    ASSUME NEW p \in Nodes, NEW q, NEW from, NEW s, Calm(s, p), Keeps(q, p, from, s),
           Live(q) => q.voters = q.sync /\ ~(Factor(q) > q.numsync),
           NEW r, r = AddTheRest(q)
    PROVE  Keeps(r, p, from, s)
  <1>1. Good(q, p, from) /\ Good(r, p, from)
    BY AddRestGood DEF Keeps
  <1>2. CASE q.active \subseteq q.sync
    BY <1>2 DEF AddTheRest
  <1>3. CASE ~(q.active \subseteq q.sync)
    <2>1. PICK adjust \in BOOLEAN : adjust = (Factor(q) > q.confirmed)
      <3>1. (Factor(q) > q.confirmed) \in BOOLEAN
        OBVIOUS
      <3> QED
        BY <3>1, Zenon
    <2>2. PICK b : b = LetNewVote(q, q.active \ q.sync, adjust)
      OBVIOUS
    <2>3. r = SyncUpdate(b, Factor(q), q.sync \cup q.active)
      BY <1>3, <2>1, <2>2 DEF AddTheRest
    <2>4. CASE ~Live(q)
      <3>1. Dead(b, s, p)
        BY <2>2, <2>4, DeadKeeps, StepsDead
      <3>2. Dead(r, s, p)
        BY <2>3, <3>1, DeadSync
      <3> QED
        BY <1>1, <3>2, DeadKeeps DEF Dead
    <2>5. CASE Live(q)
      <3>1. /\ Factor(q) = Min2(s.wanted, Cardinality(s.active)) /\ Factor(q) \in Nat
            /\ q.numsync = Min2(s.wanted, Cardinality(q.sync))
            /\ Cardinality(q.sync) \in Nat /\ Cardinality(s.active) \in Nat /\ s.wanted \in Nat
            /\ Cardinality(q.sync) <= Cardinality(s.active)
            /\ q.sync # s.active => Cardinality(q.sync) < Cardinality(s.active)
        BY <2>5, FactorOf
      <3>2. /\ q.active = s.active /\ q.wanted = s.wanted /\ q.sync \subseteq s.active
            /\ s.active \in SUBSET (Nodes \ {p}) /\ q.voters = q.sync /\ ~(Factor(q) > q.numsync)
            /\ q.confirmed \in Int
        BY <2>5, SteadyFields DEF Calm
      <3>3. q.numsync = s.wanted /\ Factor(q) = s.wanted
        BY <1>3, <3>1, <3>2 DEF Min2
      <3>4. q.voters \cup (q.active \ q.sync) = s.active /\ q.sync \cup q.active = s.active /\ s.active # {}
        BY <1>3, <3>2
      <3>5. PICK voters \in SUBSET Nodes : voters = s.active
        BY <3>2
      <3>6. PICK quorum \in Int : quorum = Cardinality(voters) - q.numsync
        BY <3>1, <3>3, <3>5
      <3>7. b = QuorumUpdate(q, quorum, voters, NoNode, adjust)
        BY <2>2, <3>3, <3>4, <3>5, <3>6 DEF LetNewVote
      <3>8. Certain(q) <= Cardinality(s.have \cap voters)
        <4>1. /\ Steady(q, s) /\ s.have \cap (q.sync \cup q.voters) \subseteq s.have \cap voters
              /\ s.have \cap voters \in SUBSET Nodes
          BY <2>5, <3>2, <3>5 DEF Keeps
        <4>2. /\ Cardinality(s.have \cap (q.sync \cup q.voters)) \in Nat /\ Cardinality(s.have \cap voters) \in Nat
              /\ Cardinality(s.have \cap (q.sync \cup q.voters)) <= Cardinality(s.have \cap voters)
          BY <4>1, Fewer
        <4>3. Certain(q) \in Int
          BY <2>5, SteadyFields
        <4> QED
          BY <4>1, <4>2, <4>3 DEF Steady
      <3>9. adjust = TRUE \/ q.numsync <= q.confirmed
        <4>1. Factor(q) > q.confirmed \/ q.numsync <= q.confirmed
          BY <3>1, <3>2, <3>3
        <4> QED
          BY <2>1, <4>1, Zenon
      <3>10. q.sync \subseteq voters /\ voters \subseteq s.active /\ Covers(voters, q.sync, q.numsync, s)
        BY <3>2, <3>3, <3>5 DEF Covers
      <3>11. Keeps(b, p, from, s) /\ (Live(b) => Voted(b, q, voters))
        BY <3>6, <3>7, <3>8, <3>9, <3>10, VotesKeep
      <3>12. PICK names \in SUBSET (Nodes \ {p}) : names = s.active
        BY <3>2
      <3>13. PICK num \in Int : num = Factor(q)
        BY <3>1
      <3>14. r = SyncUpdate(b, num, names)
        BY <2>3, <3>4, <3>12, <3>13
      <3>15. Live(b) => /\ b.sync \subseteq names /\ names \subseteq s.active /\ names # {}
                        /\ num = Min2(s.wanted, Cardinality(names))
                        /\ Covers(b.voters, names, num, s)
        BY <3>1, <3>2, <3>4, <3>5, <3>11, <3>12, <3>13 DEF Voted, Covers
      <3>16. PICK y : y = SyncUpdate(b, num, names)
        OBVIOUS
      <3>17. Keeps(b, p, from, s)
        BY <3>11
      <3>18. Keeps(y, p, from, s)
        BY <3>15, <3>16, <3>17, NamesKeep
      <3> QED
        BY <3>14, <3>16, <3>18
    <2> QED
      BY <2>4, <2>5
  <1> QED
    BY <1>2, <1>3

LEMMA AddNewKeeps ==
    ASSUME NEW p \in Nodes, NEW q, NEW from, NEW s, Calm(s, p), Keeps(q, p, from, s),
           Live(q) => q.voters = q.sync,
           NEW r, r = AddNewNodes(q)
    PROVE  Keeps(r, p, from, s)
  <1>1. PICK b : b = IF Factor(q) > q.numsync THEN AddUpToFactor(q) ELSE q
    OBVIOUS
  <1>2. Keeps(b, p, from, s) /\ (Live(b) => b.voters = b.sync /\ ~(Factor(b) > b.numsync))
    BY <1>1, AddUpToKeeps
  <1>3. r = q \/ r = AddTheRest(b)
    BY <1>1 DEF AddNewNodes
  <1> QED
    BY <1>2, <1>3, AddTheRestKeeps

(* The transitions of a cycle that nothing disturbs fit.                   *)
LEMMA TransitionsFit ==
    ASSUME NEW p \in Nodes, NEW s, Calm(s, p), NEW q, Begins(q, s, p)
    PROVE  Fits(Transitions(q), s, p)
  <1> DEFINE from == ViewOf(q)
  <1>1. PICK a : a = AssertLeader(Recover(TryLeader(q)))
    OBVIOUS
  <1>2. PICK b : b = AdjustConfirmed(a)
    OBVIOUS
  <1>3. PICK c : c = HandleNonSteadyCases(b)
    OBVIOUS
  <1>4. PICK d : d = RemoveGoneNodes(c)
    OBVIOUS
  <1>5. PICK e : e = AddNewNodes(d)
    OBVIOUS
  <1>6. PICK f : f = HandleReplicationFactorChange(e)
    OBVIOUS
  <1>7. f = Generate(q)
    BY <1>1, <1>2, <1>3, <1>4, <1>5, <1>6 DEF Generate
  <1>8. Keeps(a, p, from, s) /\ (Live(a) => Backed(a, s))
    BY <1>1, StartKeeps
  <1>9. Keeps(b, p, from, s)
    BY <1>2, <1>8, AdjustKeeps
  <1>10. Keeps(c, p, from, s) /\ (Live(c) => c.voters = c.sync)
    BY <1>3, <1>9, NonSteadyKeeps
  <1>11. Keeps(d, p, from, s) /\ (Live(d) => d.voters = d.sync)
    BY <1>4, <1>10, RemoveGoneKeeps
  <1>12. Keeps(e, p, from, s)
    BY <1>5, <1>11, AddNewKeeps
  <1>13. Keeps(f, p, from, s)
    BY <1>6, <1>12, FactorChangeKeeps
  <1>14. CASE Raised(f)
    <2>1. Transitions(q) = << >>
      BY <1>7, <1>14 DEF Transitions
    <2> QED
      BY <2>1 DEF Fits
  <1>15. CASE ~Raised(f)
    BY <1>7, <1>13, <1>15 DEF Transitions, Keeps
  <1> QED
    BY <1>14, <1>15

-----------------------------------------------------------------------------
(* What is left of such a cycle still fits when more nodes replicate and   *)
(* more of them have what was acknowledged, or when a commit was           *)
(* acknowledged that enough of the listed nodes have.                      *)
Held(s) == s.num <= Cardinality(s.have \cap s.names)

Later(s, u) ==
    /\ u.names = s.names /\ u.num = s.num /\ u.wanted = s.wanted /\ s.active \subseteq u.active
    /\ s.have \subseteq u.have \/ Held(u)

LEMMA MoreHave ==
    ASSUME NEW p, NEW s, Calm(s, p), NEW u, Calm(u, p), Later(s, u), NEW T \in SUBSET Nodes,
           NEW n \in Int, n <= Cardinality(s.have \cap T),
           Held(u) => s.names \subseteq T /\ n <= s.num
    PROVE  n <= Cardinality(u.have \cap T)
  <1>1. u.have \cap T \in SUBSET Nodes /\ u.have \cap s.names \in SUBSET Nodes
    BY DEF Calm
  <1>2. CASE s.have \subseteq u.have
    <2>1. s.have \cap T \subseteq u.have \cap T
      BY <1>2
    <2>2. /\ Cardinality(s.have \cap T) \in Nat /\ Cardinality(u.have \cap T) \in Nat
          /\ Cardinality(s.have \cap T) <= Cardinality(u.have \cap T)
      BY <1>1, <2>1, Fewer
    <2> QED
      BY <2>2
  <1>3. CASE Held(u)
    <2>1. u.have \cap s.names \subseteq u.have \cap T
      BY <1>3
    <2>2. /\ Cardinality(u.have \cap s.names) \in Nat /\ Cardinality(u.have \cap T) \in Nat
          /\ Cardinality(u.have \cap s.names) <= Cardinality(u.have \cap T)
      BY <1>1, <2>1, Fewer
    <2>3. s.num <= Cardinality(u.have \cap s.names)
      BY <1>3 DEF Held, Later
    <2>4. s.num \in Int
      <3>1. Cardinality(s.names) \in Nat /\ s.wanted \in Nat
        BY FiniteNames DEF Calm
      <3> QED
        BY <3>1 DEF Calm, Min2
    <2> QED
      BY <1>3, <2>2, <2>3, <2>4
  <1> QED
    BY <1>2, <1>3 DEF Later

LEMMA LaterFits ==
    ASSUME NEW p, NEW s, Calm(s, p), NEW u, Calm(u, p), Later(s, u), NEW out, Fits(out, s, p)
    PROVE  Fits(out, u, p)
  <1>1. out \in Seq(Trans) /\ Len(out) \in Nat /\ \A j \in 1..Len(out) : out[j] \in Trans
    BY DEF Fits
  <1>2. \A t : FitSync(t, s) => FitSync(t, u)
    BY DEF FitSync, Later
  <1>3. ASSUME NEW t \in Trans, FitQuorum(t, s, p) PROVE FitQuorum(t, u, p)
    <2>1. t.names \in SUBSET Nodes /\ Few(t) \in Int
      BY FiniteNames DEF Trans, Few
    <2>2. Few(t) <= Cardinality(u.have \cap t.names)
      BY <1>3, <2>1, MoreHave DEF FitQuorum
    <2> QED
      BY <1>3, <2>2 DEF FitQuorum, Later
  <1>4. \A j, t : Covered(out, j, t, s) => Covered(out, j, t, u)
    BY DEF Covered, Covers, Later
  <1> QED
    BY <1>1, <1>2, <1>3, <1>4 DEF Fits

(* The rest of a cycle, after a transition other than new names.           *)
LEMMA TailFits ==
    ASSUME NEW p, NEW s, NEW out, Fits(out, s, p), out # << >>, out[1].type # "sync"
    PROVE  Fits(Tail(out), s, p)
  <1>1. PICK rest : rest = Tail(out)
    OBVIOUS
  <1>2. out \in Seq(Trans) /\ Len(out) \in Nat /\ Len(out) > 0
    BY DEF Fits
  <1>3. rest \in Seq(Trans) /\ Len(rest) = Len(out) - 1 /\ \A i \in 1..Len(rest) : rest[i] = out[i + 1]
    BY <1>1, <1>2
  <1>4. ASSUME NEW j \in 1..Len(rest)
        PROVE  /\ rest[j].type = "sync" => FitSync(rest[j], s)
               /\ rest[j].type = "quorum" => FitQuorum(rest[j], s, p) /\ Covered(rest, j - 1, rest[j], s)
               /\ \A i \in 1..(j - 1) :
                     rest[i].type = "sync" /\ rest[j].type # "restart" => rest[i].names \subseteq rest[j].names
    <2>1. j + 1 \in 1..Len(out) /\ rest[j] = out[j + 1] /\ (j + 1) - 1 = j
      BY <1>2, <1>3
    <2>2. \A i \in 1..(j - 1) : i + 1 \in 1..j /\ rest[i] = out[i + 1]
      BY <1>2, <1>3
    <2>3. \A i \in 1..j : out[i].type = "sync" => i - 1 \in 1..(j - 1) /\ rest[i - 1] = out[i]
      <3>1. \A i \in 1..j : i # 1 => i - 1 \in 1..(j - 1) /\ i - 1 \in 1..Len(rest) /\ (i - 1) + 1 = i
        BY <1>2, <1>3
      <3> QED
        BY <1>3, <3>1
    <2>4. Covered(out, j, rest[j], s) => Covered(rest, j - 1, rest[j], s)
      BY <2>3 DEF Covered
    <2>5. /\ rest[j].type = "sync" => FitSync(rest[j], s)
          /\ rest[j].type = "quorum" => FitQuorum(rest[j], s, p) /\ Covered(out, j, rest[j], s)
          /\ \A i \in 1..j : out[i].type = "sync" /\ rest[j].type # "restart" => out[i].names \subseteq rest[j].names
      BY <2>1 DEF Fits
    <2> QED
      BY <2>2, <2>4, <2>5
  <1>5. Fits(rest, s, p)
    BY <1>3, <1>4 DEF Fits
  <1> QED
    BY <1>1, <1>5

(* More names are listed.                                                  *)
Listed(s, t) == [names |-> t.names, num |-> t.num, active |-> s.active, wanted |-> s.wanted, have |-> s.have]

LEMMA ListedMore ==
    ASSUME NEW p, NEW s, Calm(s, p), NEW t \in Trans, FitSync(t, s), NEW u, u = Listed(s, t)
    PROVE  /\ Calm(u, p) /\ s.num <= u.num /\ s.num \in Nat /\ u.num \in Nat /\ u.num >= 1
           /\ u.names # {}
           /\ s.num = s.wanted => u.num = u.wanted
           /\ \A voters : Covers(voters, s.names, s.num, s) => Covers(voters, u.names, u.num, u)
           /\ s.num = u.num \/ s.num = Cardinality(s.names)
  <1>1. /\ s.names \subseteq u.names /\ u.names \subseteq s.active /\ u.names # {}
        /\ u.num = Min2(s.wanted, Cardinality(u.names)) /\ u.active = s.active
        /\ u.wanted = s.wanted /\ u.have = s.have /\ u.names \in SUBSET Nodes
    BY DEF FitSync, Listed, Calm
  <1>2. /\ Cardinality(s.names) \in Nat /\ Cardinality(u.names) \in Nat
        /\ Cardinality(s.names) <= Cardinality(u.names)
    BY <1>1, Fewer
  <1>3. s.wanted \in Nat /\ s.wanted >= 1 /\ s.num = Min2(s.wanted, Cardinality(s.names))
    BY DEF Calm
  <1>4. Cardinality(u.names) >= 1
    <2>1. Cardinality(u.names) # 0
      BY <1>1, FiniteNames, FS_EmptySet
    <2> QED
      BY <1>2, <2>1
  <1>5. /\ s.num <= u.num /\ s.num \in Nat /\ u.num \in Nat /\ u.num >= 1
        /\ s.num = s.wanted => u.num = u.wanted
        /\ s.num = u.num \/ s.num = Cardinality(s.names)
    BY <1>1, <1>2, <1>3, <1>4 DEF Min2
  <1>6. Calm(u, p)
    BY <1>1 DEF Calm
  <1>7. \A voters : Covers(voters, s.names, s.num, s) => Covers(voters, u.names, u.num, u)
    BY <1>1, <1>5 DEF Covers
  <1> QED
    BY <1>1, <1>5, <1>6, <1>7

LEMMA ListedTailFits ==
    ASSUME NEW p, NEW s, Calm(s, p), NEW out, Fits(out, s, p), out # << >>, out[1].type = "sync",
           NEW u, u = Listed(s, out[1])
    PROVE  Fits(Tail(out), u, p)
  <1>1. PICK rest : rest = Tail(out)
    OBVIOUS
  <1>2. out \in Seq(Trans) /\ Len(out) \in Nat /\ Len(out) > 0 /\ 1 \in 1..Len(out) /\ out[1] \in Trans
    BY DEF Fits
  <1>3. rest \in Seq(Trans) /\ Len(rest) = Len(out) - 1 /\ \A i \in 1..Len(rest) : rest[i] = out[i + 1]
    BY <1>1, <1>2
  <1>4. FitSync(out[1], s)
    BY <1>2 DEF Fits
  <1>5. /\ s.num <= u.num /\ s.num \in Nat /\ u.num \in Nat /\ u.names # {}
        /\ \A voters : Covers(voters, s.names, s.num, s) => Covers(voters, u.names, u.num, u)
        /\ u.names = out[1].names /\ u.num = out[1].num /\ u.active = s.active
        /\ u.wanted = s.wanted /\ u.have = s.have
    <2>1. PICK t \in Trans : t = out[1]
      BY <1>2
    <2>2. u = Listed(s, t) /\ FitSync(t, s)
      BY <1>4, <2>1
    <2>3. /\ s.num <= u.num /\ s.num \in Nat /\ u.num \in Nat /\ u.names # {}
          /\ \A voters : Covers(voters, s.names, s.num, s) => Covers(voters, u.names, u.num, u)
      BY <2>2, ListedMore
    <2>4. u.names = t.names /\ u.num = t.num /\ u.active = s.active /\ u.wanted = s.wanted /\ u.have = s.have
      BY <2>2 DEF Listed
    <2> QED
      BY <2>1, <2>3, <2>4
  <1>6. ASSUME NEW j \in 1..Len(rest)
        PROVE  /\ rest[j].type = "sync" => FitSync(rest[j], u)
               /\ rest[j].type = "quorum" => FitQuorum(rest[j], u, p) /\ Covered(rest, j - 1, rest[j], u)
               /\ \A i \in 1..(j - 1) :
                     rest[i].type = "sync" /\ rest[j].type # "restart" => rest[i].names \subseteq rest[j].names
    <2>1. j + 1 \in 1..Len(out) /\ rest[j] = out[j + 1] /\ (j + 1) - 1 = j /\ 1 \in 1..j /\ rest[j] \in Trans
      BY <1>2, <1>3
    <2>2. \A i \in 1..(j - 1) : i + 1 \in 1..j /\ rest[i] = out[i + 1]
      BY <1>2, <1>3
    <2>3. \A i \in 1..j : i # 1 => i - 1 \in 1..(j - 1) /\ rest[i - 1] = out[i]
      <3>1. \A i \in 1..j : i # 1 => i - 1 \in 1..(j - 1) /\ i - 1 \in 1..Len(rest) /\ (i - 1) + 1 = i
        BY <1>2, <1>3
      <3> QED
        BY <1>3, <3>1
    <2>4. /\ rest[j].type = "sync" => FitSync(rest[j], s)
          /\ rest[j].type = "quorum" => FitQuorum(rest[j], s, p) /\ Covered(out, j, rest[j], s)
          /\ \A i \in 1..j : out[i].type = "sync" /\ rest[j].type # "restart" => out[i].names \subseteq rest[j].names
      BY <2>1 DEF Fits
    <2>5. rest[j].type # "restart" => u.names \subseteq rest[j].names
      BY <1>5, <2>1, <2>4
    <2>6. ASSUME rest[j].type = "quorum" PROVE FitQuorum(rest[j], u, p)
      <3>1. Few(rest[j]) \in Int
        BY <2>1, FiniteNames DEF Trans, Few
      <3> QED
        BY <1>5, <2>4, <2>5, <2>6, <3>1 DEF FitQuorum
    <2>7. ASSUME Covered(out, j, rest[j], s) PROVE Covered(rest, j - 1, rest[j], u)
      <3>1. CASE Covers(rest[j].names, s.names, s.num, s)
        BY <1>5, <3>1 DEF Covered
      <3>2. CASE \E i \in 1..j : out[i].type = "sync" /\ Covers(rest[j].names, out[i].names, out[i].num, s)
        <4>1. PICK i \in 1..j : out[i].type = "sync" /\ Covers(rest[j].names, out[i].names, out[i].num, s)
          BY <3>2
        <4>2. Covers(rest[j].names, out[i].names, out[i].num, u)
          BY <1>5, <4>1 DEF Covers
        <4>3. CASE i = 1
          BY <1>5, <4>2, <4>3 DEF Covered
        <4>4. CASE i # 1
          BY <2>3, <4>1, <4>2, <4>4 DEF Covered
        <4> QED
          BY <4>3, <4>4
      <3> QED
        BY <2>7, <3>1, <3>2 DEF Covered
    <2>8. rest[j].type = "sync" => FitSync(rest[j], u)
      BY <1>5, <2>4, <2>5 DEF FitSync
    <2> QED
      BY <2>2, <2>4, <2>6, <2>7, <2>8
  <1>7. Fits(rest, u, p)
    BY <1>3, <1>6 DEF Fits
  <1> QED
    BY <1>1, <1>7

-----------------------------------------------------------------------------
(* As long as nothing fails, node 1 is the primary of the first term, and  *)
(* the logs differ in length only.                                         *)
LEMMA OnesPrefix ==
    ASSUME NEW a \in Seq({1}), NEW b \in Seq({1})
    PROVE  IsPrefix(a, b) <=> Len(a) <= Len(b)
  <1>1. Len(a) \in Nat /\ Len(b) \in Nat /\ \A i \in 1..Len(a) : a[i] = 1
    OBVIOUS
  <1>2. ASSUME Len(a) <= Len(b) PROVE SubSeq(a, 1, Len(a)) = SubSeq(b, 1, Len(a))
    <2>1. \A i \in 1..Len(a) : b[i] = 1
      BY <1>1, <1>2
    <2> QED
      BY <1>1, <1>2, <2>1
  <1> QED
    BY <1>2 DEF IsPrefix

LEMMA OnesPrefixes ==
    ASSUME NEW b \in Seq({1}), NEW a \in Prefixes(b)
    PROVE  a \in Seq({1}) /\ Len(a) <= Len(b)
  <1>1. PICK l \in 0..Len(b) : a = SubSeq(b, 1, l)
    BY DEF Prefixes
  <1>2. \A i \in 1..l : b[i] = 1
    OBVIOUS
  <1> QED
    BY <1>1, <1>2

Have == {n \in Nodes : Len(acked) <= Len(log[n])}
Now == [names |-> ssn.names, num |-> ssn.num, active |-> streaming, wanted |-> wanted, have |-> Have]

OneTerm ==
    /\ primary = 1 /\ term = 1
    /\ log \in [Nodes -> Seq({1})] /\ acked \in Seq({1})
    /\ \A n \in Nodes : Len(log[n]) <= Len(log[1])
    /\ Len(acked) <= Len(log[1])

(* /sync: only replicas vote, and as many as the quorum asks for have what *)
(* was acknowledged.                                                       *)
KeyFits(key, s) ==
    /\ key.leader \in {1, NoNode}
    /\ key.voters \subseteq s.active /\ Covers(key.voters, s.names, s.num, s)
    /\ key.voters = {} => key.quorum = 0
    /\ s.names = {} => key.voters = {}
    /\ Cardinality(key.voters) - key.quorum <= Cardinality(s.have \cap key.voters)

(* SyncHandler: nobody is ready without having what was acknowledged,      *)
(* unless enough of those listed have it.                                  *)
HandlerFits(h, names, position, s) ==
    /\ h.known = names /\ h.flush \in Nat
    /\ position <= h.flush \/ Held(s)
    /\ h.ready \subseteq s.have \/ Held(s)

SteadyIn(s, key, h, names, position, out) ==
    /\ Calm(s, 1) /\ ~names.star
    /\ KeyFits(key, s)
    /\ HandlerFits(h, names, position, s)
    /\ Fits(out, s, 1)
    /\ key.leader = NoNode => out = << >>

SteadyInv == OneTerm /\ SteadyIn(Now, sync, handler[1], ssn, Len(acked), pending)

LEMMA SteadyNext ==
    ASSUME OneTerm', SteadyIn(Now', sync', handler'[1], ssn', Len(acked'), pending')
    PROVE  SteadyInv'
  BY DEF SteadyInv

LEMMA NowNext ==
    Now' = [names |-> ssn'.names, num |-> ssn'.num, active |-> streaming', wanted |-> wanted',
            have |-> {n \in Nodes : Len(acked') <= Len(log'[n])}]
  BY DEF Now, Have

LEMMA One == 1 \in Nodes /\ 1 # NoNode
  BY ConfigAssumption DEF Nodes, NoNode

LEMMA SteadyInit == Init /\ ConfigTyped => SteadyInv
  <1> SUFFICES ASSUME Init, ConfigTyped PROVE SteadyInv
    OBVIOUS
  <1>1. /\ primary = 1 /\ term = 1 /\ log = [n \in Nodes |-> <<1>>] /\ acked = << >>
        /\ streaming = {} /\ pending = << >> /\ handler = [n \in Nodes |-> EmptyHandler]
        /\ sync = [leader |-> NoNode, quorum |-> 0, voters |-> {}]
        /\ ssn = [num |-> 0, names |-> {}, star |-> FALSE] /\ wanted \in Counts
    BY DEF Init, ConfigInit, EmptySync, EmptySsn
  <1>2. \A n \in Nodes : log[n] = <<1>>
    BY <1>1
  <1>3. OneTerm
    BY <1>1, <1>2, One DEF OneTerm
  <1>4. PICK s : s = Now
    OBVIOUS
  <1>5. s = [names |-> {}, num |-> 0, active |-> {}, wanted |-> wanted, have |-> Have]
    BY <1>1, <1>4 DEF Now
  <1>6. Cardinality({}) = 0
    BY FS_EmptySet
  <1>7. wanted \in Nat \ {0}
    BY <1>1, ConfigAssumption
  <1>8. Calm(s, 1)
    BY <1>5, <1>6, <1>7 DEF Calm, Have, Min2
  <1>9. KeyFits(sync, s)
    <2>1. s.have \cap sync.voters = {} /\ sync.voters = {}
      BY <1>1
    <2> QED
      BY <1>1, <1>5, <1>6, <2>1 DEF KeyFits, Covers
  <1>10. HandlerFits(handler[1], ssn, Len(acked), s)
    <2>1. handler[1] = EmptyHandler
      BY <1>1, One
    <2>2. Len(acked) = 0
      BY <1>1
    <2>3. EmptyHandler.known = ssn /\ EmptyHandler.flush = 0 /\ EmptyHandler.ready = {}
      BY <1>1 DEF EmptyHandler, EmptySsn
    <2> QED
      BY <2>1, <2>2, <2>3 DEF HandlerFits
  <1>11. Fits(pending, s, 1)
    BY <1>1 DEF Fits
  <1> QED
    BY <1>1, <1>3, <1>4, <1>8, <1>9, <1>10, <1>11 DEF SteadyInv, SteadyIn

(* What it is for: those that elect a primary are more than the voters     *)
(* that may be without what was acknowledged.                              *)
LEMMA SteadyElects ==
    ASSUME ConfigInv, SteadyInv
    PROVE  QuorumHasLatestCommit
  <1> SUFFICES ASSUME NEW E \in Electors PROVE \E n \in E : IsPrefix(acked, log[n])
    BY DEF QuorumHasLatestCommit
  <1>1. PICK s : s = Now
    OBVIOUS
  <1>2. OneTerm /\ KeyFits(sync, s) /\ s.have = Have
    BY <1>1 DEF SteadyInv, SteadyIn, Now
  <1>3. E \subseteq Members /\ Cardinality(E) > sync.quorum
    BY DEF Electors
  <1>4. sync.voters \in SUBSET Nodes /\ sync.quorum \in Nat
    BY DEF ConfigInv, ConfigTyped
  <1>5. \A n \in Have : n \in Nodes /\ IsPrefix(acked, log[n])
    BY <1>2, OnesPrefix DEF Have, OneTerm
  <1>6. CASE 1 \in E
    BY <1>2, <1>5, <1>6, One DEF OneTerm, Have
  <1>7. CASE 1 \notin E
    <2>1. E \subseteq sync.voters
      <3>1. sync.leader \in {1, NoNode}
        BY <1>2 DEF KeyFits
      <3> QED
        BY <1>3, <1>7, <3>1 DEF Members
    <2>2. CASE E \cap Have = {}
      <3> DEFINE rest == sync.voters \ Have
      <3>1. IsFiniteSet(sync.voters) /\ Cardinality(sync.voters) \in Nat
        BY <1>4, FiniteNames
      <3>2. Cardinality(rest) = Cardinality(sync.voters) - Cardinality(sync.voters \cap Have)
        BY <3>1, FS_Difference
      <3>3. E \in SUBSET rest /\ rest \in SUBSET Nodes
        BY <1>4, <2>1, <2>2
      <3>4. Cardinality(E) \in Nat /\ Cardinality(rest) \in Nat /\ Cardinality(E) <= Cardinality(rest)
        BY <3>3, Fewer
      <3>5. Cardinality(sync.voters) - sync.quorum <= Cardinality(sync.voters \cap Have)
        <4>1. s.have \cap sync.voters = sync.voters \cap Have
          BY <1>2
        <4> QED
          BY <1>2, <4>1 DEF KeyFits
      <3>6. Cardinality(sync.voters \cap Have) \in Nat
        <4>1. sync.voters \cap Have \in SUBSET Nodes
          BY <1>4
        <4> QED
          BY <4>1, FiniteNames
      <3> HIDE DEF rest
      <3> QED
        BY <1>3, <1>4, <3>1, <3>2, <3>4, <3>5, <3>6
    <2> QED
      BY <1>5, <2>2
  <1> QED
    BY <1>6, <1>7

-----------------------------------------------------------------------------
(* Replicas that connect or catch up.                                      *)
LEMMA GrowKeeps ==
    ASSUME ConfigInv, SteadyInv, OneTerm',
           UNCHANGED <<config, handler, acked>>,
           streaming \subseteq streaming', streaming' \in SUBSET (Nodes \ {1}),
           \A n \in Nodes : Len(log[n]) <= Len(log'[n])
    PROVE  SteadyInv'
  <1>1. PICK s : s = Now
    OBVIOUS
  <1>2. PICK u : u = Now'
    OBVIOUS
  <1>3. SteadyIn(s, sync, handler[1], ssn, Len(acked), pending)
    BY <1>1 DEF SteadyInv
  <1>4. /\ sync' = sync /\ ssn' = ssn /\ pending' = pending /\ wanted' = wanted
        /\ handler' = handler /\ acked' = acked
    BY DEF config
  <1>5. /\ u.names = s.names /\ u.num = s.num /\ u.wanted = s.wanted
        /\ u.active = streaming' /\ s.active = streaming /\ s.have = Have
        /\ u.have = {n \in Nodes : Len(acked) <= Len(log'[n])}
    BY <1>1, <1>2, <1>4, NowNext DEF Now
  <1>6. s.have \subseteq u.have
    <2>1. \A n \in Nodes : Len(log[n]) \in Nat /\ Len(log'[n]) \in Nat
      BY DEF OneTerm, SteadyInv
    <2>2. Len(acked) \in Nat
      BY DEF OneTerm, SteadyInv
    <2>3. \A n \in Nodes : Len(acked) <= Len(log[n]) => Len(acked) <= Len(log'[n])
      BY <2>1, <2>2
    <2> QED
      BY <1>5, <2>3 DEF Have
  <1>7. Calm(s, 1) /\ Calm(u, 1)
    BY <1>3, <1>5 DEF SteadyIn, Calm
  <1>8. Later(s, u)
    BY <1>5, <1>6 DEF Later
  <1>9. Held(s) => Held(u)
    <2>1. s.have \cap s.names \subseteq u.have \cap u.names /\ u.have \cap u.names \in SUBSET Nodes
      BY <1>5, <1>6
    <2>2. /\ Cardinality(s.have \cap s.names) \in Nat /\ Cardinality(u.have \cap u.names) \in Nat
          /\ Cardinality(s.have \cap s.names) <= Cardinality(u.have \cap u.names)
      BY <2>1, Fewer
    <2>3. s.num \in Int
      <3>1. s.num = ssn.num
        BY <1>1 DEF Now
      <3> QED
        BY <3>1 DEF ConfigInv, ConfigTyped
    <2> QED
      BY <1>5, <2>2, <2>3 DEF Held
  <1>10. KeyFits(sync, u)
    <2>1. KeyFits(sync, s)
      BY <1>3 DEF SteadyIn
    <2>2. sync.voters \in SUBSET Nodes /\ sync.quorum \in Nat
      BY DEF ConfigInv, ConfigTyped
    <2>3. /\ s.have \cap sync.voters \subseteq u.have \cap sync.voters
          /\ u.have \cap sync.voters \in SUBSET Nodes
      BY <1>6, <2>2
    <2>4. /\ Cardinality(s.have \cap sync.voters) \in Nat /\ Cardinality(u.have \cap sync.voters) \in Nat
          /\ Cardinality(s.have \cap sync.voters) <= Cardinality(u.have \cap sync.voters)
      BY <2>3, Fewer
    <2>5. Cardinality(sync.voters) - sync.quorum \in Int
      BY <2>2, FiniteNames
    <2>6. Cardinality(sync.voters) - sync.quorum <= Cardinality(u.have \cap sync.voters)
      BY <2>1, <2>4, <2>5 DEF KeyFits
    <2> QED
      BY <1>5, <2>1, <2>6 DEF KeyFits, Covers
  <1>11. HandlerFits(handler[1], ssn, Len(acked), u)
    BY <1>3, <1>6, <1>9 DEF SteadyIn, HandlerFits
  <1>12. Fits(pending, u, 1)
    BY <1>3, <1>7, <1>8, LaterFits DEF SteadyIn
  <1>13. SteadyIn(u, sync, handler[1], ssn, Len(acked), pending)
    BY <1>3, <1>7, <1>10, <1>11, <1>12 DEF SteadyIn
  <1> QED
    BY <1>2, <1>4, <1>13, SteadyNext

(* The steps that change nothing else.                                     *)
LEMMA GrowingSteps ==
    ASSUME Placed, ConfigInv, SteadyInv, NEW r \in Nodes,
           Write \/ Replicate(r) \/ Connect(r) \/ Rewind(r) \/ Start(r) \/ UNCHANGED vars
    PROVE  SteadyInv'
  <1>1. OneTerm
    BY DEF SteadyInv
  <1>2. streaming \in SUBSET (Nodes \ {1})
    BY <1>1 DEF Placed, OneTerm
  <1>3. \A n \in Nodes : Len(log[n]) \in Nat
    BY <1>1 DEF OneTerm
  <1>4. CASE Write
    <2>1. /\ log' = [log EXCEPT ![1] = Append(@, 1)]
          /\ UNCHANGED <<config, up, streaming, handler, term, faults, acked>>
      BY <1>1, <1>4 DEF Write, OneTerm
    <2>2. log' \in [Nodes -> Seq({1})] /\ Len(log'[1]) = Len(log[1]) + 1
          /\ \A n \in Nodes : n # 1 => log'[n] = log[n]
      BY <1>1, <2>1, One DEF OneTerm
    <2>3. \A n \in Nodes : Len(log[n]) <= Len(log'[n]) /\ Len(log'[n]) <= Len(log'[1])
      <3>1. Len(log[1]) \in Nat /\ Len(log'[1]) = Len(log[1]) + 1
        BY <1>3, <2>2, One
      <3>2. ASSUME NEW n \in Nodes, n # 1
            PROVE  log'[n] = log[n] /\ Len(log[n]) \in Nat /\ Len(log[n]) <= Len(log[1])
        BY <1>1, <1>3, <2>2, <3>2 DEF OneTerm
      <3> QED
        BY <3>1, <3>2
    <2>4. Len(acked) <= Len(log'[1])
      BY <1>1, <1>3, <2>2, One DEF OneTerm
    <2>5. OneTerm'
      BY <1>1, <2>1, <2>2, <2>3, <2>4 DEF OneTerm, config
    <2> QED
      BY <1>2, <2>1, <2>3, <2>5, GrowKeeps
  <1>5. CASE Replicate(r)
    <2>1. /\ log' = [log EXCEPT ![r] = log[1]] /\ r # 1
          /\ UNCHANGED <<config, up, streaming, handler, term, faults, acked>>
      BY <1>1, <1>2, <1>5 DEF Replicate, OneTerm
    <2>2. log' \in [Nodes -> Seq({1})] /\ log'[r] = log[1] /\ \A n \in Nodes : n # r => log'[n] = log[n]
      BY <1>1, <2>1, One DEF OneTerm
    <2>3. \A n \in Nodes : Len(log[n]) <= Len(log'[n]) /\ Len(log'[n]) <= Len(log'[1])
      BY <1>1, <1>3, <2>1, <2>2, One DEF OneTerm
    <2>4. OneTerm'
      BY <1>1, <2>1, <2>2, <2>3, One DEF OneTerm, config
    <2> QED
      BY <1>2, <2>1, <2>3, <2>4, GrowKeeps
  <1>6. CASE Connect(r)
    <2>1. /\ streaming' = streaming \cup {r} /\ r # 1
          /\ UNCHANGED <<config, log, up, handler, term, faults, acked>>
      BY <1>1, <1>6 DEF Connect, OneTerm
    <2>2. OneTerm'
      BY <1>1, <2>1 DEF OneTerm, config
    <2> QED
      BY <1>2, <1>3, <2>1, <2>2, GrowKeeps
  <1>7. CASE Rewind(r)
    <2>1. ~IsPrefix(log[r], log[1])
      BY <1>1, <1>7 DEF Rewind, OneTerm
    <2> QED
      BY <1>1, <2>1, One, OnesPrefix DEF OneTerm
  <1>8. CASE Start(r) \/ UNCHANGED vars
    <2>1. UNCHANGED <<config, log, streaming, handler, term, acked>>
      BY <1>8 DEF Start, vars
    <2>2. OneTerm'
      BY <1>1, <2>1 DEF OneTerm, config
    <2> QED
      BY <1>2, <1>3, <2>1, <2>2, GrowKeeps
  <1> QED
    BY <1>4, <1>5, <1>6, <1>7, <1>8

(* The nodes change neither their logs nor their connections.              *)
LEMMA KeyStep ==
    ASSUME SteadyInv, UNCHANGED <<primary, log, streaming, term, acked, wanted>>
    PROVE  /\ OneTerm'
           /\ ssn' = ssn => Now' = Now
  BY DEF SteadyInv, OneTerm, Now, Have

LEMMA EnableSyncSteady ==
    ASSUME SteadyInv, EnableSyncMode \/ Abandon
    PROVE  SteadyInv'
  <1>1. PICK s : s = Now
    OBVIOUS
  <1>2. SteadyIn(s, sync, handler[1], ssn, Len(acked), pending) /\ primary = 1
    BY <1>1 DEF SteadyInv, OneTerm
  <1>3. UNCHANGED <<primary, log, streaming, term, acked, wanted, ssn, handler>>
    BY DEF EnableSyncMode, EnableSync, Abandon, AbandonTransitions
  <1>4. OneTerm' /\ Now' = s
    BY <1>1, <1>3, KeyStep
  <1>5. CASE EnableSyncMode
    <2>1. sync' = [leader |-> 1, quorum |-> 0, voters |-> {}] /\ pending' = pending
      BY <1>2, <1>5 DEF EnableSyncMode, EnableSync, EmptySync
    <2>2. Cardinality({}) = 0 /\ s.have \cap sync'.voters = {}
      BY <2>1, FS_EmptySet
    <2>3. KeyFits(sync', s)
      BY <1>2, <2>1, <2>2 DEF KeyFits, Covers
    <2>4. SteadyIn(Now', sync', handler'[1], ssn', Len(acked'), pending')
      BY <1>2, <1>3, <1>4, <2>1, <2>3, One DEF SteadyIn
    <2> QED
      BY <1>4, <2>4, SteadyNext
  <1>6. CASE Abandon
    <2>1. sync' = sync /\ pending' = << >>
      BY <1>6 DEF Abandon, AbandonTransitions
    <2>2. Fits(pending', s, 1)
      BY <2>1 DEF Fits
    <2>3. SteadyIn(Now', sync', handler'[1], ssn', Len(acked'), pending')
      BY <1>2, <1>3, <1>4, <2>1, <2>2 DEF SteadyIn
    <2> QED
      BY <1>4, <2>3, SteadyNext
  <1> QED
    BY <1>5, <1>6

LEMMA SyncKeySteady ==
    ASSUME ConfigInv, SteadyInv, StepSyncKey
    PROVE  SteadyInv'
  <1>1. PICK s : s = Now
    OBVIOUS
  <1>2. SteadyIn(s, sync, handler[1], ssn, Len(acked), pending) /\ primary = 1
    BY <1>1 DEF SteadyInv, OneTerm
  <1>3. PICK t : t = pending[1]
    OBVIOUS
  <1>4. /\ pending # << >> /\ t.type = "quorum" /\ pending' = Tail(pending)
        /\ sync' = [leader |-> t.leader, quorum |-> t.num, voters |-> t.names]
        /\ UNCHANGED <<primary, log, streaming, term, acked, wanted, ssn, handler>>
    BY <1>3 DEF StepSyncKey, WriteSyncKey
  <1>5. OneTerm' /\ Now' = s
    BY <1>1, <1>4, KeyStep
  <1>6. Fits(pending, s, 1)
    BY <1>2 DEF SteadyIn
  <1>7. Fits(pending', s, 1)
    BY <1>3, <1>4, <1>6, TailFits
  <1>8. FitQuorum(t, s, 1) /\ Covers(t.names, s.names, s.num, s)
    <2>1. 1 \in 1..Len(pending)
      BY <1>4, <1>6 DEF Fits
    <2>2. FitQuorum(t, s, 1) /\ Covered(pending, 1 - 1, t, s)
      BY <1>3, <1>4, <1>6, <2>1 DEF Fits
    <2> QED
      BY <2>2 DEF Covered
  <1>9. KeyFits(sync', s)
    <2>1. t.names # {} /\ s.names # {}
      BY <1>8 DEF FitQuorum
    <2> QED
      BY <1>4, <1>8, <2>1 DEF KeyFits, FitQuorum, Few
  <1>10. sync'.leader # NoNode
    BY <1>4, <1>8, One DEF FitQuorum
  <1>11. SteadyIn(Now', sync', handler'[1], ssn', Len(acked'), pending')
    BY <1>2, <1>4, <1>5, <1>7, <1>9, <1>10 DEF SteadyIn
  <1> QED
    BY <1>5, <1>11, SteadyNext

(* Listing more names: those ready that stay so have what was acknowledged *)
(* when the number grows.                                                  *)
LEMMA StandbyNamesSteady ==
    ASSUME Placed, ConfigInv, SteadyInv, StepStandbyNames
    PROVE  SteadyInv'
  <1>1. PICK s : s = Now
    OBVIOUS
  <1>2. SteadyIn(s, sync, handler[1], ssn, Len(acked), pending) /\ OneTerm /\ primary = 1
    BY <1>1 DEF SteadyInv, OneTerm
  <1>3. PICK t : t = pending[1]
    OBVIOUS
  <1>4. /\ pending # << >> /\ t.type = "sync" /\ pending' = Tail(pending)
        /\ ssn' \in StandbyNames(Max2(t.num, MinSync), t.names, {ssn})
        /\ UNCHANGED <<primary, log, streaming, term, acked, wanted, sync>>
    BY <1>3 DEF StepStandbyNames, SetStandbyNames
  <1>5. Calm(s, 1) /\ Fits(pending, s, 1) /\ KeyFits(sync, s) /\ HandlerFits(handler[1], ssn, Len(acked), s)
    BY <1>2 DEF SteadyIn
  <1>6. t \in Trans /\ FitSync(t, s)
    <2>1. 1 \in 1..Len(pending) /\ pending[1] \in Trans
      BY <1>4, <1>5 DEF Fits
    <2> QED
      BY <1>3, <1>4, <1>5, <2>1 DEF Fits
  <1>7. PICK u : u = Listed(s, t)
    OBVIOUS
  <1>8. /\ Calm(u, 1) /\ s.num <= u.num /\ s.num \in Nat /\ u.num \in Nat /\ u.num >= 1
        /\ u.names # {}
        /\ \A voters : Covers(voters, s.names, s.num, s) => Covers(voters, u.names, u.num, u)
        /\ s.num = u.num \/ s.num = Cardinality(s.names)
    BY <1>5, <1>6, <1>7, ListedMore
  <1>9. u.names = t.names /\ u.num = t.num /\ u.active = s.active /\ u.wanted = s.wanted /\ u.have = s.have
    BY <1>7 DEF Listed
  <1>10. ssn' = [num |-> t.num, names |-> t.names, star |-> FALSE]
    <2>1. Max2(t.num, MinSync) = t.num
      BY <1>8, <1>9, ConfigAssumption DEF Max2
    <2> QED
      BY <1>4, <1>8, <1>9, <2>1 DEF StandbyNames, Accepted
  <1>11. OneTerm'
    BY <1>4, KeyStep
  <1>12. Now' = u
    <2>1. Now' = [names |-> t.names, num |-> t.num, active |-> streaming, wanted |-> wanted, have |-> Have]
      BY <1>4, <1>10, NowNext DEF Have
    <2>2. s.active = streaming /\ s.wanted = wanted /\ s.have = Have
      BY <1>1 DEF Now
    <2> QED
      BY <1>7, <2>1, <2>2 DEF Listed
  <1>13. Fits(pending', u, 1)
    BY <1>3, <1>4, <1>5, <1>7, ListedTailFits
  <1>14. KeyFits(sync, u)
    BY <1>5, <1>8, <1>9 DEF KeyFits
  <1>15. s.names \subseteq u.names /\ s.names = ssn.names
    BY <1>1, <1>6, <1>9 DEF FitSync, Now
  <1>16. s.num = u.num /\ Held(s) => Held(u)
    <2>1. s.have \cap s.names \subseteq u.have \cap u.names /\ u.have \cap u.names \in SUBSET Nodes
      BY <1>8, <1>9, <1>15 DEF Calm
    <2>2. /\ Cardinality(s.have \cap s.names) \in Nat /\ Cardinality(u.have \cap u.names) \in Nat
          /\ Cardinality(s.have \cap s.names) <= Cardinality(u.have \cap u.names)
      BY <2>1, Fewer
    <2> QED
      BY <1>8, <2>2 DEF Held
  <1>17. handler'[1] = Noticed(handler[1], ssn', Len(log[1]))
    <2>1. ~ssn'.star
      BY <1>10
    <2>2. handler' = [handler EXCEPT ![1] = Noticed(@, ssn', Len(log[1]))]
      BY <1>2, <2>1 DEF StepStandbyNames
    <2>3. handler = [n \in Nodes |-> handler[n]]
      BY DEF Placed
    <2> QED
      BY <2>2, <2>3, One
  <1>18. HandlerFits(handler'[1], ssn', Len(acked), u)
    <2>1. handler[1].known = ssn
      BY <1>5 DEF HandlerFits
    <2>2. CASE ssn' = ssn
      <3>1. handler'[1] = handler[1]
        BY <1>17, <2>1, <2>2 DEF Noticed
      <3>2. u.names = s.names /\ u.num = s.num
        BY <1>1, <1>9, <1>10, <2>2 DEF Now
      <3> QED
        BY <1>5, <1>9, <2>2, <3>1, <3>2 DEF HandlerFits, Held
    <2>3. CASE ssn' # ssn
      <3>1. handler'[1] = [known |-> ssn', flush |-> Len(log[1]), ready |-> handler[1].ready \cap ssn'.names]
        BY <1>17, <2>1, <2>3 DEF Noticed
      <3>2. Len(log[1]) \in Nat /\ Len(acked) <= Len(log[1])
        BY <1>2, One DEF OneTerm
      <3>3. handler[1].ready \cap ssn'.names \subseteq u.have \/ Held(u)
        <4>1. CASE handler[1].ready \subseteq s.have
          BY <1>9, <4>1
        <4>2. CASE Held(s) /\ s.num = u.num
          BY <1>16, <4>2
        <4>3. CASE Held(s) /\ s.num = Cardinality(s.names)
          <5>1. s.names \in SUBSET Nodes /\ s.have \cap s.names \in SUBSET s.names
            BY <1>5 DEF Calm
          <5>2. /\ Cardinality(s.have \cap s.names) \in Nat /\ Cardinality(s.names) \in Nat
                /\ s.have \cap s.names # s.names => Cardinality(s.have \cap s.names) < Cardinality(s.names)
            BY <5>1, Fewer
          <5>3. s.names \subseteq s.have
            BY <4>3, <5>2 DEF Held
          <5>4. handler[1].ready \subseteq handler[1].known.names
            BY One DEF Placed, Handler
          <5> QED
            BY <1>9, <1>15, <2>1, <5>3, <5>4
        <4> QED
          BY <1>5, <1>8, <4>1, <4>2, <4>3 DEF HandlerFits
      <3> QED
        BY <3>1, <3>2, <3>3 DEF HandlerFits
    <2> QED
      BY <2>2, <2>3
  <1>19. sync.leader # NoNode
    BY <1>2, <1>4 DEF SteadyIn
  <1>20. ~ssn'.star
    BY <1>10
  <1>21. SteadyIn(Now', sync', handler'[1], ssn', Len(acked'), pending')
    BY <1>4, <1>8, <1>12, <1>13, <1>14, <1>18, <1>19, <1>20 DEF SteadyIn
  <1> QED
    BY <1>11, <1>21, SteadyNext

(* A cycle: those it counts as confirmed are certain to have what was      *)
(* acknowledged, as far as their number goes.                              *)
LEMMA CycleSteady ==
    ASSUME Placed, ConfigInv, SteadyInv, Cycle
    PROVE  SteadyInv'
  <1>1. PICK s : s = Now
    OBVIOUS
  <1>2. SteadyIn(s, sync, handler[1], ssn, Len(acked), pending) /\ OneTerm /\ primary = 1
    BY <1>1 DEF SteadyInv, OneTerm
  <1>3. Calm(s, 1) /\ KeyFits(sync, s) /\ HandlerFits(handler[1], ssn, Len(acked), s)
    BY <1>2 DEF SteadyIn
  <1>4. /\ s.names = ssn.names /\ s.num = ssn.num /\ s.active = streaming /\ s.wanted = wanted /\ s.have = Have
    BY <1>1 DEF Now
  <1> DEFINE caught == {r \in streaming \cap handler[1].known.names : Len(log[r]) >= handler[1].flush}
  <1>5. PICK h : h = [handler[1] EXCEPT !.ready = @ \cup caught]
    OBVIOUS
  <1>6. /\ ComputeTransitions(streaming, h.ready \cap streaming)
        /\ handler' = [handler EXCEPT ![1] = h]
        /\ UNCHANGED <<log, up, streaming, term, faults, acked>>
    <2>1. Noticed(handler[1], ssn, Len(log[1])) = handler[1]
      BY <1>3 DEF HandlerFits, Noticed
    <2>2. WithReady(handler[1], streaming) = h
      BY <1>5 DEF WithReady
    <2> QED
      BY <1>2, <2>1, <2>2 DEF Cycle
  <1>7. /\ h.known = ssn /\ h.flush = handler[1].flush /\ h.ready = handler[1].ready \cup caught
        /\ h.ready \subseteq s.names
    <2>1. Handler(handler[1])
      BY One DEF Placed
    <2> HIDE DEF caught
    <2>2. h = [known |-> handler[1].known, flush |-> handler[1].flush, ready |-> handler[1].ready \cup caught]
      BY <1>5, <2>1 DEF Handler
    <2>3. handler[1].known = ssn /\ handler[1].ready \subseteq ssn.names
      BY <1>3, <2>1 DEF HandlerFits, Handler
    <2>4. caught \subseteq ssn.names
      BY <2>3 DEF caught
    <2> QED
      BY <1>4, <2>2, <2>3, <2>4
  <1>8. handler'[1] = h
    BY <1>6, One DEF Placed
  <1>9. h.ready \subseteq s.have \/ Held(s)
    <2>1. CASE Held(s)
      BY <2>1
    <2>2. CASE ~Held(s)
      <3>1. /\ handler[1].ready \subseteq s.have /\ Len(acked) <= handler[1].flush /\ handler[1].flush \in Nat
            /\ Len(acked) \in Nat
        BY <1>2, <1>3, <2>2 DEF HandlerFits, OneTerm
      <3>2. streaming \subseteq Nodes
        BY DEF Placed
      <3>3. \A n \in Nodes : Len(log[n]) \in Nat
        BY <1>2 DEF OneTerm
      <3>4. caught \subseteq s.have
        BY <1>4, <3>1, <3>2, <3>3 DEF Have
      <3> QED
        BY <1>7, <3>1, <3>4
    <2> QED
      BY <2>1, <2>2
  <1>10. HandlerFits(h, ssn, Len(acked), s)
    BY <1>3, <1>7, <1>9 DEF HandlerFits
  <1>11. UNCHANGED <<primary, sync, ssn, wanted, log, streaming, term, acked>> /\ sync.leader # NoNode
    BY <1>6 DEF ComputeTransitions
  <1>12. OneTerm' /\ Now' = s
    BY <1>1, <1>11, KeyStep
  <1> DEFINE C == h.ready \cap streaming
  <1>13. PICK q : q = CycleResolver(streaming, C)
    OBVIOUS
  <1>14. pending' = Transitions(q)
    BY <1>6, <1>13 DEF ComputeTransitions
  <1>15. /\ C \in SUBSET s.names /\ s.names \in SUBSET Nodes
         /\ Cardinality(C) \in Nat /\ Cardinality(s.names) \in Nat /\ Cardinality(C) <= Cardinality(s.names)
    <2>1. C \in SUBSET s.names /\ s.names \in SUBSET Nodes
      BY <1>3, <1>7 DEF Calm
    <2> HIDE DEF C
    <2> QED
      BY <2>1, Fewer
  <1>16. q = [leader |-> 1, quorum |-> sync.quorum, voters |-> sync.voters,
              numsync |-> s.num, sync |-> s.names, confirmed |-> Cardinality(C),
              active |-> s.active, wanted |-> s.wanted, leader_wanted |-> 1,
              out |-> << >>, exit |-> "running"]
    <2>1. sync.leader = 1
      BY <1>3, <1>11 DEF KeyFits
    <2>2. Min2(s.num, Cardinality(s.names)) = s.num
      BY <1>3, <1>15 DEF Calm, Min2
    <2> HIDE DEF C
    <2> QED
      BY <1>2, <1>4, <1>13, <2>1, <2>2 DEF CycleResolver, Resolver
  <1> HIDE DEF C
  <1>17. /\ sync.quorum \in Nat /\ sync.voters \in SUBSET Nodes /\ s.num \in Int /\ s.wanted \in Int
         /\ s.names \in SUBSET (Nodes \ {1}) /\ s.active \in SUBSET (Nodes \ {1})
    BY <1>3, <1>4 DEF ConfigInv, ConfigTyped, Calm
  <1>18. q \in Res(1)
    <2>1. << >> \in Seq(Trans)
      OBVIOUS
    <2> QED
      BY <1>15, <1>16, <1>17, <2>1, One DEF Res
  <1>19. Grows(q, s)
    <2>1. C = {} => Cardinality(C) = 0
      BY FS_EmptySet
    <2> QED
      BY <1>3, <1>15, <1>16, <2>1 DEF Grows, KeyFits, Calm
  <1>20. Backed(q, s)
    BY <1>3, <1>16 DEF Backed, KeyFits
  <1>21. Certain(q) <= Cardinality(s.have \cap q.sync)
    <2>1. s.have \cap s.names \in SUBSET Nodes /\ Cardinality(s.have \cap s.names) \in Nat
      BY <1>15, FiniteNames
    <2>2. Certain(q) = Min2(s.wanted, Cardinality(C)) /\ q.sync = s.names
      BY <1>16 DEF Certain
    <2>3. CASE h.ready \subseteq s.have
      <3>1. C \in SUBSET (s.have \cap s.names)
        BY <1>15, <2>3 DEF C
      <3>2. Cardinality(C) <= Cardinality(s.have \cap s.names)
        BY <2>1, <3>1, Fewer
      <3> QED
        BY <1>15, <1>17, <2>1, <2>2, <3>2 DEF Min2
    <2>4. CASE Held(s)
      <3>1. s.num = Min2(s.wanted, Cardinality(s.names))
        BY <1>3 DEF Calm
      <3> QED
        BY <1>15, <1>17, <2>1, <2>2, <2>4, <3>1 DEF Held, Min2
    <2> QED
      BY <1>9, <2>3, <2>4
  <1>22. Begins(q, s, 1)
    <2>1. q.exit = "running" /\ q.out = << >> /\ q.leader = 1 /\ q.numsync = s.num
      BY <1>16
    <2> QED
      BY <1>18, <1>19, <1>20, <1>21, <2>1 DEF Begins
  <1>23. Fits(pending', s, 1)
    BY <1>3, <1>14, <1>22, One, TransitionsFit
  <1>24. SteadyIn(Now', sync', handler'[1], ssn', Len(acked'), pending')
    BY <1>2, <1>8, <1>10, <1>11, <1>12, <1>23 DEF SteadyIn
  <1> QED
    BY <1>12, <1>24, SteadyNext

(* A commit is acknowledged: the quorums meet, so the voters without it    *)
(* are too few to elect.                                                   *)
LEMMA AcknowledgeSteady ==
    ASSUME Placed, ConfigInv, SteadyInv, Acknowledge
    PROVE  SteadyInv'
  <1>1. PICK s : s = Now
    OBVIOUS
  <1>2. PICK u : u = Now'
    OBVIOUS
  <1>3. SteadyIn(s, sync, handler[1], ssn, Len(acked), pending) /\ OneTerm /\ primary = 1
    BY <1>1 DEF SteadyInv, OneTerm
  <1>4. /\ acked' \in Prefixes(log[1]) /\ Confirmable(acked') /\ sync.leader # NoNode
        /\ UNCHANGED <<config, log, up, streaming, handler, term, faults>>
    BY <1>3 DEF Acknowledge
  <1>5. UNCHANGED <<primary, sync, ssn, pending, wanted>>
    BY <1>4 DEF config
  <1>6. acked' \in Seq({1}) /\ Len(acked') <= Len(log[1])
    <2>1. log[1] \in Seq({1})
      BY <1>3, One DEF OneTerm
    <2>2. \A a \in Prefixes(log[1]) : a \in Seq({1}) /\ Len(a) <= Len(log[1])
      BY <2>1, OnesPrefixes
    <2> QED
      BY <1>4, <2>2
  <1>7. OneTerm'
    BY <1>3, <1>4, <1>5, <1>6 DEF OneTerm
  <1>8. /\ u.names = ssn.names /\ u.num = ssn.num /\ u.active = streaming /\ u.wanted = wanted
        /\ u.have = {n \in Nodes : Len(acked') <= Len(log[n])}
        /\ s.names = ssn.names /\ s.num = ssn.num /\ s.active = streaming /\ s.wanted = wanted
    BY <1>1, <1>2, <1>4, <1>5, NowNext DEF Now
  <1>9. Calm(s, 1) /\ Calm(u, 1)
    BY <1>3, <1>8 DEF SteadyIn, Calm
  <1>10. ssn.num \in Int /\ sync.quorum \in Nat /\ sync.voters \in SUBSET Nodes /\ ~ssn.star
         /\ ssn.names \in SUBSET Nodes
    BY <1>3 DEF ConfigInv, ConfigTyped, SteadyIn
  <1> DEFINE B == u.have \cap ssn.names
  <1>11. Cardinality(B) >= ssn.num /\ B \in SUBSET Nodes
    <2> DEFINE have == {r \in streaming : IsPrefix(acked', log[r])}
    <2>1. Cardinality(have \cap ssn.names) >= ssn.num
      BY <1>4, <1>10 DEF Confirmable
    <2>2. streaming \subseteq Nodes
      BY DEF Placed
    <2>3. have \cap ssn.names \in SUBSET B /\ B \in SUBSET Nodes
      BY <1>8, <1>10, <2>2 DEF IsPrefix
    <2> HIDE DEF have, B
    <2>4. /\ Cardinality(have \cap ssn.names) \in Nat /\ Cardinality(B) \in Nat
          /\ Cardinality(have \cap ssn.names) <= Cardinality(B)
      BY <2>3, Fewer
    <2> QED
      BY <1>10, <2>1, <2>3, <2>4
  <1>12. Held(u)
    <2>1. Cardinality(B) \in Nat
      BY <1>11, FiniteNames
    <2>2. B = u.have \cap u.names
      BY <1>8
    <2> HIDE DEF B
    <2> QED
      BY <1>8, <1>10, <1>11, <2>1, <2>2 DEF Held
  <1>13. Later(s, u)
    BY <1>8, <1>12 DEF Later
  <1>14. Fits(pending, u, 1)
    BY <1>3, <1>9, <1>13, LaterFits DEF SteadyIn
  <1>15. Cardinality(sync.voters) - sync.quorum <= Cardinality(u.have \cap sync.voters)
    <2> DEFINE E == sync.voters \ u.have
    <2>1. ~(Cardinality(E) > sync.quorum)
      <3> SUFFICES ASSUME Cardinality(E) > sync.quorum PROVE FALSE
        OBVIOUS
      <3>1. E \in Electors
        BY <1>4 DEF Electors, Members
      <3>2. (B \cup {1}) \in Acknowledgers
        BY <1>3, <1>11 DEF Acknowledgers
      <3>3. (B \cup {1}) \cap E # {}
        BY <1>3, <3>1, <3>2, One DEF ConfigInv, QuorumsMeet
      <3>4. 1 \notin sync.voters
        BY <1>3, <1>9 DEF SteadyIn, KeyFits, Calm
      <3> QED
        BY <3>3, <3>4
    <2>2. IsFiniteSet(sync.voters) /\ Cardinality(sync.voters) \in Nat
      BY <1>10, FiniteNames
    <2>3. Cardinality(E) = Cardinality(sync.voters) - Cardinality(sync.voters \cap u.have)
      BY <2>2, FS_Difference
    <2>4. sync.voters \cap u.have = u.have \cap sync.voters
      OBVIOUS
    <2>5. Cardinality(E) = Cardinality(sync.voters) - Cardinality(u.have \cap sync.voters)
      BY <2>3, <2>4
    <2>6. Cardinality(u.have \cap sync.voters) \in Nat
      BY <1>10, FiniteNames, u.have \cap sync.voters \in SUBSET Nodes
    <2> HIDE DEF E
    <2> DEFINE e == Cardinality(E)
               v == Cardinality(sync.voters)
               h == Cardinality(u.have \cap sync.voters)
    <2>7. /\ e = v - h /\ v \in Nat /\ h \in Nat /\ sync.quorum \in Nat
          /\ ~(e > sync.quorum)
      BY <1>10, <2>1, <2>2, <2>5, <2>6
    <2> HIDE DEF e, v, h
    <2>8. v - sync.quorum <= h
      BY <2>7
    <2> QED
      BY <2>8 DEF v, h
  <1>16. KeyFits(sync, u)
    BY <1>3, <1>8, <1>15 DEF SteadyIn, KeyFits, Covers
  <1>17. HandlerFits(handler[1], ssn, Len(acked'), u)
    BY <1>3, <1>12 DEF SteadyIn, HandlerFits
  <1>18. SteadyIn(u, sync', handler'[1], ssn', Len(acked'), pending')
    BY <1>3, <1>4, <1>5, <1>9, <1>14, <1>16, <1>17 DEF SteadyIn
  <1> QED
    BY <1>2, <1>7, <1>18, SteadyNext

LEMMA SteadyStep ==
    ASSUME Placed, ConfigInv, faults = 0 => SteadyInv, faults \in Nat, [Next]_vars
    PROVE  faults' \in Nat /\ (faults' = 0 => SteadyInv')
  <1>1. CASE \/ \E c \in Counts : SetCount(c)
             \/ \E n \in Nodes : Stop(n) \/ Disconnect(n)
    BY <1>1 DEF SetCount, Stop, Disconnect
  <1>2. CASE \E n \in Nodes : Election(n)
    <2>1. primary = NoNode /\ faults' = faults
      BY <1>2 DEF Election
    <2>2. ~SteadyInv
      BY <2>1, One DEF SteadyInv, OneTerm
    <2> QED
      BY <2>1, <2>2
  <1>3. CASE \/ Write \/ UNCHANGED vars
             \/ \E r \in Nodes : Replicate(r) \/ Connect(r) \/ Rewind(r) \/ Start(r)
    <2>1. faults' = faults
      BY <1>3 DEF Write, Replicate, Connect, Rewind, Start, vars
    <2> QED
      BY <1>3, <2>1, One, GrowingSteps
  <1>4. CASE Cycle \/ EnableSyncMode \/ StepSyncKey \/ StepStandbyNames \/ Abandon \/ Acknowledge
    <2>1. faults' = faults
      BY <1>4 DEF Cycle, EnableSyncMode, StepSyncKey, StepStandbyNames, Abandon, Acknowledge
    <2> QED
      BY <1>4, <2>1, CycleSteady, EnableSyncSteady, SyncKeySteady, StandbyNamesSteady, AcknowledgeSteady
  <1> QED
    BY <1>1, <1>2, <1>3, <1>4 DEF Next

(* As long as no node stops, no connection is lost and the count stays,    *)
(* whoever can elect a primary includes a node with every commit that was  *)
(* acknowledged (docs/replication_modes.rst, of the resolver of quorum.py, *)
(* SyncHandler and PostgreSQL together).                                   *)
THEOREM SteadyCommits == Spec => []SteadyHasLatestCommit
  <1> DEFINE Inv == Placed /\ ConfigInv /\ faults \in Nat /\ (faults = 0 => SteadyInv)
  <1>1. Init => Inv
    <2>1. Init => ConfigInv
      BY ConfigInitially DEF Init
    <2>2. ConfigInv => ConfigTyped
      BY DEF ConfigInv
    <2>3. Init => faults = 0
      BY DEF Init
    <2> QED
      BY <2>1, <2>2, <2>3, InitPlaced, SteadyInit
  <1>2. Inv /\ [Next]_vars => Inv'
    <2>1. Placed /\ [Next]_vars => Placed' /\ (ConfigStep \/ UNCHANGED config)
      BY PlacedStep
    <2>2. ConfigInv /\ (ConfigStep \/ UNCHANGED config) => ConfigInv'
      BY ConfigStepKeeps
    <2> QED
      BY <2>1, <2>2, SteadyStep
  <1>3. Inv => SteadyHasLatestCommit
    BY SteadyElects DEF SteadyHasLatestCommit
  <1> QED
    BY <1>1, <1>2, <1>3, PTL DEF Spec

-----------------------------------------------------------------------------
(* One fault.  Nothing is acknowledged before /sync is in use.  After the  *)
(* primary has stopped the logs and /sync stay what they were until a node *)
(* wins the race; a primary that runs has what was acknowledged.           *)
Unused == sync.leader = NoNode => acked = << >>
Leaderless ==
    /\ log \in [Nodes -> Seq({1})] /\ acked \in Seq({1})
    /\ \A n \in Nodes : Len(log[n]) <= Len(log[1])
    /\ Len(acked) <= Len(log[1])
    /\ sync.leader \in {1, NoNode}
    /\ QuorumHasLatestCommit
PrimaryHasAll == log[primary] \in Seq(Nat) /\ acked \in Seq(Nat) /\ IsPrefix(acked, log[primary])
OneFault ==
    /\ log = [n \in Nodes |-> log[n]] /\ term \in Nat
    /\ IF primary = NoNode THEN Leaderless ELSE PrimaryHasAll

(* Who wins the race has what the electing set has.                        *)
LEMMA WinnerHasAll ==
    ASSUME Placed, ConfigInv, Unused, Leaderless, NEW n \in Nodes, Election(n)
    PROVE  Len(acked) <= Len(log[n])
  <1>1. PICK seen \in SUBSET ((IF Members = {} THEN Nodes ELSE Members) \cap (up \ {n})) :
            Healthiest(n, seen)
    BY DEF Election
  <1> DEFINE ahead == {m \in seen : Len(log[m]) > Len(log[n])}
             votes == seen \ ahead
  <1>2. ahead \subseteq {sync.leader} /\ Elects(n, Cardinality(votes), ahead = {})
    BY <1>1 DEF Healthiest
  <1>3. \A m \in Nodes : Len(log[m]) \in Nat
    BY DEF Leaderless
  <1>4. Len(acked) \in Nat
    BY DEF Leaderless
  <1>5. CASE sync.leader = NoNode
    BY <1>3, <1>5 DEF Unused
  <1>6. CASE sync.leader # NoNode /\ sync.leader = n
    BY <1>6, One DEF Leaderless
  <1>7. CASE sync.leader # NoNode /\ sync.leader # n
    <2>1. sync.quorum \in Nat /\ sync.voters \in SUBSET Nodes /\ Members \in SUBSET Nodes
      BY <1>7, One DEF ConfigInv, ConfigTyped, Members, Leaderless
    <2>2. Members # {}
      BY <1>7 DEF Members
    <2>3. votes \in SUBSET (Members \ {n}) /\ votes \in SUBSET Nodes
      BY <1>1, <2>1, <2>2
    <2>4. IsFiniteSet(votes) /\ Cardinality(votes) \in Nat
      BY <2>3, FiniteNames
    <2>5. Cardinality(votes) - (IF n \in Members THEN 0 ELSE 1) >= sync.quorum
      BY <1>2, <1>7 DEF Elects
    <2>6. Cardinality(votes \cup {n}) = Cardinality(votes) + 1
      BY <2>3, <2>4, FS_AddElement
    <2>7. \A m \in votes \cup {n} : m \in Nodes /\ Len(log[m]) <= Len(log[n])
      BY <1>3, <2>3
    <2>8. PICK E \in Electors : E \subseteq votes \cup {n}
      <3>1. CASE n \in Members
        <4>1. (votes \cup {n}) \in SUBSET Members
          BY <2>3, <3>1
        <4> HIDE DEF votes
        <4>2. Cardinality(votes \cup {n}) > sync.quorum
          BY <2>1, <2>4, <2>5, <2>6, <3>1
        <4> QED
          BY <4>1, <4>2 DEF Electors
      <3>2. CASE n \notin Members
        <4>1. votes \in SUBSET Members
          BY <2>3
        <4> HIDE DEF votes
        <4>2. Cardinality(votes) > sync.quorum
          BY <2>1, <2>4, <2>5, <3>2
        <4> QED
          BY <4>1, <4>2 DEF Electors
      <3> QED
        BY <3>1, <3>2
    <2>9. PICK m \in E : IsPrefix(acked, log[m])
      BY DEF Leaderless, QuorumHasLatestCommit
    <2>10. m \in Nodes /\ Len(log[m]) <= Len(log[n])
      BY <2>7, <2>8
    <2>11. Len(acked) <= Len(log[m])
      BY <2>9, <2>10, OnesPrefix DEF Leaderless
    <2> QED
      BY <1>3, <1>4, <2>10, <2>11
  <1> QED
    BY <1>5, <1>6, <1>7

LEMMA PrefixAppend ==
    ASSUME NEW a \in Seq(Nat), NEW b \in Seq(Nat), NEW t \in Nat, IsPrefix(a, b)
    PROVE  Append(b, t) \in Seq(Nat) /\ IsPrefix(a, Append(b, t))
  <1>1. Len(a) \in Nat /\ Len(b) \in Nat /\ Len(a) <= Len(b) /\ SubSeq(a, 1, Len(a)) = SubSeq(b, 1, Len(a))
    BY DEF IsPrefix
  <1>2. Append(b, t) \in Seq(Nat) /\ Len(Append(b, t)) = Len(b) + 1
    OBVIOUS
  <1>3. SubSeq(Append(b, t), 1, Len(a)) = SubSeq(b, 1, Len(a))
    BY <1>1
  <1> QED
    BY <1>1, <1>2, <1>3 DEF IsPrefix

LEMMA PrefixIs ==
    ASSUME NEW b \in Seq(Nat), NEW a \in Prefixes(b)
    PROVE  a \in Seq(Nat) /\ IsPrefix(a, b)
  <1>1. PICK l \in 0..Len(b) : a = SubSeq(b, 1, l)
    BY DEF Prefixes
  <1>2. a \in Seq(Nat) /\ Len(a) = l /\ Len(a) <= Len(b)
    BY <1>1
  <1>3. SubSeq(a, 1, Len(a)) = SubSeq(b, 1, Len(a))
    BY <1>1, <1>2
  <1> QED
    BY <1>2, <1>3 DEF IsPrefix

LEMMA SteadyLeads ==
    ASSUME ConfigInv, SteadyInv
    PROVE  OneFault
  <1>1. OneTerm
    BY DEF SteadyInv
  <1>2. IsPrefix(acked, log[1])
    BY <1>1, One, OnesPrefix DEF OneTerm
  <1>3. log[1] \in Seq(Nat) /\ acked \in Seq(Nat)
    BY <1>1, One DEF OneTerm
  <1> QED
    BY <1>1, <1>2, <1>3, One DEF OneFault, OneTerm, PrimaryHasAll

(* The fault.                                                              *)
LEMMA FaultStrikes ==
    ASSUME ConfigInv, SteadyInv,
           \/ \E c \in Counts : SetCount(c)
           \/ \E n \in Nodes : Stop(n) \/ Disconnect(n)
    PROVE  OneFault'
  <1>1. OneFault /\ OneTerm
    BY SteadyLeads DEF SteadyInv
  <1>2. /\ QuorumHasLatestCommit /\ sync.leader \in {1, NoNode}
    BY SteadyElects DEF SteadyInv, SteadyIn, KeyFits
  <1>3. UNCHANGED <<log, acked, term, sync>>
    BY DEF SetCount, ChangeCount, Stop, Disconnect, LosePrimary, config
  <1>4. primary' \in {primary, NoNode}
    BY DEF SetCount, ChangeCount, Stop, Disconnect, LosePrimary, config
  <1>5. CASE primary' = NoNode
    <2>1. QuorumHasLatestCommit'
      BY <1>2, <1>3 DEF QuorumHasLatestCommit, Electors, Members
    <2>2. Leaderless'
      BY <1>1, <1>2, <1>3, <2>1 DEF Leaderless, OneTerm
    <2> QED
      BY <1>1, <1>3, <1>5, <2>2 DEF OneFault
  <1>6. CASE primary' = primary /\ primary # NoNode
    BY <1>1, <1>3, <1>6 DEF OneFault, PrimaryHasAll
  <1> QED
    BY <1>1, <1>4, <1>5, <1>6, One DEF OneTerm

(* What follows it.                                                        *)
LEMMA FaultFollowed ==
    ASSUME Placed, ConfigInv, Unused, OneFault, [Next]_vars, faults' = faults, faults \in Nat
    PROVE  OneFault'
  <1>1. CASE \/ Cycle \/ EnableSyncMode \/ StepSyncKey \/ StepStandbyNames \/ Abandon
             \/ \E r \in Nodes : Connect(r) \/ Start(r)
             \/ UNCHANGED vars
    <2>1. UNCHANGED <<log, acked, term, primary>>
      BY <1>1 DEF Cycle, ComputeTransitions, EnableSyncMode, EnableSync, StepSyncKey, WriteSyncKey,
                  StepStandbyNames, SetStandbyNames, Abandon, AbandonTransitions, Connect, Start, config, vars
    <2>2. primary = NoNode => UNCHANGED sync
      BY <1>1 DEF Cycle, ComputeTransitions, EnableSyncMode, EnableSync, StepSyncKey, WriteSyncKey,
                  StepStandbyNames, SetStandbyNames, Abandon, AbandonTransitions, Connect, Start, config, vars
    <2> QED
      BY <2>1, <2>2 DEF OneFault, PrimaryHasAll, Leaderless, QuorumHasLatestCommit, Electors, Members
  <1>2. CASE Write
    <2>1. /\ primary # NoNode /\ log' = [log EXCEPT ![primary] = Append(@, term)]
          /\ UNCHANGED <<primary, acked, term>>
      BY <1>2 DEF Write, config
    <2>2. PrimaryHasAll /\ term \in Nat /\ primary \in Nodes
      BY <2>1 DEF OneFault, Placed
    <2>3. log'[primary] = Append(log[primary], term)
      BY <2>1, <2>2 DEF OneFault
    <2>4. PrimaryHasAll'
      BY <2>1, <2>2, <2>3, PrefixAppend DEF PrimaryHasAll
    <2> QED
      BY <2>1, <2>4 DEF OneFault
  <1>3. CASE Acknowledge
    <2>1. /\ primary # NoNode /\ acked' \in Prefixes(log[primary])
          /\ UNCHANGED <<primary, log, term>>
      BY <1>3 DEF Acknowledge, config
    <2>2. PrimaryHasAll'
      BY <2>1, PrefixIs DEF OneFault, PrimaryHasAll
    <2> QED
      BY <2>1, <2>2 DEF OneFault
  <1>4. ASSUME NEW r \in Nodes, Replicate(r) \/ Rewind(r) PROVE OneFault'
    <2>1. /\ primary # NoNode /\ r # primary /\ UNCHANGED <<primary, acked, term>>
          /\ \E l : log' = [log EXCEPT ![r] = l]
      BY <1>4 DEF Replicate, Rewind, config, Placed
    <2>2. log'[primary] = log[primary] /\ log' = [n \in Nodes |-> log'[n]]
      BY <2>1 DEF OneFault
    <2> QED
      BY <2>1, <2>2 DEF OneFault, PrimaryHasAll
  <1>5. ASSUME NEW n \in Nodes, Election(n) PROVE OneFault'
    <2>1. /\ primary = NoNode /\ primary' = n /\ term' = term + 1 /\ acked' = acked
          /\ log' = [log EXCEPT ![n] = Append(@, term')]
      BY <1>5 DEF Election, Promote
    <2>2. Leaderless /\ n # NoNode
      BY <2>1 DEF OneFault, Nodes, NoNode
    <2>3. Len(acked) <= Len(log[n])
      BY <1>5, <2>2, WinnerHasAll
    <2>4. IsPrefix(acked, log[n]) /\ log[n] \in Seq(Nat) /\ acked \in Seq(Nat)
      BY <2>2, <2>3, OnesPrefix DEF Leaderless
    <2>5. term' \in Nat /\ log'[n] = Append(log[n], term') /\ log' = [m \in Nodes |-> log'[m]]
      <3>1. PICK l : l = Append(log[n], term')
        OBVIOUS
      <3>2. log' = [log EXCEPT ![n] = l]
        BY <2>1, <3>1
      <3>3. log = [m \in Nodes |-> log[m]] /\ term \in Nat
        BY DEF OneFault
      <3>4. log'[n] = l /\ log' = [m \in Nodes |-> log'[m]]
        BY <3>2, <3>3
      <3> QED
        BY <2>1, <3>1, <3>3, <3>4
    <2>6. Append(log[n], term') \in Seq(Nat) /\ IsPrefix(acked, Append(log[n], term'))
      BY <2>4, <2>5, PrefixAppend
    <2>7. PrimaryHasAll'
      BY <2>1, <2>4, <2>5, <2>6 DEF PrimaryHasAll
    <2> QED
      BY <2>1, <2>2, <2>5, <2>7 DEF OneFault
  <1>6. CASE \/ \E c \in Counts : SetCount(c)
             \/ \E n \in Nodes : Stop(n) \/ Disconnect(n)
    <2>1. faults' = faults + 1
      BY <1>6 DEF SetCount, Stop, Disconnect
    <2> QED
      BY <2>1
  <1> QED
    BY <1>1, <1>2, <1>3, <1>4, <1>5, <1>6 DEF Next

LEMMA UnusedKept ==
    ASSUME Placed, ConfigInv, Unused, [Next]_vars
    PROVE  Unused'
  <1>1. CASE Acknowledge
    BY <1>1 DEF Acknowledge, Unused, config
  <1>2. CASE ~Acknowledge
    <2>1. acked' = acked
      BY <1>2 DEF Next, Cycle, EnableSyncMode, StepSyncKey, StepStandbyNames, Abandon, SetCount, Write,
                  Replicate, Connect, Rewind, Stop, Disconnect, Start, Election, vars
    <2>2. sync.leader # NoNode => sync'.leader # NoNode
      <3>1. CASE StepSyncKey
        <4>1. pending \in Seq(Trans) /\ pending # << >> /\ sync'.leader = Head(pending).leader
          BY <3>1 DEF StepSyncKey, WriteSyncKey, ConfigInv, Led, Chain
        <4>2. Head(pending) \in Trans
          BY <4>1
        <4> QED
          BY <4>1, <4>2 DEF Trans, Nodes, NoNode
      <3>2. CASE ~StepSyncKey
        <4>1. sync' = sync \/ EnableSync
          BY <1>2, <3>2 DEF Next, Cycle, ComputeTransitions, EnableSyncMode, StepStandbyNames, SetStandbyNames,
                  Abandon, AbandonTransitions, SetCount, ChangeCount, Write, Replicate, Connect, Rewind, Stop,
                  LosePrimary, Disconnect, Start, Election, Promote, vars, config
        <4> QED
          BY <4>1 DEF EnableSync
      <3> QED
        BY <3>1, <3>2
    <2> QED
      BY <2>1, <2>2 DEF Unused
  <1> QED
    BY <1>1, <1>2

(* Up to one fault (a node that stops, a connection lost, a change of the  *)
(* count), whenever it happens: whoever is the primary has every commit    *)
(* that was acknowledged before (the leader race of Ha._is_healthiest_node *)
(* with the quorum of /sync that quorum.py and SyncHandler keep).          *)
THEOREM OneFaultLosesNothing == Spec => [](faults <= 1 => NoLostCommit)
  <1> DEFINE Inv ==
        /\ Placed /\ ConfigInv /\ Unused /\ faults \in Nat
        /\ faults = 0 => SteadyInv
        /\ faults = 1 => OneFault
  <1>1. Init => Inv
    <2>1. Init => ConfigInv
      BY ConfigInitially DEF Init
    <2>2. ConfigInv => ConfigTyped
      BY DEF ConfigInv
    <2>3. Init => faults = 0 /\ Unused
      BY DEF Init, Unused
    <2> QED
      BY <2>1, <2>2, <2>3, InitPlaced, SteadyInit
  <1>2. Inv /\ [Next]_vars => Inv'
    <2> SUFFICES ASSUME Inv, [Next]_vars PROVE Inv'
      OBVIOUS
    <2>1. Placed' /\ (ConfigStep \/ UNCHANGED config)
      BY PlacedStep
    <2>2. ConfigInv'
      BY <2>1, ConfigStepKeeps
    <2>3. faults' \in Nat /\ (faults' = 0 => SteadyInv')
      BY SteadyStep
    <2>4. Unused'
      BY UnusedKept
    <2>5. ASSUME faults' = 1 PROVE OneFault'
      <3>1. CASE \/ \E c \in Counts : SetCount(c)
                 \/ \E n \in Nodes : Stop(n) \/ Disconnect(n)
        <4>1. faults' = faults + 1
          BY <3>1 DEF SetCount, Stop, Disconnect
        <4> QED
          BY <2>5, <3>1, <4>1, FaultStrikes
      <3>2. CASE ~ \/ \E c \in Counts : SetCount(c)
                   \/ \E n \in Nodes : Stop(n) \/ Disconnect(n)
        <4>1. faults' = faults
          BY <3>2 DEF Next, Cycle, EnableSyncMode, StepSyncKey, StepStandbyNames, Abandon, Write,
                  Acknowledge, Replicate, Connect, Rewind, Start, Election, vars
        <4> QED
          BY <2>5, <4>1, FaultFollowed
      <3> QED
        BY <3>1, <3>2
    <2> QED
      BY <2>1, <2>2, <2>3, <2>4, <2>5
  <1>3. Inv => (faults <= 1 => NoLostCommit)
    <2>1. Inv /\ faults = 0 => OneFault
      BY SteadyLeads
    <2>2. OneFault => NoLostCommit
      BY DEF OneFault, PrimaryHasAll, NoLostCommit
    <2> QED
      BY <2>1, <2>2
  <1> QED
    BY <1>1, <1>2, <1>3, PTL DEF Spec
=============================================================================
