---------------------------- MODULE ClusterProofs -----------------------------
(***************************************************************************)
(* Proofs about the parts of Patroni that MCParts, MCExecutor and          *)
(* MCCluster check side by side, for every value of their constants.  Each *)
(* comes under a letter of its own; the parts share constants and          *)
(* variables of the same names.                                            *)
(***************************************************************************)
EXTENDS Integers, FiniteSets, FiniteSetTheorems, TLAPS

CONSTANTS
  Node, None, MaxFaults,
  Ttl, MaxMoves, Forgetful, Lossy,   \* of Failsafe
  MaxIds, Untidy,                    \* of Bootstrap
  Strict, MaxLog, MaxByHand,         \* of MultiSync
  SlotTtl, MaxSlotMoves,             \* of MemberSlots
  Server, Config, Product, RetryTimeout, MaxChanges, PreVote, Insistent,  \* of EtcdClient
  MaxRequests,                       \* of Switchover
  MaxXid, Reload,                    \* of LogicalSlots
  Kilo, MaxValue                     \* of Units

VARIABLES
  leader, left, failsafe, members, pg, known, heard, step, ran, faults, moves,   \* of Failsafe
  initialize, view, data, busy, booting, called, ids,                            \* of Bootstrap
  primary, log, streaming, acked, byHand, sync, ssn, handler, wanted, plan,      \* of MultiSync
  retained, slots, loaded, age, owed,                                            \* of MemberSlots
  product, alive, alone, leaderless, term, changes, cache, base, update, call,   \* of EtcdClient
  key, failover, paused, lagging,                                                \* of Switchover
  follows, slot, removed, phys, status, mind,                                    \* of LogicalSlots
  setting                                                                        \* of Units

F == INSTANCE Failsafe
B == INSTANCE Bootstrap
M == INSTANCE MultiSync
D == INSTANCE MemberSlots WITH MaxMoves <- MaxSlotMoves
T == INSTANCE EtcdClient
W == INSTANCE Switchover
C == INSTANCE LogicalSlots
U == INSTANCE Units WITH K <- Kilo

-----------------------------------------------------------------------------
\* Failsafe.  While there is no leader key a primary is protected: whoever /failsafe names
\* has heard from it less than ttl ago, or is dead, and nobody else may race.

Place == {"idle", "update", "acquire", "promote", "follow"}
FailsafeType ==
  /\ leader \in Node \cup {None} /\ left \in Nat
  /\ leader = None <=> left = 0
  /\ failsafe \in SUBSET Node /\ members \in SUBSET Node
  /\ pg \in [Node -> {"primary", "replica", "dead"}]
  /\ known \in [Node -> SUBSET Node]
  /\ heard \in [Node -> [from : Node \cup {None}, left : Nat]]
  /\ step \in [Node -> [at : Place, members : SUBSET Node]]

Primary(n) == pg[n] = "primary"

\* A primary has not been asked, and nobody asks itself.
Unasked == \A n \in Node : heard[n].from # n /\ (Primary(n) => heard[n].left = 0)

DeadIdle == \A n \in Node : pg[n] = "dead" => step[n].at = "idle"

\* What a cycle has found out about the leader key still holds.
Holder ==
  \A n \in Node :
    /\ step[n].at = "update" => leader = n
    /\ step[n].at = "promote" => leader = n /\ left = Ttl

Exclusive == \A n \in Node : Primary(n) => leader \in {n, None}

\* What a primary, or a node that is going to be one, knows of /failsafe.
Knowing ==
  \A n \in Node :
    /\ Primary(n) => known[n] \in {{}, failsafe}
    /\ step[n].at \in {"update", "promote"} => known[n] = failsafe
    /\ step[n].at = "acquire" /\ leader = None => known[n] = failsafe

\* Every member that p knows of counts p as the leader for t more seconds.
Vouched(p, t) ==
  /\ p \in known[p]
  /\ \A r \in known[p] \ {p} : pg[r] = "dead" \/ (heard[r].from = p /\ heard[r].left >= t)

Protected ==
  \A p \in Node : Primary(p) /\ leader = None =>
    Vouched(p, 1) /\ \A r \in Node \ {p} : step[r].at # "acquire"

\* A primary that had its cycle in this second is safe for the next ones.
Renewed ==
  \A p \in Node : Primary(p) /\ p \in ran => (leader = p /\ left = Ttl) \/ Vouched(p, Ttl)

FailsafeInv ==
  /\ FailsafeType /\ Unasked /\ DeadIdle /\ Holder /\ Exclusive /\ Knowing /\ Protected /\ Renewed

LEMMA FailsafeInitially ==
  ASSUME None \notin Node, Node # {}, Ttl \in Nat \ {0}, F!Init
  PROVE  FailsafeInv
<1> DEFINE first == CHOOSE n \in Node : TRUE
<1>1. first \in Node
  OBVIOUS
<1>2. /\ leader = first /\ left = Ttl /\ ran = {}
      /\ pg = [n \in Node |-> IF n = first THEN "primary" ELSE "replica"]
      /\ members \in SUBSET Node /\ failsafe \in SUBSET Node
      /\ known = [n \in Node |-> {}]
      /\ heard = [n \in Node |-> [from |-> None, left |-> 0]]
      /\ step = [n \in Node |-> [at |-> "idle", members |-> {}]]
  BY DEF F!Init, F!Unheard, F!AtEase
<1> HIDE DEF first
<1> QED
  BY <1>1, <1>2 DEF FailsafeInv, FailsafeType, Unasked, DeadIdle, Holder, Exclusive, Knowing,
    Protected, Renewed, Primary, Place

\* Of two primaries each would have heard from the other.
LEMMA OnlyOne ==
  ASSUME None \notin Node, FailsafeInv, NEW p \in Node, NEW q \in Node, Primary(p), Primary(q)
  PROVE  p = q
<1>1. CASE leader # None
  BY <1>1 DEF FailsafeInv, Exclusive
<1>2. CASE leader = None
  <2>1. Vouched(p, 1) /\ Vouched(q, 1)
    BY <1>2 DEF FailsafeInv, Protected
  <2>2. known[p] = failsafe /\ known[q] = failsafe
    BY <2>1 DEF FailsafeInv, Knowing, Vouched
  <2>3. heard[q].left = 0 /\ pg[q] # "dead"
    BY DEF FailsafeInv, Unasked, Primary
  <2> QED BY <2>1, <2>2, <2>3 DEF Vouched
<1> QED BY <1>1, <1>2

LEMMA SameCardinality == \A S : F!Cardinality(S) = Cardinality(S)
BY DEF F!Cardinality, Cardinality

LEMMA FailsafeInvSafe ==
  ASSUME None \notin Node, FailsafeInv
  PROVE  F!OnePrimary
<1> DEFINE P == {n \in Node : pg[n] = "primary"}
<1>1. CASE P = {}
  BY <1>1, FS_EmptySet, SameCardinality DEF F!OnePrimary
<1>2. CASE P # {}
  <2>1. PICK p \in P : TRUE
    BY <1>2
  <2>2. P = {p}
    BY <2>1, OnlyOne DEF Primary
  <2>3. Cardinality({p}) = 1
    BY FS_Singleton
  <2> QED BY <2>2, <2>3, SameCardinality DEF F!OnePrimary
<1> QED BY <1>1, <1>2
\* What becomes of a node whose cycle ends.
LEMMA CycleEnds ==
  ASSUME FailsafeType, NEW n \in Node, NEW role \in {"primary", "replica"}, F!Ends(n, role)
  PROVE  /\ pg' \in [Node -> {"primary", "replica", "dead"}]
         /\ step' \in [Node -> [at : Place, members : SUBSET Node]]
         /\ pg'[n] = role /\ step'[n].at = "idle"
         /\ \A m \in Node \ {n} : pg'[m] = pg[m] /\ step'[m] = step[m]
         /\ ran' = IF role = "primary" THEN ran \cup {n} ELSE ran \ {n}
BY DEF FailsafeType, F!Ends, F!Runs, F!AtEase, Place

\* What becomes of one whose cycle goes on.
LEMMA CycleGoes ==
  ASSUME FailsafeType, NEW n \in Node, NEW to \in Place, F!Goes(n, to)
  PROVE  /\ step' \in [Node -> [at : Place, members : SUBSET Node]]
         /\ step'[n].at = to
         /\ \A m \in Node \ {n} : step'[m] = step[m]
BY DEF FailsafeType, F!Goes, Place

\* A node that ends as a replica takes nothing from what protects another.
LEMMA StepsDown ==
  ASSUME None \notin Node, FailsafeInv, NEW n \in Node, F!Ends(n, "replica"), F!Knows(n, {}),
         pg[n] # "dead", UNCHANGED <<leader, left, failsafe, members, heard>>
  PROVE  FailsafeInv'
<1>1. /\ pg' \in [Node -> {"primary", "replica", "dead"}]
      /\ step' \in [Node -> [at : Place, members : SUBSET Node]]
      /\ pg'[n] = "replica" /\ step'[n].at = "idle"
      /\ \A m \in Node \ {n} : pg'[m] = pg[m] /\ step'[m] = step[m]
      /\ ran' = ran \ {n}
  BY CycleEnds DEF FailsafeInv
<1>2. /\ known' \in [Node -> SUBSET Node] /\ known'[n] = {}
      /\ \A m \in Node \ {n} : known'[m] = known[m]
  BY DEF FailsafeInv, FailsafeType, F!Knows
<1>3. FailsafeType'
  BY <1>1, <1>2 DEF FailsafeInv, FailsafeType
<1>4. Unasked' /\ DeadIdle' /\ Holder' /\ Exclusive'
  BY <1>1 DEF FailsafeInv, Unasked, DeadIdle, Holder, Exclusive, Primary
<1>5. Knowing'
  BY <1>1, <1>2 DEF FailsafeInv, Knowing, Primary
<1>6. ASSUME NEW p \in Node \ {n}, NEW t, Vouched(p, t) PROVE Vouched(p, t)'
  BY <1>1, <1>2, <1>6 DEF Vouched, FailsafeInv, FailsafeType
<1>7. Protected'
  BY <1>1, <1>6 DEF FailsafeInv, Protected, Primary
<1>8. Renewed'
  BY <1>1, <1>6 DEF FailsafeInv, Renewed, Primary
<1> QED BY <1>3, <1>4, <1>5, <1>7, <1>8 DEF FailsafeInv

\* With no other primary there is not much to be kept.
LEMMA NoOther ==
  ASSUME None \notin Node, FailsafeInv, FailsafeType', Unasked', DeadIdle', Holder',
         NEW n \in Node, \A m \in Node \ {n} : ~Primary(m)',
         \A m \in Node \ {n} : known'[m] = known[m] /\ step'[m].at = step[m].at,
         UNCHANGED <<leader, left, failsafe>>, ~Primary(n)', step'[n].at = "idle"
  PROVE  FailsafeInv'
<1>1. Exclusive' /\ Protected' /\ Renewed'
  BY DEF Exclusive, Protected, Renewed
<1>2. Knowing'
  BY DEF FailsafeInv, Knowing
<1> QED BY <1>1, <1>2 DEF FailsafeInv

LEMMA DcsErrorKeeps ==
  ASSUME None \notin Node, Ttl \in Nat \ {0}, FailsafeInv, NEW n \in Node, F!DcsError(n),
         pg[n] # "dead"
  PROVE  FailsafeInv'
<1>1. CASE pg[n] # "primary"
  BY <1>1, StepsDown DEF F!DcsError
<1>2. CASE pg[n] = "primary"
  <2>0. UNCHANGED <<leader, left, failsafe, members>>
    BY DEF F!DcsError
  <2>1. PICK agree \in SUBSET (Node \ {n}) :
          /\ \A r \in agree : pg[r] = "replica"
          /\ heard' = [m \in Node |-> IF m \in agree THEN [from |-> n, left |-> Ttl] ELSE heard[m]]
          /\ \/ n \in known[n] /\ known[n] \ {n} \subseteq agree /\ F!Ends(n, "primary") /\ UNCHANGED known
             \/ F!Ends(n, "replica") /\ F!Knows(n, {})
    <3>1. PICK reached \in SUBSET F!Others(n) :
            LET agree == F!Ask(n, reached) IN
            /\ F!Told(n, agree)
            /\ \/ n \in known[n] /\ F!AllAgree(n, agree) /\ F!Ends(n, "primary") /\ UNCHANGED known
               \/ ~(n \in known[n] /\ F!AllAgree(n, agree)) /\ F!Ends(n, "replica") /\ F!Knows(n, {})
      BY <1>2 DEF F!DcsError
    <3>2. known[n] \subseteq Node
      BY DEF FailsafeInv, FailsafeType
    <3> QED BY <3>1, <3>2 DEF F!Told, F!Ask, F!AllAgree, F!Others
  <2>2. ASSUME NEW m \in Node \ {n} PROVE ~Primary(m)
    BY <1>2, OnlyOne DEF Primary
  <2>3. /\ pg' \in [Node -> {"primary", "replica", "dead"}]
        /\ step' \in [Node -> [at : Place, members : SUBSET Node]]
        /\ step'[n].at = "idle" /\ pg'[n] \in {"primary", "replica"}
        /\ \A m \in Node \ {n} : pg'[m] = pg[m] /\ step'[m] = step[m]
    BY <2>1, CycleEnds DEF FailsafeInv
  <2>4. known' \in [Node -> SUBSET Node] /\ \A m \in Node \ {n} : known'[m] = known[m]
    BY <2>1 DEF FailsafeInv, FailsafeType, F!Knows
  <2>5. heard' \in [Node -> [from : Node \cup {None}, left : Nat]]
    BY <2>1 DEF FailsafeInv, FailsafeType
  <2>6. FailsafeType'
    BY <2>0, <2>3, <2>4, <2>5 DEF FailsafeInv, FailsafeType
  <2>7. Unasked'
    BY <1>2, <2>1, <2>3 DEF FailsafeInv, Unasked, Primary
  <2>8. DeadIdle' /\ Holder'
    BY <2>0, <2>3 DEF FailsafeInv, DeadIdle, Holder
  <2>9. \A m \in Node \ {n} : ~Primary(m)'
    BY <2>2, <2>3 DEF Primary
  <2>10. CASE n \in known[n] /\ known[n] \ {n} \subseteq agree /\ F!Ends(n, "primary") /\ UNCHANGED known
    <3>1. Vouched(n, Ttl)' /\ Vouched(n, 1)'
      BY <2>1, <2>10 DEF Vouched, FailsafeInv, FailsafeType
    <3>2. Exclusive'
      BY <1>2, <2>0, <2>9 DEF FailsafeInv, Exclusive, Primary
    <3>3. Knowing'
      BY <1>2, <2>0, <2>3, <2>9, <2>10 DEF FailsafeInv, Knowing, Primary
    <3>4. Protected'
      BY <1>2, <2>0, <2>3, <2>9, <3>1 DEF FailsafeInv, Protected, Primary
    <3>5. Renewed'
      BY <2>9, <3>1 DEF Renewed
    <3> QED BY <2>6, <2>7, <2>8, <3>2, <3>3, <3>4, <3>5 DEF FailsafeInv
  <2>11. CASE F!Ends(n, "replica") /\ F!Knows(n, {})
    <3>1. ~Primary(n)'
      BY <2>11, CycleEnds DEF FailsafeInv, Primary
    <3> QED BY <2>0, <2>3, <2>4, <2>6, <2>7, <2>8, <2>9, <3>1, NoOther
  <2> QED BY <2>1, <2>10, <2>11
<1> QED BY <1>1, <1>2

LEMMA LoadKeeps ==
  ASSUME None \notin Node, FailsafeInv, NEW n \in Node, F!Load(n)
  PROVE  FailsafeInv'
<1>1. /\ step[n].at = "idle" /\ pg[n] # "dead"
      /\ UNCHANGED <<leader, left, failsafe, members, pg, heard, ran>>
  BY DEF F!Load
<1>2. /\ known' \in [Node -> SUBSET Node] /\ known'[n] = failsafe
      /\ \A m \in Node \ {n} : known'[m] = known[m]
  BY DEF FailsafeInv, FailsafeType, F!Load, F!Knows
<1>3. PICK to \in {"update", "acquire", "follow"} :
        /\ step'[n].at = to
        /\ step' \in [Node -> [at : Place, members : SUBSET Node]]
        /\ \A m \in Node \ {n} : step'[m] = step[m]
        /\ to = "update" => F!Owner(n) = n
        /\ to = "acquire" => F!Owner(n) = None /\ F!MayRace(n)
  <2>1. CASE F!Owner(n) = n /\ step' = [step EXCEPT ![n] = [at |-> "update", members |-> members]]
    BY <2>1 DEF FailsafeInv, FailsafeType, Place
  <2>2. CASE F!Owner(n) = None /\ F!MayRace(n) /\ F!Goes(n, "acquire")
    BY <2>2, CycleGoes DEF FailsafeInv, Place
  <2>3. CASE F!Goes(n, "follow")
    BY <2>3, CycleGoes DEF FailsafeInv, Place
  <2> QED BY <2>1, <2>2, <2>3 DEF F!Load
<1>4. FailsafeType'
  BY <1>1, <1>2, <1>3 DEF FailsafeInv, FailsafeType
<1>5. Unasked' /\ Exclusive' /\ DeadIdle'
  BY <1>1, <1>3 DEF FailsafeInv, Unasked, Exclusive, DeadIdle, Primary
<1>6. Holder'
  <2>1. to = "update" => leader = n
    BY <1>3 DEF F!Owner, FailsafeInv, Unasked, FailsafeType
  <2> QED BY <1>1, <1>3, <2>1 DEF FailsafeInv, Holder
<1>7. Knowing'
  BY <1>1, <1>2, <1>3 DEF FailsafeInv, Knowing, Primary
<1>8. ASSUME NEW p \in Node, NEW t, Primary(p), Vouched(p, t) PROVE Vouched(p, t)' /\ known[p] = failsafe
  <2>1. known[p] = failsafe
    BY <1>8 DEF FailsafeInv, Knowing, Vouched
  <2> QED BY <1>1, <1>2, <1>8, <2>1 DEF Vouched
<1>9. Renewed'
  BY <1>1, <1>8 DEF FailsafeInv, Renewed, Primary
<1>10. Protected'
  <2> SUFFICES ASSUME NEW p \in Node, Primary(p), leader = None
               PROVE  Vouched(p, 1)' /\ \A r \in Node \ {p} : step'[r].at # "acquire"
    BY <1>1 DEF Protected, Primary
  <2>1. Vouched(p, 1) /\ \A r \in Node \ {p} : step[r].at # "acquire"
    BY DEF FailsafeInv, Protected
  <2>2. Vouched(p, 1)' /\ known[p] = failsafe
    BY <1>8, <2>1
  <2>3. ASSUME n # p, to = "acquire" PROVE FALSE
    <3>1. n \in failsafe
      BY <1>3, <2>1, <2>2, <2>3, OnlyOne DEF F!MayRace, Vouched, Primary
    <3>2. heard[n].from = p /\ heard[n].left >= 1
      BY <1>1, <2>1, <2>2, <2>3, <3>1 DEF Vouched
    <3> QED BY <1>3, <2>3, <3>2 DEF F!Owner, F!Counts, FailsafeInv, FailsafeType
  <2> QED BY <1>3, <2>1, <2>2, <2>3
<1> QED BY <1>4, <1>5, <1>6, <1>7, <1>9, <1>10 DEF FailsafeInv

\* With the key in n's hand no other node is a primary or about to be one.
LEMMA HolderAlone ==
  ASSUME None \notin Node, FailsafeInv, NEW n \in Node, leader = n, NEW m \in Node \ {n}
  PROVE  ~Primary(m) /\ step[m].at \notin {"update", "promote"}
BY DEF FailsafeInv, Exclusive, Holder

LEMMA UpdateKeeps ==
  ASSUME None \notin Node, Ttl \in Nat \ {0}, ~Lossy, FailsafeInv, NEW n \in Node, F!Update(n)
  PROVE  FailsafeInv'
<1>1. leader = n
  BY DEF F!Update, FailsafeInv, Holder
<1>2. /\ leader' = n /\ left' = Ttl /\ members' = members
      /\ F!WriteFailsafe(n) /\ F!Ends(n, "primary") /\ F!Forget(n)
  BY <1>1 DEF F!Update
<1>3. /\ pg' \in [Node -> {"primary", "replica", "dead"}]
      /\ step' \in [Node -> [at : Place, members : SUBSET Node]]
      /\ pg'[n] = "primary" /\ step'[n].at = "idle"
      /\ \A m \in Node \ {n} : pg'[m] = pg[m] /\ step'[m] = step[m]
  BY <1>2, CycleEnds DEF FailsafeInv
<1>4. /\ failsafe' \in SUBSET Node /\ known' \in [Node -> SUBSET Node]
      /\ known'[n] = failsafe'
  <2>1. step[n].members \cup {n} \in SUBSET Node
    BY DEF FailsafeInv, FailsafeType
  <2>2. known[n] = failsafe
    BY DEF FailsafeInv, Knowing, F!Update
  <2>3. failsafe \in SUBSET Node /\ known \in [Node -> SUBSET Node]
    BY DEF FailsafeInv, FailsafeType
  <2>4. CASE known[n] = step[n].members \cup {n}
    BY <1>2, <2>2, <2>3, <2>4 DEF F!WriteFailsafe
  <2>5. CASE known[n] # step[n].members \cup {n}
    <3>1. failsafe' = step[n].members \cup {n} /\ known' = [known EXCEPT ![n] = step[n].members \cup {n}]
      BY <1>2, <2>5 DEF F!WriteFailsafe
    <3> QED BY <2>1, <2>3, <3>1
  <2> QED BY <2>4, <2>5
<1>5. /\ heard' \in [Node -> [from : Node \cup {None}, left : Nat]]
      /\ heard'[n] = [from |-> None, left |-> 0]
      /\ \A m \in Node \ {n} : heard'[m] = heard[m]
  BY <1>2 DEF FailsafeInv, FailsafeType, F!Forget, F!Unheard
<1>6. FailsafeType'
  BY <1>2, <1>3, <1>4, <1>5 DEF FailsafeInv, FailsafeType
<1>7. Unasked' /\ DeadIdle'
  <2>1. Unasked'
    BY <1>3, <1>5 DEF FailsafeInv, Unasked, Primary
  <2>2. DeadIdle'
    BY <1>3 DEF FailsafeInv, DeadIdle
  <2> QED BY <2>1, <2>2
<1>8. \A m \in Node \ {n} : ~Primary(m)' /\ step'[m].at \notin {"update", "promote"}
  BY <1>1, <1>3, HolderAlone DEF Primary
<1>9. Holder' /\ Exclusive'
  BY <1>2, <1>3, <1>8 DEF Holder, Exclusive
<1>10. Knowing'
  BY <1>2, <1>3, <1>4, <1>8 DEF Knowing
<1>11. Protected' /\ Renewed'
  BY <1>2, <1>8 DEF Protected, Renewed
<1> QED BY <1>6, <1>7, <1>9, <1>10, <1>11 DEF FailsafeInv

LEMMA AcquireKeeps ==
  ASSUME None \notin Node, Ttl \in Nat \ {0}, FailsafeInv, NEW n \in Node, F!Acquire(n)
  PROVE  FailsafeInv'
<1>1. step[n].at = "acquire" /\ pg[n] # "dead"
  BY DEF F!Acquire, FailsafeInv, DeadIdle
<1>2. CASE leader # None
  BY <1>1, <1>2, StepsDown DEF F!Acquire
<1>3. CASE leader = None
  <2>1. /\ leader' = n /\ left' = Ttl /\ UNCHANGED <<failsafe, members, pg, known, heard, ran>>
        /\ step' \in [Node -> [at : Place, members : SUBSET Node]]
        /\ step'[n].at = "promote" /\ \A m \in Node \ {n} : step'[m] = step[m]
    BY <1>3 DEF F!Acquire, F!Goes, FailsafeInv, FailsafeType, Place
  <2>2. ASSUME NEW m \in Node \ {n} PROVE ~Primary(m) /\ step[m].at \notin {"update", "promote"}
    BY <1>1, <1>3 DEF FailsafeInv, Protected, Holder
  <2>3. FailsafeType'
    BY <2>1 DEF FailsafeInv, FailsafeType
  <2>4. Unasked' /\ DeadIdle'
    BY <1>1, <2>1 DEF FailsafeInv, Unasked, DeadIdle, Primary
  <2>5. Holder' /\ Exclusive'
    BY <2>1, <2>2 DEF Holder, Exclusive, Primary
  <2>6. Knowing'
    BY <1>1, <1>3, <2>1, <2>2 DEF FailsafeInv, Knowing, Primary
  <2>7. Protected' /\ Renewed'
    BY <2>1, <2>2 DEF Protected, Renewed, Primary
  <2> QED BY <2>3, <2>4, <2>5, <2>6, <2>7 DEF FailsafeInv
<1> QED BY <1>2, <1>3

LEMMA PromoteKeeps ==
  ASSUME None \notin Node, FailsafeInv, NEW n \in Node, F!Promote(n)
  PROVE  FailsafeInv'
<1>1. leader = n /\ left = Ttl /\ known[n] = failsafe
  BY DEF F!Promote, FailsafeInv, Holder, Knowing
<1>2. UNCHANGED <<leader, left, failsafe, members, known>>
  BY DEF F!Promote
<1>3. /\ pg' \in [Node -> {"primary", "replica", "dead"}]
      /\ step' \in [Node -> [at : Place, members : SUBSET Node]]
      /\ pg'[n] = "primary" /\ step'[n].at = "idle"
      /\ \A m \in Node \ {n} : pg'[m] = pg[m] /\ step'[m] = step[m]
  BY CycleEnds DEF FailsafeInv, F!Promote
<1>4. /\ heard' \in [Node -> [from : Node \cup {None}, left : Nat]]
      /\ heard'[n] = [from |-> None, left |-> 0]
      /\ \A m \in Node \ {n} : heard'[m] = heard[m]
  BY DEF FailsafeInv, FailsafeType, F!Promote, F!Forget, F!Unheard
<1>5. FailsafeType'
  BY <1>2, <1>3, <1>4 DEF FailsafeInv, FailsafeType
<1>6. Unasked'
  BY <1>3, <1>4 DEF FailsafeInv, Unasked, Primary
<1>7. DeadIdle'
  BY <1>3 DEF FailsafeInv, DeadIdle
<1>8. \A m \in Node \ {n} : ~Primary(m)' /\ step'[m].at \notin {"update", "promote"}
  BY <1>1, <1>3, HolderAlone DEF Primary
<1>9. Holder' /\ Exclusive'
  BY <1>1, <1>2, <1>3, <1>8 DEF Holder, Exclusive
<1>10. Knowing'
  BY <1>1, <1>2, <1>3, <1>8 DEF Knowing
<1>11. Protected' /\ Renewed'
  BY <1>1, <1>2, <1>8 DEF Protected, Renewed
<1> QED BY <1>5, <1>6, <1>7, <1>9, <1>10, <1>11 DEF FailsafeInv

LEMMA FollowKeeps ==
  ASSUME None \notin Node, FailsafeInv, NEW n \in Node, F!Follow(n)
  PROVE  FailsafeInv'
<1>1. pg[n] # "dead"
  BY DEF F!Follow, FailsafeInv, DeadIdle
<1> QED BY <1>1, StepsDown DEF F!Follow

LEMMA MoveKeeps ==
  ASSUME FailsafeInv, NEW n \in Node, F!Move(n)
  PROVE  FailsafeInv'
<1>1. UNCHANGED <<leader, left, failsafe, pg, known, heard, step, ran>> /\ members' \in SUBSET Node
  BY DEF FailsafeInv, FailsafeType, F!Move
<1>2. FailsafeType'
  BY <1>1 DEF FailsafeInv, FailsafeType
<1>3. Unasked' /\ DeadIdle' /\ Holder' /\ Exclusive' /\ Knowing'
  BY <1>1 DEF FailsafeInv, Unasked, DeadIdle, Holder, Exclusive, Knowing, Primary
<1>4. Protected' /\ Renewed'
  BY <1>1 DEF FailsafeInv, Protected, Renewed, Primary, Vouched
<1> QED BY <1>2, <1>3, <1>4 DEF FailsafeInv

\* A dead node will not race, whoever it has heard from.
LEMMA FailKeeps ==
  ASSUME None \notin Node, ~Forgetful, FailsafeInv, NEW n \in Node, F!Fail(n)
  PROVE  FailsafeInv'
<1>1. /\ UNCHANGED <<leader, left, failsafe, members, ran>>
      /\ pg' \in [Node -> {"primary", "replica", "dead"}] /\ pg'[n] = "dead"
      /\ known' \in [Node -> SUBSET Node] /\ known'[n] = {}
      /\ \A m \in Node \ {n} : pg'[m] = pg[m] /\ known'[m] = known[m]
  BY DEF FailsafeInv, FailsafeType, F!Fail, F!Runs, F!Knows
<1>2. /\ heard' \in [Node -> [from : Node \cup {None}, left : Nat]]
      /\ heard'[n] = [from |-> None, left |-> 0]
      /\ \A m \in Node \ {n} : heard'[m] = heard[m]
  BY DEF FailsafeInv, FailsafeType, F!Fail, F!Forget, F!Unheard
<1>3. /\ step' \in [Node -> [at : Place, members : SUBSET Node]] /\ step'[n].at = "idle"
      /\ \A m \in Node \ {n} : step'[m] = step[m]
  BY DEF FailsafeInv, FailsafeType, F!Fail, F!AtEase, Place
<1>4. FailsafeType'
  BY <1>1, <1>2, <1>3 DEF FailsafeInv, FailsafeType
<1>5. Unasked' /\ DeadIdle'
  BY <1>1, <1>2, <1>3 DEF FailsafeInv, Unasked, DeadIdle, Primary
<1>6. Holder' /\ Exclusive'
  BY <1>1, <1>3 DEF FailsafeInv, Holder, Exclusive, Primary
<1>7. Knowing'
  BY <1>1, <1>3 DEF FailsafeInv, Knowing, Primary
<1>8. ASSUME NEW p \in Node \ {n}, NEW t, Vouched(p, t) PROVE Vouched(p, t)'
  BY <1>1, <1>2, <1>8 DEF Vouched, FailsafeInv, FailsafeType
<1>9. Protected'
  BY <1>1, <1>3, <1>8 DEF FailsafeInv, Protected, Primary
<1>10. Renewed'
  BY <1>1, <1>8 DEF FailsafeInv, Renewed, Primary
<1> QED BY <1>4, <1>5, <1>6, <1>7, <1>9, <1>10 DEF FailsafeInv

\* A second is not enough for the members to forget who asked, or for the key to expire.
LEMMA TickKeeps ==
  ASSUME None \notin Node, Ttl \in Nat, Ttl > 1, FailsafeInv, F!Tick
  PROVE  FailsafeInv'
<1>1. /\ UNCHANGED <<failsafe, members, pg, known, step>> /\ ran' = {}
      /\ \A n \in Node : step[n].at = "idle" /\ (Primary(n) => n \in ran)
      /\ left' = (IF left = 0 THEN 0 ELSE left - 1)
      /\ leader' = (IF left' = 0 THEN None ELSE leader)
  BY DEF F!Tick, F!Left, F!AtEase, Primary
<1>r. \A n \in Node : heard[n].left \in Nat /\ heard[n].from \in Node \cup {None}
  BY DEF FailsafeInv, FailsafeType
<1>2. \A n \in Node :
        \/ heard[n].left <= 1 /\ heard'[n].from = None /\ heard'[n].left = 0
           /\ heard'[n] = [from |-> None, left |-> 0]
        \/ heard[n].left > 1 /\ heard'[n].from = heard[n].from /\ heard'[n].left = heard[n].left - 1
           /\ heard'[n] = [from |-> heard[n].from, left |-> heard[n].left - 1]
  <2> SUFFICES ASSUME NEW n \in Node
               PROVE  \/ heard[n].left <= 1 /\ heard'[n] = [from |-> None, left |-> 0]
                      \/ heard[n].left > 1 /\ heard'[n] = [from |-> heard[n].from, left |-> heard[n].left - 1]
    OBVIOUS
  <2>1. heard'[n] = IF heard[n].left <= 1 THEN [from |-> None, left |-> 0]
                    ELSE [heard[n] EXCEPT !.left = heard[n].left - 1]
    BY DEF F!Tick, F!Unheard
  <2>2. [heard[n] EXCEPT !.left = heard[n].left - 1] = [from |-> heard[n].from, left |-> heard[n].left - 1]
    BY DEF FailsafeInv, FailsafeType
  <2> QED BY <1>r, <2>1, <2>2
<1>3. heard' \in [Node -> [from : Node \cup {None}, left : Nat]]
  <2>1. heard' = [n \in Node |-> heard'[n]]
    BY DEF F!Tick
  <2>2. ASSUME NEW n \in Node PROVE heard'[n] \in [from : Node \cup {None}, left : Nat]
    <3>1. CASE heard'[n] = [from |-> None, left |-> 0]
      BY <3>1
    <3>2. CASE heard[n].left > 1 /\ heard'[n] = [from |-> heard[n].from, left |-> heard[n].left - 1]
      <4>1. heard[n].left - 1 \in Nat /\ heard[n].from \in Node \cup {None}
        BY <1>r, <3>2
      <4> QED BY <3>2, <4>1
    <3> QED BY <1>2, <3>1, <3>2
  <2> QED BY <2>1, <2>2
<1>4. left \in Nat /\ left' \in Nat /\ (leader = None <=> left = 0) /\ leader \in Node \cup {None}
  BY <1>1 DEF FailsafeInv, FailsafeType
<1>5. FailsafeType'
  BY <1>1, <1>3, <1>4 DEF FailsafeInv, FailsafeType
<1>6. Unasked'
  <2> SUFFICES ASSUME NEW n \in Node PROVE heard'[n].from # n /\ (Primary(n) => heard'[n].left = 0)
    BY <1>1 DEF Unasked, Primary
  <2>1. heard[n].from # n /\ (Primary(n) => heard[n].left = 0)
    BY DEF FailsafeInv, Unasked
  <2>2. \/ heard'[n].from = None /\ heard'[n].left = 0
        \/ heard[n].left > 1 /\ heard'[n].from = heard[n].from
    BY <1>2
  <2> QED BY <2>1, <2>2
<1>7. DeadIdle' /\ Holder' /\ Exclusive'
  BY <1>1 DEF FailsafeInv, DeadIdle, Holder, Exclusive, Primary
<1>8. Knowing'
  BY <1>1 DEF FailsafeInv, Knowing, Primary
<1>9. Protected'
  <2> SUFFICES ASSUME NEW p \in Node, Primary(p), leader' = None PROVE Vouched(p, 1)'
    BY <1>1 DEF Protected, Primary
  <2>1. Vouched(p, Ttl)
    BY <1>1, <1>4 DEF FailsafeInv, Renewed
  <2>2. ASSUME NEW r \in known[p] \ {p}, pg[r] # "dead"
        PROVE  heard'[r].from = p /\ heard'[r].left >= 1
    <3>1. r \in Node
      BY DEF FailsafeInv, FailsafeType
    <3>2. heard[r].from = p /\ heard[r].left >= Ttl
      BY <2>1, <2>2 DEF Vouched
    <3>3. ~(heard[r].left <= 1) /\ heard[r].left - 1 >= 1
      BY <1>r, <3>1, <3>2
    <3> QED BY <1>2, <3>1, <3>2, <3>3
  <2> QED BY <1>1, <2>1, <2>2 DEF Vouched
<1>10. Renewed'
  BY <1>1 DEF Renewed
<1> QED BY <1>5, <1>6, <1>7, <1>8, <1>9, <1>10 DEF FailsafeInv

LEMMA FailsafeInvKept ==
  ASSUME None \notin Node, Ttl \in Nat, Ttl > 1, ~Forgetful, ~Lossy,
         FailsafeInv, [F!FailsafeNext]_(F!vars)
  PROVE  FailsafeInv'
<1>1. CASE F!Tick
  BY <1>1, TickKeeps
<1>2. ASSUME NEW n \in Node, F!LoadFails(n) \/ F!UpdateFails(n) \/ F!AcquireFails(n)
      PROVE  FailsafeInv'
  <2>1. pg[n] # "dead" /\ F!DcsError(n)
    BY <1>2 DEF F!LoadFails, F!UpdateFails, F!AcquireFails, FailsafeInv, DeadIdle
  <2> QED BY <2>1, DcsErrorKeeps
<1>3. ASSUME NEW n \in Node, F!Load(n) PROVE FailsafeInv'
  BY <1>3, LoadKeeps
<1>4. ASSUME NEW n \in Node, F!Update(n) PROVE FailsafeInv'
  BY <1>4, UpdateKeeps
<1>5. ASSUME NEW n \in Node, F!Acquire(n) PROVE FailsafeInv'
  BY <1>5, AcquireKeeps
<1>6. ASSUME NEW n \in Node, F!Promote(n) PROVE FailsafeInv'
  BY <1>6, PromoteKeeps
<1>7. ASSUME NEW n \in Node, F!Follow(n) PROVE FailsafeInv'
  BY <1>7, FollowKeeps
<1>8. ASSUME NEW n \in Node, F!Move(n) PROVE FailsafeInv'
  BY <1>8, MoveKeeps
<1>9. ASSUME NEW n \in Node, F!Fail(n) PROVE FailsafeInv'
  BY <1>9, FailKeeps
<1>10. CASE UNCHANGED F!vars
  BY <1>10 DEF F!vars, FailsafeInv, FailsafeType, Unasked, DeadIdle, Holder, Exclusive, Knowing,
    Protected, Renewed, Primary, Vouched
<1> QED
  BY <1>1, <1>2, <1>3, <1>4, <1>5, <1>6, <1>7, <1>8, <1>9, <1>10 DEF F!FailsafeNext

\* With or without the DCS there is one primary (docs/dcs_failsafe_mode.rst), for any
\* number of members and any ttl longer than a cycle, unless a node forgets who asked it
\* or the answer to a write of /failsafe gets lost.
THEOREM FailsafeOnePrimary ==
  ASSUME None \notin Node, Node # {}, Ttl \in Nat, Ttl > 1, ~Forgetful, ~Lossy
  PROVE  F!FailsafeSpec => []F!OnePrimary
<1>1. F!Init => FailsafeInv
  BY FailsafeInitially
<1>2. FailsafeInv /\ [F!FailsafeNext]_(F!vars) => FailsafeInv'
  BY FailsafeInvKept
<1>3. FailsafeInv => F!OnePrimary
  BY FailsafeInvSafe
<1> QED BY <1>1, <1>2, <1>3, PTL DEF F!FailsafeSpec

-----------------------------------------------------------------------------
\* Bootstrap.  A node is settled when it has a data directory and is not bootstrapping;
\* it stays so, and from then on nobody else bootstraps.

Stage == {"idle", "loaded", "bootstrap", "join", "run", "post_bootstrap", "initialized",
          "take_leader", "cancel", "move"}
View == [initialize : Nat, leader : Node \cup {None}]
BootstrapType ==
  /\ initialize \in Nat /\ leader \in Node \cup {None}
  /\ step \in [Node -> Stage] /\ view \in [Node -> View]
  /\ data \in [Node -> Nat] /\ pg \in [Node -> {"down", "primary", "standby"}]
  /\ busy \in [Node -> {"none", "initdb", "start", "clone"}]
  /\ booting \in SUBSET Node /\ ids \in Nat

Settled(n) == B!Valid(data[n]) /\ n \notin booting
\* It bootstraps, and has not given up.
Active(n) == n \in booting /\ step[n] # "move"

\* What a node's step, its action and its PostgreSQL say about its data directory.
Placed(n) ==
  /\ step[n] \in {"post_bootstrap", "initialized", "cancel", "move"} => n \in booting /\ busy[n] = "none"
  /\ step[n] = "initialized" => B!Valid(data[n])
  /\ step[n] = "bootstrap" => data[n] = 0 /\ busy[n] = "none" /\ n \notin booting
  /\ step[n] = "join" => busy[n] = "none" /\ n \notin booting
  /\ step[n] \in {"run", "take_leader"} => busy[n] = "none" /\ Settled(n)
  /\ busy[n] = "initdb" => n \in booting /\ ~B!Valid(data[n])
  /\ busy[n] = "start" => n \in booting /\ B!Valid(data[n])
  /\ busy[n] = "clone" => n \notin booting /\ ~B!Valid(data[n])
  /\ pg[n] # "down" => B!Valid(data[n])

\* Who leads, or has seen itself lead, is settled.
LeaderSettled ==
  /\ leader # None => Settled(leader)
  /\ \A n \in Node : view[n].leader = n => Settled(n)

\* One node bootstraps, with its mark in /initialize.
OneActive ==
  /\ \A m, n \in Node : Active(m) /\ Active(n) => m = n
  /\ \A n \in Node : Active(n) => initialize = 1

\* The settled nodes have one system identifier, and /initialize no other.
OneId ==
  \A m \in Node : Settled(m) =>
    /\ initialize # 0 /\ (B!Valid(initialize) => initialize = data[m])
    /\ \A n \in Node : ~Active(n) /\ (Settled(n) => data[n] = data[m])

BootstrapInv ==
  BootstrapType /\ (\A n \in Node : Placed(n)) /\ LeaderSettled /\ OneActive /\ OneId

LEMMA BootstrapInitially ==
  ASSUME None \notin Node, B!Init
  PROVE  BootstrapInv
<1>1. /\ initialize = 0 /\ leader = None /\ booting = {} /\ ids = 0
      /\ step = [n \in Node |-> "idle"] /\ data = [n \in Node |-> 0]
      /\ view = [n \in Node |-> [initialize |-> 0, leader |-> None]]
      /\ pg = [n \in Node |-> "down"] /\ busy = [n \in Node |-> "none"]
  BY DEF B!Init, B!NoKey, B!Empty
<1>2. BootstrapType
  BY <1>1 DEF BootstrapType, Stage, View
<1>3. \A n \in Node : Placed(n) /\ ~Settled(n) /\ ~Active(n) /\ view[n].leader # n
  BY <1>1 DEF Placed, Settled, Active, B!Valid
<1> QED BY <1>1, <1>2, <1>3 DEF BootstrapInv, LeaderSettled, OneActive, OneId

LEMMA BootstrapInvSafe ==
  ASSUME BootstrapInv
  PROVE  B!OneSystem
<1>1. ASSUME NEW n \in Node, B!Member(n) PROVE Settled(n)
  BY <1>1 DEF BootstrapInv, Placed, Settled, B!Member
<1> QED BY <1>1 DEF B!OneSystem, BootstrapInv, OneId

\* What a step does not touch.
Same(m) ==
  /\ step'[m] = step[m] /\ view'[m] = view[m] /\ data'[m] = data[m] /\ pg'[m] = pg[m]
  /\ busy'[m] = busy[m] /\ (m \in booting' <=> m \in booting)

LEMMA OthersAsBefore ==
  ASSUME NEW m, Same(m)
  PROVE  (Placed(m)' <=> Placed(m)) /\ (Settled(m)' <=> Settled(m)) /\ (Active(m)' <=> Active(m))
BY DEF Same, Placed, Settled, Active, B!Valid

\* A step of one node, which stays settled if it is.
LEMMA StepOfOne ==
  ASSUME BootstrapInv, NEW n \in Node, BootstrapType', \A m \in Node \ {n} : Same(m),
         Placed(n)', Settled(n) => Settled(n)' /\ data'[n] = data[n],
         leader' \in {leader, None} \/ (leader' = n /\ Settled(n)'),
         view'[n].leader = n => Settled(n)',
         OneActive', OneId'
  PROVE  BootstrapInv'
<1>1. \A m \in Node : Placed(m)'
  BY OthersAsBefore DEF BootstrapInv
<1>2. ASSUME NEW m \in Node, Settled(m) PROVE Settled(m)'
  BY <1>2, OthersAsBefore
<1>3. LeaderSettled'
  BY <1>2 DEF BootstrapInv, LeaderSettled, BootstrapType, Same
<1> QED BY <1>1, <1>3 DEF BootstrapInv

\* Nobody starts to bootstrap, and nobody is newly settled.
LEMMA Quiet ==
  ASSUME BootstrapInv, NEW n \in Node, \A m \in Node \ {n} : Same(m),
         Active(n)' => Active(n), Settled(n)' => Settled(n) /\ data'[n] = data[n],
         initialize' = initialize
  PROVE  OneActive' /\ OneId'
<1>1. ASSUME NEW m \in Node
      PROVE  (Active(m)' => Active(m)) /\ (Settled(m)' => Settled(m) /\ data'[m] = data[m])
  BY OthersAsBefore DEF Same
<1>2. OneActive'
  BY <1>1 DEF BootstrapInv, OneActive
<1>3. OneId'
  BY <1>1 DEF BootstrapInv, OneId, B!Valid
<1> QED BY <1>2, <1>3

\* The steps that neither settle a node nor touch /initialize.
LEMMA QuietStep ==
  ASSUME BootstrapInv, NEW n \in Node, BootstrapType', \A m \in Node \ {n} : Same(m),
         Placed(n)', Settled(n)' <=> Settled(n), Settled(n) => data'[n] = data[n],
         Active(n)' => Active(n), initialize' = initialize,
         leader' \in {leader, None} \/ (leader' = n /\ Settled(n)),
         view'[n].leader = n => Settled(n)
  PROVE  BootstrapInv'
BY StepOfOne, Quiet

LEMMA LoadView ==
  ASSUME None \notin Node, BootstrapInv, NEW n \in Node, B!Load(n)
  PROVE  BootstrapInv'
<1>1. /\ UNCHANGED <<initialize, leader, data, pg, busy, booting, ids>> /\ step[n] = "idle"
      /\ step' \in [Node -> Stage] /\ step'[n] = "loaded"
      /\ view' \in [Node -> View] /\ view'[n].leader = leader
      /\ \A m \in Node \ {n} : step'[m] = step[m] /\ view'[m] = view[m]
  BY DEF BootstrapInv, BootstrapType, B!Load, B!At, B!Goes, B!Set, B!dcs, B!postgres, Stage, View
<1>2. BootstrapType'
  BY <1>1 DEF BootstrapInv, BootstrapType
<1>3. \A m \in Node \ {n} : Same(m)
  BY <1>1 DEF Same
<1>4. Placed(n)' /\ Settled(n)' = Settled(n) /\ (Active(n)' => Active(n))
  BY <1>1 DEF BootstrapInv, Placed, Settled, Active, B!Valid
<1>5. leader = n => Settled(n)
  BY DEF BootstrapInv, LeaderSettled
<1> QED BY <1>1, <1>2, <1>3, <1>4, <1>5, QuietStep

\* Writing its own identifier, a settled node writes the one there is.
LEMMA WritesOwn ==
  ASSUME BootstrapInv, NEW n \in Node, Settled(n), UNCHANGED <<data, booting>>,
         \A m \in Node \ {n} : Same(m), initialize' \in {initialize, data[n]}
  PROVE  OneActive' /\ OneId'
<1>1. \A m \in Node : ~Active(m)'
  BY OthersAsBefore DEF BootstrapInv, OneId, Active, Settled
<1>2. \A m \in Node : Settled(m)' <=> Settled(m)
  BY DEF Settled, B!Valid
<1>3. OneActive'
  BY <1>1 DEF OneActive
<1>4. OneId'
  <2> SUFFICES ASSUME NEW m \in Node, Settled(m)
               PROVE  initialize' # 0 /\ (B!Valid(initialize)' => initialize' = data[m])
    BY <1>1, <1>2 DEF OneId, BootstrapInv, B!Valid
  <2>1. data[m] = data[n] /\ initialize # 0 /\ (B!Valid(initialize) => initialize = data[m])
    BY DEF BootstrapInv, OneId
  <2>2. data[n] # 0
    BY DEF Settled, B!Valid, BootstrapInv, BootstrapType
  <2> QED BY <2>1, <2>2 DEF B!Valid
<1> QED BY <1>3, <1>4

LEMMA OwnKeyKeeps ==
  ASSUME None \notin Node, BootstrapInv, NEW n \in Node, B!OwnKey(n)
  PROVE  BootstrapInv'
<1>1. /\ UNCHANGED <<leader, view, data, pg, busy, booting, ids>> /\ step[n] = "loaded"
      /\ step'[n] = (IF busy[n] # "none" THEN "idle"
                     ELSE IF n \in booting THEN "post_bootstrap"
                     ELSE IF data[n] = 0 THEN "bootstrap" ELSE "join")
      /\ \A m \in Node \ {n} : step'[m] = step[m]
  BY DEF BootstrapInv, BootstrapType, B!OwnKey, B!At, B!Goes, B!Set, B!dcs, B!postgres, B!Empty
<1>2. step' \in [Node -> Stage]
  <2>1. PICK to \in Stage : step' = [step EXCEPT ![n] = to]
    BY DEF B!OwnKey, B!Goes, B!Set, Stage
  <2> QED BY <2>1 DEF BootstrapInv, BootstrapType
<1>3. initialize' = initialize \/ (view[n].leader = n /\ initialize' = data[n])
  BY DEF B!OwnKey, B!PutInitialize
<1>4. BootstrapType'
  BY <1>1, <1>2, <1>3 DEF BootstrapInv, BootstrapType
<1>5. \A m \in Node \ {n} : Same(m)
  BY <1>1 DEF Same
<1>6. Placed(n)' /\ Settled(n)' = Settled(n) /\ (Active(n)' => Active(n))
  BY <1>1 DEF BootstrapInv, Placed, Settled, Active, B!Valid
<1>7. view[n].leader = n => Settled(n)
  BY DEF BootstrapInv, LeaderSettled
<1>8. CASE initialize' = initialize
  BY <1>1, <1>4, <1>5, <1>6, <1>7, <1>8, QuietStep
<1>9. CASE view[n].leader = n /\ initialize' = data[n]
  <2>1. OneActive' /\ OneId'
    BY <1>1, <1>5, <1>7, <1>9, WritesOwn
  <2> QED BY <1>1, <1>4, <1>5, <1>6, <1>7, <2>1, StepOfOne
<1> QED BY <1>3, <1>8, <1>9

\* The race: whoever finds no key is alone with it.
LEMMA RaceKeeps ==
  ASSUME None \notin Node, BootstrapInv, NEW n \in Node, B!Race(n) \/ B!RaceUnanswered(n)
  PROVE  BootstrapInv'
<1>1. /\ UNCHANGED <<leader, view, data, pg, ids>> /\ step[n] = "bootstrap"
      /\ step' \in [Node -> Stage] /\ step'[n] = "idle"
      /\ \A m \in Node \ {n} : step'[m] = step[m]
  BY DEF BootstrapInv, BootstrapType, B!Race, B!RaceUnanswered, B!At, B!Goes, B!Set, B!dcs, B!postgres, Stage
<1>2. data[n] = 0 /\ n \notin booting /\ busy[n] = "none" /\ view[n].leader # n
  BY <1>1 DEF BootstrapInv, Placed, LeaderSettled, Settled, B!Valid
<1>3. \/ UNCHANGED <<initialize, busy, booting>>
      \/ /\ initialize = 0 /\ initialize' = 1
         /\ \/ UNCHANGED <<busy, booting>>
            \/ busy' = [busy EXCEPT ![n] = "initdb"] /\ booting' = booting \cup {n}
  BY DEF B!Race, B!RaceUnanswered, B!PutInitialize, B!Puts, B!NoKey, B!InProgress, B!Set
<1>4. BootstrapType'
  BY <1>1, <1>3 DEF BootstrapInv, BootstrapType
<1>5. \A m \in Node \ {n} : Same(m)
  BY <1>1, <1>3 DEF Same, BootstrapInv, BootstrapType
<1>6. Placed(n)'
  <2>1. \/ busy'[n] = busy[n] /\ booting' = booting
        \/ busy'[n] = "initdb" /\ n \in booting'
    BY <1>3 DEF BootstrapInv, BootstrapType
  <2>2. pg'[n] = "down"
    BY <1>1, <1>2 DEF BootstrapInv, BootstrapType, Placed, B!Valid
  <2> QED BY <1>1, <1>2, <2>1, <2>2 DEF Placed, B!Valid
<1>7. ~Settled(n) /\ ~Settled(n)'
  BY <1>1, <1>2 DEF Settled, B!Valid
<1>8. CASE UNCHANGED <<initialize, busy, booting>>
  BY <1>1, <1>2, <1>4, <1>5, <1>6, <1>7, <1>8, QuietStep DEF Active
<1>9. CASE initialize = 0 /\ initialize' = 1
  <2>1. ASSUME NEW m \in Node \ {n} PROVE ~Active(m)' /\ ~Settled(m)'
    BY <1>5, <1>9, OthersAsBefore DEF BootstrapInv, OneActive, OneId
  <2>2. OneActive' /\ OneId'
    BY <1>7, <1>9, <2>1 DEF OneActive, OneId
  <2> QED BY <1>1, <1>2, <1>4, <1>5, <1>6, <1>7, <2>2, StepOfOne
<1> QED BY <1>3, <1>8, <1>9

LEMMA WaitKeeps ==
  ASSUME None \notin Node, BootstrapInv, NEW n \in Node, B!Wait(n)
  PROVE  BootstrapInv'
<1>1. /\ UNCHANGED <<initialize, view, data, pg, booting, ids>> /\ step[n] = "bootstrap"
      /\ step' \in [Node -> Stage] /\ step'[n] = "idle" /\ leader' \in {leader, None}
      /\ busy' \in [Node -> {"none", "initdb", "start", "clone"}] /\ busy'[n] \in {busy[n], "clone"}
      /\ \A m \in Node \ {n} : step'[m] = step[m] /\ busy'[m] = busy[m]
  BY DEF BootstrapInv, BootstrapType, B!Wait, B!At, B!Goes, B!Set, B!postgres, Stage
<1>2. data[n] = 0 /\ n \notin booting /\ busy[n] = "none" /\ view[n].leader # n
  BY <1>1 DEF BootstrapInv, Placed, LeaderSettled, Settled, B!Valid
<1>3. BootstrapType'
  BY <1>1 DEF BootstrapInv, BootstrapType
<1>4. \A m \in Node \ {n} : Same(m)
  BY <1>1 DEF Same
<1>5. Placed(n)' /\ Settled(n)' = Settled(n) /\ ~Active(n)' /\ ~Settled(n)
  BY <1>1, <1>2 DEF BootstrapInv, Placed, Settled, Active, B!Valid
<1> QED BY <1>1, <1>2, <1>3, <1>4, <1>5, QuietStep

\* What Exit leaves behind.
LEMMA Exits ==
  ASSUME BootstrapType, NEW n \in Node, B!Exit(n)
  PROVE  /\ pg' \in [Node -> {"down", "primary", "standby"}] /\ pg'[n] = "down"
         /\ busy' \in [Node -> {"none", "initdb", "start", "clone"}] /\ busy'[n] = "none"
         /\ step' \in [Node -> Stage] /\ step'[n] = "idle"
         /\ booting' = booting \ {n}
         /\ \A m \in Node \ {n} : pg'[m] = pg[m] /\ busy'[m] = busy[m] /\ step'[m] = step[m]
BY DEF BootstrapType, B!Exit, B!Set, B!Goes, Stage

LEMMA JoinKeeps ==
  ASSUME None \notin Node, BootstrapInv, NEW n \in Node, B!Join(n)
  PROVE  BootstrapInv'
<1>1. UNCHANGED <<leader, view, data, ids>> /\ step[n] = "join"
  BY DEF B!Join, B!At
<1>2. n \notin booting /\ busy[n] = "none"
  BY <1>1 DEF BootstrapInv, Placed
<1>3. view[n].leader = n => Settled(n)
  BY DEF BootstrapInv, LeaderSettled
<1>4. CASE B!Exit(n) /\ initialize' = initialize
  <2>1. BootstrapType'
    BY <1>1, <1>4, Exits DEF BootstrapInv, BootstrapType
  <2>2. \A m \in Node \ {n} : Same(m)
    BY <1>1, <1>4, Exits DEF BootstrapInv, Same
  <2>3. pg'[n] = "down" /\ busy'[n] = "none" /\ step'[n] = "idle" /\ booting' = booting \ {n}
    BY <1>4, Exits DEF BootstrapInv
  <2>4. Placed(n)' /\ Settled(n)' = Settled(n) /\ ~Active(n)'
    BY <1>1, <1>2, <2>3 DEF Placed, Settled, Active, B!Valid
  <2> QED BY <1>1, <1>3, <1>4, <2>1, <2>2, <2>4, QuietStep
<1>5. ASSUME NEW to \in {"idle", "run"}, B!Goes(n, to), UNCHANGED <<pg, busy, booting>>,
             to = "run" => B!Valid(data[n]),
             initialize' = initialize \/ (B!Valid(data[n]) /\ initialize' = data[n])
      PROVE  BootstrapInv'
  <2>1. /\ step' \in [Node -> Stage] /\ step'[n] = to
        /\ \A m \in Node \ {n} : step'[m] = step[m]
    BY <1>5 DEF BootstrapInv, BootstrapType, B!Goes, B!Set, Stage
  <2>2. BootstrapType'
    BY <1>1, <1>5, <2>1 DEF BootstrapInv, BootstrapType
  <2>3. \A m \in Node \ {n} : Same(m)
    BY <1>1, <1>5, <2>1 DEF Same
  <2>4. Placed(n)' /\ Settled(n)' = Settled(n) /\ ~Active(n)'
    BY <1>1, <1>2, <1>5, <2>1 DEF BootstrapInv, Placed, Settled, Active, B!Valid
  <2>5. CASE initialize' = initialize
    BY <1>1, <1>3, <2>2, <2>3, <2>4, <2>5, QuietStep
  <2>6. CASE B!Valid(data[n]) /\ initialize' = data[n]
    <3>1. OneActive' /\ OneId'
      BY <1>1, <1>2, <1>5, <2>3, <2>6, WritesOwn DEF Settled
    <3> QED BY <1>1, <1>3, <2>2, <2>3, <2>4, <3>1, StepOfOne
  <2> QED BY <1>5, <2>5, <2>6
<1>6. \/ B!Exit(n) /\ initialize' = initialize
      \/ /\ UNCHANGED <<pg, busy, booting>>
         /\ \/ B!Goes(n, "idle") /\ initialize' = initialize
            \/ /\ B!Goes(n, "run") /\ B!Valid(data[n])
               /\ initialize' = initialize \/ initialize' = data[n]
  BY Zenon DEF B!Join, B!PutInitialize
<1> QED BY <1>4, <1>5, <1>6

\* The node runs PostgreSQL, and may take the leader key.
LEMMA RunKeeps ==
  ASSUME None \notin Node, BootstrapInv, NEW n \in Node, B!Run(n)
  PROVE  BootstrapInv'
<1>1. /\ UNCHANGED <<initialize, view, data, busy, booting, ids>> /\ step[n] = "run"
      /\ step' \in [Node -> Stage] /\ step'[n] = "idle" /\ leader' \in {leader, n}
      /\ pg' \in [Node -> {"down", "primary", "standby"}]
      /\ \A m \in Node \ {n} : step'[m] = step[m] /\ pg'[m] = pg[m]
  BY DEF BootstrapInv, BootstrapType, B!Run, B!At, B!Goes, B!Set, Stage
<1>2. Settled(n) /\ busy[n] = "none"
  BY <1>1 DEF BootstrapInv, Placed
<1>3. BootstrapType'
  BY <1>1 DEF BootstrapInv, BootstrapType
<1>4. \A m \in Node \ {n} : Same(m)
  BY <1>1 DEF Same
<1>5. Placed(n)' /\ Settled(n)' = Settled(n) /\ (Active(n)' => Active(n))
  BY <1>1, <1>2 DEF Placed, Settled, Active, B!Valid
<1> QED BY <1>1, <1>2, <1>3, <1>4, <1>5, QuietStep

LEMMA PostBootstrapKeeps ==
  ASSUME None \notin Node, BootstrapInv, NEW n \in Node, B!PostBootstrap(n) \/ B!PostScriptFails(n)
  PROVE  BootstrapInv'
<1>1. PICK to \in {"cancel", "initialized"} :
        /\ B!Goes(n, to) /\ step[n] = "post_bootstrap"
        /\ to = "initialized" => pg[n] # "down"
        /\ UNCHANGED <<initialize, leader, view, data, pg, busy, booting, ids>>
  BY DEF B!PostBootstrap, B!PostScriptFails, B!At, B!dcs, B!postgres
<1>2. /\ step' \in [Node -> Stage] /\ step'[n] = to
      /\ \A m \in Node \ {n} : step'[m] = step[m]
  BY <1>1 DEF BootstrapInv, BootstrapType, B!Goes, B!Set, Stage
<1>3. BootstrapType'
  BY <1>1, <1>2 DEF BootstrapInv, BootstrapType
<1>4. \A m \in Node \ {n} : Same(m)
  BY <1>1, <1>2 DEF Same
<1>5. Placed(n)' /\ Settled(n)' = Settled(n) /\ (Active(n)' => Active(n))
  BY <1>1, <1>2 DEF BootstrapInv, Placed, Settled, Active, B!Valid
<1>6. view[n].leader = n => Settled(n)
  BY DEF BootstrapInv, LeaderSettled
<1> QED BY <1>1, <1>3, <1>4, <1>5, <1>6, QuietStep

\* The first node that is settled: it was the one that bootstrapped.
LEMMA Settling ==
  ASSUME BootstrapInv, NEW n \in Node, Active(n), \A m \in Node \ {n} : Same(m),
         n \notin booting', data'[n] = data[n], initialize' \in {1, data[n]}
  PROVE  OneActive' /\ OneId'
<1>1. ASSUME NEW m \in Node \ {n} PROVE ~Active(m)' /\ ~Settled(m)'
  BY OthersAsBefore DEF BootstrapInv, OneActive, OneId
<1>2. ~Active(n)'
  BY DEF Active
<1>3. OneActive'
  BY <1>1, <1>2 DEF OneActive
<1>4. OneId'
  <2> SUFFICES ASSUME Settled(n)'
               PROVE  initialize' # 0 /\ (B!Valid(initialize)' => initialize' = data'[n])
    BY <1>1, <1>2 DEF OneId, B!Valid
  <2>1. data[n] # 0
    BY DEF Settled, B!Valid
  <2> QED BY <2>1 DEF B!Valid
<1> QED BY <1>3, <1>4

LEMMA InitializedKeeps ==
  ASSUME None \notin Node, BootstrapInv, NEW n \in Node, B!Initialized(n)
  PROVE  BootstrapInv'
<1>1. /\ UNCHANGED <<leader, view, data, pg, busy, ids>> /\ booting' = booting \ {n}
      /\ step[n] = "initialized" /\ step' \in [Node -> Stage] /\ step'[n] = "take_leader"
      /\ \A m \in Node \ {n} : step'[m] = step[m]
      /\ initialize' \in {initialize, data[n]}
  BY DEF BootstrapInv, BootstrapType, B!Initialized, B!At, B!Goes, B!Set, B!postgres, B!PutInitialize, Stage
<1>2. n \in booting /\ busy[n] = "none" /\ B!Valid(data[n])
  BY <1>1 DEF BootstrapInv, Placed
<1>3. Active(n) /\ initialize = 1 /\ ~Settled(n)
  BY <1>1, <1>2 DEF BootstrapInv, OneActive, Active, Settled
<1>4. BootstrapType'
  BY <1>1 DEF BootstrapInv, BootstrapType
<1>5. \A m \in Node \ {n} : Same(m)
  BY <1>1 DEF Same
<1>6. Settled(n)' /\ Placed(n)'
  BY <1>1, <1>2 DEF Settled, Placed, B!Valid
<1>7. OneActive' /\ OneId'
  BY <1>1, <1>3, <1>5, Settling
<1> QED BY <1>1, <1>3, <1>4, <1>5, <1>6, <1>7, StepOfOne

LEMMA TakeLeaderKeeps ==
  ASSUME None \notin Node, BootstrapInv, NEW n \in Node, B!TakeLeader(n)
  PROVE  BootstrapInv'
<1>1. /\ UNCHANGED <<initialize, view, data, pg, busy, booting, ids>> /\ leader' = n
      /\ step[n] = "take_leader" /\ step' \in [Node -> Stage] /\ step'[n] = "idle"
      /\ \A m \in Node \ {n} : step'[m] = step[m]
  BY DEF BootstrapInv, BootstrapType, B!TakeLeader, B!At, B!Goes, B!Set, B!postgres, Stage
<1>2. Settled(n) /\ busy[n] = "none"
  BY <1>1 DEF BootstrapInv, Placed
<1>3. BootstrapType'
  BY <1>1 DEF BootstrapInv, BootstrapType
<1>4. \A m \in Node \ {n} : Same(m)
  BY <1>1 DEF Same
<1>5. Placed(n)' /\ Settled(n)' = Settled(n) /\ (Active(n)' => Active(n))
  BY <1>1, <1>2 DEF BootstrapInv, Placed, Settled, Active, B!Valid
<1> QED BY <1>1, <1>2, <1>3, <1>4, <1>5, QuietStep

\* cancel_initialization opens the race again, when there is nothing left that could lose it.
LEMMA DeleteKeyKeeps ==
  ASSUME None \notin Node, BootstrapInv, NEW n \in Node, B!DeleteKey(n)
  PROVE  BootstrapInv'
<1>1. /\ UNCHANGED <<leader, view, data, pg, busy, booting, ids>> /\ initialize' = 0
      /\ step[n] = "cancel" /\ step' \in [Node -> Stage] /\ step'[n] = "move"
      /\ \A m \in Node \ {n} : step'[m] = step[m]
  BY DEF BootstrapInv, BootstrapType, B!DeleteKey, B!At, B!Goes, B!Set, B!postgres, B!NoKey, Stage
<1>2. n \in booting /\ busy[n] = "none" /\ Active(n) /\ ~Settled(n)
  BY <1>1 DEF BootstrapInv, Placed, Active, Settled
<1>3. BootstrapType'
  BY <1>1 DEF BootstrapInv, BootstrapType
<1>4. \A m \in Node \ {n} : Same(m)
  BY <1>1 DEF Same
<1>5. Placed(n)' /\ ~Settled(n)' /\ ~Active(n)'
  BY <1>1, <1>2 DEF BootstrapInv, Placed, Settled, Active, B!Valid
<1>6. ASSUME NEW m \in Node \ {n} PROVE ~Active(m)' /\ ~Settled(m)'
  BY <1>2, <1>4, OthersAsBefore DEF BootstrapInv, OneActive, OneId
<1>7. OneActive' /\ OneId'
  BY <1>5, <1>6 DEF OneActive, OneId
<1>8. view[n].leader # n
  BY <1>2 DEF BootstrapInv, LeaderSettled
<1> QED BY <1>1, <1>2, <1>3, <1>4, <1>5, <1>7, <1>8, StepOfOne

LEMMA MoveDataKeeps ==
  ASSUME None \notin Node, BootstrapInv, NEW n \in Node, B!MoveData(n)
  PROVE  BootstrapInv'
<1>1. /\ UNCHANGED <<initialize, leader, view, ids>> /\ step[n] = "move" /\ B!Exit(n)
      /\ data' \in [Node -> Nat] /\ data'[n] = 0 /\ \A m \in Node \ {n} : data'[m] = data[m]
  BY DEF BootstrapInv, BootstrapType, B!MoveData, B!At, B!Set, B!dcs, B!Empty
<1>2. /\ pg' \in [Node -> {"down", "primary", "standby"}] /\ pg'[n] = "down"
      /\ busy' \in [Node -> {"none", "initdb", "start", "clone"}] /\ busy'[n] = "none"
      /\ step' \in [Node -> Stage] /\ step'[n] = "idle" /\ booting' = booting \ {n}
      /\ \A m \in Node \ {n} : pg'[m] = pg[m] /\ busy'[m] = busy[m] /\ step'[m] = step[m]
  BY <1>1, Exits DEF BootstrapInv
<1>3. ~Settled(n) /\ view[n].leader # n
  BY <1>1 DEF BootstrapInv, Placed, Settled, LeaderSettled
<1>4. BootstrapType'
  BY <1>1, <1>2 DEF BootstrapInv, BootstrapType
<1>5. \A m \in Node \ {n} : Same(m)
  BY <1>1, <1>2 DEF Same
<1>6. Placed(n)' /\ ~Settled(n)' /\ ~Active(n)'
  BY <1>1, <1>2 DEF Placed, Settled, Active, B!Valid
<1> QED BY <1>1, <1>3, <1>4, <1>5, <1>6, QuietStep

\* The steps of Bootstrap.bootstrap in its thread.
LEMMA ThreadKeeps ==
  ASSUME None \notin Node, BootstrapInv, NEW n \in Node,
         B!InitDb(n) \/ B!StartNew(n) \/ B!InitDbFails(n)
  PROVE  BootstrapInv'
<1>1. /\ UNCHANGED <<initialize, leader, step, view, booting>>
      /\ busy[n] \in {"initdb", "start"}
      /\ ids' \in Nat
  BY DEF BootstrapInv, BootstrapType, B!InitDb, B!StartNew, B!InitDbFails, B!dcs
<1>2. n \in booting /\ view[n].leader # n
  BY <1>1 DEF BootstrapInv, Placed, LeaderSettled, Settled
<1>3. step[n] \in {"idle", "loaded"}
  BY <1>1, <1>2 DEF BootstrapInv, BootstrapType, Placed, Stage
<1>4. /\ data' \in [Node -> Nat] /\ \A m \in Node \ {n} : data'[m] = data[m]
      /\ pg' \in [Node -> {"down", "primary", "standby"}] /\ \A m \in Node \ {n} : pg'[m] = pg[m]
      /\ busy' \in [Node -> {"none", "initdb", "start", "clone"}] /\ busy'[n] \in {"none", "start"}
      /\ \A m \in Node \ {n} : busy'[m] = busy[m]
  BY DEF BootstrapInv, BootstrapType, B!InitDb, B!StartNew, B!InitDbFails, B!Set, B!Broken
<1>5. /\ busy'[n] = "start" => B!Valid(data[n])'
      /\ pg'[n] # "down" => B!Valid(data[n])'
  <2>1. CASE B!InitDb(n)
    BY <2>1 DEF BootstrapInv, BootstrapType, B!InitDb, B!Set, B!Valid
  <2>2. CASE B!StartNew(n)
    BY <2>2 DEF BootstrapInv, BootstrapType, Placed, B!StartNew, B!Set, B!Valid
  <2>3. CASE B!InitDbFails(n)
    BY <2>3 DEF BootstrapInv, BootstrapType, Placed, B!InitDbFails, B!Set, B!Valid
  <2> QED BY <2>1, <2>2, <2>3
<1>6. BootstrapType'
  BY <1>1, <1>4 DEF BootstrapInv, BootstrapType
<1>7. \A m \in Node \ {n} : Same(m)
  BY <1>1, <1>4 DEF Same
<1>8. Placed(n)' /\ ~Settled(n)' /\ ~Settled(n) /\ (Active(n)' => Active(n))
  BY <1>1, <1>2, <1>3, <1>4, <1>5 DEF Placed, Settled, Active
<1> QED BY <1>1, <1>2, <1>6, <1>7, <1>8, QuietStep

\* A clone is of a settled leader.
LEMMA CloneKeeps ==
  ASSUME None \notin Node, BootstrapInv, NEW n \in Node, B!Clone(n)
  PROVE  BootstrapInv'
<1>1. /\ UNCHANGED <<initialize, leader, step, view, booting, ids>> /\ busy[n] = "clone"
      /\ busy' \in [Node -> {"none", "initdb", "start", "clone"}] /\ busy'[n] = "none"
      /\ \A m \in Node \ {n} : busy'[m] = busy[m]
  BY DEF BootstrapInv, BootstrapType, B!Clone, B!Set, B!dcs
<1>2. n \notin booting /\ ~Settled(n) /\ step[n] \in {"idle", "loaded"} /\ view[n].leader # n
  BY <1>1 DEF BootstrapInv, BootstrapType, Placed, LeaderSettled, Settled, Stage
<1>3. CASE UNCHANGED <<data, pg>>
  <2>1. BootstrapType'
    BY <1>1, <1>3 DEF BootstrapInv, BootstrapType
  <2>2. \A m \in Node \ {n} : Same(m)
    BY <1>1, <1>3 DEF Same
  <2>3. Placed(n)' /\ Settled(n)' = Settled(n) /\ (Active(n)' => Active(n))
    BY <1>1, <1>2, <1>3 DEF BootstrapInv, Placed, Settled, Active, B!Valid
  <2> QED BY <1>1, <1>2, <1>3, <2>1, <2>2, <2>3, QuietStep
<1>4. CASE /\ leader # None
           /\ data' = [data EXCEPT ![n] = data[leader]] /\ pg' = [pg EXCEPT ![n] = "standby"]
  <2>1. leader \in Node /\ Settled(leader)
    BY <1>4 DEF BootstrapInv, LeaderSettled, BootstrapType
  <2>2. /\ data' \in [Node -> Nat] /\ data'[n] = data[leader] /\ \A m \in Node \ {n} : data'[m] = data[m]
        /\ pg' \in [Node -> {"down", "primary", "standby"}] /\ \A m \in Node \ {n} : pg'[m] = pg[m]
    BY <1>4, <2>1 DEF BootstrapInv, BootstrapType
  <2>3. BootstrapType'
    BY <1>1, <2>2 DEF BootstrapInv, BootstrapType
  <2>4. \A m \in Node \ {n} : Same(m)
    BY <1>1, <2>2 DEF Same
  <2>5. Settled(n)' /\ Placed(n)'
    BY <1>1, <1>2, <2>1, <2>2 DEF Placed, Settled, B!Valid
  <2>6. /\ initialize # 0 /\ (B!Valid(initialize) => initialize = data[leader])
        /\ \A m \in Node : ~Active(m) /\ (Settled(m) => data[m] = data[leader])
    BY <2>1 DEF BootstrapInv, OneId
  <2>7. \A m \in Node : ~Active(m)' /\ (Settled(m)' => data'[m] = data[leader])
    BY <1>1, <2>2, <2>4, <2>6, OthersAsBefore DEF Active, Same
  <2>8. OneActive' /\ OneId'
    BY <1>1, <2>6, <2>7 DEF OneActive, OneId, B!Valid
  <2> QED BY <1>1, <1>2, <2>3, <2>4, <2>5, <2>8, StepOfOne
<1> QED BY <1>3, <1>4 DEF B!Clone, B!postgres, B!Set

LEMMA CrashKeeps ==
  ASSUME None \notin Node, ~Untidy, BootstrapInv, NEW n \in Node, B!Crash(n)
  PROVE  BootstrapInv'
<1>1. /\ UNCHANGED <<initialize, leader, view, ids>> /\ step[n] # "move" /\ B!Exit(n)
      /\ data' \in [Node -> Nat] /\ \A m \in Node \ {n} : data'[m] = data[m]
      /\ data'[n] = IF busy[n] \in {"initdb", "clone"} THEN 1 ELSE data[n]
  BY DEF BootstrapInv, BootstrapType, B!Crash, B!At, B!Set, B!dcs, B!Broken
<1>2. /\ pg' \in [Node -> {"down", "primary", "standby"}] /\ pg'[n] = "down"
      /\ busy' \in [Node -> {"none", "initdb", "start", "clone"}] /\ busy'[n] = "none"
      /\ step' \in [Node -> Stage] /\ step'[n] = "idle" /\ booting' = booting \ {n}
      /\ \A m \in Node \ {n} : pg'[m] = pg[m] /\ busy'[m] = busy[m] /\ step'[m] = step[m]
  BY <1>1, Exits DEF BootstrapInv
<1>3. BootstrapType'
  BY <1>1, <1>2 DEF BootstrapInv, BootstrapType
<1>4. \A m \in Node \ {n} : Same(m)
  BY <1>1, <1>2 DEF Same
<1>5. Placed(n)' /\ ~Active(n)'
  BY <1>2 DEF Placed, Active
<1>6. Settled(n) => Settled(n)' /\ data'[n] = data[n]
  BY <1>1, <1>2 DEF BootstrapInv, Placed, Settled, B!Valid
<1>7. view[n].leader = n => Settled(n)
  BY DEF BootstrapInv, LeaderSettled
<1>8. CASE Settled(n)' => Settled(n)
  <2>1. OneActive' /\ OneId'
    BY <1>1, <1>4, <1>5, <1>6, <1>8, Quiet
  <2> QED BY <1>1, <1>3, <1>4, <1>5, <1>6, <1>7, <2>1, StepOfOne
<1>9. CASE Settled(n)' /\ ~Settled(n)
  <2>1. Active(n) /\ data'[n] = data[n]
    BY <1>1, <1>9 DEF Active, Settled, B!Valid
  <2>2. initialize = 1
    BY <2>1 DEF BootstrapInv, OneActive
  <2>3. OneActive' /\ OneId'
    BY <1>1, <1>2, <1>4, <2>1, <2>2, Settling
  <2> QED BY <1>1, <1>3, <1>4, <1>5, <1>6, <1>7, <2>3, StepOfOne
<1> QED BY <1>8, <1>9

LEMMA CleanKeeps ==
  ASSUME None \notin Node, BootstrapInv, NEW n \in Node, B!Clean(n)
  PROVE  BootstrapInv'
<1>1. /\ UNCHANGED <<initialize, leader, step, view, pg, busy, booting, ids>>
      /\ data[n] = 1 /\ busy[n] = "none" /\ n \notin booting
      /\ data' \in [Node -> Nat] /\ data'[n] = 0 /\ \A m \in Node \ {n} : data'[m] = data[m]
  BY DEF BootstrapInv, BootstrapType, B!Clean, B!Set, B!dcs, B!Broken, B!Empty
<1>2. ~Settled(n) /\ ~Settled(n)' /\ ~B!Valid(data[n])
  BY <1>1 DEF Settled, B!Valid
<1>3. view[n].leader # n
  BY <1>2 DEF BootstrapInv, LeaderSettled
<1>4. BootstrapType'
  BY <1>1 DEF BootstrapInv, BootstrapType
<1>5. \A m \in Node \ {n} : Same(m)
  BY <1>1 DEF Same
<1>6. Placed(n)' /\ (Active(n)' => Active(n))
  BY <1>1, <1>2 DEF BootstrapInv, Placed, Active, B!Valid
<1> QED BY <1>1, <1>2, <1>3, <1>4, <1>5, <1>6, QuietStep

LEMMA BootstrapInvKept ==
  ASSUME None \notin Node, ~Untidy, BootstrapInv, [B!BootstrapNext]_(B!vars)
  PROVE  BootstrapInv'
<1>1. CASE UNCHANGED B!vars \/ B!KeyExpires
  <2>1. /\ UNCHANGED <<initialize, step, view, data, pg, busy, booting>>
        /\ ids' = ids /\ leader' \in {leader, None}
    BY <1>1 DEF B!vars, B!KeyExpires, B!postgres
  <2>2. BootstrapType' /\ \A m \in Node : Same(m)
    BY <2>1 DEF BootstrapInv, BootstrapType, Same
  <2>3. /\ \A m \in Node : (Placed(m)' <=> Placed(m))
        /\ \A m \in Node : (Settled(m)' <=> Settled(m)) /\ (Active(m)' <=> Active(m))
    BY <2>2, OthersAsBefore
  <2>4. LeaderSettled'
    BY <2>1 DEF BootstrapInv, LeaderSettled, Settled, B!Valid
  <2>5. OneActive' /\ OneId'
    BY <2>1, <2>3 DEF BootstrapInv, OneActive, OneId, B!Valid
  <2> QED BY <2>2, <2>3, <2>4, <2>5 DEF BootstrapInv
<1>2. ASSUME NEW n \in Node, B!Load(n) PROVE BootstrapInv'
  BY <1>2, LoadView
<1>3. ASSUME NEW n \in Node, B!OwnKey(n) PROVE BootstrapInv'
  BY <1>3, OwnKeyKeeps
<1>4. ASSUME NEW n \in Node, B!Race(n) \/ B!RaceUnanswered(n) PROVE BootstrapInv'
  BY <1>4, RaceKeeps
<1>5. ASSUME NEW n \in Node, B!Wait(n) PROVE BootstrapInv'
  BY <1>5, WaitKeeps
<1>6. ASSUME NEW n \in Node, B!Join(n) PROVE BootstrapInv'
  BY <1>6, JoinKeeps
<1>7. ASSUME NEW n \in Node, B!Run(n) PROVE BootstrapInv'
  BY <1>7, RunKeeps
<1>8. ASSUME NEW n \in Node, B!PostBootstrap(n) \/ B!PostScriptFails(n) PROVE BootstrapInv'
  BY <1>8, PostBootstrapKeeps
<1>9. ASSUME NEW n \in Node, B!Initialized(n) PROVE BootstrapInv'
  BY <1>9, InitializedKeeps
<1>10. ASSUME NEW n \in Node, B!TakeLeader(n) PROVE BootstrapInv'
  BY <1>10, TakeLeaderKeeps
<1>11. ASSUME NEW n \in Node, B!DeleteKey(n) PROVE BootstrapInv'
  BY <1>11, DeleteKeyKeeps
<1>12. ASSUME NEW n \in Node, B!MoveData(n) PROVE BootstrapInv'
  BY <1>12, MoveDataKeeps
<1>13. ASSUME NEW n \in Node, B!InitDb(n) \/ B!StartNew(n) \/ B!InitDbFails(n) PROVE BootstrapInv'
  BY <1>13, ThreadKeeps
<1>14. ASSUME NEW n \in Node, B!Clone(n) PROVE BootstrapInv'
  BY <1>14, CloneKeeps
<1>15. ASSUME NEW n \in Node, B!Crash(n) PROVE BootstrapInv'
  BY <1>15, CrashKeeps
<1>16. ASSUME NEW n \in Node, B!Clean(n) PROVE BootstrapInv'
  BY <1>16, CleanKeeps
<1> QED
  BY <1>1, <1>2, <1>3, <1>4, <1>5, <1>6, <1>7, <1>8, <1>9, <1>10, <1>11, <1>12, <1>13, <1>14,
     <1>15, <1>16 DEF B!BootstrapNext

\* The nodes that are in the cluster have one system identifier, for any number of nodes,
\* of initdb runs and of crashes, unless one dies while it cancels an initialization.
THEOREM BootstrapOneSystem ==
  ASSUME None \notin Node, ~Untidy
  PROVE  B!BootstrapSpec => []B!OneSystem
<1>1. B!Init => BootstrapInv
  BY BootstrapInitially
<1>2. BootstrapInv /\ [B!BootstrapNext]_(B!vars) => BootstrapInv'
  BY BootstrapInvKept
<1>3. BootstrapInv => B!OneSystem
  BY BootstrapInvSafe
<1> QED BY <1>1, <1>2, <1>3, PTL DEF B!BootstrapSpec

-----------------------------------------------------------------------------
\* MultiSync.  What is acknowledged has been confirmed by all of synchronous_standby_names,
\* and the voters of /sync are among them at every step.

Turn == {"idle", "leader", "repair", "narrow", "names", "confirm", "widen"}
Handler == [known : SUBSET (Node \cup {None}), flush : Nat, ready : SUBSET Node]
Plan == [at : Turn, picked : SUBSET Node, allow : SUBSET Node, voters : SUBSET Node, loaded : SUBSET Node]
MultiSyncType ==
  /\ primary \in Node \cup {None} /\ streaming \in SUBSET Node
  /\ log \in [Node -> Nat] /\ acked \in Nat /\ byHand \in Nat
  /\ sync \in [leader : Node \cup {None}, voters : SUBSET Node]
  /\ ssn \in [Node -> SUBSET (Node \cup {None})]
  /\ handler \in Handler /\ plan \in Plan

HasAll(n) == log[n] >= acked

\* The leader and the voters of /sync have what was acknowledged.
Keyed ==
  /\ sync.leader = None => acked = 0 /\ sync.voters = {}
  /\ sync.leader # None => \A n \in sync.voters \cup {sync.leader} : HasAll(n)

\* A primary that /sync does not name has no rivals in it; one that it names waits for
\* the voters.
Led ==
  /\ primary = None => streaming = {} /\ handler.known = {} /\ handler.ready = {} /\ plan.at = "idle"
  /\ primary # None => sync.leader \in {None, primary} /\ sync.voters \subseteq ssn[primary]

\* The handler has seen the names the primary runs with.
Noted == primary # None /\ handler.known = ssn[primary]

\* It trusts only who has everything.
Trusted ==
  /\ handler.ready \subseteq handler.known
  /\ primary # None /\ ~Noted => handler.ready \cap ssn[primary] = {}
  /\ Noted => \A r \in handler.known \cap Node :
       r \in handler.ready \/ log[r] >= handler.flush => HasAll(r)

\* Before the names change the plan only knows nodes of the old ones, and from then on of
\* the new.
Planned ==
  plan.at # "idle" =>
    /\ sync.leader = primary
    /\ plan.allow \subseteq handler.ready
    /\ Noted \/ (plan.at = "widen" /\ plan.allow = {})
    /\ plan.at \in {"leader", "repair", "narrow", "names"} =>
         plan.allow \subseteq plan.picked /\ plan.loaded \subseteq ssn[primary]
    /\ plan.at = "names" => sync.voters \subseteq plan.allow
    /\ \A r \in plan.loaded \cap ssn[primary] : HasAll(r)

MultiSyncInv == MultiSyncType /\ Keyed /\ Led /\ Trusted /\ Planned

LEMMA MultiSyncInitially ==
  ASSUME None \notin Node, Node # {}, M!Init
  PROVE  MultiSyncInv
<1>1. /\ primary \in Node /\ log = [n \in Node |-> 0] /\ acked = 0 /\ byHand = 0
      /\ streaming = {} /\ sync = [leader |-> None, voters |-> {}]
      /\ ssn = [n \in Node |-> {}]
      /\ handler = [known |-> {}, flush |-> 0, ready |-> {}]
      /\ plan = [at |-> "idle", picked |-> {}, allow |-> {}, voters |-> {}, loaded |-> {}]
  BY DEF M!Init, M!Forgotten, M!Idle
<1>2. MultiSyncType
  BY <1>1 DEF MultiSyncType, Handler, Plan, Turn
<1> QED BY <1>1, <1>2 DEF MultiSyncInv, Keyed, Led, Trusted, Planned, Noted

LEMMA MultiSyncInvSafe ==
  ASSUME MultiSyncInv
  PROVE  M!HeirsHaveCommits
BY DEF MultiSyncInv, Keyed, HasAll, M!HeirsHaveCommits, M!Electable

LEMMA NoticedIs ==
  ASSUME MultiSyncInv, primary # None, NEW names \in SUBSET (Node \cup {None})
  PROVE  /\ M!Noticed(handler, names) \in Handler
         /\ M!Noticed(handler, names).known = names
         /\ M!Noticed(handler, names).ready = handler.ready \cap names
         /\ M!Noticed(handler, names).flush =
              IF handler.known = names THEN handler.flush ELSE log[primary]
<1>1. log[primary] \in Nat /\ handler \in Handler /\ handler.ready \subseteq handler.known
  BY DEF MultiSyncInv, MultiSyncType, Trusted
<1> QED BY <1>1 DEF M!Noticed, Handler

LEMMA WithReadyIs ==
  ASSUME NEW h \in Handler, NEW names, streaming \in SUBSET Node
  PROVE  /\ M!WithReady(h, names) \in Handler
         /\ M!WithReady(h, names).known = h.known
         /\ M!WithReady(h, names).flush = h.flush
         /\ \A r : r \in M!WithReady(h, names).ready <=>
               \/ r \in h.ready
               \/ /\ r \in streaming /\ r \in h.known
                  /\ r \in names \/ (r \in M!Synchronous /\ log[r] >= h.flush)
<1> DEFINE more == {r \in streaming \cap h.known : r \in names \/ (r \in M!Synchronous /\ log[r] >= h.flush)}
<1>1. M!WithReady(h, names) = [h EXCEPT !.ready = h.ready \cup more]
  BY DEF M!WithReady
<1>2. more \in SUBSET Node /\ \A r : r \in more <=>
        /\ r \in streaming /\ r \in h.known
        /\ r \in names \/ (r \in M!Synchronous /\ log[r] >= h.flush)
  OBVIOUS
<1> HIDE DEF more
<1> QED BY <1>1, <1>2 DEF Handler

\* What current_state makes of the handler: it knows the names, and trusts whom it may.
LEMMA Prepared ==
  ASSUME MultiSyncInv, None \notin Node, primary # None, sync.leader \in {None, primary},
         NEW names \in SUBSET Node, \A r \in names \cap ssn[primary] : HasAll(r),
         NEW h, h = M!WithReady(M!Noticed(handler, ssn[primary]), names)
  PROVE  /\ h \in Handler /\ h.known = ssn[primary] /\ h.ready \subseteq h.known
         /\ \A r \in h.known \cap Node : r \in h.ready \/ log[r] >= h.flush => HasAll(r)
<1> DEFINE g == M!Noticed(handler, ssn[primary])
<1>1. primary \in Node /\ ssn[primary] \in SUBSET (Node \cup {None}) /\ streaming \in SUBSET Node
  BY DEF MultiSyncInv, MultiSyncType
<1>2. /\ g \in Handler /\ g.known = ssn[primary] /\ g.ready = handler.ready \cap ssn[primary]
      /\ g.flush = IF handler.known = ssn[primary] THEN handler.flush ELSE log[primary]
  BY <1>1, NoticedIs
<1> HIDE DEF g
<1>3. /\ h \in Handler /\ h.known = g.known /\ h.flush = g.flush
      /\ \A r : r \in h.ready <=>
               \/ r \in g.ready
               \/ /\ r \in streaming /\ r \in g.known
                  /\ r \in names \/ (r \in M!Synchronous /\ log[r] >= g.flush)
  BY <1>1, <1>2, WithReadyIs DEF g
<1>4. log[primary] >= acked
  BY <1>1 DEF MultiSyncInv, MultiSyncType, Keyed, HasAll
<1>5. ASSUME NEW r \in ssn[primary] \cap Node, r \in handler.ready \/ log[r] >= g.flush
      PROVE  HasAll(r)
  <2>1. CASE handler.known = ssn[primary]
    BY <1>2, <1>5, <2>1 DEF MultiSyncInv, Trusted, Noted
  <2>2. CASE handler.known # ssn[primary]
    <3>1. r \notin handler.ready
      BY <2>2, <1>5 DEF MultiSyncInv, Trusted, Noted
    <3>2. log[r] >= log[primary]
      BY <1>2, <1>5, <2>2, <3>1
    <3>3. log[r] \in Nat /\ log[primary] \in Nat /\ acked \in Nat
      BY <1>1 DEF MultiSyncInv, MultiSyncType
    <3> QED BY <1>4, <3>2, <3>3 DEF HasAll
  <2> QED BY <2>1, <2>2
<1>6. h.ready \subseteq h.known
  BY <1>2, <1>3
<1>7. ASSUME NEW r \in h.known \cap Node, r \in h.ready \/ log[r] >= h.flush PROVE HasAll(r)
  BY <1>2, <1>3, <1>5, <1>7
<1> QED BY <1>2, <1>3, <1>6, <1>7

\* Who is confirmed is trusted.
LEMMA ConfirmedReady ==
  ASSUME NEW h, NEW active
  PROVE  M!Confirmed(h, active) \subseteq h.ready /\ M!Confirmed(h, active) \subseteq active
BY DEF M!Confirmed

LEMMA BeginKeeps ==
  ASSUME None \notin Node, MultiSyncInv, M!Begin
  PROVE  MultiSyncInv'
<1>1. /\ primary # None /\ plan.at = "idle" /\ UNCHANGED <<byHand, primary, log, streaming, acked, ssn>>
      /\ sync' = IF sync.leader = None THEN [leader |-> primary, voters |-> {}] ELSE sync
      /\ handler' = M!WithReady(M!Noticed(handler, ssn[primary]), sync.voters)
  BY DEF M!Begin, M!At
<1>2. PICK active \in M!Choices :
        plan' = [at |-> "leader", picked |-> active, allow |-> M!Confirmed(handler', active),
                 voters |-> sync.voters, loaded |-> sync.voters]
  BY DEF M!Begin
<1>3. primary \in Node /\ sync.voters \in SUBSET Node /\ active \in SUBSET Node
  BY <1>1, <1>2 DEF MultiSyncInv, MultiSyncType, M!Choices
<1>4. sync.leader \in {None, primary} /\ sync.voters \subseteq ssn[primary]
      /\ \A r \in sync.voters : HasAll(r)
  BY <1>1 DEF MultiSyncInv, Led, Keyed
<1>5. /\ handler' \in Handler /\ handler'.known = ssn[primary] /\ handler'.ready \subseteq handler'.known
      /\ \A r \in handler'.known \cap Node : r \in handler'.ready \/ log[r] >= handler'.flush => HasAll(r)
  BY <1>1, <1>3, <1>4, Prepared
<1>6. /\ plan' \in Plan /\ plan'.at = "leader" /\ plan'.loaded = sync.voters /\ plan'.picked = active
      /\ plan'.allow \subseteq handler'.ready /\ plan'.allow \subseteq active
  BY <1>2, <1>3, ConfirmedReady DEF Plan, Turn
<1>7. /\ sync' \in [leader : Node \cup {None}, voters : SUBSET Node] /\ sync'.leader = primary
      /\ sync'.voters = sync.voters
  BY <1>1, <1>3, <1>4 DEF MultiSyncInv, MultiSyncType, Keyed
<1>8. MultiSyncType'
  BY <1>1, <1>5, <1>6, <1>7 DEF MultiSyncInv, MultiSyncType
<1>9. Keyed'
  <2>1. log[primary] >= acked
    BY <1>3, <1>4 DEF MultiSyncInv, MultiSyncType, Keyed, HasAll
  <2> QED BY <1>1, <1>3, <1>4, <1>7, <2>1 DEF Keyed, HasAll
<1>10. Led'
  BY <1>1, <1>4, <1>7 DEF Led
<1>11. Trusted'
  BY <1>1, <1>5 DEF Trusted, Noted, HasAll
<1>12. Planned'
  BY <1>1, <1>4, <1>5, <1>6, <1>7 DEF Planned, Noted, HasAll
<1> QED BY <1>8, <1>9, <1>10, <1>11, <1>12 DEF MultiSyncInv

\* Those that a plan allows.
LEMMA AllowedOnes ==
  ASSUME MultiSyncInv, plan.at # "idle", NEW r \in plan.allow
  PROVE  Noted /\ r \in handler.ready /\ r \in ssn[primary] /\ r \in Node /\ HasAll(r)
<1>1. Noted /\ r \in handler.ready
  BY DEF MultiSyncInv, Planned
<1>2. r \in Node
  BY DEF MultiSyncInv, MultiSyncType, Plan
<1> QED BY <1>1, <1>2 DEF MultiSyncInv, Trusted, Noted

\* A cycle leaves in /sync voters that it had, or puts some there that the plan allows.
LEMMA KeyStep ==
  ASSUME None \notin Node, MultiSyncInv, plan.at # "idle",
         UNCHANGED <<byHand, primary, log, streaming, acked, ssn, handler>>,
         sync' \in [leader : Node \cup {None}, voters : SUBSET Node], sync'.leader = primary,
         sync'.voters \subseteq sync.voters \cup plan.allow,
         plan' \in Plan, Planned'
  PROVE  MultiSyncInv'
<1>1. primary \in Node /\ sync.leader = primary
  BY DEF MultiSyncInv, MultiSyncType, Led, Planned
<1>2. MultiSyncType'
  BY DEF MultiSyncInv, MultiSyncType
<1>3. ASSUME NEW r \in sync'.voters PROVE r \in ssn[primary] /\ HasAll(r)
  BY <1>1, <1>3, AllowedOnes DEF MultiSyncInv, Led, Keyed
<1>4. HasAll(primary)
  BY <1>1 DEF MultiSyncInv, Keyed
<1>5. Keyed'
  BY <1>1, <1>3, <1>4 DEF Keyed, HasAll
<1>6. Led'
  BY <1>1, <1>3 DEF Led
<1>7. Trusted'
  BY DEF MultiSyncInv, Trusted, Noted, HasAll
<1> QED BY <1>2, <1>5, <1>6, <1>7 DEF MultiSyncInv

\* What is planned, and what Write makes of /sync.
LEMMA InPlan ==
  ASSUME MultiSyncInv, plan.at # "idle"
  PROVE  /\ primary \in Node /\ primary # None /\ sync.leader = primary /\ plan \in Plan
         /\ sync \in [leader : Node \cup {None}, voters : SUBSET Node]
         /\ plan.allow \subseteq handler.ready
BY DEF MultiSyncInv, MultiSyncType, Led, Planned

LEMMA Written ==
  ASSUME primary \in Node, NEW voters \in SUBSET Node, M!Write(voters)
  PROVE  /\ sync' \in [leader : Node \cup {None}, voters : SUBSET Node]
         /\ sync'.leader = primary /\ sync'.voters = voters
BY DEF M!Write

LEMMA TakeOverKeyKeeps ==
  ASSUME None \notin Node, MultiSyncInv, M!TakeOverKey
  PROVE  MultiSyncInv'
<1>1. /\ plan.at = "leader" /\ UNCHANGED <<byHand, primary, log, streaming, acked, ssn, handler>>
      /\ plan' = [plan EXCEPT !.at = "repair", !.voters = sync'.voters]
      /\ sync.leader = primary => sync' = sync
  BY DEF M!TakeOverKey, M!At
<1>2. primary \in Node /\ sync.leader = primary /\ plan \in Plan
      /\ sync \in [leader : Node \cup {None}, voters : SUBSET Node]
  BY <1>1, InPlan
<1>3. plan' \in Plan /\ plan'.at = "repair" /\ plan'.picked = plan.picked
      /\ plan'.allow = plan.allow /\ plan'.loaded = plan.loaded
  BY <1>1, <1>2 DEF Plan, Turn
<1>4. Planned'
  BY <1>1, <1>2, <1>3 DEF MultiSyncInv, Planned, Noted, HasAll
<1> QED BY <1>1, <1>2, <1>3, <1>4, KeyStep

LEMMA RepairKeyKeeps ==
  ASSUME None \notin Node, MultiSyncInv, M!RepairKey
  PROVE  MultiSyncInv'
<1>1. /\ plan.at = "repair" /\ UNCHANGED <<byHand, primary, log, streaming, acked, ssn, handler>>
      /\ M!Write(plan.allow) \/ sync' = sync
      /\ plan' = M!Idle \/ plan' = [plan EXCEPT !.at = "narrow", !.voters = sync'.voters]
  BY DEF M!RepairKey, M!At
<1>2. primary \in Node /\ sync.leader = primary /\ plan \in Plan /\ plan.allow \in SUBSET Node
      /\ sync \in [leader : Node \cup {None}, voters : SUBSET Node]
  BY <1>1, InPlan DEF Plan
<1>3. /\ sync' \in [leader : Node \cup {None}, voters : SUBSET Node]
      /\ sync'.leader = primary /\ sync'.voters \in {sync.voters, plan.allow}
  BY <1>1, <1>2, Written
<1>4. CASE plan' = M!Idle
  <2>1. plan' \in Plan /\ plan'.at = "idle"
    BY <1>4 DEF M!Idle, Plan, Turn
  <2> QED BY <1>1, <1>2, <1>3, <2>1, KeyStep DEF Planned
<1>5. CASE plan' = [plan EXCEPT !.at = "narrow", !.voters = sync'.voters]
  <2>1. plan' \in Plan /\ plan'.at = "narrow" /\ plan'.picked = plan.picked
        /\ plan'.allow = plan.allow /\ plan'.loaded = plan.loaded
    BY <1>2, <1>3, <1>5 DEF Plan, Turn
  <2>2. Planned'
    BY <1>1, <1>2, <1>3, <2>1 DEF MultiSyncInv, Planned, Noted, HasAll
  <2> QED BY <1>1, <1>2, <1>3, <2>1, <2>2, KeyStep
<1> QED BY <1>1, <1>4, <1>5

LEMMA NarrowKeyKeeps ==
  ASSUME None \notin Node, MultiSyncInv, M!NarrowKey
  PROVE  MultiSyncInv'
<1>1. /\ plan.at = "narrow" /\ UNCHANGED <<byHand, primary, log, streaming, acked, ssn, handler>>
      /\ M!Write(plan.voters \cap plan.allow) /\ plan' = [plan EXCEPT !.at = "names"]
  BY DEF M!NarrowKey, M!At, M!Goes
<1>2. primary \in Node /\ sync.leader = primary /\ plan \in Plan /\ plan.voters \cap plan.allow \in SUBSET Node
  BY <1>1, InPlan DEF Plan
<1>3. /\ sync' \in [leader : Node \cup {None}, voters : SUBSET Node]
      /\ sync'.leader = primary /\ sync'.voters \subseteq plan.allow
  BY <1>1, <1>2, Written
<1>4. plan' \in Plan /\ plan'.at = "names" /\ plan'.picked = plan.picked
      /\ plan'.allow = plan.allow /\ plan'.loaded = plan.loaded
  BY <1>1, <1>2 DEF Plan, Turn
<1>5. Planned'
  BY <1>1, <1>2, <1>3, <1>4 DEF MultiSyncInv, Planned, Noted, HasAll
<1> QED BY <1>1, <1>2, <1>3, <1>4, <1>5, KeyStep

LEMMA WidenKeyKeeps ==
  ASSUME None \notin Node, MultiSyncInv, M!WidenKey
  PROVE  MultiSyncInv'
<1>1. /\ plan.at = "widen" /\ UNCHANGED <<byHand, primary, log, streaming, acked, ssn, handler>>
      /\ M!Write(plan.allow) \/ sync' = sync
      /\ plan' = M!Idle
  BY DEF M!WidenKey, M!At
<1>2. primary \in Node /\ sync.leader = primary /\ plan.allow \in SUBSET Node
      /\ sync \in [leader : Node \cup {None}, voters : SUBSET Node]
  BY <1>1, InPlan DEF Plan
<1>3. /\ sync' \in [leader : Node \cup {None}, voters : SUBSET Node]
      /\ sync'.leader = primary /\ sync'.voters \in {sync.voters, plan.allow}
  BY <1>1, <1>2, Written
<1>4. plan' \in Plan /\ plan'.at = "idle"
  BY <1>1 DEF M!Idle, Plan, Turn
<1> QED BY <1>1, <1>2, <1>3, <1>4, KeyStep DEF Planned

\* The names are set to those of the plan, of which the voters are a part.
LEMMA SetNamesKeeps ==
  ASSUME None \notin Node, MultiSyncInv, M!SetNames
  PROVE  MultiSyncInv'
<1> DEFINE names == IF Strict /\ plan.picked = {} THEN {None} ELSE plan.picked
           at == IF plan.picked # {} /\ plan.allow # plan.picked THEN "confirm" ELSE "widen"
<1>1. /\ plan.at = "names" /\ UNCHANGED <<byHand, primary, log, streaming, acked, sync>>
      /\ ssn' = [ssn EXCEPT ![primary] = names]
      /\ handler' = IF ssn'[primary] = {None} THEN handler ELSE M!Noticed(handler, ssn'[primary])
      /\ plan' = [plan EXCEPT !.at = at]
  BY DEF M!SetNames, M!At, M!Goes, M!Star
<1>2. /\ primary \in Node /\ primary # None /\ sync.leader = primary /\ plan \in Plan
      /\ plan.picked \in SUBSET Node
  BY <1>1, InPlan DEF Plan
<1>3. /\ plan.allow \subseteq plan.picked /\ plan.loaded \subseteq ssn[primary]
      /\ sync.voters \subseteq plan.allow /\ Noted
      /\ \A r \in plan.loaded : HasAll(r)
  BY <1>1 DEF MultiSyncInv, Planned
<1>4. names \in SUBSET (Node \cup {None}) /\ (names = {None} => plan.picked = {}) /\ plan.picked \subseteq names
  BY <1>2
<1>5. at \in {"confirm", "widen"} /\ (plan.picked = {} => at = "widen")
  OBVIOUS
<1> HIDE DEF names, at
<1>6. ssn' \in [Node -> SUBSET (Node \cup {None})] /\ ssn'[primary] = names
  BY <1>1, <1>2, <1>4 DEF MultiSyncInv, MultiSyncType
<1>7. plan' \in Plan /\ plan'.at = at /\ plan'.allow = plan.allow /\ plan'.loaded = plan.loaded
  BY <1>1, <1>2, <1>5 DEF Plan, Turn
<1>8. HasAll(primary) /\ log[primary] \in Nat /\ acked \in Nat
  BY <1>2 DEF MultiSyncInv, MultiSyncType, Keyed
<1>9. CASE names = {None}
  <2>1. plan.allow = {} /\ sync.voters = {} /\ handler' = handler /\ at = "widen"
    BY <1>1, <1>3, <1>4, <1>5, <1>6, <1>9
  <2>2. MultiSyncType'
    BY <1>1, <1>6, <1>7, <2>1 DEF MultiSyncInv, MultiSyncType
  <2>3. Keyed' /\ Led'
    BY <1>1, <1>2, <1>6, <2>1 DEF MultiSyncInv, Keyed, Led, HasAll
  <2>4. handler.ready \subseteq Node
    BY DEF MultiSyncInv, MultiSyncType, Handler
  <2>5. Trusted'
    BY <1>1, <1>2, <1>6, <1>9, <2>1, <2>4 DEF MultiSyncInv, Trusted, Noted, HasAll
  <2>6. plan.loaded \subseteq Node
    BY <1>2 DEF Plan
  <2>7. Planned'
    BY <1>1, <1>2, <1>6, <1>7, <1>9, <2>1, <2>6 DEF Planned
  <2> QED BY <2>2, <2>3, <2>5, <2>7 DEF MultiSyncInv
<1>10. CASE names # {None}
  <2>1. /\ handler' \in Handler /\ handler'.known = names
        /\ handler'.ready = handler.ready \cap names
        /\ handler'.flush = IF handler.known = names THEN handler.flush ELSE log[primary]
    BY <1>1, <1>2, <1>4, <1>6, <1>10, NoticedIs
  <2>2. MultiSyncType'
    BY <1>1, <1>6, <1>7, <2>1 DEF MultiSyncInv, MultiSyncType
  <2>3. Keyed'
    BY <1>1 DEF MultiSyncInv, Keyed, HasAll
  <2>4. Led'
    BY <1>1, <1>2, <1>3, <1>4, <1>6 DEF MultiSyncInv, Led
  <2>5. ASSUME NEW r \in handler'.known \cap Node, r \in handler'.ready \/ log[r] >= handler'.flush
        PROVE  HasAll(r)
    <3>1. CASE r \in handler.ready \/ handler.known = names
      BY <1>3, <2>1, <2>5, <3>1 DEF MultiSyncInv, Trusted
    <3>2. CASE r \notin handler.ready /\ handler.known # names
      <4>1. log[r] >= log[primary] /\ log[r] \in Nat
        BY <2>1, <2>5, <3>2 DEF MultiSyncInv, MultiSyncType
      <4> QED BY <1>8, <4>1 DEF HasAll
    <3> QED BY <3>1, <3>2
  <2>6. Trusted'
    BY <1>1, <1>6, <2>1, <2>5 DEF Trusted, Noted, HasAll
  <2>7. plan.allow \subseteq handler'.ready
    BY <1>1, <1>3, <1>4, <2>1, InPlan
  <2>8. Planned'
    BY <1>1, <1>2, <1>3, <1>5, <1>6, <1>7, <2>1, <2>7 DEF Planned, Noted, HasAll
  <2> QED BY <2>2, <2>3, <2>4, <2>6, <2>8 DEF MultiSyncInv
<1> QED BY <1>9, <1>10

LEMMA ConfirmKeeps ==
  ASSUME None \notin Node, MultiSyncInv, M!Confirm
  PROVE  MultiSyncInv'
<1>1. /\ plan.at = "confirm" /\ UNCHANGED <<byHand, primary, log, streaming, acked, sync, ssn>>
      /\ handler' = M!WithReady(M!Noticed(handler, ssn[primary]), plan.loaded)
  BY DEF M!Confirm, M!At
<1>2. PICK active \in M!Choices :
        plan' = [plan EXCEPT !.at = "widen", !.allow = M!Confirmed(handler', active)]
  BY DEF M!Confirm
<1>3. /\ primary \in Node /\ primary # None /\ sync.leader = primary /\ plan \in Plan
      /\ plan.loaded \in SUBSET Node /\ \A r \in plan.loaded \cap ssn[primary] : HasAll(r)
  BY <1>1, InPlan DEF Plan, MultiSyncInv, Planned
<1>4. /\ handler' \in Handler /\ handler'.known = ssn[primary] /\ handler'.ready \subseteq handler'.known
      /\ \A r \in handler'.known \cap Node : r \in handler'.ready \/ log[r] >= handler'.flush => HasAll(r)
  BY <1>1, <1>3, Prepared
<1>5. M!Confirmed(handler', active) \subseteq handler'.ready /\ handler'.ready \in SUBSET Node
  BY <1>4, ConfirmedReady DEF Handler
<1>6. /\ plan' \in Plan /\ plan'.at = "widen" /\ plan'.loaded = plan.loaded
      /\ plan'.allow \subseteq handler'.ready
  BY <1>2, <1>3, <1>5 DEF Plan, Turn
<1>7. MultiSyncType'
  BY <1>1, <1>4, <1>6 DEF MultiSyncInv, MultiSyncType
<1>8. Keyed' /\ Led'
  BY <1>1, <1>3 DEF MultiSyncInv, Keyed, Led, HasAll
<1>9. Trusted'
  BY <1>1, <1>4 DEF Trusted, Noted, HasAll
<1>10. Planned'
  BY <1>1, <1>3, <1>4, <1>6 DEF Planned, Noted, HasAll
<1> QED BY <1>7, <1>8, <1>9, <1>10 DEF MultiSyncInv

LEMMA InterruptedKeeps ==
  ASSUME None \notin Node, MultiSyncInv, M!Interrupted \/ M!ChangeCount
  PROVE  MultiSyncInv'
<1>1. /\ UNCHANGED <<byHand, primary, log, streaming, acked, sync, ssn>>
      /\ handler' = handler \/ (primary # None /\ handler' = [known |-> {}, flush |-> 0, ready |-> {}])
      /\ plan' = plan \/ plan' = [at |-> "idle", picked |-> {}, allow |-> {}, voters |-> {}, loaded |-> {}]
      /\ handler' = handler \/ plan'.at = "idle"
  BY DEF M!Interrupted, M!ChangeCount, M!Forgotten, M!Idle
<1>2. plan' \in Plan /\ (plan' = plan \/ plan'.at = "idle") /\ handler' \in Handler
      /\ (handler' = handler \/ (handler'.known = {} /\ handler'.ready = {}))
  BY <1>1 DEF MultiSyncInv, MultiSyncType, Plan, Handler, Turn
<1>3. MultiSyncType'
  BY <1>1, <1>2 DEF MultiSyncInv, MultiSyncType
<1>4. Keyed' /\ Led'
  BY <1>1, <1>2 DEF MultiSyncInv, Keyed, Led, HasAll
<1>5. Trusted'
  BY <1>1, <1>2 DEF MultiSyncInv, Trusted, Noted, HasAll
<1>6. Planned'
  BY <1>1, <1>2 DEF MultiSyncInv, Planned, Noted, HasAll
<1> QED BY <1>3, <1>4, <1>5, <1>6 DEF MultiSyncInv

\* The primary has everything itself.
LEMMA PrimaryHasAll ==
  ASSUME MultiSyncInv, primary # None
  PROVE  primary \in Node /\ log[primary] \in Nat /\ acked \in Nat /\ log[primary] >= acked
BY DEF MultiSyncInv, MultiSyncType, Keyed, Led, HasAll

\* Logs grow, connections come and go.
LEMMA LogsKeep ==
  ASSUME None \notin Node, MultiSyncInv,
         M!Commit \/ \E r \in Node : M!Replicate(r) \/ M!Connect(r) \/ M!Disconnect(r)
  PROVE  MultiSyncInv'
<1>1. UNCHANGED <<byHand, primary, acked, sync, ssn, handler, plan>>
  BY DEF M!Commit, M!Replicate, M!Connect, M!Disconnect
<1>2. streaming' \in SUBSET Node
  BY DEF MultiSyncInv, MultiSyncType, M!Commit, M!Replicate, M!Connect, M!Disconnect
<1>3. log' \in [Node -> Nat] /\ \A n \in Node : log'[n] = log[n] \/ log'[n] >= acked
  <2>0. log \in [Node -> Nat]
    BY DEF MultiSyncInv, MultiSyncType
  <2>1. CASE UNCHANGED log
    BY <2>0, <2>1
  <2>2. CASE M!Commit
    <3>1. primary # None /\ log' = [log EXCEPT ![primary] = log[primary] + 1]
      BY <2>2 DEF M!Commit
    <3> QED BY <2>0, <3>1, PrimaryHasAll
  <2>3. ASSUME NEW r \in Node, M!Replicate(r)
        PROVE  log' \in [Node -> Nat] /\ \A n \in Node : log'[n] = log[n] \/ log'[n] >= acked
    <3>1. log' = [log EXCEPT ![r] = log[primary]]
      BY <2>3 DEF M!Replicate
    <3>2. CASE primary # None
      BY <2>0, <3>1, <3>2, PrimaryHasAll
    <3>3. CASE primary = None
      BY <2>3, <3>3 DEF M!Replicate, MultiSyncInv, Led
    <3> QED BY <3>2, <3>3
  <2> QED BY <2>1, <2>2, <2>3 DEF M!Connect, M!Disconnect
<1>4. MultiSyncType'
  BY <1>1, <1>2, <1>3 DEF MultiSyncInv, MultiSyncType
<1>5. ASSUME NEW n \in Node, HasAll(n) PROVE HasAll(n)'
  BY <1>1, <1>3, <1>5 DEF HasAll
<1>6. Keyed'
  BY <1>1, <1>5 DEF MultiSyncInv, MultiSyncType, Keyed
<1>7. Led'
  BY <1>1 DEF MultiSyncInv, Led, M!Commit, M!Replicate, M!Connect, M!Disconnect
<1>8. Trusted'
  BY <1>1, <1>3 DEF MultiSyncInv, Trusted, Noted, HasAll
<1>9. Planned'
  BY <1>1, <1>5 DEF MultiSyncInv, MultiSyncType, Planned, Plan, Noted
<1> QED BY <1>4, <1>6, <1>7, <1>8, <1>9 DEF MultiSyncInv

\* A commit is acknowledged when all of the names have it.
LEMMA AcknowledgeKeeps ==
  ASSUME None \notin Node, MultiSyncInv, M!Acknowledge
  PROVE  MultiSyncInv'
<1>1. /\ UNCHANGED <<byHand, primary, log, streaming, sync, ssn, handler, plan>>
      /\ primary # None /\ sync.leader = primary
      /\ acked' \in acked + 1 .. log[primary]
  BY DEF M!Acknowledge
<1>2. primary \in Node /\ log[primary] \in Nat /\ acked \in Nat
  BY <1>1, PrimaryHasAll
<1>3. acked' \in Nat /\ log[primary] >= acked'
  BY <1>1, <1>2
<1>4. ASSUME NEW r \in ssn[primary] \cap Node PROVE HasAll(r)'
  BY <1>1, <1>4 DEF M!Acknowledge, M!Star, HasAll
<1>5. MultiSyncType'
  BY <1>1, <1>3 DEF MultiSyncInv, MultiSyncType
<1>6. sync.voters \subseteq Node /\ sync.voters \subseteq ssn[primary]
  BY <1>1 DEF MultiSyncInv, MultiSyncType, Led
<1>7. Keyed'
  BY <1>1, <1>2, <1>3, <1>4, <1>6 DEF Keyed, HasAll
<1>8. Led'
  BY <1>1 DEF MultiSyncInv, Led
<1>9. Trusted'
  BY <1>1, <1>4 DEF MultiSyncInv, Trusted, Noted
<1>10. Planned'
  BY <1>1, <1>4 DEF MultiSyncInv, MultiSyncType, Planned, Plan, Noted
<1> QED BY <1>5, <1>7, <1>8, <1>9, <1>10 DEF MultiSyncInv

LEMMA LosePrimaryKeeps ==
  ASSUME None \notin Node, MultiSyncInv, M!LosePrimary
  PROVE  MultiSyncInv'
<1>1. /\ UNCHANGED <<byHand, log, acked, sync, ssn>> /\ primary' = None /\ streaming' = {}
      /\ handler' = [known |-> {}, flush |-> 0, ready |-> {}]
      /\ plan' = [at |-> "idle", picked |-> {}, allow |-> {}, voters |-> {}, loaded |-> {}]
  BY DEF M!LosePrimary, M!Forgotten, M!Idle
<1>2. MultiSyncType'
  BY <1>1 DEF MultiSyncInv, MultiSyncType, Handler, Plan, Turn
<1> QED BY <1>1, <1>2 DEF MultiSyncInv, Keyed, Led, Trusted, Planned, Noted, HasAll

\* Who is promoted has everything, and the others lose nothing of that.
LEMMA PromotedKeeps ==
  ASSUME None \notin Node, MultiSyncInv, NEW n \in Node, M!Promote(n)
  PROVE  MultiSyncInv'
<1>1. /\ UNCHANGED <<byHand, streaming, acked, handler, plan>> /\ primary = None /\ primary' = n
      /\ sync' = IF sync.leader = None THEN sync ELSE [leader |-> n, voters |-> {}]
      /\ ssn' = [ssn EXCEPT ![n] = IF Strict THEN {None} ELSE {}]
      /\ log' = [m \in Node |-> IF log[m] > log[n] THEN log[n] ELSE log[m]]
      /\ M!Electable(n)
  BY DEF M!Promote, M!Star, M!Cut
<1>2. /\ log \in [Node -> Nat] /\ acked \in Nat /\ (sync.leader # None => log[n] >= acked)
      /\ sync \in [leader : Node \cup {None}, voters : SUBSET Node]
      /\ ssn \in [Node -> SUBSET (Node \cup {None})]
  BY <1>1 DEF MultiSyncInv, MultiSyncType, Keyed, HasAll, M!Electable
<1>3. log' \in [Node -> Nat] /\ log'[n] = log[n]
  BY <1>1, <1>2
<1>4. ssn' \in [Node -> SUBSET (Node \cup {None})] /\ ssn'[n] \in {{}, {None}}
  BY <1>1, <1>2
<1>5. /\ sync' \in [leader : Node \cup {None}, voters : SUBSET Node]
      /\ sync'.voters = {} /\ sync'.leader \in {None, n}
      /\ sync'.leader = None => acked = 0
      /\ sync'.leader = n => log'[n] >= acked
  BY <1>1, <1>2, <1>3 DEF MultiSyncInv, Keyed
<1>6. MultiSyncType'
  BY <1>1, <1>3, <1>4, <1>5 DEF MultiSyncInv, MultiSyncType
<1>7. Keyed'
  BY <1>1, <1>5 DEF Keyed, HasAll
<1>8. handler.known = {} /\ handler.ready = {} /\ plan.at = "idle"
  BY <1>1 DEF MultiSyncInv, Led
<1>9. Led' /\ Planned'
  BY <1>1, <1>5, <1>8 DEF Led, Planned
<1>10. Trusted'
  BY <1>1, <1>8 DEF Trusted, Noted
<1> QED BY <1>6, <1>7, <1>9, <1>10 DEF MultiSyncInv

LEMMA MultiSyncInvKept ==
  ASSUME None \notin Node, MaxByHand = 0, MultiSyncInv, [M!MultiSyncNext]_(M!vars)
  PROVE  MultiSyncInv'
<1>1. CASE M!Begin
  BY <1>1, BeginKeeps
<1>2. CASE M!TakeOverKey
  BY <1>2, TakeOverKeyKeeps
<1>3. CASE M!RepairKey
  BY <1>3, RepairKeyKeeps
<1>4. CASE M!NarrowKey
  BY <1>4, NarrowKeyKeeps
<1>5. CASE M!SetNames
  BY <1>5, SetNamesKeeps
<1>6. CASE M!Confirm
  BY <1>6, ConfirmKeeps
<1>7. CASE M!WidenKey
  BY <1>7, WidenKeyKeeps
<1>8. CASE M!Interrupted \/ M!ChangeCount
  BY <1>8, InterruptedKeeps
<1>9. CASE M!Commit \/ \E r \in Node : M!Replicate(r) \/ M!Connect(r) \/ M!Disconnect(r)
  BY <1>9, LogsKeep
<1>10. CASE M!Acknowledge
  BY <1>10, AcknowledgeKeeps
<1>11. CASE M!LosePrimary
  BY <1>11, LosePrimaryKeeps
<1>12. ASSUME NEW n \in Node, M!Promote(n) PROVE MultiSyncInv'
  BY <1>12, PromotedKeeps
<1>13. ASSUME NEW n \in Node, M!PromoteByHand(n) PROVE FALSE
  BY <1>13 DEF M!PromoteByHand, MultiSyncInv, MultiSyncType
<1>14. CASE UNCHANGED M!vars
  BY <1>14 DEF M!vars, MultiSyncInv, MultiSyncType, Keyed, Led, Trusted, Planned, Noted, HasAll
<1> QED
  BY <1>1, <1>2, <1>3, <1>4, <1>5, <1>6, <1>7, <1>8, <1>9, <1>10, <1>11, <1>12, <1>13, <1>14
  DEF M!MultiSyncNext

\* Whoever may take over has every commit that was acknowledged (ha.py:915), for any number
\* of nodes and faults and logs of any length, in either mode, unless somebody promotes a node
\* by hand.
THEOREM MultiSyncHeirs ==
  ASSUME None \notin Node, Node # {}, MaxByHand = 0
  PROVE  M!MultiSyncSpec => []M!HeirsHaveCommits
<1>1. M!Init => MultiSyncInv
  BY MultiSyncInitially
<1>2. MultiSyncInv /\ [M!MultiSyncNext]_(M!vars) => MultiSyncInv'
  BY MultiSyncInvKept
<1>3. MultiSyncInv => M!HeirsHaveCommits
  BY MultiSyncInvSafe
<1> QED BY <1>1, <1>2, <1>3, PTL DEF M!MultiSyncSpec

-----------------------------------------------------------------------------
\* MemberSlots.  Whoever is owed its slot is listed in /status, in what every cycle has
\* loaded of it, and in what the leader still counts.

Period == {"idle", "update", "acquire", "write", "sync"}
Turned == [at : Period, members : SUBSET Node, retained : SUBSET Node]
SlotsType ==
  /\ leader \in Node \cup {None} /\ members \in SUBSET Node /\ retained \in SUBSET Node
  /\ slots \in [Node -> SUBSET Node] /\ \A n \in Node : n \notin slots[n]
  /\ loaded \in SUBSET Node
  /\ age \in [Node -> [Node -> 0 .. SlotTtl]]
  /\ step \in [Node -> Turned]
  /\ ran \in SUBSET Node
  /\ owed \in [Node -> 0 .. SlotTtl]

Listed == \A m \in Node : owed[m] > 0 => m \in retained
Carried == \A n, m \in Node : step[n].at # "idle" /\ owed[m] > 0 => m \in step[n].retained

\* A leader may not have listed itself yet.
Counted == leader # None => \A m \in Node \ {leader} : age[leader][m] >= owed[m]
Writing == \A n, m \in Node : step[n].at = "write" => age[n][m] >= owed[m]

\* The leader has had its cycle, and does nothing more in this period.
Rested ==
  ran # {} =>
    /\ leader # None /\ step[leader].at = "idle"
    /\ \A m \in ran \ {leader} : age[leader][m] = SlotTtl

SlotsInv == SlotsType /\ Listed /\ Carried /\ Counted /\ Writing /\ Rested

LEMMA SlotsInitially ==
  ASSUME None \notin Node, Node # {}, SlotTtl \in Nat \ {0}, D!Init
  PROVE  SlotsInv
<1>1. leader \in Node
  BY DEF D!Init
<1>2. /\ members = Node /\ retained = Node /\ slots = [n \in Node |-> Node \ {n}] /\ loaded = Node
      /\ age = [n \in Node |-> IF n = leader THEN [m \in Node |-> SlotTtl] ELSE [m \in Node |-> 0]]
      /\ step = [n \in Node |-> [at |-> "idle", members |-> {}, retained |-> {}]] /\ ran = {}
      /\ owed = [m \in Node |-> SlotTtl - 1]
  BY DEF D!Init, D!NoneRetained, D!AtEase, D!Owing
<1>3. SlotsType
  BY <1>1, <1>2 DEF SlotsType, Turned, Period
<1>4. Listed /\ Carried /\ Counted /\ Writing /\ Rested
  BY <1>1, <1>2 DEF Listed, Carried, Counted, Writing, Rested
<1> QED BY <1>3, <1>4 DEF SlotsInv

\* The slot of a member that is owed it survives a step.
LEMMA SlotsInvStays ==
  ASSUME SlotsInv, [D!MemberSlotsNext]_(D!vars)
  PROVE  D!SlotStays
<1> SUFFICES ASSUME NEW n \in Node, NEW m \in Node, owed[m] > 0, m \in slots[n]
             PROVE  m \in slots'[n]
  BY DEF D!SlotStays
<1>1. CASE UNCHANGED slots
  BY <1>1
<1>2. ASSUME NEW q \in Node, D!Sync(q) PROVE m \in slots'[n]
  <2>1. slots' = [slots EXCEPT ![q] = (step[q].members \cup step[q].retained) \ {q}] /\ step[q].at = "sync"
    BY <1>2 DEF D!Sync, D!Wanted
  <2>2. m \in step[q].retained
    BY <2>1 DEF SlotsInv, Carried
  <2>3. m # n
    BY DEF SlotsInv, SlotsType
  <2> QED BY <2>1, <2>2, <2>3 DEF SlotsInv, SlotsType
<1> QED
  BY <1>1, <1>2
  DEF D!MemberSlotsNext, D!vars, D!LoseKey, D!Tick, D!Load, D!Acquire, D!Update, D!Write, D!Move,
      D!Restart

\* A step of a node's cycle, what it has loaded kept.
LEMMA SlotsGoes ==
  ASSUME SlotsType, NEW n \in Node, NEW to \in Period, D!Goes(n, to)
  PROVE  /\ step' \in [Node -> Turned]
         /\ step'[n].at = to /\ step'[n].retained = step[n].retained
         /\ \A m \in Node \ {n} : step'[m] = step[m]
<1>1. step' = [step EXCEPT ![n] = [step[n] EXCEPT !.at = to]]
  BY DEF D!Goes
<1>2. step[n] \in Turned
  BY DEF SlotsType
<1>3. /\ [step[n] EXCEPT !.at = to] \in Turned
      /\ [step[n] EXCEPT !.at = to].at = to
      /\ [step[n] EXCEPT !.at = to].retained = step[n].retained
  BY <1>2 DEF Turned
<1> QED BY <1>1, <1>3 DEF SlotsType

LEMMA SlotsEnds ==
  ASSUME SlotsType, NEW n \in Node, step' = [step EXCEPT ![n] = D!AtEase]
  PROVE  /\ step' \in [Node -> Turned] /\ step'[n].at = "idle"
         /\ \A m \in Node \ {n} : step'[m] = step[m]
<1>1. D!AtEase \in Turned /\ D!AtEase.at = "idle"
  BY DEF D!AtEase, Turned, Period
<1> QED BY <1>1 DEF SlotsType

LEMMA SlotsLoadKeeps ==
  ASSUME None \notin Node, SlotsInv, NEW n \in Node, D!Load(n)
  PROVE  SlotsInv'
<1>1. /\ step[n].at = "idle" /\ (leader = n => ran = {})
      /\ UNCHANGED <<leader, members, retained, slots, loaded, age, ran, owed>>
  BY DEF D!Load
<1>2. PICK to \in {"update", "acquire", "sync"} :
        step' = [step EXCEPT ![n] = [members |-> members, retained |-> retained, at |-> to]]
  BY DEF D!Load
<1>3. /\ step' \in [Node -> Turned] /\ step'[n].retained = retained /\ step'[n].at = to
      /\ \A m \in Node \ {n} : step'[m] = step[m]
  <2>1. [members |-> members, retained |-> retained, at |-> to] \in Turned
    BY DEF Turned, Period, SlotsInv, SlotsType
  <2> QED BY <1>2, <2>1 DEF SlotsInv, SlotsType
<1>4. SlotsType'
  BY <1>1, <1>3 DEF SlotsInv, SlotsType
<1>5. Listed' /\ Counted'
  BY <1>1 DEF SlotsInv, Listed, Counted
<1>6. Carried' /\ Writing'
  BY <1>1, <1>3 DEF SlotsInv, Listed, Carried, Writing
<1>7. Rested'
  BY <1>1, <1>3 DEF SlotsInv, SlotsType, Rested
<1> QED BY <1>4, <1>5, <1>6, <1>7 DEF SlotsInv

LEMMA SlotsAcquireKeeps ==
  ASSUME None \notin Node, SlotTtl \in Nat, SlotsInv, NEW n \in Node, D!Acquire(n)
  PROVE  SlotsInv'
<1>1. /\ step[n].at = "acquire"
      /\ UNCHANGED <<members, retained, slots, loaded, ran, owed>>
      /\ \/ leader = None /\ leader' = n /\ age' = [age EXCEPT ![n] = D!Retain(n)]
         \/ leader # None /\ UNCHANGED <<leader, age>>
  BY DEF D!Acquire
<1>2. /\ step' \in [Node -> Turned] /\ step'[n].at = "sync" /\ step'[n].retained = step[n].retained
      /\ \A m \in Node \ {n} : step'[m] = step[m]
  BY SlotsGoes DEF SlotsInv, D!Acquire, Period
<1>3. /\ D!Retain(n) \in [Node -> 0 .. SlotTtl]
      /\ \A m \in Node : m \in step[n].retained => D!Retain(n)[m] = SlotTtl
  BY DEF D!Retain
<1>4. /\ age' \in [Node -> [Node -> 0 .. SlotTtl]] /\ leader' \in Node \cup {None}
      /\ \A m \in Node \ {n} : age'[m] = age[m]
  BY <1>1, <1>3 DEF SlotsInv, SlotsType
<1>5. SlotsType'
  BY <1>1, <1>2, <1>4 DEF SlotsInv, SlotsType
<1>6. Listed'
  BY <1>1 DEF SlotsInv, Listed
<1>7. Carried'
  BY <1>1, <1>2 DEF SlotsInv, Carried
<1>8. Writing'
  BY <1>1, <1>2, <1>4 DEF SlotsInv, Writing
<1>9. Counted'
  <2>1. CASE leader = None
    <3>1. leader' = n /\ age'[n] = D!Retain(n)
      BY <1>1, <2>1 DEF SlotsInv, SlotsType
    <3>2. ASSUME NEW m \in Node PROVE age'[n][m] >= owed'[m]
      <4>1. owed'[m] = owed[m] /\ owed[m] \in 0 .. SlotTtl /\ age'[n][m] \in 0 .. SlotTtl
        BY <1>1, <1>4 DEF SlotsInv, SlotsType
      <4>2. owed[m] > 0 => age'[n][m] = SlotTtl
        BY <1>1, <1>3, <3>1 DEF SlotsInv, Carried
      <4> QED BY <4>1, <4>2
    <3> QED BY <3>1, <3>2 DEF Counted
  <2>2. CASE leader # None
    BY <1>1, <2>2 DEF SlotsInv, Counted
  <2> QED BY <2>1, <2>2
<1>10. Rested'
  BY <1>1, <1>2 DEF SlotsInv, SlotsType, Rested
<1> QED BY <1>5, <1>6, <1>7, <1>8, <1>9, <1>10 DEF SlotsInv

LEMMA SlotsUpdateKeeps ==
  ASSUME None \notin Node, SlotTtl \in Nat, SlotsInv, NEW n \in Node, D!Update(n)
  PROVE  SlotsInv'
<1>1. /\ step[n].at = "update"
      /\ UNCHANGED <<leader, members, retained, slots, loaded, ran, owed>>
  BY DEF D!Update
<1>2. CASE leader = n
  <2>1. age' = [age EXCEPT ![n] = D!Refreshed(n)] /\ D!Goes(n, "write")
    BY <1>2 DEF D!Update
  <2>2. /\ step' \in [Node -> Turned] /\ step'[n].at = "write" /\ step'[n].retained = step[n].retained
        /\ \A m \in Node \ {n} : step'[m] = step[m]
    BY <2>1, SlotsGoes DEF SlotsInv, Period
  <2>3. /\ D!Refreshed(n) \in [Node -> 0 .. SlotTtl]
        /\ D!Refreshed(n)[n] = SlotTtl
        /\ \A m \in Node : D!Refreshed(n)[m] >= age[n][m]
    BY DEF SlotsInv, SlotsType, D!Refreshed, D!Published
  <2>4. /\ age' \in [Node -> [Node -> 0 .. SlotTtl]] /\ age'[n] = D!Refreshed(n)
        /\ \A m \in Node \ {n} : age'[m] = age[m]
    BY <2>1, <2>3 DEF SlotsInv, SlotsType
  <2>5. ASSUME NEW m \in Node PROVE age'[n][m] >= owed[m]
    <3>1. owed[m] \in 0 .. SlotTtl /\ age[n][m] \in 0 .. SlotTtl /\ age'[n][m] \in 0 .. SlotTtl
      BY <2>4 DEF SlotsInv, SlotsType
    <3>2. CASE m = n
      BY <2>3, <2>4, <3>1, <3>2
    <3>3. CASE m # n
      <4>1. age[n][m] >= owed[m]
        BY <1>2, <3>3 DEF SlotsInv, Counted
      <4> QED BY <2>3, <2>4, <3>1, <4>1
    <3> QED BY <3>2, <3>3
  <2>6. SlotsType'
    BY <1>1, <2>2, <2>4 DEF SlotsInv, SlotsType
  <2>7. Listed' /\ Carried'
    BY <1>1, <2>2 DEF SlotsInv, Listed, Carried
  <2>8. Counted' /\ Writing'
    BY <1>1, <1>2, <2>2, <2>4, <2>5 DEF SlotsInv, Counted, Writing
  <2>9. Rested'
    BY <1>1, <1>2 DEF SlotsInv, Rested
  <2> QED BY <2>6, <2>7, <2>8, <2>9 DEF SlotsInv
<1>3. CASE leader # n
  <2>1. /\ step' \in [Node -> Turned] /\ step'[n].at = "idle" /\ age' = age
        /\ \A m \in Node \ {n} : step'[m] = step[m]
    BY <1>3, SlotsEnds DEF SlotsInv, D!Update
  <2>2. SlotsType' /\ Listed' /\ Carried'
    BY <1>1, <2>1 DEF SlotsInv, SlotsType, Listed, Carried
  <2>3. Counted' /\ Writing'
    BY <1>1, <2>1 DEF SlotsInv, Counted, Writing
  <2>4. Rested'
    BY <1>1, <1>3, <2>1 DEF SlotsInv, SlotsType, Rested
  <2> QED BY <2>2, <2>3, <2>4 DEF SlotsInv
<1> QED BY <1>2, <1>3

LEMMA SlotsWriteKeeps ==
  ASSUME None \notin Node, SlotTtl \in Nat, SlotsInv, NEW n \in Node, D!Write(n)
  PROVE  SlotsInv'
<1>1. /\ step[n].at = "write"
      /\ UNCHANGED <<leader, members, slots, loaded, age, ran, owed>>
      /\ retained' = {m \in Node : age[n][m] > 0} \/ retained' = retained
  BY DEF D!Write
<1>2. /\ step' \in [Node -> Turned] /\ step'[n].at = "sync" /\ step'[n].retained = step[n].retained
      /\ \A m \in Node \ {n} : step'[m] = step[m]
  BY SlotsGoes DEF SlotsInv, D!Write, Period
<1>3. SlotsType'
  BY <1>1, <1>2 DEF SlotsInv, SlotsType
<1>4. ASSUME NEW m \in Node, owed[m] > 0 PROVE m \in retained'
  <2>1. age[n][m] \in Nat /\ owed[m] \in Nat /\ age[n][m] >= owed[m]
    BY <1>1 DEF SlotsInv, SlotsType, Writing
  <2>2. m \in retained
    BY <1>4 DEF SlotsInv, Listed
  <2> QED BY <1>1, <1>4, <2>1, <2>2
<1>5. Listed'
  BY <1>1, <1>4 DEF Listed
<1>6. Carried' /\ Writing' /\ Counted'
  BY <1>1, <1>2 DEF SlotsInv, Carried, Writing, Counted
<1>7. Rested'
  BY <1>1, <1>2 DEF SlotsInv, SlotsType, Rested
<1> QED BY <1>3, <1>5, <1>6, <1>7 DEF SlotsInv

LEMMA SlotsSyncKeeps ==
  ASSUME None \notin Node, SlotsInv, NEW n \in Node, D!Sync(n)
  PROVE  SlotsInv'
<1>1. /\ step[n].at = "sync"
      /\ slots' = [slots EXCEPT ![n] = (step[n].members \cup step[n].retained) \ {n}]
      /\ loaded' = loaded \cup {n}
      /\ ran' = IF leader = n THEN {n} \cup {m \in step[n].members : age[n][m] = SlotTtl} ELSE ran
      /\ UNCHANGED <<leader, members, retained, age, owed>>
  BY DEF D!Sync, D!Wanted, D!LoadSlots
<1>2. /\ step' \in [Node -> Turned] /\ step'[n].at = "idle"
      /\ \A m \in Node \ {n} : step'[m] = step[m]
  BY SlotsEnds DEF SlotsInv, D!Sync
<1>3. step[n].members \in SUBSET Node /\ step[n].retained \in SUBSET Node
  BY DEF SlotsInv, SlotsType, Turned
<1>4. SlotsType'
  BY <1>1, <1>2, <1>3 DEF SlotsInv, SlotsType
<1>5. Listed' /\ Carried' /\ Counted' /\ Writing'
  BY <1>1, <1>2 DEF SlotsInv, Listed, Carried, Counted, Writing
<1>6. Rested'
  BY <1>1, <1>2 DEF SlotsInv, SlotsType, Rested
<1> QED BY <1>4, <1>5, <1>6 DEF SlotsInv

LEMMA SlotsTickKeeps ==
  ASSUME None \notin Node, SlotTtl \in Nat \ {0}, SlotsInv, D!Tick
  PROVE  SlotsInv'
<1>1. /\ leader # None => ran # {}
      /\ \A n \in Node : step[n] = D!AtEase
      /\ ran' = {} /\ UNCHANGED <<leader, members, retained, slots, loaded, step>>
  BY DEF D!Tick
<1>2. ASSUME NEW t \in 0 .. SlotTtl PROVE D!Less(t) \in 0 .. SlotTtl /\ D!Less(t) <= t
                                          /\ (t > 0 => D!Less(t) = t - 1) /\ (t = 0 => D!Less(t) = 0)
  BY DEF D!Less
<1>3. ASSUME NEW n \in Node, NEW m \in Node
      PROVE  /\ age'[n][m] \in 0 .. SlotTtl
             /\ n = leader => age'[n][m] = D!Less(age[n][m])
  BY <1>2 DEF D!Tick, D!NoneRetained, SlotsInv, SlotsType
<1>4. age' \in [Node -> [Node -> 0 .. SlotTtl]]
  BY <1>2 DEF D!Tick, D!NoneRetained, SlotsInv, SlotsType
<1>5. ASSUME NEW m \in Node
      PROVE  owed'[m] = (IF m \in ran /\ m \in members /\ m \in retained THEN SlotTtl - 1
                                                                  ELSE D!Less(owed[m]))
  BY DEF D!Tick, D!Owing
<1>6. owed' \in [Node -> 0 .. SlotTtl]
  <2>1. DOMAIN owed' = Node /\ owed' = [m \in Node |-> owed'[m]]
    BY DEF D!Tick
  <2>2. \A m \in Node : owed'[m] \in 0 .. SlotTtl
    BY <1>2, <1>5 DEF SlotsInv, SlotsType
  <2> QED BY <2>1, <2>2
<1>7. SlotsType'
  BY <1>1, <1>4, <1>6 DEF SlotsInv, SlotsType
<1>8. Listed'
  <2> SUFFICES ASSUME NEW m \in Node, owed'[m] > 0 PROVE m \in retained
    BY <1>1 DEF Listed
  <2>1. CASE m \in ran /\ m \in members /\ m \in retained
    BY <2>1
  <2>2. CASE ~(m \in ran /\ m \in members /\ m \in retained)
    <3>1. owed'[m] = D!Less(owed[m]) /\ owed[m] \in 0 .. SlotTtl
      BY <1>5, <2>2 DEF SlotsInv, SlotsType
    <3>2. owed[m] > 0
      BY <1>2, <3>1
    <3> QED BY <3>2 DEF SlotsInv, Listed
  <2> QED BY <2>1, <2>2
<1>9. \A n \in Node : step'[n].at = "idle"
  BY <1>1 DEF D!AtEase
<1>10. Carried' /\ Writing' /\ Rested'
  BY <1>1, <1>9 DEF Carried, Writing, Rested
<1>11. Counted'
  <2> SUFFICES ASSUME leader # None, NEW m \in Node \ {leader} PROVE age'[leader][m] >= owed'[m]
    BY <1>1 DEF Counted
  <2>1. /\ leader \in Node /\ age[leader][m] \in 0 .. SlotTtl /\ owed[m] \in 0 .. SlotTtl
        /\ age[leader][m] >= owed[m]
    BY DEF SlotsInv, SlotsType, Counted
  <2>2. age'[leader][m] = D!Less(age[leader][m])
    BY <1>3, <2>1
  <2>3. CASE m \in ran /\ m \in members /\ m \in retained
    <3>1. age[leader][m] = SlotTtl
      BY <2>3 DEF SlotsInv, Rested
    <3> QED BY <1>2, <1>5, <2>1, <2>2, <2>3, <3>1
  <2>4. CASE ~(m \in ran /\ m \in members /\ m \in retained)
    <3>1. owed'[m] = D!Less(owed[m])
      BY <1>5, <2>4
    <3>2. D!Less(age[leader][m]) >= D!Less(owed[m])
      BY <2>1 DEF D!Less
    <3> QED BY <2>2, <3>1, <3>2
  <2> QED BY <2>3, <2>4
<1> QED BY <1>7, <1>8, <1>10, <1>11 DEF SlotsInv

LEMMA SlotsInvKept ==
  ASSUME None \notin Node, SlotTtl \in Nat \ {0}, ~Forgetful, SlotsInv, [D!MemberSlotsNext]_(D!vars)
  PROVE  SlotsInv'
<1>1. CASE UNCHANGED D!vars
  BY <1>1 DEF D!vars, SlotsInv, SlotsType, Listed, Carried, Counted, Writing, Rested
<1>2. CASE D!LoseKey
  BY <1>2 DEF D!LoseKey, SlotsInv, SlotsType, Listed, Carried, Counted, Writing, Rested
<1>3. CASE D!Tick
  BY <1>3, SlotsTickKeeps
<1>4. ASSUME NEW n \in Node, D!Load(n) PROVE SlotsInv'
  BY <1>4, SlotsLoadKeeps
<1>5. ASSUME NEW n \in Node, D!Acquire(n) PROVE SlotsInv'
  BY <1>5, SlotsAcquireKeeps
<1>6. ASSUME NEW n \in Node, D!Update(n) PROVE SlotsInv'
  BY <1>6, SlotsUpdateKeeps
<1>7. ASSUME NEW n \in Node, D!Write(n) PROVE SlotsInv'
  BY <1>7, SlotsWriteKeeps
<1>8. ASSUME NEW n \in Node, D!Sync(n) PROVE SlotsInv'
  BY <1>8, SlotsSyncKeeps
<1>9. ASSUME NEW n \in Node, D!Move(n) PROVE SlotsInv'
  <2>1. members' \in SUBSET Node
    BY <1>9 DEF D!Move, SlotsInv, SlotsType
  <2> QED
    BY <1>9, <2>1 DEF D!Move, SlotsInv, SlotsType, Listed, Carried, Counted, Writing, Rested
<1>10. ASSUME NEW n \in Node PROVE ~D!Restart(n)
  BY DEF D!Restart
<1> QED
  BY <1>1, <1>2, <1>3, <1>4, <1>5, <1>6, <1>7, <1>8, <1>9, <1>10 DEF D!MemberSlotsNext

\* MemberSlots' SlotKept: as long as Patroni is not started again on a running node, no node
\* drops the slot of a member before member_slots_ttl less a cycle has passed since it was last
\* there, not even across any number of changes of the leader.
THEOREM MemberSlotsKept ==
  ASSUME None \notin Node, Node # {}, SlotTtl \in Nat \ {0}, ~Forgetful
  PROVE  D!MemberSlotsSpec => D!SlotKept
<1>1. D!Init => SlotsInv
  BY SlotsInitially
<1>2. SlotsInv /\ [D!MemberSlotsNext]_(D!vars) => SlotsInv'
  BY SlotsInvKept
<1>3. SlotsInv /\ [D!MemberSlotsNext]_(D!vars) => [D!SlotStays]_(D!vars)
  BY SlotsInvStays
<1> QED BY <1>1, <1>2, <1>3, PTL DEF D!MemberSlotsSpec, D!SlotKept

-----------------------------------------------------------------------------
\* EtcdClient.  How long a call can still last, wherever it is.

Where == {"idle", "try", "rest", "answered", "failed"}
Call == [at : Where, retry : BOOLEAN, list : SUBSET Server, count : Nat, left : SUBSET Server,
         share : Nat, failed : BOOLEAN, elapsed : Nat]
CallType == call \in Call /\ cache \in SUBSET Server /\ members \in SUBSET Server

\* A pass is paid for in advance: so much for each server that is left.
Timely ==
  /\ call.at = "idle" => call.elapsed < RetryTimeout
  /\ call.at = "try" => call.elapsed + Cardinality(call.left) * call.share < 3 * RetryTimeout
  /\ call.elapsed < 4 * RetryTimeout

CallInv == CallType /\ Timely

LEMMA ClientCardinality == \A Q : T!Cardinality(Q) = Cardinality(Q)
BY DEF T!Cardinality, Cardinality

LEMMA Servers ==
  ASSUME IsFiniteSet(Server), NEW Q \in SUBSET Server
  PROVE  /\ IsFiniteSet(Q) /\ Cardinality(Q) \in Nat /\ Cardinality(Q) <= Cardinality(Server)
         /\ \A q \in Q : Cardinality(Q \ {q}) = Cardinality(Q) - 1
         /\ \A R \in SUBSET Q : Cardinality(R) <= Cardinality(Q)
BY FS_Subset, FS_CardinalityType, FS_RemoveElement

\* Asking k of n servers, each for its share, takes no longer than there is time for n.
LEMMA SharesFit ==
  ASSUME NEW n \in Nat, NEW k \in Nat, NEW time \in Nat, k <= n, n <= time
  PROVE  T!Share(n, time) \in Nat /\ k * T!Share(n, time) <= time
<1>1. CASE n = 0
  BY <1>1 DEF T!Share, T!Fit
<1>2. CASE n # 0
  <2>1. T!Share(n, time) = time \div n
    BY <1>2 DEF T!Share, T!Fit
  <2>2. time \div n \in Nat /\ n * (time \div n) <= time
    BY <1>2
  <2> DEFINE q == time \div n
  <2>3. q \in Nat /\ n * q <= time
    BY <2>2
  <2> HIDE DEF q
  <2>4. k * q <= n * q /\ k * q \in Nat /\ n * q \in Nat
    BY <2>3, SMTT(30), n * q = k * q + (n - k) * q
  <2> QED BY <2>1, <2>3, <2>4 DEF q
<1> QED BY <1>1, <1>2

LEMMA EndsIs ==
  ASSUME CallType, NEW how \in Where
  PROVE  T!Ends(how) \in Call /\ T!Ends(how).at = how /\ T!Ends(how).elapsed = call.elapsed
<1>1. T!Idle(~call.retry) \in Call
  BY DEF T!Idle, Call, Where
<1>2. call.elapsed \in Nat
  BY DEF CallType, Call
<1> QED BY <1>1, <1>2 DEF T!Ends, Call

LEMMA PassIs ==
  ASSUME CallType, NEW list \in SUBSET Server, NEW n \in Nat, NEW time \in Nat, NEW cost \in Nat,
         T!Share(n, time) \in Nat
  PROVE  /\ T!Pass(list, n, time, cost) \in Call
         /\ T!Pass(list, n, time, cost).at = "try"
         /\ T!Pass(list, n, time, cost).left = list
         /\ T!Pass(list, n, time, cost).share = T!Share(n, time)
         /\ T!Pass(list, n, time, cost).elapsed = call.elapsed + cost
<1>1. call \in Call
  BY DEF CallType
<1>2. call.elapsed + cost \in Nat
  BY <1>1 DEF Call
<1> QED BY <1>1, <1>2 DEF T!Pass, Call, Where

LEMMA EndsKeeps ==
  ASSUME RetryTimeout \in Nat \ {0}, CallInv, NEW how \in {"answered", "failed"},
         call' = T!Ends(how), cache' \in SUBSET Server, members' = members
  PROVE  CallInv'
<1>1. call' \in Call /\ call'.at = how /\ call'.elapsed = call.elapsed
  BY EndsIs DEF CallInv, Where
<1> QED BY <1>1 DEF CallInv, CallType, Timely

LEMMA ListsKept ==
  ASSUME CallInv, NEW Q, T!Refreshed(Q) \/ UNCHANGED cache
  PROVE  cache' \in SUBSET Server
BY DEF T!Refreshed, T!NewList, CallInv, CallType

LEMMA CallInitially ==
  ASSUME RetryTimeout \in Nat \ {0}, T!Init
  PROVE  CallInv
<1>1. /\ call = [at |-> "idle", retry |-> TRUE, list |-> {}, count |-> 0, left |-> {},
                 share |-> 0, failed |-> FALSE, elapsed |-> 0]
      /\ members \in SUBSET Server /\ cache = members
  BY DEF T!Init, T!Idle
<1> QED BY <1>1 DEF CallInv, CallType, Timely, Call, Where

LEMMA BeginInTime ==
  ASSUME IsFiniteSet(Server), RetryTimeout \in Nat \ {0}, Cardinality(Server) <= RetryTimeout,
         CallInv, T!Begin
  PROVE  CallInv'
<1>1. /\ call.at = "idle" /\ members' = members /\ cache' \in SUBSET Server
      /\ \/ call' = T!Ends("failed")
         \/ \E cost \in {0, RetryTimeout} : T!FirstPass(cost)
  <2>1. cache' \in SUBSET Server
    BY ListsKept DEF T!Begin
  <2> QED BY <2>1 DEF T!Begin, T!serverVars, T!Cost
<1>2. CASE call' = T!Ends("failed")
  BY <1>1, <1>2, EndsKeeps
<1>3. ASSUME NEW cost \in {0, RetryTimeout}, T!FirstPass(cost) PROVE CallInv'
  <2> DEFINE n == Cardinality(cache')
  <2>1. n \in Nat /\ n <= RetryTimeout
    BY <1>1, Servers, FS_CardinalityType
  <2>2. T!Share(n, RetryTimeout) \in Nat /\ n * T!Share(n, RetryTimeout) <= RetryTimeout
    BY <2>1, SharesFit
  <2>3. call' = T!Pass(cache', n, RetryTimeout, cost)
    BY <1>3, ClientCardinality DEF T!FirstPass
  <2>4. /\ call' \in Call /\ call'.at = "try" /\ call'.left = cache'
        /\ call'.share = T!Share(n, RetryTimeout) /\ call'.elapsed = call.elapsed + cost
    BY <1>1, <2>1, <2>2, <2>3, PassIs DEF CallInv
  <2>5. call.elapsed \in Nat /\ call.elapsed < RetryTimeout
    BY <1>1 DEF CallInv, CallType, Call, Timely
  <2> DEFINE m == n * T!Share(n, RetryTimeout)
  <2>6. m \in Nat /\ m <= RetryTimeout /\ Cardinality(call'.left) * call'.share = m
    BY <2>1, <2>2, <2>4
  <2> HIDE DEF m
  <2>7. call'.elapsed + m < 3 * RetryTimeout /\ call'.elapsed < 4 * RetryTimeout
    BY <1>3, <2>4, <2>5, <2>6
  <2>8. CallType'
    BY <1>1, <2>4 DEF CallInv, CallType
  <2> QED BY <2>4, <2>6, <2>7, <2>8 DEF CallInv, Timely
<1> QED BY <1>1, <1>2, <1>3

\* A server is asked for its share at the most.
LEMMA OneShare ==
  ASSUME IsFiniteSet(Server), RetryTimeout \in Nat \ {0}, CallInv, call.at = "try",
         NEW s \in call.left, NEW cost \in T!Cost(call.share)
  PROVE  /\ cost \in Nat
         /\ call.elapsed + cost + Cardinality(call.left \ {s}) * call.share < 3 * RetryTimeout
         /\ call.elapsed + cost < 3 * RetryTimeout
<1> DEFINE n == Cardinality(call.left)
           r == n * call.share
           q == (n - 1) * call.share
<1>1. /\ call.elapsed \in Nat /\ call.share \in Nat /\ call.left \in SUBSET Server
      /\ call.elapsed + r < 3 * RetryTimeout
  BY DEF CallInv, CallType, Call, Timely
<1>2. n \in Nat /\ Cardinality(call.left \ {s}) = n - 1 /\ n - 1 \in Nat
  BY <1>1, Servers, FS_CardinalityType
<1>3. q \in Nat /\ r = q + call.share
  BY <1>1, <1>2
<1>4. cost \in Nat /\ cost <= call.share
  BY <1>1 DEF T!Cost
<1> HIDE DEF n, q, r
<1>5. Cardinality(call.left \ {s}) * call.share = q
  BY <1>2 DEF q
<1> QED BY <1>1, <1>3, <1>4, <1>5

LEMMA AnsweredInTime ==
  ASSUME IsFiniteSet(Server), RetryTimeout \in Nat \ {0}, CallInv, NEW s \in Server, T!Answered(s)
  PROVE  CallInv'
<1>1. /\ call.at = "try" /\ s \in call.left /\ members' = members
      /\ cache' = cache \/ cache' = members
  BY DEF T!Answered, T!Turn, T!serverVars, T!NewList
<1>2. PICK cost \in T!Cost(call.share), c \in {0, RetryTimeout} :
        call' = [T!Ends("answered") EXCEPT !.elapsed = call.elapsed + cost + c]
  <2>1. PICK cost \in T!Cost(call.share) :
          \/ call' = [T!Ends("answered") EXCEPT !.elapsed = call.elapsed + cost]
          \/ \E c \in {0, RetryTimeout} :
               call' = [T!Ends("answered") EXCEPT !.elapsed = call.elapsed + cost + c]
    BY DEF T!Answered, T!Cost
  <2>2. CASE call' = [T!Ends("answered") EXCEPT !.elapsed = call.elapsed + cost]
    <3>1. cost \in Nat /\ call.elapsed \in Nat
      BY <1>1, OneShare DEF CallInv, CallType, Call
    <3>2. call.elapsed + cost = call.elapsed + cost + 0
      BY <3>1
    <3> QED BY <2>2, <3>2
  <2> QED BY <2>1, <2>2
<1>3. cost \in Nat /\ call.elapsed \in Nat /\ call.elapsed + cost < 3 * RetryTimeout
  BY <1>1, OneShare DEF CallInv, CallType, Call
<1>4. T!Ends("answered") \in Call /\ T!Ends("answered").at = "answered"
  BY EndsIs DEF CallInv, Where
<1>5. call' \in Call /\ call'.at = "answered" /\ call'.elapsed = call.elapsed + cost + c
  BY <1>2, <1>3, <1>4 DEF Call
<1>6. call'.elapsed < 4 * RetryTimeout
  BY <1>3, <1>5
<1> QED BY <1>1, <1>5, <1>6 DEF CallInv, CallType, Timely

LEMMA FailsInTime ==
  ASSUME IsFiniteSet(Server), RetryTimeout \in Nat \ {0}, CallInv, NEW s \in Server, T!Fails(s)
  PROVE  CallInv'
<1>1. call.at = "try" /\ s \in call.left /\ members' = members /\ cache' = cache
  BY DEF T!Fails, T!Turn, T!serverVars
<1>2. CASE call' = T!Ends("failed")
  BY <1>1, <1>2, EndsKeeps DEF CallInv, CallType
<1>3. ASSUME NEW cost \in T!Cost(call.share),
             call' = [T!Spent(cost) EXCEPT !.left = @ \ {s}, !.failed = TRUE]
      PROVE  CallInv'
  <2>1. call \in Call
    BY DEF CallInv, CallType
  <2>2. call' = [at |-> call.at, retry |-> call.retry, list |-> call.list, count |-> call.count,
                 left |-> call.left \ {s}, share |-> call.share, failed |-> TRUE,
                 elapsed |-> call.elapsed + cost]
    BY <1>3, <2>1 DEF T!Spent, Call
  <2>3. /\ cost \in Nat /\ call.elapsed + cost < 3 * RetryTimeout
        /\ call.elapsed + cost + Cardinality(call.left \ {s}) * call.share < 3 * RetryTimeout
    BY <1>1, OneShare
  <2>4. /\ call' \in Call /\ call'.at = "try" /\ call'.left = call.left \ {s}
        /\ call'.share = call.share /\ call'.elapsed = call.elapsed + cost
    <3>1. call.elapsed + cost \in Nat
      BY <2>1, <2>3 DEF Call
    <3> QED BY <1>1, <2>1, <2>2, <3>1 DEF Call
  <2>5. call'.elapsed < 4 * RetryTimeout
    BY <2>1, <2>3, <2>4 DEF Call
  <2> QED BY <1>1, <2>3, <2>4, <2>5 DEF CallInv, CallType, Timely
<1> QED BY <1>2, <1>3 DEF T!Fails

LEMMA AgainInTime ==
  ASSUME RetryTimeout \in Nat \ {0}, CallInv, NEW s \in Server, T!Again(s)
  PROVE  CallInv'
<1>1. members' = members /\ cache' = cache
  BY DEF T!Again, T!serverVars
<1>2. CASE call' = T!Ends("failed")
  BY <1>1, <1>2, EndsKeeps DEF CallInv, CallType
<1>3. CASE /\ T!Remaining(call.elapsed) > 0
           /\ call' = [T!Idle(TRUE) EXCEPT !.elapsed = call.elapsed + 1]
  <2>1. call.elapsed \in Nat
    BY DEF CallInv, CallType, Call
  <2>2. call.elapsed + 1 < RetryTimeout
    BY <1>3, <2>1 DEF T!Remaining
  <2>3. call' = [at |-> "idle", retry |-> TRUE, list |-> {}, count |-> 0, left |-> {},
                 share |-> 0, failed |-> FALSE, elapsed |-> call.elapsed + 1]
    BY <1>3 DEF T!Idle
  <2>4. call' \in Call /\ call'.at = "idle" /\ call'.elapsed = call.elapsed + 1
    BY <2>1, <2>3 DEF Call, Where
  <2>5. call'.elapsed < RetryTimeout /\ call'.elapsed < 4 * RetryTimeout
    BY <2>1, <2>2, <2>4
  <2> QED BY <1>1, <2>4, <2>5 DEF CallInv, CallType, Timely
<1> QED BY <1>2, <1>3 DEF T!Again

LEMMA ExhaustedInTime ==
  ASSUME RetryTimeout \in Nat \ {0}, IsFiniteSet(Server), CallInv, T!Exhausted
  PROVE  CallInv'
<1>1. call.at = "try" /\ call.left = {} /\ members' = members /\ cache' \in SUBSET Server
  BY ListsKept DEF T!Exhausted, T!serverVars
<1>2. call \in Call /\ Cardinality(cache') \in Nat
  BY <1>1, Servers DEF CallInv, CallType
<1>3. PICK cost \in {0, RetryTimeout}, list \in {call.list, cache'},
           n \in {call.count, Cardinality(cache')} :
        call' = [T!Spent(cost) EXCEPT !.at = "rest", !.list = list, !.count = n]
  <2>1. ASSUME NEW cost PROVE T!Spent(cost).list = call.list /\ T!Spent(cost).count = call.count
    BY <1>2 DEF T!Spent, Call
  <2>2. PICK cost \in {0, RetryTimeout} :
          call' = [T!Spent(cost) EXCEPT !.at = "rest",
                     !.list = IF T!Reloaded THEN cache' ELSE T!Spent(cost).list,
                     !.count = IF T!Reloaded THEN Cardinality(cache') ELSE T!Spent(cost).count]
    BY ClientCardinality DEF T!Exhausted, T!Cost
  <2> QED BY <2>1, <2>2
<1>4. call' = [at |-> "rest", retry |-> call.retry, list |-> list, count |-> n,
               left |-> call.left, share |-> call.share, failed |-> call.failed,
               elapsed |-> call.elapsed + cost]
  BY <1>3, <1>2 DEF T!Spent, Call
<1>5. call.elapsed \in Nat /\ call.elapsed < 3 * RetryTimeout
  <2>1. call.elapsed \in Nat /\ call.share \in Nat /\ Cardinality(call.left) = 0
    BY <1>1, <1>2, FS_EmptySet DEF Call
  <2>2. call.elapsed + 0 * call.share < 3 * RetryTimeout
    BY <1>1, <2>1 DEF CallInv, Timely
  <2> QED BY <2>1, <2>2
<1>6. call' \in Call /\ call'.at = "rest" /\ call'.elapsed = call.elapsed + cost
  BY <1>1, <1>2, <1>4, <1>5 DEF Call, Where
<1>7. call'.elapsed < 4 * RetryTimeout
  BY <1>5, <1>6
<1> QED BY <1>1, <1>6, <1>7 DEF CallInv, CallType, Timely

LEMMA RestInTime ==
  ASSUME RetryTimeout \in Nat \ {0}, IsFiniteSet(Server), CallInv, T!Rest
  PROVE  CallInv'
<1> DEFINE time == T!Remaining(call.elapsed)
           n == T!Fit(call.count, time)
<1>1. call.elapsed \in Nat /\ call.count \in Nat /\ call.list \in SUBSET Server
  BY DEF CallInv, CallType, Call
<1>2. /\ time \in Nat /\ n \in Nat /\ n <= time
      /\ time > 0 => call.elapsed + 1 + time = RetryTimeout
  BY <1>1 DEF T!Remaining, T!Fit
<1>3. members' = members /\ cache' = cache
  BY DEF T!Rest, T!serverVars
<1>4. CASE call' = T!Ends("failed")
  BY <1>3, <1>4, EndsKeeps DEF CallInv, CallType
<1>5. ASSUME n > 0, NEW l \in T!First(call.list, n),
             call' = [T!Pass(l, n, time, 1) EXCEPT !.count = call.count]
      PROVE  CallInv'
  <2>1. l \in SUBSET Server /\ Cardinality(l) \in Nat /\ Cardinality(l) <= n
    <3>1. l \in SUBSET call.list /\ Cardinality(l) = T!Least(n, Cardinality(call.list))
      BY ClientCardinality DEF T!First
    <3>2. Cardinality(call.list) \in Nat
      BY <1>1, Servers
    <3> QED BY <1>1, <1>2, <3>1, <3>2 DEF T!Least
  <2> HIDE DEF time, n
  <2>2. T!Share(n, time) \in Nat /\ Cardinality(l) * T!Share(n, time) <= time
    BY <1>2, <2>1, SharesFit
  <2>3. /\ T!Pass(l, n, time, 1) \in Call /\ T!Pass(l, n, time, 1).at = "try"
        /\ T!Pass(l, n, time, 1).left = l /\ T!Pass(l, n, time, 1).share = T!Share(n, time)
        /\ T!Pass(l, n, time, 1).elapsed = call.elapsed + 1
    BY <1>2, <2>1, <2>2, PassIs DEF CallInv
  <2>4. /\ call' \in Call /\ call'.at = "try" /\ call'.left = l
        /\ call'.share = T!Share(n, time) /\ call'.elapsed = call.elapsed + 1
    BY <1>1, <1>5, <2>3 DEF Call
  <2> DEFINE m == Cardinality(l) * T!Share(n, time)
  <2>5. m \in Nat /\ m <= time /\ Cardinality(call'.left) * call'.share = m
    BY <2>1, <2>2, <2>4
  <2> HIDE DEF m
  <2>6. call'.elapsed + m < 3 * RetryTimeout /\ call'.elapsed < 4 * RetryTimeout
    BY <1>1, <1>2, <1>5, <2>4, <2>5
  <2> QED BY <1>3, <2>4, <2>5, <2>6 DEF CallInv, CallType, Timely
<1> QED BY <1>4, <1>5 DEF T!Rest

LEMMA CallInvKept ==
  ASSUME IsFiniteSet(Server), RetryTimeout \in Nat \ {0}, Cardinality(Server) <= RetryTimeout,
         CallInv, [T!EtcdClientNext]_(T!vars)
  PROVE  CallInv'
<1>1. CASE UNCHANGED <<call, cache, members>>
  BY <1>1 DEF CallInv, CallType, Timely
<1>2. CASE T!Change
  <2>1. UNCHANGED <<call, cache>> /\ members' \in SUBSET Server
    BY <1>2
    DEF T!Change, T!clientVars, T!Elect, T!Replace, T!Stop, T!Isolate, CallInv, CallType
  <2> QED BY <2>1 DEF CallInv, CallType, Timely
<1>3. CASE T!Return
  <2>1. call' = [at |-> "idle", retry |-> call.retry, list |-> {}, count |-> 0, left |-> {},
                 share |-> 0, failed |-> FALSE, elapsed |-> 0] /\ UNCHANGED <<cache, members>>
    BY <1>3 DEF T!Return, T!Idle, T!serverVars
  <2>2. call' \in Call /\ call'.at = "idle" /\ call'.elapsed = 0
    BY <2>1 DEF Call, Where, CallInv, CallType
  <2> QED BY <2>1, <2>2 DEF CallInv, CallType, Timely
<1>4. ASSUME NEW s \in Server, T!Answered(s) \/ T!Fails(s) \/ T!Again(s) PROVE CallInv'
  BY <1>4, AnsweredInTime, FailsInTime, AgainInTime
<1> QED
  BY <1>1, <1>2, <1>3, <1>4, BeginInTime, ExhaustedInTime, RestInTime
  DEF T!EtcdClientNext, T!Client, T!Elected, T!vars, T!serverVars, T!clientVars

\* EtcdClient's InTime: whatever the servers do, a call that is repeated till retry_timeout
\* lasts less than four times as long, as long as there is a unit of time for each server.
THEOREM CallsEndInTime ==
  ASSUME IsFiniteSet(Server), RetryTimeout \in Nat \ {0}, Cardinality(Server) <= RetryTimeout
  PROVE  T!EtcdClientSpec => []T!InTime
<1>1. T!Init => CallInv
  BY CallInitially
<1>2. CallInv /\ [T!EtcdClientNext]_(T!vars) => CallInv'
  BY CallInvKept
<1>3. CallInv => T!InTime
  BY DEF CallInv, Timely, T!InTime
<1> QED BY <1>1, <1>2, <1>3, PTL DEF T!EtcdClientSpec

-----------------------------------------------------------------------------
\* Switchover.  Of the nodes that run as primary or promote themselves none lacks nothing but
\* the one that /sync names as leader, and the one with the leader key lacks nothing.

SwitchoverAssumption == None \notin Node

\* Where a node may be in its cycle.
InPlace(n) ==
  /\ {"key", "paused", "outdated"} \subseteq DOMAIN view[n]
  /\ step[n] = "promoting" => pg[n] = "replica" /\ view[n] = W!NoView
  /\ step[n] \notin {"idle", "promoting"} => view[n] # W!NoView
  /\ pg[n] = "down" => step[n] = "idle"
  /\ view[n] # W!NoView /\ step[n] # "demoting" => pg[n] \in {"primary", "replica"}
  /\ step[n] = "demoting" => pg[n] = "stopping"
  /\ step[n] \in {"asleep", "slept"} => view[n].key = n
  /\ pg[n] = "replica" /\ step[n] \notin {"idle", "promoting"} => key = n

Leads(n) == pg[n] = "primary" \/ step[n] = "promoting"

\* In synchronous mode: who leads lacks nothing, nor does a primary that may still write
\* /sync in its cycle.
Entitled(n) ==
  /\ ~view[n].paused /\ step[n] # "dropped"
  /\ Leads(n) /\ key = n => n \notin lagging
  /\ pg[n] = "primary" /\ ~view[n].outdated /\ (view[n].key = n \/ step[n] = "won")
     => n \notin lagging
  /\ Leads(n) /\ n \notin lagging => sync.leader = n

NodesInPlace ==
  /\ key \in Node \cup {None}
  /\ DOMAIN pg = Node /\ DOMAIN view = Node /\ DOMAIN step = Node
  /\ \A n \in Node : InPlace(n)
HeirsEntitled ==
  W!SyncActive => ~paused /\ W!HeirsAreCurrent /\ \A n \in Node : Entitled(n)
SwitchoverInv == NodesInPlace /\ HeirsEntitled

LEMMA SwitchoverInitially ==
  ASSUME SwitchoverAssumption, W!Init PROVE SwitchoverInv
<1> USE DEF SwitchoverAssumption, W!Init, W!NoView, W!NoSync
<1>1. NodesInPlace
  BY DEF NodesInPlace, InPlace
<1>2. ASSUME W!SyncActive
      PROVE  ~paused /\ W!HeirsAreCurrent /\ \A n \in Node : Entitled(n)
  <2>1. sync.leader = key /\ ~paused /\ lagging \in {{}, Node \ ({key} \cup sync.standbys)}
    BY <1>2 DEF W!SyncActive
  <2>2. W!HeirsAreCurrent
    BY <2>1 DEF W!HeirsAreCurrent, W!Listed
  <2>3. ASSUME NEW n \in Node PROVE Entitled(n)
    BY <2>1 DEF Entitled, Leads
  <2> QED BY <2>1, <2>2, <2>3
<1> QED BY <1>1, <1>2 DEF SwitchoverInv, HeirsEntitled

\* /sync is left alone, and nobody becomes a primary or laggard.
LEMMA LeftEntitled ==
  ASSUME HeirsEntitled, sync' = sync, paused' = paused \/ ~W!SyncActive, lagging' = lagging,
         W!SyncActive => \A n \in Node :
           /\ ~view'[n].paused /\ step'[n] # "dropped"
           /\ Leads(n)' => Leads(n)
           /\ Leads(n)' /\ key' = n => key = n \/ n \notin lagging
           /\ pg'[n] = "primary" /\ ~view'[n].outdated /\ (view'[n].key = n \/ step'[n] = "won")
              => \/ pg[n] = "primary" /\ ~view[n].outdated /\ (view[n].key = n \/ step[n] = "won")
                 \/ Leads(n) /\ key = n
                 \/ n \notin lagging
  PROVE  HeirsEntitled'
<1> SUFFICES ASSUME W!SyncActive
             PROVE  ~paused' /\ W!HeirsAreCurrent' /\ \A n \in Node : Entitled(n)'
  BY DEF HeirsEntitled, W!SyncActive
<1>1. ~paused' /\ W!HeirsAreCurrent'
  BY DEF HeirsEntitled, W!HeirsAreCurrent, W!SyncActive, W!Listed
<1>2. ASSUME NEW n \in Node PROVE Entitled(n)'
  <2>1. Entitled(n)
    BY DEF HeirsEntitled
  <2>2. ~view'[n].paused /\ step'[n] # "dropped"
    OBVIOUS
  <2>3. Leads(n)' => Leads(n)
    OBVIOUS
  <2>4. Leads(n)' /\ n \notin lagging' => sync'.leader = n
    BY <2>1, <2>3 DEF Entitled
  <2>5. Leads(n)' /\ key' = n => n \notin lagging'
    BY <2>1, <2>3 DEF Entitled
  <2>6. ASSUME pg'[n] = "primary", ~view'[n].outdated, view'[n].key = n \/ step'[n] = "won"
        PROVE  n \notin lagging'
    BY <2>1, <2>6 DEF Entitled
  <2> QED BY <2>2, <2>4, <2>5, <2>6 DEF Entitled
<1> QED BY <1>1, <1>2

LEMMA HealthyPrimary ==
  ASSUME NEW n \in Node, pg[n] = "primary", ~view[n].paused, W!IsHealthiestNode(n)
  PROVE  n \notin lagging
BY DEF W!IsHealthiestNode

\* A node writes /sync with itself as leader.
LEMMA WrittenEntitled ==
  ASSUME SwitchoverAssumption, SwitchoverInv, W!SyncActive, NEW n \in Node, NEW standbys,
         W!WriteSync(n, [leader |-> n, standbys |-> standbys]),
         step'[n] \in {"idle", "promoting"}, \A m \in Node \ {n} : step'[m] = step[m],
         pg' = pg, key' = key, paused' = paused,
         n \notin lagging', standbys \cap lagging' = {},
         \/ lagging' = Node \ {n} /\ key = n
         \/ lagging' = lagging /\ pg[n] = "primary" /\ step'[n] = "idle"
  PROVE  HeirsEntitled'
<1>1. ~paused' /\ W!HeirsAreCurrent'
  BY DEF SwitchoverInv, HeirsEntitled, W!HeirsAreCurrent, W!Listed, W!WriteSync
<1>2. /\ sync'.leader = n
      /\ view'[n] = W!NoView
      /\ \A m \in Node \ {n} : \/ view'[m] = W!NoView /\ view[m] = W!NoView
                               \/ view'[m] = [view[m] EXCEPT !.outdated = TRUE]
  BY DEF W!WriteSync
<1>3. ASSUME NEW m \in Node PROVE Entitled(m)'
  <2>1. Entitled(m) /\ InPlace(m) /\ Entitled(n)
    BY DEF SwitchoverInv, HeirsEntitled, NodesInPlace
  <2>2. CASE m = n
    BY <1>2, <2>1, <2>2 DEF Entitled, Leads, W!NoView, W!NoSync
  <2>3. CASE m # n
    <3>1. step'[m] = step[m]
      BY <2>3
    <3>2. /\ view'[m].key = view[m].key /\ view'[m].paused = view[m].paused
          /\ view'[m].outdated \/ (view[m] = W!NoView /\ view'[m].key # m /\ step[m] # "won")
      <4>1. CASE view'[m] = W!NoView /\ view[m] = W!NoView
        <5>1. step[m] # "won"
          BY <2>1, <4>1 DEF InPlace
        <5>2. view'[m].key = None /\ None # m
          BY <4>1 DEF W!NoView, SwitchoverAssumption
        <5> QED BY <4>1, <5>1, <5>2
      <4>2. CASE view'[m] = [view[m] EXCEPT !.outdated = TRUE]
        BY <2>1, <4>2 DEF InPlace
      <4> QED BY <1>2, <2>3, <4>1, <4>2
    <3>3. Leads(m)' <=> Leads(m)
      BY <3>1 DEF Leads
    <3>4. Leads(m) => m \in lagging' /\ key # m
      BY <2>1, <2>3 DEF Entitled, Leads
    <3> QED BY <2>1, <3>1, <3>2, <3>3, <3>4 DEF Entitled, Leads
  <2> QED BY <2>2, <2>3
<1> QED BY <1>1, <1>3 DEF HeirsEntitled

\* A step of n moves no other node, though /sync may be written.
Alone(n) ==
  /\ key' \in {key, n, None}
  /\ DOMAIN pg' = Node /\ DOMAIN step' = Node /\ DOMAIN view' = Node
  /\ \A m \in Node \ {n} :
       /\ step'[m] = step[m] /\ pg'[m] = pg[m]
       /\ \/ view'[m] = view[m]
          \/ view'[m] = [view[m] EXCEPT !.outdated = TRUE] /\ view[m] # W!NoView
       /\ key = m => key' = m \/ pg[m] # "replica" \/ step[m] \in {"idle", "promoting"}

LEMMA OthersInPlace ==
  ASSUME NodesInPlace, NEW n \in Node, Alone(n), InPlace(n)'
  PROVE  NodesInPlace'
<1>1. ASSUME NEW m \in Node, m # n PROVE InPlace(m)'
  <2>1. InPlace(m)
    BY DEF NodesInPlace
  <2>2. CASE view'[m] = view[m]
    BY <1>1, <2>1, <2>2 DEF InPlace, Alone
  <2>3. CASE view'[m] = [view[m] EXCEPT !.outdated = TRUE] /\ view[m] # W!NoView
    <3>1. view'[m].outdated /\ view'[m].key = view[m].key /\ DOMAIN view'[m] = DOMAIN view[m]
      BY <2>1, <2>3 DEF InPlace
    <3>2. view'[m] # W!NoView
      BY <3>1 DEF W!NoView
    <3> QED BY <1>1, <2>1, <2>3, <3>1, <3>2 DEF InPlace, Alone
  <2> QED BY <1>1, <2>2, <2>3 DEF Alone
<1> QED BY <1>1 DEF NodesInPlace, Alone

\* The end of a cycle in which n goes on leading.
LEMMA GoneOn ==
  ASSUME SwitchoverAssumption, SwitchoverInv, NEW n \in Node, W!GoOnLeading(n),
         view[n] # W!NoView, view[n].key = n \/ step[n] = "won",
         step[n] # "demoting", pg[n] # "primary" => key = n,
         key' = key, paused' = paused
  PROVE  SwitchoverInv'
<1> DEFINE Ended == step' = [step EXCEPT ![n] = "idle"] /\ pg' = pg
           Started == step' = [step EXCEPT ![n] = "promoting"] /\ pg' = pg /\ pg[n] = "replica"
<1>1. InPlace(n) /\ NodesInPlace /\ HeirsEntitled
  BY DEF SwitchoverInv, NodesInPlace
<1>2. CASE pg[n] = "primary"
  <2>1. Ended /\ lagging' = lagging /\ W!LookAfterSync(n)
    BY <1>2 DEF W!GoOnLeading
  <2>2. CASE W!LeaveSync(n)
    <3>1. NodesInPlace'
      <4>1. InPlace(n)'
        BY <1>1, <1>2, <2>1, <2>2 DEF InPlace, NodesInPlace, W!LeaveSync, W!NoView
      <4>a. Alone(n)
        BY <1>1, <2>1, <2>2 DEF NodesInPlace, W!LeaveSync, Alone
      <4> QED BY <1>1, <4>1, <4>a, OthersInPlace
    <3>2. HeirsEntitled'
      BY <1>1, <2>1, <2>2, LeftEntitled
      DEF NodesInPlace, HeirsEntitled, Entitled, Leads, W!LeaveSync, W!NoView, SwitchoverAssumption
    <3> QED BY <3>1, <3>2 DEF SwitchoverInv
  <2>3. ASSUME NEW standbys \in SUBSET {m \in Node \ ({n} \cup lagging) : pg[m] = "replica"},
               W!SyncActive, ~view[n].outdated,
               W!WriteSync(n, [leader |-> n, standbys |-> standbys])
        PROVE  SwitchoverInv'
    <3>1. n \notin lagging
      BY <1>1, <1>2, <2>3 DEF HeirsEntitled, Entitled
    <3>2. HeirsEntitled'
      BY <1>1, <1>2, <2>1, <2>3, <3>1, WrittenEntitled DEF NodesInPlace
    <3>3. view'[n] = W!NoView /\ DOMAIN view' = Node
      BY <2>3 DEF W!WriteSync
    <3>4. InPlace(n)'
      BY <1>1, <1>2, <2>1, <3>3 DEF InPlace, NodesInPlace, W!NoView
    <3>a. Alone(n)
      BY <1>1, <2>1, <2>3, <3>3 DEF NodesInPlace, W!WriteSync, Alone
    <3>5. NodesInPlace'
      BY <1>1, <3>4, <3>a, OthersInPlace
    <3> QED BY <3>2, <3>5 DEF SwitchoverInv
  <2> QED BY <2>1, <2>2, <2>3 DEF W!LookAfterSync
<1>3. CASE pg[n] # "primary" /\ W!Prepromote(n)
  <2>1. Started /\ key = n
    BY <1>1, <1>3 DEF W!Prepromote, InPlace
  <2>2. CASE ~W!SyncActive
    <3>1. W!LeaveSync(n) /\ lagging' = lagging
      BY <1>3, <2>2 DEF W!Prepromote
    <3>2. InPlace(n)'
      BY <1>1, <2>1, <3>1 DEF InPlace, NodesInPlace, W!LeaveSync, W!NoView
    <3>a. Alone(n)
      BY <1>1, <2>1, <3>1 DEF NodesInPlace, W!LeaveSync, Alone
    <3>3. NodesInPlace'
      BY <1>1, <3>2, <3>a, OthersInPlace
    <3>4. HeirsEntitled'
      BY <2>2, <3>1 DEF HeirsEntitled, W!SyncActive, W!LeaveSync
    <3> QED BY <3>3, <3>4 DEF SwitchoverInv
  <2>3. CASE W!SyncActive
    <3>1. W!WriteSync(n, [leader |-> n, standbys |-> {}]) /\ lagging' = Node \ {n}
      BY <1>3, <2>3 DEF W!Prepromote
    <3>2. HeirsEntitled'
      BY <1>1, <2>1, <2>3, <3>1, WrittenEntitled DEF NodesInPlace
    <3>3. view'[n] = W!NoView /\ DOMAIN view' = Node
      BY <3>1 DEF W!WriteSync
    <3>4. InPlace(n)'
      BY <1>1, <2>1, <3>3 DEF InPlace, NodesInPlace, W!NoView
    <3>a. Alone(n)
      BY <1>1, <2>1, <3>1, <3>3 DEF NodesInPlace, W!WriteSync, Alone
    <3>5. NodesInPlace'
      BY <1>1, <3>4, <3>a, OthersInPlace
    <3> QED BY <3>2, <3>5 DEF SwitchoverInv
  <2> QED BY <2>2, <2>3
<1>4. CASE pg[n] # "primary" /\ W!Postpone(n)
  <2>1. Ended /\ view' = [view EXCEPT ![n] = W!NoView] /\ sync' = sync /\ lagging' = lagging
    BY <1>4 DEF W!Postpone, W!EndCycle
  <2>2. InPlace(n)'
    BY <1>1, <1>4, <2>1 DEF InPlace, NodesInPlace, W!NoView
  <2>a. Alone(n)
    BY <1>1, <2>1 DEF NodesInPlace, Alone
  <2>3. NodesInPlace'
    BY <1>1, <2>2, <2>a, OthersInPlace
  <2>4. HeirsEntitled'
    BY <1>1, <2>1, LeftEntitled
    DEF NodesInPlace, HeirsEntitled, Entitled, Leads, W!NoView, SwitchoverAssumption
  <2> QED BY <2>3, <2>4 DEF SwitchoverInv
<1> QED BY <1>2, <1>3, <1>4 DEF W!GoOnLeading

\* Every step of a node's cycle.
LEMMA TurnKeepsHeirs ==
  ASSUME SwitchoverAssumption, SwitchoverInv, NEW n \in Node, W!Turn(n)
  PROVE  SwitchoverInv'
<1>1. InPlace(n) /\ NodesInPlace /\ HeirsEntitled
  BY DEF SwitchoverInv, NodesInPlace
<1>2. ASSUME Alone(n), InPlace(n)', HeirsEntitled' PROVE SwitchoverInv'
  BY <1>1, <1>2, OthersInPlace DEF SwitchoverInv
<1> USE DEF SwitchoverAssumption
<1>3. CASE W!Load(n)
  <2>1. Alone(n)
    BY <1>1, <1>3 DEF W!Load, Alone, NodesInPlace
  <2>2. InPlace(n)'
    BY <1>1, <1>3 DEF W!Load, InPlace, NodesInPlace
  <2>3. HeirsEntitled'
    BY <1>1, <1>3, LeftEntitled DEF W!Load, NodesInPlace, HeirsEntitled, Entitled, Leads
  <2> QED BY <1>2, <2>1, <2>2, <2>3
<1>4. CASE W!LoseKey(n) \/ W!GiveKeyBack(n) \/ W!Stopped(n) \/ W!NotHealthiest(n)
  <2> USE DEF W!LoseKey, W!GiveKeyBack, W!Stopped, W!NotHealthiest, W!EndCycle, W!Becomes,
              W!In, W!HasLock, W!Unlocked
  <2>1. Alone(n)
    BY <1>1, <1>4 DEF Alone, NodesInPlace
  <2>2. InPlace(n)'
    BY <1>1, <1>4 DEF InPlace, NodesInPlace, W!NoView
  <2>3. HeirsEntitled'
    BY <1>1, <1>4, LeftEntitled
    DEF NodesInPlace, HeirsEntitled, Entitled, Leads, W!NoView
  <2> QED BY <1>2, <2>1, <2>2, <2>3
<1>5. CASE W!KeepLeading(n) \/ W!TooLate(n) \/ W!Refuse(n) \/ W!Won(n)
  <2>1. W!GoOnLeading(n) /\ key' = key /\ paused' = paused
    BY <1>5 DEF W!KeepLeading, W!TooLate, W!Refuse, W!Won
  <2>2. W!HasLock(n) \/ step[n] \in {"slept", "won"}
    BY <1>5 DEF W!KeepLeading, W!TooLate, W!Refuse, W!Won, W!Handles, W!Asked
  <2>3. view[n] # W!NoView /\ (view[n].key = n \/ step[n] = "won") /\ step[n] # "demoting"
    BY <1>1, <2>2 DEF W!HasLock, W!In, InPlace
  <2>4. pg[n] # "primary" => key = n
    BY <1>1, <2>2, <2>3 DEF W!HasLock, InPlace
  <2> QED BY <2>1, <2>3, <2>4, GoneOn
<1>6. CASE W!Sleep(n) \/ W!Wake(n) \/ W!Demote(n) \/ W!ReleaseEarly(n) \/ W!DropRequest(n)
  <2> USE DEF W!Sleep, W!Wake, W!Demote, W!ReleaseEarly, W!DropRequest, W!Becomes,
              W!In, W!HasLock, W!Asked, W!Handles
  <2>1. Alone(n)
    BY <1>1, <1>6 DEF Alone, NodesInPlace
  <2>2. InPlace(n)'
    BY <1>1, <1>6 DEF InPlace, NodesInPlace
  <2>3. /\ UNCHANGED <<sync, paused, lagging, view>> /\ key' \in {key, None}
        /\ pg' = pg \/ pg' = [pg EXCEPT ![n] = "stopping"]
    BY <1>6
  <2>4. /\ step'[n] \in {"asleep", "slept", "demoting", "dropped"} /\ step[n] # "promoting"
        /\ step'[n] = "dropped" => view[n].paused
    BY <1>1, <1>6 DEF NodesInPlace
  <2>5. HeirsEntitled'
    BY <1>1, <2>1, <2>3, <2>4, LeftEntitled
    DEF NodesInPlace, HeirsEntitled, Entitled, Leads, Alone
  <2> QED BY <1>2, <2>1, <2>2, <2>5
<1>7. CASE W!Acquire(n)
  <2>1. /\ key = None /\ key' = n /\ step' = [step EXCEPT ![n] = "won"] /\ view[n] # W!NoView
        /\ step[n] \in {"idle", "dropped"}
        /\ step[n] = "dropped" \/ W!IsHealthiestNode(n)
        /\ UNCHANGED <<failover, sync, paused, pg, lagging, view>>
    BY <1>1, <1>7 DEF W!Acquire, W!Unlocked, W!Wins, W!In, InPlace
  <2>2. Alone(n)
    BY <1>1, <2>1 DEF Alone, NodesInPlace
  <2>3. InPlace(n)'
    <3>1. step'[n] = "won" /\ view'[n] = view[n] /\ pg'[n] = pg[n]
      BY <1>1, <2>1 DEF NodesInPlace
    <3>2. pg[n] \in {"primary", "replica"}
      BY <1>1, <2>1 DEF InPlace
    <3> QED BY <1>1, <2>1, <3>1, <3>2 DEF InPlace
  <2>4. W!SyncActive /\ pg[n] = "primary" => n \notin lagging
    BY <1>1, <2>1, HealthyPrimary DEF HeirsEntitled, Entitled
  <2>5. HeirsEntitled'
    BY <1>1, <2>1, <2>4, LeftEntitled DEF NodesInPlace, HeirsEntitled, Entitled, Leads
  <2> QED BY <1>2, <2>2, <2>3, <2>5
<1>8. CASE W!Promoted(n) \/ W!Cancelled(n)
  <2>1. /\ step[n] = "promoting" /\ W!EndCycle(n) /\ UNCHANGED <<key, failover, sync, paused>>
        /\ W!SyncActive => lagging' = lagging
        /\ pg' = [pg EXCEPT ![n] = "primary"] \/ pg' = pg
    BY <1>8 DEF W!Promoted, W!Cancelled, W!Becomes
  <2>2. Alone(n)
    BY <1>1, <2>1 DEF Alone, NodesInPlace, W!EndCycle
  <2>3. InPlace(n)'
    BY <1>1, <2>1 DEF InPlace, NodesInPlace, W!EndCycle, W!NoView
  <2>4. HeirsEntitled'
    <3>1. CASE W!SyncActive
      BY <1>1, <2>1, <3>1, LeftEntitled
      DEF NodesInPlace, HeirsEntitled, Entitled, Leads, W!EndCycle, W!NoView
    <3>2. CASE ~W!SyncActive
      BY <2>1, <3>2 DEF HeirsEntitled, W!SyncActive
    <3> QED BY <3>1, <3>2
  <2> QED BY <1>2, <2>2, <2>3, <2>4
<1> QED BY <1>3, <1>4, <1>5, <1>6, <1>7, <1>8 DEF W!Turn, W!Cycle

LEMMA SwitchoverKept ==
  ASSUME SwitchoverAssumption, SwitchoverInv, [W!SwitchoverNext]_(W!vars)
  PROVE  SwitchoverInv'
<1> USE DEF SwitchoverAssumption
<1>1. NodesInPlace /\ HeirsEntitled
  BY DEF SwitchoverInv
<1>2. CASE UNCHANGED <<key, sync, pg, lagging, view, step>> /\ (paused' = paused \/ ~W!SyncActive)
  BY <1>1, <1>2
  DEF SwitchoverInv, NodesInPlace, HeirsEntitled, InPlace, Entitled, Leads, W!HeirsAreCurrent,
      W!Listed, W!SyncActive
<1>3. CASE W!CallOff \/ W!TogglePause \/ W!TimePasses \/ UNCHANGED W!vars
  <2>1. CASE W!TogglePause
    BY <1>1, <1>2, <2>1 DEF W!TogglePause, HeirsEntitled
  <2>2. CASE W!CallOff \/ W!TimePasses \/ UNCHANGED W!vars
    BY <1>2, <2>2 DEF W!CallOff, W!TimePasses, W!vars
  <2> QED BY <1>3, <2>1, <2>2
<1>8. ASSUME NEW l, NEW c, NEW w, W!Ask(l, c, w) PROVE SwitchoverInv'
  BY <1>2, <1>8 DEF W!Ask
<1>4. CASE W!Stall \/ W!Expire
  <2>1. /\ UNCHANGED <<sync, paused, pg, lagging, view, step>> /\ key # None /\ key' = None
        /\ pg[key] = "replica" => step[key] \in {"idle", "promoting"}
    BY <1>4 DEF W!Stall, W!Expire
  <2>2. NodesInPlace'
    BY <1>1, <2>1 DEF NodesInPlace, InPlace
  <2>3. HeirsEntitled'
    BY <1>1, <2>1, LeftEntitled DEF HeirsEntitled, Entitled, Leads
  <2> QED BY <2>2, <2>3 DEF SwitchoverInv
<1>5. ASSUME NEW n \in Node, W!Crash(n) \/ W!Restart(n) PROVE SwitchoverInv'
  <2>1. InPlace(n)
    BY <1>1 DEF NodesInPlace
  <2>2. /\ UNCHANGED <<key, sync, paused, lagging>>
        /\ pg' = [pg EXCEPT ![n] = "down"] \/ pg' = [pg EXCEPT ![n] = "replica"]
        /\ step' \in {step, [step EXCEPT ![n] = "idle"]} /\ step'[n] = "idle"
        /\ view' \in {view, [view EXCEPT ![n] = W!NoView]} /\ view'[n] = W!NoView
    <3>1. CASE W!Crash(n)
      BY <1>1, <3>1 DEF W!Crash, NodesInPlace
    <3>2. CASE W!Restart(n)
      <4>1. step[n] = "idle" /\ view[n] = W!NoView
        BY <2>1, <3>2 DEF InPlace, W!Restart
      <4> QED BY <3>2, <4>1 DEF W!Restart
    <3> QED BY <1>5, <3>1, <3>2
  <2>3. InPlace(n)'
    BY <1>1, <2>1, <2>2 DEF NodesInPlace, InPlace, W!NoView
  <2>4. Alone(n)
    BY <1>1, <2>2 DEF Alone, NodesInPlace
  <2>5. NodesInPlace'
    BY <1>1, <2>3, <2>4, OthersInPlace
  <2>6. HeirsEntitled'
    BY <1>1, <2>2, LeftEntitled
    DEF NodesInPlace, InPlace, HeirsEntitled, Entitled, Leads, W!NoView
  <2> QED BY <2>5, <2>6 DEF SwitchoverInv
<1>6. ASSUME NEW n \in Node, W!FallBehind(n) PROVE SwitchoverInv'
  <2>1. /\ UNCHANGED <<key, sync, paused, pg, view, step>> /\ lagging' = lagging \cup {n}
        /\ key # n /\ pg[key] = "primary" /\ key \notin lagging /\ n \notin sync.standbys
        /\ key \in Node
    BY <1>1, <1>6 DEF W!FallBehind, NodesInPlace
  <2>2. NodesInPlace'
    BY <1>1, <2>1 DEF NodesInPlace, InPlace
  <2>3. ASSUME W!SyncActive
        PROVE  ~paused' /\ W!HeirsAreCurrent' /\ \A m \in Node : Entitled(m)'
    <3>1. sync.leader = key
      BY <1>1, <2>1, <2>3 DEF HeirsEntitled, Entitled, Leads
    <3>2. ~paused' /\ W!HeirsAreCurrent'
      BY <1>1, <2>1, <2>3, <3>1 DEF HeirsEntitled, W!HeirsAreCurrent, W!Listed
    <3>3. ASSUME NEW m \in Node PROVE Entitled(m)'
      <4>1. Entitled(m)
        BY <1>1, <2>3 DEF HeirsEntitled
      <4>2. CASE m # n
        BY <2>1, <4>1, <4>2 DEF Entitled, Leads
      <4>3. CASE m = n
        <5>1. Leads(n) => n \in lagging
          BY <2>1, <3>1, <4>1, <4>3 DEF Entitled
        <5> QED BY <2>1, <4>1, <4>3, <5>1 DEF Entitled, Leads
      <4> QED BY <4>2, <4>3
    <3> QED BY <3>2, <3>3
  <2> QED BY <2>1, <2>2, <2>3 DEF SwitchoverInv, HeirsEntitled, W!SyncActive
<1>7. ASSUME NEW n \in Node, W!CatchUp(n) PROVE SwitchoverInv'
  <2>1. /\ UNCHANGED <<key, sync, paused, pg, view, step>> /\ lagging' = lagging \ {n}
        /\ ~Leads(n)
    BY <1>7 DEF W!CatchUp, Leads
  <2>2. NodesInPlace'
    BY <1>1, <2>1 DEF NodesInPlace, InPlace
  <2>3. ASSUME W!SyncActive
        PROVE  ~paused' /\ W!HeirsAreCurrent' /\ \A m \in Node : Entitled(m)'
    <3>1. ~paused' /\ W!HeirsAreCurrent'
      BY <1>1, <2>1, <2>3 DEF HeirsEntitled, W!HeirsAreCurrent, W!Listed, W!SyncActive
    <3>2. ASSUME NEW m \in Node PROVE Entitled(m)'
      <4>1. Entitled(m)
        BY <1>1, <2>3 DEF HeirsEntitled
      <4>2. m = n => ~Leads(m)'
        BY <2>1 DEF Leads
      <4> QED BY <2>1, <4>1, <4>2 DEF Entitled, Leads
    <3> QED BY <3>1, <3>2
  <2> QED BY <2>1, <2>2, <2>3 DEF SwitchoverInv, HeirsEntitled, W!SyncActive
<1> QED
  BY <1>3, <1>4, <1>5, <1>6, <1>7, <1>8, TurnKeepsHeirs DEF W!SwitchoverNext

\* Switchover's HeirsAreCurrent: whoever wins, and however late a former leader's cycle goes
\* on, the nodes that may race in synchronous mode lack nothing that counts.
THEOREM HeirsStayCurrent ==
  ASSUME SwitchoverAssumption PROVE W!SwitchoverSpec => []W!HeirsAreCurrent
<1>1. W!Init => SwitchoverInv
  BY SwitchoverInitially
<1>2. SwitchoverInv /\ [W!SwitchoverNext]_(W!vars) => SwitchoverInv'
  BY SwitchoverKept
<1>3. SwitchoverInv => W!HeirsAreCurrent
  BY DEF SwitchoverInv, HeirsEntitled, W!HeirsAreCurrent
<1> QED BY <1>1, <1>2, <1>3, PTL DEF W!SwitchoverSpec

-----------------------------------------------------------------------------
\* LogicalSlots.  A copy is declared safe when the standby's physical slot holds vacuum on
\* the primary back to where the copy needs it, and nothing newer has been removed anywhere.

CopiesAssumption == None \notin Node /\ MaxXid \in Nat \ {0} /\ Reload = FALSE

Held == C!Slot \cup {C!NoSlot}
Remembers ==
  [queue : 0 .. MaxXid + 1, forced : BOOLEAN, known : BOOLEAN, advance : 0 .. MaxXid,
   again : BOOLEAN, copying : BOOLEAN, data : Held]
CopiesType ==
  /\ primary \in Node \cup {None}
  /\ follows \in [Node -> Node \cup {None}]
  /\ slot \in [Node -> Held]
  /\ removed \in [Node -> 1 .. MaxXid] /\ phys \in [Node -> 0 .. MaxXid]
  /\ status \in 0 .. MaxXid
  /\ mind \in [Node -> Remembers]

Follows(n) == primary # None /\ n # primary /\ follows[n] = primary
Stands(n) == n # primary /\ follows[n] # None
ReadyCopy(n) == Stands(n) /\ slot[n] # C!NoSlot /\ ~mind[n].forced /\ mind[n].queue = C!Done

\* Nobody has removed what the primary's slot needs.
PrimaryAbove ==
  primary # None /\ slot[primary] # C!NoSlot =>
    \A m \in Node : removed[m] <= slot[primary].xmin

\* Once it has looked, a node knows of its copy, and only a copy is in the queue.
Looked(n) ==
  Stands(n) /\ ~mind[n].forced =>
    /\ slot[n] = C!NoSlot => mind[n].queue = C!Done
    /\ mind[n].known = (slot[n] # C!NoSlot)

\* Since the catalog_xmin of the primary was remembered, the standby's physical slot has
\* held vacuum back.
Waits(n) ==
  Follows(n) /\ ~mind[n].forced /\ mind[n].queue \notin {C!Done, C!Unknown} =>
    /\ phys[n] # 0
    /\ \A m \in Node : removed[m] <= mind[n].queue \/ removed[m] <= phys[n]

\* What is declared safe is, for whoever is promoted with it, too.
Guards(n) ==
  ReadyCopy(n) =>
    /\ removed[n] <= slot[n].xmin
    /\ Follows(n) => /\ phys[n] # 0 /\ phys[n] <= slot[n].xmin
                     /\ \A m \in Node : removed[m] <= phys[n]
    /\ primary = None => \A m \in Node : removed[m] <= slot[n].xmin

\* Nobody follows who can be promoted now, and only followers have sent feedback.
Abandoned == primary = None => \A m, n \in Node : Stands(m) => follows[n] # m
FedBack == primary # None => \A n \in Node : follows[n] # primary => phys[n] = 0

CopiesInv ==
  /\ CopiesType /\ PrimaryAbove /\ Abandoned /\ FedBack
  /\ \A n \in Node : Looked(n) /\ Waits(n) /\ Guards(n)

\* Who is left when the primary dies has followed it.
Followed == C!PrimaryDies => \A n \in Node : follows[n] \in {primary, None}

LEMMA CopyFacts ==
  ASSUME CopiesAssumption
  PROVE  /\ \A s \in Held : /\ s.lsn \in 0 .. MaxXid /\ s.xmin \in 0 .. MaxXid
                            /\ s # C!NoSlot <=> s.xmin # 0
         /\ C!NoSlot \in Held /\ C!NoSlot.xmin = 0 /\ C!NoSlot.lsn = 0
         /\ [lsn |-> MaxXid, xmin |-> MaxXid] \in C!Slot /\ [lsn |-> 1, xmin |-> 1] \in C!Slot
         /\ C!Slot \subseteq Held /\ \A s \in C!Slot : s # C!NoSlot
         /\ C!Done = MaxXid + 1 /\ C!Unknown = 0 /\ MaxXid \in Nat \ {0}
BY DEF CopiesAssumption, Held, C!Slot, C!NoSlot, C!Done, C!Unknown

LEMMA CopiesInitially == ASSUME CopiesAssumption, Node # {} PROVE C!Init => CopiesInv
<1> SUFFICES ASSUME C!Init PROVE CopiesInv
  OBVIOUS
<1>1. primary \in Node
  BY DEF C!Init
<1>2. /\ follows = [n \in Node |-> primary] /\ removed = [n \in Node |-> 1]
      /\ phys = [n \in Node |-> 0] /\ status = 1
      /\ slot \in [Node -> Held]
      /\ \A n \in Node : n # primary => slot[n] = C!NoSlot
      /\ slot[primary].xmin = 1
  BY <1>1, CopyFacts DEF C!Init
<1>3. mind \in [Node -> Remembers]
  <2>1. ASSUME NEW n \in Node
        PROVE  mind[n] = [queue |-> C!Done, forced |-> FALSE, known |-> (n = primary), advance |-> 0,
                          again |-> FALSE, copying |-> FALSE, data |-> C!NoSlot]
    BY DEF C!Init, C!Fresh
  <2>2. ASSUME NEW n \in Node, NEW b \in BOOLEAN
        PROVE  [queue |-> C!Done, forced |-> FALSE, known |-> b, advance |-> 0,
                again |-> FALSE, copying |-> FALSE, data |-> C!NoSlot] \in Remembers
    BY CopyFacts DEF Remembers
  <2>3. mind = [n \in Node |-> mind[n]]
    BY DEF C!Init
  <2>4. \A n \in Node : mind[n] \in Remembers
    BY <2>1, <2>2, Zenon
  <2> QED
    BY <2>3, <2>4
<1>4. \A n \in Node : n # primary => mind[n].queue = C!Done /\ mind[n].known = FALSE
  BY DEF C!Init, C!Fresh
<1>5. CopiesType
  BY <1>1, <1>2, <1>3, CopyFacts DEF CopiesType
<1>6. PrimaryAbove /\ Abandoned /\ FedBack
  BY <1>1, <1>2, CopyFacts DEF PrimaryAbove, Abandoned, FedBack, CopiesAssumption
<1>7. \A n \in Node : Looked(n) /\ Waits(n) /\ Guards(n)
  BY <1>1, <1>2, <1>4, CopyFacts DEF Looked, Waits, Guards, ReadyCopy, Follows, Stands
<1> QED
  BY <1>5, <1>6, <1>7 DEF CopiesInv

\* What is written to a node's memory.
Rewritten(m, k, f, q) == [m EXCEPT !.known = k, !.forced = f, !.queue = q]
LEMMA RewrittenIs ==
  ASSUME NEW m \in Remembers, NEW q \in 0 .. MaxXid + 1, NEW f \in BOOLEAN, NEW k \in BOOLEAN,
         NEW u, u = Rewritten(m, k, f, q)
  PROVE  u \in Remembers /\ u.queue = q /\ u.forced = f /\ u.known = k
<1>1. PICK x : x = [m EXCEPT !.known = k]
  OBVIOUS
<1>2. x \in Remembers /\ x.known = k
  BY <1>1 DEF Remembers
<1>3. PICK y : y = [x EXCEPT !.forced = f]
  OBVIOUS
<1>4. y \in Remembers /\ y.known = k /\ y.forced = f
  BY <1>2, <1>3 DEF Remembers
<1>5. PICK z : z = [y EXCEPT !.queue = q]
  OBVIOUS
<1>6. z \in Remembers /\ z.known = k /\ z.forced = f /\ z.queue = q
  BY <1>4, <1>5 DEF Remembers
<1>7. u = z
  BY <1>1, <1>3, <1>5 DEF Rewritten
<1> QED
  BY <1>6, <1>7

LEMMA RewrittenQueue ==
  ASSUME NEW m \in Remembers, NEW q \in 0 .. MaxXid + 1, NEW u, u = [m EXCEPT !.queue = q]
  PROVE  u \in Remembers /\ u.queue = q /\ u.forced = m.forced /\ u.known = m.known
BY DEF Remembers

RewrittenRest(m, q, a, b, c) == [m EXCEPT !.queue = q, !.advance = a, !.again = b, !.copying = c]
LEMMA RewrittenRestIs ==
  ASSUME NEW m \in Remembers, NEW q \in 0 .. MaxXid + 1,
         NEW a \in 0 .. MaxXid, NEW b \in BOOLEAN, NEW c \in BOOLEAN,
         NEW u, u = RewrittenRest(m, q, a, b, c)
  PROVE  u \in Remembers /\ u.queue = q /\ u.forced = m.forced /\ u.known = m.known
<1>1. PICK v : v = [m EXCEPT !.queue = q]
  OBVIOUS
<1>2. v \in Remembers /\ v.queue = q /\ v.forced = m.forced /\ v.known = m.known
  BY <1>1, RewrittenQueue
<1>3. PICK x : x = [v EXCEPT !.advance = a]
  OBVIOUS
<1>4. x \in Remembers /\ x.queue = q /\ x.forced = m.forced /\ x.known = m.known
  BY <1>2, <1>3 DEF Remembers
<1>5. PICK y : y = [x EXCEPT !.again = b]
  OBVIOUS
<1>6. y \in Remembers /\ y.queue = q /\ y.forced = m.forced /\ y.known = m.known
  BY <1>4, <1>5 DEF Remembers
<1>7. PICK z : z = [y EXCEPT !.copying = c]
  OBVIOUS
<1>8. z \in Remembers /\ z.queue = q /\ z.forced = m.forced /\ z.known = m.known
  BY <1>6, <1>7 DEF Remembers
<1>9. u = z
  BY <1>1, <1>3, <1>5, <1>7 DEF RewrittenRest
<1> QED
  BY <1>8, <1>9

\* The slot and the catalog of the primary.
LEMMA ConsumeKeeps == ASSUME CopiesAssumption, CopiesInv, C!Consume PROVE CopiesInv'
<1>1. /\ primary \in Node /\ slot[primary] # C!NoSlot
      /\ UNCHANGED <<primary, follows, removed, phys, status, mind>>
  BY DEF CopiesInv, CopiesType, C!Consume
<1>2. PICK s \in C!Slot : s.xmin >= slot[primary].xmin /\ slot' = [slot EXCEPT ![primary] = s]
  BY DEF C!Consume, C!Later
<1>3. s \in Held /\ s # C!NoSlot /\ s.xmin \in Nat
  BY CopyFacts
<1>4. slot' \in [Node -> Held] /\ slot'[primary] = s /\ \A n \in Node : n # primary => slot'[n] = slot[n]
  BY <1>1, <1>2, <1>3 DEF CopiesInv, CopiesType
<1>5. CopiesType'
  BY <1>1, <1>4 DEF CopiesInv, CopiesType
<1>6. PrimaryAbove'
  <2>1. slot[primary].xmin \in Nat /\ \A m \in Node : removed[m] \in Nat /\ removed[m] <= slot[primary].xmin
    <3>1. slot[primary] \in Held /\ removed \in [Node -> 1 .. MaxXid] /\ PrimaryAbove
      BY <1>1 DEF CopiesInv, CopiesType
    <3>2. slot[primary].xmin \in Nat
      BY <3>1, CopyFacts
    <3> QED
      BY <1>1, <3>1, <3>2, CopyFacts DEF PrimaryAbove, CopiesAssumption
  <2> QED
    BY <1>1, <1>2, <1>3, <1>4, <2>1 DEF PrimaryAbove
<1>7. Abandoned' /\ FedBack'
  BY <1>1 DEF CopiesInv, Abandoned, FedBack, Stands
<1>8. \A n \in Node : Looked(n)' /\ Waits(n)' /\ Guards(n)'
  BY <1>1, <1>4 DEF CopiesInv, Looked, Waits, Guards, ReadyCopy, Follows, Stands
<1> QED
  BY <1>5, <1>6, <1>7, <1>8 DEF CopiesInv

LEMMA VacuumKeeps == ASSUME CopiesAssumption, CopiesInv, C!Vacuum PROVE CopiesInv'
<1>1. primary \in Node /\ UNCHANGED <<primary, follows, slot, phys, status, mind>>
  BY DEF CopiesInv, CopiesType, C!Vacuum
<1>2. PICK x \in removed[primary] .. MaxXid :
        /\ \A y \in C!Needed \ {0} : x <= y
        /\ removed' = [removed EXCEPT ![primary] = x]
  BY DEF C!Vacuum
<1>3. removed \in [Node -> 1 .. MaxXid] /\ phys \in [Node -> 0 .. MaxXid] /\ x \in 1 .. MaxXid
  BY <1>1, <1>2, CopyFacts DEF CopiesInv, CopiesType
<1>4. removed' \in [Node -> 1 .. MaxXid] /\ \A m \in Node : removed'[m] = IF m = primary THEN x ELSE removed[m]
  BY <1>1, <1>2, <1>3
<1>5. slot[primary] # C!NoSlot => x <= slot[primary].xmin
  <2>1. slot[primary] # C!NoSlot => slot[primary].xmin # 0
    BY <1>1, CopyFacts DEF CopiesInv, CopiesType
  <2> QED
    BY <1>2, <2>1 DEF C!Needed
<1>6. \A n \in Node : n # primary /\ phys[n] # 0 => x <= phys[n]
  BY <1>2 DEF C!Needed
<1>7. CopiesType'
  BY <1>1, <1>4 DEF CopiesInv, CopiesType
<1>8. PrimaryAbove' /\ Abandoned' /\ FedBack'
  BY <1>1, <1>4, <1>5 DEF CopiesInv, PrimaryAbove, Abandoned, FedBack, Stands
<1>9. ASSUME NEW n \in Node PROVE Looked(n)' /\ Waits(n)' /\ Guards(n)'
  <2>1. Looked(n) /\ Waits(n) /\ Guards(n)
    BY DEF CopiesInv
  <2>2. Looked(n)'
    BY <1>1, <2>1 DEF Looked, Stands
  <2>3. Waits(n)'
    BY <1>1, <1>4, <1>6, <2>1 DEF Waits, Follows
  <2>4. Guards(n)'
    BY <1>1, <1>4, <1>6, <2>1, CopiesAssumption DEF Guards, ReadyCopy, Follows, Stands, CopiesAssumption
  <2> QED
    BY <2>2, <2>3, <2>4
<1> QED
  BY <1>7, <1>8, <1>9 DEF CopiesInv

LEMMA ReplayKeeps ==
  ASSUME CopiesAssumption, CopiesInv, NEW r \in Node, C!Replay(r) PROVE CopiesInv'
<1>1. /\ primary \in Node /\ Follows(r)
      /\ removed' = [removed EXCEPT ![r] = removed[primary]]
      /\ UNCHANGED <<primary, follows, slot, phys, status, mind>>
  BY DEF CopiesInv, CopiesType, CopiesAssumption, C!Replay, C!Streams, C!Standby, Follows
<1>2. removed \in [Node -> 1 .. MaxXid] /\ phys \in [Node -> 0 .. MaxXid]
  BY DEF CopiesInv, CopiesType
<1>3. removed' \in [Node -> 1 .. MaxXid]
      /\ \A m \in Node : removed'[m] = IF m = r THEN removed[primary] ELSE removed[m]
  BY <1>1, <1>2
<1>4. CopiesType'
  BY <1>1, <1>3 DEF CopiesInv, CopiesType
<1>5. PrimaryAbove' /\ Abandoned' /\ FedBack'
  BY <1>1, <1>3 DEF CopiesInv, PrimaryAbove, Abandoned, FedBack, Stands
<1>6. ASSUME NEW n \in Node PROVE Looked(n)' /\ Waits(n)' /\ Guards(n)'
  <2>1. Looked(n) /\ Waits(n) /\ Guards(n)
    BY DEF CopiesInv
  <2>2. Looked(n)'
    BY <1>1, <2>1 DEF Looked, Stands
  <2>3. Waits(n)'
    BY <1>1, <1>3, <2>1 DEF Waits, Follows
  <2>4. Guards(n)'
    <3>1. slot[n].xmin \in Nat
      BY CopyFacts DEF CopiesInv, CopiesType
    <3> QED
      BY <1>1, <1>2, <1>3, <2>1, <3>1 DEF Guards, ReadyCopy, Follows, Stands, CopiesAssumption
  <2> QED
    BY <2>2, <2>3, <2>4
<1> QED
  BY <1>4, <1>5, <1>6 DEF CopiesInv

LEMMA FeedbackKeeps ==
  ASSUME CopiesAssumption, CopiesInv, NEW r \in Node, C!Feedback(r) PROVE CopiesInv'
<1>1. /\ primary \in Node /\ Follows(r) /\ (slot[r] = C!NoSlot \/ phys[r] < slot[r].xmin)
      /\ phys' = [phys EXCEPT ![r] = slot[r].xmin]
      /\ UNCHANGED <<primary, follows, slot, removed, status, mind>>
  BY DEF CopiesInv, CopiesType, CopiesAssumption, C!Feedback, C!Streams, C!Standby, Follows
<1>2. /\ removed \in [Node -> 1 .. MaxXid] /\ phys \in [Node -> 0 .. MaxXid]
      /\ slot[r] \in Held /\ slot[r].xmin \in 0 .. MaxXid
  BY CopyFacts DEF CopiesInv, CopiesType
<1>3. phys' \in [Node -> 0 .. MaxXid] /\ \A m \in Node : phys'[m] = IF m = r THEN slot[r].xmin ELSE phys[m]
  BY <1>1, <1>2
<1>4. CopiesType'
  BY <1>1, <1>3 DEF CopiesInv, CopiesType
<1>5. PrimaryAbove' /\ Abandoned' /\ FedBack'
  BY <1>1, <1>3 DEF CopiesInv, PrimaryAbove, Abandoned, FedBack, Stands, Follows
<1>6. ASSUME NEW n \in Node PROVE Looked(n)' /\ Waits(n)' /\ Guards(n)'
  <2>1. Looked(n) /\ Waits(n) /\ Guards(n)
    BY DEF CopiesInv
  <2>2. Looked(n)'
    BY <1>1, <2>1 DEF Looked, Stands
  <2>3. n # r => phys'[n] = phys[n]
    BY <1>3
  <2>4. slot[n] # C!NoSlot /\ n = r => phys'[n] = slot[n].xmin /\ phys'[n] # 0 /\ phys[n] <= phys'[n]
    BY <1>1, <1>2, <1>3, CopyFacts
  <2>5. phys[n] \in Nat /\ phys'[n] \in Nat /\ \A m \in Node : removed[m] \in Nat
    BY <1>2, <1>3
  <2>6. Waits(n)'
    <3>1. Follows(n) /\ ~mind[n].forced /\ mind[n].queue # C!Done => slot[n] # C!NoSlot
      BY <2>1, <1>1 DEF Looked, Follows, Stands, CopiesAssumption, CopiesInv, CopiesType
    <3> QED
      BY <1>1, <2>1, <2>3, <2>4, <2>5, <3>1 DEF Waits, Follows
  <2>7. Guards(n)'
    <3>1. slot[n].xmin \in Nat
      BY CopyFacts DEF CopiesInv, CopiesType
    <3> QED
      BY <1>1, <2>1, <2>3, <2>4, <2>5, <3>1 DEF Guards, ReadyCopy, Follows, Stands, CopiesAssumption
  <2> QED
    BY <2>2, <2>6, <2>7
<1> QED
  BY <1>4, <1>5, <1>6 DEF CopiesInv

\* The HA loop of the primary.
LEMMA LeadKeeps == ASSUME CopiesAssumption, CopiesInv, C!Lead PROVE CopiesInv'
<1>1. primary \in Node /\ primary # None /\ UNCHANGED <<primary, follows, removed, phys>>
  BY DEF CopiesInv, CopiesType, C!Lead
<1>2. PICK new : new = [lsn |-> MaxXid, xmin |-> MaxXid]
  OBVIOUS
<1>3. slot' = IF slot[primary] = C!NoSlot THEN [slot EXCEPT ![primary] = new] ELSE slot
  BY <1>2 DEF C!Lead
<1>4. new \in Held /\ new # C!NoSlot /\ new.xmin = MaxXid
  BY <1>2, CopyFacts
<1>5. /\ slot' \in [Node -> Held] /\ \A n \in Node : n # primary => slot'[n] = slot[n]
      /\ slot'[primary] = IF slot[primary] = C!NoSlot THEN new ELSE slot[primary]
  BY <1>1, <1>3, <1>4 DEF CopiesInv, CopiesType
<1>6. status' \in 0 .. MaxXid
  <2>1. slot[primary].lsn \in 0 .. MaxXid
    BY <1>1, CopyFacts DEF CopiesInv, CopiesType
  <2> QED
    BY <2>1, CopyFacts DEF C!Lead
<1>7. mind' \in [Node -> Remembers] /\ \A n \in Node : n # primary => mind'[n] = mind[n]
  <2>1. PICK m : m = C!Loaded(primary)
    OBVIOUS
  <2>2. m \in Remembers
    <3>1. mind[primary] \in Remembers
      BY <1>1 DEF CopiesInv, CopiesType
    <3>2. PICK b \in BOOLEAN : b = (slot[primary] # C!NoSlot)
      OBVIOUS
    <3>3. CASE mind[primary].forced
      <4>1. PICK q : q = IF slot[primary] = C!NoSlot THEN C!Done ELSE C!Unknown
        OBVIOUS
      <4>2. PICK f \in BOOLEAN : f = FALSE
        OBVIOUS
      <4>3. m = Rewritten(mind[primary], b, f, q)
        BY <2>1, <3>2, <3>3, <4>1, <4>2 DEF C!Loaded, Rewritten
      <4>4. q \in 0 .. MaxXid + 1
        BY <4>1, CopyFacts
      <4> QED
        BY <3>1, <4>3, <4>4, RewrittenIs
    <3> QED
      BY <2>1, <3>1, <3>3 DEF C!Loaded
  <2>3. mind' = [mind EXCEPT ![primary] = [m EXCEPT !.queue = C!Done, !.known = TRUE]]
    BY <2>1 DEF C!Lead
  <2>4. [m EXCEPT !.queue = C!Done, !.known = TRUE] \in Remembers
    <3>1. PICK u : u = [m EXCEPT !.queue = C!Done]
      OBVIOUS
    <3>2. u \in Remembers
      BY <2>2, <3>1, CopyFacts, RewrittenQueue
    <3>3. [u EXCEPT !.known = TRUE] \in Remembers
      BY <3>2 DEF Remembers
    <3> QED
      BY <3>1, <3>3
  <2> QED
    BY <1>1, <2>3, <2>4 DEF CopiesInv, CopiesType
<1>8. CopiesType'
  BY <1>1, <1>5, <1>6, <1>7 DEF CopiesInv, CopiesType
<1>9. PrimaryAbove'
  BY <1>1, <1>4, <1>5, CopyFacts DEF CopiesInv, CopiesType, PrimaryAbove
<1>10. Abandoned' /\ FedBack'
  BY <1>1 DEF CopiesInv, Abandoned, FedBack, Stands
<1>11. \A n \in Node : Looked(n)' /\ Waits(n)' /\ Guards(n)'
  BY <1>1, <1>5, <1>7 DEF CopiesInv, Looked, Waits, Guards, ReadyCopy, Follows, Stands
<1> QED
  BY <1>8, <1>9, <1>10, <1>11 DEF CopiesInv

\* A step of one standby, on its own copy and its own memory.
LEMMA StandbyKeeps ==
  ASSUME CopiesAssumption, CopiesInv, NEW r \in Node, r # primary,
         NEW s \in Held, slot' = [slot EXCEPT ![r] = s],
         NEW m \in Remembers, mind' = [mind EXCEPT ![r] = m],
         UNCHANGED <<primary, follows, removed, phys, status>>,
         Looked(r)', Waits(r)', Guards(r)'
  PROVE  CopiesInv'
<1>1. /\ slot' \in [Node -> Held] /\ mind' \in [Node -> Remembers]
      /\ \A n \in Node : n # r => slot'[n] = slot[n] /\ mind'[n] = mind[n]
  BY DEF CopiesInv, CopiesType
<1>2. CopiesType'
  BY <1>1 DEF CopiesInv, CopiesType
<1>3. PrimaryAbove' /\ Abandoned' /\ FedBack'
  BY <1>1 DEF CopiesInv, CopiesType, CopiesAssumption, PrimaryAbove, Abandoned, FedBack, Stands
<1>4. \A n \in Node : n # r => Looked(n)' /\ Waits(n)' /\ Guards(n)'
  BY <1>1 DEF CopiesInv, Looked, Waits, Guards, ReadyCopy, Follows, Stands
<1> QED
  BY <1>2, <1>3, <1>4 DEF CopiesInv

\* What a node makes of its copy when it has looked at it.
Sound(n, m) ==
  /\ m \in Remembers /\ m.forced = FALSE /\ m.known = (slot[n] # C!NoSlot)
  /\ slot[n] = C!NoSlot => m.queue = C!Done
  /\ Follows(n) /\ m.queue \notin {C!Done, C!Unknown} =>
       /\ phys[n] # 0
       /\ \A k \in Node : removed[k] <= m.queue \/ removed[k] <= phys[n]
  /\ slot[n] # C!NoSlot /\ m.queue = C!Done =>
       /\ removed[n] <= slot[n].xmin
       /\ Follows(n) => /\ phys[n] # 0 /\ phys[n] <= slot[n].xmin
                        /\ \A k \in Node : removed[k] <= phys[n]
       /\ primary = None => \A k \in Node : removed[k] <= slot[n].xmin

LEMMA LoadedSound ==
  ASSUME CopiesAssumption, CopiesInv, NEW n \in Node, Stands(n)
  PROVE  Sound(n, C!Loaded(n))
<1>1. mind[n] \in Remembers /\ Looked(n) /\ Waits(n) /\ Guards(n)
  BY DEF CopiesInv, CopiesType
<1>2. CASE mind[n].forced
  <2>1. PICK b \in BOOLEAN : b = (slot[n] # C!NoSlot)
    OBVIOUS
  <2>2. PICK q : q = IF slot[n] = C!NoSlot THEN C!Done ELSE C!Unknown
    OBVIOUS
  <2>3. PICK m : m = Rewritten(mind[n], b, FALSE, q)
    OBVIOUS
  <2>4. m \in Remembers /\ m.known = b /\ m.forced = FALSE /\ m.queue = q
    <3>1. q \in 0 .. MaxXid + 1 /\ mind[n] \in Remembers
      BY <1>1, <2>2, CopyFacts
    <3>2. PICK f \in BOOLEAN : f = FALSE
      OBVIOUS
    <3>3. m = Rewritten(mind[n], b, f, q)
      BY <2>3, <3>2
    <3>4. m \in Remembers /\ m.known = b /\ m.forced = f /\ m.queue = q
      BY <3>1, <3>3, RewrittenIs
    <3> QED
      BY <3>2, <3>4
  <2>5. C!Loaded(n) = m
    BY <1>2, <2>1, <2>2, <2>3 DEF C!Loaded, Rewritten
  <2>6. Sound(n, m)
    BY <2>1, <2>2, <2>4, CopyFacts DEF Sound
  <2> QED
    BY <2>5, <2>6
<1>3. CASE ~mind[n].forced
  <2>1. PICK m : m = mind[n]
    OBVIOUS
  <2>2. m.forced = FALSE
    BY <1>1, <1>3, <2>1 DEF Remembers
  <2>3. C!Loaded(n) = m
    BY <1>3, <2>1 DEF C!Loaded
  <2>4. Sound(n, m)
    BY <1>1, <1>3, <2>1, <2>2 DEF Sound, Looked, Waits, Guards, ReadyCopy, Follows, Stands
  <2> QED
    BY <2>3, <2>4
<1> QED
  BY <1>2, <1>3

LEMMA SoundNext ==
  ASSUME NEW n \in Node, NEW m, Sound(n, m), mind'[n] = m,
         slot'[n] = slot[n], UNCHANGED <<primary, follows, removed, phys>>
  PROVE  Looked(n)' /\ Waits(n)' /\ Guards(n)'
BY DEF Sound, Looked, Waits, Guards, ReadyCopy, Follows, Stands

\* check_logical_slots_readiness.
LEMMA CheckedSound ==
  ASSUME CopiesAssumption, CopiesInv, NEW n \in Node, Stands(n), NEW m, Sound(n, m),
         ~C!Confused(n, m), NEW q, q = C!Checked(n, m)
  PROVE  Sound(n, [m EXCEPT !.queue = q])
<1> DEFINE r == C!Remembered(n, m.queue)
<1>1. /\ m \in Remembers /\ removed \in [Node -> 1 .. MaxXid] /\ phys \in [Node -> 0 .. MaxXid]
      /\ slot[n] \in Held /\ (primary # None => primary \in Node /\ slot[primary] \in Held)
  BY DEF CopiesInv, CopiesType, Sound
<1>2. slot[n].xmin \in Nat /\ m.queue \in 0 .. MaxXid + 1 /\ phys[n] \in Nat /\ \A k \in Node : removed[k] \in Nat
  BY <1>1, CopyFacts DEF Remembers
<1>3. phys[n] # 0 /\ primary # None => Follows(n)
  BY DEF CopiesInv, FedBack, Follows, Stands
<1>4. r = m.queue \/ (m.queue = C!Unknown /\ primary # None /\ phys[n] # 0 /\ r = slot[primary].xmin)
  BY DEF C!Remembered
<1>5. m.queue # C!Done => m.known /\ slot[n] # C!NoSlot
  BY DEF Sound
<1>6. r # m.queue => slot[primary] # C!NoSlot /\ \A k \in Node : removed[k] <= r
  BY <1>4, <1>5, CopyFacts DEF C!Confused, CopiesInv, PrimaryAbove
<1>7. r \in 0 .. MaxXid + 1
  <2>1. slot[primary] \in Held => slot[primary].xmin \in 0 .. MaxXid
    BY CopyFacts
  <2>2. slot[primary].xmin \in 0 .. MaxXid => slot[primary].xmin \in 0 .. MaxXid + 1
    BY CopyFacts
  <2> QED
    BY <1>1, <1>2, <1>4, <2>1, <2>2
<1>8. r # m.queue => r # C!Done
  BY <1>1, <1>4, CopyFacts
<1> HIDE DEF r
<1>9. q = IF m.queue = C!Done \/ ~m.known \/ C!Safe(n, m, r) THEN C!Done ELSE r
  BY DEF C!Checked, r
<1>10. PICK u : u = [m EXCEPT !.queue = q]
  OBVIOUS
<1>11. q \in 0 .. MaxXid + 1
  BY <1>7, <1>9, CopyFacts
<1>12. u \in Remembers /\ u.forced = m.forced /\ u.known = m.known /\ u.queue = q
  BY <1>1, <1>10, <1>11 DEF Remembers
<1>13. CASE m.queue = C!Done
  BY <1>9, <1>12, <1>13, <1>10 DEF Sound
<1>14. CASE m.queue # C!Done /\ C!Safe(n, m, r)
  <2>1. primary # None /\ phys[n] # 0 /\ r <= phys[n] /\ phys[n] <= slot[n].xmin /\ q = C!Done /\ Follows(n)
    BY <1>3, <1>9, <1>14 DEF C!Safe
  <2>2. \A k \in Node : removed[k] <= phys[n]
    <3>1. CASE r # m.queue
      BY <1>2, <1>6, <1>7, <2>1, <3>1, CopyFacts
    <3>2. CASE r = m.queue
      <4>1. m.queue # C!Unknown
        <5> SUFFICES ASSUME m.queue = C!Unknown PROVE FALSE
          OBVIOUS
        <5>1. slot[primary] # C!NoSlot
          BY <1>5, <1>14, <2>1 DEF C!Confused
        <5>2. r = slot[primary].xmin
          BY <2>1 DEF r, C!Remembered
        <5> QED
          BY <1>1, <2>1, <3>2, <5>1, <5>2, CopyFacts
      <4> QED
        BY <1>2, <1>14, <2>1, <3>2, <4>1, CopyFacts DEF Sound
    <3> QED
      BY <3>1, <3>2
  <2>3. removed[n] <= slot[n].xmin
    BY <1>2, <2>1, <2>2
  <2>4. Sound(n, u)
    BY <1>5, <1>12, <1>14, <2>1, <2>2, <2>3 DEF Sound
  <2> QED
    BY <1>10, <2>4
<1>15. CASE m.queue # C!Done /\ ~C!Safe(n, m, r)
  <2>1. q = r
    BY <1>5, <1>9, <1>15
  <2>2. q # C!Done
    BY <1>8, <1>15, <2>1
  <2>3. Follows(n) /\ q # C!Unknown => phys[n] # 0 /\ \A k \in Node : removed[k] <= q \/ removed[k] <= phys[n]
    BY <1>4, <1>6, <1>15, <2>1 DEF Sound
  <2>4. Sound(n, u)
    BY <1>5, <1>12, <1>15, <2>2, <2>3 DEF Sound
  <2> QED
    BY <1>10, <2>4
<1> QED
  BY <1>13, <1>14, <1>15

LEMMA StandbySound ==
  ASSUME CopiesAssumption, CopiesInv, NEW r \in Node, r # primary, NEW m, Sound(r, m),
         mind' = [mind EXCEPT ![r] = m], UNCHANGED <<primary, follows, slot, removed, phys, status>>
  PROVE  CopiesInv'
<1>1. slot[r] \in Held /\ slot' = [slot EXCEPT ![r] = slot[r]] /\ mind'[r] = m /\ m \in Remembers
  BY DEF CopiesInv, CopiesType, Sound
<1>2. Looked(r)' /\ Waits(r)' /\ Guards(r)'
  BY <1>1, SoundNext
<1> QED
  BY <1>1, <1>2, StandbyKeeps

LEMMA SyncKeeps ==
  ASSUME CopiesAssumption, CopiesInv, NEW n \in Node, C!Sync(n) PROVE CopiesInv'
<1>1. Stands(n) /\ n # primary /\ UNCHANGED <<primary, follows, slot, removed, phys, status>>
  <2>1. C!Standby(n) /\ UNCHANGED <<primary, follows, slot, removed, phys, status, faults>>
    BY Zenon DEF C!Sync
  <2> QED
    BY <2>1 DEF C!Standby, Stands
<1>2. PICK m : m = C!Loaded(n)
  OBVIOUS
<1>3. Sound(n, m)
  BY <1>1, <1>2, LoadedSound
<1>4. CASE C!Confused(n, m)
  <2>1. mind' = [mind EXCEPT ![n] = m]
    BY <1>2, <1>4 DEF C!Sync
  <2> QED
    BY <1>1, <1>3, <2>1, StandbySound
<1>5. CASE ~C!Confused(n, m)
  <2>1. PICK q : q = C!Checked(n, m)
    OBVIOUS
  <2>2. PICK c \in BOOLEAN : c = C!Wanted(m)
    BY DEF C!Wanted
  <2>3. PICK lsn \in C!Advances(n, m) :
          mind' = [mind EXCEPT ![n] =
                     [m EXCEPT !.queue = q, !.advance = lsn, !.again = FALSE, !.copying = c]]
    BY <1>2, <1>5, <2>1, <2>2, Zenon DEF C!Sync
  <2>4. PICK v : v = [m EXCEPT !.queue = q]
    OBVIOUS
  <2>5. Sound(n, v)
    BY <1>1, <1>3, <1>5, <2>1, <2>4, CheckedSound
  <2>6. PICK u : u = [m EXCEPT !.queue = q, !.advance = lsn, !.again = FALSE, !.copying = c]
    OBVIOUS
  <2>7. m \in Remembers /\ q \in 0 .. MaxXid + 1
    <3>1. m \in Remembers /\ v \in Remembers
      BY <1>3, <2>5 DEF Sound
    <3>2. v.queue = q
      BY <2>4, <3>1 DEF Remembers
    <3> QED
      BY <3>1, <3>2 DEF Remembers
  <2>8. lsn \in 0 .. MaxXid
    <3>1. m.advance \in 0 .. MaxXid
      BY <2>7 DEF Remembers
    <3>2. status \in 0 .. MaxXid /\ slot[n].lsn \in 0 .. MaxXid
      BY CopyFacts DEF CopiesInv, CopiesType
    <3> QED
      BY <2>3, <3>1, <3>2, CopyFacts DEF C!Advances
  <2>9. v.queue = q /\ v.forced = m.forced /\ v.known = m.known
    BY <2>4, <2>7, RewrittenQueue
  <2>10. u \in Remembers /\ u.queue = q /\ u.forced = m.forced /\ u.known = m.known
    <3>1. PICK f \in BOOLEAN : f = FALSE
      OBVIOUS
    <3>2. u = RewrittenRest(m, q, lsn, f, c)
      BY <2>6, <3>1 DEF RewrittenRest
    <3> QED
      BY <2>7, <2>8, <3>2, RewrittenRestIs
  <2>11. Sound(n, u)
    BY <2>5, <2>9, <2>10 DEF Sound
  <2> QED
    BY <1>1, <2>3, <2>6, <2>11, StandbySound
<1> QED
  BY <1>4, <1>5

\* A step that leaves alone what the node holds about its copy.
LEMMA RestKeeps ==
  ASSUME CopiesAssumption, CopiesInv, NEW r \in Node, r # primary,
         NEW s \in Held, slot' = [slot EXCEPT ![r] = s],
         s = slot[r] \/ (slot[r] # C!NoSlot /\ s # C!NoSlot /\ slot[r].xmin <= s.xmin),
         NEW m \in Remembers, mind' = [mind EXCEPT ![r] = m],
         m.queue = mind[r].queue, m.forced = mind[r].forced, m.known = mind[r].known,
         UNCHANGED <<primary, follows, removed, phys, status>>
  PROVE  CopiesInv'
<1>1. slot'[r] = s /\ mind'[r] = m /\ Looked(r) /\ Waits(r) /\ Guards(r)
  BY DEF CopiesInv, CopiesType
<1>2. slot[r].xmin \in Nat /\ s.xmin \in Nat /\ phys[r] \in Nat /\ \A k \in Node : removed[k] \in Nat
  BY CopyFacts DEF CopiesInv, CopiesType
<1>3. s = C!NoSlot <=> slot[r] = C!NoSlot
  OBVIOUS
<1>4. slot[r].xmin <= s.xmin
  BY <1>2
<1>5. Looked(r)'
  BY <1>1, <1>3 DEF Looked, Stands
<1>6. Waits(r)'
  BY <1>1 DEF Waits, Follows
<1>7. Guards(r)'
  BY <1>1, <1>2, <1>3, <1>4 DEF Guards, ReadyCopy, Follows, Stands
<1> QED
  BY <1>5, <1>6, <1>7, StandbyKeeps

LEMMA AdvanceKeeps ==
  ASSUME CopiesAssumption, CopiesInv, NEW n \in Node, C!Advance(n) PROVE CopiesInv'
<1>1. /\ n # primary /\ slot \in [Node -> Held] /\ mind \in [Node -> Remembers]
      /\ UNCHANGED <<primary, follows, removed, phys, status>>
  BY DEF C!Advance, C!Standby, CopiesInv, CopiesType
<1>2. CASE slot[n] # C!NoSlot /\ \E s \in C!Later(slot[n], mind[n].advance) : slot' = [slot EXCEPT ![n] = s]
           /\ mind' = [mind EXCEPT ![n].advance = 0]
  <2>1. PICK s \in C!Slot : s.xmin >= slot[n].xmin /\ slot' = [slot EXCEPT ![n] = s]
    BY <1>2 DEF C!Later
  <2>2. PICK m : m = [mind[n] EXCEPT !.advance = 0]
    OBVIOUS
  <2>3. /\ m \in Remembers /\ m.queue = mind[n].queue /\ m.forced = mind[n].forced
        /\ m.known = mind[n].known
    BY <1>1, <2>2, CopyFacts DEF Remembers
  <2>4. s \in Held /\ s # C!NoSlot /\ s.xmin \in Nat /\ slot[n].xmin \in Nat
    BY <1>1, CopyFacts
  <2>5. mind' = [mind EXCEPT ![n] = m]
    BY <1>2, <2>2
  <2> QED
    BY <1>1, <1>2, <2>1, <2>3, <2>4, <2>5, RestKeeps
<1>3. CASE UNCHANGED slot /\ mind' = [mind EXCEPT ![n].advance = 0, ![n].again = TRUE]
  <2>1. PICK v : v = [mind[n] EXCEPT !.advance = 0]
    OBVIOUS
  <2>2. /\ v \in Remembers /\ v.queue = mind[n].queue /\ v.forced = mind[n].forced
        /\ v.known = mind[n].known
    BY <1>1, <2>1, CopyFacts DEF Remembers
  <2>3. PICK m : m = [v EXCEPT !.again = TRUE]
    OBVIOUS
  <2>4. /\ m \in Remembers /\ m.queue = mind[n].queue /\ m.forced = mind[n].forced
        /\ m.known = mind[n].known
    BY <2>2, <2>3 DEF Remembers
  <2>5. mind' = [mind EXCEPT ![n] = m] /\ slot' = [slot EXCEPT ![n] = slot[n]] /\ slot[n] \in Held
    BY <1>1, <1>3, <2>1, <2>3
  <2> QED
    BY <1>1, <2>4, <2>5, RestKeeps
<1> QED
  BY <1>2, <1>3 DEF C!Advance

\* copy_logical_slots.
LEMMA CopyReadKeeps ==
  ASSUME CopiesAssumption, CopiesInv, NEW n \in Node, C!CopyRead(n) PROVE CopiesInv'
<1>1. /\ n # primary /\ slot \in [Node -> Held] /\ mind[n] \in Remembers
      /\ UNCHANGED <<primary, follows, slot, removed, phys, status>>
  BY DEF C!CopyRead, C!Standby, CopiesInv, CopiesType
<1>2. PICK m : mind' = [mind EXCEPT ![n] = m] /\ m \in {[mind[n] EXCEPT !.data = slot[primary]],
                                                        [mind[n] EXCEPT !.copying = FALSE]}
               /\ (m # [mind[n] EXCEPT !.copying = FALSE] => primary # None)
  BY DEF C!CopyRead
<1>3. /\ m \in Remembers /\ m.queue = mind[n].queue /\ m.forced = mind[n].forced
      /\ m.known = mind[n].known
  <2>1. CASE m = [mind[n] EXCEPT !.copying = FALSE]
    BY <1>1, <2>1 DEF Remembers
  <2>2. CASE m = [mind[n] EXCEPT !.data = slot[primary]] /\ primary # None
    <3>1. slot[primary] \in Held
      BY <2>2 DEF CopiesInv, CopiesType
    <3> QED
      BY <1>1, <2>2, <3>1 DEF Remembers
  <2> QED
    BY <1>2, <2>1, <2>2
<1>4. slot[n] \in Held /\ slot' = [slot EXCEPT ![n] = slot[n]]
  BY <1>1
<1> QED
  BY <1>1, <1>2, <1>3, <1>4, RestKeeps

\* What is to be checked afresh is not said to be safe.
LEMMA ForcedKeeps ==
  ASSUME CopiesAssumption, CopiesInv, NEW r \in Node, r # primary,
         NEW s \in Held, slot' = [slot EXCEPT ![r] = s],
         NEW m \in Remembers, mind' = [mind EXCEPT ![r] = m], m.forced,
         UNCHANGED <<primary, follows, removed, phys, status>>
  PROVE  CopiesInv'
<1>1. mind'[r] = m
  BY DEF CopiesInv, CopiesType
<1>2. Looked(r)' /\ Waits(r)' /\ Guards(r)'
  BY <1>1 DEF Looked, Waits, Guards, ReadyCopy
<1> QED
  BY <1>2, StandbyKeeps

LEMMA FreshForced ==
  ASSUME CopiesAssumption, NEW q \in 0 .. MaxXid + 1, NEW k \in BOOLEAN
  PROVE  LET u == [C!Fresh(TRUE) EXCEPT !.queue = q, !.known = k] IN
         u \in Remembers /\ u.forced
<1>1. PICK t \in BOOLEAN : t = TRUE
  OBVIOUS
<1>2. PICK v : v = C!Fresh(t)
  OBVIOUS
<1>3. v \in Remembers /\ v.forced = t
  BY <1>2, CopyFacts DEF Remembers, C!Fresh
<1>4. PICK x : x = [v EXCEPT !.queue = q]
  OBVIOUS
<1>5. x \in Remembers /\ x.forced = t
  BY <1>3, <1>4, RewrittenQueue
<1>6. PICK u : u = [x EXCEPT !.known = k]
  OBVIOUS
<1>7. u \in Remembers /\ u.forced = t
  BY <1>5, <1>6 DEF Remembers
<1>8. [C!Fresh(TRUE) EXCEPT !.queue = q, !.known = k] = u
  BY <1>1, <1>2, <1>4, <1>6
<1> QED
  BY <1>1, <1>7, <1>8

LEMMA CopyWriteKeeps ==
  ASSUME CopiesAssumption, CopiesInv, NEW n \in Node, C!CopyWrite(n) PROVE CopiesInv'
<1>1. /\ n # primary /\ slot' = [slot EXCEPT ![n] = mind[n].data] /\ mind[n] \in Remembers
      /\ UNCHANGED <<primary, follows, removed, phys, status>>
  BY DEF C!CopyWrite, C!Standby, CopiesInv, CopiesType
<1>2. PICK k \in BOOLEAN : k = mind[n].known
  BY <1>1 DEF Remembers
<1>3. PICK m : m = [C!Fresh(TRUE) EXCEPT !.queue = C!Unknown, !.known = k]
  OBVIOUS
<1>4. m \in Remembers /\ m.forced
  <2>1. C!Unknown \in 0 .. MaxXid + 1
    BY CopyFacts
  <2> QED
    BY <1>3, <2>1, FreshForced
<1>5. mind' = [mind EXCEPT ![n] = m]
  BY <1>2, <1>3 DEF C!CopyWrite
<1>6. mind[n].data \in Held
  BY <1>1 DEF Remembers
<1> QED
  BY <1>1, <1>4, <1>5, <1>6, ForcedKeeps

\* Crashes and failovers.
LEMMA CopyCrashKeeps ==
  ASSUME CopiesAssumption, CopiesInv, NEW n \in Node, C!Crash(n) PROVE CopiesInv'
<1>1. n # primary /\ mind[n] \in Remembers /\ UNCHANGED <<primary, follows, removed, phys, status>>
  BY DEF C!Crash, C!Standby, CopiesInv, CopiesType
<1>2. PICK s \in Held : slot' = [slot EXCEPT ![n] = s]
  BY DEF C!Crash, Held
<1>3. PICK m : m = [mind[n] EXCEPT !.forced = TRUE]
  OBVIOUS
<1>4. m \in Remembers /\ m.forced
  BY <1>1, <1>3 DEF Remembers
<1>5. mind' = [mind EXCEPT ![n] = m]
  BY <1>3 DEF C!Crash
<1> QED
  BY <1>1, <1>2, <1>4, <1>5, ForcedKeeps

LEMMA PrimaryDiesKeeps ==
  ASSUME CopiesAssumption, CopiesInv, C!PrimaryDies, Followed PROVE CopiesInv'
<1>1. /\ primary \in Node /\ primary # None /\ primary' = None
      /\ follows' = [follows EXCEPT ![primary] = None]
      /\ UNCHANGED <<slot, removed, phys, status, mind>>
  BY DEF C!PrimaryDies, CopiesInv, CopiesType
<1>2. \A n \in Node : follows[n] \in {primary, None}
  BY DEF Followed
<1>3. /\ follows' \in [Node -> Node \cup {None}] /\ follows'[primary] = None
      /\ \A n \in Node : n # primary => follows'[n] = follows[n]
  BY <1>1 DEF CopiesInv, CopiesType
<1>4. CopiesType'
  BY <1>1, <1>3 DEF CopiesInv, CopiesType
<1>5. PrimaryAbove' /\ FedBack'
  BY <1>1 DEF PrimaryAbove, FedBack
<1>6. Abandoned'
  BY <1>1, <1>2, <1>3 DEF Abandoned, Stands, CopiesAssumption
<1>7. ASSUME NEW n \in Node PROVE Looked(n)' /\ Waits(n)' /\ Guards(n)'
  <2>1. Looked(n) /\ Waits(n) /\ Guards(n)
    BY DEF CopiesInv
  <2>2. Stands(n)' => Stands(n) /\ Follows(n)
    BY <1>1, <1>2, <1>3 DEF Stands, Follows
  <2>3. Looked(n)'
    BY <1>1, <2>1, <2>2 DEF Looked
  <2>4. Waits(n)'
    BY <1>1 DEF Waits, Follows
  <2>5. slot[n].xmin \in Nat /\ phys[n] \in Nat /\ \A m \in Node : removed[m] \in Nat
    BY CopyFacts DEF CopiesInv, CopiesType
  <2>6. ASSUME ReadyCopy(n)' PROVE \A m \in Node : removed[m] <= slot[n].xmin
    <3>1. ReadyCopy(n) /\ Follows(n)
      BY <1>1, <2>2, <2>6 DEF ReadyCopy
    <3> QED
      BY <2>1, <2>5, <3>1 DEF Guards
  <2>7. Guards(n)'
    BY <1>1, <2>6 DEF Guards, Follows
  <2> QED
    BY <2>3, <2>4, <2>7
<1> QED
  BY <1>4, <1>5, <1>6, <1>7 DEF CopiesInv

LEMMA CopyPromoteKeeps ==
  ASSUME CopiesAssumption, CopiesInv, NEW r \in Node, C!Promote(r) PROVE CopiesInv'
<1>1. /\ primary = None /\ Stands(r) /\ primary' = r /\ mind[r].queue = C!Done /\ ~mind[r].forced
      /\ mind' = [mind EXCEPT ![r].advance = 0, ![r].again = FALSE]
      /\ phys' = [m \in Node |-> 0] /\ UNCHANGED <<follows, slot, removed, status>>
  BY DEF C!Promote, C!Standby, Stands
<1>2. mind' \in [Node -> Remembers] /\ \A n \in Node : n # r => mind'[n] = mind[n]
  <2>1. mind \in [Node -> Remembers]
    BY DEF CopiesInv, CopiesType
  <2>2. PICK v : v = [mind[r] EXCEPT !.advance = 0]
    OBVIOUS
  <2>3. v \in Remembers
    BY <2>1, <2>2, CopyFacts DEF Remembers
  <2>4. PICK m : m = [v EXCEPT !.again = FALSE]
    OBVIOUS
  <2>5. m \in Remembers
    BY <2>3, <2>4 DEF Remembers
  <2>6. mind' = [mind EXCEPT ![r] = m]
    BY <1>1, <2>1, <2>2, <2>4
  <2> QED
    BY <2>1, <2>5, <2>6
<1>3. phys' \in [Node -> 0 .. MaxXid]
  BY <1>1, CopyFacts
<1>4. CopiesType'
  BY <1>1, <1>2, <1>3 DEF CopiesInv, CopiesType
<1>5. PrimaryAbove'
  <2>1. Guards(r)
    BY DEF CopiesInv
  <2> QED
    BY <1>1, <2>1 DEF PrimaryAbove, Guards, ReadyCopy
<1>6. r # None /\ \A n \in Node : follows[n] # r
  BY <1>1 DEF CopiesInv, Abandoned, CopiesAssumption
<1>7. Abandoned' /\ FedBack'
  BY <1>1, <1>6 DEF Abandoned, FedBack
<1>8. ASSUME NEW n \in Node PROVE Looked(n)' /\ Waits(n)' /\ Guards(n)'
  <2>1. Looked(n) /\ Waits(n) /\ Guards(n)
    BY DEF CopiesInv
  <2>2. Stands(n)' => Stands(n) /\ n # r
    BY <1>1 DEF Stands, CopiesAssumption
  <2>3. ~Follows(n)'
    BY <1>1, <1>6 DEF Follows
  <2> QED
    BY <1>1, <1>2, <1>6, <2>1, <2>2, <2>3 DEF Looked, Waits, Guards, ReadyCopy
<1> QED
  BY <1>4, <1>5, <1>7, <1>8 DEF CopiesInv

LEMMA CopyFollowKeeps ==
  ASSUME CopiesAssumption, CopiesInv, NEW r \in Node, C!Follow(r) PROVE CopiesInv'
<1>1. /\ primary \in Node /\ primary # None /\ r # primary /\ follows[r] # None
      /\ follows' = [follows EXCEPT ![r] = primary] /\ mind' = [mind EXCEPT ![r].forced = TRUE]
      /\ UNCHANGED <<primary, slot, removed, phys, status>>
  BY DEF C!Follow, C!Standby, CopiesInv, CopiesType, CopiesAssumption
<1>2. /\ follows' \in [Node -> Node \cup {None}] /\ \A n \in Node : n # r => follows'[n] = follows[n]
  BY <1>1 DEF CopiesInv, CopiesType
<1>3. /\ mind' \in [Node -> Remembers] /\ mind'[r].forced /\ \A n \in Node : n # r => mind'[n] = mind[n]
  <2>1. mind \in [Node -> Remembers]
    BY DEF CopiesInv, CopiesType
  <2>2. PICK m : m = [mind[r] EXCEPT !.forced = TRUE]
    OBVIOUS
  <2>3. m \in Remembers /\ m.forced
    BY <2>1, <2>2 DEF Remembers
  <2>4. mind' = [mind EXCEPT ![r] = m]
    BY <1>1, <2>2
  <2> QED
    BY <2>1, <2>3, <2>4
<1>4. CopiesType'
  BY <1>1, <1>2, <1>3 DEF CopiesInv, CopiesType
<1>5. PrimaryAbove' /\ Abandoned'
  BY <1>1 DEF CopiesInv, PrimaryAbove, Abandoned
<1>6. FedBack'
  <2>1. follows'[r] = primary
    BY <1>1 DEF CopiesInv, CopiesType
  <2> QED
    BY <1>1, <1>2, <2>1 DEF CopiesInv, FedBack
<1>7. \A n \in Node : n # r => Looked(n)' /\ Waits(n)' /\ Guards(n)'
  BY <1>1, <1>2, <1>3 DEF CopiesInv, Looked, Waits, Guards, ReadyCopy, Follows, Stands
<1>8. Looked(r)' /\ Waits(r)' /\ Guards(r)'
  BY <1>3 DEF Looked, Waits, Guards, ReadyCopy
<1> QED
  BY <1>4, <1>5, <1>6, <1>7, <1>8 DEF CopiesInv

LEMMA RejoinKeeps ==
  ASSUME CopiesAssumption, CopiesInv, NEW r \in Node, C!Rejoin(r) PROVE CopiesInv'
<1>1. /\ primary \in Node /\ primary # None /\ r # primary /\ follows[r] = None
      /\ follows' = [follows EXCEPT ![r] = primary]
      /\ removed' = [removed EXCEPT ![r] = removed[primary]]
      /\ slot' = slot \/ slot' = [slot EXCEPT ![r] = C!NoSlot]
      /\ mind' = [mind EXCEPT ![r] = C!Fresh(TRUE)] /\ UNCHANGED <<primary, phys, status>>
  BY DEF C!Rejoin, CopiesInv, CopiesType
<1>2. /\ follows' \in [Node -> Node \cup {None}] /\ \A n \in Node : n # r => follows'[n] = follows[n]
      /\ follows'[r] = primary
  BY <1>1 DEF CopiesInv, CopiesType
<1>3. /\ mind' \in [Node -> Remembers] /\ mind'[r].forced /\ \A n \in Node : n # r => mind'[n] = mind[n]
  <2>1. PICK m : m = [C!Fresh(TRUE) EXCEPT !.queue = C!Done, !.known = FALSE]
    OBVIOUS
  <2>2. m \in Remembers /\ m.forced
    <3>1. C!Done \in 0 .. MaxXid + 1 /\ FALSE \in BOOLEAN
      BY CopyFacts
    <3>2. PICK f \in BOOLEAN : f = FALSE
      OBVIOUS
    <3>3. m = [C!Fresh(TRUE) EXCEPT !.queue = C!Done, !.known = f]
      BY <2>1, <3>2
    <3> QED
      BY <3>1, <3>3, FreshForced
  <2>3. C!Fresh(TRUE) = m
    BY <2>1 DEF C!Fresh
  <2>4. mind' = [mind EXCEPT ![r] = m]
    BY <1>1, <2>3
  <2> QED
    BY <2>2, <2>4 DEF CopiesInv, CopiesType
<1>4. slot' \in [Node -> Held] /\ \A n \in Node : n # r => slot'[n] = slot[n]
  BY <1>1, CopyFacts DEF CopiesInv, CopiesType
<1>5. /\ removed' \in [Node -> 1 .. MaxXid]
      /\ \A m \in Node : removed'[m] = IF m = r THEN removed[primary] ELSE removed[m]
  BY <1>1 DEF CopiesInv, CopiesType
<1>6. CopiesType'
  BY <1>1, <1>2, <1>3, <1>4, <1>5 DEF CopiesInv, CopiesType
<1>7. PrimaryAbove' /\ Abandoned' /\ FedBack'
  BY <1>1, <1>2, <1>4, <1>5 DEF CopiesInv, PrimaryAbove, Abandoned, FedBack
<1>8. ASSUME NEW n \in Node, n # r PROVE Looked(n)' /\ Waits(n)' /\ Guards(n)'
  <2>1. Looked(n) /\ Waits(n) /\ Guards(n)
    BY DEF CopiesInv
  <2>2. UNCHANGED <<slot[n], mind[n], follows[n], phys[n], removed[n], primary>>
    BY <1>1, <1>2, <1>3, <1>4, <1>5, <1>8
  <2>3. Looked(n)'
    BY <2>1, <2>2 DEF Looked, Stands
  <2>4. Waits(n)'
    BY <1>1, <1>5, <2>1, <2>2 DEF Waits, Follows
  <2>5. Guards(n)'
    BY <1>1, <1>5, <2>1, <2>2 DEF Guards, ReadyCopy, Follows, Stands
  <2> QED
    BY <2>3, <2>4, <2>5
<1>9. Looked(r)' /\ Waits(r)' /\ Guards(r)'
  BY <1>3 DEF Looked, Waits, Guards, ReadyCopy
<1> QED
  BY <1>6, <1>7, <1>8, <1>9 DEF CopiesInv

LEMMA CopiesStep ==
  ASSUME CopiesAssumption, CopiesInv, [C!LogicalSlotsNext]_(C!vars), Followed PROVE CopiesInv'
<1>1. CASE UNCHANGED C!vars
  BY <1>1 DEF C!vars, CopiesInv, CopiesType, PrimaryAbove, Abandoned, FedBack,
              Looked, Waits, Guards, ReadyCopy, Follows, Stands
<1>2. CASE C!LogicalSlotsNext
  BY <1>2, ConsumeKeeps, VacuumKeeps, LeadKeeps, PrimaryDiesKeeps, ReplayKeeps, FeedbackKeeps,
     SyncKeeps, AdvanceKeeps, CopyReadKeeps, CopyWriteKeeps, CopyCrashKeeps, CopyPromoteKeeps, CopyFollowKeeps,
     RejoinKeeps DEF C!LogicalSlotsNext
<1> QED
  BY <1>1, <1>2

LEMMA CopiesSafe == CopiesInv => C!ReadyIsSafe
BY DEF CopiesInv, Guards, ReadyCopy, Stands, C!ReadyIsSafe, C!Standby

\* Until the first fault everybody follows the primary.
Undisturbed ==
  /\ faults \in Nat
  /\ faults = 0 => primary \in Node /\ follows = [n \in Node |-> primary]

LEMMA UndisturbedInitially == ASSUME Node # {} PROVE C!Init => Undisturbed
BY DEF C!Init, Undisturbed

LEMMA UndisturbedStep ==
  ASSUME CopiesAssumption, Undisturbed, [C!LogicalSlotsNext]_(C!vars) PROVE Undisturbed'
<1>1. ASSUME faults' = faults, faults = 0 PROVE primary' = primary /\ follows' = follows
  <2>1. primary \in Node /\ primary # None /\ \A n \in Node : follows[n] = primary
    BY <1>1 DEF Undisturbed, CopiesAssumption
  <2>2. faults \in Nat
    BY DEF Undisturbed
  <2>3. ASSUME NEW n \in Node PROVE ~C!Promote(n) /\ ~C!Follow(n) /\ ~C!Rejoin(n) /\ ~C!Crash(n)
    <3>1. C!Promote(n) => primary = None
      BY Zenon DEF C!Promote
    <3>2. C!Follow(n) => follows[n] # primary
      BY Zenon DEF C!Follow
    <3>3. C!Rejoin(n) => follows[n] = None
      BY Zenon DEF C!Rejoin
    <3>4. C!Crash(n) => faults' = faults + 1
      BY Zenon DEF C!Crash, C!Fault
    <3> QED
      BY <1>1, <2>1, <2>2, <3>1, <3>2, <3>3, <3>4
  <2>4. ~C!PrimaryDies
    BY <1>1, <2>2 DEF C!PrimaryDies, C!Fault
  <2>5. C!Consume \/ C!Vacuum \/ C!Lead \/ UNCHANGED C!vars
        \/ \E n \in Node : \/ C!Replay(n) \/ C!Feedback(n) \/ C!Sync(n) \/ C!Advance(n)
                           \/ C!CopyRead(n) \/ C!CopyWrite(n)
    BY <2>3, <2>4 DEF C!LogicalSlotsNext
  <2>6. C!Consume \/ C!Vacuum \/ C!Lead \/ UNCHANGED C!vars => UNCHANGED <<primary, follows>>
    BY Zenon DEF C!Consume, C!Vacuum, C!Lead, C!vars
  <2>7. ASSUME NEW n \in Node
        PROVE  C!Replay(n) \/ C!Feedback(n) \/ C!Sync(n) => UNCHANGED <<primary, follows>>
    BY Zenon DEF C!Replay, C!Feedback, C!Sync
  <2>8. ASSUME NEW n \in Node
        PROVE  C!Advance(n) \/ C!CopyRead(n) \/ C!CopyWrite(n) => UNCHANGED <<primary, follows>>
    BY Zenon DEF C!Advance, C!CopyRead, C!CopyWrite
  <2>9. UNCHANGED <<primary, follows>>
    BY <2>5, <2>6, <2>7, <2>8
  <2> QED
    BY <2>9
<1>2. faults' = faults \/ (faults \in Nat /\ faults' = faults + 1)
  <2>1. C!Consume \/ C!Vacuum \/ C!Lead \/ UNCHANGED C!vars => faults' = faults
    BY Zenon DEF C!Consume, C!Vacuum, C!Lead, C!vars
  <2>2. ASSUME NEW n \in Node
        PROVE  C!Replay(n) \/ C!Feedback(n) \/ C!Sync(n) \/ C!CopyRead(n) \/ C!CopyWrite(n)
                 => faults' = faults
    BY Zenon DEF C!Replay, C!Feedback, C!Sync, C!CopyRead, C!CopyWrite
  <2>3. ASSUME NEW n \in Node
        PROVE  C!Promote(n) \/ C!Follow(n) \/ C!Rejoin(n) => faults' = faults
    BY Zenon DEF C!Promote, C!Follow, C!Rejoin
  <2>4. C!PrimaryDies => faults' = faults + 1
    BY Zenon DEF C!PrimaryDies, C!Fault
  <2>5. ASSUME NEW n \in Node PROVE C!Crash(n) => faults' = faults + 1
    BY Zenon DEF C!Crash, C!Fault
  <2>6. ASSUME NEW n \in Node PROVE C!Advance(n) => faults' \in {faults, faults + 1}
    BY DEF C!Advance, C!Fault
  <2>7. faults \in Nat
    BY DEF Undisturbed
  <2> QED
    BY <2>1, <2>2, <2>3, <2>4, <2>5, <2>6, <2>7 DEF C!LogicalSlotsNext
<1> QED
  BY <1>1, <1>2 DEF Undisturbed

LEMMA FirstIsFollowed ==
  ASSUME CopiesAssumption, Undisturbed, MaxFaults \in {0, 1} PROVE Followed
BY DEF Undisturbed, Followed, C!PrimaryDies, C!Fault

\* A copy of a permanent slot that is said to be safe after a failover is (SlotsHandler,
\* check_logical_slots_readiness): whatever the number of nodes, transactions and faults, if
\* the nodes that are up have followed the primary that dies, and a change of the primary is
\* always a restart.
THEOREM FollowedCopyIsSafe ==
  ASSUME CopiesAssumption, Node # {}
  PROVE  C!LogicalSlotsSpec /\ [][Followed]_(C!vars) => []C!ReadyIsSafe
<1>1. C!Init => CopiesInv
  BY CopiesInitially
<1>2. CopiesInv /\ [C!LogicalSlotsNext]_(C!vars) /\ [Followed]_(C!vars) => CopiesInv'
  <2> SUFFICES ASSUME CopiesInv, [C!LogicalSlotsNext]_(C!vars), [Followed]_(C!vars) PROVE CopiesInv'
    OBVIOUS
  <2>1. CASE Followed
    BY <2>1, CopiesStep
  <2>2. CASE UNCHANGED C!vars
    BY <2>2 DEF C!vars, CopiesInv, CopiesType, PrimaryAbove, Abandoned, FedBack,
                Looked, Waits, Guards, ReadyCopy, Follows, Stands
  <2> QED
    BY <2>1, <2>2
<1> QED
  BY <1>1, <1>2, CopiesSafe, PTL DEF C!LogicalSlotsSpec

\* One fault cannot but find everybody following: a copy that is said to be safe is.
THEOREM ReadyCopyIsSafe ==
  ASSUME CopiesAssumption, Node # {}, MaxFaults \in {0, 1}
  PROVE  C!LogicalSlotsSpec => []C!ReadyIsSafe
<1>1. C!Init => CopiesInv /\ Undisturbed
  BY CopiesInitially, UndisturbedInitially
<1>2. CopiesInv /\ Undisturbed /\ [C!LogicalSlotsNext]_(C!vars) => CopiesInv' /\ Undisturbed'
  BY CopiesStep, UndisturbedStep, FirstIsFollowed
<1> QED
  BY <1>1, <1>2, CopiesSafe, PTL DEF C!LogicalSlotsSpec
-----------------------------------------------------------------------------
\* Units.  What Patroni and PostgreSQL make of a value is a fraction of the base unit, rounded
\* twice.  Rounding depends on the ratio alone; every unit makes a whole number of the next
\* smaller one, and of the base unit if that is 8kB or 16kB of it: so the first rounding of a
\* whole number of units is none at all, and with a plain base unit both round the same.

\* A kB is a multiple of 16 bytes, as it is with 1024.
UnitsAssumption == MaxValue \in Nat /\ \E c \in Nat \ {0} : Kilo = 16 * c

LEMMA Quotient ==
  ASSUME NEW a \in Nat, NEW b \in Nat \ {0}, NEW q \in Nat, NEW r \in 0 .. b - 1, a = q * b + r
  PROVE  a \div b = q /\ a % b = r
<1>1. a \div b = q
  OBVIOUS
<1>2. a % b = r
  OBVIOUS
<1> QED
  BY <1>1, <1>2

\* Rounding depends on the ratio alone.
LEMMA RoundSame ==
  ASSUME NEW a \in Nat, NEW b \in Nat \ {0}, NEW c \in Nat, NEW d \in Nat \ {0}, a * d = c * b
  PROVE  U!Round(<<a, b>>) = U!Round(<<c, d>>)
<1>1. PICK q \in Nat, r \in Nat : q = a \div b /\ r = a % b /\ a = q * b + r /\ r < b
  <2>1. PICK q \in Nat : q = a \div b
    OBVIOUS
  <2>2. PICK r \in Nat : r = a % b /\ r < b
    OBVIOUS
  <2>3. a = b * q + r
    BY <2>1, <2>2
  <2>4. a = q * b + r
    BY <2>3
  <2> QED
    BY <2>1, <2>2, <2>4
<1>2. PICK s \in Int : s = c - q * d
  OBVIOUS
<1>3. s * b = r * d
  <2>1. s * b = c * b - (q * d) * b
    BY <1>2
  <2>2. a * d = (q * b) * d + r * d
    BY <1>1
  <2>3. (q * d) * b = (q * b) * d
    OBVIOUS
  <2> QED
    BY <2>1, <2>2, <2>3
<1>4. s \in 0 .. d - 1
  <2>1. r * d >= 0
    BY <1>1
  <2>2. s >= 0
    <3>1. s < 0 => s * b < 0
      OBVIOUS
    <3> QED
      BY <1>3, <2>1, <3>1
  <2>3. r * d < b * d
    BY <1>1
  <2>4. s < d
    <3>1. s >= d => s * b >= d * b
      OBVIOUS
    <3>2. d * b = b * d /\ s * b \in Int /\ d * b \in Int
      OBVIOUS
    <3> QED
      BY <1>3, <2>3, <3>1, <3>2
  <2> QED
    BY <2>2, <2>4
<1>5. c = q * d + s
  BY <1>2
<1>6. c \div d = q /\ c % d = s
  BY <1>4, <1>5, Quotient
<1>7. (2 * r) * d = (2 * s) * b
  BY <1>3
<1>8. 2 * r > b <=> 2 * s > d
  <2>1. 2 * r > b => (2 * r) * d > b * d
    OBVIOUS
  <2>2. 2 * r <= b => (2 * r) * d <= b * d
    OBVIOUS
  <2>3. 2 * s > d => (2 * s) * b > d * b
    OBVIOUS
  <2>4. 2 * s <= d => (2 * s) * b <= d * b
    OBVIOUS
  <2>5. d * b = b * d /\ b * d \in Int /\ (2 * r) * d \in Int
    OBVIOUS
  <2> QED
    BY <1>7, <2>1, <2>2, <2>3, <2>4, <2>5
<1>9. 2 * r = b <=> 2 * s = d
  <2>1. 2 * r = b => (2 * s) * b = d * b
    BY <1>7
  <2>2. (2 * s) * b = d * b => 2 * s = d
    <3>1. 2 * s > d => (2 * s) * b > d * b
      OBVIOUS
    <3>2. 2 * s < d => (2 * s) * b < d * b
      OBVIOUS
    <3> QED
      BY <3>1, <3>2
  <2>3. 2 * s = d => (2 * r) * d = b * d
    BY <1>7
  <2>4. (2 * r) * d = b * d => 2 * r = b
    <3>1. 2 * r > b => (2 * r) * d > b * d
      OBVIOUS
    <3>2. 2 * r < b => (2 * r) * d < b * d
      OBVIOUS
    <3> QED
      BY <3>1, <3>2
  <2> QED
    BY <2>1, <2>2, <2>3, <2>4
<1> QED
  BY <1>1, <1>6, <1>8, <1>9 DEF U!Round

LEMMA RoundWhole ==
  ASSUME NEW w \in Nat, NEW b \in Nat \ {0}, NEW a, a = w * b
  PROVE  U!Round(<<a, b>>) = w
<1>1. U!Round(<<w, 1>>) = w
  <2>1. w \div 1 = w /\ w % 1 = 0
    OBVIOUS
  <2> QED
    BY <2>1 DEF U!Round
<1>2. a \in Nat /\ a * 1 = w * b
  OBVIOUS
<1> QED
  BY <1>1, <1>2, RoundSame

\* The table, row by row.
LEMMA RowsOfMB ==
  /\ DOMAIN U!In["MB"] = {"TB", "GB", "MB", "kB", "B"}
  /\ U!get_conversion_table("TB", "MB") = <<Kilo * Kilo, 1>>
  /\ U!get_conversion_table("GB", "MB") = <<Kilo, 1>>
  /\ U!get_conversion_table("MB", "MB") = <<1, 1>>
  /\ U!get_conversion_table("kB", "MB") = <<1, Kilo>>
  /\ U!get_conversion_table("B", "MB") = <<1, Kilo * Kilo>>
BY DEF U!get_conversion_table, U!In, U!Whole, U!Part
LEMMA RowsOfKB ==
  /\ DOMAIN U!In["kB"] = {"TB", "GB", "MB", "kB", "B"}
  /\ U!get_conversion_table("TB", "kB") = <<Kilo * Kilo * Kilo, 1>>
  /\ U!get_conversion_table("GB", "kB") = <<Kilo * Kilo, 1>>
  /\ U!get_conversion_table("MB", "kB") = <<Kilo, 1>>
  /\ U!get_conversion_table("kB", "kB") = <<1, 1>>
  /\ U!get_conversion_table("B", "kB") = <<1, Kilo>>
BY DEF U!get_conversion_table, U!In, U!Whole, U!Part
LEMMA RowsOfB ==
  /\ DOMAIN U!In["B"] = {"TB", "GB", "MB", "kB", "B"}
  /\ U!get_conversion_table("TB", "B") = <<Kilo * Kilo * Kilo * Kilo, 1>>
  /\ U!get_conversion_table("GB", "B") = <<Kilo * Kilo * Kilo, 1>>
  /\ U!get_conversion_table("MB", "B") = <<Kilo * Kilo, 1>>
  /\ U!get_conversion_table("kB", "B") = <<Kilo, 1>>
  /\ U!get_conversion_table("B", "B") = <<1, 1>>
BY DEF U!get_conversion_table, U!In, U!Whole, U!Part
LEMMA RowsOfMin ==
  /\ DOMAIN U!In["min"] = {"d", "h", "min", "s", "ms", "us"}
  /\ U!get_conversion_table("d", "min") = <<60 * 24, 1>>
  /\ U!get_conversion_table("h", "min") = <<60, 1>>
  /\ U!get_conversion_table("min", "min") = <<1, 1>>
  /\ U!get_conversion_table("s", "min") = <<1, 60>>
  /\ U!get_conversion_table("ms", "min") = <<1, 1000 * 60>>
  /\ U!get_conversion_table("us", "min") = <<1, 1000 * 1000 * 60>>
BY DEF U!get_conversion_table, U!In, U!Whole, U!Part
LEMMA RowsOfS ==
  /\ DOMAIN U!In["s"] = {"d", "h", "min", "s", "ms", "us"}
  /\ U!get_conversion_table("d", "s") = <<60 * 60 * 24, 1>>
  /\ U!get_conversion_table("h", "s") = <<60 * 60, 1>>
  /\ U!get_conversion_table("min", "s") = <<60, 1>>
  /\ U!get_conversion_table("s", "s") = <<1, 1>>
  /\ U!get_conversion_table("ms", "s") = <<1, 1000>>
  /\ U!get_conversion_table("us", "s") = <<1, 1000 * 1000>>
BY DEF U!get_conversion_table, U!In, U!Whole, U!Part
LEMMA RowsOfMs ==
  /\ DOMAIN U!In["ms"] = {"d", "h", "min", "s", "ms", "us"}
  /\ U!get_conversion_table("d", "ms") = <<1000 * 60 * 60 * 24, 1>>
  /\ U!get_conversion_table("h", "ms") = <<1000 * 60 * 60, 1>>
  /\ U!get_conversion_table("min", "ms") = <<1000 * 60, 1>>
  /\ U!get_conversion_table("s", "ms") = <<1000, 1>>
  /\ U!get_conversion_table("ms", "ms") = <<1, 1>>
  /\ U!get_conversion_table("us", "ms") = <<1, 1000>>
BY DEF U!get_conversion_table, U!In, U!Whole, U!Part
LEMMA Order ==
  /\ U!Next("TB") = "GB" /\ U!Next("GB") = "MB" /\ U!Next("MB") = "kB" /\ U!Next("kB") = "B"
  /\ U!Next("d") = "h" /\ U!Next("h") = "min" /\ U!Next("min") = "s" /\ U!Next("s") = "ms"
  /\ U!Next("ms") = "us" /\ U!IsLast("B") /\ U!IsLast("us")
BY DEF U!Next, U!IsLast, U!round_order

Frac(x) == x = <<x[1], x[2]>> /\ x[1] \in Nat \ {0} /\ x[2] \in Nat \ {0}
\* One makes a whole number of the other, which the number in the base unit divides.
Makes(x, y, times) == \E c \in Nat : x[1] * y[2] = (times * c) * (y[1] * x[2])

LEMMA MakesMemory ==
  ASSUME UnitsAssumption, NEW times \in {1, 8, 16}, NEW x, Frac(x), NEW y, Frac(y),
         x[1] * y[2] = Kilo * (y[1] * x[2])
  PROVE  Makes(x, y, times)
<1>1. PICK c \in Nat \ {0} : Kilo = 16 * c
  BY DEF UnitsAssumption
<1>2. PICK d \in Nat : Kilo = times * d
  <2>1. CASE times = 1
    BY <1>1, <2>1
  <2>2. CASE times = 8
    <3>1. Kilo = 8 * (2 * c)
      BY <1>1
    <3> QED
      BY <2>2, <3>1
  <2>3. CASE times = 16
    BY <1>1, <2>3
  <2> QED
    BY <2>1, <2>2, <2>3
<1> QED
  BY <1>2 DEF Makes

LEMMA MakesTime ==
  ASSUME NEW r \in Nat, NEW x, Frac(x), NEW y, Frac(y), x[1] * y[2] = r * (y[1] * x[2])
  PROVE  Makes(x, y, 1)
<1>1. 1 * r = r
  OBVIOUS
<1> QED
  BY <1>1 DEF Makes

Row(u, bu, times) ==
  /\ Frac(U!get_conversion_table(u, bu))
  /\ U!IsLast(u) \/ /\ U!Next(u) \in DOMAIN U!In[bu]
                    /\ Frac(U!get_conversion_table(U!Next(u), bu))
                    /\ Makes(U!get_conversion_table(u, bu),
                             U!get_conversion_table(U!Next(u), bu), times)

LEMMA MemoryRows ==
  ASSUME UnitsAssumption, NEW times \in {1, 8, 16}, NEW bu \in {"B", "kB", "MB"},
         NEW u \in DOMAIN U!In[bu]
  PROVE  Row(u, bu, times)
<1>1. Kilo \in Nat \ {0} /\ Kilo * Kilo \in Nat \ {0} /\ Kilo * Kilo * Kilo \in Nat \ {0} /\ Kilo * Kilo * Kilo * Kilo \in Nat \ {0}
  <2>1. Kilo \in Nat \ {0}
    BY DEF UnitsAssumption
  <2>2. \A a, b \in Nat \ {0} : a * b \in Nat \ {0}
    OBVIOUS
  <2> QED
    BY <2>1, <2>2
<1>2. ASSUME NEW x, NEW y, NEW v \in DOMAIN U!In[bu], Frac(x), Frac(y), U!Next(u) = v,
             x = U!get_conversion_table(u, bu), y = U!get_conversion_table(v, bu),
             x[1] * y[2] = Kilo * (y[1] * x[2])
      PROVE  Row(u, bu, times)
  BY <1>2, MakesMemory DEF Row
<1>3. CASE bu = "MB"
  <2> USE <1>3, <1>1, RowsOfMB, Order
  <2>1. u \in {"TB", "GB", "MB", "kB", "B"}
    OBVIOUS
  <2>2. CASE u = "TB"
    BY <2>2, <1>2 DEF Frac
  <2>3. CASE u = "GB"
    BY <2>3, <1>2 DEF Frac
  <2>4. CASE u = "MB"
    BY <2>4, <1>2 DEF Frac
  <2>5. CASE u = "kB"
    BY <2>5, <1>2 DEF Frac
  <2>6. CASE u = "B"
    BY <2>6 DEF Frac, Row
  <2> QED
    BY <2>1, <2>2, <2>3, <2>4, <2>5, <2>6
<1>4. CASE bu = "kB"
  <2> USE <1>4, <1>1, RowsOfKB, Order
  <2>1. u \in {"TB", "GB", "MB", "kB", "B"}
    OBVIOUS
  <2>2. CASE u = "TB"
    BY <2>2, <1>2 DEF Frac
  <2>3. CASE u = "GB"
    BY <2>3, <1>2 DEF Frac
  <2>4. CASE u = "MB"
    BY <2>4, <1>2 DEF Frac
  <2>5. CASE u = "kB"
    BY <2>5, <1>2 DEF Frac
  <2>6. CASE u = "B"
    BY <2>6 DEF Frac, Row
  <2> QED
    BY <2>1, <2>2, <2>3, <2>4, <2>5, <2>6
<1>5. CASE bu = "B"
  <2> USE <1>5, <1>1, RowsOfB, Order
  <2>1. u \in {"TB", "GB", "MB", "kB", "B"}
    OBVIOUS
  <2>2. CASE u = "TB"
    <3>1. PICK x : x = <<Kilo * Kilo * Kilo * Kilo, 1>>
      OBVIOUS
    <3>2. PICK y : y = <<Kilo * Kilo * Kilo, 1>>
      OBVIOUS
    <3>3. x[1] * y[2] = Kilo * (y[1] * x[2]) /\ Frac(x) /\ Frac(y)
      BY <3>1, <3>2 DEF Frac
    <3> QED
      BY <2>2, <3>1, <3>2, <3>3, <1>2
  <2>3. CASE u = "GB"
    <3>1. PICK x : x = <<Kilo * Kilo * Kilo, 1>>
      OBVIOUS
    <3>2. PICK y : y = <<Kilo * Kilo, 1>>
      OBVIOUS
    <3>3. x[1] * y[2] = Kilo * (y[1] * x[2]) /\ Frac(x) /\ Frac(y)
      BY <3>1, <3>2 DEF Frac
    <3> QED
      BY <2>3, <3>1, <3>2, <3>3, <1>2
  <2>4. CASE u = "MB"
    <3>1. PICK x : x = <<Kilo * Kilo, 1>>
      OBVIOUS
    <3>2. PICK y : y = <<Kilo, 1>>
      OBVIOUS
    <3>3. x[1] * y[2] = Kilo * (y[1] * x[2]) /\ Frac(x) /\ Frac(y)
      BY <3>1, <3>2 DEF Frac
    <3> QED
      BY <2>4, <3>1, <3>2, <3>3, <1>2
  <2>5. CASE u = "kB"
    BY <2>5, <1>2 DEF Frac
  <2>6. CASE u = "B"
    BY <2>6 DEF Frac, Row
  <2> QED
    BY <2>1, <2>2, <2>3, <2>4, <2>5, <2>6
<1> QED
  BY <1>3, <1>4, <1>5

LEMMA TimeRows ==
  ASSUME NEW bu \in {"min", "s", "ms"}, NEW u \in DOMAIN U!In[bu]
  PROVE  Row(u, bu, 1)
<1>1. ASSUME NEW x, NEW y, NEW v \in DOMAIN U!In[bu], Frac(x), Frac(y), U!Next(u) = v,
             x = U!get_conversion_table(u, bu), y = U!get_conversion_table(v, bu),
             NEW r \in Nat, x[1] * y[2] = r * (y[1] * x[2])
      PROVE  Row(u, bu, 1)
  BY <1>1, MakesTime DEF Row
<1>2. CASE bu = "min"
  <2> USE <1>2, RowsOfMin, Order
  <2>1. u \in {"d", "h", "min", "s", "ms", "us"}
    OBVIOUS
  <2>2. CASE u = "d"
    <3>1. PICK x : x = <<60 * 24, 1>>
      OBVIOUS
    <3>2. PICK y : y = <<60, 1>>
      OBVIOUS
    <3>3. x[1] * y[2] = 24 * (y[1] * x[2]) /\ Frac(x) /\ Frac(y)
      BY <3>1, <3>2 DEF Frac
    <3>4. x = U!get_conversion_table(u, bu) /\ y = U!get_conversion_table("h", bu)
      BY <2>2, <3>1, <3>2
    <3>5. U!Next(u) = "h" /\ "h" \in DOMAIN U!In[bu]
      BY <2>2
    <3> HIDE <1>2, RowsOfMin, Order
    <3> QED
      BY <3>3, <3>4, <3>5, <1>1
  <2>3. CASE u = "h"
    <3>1. PICK x : x = <<60, 1>>
      OBVIOUS
    <3>2. PICK y : y = <<1, 1>>
      OBVIOUS
    <3>3. x[1] * y[2] = 60 * (y[1] * x[2]) /\ Frac(x) /\ Frac(y)
      BY <3>1, <3>2 DEF Frac
    <3>4. x = U!get_conversion_table(u, bu) /\ y = U!get_conversion_table("min", bu)
      BY <2>3, <3>1, <3>2
    <3>5. U!Next(u) = "min" /\ "min" \in DOMAIN U!In[bu]
      BY <2>3
    <3> HIDE <1>2, RowsOfMin, Order
    <3> QED
      BY <3>3, <3>4, <3>5, <1>1
  <2>4. CASE u = "min"
    <3>1. PICK x : x = <<1, 1>>
      OBVIOUS
    <3>2. PICK y : y = <<1, 60>>
      OBVIOUS
    <3>3. x[1] * y[2] = 60 * (y[1] * x[2]) /\ Frac(x) /\ Frac(y)
      BY <3>1, <3>2 DEF Frac
    <3>4. x = U!get_conversion_table(u, bu) /\ y = U!get_conversion_table("s", bu)
      BY <2>4, <3>1, <3>2
    <3>5. U!Next(u) = "s" /\ "s" \in DOMAIN U!In[bu]
      BY <2>4
    <3> HIDE <1>2, RowsOfMin, Order
    <3> QED
      BY <3>3, <3>4, <3>5, <1>1
  <2>5. CASE u = "s"
    <3>1. PICK x : x = <<1, 60>>
      OBVIOUS
    <3>2. PICK y : y = <<1, 1000 * 60>>
      OBVIOUS
    <3>3. x[1] * y[2] = 1000 * (y[1] * x[2]) /\ Frac(x) /\ Frac(y)
      BY <3>1, <3>2 DEF Frac
    <3>4. x = U!get_conversion_table(u, bu) /\ y = U!get_conversion_table("ms", bu)
      BY <2>5, <3>1, <3>2
    <3>5. U!Next(u) = "ms" /\ "ms" \in DOMAIN U!In[bu]
      BY <2>5
    <3> HIDE <1>2, RowsOfMin, Order
    <3> QED
      BY <3>3, <3>4, <3>5, <1>1
  <2>6. CASE u = "ms"
    <3>1. PICK x : x = <<1, 1000 * 60>>
      OBVIOUS
    <3>2. PICK y : y = <<1, 1000 * 1000 * 60>>
      OBVIOUS
    <3>3. x[1] * y[2] = 1000 * (y[1] * x[2]) /\ Frac(x) /\ Frac(y)
      BY <3>1, <3>2 DEF Frac
    <3>4. x = U!get_conversion_table(u, bu) /\ y = U!get_conversion_table("us", bu)
      BY <2>6, <3>1, <3>2
    <3>5. U!Next(u) = "us" /\ "us" \in DOMAIN U!In[bu]
      BY <2>6
    <3> HIDE <1>2, RowsOfMin, Order
    <3> QED
      BY <3>3, <3>4, <3>5, <1>1
  <2>7. CASE u = "us"
    BY <2>7 DEF Frac, Row
  <2> QED
    BY <2>1, <2>2, <2>3, <2>4, <2>5, <2>6, <2>7
<1>3. CASE bu = "s"
  <2> USE <1>3, RowsOfS, Order
  <2>1. u \in {"d", "h", "min", "s", "ms", "us"}
    OBVIOUS
  <2>2. CASE u = "d"
    <3>1. PICK x : x = <<60 * 60 * 24, 1>>
      OBVIOUS
    <3>2. PICK y : y = <<60 * 60, 1>>
      OBVIOUS
    <3>3. x[1] * y[2] = 24 * (y[1] * x[2]) /\ Frac(x) /\ Frac(y)
      BY <3>1, <3>2 DEF Frac
    <3>4. x = U!get_conversion_table(u, bu) /\ y = U!get_conversion_table("h", bu)
      BY <2>2, <3>1, <3>2
    <3>5. U!Next(u) = "h" /\ "h" \in DOMAIN U!In[bu]
      BY <2>2
    <3> HIDE <1>3, RowsOfS, Order
    <3> QED
      BY <3>3, <3>4, <3>5, <1>1
  <2>3. CASE u = "h"
    <3>1. PICK x : x = <<60 * 60, 1>>
      OBVIOUS
    <3>2. PICK y : y = <<60, 1>>
      OBVIOUS
    <3>3. x[1] * y[2] = 60 * (y[1] * x[2]) /\ Frac(x) /\ Frac(y)
      BY <3>1, <3>2 DEF Frac
    <3>4. x = U!get_conversion_table(u, bu) /\ y = U!get_conversion_table("min", bu)
      BY <2>3, <3>1, <3>2
    <3>5. U!Next(u) = "min" /\ "min" \in DOMAIN U!In[bu]
      BY <2>3
    <3> HIDE <1>3, RowsOfS, Order
    <3> QED
      BY <3>3, <3>4, <3>5, <1>1
  <2>4. CASE u = "min"
    <3>1. PICK x : x = <<60, 1>>
      OBVIOUS
    <3>2. PICK y : y = <<1, 1>>
      OBVIOUS
    <3>3. x[1] * y[2] = 60 * (y[1] * x[2]) /\ Frac(x) /\ Frac(y)
      BY <3>1, <3>2 DEF Frac
    <3>4. x = U!get_conversion_table(u, bu) /\ y = U!get_conversion_table("s", bu)
      BY <2>4, <3>1, <3>2
    <3>5. U!Next(u) = "s" /\ "s" \in DOMAIN U!In[bu]
      BY <2>4
    <3> HIDE <1>3, RowsOfS, Order
    <3> QED
      BY <3>3, <3>4, <3>5, <1>1
  <2>5. CASE u = "s"
    <3>1. PICK x : x = <<1, 1>>
      OBVIOUS
    <3>2. PICK y : y = <<1, 1000>>
      OBVIOUS
    <3>3. x[1] * y[2] = 1000 * (y[1] * x[2]) /\ Frac(x) /\ Frac(y)
      BY <3>1, <3>2 DEF Frac
    <3>4. x = U!get_conversion_table(u, bu) /\ y = U!get_conversion_table("ms", bu)
      BY <2>5, <3>1, <3>2
    <3>5. U!Next(u) = "ms" /\ "ms" \in DOMAIN U!In[bu]
      BY <2>5
    <3> HIDE <1>3, RowsOfS, Order
    <3> QED
      BY <3>3, <3>4, <3>5, <1>1
  <2>6. CASE u = "ms"
    <3>1. PICK x : x = <<1, 1000>>
      OBVIOUS
    <3>2. PICK y : y = <<1, 1000 * 1000>>
      OBVIOUS
    <3>3. x[1] * y[2] = 1000 * (y[1] * x[2]) /\ Frac(x) /\ Frac(y)
      BY <3>1, <3>2 DEF Frac
    <3>4. x = U!get_conversion_table(u, bu) /\ y = U!get_conversion_table("us", bu)
      BY <2>6, <3>1, <3>2
    <3>5. U!Next(u) = "us" /\ "us" \in DOMAIN U!In[bu]
      BY <2>6
    <3> HIDE <1>3, RowsOfS, Order
    <3> QED
      BY <3>3, <3>4, <3>5, <1>1
  <2>7. CASE u = "us"
    BY <2>7 DEF Frac, Row
  <2> QED
    BY <2>1, <2>2, <2>3, <2>4, <2>5, <2>6, <2>7
<1>4. CASE bu = "ms"
  <2> USE <1>4, RowsOfMs, Order
  <2>1. u \in {"d", "h", "min", "s", "ms", "us"}
    OBVIOUS
  <2>2. CASE u = "d"
    <3>1. PICK x : x = <<1000 * 60 * 60 * 24, 1>>
      OBVIOUS
    <3>2. PICK y : y = <<1000 * 60 * 60, 1>>
      OBVIOUS
    <3>3. x[1] * y[2] = 24 * (y[1] * x[2]) /\ Frac(x) /\ Frac(y)
      BY <3>1, <3>2 DEF Frac
    <3>4. x = U!get_conversion_table(u, bu) /\ y = U!get_conversion_table("h", bu)
      BY <2>2, <3>1, <3>2
    <3>5. U!Next(u) = "h" /\ "h" \in DOMAIN U!In[bu]
      BY <2>2
    <3> HIDE <1>4, RowsOfMs, Order
    <3> QED
      BY <3>3, <3>4, <3>5, <1>1
  <2>3. CASE u = "h"
    <3>1. PICK x : x = <<1000 * 60 * 60, 1>>
      OBVIOUS
    <3>2. PICK y : y = <<1000 * 60, 1>>
      OBVIOUS
    <3>3. x[1] * y[2] = 60 * (y[1] * x[2]) /\ Frac(x) /\ Frac(y)
      BY <3>1, <3>2 DEF Frac
    <3>4. x = U!get_conversion_table(u, bu) /\ y = U!get_conversion_table("min", bu)
      BY <2>3, <3>1, <3>2
    <3>5. U!Next(u) = "min" /\ "min" \in DOMAIN U!In[bu]
      BY <2>3
    <3> HIDE <1>4, RowsOfMs, Order
    <3> QED
      BY <3>3, <3>4, <3>5, <1>1
  <2>4. CASE u = "min"
    <3>1. PICK x : x = <<1000 * 60, 1>>
      OBVIOUS
    <3>2. PICK y : y = <<1000, 1>>
      OBVIOUS
    <3>3. x[1] * y[2] = 60 * (y[1] * x[2]) /\ Frac(x) /\ Frac(y)
      BY <3>1, <3>2 DEF Frac
    <3>4. x = U!get_conversion_table(u, bu) /\ y = U!get_conversion_table("s", bu)
      BY <2>4, <3>1, <3>2
    <3>5. U!Next(u) = "s" /\ "s" \in DOMAIN U!In[bu]
      BY <2>4
    <3> HIDE <1>4, RowsOfMs, Order
    <3> QED
      BY <3>3, <3>4, <3>5, <1>1
  <2>5. CASE u = "s"
    <3>1. PICK x : x = <<1000, 1>>
      OBVIOUS
    <3>2. PICK y : y = <<1, 1>>
      OBVIOUS
    <3>3. x[1] * y[2] = 1000 * (y[1] * x[2]) /\ Frac(x) /\ Frac(y)
      BY <3>1, <3>2 DEF Frac
    <3>4. x = U!get_conversion_table(u, bu) /\ y = U!get_conversion_table("ms", bu)
      BY <2>5, <3>1, <3>2
    <3>5. U!Next(u) = "ms" /\ "ms" \in DOMAIN U!In[bu]
      BY <2>5
    <3> HIDE <1>4, RowsOfMs, Order
    <3> QED
      BY <3>3, <3>4, <3>5, <1>1
  <2>6. CASE u = "ms"
    <3>1. PICK x : x = <<1, 1>>
      OBVIOUS
    <3>2. PICK y : y = <<1, 1000>>
      OBVIOUS
    <3>3. x[1] * y[2] = 1000 * (y[1] * x[2]) /\ Frac(x) /\ Frac(y)
      BY <3>1, <3>2 DEF Frac
    <3>4. x = U!get_conversion_table(u, bu) /\ y = U!get_conversion_table("us", bu)
      BY <2>6, <3>1, <3>2
    <3>5. U!Next(u) = "us" /\ "us" \in DOMAIN U!In[bu]
      BY <2>6
    <3> HIDE <1>4, RowsOfMs, Order
    <3> QED
      BY <3>3, <3>4, <3>5, <1>1
  <2>7. CASE u = "us"
    BY <2>7 DEF Frac, Row
  <2> QED
    BY <2>1, <2>2, <2>3, <2>4, <2>5, <2>6, <2>7
<1> QED
  BY <1>2, <1>3, <1>4

LEMMA RoundIsNat ==
  ASSUME NEW a \in Nat, NEW b \in Nat \ {0}
  PROVE  U!Round(<<a, b>>) \in Nat
<1>1. a \div b \in Nat
  OBVIOUS
<1> QED
  BY <1>1 DEF U!Round

\* A whole number n of x1 / x2 is one of y1 / y2, the next smaller unit, with a base unit of t.
NoRounding(n, t, x1, x2, y1, y2, c) ==
  /\ U!Round(<<(n * x1) * y2, (x2 * t) * y1>>) = n * c
  /\ U!Round(<<(n * c) * y1, y2>>) = U!Round(<<n * x1, x2 * t>>)
  /\ U!Round(<<(n * x1) * (y2 * t), (x2 * t) * y1>>) = (n * c) * t
  /\ U!Round(<<((n * c) * t) * y1, y2 * t>>) = U!Round(<<n * x1, x2 * t>>)

LEMMA BothWhole ==
  ASSUME NEW n \in Nat, NEW t \in Nat \ {0}, NEW x1 \in Nat \ {0}, NEW x2 \in Nat \ {0},
         NEW y1 \in Nat \ {0}, NEW y2 \in Nat \ {0}, NEW c \in Nat, x1 * y2 = (t * c) * (y1 * x2)
  PROVE  NoRounding(n, t, x1, x2, y1, y2, c)
<1>1. \A a, b \in Nat : a * b \in Nat
  OBVIOUS
<1>2. \A a, b \in Nat \ {0} : a * b \in Nat \ {0}
  OBVIOUS
<1>3. PICK w \in Nat : w = n * c
  BY <1>1
<1>4. PICK z \in Nat \ {0} : z = x2 * t
  BY <1>2
<1>5. PICK f \in Nat : f = n * x1
  BY <1>1
<1>6. f * y2 = w * (z * y1)
  <2>1. (n * x1) * y2 = n * (x1 * y2)
    OBVIOUS
  <2>2. n * (x1 * y2) = n * ((t * c) * (y1 * x2))
    OBVIOUS
  <2>3. n * ((t * c) * (y1 * x2)) = (n * c) * ((x2 * t) * y1)
    OBVIOUS
  <2> QED
    BY <2>1, <2>2, <2>3, <1>3, <1>4, <1>5
<1>7. z * y1 \in Nat \ {0} /\ f * y2 \in Nat /\ y2 * t \in Nat \ {0} /\ w * t \in Nat
  BY <1>1, <1>2
<1>8. U!Round(<<f * y2, z * y1>>) = w
  BY <1>6, <1>7, RoundWhole
<1>9. w * y1 \in Nat /\ (w * t) * y1 \in Nat
  BY <1>1, <1>7
<1>10. U!Round(<<w * y1, y2>>) = U!Round(<<f, z>>)
  <2>1. (w * y1) * z = f * y2
    BY <1>6
  <2> QED
    BY <2>1, <1>9, RoundSame
<1>11. f * (y2 * t) = (w * t) * (z * y1)
  <2>1. f * (y2 * t) = (f * y2) * t
    OBVIOUS
  <2>2. (w * (z * y1)) * t = (w * t) * (z * y1)
    OBVIOUS
  <2> QED
    BY <2>1, <2>2, <1>6
<1>12. U!Round(<<f * (y2 * t), z * y1>>) = w * t
  BY <1>11, <1>7, RoundWhole
<1>13. U!Round(<<(w * t) * y1, y2 * t>>) = U!Round(<<f, z>>)
  <2>1. ((w * t) * y1) * z = (w * t) * (z * y1)
    OBVIOUS
  <2>2. ((w * t) * y1) * z = f * (y2 * t)
    BY <2>1, <1>11
  <2> QED
    BY <2>2, <1>7, <1>9, RoundSame
<1> QED
  BY <1>3, <1>4, <1>5, <1>8, <1>10, <1>12, <1>13 DEF NoRounding

\* The two readings of n / d, x being the unit, y the next smaller one, t the number in the base unit.
Read(n, d, u, bu, x, y, t) ==
  /\ U!IsLast(u) =>
       /\ U!parse_int(<<n, d>>, u, bu) = U!Round(<<n * x[1], (d * x[2]) * t>>)
       /\ U!PostgresReads(<<n, d>>, u, bu) = U!Round(<<n * x[1], (d * x[2]) * t>>)
  /\ ~U!IsLast(u) =>
       /\ U!parse_int(<<n, d>>, u, bu) =
            U!Round(<<U!Round(<<(n * x[1]) * y[2], ((d * x[2]) * t) * y[1]>>) * y[1], y[2]>>)
       /\ U!PostgresReads(<<n, d>>, u, bu) =
            U!Round(<<U!Round(<<(n * x[1]) * (y[2] * t), ((d * x[2]) * t) * y[1]>>) * y[1],
                      y[2] * t>>)

LEMMA Readings ==
  ASSUME NEW n \in Nat, NEW d \in Nat \ {0}, NEW u, NEW b, NEW t \in Nat \ {0},
         Frac(U!get_conversion_table(u, b)), NEW bu, bu = [times |-> t, unit |-> b],
         ~U!IsLast(u) => Frac(U!get_conversion_table(U!Next(u), b)),
         NEW x, x = U!get_conversion_table(u, b), NEW y, y = U!get_conversion_table(U!Next(u), b)
  PROVE  Read(n, d, u, bu, x, y, t)
<1>1. bu.times = t /\ bu.unit = b
  OBVIOUS
<1>2. PICK f \in Nat : f = n * x[1]
  BY DEF Frac
<1>3. PICK g \in Nat \ {0} : g = (d * x[2]) * t
  <2>1. \A a, c \in Nat \ {0} : a * c \in Nat \ {0}
    OBVIOUS
  <2> QED
    BY <2>1 DEF Frac
<1>4. U!Over(U!Times(<<n, d>>, x), <<t, 1>>) = <<f, g>>
  <2>1. U!Times(<<n, d>>, x) = <<f, d * x[2]>>
    BY <1>2 DEF U!Times
  <2>2. U!Over(<<f, d * x[2]>>, <<t, 1>>) = <<f * 1, (d * x[2]) * t>>
    BY DEF U!Over
  <2> QED
    BY <2>1, <2>2, <1>3
<1>5. U!parse_int(<<n, d>>, u, bu) = U!Round(U!RoundTo(<<f, g>>, u, bu))
  BY <1>1, <1>4 DEF U!parse_int, U!convert_to_base_unit
<1>8. \A a \in Nat, c, e \in Nat \ {0} : a * c \in Nat /\ c * e \in Nat \ {0}
  OBVIOUS
<1>6. CASE U!IsLast(u)
  <2>1. U!parse_int(<<n, d>>, u, bu) = U!Round(<<f, g>>)
    BY <1>5, <1>6 DEF U!RoundTo
  <2>2. U!PostgresReads(<<n, d>>, u, bu) = U!Round(<<f, g>>)
    BY <1>1, <1>4, <1>6 DEF U!PostgresReads
  <2> QED
    BY <1>2, <1>3, <1>6, <2>1, <2>2 DEF Read
<1>7. CASE ~U!IsLast(u)
  <2>1. y = <<y[1], y[2]>> /\ y[1] \in Nat \ {0} /\ y[2] \in Nat \ {0}
    BY <1>7 DEF Frac
  <2>2. U!Over(<<f, g>>, y) = <<f * y[2], g * y[1]>>
    BY DEF U!Over
  <2>3. U!Round(<<f * y[2], g * y[1]>>) \in Nat
    BY <2>1, <1>8, RoundIsNat
  <2>4. \A r \in Nat : U!Times(<<r, 1>>, y) = <<r * y[1], y[2]>>
    BY <2>1 DEF U!Times
  <2>5. U!parse_int(<<n, d>>, u, bu) = U!Round(<<U!Round(<<f * y[2], g * y[1]>>) * y[1], y[2]>>)
    BY <1>1, <1>5, <1>7, <2>2, <2>3, <2>4 DEF U!RoundTo
  <2>6. PICK h \in Nat : h = y[2] * t
    BY <2>1
  <2>7. U!Over(y, <<t, 1>>) = <<y[1], h>>
    BY <2>1, <2>6 DEF U!Over
  <2>8. U!Over(<<f, g>>, <<y[1], h>>) = <<f * h, g * y[1]>>
    BY DEF U!Over
  <2>9. U!Round(<<f * h, g * y[1]>>) \in Nat
    BY <2>1, <1>8, RoundIsNat
  <2>10. \A r \in Nat : U!Times(<<r, 1>>, <<y[1], h>>) = <<r * y[1], h>>
    BY <2>1 DEF U!Times
  <2>11. U!PostgresReads(<<n, d>>, u, bu) = U!Round(<<U!Round(<<f * h, g * y[1]>>) * y[1], h>>)
    BY <1>1, <1>4, <1>7, <2>7, <2>8, <2>9, <2>10 DEF U!PostgresReads
  <2> QED
    BY <1>2, <1>3, <1>7, <2>5, <2>6, <2>11 DEF Read
<1> QED
  BY <1>6, <1>7

LEMMA WholeReads ==
  ASSUME NEW n \in Nat, NEW u, NEW b, NEW t \in Nat \ {0}, Row(u, b, t),
         NEW bu, bu = [times |-> t, unit |-> b], NEW x, x = U!get_conversion_table(u, b)
  PROVE  /\ U!parse_int(<<n, 1>>, u, bu) = U!Round(<<n * x[1], x[2] * t>>)
         /\ U!PostgresReads(<<n, 1>>, u, bu) = U!Round(<<n * x[1], x[2] * t>>)
<1>1. PICK y : y = U!get_conversion_table(U!Next(u), b)
  OBVIOUS
<1>2. Frac(x) /\ (U!IsLast(u) \/ (Frac(y) /\ Makes(x, y, t)))
  BY <1>1 DEF Row
<1>3. PICK d \in Nat \ {0} : d = 1
  OBVIOUS
<1>4. Read(n, d, u, bu, x, y, t)
  <2>1. Frac(U!get_conversion_table(u, b))
    BY <1>2
  <2>2. ~U!IsLast(u) => Frac(U!get_conversion_table(U!Next(u), b))
    BY <1>1, <1>2
  <2> HIDE DEF Frac
  <2> QED
    BY <1>1, <2>1, <2>2, Readings
<1>5. d * x[2] = x[2]
  BY <1>2, <1>3 DEF Frac
<1>6. CASE U!IsLast(u)
  BY <1>3, <1>4, <1>5, <1>6 DEF Read
<1>7. CASE ~U!IsLast(u)
  <2>1. PICK c \in Nat : x[1] * y[2] = (t * c) * (y[1] * x[2])
    BY <1>2, <1>7 DEF Makes
  <2>2. x[1] \in Nat \ {0} /\ x[2] \in Nat \ {0} /\ y[1] \in Nat \ {0} /\ y[2] \in Nat \ {0}
    BY <1>2, <1>7 DEF Frac
  <2>3. /\ U!Round(<<(n * x[1]) * y[2], (x[2] * t) * y[1]>>) = n * c
        /\ U!Round(<<(n * c) * y[1], y[2]>>) = U!Round(<<n * x[1], x[2] * t>>)
        /\ U!Round(<<(n * x[1]) * (y[2] * t), (x[2] * t) * y[1]>>) = (n * c) * t
        /\ U!Round(<<((n * c) * t) * y[1], y[2] * t>>) = U!Round(<<n * x[1], x[2] * t>>)
    <3>1. PICK x1 \in Nat \ {0}, x2 \in Nat \ {0}, y1 \in Nat \ {0}, y2 \in Nat \ {0} :
            x1 = x[1] /\ x2 = x[2] /\ y1 = y[1] /\ y2 = y[2]
      BY <2>2
    <3>2. x1 * y2 = (t * c) * (y1 * x2)
      BY <2>1, <3>1
    <3>3. NoRounding(n, t, x1, x2, y1, y2, c)
      BY <3>2, BothWhole
    <3>4. U!Round(<<(n * x[1]) * y[2], (x[2] * t) * y[1]>>) = n * c
      BY <3>1, <3>3 DEF NoRounding
    <3>5. U!Round(<<(n * c) * y[1], y[2]>>) = U!Round(<<n * x[1], x[2] * t>>)
      BY <3>1, <3>3 DEF NoRounding
    <3>6. U!Round(<<(n * x[1]) * (y[2] * t), (x[2] * t) * y[1]>>) = (n * c) * t
      BY <3>1, <3>3 DEF NoRounding
    <3>7. U!Round(<<((n * c) * t) * y[1], y[2] * t>>) = U!Round(<<n * x[1], x[2] * t>>)
      BY <3>1, <3>3 DEF NoRounding
    <3> QED
      BY <3>4, <3>5, <3>6, <3>7
  <2>4. U!parse_int(<<n, 1>>, u, bu) = U!Round(<<(n * c) * y[1], y[2]>>)
    BY <1>3, <1>4, <1>5, <1>7, <2>3 DEF Read
  <2>5. U!PostgresReads(<<n, 1>>, u, bu) = U!Round(<<((n * c) * t) * y[1], y[2] * t>>)
    BY <1>3, <1>4, <1>5, <1>7, <2>3 DEF Read
  <2> QED
    BY <2>3, <2>4, <2>5
<1> QED
  BY <1>6, <1>7

LEMMA PlainReads ==
  ASSUME NEW n \in Nat, NEW d \in Nat \ {0}, NEW u, NEW b, Row(u, b, 1),
         NEW bu, bu = [times |-> 1, unit |-> b]
  PROVE  U!parse_int(<<n, d>>, u, bu) = U!PostgresReads(<<n, d>>, u, bu)
<1>1. PICK x : x = U!get_conversion_table(u, b)
  OBVIOUS
<1>2. PICK y : y = U!get_conversion_table(U!Next(u), b)
  OBVIOUS
<1>3. Frac(x) /\ (U!IsLast(u) \/ Frac(y))
  BY <1>1, <1>2 DEF Row
<1>4. PICK t \in Nat \ {0} : t = 1
  OBVIOUS
<1>5. Read(n, d, u, bu, x, y, t)
  BY <1>1, <1>2, <1>3, <1>4, Readings
<1>6. CASE U!IsLast(u)
  BY <1>5, <1>6 DEF Read
<1>7. CASE ~U!IsLast(u)
  <2>1. y[2] * t = y[2]
    BY <1>3, <1>4, <1>7 DEF Frac
  <2> QED
    BY <1>5, <1>7, <2>1 DEF Read
<1> QED
  BY <1>6, <1>7

\* The base unit has a place in its table, and no larger unit is a part of it.
LEMMA PlaceOfBase ==
  ASSUME UnitsAssumption, NEW b \in {"B", "kB", "MB", "min", "s", "ms"}
  PROVE  /\ b \in DOMAIN U!In[b] /\ U!get_conversion_table(b, b) = <<1, 1>>
         /\ \E k \in 1 .. 5 :
              /\ 1 .. k \subseteq DOMAIN U!Table(b) /\ U!Table(b)[k] = b
              /\ \A l \in 1 .. k :
                   /\ U!Table(b)[l] \in DOMAIN U!In[b]
                   /\ U!get_conversion_table(U!Table(b)[l], b)[2] = 1
<1>1. CASE b = "MB"
  <2>1. DOMAIN U!Table(b) = 1 .. 5 /\ U!Table(b)[1] = "TB" /\ U!Table(b)[2] = "GB" /\ U!Table(b)[3] = "MB"
    BY <1>1 DEF U!Table, U!Memory
  <2>2. 3 \in 1 .. 5 /\ 1 .. 3 = {1, 2, 3} /\ 1 .. 3 \subseteq 1 .. 5
    OBVIOUS
  <2> QED
    BY <1>1, <2>1, <2>2, RowsOfMB
<1>2. CASE b = "kB"
  <2>1. /\ DOMAIN U!Table(b) = 1 .. 5 /\ U!Table(b)[1] = "TB" /\ U!Table(b)[2] = "GB"
        /\ U!Table(b)[3] = "MB" /\ U!Table(b)[4] = "kB"
    BY <1>2 DEF U!Table, U!Memory
  <2>2. 4 \in 1 .. 5 /\ 1 .. 4 = {1, 2, 3, 4} /\ 1 .. 4 \subseteq 1 .. 5
    OBVIOUS
  <2> QED
    BY <1>2, <2>1, <2>2, RowsOfKB
<1>3. CASE b = "B"
  <2>1. /\ DOMAIN U!Table(b) = 1 .. 5 /\ U!Table(b)[1] = "TB" /\ U!Table(b)[2] = "GB"
        /\ U!Table(b)[3] = "MB" /\ U!Table(b)[4] = "kB" /\ U!Table(b)[5] = "B"
    BY <1>3 DEF U!Table, U!Memory
  <2>2. 5 \in 1 .. 5 /\ 1 .. 5 = {1, 2, 3, 4, 5} /\ 1 .. 5 \subseteq 1 .. 5
    OBVIOUS
  <2> QED
    BY <1>3, <2>1, <2>2, RowsOfB
<1>4. CASE b = "min"
  <2>1. DOMAIN U!Table(b) = 1 .. 6 /\ U!Table(b)[1] = "d" /\ U!Table(b)[2] = "h" /\ U!Table(b)[3] = "min"
    BY <1>4 DEF U!Table, U!Time
  <2>2. 3 \in 1 .. 5 /\ 1 .. 3 = {1, 2, 3} /\ 1 .. 3 \subseteq 1 .. 6
    OBVIOUS
  <2> QED
    BY <1>4, <2>1, <2>2, RowsOfMin
<1>5. CASE b = "s"
  <2>1. /\ DOMAIN U!Table(b) = 1 .. 6 /\ U!Table(b)[1] = "d" /\ U!Table(b)[2] = "h"
        /\ U!Table(b)[3] = "min" /\ U!Table(b)[4] = "s"
    BY <1>5 DEF U!Table, U!Time
  <2>2. 4 \in 1 .. 5 /\ 1 .. 4 = {1, 2, 3, 4} /\ 1 .. 4 \subseteq 1 .. 6
    OBVIOUS
  <2> QED
    BY <1>5, <2>1, <2>2, RowsOfS
<1>6. CASE b = "ms"
  <2>1. /\ DOMAIN U!Table(b) = 1 .. 6 /\ U!Table(b)[1] = "d" /\ U!Table(b)[2] = "h"
        /\ U!Table(b)[3] = "min" /\ U!Table(b)[4] = "s" /\ U!Table(b)[5] = "ms"
    BY <1>6 DEF U!Table, U!Time
  <2>2. 5 \in 1 .. 5 /\ 1 .. 5 = {1, 2, 3, 4, 5} /\ 1 .. 5 \subseteq 1 .. 6
    OBVIOUS
  <2> QED
    BY <1>6, <2>1, <2>2, RowsOfMs
<1> QED
  BY <1>1, <1>2, <1>3, <1>4, <1>5, <1>6

\* Of the places up to the fifth that fit there is a first.
LEMMA FirstPlace ==
  ASSUME NEW S, NEW k \in 1 .. 5, k \in S
  PROVE  \E i \in 1 .. k : i \in S /\ \A l \in 1 .. (i - 1) : l \notin S
OBVIOUS

LEMMA ReadsNat ==
  ASSUME NEW n \in Nat, NEW d \in Nat \ {0}, NEW u, NEW b, NEW t \in Nat \ {0}, Row(u, b, t),
         NEW bu, bu = [times |-> t, unit |-> b]
  PROVE  U!PostgresReads(<<n, d>>, u, bu) \in Nat
<1>1. PICK x : x = U!get_conversion_table(u, b)
  OBVIOUS
<1>2. PICK y : y = U!get_conversion_table(U!Next(u), b)
  OBVIOUS
<1>3. Frac(x) /\ (U!IsLast(u) \/ Frac(y))
  BY <1>1, <1>2 DEF Row
<1>4. Read(n, d, u, bu, x, y, t)
  <2>1. Frac(U!get_conversion_table(u, b))
    BY <1>1, <1>3
  <2>2. ~U!IsLast(u) => Frac(U!get_conversion_table(U!Next(u), b))
    BY <1>2, <1>3
  <2> HIDE DEF Frac
  <2> QED
    BY <1>1, <1>2, <2>1, <2>2, Readings
<1>5. \A a \in Nat, c, e \in Nat \ {0} : a * c \in Nat /\ c * e \in Nat \ {0}
  OBVIOUS
<1>6. n * x[1] \in Nat /\ (d * x[2]) * t \in Nat \ {0}
  BY <1>3, <1>5 DEF Frac
<1>7. CASE U!IsLast(u)
  BY <1>4, <1>6, <1>7, RoundIsNat DEF Read
<1>8. CASE ~U!IsLast(u)
  <2>1. y[2] * t \in Nat \ {0} /\ y[1] \in Nat \ {0}
    BY <1>3, <1>5, <1>8 DEF Frac
  <2>2. (n * x[1]) * (y[2] * t) \in Nat /\ ((d * x[2]) * t) * y[1] \in Nat \ {0}
    BY <1>5, <1>6, <2>1
  <2>3. PICK r \in Nat : r = U!Round(<<(n * x[1]) * (y[2] * t), ((d * x[2]) * t) * y[1]>>)
    BY <2>2, RoundIsNat
  <2>4. r * y[1] \in Nat
    BY <1>5, <2>1
  <2>5. U!Round(<<r * y[1], y[2] * t>>) \in Nat
    BY <2>1, <2>4, RoundIsNat
  <2> QED
    BY <1>4, <1>8, <2>3, <2>5 DEF Read
<1> QED
  BY <1>7, <1>8

LEMMA BaseRows ==
  ASSUME UnitsAssumption, NEW bu \in U!Bases
  PROVE  /\ bu = [times |-> bu.times, unit |-> bu.unit] /\ bu.times \in Nat \ {0}
         /\ bu.unit \in {"B", "kB", "MB", "min", "s", "ms"}
         /\ \A u \in DOMAIN U!In[bu.unit] : Row(u, bu.unit, bu.times)
<1>1. \/ bu.times \in {1, 8, 16} /\ bu.unit \in {"B", "kB", "MB"}
      \/ bu.times = 1 /\ bu.unit \in {"min", "s", "ms"}
  BY DEF U!Bases
<1>2. bu = [times |-> bu.times, unit |-> bu.unit]
  BY DEF U!Bases
<1>3. CASE bu.times \in {1, 8, 16} /\ bu.unit \in {"B", "kB", "MB"}
  <2>1. \A u \in DOMAIN U!In[bu.unit] : Row(u, bu.unit, bu.times)
    BY <1>3, MemoryRows
  <2> QED
    BY <1>2, <1>3, <2>1
<1>4. CASE bu.times = 1 /\ bu.unit \in {"min", "s", "ms"}
  <2>1. \A u \in DOMAIN U!In[bu.unit] : Row(u, bu.unit, 1)
    BY <1>4, TimeRows
  <2> QED
    BY <1>2, <1>4, <2>1
<1> QED
  BY <1>1, <1>3, <1>4

\* What is shown of a setting, written in the configuration, is that setting.
LEMMA ShownReads ==
  ASSUME UnitsAssumption, NEW bu \in U!Bases, NEW v \in Nat
  PROVE  U!compare_values(v, U!Shown(v, bu), bu)
<1>1. PICK t \in Nat \ {0} : t = bu.times
  BY BaseRows
<1>2. PICK b \in {"B", "kB", "MB", "min", "s", "ms"} : b = bu.unit
  BY BaseRows
<1>3. bu = [times |-> t, unit |-> b] /\ \A u \in DOMAIN U!In[b] : Row(u, b, t)
  BY <1>1, <1>2, BaseRows
<1>4. ASSUME NEW n \in Nat, NEW u \in DOMAIN U!In[b], NEW p \in Nat \ {0},
             U!get_conversion_table(u, b) = <<p, 1>>, n * p = v * t
      PROVE  U!parse_int(<<n, 1>>, u, bu) = v
  <2>1. PICK x : x = <<p, 1>>
    OBVIOUS
  <2>2. Row(u, b, t)
    BY <1>3
  <2>3. x = U!get_conversion_table(u, b)
    BY <1>4, <2>1
  <2>4. U!parse_int(<<n, 1>>, u, bu) = U!Round(<<n * x[1], x[2] * t>>)
    BY <1>3, <2>2, <2>3, WholeReads
  <2>5. x[1] = p /\ x[2] = 1 /\ 1 * t = t
    BY <2>1
  <2>6. U!Round(<<n * p, t>>) = v
    BY <1>4, RoundWhole
  <2> QED
    BY <2>4, <2>5, <2>6
<1>5. b \in DOMAIN U!In[b] /\ U!get_conversion_table(b, b) = <<1, 1>>
  BY PlaceOfBase
<1>6. CASE v = 0
  <2>1. U!Shown(v, bu) = [value |-> <<0, 1>>, unit |-> b]
    BY <1>2, <1>6 DEF U!Shown
  <2>2. U!Shown(v, bu).value = <<0, 1>> /\ U!Shown(v, bu).unit = b
    BY <2>1
  <2>3. PICK n \in Nat, p \in Nat \ {0} : n = 0 /\ p = 1
    OBVIOUS
  <2>4. n * p = v * t
    BY <1>6, <2>3
  <2>5. U!parse_int(<<n, 1>>, b, bu) = v
    BY <1>4, <1>5, <2>3, <2>4
  <2> QED
    BY <2>2, <2>3, <2>5 DEF U!compare_values
<1>7. CASE v # 0
  <2>1. PICK total \in Nat : total = v * t
    OBVIOUS
  <2>2. PICK table : table = U!Table(b)
    OBVIOUS
  <2> DEFINE Fits(u) == LET m == U!get_conversion_table(u, b) IN m[1] <= m[2] \/ total % m[1] = 0
             Chosen(k) == Fits(table[k]) /\ \A l \in 1 .. (k - 1) : ~Fits(table[l])
  <2>3. PICK i : i = CHOOSE k \in DOMAIN table : Chosen(k)
    OBVIOUS
  <2>4. PICK k \in 1 .. 5 : 
          /\ 1 .. k \subseteq DOMAIN table /\ table[k] = b
          /\ \A l \in 1 .. k : /\ table[l] \in DOMAIN U!In[b]
                               /\ U!get_conversion_table(table[l], b)[2] = 1
    BY <2>2, PlaceOfBase
  <2>5. Fits(table[k])
    BY <1>5, <2>4
  <2>6. i \in DOMAIN table /\ Chosen(i)
    <3> DEFINE S == {l \in 1 .. k : Fits(table[l])}
    <3>1. k \in S
      BY <2>5
    <3>2. PICK j \in 1 .. k : j \in S /\ \A l \in 1 .. (j - 1) : l \notin S
      <4> HIDE DEF S
      <4> QED
        BY <3>1, FirstPlace
    <3>3. Chosen(j)
      <4>1. \A l \in 1 .. (j - 1) : l \in 1 .. k
        OBVIOUS
      <4> HIDE DEF Fits
      <4> QED
        BY <3>2, <4>1
    <3>4. j \in DOMAIN table
      BY <2>4
    <3> HIDE DEF Chosen
    <3> QED
      BY <2>3, <3>3, <3>4
  <2>7. i \in 1 .. k
    <3>1. DOMAIN table \subseteq Nat \ {0}
      <4>1. DOMAIN table = 1 .. 5 \/ DOMAIN table = 1 .. 6
        BY <2>2 DEF U!Table, U!Memory, U!Time
      <4> QED
        BY <4>1
    <3>2. i \in Nat \ {0}
      BY <2>6, <3>1
    <3>3. i > k => k \in 1 .. (i - 1)
      BY <3>2
    <3>4. ~(i > k)
      <4> HIDE DEF Fits
      <4> QED
        BY <2>5, <2>6, <3>3
    <3> QED
      BY <3>2, <3>4
  <2>8. PICK u \in DOMAIN U!In[b] : u = table[i]
    BY <2>4, <2>7
  <2>9. PICK p \in Nat \ {0} : U!get_conversion_table(u, b) = <<p, 1>>
    <3>1. Frac(U!get_conversion_table(u, b))
      BY <1>3 DEF Row
    <3>2. U!get_conversion_table(u, b)[2] = 1
      BY <2>4, <2>7, <2>8
    <3> QED
      BY <3>1, <3>2 DEF Frac
  <2>10. PICK n \in Nat : total = n * p
    <3>1. p = 1 \/ total % p = 0
      <4>1. Fits(u)
        <5> HIDE DEF Fits
        <5> QED
          BY <2>6, <2>8
      <4>2. PICK m : m = <<p, 1>>
        OBVIOUS
      <4>3. m[1] <= m[2] \/ total % m[1] = 0
        BY <4>1, <4>2, <2>9
      <4>4. m[1] = p /\ m[2] = 1
        BY <4>2
      <4> QED
        BY <4>3, <4>4
    <3>2. CASE p = 1
      <4>1. total = total * p
        BY <3>2
      <4> QED
        BY <4>1
    <3>3. CASE total % p = 0
      <4>1. PICK q \in Nat : q = total \div p
        OBVIOUS
      <4>2. total % p = total - p * (total \div p)
        OBVIOUS
      <4>3. total = q * p
        BY <3>3, <4>1, <4>2
      <4> QED
        BY <4>3
    <3> QED
      BY <3>1, <3>2, <3>3
  <2>11. U!Round(U!Over(<<total, 1>>, <<p, 1>>)) = n
    <3>1. U!Over(<<total, 1>>, <<p, 1>>) = <<total, p>>
      BY DEF U!Over
    <3> QED
      BY <2>10, <3>1, RoundWhole
  <2>12. U!convert_int_from_base_unit(v, bu) = [value |-> <<n, 1>>, unit |-> u]
    <3>1. bu.times = t /\ bu.unit = b
      BY <1>1, <1>2
    <3>2. U!convert_int_from_base_unit(v, bu) =
            [value |-> <<U!Round(U!Over(<<total, 1>>, U!get_conversion_table(table[i], b))), 1>>,
             unit |-> table[i]]
      BY <3>1, <2>1, <2>2, <2>3, Zenon DEF U!convert_int_from_base_unit
    <3> QED
      BY <3>2, <2>8, <2>9, <2>11
  <2>13. U!Shown(v, bu) = [value |-> <<n, 1>>, unit |-> u]
    BY <1>7, <2>12 DEF U!Shown
  <2>14. U!Shown(v, bu).value = <<n, 1>> /\ U!Shown(v, bu).unit = u
    BY <2>13
  <2>15. n * p = v * t
    BY <2>1, <2>10
  <2>16. U!parse_int(<<n, 1>>, u, bu) = v
    BY <1>4, <2>9, <2>15
  <2> QED
    BY <2>14, <2>16 DEF U!compare_values
<1> QED
  BY <1>6, <1>7

\* A setting of pg_settings with a value that is written in one of its units.
IsSetting ==
  /\ setting = [value |-> setting.value, unit |-> setting.unit, base |-> setting.base]
  /\ setting.base \in U!Bases /\ setting.unit \in DOMAIN U!In[setting.base.unit]
  /\ setting.value = <<setting.value[1], setting.value[2]>>
  /\ setting.value[1] \in Nat /\ setting.value[2] \in Nat \ {0}

LEMMA SettingAgrees == ASSUME UnitsAssumption, IsSetting PROVE U!SettingsAgree
<1>1. PICK n \in Nat, d \in Nat \ {0} : setting.value = <<n, d>>
  BY DEF IsSetting
<1>2. PICK bu \in U!Bases : bu = setting.base
  BY DEF IsSetting
<1>3. PICK t \in Nat \ {0}, b \in {"B", "kB", "MB", "min", "s", "ms"} : t = bu.times /\ b = bu.unit
  BY BaseRows
<1>4. PICK u \in DOMAIN U!In[b] : u = setting.unit
  BY <1>2, <1>3 DEF IsSetting
<1>5. bu = [times |-> t, unit |-> b] /\ Row(u, b, t)
  BY <1>3, BaseRows
<1>6. SUFFICES ASSUME d = 1 \/ t = 1
               PROVE  U!PostgresReads(<<n, d>>, u, bu) = U!parse_int(<<n, d>>, u, bu)
                      /\ U!PostgresReads(<<n, d>>, u, bu) \in Nat
  <2>1. PICK v : v = U!PostgresReads(<<n, d>>, u, bu)
    OBVIOUS
  <2>2. setting.value[2] = 1 \/ setting.base.times = 1 => d = 1 \/ t = 1
    BY <1>1, <1>2, <1>3
  <2>3. SUFFICES ASSUME setting.value[2] = 1 \/ setting.base.times = 1
                 PROVE  U!compare_values(v, setting, bu) /\ U!compare_values(v, U!Shown(v, bu), bu)
    BY <1>1, <1>2, <1>4, <2>1 DEF U!SettingsAgree
  <2>4. v = U!parse_int(<<n, d>>, u, bu) /\ v \in Nat
    BY <1>6, <2>1, <2>2, <2>3
  <2>5. U!compare_values(v, setting, bu)
    BY <1>1, <1>4, <2>4 DEF U!compare_values
  <2> QED
    BY <2>4, <2>5, ShownReads
<1>7. CASE d = 1
  <2>1. PICK x : x = U!get_conversion_table(u, b)
    OBVIOUS
  <2>2. /\ U!parse_int(<<n, 1>>, u, bu) = U!Round(<<n * x[1], x[2] * t>>)
        /\ U!PostgresReads(<<n, 1>>, u, bu) = U!Round(<<n * x[1], x[2] * t>>)
    BY <1>5, <2>1, WholeReads
  <2>3. n * x[1] \in Nat /\ x[2] * t \in Nat \ {0}
    BY <1>5, <2>1 DEF Row, Frac
  <2>4. U!Round(<<n * x[1], x[2] * t>>) \in Nat
    BY <2>3, RoundIsNat
  <2> QED
    BY <1>7, <2>2, <2>4
<1>8. CASE t = 1
  <2>1. Row(u, b, 1) /\ bu = [times |-> 1, unit |-> b]
    BY <1>5, <1>8
  <2>2. U!parse_int(<<n, d>>, u, bu) = U!PostgresReads(<<n, d>>, u, bu)
    BY <2>1, PlainReads
  <2>3. U!PostgresReads(<<n, d>>, u, bu) \in Nat
    BY <1>5, ReadsNat
  <2> QED
    BY <2>2, <2>3
<1> QED
  BY <1>6, <1>7, <1>8

LEMMA SettingInitially == ASSUME U!UnitsInit PROVE IsSetting
<1>1. PICK b \in U!Bases : \E u \in DOMAIN U!In[b.unit] :
        setting = [value |-> <<0, 1>>, unit |-> u, base |-> b]
  BY DEF U!UnitsInit
<1> QED
  BY <1>1 DEF IsSetting

LEMMA SettingStep == ASSUME UnitsAssumption, IsSetting, [U!Write]_setting PROVE IsSetting'
<1>1. CASE UNCHANGED setting
  BY <1>1 DEF IsSetting
<1>2. CASE U!Write
  <2>1. PICK d \in {1, 2, 10} :
          setting' = [setting EXCEPT !.value = <<(setting.value[1] + 1) % (MaxValue + 1), d>>]
    BY <1>2, Zenon DEF U!Write
  <2>2. PICK n \in Nat : n = (setting.value[1] + 1) % (MaxValue + 1)
    <3>1. setting.value[1] + 1 \in Nat /\ MaxValue + 1 \in Nat \ {0}
      BY DEF IsSetting, UnitsAssumption
    <3> QED
      BY <3>1
  <2>3. setting' = [setting EXCEPT !.value = <<n, d>>]
    BY <2>1, <2>2
  <2>4. setting' = [value |-> <<n, d>>, unit |-> setting.unit, base |-> setting.base]
    BY <2>3, Zenon DEF IsSetting
  <2> QED
    BY <2>4 DEF IsSetting
<1> QED
  BY <1>1, <1>2

\* A setting means to Patroni what it means to PostgreSQL, whatever its value and its unit, if
\* it is a whole number of units or the base unit is a plain one (parse_int); and what Patroni
\* shows of it, written in the configuration, is that setting (convert_int_from_base_unit).
THEOREM SettingsMeanTheSame ==
  ASSUME UnitsAssumption
  PROVE  U!UnitsInit /\ [][U!Write]_setting => []U!SettingsAgree
BY SettingInitially, SettingStep, SettingAgrees, PTL
=============================================================================
