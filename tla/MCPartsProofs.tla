---------------------------- MODULE MCPartsProofs -----------------------------
(***************************************************************************)
(* The guarantee of the leader key, for every number of nodes and every    *)
(* ttl, loop_wait and watchdog timeout the configuration admits: under the *)
(* assumption Prompt, a node that writes holds the key.                    *)
(*                                                                         *)
(* The argument: a node in promotion or writing has an armed watchdog that *)
(* fires no later than its lease expires.  The watchdog is pinged only     *)
(* after a keepalive of the lease, while what was left of it is still      *)
(* running: at most Timeout after that keepalive, so that at least         *)
(* Ttl - Timeout >= Timeout of the lease is left.                          *)
(*                                                                         *)
(* Then: what is shown here of LeaderLock, and in ClusterProofs of other   *)
(* parts of Patroni, holds in every behaviour of MCParts.  The parts there *)
(* are the same modules, with variables that the parts share.              *)
(***************************************************************************)
EXTENDS MCParts, TLAPS


(* The node is between its decision to use the lease and its use.          *)
Deciding(n) == pc[n] \in {"racing", "acquired", "refreshed", "leading"}

(* A node in promotion or writing has the key, and is reset before the key *)
(* expires.                                                                *)
Guarded(n) ==
    pg[n] \in {"pre_promote", "promoting", "promoted", "primary"} =>
        leader = n /\ 0 < wd[n] /\ wd[n] <= lease[n]

(* What the HA loop concluded from etcd's answers still holds.             *)
Held(n) == pc[n] \in {"acquired", "refreshed", "leading"} => leader = n

(* No promotion is under way where the cycle may start one or race.        *)
Idle(n) == pc[n] \in {"racing", "acquired", "leading"} => ~Busy(n)

(* An open watchdog runs, and bounds how long a decision may be delayed.   *)
Armed(n) ==
    n \in opened =>
        /\ 0 < wd[n]
        /\ Deciding(n) => wd[n] <= lease[n]
        /\ pc[n] = "refreshed" => wd[n] + (Ttl - Timeout) <= lease[n]

(* Without an open watchdog, Prompt bounds it.                             *)
Unarmed(n) == n \notin opened /\ Deciding(n) => Timeout <= lease[n]

NodeInv(n) == Guarded(n) /\ Held(n) /\ Idle(n) /\ Armed(n) /\ Unarmed(n)
IInv == TypeOK /\ \A n \in Nodes : NodeInv(n)

-----------------------------------------------------------------------------
LEMMA TypeInit == Init => TypeOK
  BY LockAssumption DEF Init, TypeOK, PCs, PGs

(* Type correctness of each step of a node.                                *)
LEMMA TypeNode ==
    ASSUME TypeOK, NEW n \in Nodes, HaStep(n) \/ PromotionStep(n) \/ Restart(n)
    PROVE  TypeOK'
  <1> USE LockAssumption DEF TypeOK, PCs, PGs
  <1>1. CASE Load(n)
    BY <1>1 DEF Load, Goes
  <1>2. CASE Refresh(n)
    BY <1>2 DEF Refresh, RefreshKey, Goes
  <1>3. CASE RefreshFails(n)
    BY <1>3 DEF RefreshFails, RefreshKey, WithoutLock, Goes
  <1>4. CASE Keepalive(n)
    BY <1>4 DEF Keepalive, Goes
  <1>5. CASE Follow(n)
    BY <1>5 DEF Follow, WithoutLock, Goes
  <1>6. CASE Race(n)
    BY <1>6 DEF Race, RefreshLease, Goes
  <1>7. CASE Acquire(n)
    BY <1>7 DEF Acquire, Goes
  <1>8. CASE AcquireFails(n)
    BY <1>8 DEF AcquireFails, WithoutLock, Goes
  <1>9. CASE DcsError(n)
    BY <1>9 DEF DcsError, RefreshKey, Goes
  <1>10. CASE ActivateFails(n)
    BY <1>10 DEF ActivateFails, Release, Goes
  <1>11. CASE Enforce(n)
    BY <1>11 DEF Enforce, Activate, Release, Goes
  <1>12. CASE Stopped(n)
    BY <1>12 DEF Stopped, Release, Goes
  <1>13. CASE Touch(n)
    BY <1>13 DEF Touch, RefreshLease, Goes
  <1>14. CASE PrePromote(n)
    BY <1>14 DEF PrePromote
  <1>15. CASE Promote(n)
    BY <1>15 DEF Promote
  <1>16. CASE Promoted(n)
    BY <1>16 DEF Promoted
  <1>17. CASE Restart(n)
    BY <1>17 DEF Restart
  <1> QED
    BY <1>1, <1>2, <1>3, <1>4, <1>5, <1>6, <1>7, <1>8, <1>9, <1>10, <1>11, <1>12, <1>13, <1>14, <1>15, <1>16, <1>17 DEF HaStep, PromotionStep

LEMMA TypeTick == TypeOK /\ Tick => TypeOK'
  <1> SUFFICES ASSUME TypeOK, Tick PROVE TypeOK'
    OBVIOUS
  <1> USE LockAssumption DEF TypeOK, PCs, PGs
  <1>1. leader' \in Nodes \cup {None} /\ opened' \in SUBSET Nodes
    BY DEF Tick
  <1>2. \A t \in Nat : Left(t) \in 0..t
    BY DEF Left
  <1>3. lease' \in [Nodes -> 0..Ttl] /\ wd' \in [Nodes -> 0..Timeout]
    BY <1>2 DEF Tick
  <1>4. pg' \in [Nodes -> PGs]
    BY DEF Tick
  <1>5. pc' \in [Nodes -> PCs]
    BY DEF Tick
  <1>6. view' \in [Nodes -> Nodes \cup {None}]
    BY <1>1 DEF Tick
  <1> QED
    BY <1>1, <1>3, <1>4, <1>5, <1>6

(* The types hold for every number of nodes and every timing.              *)
THEOREM TypeCorrect == Spec => []TypeOK
  <1>1. TypeOK /\ [Next]_vars => TypeOK'
    <2> SUFFICES ASSUME TypeOK, [Next]_vars PROVE TypeOK'
      OBVIOUS
    <2>1. CASE Tick
      BY <2>1, TypeTick
    <2>2. CASE \E n \in Nodes : HaStep(n) \/ PromotionStep(n) \/ Restart(n)
      BY <2>2, TypeNode
    <2>3. CASE UNCHANGED vars
      BY <2>3 DEF vars, TypeOK
    <2> QED
      BY <2>1, <2>2, <2>3 DEF Next
  <1> QED
    BY TypeInit, <1>1, PTL DEF Spec

-----------------------------------------------------------------------------
LEMMA InvInit == Init => IInv
  <1> SUFFICES ASSUME Init PROVE IInv
    OBVIOUS
  <1>1. ASSUME NEW n \in Nodes PROVE NodeInv(n)
    BY DEF Init, NodeInv, Guarded, Held, Idle, Armed, Unarmed, Deciding
  <1> QED
    BY TypeInit, <1>1 DEF IInv

(* What a step of node n leaves to the others: their state, and their key. *)
Apart(n) ==
    \A m \in Nodes \ {n} :
        /\ lease'[m] = lease[m] /\ pc'[m] = pc[m] /\ pg'[m] = pg[m] /\ wd'[m] = wd[m]
        /\ m \in opened' <=> m \in opened
        /\ leader = m => leader' = m

(* Such a step preserves the invariant of the other nodes.                 *)
LEMMA ApartStep ==
    ASSUME IInv, TypeOK', NEW n \in Nodes, Apart(n), NodeInv(n)'
    PROVE  IInv'
  <1>1. ASSUME NEW m \in Nodes \ {n} PROVE NodeInv(m)'
    BY <1>1 DEF IInv, Apart, NodeInv, Guarded, Held, Idle, Armed, Unarmed, Deciding, Busy
  <1> QED
    BY <1>1 DEF IInv

(* Each step of a node preserves the invariant.                            *)
LEMMA InvNode ==
    ASSUME IInv, NEW n \in Nodes, HaStep(n) \/ PromotionStep(n) \/ Restart(n)
    PROVE  IInv'
  <1> USE LockAssumption
  <1>t. TypeOK /\ TypeOK' /\ NodeInv(n)
    BY TypeNode DEF IInv
  <1>1. CASE Load(n)
    <2>1. Apart(n)
      BY <1>t, <1>1 DEF TypeOK, Apart, Load, Goes
    <2>2. NodeInv(n)'
      BY <1>t, <1>1 DEF TypeOK, NodeInv, Guarded, Held, Idle, Armed, Unarmed, Deciding, Busy, Load, Goes
    <2> QED
      BY <1>t, <2>1, <2>2, ApartStep
  <1>2. CASE Refresh(n)
    <2>1. Apart(n)
      BY <1>t, <1>2 DEF TypeOK, Apart, Refresh, RefreshKey, Goes
    <2>2. NodeInv(n)'
      BY <1>t, <1>2 DEF TypeOK, NodeInv, Guarded, Held, Idle, Armed, Unarmed, Deciding, Busy, Refresh, RefreshKey, Goes
    <2> QED
      BY <1>t, <2>1, <2>2, ApartStep
  <1>3. CASE RefreshFails(n)
    <2>1. Apart(n)
      BY <1>t, <1>3 DEF TypeOK, Apart, RefreshFails, RefreshKey, WithoutLock, Goes
    <2>2. NodeInv(n)'
      BY <1>t, <1>3 DEF TypeOK, NodeInv, Guarded, Held, Idle, Armed, Unarmed, Deciding, Busy, RefreshFails, RefreshKey, WithoutLock, Goes
    <2> QED
      BY <1>t, <2>1, <2>2, ApartStep
  <1>4. CASE Keepalive(n)
    <2>1. Apart(n)
      BY <1>t, <1>4 DEF TypeOK, Apart, Keepalive, Goes
    <2>2. NodeInv(n)'
      BY <1>t, <1>4 DEF TypeOK, NodeInv, Guarded, Held, Idle, Armed, Unarmed, Deciding, Busy, Keepalive, Goes
    <2> QED
      BY <1>t, <2>1, <2>2, ApartStep
  <1>5. CASE Follow(n)
    <2>1. Apart(n)
      BY <1>t, <1>5 DEF TypeOK, Apart, Follow, WithoutLock, Goes
    <2>2. NodeInv(n)'
      BY <1>t, <1>5 DEF TypeOK, NodeInv, Guarded, Held, Idle, Armed, Unarmed, Deciding, Busy, Follow, WithoutLock, Goes
    <2> QED
      BY <1>t, <2>1, <2>2, ApartStep
  <1>6. CASE Race(n)
    <2>1. Apart(n)
      BY <1>t, <1>6 DEF TypeOK, Apart, Race, RefreshLease, Goes
    <2>2. NodeInv(n)'
      BY <1>t, <1>6 DEF TypeOK, NodeInv, Guarded, Held, Idle, Armed, Unarmed, Deciding, Busy, Race, RefreshLease, Goes
    <2> QED
      BY <1>t, <2>1, <2>2, ApartStep
  <1>7. CASE Acquire(n)
    <2>1. Apart(n)
      BY <1>t, <1>7 DEF TypeOK, Apart, Acquire, Goes
    <2>2. NodeInv(n)'
      BY <1>t, <1>7 DEF TypeOK, NodeInv, Guarded, Held, Idle, Armed, Unarmed, Deciding, Busy, Acquire, Goes
    <2> QED
      BY <1>t, <2>1, <2>2, ApartStep
  <1>8. CASE AcquireFails(n)
    <2>1. Apart(n)
      BY <1>t, <1>8 DEF TypeOK, Apart, AcquireFails, WithoutLock, Goes
    <2>2. NodeInv(n)'
      BY <1>t, <1>8 DEF TypeOK, NodeInv, Guarded, Held, Idle, Armed, Unarmed, Deciding, Busy, AcquireFails, WithoutLock, Goes
    <2> QED
      BY <1>t, <2>1, <2>2, ApartStep
  <1>9. CASE DcsError(n)
    <2>1. Apart(n)
      BY <1>t, <1>9 DEF TypeOK, Apart, DcsError, RefreshKey, Goes
    <2>2. NodeInv(n)'
      BY <1>t, <1>9 DEF TypeOK, NodeInv, Guarded, Held, Idle, Armed, Unarmed, Deciding, Busy, Writes, DcsError, RefreshKey, Goes
    <2> QED
      BY <1>t, <2>1, <2>2, ApartStep
  <1>10. CASE ActivateFails(n)
    <2>1. Apart(n)
      BY <1>t, <1>10 DEF TypeOK, Apart, ActivateFails, Release, Goes
    <2>2. NodeInv(n)'
      BY <1>t, <1>10 DEF TypeOK, NodeInv, Guarded, Held, Idle, Armed, Unarmed, Deciding, Busy, Writes, ActivateFails, Release, Goes
    <2> QED
      BY <1>t, <2>1, <2>2, ApartStep
  <1>11. CASE Enforce(n)
    <2>1. Apart(n)
      BY <1>t, <1>11 DEF TypeOK, Apart, Enforce, Activate, Release, Goes
    <2>2. NodeInv(n)'
      BY <1>t, <1>11 DEF TypeOK, NodeInv, Guarded, Held, Idle, Armed, Unarmed, Deciding, Busy, Enforce, Activate, Release, Goes
    <2> QED
      BY <1>t, <2>1, <2>2, ApartStep
  <1>12. CASE Stopped(n)
    <2>1. Apart(n)
      BY <1>t, <1>12 DEF TypeOK, Apart, Stopped, Release, Goes
    <2>2. NodeInv(n)'
      BY <1>t, <1>12 DEF TypeOK, NodeInv, Guarded, Held, Idle, Armed, Unarmed, Deciding, Busy, Stopped, Release, Goes
    <2> QED
      BY <1>t, <2>1, <2>2, ApartStep
  <1>13. CASE Touch(n)
    <2>1. Apart(n)
      BY <1>t, <1>13 DEF TypeOK, Apart, Touch, RefreshLease, Goes
    <2>2. NodeInv(n)'
      BY <1>t, <1>13 DEF TypeOK, NodeInv, Guarded, Held, Idle, Armed, Unarmed, Deciding, Busy, Touch, RefreshLease, Goes
    <2> QED
      BY <1>t, <2>1, <2>2, ApartStep
  <1>14. CASE PrePromote(n)
    <2>1. Apart(n)
      BY <1>t, <1>14 DEF TypeOK, Apart, PrePromote
    <2>2. NodeInv(n)'
      BY <1>t, <1>14 DEF TypeOK, NodeInv, Guarded, Held, Idle, Armed, Unarmed, Deciding, Busy, PrePromote
    <2> QED
      BY <1>t, <2>1, <2>2, ApartStep
  <1>15. CASE Promote(n)
    <2>1. Apart(n)
      BY <1>t, <1>15 DEF TypeOK, Apart, Promote
    <2>2. NodeInv(n)'
      BY <1>t, <1>15 DEF TypeOK, NodeInv, Guarded, Held, Idle, Armed, Unarmed, Deciding, Busy, Promote
    <2> QED
      BY <1>t, <2>1, <2>2, ApartStep
  <1>16. CASE Promoted(n)
    <2>1. Apart(n)
      BY <1>t, <1>16 DEF TypeOK, Apart, Promoted
    <2>2. NodeInv(n)'
      BY <1>t, <1>16 DEF TypeOK, NodeInv, Guarded, Held, Idle, Armed, Unarmed, Deciding, Busy, Promoted
    <2> QED
      BY <1>t, <2>1, <2>2, ApartStep
  <1>17. CASE Restart(n)
    <2>1. Apart(n)
      BY <1>t, <1>17 DEF TypeOK, Apart, Restart
    <2>2. NodeInv(n)'
      BY <1>t, <1>17 DEF TypeOK, NodeInv, Guarded, Held, Idle, Armed, Unarmed, Deciding, Busy, Restart
    <2> QED
      BY <1>t, <2>1, <2>2, ApartStep
  <1> QED
    BY <1>1, <1>2, <1>3, <1>4, <1>5, <1>6, <1>7, <1>8, <1>9, <1>10, <1>11, <1>12, <1>13, <1>14, <1>15, <1>16, <1>17 DEF HaStep, PromotionStep

(* A second resets the nodes whose watchdog fires; for the others what is  *)
(* left of the watchdog and of the lease shrinks alike.                    *)
LEMMA InvTick == Prompt /\ IInv /\ Tick => IInv'
  <1> SUFFICES ASSUME Prompt, IInv, Tick PROVE IInv'
    OBVIOUS
  <1>t. TypeOK /\ TypeOK'
    BY TypeTick DEF IInv
  <1>1. ASSUME NEW n \in Nodes PROVE NodeInv(n)'
    <2>i. NodeInv(n)
      BY DEF IInv
    <2>1. CASE wd[n] = 1
      <3>1. pg'[n] = "replica" /\ pc'[n] = "watch" /\ n \notin opened'
        BY <2>1 DEF Tick
      <3> QED
        BY <3>1 DEF NodeInv, Guarded, Held, Idle, Armed, Unarmed, Deciding
    <2>2. CASE wd[n] # 1
      <3>1. /\ pg'[n] = pg[n] /\ pc'[n] = pc[n]
            /\ n \in opened' <=> n \in opened
            /\ wd'[n] = Left(wd[n]) /\ lease'[n] = Left(lease[n])
        BY <2>2 DEF Tick
      <3>2. lease[n] \in Nat /\ wd[n] \in Nat
        BY <1>t DEF TypeOK
      <3>3. leader = n /\ 1 < lease[n] => leader' = n
        <4> SUFFICES ASSUME leader = n, 1 < lease[n] PROVE leader' = n
          OBVIOUS
        <4>1. ~ \E m \in Nodes : leader = m /\ lease[m] <= 1
          BY <3>2
        <4> QED
          BY <4>1 DEF Tick
      <3>4. n \notin opened /\ Deciding(n) => Timeout < lease[n]
        BY DEF Tick, Deciding
      <3>5. n \in opened => 1 < wd[n]
        BY <2>i, <2>2, <3>2 DEF NodeInv, Armed
      <3>6. Guarded(n)'
        BY <2>i, <2>2, <3>1, <3>2, <3>3 DEF NodeInv, Guarded, Left
      <3>7. Held(n)'
        BY <2>i, <3>1, <3>2, <3>3, <3>4, <3>5, LockAssumption
        DEF NodeInv, Held, Armed, Deciding
      <3>8. Idle(n)'
        BY <2>i, <3>1 DEF NodeInv, Idle, Busy
      <3>9. Armed(n)'
        BY <2>i, <3>1, <3>2, <3>5, LockAssumption DEF NodeInv, Armed, Deciding, Left
      <3>10. Unarmed(n)'
        BY <3>1, <3>2, <3>4, LockAssumption DEF Unarmed, Deciding, Left
      <3> QED
        BY <3>6, <3>7, <3>8, <3>9, <3>10 DEF NodeInv
    <2> QED
      BY <2>1, <2>2
  <1> QED
    BY <1>t, <1>1 DEF IInv

(* Where no node that has yet to open its watchdog sleeps through its      *)
(* lease, every node that writes holds the leader key (Ha.update_lock,     *)
(* Ha.enforce_primary_role).                                               *)
THEOREM LockKept == ASSUME Prompt PROVE Spec => []WriterHoldsKey
  <1>1. IInv /\ [Next]_vars => IInv'
    <2> SUFFICES ASSUME IInv, [Next]_vars PROVE IInv'
      OBVIOUS
    <2>1. CASE Tick
      BY <2>1, InvTick
    <2>2. CASE \E n \in Nodes : HaStep(n) \/ PromotionStep(n) \/ Restart(n)
      BY <2>2, InvNode
    <2>3. CASE UNCHANGED vars
      BY <2>3 DEF vars, IInv, TypeOK, NodeInv, Guarded, Held, Idle, Armed, Unarmed,
                  Deciding, Busy
    <2> QED
      BY <2>1, <2>2, <2>3 DEF Next
  <1>2. IInv => WriterHoldsKey
    BY DEF IInv, NodeInv, Guarded, WriterHoldsKey, Writes
  <1> QED
    BY InvInit, <1>1, <1>2, PTL DEF Spec

-----------------------------------------------------------------------------
\* The other parts.


P == INSTANCE ClusterProofs WITH
       Node <- Nodes \cup {Third}, MaxFaults <- 1,
       Ttl <- 2, MaxMoves <- 1, Forgetful <- FALSE, Lossy <- FALSE,
       MaxIds <- 3, Untidy <- FALSE,
       Strict <- FALSE, MaxLog <- 2, MaxByHand <- 0,
       SlotTtl <- 3, MaxSlotMoves <- 2, MaxXid <- 2, Reload <- FALSE,
       leader <- a, left <- b, failsafe <- c, members <- d, pg <- e, known <- f,
       heard <- g, step <- h, ran <- i, faults <- j, moves <- k,
       initialize <- b, view <- c, data <- d, busy <- f, booting <- g, called <- i, ids <- k,
       primary <- a, log <- b, streaming <- c, acked <- d, byHand <- e, sync <- f,
       ssn <- g, handler <- h, wanted <- i, plan <- k,
       retained <- b, slots <- c, loaded <- e, age <- f, owed <- g,
       follows <- b, slot <- c, removed <- d, phys <- e, status <- f, mind <- g,
       Kilo <- 32, MaxValue <- 20, setting <- a,
       \* the rest is not of these parts
       Server <- {}, Config <- {}, Product <- {}, RetryTimeout <- 1, MaxChanges <- 0,
       PreVote <- TRUE, Insistent <- FALSE, MaxRequests <- 0,
       product <- a, alive <- a, alone <- a, leaderless <- a, term <- a, changes <- a,
       cache <- a, base <- a, update <- a, call <- a,
       key <- a, failover <- a, paused <- a, lagging <- a

\* Cardinality is a definition of every instance.
LEMMA FailsafeCardinality == \A Q : F!Cardinality(Q) = P!F!Cardinality(Q)
BY DEF F!Cardinality, P!F!Cardinality
LEMMA MultiSyncCardinality == \A Q : M!Cardinality(Q) = P!M!Cardinality(Q)
BY DEF M!Cardinality, P!M!Cardinality

\* The parts here are those of ClusterProofs.
LEMMA FailsafeSame ==
  /\ ([F!FailsafeNext]_(F!vars) <=> [P!F!FailsafeNext]_(P!F!vars))
  /\ (F!Init <=> P!F!Init)
  /\ (F!OnePrimary <=> P!F!OnePrimary)
<1> USE DEF F!Unheard, F!AtEase, F!Goes, F!Runs, F!Ends, F!Knows, F!Counts, F!Forget,
    F!AllAgree, F!Others, F!Ask, F!Told, F!DcsError, F!Owner, F!MayRace, F!WriteFailsafe,
    F!Left, P!F!Unheard, P!F!AtEase, P!F!Goes, P!F!Runs, P!F!Ends, P!F!Knows, P!F!Counts,
    P!F!Forget, P!F!AllAgree, P!F!Others, P!F!Ask, P!F!Told, P!F!DcsError, P!F!Owner,
    P!F!MayRace, P!F!WriteFailsafe, P!F!Left
<1>1. ASSUME NEW n PROVE F!Load(n) <=> P!F!Load(n)
  BY DEF F!Load, P!F!Load
<1>2. ASSUME NEW n PROVE F!LoadFails(n) <=> P!F!LoadFails(n)
  BY DEF F!LoadFails, P!F!LoadFails
<1>3. ASSUME NEW n PROVE F!Update(n) <=> P!F!Update(n)
  BY DEF F!Update, P!F!Update
<1>4. ASSUME NEW n PROVE F!UpdateFails(n) <=> P!F!UpdateFails(n)
  BY DEF F!UpdateFails, P!F!UpdateFails
<1>5. ASSUME NEW n PROVE F!Acquire(n) <=> P!F!Acquire(n)
  BY DEF F!Acquire, P!F!Acquire
<1>6. ASSUME NEW n PROVE F!AcquireFails(n) <=> P!F!AcquireFails(n)
  BY DEF F!AcquireFails, P!F!AcquireFails
<1>7. ASSUME NEW n PROVE F!Promote(n) <=> P!F!Promote(n)
  BY DEF F!Promote, P!F!Promote
<1>8. ASSUME NEW n PROVE F!Follow(n) <=> P!F!Follow(n)
  BY DEF F!Follow, P!F!Follow
<1>9. ASSUME NEW n PROVE F!Move(n) <=> P!F!Move(n)
  BY DEF F!Move, P!F!Move
<1>10. ASSUME NEW n PROVE F!Fail(n) <=> P!F!Fail(n)
  BY DEF F!Fail, P!F!Fail
<1>11. F!Tick <=> P!F!Tick
  BY DEF F!Tick, P!F!Tick
<1>12. F!Init <=> P!F!Init
  BY DEF F!Init, P!F!Init
<1>13. F!OnePrimary <=> P!F!OnePrimary
  BY FailsafeCardinality DEF F!OnePrimary, P!F!OnePrimary
<1> QED
  BY <1>1, <1>2, <1>3, <1>4, <1>5, <1>6, <1>7, <1>8, <1>9, <1>10, <1>11, <1>12, <1>13
  DEF F!FailsafeNext, P!F!FailsafeNext, F!vars, P!F!vars

LEMMA BootstrapSame ==
  /\ ([B!BootstrapNext]_(B!vars) <=> [P!B!BootstrapNext]_(P!B!vars))
  /\ (B!Init <=> P!B!Init)
  /\ (B!OneSystem <=> P!B!OneSystem)
<1> USE DEF B!dcs, B!postgres, B!NoKey, B!InProgress, B!Empty, B!Broken, B!Valid, B!Set, B!Goes,
    B!At, B!Fault, B!Exit, B!Puts, B!PutInitialize, B!Member, P!B!dcs, P!B!postgres, P!B!NoKey,
    P!B!InProgress, P!B!Empty, P!B!Broken, P!B!Valid, P!B!Set, P!B!Goes, P!B!At, P!B!Fault,
    P!B!Exit, P!B!Puts, P!B!PutInitialize, P!B!Member
<1>1. ASSUME NEW n PROVE B!Load(n) <=> P!B!Load(n)
  BY DEF B!Load, P!B!Load
<1>2. ASSUME NEW n PROVE B!OwnKey(n) <=> P!B!OwnKey(n)
  BY DEF B!OwnKey, P!B!OwnKey
<1>3. ASSUME NEW n PROVE B!Race(n) <=> P!B!Race(n)
  BY DEF B!Race, P!B!Race
<1>4. ASSUME NEW n PROVE B!RaceUnanswered(n) <=> P!B!RaceUnanswered(n)
  BY DEF B!RaceUnanswered, P!B!RaceUnanswered
<1>5. ASSUME NEW n PROVE B!Wait(n) <=> P!B!Wait(n)
  BY DEF B!Wait, P!B!Wait
<1>6. ASSUME NEW n PROVE B!Join(n) <=> P!B!Join(n)
  BY DEF B!Join, P!B!Join
<1>7. ASSUME NEW n PROVE B!Run(n) <=> P!B!Run(n)
  BY DEF B!Run, P!B!Run
<1>8. ASSUME NEW n PROVE B!PostBootstrap(n) <=> P!B!PostBootstrap(n)
  BY DEF B!PostBootstrap, P!B!PostBootstrap
<1>9. ASSUME NEW n PROVE B!PostScriptFails(n) <=> P!B!PostScriptFails(n)
  BY DEF B!PostScriptFails, P!B!PostScriptFails
<1>10. ASSUME NEW n PROVE B!Initialized(n) <=> P!B!Initialized(n)
  BY DEF B!Initialized, P!B!Initialized
<1>11. ASSUME NEW n PROVE B!TakeLeader(n) <=> P!B!TakeLeader(n)
  BY DEF B!TakeLeader, P!B!TakeLeader
<1>12. ASSUME NEW n PROVE B!DeleteKey(n) <=> P!B!DeleteKey(n)
  BY DEF B!DeleteKey, P!B!DeleteKey
<1>13. ASSUME NEW n PROVE B!MoveData(n) <=> P!B!MoveData(n)
  BY DEF B!MoveData, P!B!MoveData
<1>14. ASSUME NEW n PROVE B!InitDb(n) <=> P!B!InitDb(n)
  BY DEF B!InitDb, P!B!InitDb
<1>15. ASSUME NEW n PROVE B!StartNew(n) <=> P!B!StartNew(n)
  BY DEF B!StartNew, P!B!StartNew
<1>16. ASSUME NEW n PROVE B!InitDbFails(n) <=> P!B!InitDbFails(n)
  BY DEF B!InitDbFails, P!B!InitDbFails
<1>17. ASSUME NEW n PROVE B!Clone(n) <=> P!B!Clone(n)
  BY DEF B!Clone, P!B!Clone
<1>18. ASSUME NEW n PROVE B!Crash(n) <=> P!B!Crash(n)
  BY DEF B!Crash, P!B!Crash
<1>19. ASSUME NEW n PROVE B!Clean(n) <=> P!B!Clean(n)
  BY DEF B!Clean, P!B!Clean
<1>20. B!KeyExpires <=> P!B!KeyExpires
  BY DEF B!KeyExpires, P!B!KeyExpires
<1>21. B!Init <=> P!B!Init
  BY DEF B!Init, P!B!Init
<1>22. B!OneSystem <=> P!B!OneSystem
  BY DEF B!OneSystem, P!B!OneSystem
<1> QED
  BY <1>1, <1>2, <1>3, <1>4, <1>5, <1>6, <1>7, <1>8, <1>9, <1>10, <1>11, <1>12, <1>13, <1>14,
      <1>15, <1>16, <1>17, <1>18, <1>19, <1>20, <1>21, <1>22
  DEF B!BootstrapNext, P!B!BootstrapNext, B!vars, P!B!vars

LEMMA MultiSyncSame ==
  /\ ([M!MultiSyncNext]_(M!vars) <=> [P!M!MultiSyncNext]_(P!M!vars))
  /\ (M!Init <=> P!M!Init)
  /\ (M!HeirsHaveCommits <=> P!M!HeirsHaveCommits)
<1> USE DEF M!Forgotten, M!Idle, M!Star, M!Noticed, M!Synchronous, M!WithReady, M!Better,
    M!Confirmed, M!At, M!Goes, M!Write, M!Fault, M!Electable, M!Cut, P!M!Forgotten,
    P!M!Idle, P!M!Star, P!M!Noticed, P!M!Synchronous, P!M!WithReady, P!M!Better, P!M!Choices,
    P!M!Confirmed, P!M!At, P!M!Goes, P!M!Write, P!M!Fault, P!M!Electable, P!M!Cut
<1>a. M!Choices = P!M!Choices
  BY MultiSyncCardinality DEF M!Choices, P!M!Choices
<1>1. M!Begin <=> P!M!Begin
  BY <1>a DEF M!Begin, P!M!Begin
<1>2. M!TakeOverKey <=> P!M!TakeOverKey
  BY DEF M!TakeOverKey, P!M!TakeOverKey
<1>3. M!RepairKey <=> P!M!RepairKey
  BY DEF M!RepairKey, P!M!RepairKey
<1>4. M!NarrowKey <=> P!M!NarrowKey
  BY DEF M!NarrowKey, P!M!NarrowKey
<1>5. M!SetNames <=> P!M!SetNames
  BY DEF M!SetNames, P!M!SetNames
<1>6. M!Confirm <=> P!M!Confirm
  BY <1>a DEF M!Confirm, P!M!Confirm
<1>7. M!WidenKey <=> P!M!WidenKey
  BY DEF M!WidenKey, P!M!WidenKey
<1>8. M!Interrupted <=> P!M!Interrupted
  BY DEF M!Interrupted, P!M!Interrupted
<1>9. M!ChangeCount <=> P!M!ChangeCount
  BY DEF M!ChangeCount, P!M!ChangeCount
<1>10. M!Commit <=> P!M!Commit
  BY DEF M!Commit, P!M!Commit
<1>11. ASSUME NEW r PROVE M!Replicate(r) <=> P!M!Replicate(r)
  BY DEF M!Replicate, P!M!Replicate
<1>12. ASSUME NEW r PROVE M!Connect(r) <=> P!M!Connect(r)
  BY DEF M!Connect, P!M!Connect
<1>13. M!Acknowledge <=> P!M!Acknowledge
  BY DEF M!Acknowledge, P!M!Acknowledge
<1>14. ASSUME NEW r PROVE M!Disconnect(r) <=> P!M!Disconnect(r)
  BY DEF M!Disconnect, P!M!Disconnect
<1>15. M!LosePrimary <=> P!M!LosePrimary
  BY DEF M!LosePrimary, P!M!LosePrimary
<1>16. ASSUME NEW n PROVE M!Promote(n) <=> P!M!Promote(n)
  BY DEF M!Promote, P!M!Promote
<1>17. ASSUME NEW n PROVE M!PromoteByHand(n) <=> P!M!PromoteByHand(n)
  BY DEF M!PromoteByHand, P!M!PromoteByHand
<1>18. M!Init <=> P!M!Init
  BY DEF M!Init, P!M!Init
<1>19. M!HeirsHaveCommits <=> P!M!HeirsHaveCommits
  BY DEF M!HeirsHaveCommits, P!M!HeirsHaveCommits
<1> QED
  BY <1>1, <1>2, <1>3, <1>4, <1>5, <1>6, <1>7, <1>8, <1>9, <1>10, <1>11, <1>12, <1>13, <1>14,
      <1>15, <1>16, <1>17, <1>18, <1>19
  DEF M!MultiSyncNext, P!M!MultiSyncNext, M!vars, P!M!vars

LEMMA MemberSlotsSame ==
  /\ ([D!MemberSlotsNext]_(D!vars) <=> [P!D!MemberSlotsNext]_(P!D!vars))
  /\ (D!Init <=> P!D!Init)
  /\ (D!SlotStays <=> P!D!SlotStays)
<1> USE DEF D!AtEase, D!NoneRetained, D!Owing, D!Goes, D!Retain, D!Published, D!Refreshed,
    D!Wanted, D!LoadSlots, D!Less, P!D!AtEase, P!D!NoneRetained, P!D!Owing, P!D!Goes,
    P!D!Retain, P!D!Published, P!D!Refreshed, P!D!Wanted, P!D!LoadSlots, P!D!Less
<1>1. ASSUME NEW n PROVE D!Load(n) <=> P!D!Load(n)
  BY DEF D!Load, P!D!Load
<1>2. ASSUME NEW n PROVE D!Acquire(n) <=> P!D!Acquire(n)
  BY DEF D!Acquire, P!D!Acquire
<1>3. ASSUME NEW n PROVE D!Update(n) <=> P!D!Update(n)
  BY DEF D!Update, P!D!Update
<1>4. ASSUME NEW n PROVE D!Write(n) <=> P!D!Write(n)
  BY DEF D!Write, P!D!Write
<1>5. ASSUME NEW n PROVE D!Sync(n) <=> P!D!Sync(n)
  BY DEF D!Sync, P!D!Sync
<1>6. ASSUME NEW m PROVE D!Move(m) <=> P!D!Move(m)
  BY DEF D!Move, P!D!Move
<1>7. D!LoseKey <=> P!D!LoseKey
  BY DEF D!LoseKey, P!D!LoseKey
<1>8. ASSUME NEW n PROVE D!Restart(n) <=> P!D!Restart(n)
  BY DEF D!Restart, P!D!Restart
<1>9. D!Tick <=> P!D!Tick
  BY DEF D!Tick, P!D!Tick
<1>10. D!Init <=> P!D!Init
  BY DEF D!Init, P!D!Init
<1>11. D!SlotStays <=> P!D!SlotStays
  BY DEF D!SlotStays, P!D!SlotStays
<1> QED
  BY <1>1, <1>2, <1>3, <1>4, <1>5, <1>6, <1>7, <1>8, <1>9, <1>10, <1>11
  DEF D!MemberSlotsNext, P!D!MemberSlotsNext, D!vars, P!D!vars

LEMMA LogicalSlotsSame ==
  /\ ([S!LogicalSlotsNext]_(S!vars) <=> [P!C!LogicalSlotsNext]_(P!C!vars))
  /\ (S!Init <=> P!C!Init)
  /\ (S!ReadyIsSafe <=> P!C!ReadyIsSafe)
<1> USE DEF S!NoSlot, S!Slot, S!Unknown, S!Done, S!Fresh, S!Standby, S!Streams, S!Fault,
    S!Later, S!Needed, S!Loaded, S!Remembered, S!Safe, S!Checked, S!Confused, S!Advances,
    S!Wanted, P!C!NoSlot, P!C!Slot, P!C!Unknown, P!C!Done, P!C!Fresh, P!C!Standby, P!C!Streams,
    P!C!Fault, P!C!Later, P!C!Needed, P!C!Loaded, P!C!Remembered, P!C!Safe, P!C!Checked,
    P!C!Confused, P!C!Advances, P!C!Wanted
<1>1. S!Consume <=> P!C!Consume
  BY DEF S!Consume, P!C!Consume
<1>2. S!Vacuum <=> P!C!Vacuum
  BY DEF S!Vacuum, P!C!Vacuum
<1>3. S!Lead <=> P!C!Lead
  BY DEF S!Lead, P!C!Lead
<1>4. S!PrimaryDies <=> P!C!PrimaryDies
  BY DEF S!PrimaryDies, P!C!PrimaryDies
<1>5. ASSUME NEW n PROVE S!Replay(n) <=> P!C!Replay(n)
  BY DEF S!Replay, P!C!Replay
<1>6. ASSUME NEW n PROVE S!Feedback(n) <=> P!C!Feedback(n)
  BY DEF S!Feedback, P!C!Feedback
<1>7. ASSUME NEW n PROVE S!Sync(n) <=> P!C!Sync(n)
  BY DEF S!Sync, P!C!Sync
<1>8. ASSUME NEW n PROVE S!Advance(n) <=> P!C!Advance(n)
  BY DEF S!Advance, P!C!Advance
<1>9. ASSUME NEW n PROVE S!CopyRead(n) <=> P!C!CopyRead(n)
  BY DEF S!CopyRead, P!C!CopyRead
<1>10. ASSUME NEW n PROVE S!CopyWrite(n) <=> P!C!CopyWrite(n)
  BY DEF S!CopyWrite, P!C!CopyWrite
<1>11. ASSUME NEW n PROVE S!Crash(n) <=> P!C!Crash(n)
  BY DEF S!Crash, P!C!Crash
<1>12. ASSUME NEW n PROVE S!Promote(n) <=> P!C!Promote(n)
  BY DEF S!Promote, P!C!Promote
<1>13. ASSUME NEW n PROVE S!Follow(n) <=> P!C!Follow(n)
  BY DEF S!Follow, P!C!Follow
<1>14. ASSUME NEW n PROVE S!Rejoin(n) <=> P!C!Rejoin(n)
  BY DEF S!Rejoin, P!C!Rejoin
<1>15. S!Init <=> P!C!Init
  BY DEF S!Init, P!C!Init
<1>16. S!ReadyIsSafe <=> P!C!ReadyIsSafe
  BY DEF S!ReadyIsSafe, P!C!ReadyIsSafe
<1> QED
  BY <1>1, <1>2, <1>3, <1>4, <1>5, <1>6, <1>7, <1>8, <1>9, <1>10, <1>11, <1>12, <1>13, <1>14,
      <1>15, <1>16
  DEF S!LogicalSlotsNext, P!C!LogicalSlotsNext, S!vars, P!C!vars

-----------------------------------------------------------------------------
LEMMA UnitsSame ==
  /\ (U!UnitsInit <=> P!U!UnitsInit)
  /\ (U!Write <=> P!U!Write)
  /\ (U!SettingsAgree <=> P!U!SettingsAgree)
<1>1. ASSUME NEW u, NEW unit PROVE U!get_conversion_table(u, unit) = P!U!get_conversion_table(u, unit)
  BY DEF U!get_conversion_table, P!U!get_conversion_table, U!In, P!U!In, U!Whole, P!U!Whole,
     U!Part, P!U!Part
<1>2. U!In = P!U!In /\ U!Bases = P!U!Bases
  BY DEF U!In, P!U!In, U!Whole, P!U!Whole, U!Part, P!U!Part, U!Bases, P!U!Bases
<1>3. ASSUME NEW x, NEW y PROVE U!Times(x, y) = P!U!Times(x, y) /\ U!Over(x, y) = P!U!Over(x, y)
  BY DEF U!Times, P!U!Times, U!Over, P!U!Over
<1>4. ASSUME NEW x PROVE U!Round(x) = P!U!Round(x)
  BY DEF U!Round, P!U!Round
<1>5. ASSUME NEW u
      PROVE  U!IsLast(u) = P!U!IsLast(u) /\ U!Next(u) = P!U!Next(u) /\ U!Table(u) = P!U!Table(u)
  BY DEF U!IsLast, P!U!IsLast, U!Next, P!U!Next, U!Table, P!U!Table, U!round_order, P!U!round_order,
     U!Memory, P!U!Memory, U!Time, P!U!Time
<1>6. ASSUME NEW x, NEW u, NEW y PROVE U!parse_int(x, u, y) = P!U!parse_int(x, u, y)
  BY <1>1, <1>3, <1>4, <1>5
  DEF U!parse_int, P!U!parse_int, U!convert_to_base_unit, P!U!convert_to_base_unit,
      U!RoundTo, P!U!RoundTo
<1>7. ASSUME NEW v, NEW y PROVE U!Shown(v, y) = P!U!Shown(v, y)
  <2>1. PICK t : t = U!Table(y.unit) /\ t = P!U!Table(y.unit)
    BY <1>5
  <2> DEFINE Fits(unit) ==
               LET m == U!get_conversion_table(unit, y.unit)
               IN  m[1] <= m[2] \/ (v * y.times) % m[1] = 0
             FitsThere(unit) ==
               LET m == P!U!get_conversion_table(unit, y.unit)
               IN  m[1] <= m[2] \/ (v * y.times) % m[1] = 0
             First(n) == Fits(t[n]) /\ \A l \in 1 .. (n - 1) : ~Fits(t[l])
             FirstThere(n) == FitsThere(t[n]) /\ \A l \in 1 .. (n - 1) : ~FitsThere(t[l])
  <2>2. \A unit : Fits(unit) <=> FitsThere(unit)
    BY <1>1
  <2>3. \A n : First(n) <=> FirstThere(n)
    <3> HIDE DEF Fits, FitsThere
    <3> QED
      BY <2>2
  <2>4. PICK n : n = (CHOOSE m \in DOMAIN t : First(m)) /\ n = (CHOOSE m \in DOMAIN t : FirstThere(m))
    <3> HIDE DEF First, FirstThere
    <3> QED
      BY <2>3, Zenon
  <2>5. U!convert_int_from_base_unit(v, y) =
          [value |-> <<U!Round(U!Over(<<v * y.times, 1>>, U!get_conversion_table(t[n], y.unit))), 1>>,
           unit |-> t[n]]
    BY <2>1, <2>4, Zenon DEF U!convert_int_from_base_unit
  <2>6. P!U!convert_int_from_base_unit(v, y) =
          [value |-> <<P!U!Round(P!U!Over(<<v * y.times, 1>>, P!U!get_conversion_table(t[n], y.unit))), 1>>,
           unit |-> t[n]]
    BY <2>1, <2>4, Zenon DEF P!U!convert_int_from_base_unit
  <2>7. U!convert_int_from_base_unit(v, y) = P!U!convert_int_from_base_unit(v, y)
    BY <1>1, <1>3, <1>4, <2>5, <2>6
  <2> QED
    BY <2>7 DEF U!Shown, P!U!Shown
<1>8. ASSUME NEW x, NEW u, NEW y PROVE U!PostgresReads(x, u, y) = P!U!PostgresReads(x, u, y)
  BY <1>1, <1>3, <1>4, <1>5 DEF U!PostgresReads, P!U!PostgresReads
<1>9. U!UnitsInit <=> P!U!UnitsInit
  BY <1>2 DEF U!UnitsInit, P!U!UnitsInit
<1>10. U!Write <=> P!U!Write
  BY DEF U!Write, P!U!Write
<1>11. U!SettingsAgree <=> P!U!SettingsAgree
  BY <1>6, <1>7, <1>8 DEF U!SettingsAgree, P!U!SettingsAgree, U!compare_values, P!U!compare_values
<1> QED
  BY <1>9, <1>10, <1>11

FailsafeHolds == part = "failsafe" => P!FailsafeInv
BootstrapHolds == part = "bootstrap" => P!BootstrapInv
MultiSyncHolds == part = "multisync" => P!MultiSyncInv
SlotsHold == part = "slots" => P!SlotsInv
CopiesHold == part = "logical" => P!CopiesInv /\ P!Undisturbed
UnitsHold == part = "units" => P!IsSetting

LEMMA Constants ==
  LET Node == Nodes \cup {Third} IN None \notin Node /\ Node # {} /\ {2, 3} \subseteq Nat \ {0} /\ 2 > 1
BY LockAssumption, ThirdAssumption

LEMMA CopiesConstants == P!CopiesAssumption /\ Nodes \cup {Third} # {} /\ 1 \in {0, 1}
BY LockAssumption, ThirdAssumption DEF P!CopiesAssumption

LEMMA UnitsConstants == P!UnitsAssumption
<1>1. 20 \in Nat /\ 2 \in Nat \ {0} /\ 32 = 16 * 2
  OBVIOUS
<1> QED
  BY <1>1 DEF P!UnitsAssumption

LEMMA PartsInitially ==
  ASSUME PartsInit
  PROVE  FailsafeHolds /\ BootstrapHolds /\ MultiSyncHolds /\ SlotsHold /\ CopiesHold /\ UnitsHold
<1>1. /\ part = "failsafe" => F!Init
      /\ part = "bootstrap" => B!Init
      /\ part = "multisync" => M!Init
      /\ part = "slots" => D!Init
      /\ part = "logical" => S!Init
      /\ part = "units" => U!UnitsInit
  BY DEF PartsInit
<1>2. CopiesHold
  BY <1>1, CopiesConstants, LogicalSlotsSame, P!CopiesInitially, P!UndisturbedInitially DEF CopiesHold
<1>3. UnitsHold
  BY <1>1, UnitsSame, P!SettingInitially DEF UnitsHold
<1> QED
  BY <1>1, <1>2, <1>3, Constants, FailsafeSame, P!FailsafeInitially, BootstrapSame, P!BootstrapInitially,
     MultiSyncSame, P!MultiSyncInitially, MemberSlotsSame, P!SlotsInitially
  DEF FailsafeHolds, BootstrapHolds, MultiSyncHolds, SlotsHold

LEMMA PartsStep ==
  ASSUME [PartsNext]_partVars
  PROVE  /\ FailsafeHolds => FailsafeHolds'
         /\ BootstrapHolds => BootstrapHolds'
         /\ MultiSyncHolds => MultiSyncHolds'
         /\ SlotsHold => SlotsHold'
         /\ CopiesHold => CopiesHold'
         /\ UnitsHold => UnitsHold'
<1>1. /\ part' = part
      /\ part = "failsafe" => [F!FailsafeNext]_(F!vars)
      /\ part = "bootstrap" => [B!BootstrapNext]_(B!vars)
      /\ part = "multisync" => [M!MultiSyncNext]_(M!vars)
      /\ part = "slots" => [D!MemberSlotsNext]_(D!vars)
      /\ part = "logical" => [S!LogicalSlotsNext]_(S!vars)
      /\ part = "units" => [U!Write]_a
  BY DEF PartsNext, partVars, shared, F!vars, B!vars, M!vars, D!vars, S!vars
<1>2. FailsafeHolds => FailsafeHolds'
  BY <1>1, Constants, FailsafeSame, P!FailsafeInvKept DEF FailsafeHolds
<1>3. BootstrapHolds => BootstrapHolds'
  BY <1>1, Constants, BootstrapSame, P!BootstrapInvKept DEF BootstrapHolds
<1>4. MultiSyncHolds => MultiSyncHolds'
  BY <1>1, Constants, MultiSyncSame, P!MultiSyncInvKept DEF MultiSyncHolds
<1>5. SlotsHold => SlotsHold'
  BY <1>1, Constants, MemberSlotsSame, P!SlotsInvKept DEF SlotsHold
<1>6. CopiesHold => CopiesHold'
  BY <1>1, CopiesConstants, LogicalSlotsSame, P!FirstIsFollowed, P!CopiesStep, P!UndisturbedStep
  DEF CopiesHold
<1>7. UnitsHold => UnitsHold'
  BY <1>1, UnitsConstants, UnitsSame, P!SettingStep DEF UnitsHold
<1> QED BY <1>2, <1>3, <1>4, <1>5, <1>6, <1>7

\* Failsafe's OnePrimary in MCParts: with failsafe_mode there is never a second primary.
THEOREM HostOnePrimary == PartsSpec => []OnePrimary
<1>1. FailsafeHolds => OnePrimary
  BY Constants, FailsafeSame, P!FailsafeInvSafe DEF FailsafeHolds, OnePrimary
<1> QED BY <1>1, PartsInitially, PartsStep, PTL DEF PartsSpec

\* Bootstrap's OneSystem in MCParts: all members are of the cluster that was initialized.
THEOREM HostOneSystem == PartsSpec => []OneSystem
<1>1. BootstrapHolds => OneSystem
  BY BootstrapSame, P!BootstrapInvSafe DEF BootstrapHolds, OneSystem
<1> QED BY <1>1, PartsInitially, PartsStep, PTL DEF PartsSpec

\* MultiSync's HeirsHaveCommits in MCParts: whoever may be promoted has what was acknowledged.
THEOREM HostHeirsHaveCommits == PartsSpec => []HeirsHaveCommits
<1>1. MultiSyncHolds => HeirsHaveCommits
  BY MultiSyncSame, P!MultiSyncInvSafe DEF MultiSyncHolds, HeirsHaveCommits
<1> QED BY <1>1, PartsInitially, PartsStep, PTL DEF PartsSpec

\* LogicalSlots' ReadyIsSafe in MCParts: a copy of a permanent slot that is not in the queue has
\* the rows of the catalog that it needs.
THEOREM HostReadyIsSafe == PartsSpec => []ReadyIsSafe
<1>1. CopiesHold => ReadyIsSafe
  BY LogicalSlotsSame, P!CopiesSafe DEF CopiesHold, ReadyIsSafe
<1> QED BY <1>1, PartsInitially, PartsStep, PTL DEF PartsSpec

\* Units' SettingsAgree in MCParts: a setting means to Patroni what it means to PostgreSQL.
THEOREM HostSettingsAgree == PartsSpec => []SettingsAgree
<1>1. UnitsHold => SettingsAgree
  BY UnitsConstants, UnitsSame, P!SettingAgrees DEF UnitsHold, SettingsAgree
<1> QED BY <1>1, PartsInitially, PartsStep, PTL DEF PartsSpec

\* MemberSlots' SlotKept in MCParts: no node drops the slot of a member that has not been away
\* for member_slots_ttl.
THEOREM HostSlotKept == PartsSpec => SlotKept
<1>1. SlotsHold /\ [PartsNext]_partVars => [part = "slots" => D!SlotStays]_partVars
  <2> SUFFICES ASSUME SlotsHold, [PartsNext]_partVars, part = "slots" PROVE D!SlotStays
    OBVIOUS
  <2>1. [D!MemberSlotsNext]_(D!vars)
    BY DEF PartsNext, partVars, shared, D!vars
  <2> QED BY <2>1, MemberSlotsSame, P!SlotsInvStays DEF SlotsHold
<1> QED BY <1>1, PartsInitially, PartsStep, PTL DEF PartsSpec, SlotKept

\* Every behaviour of MCParts is one of LeaderLock, most of the time at rest.
LEMMA LockRefined == PartsInit /\ [][PartsNext]_partVars => Spec
<1>1. PartsInit => Init
  BY DEF PartsInit
<1>2. [PartsNext]_partVars => [Next]_vars
  BY DEF PartsNext, partVars
<1> QED BY <1>1, <1>2, PTL DEF Spec

\* LeaderLock's WriterHoldsKey in MCParts: a node that writes holds the leader key.
THEOREM HostLockKept == ASSUME Prompt PROVE PartsSpec => []WriterHoldsKey
BY LockRefined, LockKept, PTL DEF PartsSpec
=============================================================================
