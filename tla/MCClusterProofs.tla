---------------------------- MODULE MCClusterProofs ---------------------------
(***************************************************************************)
(* What ClusterProofs shows of Switchover in general holds in every        *)
(* behaviour of MCCluster, where it shares variables with other parts.     *)
(***************************************************************************)
EXTENDS MCCluster, TLAPS

P == INSTANCE ClusterProofs WITH
       Node <- Servers, MaxFaults <- 1, MaxRequests <- 1,
       key <- a, failover <- b, sync <- c, paused <- d, pg <- e, lagging <- f,
       view <- g, step <- h, faults <- i,
       \* the rest is not of this part
       Ttl <- 1, MaxMoves <- 0, Forgetful <- FALSE, Lossy <- FALSE, MaxIds <- 0, Untidy <- FALSE,
       Strict <- FALSE, MaxLog <- 0, MaxByHand <- 0, SlotTtl <- 1, MaxSlotMoves <- 0,
       Server <- {}, Config <- {}, Product <- {}, RetryTimeout <- 1, MaxChanges <- 0,
       PreVote <- TRUE, Insistent <- FALSE,
       MaxXid <- 1, Reload <- FALSE, follows <- a, slot <- a, removed <- a, phys <- a, status <- a,
       mind <- a, Kilo <- 16, MaxValue <- 0, setting <- a,
       leader <- a, left <- a, failsafe <- a, members <- a, known <- a, heard <- a, ran <- a,
       moves <- a, initialize <- a, data <- a, busy <- a, booting <- a, called <- a, ids <- a,
       primary <- a, log <- a, streaming <- a, acked <- a, byHand <- a, ssn <- a,
       handler <- a, wanted <- a, plan <- a, retained <- a, slots <- a, loaded <- a, age <- a,
       owed <- a, product <- a, alive <- a, alone <- a, leaderless <- a, term <- a,
       changes <- a, cache <- a, base <- a, update <- a, call <- a

LEMMA ServersCardinality == \A Q : S!Cardinality(Q) = P!W!Cardinality(Q)
BY DEF S!Cardinality, P!W!Cardinality

\* The switchovers here are those of ClusterProofs.
LEMMA SwitchoverSame ==
  /\ ([S!SwitchoverNext]_(S!vars) <=> [P!W!SwitchoverNext]_(P!W!vars))
  /\ (S!Init <=> P!W!Init)
  /\ (S!HeirsAreCurrent <=> P!W!HeirsAreCurrent)
<1> USE DEF S!NoSync, S!NoView, S!Request, S!Cleared, S!IsSet, S!Scheduled, S!SyncActive, S!Listed,
    S!ApiAllows, S!CtlAllows, S!Synchronous, S!Candidates, S!IsFailoverPossible, S!IsHealthiest,
    S!RaceFor, S!ManualNoLeader, S!IsHealthiestNode, S!EndCycle, S!In, S!Becomes, S!CleanUp,
    S!HasLock, S!Asked, S!Possible, S!Handles, S!Unlocked, S!Wins, S!CleanAfterWin, S!WriteSync,
    S!LeaveSync, P!W!NoSync, P!W!NoView, P!W!Request, P!W!Cleared, P!W!IsSet, P!W!Scheduled,
    P!W!SyncActive, P!W!Listed, P!W!ApiAllows, P!W!CtlAllows, P!W!Synchronous, P!W!Candidates,
    P!W!IsFailoverPossible, P!W!IsHealthiest, P!W!RaceFor, P!W!ManualNoLeader, P!W!IsHealthiestNode,
    P!W!EndCycle, P!W!In, P!W!Becomes, P!W!CleanUp, P!W!HasLock, P!W!Asked, P!W!Possible,
    P!W!Handles, P!W!Unlocked, P!W!Wins, P!W!CleanAfterWin, P!W!WriteSync, P!W!LeaveSync
<1>a. \A n : S!LookAfterSync(n) <=> P!W!LookAfterSync(n)
  BY ServersCardinality DEF S!LookAfterSync, P!W!LookAfterSync
<1>b. \A n : S!GoOnLeading(n) <=> P!W!GoOnLeading(n)
  BY <1>a DEF S!GoOnLeading, S!Prepromote, S!Postpone, P!W!GoOnLeading, P!W!Prepromote, P!W!Postpone
<1>1. ASSUME NEW p, NEW q, NEW w PROVE S!Ask(p, q, w) <=> P!W!Ask(p, q, w)
  BY DEF S!Ask, P!W!Ask
<1>2. S!CallOff <=> P!W!CallOff
  BY DEF S!CallOff, P!W!CallOff
<1>3. S!TogglePause <=> P!W!TogglePause
  BY DEF S!TogglePause, P!W!TogglePause
<1>4. S!Stall <=> P!W!Stall
  BY DEF S!Stall, P!W!Stall
<1>5. S!Expire <=> P!W!Expire
  BY DEF S!Expire, P!W!Expire
<1>6. S!TimePasses <=> P!W!TimePasses
  BY DEF S!TimePasses, P!W!TimePasses
<1>7. ASSUME NEW n PROVE S!CatchUp(n) <=> P!W!CatchUp(n)
  BY DEF S!CatchUp, P!W!CatchUp
<1>8. ASSUME NEW n PROVE S!Crash(n) <=> P!W!Crash(n)
  BY DEF S!Crash, P!W!Crash
<1>9. ASSUME NEW n PROVE S!Restart(n) <=> P!W!Restart(n)
  BY DEF S!Restart, P!W!Restart
<1>10. ASSUME NEW n PROVE S!Load(n) <=> P!W!Load(n)
  BY DEF S!Load, P!W!Load
<1>11. ASSUME NEW n PROVE S!LoseKey(n) <=> P!W!LoseKey(n)
  BY DEF S!LoseKey, P!W!LoseKey
<1>12. ASSUME NEW n PROVE S!GiveKeyBack(n) <=> P!W!GiveKeyBack(n)
  BY DEF S!GiveKeyBack, P!W!GiveKeyBack
<1>13. ASSUME NEW n PROVE S!KeepLeading(n) <=> P!W!KeepLeading(n)
  BY <1>b DEF S!KeepLeading, P!W!KeepLeading
<1>14. ASSUME NEW n PROVE S!TooLate(n) <=> P!W!TooLate(n)
  BY <1>b DEF S!TooLate, P!W!TooLate
<1>15. ASSUME NEW n PROVE S!Sleep(n) <=> P!W!Sleep(n)
  BY DEF S!Sleep, P!W!Sleep
<1>16. ASSUME NEW n PROVE S!Wake(n) <=> P!W!Wake(n)
  BY DEF S!Wake, P!W!Wake
<1>17. ASSUME NEW n PROVE S!Demote(n) <=> P!W!Demote(n)
  BY DEF S!Demote, P!W!Demote
<1>18. ASSUME NEW n PROVE S!Refuse(n) <=> P!W!Refuse(n)
  BY <1>b DEF S!Refuse, P!W!Refuse
<1>19. ASSUME NEW n PROVE S!ReleaseEarly(n) <=> P!W!ReleaseEarly(n)
  BY DEF S!ReleaseEarly, P!W!ReleaseEarly
<1>20. ASSUME NEW n PROVE S!Stopped(n) <=> P!W!Stopped(n)
  BY DEF S!Stopped, P!W!Stopped
<1>21. ASSUME NEW n PROVE S!DropRequest(n) <=> P!W!DropRequest(n)
  BY DEF S!DropRequest, P!W!DropRequest
<1>22. ASSUME NEW n PROVE S!Acquire(n) <=> P!W!Acquire(n)
  BY DEF S!Acquire, P!W!Acquire
<1>23. ASSUME NEW n PROVE S!Won(n) <=> P!W!Won(n)
  BY <1>b DEF S!Won, P!W!Won
<1>24. ASSUME NEW n PROVE S!NotHealthiest(n) <=> P!W!NotHealthiest(n)
  BY DEF S!NotHealthiest, P!W!NotHealthiest
<1>25. S!Init <=> P!W!Init
  BY DEF S!Init, P!W!Init
<1>26. S!HeirsAreCurrent <=> P!W!HeirsAreCurrent
  BY DEF S!HeirsAreCurrent, P!W!HeirsAreCurrent
<1>27. ASSUME NEW n PROVE S!FallBehind(n) <=> P!W!FallBehind(n)
  BY DEF S!FallBehind, P!W!FallBehind
<1>28. ASSUME NEW n PROVE S!Promoted(n) <=> P!W!Promoted(n)
  BY DEF S!Promoted, P!W!Promoted
<1>29. ASSUME NEW n PROVE S!Cancelled(n) <=> P!W!Cancelled(n)
  BY DEF S!Cancelled, P!W!Cancelled
<1> QED
  BY <1>1, <1>2, <1>3, <1>4, <1>5, <1>6, <1>7, <1>8, <1>9, <1>10, <1>11, <1>12, <1>13, <1>14,
      <1>15, <1>16, <1>17, <1>18, <1>19, <1>20, <1>21, <1>22, <1>23, <1>24, <1>25, <1>26,
      <1>27, <1>28, <1>29
  DEF S!SwitchoverNext, S!vars, S!Cycle, S!Turn, P!W!SwitchoverNext, P!W!vars, P!W!Cycle, P!W!Turn

-----------------------------------------------------------------------------
SwitchoverHolds == part = "switchover" => P!SwitchoverInv

\* Switchover's HeirsAreCurrent in MCCluster: the nodes that may race in synchronous mode
\* lack nothing that counts, however late a former leader's cycle goes on.
THEOREM HostHeirsAreCurrent ==
  ASSUME None \notin Servers PROVE Spec => []HeirsAreCurrent
<1> USE DEF P!SwitchoverAssumption
<1>1. Init => SwitchoverHolds
  BY SwitchoverSame, P!SwitchoverInitially DEF Init, SwitchoverHolds
<1>2. [Next]_vars => part' = part /\ (part = "switchover" => [S!SwitchoverNext]_(S!vars))
  BY DEF Next, vars, shared, S!vars
<1>3. SwitchoverHolds /\ [Next]_vars => SwitchoverHolds'
  BY <1>2, SwitchoverSame, P!SwitchoverKept DEF SwitchoverHolds
<1>4. SwitchoverHolds => HeirsAreCurrent
  BY SwitchoverSame
  DEF SwitchoverHolds, HeirsAreCurrent, P!SwitchoverInv, P!HeirsEntitled, P!W!HeirsAreCurrent
<1> QED BY <1>1, <1>3, <1>4, PTL DEF Spec

-----------------------------------------------------------------------------
Q == INSTANCE PartsProofs WITH
       Host <- Servers, Up <- {n1, n2},
       worker <- a, queue <- b, flight <- c, late <- d, cache <- e, load <- f,
       job <- g, table <- h, open <- i, leads <- j, mixed <- k, used <- l,
       \* the rest is not of this part
       Node <- Servers, Client <- {}, MaxWrites <- 0, MaxOps <- 0, EarlyPut <- FALSE, WhileStarting <- FALSE,
       ZeroIsAny <- FALSE,
       Ttl <- 1, Quorum <- FALSE, Prompt <- FALSE, MaxFaults <- 0, Number <- {}, MaxVersion <- 0,
       MaxRestarts <- 0, Garbled <- FALSE,
       key <- a, written <- a, client <- a, daemon <- a, params <- a, pg <- a, pending <- a, primary <- a,
       ops <- a, leader <- a, left <- a, sync <- a, view <- a, until <- a, step <- a, asked <- a, api <- a,
       faults <- a, local <- a, dynamic <- a, effective <- a, seen <- a, restarts <- a, holder <- a, sure <- a

LEMMA CitusCardinality == \A s : C!Cardinality(s) = Q!C!Cardinality(s)
BY DEF C!Cardinality, Q!C!Cardinality

\* The group's topologies and statements here are those of PartsProofs.
LEMMA NodesSame ==
  /\ \A r, n : C!Node(r, n) = Q!C!Node(r, n)
  /\ \A n : C!IsPrimary(n) <=> Q!C!IsPrimary(n)
  /\ \A s : C!Primary(s) = Q!C!Primary(s)
  /\ \A s : C!Roles(s) = Q!C!Roles(s)
  /\ \A s, n, m : C!With(s, n, m) = Q!C!With(s, n, m)
  /\ \A n, m : C!Only(n, m) = Q!C!Only(n, m)
  /\ \A s, n : C!Restrict(s, n) = Q!C!Restrict(s, n)
BY DEF C!Node, C!IsPrimary, C!Primary, C!Roles, C!With, C!Only, C!Restrict,
  Q!C!Node, Q!C!IsPrimary, Q!C!Primary, Q!C!Roles, Q!C!With, Q!C!Only, Q!C!Restrict

LEMMA UpdateNodeSame == \A t, s : C!update_node(t, s) = Q!C!update_node(t, s)
BY DEF C!update_node, C!citus_update_node, C!citus_add_node, C!Node, C!Named, C!Restrict, C!Range,
  C!Injection, C!IsInjective, C!Cardinality,
  Q!C!update_node, Q!C!citus_update_node, Q!C!citus_add_node, Q!C!Node, Q!C!Named, Q!C!Restrict,
  Q!C!Range, Q!C!Injection, Q!C!IsInjective, Q!C!Cardinality

LEMMA TakesSame == \A t, n, r, id : C!Takes(t, n, r, id) = Q!C!Takes(t, n, r, id)
BY NodesSame, UpdateNodeSame DEF C!Takes, Q!C!Takes

LEMMA SamePrimarySame == \A t, p : C!SamePrimary(t, p) = Q!C!SamePrimary(t, p)
BY NodesSame, TakesSame DEF C!SamePrimary, Q!C!SamePrimary

LEMMA VacateSame == \A t, p, q : C!Vacate(t, p, q) = Q!C!Vacate(t, p, q)
<1>1. ASSUME NEW t, NEW p, NEW q PROVE C!VacateWithAdded(t, p, q) = Q!C!VacateWithAdded(t, p, q)
  <2> DEFINE put(v) == [t EXCEPT !.added = @ \ {v}, !.old[p].role = "secondary"]
             one(v) == C!Takes(put(v), v, "secondary", t.old[q].id)
             other(v) == Q!C!Takes(put(v), v, "secondary", t.old[q].id)
  <2>1. C!VacateWithAdded(t, p, q) = UNION {one(v) : v \in t.added}
    BY Zenon DEF C!VacateWithAdded
  <2>2. Q!C!VacateWithAdded(t, p, q) = UNION {other(v) : v \in t.added}
    BY Zenon DEF Q!C!VacateWithAdded
  <2>3. \A v : one(v) = other(v)
    <3> HIDE DEF put
    <3> QED
      BY TakesSame, Zenon
  <2> HIDE DEF one, other
  <2> QED
    BY <2>1, <2>2, <2>3
<1>2. ASSUME NEW t, NEW p, NEW q PROVE C!VacateWithOld(t, p, q) = Q!C!VacateWithOld(t, p, q)
  BY TakesSame, UpdateNodeSame, NodesSame DEF C!VacateWithOld, Q!C!VacateWithOld
<1> QED
  BY <1>1, <1>2 DEF C!Vacate, Q!C!Vacate

LEMMA KeepOldSame == \A t, p, q : C!KeepOld(t, p, q) = Q!C!KeepOld(t, p, q)
<1> SUFFICES ASSUME NEW t, NEW p, NEW q PROVE C!KeepOld(t, p, q) = Q!C!KeepOld(t, p, q)
  OBVIOUS
<1> DEFINE put(v) == [t EXCEPT !.gone = @ \ {v}]
           one(v) == C!Takes(put(v), p, "secondary", t.old[v].id)
           other(v) == Q!C!Takes(put(v), p, "secondary", t.old[v].id)
           more == C!Cardinality(t.gone) > C!Cardinality(t.added)
           kept(x) == IF q \in DOMAIN t.old \/ t.gone = {} THEN {t}
                      ELSE IF p \in DOMAIN t.new \/ (t.old[p].role = "demoted" /\ more) THEN x ELSE {t}
<1>1. C!KeepOld(t, p, q) = kept(UNION {one(v) : v \in t.gone})
  BY Zenon DEF C!KeepOld
<1>2. Q!C!KeepOld(t, p, q) = kept(UNION {other(v) : v \in t.gone})
  BY CitusCardinality, Zenon DEF Q!C!KeepOld
<1>3. \A v : one(v) = other(v)
  <2> HIDE DEF put
  <2> QED
    BY TakesSame, Zenon
<1> HIDE DEF one, other, kept
<1>4. UNION {one(v) : v \in t.gone} = UNION {other(v) : v \in t.gone}
  BY <1>3
<1> QED
  BY <1>1, <1>2, <1>4

LEMMA NewPrimarySame == \A t, p, q : C!NewPrimary(t, p, q) = Q!C!NewPrimary(t, p, q)
<1> SUFFICES ASSUME NEW t, NEW p, NEW q PROVE C!NewPrimary(t, p, q) = Q!C!NewPrimary(t, p, q)
  OBVIOUS
<1> DEFINE s == [t EXCEPT !.failover = TRUE]
           one(u) == C!Takes(u, q, u.new[q].role, t.old[p].id)
           other(u) == Q!C!Takes(u, q, u.new[q].role, t.old[p].id)
           ones == UNION {one(u) : u \in C!Vacate(s, p, q)}
           others == UNION {other(u) : u \in Q!C!Vacate(s, p, q)}
<1>1. C!NewPrimary(t, p, q) = UNION {C!KeepOld(w, p, q) : w \in ones}
  BY Zenon DEF C!NewPrimary
<1>2. Q!C!NewPrimary(t, p, q) = UNION {Q!C!KeepOld(w, p, q) : w \in others}
  BY Zenon DEF Q!C!NewPrimary
<1>3. ones = others
  <2>1. \A u : one(u) = other(u)
    BY TakesSame, Zenon
  <2>2. C!Vacate(s, p, q) = Q!C!Vacate(s, p, q)
    <3> HIDE DEF s
    <3> QED
      BY VacateSame, Zenon
  <2> HIDE DEF one, other, s
  <2> QED
    BY <2>1, <2>2
<1> HIDE DEF ones, others
<1> QED
  BY <1>1, <1>2, <1>3, KeepOldSame

LEMMA PromoteSame == \A t : C!Promote(t) = Q!C!Promote(t)
BY NodesSame, UpdateNodeSame, SamePrimarySame, NewPrimarySame DEF C!Promote, Q!C!Promote

LEMMA ReuseSame == \A t : C!Reuse(t) = Q!C!Reuse(t)
<1> SUFFICES ASSUME NEW t PROVE C!Reuse(t) = Q!C!Reuse(t)
  OBVIOUS
<1> DEFINE nodes(row) == [n \in DOMAIN row |-> C!Node(t.new[n].role, t.old[row[n]].id)]
           put(row) == [t EXCEPT !.gone = @ \ C!Range(row), !.added = @ \ DOMAIN row,
                                 !.new = [n \in DOMAIN @ |-> IF n \in DOMAIN row THEN nodes(row)[n] ELSE @[n]]]
           one(row) == C!update_node(put(row), nodes(row))
           other(row) == Q!C!update_node(put(row), nodes(row))
           size == IF C!Cardinality(t.gone) < C!Cardinality(t.added)
                   THEN C!Cardinality(t.gone) ELSE C!Cardinality(t.added)
           some == {s \in SUBSET t.added : C!Cardinality(s) = size}
           ways == UNION {C!Injection(s, t.gone) : s \in some}
<1>1. C!Reuse(t) = UNION {one(row) : row \in ways}
  BY Zenon DEF C!Reuse
<1>2. Q!C!Reuse(t) = UNION {other(row) : row \in ways}
  BY DEF Q!C!Reuse, C!Injection, C!IsInjective, C!Range, C!Node, C!Cardinality,
    Q!C!Injection, Q!C!IsInjective, Q!C!Range, Q!C!Node, Q!C!Cardinality
<1>3. \A row : one(row) = other(row)
  <2> HIDE DEF put, nodes
  <2> QED
    BY UpdateNodeSame, Zenon
<1> HIDE DEF one, other, ways
<1> QED
  BY <1>1, <1>2, <1>3

LEMMA AddRemoveSame == \A t : C!AddRemove(t) = Q!C!AddRemove(t)
<1> SUFFICES ASSUME NEW t PROVE C!AddRemove(t) = Q!C!AddRemove(t)
  OBVIOUS
<1> DEFINE nodes == C!Restrict(t.new, t.added)
           left == {[t EXCEPT !.new = [n \in (DOMAIN @ \ t.added) \cup t.gone |->
                                         IF n \in DOMAIN @ THEN @[n] ELSE t.old[n]]]}
           removed == C!citus_remove_node(t, t.gone)
           one(u) == C!update_node(u, nodes)
           other(u) == Q!C!update_node(u, nodes)
<1>1. C!AddRemove(t) = IF t.failover THEN left ELSE UNION {one(u) : u \in removed}
  BY Zenon DEF C!AddRemove
<1>2. Q!C!AddRemove(t) = IF t.failover THEN left ELSE UNION {other(u) : u \in removed}
  BY DEF Q!C!AddRemove, C!Restrict, C!citus_remove_node, C!Named, C!Cardinality,
    Q!C!Restrict, Q!C!citus_remove_node, Q!C!Named, Q!C!Cardinality
<1>3. \A u : one(u) = other(u)
  <2> HIDE DEF nodes
  <2> QED
    BY UpdateNodeSame, Zenon
<1> HIDE DEF one, other, left, removed
<1> QED
  BY <1>1, <1>2, <1>3

LEMMA TransitionSame == \A new, old, fo, r : C!transition(new, old, fo, r) = Q!C!transition(new, old, fo, r)
<1>1. \A t : C!FillIds(t) = Q!C!FillIds(t)
  BY DEF C!FillIds, Q!C!FillIds, C!Node, Q!C!Node, C!IsPrimary, Q!C!IsPrimary
<1>2. \A new, old, fo, r : C!Begin(new, old, fo, r) = Q!C!Begin(new, old, fo, r)
  BY NodesSame DEF C!Begin, Q!C!Begin
<1> QED
  BY <1>1, <1>2, PromoteSame, ReuseSame, AddRemoveSame DEF C!transition, Q!C!transition

\* What the coordinator does here is what it does in PartsProofs.
LEMMA CitusSame ==
  /\ ([C!CitusNext]_(C!vars) <=> [Q!C!CitusNext]_(Q!C!vars))
  /\ (C!Init <=> Q!C!Init)
  /\ (C!CacheIsTable <=> Q!C!CacheIsTable)
<1> USE NodesSame DEF
    C!Name, C!Whole, C!Ours, C!Queued, C!External, C!Task, C!Same, C!IsCached, C!Yields,
    C!_add_task, C!Job, C!CanPick, C!Disconnect, C!QueryFails, C!Changed, C!Current,
    C!WasFailover, C!rows, C!tasks, Q!C!Name, Q!C!Whole, Q!C!Ours, Q!C!Queued, Q!C!External,
    Q!C!Task, Q!C!Same, Q!C!IsCached, Q!C!Yields, Q!C!_add_task, Q!C!Job, Q!C!CanPick,
    Q!C!Disconnect, Q!C!QueryFails, Q!C!Changed, Q!C!Current, Q!C!WasFailover, Q!C!rows, Q!C!tasks
<1>1. C!sync_meta_data <=> Q!C!sync_meta_data
  BY DEF C!sync_meta_data, Q!C!sync_meta_data
<1>2. C!handle_event <=> Q!C!handle_event
  BY DEF C!handle_event, Q!C!handle_event
<1>3. C!OtherTask <=> Q!C!OtherTask
  BY DEF C!OtherTask, Q!C!OtherTask
<1>4. C!load_pg_dist_group <=> Q!C!load_pg_dist_group
  BY DEF C!load_pg_dist_group, Q!C!load_pg_dist_group
<1>5. C!pick_task <=> Q!C!pick_task
  BY DEF C!pick_task, Q!C!pick_task
<1>6. C!process_task <=> Q!C!process_task
  <2>1. PICK ts : ts = C!transition(g.task.nodes, C!Current, C!WasFailover, IF i # None THEN i ELSE h)
    OBVIOUS
  <2>2. ts = Q!C!transition(g.task.nodes, C!Current, C!WasFailover, IF i # None THEN i ELSE h)
    BY <2>1, TransitionSame, Zenon
  <2> DEFINE act(t) == IF ~t.ok THEN C!QueryFails
                       ELSE IF g.task.event = "after_promote"
                            THEN /\ C!Changed(t, "closed")
                                 /\ IF C!Ours \/ i = None \/ t.sent > 1
                                    THEN h' = t.rows /\ i' = None ELSE i' = t.rows /\ UNCHANGED h
                            ELSE C!Changed(t, "opened") /\ i' = t.rows /\ UNCHANGED h
             rest == k' = (k \/ (~j /\ ~C!Whole(h'))) /\ UNCHANGED <<a, b, d, j, l>>
             picked == g # None /\ g.done = "picked"
  <2>3. C!process_task <=> picked /\ (\E t \in ts : act(t)) /\ rest
    BY <2>1, Zenon DEF C!process_task
  <2>4. Q!C!process_task <=> picked /\ (\E t \in ts : act(t)) /\ rest
    BY <2>2, Zenon DEF Q!C!process_task
  <2> HIDE DEF act, rest, picked
  <2> QED
    BY <2>3, <2>4, Zenon
<1>7. C!Finish <=> Q!C!Finish
  BY DEF C!Finish, Q!C!Finish
<1>8. C!ProcessOther <=> Q!C!ProcessOther
  BY DEF C!ProcessOther, Q!C!ProcessOther
<1>9. C!Rollback <=> Q!C!Rollback
  BY DEF C!Rollback, Q!C!Rollback
<1>10. C!Deadline <=> Q!C!Deadline
  BY DEF C!Deadline, Q!C!Deadline
<1>11. C!ConnectionLost <=> Q!C!ConnectionLost
  BY DEF C!ConnectionLost, Q!C!ConnectionLost
<1>12. C!on_demote <=> Q!C!on_demote
  BY DEF C!on_demote, Q!C!on_demote
<1>13. C!PromotedAgain <=> Q!C!PromotedAgain
  BY DEF C!PromotedAgain, Q!C!PromotedAgain
<1>14. C!schedule_cache_rebuild <=> Q!C!schedule_cache_rebuild
  BY DEF C!schedule_cache_rebuild, Q!C!schedule_cache_rebuild
<1>15. C!WorkerChanges <=> Q!C!WorkerChanges
  BY DEF C!WorkerChanges, Q!C!WorkerChanges
<1>16. C!WorkerPromoted <=> Q!C!WorkerPromoted
  BY DEF C!WorkerPromoted, Q!C!WorkerPromoted
<1>17. C!Init <=> Q!C!Init
  BY DEF C!Init, Q!C!Init
<1>18. C!CacheIsTable <=> Q!C!CacheIsTable
  BY DEF C!CacheIsTable, Q!C!CacheIsTable
<1> QED
  BY <1>1, <1>2, <1>3, <1>4, <1>5, <1>6, <1>7, <1>8, <1>9, <1>10, <1>11, <1>12, <1>13, <1>14,
      <1>15, <1>16, <1>17, <1>18
  DEF C!CitusNext, C!CitusThread, C!vars, Q!C!CitusNext, Q!C!CitusThread, Q!C!vars

CitusHolds == part = "citus" => Q!CitusInvariant

\* Citus's CacheIsTable in MCCluster: the coordinator's cached topology is what pg_dist_node
\* holds between the tasks; None and Other are values apart, n1 and n2 are among the servers.
THEOREM HostCacheIsTable ==
  ASSUME Q!CitusAssumption
  PROVE  Spec => []CacheIsTable
<1>1. Init => CitusHolds
  BY CitusSame, Q!CitusStart DEF Init, CitusHolds
<1>2. [Next]_vars => part' = part /\ (part = "citus" => [C!CitusNext]_(C!vars))
  BY DEF Next, vars, shared, C!vars
<1>3. CitusHolds /\ [Next]_vars => CitusHolds'
  BY <1>2, CitusSame, Q!CitusStep DEF CitusHolds
<1>4. CitusHolds => CacheIsTable
  BY CitusSame, Q!InSyncIsTable DEF CitusHolds, CacheIsTable
<1> QED
  BY <1>1, <1>3, <1>4, PTL DEF Spec
=============================================================================
