------------------------------ MODULE Switchover ------------------------------
(***************************************************************************)
(* Manual failover and switchover, at once or scheduled, and pause: the    *)
(* /failover key, who writes and removes it (api.py, ctl.py, ha.py), the   *)
(* graceful demotion of the leader, and the leader race that the key       *)
(* steers.  Every HA cycle works with the cluster as it loaded it.         *)
(*                                                                         *)
(* `lagging' are the nodes that lack something of what counts: what the    *)
(* leader has written or, from the moment a winner has put itself alone    *)
(* into /sync, what the winner has.  maximum_lag_on_failover is not        *)
(* exceeded.  Tags, failsafe mode, watchdogs, pre_promote scripts and      *)
(* quorum commit are left out (see QuorumCommit).                          *)
(***************************************************************************)
EXTENDS Integers, FiniteSets

CONSTANTS
  Node, None,
  MaxRequests,   \* bound: writes of the /failover key
  MaxFaults      \* bound: crashes, stalls and writes of /sync that fail, and pauses

VARIABLES
  key,        \* holder of the leader key
  failover,   \* the /failover key; when: now, or of a schedule far, near, due, stale
  sync,       \* the /sync key: [leader, standbys], leader = None when not in use
  paused,
  pg,         \* primary, replica, stopping, down
  lagging,
  view,       \* the cluster a node's cycle has loaded, NoView between cycles; outdated:
              \* /sync has another version now
  step,       \* where that cycle is
  faults

vars == <<key, failover, sync, paused, pg, lagging, view, step, faults>>

NoSync == [leader |-> None, standbys |-> {}]
NoView == [key |-> None, failover |-> None, paused |-> FALSE, sync |-> NoSync, outdated |-> FALSE]
Request(l, c, w, v) == [leader |-> l, candidate |-> c, when |-> w, version |-> v]
Cleared == Request(None, None, "now", failover.version + 1)
IsSet(f) == f.leader # None \/ f.candidate # None
Scheduled(f) == f.when # "now"

Init ==
  /\ key = CHOOSE n \in Node : TRUE
  /\ failover = Request(None, None, "now", 0)
  /\ \/ sync = NoSync
     \/ sync = [leader |-> key, standbys |-> {CHOOSE m \in Node : m # key}]
  /\ paused \in BOOLEAN
  /\ \E gone \in {{}, IF paused THEN Node \ ({key} \cup sync.standbys) ELSE {}} :
       pg = [n \in Node |-> IF n = key THEN "primary" ELSE IF n \in gone THEN "down" ELSE "replica"]
  \* For fewer states, only some of the combinations.
  /\ lagging \in {{}, IF sync.leader = None THEN {} ELSE Node \ ({key} \cup sync.standbys)}
  /\ paused => sync.leader = None
  /\ view = [n \in Node |-> NoView]
  /\ step = [n \in Node |-> "idle"]
  /\ faults = 0

-----------------------------------------------------------------------------
\* Requests

SyncActive == sync.leader # None
Listed(s) == s.standbys \cup {s.leader}

\* POST /failover and /switchover; patronictl, which writes the key itself when no API
\* answers.  (That the leadership changes between their reading of the cluster and the
\* write is left out; the members they checked may be gone already.)
ApiAllows(l, c, w) ==
  /\ l # c
  /\ paused => c # None /\ w = "now"
  /\ w # "now" => l # None
CtlAllows(l, c, w) ==
  /\ c = None \/ c # key
  /\ w # "now" => l # None /\ ~paused
Ask(l, c, w) ==
  /\ l # None \/ c # None
  /\ l \in {None, key}
  /\ ApiAllows(l, c, w) \/ CtlAllows(l, c, w)
  /\ failover.version < MaxRequests
  /\ failover' = Request(l, c, w, failover.version + 1)
  /\ UNCHANGED <<key, sync, paused, pg, lagging, view, step, faults>>

\* DELETE /switchover: by the version that was read, which is the present one or the
\* write fails.
CallOff ==
  /\ Scheduled(failover)
  /\ faults = 0   \* bound
  /\ failover' = Cleared
  /\ UNCHANGED <<key, sync, paused, pg, lagging, view, step, faults>>

\* Not in synchronous mode: in pause a primary on an old timeline may lead again.
TogglePause ==
  /\ ~paused => faults < MaxFaults /\ ~SyncActive
  /\ paused' = ~paused
  /\ faults' = IF paused THEN faults ELSE faults + 1
  /\ UNCHANGED <<key, failover, sync, pg, lagging, view, step>>

TimePasses ==
  /\ \E w \in {<<"far", "near">>, <<"near", "due">>, <<"due", "stale">>} :
       failover.when = w[1] /\ failover' = [failover EXCEPT !.when = w[2]]
  /\ UNCHANGED <<key, sync, paused, pg, lagging, view, step, faults>>

-----------------------------------------------------------------------------
\* The environment

Crash(n) ==
  /\ faults < MaxFaults /\ pg[n] # "down"
  /\ faults' = faults + 1
  /\ pg' = [pg EXCEPT ![n] = "down"]
  /\ view' = [view EXCEPT ![n] = NoView]
  /\ step' = [step EXCEPT ![n] = "idle"]
  /\ UNCHANGED <<key, failover, sync, paused, lagging>>

Restart(n) ==
  /\ pg[n] = "down"
  /\ pg' = [pg EXCEPT ![n] = "replica"]
  /\ UNCHANGED <<key, failover, sync, paused, lagging, view, step, faults>>

\* The key of a node that does not renew it: a dead one, or one whose Patroni hangs or
\* (in pause) is stopped while PostgreSQL runs on, which is a fault too.  (That a replica
\* has the key no more when it promotes itself is left to LeaderLock.)
Expire ==
  /\ key # None /\ pg[key] = "down"
  /\ key' = None
  /\ UNCHANGED <<failover, sync, paused, pg, lagging, view, step, faults>>
Stall ==
  /\ key # None /\ pg[key] # "down" /\ faults < MaxFaults
  /\ pg[key] = "replica" => step[key] \in {"idle", "promoting"}
  /\ key' = None
  /\ faults' = faults + 1
  /\ UNCHANGED <<failover, sync, paused, pg, lagging, view, step>>

\* What the leader writes waits for the standbys of /sync, and for no other node.
FallBehind(n) ==
  /\ key # None /\ n # key /\ pg[key] = "primary" /\ key \notin lagging
  /\ n \notin sync.standbys
  /\ lagging' = lagging \cup {n}
  /\ UNCHANGED <<key, failover, sync, paused, pg, view, step, faults>>

CatchUp(n) ==
  /\ n \in lagging /\ pg[n] = "replica" /\ step[n] # "promoting"
  /\ \E p \in Node \ lagging : pg[p] \in {"primary", "stopping"} /\ key = p
  /\ lagging' = lagging \ {n}
  /\ UNCHANGED <<key, failover, sync, paused, pg, view, step, faults>>

-----------------------------------------------------------------------------
\* Who could take over

\* sync_mode_is_active, by the cluster that was loaded.
Synchronous(n) == view[n].sync.leader # None

\* get_failover_candidates, and fetch_nodes_statuses: those that answer and may lead.
Candidates(n, f, but) ==
  {m \in Node \ {n} :
     /\ pg[m] = "replica"
     /\ Synchronous(n) /\ m \notin view[n].sync.standbys => f.leader = None /\ IsSet(f)
     /\ IF but THEN m # f.candidate ELSE f.candidate \in {None, m}}
IsFailoverPossible(n, f, but) == Candidates(n, f, but) # {}

\* _is_healthiest_node: nobody who answers is a primary or ahead.
IsHealthiest(n, members) ==
  /\ \A m \in members \ {n} : pg[m] # "primary"
  /\ n \in lagging => \A m \in members : pg[m] = "replica" => m \in lagging

\* manual_failover_process_no_leader, for the case that it comes to a race.
RaceFor(n, f) ==
  IF f.leader = n
  THEN ~IsFailoverPossible(n, f, f.candidate # None)
  ELSE IsHealthiest(n, {m \in Node \ {f.leader} : Synchronous(n) => m \in view[n].sync.standbys})
ManualNoLeader(n, f, p) ==
  IF f.candidate # None
  THEN \/ f.candidate = n
       \/ /\ ~p
          /\ Synchronous(n) => n \in Listed(view[n].sync)
          /\ pg[f.candidate] # "replica"
          /\ RaceFor(n, f)
  ELSE ~p /\ RaceFor(n, f)

\* is_healthiest_node.  A primary that lags is on an old timeline.
IsHealthiestNode(n) ==
  LET f == view[n].failover
      p == view[n].paused IN
  IF p /\ IsSet(f) /\ ~Scheduled(f) THEN ManualNoLeader(n, f, p)
  ELSE IF pg[n] = "primary" THEN p \/ n \notin lagging
  ELSE /\ ~p
       /\ IF IsSet(f)
          THEN /\ f.leader # None /\ Synchronous(n) => n \in Listed(view[n].sync)
               /\ ManualNoLeader(n, f, p)
          ELSE IF Synchronous(n)
          THEN n \in Listed(view[n].sync) /\ IsHealthiest(n, Listed(view[n].sync))
          ELSE IsHealthiest(n, Node)

-----------------------------------------------------------------------------
\* Cycles

\* (Not the cycles that change nothing: of a replica while another node leads, of a
\* leader with no request and no /sync.)
Load(n) ==
  /\ pg[n] \in {"primary", "replica"} /\ view[n] = NoView /\ step[n] = "idle"
  /\ IF pg[n] = "replica" THEN key \in {n, None} ELSE key # n \/ IsSet(failover) \/ SyncActive
  /\ view' = [view EXCEPT ![n] = [key |-> key, failover |-> failover, paused |-> paused,
                                  sync |-> sync, outdated |-> FALSE]]
  /\ UNCHANGED <<key, failover, sync, paused, pg, lagging, step, faults>>

EndCycle(n) == view' = [view EXCEPT ![n] = NoView] /\ step' = [step EXCEPT ![n] = "idle"]
In(n) == view[n] # NoView /\ step[n] = "idle"
Becomes(n, role) == pg' = [pg EXCEPT ![n] = role]

\* manual_failover('', '', version): only if the key is still what was loaded.
CleanUp(n) ==
  failover' = IF failover.version = view[n].failover.version THEN Cleared ELSE failover

\* The key is somebody else's, or its update fails.
LoseKey(n) ==
  /\ In(n)
  /\ view[n].key \notin {n, None} \/ (view[n].key = n /\ key # n)
  /\ EndCycle(n)
  /\ IF pg[n] = "primary" /\ ~view[n].paused THEN Becomes(n, "replica") ELSE UNCHANGED pg
  /\ UNCHANGED <<key, failover, sync, paused, lagging, faults>>

HasLock(n) == In(n) /\ view[n].key = n /\ key = n

\* In pause a replica gives the key back, unless it was asked to lead.
GiveKeyBack(n) ==
  /\ HasLock(n) /\ pg[n] = "replica" /\ view[n].paused
  /\ EndCycle(n)
  /\ key' = IF view[n].failover.candidate = n THEN key ELSE None
  /\ UNCHANGED <<failover, sync, paused, pg, lagging, faults>>

\* write_sync_state: by the version that was loaded.
WriteSync(n, value) ==
  /\ sync' = value
  /\ view' = [m \in Node |-> IF m = n \/ view[m] = NoView THEN NoView
                             ELSE [view[m] EXCEPT !.outdated = TRUE]]
LeaveSync(n) == sync' = sync /\ view' = [view EXCEPT ![n] = NoView]

\* process_sync_replication: one standby out of those that keep up.
LookAfterSync(n) ==
  LET fit == {m \in Node \ ({n} \cup lagging) : pg[m] = "replica"} IN
  IF ~SyncActive \/ view[n].outdated THEN LeaveSync(n)
  ELSE \E standbys \in SUBSET fit :
         /\ standbys \subseteq sync.standbys \/ sync.standbys \cap fit = {}
         /\ Cardinality(standbys) = IF fit = {} THEN 0 ELSE 1
         /\ LET value == [leader |-> n, standbys |-> standbys] IN
            IF value = sync THEN LeaveSync(n) ELSE WriteSync(n, value)

\* process_sync_replication_prepromote, then the start of `promote' in its thread.
PrepromoteAtOnce(n) ==
  /\ LeaveSync(n)
  /\ lagging' = (IF SyncActive THEN Node \ {n} ELSE lagging)
  /\ step' = [step EXCEPT ![n] = "promoting"]
  /\ UNCHANGED <<pg, faults>>
Prepromote(n) ==
  /\ IF SyncActive
     THEN ~view[n].outdated /\ WriteSync(n, [leader |-> n, standbys |-> {}]) /\ lagging' = Node \ {n}
     ELSE LeaveSync(n) /\ UNCHANGED lagging
  /\ step' = [step EXCEPT ![n] = "promoting"]
  /\ UNCHANGED <<pg, faults>>

\* /sync has another version or could not be written: no promotion in this cycle.
Postpone(n) ==
  /\ SyncActive
  /\ \/ view[n].outdated /\ UNCHANGED faults
     \/ ~view[n].outdated /\ faults < MaxFaults /\ faults' = faults + 1
  /\ EndCycle(n)
  /\ UNCHANGED <<sync, pg, lagging>>

\* enforce_primary_role, the rest of a cycle in which the leader goes on leading.
GoOnLeading(n) ==
  \/ /\ pg[n] = "primary"
     /\ LookAfterSync(n)
     /\ step' = [step EXCEPT ![n] = "idle"]
     /\ UNCHANGED <<pg, lagging, faults>>
  \/ pg[n] # "primary" /\ (Prepromote(n) \/ Postpone(n))

\* PostgreSQL has been promoted, on a timeline of its own; or, once the key is lost
\* (handle_long_action_in_progress), the promotion may have been cancelled.
Promoted(n) ==
  /\ step[n] = "promoting"
  /\ Becomes(n, "primary")
  /\ lagging' = IF SyncActive THEN lagging
                ELSE IF key \in {n, None} THEN Node \ {n} ELSE lagging \cup {n}
  /\ EndCycle(n)
  /\ UNCHANGED <<key, failover, sync, paused, faults>>
Cancelled(n) ==
  /\ step[n] = "promoting" /\ key # n /\ ~paused
  /\ EndCycle(n)
  /\ UNCHANGED <<key, failover, sync, paused, pg, lagging, faults>>

\* process_manual_failover_from_leader: nothing to do or not yet, too late, or sleep
\* until it is time.
Asked(n) ==
  /\ HasLock(n) /\ IsSet(view[n].failover)
  /\ view[n].paused => pg[n] = "primary" /\ ~Scheduled(view[n].failover)
KeepLeading(n) ==
  /\ HasLock(n) /\ ~(view[n].paused /\ pg[n] = "replica")
  /\ Asked(n) => view[n].failover.when = "far"
  /\ GoOnLeading(n)
  /\ UNCHANGED <<key, failover, paused>>
TooLate(n) ==
  /\ Asked(n) /\ view[n].failover.when = "stale"
  /\ CleanUp(n) /\ GoOnLeading(n)
  /\ UNCHANGED <<key, paused>>
Sleep(n) ==
  /\ Asked(n) /\ view[n].failover.when \in {"near", "due"}
  /\ step' = [step EXCEPT ![n] = "asleep"]
  /\ UNCHANGED <<key, failover, sync, paused, pg, lagging, view, faults>>
Wake(n) ==
  /\ step[n] = "asleep"
  /\ failover.when # "near" \/ failover.version # view[n].failover.version
  /\ step' = [step EXCEPT ![n] = "slept"]
  /\ UNCHANGED <<key, failover, sync, paused, pg, lagging, view, faults>>

Possible(n) ==
  LET f == view[n].failover IN
  /\ f.leader \in {None, n} /\ f.candidate # n
  /\ f.candidate # None \/ ~view[n].paused
  /\ IsFailoverPossible(n, f, FALSE)
Handles(n) == step[n] = "slept" \/ (Asked(n) /\ ~Scheduled(view[n].failover))
Demote(n) ==
  /\ Handles(n) /\ Possible(n)
  /\ Becomes(n, "stopping")
  /\ step' = [step EXCEPT ![n] = "demoting"]
  /\ UNCHANGED <<key, failover, sync, paused, lagging, view, faults>>
RefuseSilently(n) ==
  /\ Handles(n) /\ ~Possible(n)
  /\ GoOnLeading(n)
  /\ UNCHANGED <<failover, key, paused>>
Refuse(n) ==
  /\ Handles(n) /\ ~Possible(n)
  /\ CleanUp(n) /\ GoOnLeading(n)
  /\ UNCHANGED <<key, paused>>

\* demote('graceful').  on_shutdown: pg_control says shut down, and a member that may
\* take over has it all; otherwise the key goes when PostgreSQL has stopped.
ReleaseEarly(n) ==
  /\ step[n] = "demoting" /\ key = n
  /\ Candidates(n, view[n].failover, FALSE) \ lagging # {}
  /\ key' = None
  /\ UNCHANGED <<failover, sync, paused, pg, lagging, view, step, faults>>
Stopped(n) ==
  /\ step[n] = "demoting"
  /\ key' = IF key = n THEN None ELSE key
  /\ Becomes(n, "replica") /\ EndCycle(n)
  /\ UNCHANGED <<failover, sync, paused, lagging, faults>>

\* In pause a primary whose candidate is not in the cluster any more drops the request
\* and races on.
DropRequest(n) ==
  /\ In(n) /\ view[n].key = None /\ view[n].paused /\ pg[n] = "primary"
  /\ LET f == view[n].failover IN f.candidate \notin {None, n} /\ ~Scheduled(f) /\ pg[f.candidate] = "down"
  /\ CleanUp(n)
  /\ step' = [step EXCEPT ![n] = "dropped"]
  /\ UNCHANGED <<key, sync, paused, pg, lagging, view, faults>>

\* process_unhealthy_cluster
Unlocked(n) == step[n] = "dropped" \/ (In(n) /\ view[n].key = None)
Wins(n) == key = None /\ (step[n] = "dropped" \/ IsHealthiestNode(n))
Acquire(n) ==
  /\ Unlocked(n) /\ Wins(n)
  /\ key' = n
  /\ step' = [step EXCEPT ![n] = "won"]
  /\ UNCHANGED <<failover, sync, paused, pg, lagging, view, faults>>

\* The winner removes the request, and not by version except in pause, and leads on.
CleanAfterWin(n) ==
  LET f == view[n].failover IN
  failover' =
    IF ~IsSet(f) THEN failover
    ELSE IF ~(view[n].paused /\ f.leader # None /\ f.candidate # None) THEN Cleared
    ELSE IF failover.version # f.version THEN failover
    ELSE Request(None, f.candidate, f.when, f.version + 1)
Won(n) ==
  /\ step[n] = "won"
  /\ CleanAfterWin(n) /\ GoOnLeading(n)
  /\ UNCHANGED <<key, paused>>
NotHealthiest(n) ==
  /\ Unlocked(n) /\ ~Wins(n)
  /\ EndCycle(n)
  /\ IF pg[n] = "primary" /\ ~view[n].paused THEN Becomes(n, "replica") ELSE UNCHANGED pg
  /\ UNCHANGED <<key, failover, sync, paused, lagging, faults>>

Cycle(n) ==
  \/ LoseKey(n) \/ GiveKeyBack(n) \/ KeepLeading(n)
  \/ TooLate(n) \/ Sleep(n) \/ Wake(n) \/ Demote(n) \/ Refuse(n)
  \/ ReleaseEarly(n) \/ Stopped(n)
  \/ DropRequest(n) \/ Acquire(n) \/ Won(n) \/ NotHealthiest(n)
  \/ Promoted(n) \/ Cancelled(n)

Turn(n) == Load(n) \/ Cycle(n)

SwitchoverNext ==
  \/ \E l, c \in Node \cup {None}, w \in {"now", "far"} : Ask(l, c, w)
  \/ CallOff \/ TogglePause \/ Stall \/ Expire \/ TimePasses
  \/ \E n \in Node : Crash(n) \/ Restart(n) \/ FallBehind(n) \/ CatchUp(n) \/ Turn(n)

\* A node's turns come again and again, keys expire, replication and time go on;
\* nothing is assumed of crashed nodes or of people.
Fairness ==
  /\ WF_vars(Expire) /\ WF_vars(TimePasses)
  /\ \A n \in Node : WF_vars(CatchUp(n)) /\ WF_vars(Turn(n))

SwitchoverSpec == Init /\ [][SwitchoverNext]_vars /\ Fairness

-----------------------------------------------------------------------------
\* Nobody who may lead is up.
NobodyMay == \A n \in Node : pg[n] = "down" \/ (SyncActive /\ n \notin Listed(sync))

\* The candidate of a switchover has left /sync since: it may not race, and the others
\* wait for it.
Wedged ==
  /\ key = None /\ SyncActive
  /\ failover.leader # None /\ failover.candidate # None
  /\ failover.candidate \notin Listed(sync) /\ pg[failover.candidate] = "replica"

\* What there is again and again: a leader that is a primary, and no request left.
Settled ==
  \/ key # None /\ pg[key] = "primary" /\ ~IsSet(failover)
  \/ paused \/ NobodyMay \/ Wedged

\* Nobody whom /sync lets race in synchronous mode lacks anything: not the former leader
\* and its standbys once another has won, nor who was put back to an old timeline
\* (process_sync_replication_prepromote, process_sync_replication).
HeirsAreCurrent == SyncActive => Listed(sync) \cap lagging = {}
=============================================================================
