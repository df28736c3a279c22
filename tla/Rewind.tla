------------------------------- MODULE Rewind ---------------------------------
(***************************************************************************)
(* How a node whose WAL is not the leader's gets back into the cluster     *)
(* (postgresql/rewind.py, ha.py): the decision from timelines and WAL      *)
(* positions, crash recovery in single-user mode, pg_rewind against a      *)
(* leader that has run a checkpoint since its promotion, a new base backup *)
(* when all that fails.                                                    *)
(*                                                                         *)
(* The WAL is the sequence of the timelines its records were written on.   *)
(* Archive: PostgreSQL sees every history file when it picks the timeline  *)
(* of a promotion.  pg_rewind is configured, and so is                     *)
(* remove_data_directory_on_rewind_failure.  Pause, standby clusters and   *)
(* tags are left out; a wrong guess about who is healthiest is a fault.    *)
(***************************************************************************)
EXTENDS Naturals, Sequences, FiniteSets

CONSTANTS Node, None, Archive, MaxInserts, MaxFaults

VARIABLES
  leader,        \* the holder of /leader
  wal, replayed, \* the WAL of a node, and how much of it a standby has replayed
  pg,            \* what runs, or "Database cluster state" of pg_control of what does not
  current,       \* nodes whose pg_control has the timeline of their WAL
  to,            \* primary_conninfo
  state,         \* Rewind._state
  history,       \* the timeline /history tells of
  member,        \* role and checkpoint_after_promote in the key of the member
  busy,          \* the asynchronous action
  flags,         \* [task: _checkpoint_task, recovering, tried: _crash_recovery_started]
  bounds         \* [inserts, faults]

vars == <<leader, wal, replayed, pg, current, to, state, history, member, busy, flags, bounds>>
local == <<wal, replayed, pg, current>>

Runs == {"primary", "standby"}
AtEase == [what |-> "none", from |-> None, ready |-> FALSE]
Calm == [task |-> "none", recovering |-> FALSE, tried |-> FALSE]

Elements(s) == {s[x] : x \in DOMAIN s}
Timeline(n) == wal[n][Len(wal[n])]
Prefix(s, t) == Len(s) <= Len(t) /\ s = SubSeq(t, 1, Len(s))
\* How many records of s are on timeline tl or an earlier one.
Upto(s, tl) == Cardinality({x \in DOMAIN s : s[x] <= tl})

Init ==
  /\ leader = CHOOSE n \in Node : TRUE
  /\ wal = [n \in Node |-> <<1>>] /\ replayed = [n \in Node |-> 1]
  /\ pg = [n \in Node |-> IF n = leader THEN "primary" ELSE "standby"]
  /\ current = Node
  /\ to = [n \in Node |-> IF n = leader THEN None ELSE leader]
  /\ state = [n \in Node |-> IF n = leader THEN "checkpoint" ELSE "not_need"]
  /\ history = 1
  /\ member = [n \in Node |-> IF n = leader THEN "checkpointed" ELSE "replica"]
  /\ busy = [n \in Node |-> AtEase] /\ flags = [n \in Node |-> Calm]
  /\ bounds = [inserts |-> 0, faults |-> 0]

Fault == bounds.faults < MaxFaults /\ bounds' = [bounds EXCEPT !.faults = @ + 1]
Action(n, what) == busy' = [busy EXCEPT ![n] = [AtEase EXCEPT !.what = what]]
Set(f, n, x) == [f EXCEPT ![n] = x]

\* touch_member, at the end of a cycle. The role is that before a crash until there is
\* another; only the leader says that its checkpoint is missing.
Touch(n) ==
  member' = Set(member, n,
    IF pg'[n] \notin {"primary", "in production"} \/ (pg'[n] = "in production" /\ member[n] = "replica")
    THEN "replica"
    ELSE IF state'[n] = "checkpoint" \/ leader' # n THEN "checkpointed" ELSE "primary")

-----------------------------------------------------------------------------
\* The decision

TriggeredAtFirst(n) == IF state[n] = "initial" THEN "check" ELSE state[n]
\* trigger_check_diverged_lsn
Triggered(n) == IF state[n] = "need" THEN "need" ELSE "check"

LocalLsn(n) == IF pg[n] = "shut down" THEN Len(wal[n]) ELSE replayed[n]

RewindsFromStart(n, m) ==
  LET tl == wal[n][replayed[n]]
  IN  tl # Timeline(m) /\ (tl > Timeline(m) \/ tl \notin Elements(wal[m]) \/
        (IF pg[n] = "shut down" THEN LocalLsn(n) - 1 ELSE LocalLsn(n)) > Upto(wal[m], tl))
\* _check_timeline_and_lsn, on the history of the leader m. A clean shutdown ends with a
\* checkpoint record; the switchpoint must be right after it.
Rewinds(n, m) ==
  LET tl == IF pg[n] = "shut down" THEN Timeline(n) ELSE wal[n][replayed[n]]
  IN  /\ tl # Timeline(m)
      /\ \/ tl > Timeline(m)
         \/ tl \notin Elements(wal[m])
         \/ IF pg[n] = "shut down" THEN LocalLsn(n) # Upto(wal[m], tl)
                                   ELSE LocalLsn(n) > Upto(wal[m], tl)

\* rewind_or_reinitialize_needed_and_possible, in state s: what the state is then. Nothing
\* is decided from a pg_control that tells of a crash, nor on a leader that is no primary.
Checked(n, s) ==
  IF s = "check" /\ leader \notin {None, n} /\ pg[n] # "in production"
     /\ member[leader] # "replica" /\ pg[leader] = "primary"
  THEN IF Rewinds(n, leader) THEN "need" ELSE "not_need" ELSE s

\* What _handle_rewind_or_reinitialize starts in state "need": crash recovery, once, of a
\* standby that has crashed, or pg_rewind with the leader as the cluster view has it.
HandleRewind(n) ==
  LET crashed == pg[n] = "in archive recovery" /\ ~flags[n].tried
  IN  /\ busy' = Set(busy, n, [what |-> IF crashed THEN "recovery" ELSE "rewind",
                               from |-> leader, ready |-> member[leader] = "checkpointed"])
      /\ flags' = IF crashed THEN [flags EXCEPT ![n].tried = TRUE] ELSE flags

-----------------------------------------------------------------------------
\* A cycle of the HA loop

\* The first cycle after a start.
Recovered(n) ==
  /\ busy[n].what = "none" /\ flags[n].recovering
  /\ IF state[n] \notin {"check", "need"} /\ pg[n] \notin Runs
     THEN /\ flags' = [flags EXCEPT ![n].recovering = FALSE]
          /\ leader' = (IF leader = n THEN None ELSE leader) /\ UNCHANGED state
     ELSE /\ flags' = [flags EXCEPT ![n].recovering = FALSE, ![n].tried = FALSE]
          /\ state' = (IF state[n] = "success" THEN Set(state, n, "initial") ELSE state)
          /\ UNCHANGED leader
  /\ UNCHANGED <<local, to, member, busy, bounds>>

InCycle(n) == busy[n].what = "none" /\ ~flags[n].recovering

Bootstrap(n) ==
  /\ InCycle(n) /\ pg[n] = "empty" /\ leader # None
  /\ Action(n, "clone")
  /\ UNCHANGED <<leader, local, to, state, member, flags, bounds>>

\* recover
Recover(n) ==
  /\ InCycle(n) /\ pg[n] \notin Runs \cup {"empty"}
  /\ \/ /\ leader = n /\ pg[n] = "in production"
        /\ Action(n, "restart")
        /\ flags' = [flags EXCEPT ![n].recovering = TRUE] /\ UNCHANGED <<to, state>>
     \/ /\ leader # n /\ pg[n] = "in production" /\ ~flags[n].tried
        /\ Action(n, "recovery")
        /\ flags' = [flags EXCEPT ![n].tried = TRUE] /\ UNCHANGED <<to, state>>
     \/ /\ leader = n /\ pg[n] # "in production"
        /\ state' = Set(state, n, "initial") /\ to' = Set(to, n, None)
        /\ Action(n, "start")
        /\ flags' = [flags EXCEPT ![n] = [Calm EXCEPT !.recovering = TRUE, !.tried = flags[n].tried]]
     \/ /\ leader # n /\ (pg[n] = "in production" => flags[n].tried)
        /\ LET s == Checked(n, IF state[n] \in {"success", "failed"} THEN state[n] ELSE Triggered(n))
           IN  /\ state' = Set(state, n, s)
               /\ IF s = "need" /\ leader # None
                  THEN HandleRewind(n) /\ UNCHANGED to
                  ELSE /\ to' = Set(to, n, leader) /\ Action(n, "start")
                       /\ flags' = [flags EXCEPT ![n].recovering = TRUE, ![n].task = "none"]
  /\ UNCHANGED <<leader, local, bounds>>
  /\ Touch(n)

\* demote("immediate-nolock"): PostgreSQL is stopped without a checkpoint, so that nothing
\* is decided, and started to follow whoever leads.
DemoteNoLock(n) ==
  /\ pg' = Set(pg, n, "standby") /\ replayed' = Set(replayed, n, Len(wal[n]))
  /\ to' = Set(to, n, leader) /\ state' = Set(state, n, Triggered(n))
  /\ flags' = [flags EXCEPT ![n].task = "none"]
  /\ UNCHANGED <<leader, wal, current, busy>>

\* follow
Follow(n) ==
  \/ pg[n] = "primary" /\ DemoteNoLock(n)
  \/ LET first == Checked(n, state[n])
         behind == leader # None /\ Timeline(n) < Timeline(leader)
         then == IF to[n] # leader THEN Triggered(n)
                 ELSE IF behind THEN Checked(n, Triggered(n)) ELSE first
         s == IF first = "need" THEN "need" ELSE then
     IN  /\ pg[n] = "standby"
         /\ state' = Set(state, n, s)
         /\ IF s = "need" /\ leader # None
            THEN HandleRewind(n) /\ UNCHANGED to
            ELSE to' = Set(to, n, leader) /\ UNCHANGED <<busy, flags>>
         /\ UNCHANGED <<leader, local>>

ProcessHealthyFollower(n) ==
  /\ InCycle(n) /\ leader \notin {None, n} /\ Follow(n)
  /\ Touch(n) /\ UNCHANGED bounds

\* is_healthiest_node, when the node reaches those nodes. A primary that has lost its key
\* must only not be behind the timeline in /history.
Healthiest(n, reached) ==
  IF pg[n] = "primary" THEN Timeline(n) >= history
  ELSE \A m \in reached \ {n} :
         pg[m] \in Runs => pg[m] = "standby" /\ Len(wal[m]) <= Len(wal[n])

\* process_unhealthy_cluster
ProcessUnhealthy(n) ==
  /\ InCycle(n) /\ leader = None /\ pg[n] \in Runs
  /\ \/ /\ Healthiest(n, Node) /\ leader' = n /\ UNCHANGED bounds
        /\ UNCHANGED <<local, to, state, busy, flags>>
     \/ /\ ~Healthiest(n, Node) /\ Healthiest(n, {n}) /\ leader' = n /\ Fault
        /\ UNCHANGED <<local, to, state, busy, flags>>
     \/ ~Healthiest(n, Node) /\ Follow(n) /\ UNCHANGED bounds
  /\ Touch(n)

\* The leader is not promoted yet.
EnforcePrimary(n) ==
  /\ InCycle(n) /\ leader = n /\ pg[n] = "standby"
  /\ Action(n, "promote") /\ UNCHANGED <<leader, local, to, state, flags, bounds>>
  /\ Touch(n)

\* update_cluster_history: what Cluster.timeline makes of the lines of the history.
Published(n) ==
  LET before == Elements(wal[n]) \ {Timeline(n)}
  IN  IF before = {} THEN 1 ELSE 1 + CHOOSE t \in before : \A u \in before : u <= t

\* A cycle of the leader: ensure_checkpoint_after_promote and update_cluster_history
EnsureCheckpoint(n) ==
  /\ InCycle(n) /\ leader = n /\ pg[n] = "primary"
  /\ LET done == flags[n].task = "done" \/ (flags[n].task = "none" /\ n \in current)
     IN  IF state[n] = "checkpoint" THEN UNCHANGED <<state, flags>>
         ELSE /\ state' = (IF done THEN Set(state, n, "checkpoint") ELSE state)
              /\ flags' = [flags EXCEPT ![n].task =
                             IF done \/ @ = "failed" THEN "none" ELSE "running"]
  /\ history' = Published(n)
  /\ UNCHANGED <<leader, local, to, busy, bounds>>
  /\ Touch(n)

\* __checkpoint, in a thread of its own
Checkpoint(n) ==
  /\ flags[n].task = "running"
  /\ \/ /\ pg[n] = "primary" /\ current' = current \cup {n}
        /\ flags' = [flags EXCEPT ![n].task = "done"] /\ UNCHANGED bounds
     \/ /\ flags' = [flags EXCEPT ![n].task = "failed"]
        /\ ((pg[n] # "primary" /\ UNCHANGED bounds) \/ Fault) /\ UNCHANGED current
  /\ UNCHANGED <<leader, wal, replayed, pg, to, state, member, busy>>

-----------------------------------------------------------------------------
\* The asynchronous actions

Start(n) ==
  /\ busy[n].what \in {"start", "restart"}
  /\ \/ /\ pg' = Set(pg, n, IF busy[n].what = "start" THEN "standby" ELSE "primary")
        /\ replayed' = Set(replayed, n, IF pg[n] \in {"in production", "shut down"}
                                        THEN Len(wal[n]) ELSE replayed[n])
        /\ UNCHANGED bounds
     \/ Fault /\ UNCHANGED <<pg, replayed>>
  /\ Action(n, "none") /\ UNCHANGED <<leader, wal, current, to, state, member, flags>>

\* ensure_clean_shutdown
CleanShutdown(n) ==
  /\ busy[n].what = "recovery"
  /\ \/ /\ pg' = Set(pg, n, "shut down")
        /\ wal' = Set(wal, n, Append(wal[n], Timeline(n)))
        /\ replayed' = Set(replayed, n, Len(wal[n]) + 1) /\ current' = current \cup {n}
        /\ UNCHANGED bounds
     \/ Fault /\ UNCHANGED local
  /\ Action(n, "none") /\ UNCHANGED <<leader, to, state, member, flags>>

\* promote: reset_state first; the new timeline begins with a record.
NewTimeline(n) ==
  LET known == IF Archive THEN UNION {Elements(wal[m]) : m \in Node} ELSE Elements(wal[n])
  IN  1 + CHOOSE t \in known : \A u \in known : u <= t
Promote(n) ==
  /\ busy[n].what = "promote"
  /\ IF pg[n] = "standby"
     THEN /\ wal' = Set(wal, n, Append(wal[n], NewTimeline(n)))
          /\ replayed' = Set(replayed, n, Len(wal[n]) + 1)
          /\ pg' = Set(pg, n, "primary") /\ current' = current \ {n}
     ELSE UNCHANGED local
  /\ state' = Set(state, n, "initial") /\ flags' = [flags EXCEPT ![n].task = "none"]
  /\ Action(n, "none") /\ UNCHANGED <<leader, to, member, bounds>>

\* clone: a base backup from the leader
Clone(n) ==
  /\ busy[n].what = "clone" /\ state' = Set(state, n, "initial")
  /\ IF leader # None /\ pg[leader] = "primary"
     THEN /\ wal' = Set(wal, n, wal[leader]) /\ replayed' = Set(replayed, n, Len(wal[leader]))
          /\ pg' = Set(pg, n, "standby") /\ to' = Set(to, n, leader)
          /\ current' = current \cup {n}
     ELSE UNCHANGED <<local, to>>
  /\ Action(n, "none") /\ UNCHANGED <<leader, member, flags, bounds>>

Stopped(n) == IF pg[n] = "standby" THEN "shut down in recovery" ELSE pg[n]

\* execute: only from a leader known to have run its checkpoint and still a primary.
Allowed(n) == busy[n].ready /\ pg[busy[n].from] = "primary"
Execute(n) ==
  LET from == busy[n].from IN
  /\ busy[n].what = "rewind"
  /\ \/ /\ ~Allowed(n) /\ pg' = Set(pg, n, Stopped(n))
        /\ UNCHANGED <<wal, replayed, current, state, bounds>>
     \/ \* pg_rewind believes that there is nothing to do until pg_control has the timeline
        /\ Allowed(n) /\ state' = Set(state, n, "success")
        /\ IF from \in current
           THEN /\ wal' = Set(wal, n, wal[from]) /\ replayed' = Set(replayed, n, Len(wal[from]))
                /\ pg' = Set(pg, n, "shut down in recovery") /\ current' = current \cup {n}
           ELSE pg' = Set(pg, n, Stopped(n)) /\ UNCHANGED <<wal, replayed, current>>
        /\ UNCHANGED bounds
     \/ \* pg_rewind fails, with the leader gone or not
        /\ Allowed(n) /\ Fault
        /\ \/ pg' = Set(pg, n, Stopped(n)) /\ UNCHANGED state
           \/ pg' = Set(pg, n, "empty") /\ state' = Set(state, n, "initial")
        /\ UNCHANGED <<wal, replayed, current>>
  /\ Action(n, "none") /\ UNCHANGED <<leader, to, member, flags>>

-----------------------------------------------------------------------------
\* PostgreSQL and the world

Insert(n) ==
  /\ pg[n] = "primary" /\ bounds.inserts < MaxInserts
  /\ bounds' = [bounds EXCEPT !.inserts = @ + 1]
  /\ wal' = Set(wal, n, Append(wal[n], Timeline(n)))
  /\ replayed' = Set(replayed, n, Len(wal[n]) + 1)
  /\ UNCHANGED <<leader, pg, current, to, state, member, busy, flags>>

\* A walreceiver gets a record of its timeline, or of the next in its upstream's history.
Receive(n) ==
  /\ pg[n] = "standby" /\ to[n] # None /\ pg[to[n]] = "primary"
  /\ LET w == wal[to[n]] IN
     /\ Timeline(n) \in Elements(w) /\ Len(wal[n]) <= Upto(w, Timeline(n)) /\ Len(wal[n]) < Len(w)
     /\ wal' = Set(wal, n, Append(wal[n], w[Len(wal[n]) + 1]))
  /\ UNCHANGED <<leader, replayed, pg, current, to, state, member, busy, flags, bounds>>

Replay(n) ==
  /\ pg[n] = "standby" /\ replayed[n] < Len(wal[n])
  /\ replayed' = Set(replayed, n, replayed[n] + 1)
  /\ UNCHANGED <<leader, wal, pg, current, to, state, member, busy, flags, bounds>>

\* PostgreSQL or its machine goes down; the thread of a checkpoint goes with the latter.
Crash(n) ==
  /\ Fault /\ pg[n] \in Runs
  /\ pg' = Set(pg, n, IF pg[n] = "primary" THEN "in production" ELSE "in archive recovery")
  /\ UNCHANGED <<leader, wal, replayed, current, to, state, member, busy, flags>>

KeyExpires ==
  /\ Fault /\ leader # None /\ leader' = None
  /\ UNCHANGED <<local, to, state, member, busy, flags>>

\* A switchover: demote("graceful") in the executor, and what of it comes before the start.
Demote(n) ==
  /\ Fault /\ InCycle(n) /\ leader = n /\ pg[n] = "primary"
  /\ state' = Set(state, n, Triggered(n)) /\ flags' = [flags EXCEPT ![n].task = "none"]
  /\ pg' = Set(pg, n, "shut down")
  /\ wal' = Set(wal, n, Append(wal[n], Timeline(n))) /\ current' = current \cup {n}
  /\ replayed' = Set(replayed, n, Len(wal[n]) + 1)
  /\ leader' = None /\ to' = Set(to, n, None) /\ Action(n, "start")
  /\ Touch(n)

Cycle(n) ==
  \/ EnsureCheckpoint(n)
  \/ /\ UNCHANGED history
     /\ \/ Recovered(n) \/ Bootstrap(n) \/ Recover(n) \/ ProcessHealthyFollower(n)
        \/ ProcessUnhealthy(n) \/ EnforcePrimary(n)
Async(n) ==
  /\ UNCHANGED history
  /\ Start(n) \/ CleanShutdown(n) \/ Promote(n) \/ Clone(n) \/ Execute(n)
Thread(n) == Checkpoint(n) /\ UNCHANGED history
Postgres(n) == (Receive(n) \/ Replay(n)) /\ UNCHANGED history

RewindNext ==
  \/ \E n \in Node : Cycle(n) \/ Async(n) \/ Thread(n) \/ Postgres(n)
  \/ /\ UNCHANGED history
     /\ KeyExpires \/ \E n \in Node : Insert(n) \/ Crash(n) \/ Demote(n)
RewindFairness ==
  \A n \in Node : WF_vars(Cycle(n) \/ Async(n)) /\ WF_vars(Thread(n)) /\ WF_vars(Postgres(n))
RewindSpec == Init /\ [][RewindNext]_vars /\ RewindFairness

-----------------------------------------------------------------------------
\* No node is found to have the leader's WAL that has replayed a record the leader has not.
DivergenceSeen ==
  \A n \in Node : state[n] # "not_need" /\ state'[n] = "not_need" =>
    Prefix(SubSeq(wal[n], 1, replayed[n]), wal[leader])
DivergenceIsSeen == [][DivergenceSeen]_vars

\* Every node is in the end a standby of the leader with WAL the leader has.
Joined(n) ==
  /\ leader # None /\ pg[leader] = "primary"
  /\ n # leader => pg[n] = "standby" /\ to[n] = leader /\ Prefix(wal[n], wal[leader])
AllJoin == <>[](\A n \in Node : Joined(n))
=============================================================================
