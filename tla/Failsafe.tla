------------------------------- MODULE Failsafe -------------------------------
(***************************************************************************)
(* The failsafe mode (ha.py): a primary that cannot reach the DCS runs on  *)
(* as long as every member of /failsafe answers its POST /failsafe; a      *)
(* member that was asked takes the primary for the leader for ttl seconds, *)
(* whatever the DCS says.                                                  *)
(*                                                                         *)
(* Which servers and members a node reaches is open at every call.  A      *)
(* second passes only between cycles, and not before every primary had its *)
(* cycle, so a cycle is shorter than the ttl.  Pause, synchronous modes,   *)
(* switchovers and positions in the log are left out.                      *)
(***************************************************************************)
EXTENDS Naturals, FiniteSets

CONSTANTS
  Node, None,
  Ttl,
  MaxFaults,   \* bound: nodes that die or restart
  MaxMoves,    \* bound: members that join and leave
  Forgetful,   \* may Patroni restart on a running node?
  Lossy        \* may the answer to a write of /failsafe get lost?

VARIABLES
  leader, left,   \* the /leader key and what is left of its ttl
  failsafe,       \* the /failsafe key, {} when there is none
  members,        \* the keys under /members
  pg,             \* PostgreSQL: "primary", "replica" or "dead"
  known,          \* dcs.failsafe, the /failsafe key as a primary knows it (a
                  \* replica loads it before it uses it)
  heard,          \* Failsafe: who last asked, and for how long that counts
  step,           \* where in its cycle a node is, with what it has loaded
  ran,            \* primaries that had a cycle in this second
  faults, moves

vars == <<leader, left, failsafe, members, pg, known, heard, step, ran, faults, moves>>

Unheard == [from |-> None, left |-> 0]
AtEase == [at |-> "idle", members |-> {}]

Init ==
  LET first == CHOOSE n \in Node : TRUE IN
    /\ leader = first /\ left = Ttl
    /\ pg = [n \in Node |-> IF n = first THEN "primary" ELSE "replica"]
    /\ members \in {M \in SUBSET Node : first \in M}
    /\ failsafe \in {{}, members}
    /\ known = [n \in Node |-> {}]
    /\ heard = [n \in Node |-> Unheard]
    /\ step = [n \in Node |-> AtEase]
    /\ ran = {} /\ faults = 0 /\ moves = 0

Goes(n, to) == step' = [step EXCEPT ![n].at = to]
Runs(n, role) == pg' = [pg EXCEPT ![n] = role]
\* The cycle ends with PostgreSQL running as role.
Ends(n, role) ==
  /\ step' = [step EXCEPT ![n] = AtEase]
  /\ ran' = IF role = "primary" THEN ran \cup {n} ELSE ran \ {n}
  /\ Runs(n, role)
Knows(n, topology) == known' = [known EXCEPT ![n] = topology]
\* Failsafe.is_active, and set_is_active(0).
Counts(h) == h.left > 0
Forget(n) == heard' = [heard EXCEPT ![n] = Unheard]

-----------------------------------------------------------------------------
\* _handle_dcs_error, check_failsafe_topology

MostAgree(n, agree) == 2 * Cardinality(agree) >= Cardinality(known[n] \ {n})
AllAgree(n, agree) == known[n] \ {n} \subseteq agree

Others(n) == IF n \in known[n] THEN known[n] \ {n} ELSE {}

\* update_failsafe: a running primary refuses.
Ask(n, reached) == {r \in reached : pg[r] = "replica"}
Told(n, agree) ==
  heard' = [m \in Node |-> IF m \in agree THEN [from |-> n, left |-> Ttl] ELSE heard[m]]

DcsError(n) ==
  /\ UNCHANGED <<leader, left, failsafe, members, faults, moves>>
  /\ \/ pg[n] # "primary" /\ Ends(n, "replica") /\ Knows(n, {}) /\ UNCHANGED heard
     \/ /\ pg[n] = "primary"
        /\ \E reached \in SUBSET Others(n) :
             LET agree == Ask(n, reached) IN
             /\ Told(n, agree)
             /\ \/ n \in known[n] /\ AllAgree(n, agree) /\ Ends(n, "primary") /\ UNCHANGED known
                \/ ~(n \in known[n] /\ AllAgree(n, agree)) /\ Ends(n, "replica") /\ Knows(n, {})

-----------------------------------------------------------------------------
\* A cycle

\* load_cluster_from_dcs, with the leader who asked where there is none (on the primary
\* that asked, a leader without a name, who counts as none). Where there is none,
\* is_healthiest_node: a replica that /failsafe does not name may not race. (One that
\* reaches a primary neither, but it may reach nobody.) A replica may just follow.
Owner(n) == IF leader = None /\ Counts(heard[n]) THEN heard[n].from ELSE leader
MayRace(n) == pg[n] = "primary" \/ failsafe = {} \/ n \in failsafe
Load(n) ==
  /\ step[n].at = "idle" /\ pg[n] # "dead"
  /\ Knows(n, failsafe)
  /\ \/ Owner(n) = n /\ step' = [step EXCEPT ![n] = [at |-> "update", members |-> members]]
     \/ Owner(n) = None /\ MayRace(n) /\ Goes(n, "acquire")
     \/ Owner(n) \notin {n, None} /\ pg[n] = "primary" /\ Goes(n, "follow")
  /\ UNCHANGED <<leader, left, failsafe, members, pg, heard, ran, faults, moves>>
LoadFails(n) ==
  /\ step[n].at = "idle" /\ pg[n] = "primary"
  /\ DcsError(n)

\* write_failsafe of _failsafe_config: only when it differs from what is known.
WriteFailsafe(n) ==
  LET topology == step[n].members \cup {n} IN
  IF known[n] = topology THEN UNCHANGED <<failsafe, known>>
  ELSE \/ failsafe' = topology /\ known' = [known EXCEPT ![n] = topology]
       \/ Lossy /\ failsafe' \in {failsafe, topology} /\ UNCHANGED known

\* process_healthy_cluster: update_lock creates a key that is gone again; whoever
\* holds it is primary, and no longer in failsafe mode.
Update(n) ==
  /\ step[n].at = "update"
  /\ \/ /\ leader \in {n, None}
        /\ leader' = n /\ left' = Ttl
        /\ WriteFailsafe(n)
        /\ Ends(n, "primary") /\ Forget(n)
     \/ /\ leader \notin {n, None}
        /\ Ends(n, "replica") /\ Knows(n, {})
        /\ UNCHANGED <<leader, left, failsafe, heard>>
  /\ UNCHANGED <<members, faults, moves>>
UpdateFails(n) == step[n].at = "update" /\ DcsError(n)

\* process_unhealthy_cluster: the loser follows.
Acquire(n) ==
  /\ step[n].at = "acquire"
  /\ \/ /\ leader = None
        /\ leader' = n /\ left' = Ttl
        /\ Goes(n, "promote") /\ UNCHANGED <<pg, ran, known>>
     \/ /\ leader # None
        /\ Ends(n, "replica") /\ Knows(n, {}) /\ UNCHANGED <<leader, left>>
  /\ UNCHANGED <<failsafe, members, heard, faults, moves>>
AcquireFails(n) == step[n].at = "acquire" /\ DcsError(n)

\* enforce_primary_role, after the cluster is loaded again.
Promote(n) ==
  /\ step[n].at = "promote"
  /\ Ends(n, "primary") /\ Forget(n)
  /\ UNCHANGED <<leader, left, failsafe, members, known, faults, moves>>

Follow(n) ==
  /\ step[n].at = "follow"
  /\ Ends(n, "replica") /\ Knows(n, {})
  /\ UNCHANGED <<leader, left, failsafe, members, heard, faults, moves>>

-----------------------------------------------------------------------------
\* Members, faults and time

\* touch_member; the key of a node that does not reach the DCS for ttl seconds is gone.
Move(n) ==
  /\ moves < MaxMoves /\ moves' = moves + 1
  /\ \/ n \notin members /\ pg[n] # "dead" /\ members' = members \cup {n}
     \/ n \in members /\ leader # n /\ members' = members \ {n}
  /\ UNCHANGED <<leader, left, failsafe, pg, known, heard, step, ran, faults>>

\* A node dies, or its Patroni is started again and has forgotten who asked.
Fail(n) ==
  /\ faults < MaxFaults /\ faults' = faults + 1
  /\ pg[n] # "dead"
  /\ Runs(n, "dead") \/ (Forgetful /\ UNCHANGED pg)
  /\ Forget(n) /\ Knows(n, {})
  /\ step' = [step EXCEPT ![n] = AtEase]
  /\ UNCHANGED <<leader, left, failsafe, members, ran, moves>>

Left(t) == IF t = 0 THEN 0 ELSE t - 1
Tick ==
  /\ \A n \in Node : step[n] = AtEase /\ (pg[n] = "primary" => n \in ran)
  /\ left' = Left(left)
  /\ leader' = IF left' = 0 THEN None ELSE leader
  /\ heard' = [n \in Node |-> IF heard[n].left <= 1 THEN Unheard
                              ELSE [heard[n] EXCEPT !.left = @ - 1]]
  /\ ran' = {}
  /\ UNCHANGED <<failsafe, members, pg, known, step, faults, moves>>

FailsafeNext ==
  \/ Tick
  \/ \E n \in Node :
       \/ Load(n) \/ LoadFails(n) \/ Update(n) \/ UpdateFails(n) \/ Acquire(n)
       \/ AcquireFails(n) \/ Promote(n) \/ Follow(n) \/ Move(n) \/ Fail(n)
FailsafeSpec == Init /\ [][FailsafeNext]_vars

-----------------------------------------------------------------------------
\* With or without the DCS there is one primary: who the primary does not ask may not
\* race, and who it asks does not (docs/dcs_failsafe_mode.rst).
OnePrimary == Cardinality({n \in Node : pg[n] = "primary"}) <= 1
=============================================================================
