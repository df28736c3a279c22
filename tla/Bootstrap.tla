------------------------------ MODULE Bootstrap -------------------------------
(***************************************************************************)
(* Who creates the cluster (ha.py bootstrap, post_bootstrap,               *)
(* cancel_initialization; postgresql/bootstrap.py): the race for           *)
(* /initialize, initdb and its scripts, the first leader, the others that  *)
(* clone it, and what a node does with a data directory it finds when it   *)
(* starts.                                                                 *)
(*                                                                         *)
(* System identifiers are numbers from 2.  Standby clusters, pause and     *)
(* replica methods that need no leader are left out; so is WAL: every      *)
(* standby is healthy enough.                                              *)
(***************************************************************************)
EXTENDS Naturals, FiniteSets

CONSTANTS
  Node, None,
  MaxIds,      \* bound: initdb runs
  MaxFaults,   \* bound: crashes, failed steps, lost leader keys
  Untidy       \* may a node die while it cancels an initialization?

VARIABLES
  initialize,  \* NoKey, InProgress (the empty string) or a system identifier
  leader,
  step,        \* where in its cycle a node is
  view,        \* what the cycle has loaded: [initialize, leader]
  data,        \* the data directory: Empty, Broken or the system identifier of it
  pg,          \* "down", "primary" or "standby"
  busy,        \* the asynchronous action
  booting,     \* Postgresql.bootstrapping
  called,      \* cb_called
  ids, faults

vars == <<initialize, leader, step, view, data, pg, busy, booting, called, ids, faults>>
dcs == <<initialize, leader>>
postgres == <<data, pg>>

NoKey == 0
InProgress == 1
Empty == 0
Broken == 1
Valid(id) == id > 1   \* sysid_valid

Init ==
  /\ initialize = NoKey /\ leader = None
  /\ step = [n \in Node |-> "idle"] /\ view = [n \in Node |-> [initialize |-> NoKey, leader |-> None]]
  /\ data = [n \in Node |-> Empty] /\ pg = [n \in Node |-> "down"]
  /\ busy = [n \in Node |-> "none"] /\ booting = {} /\ called = {}
  /\ ids = 0 /\ faults = 0

Set(f, n, v) == [f EXCEPT ![n] = v]
Goes(n, to) == step' = Set(step, n, to)
At(n, where) == step[n] = where
Fault == faults < MaxFaults /\ faults' = faults + 1

\* The node is about to be started again by whatever supervises it.
Exit(n) ==
  /\ pg' = Set(pg, n, "down") /\ busy' = Set(busy, n, "none") /\ Goes(n, "idle")
  /\ booting' = booting \ {n} /\ called' = called \ {n}

-----------------------------------------------------------------------------
\* A cycle

Load(n) ==
  /\ At(n, "idle") /\ Goes(n, "loaded")
  /\ view' = Set(view, n, [initialize |-> initialize, leader |-> leader])
  /\ UNCHANGED <<dcs, postgres, busy, booting, called, ids, faults>>

\* initialize(create_new, sysid): a write that expects no key, or one that expects nothing.
PutsAlways(create_new) == TRUE
Puts(create_new) == create_new => initialize = NoKey
PutInitialize(create_new, id) ==
  IF Puts(create_new) THEN initialize' = id ELSE UNCHANGED initialize

\* The leader sees to it that there is an initialize key; a busy node does no more.
OwnKey(n) ==
  /\ At(n, "loaded")
  /\ IF view[n].leader = n /\ ~Valid(view[n].initialize) /\ n \notin booting
     THEN PutInitialize(view[n].initialize = NoKey, data[n]) ELSE UNCHANGED initialize
  /\ Goes(n, IF busy[n] # "none" THEN "idle"
             ELSE IF n \in booting THEN "post_bootstrap"
             ELSE IF data[n] = Empty THEN "bootstrap" ELSE "join")
  /\ UNCHANGED <<leader, view, postgres, busy, booting, called, ids, faults>>

\* An empty data directory: the race for the key, or a clone of the leader.
Race(n) ==
  /\ At(n, "bootstrap") /\ view[n] = [initialize |-> NoKey, leader |-> None]
  /\ Goes(n, "idle")
  /\ PutInitialize(TRUE, InProgress)
  /\ IF Puts(TRUE)
     THEN busy' = Set(busy, n, "initdb") /\ booting' = booting \cup {n}
     ELSE UNCHANGED <<busy, booting>>
  /\ UNCHANGED <<leader, view, postgres, called, ids, faults>>

\* The key is written; the retry of the write finds it there.
RaceUnanswered(n) ==
  /\ Fault
  /\ At(n, "bootstrap") /\ view[n] = [initialize |-> NoKey, leader |-> None]
  /\ Goes(n, "idle") /\ PutInitialize(TRUE, InProgress)
  /\ UNCHANGED <<leader, view, postgres, busy, booting, called, ids>>

Wait(n) ==
  /\ At(n, "bootstrap") /\ view[n] # [initialize |-> NoKey, leader |-> None]
  /\ Goes(n, "idle")
  /\ IF view[n].leader = n THEN leader' = (IF leader = n THEN None ELSE leader) /\ UNCHANGED busy
     ELSE /\ busy' = (IF view[n].leader # None THEN Set(busy, n, "clone") ELSE busy)
          /\ UNCHANGED leader
  /\ UNCHANGED <<initialize, view, postgres, booting, called, ids, faults>>

\* A data directory that is not empty: may the node join?
Join(n) ==
  /\ At(n, "join")
  /\ \/ ~Valid(data[n]) /\ Goes(n, "idle") /\ UNCHANGED <<initialize, pg, busy, booting, called>>
     \/ /\ Valid(data[n]) /\ Valid(view[n].initialize) /\ view[n].initialize # data[n]
        /\ Exit(n) /\ UNCHANGED initialize
     \/ /\ Valid(data[n]) /\ view[n].initialize = data[n]
        /\ Goes(n, "run") /\ UNCHANGED <<initialize, pg, busy, booting, called>>
     \/ /\ Valid(data[n]) /\ ~Valid(view[n].initialize)
        /\ IF view[n].leader = None /\ n \notin called
           THEN IF pg[n] = "standby" THEN Exit(n) /\ UNCHANGED initialize
                ELSE PutInitialize(view[n].initialize = NoKey, data[n])
                     /\ Goes(n, "run") /\ UNCHANGED <<pg, busy, booting, called>>
           ELSE Goes(n, "run") /\ UNCHANGED <<initialize, pg, busy, booting, called>>
  /\ UNCHANGED <<leader, view, data, ids, faults>>

\* recover, the leader race, or following; then the first callback.
Run(n) ==
  /\ At(n, "run") /\ Goes(n, "idle")
  /\ IF pg[n] = "down" THEN pg' = Set(pg, n, "standby") /\ UNCHANGED <<leader, called>>
     ELSE /\ called' = called \cup {n}
          /\ \/ view[n].leader = None /\ leader = None /\ leader' = n /\ pg' = Set(pg, n, "primary")
             \/ view[n].leader = n /\ pg' = Set(pg, n, "primary") /\ UNCHANGED leader
             \/ view[n].leader \notin {n, None} /\ pg' = Set(pg, n, "standby") /\ UNCHANGED leader
             \/ view[n].leader = None /\ leader # None /\ pg' = Set(pg, n, "standby") /\ UNCHANGED leader
  /\ UNCHANGED <<initialize, view, data, busy, booting, ids, faults>>

-----------------------------------------------------------------------------
\* post_bootstrap

PostBootstrap(n) ==
  /\ At(n, "post_bootstrap")
  /\ Goes(n, IF pg[n] = "down" THEN "cancel" ELSE "initialized")
  /\ UNCHANGED <<dcs, view, postgres, busy, booting, called, ids, faults>>
PostScriptFails(n) ==
  /\ At(n, "post_bootstrap") /\ pg[n] # "down" /\ Fault /\ Goes(n, "cancel")
  /\ UNCHANGED <<dcs, view, postgres, busy, booting, called, ids>>

\* Whatever the key has become by now, it is written, and so is the leader key.
Initialized(n) ==
  /\ At(n, "initialized") /\ Goes(n, "take_leader") /\ booting' = booting \ {n}
  /\ PutInitialize(view[n].initialize = NoKey, data[n])
  /\ UNCHANGED <<leader, view, postgres, busy, called, ids, faults>>
TakeLeader(n) ==
  /\ At(n, "take_leader") /\ Goes(n, "idle") /\ leader' = n /\ called' = called \cup {n}
  /\ UNCHANGED <<initialize, view, postgres, busy, booting, ids, faults>>

\* cancel_initialization: the key first, then the data directory
DeleteKey(n) ==
  /\ At(n, "cancel") /\ Goes(n, "move") /\ initialize' = NoKey
  /\ UNCHANGED <<leader, view, postgres, busy, booting, called, ids, faults>>
MoveData(n) ==
  /\ At(n, "move") /\ Exit(n) /\ data' = Set(data, n, Empty)
  /\ UNCHANGED <<dcs, view, ids, faults>>

-----------------------------------------------------------------------------
\* The asynchronous actions: Bootstrap.bootstrap in two steps, and clone

InitDb(n) ==
  /\ busy[n] = "initdb" /\ ids < MaxIds /\ ids' = ids + 1
  /\ data' = Set(data, n, ids + 2) /\ busy' = Set(busy, n, "start")
  /\ UNCHANGED <<dcs, step, view, pg, booting, called, faults>>
StartNew(n) ==
  /\ busy[n] = "start" /\ busy' = Set(busy, n, "none")
  /\ (pg' = Set(pg, n, "primary") /\ UNCHANGED faults) \/ (Fault /\ UNCHANGED pg)
  /\ UNCHANGED <<dcs, step, view, data, booting, called, ids>>

\* A failed initdb leaves a part of a data directory, a failed base backup none.
InitDbFails(n) ==
  /\ busy[n] = "initdb" /\ Fault
  /\ data' = Set(data, n, Broken) /\ busy' = Set(busy, n, "none")
  /\ UNCHANGED <<dcs, step, view, pg, booting, called, ids>>
Clone(n) ==
  /\ busy[n] = "clone" /\ busy' = Set(busy, n, "none")
  /\ IF leader # None /\ pg[leader] = "primary"
     THEN data' = Set(data, n, data[leader]) /\ pg' = Set(pg, n, "standby")
     ELSE UNCHANGED postgres
  /\ UNCHANGED <<dcs, step, view, booting, called, ids, faults>>

-----------------------------------------------------------------------------
\* The node goes down with Patroni and PostgreSQL.
Crash(n) ==
  /\ Fault /\ (Untidy \/ ~At(n, "move")) /\ Exit(n)
  /\ data' = Set(data, n, IF busy[n] \in {"initdb", "clone"} THEN Broken ELSE data[n])
  /\ UNCHANGED <<dcs, view, ids>>

\* Somebody removes a data directory that is of no use, as the message suggests.
Clean(n) ==
  /\ data[n] = Broken /\ busy[n] = "none" /\ n \notin booting
  /\ data' = Set(data, n, Empty)
  /\ UNCHANGED <<dcs, step, view, pg, busy, booting, called, ids, faults>>

KeyExpires ==
  /\ Fault /\ leader # None /\ leader' = None
  /\ UNCHANGED <<initialize, step, view, postgres, busy, booting, called, ids>>

BootstrapNext ==
  \/ KeyExpires
  \/ \E n \in Node :
       \/ Load(n) \/ OwnKey(n) \/ Race(n) \/ RaceUnanswered(n) \/ Wait(n) \/ Join(n) \/ Run(n)
       \/ PostBootstrap(n) \/ PostScriptFails(n) \/ Initialized(n) \/ TakeLeader(n)
       \/ DeleteKey(n) \/ MoveData(n)
       \/ InitDb(n) \/ StartNew(n) \/ InitDbFails(n) \/ Clone(n) \/ Crash(n) \/ Clean(n)
BootstrapSpec == Init /\ [][BootstrapNext]_vars

-----------------------------------------------------------------------------
\* The nodes that are in the cluster have one system identifier.
Member(n) == pg[n] # "down" /\ n \notin booting
OneSystem == \A m, n \in Node : Member(m) /\ Member(n) => data[m] = data[n]
=============================================================================
