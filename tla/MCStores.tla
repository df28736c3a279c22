------------------------------- MODULE MCStores ------------------------------
(***************************************************************************)
(* The back ends of patroni/dcs side by side: a behaviour is one of one of *)
(* them, and each is shown to implement LeaderKey.  Beside them, parts of  *)
(* Patroni with interchangeable nodes, which keep their state in a to l.   *)
(***************************************************************************)
EXTENDS LeaderStore, TLC

VARIABLES
  backend,   \* or part, chosen at the start
  a, b, c, d, e, f, g, h, i, j, k, l

MemberSymmetry == Permutations(Member)

Etcd == INSTANCE StoreEtcd
Etcd3 == INSTANCE StoreEtcd3 WITH MaxWrites <- MaxWrites - 1
Consul == INSTANCE StoreConsul
ZooKeeper == INSTANCE StoreZooKeeper
Raft == INSTANCE StoreRaft WITH MaxWrites <- MaxWrites - 1
Kubernetes == INSTANCE StoreKubernetes

H == INSTANCE Health WITH
       Node <- Member, Ttl <- 2, Quorum <- FALSE, Prompt <- TRUE, MaxFaults <- 1,
       leader <- a, left <- b, sync <- c, view <- d, until <- e, pg <- f,
       step <- g, asked <- h, api <- i, faults <- j

D == INSTANCE Configuration WITH
       Node <- Member, Client <- {"one"}, MaxWrites <- 3, MaxOps <- 1,
       EarlyPut <- FALSE, WhileStarting <- FALSE, ZeroIsAny <- TRUE,
       key <- a, written <- b, client <- c, daemon <- d, params <- e, pg <- f,
       pending <- g, primary <- h, ops <- i

Y == INSTANCE ConfigLayers WITH
       Node <- Member, Number <- {14}, MaxVersion <- 2, MaxRestarts <- 1, Garbled <- FALSE,
       key <- a, local <- b, dynamic <- c, effective <- d, seen <- e, cache <- f, restarts <- g

store == <<log, left, alive, sess, cursor, seen, view, pc, sure, extra>>
shared == <<a, b, c, d, e, f, g, h, i, j, k, l>>
vars == <<store, shared, backend>>

UnusedAI == a = 0 /\ b = 0 /\ c = 0 /\ d = 0 /\ e = 0 /\ f = 0 /\ g = 0 /\ h = 0 /\ i = 0
UnusedHI == h = 0 /\ i = 0
UnusedJ == j = 0
UnusedKL == k = 0 /\ l = 0

StoresInit ==
  \/ backend = "etcd" /\ Etcd!EtcdInit
  \/ backend = "etcd3" /\ Etcd3!Etcd3Init
  \/ backend = "consul" /\ Consul!ConsulInit
  \/ backend = "zookeeper" /\ ZooKeeper!ZooKeeperInit
  \/ backend = "raft" /\ Raft!RaftInit
  \/ backend = "kubernetes" /\ Kubernetes!KubernetesInit

Init ==
  \/ StoresInit /\ UnusedAI /\ UnusedJ /\ UnusedKL
  \/ /\ Etcd!EtcdInit
     /\ \/ backend = "health" /\ H!Init /\ UnusedKL
        \/ backend = "configuration" /\ D!Init /\ UnusedJ /\ UnusedKL
        \/ backend = "layers" /\ Y!Init /\ UnusedHI /\ UnusedJ /\ UnusedKL

StoresNext ==
  /\ UNCHANGED shared
  /\ \/ backend = "etcd" /\ Etcd!EtcdNext
     \/ backend = "etcd3" /\ Etcd3!Etcd3Next
     \/ backend = "consul" /\ Consul!ConsulNext
     \/ backend = "zookeeper" /\ ZooKeeper!ZooKeeperNext
     \/ backend = "raft" /\ Raft!RaftNext
     \/ backend = "kubernetes" /\ Kubernetes!KubernetesNext

PartsNext ==
  /\ UNCHANGED store
  /\ \/ backend = "health" /\ H!HealthNext /\ UNCHANGED <<k, l>>
     \/ backend = "configuration" /\ D!ConfigurationNext /\ UNCHANGED <<j, k, l>>
     \/ backend = "layers" /\ Y!LayersNext /\ UNCHANGED <<h, i, j, k, l>>
Next == UNCHANGED backend /\ (StoresNext \/ PartsNext)

Spec == Init /\ [][Next]_vars

\* The key's holder.  A record of Kubernetes that is older than the ttl has none.
Holder == IF backend = "kubernetes" /\ left = 0 THEN None ELSE Key.owner

LK == INSTANCE LeaderKey WITH holder <- Holder

\* Consul and ZooKeeper cannot move a key to a new session: the member deletes it
\* and creates it again, which is not one atomic step.
Recreated == backend \in {"consul", "zookeeper"} /\ \E m \in Member : extra[m]

\* etcd v3: a member that deleted the key itself, and whose lease still lives, may find
\* a copy from before, and is then told TRUE because copy and lease agree.
Misled(m) ==
  /\ backend = "etcd3" /\ pc[m] = "refreshed" /\ extra[m] = sess[m]
  /\ sure' = [sure EXCEPT ![m] = alive[sess[m]]]
  /\ UNCHANGED Holder

\* Every back end keeps the promise of AbstractDCS.attempt_to_acquire_leader,
\* _update_leader and _delete_leader: the key passes from one member to another only
\* when nobody was told to hold it.  (Consul, ZooKeeper: until a member had to
\* recreate its key for a new session.  etcd v3: but for a member that is Misled.)
ImplementsLeaderKey ==
  /\ LK!LeaderKeyInit
  /\ [][LK!LeaderKeyNext \/ Recreated' \/ \E m \in Member : Misled(m)]_(LK!leaderKeyVars)

\* No change of the key is missed for good, whatever a member's cache was overwritten
\* by: a late event, the answer to a call of its own, or a list that was read before
\* such a call, or from a server that lags (etcd3.py and kubernetes.py set, delete,
\* _build_cache).  Once all has been delivered the cache has the key as it is.
NoEventLost ==
  backend \in {"etcd3", "kubernetes"} =>
    \A m \in Member : cursor[m] = Last => seen[m] = Last

\* Health's OneAnswers.
OneAnswers == backend = "health" => H!OneAnswers

\* Configuration's WritesKept and PendingIsTold.
WritesKept == backend = "configuration" => D!WritesKept
PendingIsTold == backend = "configuration" => D!PendingIsTold

\* ConfigLayers' OneConfiguration.
OneConfiguration == backend = "layers" => Y!OneConfiguration
=============================================================================
