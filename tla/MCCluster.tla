------------------------------ MODULE MCCluster -------------------------------
(***************************************************************************)
(* Parts of a Patroni cluster side by side: a behaviour is one of one part. *)
(* The parts other than the quorum commit configuration keep their state   *)
(* in the same variables a to l.                                           *)
(***************************************************************************)
EXTENDS QuorumConfig

CONSTANTS Servers, None, Other, n1, n2,
  MaxUsed   \* of Citus

VARIABLES part, a, b, c, d, e, f, g, h, i, j, k, l

S == INSTANCE Switchover WITH
       Node <- Servers, MaxRequests <- 1, MaxFaults <- 1,
       key <- a, failover <- b, sync <- c, paused <- d, pg <- e,
       lagging <- f, view <- g, step <- h, faults <- i

R == INSTANCE Restarts WITH
       Timeout <- 1, LoopWait <- 1, MaxTime <- 2, MaxCrashes <- 2, MaxRequests <- 2,
       key <- a, pg <- b, state <- c, role <- d, task <- e, recovering <- f,
       waited <- g, sched <- h, look <- i, count <- j

C == INSTANCE Citus WITH
       Host <- Servers, Up <- {n1, n2},
       worker <- a, queue <- b, flight <- c, late <- d, cache <- e, load <- f,
       job <- g, table <- h, open <- i, leads <- j, mixed <- k, used <- l

shared == <<a, b, c, d, e, f, g, h, i, j, k, l>>
vars == <<config, part, shared>>
UnusedKL == k = None /\ l = None
Unused ==
  /\ a = None /\ b = None /\ c = None /\ d = None /\ e = None
  /\ f = None /\ g = None /\ h = None /\ i = None /\ j = None

Init ==
  \/ part = "quorum" /\ ConfigInit /\ Unused /\ UnusedKL
  \/ part = "switchover" /\ ConfigInit /\ wanted = 1 /\ S!Init /\ j = None /\ UnusedKL
  \/ part = "restarts" /\ ConfigInit /\ wanted = 1 /\ R!Init /\ UnusedKL
  \/ part = "citus" /\ ConfigInit /\ wanted = 1 /\ C!Init

Next ==
  /\ UNCHANGED part
  /\ \/ part = "quorum" /\ ConfigNext /\ UNCHANGED shared
     \/ part = "switchover" /\ S!SwitchoverNext /\ UNCHANGED <<config, j, k, l>>
     \/ part = "restarts" /\ R!RestartsNext /\ UNCHANGED <<config, k, l>>
     \/ part = "citus" /\ C!CitusNext /\ UNCHANGED config
     \/ part # "quorum" /\ UNCHANGED vars   \* a settled cluster rests

\* The fairness of each part's specification.
Fairness ==
  /\ WF_vars(part = "switchover" /\ S!Expire /\ UNCHANGED <<config, part, j, k, l>>)
  /\ WF_vars(part = "switchover" /\ S!TimePasses /\ UNCHANGED <<config, part, j, k, l>>)
  /\ \A n \in Servers :
       /\ WF_vars(part = "switchover" /\ S!CatchUp(n) /\ UNCHANGED <<config, part, j, k, l>>)
       /\ WF_vars(part = "switchover" /\ S!Turn(n) /\ UNCHANGED <<config, part, j, k, l>>)
  /\ WF_vars(part = "restarts" /\ R!Progress /\ UNCHANGED <<config, part, k, l>>)
  /\ WF_vars(part = "citus" /\ C!CitusThread /\ UNCHANGED <<config, part>>)
  /\ WF_vars(part = "citus" /\ C!sync_meta_data /\ UNCHANGED <<config, part>>)
  /\ WF_vars(part = "citus" /\ C!Deadline /\ UNCHANGED <<config, part>>)
  /\ WF_vars(part = "citus" /\ C!PromotedAgain /\ UNCHANGED <<config, part>>)

Spec == Init /\ [][Next]_vars /\ Fairness

\* Whatever is asked for, called off, paused or crashes in between, again and again
\* there is a leader that runs as primary, and no request is left (process_healthy_cluster,
\* process_unhealthy_cluster); unless nobody may lead, or the cluster is wedged.
RequestsSettle == []<>(part = "switchover" => S!Settled)

\* Switchover's HeirsAreCurrent: nobody whom /sync lets race in synchronous mode lacks
\* anything that counts, whoever won, however late the others look after /sync
\* (process_sync_replication_prepromote, write_sync_state).
HeirsAreCurrent == part = "switchover" => S!HeirsAreCurrent

\* Restarts' KeyFreed.
KeyFreed == []<>(part = "restarts" => ~R!KeyIsIdle)
\* Citus's CacheIsTable: between the tasks the coordinator's cached topology is what
\* pg_dist_node holds, row for row (transition, update_node).
CacheIsTable == part = "citus" => C!CacheIsTable

\* Citus's RoutedAgain: whatever requests are lost, late or out of order, queries for
\* the group of workers go to its primary again and are not left paused (sync_meta_data).
RoutedAgain == []<>(part = "citus" => C!IsRouted)
=============================================================================
