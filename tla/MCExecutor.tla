------------------------------- MODULE MCExecutor ------------------------------
(***************************************************************************)
(* Parts with liveness side by side: a behaviour is one of one part.  The  *)
(* parts other than Patroni's AsyncExecutor keep their state in the same   *)
(* variables a to n.                                                       *)
(***************************************************************************)
EXTENDS AsyncExecutor

CONSTANTS Accounts, Nobody

VARIABLES part, a, b, c, d, e, f, g, h, i, j, k, l, m, n

\* The bank with the cached read that no transfer invalidates, and two transfers of a cent.
B == INSTANCE BankCache WITH
       Unknown <- {Nobody}, InitBalance <- [x \in Accounts |-> 2],
       Amounts <- {10}, Scale <- 10, MaxTransfers <- 2,
       Kinds <- {"credit_score"}, Readable <- Accounts,
       balance <- a, rows <- b, cache <- c, lock <- d, pc <- e, req <- f, data <- g
\* The bank with the cached read that takes two SELECTs.
R == INSTANCE BankCache WITH
       Unknown <- {Nobody}, InitBalance <- [x \in Accounts |-> 2],
       Amounts <- {10}, Scale <- 10, MaxTransfers <- 1,
       Kinds <- {"summary"}, Readable <- Accounts,
       balance <- a, rows <- b, cache <- c, lock <- d, pc <- e, req <- f, data <- g

\* A node whose WAL is not the leader's, of two.
W == INSTANCE Rewind WITH
       Node <- Workers, Archive <- TRUE, MaxInserts <- 1, MaxFaults <- 2,
       leader <- a, wal <- b, replayed <- c, pg <- d, current <- e, to <- f, state <- g,
       history <- h, member <- i, busy <- j, flags <- k, bounds <- l

\* A standby and two servers to stream from.
Y == INSTANCE Recovery WITH
       Target <- Workers, Version <- {10, 12, 13, 14}, Killable <- {12, 13, 14},
       Deferred <- FALSE, MaxChanges <- 2,
       version <- a, wanted <- b, alive <- c, changes <- d, conf <- e, auto <- f, pg <- g,
       loaded <- h, signalled <- i, receiver <- j, known <- k, params <- l, dirty <- m, busy <- n

\* A client of two members of three servers.
T == INSTANCE EtcdClient WITH
       Server <- Accounts \cup Clients, Config <- Clients, Product <- {"etcd", "kubernetes"},
       RetryTimeout <- 3, MaxChanges <- 2, PreVote <- TRUE, Insistent <- FALSE,
       product <- a, alive <- b, alone <- c, leaderless <- d, term <- e, members <- f,
       changes <- g, cache <- h, base <- i, update <- j, known <- k, call <- l

last == <<m, n>>
rest == <<h, i, j, k, l, last>>
shared == <<a, b, c, d, e, f, g, rest>>
partVars == <<vars, part, shared>>
UnusedAG == a = 0 /\ b = 0 /\ c = 0 /\ d = 0 /\ e = 0 /\ f = 0 /\ g = 0
UnusedHL == h = 0 /\ i = 0 /\ j = 0 /\ k = 0 /\ l = 0
UnusedMN == m = 0 /\ n = 0

PartsInit ==
  /\ Init
  /\ \/ part = "executor" /\ UnusedAG /\ UnusedHL /\ UnusedMN
     \/ part = "bank" /\ B!Init /\ UnusedHL /\ UnusedMN
     \/ part = "summary" /\ R!Init /\ UnusedHL /\ UnusedMN
     \/ part = "rewind" /\ W!Init /\ UnusedMN
     \/ part = "client" /\ T!Init /\ UnusedMN
     \/ part = "recovery" /\ Y!Init

PartsNext ==
  /\ UNCHANGED part
  /\ \/ part = "executor" /\ Next /\ UNCHANGED shared
     \/ part = "bank" /\ B!Next /\ UNCHANGED <<vars, rest>>
     \/ part = "summary" /\ R!Next /\ UNCHANGED <<vars, rest>>
     \/ part = "rewind" /\ W!RewindNext /\ UNCHANGED <<vars, last>>
     \/ part = "client" /\ T!EtcdClientNext /\ UNCHANGED <<vars, last>>
     \/ part = "recovery" /\ Y!RecoveryNext /\ UNCHANGED vars

ExecutorRuns(A) == part = "executor" /\ A /\ UNCHANGED <<part, shared>>
BankRuns(A) == part = "bank" /\ A /\ UNCHANGED <<part, vars, rest>>
RewindRuns(A) == part = "rewind" /\ A /\ UNCHANGED <<part, vars, last>>
ClientRuns(A) == part = "client" /\ A /\ UNCHANGED <<part, vars, last>>
RecoveryRuns(A) == part = "recovery" /\ A /\ UNCHANGED <<part, vars>>

\* The fairness of each part's FairSpec. Actions of one thread of which at most one is
\* enabled are fair together.
PartsFairness ==
  /\ WF_partVars(ExecutorRuns(Cycle \/ StopAtShutdown))
  /\ WF_partVars(ExecutorRuns(\E w \in Workers : Function(w)))
  /\ SF_partVars(ExecutorRuns(\E w \in Workers : Enter(w) \/ Leave(w)))
  /\ SF_partVars(ExecutorRuns(\E t \in Threads : CancelStep(t)))
  /\ \A w \in Workers :
       /\ WF_partVars(BankRuns(B!Read(w) \/ B!Pay(w)))
       /\ SF_partVars(BankRuns(B!SelectForUpdate(w) \/ B!UpdateTo(w)))
       /\ WF_partVars(BankRuns(B!DeadlockDetected(w)))
  /\ \A key \in B!Keys : WF_partVars(BankRuns(B!Expire(key)))
  /\ \A w \in Workers :
       /\ WF_partVars(RewindRuns(W!Cycle(w) \/ W!Async(w)))
       /\ WF_partVars(RewindRuns(W!Thread(w)))
       /\ WF_partVars(RewindRuns(W!Postgres(w)))
  /\ WF_partVars(ClientRuns(T!Client))
  /\ WF_partVars(ClientRuns(T!Elected))
  /\ WF_partVars(RecoveryRuns(Y!Patroni))
  /\ WF_partVars(RecoveryRuns(Y!Ready))
  /\ WF_partVars(RecoveryRuns(Y!Load))
  /\ WF_partVars(RecoveryRuns(Y!Stream))

PartsSpec == PartsInit /\ [][PartsNext]_partVars /\ PartsFairness

\* BankCache's SummaryCoherent, EventuallyFresh and RequestsEnd.
SummaryCoherent == part = "summary" => R!SummaryCoherent
EventuallyFresh == <>[](part = "bank" => \A key \in B!Keys : B!Fresh(key))
RequestsEnd ==
  \A w \in Workers : (part = "bank" /\ e[w] # B!Idle) ~> (part = "bank" => e[w] = B!Idle)
\* Rewind's DivergenceIsSeen and AllJoin.
DivergenceIsSeen == [][part = "rewind" => W!DivergenceSeen]_partVars
AllJoin == <>[](part = "rewind" => \A w \in Workers : W!Joined(w))
\* Recovery's Settles.
Settles == <>[](part = "recovery" => Y!Settled)
\* EtcdClient's InTime and Reconnects.
CallsInTime == part = "client" => T!InTime
Reconnects == []<>(part = "client" => l.at = "answered" \/ T!Cutoff)
=============================================================================
