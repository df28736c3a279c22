--------------------------- MODULE MCExecutorProofs ---------------------------
(***************************************************************************)
(* Proofs about AsyncExecutor, for any number of threads, as long as no    *)
(* request to reinitialize is forced: a forced one cancels an action whose *)
(* thread may not have begun, schedules its own and revokes the            *)
(* cancellation with it.  Then what that, BankCacheProofs and              *)
(* ClusterProofs show of single parts is shown of MCExecutor, where the    *)
(* parts share variables.                                                  *)
(***************************************************************************)
EXTENDS MCExecutor, Integers, FiniteSets, TLAPS

(* TypeOK in two parts, which need different provers' care.                *)
FlagTypes ==
    /\ cancelled \in BOOLEAN /\ finished \in BOOLEAN /\ sub \in BOOLEAN
    /\ locked \in BOOLEAN /\ up \in BOOLEAN /\ fenced \in BOOLEAN

Critical(results) == [is_cancelled : BOOLEAN, result : results]
StartResults == {None, "postmaster"}
ScriptResults == {None, "ok", "failed"}

DataTypes ==
    /\ action \in Kinds \cup {None}
    /\ crit \in Critical(StartResults)
    /\ resp \in Critical(ScriptResults)
    /\ task \in [Workers -> [kind : Kinds \cup {None}, stage : Stages]]
    /\ pc \in [Threads -> Pcs]
    /\ role \in {"replica", "promoted", "primary", "demoted"}
    /\ datadir \in {"standby", "primary"}

Taken == {w \in Workers : task[w].stage # "free"}
Down == pc[Main] \in {"stopping", "exited"}
ShuttingDown == pc[Main] \in {"cancel", "signal", "await", "unschedule", "stopping", "exited"}

(* At most one worker has an action, and it is the one scheduled, until    *)
(* cancel unschedules it at shutdown.                                      *)
OneWorker ==
    /\ \A v, w \in Taken : v = w
    /\ \A w \in Taken : task[w].kind # None /\ (~Down => action = task[w].kind)
    /\ Busy => Taken # {}

(* What the event and the two flags of a cancellation tell.                *)
Flags ==
    /\ finished => Running = {}
    /\ pc[Main] \in {"signal", "await", "unschedule"} => cancelled
    /\ pc[Main] = "unschedule" \/ Down => Running = {}
    /\ Down => \A w \in Taken : cancelled
    /\ \A x \in Clients : pc[x] \in {"idle", "checked", "exited"}
    /\ ShuttingDown => \A x \in Clients : pc[x] = "exited"

(* The functions a promotion goes through, and what its critical task says *)
(* of it.                                                                  *)
PromoteStages == {"ready", "entered", "calling", "in_call", "script_ok", "script_failed",
                  "checking", "promoting", "waiting", "leaving"}

Promotion ==
    \A w \in Taken :
        /\ task[w].stage \in {"script_ok", "script_failed", "checking", "promoting"}
               => task[w].kind = "promote"
        /\ task[w].kind = "promote" =>
               /\ task[w].stage \in PromoteStages
               /\ task[w].stage \in {"checking", "promoting", "waiting"}
                      => resp.result # None /\ ~resp.is_cancelled
               /\ task[w].stage # "leaving" => role # "primary"

(* A start or restart that the HA loop has called off, or whose postmaster *)
(* it has terminated.                                                      *)
Fenced(w) ==
    /\ Critically(w) => crit.is_cancelled \/ task[w].stage \in {"waiting", "leaving"}
    /\ task[w].kind = "promote" => task[w].stage = "leaving"

Fence ==
    /\ fenced => Taken # {}
    /\ fenced \/ pc[Main] = "demote" => \A w \in Taken : Fenced(w)
    /\ fenced => ~(up /\ datadir = "primary")
    /\ crit.result # None => Taken # {}
    /\ crit.result # None =>
           \A w \in Taken : Critically(w) => task[w].stage \in {"waiting", "leaving"}

(* Actions that start a replica have written its configuration by then.    *)
Standby ==
    \A w \in Taken :
        \/ task[w].kind = "follow" /\ task[w].stage \in {"launching", "waiting"}
        \/ task[w].kind = "reinitialize"
               /\ task[w].stage \in {"in_call", "starting", "launching", "waiting"}
        => datadir = "standby"

(* The inductive invariant.                                                *)
IInv == TypeOK /\ OneWorker /\ Flags /\ Promotion /\ Fence /\ Standby

-----------------------------------------------------------------------------
LEMMA Types == TypeOK <=> FlagTypes /\ DataTypes
  BY DEF TypeOK, FlagTypes, DataTypes, Critical, StartResults, ScriptResults

(* A step of a function moves its own worker, on or to its end, and leaves *)
(* the executor and the threads alone.                                     *)
LEMMA FunctionMoves ==
    ASSUME DataTypes, NEW w \in Workers, Function(w)
    PROVE  /\ w \in Running
           /\ \E to \in Stages \ {"free", "ready"} : Moves(w, to)
           /\ UNCHANGED <<executor, pc, locked, fenced>>
<1>1. CASE Begin(w)
  <2>1. FirstStage(task[w].kind) \in {"leaving", "calling", "stopping", "starting"}
    BY DEF FirstStage
  <2> QED BY <1>1, <2>1 DEF Begin, At, Running, Stages, executor
<1>2. CASE StopPostgres(w) \/ Call(w) \/ CallEnds(w) \/ CompleteScript(w)
  BY <1>2 DEF StopPostgres, Call, CallEnds, CompleteScript, At, Moves, Running, Stages, executor
<1>3. CASE CheckCancelled(w) \/ PgPromote(w) \/ Prepare(w) \/ Launch(w) \/ Wait(w)
  BY <1>3 DEF CheckCancelled, PgPromote, Prepare, Launch, Wait, At, Moves, Running, Stages, executor
<1> QED BY <1>1, <1>2, <1>3 DEF Function

(* What is scheduled goes to a worker that was free.                       *)
LEMMA Scheduled ==
    ASSUME NEW kind \in Kinds, DataTypes, OneWorker, ~Down, Schedule(kind)
    PROVE  /\ Taken = {}
           /\ action' = kind /\ cancelled' = FALSE /\ finished' = TRUE
           /\ \E w \in Workers : /\ Taken' = {w}
                                /\ task'[w] = [kind |-> kind, stage |-> "ready"]
<1>1. Taken = {}
  BY DEF OneWorker, Schedule, Unscheduled
<1>2. PICK w \in Workers : task' = [task EXCEPT ![w] = [kind |-> kind, stage |-> "ready"]]
  BY DEF Schedule
<1>3. task'[w] = [kind |-> kind, stage |-> "ready"] /\ Taken' = {w}
  BY <1>1, <1>2 DEF DataTypes, Taken
<1> QED BY <1>1, <1>3 DEF Schedule

(* Without forced requests only the main thread cancels.                   *)
LEMMA MainCancels ==
    ASSUME Flags, NEW t \in Threads, CancelStep(t)
    PROVE  t = Main
  BY DEF Flags, Threads, CancelStep, Cancel, Signal, Await, Unschedule

(* The worker that moves is the only one.                                  *)
LEMMA Alone ==
    ASSUME DataTypes, OneWorker, NEW w \in Taken, NEW to \in Stages \ {"free"}, Moves(w, to)
    PROVE  /\ Taken = {w} /\ Taken' = {w}
           /\ task'[w].kind = task[w].kind /\ task'[w].stage = to
  BY DEF DataTypes, OneWorker, Taken, Moves

(* No worker is left when the HA loop finds the executor idle.             *)
LEMMA NoneTaken ==
    ASSUME OneWorker, ~Busy, ~Down
    PROVE  Taken = {}
  BY DEF OneWorker, Busy

(* What complete and cancel do to a critical task.                         *)
LEMMA CriticalTypes ==
    ASSUME NEW results, NEW t \in Critical(results), NEW r \in results
    PROVE  Completed(t, r) \in Critical(results) /\ Abandoned(t) \in Critical(results)
<1>1. Completed(t, r) \in Critical(results)
  BY DEF Completed, Critical
<1>2. Abandoned(t) \in Critical(results)
  BY DEF Abandoned, Critical
<1> QED BY <1>1, <1>2

LEMMA CriticalTasks ==
    ASSUME NEW results, NEW t \in Critical(results), NEW r \in results
    PROVE  /\ Completed(t, r).result = r
           /\ Completed(t, r).is_cancelled <=> t.is_cancelled
           /\ Abandoned(t).result = t.result
           /\ Abandoned(t).is_cancelled
<1>1. Completed(t, r).result = r
  BY DEF Completed, Critical
<1>2. Completed(t, r).is_cancelled <=> t.is_cancelled
  BY DEF Completed, Critical
<1>3. Abandoned(t).result = t.result
  BY DEF Abandoned, Critical
<1>4. Abandoned(t).is_cancelled
  BY DEF Abandoned, Critical
<1> QED BY <1>1, <1>2, <1>3, <1>4

LEMMA FreshTask == Fresh \in Critical(StartResults) /\ Fresh \in Critical(ScriptResults)
  BY DEF Fresh, Critical, StartResults, ScriptResults

LEMMA Results ==
    /\ None \in StartResults /\ "postmaster" \in StartResults
    /\ None \in ScriptResults /\ "ok" \in ScriptResults /\ "failed" \in ScriptResults
  BY DEF StartResults, ScriptResults

-----------------------------------------------------------------------------
LEMMA FlagTypesKept ==
    ASSUME FlagTypes, DataTypes, Next
    PROVE  FlagTypes'
<1>1. ASSUME NEW w \in Workers, Enter(w) \/ Leave(w) PROVE FlagTypes'
  BY <1>1 DEF FlagTypes, Enter, Leave, Done, executor, postgres
<1>2. ASSUME NEW w \in Workers, Function(w) PROVE FlagTypes'
  BY <1>2 DEF FlagTypes, Function, Begin, StopPostgres, Call, CallEnds, CompleteScript, CheckCancelled,
              PgPromote, Prepare, Launch, Wait, executor, postgres
<1>3. ASSUME NEW t \in Threads, CancelStep(t) PROVE FlagTypes'
  BY <1>3 DEF FlagTypes, CancelStep, Cancel, Signal, Await, Unschedule, executor, postgres
<1>4. ASSUME NEW x \in Clients, CheckReinitialize(x) \/ Reinitialize(x) \/ Restart(x) PROVE FlagTypes'
  BY <1>4 DEF FlagTypes, CheckReinitialize, Reinitialize, Restart, TryRun, Schedule, executor, postgres
<1>5. CASE BeginCycle \/ BeginShutdown \/ StopAtShutdown \/ Crash
  BY <1>5 DEF FlagTypes, BeginCycle, BeginShutdown, StopAtShutdown, Crash, executor, postgres
<1>6. CASE LetGoOn \/ CallOffPromotion \/ Terminate \/ CallOffStart \/ StepDown \/ FollowLeader \/ GiveUpLock
  BY <1>6 DEF FlagTypes, LetGoOn, CallOffPromotion, Terminate, CallOffStart, StepDown, FollowLeader,
              GiveUpLock, executor, postgres
<1>7. CASE Demote \/ Recover \/ EnforcePrimaryRole
  BY <1>7 DEF FlagTypes, Demote, Recover, EnforcePrimaryRole, TryRun, Schedule, executor, postgres
<1> QED BY <1>1, <1>2, <1>3, <1>4, <1>5, <1>6, <1>7 DEF Next, Cycle

LEMMA DataTypesKept ==
    ASSUME DataTypes, Next
    PROVE  DataTypes'
<1> USE ExecutorAssumption
<1>1. ASSUME NEW w \in Workers, Enter(w) \/ Leave(w) PROVE DataTypes'
  <2>1. CASE Enter(w)
    BY <2>1 DEF DataTypes, Enter, Moves, Stages, critical, postgres
  <2>2. CASE Leave(w)
    BY <2>2, FreshTask DEF DataTypes, Leave, Done, Free, Stages, postgres
  <2> QED BY <1>1, <2>1, <2>2
<1>2. ASSUME NEW w \in Workers, Function(w) PROVE DataTypes'
  <2>1. task' \in [Workers -> [kind : Kinds \cup {None}, stage : Stages]]
    BY <1>2, FunctionMoves DEF DataTypes, Moves
  <2>2. UNCHANGED <<executor, pc, locked, fenced>>
    BY <1>2, FunctionMoves
  <2>3. /\ crit' \in Critical(StartResults)
        /\ resp' \in Critical(ScriptResults)
    <3>1. CASE CompleteScript(w)
      <4>1. /\ crit' = crit
            /\ \/ resp' = resp
               \/ resp' = Completed(resp, "ok")
               \/ resp' = Completed(resp, "failed")
        BY <3>1 DEF CompleteScript
      <4> QED BY <4>1, CriticalTypes, Results DEF DataTypes
    <3>2. CASE Launch(w)
      <4>1. /\ resp' = resp
            /\ crit' = crit \/ crit' = Completed(crit, "postmaster")
        BY <3>2 DEF Launch
      <4>2. crit \in Critical(StartResults) /\ resp \in Critical(ScriptResults)
        BY DEF DataTypes
      <4>3. Completed(crit, "postmaster") \in Critical(StartResults)
        BY <4>2, CriticalTypes, Results
      <4> QED BY <4>1, <4>2, <4>3
    <3>3. CASE ~CompleteScript(w) /\ ~Launch(w)
      BY <1>2, <3>3 DEF DataTypes, Function, Begin, StopPostgres, Call, CallEnds, CheckCancelled,
                        PgPromote, Prepare, Wait, critical
    <3> QED BY <3>1, <3>2, <3>3
  <2>4. /\ role' \in {"replica", "promoted", "primary", "demoted"}
        /\ datadir' \in {"standby", "primary"}
    BY <1>2 DEF DataTypes, Function, Begin, StopPostgres, Call, CallEnds, CompleteScript, CheckCancelled,
                PgPromote, Prepare, Launch, Wait, postgres
  <2> QED BY <2>1, <2>2, <2>3, <2>4 DEF DataTypes, executor
<1>3. ASSUME NEW t \in Threads, CancelStep(t) PROVE DataTypes'
  BY <1>3 DEF DataTypes, CancelStep, Cancel, Signal, Await, Unschedule, AfterCancel, Goes, Pcs,
              executor, critical, postgres
<1>4. ASSUME NEW kind \in Kinds, Schedule(kind)
      PROVE /\ action' \in Kinds \cup {None}
            /\ task' \in [Workers -> [kind : Kinds \cup {None}, stage : Stages]]
  BY <1>4 DEF DataTypes, Schedule, Stages
<1>5. ASSUME NEW kind \in Kinds, TryRun(kind)
      PROVE /\ action' \in Kinds \cup {None}
            /\ task' \in [Workers -> [kind : Kinds \cup {None}, stage : Stages]]
  BY <1>4, <1>5 DEF DataTypes, TryRun, executor
<1>6. ASSUME NEW x \in Clients, CheckReinitialize(x) \/ Reinitialize(x) \/ Restart(x) PROVE DataTypes'
  BY <1>4, <1>5, <1>6 DEF DataTypes, CheckReinitialize, Reinitialize, Restart, Goes, Pcs, Kinds,
              Threads, executor, critical, postgres
<1>7. CASE BeginCycle \/ BeginShutdown \/ StopAtShutdown \/ Crash
  BY <1>7 DEF DataTypes, BeginCycle, BeginShutdown, StopAtShutdown, Crash, Goes, Pcs, Threads,
              executor, critical, postgres
<1>8. CASE LetGoOn \/ CallOffPromotion \/ Terminate \/ CallOffStart \/ StepDown \/ FollowLeader \/ GiveUpLock
  <2>1. CASE CallOffPromotion
    BY <2>1, CriticalTypes, Results DEF DataTypes, CallOffPromotion, Goes, Pcs, Threads, executor, postgres
  <2>2. CASE CallOffStart
    <3>1. /\ crit' = crit \/ crit' = Abandoned(crit)
          /\ Goes(Main, "demote") /\ UNCHANGED <<action, resp, task, role, datadir>>
      BY <2>2 DEF CallOffStart, executor
    <3>2. crit' \in Critical(StartResults)
      BY <3>1, CriticalTypes, Results DEF DataTypes
    <3> QED BY <3>1, <3>2 DEF DataTypes, Goes, Pcs, Threads
  <2>3. CASE GiveUpLock
    BY <2>3, FreshTask DEF DataTypes, GiveUpLock, EndCycle, Goes, Pcs, Threads, executor, postgres
  <2>4. CASE LetGoOn \/ Terminate \/ StepDown \/ FollowLeader
    BY <2>4 DEF DataTypes, LetGoOn, Terminate, StepDown, FollowLeader, EndCycle, Goes, Pcs, Threads,
                executor, critical, postgres
  <2> QED BY <1>8, <2>1, <2>2, <2>3, <2>4
<1>9. CASE Demote \/ Recover \/ EnforcePrimaryRole
  <2>1. CASE Demote
    BY <1>5, <2>1 DEF DataTypes, Demote, EndCycle, Goes, Pcs, Kinds, Threads, critical
  <2>2. CASE Recover
    BY <1>4, <2>2 DEF DataTypes, Recover, EndCycle, Goes, Pcs, Kinds, Threads, critical, postgres
  <2>3. CASE EnforcePrimaryRole
    <3>1. /\ \/ UNCHANGED <<action, resp, task>>
             \/ resp' = Fresh /\ Schedule("promote")
          /\ role' = "primary" \/ role' = role
          /\ Goes(Main, "idle") /\ UNCHANGED <<crit, datadir>>
      BY <2>3 DEF EnforcePrimaryRole, EndCycle, executor
    <3>2. UNCHANGED <<action, task>> \/ Schedule("promote")
      BY <3>1
    <3>3. resp' \in Critical(ScriptResults)
      BY <3>1, FreshTask DEF DataTypes
    <3> QED BY <1>4, <3>1, <3>2, <3>3 DEF DataTypes, Goes, Pcs, Kinds, Threads
  <2> QED BY <1>9, <2>1, <2>2, <2>3
<1> QED BY <1>1, <1>2, <1>3, <1>6, <1>7, <1>8, <1>9 DEF Next, Cycle

LEMMA OneWorkerKept ==
    ASSUME DataTypes, OneWorker, Flags, Next
    PROVE  OneWorker'
<1> USE ExecutorAssumption
<1>1. ASSUME NEW w \in Workers, Enter(w) PROVE OneWorker'
  BY <1>1 DEF DataTypes, OneWorker, Taken, Down, Busy, Enter, At, Moves, Stages
<1>2. ASSUME NEW w \in Workers, Function(w) PROVE OneWorker'
  <2>1. PICK to \in Stages \ {"free", "ready"} : Moves(w, to)
    BY <1>2, FunctionMoves
  <2>2. w \in Taken /\ UNCHANGED <<action, pc>>
    BY <1>2, FunctionMoves DEF Running, Taken, executor
  <2> QED BY <2>1, <2>2 DEF DataTypes, OneWorker, Taken, Down, Busy, Moves
<1>3. ASSUME NEW w \in Workers, Leave(w) PROVE OneWorker'
  <2>1. Taken' = {}
    BY <1>3 DEF DataTypes, OneWorker, Taken, Leave, At, Free
  <2> QED BY <1>3, <2>1 DEF OneWorker, Leave, Done, Busy
<1>4. ASSUME NEW t \in Threads, CancelStep(t) PROVE OneWorker'
  <2>1. t = Main
    BY <1>4, MainCancels
  <2> QED BY <1>4, <2>1 DEF DataTypes, OneWorker, Taken, Down, Busy, Threads, CancelStep, Cancel, Signal,
                            Await, Unschedule, AfterCancel, Goes, executor, critical, postgres
<1>5. ASSUME NEW kind \in Kinds, ~Down, Schedule(kind) PROVE OneWorker'
  <2>1. PICK w \in Workers : Taken' = {w} /\ task'[w] = [kind |-> kind, stage |-> "ready"]
    BY <1>5, Scheduled
  <2>2. action' = kind /\ kind # None
    BY <1>5, Scheduled DEF Kinds
  <2> QED BY <2>1, <2>2 DEF OneWorker, Busy
<1>6. ASSUME NEW x \in Clients, CheckReinitialize(x) \/ Reinitialize(x) \/ Restart(x) PROVE OneWorker'
  <2>1. ~Down
    BY <1>6 DEF Flags, Down, ShuttingDown, CheckReinitialize, Reinitialize, Restart
  <2>2. Main # x
    BY DEF Threads
  <2> QED BY <1>5, <1>6, <2>1, <2>2 DEF DataTypes, OneWorker, Taken, Down, Busy, Threads, CheckReinitialize,
        Reinitialize, Restart, TryRun, Goes, Kinds, executor
<1>7. CASE BeginCycle \/ BeginShutdown \/ StopAtShutdown \/ Crash
  BY <1>7 DEF DataTypes, OneWorker, Taken, Down, Busy, BeginCycle, BeginShutdown, StopAtShutdown, Crash,
              Goes, Threads, executor
<1>8. CASE LetGoOn \/ CallOffPromotion \/ Terminate \/ CallOffStart \/ StepDown \/ FollowLeader \/ GiveUpLock
  BY <1>8 DEF DataTypes, OneWorker, Taken, Down, Busy, LetGoOn, CallOffPromotion, Terminate, CallOffStart,
              StepDown, FollowLeader, GiveUpLock, EndCycle, Goes, Threads, executor
<1>9. CASE Demote \/ Recover \/ EnforcePrimaryRole
  BY <1>5, <1>9 DEF DataTypes, OneWorker, Taken, Down, Busy, Demote, Recover, EnforcePrimaryRole, TryRun,
                    EndCycle, Goes, Threads, Kinds, executor
<1> QED BY <1>1, <1>2, <1>3, <1>4, <1>6, <1>7, <1>8, <1>9 DEF Next, Cycle

LEMMA FlagsKept ==
    ASSUME DataTypes, OneWorker, Flags, Next, TRUE \notin Forces
    PROVE  Flags'
<1> USE ExecutorAssumption
<1>1. ASSUME NEW w \in Workers, Enter(w) PROVE Flags'
  <2>1. w \in Taken /\ w \notin Running
    BY <1>1 DEF Enter, At, Taken, Running
  <2>2. UNCHANGED <<cancelled, pc>>
    BY <1>1 DEF Enter
  <2>3. CASE cancelled
    <3>1. Running' = Running /\ Taken' = Taken /\ finished' = finished
      BY <1>1, <2>1, <2>3 DEF DataTypes, Enter, Moves, Running, Taken
    <3> QED BY <2>2, <3>1 DEF Flags, Down, ShuttingDown
  <2>4. CASE ~cancelled
    <3>1. pc[Main] \notin {"signal", "await", "unschedule"} /\ ~Down
      BY <2>1, <2>4 DEF Flags
    <3>2. finished' = FALSE
      BY <1>1, <2>4 DEF Enter
    <3> QED BY <2>2, <3>1, <3>2 DEF Flags, Down, ShuttingDown
  <2> QED BY <2>3, <2>4
<1>2. ASSUME NEW w \in Workers, Function(w) PROVE Flags'
  <2>1. PICK to \in Stages \ {"free", "ready"} : Moves(w, to)
    BY <1>2, FunctionMoves
  <2>2. w \in Running /\ UNCHANGED <<cancelled, finished, pc>>
    BY <1>2, FunctionMoves DEF executor
  <2>3. Taken' = Taken
    BY <2>1, <2>2 DEF DataTypes, Moves, Taken, Running
  <2> QED BY <2>2, <2>3 DEF Flags, Down, ShuttingDown
<1>3. ASSUME NEW w \in Workers, Leave(w) PROVE Flags'
  <2>1. Taken' = {}
    BY <1>3 DEF DataTypes, OneWorker, Taken, Leave, At, Free
  <2>2. Running' = {}
    BY <2>1 DEF Running, Taken
  <2>3. UNCHANGED <<cancelled, pc>>
    BY <1>3 DEF Leave
  <2> QED BY <2>1, <2>2, <2>3 DEF Flags, Down, ShuttingDown
<1>4. ASSUME NEW t \in Threads, CancelStep(t) PROVE Flags'
  <2>1. t = Main
    BY <1>4, MainCancels
  <2>2. UNCHANGED <<task, finished>>
    BY <1>4 DEF CancelStep, Cancel, Signal, Await, Unschedule, executor
  <2>3. Running' = Running /\ Taken' = Taken
    BY <2>2 DEF Running, Taken
  <2>4. \A x \in Clients : x # Main /\ x \in Threads
    BY DEF Threads
  <2>5. CASE Cancel(t)
    <3>1. CASE Busy
      BY <2>1, <2>2, <2>3, <2>4, <2>5, <3>1 DEF DataTypes, Flags, Down, ShuttingDown, Cancel, Goes, Threads
    <3>2. CASE ~Busy
      <4>1. Taken = {} /\ Running = {}
        BY <2>1, <2>5, <3>2 DEF OneWorker, Busy, Cancel, Down, Taken, Running
      <4>2. UNCHANGED cancelled /\ pc' = [pc EXCEPT ![Main] = "stopping"]
        BY <2>1, <2>5, <3>2 DEF Cancel, Goes, AfterCancel
      <4> QED BY <2>1, <2>2, <2>3, <2>4, <2>5, <4>1, <4>2 DEF DataTypes, Flags, Down, ShuttingDown, Cancel, Threads
    <3> QED BY <3>1, <3>2
  <2>6. CASE Signal(t) \/ Await(t)
    BY <2>1, <2>2, <2>3, <2>4, <2>6 DEF DataTypes, Flags, Down, ShuttingDown, Signal, Await, Finished,
                                        Goes, Threads, executor
  <2>7. CASE Unschedule(t)
    BY <2>1, <2>2, <2>3, <2>4, <2>7 DEF DataTypes, Flags, Down, ShuttingDown, Unschedule, AfterCancel,
                                        Goes, Threads
  <2> QED BY <1>4, <2>5, <2>6, <2>7 DEF CancelStep
<1>5. ASSUME NEW kind \in Kinds, ~ShuttingDown, Schedule(kind)
      PROVE Running' = {} /\ finished' = TRUE
  <2>1. PICK w \in Workers : Taken' = {w} /\ task'[w] = [kind |-> kind, stage |-> "ready"]
    BY <1>5, Scheduled DEF Down, ShuttingDown
  <2>2. Running' = {}
    BY <2>1 DEF Taken, Running
  <2> QED BY <2>2, <1>5 DEF Schedule
<1>6. ASSUME NEW x \in Clients, CheckReinitialize(x) \/ Reinitialize(x) \/ Restart(x) PROVE Flags'
  <2>1. ~ShuttingDown
    BY <1>6 DEF Flags, CheckReinitialize, Reinitialize, Restart
  <2>2. x # Main /\ x \in Threads
    BY DEF Threads
  <2>3. UNCHANGED pc \/ pc' = [pc EXCEPT ![x] = "checked"] \/ pc' = [pc EXCEPT ![x] = "idle"]
    BY <1>6 DEF CheckReinitialize, Reinitialize, Restart, Goes
  <2>4. pc'[Main] = pc[Main] /\ \A y \in Clients : pc'[y] \in {"idle", "checked", "exited"}
    BY <2>2, <2>3 DEF Flags, DataTypes, Threads
  <2>5. UNCHANGED <<finished, task>> \/ (Running' = {} /\ finished' = TRUE)
    BY <1>5, <1>6, <2>1 DEF CheckReinitialize, Reinitialize, Restart, TryRun, Kinds, executor
  <2>6. finished' => Running' = {}
    BY <2>5 DEF Flags, Running
  <2> QED BY <2>1, <2>4, <2>6 DEF Flags, Down, ShuttingDown
<1>7. CASE BeginCycle \/ Crash
  BY <1>7 DEF DataTypes, Flags, Running, Taken, Down, ShuttingDown, BeginCycle, Crash, Goes, Threads, executor
<1>8. CASE BeginShutdown
  BY <1>8 DEF DataTypes, Flags, Running, Taken, Down, ShuttingDown, BeginShutdown, Threads, executor
<1>9. CASE StopAtShutdown
  BY <1>9 DEF DataTypes, Flags, Running, Taken, Down, ShuttingDown, StopAtShutdown, Goes, Threads, executor
<1>10. CASE Cycle
  <2>1. ~ShuttingDown
    BY <1>10 DEF ShuttingDown, Cycle, LetGoOn, CallOffPromotion, Terminate, CallOffStart, Demote, Recover,
                 StepDown, FollowLeader, GiveUpLock, EnforcePrimaryRole
  <2>2. \E to \in {"idle", "terminate", "demote"} : Goes(Main, to)
    BY <1>10 DEF Cycle, LetGoOn, CallOffPromotion, Terminate, CallOffStart, Demote, Recover,
                 StepDown, FollowLeader, GiveUpLock, EnforcePrimaryRole, EndCycle
  <2>3. /\ pc'[Main] \in {"idle", "terminate", "demote"}
        /\ \A x \in Clients : pc'[x] = pc[x]
    BY <2>2 DEF DataTypes, Goes, Threads
  <2>4. UNCHANGED <<finished, task>> \/ (Running' = {} /\ finished' = TRUE)
    BY <1>5, <1>10, <2>1 DEF Cycle, LetGoOn, CallOffPromotion, Terminate, CallOffStart, Demote, Recover,
                 StepDown, FollowLeader, GiveUpLock, EnforcePrimaryRole, TryRun, Kinds, executor
  <2>5. finished' => Running' = {}
    BY <2>4 DEF Flags, Running
  <2> QED BY <2>3, <2>5 DEF Flags, Down, ShuttingDown
<1> QED BY <1>1, <1>2, <1>3, <1>4, <1>6, <1>7, <1>8, <1>9, <1>10 DEF Next

LEMMA PromotionKept ==
    ASSUME DataTypes, OneWorker, Flags, Promotion, Next
    PROVE  Promotion'
<1> USE ExecutorAssumption
<1>1. ASSUME NEW w \in Workers, Enter(w) PROVE Promotion'
  <2>1. w \in Taken
    BY <1>1 DEF Enter, At, Taken
  <2>2. PICK to \in {"entered", "leaving"} : Moves(w, to)
    BY <1>1 DEF Enter
  <2>3. /\ Taken' = {w} /\ task'[w].kind = task[w].kind /\ task'[w].stage = to
        /\ task[w].stage = "ready" /\ UNCHANGED <<resp, role>>
    BY <1>1, <2>1, <2>2, Alone DEF Stages, Enter, At, critical, postgres
  <2> QED BY <2>1, <2>3 DEF Promotion, PromoteStages
<1>2. ASSUME NEW w \in Workers, Function(w) PROVE Promotion'
  <2>1. w \in Taken
    BY <1>2, FunctionMoves DEF Running, Taken
  <2>2. CASE Begin(w)
    <3>1. /\ Moves(w, FirstStage(task[w].kind)) /\ task[w].stage = "entered"
          /\ FirstStage(task[w].kind) \in Stages \ {"free"} /\ UNCHANGED <<resp, role>>
      BY <2>2 DEF Begin, At, FirstStage, Stages, critical, postgres
    <3>2. Taken' = {w} /\ task'[w].kind = task[w].kind /\ task'[w].stage = FirstStage(task[w].kind)
      BY <2>1, <3>1, Alone
    <3> QED BY <2>1, <3>1, <3>2 DEF Promotion, PromoteStages, FirstStage
  <2>3. CASE StopPostgres(w) \/ Call(w) \/ CallEnds(w)
    <3>1. PICK to \in {"starting", "calling", "leaving", "in_call", "script_ok", "script_failed"} :
            /\ Moves(w, to) /\ UNCHANGED <<resp, role>>
            /\ task[w].stage \in {"stopping", "calling", "in_call"}
            /\ task[w].stage = "calling" =>
                  to \in {"leaving", "in_call"} \/ (task[w].kind = "promote" /\ to = "script_ok")
            /\ task[w].stage = "in_call" =>
                  to \in IF task[w].kind = "promote" THEN {"script_ok", "script_failed"}
                                                     ELSE {"starting", "leaving"}
            /\ task[w].stage = "stopping" => to \in {"starting", "calling", "leaving"}
      BY <2>3 DEF StopPostgres, Call, CallEnds, At, critical, postgres
    <3>2. Taken' = {w} /\ task'[w].kind = task[w].kind /\ task'[w].stage = to
      BY <2>1, <3>1, Alone DEF Stages
    <3> QED BY <2>1, <3>1, <3>2 DEF Promotion, PromoteStages
  <2>4. CASE CompleteScript(w)
    <3>1. PICK to \in {"leaving", "checking"} :
            /\ Moves(w, to) /\ UNCHANGED role
            /\ task[w].stage \in {"script_ok", "script_failed"}
            /\ to = "checking" => ~resp.is_cancelled /\ resp' = Completed(resp, "ok")
      BY <2>4 DEF CompleteScript, CalledOff, At, postgres
    <3>2. Taken' = {w} /\ task'[w].kind = task[w].kind /\ task'[w].stage = to
      BY <2>1, <3>1, Alone DEF Stages
    <3>3. resp \in Critical(ScriptResults)
      BY DEF DataTypes
    <3>4. to = "checking" => resp'.result = "ok"
      BY <3>1, <3>3, CriticalTasks, Results
    <3>5. to = "checking" => ~resp'.is_cancelled
      BY <3>1, <3>3, CriticalTasks, Results
    <3> QED BY <2>1, <3>1, <3>2, <3>4, <3>5 DEF Promotion, PromoteStages
  <2>5. CASE CheckCancelled(w) \/ PgPromote(w)
    <3>1. PICK to \in {"leaving", "promoting", "waiting"} :
            /\ Moves(w, to) /\ UNCHANGED resp /\ role' \in {role, "promoted"}
            /\ task[w].stage \in {"checking", "promoting"}
      BY <2>5 DEF CheckCancelled, PgPromote, At, critical, postgres
    <3>2. Taken' = {w} /\ task'[w].kind = task[w].kind /\ task'[w].stage = to
      BY <2>1, <3>1, Alone DEF Stages
    <3> QED BY <2>1, <3>1, <3>2 DEF Promotion, PromoteStages
  <2>6. CASE Prepare(w) \/ Launch(w) \/ Wait(w)
    <3>1. PICK to \in {"leaving", "launching", "waiting"} :
            /\ Moves(w, to) /\ UNCHANGED resp
            /\ task[w].stage \in {"starting", "launching", "waiting"}
            /\ task[w].stage = "waiting" => to = "leaving"
      BY <2>6 DEF Prepare, Launch, Wait, At, critical
    <3>2. Taken' = {w} /\ task'[w].kind = task[w].kind /\ task'[w].stage = to
      BY <2>1, <3>1, Alone DEF Stages
    <3> QED BY <2>1, <3>1, <3>2 DEF Promotion, PromoteStages
  <2> QED BY <1>2, <2>2, <2>3, <2>4, <2>5, <2>6 DEF Function
<1>3. ASSUME NEW w \in Workers, Leave(w) PROVE Promotion'
  <2>1. Taken' = {}
    BY <1>3 DEF DataTypes, OneWorker, Taken, Leave, At, Free
  <2> QED BY <2>1 DEF Promotion
<1>4. CASE UNCHANGED <<task, resp, role>>
  BY <1>4 DEF Promotion, Taken
<1>5. ASSUME NEW kind \in Kinds, ~Down, Schedule(kind), kind = "promote" => role' # "primary"
      PROVE Promotion'
  <2>1. PICK w \in Workers : Taken' = {w} /\ task'[w] = [kind |-> kind, stage |-> "ready"]
    BY <1>5, Scheduled
  <2> QED BY <1>5, <2>1 DEF Promotion, PromoteStages
<1>6. ASSUME NEW t \in Threads, CancelStep(t) PROVE Promotion'
  BY <1>4, <1>6 DEF CancelStep, Cancel, Signal, Await, Unschedule, critical, postgres
<1>7. ASSUME NEW x \in Clients, CheckReinitialize(x) \/ Reinitialize(x) \/ Restart(x) PROVE Promotion'
  <2>1. ~Down
    BY <1>7 DEF Flags, Down, ShuttingDown, CheckReinitialize, Reinitialize, Restart
  <2>2. UNCHANGED <<task, resp, role>> \/ Schedule("restart") \/ Schedule("reinitialize")
    BY <1>7 DEF CheckReinitialize, Reinitialize, Restart, TryRun, critical, postgres
  <2> QED BY <1>4, <1>5, <2>1, <2>2 DEF Kinds
<1>8. CASE BeginCycle \/ BeginShutdown \/ StopAtShutdown \/ Crash
  BY <1>4, <1>8 DEF BeginCycle, BeginShutdown, StopAtShutdown, Crash, critical, postgres
<1>9. CASE LetGoOn \/ Terminate \/ CallOffStart \/ StepDown \/ FollowLeader
  BY <1>4, <1>9 DEF LetGoOn, Terminate, CallOffStart, StepDown, FollowLeader, critical, postgres
<1>10. CASE CallOffPromotion
  <2>1. resp.result = None /\ UNCHANGED <<task, role>>
    BY <1>10 DEF CallOffPromotion, postgres
  <2>2. Taken' = Taken
    BY <2>1 DEF Taken
  <2> QED BY <2>1, <2>2 DEF Promotion
<1>11. CASE GiveUpLock
  <2>1. Taken' = {}
    BY <1>11, NoneTaken DEF GiveUpLock, Down, Taken
  <2> QED BY <2>1 DEF Promotion
<1>12. CASE Recover
  <2>1. ~Down /\ (Schedule("start") \/ Schedule("follow"))
    BY <1>12 DEF Recover, Down
  <2> QED BY <1>5, <2>1 DEF Kinds
<1>13. CASE Demote
  <2>1. ~Down /\ role' = "demoted" /\ UNCHANGED resp
    BY <1>13 DEF Demote, Down, critical
  <2>2. CASE Schedule("follow")
    BY <1>5, <2>1, <2>2 DEF Kinds
  <2>3. CASE UNCHANGED task
    BY <2>1, <2>3 DEF Promotion, Taken
  <2> QED BY <1>13, <2>2, <2>3 DEF Demote, TryRun
<1>14. CASE EnforcePrimaryRole
  <2>1. ~Down /\ Taken = {}
    BY <1>14, NoneTaken DEF EnforcePrimaryRole, Down
  <2>2. \/ UNCHANGED task
        \/ role \notin {"promoted", "primary"} /\ role' = role /\ Schedule("promote")
    BY <1>14 DEF EnforcePrimaryRole
  <2>3. CASE UNCHANGED task
    BY <2>1, <2>3 DEF Promotion, Taken
  <2> QED BY <1>5, <2>1, <2>2, <2>3 DEF Kinds
<1> QED BY <1>1, <1>2, <1>3, <1>6, <1>7, <1>8, <1>9, <1>10, <1>11, <1>12, <1>13, <1>14 DEF Next, Cycle

LEMMA StandbyKept ==
    ASSUME DataTypes, OneWorker, Flags, Promotion, Standby, Next
    PROVE  Standby'
<1> USE ExecutorAssumption
<1>1. ASSUME NEW w \in Workers, Enter(w) PROVE Standby'
  <2>1. w \in Taken
    BY <1>1 DEF Enter, At, Taken
  <2>2. PICK to \in {"entered", "leaving"} : Moves(w, to)
    BY <1>1 DEF Enter
  <2>3. Taken' = {w} /\ task'[w].stage = to
    BY <2>1, <2>2, Alone DEF Stages
  <2> QED BY <2>3 DEF Standby
<1>2. ASSUME NEW w \in Workers, Function(w) PROVE Standby'
  <2>1. w \in Taken
    BY <1>2, FunctionMoves DEF Running, Taken
  <2>2. CASE Begin(w)
    <3>1. /\ Moves(w, FirstStage(task[w].kind)) /\ task[w].stage = "entered"
          /\ FirstStage(task[w].kind) \in Stages \ {"free"}
      BY <2>2 DEF Begin, At, FirstStage, Stages
    <3>2. Taken' = {w} /\ task'[w].kind = task[w].kind /\ task'[w].stage = FirstStage(task[w].kind)
      BY <2>1, <3>1, Alone
    <3> QED BY <3>2 DEF Standby, FirstStage
  <2>3. CASE StopPostgres(w) \/ CallEnds(w)
    <3>1. PICK to \in {"starting", "calling", "leaving", "script_ok", "script_failed"} :
            /\ Moves(w, to) /\ UNCHANGED datadir
            /\ task[w].stage \in {"stopping", "in_call"}
            /\ task[w].stage = "stopping" /\ task[w].kind = "reinitialize" => to # "starting"
      BY <2>3 DEF StopPostgres, CallEnds, At, postgres
    <3>2. Taken' = {w} /\ task'[w].kind = task[w].kind /\ task'[w].stage = to
      BY <2>1, <3>1, Alone DEF Stages
    <3> QED BY <2>1, <3>1, <3>2 DEF Standby
  <2>4. CASE Call(w)
    <3>1. PICK to \in {"leaving", "in_call", "script_ok"} :
            Moves(w, to) /\ (task[w].kind = "reinitialize" => datadir' = "standby")
      BY <2>4 DEF Call
    <3>2. Taken' = {w} /\ task'[w].kind = task[w].kind /\ task'[w].stage = to
      BY <2>1, <3>1, Alone DEF Stages
    <3> QED BY <3>1, <3>2 DEF Standby
  <2>5. CASE CompleteScript(w) \/ CheckCancelled(w) \/ PgPromote(w)
    <3>1. PICK to \in {"leaving", "checking", "promoting", "waiting"} :
            Moves(w, to) /\ task[w].stage \in {"script_ok", "script_failed", "checking", "promoting"}
      BY <2>5 DEF CompleteScript, CheckCancelled, PgPromote, At
    <3>2. Taken' = {w} /\ task'[w].kind = task[w].kind /\ task'[w].stage = to
      BY <2>1, <3>1, Alone DEF Stages
    <3>3. task[w].kind = "promote"
      BY <2>1, <3>1 DEF Promotion
    <3> QED BY <3>2, <3>3 DEF Standby
  <2>6. CASE Prepare(w) \/ Launch(w) \/ Wait(w)
    <3>1. PICK to \in {"leaving", "launching", "waiting"} :
            /\ Moves(w, to) /\ task[w].stage \in {"starting", "launching", "waiting"}
            /\ task[w].stage = "starting" /\ task[w].kind = "follow" => datadir' = "standby"
            /\ ~(task[w].stage = "starting" /\ task[w].kind = "follow") => datadir' = datadir
      BY <2>6 DEF Prepare, Launch, Wait, At, postgres
    <3>2. Taken' = {w} /\ task'[w].kind = task[w].kind /\ task'[w].stage = to
      BY <2>1, <3>1, Alone DEF Stages
    <3> QED BY <2>1, <3>1, <3>2 DEF Standby
  <2> QED BY <1>2, <2>2, <2>3, <2>4, <2>5, <2>6 DEF Function
<1>3. ASSUME NEW w \in Workers, Leave(w) PROVE Standby'
  <2>1. Taken' = {}
    BY <1>3 DEF DataTypes, OneWorker, Taken, Leave, At, Free
  <2> QED BY <2>1 DEF Standby
<1>4. CASE UNCHANGED <<task, datadir>>
  BY <1>4 DEF Standby, Taken
<1>5. ASSUME NEW kind \in Kinds, ~Down, Schedule(kind) PROVE Standby'
  <2>1. PICK w \in Workers : Taken' = {w} /\ task'[w] = [kind |-> kind, stage |-> "ready"]
    BY <1>5, Scheduled
  <2> QED BY <2>1 DEF Standby
<1>6. ASSUME NEW t \in Threads, CancelStep(t) PROVE Standby'
  BY <1>4, <1>6 DEF CancelStep, Cancel, Signal, Await, Unschedule, postgres
<1>7. ASSUME NEW x \in Clients, CheckReinitialize(x) \/ Reinitialize(x) \/ Restart(x) PROVE Standby'
  <2>1. ~Down
    BY <1>7 DEF Flags, Down, ShuttingDown, CheckReinitialize, Reinitialize, Restart
  <2>2. UNCHANGED <<task, datadir>> \/ Schedule("restart") \/ Schedule("reinitialize")
    BY <1>7 DEF CheckReinitialize, Reinitialize, Restart, TryRun, postgres
  <2> QED BY <1>4, <1>5, <2>1, <2>2 DEF Kinds
<1>8. CASE BeginCycle \/ BeginShutdown \/ StopAtShutdown \/ Crash
  BY <1>4, <1>8 DEF BeginCycle, BeginShutdown, StopAtShutdown, Crash, postgres
<1>9. CASE Cycle
  <2>1. ~Down
    BY <1>9 DEF Down, Cycle, LetGoOn, CallOffPromotion, Terminate, CallOffStart, Demote, Recover,
                 StepDown, FollowLeader, GiveUpLock, EnforcePrimaryRole
  <2>2. UNCHANGED <<task, datadir>> \/ \E kind \in {"start", "follow", "promote"} : Schedule(kind)
    BY <1>9 DEF Cycle, LetGoOn, CallOffPromotion, Terminate, CallOffStart, Demote, Recover,
                 StepDown, FollowLeader, GiveUpLock, EnforcePrimaryRole, TryRun, executor, postgres
  <2> QED BY <1>4, <1>5, <2>1, <2>2 DEF Kinds
<1> QED BY <1>1, <1>2, <1>3, <1>6, <1>7, <1>8, <1>9 DEF Next

LEMMA FenceKept ==
    ASSUME DataTypes, OneWorker, Flags, Promotion, Fence, Standby, Next
    PROVE  Fence'
<1> USE ExecutorAssumption
<1>1. ASSUME NEW w \in Taken, NEW to \in Stages \ {"free"}, Moves(w, to),
             UNCHANGED <<crit, fenced, pc>>,
             task[w].stage \in {"waiting", "leaving"} => to = "leaving",
             fenced => ~(up /\ datadir = "primary")'
      PROVE Fence'
  <2>1. Taken = {w} /\ Taken' = {w} /\ task'[w].kind = task[w].kind /\ task'[w].stage = to
    BY <1>1, Alone
  <2>2. /\ fenced \/ pc[Main] = "demote" => Fenced(w)'
        /\ crit.result # None => (Critically(w)' => to \in {"waiting", "leaving"})
    BY <1>1, <2>1 DEF Fence, Fenced, Critically
  <2>3. /\ (fenced \/ pc[Main] = "demote")' => \A v \in Taken' : Fenced(v)'
        /\ crit'.result # None => \A v \in Taken' : Critically(v)' => task'[v].stage \in {"waiting", "leaving"}
    BY <1>1, <2>1, <2>2
  <2> QED BY <1>1, <2>1, <2>3 DEF Fence
<1>2. ASSUME NEW w \in Workers, Enter(w) PROVE Fence'
  <2>1. w \in Taken /\ task[w].stage = "ready" /\ UNCHANGED <<crit, fenced, pc, up, datadir>>
    BY <1>2 DEF Enter, At, Taken, critical, postgres
  <2>2. PICK to \in {"entered", "leaving"} : Moves(w, to)
    BY <1>2 DEF Enter
  <2> QED BY <1>1, <2>1, <2>2 DEF Stages, Fence
<1>3. ASSUME NEW w \in Workers, Function(w) PROVE Fence'
  <2>1. w \in Taken
    BY <1>3, FunctionMoves DEF Running, Taken
  <2>2. PICK to \in Stages \ {"free", "ready"} : Moves(w, to)
    BY <1>3, FunctionMoves
  <2>3. UNCHANGED <<fenced, pc>>
    BY <1>3, FunctionMoves
  <2>4. task'[w].stage = to
    BY <2>1, <2>2, Alone
  <2>5. CASE Begin(w) \/ Call(w) \/ CallEnds(w) \/ CompleteScript(w) \/ CheckCancelled(w) \/ StopPostgres(w)
    <3>1. /\ UNCHANGED crit /\ task[w].stage \notin {"waiting", "leaving"}
          /\ up' = up \/ up' = FALSE
          /\ datadir' = datadir \/ datadir' = "standby"
      BY <2>5 DEF Begin, Call, CallEnds, CompleteScript, CheckCancelled, StopPostgres, At, critical, postgres
    <3>2. fenced => ~(up /\ datadir = "primary")'
      BY <3>1 DEF Fence
    <3> QED BY <1>1, <2>1, <2>2, <2>3, <3>1, <3>2
  <2>6. CASE PgPromote(w)
    <3>1. UNCHANGED crit /\ task[w].stage = "promoting"
      BY <2>6 DEF PgPromote, At, critical
    <3>2. ~fenced
      BY <2>1, <3>1 DEF Fence, Fenced, Promotion
    <3> QED BY <1>1, <2>1, <2>2, <2>3, <3>1, <3>2
  <2>7. CASE Prepare(w)
    <3>1. /\ UNCHANGED <<crit, up>> /\ task[w].stage = "starting"
          /\ datadir' = datadir \/ datadir' = "standby"
      BY <2>7 DEF Prepare, At, critical
    <3>2. fenced => ~(up /\ datadir = "primary")'
      BY <3>1 DEF Fence
    <3> QED BY <1>1, <2>1, <2>2, <2>3, <3>1, <3>2
  <2>8. CASE Wait(w)
    <3>1. UNCHANGED <<crit, up, datadir>> /\ task[w].stage = "waiting" /\ Moves(w, "leaving")
      BY <2>8 DEF Wait, At, critical
    <3>2. fenced => ~(up /\ datadir = "primary")'
      BY <3>1 DEF Fence
    <3> QED BY <1>1, <2>1, <2>3, <3>1, <3>2 DEF Stages
  <2>9. CASE Launch(w)
    <3>1. UNCHANGED datadir /\ task[w].stage = "launching"
      BY <2>9 DEF Launch, At
    <3>2. CASE Moves(w, "leaving") /\ UNCHANGED <<crit, up>>
      <4>1. fenced => ~(up /\ datadir = "primary")'
        BY <3>1, <3>2 DEF Fence
      <4> QED BY <1>1, <2>1, <2>3, <3>1, <3>2, <4>1 DEF Stages
    <3>3. CASE /\ ~(Critically(w) /\ CalledOff(crit)) /\ Moves(w, "waiting")
               /\ crit' = IF Critically(w) THEN Completed(crit, "postmaster") ELSE crit
      <4>1. Taken' = {w} /\ task'[w].kind = task[w].kind /\ task'[w].stage = "waiting"
        BY <2>1, <3>3, Alone DEF Stages
      <4>2. task[w].kind # "promote"
        BY <2>1, <3>1 DEF Promotion, PromoteStages
      <4>3. Fenced(w)'
        BY <4>1, <4>2 DEF Fenced
      <4>4. fenced => datadir = "standby"
        <5>1. SUFFICES ASSUME fenced PROVE datadir = "standby"
          OBVIOUS
        <5>2. Fenced(w)
          BY <2>1, <5>1 DEF Fence
        <5>3. ~Critically(w)
          BY <3>1, <3>3, <5>2 DEF Fenced, CalledOff
        <5>4. task[w].kind \in {"follow", "reinitialize"}
          BY <2>1, <4>2, <5>3 DEF DataTypes, OneWorker, Taken, Critically, Kinds
        <5> QED BY <2>1, <3>1, <5>4 DEF Standby
      <4>5. /\ (fenced \/ pc[Main] = "demote")' => \A v \in Taken' : Fenced(v)'
            /\ \A v \in Taken' : task'[v].stage \in {"waiting", "leaving"}
        BY <4>1, <4>3
      <4> QED BY <2>3, <3>1, <4>1, <4>4, <4>5 DEF Fence
    <3> QED BY <2>9, <3>2, <3>3 DEF Launch
  <2> QED BY <1>3, <2>5, <2>6, <2>7, <2>8, <2>9 DEF Function
<1>4. ASSUME NEW w \in Workers, Leave(w) PROVE Fence'
  <2>1. Taken' = {}
    BY <1>4 DEF DataTypes, OneWorker, Taken, Leave, At, Free
  <2>2. fenced' = FALSE /\ crit' = [is_cancelled |-> FALSE, result |-> None]
    BY <1>4 DEF Leave, Fresh
  <2> QED BY <2>1, <2>2 DEF Fence
<1>5. ASSUME UNCHANGED <<task, crit, datadir>>, up' = up \/ up' = FALSE, fenced' => fenced,
             pc'[Main] = "demote" => pc[Main] = "demote"
      PROVE Fence'
  <2>1. Taken' = Taken /\ \A w \in Taken : Fenced(w)' = Fenced(w) /\ Critically(w)' = Critically(w)
    BY <1>5 DEF Taken, Fenced, Critically
  <2> QED BY <1>5, <2>1 DEF Fence
<1>6. ASSUME NEW kind \in Kinds, ~Down, Schedule(kind), UNCHANGED <<crit, fenced>>,
             pc'[Main] # "demote"
      PROVE Fence'
  <2>1. Taken = {}
    BY <1>6, Scheduled
  <2>2. PICK w \in Workers : Taken' = {w}
    BY <1>6, Scheduled
  <2>3. ~fenced' /\ ~(crit'.result # None)
    BY <1>6, <2>1 DEF Fence
  <2> QED BY <1>6, <2>2, <2>3 DEF Fence
<1>7. ASSUME NEW t \in Threads, CancelStep(t) PROVE Fence'
  <2>1. t = Main
    BY <1>7, MainCancels
  <2>2. \E to \in {"signal", "stopping", "await", "unschedule"} : Goes(Main, to)
    BY <1>7, <2>1 DEF CancelStep, Cancel, Signal, Await, Unschedule, AfterCancel
  <2>3. pc'[Main] # "demote"
    BY <2>2 DEF DataTypes, Goes, Threads
  <2>4. UNCHANGED <<task, crit, datadir, up, fenced>>
    BY <1>7 DEF CancelStep, Cancel, Signal, Await, Unschedule, critical, postgres
  <2> QED BY <1>5, <2>3, <2>4
<1>8. ASSUME NEW x \in Clients, CheckReinitialize(x) \/ Reinitialize(x) \/ Restart(x) PROVE Fence'
  <2>1. ~Down /\ pc[Main] # "demote"
    BY <1>8 DEF Flags, Down, ShuttingDown, CheckReinitialize, Reinitialize, Restart, LockFree
  <2>2. x # Main /\ x \in Threads
    BY DEF Threads
  <2>3. UNCHANGED pc \/ \E to \in {"cancel", "checked", "idle"} : Goes(x, to)
    BY <1>8 DEF CheckReinitialize, Reinitialize, Restart
  <2>4. pc'[Main] # "demote"
    BY <2>1, <2>2, <2>3 DEF DataTypes, Goes, Threads
  <2>5. UNCHANGED <<crit, fenced, datadir, up>>
    BY <1>8 DEF CheckReinitialize, Reinitialize, Restart, critical, postgres
  <2>6. UNCHANGED task \/ Schedule("restart") \/ Schedule("reinitialize")
    BY <1>8 DEF CheckReinitialize, Reinitialize, Restart, TryRun
  <2> QED BY <1>5, <1>6, <2>1, <2>4, <2>5, <2>6 DEF Kinds
<1>9. CASE BeginCycle \/ BeginShutdown \/ StopAtShutdown \/ Crash
  <2>1. pc'[Main] = "demote" => pc[Main] = "demote"
    BY <1>9 DEF DataTypes, BeginCycle, BeginShutdown, StopAtShutdown, Crash, Goes, Threads
  <2>2. UNCHANGED <<task, crit, datadir>> /\ (up' = up \/ up' = FALSE)
    BY <1>9 DEF BeginCycle, BeginShutdown, StopAtShutdown, Crash, critical, postgres
  <2>3. fenced' => fenced
    BY <1>9 DEF BeginCycle, BeginShutdown, StopAtShutdown, Crash
  <2> QED BY <1>5, <2>1, <2>2, <2>3
<1>10. ASSUME EndCycle \/ Goes(Main, "terminate") PROVE pc'[Main] # "demote"
  BY <1>10 DEF DataTypes, EndCycle, Goes, Threads
<1>11. CASE LetGoOn \/ CallOffPromotion \/ Terminate \/ FollowLeader \/ GiveUpLock
  <2>1. EndCycle \/ Goes(Main, "terminate")
    BY <1>11 DEF LetGoOn, CallOffPromotion, Terminate, FollowLeader, GiveUpLock
  <2>2. UNCHANGED <<task, crit, datadir, up, fenced>>
    BY <1>11 DEF LetGoOn, CallOffPromotion, Terminate, FollowLeader, GiveUpLock, critical, postgres
  <2> QED BY <1>5, <1>10, <2>1, <2>2
<1>12. CASE CallOffStart
  <2>1. Busy /\ ~Down /\ role = "primary" /\ (action = "promote" => resp.result # None)
    BY <1>12 DEF CallOffStart, Down
  <2>2. UNCHANGED <<task, fenced, datadir>>
    BY <1>12 DEF CallOffStart
  <2>3. \/ action \in {"restart", "start"} /\ crit.result = None
               /\ crit' = Abandoned(crit) /\ up' = up
        \/ crit' = crit /\ (up' = up \/ up' = FALSE)
               /\ (action \in {"restart", "start"} => crit.result # None)
    BY <1>12 DEF CallOffStart
  <2>4. crit \in Critical(StartResults)
    BY DEF DataTypes
  <2>5. Abandoned(crit).is_cancelled /\ Abandoned(crit).result = crit.result
    BY <2>4, CriticalTasks, Results
  <2>6. Taken' = Taken /\ Taken # {} /\ \A w \in Taken : action = task[w].kind
    BY <2>1, <2>2 DEF OneWorker, Taken
  <2>7. \A w \in Taken : Fenced(w)'
    <3>1. SUFFICES ASSUME NEW w \in Taken PROVE Fenced(w)'
      OBVIOUS
    <3>2. Critically(w) => (crit'.is_cancelled \/ task[w].stage \in {"waiting", "leaving"})
      BY <2>3, <2>6, <2>5 DEF Fence, Critically
    <3>3. task[w].kind = "promote" => task[w].stage = "leaving"
      BY <2>1 DEF Promotion
    <3> QED BY <2>2, <3>2, <3>3 DEF Fenced, Critically
  <2>8. crit'.result # None => crit.result # None
    BY <2>3, <2>5
  <2>9. \A w \in Taken : Critically(w)' = Critically(w)
    BY <2>2 DEF Critically
  <2>10. fenced => ~(up /\ datadir = "primary")'
    BY <2>2, <2>3 DEF Fence
  <2> QED BY <2>2, <2>6, <2>7, <2>8, <2>9, <2>10 DEF Fence
<1>13. CASE Demote
  <2>1. ~Down /\ pc[Main] = "demote" /\ up' = FALSE /\ UNCHANGED crit
    BY <1>13 DEF Demote, Down, critical
  <2>2. CASE Schedule("follow")
    <3>1. Taken = {}
      BY <2>1, <2>2, Scheduled DEF Kinds
    <3>2. PICK w \in Workers : Taken' = {w} /\ task'[w] = [kind |-> "follow", stage |-> "ready"]
      BY <2>1, <2>2, Scheduled DEF Kinds
    <3>3. ~(crit'.result # None)
      BY <2>1, <3>1 DEF Fence
    <3>4. Fenced(w)'
      BY <3>2 DEF Fenced, Critically
    <3>5. \A v \in Taken' : Fenced(v)'
      BY <3>2, <3>4
    <3> QED BY <2>1, <3>2, <3>3, <3>5 DEF Fence
  <2>3. CASE ~Unscheduled /\ UNCHANGED task
    <3>1. Taken # {} /\ Taken' = Taken
      BY <2>3 DEF OneWorker, Busy, Unscheduled, Taken
    <3>2. \A w \in Taken : Fenced(w)' = Fenced(w) /\ Critically(w)' = Critically(w)
      BY <2>1, <2>3 DEF Fenced, Critically
    <3> QED BY <2>1, <2>3, <3>1, <3>2 DEF Fence
  <2> QED BY <1>13, <2>2, <2>3 DEF Demote, TryRun
<1>14. CASE Recover \/ EnforcePrimaryRole
  <2>1. ~Down /\ EndCycle
    BY <1>14 DEF Recover, EnforcePrimaryRole, Down
  <2>2. UNCHANGED <<crit, fenced, up, datadir>>
    BY <1>14 DEF Recover, EnforcePrimaryRole, critical, postgres
  <2>3. UNCHANGED task \/ \E kind \in {"start", "follow", "promote"} : Schedule(kind)
    BY <1>14 DEF Recover, EnforcePrimaryRole
  <2> QED BY <1>5, <1>6, <1>10, <2>1, <2>2, <2>3 DEF Kinds
<1>15. CASE StepDown
  <2>1. Taken = {} /\ ~Down
    BY <1>15, NoneTaken DEF StepDown, Down
  <2>2. UNCHANGED <<task, crit, fenced>>
    BY <1>15 DEF StepDown, critical
  <2>3. Taken' = {}
    BY <2>1, <2>2 DEF Taken
  <2> QED BY <2>1, <2>2, <2>3 DEF Fence
<1> QED BY <1>2, <1>3, <1>4, <1>7, <1>8, <1>9, <1>11, <1>12, <1>13, <1>14, <1>15 DEF Next, Cycle

-----------------------------------------------------------------------------
LEMMA InitTypes == Init => FlagTypes /\ DataTypes
<1> SUFFICES ASSUME Init PROVE FlagTypes /\ DataTypes
  OBVIOUS
<1>1. FlagTypes
  BY DEF Init, FlagTypes
<1>2. crit \in Critical(StartResults)
  BY FreshTask DEF Init
<1>3. resp \in Critical(ScriptResults)
  BY FreshTask DEF Init
<1>4. task \in [Workers -> [kind : Kinds \cup {None}, stage : Stages]]
  BY DEF Init, Free, Stages
<1>5. /\ action \in Kinds \cup {None} /\ pc \in [Threads -> Pcs]
      /\ role \in {"replica", "promoted", "primary", "demoted"} /\ datadir \in {"standby", "primary"}
  BY DEF Init, Pcs
<1> QED BY <1>1, <1>2, <1>3, <1>4, <1>5 DEF DataTypes

LEMMA InitIInv == Init => IInv
<1> SUFFICES ASSUME Init PROVE IInv
  OBVIOUS
<1>1. TypeOK
  BY InitTypes, Types
<1>2. Taken = {} /\ Running = {} /\ action = None
  BY DEF Init, Free, Taken, Running
<1>3. pc[Main] = "idle" /\ \A x \in Clients : pc[x] = "idle"
  BY DEF Init, Threads
<1>4. OneWorker /\ Promotion /\ Standby
  BY <1>2 DEF OneWorker, Promotion, Standby, Busy
<1>5. Flags
  BY <1>2, <1>3 DEF Flags, Down, ShuttingDown
<1>6. Fence
  BY <1>2, <1>3 DEF Init, Fence, Fresh
<1> QED BY <1>1, <1>4, <1>5, <1>6 DEF IInv

(* Every variable keeps within its type: no field of a critical task is    *)
(* reset to something the code would not expect.                           *)
THEOREM TypesKept == Spec => []TypeOK
<1>1. Init => TypeOK
  BY InitTypes, Types
<1>2. TypeOK /\ [Next]_vars => TypeOK'
  <2> SUFFICES ASSUME TypeOK, [Next]_vars PROVE TypeOK'
    OBVIOUS
  <2>1. FlagTypes /\ DataTypes
    BY Types
  <2>2. CASE Next
    <3>1. FlagTypes' /\ DataTypes'
      BY <2>1, <2>2, FlagTypesKept, DataTypesKept
    <3> QED BY <3>1 DEF TypeOK, FlagTypes, DataTypes, Critical, StartResults, ScriptResults
  <2>3. CASE UNCHANGED vars
    BY <2>3 DEF TypeOK, vars, executor, critical, postgres
  <2> QED BY <2>2, <2>3
<1> QED BY <1>1, <1>2, PTL DEF Spec

(* The invariant is inductive as long as nobody forces a reinitialization. *)
LEMMA Inductive ==
    ASSUME TRUE \notin Forces
    PROVE  IInv /\ [Next]_vars => IInv'
<1> SUFFICES ASSUME IInv, [Next]_vars PROVE IInv'
  OBVIOUS
<1>1. FlagTypes /\ DataTypes /\ OneWorker /\ Flags /\ Promotion /\ Fence /\ Standby
  BY Types DEF IInv
<1>2. CASE Next
  <2>1. FlagTypes' /\ DataTypes'
    BY <1>1, <1>2, FlagTypesKept, DataTypesKept
  <2>2. TypeOK'
    BY <2>1 DEF TypeOK, FlagTypes, DataTypes, Critical, StartResults, ScriptResults
  <2>3. OneWorker' /\ Flags' /\ Promotion' /\ Fence' /\ Standby'
    BY <1>1, <1>2, OneWorkerKept, FlagsKept, PromotionKept, FenceKept, StandbyKept
  <2> QED BY <2>2, <2>3 DEF IInv
<1>3. CASE UNCHANGED vars
  BY <1>3 DEF IInv, TypeOK, OneWorker, Flags, Promotion, Fence, Standby, Taken, Running, Down, ShuttingDown,
              Busy, Fenced, Critically, vars, executor, critical, postgres
<1> QED BY <1>2, <1>3

LEMMA Invariant ==
    ASSUME TRUE \notin Forces
    PROVE  Spec => []IInv
  BY InitIInv, Inductive, PTL DEF Spec

(* With any number of API threads, no two functions of run_async run at    *)
(* once, and the executor is busy with the one that does.                  *)
THEOREM OneActionAtATime ==
    ASSUME TRUE \notin Forces
    PROVE  Spec => []OneAction
<1>1. IInv => OneAction
  <2> SUFFICES ASSUME IInv PROVE OneAction
    OBVIOUS
  <2>1. Running \subseteq Taken
    BY DEF Running, Taken
  <2>2. Down => Running = {}
    BY DEF IInv, Flags
  <2> QED BY <2>1, <2>2 DEF IInv, OneWorker, OneAction
<1> QED BY <1>1, Invariant, PTL

(* The interlock of handle_long_action_in_progress with start and restart: *)
(* what the HA loop has demoted during an action stays down until it ends. *)
THEOREM DemotedStaysDown ==
    ASSUME TRUE \notin Forces
    PROVE  Spec => []StaysDown
<1>1. IInv => StaysDown
  BY DEF IInv, Fence, StaysDown
<1> QED BY <1>1, Invariant, PTL

(* CriticalTask.cancel and complete in promote: a promotion called off     *)
(* never goes on to pg_ctl promote.                                        *)
THEOREM CalledOffStaysOff ==
    ASSUME TRUE \notin Forces
    PROVE  Spec => []PromotionCalledOff
<1>1. IInv => PromotionCalledOff
  BY DEF IInv, Promotion, PromotionCalledOff, Taken
<1> QED BY <1>1, Invariant, PTL

(* cancel at shutdown: after it no function of run_async runs or begins.   *)
THEOREM QuietAfterShutdownCancel ==
    ASSUME TRUE \notin Forces
    PROVE  Spec => []QuietAfterCancel
<1>1. IInv => QuietAfterCancel
  BY DEF IInv, Flags, Down, QuietAfterCancel
<1> QED BY <1>1, Invariant, PTL


-----------------------------------------------------------------------------
(* The other parts of MCExecutor: what BankCacheProofs and ClusterProofs   *)
(* show of the modules in general holds of the instances here, with the    *)
(* variables that the parts share.                                         *)
P == INSTANCE ClusterProofs WITH
       Server <- Accounts \cup Clients, Config <- Clients, Product <- {"etcd", "kubernetes"},
       RetryTimeout <- 3, MaxChanges <- 2, PreVote <- TRUE, Insistent <- FALSE,
       product <- a, alive <- b, alone <- c, leaderless <- d, term <- e, members <- f,
       changes <- g, cache <- h, base <- i, update <- j, known <- k, call <- l,
       \* the rest is not of this part
       Node <- {}, MaxFaults <- 0, Ttl <- 1, MaxMoves <- 0, Forgetful <- FALSE, Lossy <- FALSE,
       MaxIds <- 0, Untidy <- FALSE, Strict <- FALSE, MaxLog <- 0, MaxByHand <- 0,
       SlotTtl <- 1, MaxSlotMoves <- 0, MaxRequests <- 0,
       MaxXid <- 1, Reload <- FALSE, follows <- a, slot <- a, removed <- a, phys <- a, status <- a,
       mind <- a, Kilo <- 16, MaxValue <- 0, setting <- a,
       leader <- a, left <- a, failsafe <- a, pg <- a, heard <- a, step <- a, ran <- a,
       faults <- a, moves <- a, initialize <- a, view <- a, data <- a, busy <- a,
       booting <- a, called <- a, ids <- a, primary <- a, log <- a, streaming <- a,
       acked <- a, byHand <- a, sync <- a, ssn <- a, handler <- a, wanted <- a, plan <- a,
       retained <- a, slots <- a, loaded <- a, age <- a, owed <- a,
       key <- a, failover <- a, paused <- a, lagging <- a

Q == INSTANCE BankCacheProofs WITH
       Unknown <- {Nobody}, InitBalance <- [x \in Accounts |-> 2],
       Amounts <- {10}, Scale <- 10, MaxTransfers <- 1,
       Kinds <- {"summary"}, Readable <- Accounts,
       balance <- a, rows <- b, cache <- c, lock <- d, pc <- e, req <- f, data <- g

LEMMA ServersCardinality == \A S : T!Cardinality(S) = P!T!Cardinality(S)
BY DEF T!Cardinality, P!T!Cardinality
LEMMA WorkersCardinality == \A S : R!Cardinality(S) = Q!Cardinality(S)
BY DEF R!Cardinality, Q!Cardinality

\* The parts here are those of the other modules.
LEMMA ClientSame ==
  /\ ([T!EtcdClientNext]_(T!vars) <=> [P!T!EtcdClientNext]_(P!T!vars))
  /\ (T!Init <=> P!T!Init)
  /\ (T!InTime <=> P!T!InTime)
<1> USE DEF T!serverVars, T!clientVars, T!Idle, T!Reached, T!Current, T!Works, T!Stop,
    T!Isolate, T!Replace, T!Elect, T!Fit, T!Share, T!Remaining, T!Least, T!Cost, T!Sources,
    T!Lists, T!NewList, T!Refreshed, T!Ends, T!Pass, T!Turn, T!Spent, T!ToRetry, T!Reloaded,
    P!T!serverVars, P!T!clientVars, P!T!Idle, P!T!Reached, P!T!Current, P!T!Works, P!T!Stop,
    P!T!Isolate, P!T!Replace, P!T!Elect, P!T!Fit, P!T!Share, P!T!Remaining, P!T!Least, P!T!Cost,
    P!T!Sources, P!T!Lists, P!T!NewList, P!T!Refreshed, P!T!Ends, P!T!Pass, P!T!Turn, P!T!Spent,
    P!T!ToRetry, P!T!Reloaded
<1>a. \A Q1, q : T!First(Q1, q) = P!T!First(Q1, q)
  BY ServersCardinality DEF T!First, P!T!First
<1>b. \A q : T!FirstPass(q) <=> P!T!FirstPass(q)
  <2>1. T!Cardinality(h') = P!T!Cardinality(h')
    BY ServersCardinality
  <2> QED BY <2>1 DEF T!FirstPass, P!T!FirstPass
<1>1. T!Change <=> P!T!Change
  BY DEF T!Change, P!T!Change
<1>2. T!Elected <=> P!T!Elected
  BY DEF T!Elected, P!T!Elected
<1>3. T!Begin <=> P!T!Begin
  BY <1>b DEF T!Begin, P!T!Begin
<1>4. T!Exhausted <=> P!T!Exhausted
  <2>1. T!Cardinality(h') = P!T!Cardinality(h')
    BY ServersCardinality
  <2> QED BY <2>1 DEF T!Exhausted, P!T!Exhausted
<1>5. T!Rest <=> P!T!Rest
  BY <1>a, ZenonT(60) DEF T!Rest, P!T!Rest
<1>6. T!Return <=> P!T!Return
  BY DEF T!Return, P!T!Return
<1>7. ASSUME NEW s PROVE T!Answered(s) <=> P!T!Answered(s)
  BY DEF T!Answered, P!T!Answered
<1>8. ASSUME NEW s PROVE T!Fails(s) <=> P!T!Fails(s)
  BY DEF T!Fails, P!T!Fails
<1>9. ASSUME NEW s PROVE T!Again(s) <=> P!T!Again(s)
  BY DEF T!Again, P!T!Again
<1>10. T!Init <=> P!T!Init
  BY DEF T!Init, P!T!Init
<1>11. T!InTime <=> P!T!InTime
  BY DEF T!InTime, P!T!InTime
<1> QED
  BY <1>1, <1>2, <1>3, <1>4, <1>5, <1>6, <1>7, <1>8, <1>9, <1>10, <1>11
  DEF T!EtcdClientNext, T!vars, T!Client, P!T!EtcdClientNext, P!T!vars, P!T!Client

LEMMA BankSame ==
  /\ ([R!Next]_(R!vars) <=> [Q!Next]_(Q!vars))
  /\ (R!Init <=> Q!Init)
  /\ (R!SummaryCoherent <=> Q!SummaryCoherent)
<1> USE DEF R!Ids, R!Keys, R!Idle, R!TransferCalls, R!ToCents, R!RowsOf, R!Goto, R!Return,
    R!Released, R!Deleted, R!Stored, R!ReadCache, R!GetBalance, R!GetSummary, R!GetCreditScore,
    R!Select, R!SelectBalance, R!SelectAccount, R!SelectStats, R!SelectId, R!SelectScore,
    R!Setex, R!SetexBalance, R!SetexSummary, R!SetexScore, R!Transfer, R!Refuse, R!Enough,
    R!SelectForUpdate, R!SelectTo, R!Debited, R!Credited, R!UpdateFrom, R!UpdateTo, R!Commit,
    R!Invalidated, R!Delete, R!Waiting, R!Stuck, R!Midway, R!Left, R!Change, R!Ledger, Q!Ids, Q!Keys, Q!Idle,
    Q!TransferCalls, Q!ToCents, Q!RowsOf, Q!Goto, Q!Return, Q!Released, Q!Deleted, Q!Stored,
    Q!ReadCache, Q!GetBalance, Q!GetSummary, Q!GetCreditScore, Q!Select, Q!SelectBalance,
    Q!SelectAccount, Q!SelectStats, Q!SelectId, Q!SelectScore, Q!Setex, Q!SetexBalance,
    Q!SetexSummary, Q!SetexScore, Q!Transfer, Q!Refuse, Q!Enough, Q!SelectForUpdate, Q!SelectTo,
    Q!Debited, Q!Credited, Q!UpdateFrom, Q!UpdateTo, Q!Commit, Q!Invalidated, Q!Delete,
    Q!Waiting, Q!Stuck, Q!Midway, Q!Left, Q!Change, Q!Ledger
<1>a. R!TransfersLeft <=> Q!TransfersLeft
  BY WorkersCardinality DEF R!TransfersLeft, Q!TransfersLeft
<1>1. ASSUME NEW w PROVE R!Read(w) <=> Q!Read(w)
  BY DEF R!Read, Q!Read
<1>2. ASSUME NEW w PROVE R!Pay(w) <=> Q!Pay(w)
  BY DEF R!Pay, Q!Pay
<1>3. ASSUME NEW w PROVE R!DeadlockDetected(w) <=> Q!DeadlockDetected(w)
  BY DEF R!DeadlockDetected, Q!DeadlockDetected
<1>4. ASSUME NEW z PROVE R!Expire(z) <=> Q!Expire(z)
  BY DEF R!Expire, Q!Expire
<1>5. R!ClearCache <=> Q!ClearCache
  BY DEF R!ClearCache, Q!ClearCache
<1>6. ASSUME NEW w PROVE R!Request(w) <=> Q!Request(w)
  BY <1>a DEF R!Request, Q!Request
<1>7. ASSUME NEW w PROVE R!Fail(w) <=> Q!Fail(w)
  BY DEF R!Fail, Q!Fail
<1>8. R!Init <=> Q!Init
  BY DEF R!Init, Q!Init
<1>9. R!SummaryCoherent <=> Q!SummaryCoherent
  BY DEF R!SummaryCoherent, Q!SummaryCoherent
<1> QED
  BY <1>1, <1>2, <1>3, <1>4, <1>5, <1>6, <1>7, <1>8, <1>9
  DEF R!Next, R!vars, R!Served, Q!Next, Q!vars, Q!Served

-----------------------------------------------------------------------------
ClientHolds == part = "client" => P!CallInv
BankHolds == part = "summary" => Q!TypeOK /\ Q!Safe /\ Q!BooksBalance /\ Q!Coherent

\* The executor runs alone, or not at all.
LEMMA ExecutorRefined == PartsInit /\ [][PartsNext]_partVars => Spec
<1>1. PartsInit => Init
  BY DEF PartsInit
<1>2. [PartsNext]_partVars => [Next]_vars
  BY DEF PartsNext, partVars
<1> QED BY <1>1, <1>2, PTL DEF Spec

\* AsyncExecutor's invariants in MCExecutor.
THEOREM HostExecutor ==
  ASSUME TRUE \notin Forces
  PROVE  PartsSpec => [](OneAction /\ StaysDown /\ QuietAfterCancel)
BY ExecutorRefined, OneActionAtATime, DemotedStaysDown, QuietAfterShutdownCancel, PTL
DEF PartsSpec

\* EtcdClient's InTime in MCExecutor: a call of the DCS client lasts less than four times
\* retry_timeout.
THEOREM HostCallsInTime ==
  ASSUME IsFiniteSet(Accounts \cup Clients), Cardinality(Accounts \cup Clients) <= 3
  PROVE  PartsSpec => []CallsInTime
<1>1. PartsInit => ClientHolds
  BY ClientSame, P!CallInitially DEF PartsInit, ClientHolds
<1>2. ClientHolds /\ [PartsNext]_partVars => ClientHolds'
  <2> SUFFICES ASSUME ClientHolds, [PartsNext]_partVars PROVE ClientHolds'
    OBVIOUS
  <2>1. part' = part /\ (part = "client" => [T!EtcdClientNext]_(T!vars))
    BY DEF PartsNext, partVars, shared, rest, last, T!vars, T!serverVars, T!clientVars
  <2>2. P!IsFiniteSet(Accounts \cup Clients) /\ P!Cardinality(Accounts \cup Clients) <= 3
    BY DEF IsFiniteSet, Cardinality, P!IsFiniteSet, P!Cardinality
  <2> QED BY <2>1, <2>2, ClientSame, P!CallInvKept DEF ClientHolds
<1>3. ClientHolds => CallsInTime
  <2>1. P!CallInv => P!T!InTime
    BY DEF P!CallInv, P!Timely, P!T!InTime
  <2> QED BY <2>1, ClientSame DEF ClientHolds, CallsInTime
<1> QED BY <1>1, <1>2, <1>3, PTL DEF PartsSpec

\* BankCache's SummaryCoherent in MCExecutor: no cached summary joins a balance with
\* statistics of before it.
THEOREM HostSummaryCoherent ==
  ASSUME None \notin Workers \cup Int
  PROVE  PartsSpec => []SummaryCoherent
<1>1. PartsInit => BankHolds
  BY BankSame, Q!TypeInit, Q!SafeInit, Q!BooksInit, Q!CoherentInit DEF PartsInit, BankHolds
<1>2. BankHolds /\ [PartsNext]_partVars => BankHolds'
  <2> SUFFICES ASSUME BankHolds, [PartsNext]_partVars PROVE BankHolds'
    OBVIOUS
  <2>1. part' = part /\ (part = "summary" => [R!Next]_(R!vars))
    BY DEF PartsNext, partVars, shared, R!vars
  <2> QED BY <2>1, BankSame, Q!TypeNext, Q!SafeNext, Q!BooksNext, Q!CoherentNext DEF BankHolds
<1>3. BankHolds => SummaryCoherent
  BY BankSame DEF BankHolds, SummaryCoherent, Q!Coherent
<1> QED BY <1>1, <1>2, <1>3, PTL DEF PartsSpec
=============================================================================
