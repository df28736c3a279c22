------------------------------- MODULE MCParts --------------------------------
(***************************************************************************)
(* Parts of Patroni side by side: a behaviour is one of one part.  The     *)
(* parts other than the leader lock of LeaderLock keep their state in the  *)
(* same variables a to k.                                                  *)
(***************************************************************************)
EXTENDS LeaderLock

CONSTANT Third   \* one more node, for the parts that need three

ASSUME ThirdAssumption == Third \notin Nodes \cup {None}

VARIABLES part, a, b, c, d, e, f, g, h, i, j, k

\* The leader lock where nodes may stall before their watchdog is open.
L == INSTANCE LeaderLock WITH
       Ttl <- 3, LoopWait <- 1, Timeout <- 1, Prompt <- FALSE,
       leader <- a, lease <- b, view <- c, pc <- d, pg <- e, opened <- f, wd <- g
M == INSTANCE MultiSync WITH
       Node <- Nodes \cup {Third}, Strict <- FALSE,
       MaxLog <- 2, MaxFaults <- 1, MaxByHand <- 0,
       primary <- a, log <- b, streaming <- c, acked <- d, byHand <- e, sync <- f,
       ssn <- g, handler <- h, wanted <- i, faults <- j, plan <- k
F == INSTANCE Failsafe WITH
       Node <- Nodes \cup {Third}, Ttl <- 2,
       MaxFaults <- 1, MaxMoves <- 1, Forgetful <- FALSE, Lossy <- FALSE,
       leader <- a, left <- b, failsafe <- c, members <- d, pg <- e, known <- f,
       heard <- g, step <- h, ran <- i, faults <- j, moves <- k
D == INSTANCE MemberSlots WITH
       Node <- Nodes \cup {Third}, SlotTtl <- 3,
       MaxMoves <- 2, MaxFaults <- 1, Forgetful <- FALSE,
       leader <- a, retained <- b, slots <- c, members <- d, loaded <- e, age <- f,
       owed <- g, step <- h, ran <- i, faults <- j, moves <- k
B == INSTANCE Bootstrap WITH
       Node <- Nodes \cup {Third}, MaxIds <- 3, MaxFaults <- 1, Untidy <- FALSE,
       leader <- a, initialize <- b, view <- c, data <- d, pg <- e, busy <- f,
       booting <- g, step <- h, called <- i, faults <- j, ids <- k
S == INSTANCE LogicalSlots WITH
       Node <- Nodes \cup {Third}, MaxXid <- 2, MaxFaults <- 1, Reload <- FALSE,
       primary <- a, follows <- b, slot <- c, removed <- d, phys <- e, status <- f,
       mind <- g, faults <- j
U == INSTANCE Units WITH K <- 32, MaxValue <- 20, setting <- a

shared == <<a, b, c, d, e, f, g, h, i, j, k>>
partVars == <<vars, part, shared>>

UnusedAH == a = 0 /\ b = 0 /\ c = 0 /\ d = 0 /\ e = 0 /\ f = 0 /\ g = 0
UnusedHK == h = 0 /\ i = 0 /\ j = 0 /\ k = 0

PartsInit ==
  /\ Init
  /\ \/ part = "lock" /\ UnusedAH /\ UnusedHK
     \/ part = "stalls" /\ L!Init /\ UnusedHK
     \/ part = "multisync" /\ M!Init
     \/ part = "failsafe" /\ F!Init
     \/ part = "slots" /\ D!Init
     \/ part = "bootstrap" /\ B!Init
     \/ part = "logical" /\ S!Init /\ h = 0 /\ i = 0 /\ k = 0
     \/ /\ part = "units" /\ U!UnitsInit
        /\ b = 0 /\ c = 0 /\ d = 0 /\ e = 0 /\ f = 0 /\ g = 0 /\ UnusedHK

PartsNext ==
  /\ UNCHANGED part
  /\ \/ part = "lock" /\ Next /\ UNCHANGED shared
     \/ part = "stalls" /\ L!Next /\ UNCHANGED <<vars, h, i, j, k>>
     \/ part = "multisync" /\ M!MultiSyncNext /\ UNCHANGED vars
     \/ part = "failsafe" /\ F!FailsafeNext /\ UNCHANGED vars
     \/ part = "slots" /\ D!MemberSlotsNext /\ UNCHANGED vars
     \/ part = "bootstrap" /\ B!BootstrapNext /\ UNCHANGED vars
     \/ part = "logical" /\ S!LogicalSlotsNext /\ UNCHANGED <<vars, h, i, k>>
     \/ part = "units" /\ U!Write /\ UNCHANGED <<vars, b, c, d, e, f, g, h, i, j, k>>

\* Nothing but time is bound to go on.
PartsSpec ==
  /\ PartsInit /\ [][PartsNext]_partVars
  /\ WF_partVars(part = "stalls" /\ L!Tick /\ UNCHANGED <<vars, part, h, i, j, k>>)

\* Even where a node writes without the leader key it does so for a while only
\* (watchdog/base.py, ha.py demote), if nothing of it ever runs again.
StallsEnd ==
  \A n \in Nodes :
    (part = "stalls" /\ L!Writes(n) /\ a # n)
      ~> (part = "stalls" => ~L!Writes(n) \/ a = n)

\* MultiSync's HeirsHaveCommits.
HeirsHaveCommits == part = "multisync" => M!HeirsHaveCommits
\* Failsafe's OnePrimary.
OnePrimary == part = "failsafe" => F!OnePrimary
\* Bootstrap's OneSystem.
OneSystem == part = "bootstrap" => B!OneSystem
\* Units' SettingsAgree.
SettingsAgree == part = "units" => U!SettingsAgree
\* LogicalSlots' ReadyIsSafe.
ReadyIsSafe == part = "logical" => S!ReadyIsSafe
\* MemberSlots' SlotKept.
SlotKept == [][part = "slots" => D!SlotStays]_partVars
=============================================================================
