----------------------------- MODULE StoresProofs -----------------------------
(***************************************************************************)
(* Every back end of MCStores implements LeaderKey, for any members, ttl   *)
(* and bounds on the history.                                              *)
(***************************************************************************)
EXTENDS MCStores, TLAPS

Entry == [owner : Member \cup {None}, by : Nat]
Place == {"idle", "refreshed", "deleted", "waiting"}

\* Copies are of what the store has had.
StoreType ==
  /\ log \in Seq(Entry) /\ Last > 0
  /\ left \in 0 .. Ttl
  /\ alive \in [Session -> 0 .. Ttl]
  /\ sess \in [Member -> 0 .. MaxSessions]
  /\ cursor \in [Member -> 1 .. Last]
  /\ seen \in [Member -> 1 .. Last]
  /\ view \in [Member -> 0 .. Last]
  /\ pc \in [Member -> Place]
  /\ sure \in [Member -> 0 .. Ttl]

-----------------------------------------------------------------------------
\* Lemmas about the operators of LeaderStore: what they do to the types, and what
\* they add to the history.

LEMMA Constants == Ttl \in Nat /\ Ttl > 0 /\ None \notin Member /\ MaxSessions \in Nat
BY StoreAssumption

\* The type of the state after a step, from that of each variable.
LEMMA StoreTypeAfter ==
  ASSUME log' \in Seq(Entry), Last' > 0,
         left' \in 0 .. Ttl, alive' \in [Session -> 0 .. Ttl],
         sess' \in [Member -> 0 .. MaxSessions], cursor' \in [Member -> 1 .. Last'],
         seen' \in [Member -> 1 .. Last'], view' \in [Member -> 0 .. Last'],
         pc' \in [Member -> Place], sure' \in [Member -> 0 .. Ttl]
  PROVE  StoreType'
BY DEF StoreType, Entry, Session, Place, Last

\* The entries of the history, the last of which is the key.
LEMMA Entries ==
  ASSUME StoreType
  PROVE  /\ Last \in Nat /\ Last > 0 /\ Last \in 1 .. Last
         /\ \A q \in 1 .. Last : /\ log[q] \in Entry
                                 /\ log[q].owner \in Member \cup {None} /\ log[q].by \in Nat
         /\ Key = log[Last] /\ Key.owner \in Member \cup {None} /\ Key.by \in Nat
<1>1. Last \in Nat /\ Last > 0 /\ \A q \in 1 .. Last : log[q] \in Entry
  BY DEF StoreType, Last
<1>2. \A x \in Entry : x.owner \in Member \cup {None} /\ x.by \in Nat
  BY DEF Entry
<1> QED BY <1>1, <1>2 DEF Key

\* A change adds an entry and leaves the others.
LEMMA Appended ==
  ASSUME StoreType, NEW x \in Entry, log' = Append(log, x)
  PROVE  /\ log' \in Seq(Entry)
         /\ Last' = Last + 1 /\ Last' \in Nat /\ Last' > 0 /\ Last' >= Last /\ Key' = x
         /\ \A q \in 1 .. Last : log'[q] = log[q]
BY DEF StoreType, Last, Key

LEMMA Kept ==
  ASSUME StoreType, UNCHANGED log
  PROVE  /\ log' \in Seq(Entry) /\ Last' = Last /\ Last' \in Nat /\ Last' > 0 /\ Last' >= Last
         /\ Key' = Key
         /\ \A q \in 1 .. Last : log'[q] = log[q]
BY DEF StoreType, Last, Key

\* The copies are still copies of the store when it has grown.
LEMMA Copies ==
  ASSUME StoreType, Last' \in Nat, Last' >= Last
  PROVE  /\ cursor \in [Member -> 1 .. Last'] /\ seen \in [Member -> 1 .. Last']
         /\ view \in [Member -> 0 .. Last']
         /\ Last \in Nat
<1>1. Last \in Nat
  BY DEF StoreType, Last
<1> QED BY <1>1 DEF StoreType

\* The answer to a call.
LEMMA Answer ==
  ASSUME StoreType, Last' \in Nat, Last' >= Last, NEW m \in Member, NEW t \in 0 .. Ttl, Say(m, t)
  PROVE  /\ view' \in [Member -> 0 .. Last'] /\ pc' \in [Member -> Place]
         /\ sure' \in [Member -> 0 .. Ttl]
         /\ sure'[m] = t /\ view'[m] = 0 /\ pc'[m] = "idle"
         /\ \A q \in Member \ {m} : sure'[q] = sure[q] /\ view'[q] = view[q] /\ pc'[q] = pc[q]
<1>1. view' \in [Member -> 0 .. Last']
  BY Copies DEF Say
<1>2. pc' \in [Member -> Place]
  BY DEF Say, StoreType, Place
<1>3. sure' \in [Member -> 0 .. Ttl]
  BY DEF Say, StoreType
<1> QED BY <1>1, <1>2, <1>3 DEF Say, StoreType

\* The key is written by a call, which ends.
LEMMA Wrote ==
  ASSUME StoreType, NEW m \in Member, NEW x \in Entry, NEW t \in 0 .. Ttl,
         log' = Append(log, x), Say(m, t),
         left' \in 0 .. Ttl, alive' \in [Session -> 0 .. Ttl],
         sess' \in [Member -> 0 .. MaxSessions], UNCHANGED cursor,
         seen' = seen \/ SeeOwn(m)
  PROVE  StoreType'
<1>1. /\ log' \in Seq(Entry) /\ Last' = Last + 1 /\ Last' \in Nat /\ Last' > 0 /\ Last' >= Last
  BY Appended
<1>2. seen' \in [Member -> 1 .. Last'] /\ cursor' \in [Member -> 1 .. Last']
  <2>1. seen \in [Member -> 1 .. Last'] /\ cursor \in [Member -> 1 .. Last'] /\ Last + 1 \in 1 .. Last'
    BY <1>1, Copies
  <2> QED BY <2>1 DEF SeeOwn
<1> QED BY <1>1, <1>2, Answer, StoreTypeAfter

\* A call ends and has not written.
LEMMA Ended ==
  ASSUME StoreType, NEW m \in Member, NEW t \in 0 .. Ttl, Say(m, t),
         alive' \in [Session -> 0 .. Ttl], sess' \in [Member -> 0 .. MaxSessions],
         UNCHANGED <<log, left, cursor, seen>>
  PROVE  StoreType'
BY Kept, Copies, Answer, StoreTypeAfter DEF StoreType

\* The key is written, and nobody waits for the answer.
LEMMA WroteAlone ==
  ASSUME StoreType, NEW x \in Entry, log' = Append(log, x),
         left' \in 0 .. Ttl, UNCHANGED <<alive, sess, cursor, seen, view, sure>>,
         pc' \in [Member -> Place]
  PROVE  StoreType'
BY Appended, Copies, StoreTypeAfter DEF StoreType

\* A member loads a copy.
LEMMA Loaded ==
  ASSUME StoreType, NEW m \in Member, NEW v \in 1 .. Last, view' = [view EXCEPT ![m] = v],
         alive' \in [Session -> 0 .. Ttl], UNCHANGED <<log, left, sess, cursor, seen, pc, sure>>
  PROVE  StoreType'
<1>1. view' \in [Member -> 0 .. Last']
  BY Kept, Copies
<1> QED BY <1>1, Kept, Copies, StoreTypeAfter DEF StoreType

\* A change reaches a member's copy.
LEMMA Delivered ==
  ASSUME StoreType, NEW m \in Member, Deliver(m)
  PROVE  StoreType' /\ Last' = Last /\ Key' = Key /\ \A q \in Member : seen'[q] >= seen[q]
<1>1. cursor[m] \in 1 .. Last /\ cursor[m] < Last /\ cursor[m] + 1 \in 1 .. Last /\ Last \in Nat
  BY Kept, Copies DEF StoreType, Deliver
<1>2. cursor' \in [Member -> 1 .. Last]
  BY <1>1 DEF Deliver, StoreType
<1>3. seen' \in [Member -> 1 .. Last] /\ \A q \in Member : seen'[q] >= seen[q]
  <2>1. seen' = [seen EXCEPT ![m] = IF seen[m] < cursor[m] + 1 THEN cursor[m] + 1 ELSE seen[m]]
    BY DEF Deliver
  <2>2. seen \in [Member -> 1 .. Last] /\ \A q \in Member : seen[q] \in 1 .. Last
    BY DEF StoreType
  <2> QED BY <1>1, <2>1, <2>2
<1>4. UNCHANGED <<log, left, alive, sess, view, pc, sure>>
  BY DEF Deliver
<1> QED BY <1>2, <1>3, <1>4, Kept, Copies, StoreTypeAfter DEF StoreType

\* The copy is replaced by another, and the history goes on from some entry.
LEMMA Rebuilt ==
  ASSUME StoreType, NEW m \in Member, NEW p \in 1 .. Last, NEW r \in 1 .. Last,
         cursor' = [cursor EXCEPT ![m] = p], seen' = [seen EXCEPT ![m] = r],
         UNCHANGED <<log, left, alive, sess, view, pc, sure>>
  PROVE  StoreType'
<1>1. cursor' \in [Member -> 1 .. Last'] /\ seen' \in [Member -> 1 .. Last']
  BY Kept DEF StoreType
<1> QED BY <1>1, Kept, Copies, StoreTypeAfter DEF StoreType

\* Nothing grows as time passes, and what is ordered stays so.
LEMMA Decrease ==
  \A p \in Nat : Dec(p) \in Nat /\ Dec(p) <= p /\ (Dec(p) > 0 => p > 0)
BY DEF Dec
LEMMA DecreaseOrder ==
  \A p, q \in Nat : p <= q => Dec(p) <= Dec(q)
BY DEF Dec

LEMMA Passed ==
  ASSUME StoreType, PassTime
  PROVE  StoreType' /\ Last' = Last /\ Key' = Key
<1>1. left' \in 0 .. Ttl
  BY Constants, Decrease DEF StoreType, PassTime
<1>2. \A p \in 0 .. Ttl : Dec(p) \in 0 .. Ttl
  BY Constants, Decrease
<1>3. alive' \in [Session -> 0 .. Ttl]
  BY <1>2 DEF StoreType, PassTime
<1>4. sure' \in [Member -> 0 .. Ttl]
  BY <1>2 DEF StoreType, PassTime
<1> QED BY <1>1, <1>3, <1>4, Kept, Copies, StoreTypeAfter DEF StoreType, PassTime

-----------------------------------------------------------------------------
\* The steps of LeaderKey, as the back ends take them.

LeaderKeyStep ==
  [LK!LeaderKeyNext \/ Recreated' \/ \E m \in Member : Misled(m)]_(LK!leaderKeyVars)

LEMMA Granted ==
  ASSUME NEW m \in Member, NEW t \in 0 .. Ttl, Say(m, t), Holder \in {None, m}, Holder' = m
  PROVE  LeaderKeyStep
BY DEF Say, LK!Grant, LK!LeaderKeyNext, LeaderKeyStep

LEMMA Refused ==
  ASSUME NEW m \in Member, Say(m, 0), Holder' = Holder
  PROVE  LeaderKeyStep
BY DEF Say, LK!Refuse, LK!LeaderKeyNext, LeaderKeyStep

LEMMA Released ==
  ASSUME NEW m \in Member, Say(m, 0), Holder = m, Holder' = None
  PROVE  LeaderKeyStep
BY DEF Say, LK!Release, LK!LeaderKeyNext, LeaderKeyStep

LEMMA Lapsed ==
  ASSUME Holder # None, sure[Holder] = 0, Holder' = None, UNCHANGED sure
  PROVE  LeaderKeyStep
BY DEF LK!Lapse, LK!LeaderKeyNext, LeaderKeyStep

LEMMA TimePassed ==
  ASSUME PassTime, Holder' = Holder \/ (Holder # None /\ sure'[Holder] = 0 /\ Holder' = None)
  PROVE  LeaderKeyStep
<1>1. sure' = LK!Elapse(sure)
  BY DEF PassTime, LK!Elapse, Dec
<1> QED BY <1>1 DEF LK!Pass, LK!LeaderKeyNext, LeaderKeyStep

LEMMA Unnoticed ==
  ASSUME Holder' = Holder, UNCHANGED sure
  PROVE  LeaderKeyStep
BY DEF LK!leaderKeyVars, LeaderKeyStep

-----------------------------------------------------------------------------
\* etcd v2.

\* A TRUE is good for no longer than the key lives.
SureByTime == \A m \in Member : sure[m] > 0 => Key.owner = m /\ sure[m] <= left

EtcdInv == StoreType /\ SureByTime

LEMMA SureOwner ==
  ASSUME StoreType, SureByTime, Key.owner = None \/ left = 0
  PROVE  \A m \in Member : sure[m] = 0
<1> SUFFICES ASSUME NEW m \in Member PROVE sure[m] = 0
  OBVIOUS
<1>1. sure[m] \in Nat
  BY Constants DEF StoreType
<1> QED BY <1>1, Constants DEF SureByTime

LEMMA SureTimePasses ==
  ASSUME StoreType, SureByTime, PassTime
  PROVE  SureByTime'
<1> SUFFICES ASSUME NEW m \in Member, sure'[m] > 0 PROVE Key'.owner = m /\ sure'[m] <= left'
  BY DEF SureByTime
<1>1. sure[m] \in Nat /\ left \in Nat /\ sure'[m] = Dec(sure[m]) /\ left' = Dec(left)
  BY Constants DEF StoreType, PassTime
<1>2. sure[m] > 0
  BY <1>1, Decrease
<1> QED BY <1>1, <1>2, Passed, DecreaseOrder DEF SureByTime

\* Each step of the HA cycle, of the server and of time is one of LeaderKey
\* (etcd.py attempt_to_acquire_leader, _update_leader, _delete_leader).
LEMMA EtcdStep ==
  ASSUME EtcdInv, Etcd!EtcdNext, backend = "etcd", UNCHANGED backend
  PROVE  EtcdInv' /\ LeaderKeyStep
<1> USE Constants DEF EtcdInv
<1>h. Holder = Key.owner /\ Holder' = Key'.owner
  BY DEF Holder
<1>e. /\ Nobody \in Entry /\ Nobody.owner = None
      /\ \A m \in Member : Etcd!Mine(m) \in Entry /\ Etcd!Mine(m).owner = m
  BY DEF Etcd!Mine, Nobody, Entry
<1>t. 0 \in 0 .. Ttl /\ Ttl \in 0 .. Ttl
  OBVIOUS
<1>k. /\ alive \in [Session -> 0 .. Ttl] /\ sess \in [Member -> 0 .. MaxSessions]
      /\ left \in 0 .. Ttl
  BY DEF StoreType
<1>w. ASSUME NEW m \in Member, Etcd!Written(m), Key.owner \in {m, None},
             UNCHANGED <<alive, sess, cursor, seen>>
      PROVE  EtcdInv' /\ LeaderKeyStep
  <2>1. log' = Append(log, Etcd!Mine(m)) /\ left' = Ttl
    BY <1>w DEF Etcd!Written, Etcd!Put
  <2>2. PICK t \in {0, Ttl} : Say(m, t)
    BY <1>w DEF Etcd!Written, Etcd!Say, Etcd!SayNo, Say
  <2>3. t \in 0 .. Ttl
    BY <1>t
  <2>4. StoreType'
    BY <1>w, <1>e, <1>t, <1>k, <2>1, <2>2, <2>3, Wrote
  <2>5. Key' = Etcd!Mine(m)
    BY <2>1, <1>e, Appended
  <2>6. \A q \in Member \ {m} : sure[q] = 0
    <3> SUFFICES ASSUME NEW q \in Member, q # m PROVE sure[q] = 0
      OBVIOUS
    <3>1. sure[q] \in Nat
      BY DEF StoreType
    <3> QED BY <1>w, <3>1 DEF SureByTime
  <2>7. SureByTime'
    BY <1>e, <2>1, <2>2, <2>5, <2>6 DEF Say, SureByTime, StoreType
  <2>8. LeaderKeyStep
    BY <1>w, <1>h, <1>e, <2>2, <2>3, <2>5, Granted
  <2> QED BY <2>4, <2>7, <2>8
<1>r. ASSUME NEW m \in Member, Etcd!SayNo(m), UNCHANGED <<log, left, alive, sess, cursor, seen>>
      PROVE  EtcdInv' /\ LeaderKeyStep
  <2>1. Say(m, 0)
    BY <1>r DEF Etcd!SayNo, Etcd!Say, Say
  <2>2. StoreType' /\ Key' = Key
    BY <1>r, <1>t, <1>k, <2>1, Ended, Kept
  <2>3. SureByTime'
    BY <1>r, <2>1, <2>2 DEF Say, SureByTime, StoreType
  <2> QED BY <2>1, <2>2, <2>3, <1>h, Refused
<1>1. ASSUME NEW m \in Member, Etcd!LoadCluster(m) PROVE EtcdInv' /\ LeaderKeyStep
  <2>1. seen[m] \in 1 .. Last
    BY DEF StoreType
  <2>2. view' = [view EXCEPT ![m] = seen[m]] /\ UNCHANGED <<log, left, alive, sess, cursor, seen, pc, sure>>
    BY <1>1 DEF Etcd!LoadCluster, Etcd!Load
  <2>3. StoreType' /\ Key' = Key
    BY <1>k, <2>1, <2>2, Loaded, Kept
  <2> QED BY <2>2, <2>3, <1>h, Unnoticed DEF SureByTime
<1>2. ASSUME NEW m \in Member, Etcd!Deliver(m) PROVE EtcdInv' /\ LeaderKeyStep
  <2>1. Deliver(m) /\ UNCHANGED <<left, sure>>
    BY <1>2 DEF Etcd!Deliver, Etcd!Last, Deliver, Last
  <2> QED BY <2>1, <1>h, Delivered, Unnoticed DEF SureByTime
<1>3. ASSUME NEW m \in Member, Etcd!GiveUp(m) PROVE EtcdInv' /\ LeaderKeyStep
  BY <1>3, <1>r DEF Etcd!GiveUp
<1>4. ASSUME NEW m \in Member, Etcd!AttemptToAcquireLeader(m) PROVE EtcdInv' /\ LeaderKeyStep
  BY <1>4, <1>w, <1>r DEF Etcd!AttemptToAcquireLeader, Etcd!Denied, Etcd!Key, Etcd!Last, Key, Last
<1>5. ASSUME NEW m \in Member, Etcd!UpdateLeader(m) PROVE EtcdInv' /\ LeaderKeyStep
  BY <1>5, <1>w, <1>r DEF Etcd!UpdateLeader, Etcd!Denied, Etcd!Key, Etcd!Last, Key, Last
<1>6. ASSUME NEW m \in Member, Etcd!DeleteLeader(m) PROVE EtcdInv' /\ LeaderKeyStep
  <2>1. CASE Key.owner # m
    BY <1>6, <2>1, <1>r DEF Etcd!DeleteLeader, Etcd!Key, Etcd!Last, Key, Last
  <2>2. CASE Key.owner = m
    <3>1. /\ log' = Append(log, Nobody) /\ left' = 0 /\ Say(m, 0)
          /\ UNCHANGED <<alive, sess, cursor, seen>>
      BY <1>6, <2>2 DEF Etcd!DeleteLeader, Etcd!Put, Etcd!SayNo, Etcd!Say, Say, Etcd!Key, Etcd!Last,
                        Key, Last, Etcd!Nobody, Nobody
    <3>2. StoreType' /\ Key' = Nobody
      BY <3>1, <1>e, <1>t, <1>k, Wrote, Appended
    <3>3. \A q \in Member : sure'[q] = 0
      <4> SUFFICES ASSUME NEW q \in Member PROVE sure'[q] = 0
        OBVIOUS
      <4>1. sure[q] \in Nat /\ (sure[q] > 0 => q = m)
        BY <2>2 DEF StoreType, SureByTime
      <4> QED BY <3>1, <4>1 DEF Say, StoreType
    <3>4. SureByTime'
      BY <3>3 DEF SureByTime
    <3> QED BY <2>2, <1>h, <1>e, <3>1, <3>2, <3>4, Released
  <2> QED BY <2>1, <2>2
<1>7. CASE Etcd!Expire
  <2>1. /\ log' = Append(log, Nobody) /\ Key.owner # None /\ left = 0
        /\ UNCHANGED <<left, alive, sess, cursor, seen, view, pc, sure>>
    BY <1>7 DEF Etcd!Expire, Etcd!Put, Etcd!Key, Etcd!Last, Key, Last, Etcd!Nobody, Nobody
  <2>2. StoreType' /\ Key' = Nobody
    BY <2>1, <1>e, <1>k, WroteAlone, Appended DEF StoreType
  <2>3. \A m \in Member : sure[m] = 0
    BY <2>1, SureOwner
  <2>4. SureByTime'
    BY <2>1, <2>3 DEF SureByTime
  <2>5. Key.owner \in Member
    BY <2>1, Entries
  <2> QED BY <1>h, <1>e, <2>1, <2>2, <2>3, <2>4, <2>5, Lapsed
<1>8. CASE Etcd!Tick
  <2>1. PassTime
    BY <1>8 DEF Etcd!Tick, Etcd!PassTime, PassTime, Etcd!Dec, Dec, Etcd!Session, Session
  <2> QED BY <2>1, <1>h, Passed, SureTimePasses, TimePassed
<1> QED
  BY <1>1, <1>2, <1>3, <1>4, <1>5, <1>6, <1>7, <1>8 DEF Etcd!EtcdNext

-----------------------------------------------------------------------------
\* Sessions (etcd v3, Consul, ZooKeeper).

\* No two members have one session; what is written names its writer's session, and
\* a session that a member has now wrote only for it.
SessionsApart == \A p, q \in Member : sess[p] # 0 /\ sess[p] = sess[q] => p = q
WriterNamed ==
  \A x \in 1 .. Last : IF log[x].owner = None THEN log[x].by = 0 ELSE log[x].by \in Session
WriterKnown ==
  \A x \in 1 .. Last, q \in Member : sess[q] # 0 /\ log[x].by = sess[q] => log[x].owner = q
SessionsInv == SessionsApart /\ WriterNamed /\ WriterKnown

\* A TRUE given to the holder of the key is good for no longer than the key's session.
SureBySession == \A q \in Member : Key.owner = q => sure[q] <= alive[Key.by]

\* What a member's live session has written, as of entry x, is there.
Current(q, x) == log[x].by = sess[q] /\ Live(q) => Key.by = sess[q]

\* A session is kept alive, or replaced when it is gone.
Renewed(m) ==
  \/ /\ Live(m) /\ UNCHANGED sess
     /\ alive' = [alive EXCEPT ![sess[m]] = Ttl] \/ UNCHANGED alive
  \/ /\ ~Live(m)
     /\ \E s \in Unused : alive' = [alive EXCEPT ![s] = Ttl] /\ sess' = [sess EXCEPT ![m] = s]

\* It is the member's own then, and nobody else's session has changed.
LEMMA Renewal ==
  ASSUME StoreType, SessionsInv, NEW m \in Member, Renewed(m)
  PROVE  /\ alive' \in [Session -> 0 .. Ttl] /\ sess' \in [Member -> 0 .. MaxSessions]
         /\ sess'[m] \in Session /\ sess'[m] # 0 /\ alive'[sess'[m]] \in 0 .. Ttl
         /\ \A q \in Member \ {m} : sess'[q] = sess[q] /\ sess'[q] # sess'[m]
                                    /\ (sess[q] # 0 => alive'[sess[q]] = alive[sess[q]])
         /\ \A s \in Session : alive'[s] >= alive[s]
         /\ \A x \in 1 .. Last : log[x].by = sess'[m] => sess'[m] = sess[m] /\ Live(m)
<1> USE Constants
<1>1. /\ \A q \in Member : sess[q] \in 0 .. MaxSessions
      /\ \A s \in Session : s \in Nat /\ s # 0 /\ alive[s] \in 0 .. Ttl
      /\ \A s \in 0 .. MaxSessions : s # 0 => s \in Session
      /\ \A s \in Session : s \in 0 .. MaxSessions
  BY DEF StoreType, Session
<1>2. CASE Live(m)
  <2>1. sess' = sess /\ sess[m] # 0 /\ sess[m] \in Session
    BY <1>1, <1>2 DEF Renewed, Live
  <2>2. /\ alive' \in [Session -> 0 .. Ttl]
        /\ \A s \in Session : alive'[s] >= alive[s] /\ (s # sess[m] => alive'[s] = alive[s])
    BY <1>1, <1>2, <2>1 DEF Renewed, StoreType
  <2>3. \A q \in Member \ {m} : sess[q] # sess[m]
    BY <2>1 DEF SessionsInv, SessionsApart
  <2> QED BY <1>1, <1>2, <2>1, <2>2, <2>3 DEF StoreType
<1>3. CASE ~Live(m)
  <2>1. PICK s \in Unused : alive' = [alive EXCEPT ![s] = Ttl] /\ sess' = [sess EXCEPT ![m] = s]
    BY <1>3 DEF Renewed
  <2>2. /\ s \in Session /\ alive[s] = 0 /\ \A q \in Member : sess[q] # s
        /\ \A x \in 1 .. Last : log[x].by # s
    BY DEF Unused, Unknown
  <2>3. alive' \in [Session -> 0 .. Ttl] /\ \A r \in Session : alive'[r] >= alive[r]
    BY <1>1, <2>1, <2>2 DEF StoreType
  <2>4. sess' \in [Member -> 0 .. MaxSessions] /\ sess'[m] = s
        /\ \A q \in Member \ {m} : sess'[q] = sess[q]
    BY <1>1, <2>1, <2>2 DEF StoreType
  <2>5. \A q \in Member \ {m} : sess[q] # 0 => alive'[sess[q]] = alive[sess[q]]
    BY <1>1, <2>1, <2>2 DEF StoreType
  <2> QED BY <1>1, <2>2, <2>3, <2>4, <2>5
<1> QED BY <1>2, <1>3

\* Sessions stay apart, and known by what they have written.
LEMMA SessionsKept ==
  ASSUME StoreType, SessionsInv, NEW m \in Member, Renewed(m) \/ UNCHANGED <<alive, sess>>,
         \/ UNCHANGED log
         \/ log' = Append(log, Nobody)
         \/ sess'[m] # 0 /\ log' = Append(log, [owner |-> m, by |-> sess'[m]])
  PROVE  SessionsInv'
<1> USE Constants
<1>e. /\ Nobody \in Entry /\ Nobody.owner = None /\ Nobody.by = 0
  BY DEF Nobody, Entry
<1>s. /\ sess' \in [Member -> 0 .. MaxSessions]
      /\ \A q \in Member \ {m} : sess'[q] = sess[q]
      /\ \A q \in Member \ {m} : sess'[m] # 0 => sess'[q] # sess'[m]
      /\ \A x \in 1 .. Last : sess'[m] # 0 /\ log[x].by = sess'[m] => sess'[m] = sess[m]
  <2>1. CASE Renewed(m)
    BY <2>1, Renewal
  <2>2. CASE UNCHANGED <<alive, sess>>
    BY <2>2 DEF SessionsInv, SessionsApart, StoreType
  <2> QED BY <2>1, <2>2
<1>m. /\ sess'[m] # 0 => sess'[m] \in Session
      /\ [owner |-> m, by |-> sess'[m]] \in Entry
  BY <1>s DEF Session, Entry
<1>1. SessionsApart'
  <2> SUFFICES ASSUME NEW p \in Member, NEW q \in Member, sess'[p] # 0, sess'[p] = sess'[q], p # q
               PROVE  FALSE
    BY DEF SessionsApart
  <2> QED BY <1>s DEF SessionsInv, SessionsApart
<1>2. \A x \in 1 .. Last, q \in Member : sess'[q] # 0 /\ log[x].by = sess'[q] => log[x].owner = q
  <2> SUFFICES ASSUME NEW x \in 1 .. Last, NEW q \in Member, sess'[q] # 0, log[x].by = sess'[q]
               PROVE  log[x].owner = q
    OBVIOUS
  <2>1. sess[q] = sess'[q]
    BY <1>s
  <2> QED BY <2>1 DEF SessionsInv, WriterKnown
<1>3. CASE UNCHANGED log
  BY <1>1, <1>2, <1>3, Kept DEF SessionsInv, WriterNamed, WriterKnown, Session
<1>4. CASE log' = Append(log, Nobody)
  <2>1. /\ Last' = Last + 1 /\ Last \in Nat /\ log'[Last'] = Nobody
        /\ \A x \in 1 .. Last : log'[x] = log[x]
    BY <1>4, <1>e, Appended, Entries DEF Key
  <2>2. \A x \in 1 .. Last' : x \in 1 .. Last \/ x = Last'
    BY <2>1
  <2>3. WriterNamed'
    BY <1>e, <2>1, <2>2 DEF SessionsInv, WriterNamed, Session
  <2>4. WriterKnown'
    BY <1>e, <1>2, <2>1, <2>2 DEF WriterKnown
  <2> QED BY <1>1, <2>3, <2>4 DEF SessionsInv
<1>5. CASE sess'[m] # 0 /\ log' = Append(log, [owner |-> m, by |-> sess'[m]])
  <2>1. /\ Last' = Last + 1 /\ Last \in Nat
        /\ log'[Last'].owner = m /\ log'[Last'].by = sess'[m]
        /\ \A x \in 1 .. Last : log'[x] = log[x]
    <3>1. Key' = [owner |-> m, by |-> sess'[m]] /\ Last' = Last + 1 /\ Last \in Nat
          /\ \A x \in 1 .. Last : log'[x] = log[x]
      BY <1>5, <1>m, Appended, Entries
    <3>2. log'[Last'] = [owner |-> m, by |-> sess'[m]]
      BY <3>1 DEF Key
    <3> QED BY <3>1, <3>2
  <2>2. \A x \in 1 .. Last' : x \in 1 .. Last \/ x = Last'
    BY <2>1
  <2>3. WriterNamed'
    <3> SUFFICES ASSUME NEW x \in 1 .. Last'
                 PROVE  IF log'[x].owner = None THEN log'[x].by = 0 ELSE log'[x].by \in Session
      BY DEF WriterNamed, Session
    <3>1. CASE x \in 1 .. Last
      BY <3>1, <2>1 DEF SessionsInv, WriterNamed
    <3>2. CASE x = Last'
      BY <3>2, <1>5, <1>m, <2>1
    <3> QED BY <3>1, <3>2, <2>2
  <2>4. WriterKnown'
    <3> SUFFICES ASSUME NEW x \in 1 .. Last', NEW q \in Member, sess'[q] # 0, log'[x].by = sess'[q]
                 PROVE  log'[x].owner = q
      BY DEF WriterKnown
    <3>1. CASE x \in 1 .. Last
      BY <3>1, <1>2, <2>1
    <3>2. CASE x = Last'
      <4>1. sess'[q] = sess'[m]
        BY <3>2, <2>1
      <4>2. q = m
        BY <4>1, <1>5, <1>s
      <4> QED BY <4>2, <3>2, <2>1
    <3> QED BY <3>1, <3>2, <2>2
  <2> QED BY <1>1, <2>3, <2>4 DEF SessionsInv
<1> QED BY <1>3, <1>4, <1>5
-----------------------------------------------------------------------------
\* The answers, and the session of the key.

\* The holder is not sure any more when the session has ended.
LEMMA SureHolder ==
  ASSUME StoreType, SureBySession, Key.owner # None, alive[Key.by] = 0
  PROVE  Key.owner \in Member /\ sure[Key.owner] = 0
<1>1. Key.owner \in Member
  BY Entries
<1>2. sure[Key.owner] \in Nat /\ sure[Key.owner] <= 0
  BY <1>1, Constants DEF SureBySession, StoreType
<1> QED BY <1>1, <1>2

\* An answer, when the key stays.
LEMMA SureAnswered ==
  ASSUME StoreType, SessionsInv, SureBySession, NEW m \in Member, NEW t \in 0 .. Ttl, Say(m, t),
         alive' \in [Session -> 0 .. Ttl], \A s \in Session : alive'[s] >= alive[s],
         Key' = Key, t > 0 /\ Key.owner = m => t <= alive'[Key.by]
  PROVE  SureBySession'
<1> USE Constants
<1> SUFFICES ASSUME NEW q \in Member, Key.owner = q PROVE sure'[q] <= alive'[Key.by]
  BY DEF SureBySession
<1>1. Key.by \in Session
  BY Entries DEF SessionsInv, WriterNamed
<1>2. alive[Key.by] \in Nat /\ alive'[Key.by] \in Nat /\ alive'[Key.by] >= alive[Key.by]
  BY <1>1 DEF StoreType
<1>3. CASE q = m
  BY <1>2, <1>3 DEF Say, StoreType
<1>4. CASE q # m
  <2>1. sure'[q] = sure[q] /\ sure[q] \in Nat
    BY <1>4 DEF Say, StoreType
  <2> QED BY <1>2, <2>1 DEF SureBySession
<1> QED BY <1>3, <1>4

\* An answer, when the member has written the key or removed it.
LEMMA SureWritten ==
  ASSUME StoreType, NEW m \in Member, NEW t \in 0 .. Ttl, Say(m, t),
         Key'.owner \in {m, None}, Key'.owner = m => t <= alive'[Key'.by]
  PROVE  SureBySession'
<1>1. sure'[m] = t
  BY DEF Say, StoreType
<1> QED BY <1>1, Constants DEF SureBySession

\* Time passes for the session as for the answer.
LEMMA SureSessionPasses ==
  ASSUME StoreType, SessionsInv, SureBySession, PassTime
  PROVE  SureBySession'
<1> USE Constants
<1>1. Key' = Key
  BY Passed
<1> SUFFICES ASSUME NEW q \in Member, Key.owner = q PROVE sure'[q] <= alive'[Key.by]
  BY <1>1 DEF SureBySession
<1>2. sure[q] \in Nat /\ sure'[q] = Dec(sure[q])
  BY DEF StoreType, PassTime
<1>3. Key.by \in Session
  BY Entries DEF SessionsInv, WriterNamed
<1>4. alive[Key.by] \in Nat /\ alive'[Key.by] = Dec(alive[Key.by])
  BY <1>3 DEF StoreType, PassTime
<1> QED BY <1>2, <1>4, DecreaseOrder DEF SureBySession

\* What a session has written is still there: no step in which the key and the
\* member's session stay changes that, nor a write of somebody else's who found the key
\* to be free or his own.
LEMMA CurrentKept ==
  ASSUME StoreType, NEW q \in Member, NEW x \in 1 .. Last, Current(q, x),
         Live(q)' => Live(q), sess'[q] = sess[q], log'[x] = log[x],
         \/ Key' = Key
         \/ Key.by # sess[q]
  PROVE  Current(q, x)'
BY DEF Current, Live
-----------------------------------------------------------------------------
\* What the steps of the back ends with sessions have in common.

LeaseInv == SessionsInv /\ SureBySession

\* Who owns the key and whose session it is go together.
LEMMA KeySession ==
  ASSUME StoreType, SessionsInv
  PROVE  /\ \A q \in Member : sess[q] # 0 /\ Key.by = sess[q] => Key.owner = q
         /\ Key.owner = None => Key.by = 0
         /\ Key.owner # None => Key.by \in Session /\ Key.owner \in Member
BY Entries DEF SessionsInv, WriterKnown, WriterNamed

\* What a member's call does to the session of another: nothing.
LEMMA OtherSessions ==
  ASSUME StoreType, SessionsInv, NEW m \in Member, Renewed(m) \/ UNCHANGED <<alive, sess>>
  PROVE  /\ alive' \in [Session -> 0 .. Ttl] /\ sess' \in [Member -> 0 .. MaxSessions]
         /\ \A s \in Session : alive'[s] >= alive[s]
         /\ \A q \in Member \ {m} : sess'[q] = sess[q] /\ (Live(q)' => Live(q))
<1>1. CASE Renewed(m)
  BY <1>1, Renewal DEF Live
<1>2. CASE UNCHANGED <<alive, sess>>
  <2>1. \A s \in Session : alive[s] \in Nat
    BY Constants DEF StoreType
  <2> QED BY <1>2, <2>1 DEF StoreType, Live
<1> QED BY <1>1, <1>2

\* A member is left alone if the key stays, or was not of its session.
Spared(q) == \/ ~Live(q)'
             \/ /\ sess'[q] = sess[q] /\ Live(q)
                /\ Key' = Key \/ Key.by # sess[q]

LEMMA RenewedCurrent ==
  ASSUME StoreType, SessionsInv, NEW m \in Member, Renewed(m) \/ UNCHANGED <<alive, sess>>,
         NEW x \in 1 .. Last, Current(m, x), UNCHANGED log
  PROVE  Current(m, x)'
<1>1. log'[x] = log[x] /\ Key' = Key
  BY Kept
<1>2. CASE UNCHANGED <<alive, sess>>
  BY <1>1, <1>2 DEF Current, Live
<1>3. CASE Renewed(m) /\ log[x].by = sess'[m]
  <2>1. sess'[m] = sess[m] /\ Live(m)
    BY <1>3, Renewal
  <2> QED BY <1>1, <2>1, CurrentKept
<1>4. CASE log[x].by # sess'[m]
  BY <1>1, <1>4 DEF Current
<1> QED BY <1>2, <1>3, <1>4

\* The member sees to its session, or reads; the key and the answers stay.
LEMMA LeaseQuiet ==
  ASSUME StoreType, LeaseInv, NEW m \in Member, Renewed(m) \/ UNCHANGED <<alive, sess>>,
         UNCHANGED <<log, sure>>
  PROVE  LeaseInv' /\ Key' = Key /\ Last' = Last /\ \A q \in Member \ {m} : Spared(q)
<1> USE DEF LeaseInv
<1>1. SessionsInv' /\ Key' = Key /\ Last' = Last
  BY SessionsKept, Kept
<1>2. SureBySession'
  <2> SUFFICES ASSUME NEW q \in Member, Key.owner = q PROVE sure[q] <= alive'[Key.by]
    BY <1>1 DEF SureBySession
  <2>1. sure[q] <= alive[Key.by] /\ sure[q] \in Nat
    BY DEF SureBySession, StoreType
  <2>2. Key.by \in Session
    BY <2>1, KeySession, Constants
  <2>3. alive[Key.by] \in 0 .. Ttl
    BY <2>2 DEF StoreType
  <2>4. alive'[Key.by] \in 0 .. Ttl /\ alive'[Key.by] >= alive[Key.by]
    BY <2>2, OtherSessions
  <2> QED BY <2>1, <2>3, <2>4, Constants
<1>3. ASSUME NEW q \in Member, q # m PROVE Spared(q)
  BY <1>1, <1>3, OtherSessions DEF Spared
<1> QED BY <1>1, <1>2, <1>3

\* The member forgets its session.
LEMMA LeaseForgotten ==
  ASSUME StoreType, LeaseInv, NEW m \in Member, sess' = [sess EXCEPT ![m] = 0],
         UNCHANGED <<log, left, alive, cursor, seen, view, pc, sure>>
  PROVE  StoreType' /\ LeaseInv' /\ Key' = Key /\ Last' = Last /\ \A q \in Member : Spared(q)
<1> USE DEF LeaseInv
<1>1. sess'[m] = 0 /\ (\A q \in Member \ {m} : sess'[q] = sess[q])
      /\ sess' \in [Member -> 0 .. MaxSessions]
  BY Constants DEF StoreType
<1>2. StoreType' /\ Key' = Key /\ Last' = Last
  BY <1>1, Kept, Copies, StoreTypeAfter DEF StoreType
<1>3. SessionsApart'
  BY <1>1 DEF SessionsInv, SessionsApart
<1>4. WriterNamed' /\ WriterKnown'
  BY <1>1, <1>2 DEF SessionsInv, WriterNamed, WriterKnown, Session
<1>5. SureBySession'
  BY <1>2 DEF SureBySession
<1>6. \A q \in Member : Spared(q)
  BY <1>1, <1>2 DEF Spared, Live
<1> QED BY <1>2, <1>3, <1>4, <1>5, <1>6 DEF SessionsInv

\* A call of the HA cycle that has not changed the key ...
LEMMA LeaseEnded ==
  ASSUME StoreType, LeaseInv, NEW m \in Member, NEW t \in 0 .. Ttl, Say(m, t),
         Renewed(m) \/ UNCHANGED <<alive, sess>>, UNCHANGED <<log, left, cursor, seen>>,
         t > 0 /\ Key.owner = m => t <= alive'[Key.by]
  PROVE  StoreType' /\ LeaseInv' /\ Key' = Key /\ Last' = Last /\ \A q \in Member \ {m} : Spared(q)
<1> USE DEF LeaseInv
<1>1. StoreType' /\ SessionsInv' /\ SureBySession' /\ Key' = Key /\ Last' = Last
  BY OtherSessions, Ended, SessionsKept, SureAnswered, Kept
<1>2. ASSUME NEW q \in Member, q # m PROVE Spared(q)
  BY <1>1, <1>2, OtherSessions DEF Spared
<1> QED BY <1>1, <1>2

\* ... and one that has written it with the member's session, or removed it: it was
\* free or the member's own.
LEMMA LeaseWritten ==
  ASSUME StoreType, LeaseInv, NEW m \in Member, NEW t \in 0 .. Ttl, Say(m, t),
         Renewed(m) \/ UNCHANGED <<alive, sess>>, UNCHANGED <<left, cursor>>,
         Key.owner \in {None, m}, seen' = seen \/ SeeOwn(m),
         \/ /\ log' = Append(log, [owner |-> m, by |-> sess'[m]]) /\ sess'[m] # 0
            /\ t <= alive'[sess'[m]]
         \/ log' = Append(log, Nobody) /\ t = 0
  PROVE  /\ StoreType' /\ LeaseInv' /\ \A q \in Member \ {m} : Spared(q)
         /\ \/ Key'.owner = m /\ Key'.by = sess'[m]
            \/ log' = Append(log, Nobody) /\ Key' = Nobody
<1> USE DEF LeaseInv
<1> DEFINE own == [owner |-> m, by |-> sess'[m]]
<1>e. own \in Entry /\ own.owner = m /\ own.by = sess'[m] /\ Nobody \in Entry
  BY OtherSessions, Constants DEF Entry, Nobody
<1>w. log' = Append(log, own) \/ log' = Append(log, Nobody)
  OBVIOUS
<1> HIDE DEF own
<1>1. /\ log' = Append(log, own) => Key' = own
      /\ log' = Append(log, Nobody) => Key' = Nobody
  BY <1>e, <1>w, Appended
<1>2. StoreType'
  <2>1. left' \in 0 .. Ttl
    BY DEF StoreType
  <2> QED BY <1>e, <1>w, <2>1, OtherSessions, Wrote
<1>3. SessionsInv'
  BY SessionsKept DEF own
<1>4. SureBySession'
  <2>1. Nobody.owner = None /\ m # None
    BY Constants DEF Nobody
  <2>2. Key'.owner \in {m, None} /\ (Key'.owner = m => t <= alive'[Key'.by])
    BY <1>1, <1>w, <1>e, <2>1 DEF own
  <2> QED BY <2>2, SureWritten
<1>5. ASSUME NEW q \in Member, q # m PROVE Spared(q)
  <2> SUFFICES ASSUME Live(q)' PROVE Live(q) /\ sess'[q] = sess[q] /\ Key.by # sess[q]
    BY DEF Spared
  <2>1. Live(q) /\ sess'[q] = sess[q] /\ sess[q] # 0
    BY <1>5, OtherSessions DEF Live
  <2> QED BY <1>5, <2>1, KeySession, Constants
<1> QED BY <1>w, <1>1, <1>e, <1>2, <1>3, <1>4, <1>5

\* A session ends, and the key with it.
LEMMA LeaseExpired ==
  ASSUME StoreType, LeaseInv, log' = Append(log, Nobody), Key.owner # None, alive[Key.by] = 0,
         UNCHANGED <<left, alive, sess, cursor, seen, view, pc, sure>>
  PROVE  /\ StoreType' /\ LeaseInv' /\ Key'.owner = None /\ \A q \in Member : Spared(q)
         /\ Key.owner \in Member /\ sure[Key.owner] = 0
<1> USE DEF LeaseInv
<1>e. Nobody \in Entry /\ Nobody.owner = None
  BY DEF Nobody, Entry
<1>1. left \in 0 .. Ttl /\ pc \in [Member -> Place] /\ alive \in [Session -> 0 .. Ttl]
  BY DEF StoreType
<1>2. StoreType' /\ Key' = Nobody
  BY <1>e, <1>1, WroteAlone, Appended
<1>3. Key.owner \in Member /\ sure[Key.owner] = 0
  BY SureHolder
<1>4. SessionsInv'
  BY <1>3, SessionsKept
<1>5. SureBySession'
  BY <1>e, <1>2, Constants DEF SureBySession
<1>6. \A q \in Member : Spared(q)
  BY DEF Spared, Live
<1> QED BY <1>e, <1>2, <1>3, <1>4, <1>5, <1>6

\* Time passes.
LEMMA LeasePassed ==
  ASSUME StoreType, LeaseInv, PassTime
  PROVE  StoreType' /\ LeaseInv' /\ Key' = Key /\ Last' = Last /\ \A q \in Member : Spared(q)
<1> USE DEF LeaseInv
<1>1. StoreType' /\ Key' = Key /\ Last' = Last /\ SureBySession'
  BY Passed, SureSessionPasses
<1>2. UNCHANGED <<log, sess>>
  BY DEF PassTime
<1>3. SessionsInv'
  BY <1>1, <1>2 DEF SessionsInv, SessionsApart, WriterNamed, WriterKnown, Session
<1>4. ASSUME NEW q \in Member PROVE Spared(q)
  <2> SUFFICES ASSUME Live(q)' PROVE Live(q)
    BY <1>1, <1>2 DEF Spared
  <2>1. sess[q] # 0 /\ sess[q] \in Session
    BY <1>2, Constants DEF Live, StoreType, Session
  <2>2. alive'[sess[q]] = Dec(alive[sess[q]]) /\ alive[sess[q]] \in Nat
    BY <2>1, Constants DEF StoreType, PassTime
  <2> QED BY <2>1, <2>2, <1>2, Decrease DEF Live
<1> QED BY <1>1, <1>3, <1>4

-----------------------------------------------------------------------------
\* The copies (ZooKeeper).

\* What a member has loaded, or would load, is current as to its own session.
CopiesCurrent ==
  \A q \in Member, x \in 1 .. Last : x >= seen[q] \/ x = view[q] => Current(q, x)

LEMMA CopiesCurrentKept ==
  ASSUME StoreType, CopiesCurrent, log' = log \/ \E x1 \in Entry : log' = Append(log, x1),
         \A q \in Member : seen'[q] >= seen[q] /\ view'[q] \in {0, view[q], seen[q]},
         seen' \in [Member -> 1 .. Last'],
         \A q \in Member :
            \/ Spared(q)
            \/ \A x \in 1 .. Last : x >= seen'[q] \/ x = view'[q] => Current(q, x)'
  PROVE  CopiesCurrent'
<1>1. /\ Last \in Nat /\ Last' \in {Last, Last + 1}
      /\ \A x \in 1 .. Last : log'[x] = log[x]
  BY Appended, Kept, Entries
<1> SUFFICES ASSUME NEW q \in Member, NEW x \in 1 .. Last', x >= seen'[q] \/ x = view'[q]
             PROVE  Current(q, x)'
  BY DEF CopiesCurrent
<1>2. CASE x = Last'
  BY <1>2 DEF Current, Key
<1>3. CASE x # Last' /\ ~Spared(q)
  BY <1>1, <1>3
<1>4. CASE x # Last' /\ Spared(q)
  <2>1. x \in 1 .. Last
    BY <1>1, <1>4
  <2>2. x >= seen[q] \/ x = view[q]
    <3>1. seen[q] \in Nat /\ seen'[q] \in Nat /\ seen'[q] >= seen[q] /\ view'[q] \in {0, view[q], seen[q]}
      BY <1>1 DEF StoreType
    <3> QED BY <2>1, <3>1
  <2>3. Current(q, x)
    BY <2>1, <2>2 DEF CopiesCurrent
  <2> QED BY <1>1, <1>4, <2>1, <2>3, CurrentKept DEF Spared, Current
<1> QED BY <1>2, <1>3, <1>4

\* The copies do not go back in time when the member's own write is put into one.
LEMMA SeenGrows ==
  ASSUME StoreType, NEW m \in Member, seen' = seen \/ (SeeOwn(m) /\ Last' = Last + 1), Last' >= Last
  PROVE  /\ \A q \in Member : seen'[q] >= seen[q]
         /\ SeeOwn(m) => seen'[m] = Last + 1
<1>1. Last \in Nat /\ \A q \in Member : seen[q] \in 1 .. Last
  BY Entries DEF StoreType
<1>2. CASE seen' = seen
  <2>1. \A q \in Member : seen'[q] >= seen[q]
    BY <1>1, <1>2
  <2>2. SeeOwn(m) => seen'[m] = Last + 1
    BY DEF SeeOwn, StoreType
  <2> QED BY <2>1, <2>2
<1>3. CASE SeeOwn(m)
  BY <1>1, <1>3 DEF SeeOwn, StoreType
<1> QED BY <1>2, <1>3

\* The copies, as a call ends: without a change of the key ...
LEMMA CopiesEnded ==
  ASSUME StoreType, SessionsInv, CopiesCurrent, NEW m \in Member,
         Renewed(m) \/ UNCHANGED <<alive, sess>>, UNCHANGED <<log, seen>>, view'[m] \in {0, view[m], seen[m]},
         \A q \in Member \ {m} : Spared(q) /\ view'[q] = view[q]
  PROVE  CopiesCurrent'
<1>1. \A q \in Member : seen'[q] >= seen[q]
  BY Entries DEF StoreType
<1>2. ASSUME NEW x \in 1 .. Last, x >= seen'[m] \/ x = view'[m] PROVE Current(m, x)'
  <2>1. x >= seen[m] \/ x = view[m]
    BY <1>2, Entries DEF StoreType
  <2> QED BY <2>1, RenewedCurrent DEF CopiesCurrent
<1>3. seen' \in [Member -> 1 .. Last']
  BY Kept, Copies
<1> QED BY <1>1, <1>2, <1>3, CopiesCurrentKept

\* ... or with one, that the member's copy has if it removed the key.
LEMMA CopiesWritten ==
  ASSUME StoreType, StoreType', CopiesCurrent, NEW m \in Member, NEW x1 \in Entry,
         log' = Append(log, x1), seen' = seen \/ SeeOwn(m), view'[m] = 0,
         \A q \in Member \ {m} : Spared(q) /\ view'[q] = view[q],
         Key'.by = sess'[m] \/ ~Live(m)' \/ SeeOwn(m)
  PROVE  CopiesCurrent'
<1>1. Last' = Last + 1 /\ Last \in Nat
  BY Appended, Entries
<1>2. (\A q \in Member : seen'[q] >= seen[q]) /\ (SeeOwn(m) => seen'[m] = Last + 1)
  BY <1>1, SeenGrows
<1>3. ASSUME NEW x \in 1 .. Last, x >= seen'[m] \/ x = view'[m] PROVE Current(m, x)'
  <2>1. CASE SeeOwn(m)
    BY <1>1, <1>2, <1>3, <2>1
  <2>2. CASE Key'.by = sess'[m] \/ ~Live(m)'
    BY <2>2 DEF Current
  <2> QED BY <2>1, <2>2
<1>4. \A q \in Member : view'[q] \in {0, view[q], seen[q]}
  OBVIOUS
<1> QED BY <1>2, <1>3, <1>4, CopiesCurrentKept DEF StoreType

-----------------------------------------------------------------------------
\* etcd v3.

\* Between the two calls of an update there is a copy, and a lease.
Refreshing == \A q \in Member : pc[q] = "refreshed" => view[q] # 0 /\ sess[q] # 0

LEMMA RefreshingEnded ==
  ASSUME StoreType, Refreshing, NEW m \in Member, NEW t \in 0 .. Ttl, Say(m, t),
         \A q \in Member \ {m} : sess'[q] = sess[q]
  PROVE  Refreshing'
BY DEF Refreshing, Say, StoreType

\* What a member's live session has written is there, or the member deleted it.
Deleted == extra \in [Member -> 0 .. MaxSessions]
LeaseUsed == \A q \in Member, x \in 1 .. Last : Current(q, x) \/ extra[q] = sess[q]

\* Since a member writes with its present session it has written with no other.
PresentLease ==
  \A q \in Member, x \in 1 .. Last, y \in 1 .. Last :
    sess[q] # 0 /\ log[x].by = sess[q] /\ x <= y /\ log[y].owner = q => log[y].by = sess[q]

LEMMA LeaseUsedKept ==
  ASSUME StoreType, LeaseUsed, log' = log \/ \E x1 \in Entry : log' = Append(log, x1),
         \A q \in Member : \/ Spared(q) /\ extra'[q] = extra[q]
                           \/ \A x \in 1 .. Last : Current(q, x)' \/ extra'[q] = sess'[q]
  PROVE  LeaseUsed'
<1>1. /\ Last \in Nat /\ Last' \in {Last, Last + 1}
      /\ \A x \in 1 .. Last : log'[x] = log[x]
  BY Appended, Kept, Entries
<1> SUFFICES ASSUME NEW q \in Member, NEW x \in 1 .. Last' PROVE Current(q, x)' \/ extra'[q] = sess'[q]
  BY DEF LeaseUsed
<1>2. CASE x = Last'
  BY <1>2 DEF Current, Key
<1>3. CASE x # Last' /\ ~(Spared(q) /\ extra'[q] = extra[q])
  BY <1>1, <1>3
<1>4. CASE x # Last' /\ Spared(q) /\ extra'[q] = extra[q]
  <2>1. x \in 1 .. Last
    BY <1>1, <1>4
  <2>2. CASE ~Live(q)'
    BY <2>2 DEF Current
  <2>3. CASE Live(q)'
    <3>1. Live(q) /\ sess'[q] = sess[q] /\ (Key' = Key \/ Key.by # sess[q])
      BY <1>4, <2>3 DEF Spared
    <3>2. Current(q, x) \/ extra[q] = sess[q]
      BY <2>1 DEF LeaseUsed
    <3> QED BY <1>1, <1>4, <2>1, <3>1, <3>2, CurrentKept
  <2> QED BY <2>2, <2>3
<1> QED BY <1>2, <1>3, <1>4

LEMMA RenewedUsed ==
  ASSUME StoreType, SessionsInv, LeaseUsed, NEW m \in Member, Renewed(m) \/ UNCHANGED <<alive, sess>>,
         UNCHANGED log, extra'[m] = extra[m]
  PROVE  \A x \in 1 .. Last : Current(m, x)' \/ extra'[m] = sess'[m]
<1> SUFFICES ASSUME NEW x \in 1 .. Last PROVE Current(m, x)' \/ extra'[m] = sess'[m]
  OBVIOUS
<1>1. CASE Current(m, x)
  BY <1>1, RenewedCurrent
<1>2. CASE extra[m] = sess[m] /\ sess'[m] = sess[m]
  BY <1>2
<1>3. CASE sess'[m] # sess[m]
  <2>1. log'[x].by # sess'[m]
    BY <1>3, Renewal
  <2> QED BY <2>1 DEF Current
<1> QED BY <1>1, <1>2, <1>3 DEF LeaseUsed

LEMMA PresentLeaseKept ==
  ASSUME StoreType, PresentLease,
         \A q \in Member, x \in 1 .. Last : sess'[q] # 0 /\ log[x].by = sess'[q] => sess'[q] = sess[q],
         \/ log' = log
         \/ \E x1 \in Entry : /\ log' = Append(log, x1)
                              /\ \A q \in Member : x1.owner = q => x1.by = sess'[q]
  PROVE  PresentLease'
<1>1. /\ Last \in Nat /\ Last' \in {Last, Last + 1}
      /\ \A x \in 1 .. Last : log'[x] = log[x]
      /\ \A q \in Member : Last' # Last /\ log'[Last'].owner = q => log'[Last'].by = sess'[q]
  BY Appended, Kept, Entries DEF Key
<1> SUFFICES ASSUME NEW q \in Member, NEW x \in 1 .. Last', NEW y \in 1 .. Last', sess'[q] # 0,
                    log'[x].by = sess'[q], x <= y, log'[y].owner = q
             PROVE  log'[y].by = sess'[q]
  BY DEF PresentLease
<1>2. CASE y \in 1 .. Last
  <2>1. x \in 1 .. Last
    BY <1>1, <1>2
  <2>2. sess[q] = sess'[q] /\ log[x].by = sess[q] /\ log[y].owner = q
    BY <1>1, <1>2, <2>1
  <2> QED BY <1>1, <1>2, <2>1, <2>2 DEF PresentLease
<1>3. CASE y \notin 1 .. Last
  BY <1>1, <1>3
<1> QED BY <1>2, <1>3

Etcd3Inv == StoreType /\ LeaseInv /\ Refreshing /\ Deleted /\ LeaseUsed /\ PresentLease

\* Each step of the HA cycle, of the cache, of the server and of time is one of
\* LeaderKey (etcd3.py attempt_to_acquire_leader, _update_leader, _delete_leader).
LEMMA Etcd3Step ==
  ASSUME Etcd3Inv, Etcd3!Etcd3Next, backend = "etcd3", UNCHANGED backend
  PROVE  Etcd3Inv' /\ LeaderKeyStep
<1> USE Constants DEF Etcd3Inv, LeaseInv
<1>h. Holder = Key.owner /\ Holder' = Key'.owner
  BY DEF Holder
<1>e. Nobody \in Entry /\ Nobody.owner = None /\ Nobody.by = 0
  BY DEF Nobody, Entry
<1>t. /\ 0 \in 0 .. Ttl
      /\ \A q \in Member : sess[q] # 0 => sess[q] \in Session /\ alive[sess[q]] \in 0 .. Ttl
      /\ \A q \in Member : seen[q] \in 1 .. Last
      /\ alive \in [Session -> 0 .. Ttl] /\ sess \in [Member -> 0 .. MaxSessions]
      /\ left \in 0 .. Ttl /\ pc \in [Member -> Place] /\ seen \in [Member -> 1 .. Last]
  BY DEF StoreType, Session
<1>k. Etcd3!Key = Key /\ Etcd3!Last = Last
  BY DEF Etcd3!Key, Etcd3!Last, Key, Last
<1>s. \A m \in Member, o \in Member \cup {None} : Etcd3!SeesOwner(m, o) <=> SeesOwner(m, o)
  BY DEF Etcd3!SeesOwner, SeesOwner
<1>f. ASSUME NEW m \in Member
      PROVE  /\ Etcd3!Refreshed(m) => Renewed(m)
             /\ Live(m) /\ UNCHANGED <<alive, sess>> => Renewed(m)
  <2>1. Etcd3!Unused = Unused /\ (Etcd3!Live(m) <=> Live(m))
    BY DEF Etcd3!Unused, Unused, Etcd3!Unknown, Unknown, Etcd3!Session, Session, Etcd3!Last, Last,
           Etcd3!Live, Live
  <2>2. ASSUME Etcd3!Refreshed(m) PROVE Renewed(m)
    BY <2>1, <2>2 DEF Etcd3!Refreshed, Renewed
  <2> QED BY <2>2 DEF Renewed
<1>g. ASSUME NEW m \in Member, Renewed(m) \/ UNCHANGED <<alive, sess>>
      PROVE  \A q \in Member, x \in 1 .. Last : sess'[q] # 0 /\ log[x].by = sess'[q] => sess'[q] = sess[q]
  BY <1>g, Renewal
\* the key is not written, ...
<1>y. ASSUME NEW m \in Member, Renewed(m) \/ UNCHANGED <<alive, sess>>, UNCHANGED <<log, extra>>,
             \A q \in Member \ {m} : Spared(q)
      PROVE  LeaseUsed' /\ PresentLease' /\ Deleted'
  <2>1. \A x \in 1 .. Last : Current(m, x)' \/ extra'[m] = sess'[m]
    BY <1>y, RenewedUsed
  <2>2. LeaseUsed'
    BY <1>y, <2>1, LeaseUsedKept
  <2>3. PresentLease'
    BY <1>y, <1>g, PresentLeaseKept
  <2> QED BY <1>y, <2>2, <2>3 DEF Deleted
<1>r. ASSUME NEW m \in Member, NEW t \in 0 .. Ttl, Say(m, t),
             Renewed(m) \/ UNCHANGED <<alive, sess>>, UNCHANGED <<log, left, cursor, seen, extra>>,
             t > 0 /\ Key.owner = m => t <= alive'[Key.by]
      PROVE  Etcd3Inv' /\ (t = 0 \/ Key.owner = m => LeaderKeyStep)
  <2>1. StoreType' /\ LeaseInv' /\ Key' = Key /\ \A q \in Member \ {m} : Spared(q)
    BY <1>r, LeaseEnded
  <2>2. LeaseUsed' /\ PresentLease' /\ Deleted'
    BY <1>r, <1>y, <2>1
  <2>3. Refreshing'
    BY <1>r, OtherSessions, RefreshingEnded
  <2>4. t = 0 \/ Key.owner = m => LeaderKeyStep
    BY <1>r, <1>h, <2>1, Granted, Refused
  <2> QED BY <2>1, <2>2, <2>3, <2>4
\* ... or by a member, ...
<1>w. ASSUME NEW m \in Member, NEW t \in 0 .. Ttl, Say(m, t),
             Renewed(m) \/ UNCHANGED <<alive, sess>>, UNCHANGED <<left, cursor, extra>>,
             Key.owner \in {None, m}, seen' = seen \/ SeeOwn(m),
             log' = Append(log, [owner |-> m, by |-> sess'[m]]), sess'[m] # 0,
             t <= alive'[sess'[m]]
      PROVE  Etcd3Inv' /\ LeaderKeyStep
  <2>1. StoreType' /\ LeaseInv' /\ \A q \in Member \ {m} : Spared(q)
    BY <1>w, LeaseWritten
  <2> DEFINE own == [owner |-> m, by |-> sess'[m]]
  <2>2. own \in Entry /\ own.owner = m /\ own.by = sess'[m]
    BY <1>w, OtherSessions DEF Entry
  <2> HIDE DEF own
  <2>3. Key' = own
    BY <1>w, <2>2, Appended DEF own
  <2>4. \A x \in 1 .. Last : Current(m, x)'
    BY <2>2, <2>3 DEF Current
  <2>5. log' = Append(log, own)
    BY <1>w DEF own
  <2>6. LeaseUsed'
    BY <1>w, <2>1, <2>2, <2>4, <2>5, LeaseUsedKept
  <2>7. PresentLease'
    BY <1>w, <1>g, <2>2, <2>5, PresentLeaseKept
  <2>8. Refreshing'
    BY <1>w, OtherSessions, RefreshingEnded
  <2>9. LeaderKeyStep
    BY <1>w, <1>h, <2>2, <2>3, Granted
  <2> QED BY <1>w, <2>1, <2>6, <2>7, <2>8, <2>9 DEF Deleted
\* ... or nothing happens but to the copies, ...
<1>q. ASSUME NEW m \in Member, StoreType', UNCHANGED <<log, alive, sess, sure, extra>>, Refreshing'
      PROVE  Etcd3Inv' /\ LeaderKeyStep
  <2>1. LeaseInv' /\ Key' = Key /\ Last' = Last /\ \A q \in Member \ {m} : Spared(q)
    BY <1>q, LeaseQuiet
  <2>2. LeaseUsed' /\ PresentLease' /\ Deleted'
    BY <1>q, <1>y, <2>1
  <2> QED BY <1>q, <1>h, <2>1, <2>2, Unnoticed
\* ... or to all.
<1>a. ASSUME UNCHANGED <<extra, sess>>, log' = log \/ log' = Append(log, Nobody), \A q \in Member : Spared(q)
      PROVE  LeaseUsed' /\ PresentLease' /\ Deleted'
  <2>1. LeaseUsed'
    BY <1>a, <1>e, LeaseUsedKept
  <2>2. PresentLease'
    BY <1>a, <1>e, PresentLeaseKept
  <2> QED BY <1>a, <2>1, <2>2 DEF Deleted
<1>1. ASSUME NEW m \in Member, Etcd3!LoadCluster(m) PROVE Etcd3Inv' /\ LeaderKeyStep
  <2>1. /\ pc[m] = "idle" /\ view' = [view EXCEPT ![m] = seen[m]]
        /\ UNCHANGED <<log, left, alive, sess, cursor, seen, pc, sure, extra>>
    BY <1>1 DEF Etcd3!LoadCluster, Etcd3!Load
  <2>2. StoreType'
    BY <1>t, <2>1, Loaded
  <2>3. Refreshing'
    BY <2>1 DEF Refreshing, StoreType
  <2> QED BY <1>q, <2>1, <2>2, <2>3
<1>2. ASSUME NEW m \in Member, Etcd3!ProcessEvent(m) PROVE Etcd3Inv' /\ LeaderKeyStep
  <2>1. /\ cursor[m] < Last /\ cursor' = [cursor EXCEPT ![m] = @ + 1]
        /\ seen' = [seen EXCEPT ![m] = cursor[m] + 1] \/ UNCHANGED seen
        /\ UNCHANGED <<log, left, alive, sess, view, pc, sure, extra>>
    BY <1>2, <1>k DEF Etcd3!ProcessEvent
  <2>2. cursor[m] + 1 \in 1 .. Last /\ seen[m] \in 1 .. Last
    BY <2>1, <1>t, Entries DEF StoreType
  <2>3. PICK r \in {cursor[m] + 1, seen[m]} : seen' = [seen EXCEPT ![m] = r]
    BY <2>1, <1>t
  <2>4. StoreType'
    BY <2>1, <2>2, <2>3, Rebuilt
  <2> QED BY <1>q, <2>1, <2>4 DEF Refreshing
<1>3. ASSUME NEW m \in Member, Etcd3!RebuildCache(m) PROVE Etcd3Inv' /\ LeaderKeyStep
  <2>1. /\ \E r \in 1 .. Last : cursor' = [cursor EXCEPT ![m] = r] /\ seen' = [seen EXCEPT ![m] = r]
        /\ UNCHANGED <<log, left, alive, sess, view, pc, sure, extra>>
    BY <1>3, <1>k DEF Etcd3!RebuildCache
  <2>2. StoreType'
    BY <2>1, Rebuilt
  <2> QED BY <1>q, <2>1, <2>2 DEF Refreshing
<1>4. ASSUME NEW m \in Member, Etcd3!ForgetLease(m) PROVE Etcd3Inv' /\ LeaderKeyStep
  <2>1. /\ pc[m] = "idle" /\ sess' = [sess EXCEPT ![m] = 0]
        /\ UNCHANGED <<log, left, alive, cursor, seen, view, pc, sure, extra>>
    BY <1>4 DEF Etcd3!ForgetLease
  <2>2. StoreType' /\ LeaseInv' /\ Key' = Key /\ Last' = Last /\ \A q \in Member : Spared(q)
    BY <2>1, LeaseForgotten
  <2>3. LeaseUsed'
    BY <2>1, <2>2, LeaseUsedKept
  <2>4. \A q \in Member : sess'[q] # 0 => sess'[q] = sess[q]
    BY <1>t, <2>1
  <2>5. PresentLease'
    BY <2>1, <2>4, PresentLeaseKept
  <2>6. Refreshing' /\ Deleted'
    BY <1>t, <2>1 DEF Refreshing, Deleted
  <2> QED BY <1>h, <2>1, <2>2, <2>3, <2>5, <2>6, Unnoticed
<1>5. ASSUME NEW m \in Member, Etcd3!GiveUp(m) PROVE Etcd3Inv' /\ LeaderKeyStep
  <2>1. Say(m, 0) /\ UNCHANGED <<log, left, alive, sess, cursor, seen, extra>>
    BY <1>5 DEF Etcd3!GiveUp, Etcd3!SayNo, Etcd3!Say, Say
  <2> QED BY <2>1, <1>t, <1>r
<1>6. ASSUME NEW m \in Member, Etcd3!AttemptToAcquireLeader(m) PROVE Etcd3Inv' /\ LeaderKeyStep
  <2>1. Renewed(m) /\ UNCHANGED <<left, cursor, extra>>
    <3>1. Etcd3!Live(m) <=> Live(m)
      BY DEF Etcd3!Live, Live
    <3> QED BY <1>6, <1>f, <3>1 DEF Etcd3!AttemptToAcquireLeader
  <2>2. CASE Key.owner # None
    <3>1. Say(m, 0) /\ UNCHANGED <<log, seen>>
      BY <1>6, <1>k, <2>2 DEF Etcd3!AttemptToAcquireLeader, Etcd3!SayNo, Etcd3!Say, Say
    <3> QED BY <2>1, <3>1, <1>t, <1>r
  <2>3. CASE Key.owner = None
    <3>1. /\ log' = Append(log, [owner |-> m, by |-> sess'[m]])
          /\ \/ Say(m, alive'[sess'[m]]) /\ SeeOwn(m)
             \/ Say(m, 0) /\ UNCHANGED seen
      BY <1>6, <1>k, <2>3 DEF Etcd3!AttemptToAcquireLeader, Etcd3!Put, Etcd3!SayNo, Etcd3!Say, Say,
                              Etcd3!SeeOwn, SeeOwn
    <3>2. sess'[m] # 0 /\ alive'[sess'[m]] \in 0 .. Ttl
      BY <2>1, Renewal
    <3>3. PICK t \in {0, alive'[sess'[m]]} : Say(m, t)
      BY <3>1
    <3>4. t \in 0 .. Ttl /\ t <= alive'[sess'[m]]
      BY <3>2
    <3> QED BY <2>1, <2>3, <3>1, <3>2, <3>3, <3>4, <1>w
  <2> QED BY <2>2, <2>3
<1>7. ASSUME NEW m \in Member, Etcd3!RefreshLease(m) PROVE Etcd3Inv' /\ LeaderKeyStep
  <2>1. /\ Renewed(m) /\ SeesOwner(m, m) /\ pc' = [pc EXCEPT ![m] = "refreshed"]
        /\ UNCHANGED <<log, left, cursor, seen, view, sure, extra>>
    BY <1>7, <1>f, <1>s DEF Etcd3!RefreshLease
  <2>2. /\ alive' \in [Session -> 0 .. Ttl] /\ sess' \in [Member -> 0 .. MaxSessions]
        /\ (\A q \in Member \ {m} : sess'[q] = sess[q]) /\ sess'[m] # 0
    BY <2>1, OtherSessions, Renewal
  <2>3. pc' \in [Member -> Place]
    BY <1>t, <2>1 DEF Place
  <2>4. StoreType'
    BY <2>1, <2>2, <2>3, Kept, Copies, StoreTypeAfter DEF StoreType
  <2>5. LeaseInv' /\ Key' = Key /\ \A q \in Member \ {m} : Spared(q)
    BY <2>1, LeaseQuiet
  <2>6. Refreshing'
    BY <1>t, <2>1, <2>2 DEF Refreshing, SeesOwner
  <2>7. LeaseUsed' /\ PresentLease' /\ Deleted'
    BY <1>y, <2>1, <2>5
  <2> QED BY <1>h, <2>1, <2>4, <2>5, <2>6, <2>7, Unnoticed
\* The copy has the member's lease.  So has the key, if the member owns it; if not, the
\* lease has ended, or the member has deleted the key.
<1>8. ASSUME NEW m \in Member, Etcd3!LeaseKept(m) PROVE Etcd3Inv' /\ LeaderKeyStep
  <2>1. /\ pc[m] = "refreshed" /\ log[view[m]].by = sess[m] /\ Say(m, alive[sess[m]])
        /\ UNCHANGED <<log, left, alive, sess, cursor, seen, extra>>
    BY <1>8 DEF Etcd3!LeaseKept, Etcd3!Say, Say
  <2>2. view[m] \in 1 .. Last /\ sess[m] # 0 /\ alive[sess[m]] \in 0 .. Ttl
    BY <2>1, <1>t, Entries DEF Refreshing, StoreType
  <2>3. Key.owner = m => Key.by = sess[m]
    BY <2>1, <2>2, Entries DEF PresentLease
  <2>4. Key.owner = m => alive[sess[m]] <= alive'[Key.by]
    BY <2>1, <2>2, <2>3
  <2>5. Etcd3Inv' /\ (alive[sess[m]] = 0 \/ Key.owner = m => LeaderKeyStep)
    BY <2>1, <2>2, <2>4, <1>r
  <2>6. CASE alive[sess[m]] > 0 /\ Key.owner # m
    <3>1. Key.by # sess[m]
      BY <2>2, <2>6, KeySession
    <3>2. extra[m] = sess[m]
      BY <2>1, <2>2, <2>6, <3>1 DEF LeaseUsed, Current, Live
    <3>3. Holder' = Holder
      BY <2>1, <1>h DEF Key, Last
    <3>4. Misled(m)
      BY <2>1, <3>2, <3>3 DEF Misled, Say
    <3> QED BY <2>5, <3>4 DEF LeaderKeyStep
  <2> QED BY <2>2, <2>5, <2>6
<1>9. ASSUME NEW m \in Member, Etcd3!Rewrite(m) PROVE Etcd3Inv' /\ LeaderKeyStep
  <2>1. UNCHANGED <<left, alive, sess, cursor, extra>> /\ pc[m] = "refreshed" /\ (Etcd3!Live(m) <=> Live(m))
    BY <1>9 DEF Etcd3!Rewrite, Etcd3!Live, Live
  <2>2. CASE ~(Key.owner \in {m, None} /\ Live(m))
    <3>1. Say(m, 0) /\ UNCHANGED <<log, seen>>
      BY <1>9, <1>k, <2>1, <2>2 DEF Etcd3!Rewrite, Etcd3!SayNo, Etcd3!Say, Say
    <3> QED BY <2>1, <3>1, <1>t, <1>r
  <2>3. CASE Key.owner \in {m, None} /\ Live(m)
    <3>1. /\ log' = Append(log, [owner |-> m, by |-> sess'[m]])
          /\ \/ Say(m, alive[sess[m]]) /\ SeeOwn(m)
             \/ Say(m, 0) /\ UNCHANGED seen
      BY <1>9, <1>k, <2>1, <2>3 DEF Etcd3!Rewrite, Etcd3!Put, Etcd3!SayNo, Etcd3!Say, Say,
                                    Etcd3!SeeOwn, SeeOwn
    <3>2. sess'[m] # 0 /\ alive'[sess'[m]] = alive[sess[m]] /\ alive[sess[m]] \in 0 .. Ttl
      BY <2>1, <1>t DEF Refreshing
    <3>3. PICK t \in {0, alive[sess[m]]} : Say(m, t)
      BY <3>1
    <3>4. t \in 0 .. Ttl /\ t <= alive'[sess'[m]]
      BY <3>2
    <3> QED BY <2>1, <2>3, <3>1, <3>2, <3>3, <3>4, <1>w
  <2> QED BY <2>2, <2>3
<1>10. ASSUME NEW m \in Member, Etcd3!DeleteLeader(m) PROVE Etcd3Inv' /\ LeaderKeyStep
  <2>1. Say(m, 0) /\ UNCHANGED <<left, alive, sess, cursor>>
    BY <1>10 DEF Etcd3!DeleteLeader, Etcd3!SayNo, Etcd3!Say, Say
  <2>2. CASE Key.owner # m
    <3>1. UNCHANGED <<log, seen, extra>>
      BY <1>10, <1>k, <2>2 DEF Etcd3!DeleteLeader
    <3> QED BY <2>1, <3>1, <1>t, <1>r
  <2>3. CASE Key.owner = m
    <3>1. /\ log' = Append(log, Nobody) /\ (seen' = seen \/ SeeOwn(m))
          /\ extra' = [extra EXCEPT ![m] = sess[m]]
      BY <1>10, <1>k, <2>3 DEF Etcd3!DeleteLeader, Etcd3!Put, Etcd3!SeeOwn, Etcd3!Last, Last, SeeOwn,
                               Etcd3!Nobody, Nobody
    <3>2. StoreType' /\ LeaseInv' /\ \A q \in Member \ {m} : Spared(q)
      BY <2>1, <2>3, <3>1, <1>t, LeaseWritten
    <3>3. Key'.owner = None
      BY <3>1, <1>e, Appended
    <3>4. extra'[m] = sess'[m] /\ Deleted' /\ \A q \in Member \ {m} : extra'[q] = extra[q]
      BY <1>t, <2>1, <3>1 DEF Deleted
    <3>5. LeaseUsed'
      BY <1>e, <3>1, <3>2, <3>4, LeaseUsedKept
    <3>6. PresentLease'
      BY <1>e, <2>1, <3>1, PresentLeaseKept
    <3>7. Refreshing'
      BY <1>t, <2>1, RefreshingEnded
    <3> QED BY <2>1, <2>3, <3>2, <3>3, <3>4, <3>5, <3>6, <3>7, <1>h, Released
  <2> QED BY <2>2, <2>3
<1>11. CASE Etcd3!Expire
  <2>1. /\ log' = Append(log, Nobody) /\ Key.owner # None /\ alive[Key.by] = 0
        /\ UNCHANGED <<left, alive, sess, cursor, seen, view, pc, sure, extra>>
    BY <1>11, <1>k DEF Etcd3!Expire, Etcd3!Put, Etcd3!Nobody, Nobody
  <2>2. /\ StoreType' /\ LeaseInv' /\ Key'.owner = None /\ sure[Key.owner] = 0
        /\ \A q \in Member : Spared(q)
    BY <2>1, LeaseExpired
  <2>3. LeaseUsed' /\ PresentLease' /\ Deleted'
    BY <2>1, <2>2, <1>a
  <2>4. Refreshing'
    BY <2>1 DEF Refreshing
  <2> QED BY <1>h, <2>1, <2>2, <2>3, <2>4, Lapsed
<1>12. CASE Etcd3!Tick
  <2>1. PassTime /\ UNCHANGED extra
    BY <1>12 DEF Etcd3!Tick, Etcd3!PassTime, PassTime, Etcd3!Dec, Dec, Etcd3!Session, Session
  <2>2. StoreType' /\ LeaseInv' /\ Key' = Key /\ \A q \in Member : Spared(q)
    BY <2>1, LeasePassed
  <2>3. UNCHANGED <<log, sess, seen, view, pc>>
    BY <2>1 DEF PassTime
  <2>4. LeaseUsed' /\ PresentLease' /\ Deleted' /\ Refreshing'
    BY <1>a, <2>1, <2>2, <2>3 DEF Refreshing
  <2> QED BY <1>h, <2>1, <2>2, <2>4, TimePassed
<1> QED
  BY <1>1, <1>2, <1>3, <1>4, <1>5, <1>6, <1>7, <1>8, <1>9, <1>10, <1>11, <1>12 DEF Etcd3!Etcd3Next
-----------------------------------------------------------------------------
\* ZooKeeper and Consul, where a member may recreate its key: from then on nothing is
\* promised, and only the types are kept.

Recreations == extra \in [Member -> BOOLEAN]
NobodyRecreated == \A q \in Member : ~extra[q]

\* The types do not depend on who has which session.
LEMMA SessionTypes ==
  ASSUME StoreType, NEW m \in Member, Renewed(m) \/ UNCHANGED <<alive, sess>>
  PROVE  /\ alive' \in [Session -> 0 .. Ttl] /\ sess' \in [Member -> 0 .. MaxSessions]
         /\ [owner |-> m, by |-> sess'[m]] \in Entry /\ Nobody \in Entry
         /\ sess'[m] # 0 => alive'[sess'[m]] \in 0 .. Ttl
         /\ 0 \in 0 .. Ttl /\ left \in 0 .. Ttl
<1> USE Constants
<1>1. alive' \in [Session -> 0 .. Ttl] /\ sess' \in [Member -> 0 .. MaxSessions]
  <2>1. CASE UNCHANGED <<alive, sess>>
    BY <2>1 DEF StoreType
  <2>2. CASE Renewed(m) /\ Live(m)
    <3>1. sess' = sess /\ sess \in [Member -> 0 .. MaxSessions] /\ sess[m] \in Session
      BY <2>2 DEF Renewed, Live, StoreType, Session
    <3>2. /\ alive \in [Session -> 0 .. Ttl] /\ Ttl \in 0 .. Ttl
          /\ alive' = alive \/ alive' = [alive EXCEPT ![sess[m]] = Ttl]
      BY <2>2, <3>1 DEF Renewed, StoreType
    <3>3. alive' \in [Session -> 0 .. Ttl]
      BY <3>1, <3>2
    <3> QED BY <3>1, <3>3
  <2>3. CASE Renewed(m) /\ ~Live(m)
    <3>1. PICK s \in Session : alive' = [alive EXCEPT ![s] = Ttl] /\ sess' = [sess EXCEPT ![m] = s]
      BY <2>3 DEF Renewed, Unused, Unknown
    <3>2. sess' \in [Member -> 0 .. MaxSessions]
      BY <3>1 DEF StoreType, Session
    <3>3. alive' \in [Session -> 0 .. Ttl]
      BY <3>1 DEF StoreType
    <3> QED BY <3>2, <3>3
  <2> QED BY <2>1, <2>2, <2>3
<1>2. sess'[m] \in Nat /\ (sess'[m] # 0 => sess'[m] \in Session)
  BY <1>1 DEF Session
<1> QED BY <1>1, <1>2 DEF Entry, Nobody, StoreType

\* A session that is given up, with the key if it was its own.
LEMMA SessionDropped ==
  ASSUME StoreType, SessionsInv, NEW m \in Member, sess' = [sess EXCEPT ![m] = 0],
         log' = log \/ log' = Append(log, Nobody)
  PROVE  SessionsInv'
<1>e. Nobody \in Entry /\ Nobody.owner = None /\ Nobody.by = 0
  BY DEF Nobody, Entry
<1>1. sess'[m] = 0 /\ \A q \in Member \ {m} : sess'[q] = sess[q]
  BY DEF StoreType
<1>2. SessionsApart'
  BY <1>1 DEF SessionsInv, SessionsApart
<1>3. /\ \A x \in 1 .. Last : log'[x] = log[x]
      /\ \A x \in 1 .. Last' : x \in 1 .. Last \/ log'[x] = Nobody
  <2>1. CASE log' = log
    BY <2>1, Kept
  <2>2. CASE log' = Append(log, Nobody)
    <3>1. /\ Last' = Last + 1 /\ Last \in Nat /\ Key' = Nobody
          /\ \A x \in 1 .. Last : log'[x] = log[x]
      BY <2>2, <1>e, Appended, Entries
    <3>2. log'[Last'] = Nobody
      BY <3>1 DEF Key
    <3>3. \A x \in 1 .. Last' : x \in 1 .. Last \/ x = Last'
      BY <3>1
    <3> QED BY <3>1, <3>2, <3>3
  <2> QED BY <2>1, <2>2
<1>4. WriterNamed'
  <2> SUFFICES ASSUME NEW x \in 1 .. Last'
               PROVE  IF log'[x].owner = None THEN log'[x].by = 0 ELSE log'[x].by \in Session
    BY DEF WriterNamed, Session
  <2> QED BY <1>3, <1>e DEF SessionsInv, WriterNamed
<1>5. WriterKnown'
  <2> SUFFICES ASSUME NEW x \in 1 .. Last', NEW q \in Member, sess'[q] # 0, log'[x].by = sess'[q]
               PROVE  log'[x].owner = q
    BY DEF WriterKnown
  <2>1. sess'[q] = sess[q] /\ x \in 1 .. Last
    BY <1>1, <1>3, <1>e
  <2> QED BY <2>1, <1>3 DEF SessionsInv, WriterKnown
<1> QED BY <1>2, <1>4, <1>5 DEF SessionsInv

-----------------------------------------------------------------------------
\* ZooKeeper.

ZooKeeperCore == LeaseInv /\ CopiesCurrent /\ \A q \in Member : pc[q] = "idle"

LEMMA ZooKeeperTypes ==
  ASSUME StoreType, Recreations, ZooKeeper!ZooKeeperNext
  PROVE  StoreType' /\ Recreations' /\ (NobodyRecreated' => NobodyRecreated)
<1> USE Constants
<1>k. ZooKeeper!Key = Key /\ ZooKeeper!Last = Last /\ ZooKeeper!Nobody = Nobody
  BY DEF ZooKeeper!Key, ZooKeeper!Last, Key, Last, ZooKeeper!Nobody, Nobody
<1>t. /\ alive \in [Session -> 0 .. Ttl] /\ sess \in [Member -> 0 .. MaxSessions]
      /\ left \in 0 .. Ttl /\ pc \in [Member -> Place] /\ seen \in [Member -> 1 .. Last]
      /\ \A q \in Member : sess[q] # 0 => sess[q] \in Session /\ alive[sess[q]] \in 0 .. Ttl
      /\ 0 \in 0 .. Ttl /\ Ttl \in 0 .. Ttl
  BY DEF StoreType, Session
<1>l. \A m \in Member : ZooKeeper!Live(m) <=> sess[m] # 0 /\ alive[sess[m]] > 0
  BY DEF ZooKeeper!Live
<1>x. ASSUME UNCHANGED extra PROVE Recreations' /\ (NobodyRecreated' => NobodyRecreated)
  BY <1>x DEF Recreations, NobodyRecreated
<1>r. ASSUME NEW m \in Member, Renewed(m) \/ UNCHANGED <<alive, sess>>,
             UNCHANGED <<log, left, cursor, seen, pc, sure>>,
             view' = view \/ view' = [view EXCEPT ![m] = seen[m]]
      PROVE  StoreType'
  <2>1. alive' \in [Session -> 0 .. Ttl] /\ sess' \in [Member -> 0 .. MaxSessions]
    BY <1>r, SessionTypes
  <2>2. /\ seen[m] \in 0 .. Last' /\ view \in [Member -> 0 .. Last']
    BY <1>r, <1>t, Kept, Copies
  <2>3. view' \in [Member -> 0 .. Last']
    BY <1>r, <2>2
  <2> QED BY <1>r, <2>1, <2>3, Kept, Copies, StoreTypeAfter DEF StoreType
<1>a. ASSUME NEW m \in Member, NEW t \in 0 .. Ttl, Say(m, t), UNCHANGED <<left, cursor>>,
             alive' \in [Session -> 0 .. Ttl], sess' \in [Member -> 0 .. MaxSessions],
             \/ UNCHANGED <<log, seen>>
             \/ \E x \in Entry : log' = Append(log, x) /\ SeeOwn(m)
      PROVE  StoreType'
  BY <1>a, <1>t, Wrote, Ended
<1>n. ASSUME NEW m \in Member
      PROVE  /\ [owner |-> m, by |-> sess[m]] \in Entry /\ Nobody \in Entry
             /\ ZooKeeper!SeeOwn(m) <=> SeeOwn(m)
             /\ ZooKeeper!SayNo(m) <=> Say(m, 0)
             /\ \A t \in 0 .. Ttl : ZooKeeper!Say(m, t) <=> Say(m, t)
             /\ \A x \in Entry : ZooKeeper!Put(x) => log' = Append(log, x)
             /\ ZooKeeper!Unused = Unused /\ (ZooKeeper!Live(m) <=> Live(m))
  <2>1. [owner |-> m, by |-> sess[m]] \in Entry /\ Nobody \in Entry
    BY <1>t DEF Entry, Nobody
  <2>2. ZooKeeper!SeeOwn(m) <=> SeeOwn(m)
    BY DEF ZooKeeper!SeeOwn, ZooKeeper!Last, SeeOwn, Last
  <2>3. /\ ZooKeeper!SayNo(m) <=> Say(m, 0)
        /\ \A t \in 0 .. Ttl : ZooKeeper!Say(m, t) <=> Say(m, t)
    BY DEF ZooKeeper!SayNo, ZooKeeper!Say, Say
  <2>4. \A x \in Entry : ZooKeeper!Put(x) => log' = Append(log, x)
    BY DEF ZooKeeper!Put
  <2>5. ZooKeeper!Unused = Unused /\ (ZooKeeper!Live(m) <=> Live(m))
    BY DEF ZooKeeper!Unused, Unused, ZooKeeper!Unknown, Unknown, ZooKeeper!Session, Session,
           ZooKeeper!Last, Last, ZooKeeper!Live, Live
  <2> QED BY <2>1, <2>2, <2>3, <2>4, <2>5
<1>1. ASSUME NEW m \in Member, ZooKeeper!LoadCluster(m) PROVE StoreType' /\ UNCHANGED extra
  <2>1. /\ view' = [view EXCEPT ![m] = seen[m]] /\ Renewed(m)
        /\ UNCHANGED <<log, left, cursor, seen, pc, sure, extra>>
    BY <1>1, <1>n DEF ZooKeeper!LoadCluster, ZooKeeper!Load, Renewed
  <2> QED BY <2>1, <1>r
<1>2. ASSUME NEW m \in Member, ZooKeeper!Deliver(m) PROVE StoreType' /\ UNCHANGED extra
  <2>1. Deliver(m) /\ UNCHANGED extra
    BY <1>2 DEF ZooKeeper!Deliver, ZooKeeper!Last, Deliver, Last
  <2> QED BY <2>1, Delivered
<1>3. ASSUME NEW m \in Member, ZooKeeper!Heartbeat(m) \/ ZooKeeper!Reconnect(m)
      PROVE  StoreType' /\ UNCHANGED extra
  <2>1. Renewed(m) /\ UNCHANGED <<log, left, cursor, seen, view, pc, sure, extra>>
    BY <1>3, <1>n DEF ZooKeeper!Heartbeat, ZooKeeper!Reconnect, Renewed
  <2> QED BY <2>1, <1>r
<1>4. ASSUME NEW m \in Member, ZooKeeper!GiveUp(m) PROVE StoreType' /\ UNCHANGED extra
  BY <1>4, <1>a, <1>n, <1>t DEF ZooKeeper!GiveUp
<1>5. ASSUME NEW m \in Member, ZooKeeper!AttemptToAcquireLeader(m)
      PROVE  StoreType' /\ UNCHANGED extra
  BY <1>5, <1>a, <1>n, <1>t, <1>l DEF ZooKeeper!AttemptToAcquireLeader
<1>6. ASSUME NEW m \in Member, ZooKeeper!SessionKept(m) PROVE StoreType' /\ UNCHANGED extra
  BY <1>6, <1>a, <1>n, <1>t DEF ZooKeeper!SessionKept
<1>7. ASSUME NEW m \in Member, ZooKeeper!DeleteOld(m)
      PROVE  StoreType' /\ Recreations' /\ (NobodyRecreated' => NobodyRecreated)
  <2>1. /\ extra' = [extra EXCEPT ![m] = TRUE] /\ pc' = [pc EXCEPT ![m] = "deleted"]
        /\ UNCHANGED <<left, alive, sess, cursor, view, sure>>
        /\ UNCHANGED <<log, seen>> \/ (log' = Append(log, Nobody) /\ SeeOwn(m))
    BY <1>7, <1>n, <1>k DEF ZooKeeper!DeleteOld
  <2>2. pc' \in [Member -> Place]
    BY <2>1, <1>t DEF Place
  <2>3. /\ log' \in Seq(Entry) /\ Last' \in Nat /\ Last' > 0 /\ Last' >= Last
        /\ Last' = Last + 1 \/ UNCHANGED seen
    BY <2>1, <1>n, Appended, Kept
  <2>4. seen' \in [Member -> 1 .. Last']
    <3>1. Last \in Nat /\ seen \in [Member -> 1 .. Last']
      BY <2>3, Copies
    <3> QED BY <2>1, <2>3, <3>1 DEF SeeOwn
  <2>5. StoreType'
    BY <2>1, <2>2, <2>3, <2>4, Copies, StoreTypeAfter DEF StoreType
  <2>6. Recreations' /\ (NobodyRecreated' => NobodyRecreated)
    BY <2>1 DEF Recreations, NobodyRecreated
  <2> QED BY <2>5, <2>6
<1>8. ASSUME NEW m \in Member, ZooKeeper!Recreate(m) PROVE StoreType' /\ UNCHANGED extra
  BY <1>8, <1>a, <1>n, <1>t, <1>l DEF ZooKeeper!Recreate
<1>9. ASSUME NEW m \in Member, ZooKeeper!DeleteLeader(m) PROVE StoreType' /\ UNCHANGED extra
  <2>1. /\ Say(m, 0) /\ UNCHANGED <<left, cursor, extra>>
        /\ alive' = [alive EXCEPT ![sess[m]] = 0] /\ sess' = [sess EXCEPT ![m] = 0]
        /\ UNCHANGED <<log, seen>> \/ (log' = Append(log, Nobody) /\ SeeOwn(m))
    BY <1>9, <1>n, <1>k DEF ZooKeeper!DeleteLeader
  <2>2. sess[m] \in Session
    BY <1>9, <1>n, <1>t DEF ZooKeeper!DeleteLeader, Live
  <2>3. alive' \in [Session -> 0 .. Ttl]
    BY <2>1, <2>2, <1>t
  <2>4. sess' \in [Member -> 0 .. MaxSessions]
    BY <2>1, <1>t
  <2> QED BY <2>1, <2>3, <2>4, <1>a, <1>n, <1>t
<1>10. CASE ZooKeeper!Expire
  <2>1. /\ log' = Append(log, Nobody)
        /\ UNCHANGED <<left, alive, sess, cursor, seen, view, pc, sure, extra>>
    BY <1>10, <1>k DEF ZooKeeper!Expire, ZooKeeper!Put
  <2>2. Nobody \in Entry
    BY DEF Entry, Nobody
  <2>3. StoreType'
    BY <2>1, <2>2, <1>t, WroteAlone
  <2> QED BY <2>1, <2>3, <1>x
<1>11. CASE ZooKeeper!Tick
  <2>1. PassTime /\ UNCHANGED extra
    BY <1>11 DEF ZooKeeper!Tick, ZooKeeper!PassTime, PassTime, ZooKeeper!Dec, Dec, ZooKeeper!Session, Session
  <2> QED BY <2>1, <1>x, Passed
<1> QED
  BY <1>x, <1>1, <1>2, <1>3, <1>4, <1>5, <1>6, <1>7, <1>8, <1>9, <1>10, <1>11
  DEF ZooKeeper!ZooKeeperNext

\* As long as no key was recreated, each step is one of LeaderKey (zookeeper.py
\* attempt_to_acquire_leader, _update_leader, _delete_leader, and kazoo's pings).
LEMMA ZooKeeperStep ==
  ASSUME StoreType, Recreations, ZooKeeperCore, NobodyRecreated', ZooKeeper!ZooKeeperNext,
         backend = "zookeeper", UNCHANGED backend
  PROVE  ZooKeeperCore' /\ LeaderKeyStep
<1> USE Constants DEF ZooKeeperCore, LeaseInv
<1>h. Holder = Key.owner /\ Holder' = Key'.owner
  BY DEF Holder
<1>e. Nobody \in Entry /\ Nobody.owner = None /\ Nobody.by = 0
  BY DEF Nobody, Entry
<1>p. StoreType'
  BY ZooKeeperTypes
<1>t. /\ \A q \in Member : sess[q] # 0 => sess[q] \in Session /\ alive[sess[q]] \in 0 .. Ttl
      /\ \A q \in Member : seen[q] \in 1 .. Last
      /\ alive \in [Session -> 0 .. Ttl] /\ 0 \in 0 .. Ttl
  BY DEF StoreType, Session
<1>k. ZooKeeper!Key = Key /\ ZooKeeper!Last = Last /\ ZooKeeper!Nobody = Nobody
  BY DEF ZooKeeper!Key, ZooKeeper!Last, Key, Last, ZooKeeper!Nobody, Nobody
<1>n. ASSUME NEW m \in Member
      PROVE  /\ ZooKeeper!SeeOwn(m) <=> SeeOwn(m)
             /\ ZooKeeper!SayNo(m) <=> Say(m, 0)
             /\ \A t \in 0 .. Ttl : ZooKeeper!Say(m, t) <=> Say(m, t)
             /\ ZooKeeper!Unused = Unused /\ (ZooKeeper!Live(m) <=> Live(m))
             /\ \A o \in Member \cup {None} : ZooKeeper!SeesOwner(m, o) <=> SeesOwner(m, o)
  <2>1. ZooKeeper!SeeOwn(m) <=> SeeOwn(m)
    BY DEF ZooKeeper!SeeOwn, ZooKeeper!Last, SeeOwn, Last
  <2>2. /\ ZooKeeper!SayNo(m) <=> Say(m, 0)
        /\ \A t \in 0 .. Ttl : ZooKeeper!Say(m, t) <=> Say(m, t)
    BY DEF ZooKeeper!SayNo, ZooKeeper!Say, Say
  <2>3. ZooKeeper!Unused = Unused /\ (ZooKeeper!Live(m) <=> Live(m))
    BY DEF ZooKeeper!Unused, Unused, ZooKeeper!Unknown, Unknown, ZooKeeper!Session, Session,
           ZooKeeper!Last, Last, ZooKeeper!Live, Live
  <2>4. \A o \in Member \cup {None} : ZooKeeper!SeesOwner(m, o) <=> SeesOwner(m, o)
    BY DEF ZooKeeper!SeesOwner, SeesOwner
  <2> QED BY <2>1, <2>2, <2>3, <2>4
<1>r. ASSUME NEW m \in Member, NEW t \in 0 .. Ttl, Say(m, t),
             UNCHANGED <<alive, sess, log, left, cursor, seen>>,
             t > 0 => Key.owner = m /\ t <= alive'[Key.by]
      PROVE  ZooKeeperCore' /\ LeaderKeyStep
  <2>1. LeaseInv' /\ Key' = Key /\ \A q \in Member \ {m} : Spared(q)
    BY <1>r, LeaseEnded
  <2>2. view'[m] = 0 /\ \A q \in Member \ {m} : view'[q] = view[q]
    BY <1>r DEF Say, StoreType
  <2>3. CopiesCurrent'
    BY <1>r, <2>1, <2>2, CopiesEnded
  <2>4. \A q \in Member : pc'[q] = "idle"
    BY <1>r DEF Say, StoreType
  <2>5. LeaderKeyStep
    BY <1>r, <1>h, <2>1, Granted, Refused
  <2> QED BY <2>1, <2>3, <2>4, <2>5
<1>q. ASSUME NEW m \in Member, UNCHANGED <<log, pc, sure>>, Renewed(m) \/ UNCHANGED <<alive, sess>>,
             \A q \in Member : seen'[q] >= seen[q],
             \/ UNCHANGED seen /\ view'[m] \in {view[m], seen[m]}
                /\ \A q \in Member \ {m} : view'[q] = view[q]
             \/ UNCHANGED <<view, alive, sess>>
      PROVE  ZooKeeperCore' /\ LeaderKeyStep
  <2>1. LeaseInv' /\ Key' = Key /\ Last' = Last /\ \A q \in Member \ {m} : Spared(q)
    BY <1>q, LeaseQuiet
  <2>2. CASE UNCHANGED seen /\ view'[m] \in {view[m], seen[m]}
             /\ \A q \in Member \ {m} : view'[q] = view[q]
    <3>1. CopiesCurrent'
      BY <1>q, <2>1, <2>2, CopiesEnded
    <3> QED BY <1>q, <1>h, <2>1, <3>1, Unnoticed
  <2>3. CASE UNCHANGED <<view, alive, sess>>
    <3>1. \A q \in Member : Spared(q)
      BY <2>1, <2>3 DEF Spared, Live
    <3>2. CopiesCurrent'
      BY <1>p, <1>q, <2>3, <3>1, CopiesCurrentKept DEF StoreType
    <3> QED BY <1>q, <1>h, <2>1, <3>2, Unnoticed
  <2> QED BY <1>q, <2>2, <2>3
<1>1. ASSUME NEW m \in Member, ZooKeeper!LoadCluster(m) PROVE ZooKeeperCore' /\ LeaderKeyStep
  <2>1. /\ view' = [view EXCEPT ![m] = seen[m]] /\ Renewed(m)
        /\ UNCHANGED <<log, left, cursor, seen, pc, sure, extra>>
    BY <1>1, <1>n DEF ZooKeeper!LoadCluster, ZooKeeper!Load, Renewed
  <2>2. view'[m] = seen[m] /\ \A q \in Member \ {m} : view'[q] = view[q]
    BY <2>1 DEF StoreType
  <2>3. \A q \in Member : seen'[q] >= seen[q]
    BY <2>1, <1>t, Entries
  <2> QED BY <2>1, <2>2, <2>3, <1>q
<1>2. ASSUME NEW m \in Member, ZooKeeper!Deliver(m) PROVE ZooKeeperCore' /\ LeaderKeyStep
  <2>1. Deliver(m) /\ UNCHANGED <<log, alive, sess, view, pc, sure>>
    BY <1>2 DEF ZooKeeper!Deliver, ZooKeeper!Last, Deliver, Last
  <2>2. \A q \in Member : seen'[q] >= seen[q]
    BY <2>1, Delivered
  <2> QED BY <2>1, <2>2, <1>q
<1>3. ASSUME NEW m \in Member, ZooKeeper!Heartbeat(m) \/ ZooKeeper!Reconnect(m)
      PROVE  ZooKeeperCore' /\ LeaderKeyStep
  <2>1. Renewed(m) /\ UNCHANGED <<log, left, cursor, seen, view, pc, sure, extra>>
    BY <1>3, <1>n DEF ZooKeeper!Heartbeat, ZooKeeper!Reconnect, Renewed
  <2>2. \A q \in Member : seen'[q] >= seen[q]
    BY <2>1, <1>t, Entries
  <2> QED BY <2>1, <2>2, <1>q
<1>4. ASSUME NEW m \in Member, ZooKeeper!GiveUp(m) PROVE ZooKeeperCore' /\ LeaderKeyStep
  BY <1>4, <1>r, <1>n, <1>t DEF ZooKeeper!GiveUp
<1>5. ASSUME NEW m \in Member, ZooKeeper!AttemptToAcquireLeader(m)
      PROVE  ZooKeeperCore' /\ LeaderKeyStep
  <2>1. UNCHANGED <<left, alive, sess, cursor>> /\ sess[m] # 0 /\ alive[sess[m]] \in 0 .. Ttl
    BY <1>5, <1>n, <1>t DEF ZooKeeper!AttemptToAcquireLeader, Live
  <2>2. CASE Key.owner # None
    <3>1. Say(m, 0) /\ UNCHANGED <<log, seen>>
      BY <1>5, <1>k, <1>n, <2>2 DEF ZooKeeper!AttemptToAcquireLeader
    <3> QED BY <2>1, <3>1, <1>t, <1>r
  <2>3. CASE Key.owner = None
    <3>1. /\ log' = Append(log, [owner |-> m, by |-> sess'[m]]) /\ SeeOwn(m)
          /\ Say(m, alive[sess[m]]) \/ Say(m, 0)
      BY <1>5, <1>k, <1>n, <2>1, <2>3 DEF ZooKeeper!AttemptToAcquireLeader, ZooKeeper!Put
    <3>2. PICK t \in {0, alive[sess[m]]} : Say(m, t)
      BY <3>1
    <3>3. t \in 0 .. Ttl /\ t <= alive'[sess'[m]]
      BY <2>1, <3>2
    <3>4. [owner |-> m, by |-> sess'[m]] \in Entry
      BY <2>1, <1>p, <1>t DEF Entry, Session
    <3>5. Key' = [owner |-> m, by |-> sess'[m]]
      BY <3>1, <3>4, Appended
    <3>6. LeaseInv' /\ \A q \in Member \ {m} : Spared(q)
      BY <2>1, <2>3, <3>1, <3>2, <3>3, LeaseWritten
    <3>7. view'[m] = 0 /\ (\A q \in Member \ {m} : view'[q] = view[q]) /\ \A q \in Member : pc'[q] = "idle"
      BY <3>2 DEF Say, StoreType
    <3>8. CopiesCurrent'
      BY <1>p, <3>1, <3>4, <3>5, <3>6, <3>7, CopiesWritten
    <3> QED BY <1>h, <2>3, <3>2, <3>3, <3>5, <3>6, <3>7, <3>8, Granted
  <2> QED BY <2>2, <2>3
<1>6. ASSUME NEW m \in Member, ZooKeeper!SessionKept(m) PROVE ZooKeeperCore' /\ LeaderKeyStep
  <2>1. /\ view[m] # 0 /\ sess[m] # 0 /\ log[view[m]].by = sess[m]
        /\ UNCHANGED <<alive, sess, log, left, cursor, seen>>
    BY <1>6 DEF ZooKeeper!SessionKept, ZooKeeper!SeesOwner
  <2>2. alive[sess[m]] \in 0 .. Ttl /\ Say(m, alive[sess[m]])
    BY <1>6, <1>n, <1>t, <2>1 DEF ZooKeeper!SessionKept
  <2>3. view[m] \in 1 .. Last
    BY <2>1, Entries DEF StoreType
  <2>4. alive[sess[m]] > 0 => Key.owner = m /\ Key.by = sess[m]
    BY <2>1, <2>3, KeySession DEF CopiesCurrent, Current, Live
  <2> QED BY <2>1, <2>2, <2>4, <1>r
<1>7. ASSUME NEW m \in Member, ZooKeeper!DeleteOld(m) PROVE FALSE
  <2>1. extra' = [extra EXCEPT ![m] = TRUE]
    BY <1>7 DEF ZooKeeper!DeleteOld
  <2> QED BY <2>1 DEF Recreations, NobodyRecreated
<1>8. ASSUME NEW m \in Member, ZooKeeper!Recreate(m) PROVE FALSE
  BY <1>8 DEF ZooKeeper!Recreate
<1>9. ASSUME NEW m \in Member, ZooKeeper!DeleteLeader(m) PROVE ZooKeeperCore' /\ LeaderKeyStep
  <2>1. /\ Say(m, 0) /\ Live(m)
        /\ alive' = [alive EXCEPT ![sess[m]] = 0] /\ sess' = [sess EXCEPT ![m] = 0]
        /\ IF Key.by = sess[m] THEN log' = Append(log, Nobody) /\ SeeOwn(m) ELSE UNCHANGED <<log, seen>>
    BY <1>9, <1>n, <1>k DEF ZooKeeper!DeleteLeader, ZooKeeper!Put
  <2>2. /\ sess[m] # 0 /\ sess[m] \in Session
        /\ sess'[m] = 0 /\ \A q \in Member \ {m} : sess'[q] = sess[q] /\ (sess[q] # 0 => sess[q] # sess[m])
    BY <2>1, <1>t DEF Live, StoreType, SessionsInv, SessionsApart
  <2>3. \A q \in Member \ {m} : Live(q)' => Live(q) /\ alive'[sess[q]] = alive[sess[q]]
    BY <2>1, <2>2, <1>t DEF Live
  <2>4. SessionsInv'
    BY <2>1, SessionDropped
  <2>5. Key' = IF Key.by = sess[m] THEN Nobody ELSE Key
    BY <2>1, <1>e, Appended, Kept
  <2>6. Key.by = sess[m] => Key.owner = m
    BY <2>2, KeySession
  <2>7. \A q \in Member \ {m} : Spared(q)
    BY <2>2, <2>3, <2>5, <2>6, KeySession DEF Spared, Live
  <2>8. /\ view'[m] = 0 /\ (\A q \in Member \ {m} : view'[q] = view[q])
        /\ (\A q \in Member : pc'[q] = "idle")
        /\ sure'[m] = 0 /\ (\A q \in Member \ {m} : sure'[q] = sure[q])
    BY <2>1 DEF Say, StoreType
  <2>9. SureBySession'
    <3> SUFFICES ASSUME NEW q \in Member, Key'.owner = q PROVE sure'[q] <= alive'[Key'.by]
      BY DEF SureBySession
    <3>1. Key' = Key /\ Key.by # sess[m] /\ Key.by \in Session
      BY <1>e, <2>5, KeySession
    <3>2. alive'[Key.by] = alive[Key.by] /\ alive[Key.by] \in 0 .. Ttl
      BY <2>1, <3>1, <1>t
    <3>3. sure[q] <= alive[Key.by]
      BY <3>1 DEF SureBySession
    <3>4. sure[q] \in Nat
      BY DEF StoreType
    <3>5. sure'[q] = 0 \/ sure'[q] = sure[q]
      BY <2>8
    <3> QED BY <3>1, <3>2, <3>3, <3>4, <3>5
  <2>10. CopiesCurrent'
    <3>1. CASE Key.by = sess[m]
      BY <2>1, <2>2, <2>7, <2>8, <3>1, <1>p, <1>e, CopiesWritten
    <3>2. CASE Key.by # sess[m]
      <4>1. \A q \in Member : Spared(q)
        BY <2>2, <2>7 DEF Spared, Live
      <4>2. \A q \in Member : seen'[q] >= seen[q] /\ view'[q] \in {0, view[q], seen[q]}
        BY <2>1, <2>8, <3>2, <1>t, Entries
      <4> QED BY <2>1, <3>2, <4>1, <4>2, <1>p, CopiesCurrentKept DEF StoreType
    <3> QED BY <3>1, <3>2
  <2>11. LeaderKeyStep
    BY <1>h, <1>e, <2>1, <2>5, <2>6, Released, Refused
  <2> QED BY <2>4, <2>8, <2>9, <2>10, <2>11
<1>10. CASE ZooKeeper!Expire
  <2>1. /\ log' = Append(log, Nobody) /\ Key.owner # None /\ alive[Key.by] = 0
        /\ UNCHANGED <<left, alive, sess, cursor, seen, view, pc, sure, extra>>
    BY <1>10, <1>k DEF ZooKeeper!Expire, ZooKeeper!Put
  <2>2. /\ LeaseInv' /\ Key'.owner = None /\ sure[Key.owner] = 0 /\ \A q \in Member : Spared(q)
    BY <2>1, LeaseExpired
  <2>3. \A q \in Member : seen'[q] >= seen[q] /\ view'[q] \in {0, view[q], seen[q]}
    BY <1>t, <2>1, Entries
  <2>4. CopiesCurrent'
    BY <2>1, <2>2, <2>3, <1>e, <1>p, CopiesCurrentKept DEF StoreType
  <2> QED BY <1>h, <2>1, <2>2, <2>4, Lapsed
<1>11. CASE ZooKeeper!Tick
  <2>1. PassTime
    BY <1>11 DEF ZooKeeper!Tick, ZooKeeper!PassTime, PassTime, ZooKeeper!Dec, Dec, ZooKeeper!Session, Session
  <2>2. LeaseInv' /\ Key' = Key /\ \A q \in Member : Spared(q)
    BY <2>1, LeasePassed
  <2>3. UNCHANGED <<log, sess, seen, view, pc>>
    BY <2>1 DEF PassTime
  <2>4. \A q \in Member : seen'[q] >= seen[q] /\ view'[q] \in {0, view[q], seen[q]}
    BY <1>t, <2>3, Entries
  <2>5. CopiesCurrent'
    BY <1>p, <2>2, <2>3, <2>4, CopiesCurrentKept DEF StoreType
  <2> QED BY <1>h, <2>1, <2>2, <2>3, <2>5, TimePassed
<1> QED
  BY <1>1, <1>2, <1>3, <1>4, <1>5, <1>6, <1>7, <1>8, <1>9, <1>10, <1>11
  DEF ZooKeeper!ZooKeeperNext

-----------------------------------------------------------------------------
\* Consul.

\* What a member has loaded is current as to its own session.
ViewsCurrent == \A q \in Member, x \in 1 .. Last : x = view[q] => Current(q, x)

LEMMA ViewsCurrentKept ==
  ASSUME StoreType, ViewsCurrent, NEW m \in Member,
         log' = log \/ \E x1 \in Entry : log' = Append(log, x1),
         \A q \in Member \ {m} : Spared(q) /\ view'[q] = view[q],
         \A x \in 1 .. Last' : x = view'[m] => Current(m, x)'
  PROVE  ViewsCurrent'
<1> SUFFICES ASSUME NEW q \in Member, NEW x \in 1 .. Last', x = view'[q], q # m
             PROVE  Current(q, x)'
  BY DEF ViewsCurrent
<1>1. x = view[q] /\ x \in 1 .. Last /\ Current(q, x)
  <2>1. x = view[q] /\ view[q] \in 0 .. Last /\ Last \in Nat /\ Last' \in Nat
    BY Entries, Appended, Kept DEF StoreType
  <2>2. x \in 1 .. Last
    BY <2>1
  <2> QED BY <2>1, <2>2 DEF ViewsCurrent
<1>2. log'[x] = log[x]
  BY <1>1, Appended, Kept
<1>3. CASE ~Live(q)'
  BY <1>3 DEF Current
<1>4. CASE sess'[q] = sess[q] /\ Live(q) /\ (Key' = Key \/ Key.by # sess[q])
  BY <1>1, <1>2, <1>4, CurrentKept
<1> QED BY <1>3, <1>4 DEF Spared

\* Between the calls of an update there is a copy, and a session.
Updating == \A q \in Member : pc[q] \in {"refreshed", "deleted"} => view[q] # 0 /\ sess[q] # 0

ConsulCore ==
  /\ LeaseInv /\ ViewsCurrent
  /\ \A q \in Member : pc[q] # "deleted"

LEMMA ConsulTypes ==
  ASSUME StoreType, Updating, Recreations, Consul!ConsulNext
  PROVE  StoreType' /\ Updating' /\ Recreations' /\ (NobodyRecreated' => NobodyRecreated)
<1> USE Constants
<1>k. Consul!Key = Key /\ Consul!Last = Last /\ Consul!Nobody = Nobody
  BY DEF Consul!Key, Consul!Last, Key, Last, Consul!Nobody, Nobody
<1>t. /\ alive \in [Session -> 0 .. Ttl] /\ sess \in [Member -> 0 .. MaxSessions]
      /\ left \in 0 .. Ttl /\ pc \in [Member -> Place] /\ seen \in [Member -> 1 .. Last]
      /\ \A q \in Member : sess[q] # 0 => sess[q] \in Session /\ alive[sess[q]] \in 0 .. Ttl
      /\ 0 \in 0 .. Ttl /\ Ttl \in 0 .. Ttl /\ Last \in 1 .. Last
  <2>1. /\ alive \in [Session -> 0 .. Ttl] /\ sess \in [Member -> 0 .. MaxSessions]
        /\ left \in 0 .. Ttl /\ pc \in [Member -> Place] /\ seen \in [Member -> 1 .. Last]
    BY DEF StoreType
  <2>2. ASSUME NEW q \in Member, sess[q] # 0 PROVE sess[q] \in Session /\ alive[sess[q]] \in 0 .. Ttl
    <3>1. sess[q] \in 0 .. MaxSessions
      BY <2>1
    <3>2. sess[q] \in Session
      BY <2>2, <3>1 DEF Session
    <3> QED BY <2>1, <3>2
  <2>3. 0 \in 0 .. Ttl /\ Ttl \in 0 .. Ttl /\ Last \in 1 .. Last
    BY Entries
  <2> QED BY <2>1, <2>2, <2>3
<1>x. ASSUME UNCHANGED extra PROVE Recreations' /\ (NobodyRecreated' => NobodyRecreated)
  BY <1>x DEF Recreations, NobodyRecreated
<1>n. ASSUME NEW m \in Member
      PROVE  /\ [owner |-> m, by |-> sess[m]] \in Entry /\ Nobody \in Entry
             /\ Consul!SayNo(m) <=> Say(m, 0)
             /\ \A t \in 0 .. Ttl : Consul!Say(m, t) <=> Say(m, t)
             /\ \A x \in Entry : Consul!Put(x) => log' = Append(log, x)
             /\ Consul!Unused = Unused /\ (Consul!Live(m) <=> Live(m))
             /\ Consul!Refreshed(m) => Renewed(m)
             /\ UNCHANGED <<alive, sess>> /\ Live(m) => Renewed(m)
  <2>1. [owner |-> m, by |-> sess[m]] \in Entry /\ Nobody \in Entry
    BY <1>t DEF Entry, Nobody
  <2>2. /\ Consul!SayNo(m) <=> Say(m, 0)
        /\ \A t \in 0 .. Ttl : Consul!Say(m, t) <=> Say(m, t)
    BY DEF Consul!SayNo, Consul!Say, Say
  <2>3. \A x \in Entry : Consul!Put(x) => log' = Append(log, x)
    BY DEF Consul!Put
  <2>4. Consul!Unused = Unused /\ (Consul!Live(m) <=> Live(m))
    BY DEF Consul!Unused, Unused, Consul!Unknown, Unknown, Consul!Session, Session,
           Consul!Last, Last, Consul!Live, Live
  <2>5. ASSUME Consul!Refreshed(m) PROVE Renewed(m)
    BY <2>4, <2>5 DEF Consul!Refreshed, Renewed
  <2> QED BY <2>1, <2>2, <2>3, <2>4, <2>5 DEF Renewed
<1>y. ASSUME NEW m \in Member, Renewed(m) \/ UNCHANGED <<alive, sess>>
      PROVE  (\A q \in Member \ {m} : sess'[q] = sess[q]) /\ (Renewed(m) => sess'[m] # 0)
  <2>1. CASE UNCHANGED sess
    BY <2>1, <1>t DEF Renewed, Live, Unused, Unknown, Session
  <2>2. CASE Renewed(m) /\ ~Live(m)
    <3>1. PICK s \in Session : sess' = [sess EXCEPT ![m] = s]
      BY <2>2 DEF Renewed, Unused, Unknown
    <3> QED BY <3>1, <1>t DEF Session
  <2> QED BY <1>y, <2>1, <2>2 DEF Renewed
<1>a. ASSUME NEW m \in Member, NEW t \in 0 .. Ttl, Say(m, t), UNCHANGED <<left, cursor, seen>>,
             Renewed(m) \/ UNCHANGED <<alive, sess>>,
             UNCHANGED log \/ \E x \in Entry : log' = Append(log, x)
      PROVE  StoreType' /\ Updating'
  <2>1. alive' \in [Session -> 0 .. Ttl] /\ sess' \in [Member -> 0 .. MaxSessions]
    BY <1>a, SessionTypes
  <2>2. StoreType'
    BY <1>a, <1>t, <2>1, Wrote, Ended
  <2>3. \A q \in Member \ {m} : sess'[q] = sess[q]
    BY <1>a, <1>y
  <2>4. Updating'
    BY <1>a, <2>3 DEF Say, StoreType, Updating
  <2> QED BY <2>2, <2>4
<1>1. ASSUME NEW m \in Member, Consul!LoadCluster(m) PROVE StoreType' /\ Updating' /\ UNCHANGED extra
  <2>1. /\ pc[m] = "idle" /\ view' = [view EXCEPT ![m] = Last]
        /\ UNCHANGED <<log, left, alive, sess, cursor, seen, pc, sure, extra>>
    BY <1>1, <1>k DEF Consul!LoadCluster
  <2>2. StoreType'
    BY <2>1, <1>t, Loaded
  <2>3. Updating'
    BY <2>1 DEF Updating, StoreType
  <2> QED BY <2>1, <2>2, <2>3
<1>2. ASSUME NEW m \in Member, Consul!ForgetSession(m) PROVE StoreType' /\ Updating' /\ UNCHANGED extra
  <2>1. sess' = [sess EXCEPT ![m] = 0] /\ UNCHANGED <<log, left, alive, cursor, seen, view, pc, sure, extra>>
    BY <1>2 DEF Consul!ForgetSession
  <2>2. sess' \in [Member -> 0 .. MaxSessions]
    BY <2>1, <1>t
  <2>3. StoreType'
    BY <2>1, <2>2, Kept, Copies, StoreTypeAfter DEF StoreType
  <2>4. Updating'
    BY <1>2, <2>1, <1>t DEF Consul!ForgetSession, Updating
  <2> QED BY <2>1, <2>3, <2>4
<1>3. ASSUME NEW m \in Member, Consul!GiveUp(m) PROVE StoreType' /\ Updating' /\ UNCHANGED extra
  BY <1>3, <1>a, <1>n, <1>t DEF Consul!GiveUp
<1>4. ASSUME NEW m \in Member, Consul!AttemptToAcquireLeader(m) PROVE StoreType' /\ Updating' /\ UNCHANGED extra
  <2>1. Renewed(m) /\ UNCHANGED <<left, cursor, seen, extra>>
    BY <1>4, <1>n DEF Consul!AttemptToAcquireLeader
  <2>2. /\ [owner |-> m, by |-> sess'[m]] \in Entry
        /\ sess'[m] # 0 => alive'[sess'[m]] \in 0 .. Ttl
    BY <2>1, SessionTypes
  <2>3. sess'[m] # 0
    BY <2>1, <1>y
  <2>4. /\ Say(m, alive'[sess'[m]]) \/ Say(m, 0)
        /\ UNCHANGED log \/ \E x \in Entry : log' = Append(log, x)
    BY <1>4, <1>n, <1>t, <2>2, <2>3 DEF Consul!AttemptToAcquireLeader
  <2> QED BY <2>1, <2>2, <2>3, <2>4, <1>a, <1>t
<1>5. ASSUME NEW m \in Member, Consul!RefreshSession(m) PROVE StoreType' /\ Updating' /\ UNCHANGED extra
  <2>1. /\ Renewed(m) /\ pc' = [pc EXCEPT ![m] = "refreshed"]
        /\ UNCHANGED <<log, left, cursor, seen, view, sure, extra>>
    BY <1>5, <1>n DEF Consul!RefreshSession
  <2>2. alive' \in [Session -> 0 .. Ttl] /\ sess' \in [Member -> 0 .. MaxSessions]
    BY <2>1, SessionTypes
  <2>3. pc' \in [Member -> Place]
    BY <2>1, <1>t DEF Place
  <2>4. StoreType'
    BY <2>1, <2>2, <2>3, Kept, Copies, StoreTypeAfter DEF StoreType
  <2>5. Updating'
    BY <1>5, <2>1, <1>y, <1>t DEF Consul!RefreshSession, Consul!SeesOwner, Updating
  <2> QED BY <2>1, <2>4, <2>5
<1>6. ASSUME NEW m \in Member, Consul!SessionKept(m) \/ Consul!Recreate(m)
      PROVE  StoreType' /\ Updating' /\ UNCHANGED extra
  <2>1. sess[m] # 0 /\ alive[sess[m]] \in 0 .. Ttl
    BY <1>6, <1>t DEF Consul!SessionKept, Consul!Recreate, Updating
  <2>2. /\ Say(m, alive[sess[m]]) /\ UNCHANGED <<left, alive, sess, cursor, seen, extra>>
        /\ UNCHANGED log \/ \E x \in Entry : log' = Append(log, x)
    BY <1>6, <1>n, <2>1 DEF Consul!SessionKept, Consul!Recreate
  <2> QED BY <2>1, <2>2, <1>a, <1>t
<1>7. ASSUME NEW m \in Member, Consul!DeleteOld(m)
      PROVE  StoreType' /\ Updating' /\ Recreations' /\ (NobodyRecreated' => NobodyRecreated)
  <2>1. /\ extra' = [extra EXCEPT ![m] = TRUE] /\ pc' = [pc EXCEPT ![m] = "deleted"]
        /\ UNCHANGED <<left, alive, sess, cursor, seen, view, sure>>
        /\ UNCHANGED log \/ log' = Append(log, Nobody)
    BY <1>7, <1>n, <1>k DEF Consul!DeleteOld
  <2>2. pc' \in [Member -> Place]
    BY <2>1, <1>t DEF Place
  <2>3. log' \in Seq(Entry) /\ Last' \in Nat /\ Last' > 0 /\ Last' >= Last
    BY <2>1, <1>n, Appended, Kept
  <2>4. StoreType'
    BY <2>1, <2>2, <2>3, Copies, StoreTypeAfter DEF StoreType
  <2>5. Recreations' /\ (NobodyRecreated' => NobodyRecreated)
    BY <2>1 DEF Recreations, NobodyRecreated
  <2>6. Updating'
    BY <1>7, <2>1, <1>t DEF Consul!DeleteOld, Updating
  <2> QED BY <2>4, <2>5, <2>6
<1>8. ASSUME NEW m \in Member, Consul!DeleteLeader(m) PROVE StoreType' /\ Updating' /\ UNCHANGED extra
  BY <1>8, <1>a, <1>n, <1>t, <1>k DEF Consul!DeleteLeader
<1>9. CASE Consul!Expire
  <2>1. /\ log' = Append(log, Nobody)
        /\ UNCHANGED <<left, alive, sess, cursor, seen, view, pc, sure, extra>>
    BY <1>9, <1>k DEF Consul!Expire, Consul!Put
  <2>2. Nobody \in Entry
    BY DEF Entry, Nobody
  <2>3. StoreType'
    BY <2>1, <2>2, <1>t, WroteAlone
  <2>4. Updating'
    BY <2>1 DEF Updating
  <2> QED BY <2>1, <2>3, <2>4, <1>x
<1>10. CASE Consul!Tick
  <2>1. PassTime /\ UNCHANGED extra
    BY <1>10 DEF Consul!Tick, Consul!PassTime, PassTime, Consul!Dec, Dec, Consul!Session, Session
  <2>2. Updating'
    BY <2>1 DEF PassTime, Updating
  <2> QED BY <2>1, <2>2, <1>x, Passed
<1> QED
  BY <1>x, <1>1, <1>2, <1>3, <1>4, <1>5, <1>6, <1>7, <1>8, <1>9, <1>10
  DEF Consul!ConsulNext

\* As long as no key was recreated, each step is one of LeaderKey (consul.py
\* attempt_to_acquire_leader, _update_leader, _delete_leader).
LEMMA ConsulStep ==
  ASSUME StoreType, Updating, Recreations, ConsulCore, NobodyRecreated', Consul!ConsulNext,
         backend = "consul", UNCHANGED backend
  PROVE  ConsulCore' /\ LeaderKeyStep
<1> USE Constants DEF ConsulCore, LeaseInv
<1>h. Holder = Key.owner /\ Holder' = Key'.owner
  BY DEF Holder
<1>e. Nobody \in Entry /\ Nobody.owner = None /\ Nobody.by = 0
  BY DEF Nobody, Entry
<1>p. StoreType'
  BY ConsulTypes
<1>t. /\ \A q \in Member : sess[q] # 0 => sess[q] \in Session /\ alive[sess[q]] \in 0 .. Ttl
      /\ \A q \in Member : view[q] \in 0 .. Last
      /\ Last \in Nat /\ 0 \in 0 .. Ttl
  BY Entries DEF StoreType, Session
<1>k. Consul!Key = Key /\ Consul!Last = Last /\ Consul!Nobody = Nobody
  BY DEF Consul!Key, Consul!Last, Key, Last, Consul!Nobody, Nobody
<1>n. ASSUME NEW m \in Member
      PROVE  /\ Consul!SayNo(m) <=> Say(m, 0)
             /\ \A t \in 0 .. Ttl : Consul!Say(m, t) <=> Say(m, t)
             /\ Consul!Live(m) <=> Live(m)
             /\ Consul!Refreshed(m) => Renewed(m)
             /\ UNCHANGED <<alive, sess>> /\ Live(m) => Renewed(m)
             /\ \A o \in Member \cup {None} : Consul!SeesOwner(m, o) <=> SeesOwner(m, o)
             /\ \A s : Consul!Acquired(m, s) <=> Key.owner = None \/ Key.by = s
  <2>1. /\ Consul!SayNo(m) <=> Say(m, 0)
        /\ \A t \in 0 .. Ttl : Consul!Say(m, t) <=> Say(m, t)
    BY DEF Consul!SayNo, Consul!Say, Say
  <2>2. Consul!Unused = Unused /\ (Consul!Live(m) <=> Live(m))
    BY DEF Consul!Unused, Unused, Consul!Unknown, Unknown, Consul!Session, Session,
           Consul!Last, Last, Consul!Live, Live
  <2>3. ASSUME Consul!Refreshed(m) PROVE Renewed(m)
    BY <2>2, <2>3 DEF Consul!Refreshed, Renewed
  <2>4. \A o \in Member \cup {None} : Consul!SeesOwner(m, o) <=> SeesOwner(m, o)
    BY DEF Consul!SeesOwner, SeesOwner
  <2>5. \A s : Consul!Acquired(m, s) <=> Key.owner = None \/ Key.by = s
    BY <1>k DEF Consul!Acquired
  <2> QED BY <2>1, <2>2, <2>3, <2>4, <2>5 DEF Renewed
<1>c. ASSUME NEW m \in Member, view'[m] = 0, log' = log \/ \E x \in Entry : log' = Append(log, x),
             \A q \in Member \ {m} : Spared(q) /\ view'[q] = view[q]
      PROVE  ViewsCurrent'
  <2>1. \A x \in 1 .. Last' : x # view'[m]
    BY <1>c, Appended, Kept
  <2> QED BY <1>c, <2>1, ViewsCurrentKept
<1>r. ASSUME NEW m \in Member, NEW t \in 0 .. Ttl, Say(m, t),
             Renewed(m) \/ UNCHANGED <<alive, sess>>, UNCHANGED <<log, left, cursor, seen>>,
             t > 0 => Key.owner = m /\ t <= alive'[Key.by]
      PROVE  ConsulCore' /\ LeaderKeyStep
  <2>1. LeaseInv' /\ Key' = Key /\ \A q \in Member \ {m} : Spared(q)
    BY <1>r, LeaseEnded
  <2>2. /\ view'[m] = 0 /\ \A q \in Member \ {m} : view'[q] = view[q]
        /\ \A q \in Member : pc'[q] # "deleted"
    BY <1>r DEF Say, StoreType
  <2>3. ViewsCurrent'
    BY <1>r, <1>c, <2>1, <2>2
  <2>4. LeaderKeyStep
    BY <1>r, <1>h, <2>1, Granted, Refused
  <2> QED BY <2>1, <2>2, <2>3, <2>4
<1>1. ASSUME NEW m \in Member, Consul!LoadCluster(m) PROVE ConsulCore' /\ LeaderKeyStep
  <2>1. /\ view' = [view EXCEPT ![m] = Last]
        /\ UNCHANGED <<log, alive, sess, pc, sure>>
    BY <1>1, <1>k DEF Consul!LoadCluster
  <2>2. LeaseInv' /\ Key' = Key /\ Last' = Last /\ \A q \in Member \ {m} : Spared(q)
    BY <2>1, LeaseQuiet
  <2>3. view'[m] = Last /\ \A q \in Member \ {m} : view'[q] = view[q]
    BY <2>1 DEF StoreType
  <2>4. Current(m, Last)'
    BY DEF Current, Key
  <2>5. ViewsCurrent'
    BY <2>1, <2>2, <2>3, <2>4, ViewsCurrentKept
  <2> QED BY <1>h, <2>1, <2>2, <2>5, Unnoticed
<1>2. ASSUME NEW m \in Member, Consul!ForgetSession(m) PROVE ConsulCore' /\ LeaderKeyStep
  <2>1. sess' = [sess EXCEPT ![m] = 0] /\ UNCHANGED <<log, left, alive, cursor, seen, view, pc, sure>>
    BY <1>2 DEF Consul!ForgetSession
  <2>2. LeaseInv' /\ Key' = Key /\ Last' = Last /\ \A q \in Member : Spared(q)
    BY <2>1, LeaseForgotten
  <2>3. sess'[m] = 0
    BY <2>1 DEF StoreType
  <2>4. \A x \in 1 .. Last' : x = view'[m] => Current(m, x)'
    BY <2>3 DEF Current, Live
  <2>5. ViewsCurrent'
    BY <2>1, <2>2, <2>4, ViewsCurrentKept
  <2> QED BY <1>h, <2>1, <2>2, <2>5, Unnoticed
<1>3. ASSUME NEW m \in Member, Consul!GiveUp(m) PROVE ConsulCore' /\ LeaderKeyStep
  BY <1>3, <1>r, <1>n, <1>t DEF Consul!GiveUp
<1>4. ASSUME NEW m \in Member, Consul!AttemptToAcquireLeader(m) PROVE ConsulCore' /\ LeaderKeyStep
  <2>1. Renewed(m) /\ UNCHANGED <<left, cursor, seen>>
    BY <1>4, <1>n DEF Consul!AttemptToAcquireLeader
  <2>2. sess'[m] # 0 /\ sess'[m] \in Session /\ alive'[sess'[m]] \in 0 .. Ttl
    BY <2>1, Renewal
  <2>3. CASE ~(Key.owner = None \/ Key.by = sess'[m])
    <3>1. Say(m, 0) /\ UNCHANGED log
      BY <1>4, <1>n, <2>3 DEF Consul!AttemptToAcquireLeader
    <3> QED BY <2>1, <3>1, <1>t, <1>r
  <2>4. CASE Key.owner = None \/ Key.by = sess'[m]
    <3>1. Key.owner \in {None, m}
      <4>1. ASSUME Key.by = sess'[m] PROVE Key.owner = m
        <5>1. sess'[m] = sess[m]
          BY <2>1, <4>1, Renewal, Entries
        <5> QED BY <2>2, <4>1, <5>1, KeySession
      <4> QED BY <2>4, <4>1
    <3>2. /\ log' = Append(log, [owner |-> m, by |-> sess'[m]])
          /\ Say(m, alive'[sess'[m]]) \/ Say(m, 0)
      BY <1>4, <1>n, <2>2, <2>4 DEF Consul!AttemptToAcquireLeader, Consul!Put
    <3>3. PICK t \in {0, alive'[sess'[m]]} : Say(m, t)
      BY <3>2
    <3>4. t \in 0 .. Ttl /\ t <= alive'[sess'[m]]
      BY <2>2, <3>3
    <3>5. [owner |-> m, by |-> sess'[m]] \in Entry
      BY <2>2 DEF Entry, Session
    <3>6. Key' = [owner |-> m, by |-> sess'[m]]
      BY <3>2, <3>5, Appended
    <3>7. LeaseInv' /\ \A q \in Member \ {m} : Spared(q)
      BY <2>1, <2>2, <3>1, <3>2, <3>3, <3>4, LeaseWritten
    <3>8. /\ view'[m] = 0 /\ (\A q \in Member \ {m} : view'[q] = view[q])
          /\ \A q \in Member : pc'[q] # "deleted"
      BY <3>3 DEF Say, StoreType
    <3>9. ViewsCurrent'
      BY <3>2, <3>5, <3>7, <3>8, <1>c
    <3> QED BY <1>h, <3>1, <3>3, <3>4, <3>6, <3>7, <3>8, <3>9, Granted
  <2> QED BY <2>3, <2>4
<1>5. ASSUME NEW m \in Member, Consul!RefreshSession(m) PROVE ConsulCore' /\ LeaderKeyStep
  <2>1. /\ Renewed(m) /\ pc' = [pc EXCEPT ![m] = "refreshed"]
        /\ UNCHANGED <<log, left, cursor, seen, view, sure>>
    BY <1>5, <1>n DEF Consul!RefreshSession
  <2>2. LeaseInv' /\ Key' = Key /\ Last' = Last /\ \A q \in Member \ {m} : Spared(q)
    BY <2>1, LeaseQuiet
  <2>3. \A q \in Member : pc'[q] # "deleted"
    BY <2>1 DEF StoreType
  <2>4. ASSUME NEW x \in 1 .. Last', x = view'[m] PROVE Current(m, x)'
    <3>1. x \in 1 .. Last /\ Current(m, x)
      BY <2>1, <2>2, <2>4 DEF ViewsCurrent
    <3> QED BY <2>1, <3>1, RenewedCurrent
  <2>5. ViewsCurrent'
    BY <2>1, <2>2, <2>4, ViewsCurrentKept
  <2> QED BY <1>h, <2>1, <2>2, <2>3, <2>5, Unnoticed
<1>6. ASSUME NEW m \in Member, Consul!SessionKept(m) PROVE ConsulCore' /\ LeaderKeyStep
  <2>1. /\ log[view[m]].by = sess[m] /\ sess[m] # 0 /\ view[m] # 0
        /\ UNCHANGED <<alive, sess, log, left, cursor, seen>>
    BY <1>6 DEF Consul!SessionKept, Updating
  <2>2. alive[sess[m]] \in 0 .. Ttl /\ Say(m, alive[sess[m]]) /\ view[m] \in 1 .. Last
    BY <1>6, <1>n, <1>t, <2>1 DEF Consul!SessionKept
  <2>3. alive[sess[m]] > 0 => Key.owner = m /\ Key.by = sess[m]
    BY <2>1, <2>2, KeySession DEF ViewsCurrent, Current, Live
  <2> QED BY <2>1, <2>2, <2>3, <1>r
<1>7. ASSUME NEW m \in Member, Consul!DeleteOld(m) PROVE FALSE
  <2>1. extra' = [extra EXCEPT ![m] = TRUE]
    BY <1>7 DEF Consul!DeleteOld
  <2> QED BY <2>1 DEF Recreations, NobodyRecreated
<1>8. ASSUME NEW m \in Member, Consul!Recreate(m) PROVE FALSE
  BY <1>8 DEF Consul!Recreate
<1>9. ASSUME NEW m \in Member, Consul!DeleteLeader(m) PROVE ConsulCore' /\ LeaderKeyStep
  <2>1. /\ SeesOwner(m, m) /\ Say(m, 0) /\ UNCHANGED <<left, alive, sess, cursor, seen>>
        /\ IF view[m] = Last THEN log' = Append(log, Nobody) ELSE UNCHANGED log
    BY <1>9, <1>n, <1>k DEF Consul!DeleteLeader, Consul!Put
  <2>2. CASE view[m] # Last
    BY <2>1, <2>2, <1>t, <1>r
  <2>3. CASE view[m] = Last
    <3>1. Key.owner = m /\ log' = Append(log, Nobody)
      BY <2>1, <2>3 DEF SeesOwner, Key
    <3>2. LeaseInv' /\ \A q \in Member \ {m} : Spared(q)
      BY <2>1, <3>1, <1>t, LeaseWritten
    <3>3. Key'.owner = None
      BY <3>1, <1>e, Appended
    <3>4. /\ view'[m] = 0 /\ (\A q \in Member \ {m} : view'[q] = view[q])
          /\ \A q \in Member : pc'[q] # "deleted"
      BY <2>1 DEF Say, StoreType
    <3>5. ViewsCurrent'
      BY <3>1, <3>2, <3>4, <1>c, <1>e
    <3> QED BY <1>h, <2>1, <3>1, <3>2, <3>3, <3>4, <3>5, Released
  <2> QED BY <2>2, <2>3
<1>10. CASE Consul!Expire
  <2>1. /\ log' = Append(log, Nobody) /\ Key.owner # None /\ alive[Key.by] = 0
        /\ UNCHANGED <<left, alive, sess, cursor, seen, view, pc, sure>>
    BY <1>10, <1>k DEF Consul!Expire, Consul!Put
  <2>2. /\ LeaseInv' /\ Key'.owner = None /\ Key.owner \in Member /\ sure[Key.owner] = 0
        /\ \A q \in Member : Spared(q)
    BY <2>1, LeaseExpired
  <2>3. ViewsCurrent'
    <3> SUFFICES ASSUME NEW q \in Member, NEW x \in 1 .. Last', x = view'[q] PROVE Current(q, x)'
      BY DEF ViewsCurrent
    <3>1. x = view[q] /\ x \in 1 .. Last
      BY <2>1, <1>e, <1>t, Appended
    <3>2. Current(q, x) /\ log'[x] = log[x]
      BY <2>1, <3>1, <1>e, Appended DEF ViewsCurrent
    <3>3. CASE ~Live(q)'
      BY <3>3 DEF Current
    <3>4. CASE Live(q)'
      BY <2>2, <3>1, <3>2, <3>4, CurrentKept DEF Spared
    <3> QED BY <3>3, <3>4
  <2> QED BY <1>h, <2>1, <2>2, <2>3, Lapsed
<1>11. CASE Consul!Tick
  <2>1. PassTime
    BY <1>11 DEF Consul!Tick, Consul!PassTime, PassTime, Consul!Dec, Dec, Consul!Session, Session
  <2>2. LeaseInv' /\ Key' = Key /\ Last' = Last /\ \A q \in Member : Spared(q)
    BY <2>1, LeasePassed
  <2>3. UNCHANGED <<log, sess, view, pc>>
    BY <2>1 DEF PassTime
  <2>4. ViewsCurrent'
    <3> SUFFICES ASSUME NEW q \in Member, NEW x \in 1 .. Last', x = view'[q] PROVE Current(q, x)'
      BY DEF ViewsCurrent
    <3>1. Current(q, x) /\ x \in 1 .. Last /\ log'[x] = log[x]
      BY <2>2, <2>3 DEF ViewsCurrent
    <3> QED BY <2>2, <3>1, CurrentKept DEF Spared, Current
  <2> QED BY <1>h, <2>1, <2>2, <2>3, <2>4, TimePassed
<1> QED
  BY <1>1, <1>2, <1>3, <1>4, <1>5, <1>6, <1>7, <1>8, <1>9, <1>10, <1>11
  DEF Consul!ConsulNext

-----------------------------------------------------------------------------
\* Raft.

Command == [op : {"none", "create", "renew", "remove"}, left : 0 .. Ttl]

\* A member whose call was given up while its command is under way is not sure of
\* anything, nor one that removes the key.
Unsure ==
  \A q \in Member :
    /\ pc[q] # "waiting" /\ extra.cmd[q] # Raft!NoCommand => sure[q] = 0
    /\ extra.cmd[q].op = "remove" => sure[q] = 0

\* An _expire under way is for a key that has run out, or for one that is no more.
ExpiresLate == extra.limb = Last => left = 0 /\ Key.owner # None

RaftInv ==
  /\ StoreType /\ SureByTime
  /\ extra \in [cmd : [Member -> Command], limb : 0 .. Last]
  /\ Unsure /\ ExpiresLate

\* An answer FALSE, or none, leaves the key with its holder.
LEMMA Withdrawn ==
  ASSUME StoreType, SureByTime, NEW m \in Member, Holder' = Holder, Key' = Key, UNCHANGED left,
         UNCHANGED sure \/ sure' = [sure EXCEPT ![m] = 0]
  PROVE  SureByTime' /\ LeaderKeyStep
<1>1. SureByTime'
  <2>1. \A q \in Member : sure'[q] \in {0, sure[q]} /\ sure[q] \in Nat
    BY Constants DEF StoreType
  <2> QED BY <2>1 DEF SureByTime
<1>2. LeaderKeyStep
  BY Unnoticed DEF LK!Refuse, LK!LeaderKeyNext, LeaderKeyStep
<1> QED BY <1>1, <1>2

\* Each step of the HA cycle, of the replicated log, of the raft leader's expiry and of
\* time is one of LeaderKey (raft.py _set, _delete, _expire, and class Raft).
LEMMA RaftStep ==
  ASSUME RaftInv, Raft!RaftNext, backend = "raft", UNCHANGED backend
  PROVE  RaftInv' /\ LeaderKeyStep
<1> USE Constants DEF RaftInv
<1>h. Holder = Key.owner /\ Holder' = Key'.owner
  BY DEF Holder
<1>e. Nobody \in Entry /\ Nobody.owner = None
  BY DEF Nobody, Entry
<1>k. Raft!Key = Key /\ Raft!Last = Last /\ Raft!Nobody = Nobody
  BY DEF Raft!Key, Raft!Last, Key, Last, Raft!Nobody, Nobody
<1>t. /\ Last \in Nat /\ left \in 0 .. Ttl /\ 0 \in 0 .. Ttl /\ pc \in [Member -> Place]
      /\ alive \in [Session -> 0 .. Ttl] /\ sess \in [Member -> 0 .. MaxSessions]
      /\ \A q \in Member : seen[q] \in 1 .. Last /\ sure[q] \in 0 .. Ttl
      /\ sure \in [Member -> 0 .. Ttl]
  BY Entries DEF StoreType
<1>x. /\ extra.cmd \in [Member -> Command] /\ extra.limb \in 0 .. Last
      /\ \A q \in Member : extra.cmd[q].left \in 0 .. Ttl
      /\ Raft!NoCommand \in Command /\ Raft!NoCommand.op = "none"
  BY <1>t DEF Command, Raft!NoCommand
<1>n. ASSUME NEW m \in Member
      PROVE  /\ Raft!SayNo(m) <=> Say(m, 0)
             /\ \A t \in 0 .. Ttl : Raft!Say(m, t) <=> Say(m, t)
             /\ \A o \in Member \cup {None} : Raft!SeesOwner(m, o) <=> SeesOwner(m, o)
  <2>1. /\ Raft!SayNo(m) <=> Say(m, 0)
        /\ \A t \in 0 .. Ttl : Raft!Say(m, t) <=> Say(m, t)
    BY DEF Raft!SayNo, Raft!Say, Say
  <2>2. \A o \in Member \cup {None} : Raft!SeesOwner(m, o) <=> SeesOwner(m, o)
    BY DEF Raft!SeesOwner, SeesOwner
  <2> QED BY <2>1, <2>2
\* The key stays, and what a member is told is FALSE, if anything.
<1>r. ASSUME NEW m \in Member, UNCHANGED <<log, left>>, StoreType',
             UNCHANGED sure \/ sure' = [sure EXCEPT ![m] = 0],
             NEW req \in Command, NEW to \in 0 .. Last,
             extra' = [cmd |-> [extra.cmd EXCEPT ![m] = req], limb |-> to],
             \A q \in Member \ {m} : pc'[q] = pc[q],
             req # Raft!NoCommand => pc'[m] = "waiting" \/ sure'[m] = 0,
             req.op = "remove" => sure'[m] = 0,
             to = Last => left = 0 /\ Key.owner # None
      PROVE  RaftInv' /\ LeaderKeyStep
  <2>1. Last' = Last /\ Key' = Key
    BY <1>r, Kept
  <2>2. extra' \in [cmd : [Member -> Command], limb : 0 .. Last]
    BY <1>r, <1>x
  <2>3. extra'.cmd[m] = req /\ extra'.limb = to /\ \A q \in Member \ {m} : extra'.cmd[q] = extra.cmd[q]
    BY <1>r, <1>x
  <2>4. \A q \in Member : sure'[q] = sure[q] \/ sure'[q] = 0
    BY <1>r, <1>t
  <2>5. Unsure'
    <3> SUFFICES ASSUME NEW q \in Member
                 PROVE  /\ pc'[q] # "waiting" /\ extra'.cmd[q] # Raft!NoCommand => sure'[q] = 0
                        /\ extra'.cmd[q].op = "remove" => sure'[q] = 0
      BY DEF Unsure, Raft!NoCommand
    <3>1. CASE q = m
      BY <1>r, <2>3, <3>1
    <3>2. CASE q # m
      BY <1>r, <2>3, <2>4, <3>2 DEF Unsure
    <3> QED BY <3>1, <3>2
  <2>6. ExpiresLate'
    BY <1>r, <2>1, <2>3 DEF ExpiresLate
  <2>7. SureByTime' /\ LeaderKeyStep
    BY <1>r, <1>h, <2>1, Withdrawn
  <2> QED BY <1>r, <2>1, <2>2, <2>5, <2>6, <2>7 DEF Command
\* The same when there is no command.
<1>o. ASSUME NEW m \in Member, UNCHANGED <<log, left, extra, sure, pc>>, StoreType'
      PROVE  RaftInv' /\ LeaderKeyStep
  <2>1. Last' = Last /\ Key' = Key
    BY <1>o, Kept
  <2>2. Unsure' /\ ExpiresLate' /\ extra' \in [cmd : [Member -> Command], limb : 0 .. Last]
    BY <1>o, <2>1 DEF Unsure, ExpiresLate
  <2>3. SureByTime' /\ LeaderKeyStep
    BY <1>o, <1>h, <2>1, Withdrawn
  <2> QED BY <1>o, <2>1, <2>2, <2>3 DEF Command
<1>1. ASSUME NEW m \in Member, Raft!LoadCluster(m) PROVE RaftInv' /\ LeaderKeyStep
  <2>1. view' = [view EXCEPT ![m] = seen[m]] /\ UNCHANGED <<log, left, alive, sess, cursor, seen, pc, sure, extra>>
    BY <1>1 DEF Raft!LoadCluster, Raft!Load
  <2> QED BY <2>1, <1>t, <1>o, Loaded
<1>2. ASSUME NEW m \in Member, Raft!Deliver(m) PROVE RaftInv' /\ LeaderKeyStep
  <2>1. Deliver(m) /\ UNCHANGED <<log, left, sure, pc, extra>>
    BY <1>2 DEF Raft!Deliver, Raft!Last, Deliver, Last
  <2> QED BY <2>1, <1>o, Delivered
<1>3. ASSUME NEW m \in Member, Raft!StopLeading(m) PROVE RaftInv' /\ LeaderKeyStep
  <2>1. /\ sure' = [sure EXCEPT ![m] = 0] /\ pc[m] = "idle"
        /\ UNCHANGED <<log, left, alive, sess, cursor, seen, view, pc, extra>>
    BY <1>3 DEF Raft!StopLeading
  <2>2. sure' \in [Member -> 0 .. Ttl] /\ sure'[m] = 0
    BY <2>1, <1>t
  <2>3. StoreType'
    BY <2>1, <2>2, Kept, Copies, StoreTypeAfter DEF StoreType
  <2>4. extra' = [cmd |-> [extra.cmd EXCEPT ![m] = extra.cmd[m]], limb |-> extra.limb]
    BY <2>1, <1>x
  <2>5. extra.cmd[m] \in Command
    BY <1>x
  <2> QED BY <2>1, <2>2, <2>3, <2>4, <2>5, <1>r, <1>x DEF ExpiresLate
<1>4. ASSUME NEW m \in Member, Raft!TimeOut(m) PROVE RaftInv' /\ LeaderKeyStep
  <2>1. Say(m, 0) /\ UNCHANGED <<log, left, alive, sess, cursor, seen, extra>>
    BY <1>4, <1>n DEF Raft!TimeOut
  <2>2. StoreType'
    BY <2>1, <1>t, Ended
  <2>3. extra' = [cmd |-> [extra.cmd EXCEPT ![m] = extra.cmd[m]], limb |-> extra.limb]
    BY <2>1, <1>x
  <2>4. sure' = [sure EXCEPT ![m] = 0] /\ sure'[m] = 0 /\ \A q \in Member \ {m} : pc'[q] = pc[q]
    BY <2>1, <1>t DEF Say
  <2>5. extra.cmd[m] \in Command
    BY <1>x
  <2> QED BY <2>1, <2>2, <2>3, <2>4, <2>5, <1>r, <1>x DEF ExpiresLate
<1>5. ASSUME NEW m \in Member, NEW op \in {"create", "renew", "remove"}, Raft!Send(m, op),
             op = "remove" => sure[m] = 0
      PROVE  RaftInv' /\ LeaderKeyStep
  <2>1. UNCHANGED <<log, left, alive, sess, cursor, seen>>
    BY <1>5 DEF Raft!Send
  <2>2. CASE ~Raft!Meets(op, m, log[seen[m]])
    <3>1. Say(m, 0) /\ UNCHANGED extra
      BY <1>5, <1>n, <2>2 DEF Raft!Send
    <3>2. StoreType'
      BY <2>1, <3>1, <1>t, Ended
    <3>3. extra' = [cmd |-> [extra.cmd EXCEPT ![m] = extra.cmd[m]], limb |-> extra.limb]
      BY <3>1, <1>x
    <3>4. sure' = [sure EXCEPT ![m] = 0] /\ sure'[m] = 0 /\ \A q \in Member \ {m} : pc'[q] = pc[q]
      BY <3>1, <1>t DEF Say
    <3>5. extra.cmd[m] \in Command
      BY <1>x
    <3> QED BY <2>1, <3>2, <3>3, <3>4, <3>5, <1>r, <1>x DEF ExpiresLate
  <2>3. CASE Raft!Meets(op, m, log[seen[m]])
    <3> DEFINE req == [op |-> op, left |-> Ttl]
    <3>1. /\ extra' = [extra EXCEPT !.cmd[m] = req] /\ pc' = [pc EXCEPT ![m] = "waiting"]
          /\ UNCHANGED <<view, sure>>
      BY <1>5, <2>3 DEF Raft!Send
    <3>2. req \in Command /\ req.op = op
      BY DEF Command
    <3>3. extra' = [cmd |-> [extra.cmd EXCEPT ![m] = req], limb |-> extra.limb]
      BY <3>1, <1>x
    <3>4. pc' \in [Member -> Place] /\ pc'[m] = "waiting" /\ \A q \in Member \ {m} : pc'[q] = pc[q]
      BY <3>1, <1>t DEF Place
    <3>5. StoreType'
      BY <2>1, <3>1, <3>4, Kept, Copies, StoreTypeAfter DEF StoreType
    <3> HIDE DEF req
    <3> QED BY <1>5, <2>1, <3>1, <3>2, <3>3, <3>4, <3>5, <1>r, <1>x DEF ExpiresLate
  <2> QED BY <2>2, <2>3
<1>6. ASSUME NEW m \in Member,
             Raft!AttemptToAcquireLeader(m) \/ Raft!UpdateLeader(m) \/ Raft!DeleteLeader(m)
      PROVE  RaftInv' /\ LeaderKeyStep
  <2>1. CASE Raft!AttemptToAcquireLeader(m)
    BY <2>1, <1>5 DEF Raft!AttemptToAcquireLeader, Raft!Create
  <2>2. CASE Raft!UpdateLeader(m)
    BY <2>2, <1>5 DEF Raft!UpdateLeader, Raft!Create, Raft!Renew
  <2>3. CASE Raft!DeleteLeader(m)
    BY <2>3, <1>5 DEF Raft!DeleteLeader, Raft!Remove
  <2> QED BY <1>6, <2>1, <2>2, <2>3
<1>7. ASSUME NEW m \in Member, UNCHANGED <<log, left, alive, sess, cursor, seen>>,
             extra' = [extra EXCEPT !.cmd[m] = Raft!NoCommand],
             IF pc[m] = "waiting" THEN Say(m, 0) ELSE UNCHANGED <<view, pc, sure>>
      PROVE  RaftInv' /\ LeaderKeyStep
  <2>1. extra' = [cmd |-> [extra.cmd EXCEPT ![m] = Raft!NoCommand], limb |-> extra.limb]
    BY <1>7, <1>x
  <2>2. StoreType'
    <3>1. CASE pc[m] = "waiting"
      BY <1>7, <3>1, <1>t, Ended
    <3>2. CASE pc[m] # "waiting"
      BY <1>7, <3>2, Kept, Copies, StoreTypeAfter DEF StoreType
    <3> QED BY <3>1, <3>2
  <2>3. /\ UNCHANGED sure \/ sure' = [sure EXCEPT ![m] = 0]
        /\ \A q \in Member \ {m} : pc'[q] = pc[q]
    BY <1>7, <1>t DEF Say
  <2> QED BY <1>7, <2>1, <2>2, <2>3, <1>r, <1>x DEF ExpiresLate
<1>8. ASSUME NEW m \in Member, Raft!Lose(m) PROVE RaftInv' /\ LeaderKeyStep
  BY <1>8, <1>7, <1>n DEF Raft!Lose
<1>9. ASSUME NEW m \in Member, Raft!Apply(m) PROVE RaftInv' /\ LeaderKeyStep
  <2> DEFINE req == extra.cmd[m]
  <2>1. /\ req # Raft!NoCommand /\ extra' = [extra EXCEPT !.cmd[m] = Raft!NoCommand]
        /\ UNCHANGED <<alive, sess, cursor, seen>>
    BY <1>9 DEF Raft!Apply
  <2>2. CASE ~Raft!Meets(req.op, m, Key)
    <3>1. UNCHANGED <<log, left>> /\ IF pc[m] = "waiting" THEN Say(m, 0) ELSE UNCHANGED <<view, pc, sure>>
      BY <1>9, <1>n, <1>k, <2>2 DEF Raft!Apply
    <3> QED BY <2>1, <3>1, <1>7
  <2>3. CASE Raft!Meets(req.op, m, Key)
    <3> DEFINE e1 == IF req.op = "remove" THEN Nobody ELSE [owner |-> m, by |-> 0]
               t == IF req.op = "remove" THEN 0 ELSE req.left
    <3>1. /\ log' = Append(log, e1) /\ left' = t
          /\ IF pc[m] = "waiting" THEN Say(m, t) ELSE UNCHANGED <<view, pc, sure>>
      <4>1. t \in 0 .. Ttl
        BY <1>x, <1>t
      <4> QED BY <1>9, <1>n, <1>k, <2>3, <4>1 DEF Raft!Apply, Raft!Put, Raft!Remove
    <3>2. /\ t \in 0 .. Ttl /\ e1 \in Entry
          /\ IF req.op = "remove" THEN e1.owner = None /\ t = 0 ELSE e1.owner = m
      BY <1>x, <1>t, <1>e DEF Entry
    <3>3. Key.owner \in {m, None} /\ (req.op = "remove" => Key.owner = m)
      BY <2>3 DEF Raft!Meets, Raft!Create, Raft!Renew, Raft!Remove
    <3>4. pc[m] # "waiting" \/ req.op = "remove" => sure[m] = 0
      BY <2>1 DEF Unsure
    <3> HIDE DEF e1, t
    <3>5. Last' = Last + 1 /\ Key' = e1
      BY <3>1, <3>2, Appended
    <3>6. StoreType'
      <4>1. CASE pc[m] = "waiting"
        BY <2>1, <3>1, <3>2, <4>1, <1>t, Wrote
      <4>2. CASE pc[m] # "waiting"
        BY <2>1, <3>1, <3>2, <4>2, <1>t, WroteAlone
      <4> QED BY <4>1, <4>2
    <3>7. \E s \in 0 .. t : sure' = [sure EXCEPT ![m] = s]
      <4>1. CASE pc[m] = "waiting"
        BY <3>1, <3>2, <4>1 DEF Say
      <4>2. CASE pc[m] # "waiting"
        <5>1. sure' = [sure EXCEPT ![m] = 0]
          BY <3>1, <3>4, <4>2, <1>t
        <5>2. 0 \in 0 .. t
          BY <3>2
        <5> QED BY <5>1, <5>2
      <4> QED BY <4>1, <4>2
    <3>8. PICK s \in 0 .. t : sure' = [sure EXCEPT ![m] = s]
      BY <3>7
    <3>9. sure'[m] = s /\ s \in 0 .. Ttl /\ s <= t /\ \A q \in Member \ {m} : sure'[q] = sure[q]
      BY <3>2, <3>8, <1>t
    <3>10. SureByTime'
      <4> SUFFICES ASSUME NEW q \in Member, sure'[q] > 0 PROVE Key'.owner = q /\ sure'[q] <= left'
        BY DEF SureByTime
      <4>1. q = m
        <5> SUFFICES ASSUME q # m PROVE FALSE
          OBVIOUS
        <5> QED BY <3>3, <3>9 DEF SureByTime
      <4>2. req.op # "remove"
        BY <3>2, <3>9, <4>1
      <4> QED BY <3>1, <3>2, <3>5, <3>9, <4>1, <4>2
    <3>11. LeaderKeyStep
      <4>1. CASE req.op = "remove"
        <5>1. sure' = [sure EXCEPT ![m] = 0]
          <6>1. s = 0
            BY <3>2, <3>9, <4>1
          <6> QED BY <3>8, <6>1
        <5> QED BY <1>h, <3>2, <3>3, <3>5, <4>1, <5>1 DEF LK!Release, LK!LeaderKeyNext, LeaderKeyStep
      <4>2. CASE req.op # "remove"
        BY <1>h, <3>2, <3>3, <3>5, <3>8, <3>9, <4>2 DEF LK!Grant, LK!LeaderKeyNext, LeaderKeyStep
      <4> QED BY <4>1, <4>2
    <3>12. /\ extra'.limb = extra.limb /\ extra'.cmd[m] = Raft!NoCommand
           /\ \A q \in Member \ {m} : extra'.cmd[q] = extra.cmd[q]
           /\ extra' \in [cmd : [Member -> Command], limb : 0 .. Last]
      BY <2>1, <1>x
    <3>13. extra' \in [cmd : [Member -> Command], limb : 0 .. Last'] /\ ExpiresLate'
      BY <3>5, <3>12, <1>x, <1>t DEF ExpiresLate
    <3>14. Unsure'
      <4> SUFFICES ASSUME NEW q \in Member
                   PROVE  /\ pc'[q] # "waiting" /\ extra'.cmd[q] # Raft!NoCommand => sure'[q] = 0
                          /\ extra'.cmd[q].op = "remove" => sure'[q] = 0
        BY DEF Unsure, Raft!NoCommand
      <4>1. CASE q = m
        BY <3>12, <4>1, <1>x
      <4>2. CASE q # m
        <5>1. pc'[q] = pc[q]
          BY <3>1, <4>2, <1>t DEF Say
        <5> QED BY <3>9, <3>12, <4>2, <5>1 DEF Unsure
      <4> QED BY <4>1, <4>2
    <3> QED BY <3>6, <3>10, <3>11, <3>13, <3>14 DEF Command
  <2> QED BY <2>2, <2>3
<1>10. CASE Raft!SendExpire
  <2>1. /\ Key.owner # None /\ left = 0 /\ extra' = [extra EXCEPT !.limb = Last]
        /\ UNCHANGED <<log, left, alive, sess, cursor, seen, view, pc, sure>>
    BY <1>10, <1>k DEF Raft!SendExpire
  <2>2. Last' = Last /\ Key' = Key /\ StoreType'
    BY <2>1, Kept, Copies, StoreTypeAfter DEF StoreType
  <2>3. extra' \in [cmd : [Member -> Command], limb : 0 .. Last] /\ extra'.cmd = extra.cmd /\ extra'.limb = Last
    BY <2>1, <1>x, <1>t
  <2>4. Unsure' /\ ExpiresLate'
    BY <2>1, <2>2, <2>3 DEF Unsure, ExpiresLate
  <2>5. LeaderKeyStep /\ SureByTime'
    BY <1>h, <2>1, <2>2, Unnoticed DEF SureByTime
  <2> QED BY <2>2, <2>3, <2>4, <2>5 DEF Command
<1>11. CASE Raft!ApplyExpire
  <2>1. /\ extra.limb # 0 /\ extra' = [extra EXCEPT !.limb = 0]
        /\ IF extra.limb = Last THEN log' = Append(log, Nobody) ELSE UNCHANGED log
        /\ UNCHANGED <<left, alive, sess, cursor, seen, view, pc, sure>>
    BY <1>11, <1>k DEF Raft!ApplyExpire, Raft!Put
  <2>2. StoreType' /\ Last' \in Nat /\ Last' > 0
    BY <2>1, <1>e, <1>t, WroteAlone, Appended, Kept, Copies, StoreTypeAfter DEF StoreType
  <2>3. extra' \in [cmd : [Member -> Command], limb : 0 .. Last'] /\ extra'.cmd = extra.cmd /\ extra'.limb = 0
    <3>1. extra' = [cmd |-> extra.cmd, limb |-> 0]
      BY <2>1
    <3>2. 0 \in 0 .. Last'
      BY <2>2, <1>t
    <3> QED BY <3>1, <3>2, <1>x
  <2>4. Unsure' /\ ExpiresLate'
    BY <2>1, <2>2, <2>3 DEF Unsure, ExpiresLate
  <2>5. CASE extra.limb = Last
    <3>1. Key.owner # None /\ left = 0
      BY <2>5 DEF ExpiresLate
    <3>2. Key' = Nobody
      BY <2>1, <2>5, <1>e, Appended
    <3>3. \A q \in Member : sure[q] = 0
      BY <3>1, SureOwner
    <3>4. SureByTime'
      BY <2>1, <3>3 DEF SureByTime
    <3>5. LeaderKeyStep
      BY <1>h, <1>e, <2>1, <3>1, <3>2, <3>3, Entries, Lapsed
    <3> QED BY <2>2, <2>3, <2>4, <3>4, <3>5 DEF Command
  <2>6. CASE extra.limb # Last
    <3>1. Key' = Key
      BY <2>1, <2>6, Kept
    <3>2. LeaderKeyStep /\ SureByTime'
      BY <1>h, <2>1, <3>1, Unnoticed DEF SureByTime
    <3> QED BY <2>2, <2>3, <2>4, <3>2 DEF Command
  <2> QED BY <2>5, <2>6
<1>12. CASE Raft!Tick
  <2>1. PassTime
    BY <1>12 DEF Raft!Tick, Raft!PassTime, PassTime, Raft!Dec, Dec, Raft!Session, Session
  <2>2. /\ extra' = [extra EXCEPT !.cmd =
                 [q \in Member |-> [op |-> extra.cmd[q].op, left |-> Dec(extra.cmd[q].left)]]]
    BY <1>12 DEF Raft!Tick, Raft!Dec, Dec
  <2>3. StoreType' /\ Last' = Last /\ Key' = Key /\ SureByTime'
    BY <2>1, Passed, SureTimePasses
  <2>4. \A q \in Member : /\ [op |-> extra.cmd[q].op, left |-> Dec(extra.cmd[q].left)] \in Command
                          /\ extra.cmd[q] \in Command
    BY <1>x, Decrease DEF Command
  <2>5. /\ extra' \in [cmd : [Member -> Command], limb : 0 .. Last] /\ extra'.limb = extra.limb
        /\ \A q \in Member : extra'.cmd[q] = [op |-> extra.cmd[q].op, left |-> Dec(extra.cmd[q].left)]
    BY <2>2, <2>4, <1>x
  <2>6. ASSUME NEW q \in Member
        PROVE  /\ extra'.cmd[q].op = extra.cmd[q].op
               /\ extra.cmd[q] = Raft!NoCommand => extra'.cmd[q] = Raft!NoCommand
    <3>1. extra'.cmd[q] = [op |-> extra.cmd[q].op, left |-> Dec(extra.cmd[q].left)]
      BY <2>5
    <3> QED BY <3>1 DEF Raft!NoCommand, Dec
  <2>7. Unsure'
    <3> SUFFICES ASSUME NEW q \in Member
                 PROVE  /\ pc'[q] # "waiting" /\ extra'.cmd[q] # Raft!NoCommand => sure'[q] = 0
                        /\ extra'.cmd[q].op = "remove" => sure'[q] = 0
      BY DEF Unsure, Raft!NoCommand
    <3>1. pc'[q] = pc[q] /\ sure'[q] = Dec(sure[q])
      BY <2>1 DEF PassTime
    <3> QED BY <2>6, <3>1 DEF Unsure, Dec
  <2>8. ExpiresLate'
    BY <2>1, <2>3, <2>5 DEF ExpiresLate, PassTime, Dec
  <2>9. LeaderKeyStep
    BY <1>h, <2>1, <2>3, TimePassed
  <2> QED BY <2>3, <2>5, <2>7, <2>8, <2>9 DEF Command
<1> QED
  BY <1>1, <1>2, <1>3, <1>4, <1>6, <1>8, <1>9, <1>10, <1>11, <1>12 DEF Raft!RaftNext

-----------------------------------------------------------------------------
\* Kubernetes.

SameRecord(x, y) == log[x].owner = log[y].owner /\ log[x].by = log[y].by

\* A record names a version no later than its own; a member that has observed the
\* record that is there gives it at least the time it has; and what a member has
\* loaded is the record it observes.
RecordsNamed == \A x \in 1 .. Last : log[x].by <= x
ObservedLongEnough == \A q \in Member : SameRecord(extra.observed[q], Last) => left <= extra.since[q]
LoadedObserved == \A q \in Member : view[q] # 0 => SameRecord(view[q], extra.observed[q])

KubernetesInv ==
  /\ StoreType /\ SureByTime
  /\ extra \in [observed : [Member -> 1 .. Last], since : [Member -> 0 .. Ttl]]
  /\ RecordsNamed /\ ObservedLongEnough /\ LoadedObserved

\* Each step of the HA cycle, of the cache, of other writers and of time is one of
\* LeaderKey (kubernetes.py attempt_to_acquire_leader, update_leader, delete_leader).
LEMMA KubernetesStep ==
  ASSUME KubernetesInv, Kubernetes!KubernetesNext, backend = "kubernetes", UNCHANGED backend
  PROVE  KubernetesInv' /\ LeaderKeyStep
<1> USE Constants DEF KubernetesInv
<1>h. Holder = (IF left = 0 THEN None ELSE Key.owner) /\ Holder' = (IF left' = 0 THEN None ELSE Key'.owner)
  BY DEF Holder
<1>k. Kubernetes!Key = Key /\ Kubernetes!Last = Last
  BY DEF Kubernetes!Key, Kubernetes!Last, Key, Last
<1>t. /\ Last \in Nat /\ Last \in 1 .. Last /\ left \in 0 .. Ttl /\ 0 \in 0 .. Ttl /\ Ttl \in 0 .. Ttl
      /\ pc \in [Member -> Place]
      /\ alive \in [Session -> 0 .. Ttl] /\ sess \in [Member -> 0 .. MaxSessions]
      /\ \A q \in Member : seen[q] \in 1 .. Last /\ sure[q] \in 0 .. Ttl /\ view[q] \in 0 .. Last
      /\ sure \in [Member -> 0 .. Ttl] /\ view \in [Member -> 0 .. Last]
  <2>1. Last \in Nat /\ Last \in 1 .. Last /\ 0 \in 0 .. Ttl /\ Ttl \in 0 .. Ttl
    BY Entries
  <2>2. /\ left \in 0 .. Ttl /\ pc \in [Member -> Place]
        /\ alive \in [Session -> 0 .. Ttl] /\ sess \in [Member -> 0 .. MaxSessions]
        /\ sure \in [Member -> 0 .. Ttl] /\ view \in [Member -> 0 .. Last]
        /\ seen \in [Member -> 1 .. Last]
    BY DEF StoreType
  <2> QED BY <2>1, <2>2
<1>x. /\ extra.observed \in [Member -> 1 .. Last] /\ extra.since \in [Member -> 0 .. Ttl]
      /\ \A q \in Member : extra.observed[q] \in 1 .. Last /\ extra.since[q] \in 0 .. Ttl
  OBVIOUS
<1>n. ASSUME NEW m \in Member
      PROVE  /\ Kubernetes!SayNo(m) <=> Say(m, 0)
             /\ \A t \in 0 .. Ttl : Kubernetes!Say(m, t) <=> Say(m, t)
             /\ \A o \in Member \cup {None} : Kubernetes!SeesOwner(m, o) <=> SeesOwner(m, o)
             /\ Kubernetes!SeeOwn(m) <=> SeeOwn(m)
  <2>1. /\ Kubernetes!SayNo(m) <=> Say(m, 0)
        /\ \A t \in 0 .. Ttl : Kubernetes!Say(m, t) <=> Say(m, t)
    BY DEF Kubernetes!SayNo, Kubernetes!Say, Say
  <2>2. \A o \in Member \cup {None} : Kubernetes!SeesOwner(m, o) <=> SeesOwner(m, o)
    BY DEF Kubernetes!SeesOwner, SeesOwner
  <2>3. Kubernetes!SeeOwn(m) <=> SeeOwn(m)
    BY <1>k DEF Kubernetes!SeeOwn, SeeOwn
  <2> QED BY <2>1, <2>2, <2>3
\* What is observed stays as it is while the key does.
<1>s. ASSUME UNCHANGED log
      PROVE  /\ Last' = Last /\ Key' = Key /\ RecordsNamed'
             /\ \A x, y \in 1 .. Last : SameRecord(x, y)' <=> SameRecord(x, y)
  BY <1>s, Kept DEF SameRecord, RecordsNamed
<1>r. ASSUME NEW m \in Member, UNCHANGED <<log, left, extra>>, StoreType',
             UNCHANGED sure \/ sure' = [sure EXCEPT ![m] = 0],
             \A q \in Member : view'[q] \in {0, view[q]}
      PROVE  KubernetesInv' /\ LeaderKeyStep
  <2>1. Last' = Last /\ Key' = Key /\ RecordsNamed'
    BY <1>r, <1>s
  <2>2. ObservedLongEnough' /\ LoadedObserved'
    BY <1>r, <2>1 DEF ObservedLongEnough, LoadedObserved, SameRecord
  <2>3. SureByTime' /\ LeaderKeyStep
    BY <1>r, <1>h, <2>1, Withdrawn
  <2> QED BY <1>r, <2>1, <2>2, <2>3
<1>f. ASSUME NEW m \in Member, Say(m, 0), UNCHANGED <<log, left, alive, sess, cursor, seen, extra>>
      PROVE  KubernetesInv' /\ LeaderKeyStep
  <2>1. StoreType'
    BY <1>f, <1>t, Ended
  <2>2. sure' = [sure EXCEPT ![m] = 0] /\ \A q \in Member : view'[q] \in {0, view[q]}
    BY <1>f, <1>t DEF Say, StoreType
  <2> QED BY <1>f, <2>1, <2>2, <1>r
\* A new record is not one that anybody has observed.
<1>w. ASSUME NEW m \in Member, NEW o \in Member \cup {None}, NEW t \in 0 .. Ttl, Say(m, t),
             log' = Append(log, [owner |-> o, by |-> Last + 1]), left' \in 0 .. Ttl,
             seen' = seen \/ SeeOwn(m), UNCHANGED <<alive, sess, cursor, extra>>,
             Key.owner = m \/ Holder = None, t > 0 => o = m /\ t <= left'
      PROVE  KubernetesInv' /\ Key'.owner = o /\ sure' = [sure EXCEPT ![m] = t]
  <2>1. [owner |-> o, by |-> Last + 1] \in Entry
    BY <1>t DEF Entry
  <2>2. /\ Last' = Last + 1 /\ Key' = [owner |-> o, by |-> Last + 1]
        /\ \A x \in 1 .. Last : log'[x] = log[x]
    BY <1>w, <2>1, Appended
  <2>3. StoreType'
    BY <1>w, <2>1, <1>t, Wrote
  <2>4. /\ \A x \in 1 .. Last : log'[x].by <= x
        /\ \A x \in 1 .. Last' : x \in 1 .. Last \/ x = Last'
        /\ log'[Last'].by = Last + 1
    <3>1. log'[Last'] = Key'
      BY DEF Key
    <3>2. \A x \in 1 .. Last : log'[x].by <= x
      BY <2>2 DEF RecordsNamed
    <3>3. Key'.by = Last + 1
      BY <2>2
    <3>4. \A x \in 1 .. Last' : x \in 1 .. Last \/ x = Last'
      BY <2>2, <1>t
    <3> QED BY <3>1, <3>2, <3>3, <3>4
  <2>5. RecordsNamed'
    BY <2>2, <2>4, <1>t DEF RecordsNamed
  <2>6. ObservedLongEnough'
    <3> SUFFICES ASSUME NEW q \in Member PROVE log'[extra.observed[q]].by # log'[Last'].by
      BY <1>w DEF ObservedLongEnough, SameRecord
    <3>1. log'[extra.observed[q]].by <= extra.observed[q] /\ extra.observed[q] <= Last
      BY <2>4, <1>x, <1>t
    <3>2. log'[extra.observed[q]].by \in Nat
      BY <2>2, <1>x, Entries
    <3> QED BY <2>4, <3>1, <3>2, <1>x, <1>t
  <2>7. LoadedObserved'
    <3> SUFFICES ASSUME NEW q \in Member, view'[q] # 0
                 PROVE  SameRecord(view[q], extra.observed[q])' /\ view'[q] = view[q]
      BY <1>w DEF LoadedObserved, SameRecord
    <3>1. view'[q] = view[q] /\ view[q] \in 1 .. Last
      <4>1. view' = [view EXCEPT ![m] = 0]
        BY <1>w DEF Say
      <4>2. q # m
        BY <4>1, <1>t
      <4> QED BY <4>1, <4>2, <1>t
    <3>2. SameRecord(view[q], extra.observed[q])
      BY <3>1 DEF LoadedObserved
    <3> QED BY <1>w, <2>2, <3>1, <3>2, <1>x DEF SameRecord
  <2>8. sure' = [sure EXCEPT ![m] = t]
    BY <1>w DEF Say
  <2>9. SureByTime'
    <3> SUFFICES ASSUME NEW q \in Member, sure'[q] > 0 PROVE Key'.owner = q /\ sure'[q] <= left'
      BY DEF SureByTime
    <3>1. q = m
      <4> SUFFICES ASSUME q # m PROVE FALSE
        OBVIOUS
      <4>1. sure[q] > 0
        BY <2>8, <1>t
      <4>2. Key.owner = q /\ left > 0
        BY <4>1, <1>t DEF SureByTime
      <4> QED BY <1>w, <1>h, <4>2
    <3> QED BY <1>w, <2>2, <2>8, <3>1, <1>t
  <2>10. extra' \in [observed : [Member -> 1 .. Last'], since : [Member -> 0 .. Ttl]]
    <3>1. extra.observed \in [Member -> 1 .. Last']
      BY <2>2, <1>x, <1>t
    <3> QED BY <1>w, <3>1
  <2> QED BY <2>2, <2>3, <2>5, <2>6, <2>7, <2>8, <2>9, <2>10
\* A patch that writes the member, or a conflict.
<1>p. ASSUME NEW m \in Member, Kubernetes!Patch(m, m), Kubernetes!Answered(m),
             UNCHANGED <<alive, sess, cursor, extra>>, Key.owner = m \/ Holder = None
      PROVE  KubernetesInv' /\ LeaderKeyStep
  <2>1. /\ log' = Append(log, [owner |-> m, by |-> Last + 1]) /\ left' = Ttl
        /\ \/ Say(m, Ttl) /\ SeeOwn(m)
           \/ Say(m, 0) /\ UNCHANGED seen
    BY <1>p, <1>n, <1>k, <1>t DEF Kubernetes!Patch, Kubernetes!Put, Kubernetes!Answered
  <2>2. PICK t \in {0, Ttl} : Say(m, t)
    BY <2>1
  <2>3. t \in 0 .. Ttl /\ t <= left' /\ left' \in 0 .. Ttl /\ left' # 0
    BY <2>1, <1>t
  <2>4. KubernetesInv' /\ Key'.owner = m
    BY <1>p, <2>1, <2>2, <2>3, <1>w
  <2> QED BY <1>p, <1>h, <2>2, <2>3, <2>4, Granted
<1>1. ASSUME NEW m \in Member, Kubernetes!LoadCluster(m) PROVE KubernetesInv' /\ LeaderKeyStep
  <2>1. /\ view' = [view EXCEPT ![m] = seen[m]]
        /\ UNCHANGED <<log, left, alive, sess, cursor, seen, pc, sure>>
    BY <1>1 DEF Kubernetes!LoadCluster
  <2>2. StoreType' /\ Last' = Last /\ Key' = Key /\ RecordsNamed'
    BY <2>1, <1>t, <1>s, Loaded
  <2>3. view'[m] = seen[m] /\ \A q \in Member \ {m} : view'[q] = view[q]
    BY <2>1 DEF StoreType
  <2>4. SureByTime' /\ LeaderKeyStep
    BY <1>h, <2>1, <2>2, Withdrawn
  <2>5. Kubernetes!Record(seen[m]) = Kubernetes!Observed(m) => SameRecord(seen[m], extra.observed[m])
    BY DEF Kubernetes!Record, Kubernetes!Observed, SameRecord
  <2>6. CASE Kubernetes!Record(seen[m]) = Kubernetes!Observed(m)
    <3>1. UNCHANGED extra
      BY <1>1, <2>6 DEF Kubernetes!LoadCluster
    <3>2. ObservedLongEnough'
      BY <2>1, <2>2, <3>1 DEF ObservedLongEnough, SameRecord
    <3>3. LoadedObserved'
      BY <2>1, <2>3, <2>5, <2>6, <3>1 DEF LoadedObserved, SameRecord
    <3> QED BY <2>2, <2>4, <3>1, <3>2, <3>3
  <2>7. CASE Kubernetes!Record(seen[m]) # Kubernetes!Observed(m)
    <3>1. extra' = [observed |-> [extra.observed EXCEPT ![m] = seen[m]],
                    since |-> [extra.since EXCEPT ![m] = Ttl]]
      BY <1>1, <2>7, <1>x DEF Kubernetes!LoadCluster
    <3>2. /\ extra'.observed[m] = seen[m] /\ extra'.since[m] = Ttl
          /\ \A q \in Member \ {m} : extra'.observed[q] = extra.observed[q]
                                     /\ extra'.since[q] = extra.since[q]
      BY <3>1, <1>x
    <3>3. extra' \in [observed : [Member -> 1 .. Last], since : [Member -> 0 .. Ttl]]
      BY <3>1, <1>x, <1>t
    <3>4. ObservedLongEnough'
      BY <2>1, <2>2, <3>2, <1>t DEF ObservedLongEnough, SameRecord
    <3>5. LoadedObserved'
      BY <2>1, <2>3, <3>2 DEF LoadedObserved, SameRecord
    <3> QED BY <2>2, <2>4, <3>3, <3>4, <3>5
  <2> QED BY <2>6, <2>7
<1>2. ASSUME NEW m \in Member, Kubernetes!Deliver(m) PROVE KubernetesInv' /\ LeaderKeyStep
  <2>1. Deliver(m) /\ UNCHANGED <<log, left, sure, view, extra>>
    BY <1>2 DEF Kubernetes!Deliver, Kubernetes!Last, Deliver, Last
  <2> QED BY <2>1, <1>r, Delivered
<1>3. ASSUME NEW m \in Member, Kubernetes!RebuildCache(m) PROVE KubernetesInv' /\ LeaderKeyStep
  <2>1. /\ \E r \in 1 .. Last : cursor' = [cursor EXCEPT ![m] = r] /\ seen' = [seen EXCEPT ![m] = r]
        /\ UNCHANGED <<log, left, alive, sess, view, pc, sure, extra>>
    <3>1. \A r \in cursor[m] .. Last : r \in 1 .. Last
      BY Entries DEF StoreType
    <3> QED BY <1>3, <1>k, <3>1 DEF Kubernetes!RebuildCache
  <2> QED BY <2>1, <1>r, Rebuilt
<1>4. ASSUME NEW m \in Member, Kubernetes!GiveUp(m) PROVE KubernetesInv' /\ LeaderKeyStep
  BY <1>4, <1>f, <1>n DEF Kubernetes!GiveUp
<1>5. ASSUME NEW m \in Member, Kubernetes!AttemptToAcquireLeader(m) PROVE KubernetesInv' /\ LeaderKeyStep
  <2> DEFINE base == IF Kubernetes!Record(seen[m]) = Kubernetes!Observed(m) THEN seen[m] ELSE view[m]
  <2>1. /\ Kubernetes!Unlocked(m) /\ UNCHANGED <<alive, sess, cursor, extra>>
        /\ IF base = Last THEN Kubernetes!Patch(m, m) /\ Kubernetes!Answered(m) ELSE Kubernetes!Conflict(m)
    BY <1>5, <1>k DEF Kubernetes!AttemptToAcquireLeader
  <2>2. CASE base # Last
    BY <2>1, <2>2, <1>n, <1>f DEF Kubernetes!Conflict
  <2>3. CASE base = Last
    <3>1. view[m] # 0 /\ SameRecord(view[m], extra.observed[m])
      BY <2>1 DEF Kubernetes!Unlocked, LoadedObserved
    <3>2. SameRecord(base, extra.observed[m])
      BY <3>1 DEF Kubernetes!Record, Kubernetes!Observed, SameRecord
    <3>3. SameRecord(extra.observed[m], Last)
      BY <2>3, <3>2 DEF SameRecord
    <3>4. left <= extra.since[m]
      BY <3>3 DEF ObservedLongEnough
    <3>5. log[view[m]].owner = None \/ extra.since[m] = 0
      BY <2>1 DEF Kubernetes!Unlocked
    <3>6. log[view[m]].owner = None => Key.owner = None
      BY <3>1, <3>3 DEF SameRecord, Key
    <3>7. Holder = None
      BY <1>h, <3>4, <3>5, <3>6, <1>x, <1>t
    <3> QED BY <2>1, <2>3, <3>7, <1>p
  <2> QED BY <2>2, <2>3
<1>6. ASSUME NEW m \in Member, Kubernetes!UpdateLeader(m) PROVE KubernetesInv' /\ LeaderKeyStep
  <2>1. /\ UNCHANGED <<alive, sess, cursor, extra>>
        /\ \/ Key.owner = m /\ Kubernetes!Patch(m, m) /\ Kubernetes!Answered(m)
           \/ Kubernetes!Conflict(m)
    BY <1>6, <1>k DEF Kubernetes!UpdateLeader
  <2>2. CASE Kubernetes!Conflict(m)
    BY <2>1, <2>2, <1>n, <1>f DEF Kubernetes!Conflict
  <2>3. CASE Key.owner = m /\ Kubernetes!Patch(m, m) /\ Kubernetes!Answered(m)
    BY <2>1, <2>3, <1>p
  <2> QED BY <2>1, <2>2, <2>3
<1>7. ASSUME NEW m \in Member, Kubernetes!DeleteLeader(m) PROVE KubernetesInv' /\ LeaderKeyStep
  <2>1. /\ log[seen[m]].owner = m /\ Say(m, 0) /\ UNCHANGED <<alive, sess, cursor, extra>>
        /\ IF seen[m] = Last
           THEN /\ log' = Append(log, [owner |-> None, by |-> Last + 1]) /\ left' = 0
                /\ seen' = seen \/ SeeOwn(m)
           ELSE UNCHANGED <<log, left, seen>>
    BY <1>7, <1>n, <1>k DEF Kubernetes!DeleteLeader, Kubernetes!Put
  <2>2. CASE seen[m] # Last
    BY <2>1, <2>2, <1>f
  <2>3. CASE seen[m] = Last
    <3>1. Key.owner = m
      BY <2>1, <2>3 DEF Key
    <3>2. KubernetesInv'
      BY <2>1, <2>3, <3>1, <1>t, <1>w
    <3>3. Holder' = None
      BY <1>h, <2>1, <2>3
    <3>4. Holder \in {None, m}
      BY <1>h, <3>1
    <3> QED BY <2>1, <3>2, <3>3, <3>4, Released, Refused
  <2> QED BY <2>2, <2>3
<1>8. CASE Kubernetes!Touch
  <2>1. /\ log' = Append(log, Key) /\ UNCHANGED <<left, alive, sess, cursor, seen, view, pc, sure, extra>>
    BY <1>8, <1>k DEF Kubernetes!Touch, Kubernetes!Put
  <2>2. Key \in Entry
    BY Entries
  <2>3. StoreType' /\ Key' = Key /\ Last' = Last + 1 /\ \A x \in 1 .. Last : log'[x] = log[x]
    BY <2>1, <2>2, <1>t, WroteAlone, Appended
  <2>4. log'[Last'] = log[Last]
    BY <2>3 DEF Key
  <2>5. \A x \in 1 .. Last' : x \in 1 .. Last \/ x = Last'
    BY <2>3, <1>t
  <2>6. RecordsNamed'
    BY <2>3, <2>4, <2>5, <1>t, Entries DEF RecordsNamed
  <2>7. ObservedLongEnough'
    BY <2>1, <2>3, <2>4, <1>x DEF ObservedLongEnough, SameRecord
  <2>8. LoadedObserved'
    <3>1. \A q \in Member : view[q] # 0 => view[q] \in 1 .. Last
      BY <1>t
    <3> QED BY <2>1, <2>3, <3>1, <1>x DEF LoadedObserved, SameRecord
  <2>9. extra' \in [observed : [Member -> 1 .. Last'], since : [Member -> 0 .. Ttl]]
    <3>1. extra.observed \in [Member -> 1 .. Last']
      BY <2>3, <1>x, <1>t
    <3> QED BY <2>1, <3>1
  <2>10. SureByTime' /\ LeaderKeyStep
    BY <1>h, <2>1, <2>3, Unnoticed DEF SureByTime
  <2> QED BY <2>3, <2>6, <2>7, <2>8, <2>9, <2>10
<1>9. CASE Kubernetes!Tick
  <2>1. PassTime
    BY <1>9 DEF Kubernetes!Tick, Kubernetes!PassTime, PassTime, Kubernetes!Dec, Dec, Kubernetes!Session, Session
  <2>2. extra' = [observed |-> extra.observed, since |-> [q \in Member |-> Dec(extra.since[q])]]
    BY <1>9, <1>x DEF Kubernetes!Tick, Kubernetes!Dec, Dec
  <2>3. StoreType' /\ Last' = Last /\ Key' = Key /\ SureByTime'
    BY <2>1, Passed, SureTimePasses
  <2>4. UNCHANGED <<log, view>> /\ left' = Dec(left) /\ \A q \in Member : sure'[q] = Dec(sure[q])
    BY <2>1 DEF PassTime
  <2>5. \A q \in Member : Dec(extra.since[q]) \in 0 .. Ttl /\ extra'.since[q] = Dec(extra.since[q])
    BY <2>2, <1>x, Decrease
  <2>6. extra' \in [observed : [Member -> 1 .. Last'], since : [Member -> 0 .. Ttl]] /\ extra'.observed = extra.observed
    BY <2>2, <2>3, <2>5, <1>x
  <2>7. ObservedLongEnough'
    <3> SUFFICES ASSUME NEW q \in Member, SameRecord(extra.observed[q], Last) PROVE left' <= extra'.since[q]
      BY <2>3, <2>4, <2>6 DEF ObservedLongEnough, SameRecord
    <3>1. left <= extra.since[q] /\ left \in Nat /\ extra.since[q] \in Nat
      BY <1>x, <1>t DEF ObservedLongEnough
    <3> QED BY <2>4, <2>5, <3>1, DecreaseOrder
  <2>8. LoadedObserved' /\ RecordsNamed'
    BY <2>3, <2>4, <2>6, <1>s DEF LoadedObserved, SameRecord
  <2>9. LeaderKeyStep
    <3>1. CASE left' # 0 \/ left = 0
      BY <1>h, <2>1, <2>3, <2>4, <3>1, TimePassed DEF Dec
    <3>2. CASE left' = 0 /\ left # 0 /\ Key.owner = None
      BY <1>h, <2>1, <3>2, TimePassed
    <3>3. CASE left' = 0 /\ left # 0 /\ Key.owner # None
      <4>1. Holder = Key.owner /\ Holder \in Member /\ Holder' = None
        BY <1>h, <3>3, Entries
      <4>2. left = 1
        BY <2>4, <3>3, <1>t DEF Dec
      <4>3. sure[Holder] \in {0, 1}
        BY <4>1, <4>2, <1>t DEF SureByTime
      <4>4. sure'[Holder] = 0
        BY <2>4, <4>1, <4>3 DEF Dec
      <4> QED BY <2>1, <3>3, <4>1, <4>4, TimePassed
    <3> QED BY <3>1, <3>2, <3>3
  <2> QED BY <2>3, <2>6, <2>7, <2>8, <2>9
<1> QED
  BY <1>1, <1>2, <1>3, <1>4, <1>5, <1>6, <1>7, <1>8, <1>9 DEF Kubernetes!KubernetesNext

-----------------------------------------------------------------------------
\* All back ends.

StoresInv ==
  /\ StoreType
  /\ backend = "etcd" => EtcdInv
  /\ backend = "etcd3" => Etcd3Inv
  /\ backend = "consul" => Updating /\ Recreations /\ (NobodyRecreated => ConsulCore)
  /\ backend = "zookeeper" => Recreations /\ (NobodyRecreated => ZooKeeperCore)
  /\ backend = "raft" => RaftInv
  /\ backend = "kubernetes" => KubernetesInv

LEMMA StoresInitially == Init => StoresInv /\ LK!LeaderKeyInit
<1> SUFFICES ASSUME Init PROVE StoresInv /\ LK!LeaderKeyInit
  OBVIOUS
<1> USE Constants
<1>1. /\ log = <<Nobody>> /\ left = 0
      /\ alive = [s \in Session |-> 0] /\ sess = [m \in Member |-> 0]
      /\ cursor = [m \in Member |-> 1] /\ seen = [m \in Member |-> 1]
      /\ view = [m \in Member |-> 0] /\ pc = [m \in Member |-> "idle"]
      /\ sure = [m \in Member |-> 0]
      /\ backend = "etcd3" => extra = [m \in Member |-> 0]
      /\ backend \in {"consul", "zookeeper"} => extra = [m \in Member |-> FALSE]
      /\ backend = "raft" => extra = [cmd |-> [m \in Member |-> Raft!NoCommand], limb |-> 0]
      /\ backend = "kubernetes" =>
           extra = [observed |-> [m \in Member |-> 1], since |-> [m \in Member |-> 0]]
  <2> USE DEF Nobody, Session
  <2>1. CASE Etcd!EtcdInit /\ backend \notin {"etcd3", "consul", "zookeeper", "raft", "kubernetes"}
    BY <2>1 DEF Etcd!EtcdInit, Etcd!StoreInit, Etcd!Nobody, Etcd!Session
  <2>2. CASE backend = "etcd3" /\ Etcd3!Etcd3Init
    BY <2>2 DEF Etcd3!Etcd3Init, Etcd3!StoreInit, Etcd3!Nobody, Etcd3!Session
  <2>3. CASE backend = "consul" /\ Consul!ConsulInit
    BY <2>3 DEF Consul!ConsulInit, Consul!StoreInit, Consul!Nobody, Consul!Session
  <2>4. CASE backend = "zookeeper" /\ ZooKeeper!ZooKeeperInit
    BY <2>4 DEF ZooKeeper!ZooKeeperInit, ZooKeeper!StoreInit, ZooKeeper!Nobody, ZooKeeper!Session
  <2>5. CASE backend = "raft" /\ Raft!RaftInit
    BY <2>5 DEF Raft!RaftInit, Raft!StoreInit, Raft!Nobody, Raft!Session
  <2>6. CASE backend = "kubernetes" /\ Kubernetes!KubernetesInit
    BY <2>6 DEF Kubernetes!KubernetesInit, Kubernetes!StoreInit, Kubernetes!Nobody, Kubernetes!Session
  <2> QED BY <2>1, <2>2, <2>3, <2>4, <2>5, <2>6 DEF Init, StoresInit
<1>2. Nobody \in Entry /\ Nobody.owner = None /\ Nobody.by = 0
  BY DEF Entry, Nobody
<1>3. log \in Seq(Entry) /\ Last = 1 /\ Key = Nobody /\ log[1] = Nobody
  BY <1>1, <1>2 DEF Last, Key
<1>4. StoreType
  BY <1>1, <1>3 DEF StoreType, Place
<1>5. /\ \A m \in Member : sure[m] = 0 /\ sess[m] = 0 /\ view[m] = 0 /\ pc[m] = "idle"
      /\ \A x \in 1 .. Last : x = 1 /\ log[x] = Nobody
  BY <1>1, <1>3
<1>6. SureByTime /\ LeaseInv
  BY <1>2, <1>3, <1>5 DEF SureByTime, LeaseInv, SessionsInv, SessionsApart, WriterNamed, WriterKnown, SureBySession
<1>7. Refreshing /\ CopiesCurrent /\ ViewsCurrent /\ Updating /\ \A m \in Member : pc[m] = "idle"
  BY <1>5 DEF Refreshing, CopiesCurrent, ViewsCurrent, Updating, Current, Live
<1>d. LeaseUsed /\ PresentLease /\ (backend = "etcd3" => Deleted)
  BY <1>1, <1>5 DEF LeaseUsed, PresentLease, Deleted, Current, Live
<1>8. backend \in {"consul", "zookeeper"} => Recreations
  BY <1>1 DEF Recreations
<1>9. backend = "raft" => RaftInv
  <2> SUFFICES ASSUME backend = "raft" PROVE RaftInv
    OBVIOUS
  <2>1. Raft!NoCommand \in Command /\ Raft!NoCommand.op = "none"
    BY DEF Raft!NoCommand, Command
  <2>2. /\ extra \in [cmd : [Member -> Command], limb : 0 .. Last] /\ extra.limb = 0
        /\ \A m \in Member : extra.cmd[m] = Raft!NoCommand
    BY <1>1, <1>3, <2>1
  <2> QED BY <1>3, <1>4, <1>6, <2>1, <2>2 DEF RaftInv, Unsure, ExpiresLate
<1>10. backend = "kubernetes" => KubernetesInv
  <2> SUFFICES ASSUME backend = "kubernetes" PROVE KubernetesInv
    OBVIOUS
  <2>1. extra \in [observed : [Member -> 1 .. Last], since : [Member -> 0 .. Ttl]]
    BY <1>1, <1>3
  <2>2. RecordsNamed
    BY <1>2, <1>5 DEF RecordsNamed
  <2>3. ObservedLongEnough
    BY <1>1 DEF ObservedLongEnough
  <2>4. LoadedObserved
    BY <1>5 DEF LoadedObserved
  <2> QED BY <1>4, <1>6, <2>1, <2>2, <2>3, <2>4 DEF KubernetesInv
<1>11. LK!LeaderKeyInit
  BY <1>1, <1>2, <1>3 DEF LK!LeaderKeyInit, Holder
<1> QED
  BY <1>4, <1>6, <1>7, <1>d, <1>8, <1>9, <1>10, <1>11 DEF StoresInv, EtcdInv, Etcd3Inv, ConsulCore, ZooKeeperCore

\* Nothing happens to the store.
LEMMA StoresUnchanged ==
  ASSUME StoresInv, UNCHANGED <<store, backend>>
  PROVE  StoresInv' /\ LeaderKeyStep
<1> USE DEF store, Last, Key, Live
<1>1. Last' = Last /\ Key' = Key /\ Holder' = Holder
  BY DEF Holder
<1>2. StoreType'
  BY DEF StoresInv, StoreType, Entry, Session, Place
<1>3. /\ SureByTime => SureByTime'
      /\ LeaseInv => LeaseInv'
      /\ Refreshing => Refreshing'
      /\ Deleted /\ LeaseUsed /\ PresentLease => Deleted' /\ LeaseUsed' /\ PresentLease'
      /\ CopiesCurrent => CopiesCurrent'
      /\ ViewsCurrent => ViewsCurrent'
      /\ Updating => Updating'
      /\ Recreations => Recreations'
      /\ NobodyRecreated' => NobodyRecreated
  BY DEF SureByTime, LeaseInv, SessionsInv, SessionsApart, WriterNamed, WriterKnown, SureBySession, Session,
         Refreshing, Deleted, LeaseUsed, PresentLease, CopiesCurrent, ViewsCurrent, Current, Updating, Recreations, NobodyRecreated
<1>4. RaftInv => RaftInv'
  BY <1>2, <1>3 DEF RaftInv, Unsure, ExpiresLate, Command, Raft!NoCommand
<1>5. KubernetesInv => KubernetesInv'
  BY <1>2, <1>3 DEF KubernetesInv, RecordsNamed, ObservedLongEnough, LoadedObserved, SameRecord
<1>6. (ConsulCore => ConsulCore') /\ (ZooKeeperCore => ZooKeeperCore')
  BY <1>3 DEF ConsulCore, ZooKeeperCore
<1>7. LeaderKeyStep
  BY <1>1, Unnoticed
<1> QED BY <1>2, <1>3, <1>4, <1>5, <1>6, <1>7 DEF StoresInv, EtcdInv, Etcd3Inv

\* When a member has recreated its key, nothing is promised.
LEMMA NotPromised ==
  ASSUME backend' \in {"consul", "zookeeper"}, ~NobodyRecreated'
  PROVE  LeaderKeyStep
BY DEF Recreated, NobodyRecreated, LeaderKeyStep

LEMMA StoresStep ==
  ASSUME StoresInv, [Next]_vars
  PROVE  StoresInv' /\ LeaderKeyStep
<1>1. CASE UNCHANGED vars \/ PartsNext
  BY <1>1, StoresUnchanged DEF Next, PartsNext, vars, StoresNext
<1>2. CASE UNCHANGED backend /\ StoresNext
  <2>1. CASE backend = "etcd" /\ Etcd!EtcdNext
    BY <1>2, <2>1, EtcdStep DEF StoresInv, EtcdInv
  <2>2. CASE backend = "etcd3" /\ Etcd3!Etcd3Next
    BY <1>2, <2>2, Etcd3Step DEF StoresInv, Etcd3Inv
  <2>3. CASE backend = "consul" /\ Consul!ConsulNext
    <3>1. StoreType' /\ Updating' /\ Recreations' /\ (NobodyRecreated' => NobodyRecreated)
      BY <2>3, ConsulTypes DEF StoresInv
    <3>2. CASE NobodyRecreated'
      BY <1>2, <2>3, <3>1, <3>2, ConsulStep DEF StoresInv
    <3>3. CASE ~NobodyRecreated'
      BY <1>2, <2>3, <3>1, <3>3, NotPromised DEF StoresInv
    <3> QED BY <3>2, <3>3
  <2>4. CASE backend = "zookeeper" /\ ZooKeeper!ZooKeeperNext
    <3>1. StoreType' /\ Recreations' /\ (NobodyRecreated' => NobodyRecreated)
      BY <2>4, ZooKeeperTypes DEF StoresInv
    <3>2. CASE NobodyRecreated'
      BY <1>2, <2>4, <3>1, <3>2, ZooKeeperStep DEF StoresInv
    <3>3. CASE ~NobodyRecreated'
      BY <1>2, <2>4, <3>1, <3>3, NotPromised DEF StoresInv
    <3> QED BY <3>2, <3>3
  <2>5. CASE backend = "raft" /\ Raft!RaftNext
    BY <1>2, <2>5, RaftStep DEF StoresInv, RaftInv
  <2>6. CASE backend = "kubernetes" /\ Kubernetes!KubernetesNext
    BY <1>2, <2>6, KubernetesStep DEF StoresInv, KubernetesInv
  <2> QED BY <1>2, <2>1, <2>2, <2>3, <2>4, <2>5, <2>6 DEF StoresNext
<1> QED BY <1>1, <1>2 DEF Next

\* Whatever the back end, the leader key passes from one member to another only when
\* nobody was told to hold it (AbstractDCS.attempt_to_acquire_leader, _update_leader,
\* _delete_leader and their implementations), for any number of members, any ttl and any
\* history of the key and of the sessions.
THEOREM BackEndsImplementLeaderKey == Spec => ImplementsLeaderKey
<1>1. Init => StoresInv /\ LK!LeaderKeyInit
  BY StoresInitially
<1>2. StoresInv /\ [Next]_vars =>
        StoresInv' /\ [LK!LeaderKeyNext \/ Recreated' \/ \E m \in Member : Misled(m)]_(LK!leaderKeyVars)
  BY StoresStep DEF LeaderKeyStep
<1> QED BY <1>1, <1>2, PTL DEF Spec, ImplementsLeaderKey

-----------------------------------------------------------------------------
\* The copies.

Ahead == \A m \in Member : seen[m] >= cursor[m]
WatchersAhead == backend \in {"etcd3", "kubernetes"} => Ahead

\* An event and a list leave the copy where the history goes on, or ahead of it, and so
\* does the answer to a call.
LEMMA CopyTaken ==
  ASSUME StoreType, Ahead, NEW m \in Member,
         \/ UNCHANGED <<seen, cursor>>
         \/ SeeOwn(m) /\ UNCHANGED cursor
         \/ \E r \in 1 .. Last : seen' = [seen EXCEPT ![m] = r] /\ cursor' = [cursor EXCEPT ![m] = r]
         \/ /\ UNCHANGED seen /\ seen[m] >= cursor[m] + 1
            /\ cursor' = [cursor EXCEPT ![m] = cursor[m] + 1]
  PROVE  Ahead'
<1>1. Last \in Nat /\ \A q \in Member : seen[q] \in 1 .. Last /\ cursor[q] \in 1 .. Last
  BY Entries DEF StoreType
<1> SUFFICES ASSUME NEW q \in Member PROVE seen'[q] >= cursor'[q]
  BY DEF Ahead
<1>2. CASE UNCHANGED <<seen, cursor>>
  BY <1>2 DEF Ahead
<1>3. CASE SeeOwn(m) /\ UNCHANGED cursor
  BY <1>1, <1>3 DEF Ahead, SeeOwn, StoreType
<1>4. CASE \E r \in 1 .. Last : seen' = [seen EXCEPT ![m] = r] /\ cursor' = [cursor EXCEPT ![m] = r]
  BY <1>1, <1>4 DEF Ahead, StoreType
<1>5. CASE /\ UNCHANGED seen /\ seen[m] >= cursor[m] + 1
           /\ cursor' = [cursor EXCEPT ![m] = cursor[m] + 1]
  BY <1>1, <1>5 DEF Ahead, StoreType
<1> QED BY <1>2, <1>3, <1>4, <1>5

LEMMA Etcd3Ahead ==
  ASSUME StoreType, Ahead, Etcd3!Etcd3Next
  PROVE  Ahead'
<1>u. ASSUME UNCHANGED <<seen, cursor>> PROVE Ahead'
  BY <1>u DEF Ahead
<1>k. Etcd3!Last = Last
  BY DEF Etcd3!Last, Last
<1>1. ASSUME NEW m \in Member, Etcd3!LoadCluster(m) \/ Etcd3!ForgetLease(m) \/ Etcd3!GiveUp(m)
                               \/ Etcd3!RefreshLease(m) \/ Etcd3!LeaseKept(m)
      PROVE  Ahead'
  BY <1>1, <1>u DEF Etcd3!LoadCluster, Etcd3!ForgetLease, Etcd3!GiveUp, Etcd3!RefreshLease, Etcd3!LeaseKept
<1>2. ASSUME NEW m \in Member,
             Etcd3!AttemptToAcquireLeader(m) \/ Etcd3!Rewrite(m) \/ Etcd3!DeleteLeader(m)
      PROVE  Ahead'
  <2>1. Etcd3!SeeOwn(m) => SeeOwn(m)
    BY <1>k DEF Etcd3!SeeOwn, SeeOwn
  <2>2. UNCHANGED cursor /\ (UNCHANGED seen \/ SeeOwn(m))
    BY <1>2, <2>1 DEF Etcd3!AttemptToAcquireLeader, Etcd3!Rewrite, Etcd3!DeleteLeader
  <2> QED BY <2>2, CopyTaken
<1>3. ASSUME NEW m \in Member, Etcd3!ProcessEvent(m) PROVE Ahead'
  <2>1. /\ cursor[m] < Last /\ cursor' = [cursor EXCEPT ![m] = cursor[m] + 1]
        /\ \/ seen' = [seen EXCEPT ![m] = cursor[m] + 1]
           \/ UNCHANGED seen /\ ~(seen[m] < cursor[m] + 1)
    BY <1>3, <1>k DEF Etcd3!ProcessEvent
  <2>2. cursor[m] + 1 \in 1 .. Last /\ seen[m] \in Nat /\ cursor[m] \in Nat
    BY <2>1, Entries DEF StoreType
  <2>3. CASE seen' = [seen EXCEPT ![m] = cursor[m] + 1]
    BY <2>1, <2>2, <2>3, CopyTaken
  <2>4. CASE UNCHANGED seen /\ ~(seen[m] < cursor[m] + 1)
    <3>1. seen[m] >= cursor[m] + 1
      BY <2>2, <2>4
    <3> QED BY <2>1, <2>4, <3>1, CopyTaken
  <2> QED BY <2>1, <2>3, <2>4
<1>4. ASSUME NEW m \in Member, Etcd3!RebuildCache(m) PROVE Ahead'
  BY <1>4, <1>k, CopyTaken DEF Etcd3!RebuildCache
<1>5. CASE Etcd3!Expire \/ Etcd3!Tick
  BY <1>5, <1>u DEF Etcd3!Expire, Etcd3!Tick, Etcd3!PassTime
<1> QED BY <1>1, <1>2, <1>3, <1>4, <1>5 DEF Etcd3!Etcd3Next

LEMMA KubernetesAhead ==
  ASSUME StoreType, Ahead, Kubernetes!KubernetesNext
  PROVE  Ahead'
<1>u. ASSUME UNCHANGED <<seen, cursor>> PROVE Ahead'
  BY <1>u DEF Ahead
<1>k. Kubernetes!Last = Last
  BY DEF Kubernetes!Last, Last
<1>1. ASSUME NEW m \in Member, Kubernetes!LoadCluster(m) \/ Kubernetes!GiveUp(m) PROVE Ahead'
  BY <1>1, <1>u DEF Kubernetes!LoadCluster, Kubernetes!GiveUp
<1>2. ASSUME NEW m \in Member,
             Kubernetes!AttemptToAcquireLeader(m) \/ Kubernetes!UpdateLeader(m) \/ Kubernetes!DeleteLeader(m)
      PROVE  Ahead'
  <2>1. /\ Kubernetes!SeeOwn(m) => SeeOwn(m)
        /\ Kubernetes!Answered(m) => UNCHANGED seen \/ Kubernetes!SeeOwn(m)
        /\ Kubernetes!Conflict(m) => UNCHANGED seen
    BY <1>k DEF Kubernetes!Answered, Kubernetes!Conflict, Kubernetes!SeeOwn, SeeOwn
  <2>2. UNCHANGED cursor /\ (UNCHANGED seen \/ SeeOwn(m))
    BY <1>2, <2>1 DEF Kubernetes!AttemptToAcquireLeader, Kubernetes!UpdateLeader, Kubernetes!DeleteLeader
  <2> QED BY <2>2, CopyTaken
<1>3. ASSUME NEW m \in Member, Kubernetes!Deliver(m) PROVE Ahead'
  <2>1. /\ cursor[m] < Last /\ cursor' = [cursor EXCEPT ![m] = cursor[m] + 1]
        /\ seen' = [seen EXCEPT ![m] = IF seen[m] < cursor[m] + 1 THEN cursor[m] + 1 ELSE seen[m]]
    BY <1>3, <1>k DEF Kubernetes!Deliver
  <2>2. cursor[m] + 1 \in 1 .. Last /\ seen[m] \in Nat /\ cursor[m] \in Nat
    BY <2>1, Entries DEF StoreType
  <2>3. CASE seen[m] < cursor[m] + 1
    <3>1. seen' = [seen EXCEPT ![m] = cursor[m] + 1]
      BY <2>1, <2>3
    <3> QED BY <2>1, <2>2, <3>1, CopyTaken
  <2>4. CASE ~(seen[m] < cursor[m] + 1)
    <3>1. UNCHANGED seen
      BY <2>1, <2>4 DEF StoreType
    <3>2. seen[m] >= cursor[m] + 1
      BY <2>2, <2>4
    <3> QED BY <2>1, <3>1, <3>2, CopyTaken
  <2> QED BY <2>3, <2>4
<1>4. ASSUME NEW m \in Member, Kubernetes!RebuildCache(m) PROVE Ahead'
  <2>1. \A r \in cursor[m] .. Last : r \in 1 .. Last
    BY Entries DEF StoreType
  <2> QED BY <1>4, <1>k, <2>1, CopyTaken DEF Kubernetes!RebuildCache
<1>5. CASE Kubernetes!Touch \/ Kubernetes!Tick
  BY <1>5, <1>u DEF Kubernetes!Touch, Kubernetes!Tick, Kubernetes!PassTime
<1> QED BY <1>1, <1>2, <1>3, <1>4, <1>5 DEF Kubernetes!KubernetesNext

\* No change of the key is missed for good by a cache that is fed by a watch, whatever it
\* was overwritten by in between (KVCache in etcd3.py, ObjectCache in kubernetes.py).
THEOREM NoEventIsLost == Spec => []NoEventLost
<1>1. Init => StoresInv /\ WatchersAhead
  <2> SUFFICES ASSUME Init, backend \in {"etcd3", "kubernetes"} PROVE Ahead
    BY StoresInitially DEF WatchersAhead
  <2>1. seen = [m \in Member |-> 1] /\ cursor = [m \in Member |-> 1]
    BY DEF Init, StoresInit, Etcd!EtcdInit, Etcd!StoreInit, Etcd3!Etcd3Init, Etcd3!StoreInit,
           Kubernetes!KubernetesInit, Kubernetes!StoreInit
  <2> QED BY <2>1 DEF Ahead
<1>2. StoresInv /\ WatchersAhead /\ [Next]_vars => StoresInv' /\ WatchersAhead'
  <2> SUFFICES ASSUME StoresInv, WatchersAhead, [Next]_vars, backend' \in {"etcd3", "kubernetes"}
               PROVE  Ahead'
    BY StoresStep DEF WatchersAhead
  <2>1. backend' = backend /\ Ahead /\ StoreType
    BY DEF Next, vars, WatchersAhead, StoresInv
  <2>2. CASE UNCHANGED vars \/ PartsNext
    BY <2>1, <2>2 DEF PartsNext, vars, store, Ahead
  <2>3. CASE StoresNext
    BY <2>1, <2>3, Etcd3Ahead, KubernetesAhead DEF StoresNext
  <2> QED BY <2>2, <2>3 DEF Next
<1>3. StoresInv /\ WatchersAhead => NoEventLost
  <2> SUFFICES ASSUME StoreType, Ahead, NEW m \in Member, cursor[m] = Last PROVE seen[m] = Last
    BY DEF StoresInv, WatchersAhead, NoEventLost
  <2>1. seen[m] \in 1 .. Last /\ seen[m] >= Last /\ Last \in Nat
    BY Entries DEF StoreType, Ahead
  <2> QED BY <2>1
<1> QED BY <1>1, <1>2, <1>3, PTL DEF Spec

-----------------------------------------------------------------------------
\* The parts beside the back ends.  Their proofs are of modules of their own, with
\* constants and variables of their own; what MCStores instantiates is the same.

P == INSTANCE PartsProofs WITH
       Node <- Member, Client <- {"one"}, MaxWrites <- 3, MaxOps <- 1,
       EarlyPut <- FALSE, WhileStarting <- FALSE, ZeroIsAny <- TRUE,
       Ttl <- 2, Quorum <- FALSE, Prompt <- TRUE, MaxFaults <- 1,
       key <- a, written <- b, client <- c, daemon <- d, params <- e, pg <- f,
       pending <- g, primary <- h, ops <- i,
       leader <- a, left <- b, sync <- c, view <- d, until <- e, step <- g,
       asked <- h, api <- i, faults <- j,
       Number <- {14}, MaxVersion <- 2, MaxRestarts <- 1, Garbled <- FALSE,
       local <- b, dynamic <- c, effective <- d, seen <- e, cache <- f, restarts <- g,
       holder <- k,
       \* Citus is not here
       Host <- {}, Up <- {}, Other <- None, MaxUsed <- 0, worker <- a, queue <- a, flight <- a, late <- a,
       load <- a, job <- a, table <- a, open <- a, leads <- a, mixed <- a, used <- a

LEMMA HealthSame ==
  /\ ([H!HealthNext]_(H!vars) <=> [P!H!HealthNext]_(P!H!vars))
  /\ (H!Init <=> P!H!Init)
  /\ (H!OneAnswers <=> P!H!OneAnswers)
<1> USE DEF H!dcs, H!NoView, H!Set, H!At, H!Goes, H!Fault, H!IsLeader, H!SetIsLeader, H!Known,
    H!Status, H!ReplicaOk, H!PrimaryOk, H!Serves, H!Ok, H!Less, P!H!dcs, P!H!NoView, P!H!Set,
    P!H!At, P!H!Goes, P!H!Fault, P!H!IsLeader, P!H!SetIsLeader, P!H!Known, P!H!Status,
    P!H!ReplicaOk, P!H!PrimaryOk, P!H!Serves, P!H!Ok, P!H!Less
<1>1. ASSUME NEW n PROVE H!Load(n) <=> P!H!Load(n)
  BY DEF H!Load, P!H!Load
<1>2. ASSUME NEW n PROVE H!LoadFails(n) <=> P!H!LoadFails(n)
  BY DEF H!LoadFails, P!H!LoadFails
<1>3. ASSUME NEW n PROVE H!Start(n) <=> P!H!Start(n)
  BY DEF H!Start, P!H!Start
<1>4. ASSUME NEW n PROVE H!Acquire(n) <=> P!H!Acquire(n)
  BY DEF H!Acquire, P!H!Acquire
<1>5. ASSUME NEW n PROVE H!Update(n) <=> P!H!Update(n)
  BY DEF H!Update, P!H!Update
<1>6. ASSUME NEW n PROVE H!UpdateFails(n) <=> P!H!UpdateFails(n)
  BY DEF H!UpdateFails, P!H!UpdateFails
<1>7. ASSUME NEW n PROVE H!Answer(n) <=> P!H!Answer(n)
  BY DEF H!Answer, P!H!Answer
<1>8. ASSUME NEW n PROVE H!Lead(n) <=> P!H!Lead(n)
  BY DEF H!Lead, P!H!Lead
<1>9. ASSUME NEW n PROVE H!Follow(n) <=> P!H!Follow(n)
  BY DEF H!Follow, P!H!Follow
<1>10. ASSUME NEW n PROVE H!Demote(n) <=> P!H!Demote(n)
  BY DEF H!Demote, P!H!Demote
<1>11. ASSUME NEW n PROVE H!StepDown(n) <=> P!H!StepDown(n)
  BY DEF H!StepDown, P!H!StepDown
<1>12. ASSUME NEW n PROVE H!Release(n) <=> P!H!Release(n)
  BY DEF H!Release, P!H!Release
<1>13. ASSUME NEW n PROVE H!DeleteKey(n) <=> P!H!DeleteKey(n)
  BY DEF H!DeleteKey, P!H!DeleteKey
<1>14. ASSUME NEW n PROVE H!CloseApi(n) <=> P!H!CloseApi(n)
  BY DEF H!CloseApi, P!H!CloseApi
<1>15. ASSUME NEW n PROVE H!Shutdown(n) <=> P!H!Shutdown(n)
  BY DEF H!Shutdown, P!H!Shutdown
<1>16. ASSUME NEW n PROVE H!StartPatroni(n) <=> P!H!StartPatroni(n)
  BY DEF H!StartPatroni, P!H!StartPatroni
<1>17. H!Tick <=> P!H!Tick
  BY DEF H!Tick, P!H!Tick
<1>18. H!Init <=> P!H!Init
  BY DEF H!Init, P!H!Init
<1>19. H!OneAnswers <=> P!H!OneAnswers
  BY ZenonT(60) DEF H!OneAnswers, P!H!OneAnswers
<1> QED
  BY <1>1, <1>2, <1>3, <1>4, <1>5, <1>6, <1>7, <1>8, <1>9, <1>10, <1>11, <1>12, <1>13, <1>14,
      <1>15, <1>16, <1>17, <1>18, <1>19
  DEF H!HealthNext, P!H!HealthNext, H!vars, P!H!vars

LEMMA ConfigurationSame ==
  /\ ([D!ConfigurationNext]_(D!vars) <=> [P!D!ConfigurationNext]_(P!D!vars))
  /\ (D!Init <=> P!D!Init)
  /\ (D!WritesKept <=> P!D!WritesKept)
  /\ (D!PendingIsTold <=> P!D!PendingIsTold)
<1> USE DEF D!Value, D!Keep, D!NoKey, D!NoRequest, D!Set, D!Larger, D!Op, D!Patched, D!Stored,
    D!Blind, D!Expects, D!At, D!Live, D!Parameters, D!Changed, D!Reload, D!Effective, D!PendingAtStart,
    P!D!Value, P!D!Keep, P!D!NoKey, P!D!NoRequest, P!D!Set, P!D!Larger, P!D!Op, P!D!Patched,
    P!D!Stored, P!D!Blind, P!D!Expects, P!D!At, P!D!Live, P!D!Parameters, P!D!Changed, P!D!Reload,
    P!D!Effective, P!D!PendingAtStart
<1>1. ASSUME NEW x PROVE D!Ask(x) <=> P!D!Ask(x)
  BY DEF D!Ask, P!D!Ask
<1>2. ASSUME NEW x PROVE D!Patch(x) <=> P!D!Patch(x)
  BY DEF D!Patch, P!D!Patch
<1>3. D!Put <=> P!D!Put
  BY DEF D!Put, P!D!Put
<1>4. ASSUME NEW n PROVE D!Load(n) <=> P!D!Load(n)
  BY DEF D!Load, P!D!Load
<1>5. ASSUME NEW n PROVE D!SetDefault(n) <=> P!D!SetDefault(n)
  BY DEF D!SetDefault, P!D!SetDefault
<1>6. ASSUME NEW n PROVE D!Apply(n) <=> P!D!Apply(n)
  BY DEF D!Apply, P!D!Apply
<1>7. ASSUME NEW n PROVE D!Start(n) <=> P!D!Start(n)
  BY DEF D!Start, P!D!Start
<1>8. ASSUME NEW n PROVE D!Started(n) <=> P!D!Started(n)
  BY DEF D!Started, P!D!Started
<1>9. ASSUME NEW n PROVE D!Replay(n) <=> P!D!Replay(n)
  BY DEF D!Replay, P!D!Replay
<1>10. ASSUME NEW n PROVE D!Crash(n) <=> P!D!Crash(n)
  BY DEF D!Crash, P!D!Crash
<1>11. ASSUME NEW n PROVE D!Switchover(n) <=> P!D!Switchover(n)
  BY DEF D!Switchover, P!D!Switchover
<1>12. ASSUME NEW n PROVE D!Restart(n) <=> P!D!Restart(n)
  BY DEF D!Restart, P!D!Restart
<1>13. D!Init <=> P!D!Init
  BY DEF D!Init, P!D!Init
<1>14. D!WritesKept <=> P!D!WritesKept
  BY DEF D!WritesKept, P!D!WritesKept
<1>15. D!PendingIsTold <=> P!D!PendingIsTold
  BY DEF D!PendingIsTold, P!D!PendingIsTold
<1> QED
  BY <1>1, <1>2, <1>3, <1>4, <1>5, <1>6, <1>7, <1>8, <1>9, <1>10, <1>11, <1>12, <1>13, <1>14,
      <1>15
  DEF D!ConfigurationNext, P!D!ConfigurationNext, D!vars, P!D!vars

LEMMA LayersSame ==
  /\ ([Y!LayersNext]_(Y!vars) <=> [P!Y!LayersNext]_(P!Y!vars))
  /\ (Y!Init <=> P!Y!Init)
  /\ (Y!OneConfiguration <=> P!Y!OneConfiguration)
<1> USE DEF Y!Timeout, Y!CmdLine, Y!DynamicOnly, Y!LocalOnly, Y!Name, Y!ClusterWide, Y!Unset,
    Y!Garbage, Y!Nothing, Y!DefaultTimeout, Y!Default, Y!Value, Y!Minimum, Y!AtLeast,
    Y!Shortened, Y!Adjusted, Y!IsNumeric, Y!Over, Y!Without, Y!Parameters, Y!SafeCopy, Y!Build,
    Y!Set, P!Y!Timeout, P!Y!CmdLine, P!Y!DynamicOnly, P!Y!LocalOnly, P!Y!Name, P!Y!ClusterWide, P!Y!Unset,
    P!Y!Garbage, P!Y!Nothing, P!Y!DefaultTimeout, P!Y!Default, P!Y!Value, P!Y!Minimum, P!Y!AtLeast,
    P!Y!Shortened, P!Y!Adjusted, P!Y!IsNumeric, P!Y!Over, P!Y!Without, P!Y!Parameters, P!Y!SafeCopy, P!Y!Build,
    P!Y!Set
<1>1. Y!Write <=> P!Y!Write
  BY DEF Y!Write, P!Y!Write
<1>2. ASSUME NEW n PROVE Y!Apply(n) <=> P!Y!Apply(n)
  BY ZenonT(60) DEF Y!Apply, P!Y!Apply
<1>3. ASSUME NEW n PROVE Y!ReloadLocal(n) <=> P!Y!ReloadLocal(n)
  BY DEF Y!ReloadLocal, P!Y!ReloadLocal
<1>4. ASSUME NEW n PROVE Y!Restart(n) <=> P!Y!Restart(n)
  BY DEF Y!Restart, P!Y!Restart
<1>5. Y!Init <=> P!Y!Init
  BY DEF Y!Init, P!Y!Init
<1>6. Y!OneConfiguration <=> P!Y!OneConfiguration
  BY DEF Y!OneConfiguration, P!Y!OneConfiguration
<1> QED
  BY <1>1, <1>2, <1>3, <1>4, <1>5, <1>6
  DEF Y!LayersNext, P!Y!LayersNext, Y!vars, P!Y!vars

\* The invariants of the parts, while a behaviour is one of theirs.
HealthHolds == backend = "health" => P!HealthInv
WritesHold == backend = "configuration" => P!WritesInv
PendingHolds == backend = "configuration" => P!PendingInv
LayersHold == backend = "layers" => P!LayersInv

LEMMA PartsInitially ==
  ASSUME Init
  PROVE  HealthHolds /\ WritesHold /\ PendingHolds /\ LayersHold
<1>1. /\ backend = "health" => H!Init
      /\ backend = "configuration" => D!Init
      /\ backend = "layers" => Y!Init
  BY DEF Init, StoresInit
<1> QED
  BY <1>1, HealthSame, P!HealthInitially, ConfigurationSame, P!ConfigurationInitially,
     P!PendingInitially, LayersSame, P!LayersInitially
  DEF HealthHolds, WritesHold, PendingHolds, LayersHold

LEMMA PartsStep ==
  ASSUME [Next]_vars
  PROVE  /\ HealthHolds => HealthHolds'
         /\ WritesHold => WritesHold'
         /\ PendingHolds => PendingHolds'
         /\ LayersHold => LayersHold'
<1>1. /\ backend' = backend
      /\ backend = "health" => [H!HealthNext]_(H!vars)
      /\ backend = "configuration" => [D!ConfigurationNext]_(D!vars)
      /\ backend = "layers" => [Y!LayersNext]_(Y!vars)
  BY DEF Next, StoresNext, PartsNext, vars, shared, H!vars, D!vars, Y!vars
<1>2. 2 \in Nat /\ None \notin Member /\ {14} \subseteq Int
  BY StoreAssumption
<1>3. HealthHolds => HealthHolds'
  BY <1>1, <1>2, HealthSame, P!HealthInvKept DEF HealthHolds
<1>4. WritesHold => WritesHold'
  BY <1>1, ConfigurationSame, P!WritesInvKept DEF WritesHold
<1>5. PendingHolds => PendingHolds'
  BY <1>1, ConfigurationSame, P!PendingInvKept DEF PendingHolds
<1>6. LayersHold => LayersHold'
  BY <1>1, <1>2, LayersSame, P!LayersInvKept DEF LayersHold
<1> QED BY <1>3, <1>4, <1>5, <1>6

\* Only one node answers 200 to the health check of the read-write port (api.py do_GET).
THEOREM HostOneAnswers == Spec => []OneAnswers
<1>1. HealthHolds => OneAnswers
  BY HealthSame, P!HealthInvAnswers DEF HealthHolds, OneAnswers
<1> QED BY <1>1, PartsInitially, PartsStep, PTL DEF Spec

\* Two clients that change /config do not undo each other's settings.
THEOREM HostWritesKept == Spec => []WritesKept
<1>1. WritesHold => WritesKept
  BY ConfigurationSame DEF WritesHold, WritesKept, P!WritesInv
<1> QED BY <1>1, PartsInitially, PartsStep, PTL DEF Spec

\* A server that has to be restarted says so, and no other.
THEOREM HostPendingIsTold == Spec => []PendingIsTold
<1>1. PendingHolds => PendingIsTold
  BY ConfigurationSame, P!PendingInvTells DEF PendingHolds, PendingIsTold
<1> QED BY <1>1, PartsInitially, PartsStep, PTL DEF Spec

\* Nodes that have looked at the same /config have the same settings.
THEOREM HostOneConfiguration == Spec => []OneConfiguration
<1>1. LayersHold => OneConfiguration
  BY LayersSame, P!OneIfApplied DEF LayersHold, OneConfiguration
<1> QED BY <1>1, PartsInitially, PartsStep, PTL DEF Spec
=============================================================================
