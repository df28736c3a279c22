------------------------------ MODULE LeaderKey ------------------------------
(***************************************************************************)
(* What a DCS back end promises Patroni about the leader key, whatever the *)
(* product behind it: the key has at most one holder, and a member that    *)
(* was told TRUE holds the key for as long as the answer is good.  The     *)
(* promise is that of the docstrings of AbstractDCS (dcs/__init__.py), and *)
(* the modules Store... are shown to keep it.                              *)
(***************************************************************************)
EXTENDS Integers

CONSTANTS Member, None, Ttl

VARIABLES
  holder,   \* who holds the key, or None
  sure      \* for how long yet the last TRUE a member got is good

leaderKeyVars == <<holder, sure>>

LeaderKeyInit == holder = None /\ sure = [m \in Member |-> 0]

Elapse(s) == [m \in Member |-> IF s[m] = 0 THEN 0 ELSE s[m] - 1]

\* attempt_to_acquire_leader or update_leader takes effect.  The answer may be
\* lost, and then nothing is promised.
Grant(m) ==
  /\ holder \in {None, m}
  /\ holder' = m
  /\ \E s \in 0 .. Ttl : sure' = [sure EXCEPT ![m] = s]

\* FALSE, an exception, or the member gave up leading by itself.
Refuse(m) == sure' = [sure EXCEPT ![m] = 0] /\ UNCHANGED holder

\* delete_leader: only the holder does it, and it has stopped leading.
Release(m) ==
  /\ holder = m
  /\ holder' = None
  /\ sure' = [sure EXCEPT ![m] = 0]

\* The key lapses, but not while somebody was told to hold it.
Lapse ==
  /\ holder # None
  /\ sure[holder] = 0
  /\ holder' = None
  /\ UNCHANGED sure

Pass ==
  /\ sure' = Elapse(sure)
  /\ \/ UNCHANGED holder
     \/ holder # None /\ sure'[holder] = 0 /\ holder' = None

LeaderKeyNext ==
  \/ \E m \in Member : Grant(m) \/ Refuse(m) \/ Release(m)
  \/ Lapse
  \/ Pass

LeaderKeySpec == LeaderKeyInit /\ [][LeaderKeyNext]_leaderKeyVars

\* A member that was told TRUE holds the key for as long as the answer is good, so
\* two members are never told so for the same time (dcs/__init__.py:1917: the
\* leader key is updated by compare-and-swap).
OneSureLeader == \A m \in Member : sure[m] > 0 => holder = m
=============================================================================
