------------------------------- MODULE Recovery --------------------------------
(***************************************************************************)
(* The configuration a standby runs with: whom to stream from and the      *)
(* restore_command.  ConfigHandler.check_recovery_conf                     *)
(* (postgresql/config.py) compares what it knows of a running PostgreSQL   *)
(* with what the cluster wants, and knows it from memory as long as no     *)
(* file has changed; Postgresql.follow writes the files, and reloads or    *)
(* restarts.  Whether a parameter takes a restart depends on the version   *)
(* of PostgreSQL.                                                          *)
(*                                                                         *)
(* The node is a standby all the time and never in pause; passwords, the   *)
(* slot's name, callbacks and parameters in other files are left out.      *)
(***************************************************************************)
EXTENDS Naturals

CONSTANTS
  Target,      \* addresses to stream from
  None,
  Version,     \* subset of {10, 12, 13, 14}
  Killable,    \* versions under which Patroni may be killed
  Deferred,    \* may a cycle come before PostgreSQL has reloaded?
  MaxChanges   \* bound: changes of the cluster, and faults

VARIABLES
  version,
  wanted,      \* build_recovery_params
  alive,       \* targets that can be reached
  changes,
  conf, auto,  \* postgresql.conf (or recovery.conf), and primary_conninfo in postgresql.auto.conf
  pg,          \* PostgreSQL: "down", "starting" or "running"
  loaded,      \* what it runs with
  signalled,   \* has it a reload to do?
  receiver,    \* what the WAL receiver streams from
  known,       \* _current_recovery_params
  params,      \* _recovery_params
  dirty,       \* what has changed since its mtime (or ctime) was noted
  busy         \* Patroni: cb_called, and the thread that follows

cluster == <<wanted, alive, changes>>
files == <<conf, auto>>
server == <<pg, loaded, signalled, receiver>>
memory == <<known, params, dirty>>
vars == <<version, cluster, files, server, memory, busy>>

Settings == [conn : Target \cup {None}, restore : BOOLEAN]
Nothing == [conn |-> None, restore |-> FALSE]
Unread == [conn |-> None, restore |-> None]
Everything == {"conf", "auto", "postmaster"}
AtEase(called) == [at |-> "idle", to |-> Nothing, called |-> called]

Init ==
  /\ version \in Version
  /\ wanted = [conn |-> CHOOSE t \in Target : TRUE, restore |-> FALSE]
  /\ alive = Target /\ changes = 0
  /\ conf = Nothing /\ auto = None
  /\ pg = "down" /\ loaded = Nothing /\ signalled = FALSE /\ receiver = None
  /\ known = Unread /\ params = Nothing /\ dirty = Everything
  /\ busy = AtEase(FALSE)

\* What PostgreSQL takes from the files; what a reload does not change.
Effective == [conf EXCEPT !.conn = IF auto = None THEN @ ELSE auto]
RestartFor == CASE version < 13 -> {"conn", "restore"}
                [] version = 13 -> {"restore"}
                [] OTHER -> {}

-----------------------------------------------------------------------------
\* PostgreSQL

Ready ==
  /\ pg = "starting" /\ pg' = "running"
  /\ UNCHANGED <<version, cluster, files, loaded, signalled, receiver, memory, busy>>
Reloaded == [p \in {"conn", "restore"} |-> IF p \in RestartFor THEN loaded[p] ELSE Effective[p]]
Load ==
  /\ signalled /\ signalled' = FALSE
  /\ loaded' = IF pg = "down" THEN loaded ELSE Reloaded
  /\ receiver' = IF loaded'.conn = loaded.conn THEN receiver ELSE None
  /\ UNCHANGED <<version, cluster, files, pg, memory, busy>>
Stream ==
  /\ pg = "running"
  /\ \/ receiver = None /\ loaded.conn \in alive /\ receiver' = loaded.conn
     \/ receiver \notin alive \cup {None} /\ receiver' = None
  /\ UNCHANGED <<version, cluster, files, pg, loaded, signalled, memory, busy>>
Postgres == Ready \/ Load \/ Stream

-----------------------------------------------------------------------------
\* write_postgresql_conf, with _sanitize_auto_conf; recovery.conf is another file.
KeepsAuto == UNCHANGED auto
SanitizesAuto == auto' = None
Writes(p) ==
  IF version < 12 THEN UNCHANGED <<files, dirty>>
  ELSE /\ conf' = p /\ SanitizesAuto
       /\ dirty' = dirty \cup {"conf"} \cup (IF auto = None THEN {} ELSE {"auto"})

\* write_recovery_conf
WritesRecovery(p) ==
  /\ params' = p
  /\ IF version < 12 THEN /\ conf' = p /\ dirty' = dirty \cup {"conf"}
                          /\ UNCHANGED <<auto, known>>
                     ELSE known' = p /\ UNCHANGED <<files, dirty>>

-----------------------------------------------------------------------------
\* check_recovery_conf

\* _read_recovery_params, and before version 12 the file.
ReadsChanged == pg = "running" /\ dirty # {}
ReadsFiles == IF version < 12 THEN "conf" \in dirty ELSE ReadsChanged
Current == IF ~ReadsFiles THEN known ELSE IF version < 12 THEN conf ELSE loaded
Noted == CASE ~ReadsFiles -> dirty
           [] version < 12 -> dirty \ {"conf"}
           [] OTHER -> {}

\* _check_primary_conninfo: who streams is asked first.
ConnMatches ==
  IF wanted.conn = None \/ Current.conn = None THEN wanted.conn = Current.conn
  ELSE wanted.conn = IF pg = "running" /\ receiver # None THEN receiver ELSE Current.conn
Mismatches ==
  IF Current = Unread THEN {}
  ELSE {p \in {"conn", "restore"} :
          IF p = "conn" THEN ~ConnMatches ELSE Current.restore # wanted.restore}
RestartRequired == Mismatches \cap RestartFor # {}
ReloadRequired ==
  Mismatches # {} \/ (version >= 12 /\ ~busy.called /\ pg = "running")

-----------------------------------------------------------------------------
\* Patroni

\* A cycle: ha.py recover starts a PostgreSQL that is down, follow checks one that is up.
Cycle ==
  /\ busy.at = "idle" /\ (signalled => Deferred)
  /\ LET Follows == busy' = [busy EXCEPT !.at = "write", !.to = wanted]
         Called == busy' = [busy EXCEPT !.called = @ \/ pg = "running"] IN
     \/ pg = "down" /\ Follows /\ UNCHANGED <<files, signalled, memory>>
     \/ /\ pg # "down" /\ RestartRequired
        /\ Follows /\ known' = Current /\ dirty' = Noted
        /\ UNCHANGED <<files, signalled, params>>
     \/ /\ pg # "down" /\ ~RestartRequired /\ ReloadRequired
        /\ params' = wanted /\ known' = wanted
        /\ Writes(wanted)
        /\ signalled' = TRUE /\ Called
     \/ /\ pg # "down" /\ ~ReloadRequired
        /\ known' = Current /\ dirty' = Noted /\ Called
        /\ UNCHANGED <<files, signalled, params>>
  /\ UNCHANGED <<version, cluster, pg, loaded, receiver>>

Goes(to) == busy' = [busy EXCEPT !.at = to]
\* follow in its thread: restart, or start.
Write ==
  /\ busy.at = "write" /\ Goes(IF pg = "down" THEN "start" ELSE "stop")
  /\ WritesRecovery(busy.to)
  /\ UNCHANGED <<version, cluster, server>>
Stop ==
  /\ busy.at = "stop" /\ Goes("start")
  /\ pg' = "down" /\ receiver' = None /\ signalled' = FALSE
  /\ UNCHANGED <<version, cluster, files, loaded, memory>>
Start ==
  /\ busy.at = "start"
  /\ IF pg = "down" THEN Goes("launch") /\ Writes(params)
                    ELSE busy' = AtEase(busy.called) /\ UNCHANGED <<files, dirty>>
  /\ UNCHANGED <<version, cluster, server, known, params>>
Starts ==
  /\ pg' = "starting" /\ loaded' = Effective /\ dirty' = dirty \cup {"postmaster"}
  /\ receiver' = None /\ signalled' = FALSE
Launch ==
  /\ busy.at = "launch" /\ Goes("wait")
  /\ IF pg = "down" THEN Starts ELSE UNCHANGED <<server, dirty>>
  /\ UNCHANGED <<version, cluster, files, known, params>>
\* wait_for_startup, till it is up, down again or pg_ctl_timeout is over.
Wait ==
  /\ busy.at = "wait"
  /\ busy' = AtEase(busy.called \/ pg = "running")
  /\ UNCHANGED <<version, cluster, files, server, memory>>
Thread == Write \/ Stop \/ Start \/ Launch \/ Wait
Patroni == Cycle \/ Thread

-----------------------------------------------------------------------------
\* The cluster changes, and things fail.

Wants ==
  /\ wanted' \in Settings /\ wanted' # wanted
  /\ UNCHANGED <<alive, files, server, memory, busy>>
Unreachable ==
  /\ \E t \in Target : alive' = IF t \in alive THEN alive \ {t} ELSE alive \cup {t}
  /\ UNCHANGED <<wanted, files, server, memory, busy>>
\* ALTER SYSTEM SET primary_conninfo, with pg_reload_conf or a restart.
Alter ==
  /\ version >= 12 /\ pg = "running"
  /\ \E t \in Target : auto' = t /\ t # auto
  /\ signalled' = TRUE /\ dirty' = dirty \cup {"auto"}
  /\ UNCHANGED <<wanted, alive, conf, pg, loaded, receiver, known, params, busy>>
Restarted ==
  /\ pg = "running" /\ Starts
  /\ UNCHANGED <<wanted, alive, files, known, params, busy>>
Crash ==
  /\ pg # "down" /\ pg' = "down" /\ receiver' = None /\ signalled' = FALSE
  /\ UNCHANGED <<wanted, alive, files, loaded, memory, busy>>
\* Patroni is killed and starts again.
Killed ==
  /\ version \in Killable
  /\ known' = Unread /\ params' = Nothing /\ dirty' = Everything
  /\ busy' = AtEase(FALSE)
  /\ UNCHANGED <<wanted, alive, files, server>>
\* Other parameters change: set_enforce_hot_standby_feedback, reload_config.
Rewrite ==
  /\ busy.at = "idle" /\ pg # "down" /\ version >= 12
  /\ Writes(params) /\ signalled' = TRUE
  /\ UNCHANGED <<wanted, alive, pg, loaded, receiver, known, params, busy>>

Change ==
  /\ changes < MaxChanges /\ changes' = changes + 1
  /\ Wants \/ Unreachable \/ Alter \/ Restarted \/ Crash \/ Killed \/ Rewrite
  /\ UNCHANGED version

RecoveryNext == Postgres \/ Patroni \/ Change
RecoverySpec ==
  /\ Init /\ [][RecoveryNext]_vars
  /\ WF_vars(Patroni) /\ WF_vars(Ready) /\ WF_vars(Load) /\ WF_vars(Stream)

-----------------------------------------------------------------------------
\* In the end a standby runs with what the cluster wants, whatever it ran with and whoever
\* has touched its files (config.py check_recovery_conf).
Settled == pg = "running" /\ loaded = wanted
Settles == <>[]Settled
=============================================================================
