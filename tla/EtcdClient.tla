------------------------------ MODULE EtcdClient -------------------------------
(***************************************************************************)
(* How Patroni calls a DCS of several servers: the client of dcs/etcd.py   *)
(* under Retry (utils.py), with etcd v3 behind it, and that of             *)
(* dcs/kubernetes.py, which is made the same way.  A call goes from server *)
(* to server; when all have failed the list of servers is loaded anew,     *)
(* from one that is configured maybe, and in the time that is left the     *)
(* call is repeated.                                                       *)
(*                                                                         *)
(* Time is counted in units of the least timeout of a request.  DNS, SRV   *)
(* records, proxies, authentication and the 403 of Kubernetes are left     *)
(* out, and the etcd cluster is never replaced by another one.             *)
(***************************************************************************)
EXTENDS Naturals, FiniteSets

CONSTANTS
  Server,
  Config,        \* the servers that are configured, one at least
  Product,       \* subset of {"etcd", "kubernetes"}
  RetryTimeout,  \* in time units, not less than there are servers
  MaxChanges,    \* bound: servers that stop, are isolated, replaced, elections
  PreVote,       \* does an isolated server keep its term?
  Insistent      \* is the answer of an isolated one an error to retry on (etcd v2)?

VARIABLES
  product,
  alive, alone,   \* servers that run; that do not reach the others
  leaderless,     \* is there no leader among the servers?
  term,           \* raft term of each server
  members,        \* the servers that are members now
  changes,
  cache, base,    \* _machines_cache, _base_uri
  update,         \* _update_machines_cache
  known,          \* _raft_term
  call            \* the call, and where it is

serverVars == <<alive, alone, leaderless, term, members, changes>>
clientVars == <<cache, base, update, known, call>>
vars == <<product, serverVars, clientVars>>

\* Two of three servers are members.
Idle(retry) == [at |-> "idle", retry |-> retry, list |-> {}, count |-> 0, left |-> {},
                share |-> 0, failed |-> FALSE, elapsed |-> 0]

Init ==
  /\ product \in Product
  /\ alive = Server /\ alone = {} /\ leaderless = FALSE
  /\ term = [s \in Server |-> 1]
  /\ \E s \in Server : members = Server \ {s}
  /\ changes = 0
  /\ cache = members
  /\ base \in cache
  /\ update = FALSE
  /\ known = (IF product = "etcd" THEN 1 ELSE 0)
  /\ call = Idle(TRUE)

-----------------------------------------------------------------------------
\* The servers.  Behind the configured address of Kubernetes there is any of them.
Reached(s) == s \in alive /\ (s \in members \/ product = "kubernetes")
Current(s) == product = "kubernetes" \/ term[s] >= known
Works(s) == Reached(s) /\ s \notin alone

Stop(s) ==
  /\ alive' = IF s \in alive THEN alive \ {s} ELSE alive \cup {s}
  /\ UNCHANGED <<alone, leaderless, term, members>>
Isolate(s) ==
  /\ product = "etcd" /\ alone \subseteq {s}
  /\ alone' = {s} \ alone
  /\ UNCHANGED <<alive, leaderless, members>>
  /\ \/ UNCHANGED term
     \/ ~PreVote /\ s \notin alone /\ term' = [term EXCEPT ![s] = @ + 1]
     \/ s \in alone /\ \E t \in Server : term' = [x \in Server |-> term[t]]
Replace ==
  /\ \E s \in Server : members' = Server \ {s}
  /\ UNCHANGED <<alive, alone, leaderless, term>>
\* The others elect a leader, and have none meanwhile.
Elect ==
  /\ ~leaderless /\ leaderless' = TRUE
  /\ term' = [s \in Server |-> IF s \in alone THEN term[s] ELSE term[s] + 1]
  /\ UNCHANGED <<alive, alone, members>>
Elected ==
  /\ leaderless /\ leaderless' = FALSE
  /\ UNCHANGED <<alive, alone, term, members, changes, product, clientVars>>

Change ==
  /\ changes < MaxChanges /\ changes' = changes + 1
  /\ Elect \/ Replace \/ \E s \in Server : Stop(s) \/ Isolate(s)
  /\ UNCHANGED <<product, clientVars>>

-----------------------------------------------------------------------------
\* The time of a call

\* _calculate_timeouts: how many servers there is time for, and for each how much.
Fit(n, time) == IF n <= time THEN n ELSE time
Share(n, time) == IF Fit(n, time) = 0 THEN 0 ELSE time \div Fit(n, time)

\* What Retry.stoptime leaves after a pause.
RemainingAll(elapsed) == RetryTimeout
Remaining(elapsed) == IF elapsed + 1 < RetryTimeout THEN RetryTimeout - elapsed - 1 ELSE 0

Least(x, y) == IF x < y THEN x ELSE y
\* A request may time out, or fail at once.
Cost(share) == {0, share}

-----------------------------------------------------------------------------
\* The list of servers

\* machines_cache, or a part of it: the base comes first.
First(list, n) ==
  {l \in SUBSET list : Cardinality(l) = Least(n, Cardinality(list))
                       /\ (base \in list /\ n > 0 => base \in l)}

\* _load_machines_cache asks those that are configured, and those that etcd was known to have.
SourcesKnown == IF product = "etcd" THEN cache ELSE Config
Sources == IF product = "etcd" THEN Config \cup cache ELSE Config
\* _get_members
Lists(s) == Reached(s) /\ Current(s)

NewList(l, s) ==
  /\ cache' = l
  /\ base' \in IF base \in l THEN {base} ELSE l
  /\ known' = IF product = "etcd" THEN term[s] ELSE known

\* _refresh_machines_cache: nothing changes when nobody of these answers.
Refreshed(sources) ==
  \/ \E s \in sources : Lists(s) /\ NewList(members, s)
  \/ (\A s \in sources : ~Lists(s)) /\ UNCHANGED <<cache, base, known>>

-----------------------------------------------------------------------------
\* api_execute

Ends(how) == [Idle(~call.retry) EXCEPT !.at = how, !.elapsed = call.elapsed]
Pass(list, n, time, cost) ==
  [call EXCEPT !.at = "try", !.list = list, !.count = n, !.left = list, !.failed = FALSE,
               !.share = Share(n, time), !.elapsed = @ + cost]

\* A call begins, with a look at the list if it is old or could not be had.
FirstPass(cost) == call' = Pass(cache', Cardinality(cache'), RetryTimeout, cost)
Begin ==
  /\ call.at = "idle"
  /\ \/ ~update /\ UNCHANGED <<cache, base, update, known>> /\ FirstPass(0)
     \/ /\ ~update /\ product = "etcd" /\ Refreshed(cache)
        /\ \E cost \in Cost(RetryTimeout) : FirstPass(cost)
        /\ UNCHANGED update
     \/ /\ update /\ \E s \in Sources : Lists(s)
        /\ Refreshed(Sources) /\ update' = FALSE
        /\ \E cost \in Cost(RetryTimeout) : FirstPass(cost)
     \/ /\ update /\ \A s \in Sources : ~Lists(s)
        /\ call' = Ends("failed")
        /\ UNCHANGED <<cache, base, update, known>>
  /\ UNCHANGED <<product, serverVars>>

\* The base is the first to be tried.
Turn(s) == s \in call.left /\ (base \in call.left /\ ~call.failed => s = base)
Spent(cost) == [call EXCEPT !.elapsed = @ + cost]

\* _do_http_request: a server answers.
Answered(s) ==
  /\ call.at = "try" /\ Turn(s)
  /\ Works(s) /\ Current(s) /\ ~leaderless
  /\ \E cost \in Cost(call.share) :
       \/ /\ ~call.failed
          /\ known' = IF product = "etcd" THEN term[s] ELSE known
          /\ call' = [Ends("answered") EXCEPT !.elapsed = call.elapsed + cost]
          /\ UNCHANGED <<cache, base>>
       \/ /\ call.failed
          /\ NewList(members, s)
          /\ \E c \in Cost(RetryTimeout) :
               call' = [Ends("answered") EXCEPT !.elapsed = call.elapsed + cost + c]
  /\ UNCHANGED <<product, serverVars, update>>

\* It does not, or not in time, or is behind what is known: the next one.
Fails(s) ==
  /\ call.at = "try" /\ Turn(s)
  /\ ~(Works(s) /\ Current(s))
  /\ \E cost \in Cost(call.share) :
       \/ /\ call.retry
          /\ call' = [Spent(cost) EXCEPT !.left = @ \ {s}, !.failed = TRUE]
          /\ UNCHANGED base
       \/ /\ ~call.retry
          /\ call' = Ends("failed")
          /\ base' \in IF call.list = {s} THEN {base} ELSE call.list \ {s}
  /\ UNCHANGED <<product, serverVars, cache, update, known>>

\* Retry: the answer is an error that passes, and the call is made again from the start.
ToRetry(s) == Reached(s) /\ Current(s) /\ (leaderless \/ (Insistent /\ s \in alone))
Again(s) ==
  /\ call.at = "try" /\ Turn(s) /\ ToRetry(s)
  /\ IF call.retry /\ Remaining(call.elapsed) > 0
     THEN call' = [Idle(TRUE) EXCEPT !.elapsed = call.elapsed + 1]
     ELSE call' = Ends("failed")
  /\ UNCHANGED <<product, serverVars, cache, base, update, known>>

\* All have failed.  The list is loaded; with etcd, the call stays with what it had if that is
\* the same.
Reloaded ==
  IF product = "etcd" THEN cache' # cache ELSE \E s \in Sources : Lists(s)
Exhausted ==
  /\ call.at = "try" /\ call.left = {}
  /\ Refreshed(Sources)
  /\ update' = (\A s \in Sources : ~Lists(s))
  /\ \E cost \in Cost(RetryTimeout) :
       call' = [Spent(cost) EXCEPT !.at = "rest",
                  !.list = IF Reloaded THEN cache' ELSE @,
                  !.count = IF Reloaded THEN Cardinality(cache') ELSE @]
  /\ UNCHANGED <<product, serverVars>>

\* The call is repeated on as many servers as there is time for.
Rest ==
  LET time == Remaining(call.elapsed)
      n == Fit(call.count, time) IN
  /\ call.at = "rest"
  /\ \/ /\ n = 0
        /\ call' = Ends("failed") /\ update' = TRUE
     \/ /\ n > 0
        /\ \E l \in First(call.list, n) :
             call' = [Pass(l, n, time, 1) EXCEPT !.count = call.count]
        /\ UNCHANGED update
  /\ UNCHANGED <<product, serverVars, cache, base, known>>

\* The caller has its answer.
Return ==
  /\ call.at \in {"answered", "failed"}
  /\ call' = Idle(call.retry)
  /\ UNCHANGED <<product, serverVars, cache, base, update, known>>

Client ==
  \/ Begin \/ Exhausted \/ Rest \/ Return
  \/ \E s \in Server : Answered(s) \/ Fails(s) \/ Again(s)

EtcdClientNext == Change \/ Elected \/ Client
EtcdClientSpec ==
  Init /\ [][EtcdClientNext]_vars /\ WF_vars(Client) /\ WF_vars(Elected)

-----------------------------------------------------------------------------
\* A call that is repeated till retry_timeout lasts less than four times as long: the last
\* attempt begins before, and has as much time for an old list of servers, for the request
\* and for the list anew (dcs/etcd.py api_execute, utils.py Retry).
InTime == call.elapsed < 4 * RetryTimeout

\* Calls are answered, now and again at least, while one member works and one server that is
\* configured or that the client knows (dcs/etcd.py: _load_machines_cache).
Cutoff == (\A s \in members : ~Works(s)) \/ (\A s \in Config \cup cache : ~Works(s))
Reconnects == []<>(call.at = "answered" \/ Cutoff)
=============================================================================
