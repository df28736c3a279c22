----------------------------- MODULE BankCache -----------------------------
(***************************************************************************)
(* The bank service (backend/main.py): request handlers running in worker  *)
(* threads over one PostgreSQL database and one Redis cache.               *)
(*                                                                         *)
(* Each handler is the sequence of its calls to the database and the       *)
(* cache; two handlers interleave between any two calls.  A transfer is    *)
(* one READ COMMITTED transaction whose row locks are those PostgreSQL     *)
(* takes; the Redis deletes come after the commit and outside of its       *)
(* transaction.  A handler may die after any call: an exception of the     *)
(* driver, a lost connection or a crash of the process all do the same,    *)
(* the open transaction is rolled back and nothing else of the handler     *)
(* runs.                                                                   *)
(*                                                                         *)
(* Aggregates are abstracted to the rows they aggregate: a summary's       *)
(* statistics and a credit score are functions of the transaction rows of  *)
(* the account, so a cached copy is represented by the ids of those rows.  *)
(***************************************************************************)
EXTENDS Integers, Sequences, FiniteSets, SequencesExt

CONSTANTS
    Accounts,      \* ids that have a row in table accounts
    Unknown,       \* ids a caller may name that have none
    Workers,       \* threads of the server's pool
    Kinds,         \* the cached reads that callers use
    Readable,      \* accounts that callers read about
    InitBalance,   \* cents an account starts with
    Amounts,       \* amounts a caller may ask for, in 1/Scale of a cent
    Scale,         \* units of an amount in a cent
    MaxTransfers,  \* bound: transfers that commit
    None           \* no cached value, no lock owner, no request

ASSUME KindsAssumption == Kinds \subseteq {"balance", "summary", "credit_score"}
ASSUME ReadableAssumption == Readable \subseteq Accounts
ASSUME InitBalanceAssumption == InitBalance \in [Accounts -> Nat]
ASSUME ScaleAssumption == Scale \in Nat \ {0}
ASSUME AmountsAssumption == Amounts \subseteq Int
ASSUME MaxTransfersAssumption == MaxTransfers \in Nat
ASSUME NoneAssumption == None \notin Workers \cup Int

Ids == Accounts \cup Unknown
Keys == Kinds \X Accounts

VARIABLES
    balance,  \* accounts.balance as committed, in cents
    rows,     \* table transactions, in commit order, without its initial rows
    cache,    \* Redis: the value under each key, None when absent
    lock,     \* owner of the exclusive lock on each row of accounts
    pc,       \* the call each worker makes next
    req,      \* the parameters of the request each worker serves
    data      \* what a worker's handler holds in its local variables

vars == <<balance, rows, cache, lock, pc, req, data>>

Idle == "idle"
TransferCalls == {"select_for_update", "select_to", "update_from", "update_to",
                  "commit"}
ReadCalls == {"select_balance", "setex_balance", "select_account",
              "select_stats", "setex_summary", "select_id", "select_score",
              "setex_score"}
Calls == {Idle, "delete"} \cup TransferCalls \cup ReadCalls

-----------------------------------------------------------------------------
(* The data the handlers compute.                                          *)

(* Storing x / Scale cents in a DECIMAL(15, 2) column rounds half up.      *)
ToCents(x) == (2 * x + Scale) \div (2 * Scale)

(* A row of table transactions: its column holds the amount in cents.      *)
(* asked is history: what the request asked for, which no table keeps.     *)
Row == [from : Accounts, to : Accounts, amount : Int, asked : Int]

(* The ids of the rows of table transactions that concern account a.       *)
RowsOf(a) == {i \in DOMAIN rows : a \in {rows[i].from, rows[i].to}}

-----------------------------------------------------------------------------
Init ==
    /\ balance = InitBalance
    /\ rows = << >>
    /\ cache = [k \in Keys |-> None]
    /\ lock = [a \in Accounts |-> None]
    /\ pc = [w \in Workers |-> Idle]
    /\ req = [w \in Workers |-> None]
    /\ data = [w \in Workers |-> None]

Goto(w, call) == pc' = [pc EXCEPT ![w] = call]

(* The handler returns or raises: its locals are gone.                     *)
Return(w) ==
    /\ Goto(w, Idle)
    /\ req' = [req EXCEPT ![w] = None]
    /\ data' = [data EXCEPT ![w] = None]

(* conn.rollback() and conn.close(): the locks of w's transaction go.      *)
Released(w) == [a \in Accounts |-> IF lock[a] = w THEN None ELSE lock[a]]

(* r.delete and r.setex, whole keys at a time.                             *)
Deleted(keys) == [k \in Keys |-> IF k \in keys THEN None ELSE cache[k]]
Stored(key, value) == [cache EXCEPT ![key] = value]

-----------------------------------------------------------------------------
(* GET /accounts/{id}/balance, /summary and /credit-score.                 *)

(* r.get(key): a hit answers at once, a miss goes to the database.         *)
ReadCache(w, kind, a, call) ==
    /\ pc[w] = Idle
    /\ kind \in Kinds
    /\ cache[<<kind, a>>] = None
    /\ Goto(w, call)
    /\ req' = [req EXCEPT ![w] = a]
    /\ UNCHANGED <<balance, rows, cache, lock, data>>

GetBalance(w, a) == ReadCache(w, "balance", a, "select_balance")
GetSummary(w, a) == ReadCache(w, "summary", a, "select_account")
GetCreditScore(w, a) == ReadCache(w, "credit_score", a, "select_id")

(* One SELECT of a reader's connection: it sees what is committed.         *)
Select(w, at, next, seen) ==
    /\ pc[w] = at
    /\ Goto(w, next)
    /\ data' = [data EXCEPT ![w] = seen]
    /\ UNCHANGED <<balance, rows, cache, lock, req>>

SelectBalance(w) ==
    Select(w, "select_balance", "setex_balance", [balance |-> balance[req[w]]])

(* The summary runs two SELECTs; each has a snapshot of its own.           *)
SelectAccount(w) ==
    Select(w, "select_account", "select_stats", [balance |-> balance[req[w]]])

SelectStats(w) ==
    Select(w, "select_stats", "setex_summary",
           [balance |-> data[w].balance, stats |-> RowsOf(req[w])])

SelectId(w) == Select(w, "select_id", "select_score", None)

SelectScore(w) == Select(w, "select_score", "setex_score", [stats |-> RowsOf(req[w])])

(* r.setex(key, ttl, value), then the answer.                              *)
Setex(w, at, kind) ==
    /\ pc[w] = at
    /\ cache' = Stored(<<kind, req[w]>>, data[w])
    /\ Return(w)
    /\ UNCHANGED <<balance, rows, lock>>

SetexBalance(w) == Setex(w, "setex_balance", "balance")

(* Mutant: the balance is selected after the statistics.                   *)
SetexSummaryLate(w) ==
    /\ pc[w] = "setex_summary"
    /\ cache' = Stored(<<"summary", req[w]>>,
                       [data[w] EXCEPT !.balance = balance[req[w]]])
    /\ Return(w)
    /\ UNCHANGED <<balance, rows, lock>>

SetexSummary(w) == Setex(w, "setex_summary", "summary")
SetexScore(w) == Setex(w, "setex_score", "credit_score")

-----------------------------------------------------------------------------
(* POST /transfer.                                                         *)

(* Mutant: a negative amount is let through.                               *)
TransferAnySign(w, from, to, amount) ==
    /\ pc[w] = Idle
    /\ from # to
    /\ Goto(w, "select_for_update")
    /\ req' = [req EXCEPT ![w] = [from |-> from, to |-> to, amount |-> amount]]
    /\ UNCHANGED <<balance, rows, cache, lock, data>>

(* The two checks before the connection; a refused request changes nothing.*)
Transfer(w, from, to, amount) ==
    /\ pc[w] = Idle
    /\ amount > 0
    /\ from # to
    /\ Goto(w, "select_for_update")
    /\ req' = [req EXCEPT ![w] = [from |-> from, to |-> to, amount |-> amount]]
    /\ UNCHANGED <<balance, rows, cache, lock, data>>

(* Mutant: a refused transfer leaves its connection open.                  *)
RefuseOpen(w) ==
    /\ Return(w)
    /\ UNCHANGED <<balance, rows, cache, lock>>

(* An HTTPException inside the try block: rollback, close, re-raise.       *)
Refuse(w) ==
    /\ lock' = Released(w)
    /\ Return(w)
    /\ UNCHANGED <<balance, rows, cache>>

Enough(w) == balance[req[w].from] * Scale >= req[w].amount

(* Mutant: a plain SELECT, without FOR UPDATE.                             *)
SelectNoLock(w) ==
    /\ pc[w] = "select_for_update"
    /\ IF req[w].from \in Accounts /\ Enough(w)
       THEN /\ Goto(w, "select_to")
            /\ UNCHANGED <<balance, rows, cache, lock, req, data>>
       ELSE Refuse(w)

SelectForUpdate(w) ==
    /\ pc[w] = "select_for_update"
    /\ \/ /\ req[w].from \notin Accounts
          /\ Refuse(w)
       \/ /\ req[w].from \in Accounts
          /\ lock[req[w].from] = None
          /\ IF Enough(w)
             THEN /\ lock' = [lock EXCEPT ![req[w].from] = w]
                  /\ Goto(w, "select_to")
                  /\ UNCHANGED <<balance, rows, cache, req, data>>
             ELSE Refuse(w)

SelectTo(w) ==
    /\ pc[w] = "select_to"
    /\ IF req[w].to \in Accounts
       THEN /\ Goto(w, "update_from")
            /\ UNCHANGED <<balance, rows, cache, lock, req, data>>
       ELSE Refuse(w)

Debited(w) == ToCents(balance[req[w].from] * Scale - req[w].amount)
Credited(w) == ToCents(balance[req[w].to] * Scale + req[w].amount)

(* Mutant: the connection is in autocommit mode.                           *)
UpdateFromAutocommit(w) ==
    /\ pc[w] = "update_from"
    /\ balance' = [balance EXCEPT ![req[w].from] = Debited(w)]
    /\ data' = [data EXCEPT ![w] = [from |-> Debited(w)]]
    /\ Goto(w, "update_to")
    /\ UNCHANGED <<rows, cache, lock, req>>

UpdateFrom(w) ==
    /\ pc[w] = "update_from"
    /\ data' = [data EXCEPT ![w] = [from |-> Debited(w)]]
    /\ Goto(w, "update_to")
    /\ UNCHANGED <<balance, rows, cache, lock, req>>

(* The second UPDATE waits for the row's lock and, as READ COMMITTED does, *)
(* computes from the balance committed when it gets it.  The INSERT that   *)
(* follows takes no lock another transfer could wait for.                  *)
UpdateTo(w) ==
    /\ pc[w] = "update_to"
    /\ lock[req[w].to] \in {None, w}
    /\ lock' = [lock EXCEPT ![req[w].to] = w]
    /\ data' = [data EXCEPT ![w] = [from |-> data[w].from, to |-> Credited(w)]]
    /\ Goto(w, "commit")
    /\ UNCHANGED <<balance, rows, cache, req>>

(* conn.commit() makes both updates and the new row visible at once.       *)
Commit(w) ==
    LET r == req[w] IN
    /\ pc[w] = "commit"
    /\ balance' = [balance EXCEPT ![r.from] = data[w].from, ![r.to] = data[w].to]
    /\ rows' = Append(rows, [from |-> r.from, to |-> r.to,
                             amount |-> ToCents(r.amount), asked |-> r.amount])
    /\ lock' = Released(w)
    /\ Goto(w, "delete")
    /\ UNCHANGED <<cache, req, data>>

Invalidated(r) == {"balance", "summary"} \X {r.from, r.to}

(* r.delete of the four keys: the transfer answers "ok" only after it.     *)
Delete(w) ==
    /\ pc[w] = "delete"
    /\ cache' = Deleted(Invalidated(req[w]))
    /\ Return(w)
    /\ UNCHANGED <<balance, rows, lock>>

-----------------------------------------------------------------------------
(* What the handlers do not decide.                                        *)

(* PostgreSQL aborts one transaction of a cycle of waits: status 500.  A   *)
(* transfer waits with a lock in hand only in its second UPDATE.           *)
Waiting(w) == pc[w] = "update_to" /\ lock[req[w].to] \notin {None, w}

Stuck(W) == W # {} /\ \A w \in W : Waiting(w) /\ lock[req[w].to] \in W

DeadlockDetected(w) ==
    /\ \E W \in SUBSET Workers :
          w \in W /\ Stuck(W) /\ \A V \in SUBSET W : Stuck(V) => V = W
    /\ Refuse(w)

(* An exception of a driver, a lost connection, a crash.                   *)
Fail(w) ==
    /\ pc[w] # Idle
    /\ Refuse(w)

(* Mutant: credit scores are stored without a time to live.                *)
ExpireNoScore(k) ==
    /\ cache[k] # None
    /\ k[1] # "credit_score"
    /\ cache' = Deleted({k})
    /\ UNCHANGED <<balance, rows, lock, pc, req, data>>

(* The time to live of a key runs out.                                     *)
Expire(k) ==
    /\ cache[k] # None
    /\ cache' = Deleted({k})
    /\ UNCHANGED <<balance, rows, lock, pc, req, data>>

(* DELETE /cache/clear.  (Eviction by allkeys-lru drops single keys, which *)
(* is Expire.)                                                             *)
ClearCache ==
    /\ cache' = [k \in Keys |-> None]
    /\ UNCHANGED <<balance, rows, lock, pc, req, data>>

-----------------------------------------------------------------------------
Read(w) ==
    \/ SelectBalance(w) \/ SetexBalance(w)
    \/ SelectAccount(w) \/ SelectStats(w) \/ SetexSummary(w)
    \/ SelectId(w) \/ SelectScore(w) \/ SetexScore(w)

Pay(w) ==
    \/ SelectForUpdate(w) \/ SelectTo(w) \/ UpdateFrom(w) \/ UpdateTo(w)
    \/ Commit(w) \/ Delete(w)

(* The bound of the model: transfers committed or under way.               *)
TransfersLeft ==
    Len(rows) + Cardinality({w \in Workers : pc[w] \in TransferCalls}) < MaxTransfers

Request(w) ==
    \/ \E a \in Readable : GetBalance(w, a) \/ GetSummary(w, a) \/ GetCreditScore(w, a)
    \/ /\ TransfersLeft
       /\ \E from, to \in Ids, amount \in Amounts : Transfer(w, from, to, amount)

Served ==
    \/ \E w \in Workers : Request(w) \/ Read(w) \/ Pay(w) \/ DeadlockDetected(w)
    \/ \E k \in Keys : Expire(k)
    \/ ClearCache

Next == Served \/ \E w \in Workers : Fail(w)

Spec == Init /\ [][Next]_vars

(* The same service when no handler dies.                                  *)
ReliableSpec == Init /\ [][Served]_vars

(* A thread that can make its next call makes it; the lock manager grants  *)
(* a lock that keeps becoming free to the transaction that waits for it    *)
(* and breaks deadlocks; a key's time to live runs out.                    *)
Fairness ==
    /\ \A w \in Workers :
          /\ WF_vars(Read(w)) /\ WF_vars(Pay(w))
          /\ SF_vars(SelectForUpdate(w)) /\ SF_vars(UpdateTo(w))
          /\ WF_vars(DeadlockDetected(w))
    /\ \A k \in Keys : WF_vars(Expire(k))

FairSpec == Spec /\ Fairness

-----------------------------------------------------------------------------
(* Properties.                                                             *)

Payment(From, To) == [from : From, to : To, amount : Amounts]

(* What r.setex stores under a key of each kind.                           *)
ValueOf(kind) ==
    CASE kind = "balance" -> [balance : Int]
      [] kind = "summary" -> [balance : Int, stats : SUBSET Nat]
      [] kind = "credit_score" -> [stats : SUBSET Nat]

(* What a handler's locals hold before each of its calls.                  *)
LocalsAt(call) ==
    CASE call \in {"setex_balance", "select_stats"} -> ValueOf("balance")
      [] call = "setex_summary" -> ValueOf("summary")
      [] call = "setex_score" -> ValueOf("credit_score")
      [] call = "update_to" -> [from : Int]
      [] call \in {"commit", "delete"} -> [from : Int, to : Int]
      [] OTHER -> {None}

ParametersAt(call) ==
    CASE call = Idle -> {None}
      [] call \in ReadCalls -> Accounts
      [] call = "select_for_update" -> Payment(Ids, Ids)
      [] call = "select_to" -> Payment(Accounts, Ids)
      [] OTHER -> Payment(Accounts, Accounts)

StoresOK ==
    /\ balance \in [Accounts -> Int]
    /\ rows \in Seq(Row)
    /\ DOMAIN cache = Keys
    /\ \A k \in Keys : cache[k] = None \/ cache[k] \in ValueOf(k[1])
    /\ lock \in [Accounts -> Workers \cup {None}]

WorkersOK ==
    /\ pc \in [Workers -> Calls]
    /\ DOMAIN req = Workers /\ DOMAIN data = Workers
    /\ \A w \in Workers :
          req[w] \in ParametersAt(pc[w]) /\ data[w] \in LocalsAt(pc[w])

(* Every variable holds a value of its kind; a handler's parameters and    *)
(* locals are those of the call it makes next.                             *)
TypeOK == StoresOK /\ WorkersOK

(* x / Scale cents lie midway between two amounts of whole cents.          *)
Midway(x) == (2 * x + Scale) % (2 * Scale) = 0

(* The cent that stays with the payer of a row: the row's amount is        *)
(* rounded up, and what the debit leaves in the account is rounded up too. *)
Left(r) == IF Midway(r.asked) THEN 1 ELSE 0

(* What a row accounts for in the balance of account a.                    *)
Change(a, r) ==
    IF r.from = a THEN Left(r) - r.amount
    ELSE IF r.to = a THEN r.amount ELSE 0

(* The balance of account a after the rows s and no others.                *)
Ledger(a, s) ==
    LET after[i \in 0..Len(s)] ==
          IF i = 0 THEN InitBalance[a] ELSE after[i - 1] + Change(a, s[i])
    IN  after[Len(s)]

(* No account is ever overdrawn: the check of the funds and the debit that *)
(* relies on it are in one transaction that holds the row's lock.          *)
NonNegative == \A a \in Accounts : balance[a] >= 0

(* The balances are what the stored rows of table transactions add up to,  *)
(* but for the cent a payer keeps of each amount midway between two cents, *)
(* however transfers interleave, fail or deadlock: no update is lost, no   *)
(* row is without its updates, and the books are off by nothing else.      *)
BooksBalance == \A a \in Accounts : balance[a] = Ledger(a, rows)

Total(f) == FoldFunction(+, 0, f)

(* An amount with a fraction of a cent is rounded on each side on its own; *)
(* each transfer then creates at most one cent, and none destroys any.     *)
DriftBounded ==
    Total(balance) - Total(InitBalance) \in 0..Len(rows)

(* A cached summary may join a balance and statistics of two moments, but  *)
(* the balance is one the account had, and never later than the rows the   *)
(* statistics count: the account is selected before the aggregate.         *)
SummaryCoherent ==
    \A k \in Keys : LET s == cache[k] IN
        k[1] = "summary" /\ s # None =>
            \E n \in 0..Len(rows) :
                /\ s.balance = Ledger(k[2], SubSeq(rows, 1, n))
                /\ RowsOf(k[2]) \cap 1..n \subseteq s.stats

(* What a reader that missed would store under k now.                      *)
Truth(k) ==
    CASE k[1] = "balance" -> [balance |-> balance[k[2]]]
      [] k[1] = "summary" -> [balance |-> balance[k[2]], stats |-> RowsOf(k[2])]
      [] k[1] = "credit_score" -> [stats |-> RowsOf(k[2])]

Fresh(k) == cache[k] = None \/ cache[k] = Truth(k)

(* README, section 3: after a transfer has deleted the keys, the cache is  *)
(* filled with fresh data.  So when no transfer stands between its commit  *)
(* and its delete, no cached balance or summary is stale.  It does not     *)
(* hold: a reader that missed before the commit stores what it read after  *)
(* the delete.                                                             *)
FreshAfterInvalidation ==
    (\A w \in Workers : pc[w] # "delete") =>
        \A k \in Keys : k[1] # "credit_score" => Fresh(k)

(* What bounds that staleness: once transfers stop, every key, the credit  *)
(* score that no transfer deletes included, is eventually right for good.  *)
EventuallyFresh == <>[](\A k \in Keys : Fresh(k))

(* Every request is answered: a refused or failed transfer leaves no lock  *)
(* behind, and two opposite transfers do not wait for each other forever.  *)
RequestsEnd == \A w \in Workers : pc[w] # Idle ~> pc[w] = Idle

=============================================================================
