-------------------------- MODULE BankCacheProofs --------------------------
(***************************************************************************)
(* Proofs about BankCache, for every set of accounts, every pool of        *)
(* threads, every initial balance and every amount: the variables keep     *)
(* their types, no account is ever overdrawn, the balances are what the    *)
(* stored rows add up to but for the cents of rounding, the money of all   *)
(* accounts drifts by a cent for each transfer at most (if there are       *)
(* finitely many accounts), and no cached summary joins a balance with     *)
(* statistics of before it.                                                *)
(***************************************************************************)
EXTENDS BankCache, SequenceTheorems, FiniteSetTheorems, WellFoundedInduction, TLAPS

USE DEF Idle

(* Rounding to cents keeps a natural number natural.                       *)
LEMMA ToCentsNat == \A x \in Nat : ToCents(x) \in Nat
  <1> SUFFICES ASSUME NEW x \in Nat PROVE ToCents(x) \in Nat
    OBVIOUS
  <1> DEFINE d == 2 * Scale
             n == 2 * x + Scale
  <1>1. d \in Nat \ {0} /\ n \in Nat
    BY ScaleAssumption
  <1> HIDE DEF d, n
  <1>2. n \div d \in Nat
    BY <1>1
  <1> QED
    BY <1>2 DEF ToCents, d, n

LEMMA ToCentsInt == \A x \in Int : ToCents(x) \in Int
  BY ScaleAssumption DEF ToCents

LEMMA ProductNat == \A x \in Nat : x * Scale \in Nat
  BY ScaleAssumption

LEMMA ProductInt == \A x \in Int : x * Scale \in Int
  BY ScaleAssumption

-----------------------------------------------------------------------------
(* Type correctness.                                                       *)

(* The types of a handler's locals and parameters, call by call.           *)
LEMMA LocalsTable ==
    /\ \A c \in {Idle, "select_for_update", "select_to", "update_from",
                 "select_balance", "select_account", "select_id", "select_score"} :
          LocalsAt(c) = {None}
    /\ \A c \in {"setex_balance", "select_stats"} : LocalsAt(c) = [balance : Int]
    /\ LocalsAt("setex_summary") = [balance : Int, stats : SUBSET Nat]
    /\ LocalsAt("setex_score") = [stats : SUBSET Nat]
    /\ LocalsAt("update_to") = [from : Int]
    /\ \A c \in {"commit", "delete"} : LocalsAt(c) = [from : Int, to : Int]
  BY DEF LocalsAt, ValueOf

LEMMA ParametersTable ==
    /\ ParametersAt(Idle) = {None}
    /\ \A c \in ReadCalls : ParametersAt(c) = Accounts
    /\ ParametersAt("select_for_update") = Payment(Ids, Ids)
    /\ ParametersAt("select_to") = Payment(Accounts, Ids)
    /\ \A c \in {"update_from", "update_to", "commit", "delete"} :
          ParametersAt(c) = Payment(Accounts, Accounts)
  BY DEF ParametersAt, ReadCalls

LEMMA PaymentFields ==
    ASSUME NEW From, NEW To, NEW p \in Payment(From, To)
    PROVE  p.from \in From /\ p.to \in To /\ p.amount \in Amounts
  BY DEF Payment

LEMMA ValueTable ==
    /\ ValueOf("balance") = [balance : Int]
    /\ ValueOf("summary") = [balance : Int, stats : SUBSET Nat]
    /\ ValueOf("credit_score") = [stats : SUBSET Nat]
  BY DEF ValueOf

LEMMA CallSets ==
    Calls = {Idle, "delete", "select_for_update", "select_to", "update_from",
             "update_to", "commit", "select_balance", "setex_balance",
             "select_account", "select_stats", "setex_summary", "select_id",
             "select_score", "setex_score"}
  BY DEF Calls, TransferCalls, ReadCalls

LEMMA TypeInit == Init => TypeOK
  <1> SUFFICES ASSUME Init PROVE TypeOK
    OBVIOUS
  <1>1. StoresOK
    BY InitBalanceAssumption DEF Init, StoresOK
  <1>2. pc \in [Workers -> Calls]
    BY CallSets DEF Init
  <1>3. DOMAIN req = Workers /\ DOMAIN data = Workers
    BY DEF Init
  <1>4. \A w \in Workers : pc[w] = Idle /\ req[w] = None /\ data[w] = None
    BY DEF Init
  <1> QED
    BY <1>1, <1>2, <1>3, <1>4, LocalsTable, ParametersTable DEF TypeOK, WorkersOK

LEMMA RowKnown ==
    ASSUME WorkersOK, NEW w \in Workers
    PROVE  /\ pc[w] \in TransferCalls \ {"select_for_update"} =>
                  req[w].from \in Accounts /\ req[w].amount \in Int
           /\ pc[w] \in {"update_from", "update_to", "commit"} =>
                  req[w].to \in Accounts
  <1>1. CASE pc[w] = "select_to"
    <2>1. req[w] \in Payment(Accounts, Ids)
      BY <1>1, ParametersTable DEF WorkersOK
    <2> QED
      BY <1>1, <2>1, PaymentFields, AmountsAssumption
  <1>2. CASE pc[w] \in {"update_from", "update_to", "commit"}
    <2>1. req[w] \in Payment(Accounts, Accounts)
      BY <1>2, ParametersTable DEF WorkersOK
    <2> QED
      BY <1>2, <2>1, PaymentFields, AmountsAssumption
  <1> QED
    BY <1>1, <1>2 DEF TransferCalls

(* A step of one worker that leaves it with parameters and locals that fit *)
(* its next call keeps every worker well-typed.                            *)
Moves(w, call) ==
    /\ pc' = [pc EXCEPT ![w] = call]
    /\ DOMAIN req' = Workers /\ DOMAIN data' = Workers
    /\ req'[w] \in ParametersAt(call) /\ data'[w] \in LocalsAt(call)
    /\ \A v \in Workers \ {w} : req'[v] = req[v] /\ data'[v] = data[v]

LEMMA MovesOK ==
    ASSUME WorkersOK, NEW w \in Workers, NEW call \in Calls, Moves(w, call)
    PROVE  WorkersOK'
  BY DEF WorkersOK, Moves

LEMMA ReturnOK == ASSUME WorkersOK, NEW w \in Workers, Return(w) PROVE WorkersOK'
  <1>1. Moves(w, Idle)
    BY LocalsTable, ParametersTable DEF Return, Goto, Moves, WorkersOK
  <1> QED
    BY <1>1, MovesOK, CallSets

LEMMA ReleasedOK ==
    ASSUME StoresOK, NEW w \in Workers
    PROVE  Released(w) \in [Accounts -> Workers \cup {None}]
  BY DEF StoresOK, Released

LEMMA RefuseOK == ASSUME TypeOK, NEW w \in Workers, Refuse(w) PROVE TypeOK'
  BY ReturnOK, ReleasedOK DEF Refuse, TypeOK, StoresOK

LEMMA RowsOfIds == StoresOK => \A a : RowsOf(a) \in SUBSET Nat
  BY DEF StoresOK, RowsOf

(* What a debit and a credit compute.                                      *)
LEMMA MoneyInt ==
    ASSUME NEW b \in Int, NEW x \in Int
    PROVE  ToCents(b * Scale - x) \in Int /\ ToCents(b * Scale + x) \in Int
  BY ToCentsInt, ProductInt

LEMMA ReadType ==
    ASSUME TypeOK, NEW w \in Workers, Read(w)
    PROVE  TypeOK'
  <1> USE DEF TypeOK
  <1>1. \A k \in Keys : k[1] \in Kinds
    BY DEF Keys
  <1>2. CASE SelectBalance(w)
    <2>1. pc[w] = "select_balance" /\ req[w] \in Accounts
      BY <1>2, ParametersTable DEF SelectBalance, Select, WorkersOK, ReadCalls
    <2>2. Moves(w, "setex_balance")
      BY <1>2, <2>1, LocalsTable, ParametersTable
      DEF SelectBalance, Select, Goto, Moves, WorkersOK, StoresOK, ReadCalls
    <2> QED
      BY <1>2, <2>2, MovesOK, CallSets DEF SelectBalance, Select, StoresOK
  <1>3. CASE SelectAccount(w)
    <2>1. pc[w] = "select_account" /\ req[w] \in Accounts
      BY <1>3, ParametersTable DEF SelectAccount, Select, WorkersOK, ReadCalls
    <2>2. Moves(w, "select_stats")
      BY <1>3, <2>1, LocalsTable, ParametersTable
      DEF SelectAccount, Select, Goto, Moves, WorkersOK, StoresOK, ReadCalls
    <2> QED
      BY <1>3, <2>2, MovesOK, CallSets DEF SelectAccount, Select, StoresOK
  <1>4. CASE SelectStats(w)
    <2>1. req[w] \in Accounts /\ data[w] \in [balance : Int]
      BY <1>4, ParametersTable, LocalsTable
      DEF SelectStats, Select, WorkersOK, ReadCalls
    <2>2. Moves(w, "setex_summary")
      BY <1>4, <2>1, LocalsTable, ParametersTable, RowsOfIds
      DEF SelectStats, Select, Goto, Moves, WorkersOK, ReadCalls
    <2> QED
      BY <1>4, <2>2, MovesOK, CallSets DEF SelectStats, Select, StoresOK
  <1>5. CASE SelectId(w)
    <2>1. Moves(w, "select_score")
      BY <1>5, LocalsTable, ParametersTable
      DEF SelectId, Select, Goto, Moves, WorkersOK, ReadCalls
    <2> QED
      BY <1>5, <2>1, MovesOK, CallSets DEF SelectId, Select, StoresOK
  <1>6. CASE SelectScore(w)
    <2>1. data'[w] \in LocalsAt("setex_score")
      BY <1>6, LocalsTable, RowsOfIds DEF SelectScore, Select, WorkersOK
    <2>2. req[w] \in ParametersAt("setex_score")
      BY <1>6, ParametersTable DEF SelectScore, Select, WorkersOK, ReadCalls
    <2>3. Moves(w, "setex_score")
      BY <1>6, <2>1, <2>2 DEF SelectScore, Select, Goto, Moves, WorkersOK
    <2> QED
      BY <1>6, <2>3, MovesOK, CallSets DEF SelectScore, Select, StoresOK
  <1>7. ASSUME NEW at \in Calls, NEW kind, LocalsAt(at) = ValueOf(kind),
               at \in ReadCalls, Setex(w, at, kind)
        PROVE  TypeOK'
    <2>1. data[w] \in ValueOf(kind)
      BY <1>7 DEF Setex, WorkersOK
    <2>2. DOMAIN cache' = Keys
      BY <1>7 DEF Setex, Stored, StoresOK
    <2>3. ASSUME NEW k \in Keys PROVE cache'[k] = None \/ cache'[k] \in ValueOf(k[1])
      <3>1. CASE k = <<kind, req[w]>>
        <4>1. k[1] = kind /\ cache'[k] = data[w]
          BY <1>7, <3>1 DEF Setex, Stored, StoresOK
        <4> QED
          BY <2>1, <4>1
      <3>2. CASE k # <<kind, req[w]>>
        BY <1>7, <3>2 DEF Setex, Stored, StoresOK
      <3> QED
        BY <3>1, <3>2
    <2>4. StoresOK'
      BY <1>7, <2>2, <2>3 DEF Setex, StoresOK
    <2> QED
      BY <1>7, <2>4, ReturnOK DEF Setex
  <1>8. CASE SetexBalance(w) \/ SetexSummary(w) \/ SetexScore(w)
    BY <1>7, <1>8, LocalsTable, ValueTable, CallSets
    DEF SetexBalance, SetexSummary, SetexScore, ReadCalls
  <1> QED
    BY <1>2, <1>3, <1>4, <1>5, <1>6, <1>8 DEF Read

LEMMA PayType ==
    ASSUME TypeOK, NEW w \in Workers, Pay(w)
    PROVE  TypeOK'
  <1> USE DEF TypeOK
  <1>1. CASE Refuse(w)
    BY <1>1, RefuseOK
  <1>2. CASE SelectForUpdate(w) /\ ~Refuse(w)
    <2>1. req[w] \in Payment(Ids, Ids) /\ req[w].from \in Accounts /\ data[w] = None
      BY <1>2, ParametersTable, LocalsTable DEF SelectForUpdate, WorkersOK
    <2>2. req[w] \in Payment(Accounts, Ids)
      BY <2>1 DEF Payment
    <2>3. Moves(w, "select_to")
      BY <1>2, <2>1, <2>2, LocalsTable, ParametersTable
      DEF SelectForUpdate, Goto, Moves, WorkersOK
    <2> QED
      BY <1>2, <2>3, MovesOK, CallSets DEF SelectForUpdate, StoresOK
  <1>3. CASE SelectTo(w) /\ ~Refuse(w)
    <2>1. req[w] \in Payment(Accounts, Ids) /\ req[w].to \in Accounts /\ data[w] = None
      BY <1>3, ParametersTable, LocalsTable DEF SelectTo, WorkersOK
    <2>2. req[w] \in Payment(Accounts, Accounts)
      BY <2>1 DEF Payment
    <2>3. Moves(w, "update_from")
      BY <1>3, <2>1, <2>2, LocalsTable, ParametersTable
      DEF SelectTo, Goto, Moves, WorkersOK
    <2> QED
      BY <1>3, <2>3, MovesOK, CallSets DEF SelectTo, StoresOK
  <1>4. CASE UpdateFrom(w)
    <2>1. req[w] \in Payment(Accounts, Accounts)
      BY <1>4, ParametersTable DEF UpdateFrom, WorkersOK
    <2>2. balance[req[w].from] \in Int /\ req[w].amount \in Int
      BY <2>1, AmountsAssumption DEF Payment, StoresOK
    <2>3. Debited(w) \in Int
      BY <2>2, MoneyInt DEF Debited
    <2>4. Moves(w, "update_to")
      BY <1>4, <2>1, <2>3, LocalsTable, ParametersTable
      DEF UpdateFrom, Goto, Moves, WorkersOK
    <2> QED
      BY <1>4, <2>4, MovesOK, CallSets DEF UpdateFrom, StoresOK
  <1>5. CASE UpdateTo(w)
    <2>1. req[w] \in Payment(Accounts, Accounts) /\ data[w] \in [from : Int]
      BY <1>5, ParametersTable, LocalsTable DEF UpdateTo, WorkersOK
    <2>2. balance[req[w].to] \in Int /\ req[w].amount \in Int
      BY <2>1, AmountsAssumption DEF Payment, StoresOK
    <2>3. Credited(w) \in Int
      BY <2>2, MoneyInt DEF Credited
    <2>4. Moves(w, "commit")
      BY <1>5, <2>1, <2>3, LocalsTable, ParametersTable
      DEF UpdateTo, Goto, Moves, WorkersOK
    <2> QED
      BY <1>5, <2>4, MovesOK, CallSets DEF UpdateTo, StoresOK
  <1>6. CASE Commit(w)
    <2>1. req[w] \in Payment(Accounts, Accounts) /\ data[w] \in [from : Int, to : Int]
      BY <1>6, ParametersTable, LocalsTable DEF Commit, WorkersOK
    <2> DEFINE row == [from |-> req[w].from, to |-> req[w].to,
                       amount |-> ToCents(req[w].amount), asked |-> req[w].amount]
    <2>2. row \in Row
      <3>1. req[w].amount \in Int /\ ToCents(req[w].amount) \in Int
        BY <2>1, ToCentsInt, AmountsAssumption DEF Payment
      <3> QED
        BY <2>1, <3>1 DEF Row, Payment
    <2>3. rows' \in Seq(Row)
      BY <1>6, <2>2 DEF Commit, StoresOK
    <2>4. balance' \in [Accounts -> Int]
      BY <1>6, <2>1 DEF Commit, StoresOK
    <2>5. StoresOK'
      BY <1>6, <2>3, <2>4, ReleasedOK DEF Commit, StoresOK
    <2>6. Moves(w, "delete")
      BY <1>6, <2>1, LocalsTable, ParametersTable DEF Commit, Goto, Moves, WorkersOK
    <2> QED
      BY <2>5, <2>6, MovesOK, CallSets
  <1>7. CASE Delete(w)
    <2>1. DOMAIN cache' = Keys /\ \A k \in Keys : cache'[k] \in {None, cache[k]}
      BY <1>7 DEF Delete, Deleted
    <2> QED
      BY <1>7, <2>1, ReturnOK DEF Delete, StoresOK
  <1> QED
    BY <1>1, <1>2, <1>3, <1>4, <1>5, <1>6, <1>7 DEF Pay

LEMMA RequestType ==
    ASSUME TypeOK, NEW w \in Workers, Request(w)
    PROVE  TypeOK'
  <1> USE DEF TypeOK
  <1>1. ASSUME NEW a \in Accounts, NEW kind,
               NEW call \in {"select_balance", "select_account", "select_id"},
               ReadCache(w, kind, a, call)
        PROVE  TypeOK'
    <2>1. Moves(w, call)
      BY <1>1, LocalsTable, ParametersTable
      DEF ReadCache, Goto, Moves, WorkersOK, ReadCalls
    <2> QED
      BY <1>1, <2>1, MovesOK, CallSets DEF ReadCache, StoresOK
  <1>2. ASSUME NEW from \in Ids, NEW to \in Ids, NEW amount \in Amounts,
               Transfer(w, from, to, amount)
        PROVE  TypeOK'
    <2>1. [from |-> from, to |-> to, amount |-> amount] \in Payment(Ids, Ids)
      BY DEF Payment
    <2>2. Moves(w, "select_for_update")
      BY <1>2, <2>1, LocalsTable, ParametersTable DEF Transfer, Goto, Moves, WorkersOK
    <2> QED
      BY <1>2, <2>2, MovesOK, CallSets DEF Transfer, StoresOK
  <1> QED
    BY <1>1, <1>2, ReadableAssumption DEF Request, GetBalance, GetSummary, GetCreditScore

LEMMA TypeNext == TypeOK /\ [Next]_vars => TypeOK'
  <1> SUFFICES ASSUME TypeOK, [Next]_vars PROVE TypeOK'
    OBVIOUS
  <1>1. ASSUME NEW w \in Workers, DeadlockDetected(w) \/ Fail(w) PROVE TypeOK'
    BY <1>1, RefuseOK DEF DeadlockDetected, Fail
  <1>2. ASSUME NEW k \in Keys, Expire(k) PROVE TypeOK'
    BY <1>2 DEF Expire, Deleted, TypeOK, StoresOK, WorkersOK
  <1>3. ASSUME ClearCache PROVE TypeOK'
    BY <1>3 DEF ClearCache, TypeOK, StoresOK, WorkersOK
  <1>4. ASSUME UNCHANGED vars PROVE TypeOK'
    BY <1>4 DEF vars, TypeOK, StoresOK, WorkersOK
  <1> QED
    BY <1>1, <1>2, <1>3, <1>4, RequestType, ReadType, PayType DEF Next, Served

(* Every variable keeps its type: the parameters and locals of a handler   *)
(* are those of the call it makes next.                                    *)
THEOREM TypeCorrect == Spec => []TypeOK
  BY TypeInit, TypeNext, PTL DEF Spec

-----------------------------------------------------------------------------
(* No overdraft.                                                           *)

(* From its check to its commit a transfer owns the row it debits, which   *)
(* still holds the funds it checked.                                       *)
Held(w) ==
    pc[w] \in TransferCalls \ {"select_for_update"} =>
        lock[req[w].from] = w /\ Enough(w)

(* Its parameters passed the checks that precede the connection.           *)
Checked(w) ==
    pc[w] \in TransferCalls => req[w].amount > 0 /\ req[w].from # req[w].to

(* What it is about to commit is computed from the balances it locked.     *)
Computed(w) ==
    /\ pc[w] \in {"update_to", "commit"} => data[w].from = Debited(w)
    /\ pc[w] = "commit" => lock[req[w].to] = w /\ data[w].to = Credited(w)

Safe == NonNegative /\ \A w \in Workers : Held(w) /\ Checked(w) /\ Computed(w)

(* A step that leaves the balances alone and takes no lock from v keeps    *)
(* what v relies on, if v does not move.                                   *)
LEMMA Undisturbed ==
    ASSUME TypeOK, NEW v \in Workers, Held(v), Checked(v), Computed(v),
           pc'[v] = pc[v], req'[v] = req[v], data'[v] = data[v],
           \A a \in Accounts : lock[a] = v => lock'[a] = v /\ balance'[a] = balance[a]
    PROVE  Held(v)' /\ Checked(v)' /\ Computed(v)'
  <1>1. pc[v] \in TransferCalls \ {"select_for_update"} =>
           /\ req[v].from \in Accounts
           /\ pc[v] = "commit" => req[v].to \in Accounts
    BY RowKnown DEF TypeOK, TransferCalls
  <1> QED
    BY <1>1 DEF Held, Checked, Computed, Enough, Debited, Credited, TransferCalls

LEMMA SafeInit == Init => Safe
  BY InitBalanceAssumption
  DEF Init, Safe, NonNegative, Held, Checked, Computed, TransferCalls

(* A worker that returns, or makes a call outside of a transfer, owes      *)
(* nothing.                                                                *)
LEMMA NoTransfer ==
    ASSUME NEW w \in Workers, pc'[w] \notin TransferCalls
    PROVE  Held(w)' /\ Checked(w)' /\ Computed(w)'
  BY DEF Held, Checked, Computed, TransferCalls

(* A step of w that keeps the balances and every lock of the others.       *)
Apart(w) ==
    /\ balance' = balance
    /\ \A v \in Workers \ {w} :
          /\ pc'[v] = pc[v] /\ req'[v] = req[v] /\ data'[v] = data[v]
          /\ \A a \in Accounts : lock[a] = v => lock'[a] = v

LEMMA ApartSafe ==
    ASSUME TypeOK, Safe, NEW w \in Workers, Apart(w),
           Held(w)' /\ Checked(w)' /\ Computed(w)'
    PROVE  Safe'
  <1>1. NonNegative'
    BY DEF Safe, NonNegative, Apart
  <1>2. ASSUME NEW v \in Workers \ {w} PROVE Held(v)' /\ Checked(v)' /\ Computed(v)'
    BY Undisturbed DEF Safe, Apart
  <1> QED
    BY <1>1, <1>2 DEF Safe

LEMMA RefuseSafe == ASSUME TypeOK, Safe, NEW w \in Workers, Refuse(w) PROVE Safe'
  <1>1. Apart(w)
    BY DEF Refuse, Released, Return, Goto, Apart, TypeOK, StoresOK, WorkersOK
  <1>2. pc'[w] \notin TransferCalls
    BY DEF Refuse, Return, Goto, TypeOK, WorkersOK, TransferCalls
  <1> QED
    BY <1>1, <1>2, NoTransfer, ApartSafe

LEMMA RequestSafe ==
    ASSUME TypeOK, Safe, NEW w \in Workers, Request(w) PROVE Safe'
  <1> USE DEF TypeOK, WorkersOK
  <1>1. ASSUME NEW a \in Accounts, NEW kind,
               NEW call \in {"select_balance", "select_account", "select_id"},
               ReadCache(w, kind, a, call)
        PROVE  Safe'
    <2>1. Apart(w) /\ pc'[w] \notin TransferCalls
      BY <1>1 DEF ReadCache, Goto, Apart, TransferCalls
    <2> QED
      BY <2>1, NoTransfer, ApartSafe
  <1>2. ASSUME NEW from \in Ids, NEW to \in Ids, NEW amount \in Amounts,
               Transfer(w, from, to, amount)
        PROVE  Safe'
    <2>1. Apart(w)
      BY <1>2 DEF Transfer, Goto, Apart
    <2>2. Held(w)' /\ Checked(w)' /\ Computed(w)'
      BY <1>2 DEF Transfer, Goto, Held, Checked, Computed, TransferCalls
    <2> QED
      BY <2>1, <2>2, ApartSafe
  <1> QED
    BY <1>1, <1>2, ReadableAssumption DEF Request, GetBalance, GetSummary, GetCreditScore

LEMMA ReadSafe == ASSUME TypeOK, Safe, NEW w \in Workers, Read(w) PROVE Safe'
  <1>1. Apart(w) /\ pc'[w] \notin TransferCalls
    BY DEF Read, SelectBalance, SelectAccount, SelectStats, SelectId, SelectScore,
           SetexBalance, SetexSummary, SetexScore, Select, Setex, Return, Goto,
           Apart, TypeOK, WorkersOK, TransferCalls
  <1> QED
    BY <1>1, NoTransfer, ApartSafe

(* A transfer that passed the check debits no more than the account has.   *)
LEMMA DebitNat ==
    ASSUME TypeOK, NEW w \in Workers, Enough(w), req[w].from \in Accounts,
           req[w].amount \in Int
    PROVE  Debited(w) \in Nat
  <1>1. balance[req[w].from] * Scale \in Int
    BY ProductInt DEF TypeOK, StoresOK
  <1>2. balance[req[w].from] * Scale - req[w].amount \in Nat
    BY <1>1 DEF Enough
  <1> QED
    BY <1>2, ToCentsNat DEF Debited

LEMMA CreditNat ==
    ASSUME TypeOK, NonNegative, NEW w \in Workers, req[w].to \in Accounts,
           req[w].amount \in Int, req[w].amount > 0
    PROVE  Credited(w) \in Nat
  <1>1. balance[req[w].to] \in Nat
    BY DEF TypeOK, StoresOK, NonNegative
  <1>2. balance[req[w].to] * Scale \in Nat
    BY <1>1, ProductNat
  <1>3. balance[req[w].to] * Scale + req[w].amount \in Nat
    BY <1>2
  <1> QED
    BY <1>3, ToCentsNat DEF Credited

LEMMA CommitSafe ==
    ASSUME TypeOK, Safe, NEW w \in Workers, Commit(w) PROVE Safe'
  <1>1. /\ req[w].amount > 0 /\ req[w].from # req[w].to
        /\ Enough(w) /\ lock[req[w].from] = w /\ lock[req[w].to] = w
        /\ data[w].from = Debited(w) /\ data[w].to = Credited(w)
    BY DEF Commit, Safe, Held, Checked, Computed, TransferCalls
  <1>2. req[w].from \in Accounts /\ req[w].to \in Accounts /\ req[w].amount \in Int
    BY RowKnown DEF Commit, TypeOK, TransferCalls
  <1>3. data[w].from \in Nat /\ data[w].to \in Nat
    BY <1>1, <1>2, DebitNat, CreditNat DEF Safe
  <1>4. NonNegative'
    <2>1. \A a \in Accounts : balance'[a] \in {balance[a], data[w].from, data[w].to}
      BY DEF Commit, TypeOK, StoresOK
    <2> QED
      BY <1>3, <2>1 DEF Safe, NonNegative
  <1>5. Held(w)' /\ Checked(w)' /\ Computed(w)'
    BY NoTransfer DEF Commit, Goto, TypeOK, WorkersOK, TransferCalls
  <1>6. ASSUME NEW v \in Workers \ {w} PROVE Held(v)' /\ Checked(v)' /\ Computed(v)'
    <2>1. pc'[v] = pc[v] /\ req'[v] = req[v] /\ data'[v] = data[v]
      BY DEF Commit, Goto, TypeOK, WorkersOK
    <2>2. \A a \in Accounts : lock[a] = v => lock'[a] = v /\ balance'[a] = balance[a]
      BY <1>1, <1>2 DEF Commit, Released, TypeOK, StoresOK
    <2> QED
      BY <2>1, <2>2, Undisturbed DEF Safe
  <1> QED
    BY <1>4, <1>5, <1>6 DEF Safe

LEMMA PaySafe == ASSUME TypeOK, Safe, NEW w \in Workers, Pay(w) PROVE Safe'
  <1> USE DEF TypeOK, WorkersOK, StoresOK
  <1>1. CASE Refuse(w)
    BY <1>1, RefuseSafe
  <1>2. CASE SelectForUpdate(w) /\ ~Refuse(w)
    <2>1. Apart(w)
      BY <1>2, NoneAssumption DEF SelectForUpdate, Goto, Apart
    <2>2. Held(w)' /\ Checked(w)' /\ Computed(w)'
      BY <1>2 DEF SelectForUpdate, Goto, Safe, Held, Checked, Computed, Enough,
                  TransferCalls
    <2> QED
      BY <2>1, <2>2, ApartSafe
  <1>3. CASE SelectTo(w) /\ ~Refuse(w)
    <2>1. Apart(w)
      BY <1>3 DEF SelectTo, Goto, Apart
    <2>2. Held(w)' /\ Checked(w)' /\ Computed(w)'
      BY <1>3 DEF SelectTo, Goto, Safe, Held, Checked, Computed, Enough, TransferCalls
    <2> QED
      BY <2>1, <2>2, ApartSafe
  <1>4. CASE UpdateFrom(w)
    <2>1. Apart(w)
      BY <1>4 DEF UpdateFrom, Goto, Apart
    <2>2. Held(w)' /\ Checked(w)' /\ Computed(w)'
      BY <1>4 DEF UpdateFrom, Goto, Safe, Held, Checked, Computed, Enough, Debited,
                  TransferCalls
    <2> QED
      BY <2>1, <2>2, ApartSafe
  <1>5. CASE UpdateTo(w)
    <2>1. Apart(w)
      BY <1>5, NoneAssumption DEF UpdateTo, Goto, Apart
    <2>2. req[w].to \in Accounts /\ req[w].from # req[w].to
      BY <1>5, RowKnown DEF UpdateTo, Safe, Checked, TransferCalls
    <2>3. Held(w)' /\ Checked(w)' /\ Computed(w)'
      BY <1>5, <2>2 DEF UpdateTo, Goto, Safe, Held, Checked, Computed, Enough, Debited,
                        Credited, TransferCalls
    <2> QED
      BY <2>1, <2>3, ApartSafe
  <1>6. CASE Commit(w)
    BY <1>6, CommitSafe
  <1>7. CASE Delete(w)
    <2>1. Apart(w) /\ pc'[w] \notin TransferCalls
      BY <1>7 DEF Delete, Return, Goto, Apart, TransferCalls
    <2> QED
      BY <2>1, NoTransfer, ApartSafe
  <1> QED
    BY <1>1, <1>2, <1>3, <1>4, <1>5, <1>6, <1>7 DEF Pay

LEMMA SafeNext == TypeOK /\ Safe /\ [Next]_vars => Safe'
  <1> SUFFICES ASSUME TypeOK, Safe, [Next]_vars PROVE Safe'
    OBVIOUS
  <1>1. ASSUME NEW w \in Workers, DeadlockDetected(w) \/ Fail(w) PROVE Safe'
    BY <1>1, RefuseSafe DEF DeadlockDetected, Fail
  <1>2. ASSUME UNCHANGED <<balance, rows, lock, pc, req, data>> PROVE Safe'
    BY <1>2 DEF Safe, NonNegative, Held, Checked, Computed, Enough, Debited, Credited
  <1>3. ASSUME NEW k \in Keys, Expire(k) \/ ClearCache PROVE Safe'
    BY <1>2, <1>3 DEF Expire, ClearCache
  <1>4. ASSUME ClearCache PROVE Safe'
    BY <1>2, <1>4 DEF ClearCache
  <1>5. ASSUME UNCHANGED vars PROVE Safe'
    BY <1>2, <1>5 DEF vars
  <1> QED
    BY <1>1, <1>3, <1>4, <1>5, RequestSafe, ReadSafe, PaySafe DEF Next, Served

(* No account is ever overdrawn, however many transfers run at once: the   *)
(* row lock taken with the check is held until the debit is committed.     *)
THEOREM NoOverdraft == Spec => []NonNegative
  <1>1. Init => TypeOK /\ Safe
    BY TypeInit, SafeInit
  <1>2. TypeOK /\ Safe /\ [Next]_vars => (TypeOK /\ Safe)'
    BY TypeNext, SafeNext
  <1>3. TypeOK /\ Safe => NonNegative
    BY DEF Safe
  <1> QED
    BY <1>1, <1>2, <1>3, PTL DEF Spec


-----------------------------------------------------------------------------
(* The books.                                                              *)

LessOnNat == {p \in Nat \X Nat : p[1] < p[2]}

(* Induction over a set of naturals.                                       *)
LEMMA SetInduction ==
    ASSUME NEW S, 0 \in S, \A i \in Nat : i \in S => i + 1 \in S
    PROVE  Nat \subseteq S
  <1> DEFINE T == Nat \ S
  <1> SUFFICES ASSUME T # {} PROVE FALSE
    OBVIOUS
  <1>1. IsWellFoundedOn(LessOnNat, Nat)
    BY NatLessThanWellFounded DEF OpToRel, LessOnNat
  <1>2. PICK x \in T : \A y \in T : <<y, x>> \notin LessOnNat
    <2>1. T \subseteq Nat
      OBVIOUS
    <2> HIDE DEF T
    <2> QED
      BY <1>1, <2>1, WFMin
  <1>3. x - 1 \in Nat /\ <<x - 1, x>> \in LessOnNat
    BY <1>2 DEF LessOnNat
  <1> QED
    BY <1>2, <1>3

(* Whole cents do not disturb the rounding of the rest.                    *)
LEMMA QuotientShift ==
    ASSUME NEW d \in Nat \ {0}, NEW b \in Int, NEW x \in Int
    PROVE  (b * d + x) \div d = b + x \div d
  OBVIOUS

LEMMA WholeCents ==
    ASSUME NEW b \in Int, NEW x \in Int
    PROVE  ToCents(b * Scale + x) = b + ToCents(x)
  <1> DEFINE d == 2 * Scale
             n == 2 * x + Scale
  <1>1. d \in Nat \ {0} /\ n \in Int
    BY ScaleAssumption
  <1>2. 2 * (b * Scale + x) + Scale = b * d + n
    BY ScaleAssumption
  <1> HIDE DEF d, n
  <1>3. (b * d + n) \div d = b + n \div d
    BY <1>1, QuotientShift
  <1> QED
    BY <1>2, <1>3 DEF ToCents, d, n

LEMMA ChangeInt == ASSUME NEW a, NEW r \in Row PROVE Change(a, r) \in Int
  BY DEF Change, Left, Row

(* Both sides of an amount are rounded up when it lies midway between two  *)
(* cents, and only then does the pair differ from the amount.              *)
LEMMA RoundedDebit ==
    ASSUME NEW x \in Int
    PROVE  ToCents(-x) = (IF Midway(x) THEN 1 ELSE 0) - ToCents(x)
  <1> DEFINE d == 2 * Scale
             n == 2 * x + Scale
             m == 2 * (-x) + Scale
  <1>1. d \in Nat \ {0} /\ n \in Int /\ m \in Int /\ m + n = d
    BY ScaleAssumption
  <1> HIDE DEF d, n, m
  <1>2. m = d - n
    BY <1>1
  <1>3. (d - n) \div d = (IF n % d = 0 THEN 1 ELSE 0) - n \div d
    BY <1>1
  <1> QED
    BY <1>2, <1>3 DEF ToCents, Midway, d, n, m

(* g is the balance of account a after each of the first n rows of s.      *)
Books(a, s, n, g) ==
    /\ g \in [0..n -> Int]
    /\ g[0] = InitBalance[a]
    /\ \A i \in 1..n : g[i] = g[i - 1] + Change(a, s[i])

LEMMA BooksExist ==
    ASSUME NEW a \in Accounts, NEW s \in Seq(Row)
    PROVE  \E g : Books(a, s, Len(s), g)
  <1> DEFINE S == {n \in Nat : n <= Len(s) => \E g : Books(a, s, n, g)}
  <1>1. 0 \in S
    <2>1. Books(a, s, 0, [i \in 0..0 |-> InitBalance[a]])
      BY InitBalanceAssumption DEF Books
    <2> QED
      BY <2>1
  <1>2. ASSUME NEW n \in Nat, n \in S PROVE n + 1 \in S
    <2> SUFFICES ASSUME n + 1 <= Len(s) PROVE \E g : Books(a, s, n + 1, g)
      OBVIOUS
    <2>1. PICK g : Books(a, s, n, g)
      BY <1>2
    <2> DEFINE h == [i \in 0..(n + 1) |->
                       IF i = n + 1 THEN g[n] + Change(a, s[n + 1]) ELSE g[i]]
    <2>2. s[n + 1] \in Row /\ Change(a, s[n + 1]) \in Int
      BY ChangeInt
    <2>3. Books(a, s, n + 1, h)
      BY <2>1, <2>2 DEF Books
    <2> QED
      BY <2>3
  <1>3. Nat \subseteq S
    <2> HIDE DEF S
    <2> QED
      BY <1>1, <1>2, SetInduction
  <1> QED
    BY <1>3

(* The books of two lists of rows agree on the rows that they share.       *)
LEMMA BooksAgree ==
    ASSUME NEW a, NEW s, NEW t, NEW m \in Nat, NEW n \in Nat, m <= n,
           \A i \in 1..m : s[i] = t[i],
           NEW g, Books(a, s, m, g), NEW h, Books(a, t, n, h)
    PROVE  g[m] = h[m]
  <1> DEFINE S == {i \in Nat : i <= m => g[i] = h[i]}
  <1>1. 0 \in S
    BY DEF Books
  <1>2. ASSUME NEW i \in Nat, i \in S PROVE i + 1 \in S
    BY <1>2 DEF Books
  <1>3. Nat \subseteq S
    <2> HIDE DEF S
    <2> QED
      BY <1>1, <1>2, SetInduction
  <1> QED
    BY <1>3

LEMMA LedgerIsBooks ==
    ASSUME NEW a \in Accounts, NEW s \in Seq(Row)
    PROVE  \E g : Books(a, s, Len(s), g) /\ Ledger(a, s) = g[Len(s)]
  <1> DEFINE Is(f) == f = [i \in 0..Len(s) |->
                             IF i = 0 THEN InitBalance[a] ELSE f[i - 1] + Change(a, s[i])]
             f == CHOOSE g : Is(g)
  <1>1. PICK g : Books(a, s, Len(s), g)
    BY BooksExist
  <1>2. Is(g)
    BY <1>1 DEF Books
  <1>3. Is(f)
    BY <1>2
  <1>4. Ledger(a, s) = f[Len(s)]
    BY DEF Ledger
  <1> HIDE DEF f
  <1> DEFINE S == {i \in Nat : i <= Len(s) => f[i] \in Int}
  <1>5. 0 \in S
    BY <1>3, InitBalanceAssumption
  <1>6. ASSUME NEW i \in Nat, i \in S PROVE i + 1 \in S
    <2> SUFFICES ASSUME i + 1 <= Len(s) PROVE f[i + 1] \in Int
      OBVIOUS
    <2>1. f[i + 1] = f[i] + Change(a, s[i + 1])
      BY <1>3
    <2> QED
      BY <1>6, <2>1, ChangeInt
  <1>7. Nat \subseteq S
    <2> HIDE DEF S
    <2> QED
      BY <1>5, <1>6, SetInduction
  <1>8. \A i \in 0..Len(s) : f[i] \in Int
    BY <1>7
  <1>9. f \in [0..Len(s) -> Int]
    <2>1. DOMAIN f = 0..Len(s) /\ f = [i \in 0..Len(s) |-> f[i]]
      BY <1>3
    <2> QED
      BY <1>8, <2>1
  <1>10. f[0] = InitBalance[a] /\ \A i \in 1..Len(s) : f[i] = f[i - 1] + Change(a, s[i])
    BY <1>3
  <1> QED
    BY <1>4, <1>9, <1>10 DEF Books

LEMMA LedgerEmpty == \A a \in Accounts : Ledger(a, << >>) = InitBalance[a]
  <1> SUFFICES ASSUME NEW a \in Accounts PROVE Ledger(a, << >>) = InitBalance[a]
    OBVIOUS
  <1>1. << >> \in Seq(Row) /\ Len(<< >>) = 0
    OBVIOUS
  <1> QED
    BY <1>1, LedgerIsBooks DEF Books

LEMMA LedgerAppend ==
    ASSUME NEW a \in Accounts, NEW s \in Seq(Row), NEW r \in Row
    PROVE  Ledger(a, Append(s, r)) = Ledger(a, s) + Change(a, r)
  <1> DEFINE t == Append(s, r)
  <1>1. t \in Seq(Row) /\ Len(t) = Len(s) + 1 /\ t[Len(s) + 1] = r
        /\ \A i \in 1..Len(s) : s[i] = t[i]
    OBVIOUS
  <1> HIDE DEF t
  <1>2. PICK g : Books(a, s, Len(s), g) /\ Ledger(a, s) = g[Len(s)]
    BY LedgerIsBooks
  <1>3. PICK h : Books(a, t, Len(t), h) /\ Ledger(a, t) = h[Len(t)]
    BY <1>1, LedgerIsBooks
  <1>4. g[Len(s)] = h[Len(s)]
    <2>1. Len(s) \in Nat /\ Len(t) \in Nat /\ Len(s) <= Len(t)
      BY <1>1
    <2> QED
      BY <1>1, <1>2, <1>3, <2>1, BooksAgree
  <1>5. h[Len(s) + 1] = h[Len(s)] + Change(a, r)
    BY <1>1, <1>3 DEF Books
  <1> QED
    BY <1>1, <1>2, <1>3, <1>4, <1>5 DEF t

(* What a transfer that commits adds to each balance.                      *)
LEMMA CommitBooks ==
    ASSUME TypeOK, Safe, NEW w \in Workers, Commit(w)
    PROVE  \E r \in Row : /\ rows' = Append(rows, r) /\ r.from # r.to
                          /\ r.amount = ToCents(r.asked)
                          /\ \A a \in Accounts : balance'[a] = balance[a] + Change(a, r)
  <1> DEFINE r == [from |-> req[w].from, to |-> req[w].to,
                   amount |-> ToCents(req[w].amount), asked |-> req[w].amount]
  <1>1. req[w].from \in Accounts /\ req[w].to \in Accounts /\ req[w].amount \in Int
    BY RowKnown DEF Commit, TypeOK, TransferCalls
  <1>2. /\ req[w].from # req[w].to
        /\ data[w].from = Debited(w) /\ data[w].to = Credited(w)
    BY DEF Commit, Safe, Held, Checked, Computed, TransferCalls
  <1>3. /\ balance[req[w].from] \in Int /\ balance[req[w].to] \in Int
        /\ -req[w].amount \in Int
    BY <1>1 DEF TypeOK, StoresOK
  <1>4. Debited(w) = balance[req[w].from] + (Left(r) - ToCents(req[w].amount))
    <2>0. Left(r) - ToCents(req[w].amount) = ToCents(-req[w].amount)
      BY <1>1, RoundedDebit DEF Left
    <2>1. balance[req[w].from] * Scale - req[w].amount
          = balance[req[w].from] * Scale + (-req[w].amount)
      BY <1>1, <1>3, ProductInt
    <2> QED
      BY <1>3, <2>0, <2>1, WholeCents DEF Debited
  <1>5. Credited(w) = balance[req[w].to] + ToCents(req[w].amount)
    BY <1>1, <1>3, WholeCents DEF Credited
  <1>6. /\ r \in Row /\ rows' = Append(rows, r) /\ r.from # r.to
        /\ r.amount = ToCents(r.asked)
    BY <1>1, <1>2, ToCentsInt DEF Commit, Row
  <1>7. ASSUME NEW a \in Accounts PROVE balance'[a] = balance[a] + Change(a, r)
    <2>1. balance \in [Accounts -> Int]
      BY DEF TypeOK, StoresOK
    <2>2. balance' = [balance EXCEPT ![req[w].from] = data[w].from,
                                     ![req[w].to] = data[w].to]
      BY DEF Commit
    <2>3. CASE a = req[w].from
      BY <1>1, <1>2, <1>4, <2>1, <2>2, <2>3 DEF Change
    <2>4. CASE a = req[w].to
      BY <1>1, <1>2, <1>5, <2>1, <2>2, <2>4 DEF Change
    <2>5. CASE a \notin {req[w].from, req[w].to}
      BY <1>1, <2>1, <2>2, <2>5 DEF Change
    <2> QED
      BY <2>3, <2>4, <2>5
  <1> QED
    BY <1>6, <1>7

(* The balances and the rows change together, in a commit.                 *)
LEMMA OnlyCommits ==
    ASSUME [Next]_vars
    PROVE  UNCHANGED <<balance, rows>> \/ \E w \in Workers : Commit(w)
  BY DEF Next, Served, Request, Read, Pay, vars, GetBalance, GetSummary, GetCreditScore,
         ReadCache, Transfer, SelectBalance, SelectAccount, SelectStats, SelectId,
         SelectScore, SetexBalance, SetexSummary, SetexScore, Select, Setex, Refuse,
         SelectForUpdate, SelectTo, UpdateFrom, UpdateTo, Delete, DeadlockDetected, Fail,
         Expire, ClearCache

LEMMA BooksInit == Init => BooksBalance
  BY LedgerEmpty DEF Init, BooksBalance

LEMMA BooksNext == TypeOK /\ Safe /\ BooksBalance /\ [Next]_vars => BooksBalance'
  <1> SUFFICES ASSUME TypeOK, Safe, BooksBalance, [Next]_vars PROVE BooksBalance'
    OBVIOUS
  <1>1. CASE UNCHANGED <<balance, rows>>
    BY <1>1 DEF BooksBalance
  <1>2. ASSUME NEW w \in Workers, Commit(w) PROVE BooksBalance'
    <2>1. PICK r \in Row : /\ rows' = Append(rows, r)
                           /\ \A a \in Accounts : balance'[a] = balance[a] + Change(a, r)
      BY <1>2, CommitBooks
    <2>2. rows \in Seq(Row)
      BY DEF TypeOK, StoresOK
    <2>3. ASSUME NEW a \in Accounts PROVE balance'[a] = Ledger(a, rows')
      <3>1. Ledger(a, rows') = Ledger(a, rows) + Change(a, r)
        BY <2>1, <2>2, LedgerAppend
      <3> QED
        BY <2>1, <3>1 DEF BooksBalance
    <2> QED
      BY <2>3 DEF BooksBalance
  <1> QED
    BY <1>1, <1>2, OnlyCommits

(* The balances are what the stored rows of table transactions add up to,  *)
(* but for a cent of each amount midway between two cents, however         *)
(* transfers interleave, fail or deadlock: a transfer computes both of its *)
(* balances while it holds both locks, and writes them with its row, whose *)
(* amount is rounded on its own.                                           *)
THEOREM NoUpdateLost == Spec => []BooksBalance
  <1>1. Init => TypeOK /\ Safe /\ BooksBalance
    BY TypeInit, SafeInit, BooksInit
  <1>2. TypeOK /\ Safe /\ BooksBalance /\ [Next]_vars => (TypeOK /\ Safe /\ BooksBalance)'
    BY TypeNext, SafeNext, BooksNext
  <1> QED
    BY <1>1, <1>2, PTL DEF Spec

-----------------------------------------------------------------------------
(* The money there is.                                                     *)

(* Any element of s, the same one every time.                              *)
Some(s) == CHOOSE x \in s : TRUE

(* it[s] is the sum of f over s, for each s of a set of sets.              *)
Sums(f, sets, it) ==
    it = [s \in sets |-> IF s = {} THEN 0 ELSE f[Some(s)] + it[s \ {Some(s)}]]

LEMMA SomeIsOne == \A s : s # {} => Some(s) \in s
  BY DEF Some

(* The subsets of S with at most n elements.                               *)
UpTo(S, n) == {s \in SUBSET S : Cardinality(s) <= n}

LEMMA SubsetsUpTo ==
    ASSUME NEW S, IsFiniteSet(S)
    PROVE  /\ UpTo(S, 0) = {{}}
           /\ \A s \in SUBSET S : IsFiniteSet(s) /\ Cardinality(s) \in Nat
           /\ UpTo(S, Cardinality(S)) = SUBSET S
           /\ \A n \in Nat : UpTo(S, n) \subseteq UpTo(S, n + 1)
           /\ \A n \in Nat : \A s \in UpTo(S, n + 1) : s # {} => s \ {Some(s)} \in UpTo(S, n)
  <1>1. \A s \in SUBSET S : /\ IsFiniteSet(s) /\ Cardinality(s) \in Nat
                            /\ Cardinality(s) <= Cardinality(S)
    BY FS_Subset, FS_CardinalityType
  <1>2. UpTo(S, 0) = {{}}
    BY <1>1, FS_EmptySet DEF UpTo
  <1>3. UpTo(S, Cardinality(S)) = SUBSET S
    BY <1>1 DEF UpTo
  <1>4. \A n \in Nat : UpTo(S, n) \subseteq UpTo(S, n + 1)
    BY <1>1 DEF UpTo
  <1>5. ASSUME NEW n \in Nat, NEW s \in UpTo(S, n + 1), s # {}
        PROVE  s \ {Some(s)} \in UpTo(S, n)
    <2>1. s \in SUBSET S /\ Cardinality(s) <= n + 1 /\ IsFiniteSet(s) /\ Some(s) \in s
      BY <1>1, <1>5, SomeIsOne DEF UpTo
    <2>2. Cardinality(s \ {Some(s)}) = Cardinality(s) - 1
      BY <2>1, FS_RemoveElement
    <2>3. s \ {Some(s)} \in SUBSET S /\ Cardinality(s) \in Nat
      BY <1>1, <2>1
    <2> QED
      BY <2>1, <2>2, <2>3 DEF UpTo
  <1> QED
    BY <1>1, <1>2, <1>3, <1>4, <1>5

LEMMA SumsExist ==
    ASSUME NEW S, IsFiniteSet(S), NEW f \in [S -> Int]
    PROVE  \E it \in [SUBSET S -> Int] : Sums(f, SUBSET S, it)
  <1> DEFINE Has(n) == \E it \in [UpTo(S, n) -> Int] : Sums(f, UpTo(S, n), it)
             N == {n \in Nat : Has(n)}
  <1>1. 0 \in N
    <2> DEFINE it == [s \in {{}} |-> 0]
    <2>1. it \in [{{}} -> Int] /\ Sums(f, {{}}, it)
      BY DEF Sums
    <2>2. UpTo(S, 0) = {{}}
      BY SubsetsUpTo
    <2> HIDE DEF it
    <2> QED
      BY <2>1, <2>2
  <1>2. ASSUME NEW n \in Nat, n \in N PROVE n + 1 \in N
    <2>1. PICK it \in [UpTo(S, n) -> Int] : Sums(f, UpTo(S, n), it)
      BY <1>2
    <2> DEFINE sum(s) == IF s = {} THEN 0 ELSE f[Some(s)] + it[s \ {Some(s)}]
               new == [s \in UpTo(S, n + 1) |-> sum(s)]
    <2>2. \A s \in UpTo(S, n) : it[s] = sum(s)
      BY <2>1 DEF Sums
    <2>3. \A s \in UpTo(S, n + 1) : s # {} =>
             s \ {Some(s)} \in UpTo(S, n) /\ Some(s) \in S
      BY SubsetsUpTo, SomeIsOne DEF UpTo
    <2>4. UpTo(S, n) \subseteq UpTo(S, n + 1)
      BY SubsetsUpTo
    <2>5. \A s \in UpTo(S, n + 1) : sum(s) \in Int
      BY <2>1, <2>3
    <2>6. \A s \in UpTo(S, n) : new[s] = it[s]
      BY <2>2, <2>4
    <2>7. new \in [UpTo(S, n + 1) -> Int]
      BY <2>5
    <2>8. \A s \in UpTo(S, n + 1) :
             new[s] = IF s = {} THEN 0 ELSE f[Some(s)] + new[s \ {Some(s)}]
      BY <2>3, <2>6
    <2>9. Sums(f, UpTo(S, n + 1), new)
      <3>1. \A s \in UpTo(S, n + 1) : sum(s) = IF s = {} THEN 0 ELSE f[Some(s)] + new[s \ {Some(s)}]
        BY <2>8
      <3> QED
        BY <3>1 DEF Sums
    <2> HIDE DEF new
    <2> QED
      BY <2>7, <2>9
  <1>3. Nat \subseteq N
    <2> HIDE DEF N
    <2> QED
      BY <1>1, <1>2, SetInduction
  <1>4. Cardinality(S) \in Nat
    BY FS_CardinalityType
  <1>5. UpTo(S, Cardinality(S)) = SUBSET S
    BY SubsetsUpTo
  <1>6. Has(Cardinality(S))
    BY <1>3, <1>4
  <1> QED
    BY <1>5, <1>6

LEMMA TotalIsSum ==
    ASSUME NEW S, IsFiniteSet(S), NEW f \in [S -> Int]
    PROVE  \E it : Sums(f, SUBSET S, it) /\ Total(f) = it[S]
  <1> DEFINE it == CHOOSE it : Sums(f, SUBSET S, it)
  <1>1. DOMAIN f = S
    OBVIOUS
  <1>2. Total(f) = it[S]
    BY <1>1 DEF Total, FoldFunction, FoldFunctionOnSet, MapThenFoldSet, Sums, Some
  <1>3. Sums(f, SUBSET S, it)
    BY SumsExist
  <1> QED
    BY <1>2, <1>3

LEMMA SumsInt ==
    ASSUME NEW S, IsFiniteSet(S), NEW f \in [S -> Int], NEW it, Sums(f, SUBSET S, it)
    PROVE  \A s \in SUBSET S : it[s] \in Int
  <1> DEFINE N == {n \in Nat : \A s \in UpTo(S, n) : it[s] \in Int}
  <1>1. it[{}] = 0
    BY DEF Sums
  <1>2. 0 \in N
    <2>1. UpTo(S, 0) = {{}}
      BY SubsetsUpTo
    <2> QED
      BY <1>1, <2>1
  <1>3. ASSUME NEW n \in Nat, n \in N PROVE n + 1 \in N
    <2>1. ASSUME NEW s \in UpTo(S, n + 1) PROVE it[s] \in Int
      <3>1. CASE s = {}
        BY <1>1, <3>1
      <3>2. CASE s # {}
        <4>1. Some(s) \in S /\ s \ {Some(s)} \in UpTo(S, n) /\ s \in SUBSET S
          BY <3>2, SomeIsOne, SubsetsUpTo DEF UpTo
        <4>2. it[s] = f[Some(s)] + it[s \ {Some(s)}]
          BY <3>2, <4>1 DEF Sums
        <4> QED
          BY <1>3, <4>1, <4>2
      <3> QED
        BY <3>1, <3>2
    <2> QED
      BY <2>1
  <1>4. Nat \subseteq N
    <2> HIDE DEF N
    <2> QED
      BY <1>2, <1>3, SetInduction
  <1>5. Cardinality(S) \in Nat /\ UpTo(S, Cardinality(S)) = SUBSET S
    BY FS_CardinalityType, SubsetsUpTo
  <1> QED
    BY <1>4, <1>5

LEMMA TotalInt ==
    ASSUME NEW S, IsFiniteSet(S), NEW f \in [S -> Int] PROVE Total(f) \in Int
  <1>1. PICK it : Sums(f, SUBSET S, it) /\ Total(f) = it[S]
    BY TotalIsSum
  <1>2. \A s \in SUBSET S : it[s] \in Int
    BY <1>1, SumsInt
  <1> QED
    BY <1>1, <1>2

(* Two balances that change move the total by what they change together.   *)
LEMMA TotalMoves ==
    ASSUME NEW S, IsFiniteSet(S), NEW f \in [S -> Int], NEW h \in [S -> Int],
           NEW p \in S, NEW q \in S, p # q, NEW x \in Int, NEW y \in Int,
           \A a \in S : h[a] = f[a] + (IF a = p THEN x ELSE IF a = q THEN y ELSE 0)
    PROVE  Total(f) \in Int /\ Total(h) = Total(f) + x + y
  <1> DEFINE part(s) == (IF p \in s THEN x ELSE 0) + (IF q \in s THEN y ELSE 0)
  <1>1. PICK F : Sums(f, SUBSET S, F) /\ Total(f) = F[S]
    BY TotalIsSum
  <1>2. PICK H : Sums(h, SUBSET S, H) /\ Total(h) = H[S]
    BY TotalIsSum
  <1> DEFINE Good(s) == F[s] \in Int /\ H[s] = F[s] + part(s)
             N == {n \in Nat : \A s \in UpTo(S, n) : Good(s)}
  <1>3. Good({})
    BY <1>1, <1>2 DEF Sums
  <1>4. 0 \in N
    <2>1. UpTo(S, 0) = {{}}
      BY SubsetsUpTo
    <2> HIDE DEF Good
    <2> QED
      BY <1>3, <2>1
  <1>5. ASSUME NEW n \in Nat, n \in N PROVE n + 1 \in N
    <2>1. ASSUME NEW s \in UpTo(S, n + 1), s # {} PROVE Good(s)
      <3> DEFINE c == Some(s)
                 r == s \ {c}
      <3>1. c \in s /\ s \in SUBSET S /\ c \in S
        BY <2>1, SomeIsOne DEF UpTo
      <3>2. r \in UpTo(S, n) /\ r \in SUBSET S
        BY <2>1, SubsetsUpTo DEF UpTo
      <3>3. Good(r)
        <4> HIDE DEF Good, r
        <4> QED
          BY <1>5, <3>2
      <3>4. F[s] = f[c] + F[r] /\ H[s] = h[c] + H[r]
        BY <1>1, <1>2, <2>1, <3>1 DEF Sums
      <3>5. part(s) = part(r) + (IF c = p THEN x ELSE IF c = q THEN y ELSE 0)
        BY <3>1
      <3>6. h[c] = f[c] + (IF c = p THEN x ELSE IF c = q THEN y ELSE 0) /\ f[c] \in Int
        BY <3>1
      <3>7. part(r) \in Int
        OBVIOUS
      <3> HIDE DEF c, r, part
      <3> QED
        BY <3>3, <3>4, <3>5, <3>6, <3>7
    <2>2. ASSUME NEW s \in UpTo(S, n + 1) PROVE Good(s)
      <3>1. CASE s = {}
        BY <1>3, <3>1
      <3> HIDE DEF Good
      <3> QED
        BY <2>1, <3>1
    <2> HIDE DEF Good
    <2> QED
      BY <2>2
  <1>6. Nat \subseteq N
    <2> HIDE DEF N
    <2> QED
      BY <1>4, <1>5, SetInduction
  <1>7. Good(S)
    <2>1. Cardinality(S) \in Nat /\ S \in UpTo(S, Cardinality(S))
      BY FS_CardinalityType, SubsetsUpTo
    <2> HIDE DEF Good
    <2> QED
      BY <1>6, <2>1
  <1> QED
    BY <1>1, <1>2, <1>7

LEMMA DriftInit ==
    ASSUME IsFiniteSet(Accounts), Init PROVE DriftBounded
  <1>1. InitBalance \in [Accounts -> Int]
    BY InitBalanceAssumption
  <1>2. Total(InitBalance) \in Int
    BY <1>1, TotalInt
  <1> QED
    BY <1>2 DEF Init, DriftBounded

LEMMA DriftNext ==
    ASSUME IsFiniteSet(Accounts), TypeOK, Safe, DriftBounded, [Next]_vars
    PROVE  DriftBounded'
  <1>1. CASE UNCHANGED <<balance, rows>>
    BY <1>1 DEF DriftBounded
  <1>2. ASSUME NEW w \in Workers, Commit(w) PROVE DriftBounded'
    <2>1. PICK r \in Row : /\ rows' = Append(rows, r) /\ r.from # r.to
                           /\ \A a \in Accounts : balance'[a] = balance[a] + Change(a, r)
                           /\ r.amount = ToCents(r.asked)
      BY <1>2, CommitBooks
    <2>2. TypeOK'
      BY TypeNext
    <2>3. /\ balance \in [Accounts -> Int] /\ balance' \in [Accounts -> Int]
          /\ rows \in Seq(Row)
      BY <2>2 DEF TypeOK, StoresOK
    <2>4. r.from \in Accounts /\ r.to \in Accounts /\ r.asked \in Int
      BY DEF Row
    <2> DEFINE x == Left(r) - r.amount
               y == r.amount
    <2>5. x \in Int /\ y \in Int /\ x + y \in {0, 1}
      BY DEF Row, Left
    <2>6. \A a \in Accounts : balance'[a] = balance[a] + (IF a = r.from THEN x ELSE IF a = r.to THEN y ELSE 0)
      BY <2>1 DEF Change
    <2> HIDE DEF x, y
    <2>7. Total(balance) \in Int /\ Total(balance') = Total(balance) + x + y
      <3> DEFINE before == balance
                 after == balance'
                 p == r.from
                 q == r.to
      <3>1. /\ before \in [Accounts -> Int] /\ after \in [Accounts -> Int]
            /\ \A a \in Accounts : after[a] = before[a]
                  + (IF a = p THEN x ELSE IF a = q THEN y ELSE 0)
        BY <2>3, <2>6
      <3>2. p # q /\ p \in Accounts /\ q \in Accounts /\ x \in Int /\ y \in Int
        BY <2>1, <2>4, <2>5
      <3> HIDE DEF before, after, p, q
      <3>3. Total(before) \in Int /\ Total(after) = Total(before) + x + y
        BY <3>1, <3>2, TotalMoves
      <3>4. Total(balance') = Total(after)
        BY DEF Total, after
      <3> QED
        BY <3>3, <3>4 DEF before
    <2>8. Len(rows') = Len(rows) + 1 /\ Len(rows) \in Nat
      BY <2>1, <2>3
    <2>9. Total(InitBalance) \in Int
      BY TotalInt, InitBalanceAssumption
    <2>10. Total(balance') - Total(InitBalance) = (Total(balance) - Total(InitBalance)) + (x + y)
      BY <2>5, <2>7, <2>9
    <2> QED
      BY <2>5, <2>7, <2>8, <2>9, <2>10 DEF DriftBounded
  <1> QED
    BY <1>1, <1>2, OnlyCommits

(* Money is not destroyed, and at most a cent is created by a transfer:    *)
(* the column rounds each side of it on its own.                           *)
THEOREM MoneyIsKept == IsFiniteSet(Accounts) => (Spec => []DriftBounded)
  <1> SUFFICES ASSUME IsFiniteSet(Accounts) PROVE Spec => []DriftBounded
    OBVIOUS
  <1>1. Init => TypeOK /\ Safe /\ DriftBounded
    BY TypeInit, SafeInit, DriftInit
  <1>2. TypeOK /\ Safe /\ DriftBounded /\ [Next]_vars => (TypeOK /\ Safe /\ DriftBounded)'
    BY TypeNext, SafeNext, DriftNext
  <1> QED
    BY <1>1, <1>2, PTL DEF Spec

-----------------------------------------------------------------------------
(* Cached summaries.                                                       *)

(* b was the balance of account a when none but the first n rows were.     *)
Was(a, n, b) == b = Ledger(a, SubSeq(rows, 1, n))

(* What the first SELECT returned is a balance the account had, what the   *)
(* second returned counts every row up to then.                            *)
ReadersCoherent ==
    \A w \in Workers :
        /\ pc[w] = "select_stats" =>
              \E n \in 0..Len(rows) : Was(req[w], n, data[w].balance)
        /\ pc[w] = "setex_summary" =>
              \E n \in 0..Len(rows) : /\ Was(req[w], n, data[w].balance)
                                      /\ RowsOf(req[w]) \cap 1..n \subseteq data[w].stats

Coherent == ReadersCoherent /\ SummaryCoherent

LEMMA CoherentInit == Init => Coherent
  BY DEF Init, Coherent, ReadersCoherent, SummaryCoherent

(* No row that has been committed changes.                                 *)
LEMMA RowsStay ==
    ASSUME TypeOK, Safe, [Next]_vars
    PROVE  /\ Len(rows) \in Nat /\ Len(rows') \in Nat /\ Len(rows) <= Len(rows')
           /\ \A n \in 0..Len(rows) :
                 /\ SubSeq(rows', 1, n) = SubSeq(rows, 1, n)
                 /\ \A a : RowsOf(a)' \cap 1..n = RowsOf(a) \cap 1..n
  <1>1. rows \in Seq(Row)
    BY DEF TypeOK, StoresOK
  <1>2. CASE UNCHANGED rows
    BY <1>1, <1>2 DEF RowsOf
  <1>3. ASSUME NEW w \in Workers, Commit(w)
        PROVE  /\ rows' \in Seq(Row) /\ Len(rows') = Len(rows) + 1
               /\ \A i \in 1..Len(rows) : rows'[i] = rows[i]
    BY <1>1, <1>3, CommitBooks
  <1>4. ASSUME NEW w \in Workers, Commit(w), NEW n \in 0..Len(rows)
        PROVE  /\ SubSeq(rows', 1, n) = SubSeq(rows, 1, n)
               /\ \A a : RowsOf(a)' \cap 1..n = RowsOf(a) \cap 1..n
    <2>1. /\ rows' \in Seq(Row) /\ Len(rows') = Len(rows) + 1
          /\ \A i \in 1..n : rows'[i] = rows[i]
      BY <1>1, <1>3, <1>4
    <2>2. SubSeq(rows', 1, n) = SubSeq(rows, 1, n)
      BY <1>1, <2>1
    <2>3. \A i \in 1..n : i \in DOMAIN rows /\ i \in DOMAIN rows'
      BY <1>1, <2>1
    <2> QED
      BY <2>1, <2>2, <2>3 DEF RowsOf
  <1> QED
    BY <1>1, <1>2, <1>3, <1>4, OnlyCommits

(* A worker stays where it is, selects the account, selects the statistics *)
(* or goes elsewhere.                                                      *)
LEMMA ReadersStep ==
    ASSUME TypeOK, [Next]_vars, NEW v \in Workers
    PROVE  \/ UNCHANGED <<pc[v], req[v], data[v]>>
           \/ SelectAccount(v) \/ SelectStats(v)
           \/ pc'[v] \notin {"select_stats", "setex_summary"}
  <1> USE DEF TypeOK, WorkersOK
  <1>1. ASSUME NEW w \in Workers, Read(w) \/ Pay(w) \/ Request(w) \/ Refuse(w), w # v
        PROVE  UNCHANGED <<pc[v], req[v], data[v]>>
    BY <1>1 DEF Read, Pay, Request, Refuse, Return, Goto, SelectBalance, SelectAccount,
         SelectStats, SelectId, SelectScore, SetexBalance, SetexSummary, SetexScore, Select,
         Setex, SelectForUpdate, SelectTo, UpdateFrom, UpdateTo, Commit, Delete,
         GetBalance, GetSummary, GetCreditScore, ReadCache, Transfer
  <1>2. ASSUME Pay(v) \/ Request(v) \/ Refuse(v)
        PROVE  pc'[v] \notin {"select_stats", "setex_summary"}
    BY <1>2 DEF Pay, Request, Refuse, Return, Goto, SelectForUpdate, SelectTo, UpdateFrom,
         UpdateTo, Commit, Delete, GetBalance, GetSummary, GetCreditScore, ReadCache, Transfer
  <1>3. ASSUME Read(v)
        PROVE  \/ SelectAccount(v) \/ SelectStats(v)
               \/ pc'[v] \notin {"select_stats", "setex_summary"}
    BY <1>3 DEF Read, Return, Goto, SelectBalance, SelectId, SelectScore, SetexBalance,
         SetexSummary, SetexScore, Select, Setex
  <1>4. CASE UNCHANGED <<pc, req, data>>
    BY <1>4
  <1> QED
    BY <1>1, <1>2, <1>3, <1>4 DEF Next, Served, DeadlockDetected, Fail, Expire, ClearCache, vars

(* What is under the key of a summary stays, goes, or was just selected.   *)
LEMMA CacheStep ==
    ASSUME TypeOK, [Next]_vars, NEW k \in Keys, k[1] = "summary"
    PROVE  \/ cache'[k] \in {cache[k], None}
           \/ \E w \in Workers : /\ pc[w] = "setex_summary" /\ k[2] = req[w]
                                 /\ cache'[k] = data[w]
  <1> USE DEF TypeOK, StoresOK
  <1>1. ASSUME NEW w \in Workers, Read(w)
        PROVE  \/ cache'[k] = cache[k]
               \/ pc[w] = "setex_summary" /\ k[2] = req[w] /\ cache'[k] = data[w]
    <2>1. ASSUME NEW kind \in {"balance", "credit_score"}, NEW value,
                 cache' = Stored(<<kind, req[w]>>, value)
          PROVE  cache'[k] = cache[k]
      <3>1. k # <<kind, req[w]>>
        OBVIOUS
      <3> QED
        BY <2>1, <3>1 DEF Stored
    <2>2. ASSUME cache' = Stored(<<"summary", req[w]>>, data[w])
          PROVE  \/ cache'[k] = cache[k]
                 \/ k[2] = req[w] /\ cache'[k] = data[w]
      <3>1. CASE k = <<"summary", req[w]>>
        <4>1. k[2] = req[w]
          BY <3>1
        <4>2. cache'[k] = data[w]
          BY <2>2, <3>1 DEF Stored
        <4> QED
          BY <4>1, <4>2
      <3>2. CASE k # <<"summary", req[w]>>
        BY <2>2, <3>2 DEF Stored
      <3> QED
        BY <3>1, <3>2
    <2>3. CASE UNCHANGED cache
      BY <2>3
    <2> QED
      BY <1>1, <2>1, <2>2, <2>3
      DEF Read, SelectBalance, SelectAccount, SelectStats, SelectId, SelectScore,
          SetexBalance, SetexSummary, SetexScore, Select, Setex
  <1>2. ASSUME NEW w \in Workers, Pay(w) \/ Request(w) \/ Refuse(w)
        PROVE  cache'[k] \in {cache[k], None}
    BY <1>2 DEF Pay, Request, Refuse, SelectForUpdate, SelectTo, UpdateFrom, UpdateTo, Commit,
         Delete, Deleted, GetBalance, GetSummary, GetCreditScore, ReadCache, Transfer
  <1>3. ASSUME ClearCache \/ \E j \in Keys : Expire(j)
        PROVE  cache'[k] \in {cache[k], None}
    BY <1>3 DEF ClearCache, Expire, Deleted
  <1> QED
    BY <1>1, <1>2, <1>3 DEF Next, Served, DeadlockDetected, Fail, vars

LEMMA CoherentNext ==
    ASSUME TypeOK, Safe, BooksBalance, Coherent, [Next]_vars
    PROVE  Coherent'
  <1>1. ASSUME NEW a, NEW n \in 0..Len(rows), NEW b, Was(a, n, b)
        PROVE  n \in 0..Len(rows') /\ b = Ledger(a, SubSeq(rows', 1, n))
    <2>1. /\ SubSeq(rows', 1, n) = SubSeq(rows, 1, n)
          /\ Len(rows) \in Nat /\ Len(rows') \in Nat /\ Len(rows) <= Len(rows')
      BY RowsStay
    <2>2. n \in 0..Len(rows')
      BY <2>1
    <2>3. b = Ledger(a, SubSeq(rows, 1, n))
      BY <1>1 DEF Was
    <2> QED
      BY <2>1, <2>2, <2>3, Zenon
  <1>2. ASSUME NEW v \in Workers, pc'[v] = "select_stats"
        PROVE  \E n \in 0..Len(rows') : Was(req[v], n, data[v].balance)'
    <2>1. CASE UNCHANGED <<pc[v], req[v], data[v]>>
      BY <1>1, <1>2, <2>1 DEF Coherent, ReadersCoherent, Was
    <2>2. CASE SelectAccount(v)
      <3>1. req[v] \in Accounts /\ rows \in Seq(Row)
        BY <2>2, ParametersTable DEF SelectAccount, Select, TypeOK, WorkersOK, StoresOK, ReadCalls
      <3>2. UNCHANGED <<rows, req>> /\ data'[v] = [balance |-> balance[req[v]]]
        BY <2>2 DEF SelectAccount, Select, TypeOK, WorkersOK
      <3>3. SubSeq(rows, 1, Len(rows)) = rows /\ Len(rows) \in 0..Len(rows)
        BY <3>1
      <3>4. balance[req[v]] = Ledger(req[v], rows)
        BY <3>1 DEF BooksBalance
      <3> DEFINE n == Len(rows)
      <3>5. n \in 0..Len(rows')
        BY <3>1, <3>2
      <3>6. data'[v].balance = balance[req[v]]
        BY <3>2
      <3>7. rows' = rows /\ req' = req /\ SubSeq(rows, 1, n) = rows
        BY <3>2, <3>3
      <3>8. data'[v].balance = Ledger(req'[v], SubSeq(rows', 1, n))
        BY <3>4, <3>6, <3>7, Zenon
      <3> QED
        BY <3>5, <3>8 DEF Was
    <2>3. ~SelectStats(v)
      BY <1>2 DEF SelectStats, Select, Goto, TypeOK, WorkersOK
    <2> QED
      BY <1>2, <2>1, <2>2, <2>3, ReadersStep
  <1>3. ASSUME NEW v \in Workers, pc'[v] = "setex_summary"
        PROVE  \E n \in 0..Len(rows') : /\ Was(req[v], n, data[v].balance)'
                                        /\ RowsOf(req[v])' \cap 1..n \subseteq data'[v].stats
    <2>1. CASE UNCHANGED <<pc[v], req[v], data[v]>>
      <3>1. PICK n \in 0..Len(rows) : /\ Was(req[v], n, data[v].balance)
                                      /\ RowsOf(req[v]) \cap 1..n \subseteq data[v].stats
        BY <1>3, <2>1 DEF Coherent, ReadersCoherent
      <3>2. n \in 0..Len(rows') /\ data[v].balance = Ledger(req[v], SubSeq(rows', 1, n))
        BY <1>1, <3>1
      <3>3. RowsOf(req[v])' \cap 1..n \subseteq data[v].stats
        <4>1. \A a : RowsOf(a)' \cap 1..n = RowsOf(a) \cap 1..n
          BY RowsStay
        <4> QED
          BY <2>1, <3>1, <4>1 DEF RowsOf
      <3> QED
        BY <2>1, <3>2, <3>3 DEF Was
    <2>2. CASE SelectStats(v)
      <3>1. /\ UNCHANGED <<rows, req>>
            /\ data'[v] = [balance |-> data[v].balance, stats |-> RowsOf(req[v])]
            /\ pc[v] = "select_stats"
        BY <2>2 DEF SelectStats, Select, TypeOK, WorkersOK
      <3>2. PICK n \in 0..Len(rows) : Was(req[v], n, data[v].balance)
        BY <3>1 DEF Coherent, ReadersCoherent
      <3> QED
        BY <3>1, <3>2 DEF Was, RowsOf
    <2>3. ~SelectAccount(v)
      BY <1>3 DEF SelectAccount, Select, Goto, TypeOK, WorkersOK
    <2> QED
      BY <1>3, <2>1, <2>2, <2>3, ReadersStep
  <1>4. ASSUME NEW k \in Keys, k[1] = "summary", cache'[k] # None
        PROVE  \E n \in 0..Len(rows') :
                  /\ cache'[k].balance = Ledger(k[2], SubSeq(rows', 1, n))
                  /\ RowsOf(k[2])' \cap 1..n \subseteq cache'[k].stats
    <2>1. PICK n \in 0..Len(rows) : /\ cache'[k].balance = Ledger(k[2], SubSeq(rows, 1, n))
                                    /\ RowsOf(k[2]) \cap 1..n \subseteq cache'[k].stats
      <3>1. CASE cache'[k] = cache[k]
        BY <1>4, <3>1 DEF Coherent, SummaryCoherent
      <3>2. ASSUME NEW w \in Workers, pc[w] = "setex_summary", k[2] = req[w],
                   cache'[k] = data[w]
            PROVE  \E n \in 0..Len(rows) :
                      /\ cache'[k].balance = Ledger(k[2], SubSeq(rows, 1, n))
                      /\ RowsOf(k[2]) \cap 1..n \subseteq cache'[k].stats
        BY <3>2 DEF Coherent, ReadersCoherent, Was
      <3> QED
        BY <1>4, <3>1, <3>2, CacheStep
    <2>2. /\ SubSeq(rows', 1, n) = SubSeq(rows, 1, n)
          /\ Len(rows) \in Nat /\ Len(rows') \in Nat /\ Len(rows) <= Len(rows')
          /\ \A a : RowsOf(a)' \cap 1..n = RowsOf(a) \cap 1..n
      BY RowsStay
    <2>3. n \in 0..Len(rows')
      BY <2>2
    <2>4. cache'[k].balance = Ledger(k[2], SubSeq(rows', 1, n))
      BY <2>1, <2>2, Zenon
    <2>5. RowsOf(k[2])' \cap 1..n \subseteq cache'[k].stats
      BY <2>1, <2>2
    <2> QED
      BY <2>3, <2>4, <2>5
  <1> QED
    BY <1>2, <1>3, <1>4 DEF Coherent, ReadersCoherent, SummaryCoherent

(* A cached summary never joins a balance with statistics of before it.    *)
THEOREM SummariesCohere == Spec => []SummaryCoherent
  <1>1. Init => TypeOK /\ Safe /\ BooksBalance /\ Coherent
    BY TypeInit, SafeInit, BooksInit, CoherentInit
  <1>2. TypeOK /\ Safe /\ BooksBalance /\ Coherent /\ [Next]_vars
        => (TypeOK /\ Safe /\ BooksBalance /\ Coherent)'
    BY TypeNext, SafeNext, BooksNext, CoherentNext
  <1>3. Coherent => SummaryCoherent
    BY DEF Coherent
  <1> QED
    BY <1>1, <1>2, <1>3, PTL DEF Spec

=============================================================================
