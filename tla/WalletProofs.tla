---------------------------- MODULE WalletProofs ----------------------------
(***************************************************************************)
(* Wallet for every set of accounts, transactions, keys and requests.      *)
(* The safety properties are not inductive: they hold because a            *)
(* transaction past FOR UPDATE owns its wallet row, so the balance it read *)
(* is still the committed one (Locked), and because a key inserted by an   *)
(* open transaction is neither committed nor inserted twice (Reserved).    *)
(***************************************************************************)
EXTENDS Wallet, TLAPS

Locked ==
    \A p \in Procs : pc[p] \in {"insert", "update", "commit"} =>
        /\ lock[req[p].user] = p
        /\ req[p].user \in Wallets
        /\ before[p] = balance[req[p].user]
        /\ before[p] + req[p].amount >= 0

Reserved ==
    \A p \in Procs : HasInserted(p) =>
        /\ ~Committed(req[p].key)
        /\ \A q \in Procs : HasInserted(q) /\ req[q].key = req[p].key => q = p

Snapshots == \A p \in Procs : \A u \in Users : snapshot[p][u] <= Len(ledger[u])

IInv == TypeOK /\ Locked /\ Reserved /\ Snapshots /\ Money /\ AnswersTrue

-----------------------------------------------------------------------------
\* The row a transaction commits has the type of a ledger row.
LEMMA LedgerRowType ==
    ASSUME NEW r \in Request, NEW b \in Int
    PROVE  LedgerRow(r, b) \in Row
BY DEF LedgerRow, Row, Request

LEMMA TypeInit == Init => TypeOK
<1>. SUFFICES ASSUME Init PROVE TypeOK
  OBVIOUS
<1>. (CHOOSE r \in Requests : TRUE) \in Requests
  BY WalletAssumption
<1>. QED
  BY WalletAssumption DEF Init, TypeOK, EmptySnapshot, Outcomes

LEMMA TypeStep == TypeOK /\ [Next]_vars => TypeOK'
<1>. SUFFICES ASSUME TypeOK, [Next]_vars PROVE TypeOK'
  OBVIOUS
<1>. USE WalletAssumption DEF TypeOK, Outcomes
<1>0. ASSUME NEW p \in Procs, NEW o \in Outcomes, End(p, o),
             ledger' \in [Users -> Seq(Row)], balance' \in [Users -> Int]
      PROVE  TypeOK'
  BY <1>0 DEF End, EmptySnapshot
<1>1. ASSUME NEW p \in Procs, NEW o \in Outcomes, Rollback(p, o)
      PROVE  TypeOK'
  BY <1>0, <1>1 DEF Rollback
<1>2. ASSUME NEW p \in Procs, NEW r \in Requests, Begin(p, r)
      PROVE  TypeOK'
  <2>1. [u \in Users |-> Len(ledger[u])] \in [Users -> Nat]
    OBVIOUS
  <2>. QED
    BY <1>2, <2>1 DEF Begin
<1>3. ASSUME NEW p \in Procs, Step(p) PROVE TypeOK'
  <2>1. CASE NoReplay(p)
    BY <2>1 DEF NoReplay
  <2>2. CASE AnswerReplay(p) \/ RefuseReuse(p) \/ NoWallet(p) \/ SerializationFailure(p)
             \/ RefuseInsolvent(p) \/ DuplicateKey(p)
    BY <2>2, <1>1 DEF AnswerReplay, RefuseReuse, NoWallet, SerializationFailure,
                      RefuseInsolvent, DuplicateKey
  <2>3. CASE LockWallet(p)
    BY <2>3 DEF LockWallet, CanLock, Request
  <2>4. CASE InsertRow(p)
    BY <2>4 DEF InsertRow
  <2>5. CASE UpdateBalance(p)
    BY <2>5, <1>1 DEF UpdateBalance
  <2>6. CASE Commit(p)
    <3>1. /\ req[p] \in Request /\ before[p] \in Int
          /\ req[p].amount \in Int /\ req[p].user \in Users
      BY DEF Request
    <3>2. LedgerRow(req[p], before[p]) \in Row
      BY <3>1, LedgerRowType
    <3>3. ledger' \in [Users -> Seq(Row)] /\ balance' \in [Users -> Int]
      BY <2>6, <3>1, <3>2 DEF Commit
    <3>. QED
      BY <2>6, <3>3, <1>0 DEF Commit
  <2>. QED
    BY <1>3, <2>1, <2>2, <2>3, <2>4, <2>5, <2>6 DEF Step
<1>4. ASSUME NEW p \in Procs, Abort(p) PROVE TypeOK'
  BY <1>1, <1>4 DEF Abort
<1>5. CASE UNCHANGED vars
  BY <1>5 DEF vars
<1>. QED
  BY <1>2, <1>3, <1>4, <1>5 DEF Next

\* Every variable keeps its type, for every size of the system.
THEOREM TypeCorrect == Spec => []TypeOK
BY TypeInit, TypeStep, PTL DEF Spec

-----------------------------------------------------------------------------
\* Every request is well formed and names an account.
LEMMA RequestType ==
    ASSUME TypeOK, NEW p \in Procs
    PROVE  /\ req[p] \in Request /\ req[p].user \in Users /\ req[p].key \in Keys
           /\ req[p].type \in Types /\ req[p].amount \in Int
           /\ req[p].writer \in {"api", "engine"}
BY WalletAssumption DEF TypeOK, Request

\* A step that leaves the ledger and the balances alone leaves Money alone.
LEMMA MoneyKept ==
    ASSUME Money, UNCHANGED <<ledger, balance>>
    PROVE  Money'
BY DEF Money, GapFreeChain, KeysMoveOnce, NeverNegative

\* Ending a transaction without a commit keeps the other transactions' hold on
\* their rows and keys; its answer need only be true of the committed ledger.
LEMMA RollbackKeeps ==
    ASSUME TypeOK, Locked, Reserved, Snapshots, NEW p \in Procs, NEW o, Rollback(p, o)
    PROVE  Locked' /\ Reserved' /\ Snapshots'
<1>. USE DEF TypeOK, Rollback, End
<1>1. Locked'
  BY RequestType DEF Locked
<1>2. Reserved'
  BY DEF Reserved, HasInserted, Committed
<1>3. Snapshots'
  BY DEF Snapshots, EmptySnapshot
<1>. QED
  BY <1>1, <1>2, <1>3

LEMMA RollbackAnswers ==
    ASSUME TypeOK, AnswersTrue, NEW p \in Procs, NEW o, Rollback(p, o),
           o # "applied",
           o = "replayed" => \E row \in Existing(p) :
                                req[p].writer = "engine" \/ ReplayMatches(row, req[p]),
           Snapshots
    PROVE  AnswersTrue'
<1>1. ASSUME NEW q \in Procs, q # p
      PROVE  outcome'[q] = outcome[q] /\ req'[q] = req[q]
  BY <1>1 DEF TypeOK, Rollback, End
<1>2. outcome'[p] = o /\ req'[p] = req[p]
  BY DEF TypeOK, Rollback, End
<1>3. ASSUME o = "replayed"
      PROVE  \E u \in Users : \E i \in 1 .. Len(ledger[u]) :
                 /\ ledger[u][i].key = req[p].key
                 /\ req[p].writer = "api" => ReplayMatches(ledger[u][i], req[p])
  <2>1. PICK row \in Existing(p) : req[p].writer = "engine" \/ ReplayMatches(row, req[p])
    BY <1>3
  <2>2. PICK u \in Users : \E i \in 1 .. Visible(p, u) : row = ledger[u][i]
    BY <2>1 DEF Existing
  <2>3. PICK i \in 1 .. Visible(p, u) : row = ledger[u][i]
    BY <2>2
  <2>4. Visible(p, u) <= Len(ledger[u]) /\ Visible(p, u) \in Nat /\ Len(ledger[u]) \in Nat
    BY DEF Visible, Snapshots, TypeOK
  <2>5. i \in 1 .. Len(ledger[u])
    BY <2>3, <2>4
  <2>6. row.key = req[p].key
    BY <2>1 DEF Existing
  <2>. QED
    BY <2>1, <2>3, <2>5, <2>6
<1>4. ledger' = ledger
  BY DEF Rollback
<1>. QED
  <2>. SUFFICES ASSUME NEW q \in Procs
       PROVE  AnswerTrue(q)'
    BY DEF AnswersTrue
  <2>1. CASE q = p
    BY <2>1, <1>2, <1>3, <1>4 DEF AnswerTrue, ReplayMatches
  <2>2. CASE q # p
    <3>1. outcome'[q] = outcome[q] /\ req'[q] = req[q]
      BY <1>1, <2>2
    <3>2. AnswerTrue(q)
      BY DEF AnswersTrue
    <3>. QED
      BY <3>1, <3>2, <1>4 DEF AnswerTrue, ReplayMatches
  <2>. QED
    BY <2>1, <2>2

\* The step that moves money: the row continues the chain because the balance
\* read under the lock is still committed, and its key is new.
LEMMA CommitMoney ==
    ASSUME TypeOK, Locked, Reserved, Money, NEW p \in Procs, Commit(p)
    PROVE  Money'
<1>. DEFINE u == req[p].user
            row == LedgerRow(req[p], before[p])
            n == Len(ledger[u])
<1>1. /\ u \in Users /\ req[p] \in Request /\ req[p].amount \in Int
      /\ before[p] \in Int /\ row \in Row /\ n \in Nat /\ ledger[u] \in Seq(Row)
  BY RequestType, LedgerRowType DEF TypeOK
<1>2. /\ before[p] = balance[u] /\ before[p] + req[p].amount >= 0
      /\ ~Committed(req[p].key)
  BY DEF Commit, Locked, Reserved, HasInserted
<1>3. /\ ledger'[u] = Append(ledger[u], row)
      /\ balance'[u] = before[p] + req[p].amount
      /\ \A v \in Users \ {u} : ledger'[v] = ledger[v] /\ balance'[v] = balance[v]
  BY <1>1 DEF Commit, TypeOK
<1>4. /\ Len(ledger'[u]) = n + 1
      /\ ledger'[u][n + 1] = row
      /\ \A i \in 1 .. n : ledger'[u][i] = ledger[u][i]
  BY <1>1, <1>3
<1>5. /\ row.key = req[p].key /\ row.amount = req[p].amount
      /\ row.before = before[p] /\ row.after = before[p] + req[p].amount
  BY DEF LedgerRow
<1>. HIDE DEF row, n, u
<1>6. GapFreeChain'
  <2>. SUFFICES ASSUME NEW v \in Users
       PROVE  /\ \A i \in 1 .. Len(ledger'[v]) :
                    /\ ledger'[v][i].before = IF i = 1 THEN 0 ELSE ledger'[v][i - 1].after
                    /\ ledger'[v][i].after = ledger'[v][i].before + ledger'[v][i].amount
              /\ balance'[v] = IF ledger'[v] = <<>> THEN 0
                               ELSE ledger'[v][Len(ledger'[v])].after
    BY DEF GapFreeChain
  <2>1. CASE v # u
    BY <2>1, <1>3 DEF Money, GapFreeChain
  <2>2. CASE v = u
    <3>1. ledger'[u] # <<>>
      BY <1>1, <1>4
    <3>2. ASSUME NEW i \in 1 .. n
          PROVE  /\ ledger'[u][i].before = IF i = 1 THEN 0 ELSE ledger'[u][i - 1].after
                 /\ ledger'[u][i].after = ledger'[u][i].before + ledger'[u][i].amount
      <4>1. /\ ledger[u][i].before = IF i = 1 THEN 0 ELSE ledger[u][i - 1].after
            /\ ledger[u][i].after = ledger[u][i].before + ledger[u][i].amount
        BY <1>1 DEF Money, GapFreeChain, n
      <4>2. i # 1 => i - 1 \in 1 .. n
        BY <1>1
      <4>. QED
        BY <4>1, <4>2, <1>4
    <3>3. /\ ledger'[u][n + 1].before = IF n + 1 = 1 THEN 0 ELSE ledger'[u][n + 1 - 1].after
          /\ ledger'[u][n + 1].after = ledger'[u][n + 1].before + ledger'[u][n + 1].amount
      <4>1. balance[u] = IF n = 0 THEN 0 ELSE ledger[u][n].after
        BY <1>1 DEF Money, GapFreeChain, n
      <4>2. n # 0 => ledger'[u][n + 1 - 1] = ledger[u][n]
        BY <1>1, <1>4
      <4>. QED
        BY <4>1, <4>2, <1>1, <1>2, <1>4, <1>5
    <3>. QED
      BY <2>2, <3>1, <3>2, <3>3, <1>1, <1>3, <1>4, <1>5
  <2>. QED
    BY <2>1, <2>2
<1>7. KeysMoveOnce'
  <2>. SUFFICES ASSUME NEW v \in Users, NEW w \in Users,
                       NEW i \in 1 .. Len(ledger'[v]), NEW j \in 1 .. Len(ledger'[w]),
                       ledger'[v][i].key = ledger'[w][j].key
       PROVE  v = w /\ i = j
    BY DEF KeysMoveOnce
  <2>1. ASSUME NEW x \in Users, NEW k \in 1 .. Len(ledger'[x])
        PROVE  \/ x = u /\ k = n + 1 /\ ledger'[x][k].key = req[p].key
               \/ k \in 1 .. Len(ledger[x]) /\ ledger'[x][k] = ledger[x][k]
    <3>1. CASE x = u
      <4>1. k \in 1 .. n + 1
        BY <3>1, <1>4
      <4>2. CASE k = n + 1
        BY <3>1, <4>2, <1>4, <1>5
      <4>3. CASE k # n + 1
        BY <3>1, <4>1, <4>3, <1>1, <1>4 DEF n
      <4>. QED
        BY <4>2, <4>3
    <3>2. CASE x # u
      BY <3>2, <1>3
    <3>. QED
      BY <3>1, <3>2
  <2>2. \A x \in Users : \A k \in 1 .. Len(ledger[x]) : ledger[x][k].key # req[p].key
    BY <1>2 DEF Committed
  <2>3. CASE i \in 1 .. Len(ledger[v]) /\ ledger'[v][i] = ledger[v][i]
    <3>1. ledger'[w][j].key # req[p].key
      BY <2>2, <2>3
    <3>2. j \in 1 .. Len(ledger[w]) /\ ledger'[w][j] = ledger[w][j]
      BY <2>1, <3>1
    <3>. QED
      BY <2>3, <3>2 DEF Money, KeysMoveOnce
  <2>4. CASE v = u /\ i = n + 1 /\ ledger'[v][i].key = req[p].key
    BY <2>1, <2>2, <2>4
  <2>. QED
    BY <2>1, <2>3, <2>4
<1>8. NeverNegative'
  <2>. SUFFICES ASSUME NEW v \in Users
       PROVE  /\ balance'[v] >= 0
              /\ \A i \in 1 .. Len(ledger'[v]) : ledger'[v][i].after >= 0
    BY DEF NeverNegative
  <2>1. balance[v] >= 0 /\ \A i \in 1 .. Len(ledger[v]) : ledger[v][i].after >= 0
    BY DEF Money, NeverNegative
  <2>2. CASE v # u
    BY <2>1, <2>2, <1>3
  <2>3. CASE v = u
    <3>1. ASSUME NEW i \in 1 .. n + 1 PROVE ledger'[u][i].after >= 0
      <4>1. CASE i = n + 1
        BY <4>1, <1>2, <1>4, <1>5
      <4>2. CASE i # n + 1
        BY <2>1, <2>3, <4>2, <1>1, <1>4 DEF n
      <4>. QED
        BY <4>1, <4>2
    <3>. QED
      BY <2>3, <3>1, <1>2, <1>3, <1>4
  <2>. QED
    BY <2>2, <2>3
<1>. QED
  BY <1>6, <1>7, <1>8 DEF Money

\* Committing keeps the other transactions' hold: nobody else has the row lock
\* of this wallet, and nobody else has inserted this key.
LEMMA CommitKeeps ==
    ASSUME TypeOK, Locked, Reserved, Snapshots, NEW p \in Procs, Commit(p)
    PROVE  Locked' /\ Reserved' /\ Snapshots'
<1>. DEFINE u == req[p].user
            row == LedgerRow(req[p], before[p])
<1>1. /\ u \in Users /\ ledger[u] \in Seq(Row) /\ row \in Row
      /\ lock[u] = p /\ req' = req /\ pc[p] = "commit" /\ HasInserted(p)
  BY RequestType, LedgerRowType DEF TypeOK, Commit, End, Locked, HasInserted
<1>2. /\ ledger'[u] = Append(ledger[u], row) /\ row.key = req[p].key
      /\ \A v \in Users \ {u} : ledger'[v] = ledger[v] /\ balance'[v] = balance[v]
  BY <1>1 DEF Commit, TypeOK, LedgerRow
<1>3. ASSUME NEW q \in Procs, q # p
      PROVE  /\ pc'[q] = pc[q] /\ before'[q] = before[q] /\ snapshot'[q] = snapshot[q]
             /\ \A v \in Users : lock[v] = q => lock'[v] = q
  BY <1>3 DEF Commit, End, TypeOK
<1>4. pc'[p] = "idle" /\ snapshot'[p] = EmptySnapshot
  BY DEF Commit, End, TypeOK
<1>. HIDE DEF u, row
<1>5. Locked'
  <2>. SUFFICES ASSUME NEW q \in Procs, pc'[q] \in {"insert", "update", "commit"}
       PROVE  /\ lock'[req[q].user] = q
              /\ req[q].user \in Wallets
              /\ before'[q] = balance'[req[q].user]
              /\ before'[q] + req[q].amount >= 0
    BY <1>1 DEF Locked
  <2>1. q # p
    BY <1>4
  <2>2. /\ lock[req[q].user] = q /\ req[q].user \in Wallets
        /\ before[q] = balance[req[q].user] /\ before[q] + req[q].amount >= 0
    BY <2>1, <1>3 DEF Locked
  <2>3. req[q].user \in Users \ {u}
    BY <2>1, <2>2, <1>1, RequestType
  <2>. QED
    BY <2>1, <2>2, <2>3, <1>2, <1>3
<1>6. Reserved'
  <2>. SUFFICES ASSUME NEW q \in Procs, pc'[q] \in {"update", "commit"}
       PROVE  /\ ~Committed(req[q].key)'
              /\ \A x \in Procs : pc'[x] \in {"update", "commit"} /\ req[x].key = req[q].key
                                      => x = q
    BY <1>1 DEF Reserved, HasInserted
  <2>1. q # p /\ HasInserted(q)
    BY <1>3, <1>4 DEF HasInserted
  <2>2. req[q].key # req[p].key /\ ~Committed(req[q].key)
    BY <2>1, <1>1 DEF Reserved
  <2>3. ~Committed(req[q].key)'
    <3>. SUFFICES ASSUME NEW v \in Users, NEW i \in 1 .. Len(ledger'[v])
         PROVE  ledger'[v][i].key # req[q].key
      BY <1>1 DEF Committed
    <3>1. CASE v # u
      BY <3>1, <2>2, <1>2 DEF Committed
    <3>2. CASE v = u
      <4>1. i = Len(ledger[u]) + 1 \/ (i \in 1 .. Len(ledger[u]) /\ ledger'[u][i] = ledger[u][i])
        BY <3>2, <1>1, <1>2
      <4>2. ledger'[u][Len(ledger[u]) + 1] = row
        BY <1>1, <1>2
      <4>. QED
        BY <3>2, <4>1, <4>2, <2>2, <1>1, <1>2 DEF Committed
    <3>. QED
      BY <3>1, <3>2
  <2>4. ASSUME NEW x \in Procs, pc'[x] \in {"update", "commit"}, req[x].key = req[q].key
        PROVE  x = q
    BY <2>1, <2>4, <1>3, <1>4 DEF Reserved, HasInserted
  <2>. QED
    BY <2>3, <2>4
<1>7. Snapshots'
  <2>. SUFFICES ASSUME NEW q \in Procs, NEW v \in Users
       PROVE  snapshot'[q][v] <= Len(ledger'[v])
    BY DEF Snapshots
  <2>1. Len(ledger'[v]) >= Len(ledger[v]) /\ Len(ledger[v]) \in Nat
    <3>1. ledger[v] \in Seq(Row)
      BY DEF TypeOK
    <3>2. CASE v = u
      BY <3>1, <3>2, <1>1, <1>2
    <3>3. CASE v # u
      BY <3>1, <3>3, <1>2
    <3>. QED
      BY <3>2, <3>3
  <2>2. snapshot'[q][v] \in Nat /\ snapshot'[q][v] <= Len(ledger[v])
    <3>1. CASE q = p
      BY <3>1, <1>4, <2>1 DEF EmptySnapshot
    <3>2. CASE q # p
      BY <3>2, <1>3 DEF Snapshots, TypeOK
    <3>. QED
      BY <3>1, <3>2
  <2>. QED
    BY <2>1, <2>2
<1>. QED
  BY <1>5, <1>6, <1>7

\* Answers stay true because rows stay in the ledger; the new one is true of the
\* row just committed.
LEMMA CommitAnswers ==
    ASSUME TypeOK, AnswersTrue, NEW p \in Procs, Commit(p)
    PROVE  AnswersTrue'
<1>. DEFINE u == req[p].user
            row == LedgerRow(req[p], before[p])
<1>1. u \in Users /\ row \in Row /\ req' = req
  BY RequestType, LedgerRowType DEF TypeOK, Commit, End
<1>2. /\ ledger'[u] = Append(ledger[u], row)
      /\ \A v \in Users \ {u} : ledger'[v] = ledger[v]
      /\ row.key = req[p].key /\ ReplayMatches(row, req[p])
  BY <1>1 DEF Commit, TypeOK, LedgerRow, ReplayMatches
<1>3. /\ outcome'[p] = "applied"
      /\ \A q \in Procs \ {p} : outcome'[q] = outcome[q]
  BY DEF Commit, End, TypeOK
<1>. HIDE DEF u, row
<1>4. ASSUME NEW v \in Users, NEW i \in 1 .. Len(ledger[v])
      PROVE  i \in 1 .. Len(ledger'[v]) /\ ledger'[v][i] = ledger[v][i]
  <2>1. ledger[v] \in Seq(Row)
    BY DEF TypeOK
  <2>2. CASE v = u
    BY <2>1, <2>2, <1>1, <1>2
  <2>3. CASE v # u
    BY <2>3, <1>2
  <2>. QED
    BY <2>2, <2>3
<1>5. ASSUME NEW q \in Procs PROVE AnswerTrue(q)'
  <2>1. CASE q = p
    <3>1. /\ Len(ledger[u]) + 1 \in 1 .. Len(ledger'[u])
          /\ ledger'[u][Len(ledger[u]) + 1] = row
      BY <1>1, <1>2 DEF TypeOK
    <3>. QED
      BY <2>1, <3>1, <1>1, <1>2, <1>3 DEF AnswerTrue, ReplayMatches, u
  <2>2. CASE q # p
    <3>1. outcome'[q] = outcome[q] /\ AnswerTrue(q) /\ req[q].user \in Users
      BY <2>2, <1>3, RequestType DEF AnswersTrue
    <3>2. outcome'[q] = "applied" =>
             \E i \in 1 .. Len(ledger'[req[q].user]) :
                 /\ ledger'[req[q].user][i].key = req[q].key
                 /\ ReplayMatches(ledger'[req[q].user][i], req[q])
      BY <3>1, <1>4 DEF AnswerTrue
    <3>3. outcome'[q] = "replayed" =>
             \E v \in Users : \E i \in 1 .. Len(ledger'[v]) :
                 /\ ledger'[v][i].key = req[q].key
                 /\ req[q].writer = "api" => ReplayMatches(ledger'[v][i], req[q])
      <4>. SUFFICES ASSUME outcome'[q] = "replayed"
           PROVE  \E v \in Users : \E i \in 1 .. Len(ledger'[v]) :
                      /\ ledger'[v][i].key = req[q].key
                      /\ req[q].writer = "api" => ReplayMatches(ledger'[v][i], req[q])
        OBVIOUS
      <4>1. PICK v \in Users : \E i \in 1 .. Len(ledger[v]) :
                /\ ledger[v][i].key = req[q].key
                /\ req[q].writer = "api" => ReplayMatches(ledger[v][i], req[q])
        BY <3>1 DEF AnswerTrue
      <4>2. PICK i \in 1 .. Len(ledger[v]) :
                /\ ledger[v][i].key = req[q].key
                /\ req[q].writer = "api" => ReplayMatches(ledger[v][i], req[q])
        BY <4>1
      <4>. QED
        BY <4>2, <1>4
    <3>. QED
      BY <3>2, <3>3, <1>1 DEF AnswerTrue, ReplayMatches
  <2>. QED
    BY <2>1, <2>2
<1>. QED
  BY <1>5 DEF AnswersTrue

-----------------------------------------------------------------------------
LEMMA InvariantHolds == Spec => []IInv
<1>1. Init => IInv
  <2>. SUFFICES ASSUME Init, TypeOK PROVE IInv
    BY TypeInit
  <2>1. Locked /\ Reserved /\ AnswersTrue
    BY DEF Init, Locked, Reserved, HasInserted, AnswersTrue, AnswerTrue
  <2>2. Snapshots
    <3>. SUFFICES ASSUME NEW p \in Procs, NEW u \in Users
         PROVE  snapshot[p][u] <= Len(ledger[u])
      BY DEF Snapshots
    <3>1. snapshot[p][u] = 0 /\ ledger[u] = <<>>
      BY DEF Init, EmptySnapshot
    <3>. QED
      BY <3>1
  <2>3. Money
    BY DEF Init, Money, GapFreeChain, KeysMoveOnce, NeverNegative
  <2>. QED
    BY <2>1, <2>2, <2>3 DEF IInv
<1>2. IInv /\ [Next]_vars => IInv'
  <2>. SUFFICES ASSUME IInv, [Next]_vars PROVE IInv'
    OBVIOUS
  <2>. USE DEF IInv
  <2>0. TypeOK'
    BY TypeStep
  <2>1. ASSUME NEW p \in Procs, NEW o, Rollback(p, o), o # "applied", o # "replayed"
        PROVE  IInv'
    <3>1. Money'
      BY <2>1, MoneyKept DEF Rollback
    <3>. QED
      BY <2>0, <2>1, <3>1, RollbackKeeps, RollbackAnswers
  <2>2. ASSUME NEW p \in Procs, AnswerReplay(p) PROVE IInv'
    <3>1. Rollback(p, "replayed")
      BY <2>2 DEF AnswerReplay
    <3>2. \E row \in Existing(p) : req[p].writer = "engine" \/ ReplayMatches(row, req[p])
      BY <2>2 DEF AnswerReplay
    <3>3. Money'
      BY <3>1, MoneyKept DEF Rollback
    <3>4. Locked' /\ Reserved' /\ Snapshots'
      BY <3>1, RollbackKeeps
    <3>5. AnswersTrue'
      BY <3>1, <3>2, RollbackAnswers
    <3>. QED
      BY <2>0, <3>3, <3>4, <3>5
  <2>3. ASSUME NEW p \in Procs, NEW r \in Requests, Begin(p, r) PROVE IInv'
    <3>1. Money'
      BY <2>3, MoneyKept DEF Begin
    <3>2. Locked'
      BY <2>3 DEF Begin, Locked, TypeOK
    <3>3. Reserved'
      BY <2>3 DEF Begin, Reserved, HasInserted, Committed, TypeOK
    <3>4. Snapshots'
      BY <2>3 DEF Begin, Snapshots, TypeOK
    <3>5. AnswersTrue'
      <4>1. ASSUME NEW q \in Procs PROVE AnswerTrue(q)'
        <5>1. CASE q = p
          BY <2>3, <5>1 DEF Begin, AnswerTrue, TypeOK
        <5>2. CASE q # p
          <6>1. /\ outcome'[q] = outcome[q] /\ req'[q] = req[q] /\ ledger' = ledger
                /\ AnswerTrue(q)
            BY <2>3, <5>2 DEF Begin, TypeOK, AnswersTrue
          <6>. QED
            BY <6>1 DEF AnswerTrue, ReplayMatches
        <5>. QED
          BY <5>1, <5>2
      <4>. QED
        BY <4>1 DEF AnswersTrue
    <3>. QED
      BY <2>0, <3>1, <3>2, <3>3, <3>4, <3>5
  <2>4. ASSUME UNCHANGED <<ledger, req, snapshot, outcome>>
        PROVE  Snapshots' /\ AnswersTrue'
    BY <2>4 DEF Snapshots, AnswersTrue, AnswerTrue, ReplayMatches
  <2>5. ASSUME NEW p \in Procs, NoReplay(p) PROVE IInv'
    <3>1. Locked' /\ Reserved'
      BY <2>5 DEF NoReplay, Locked, Reserved, HasInserted, Committed, TypeOK
    <3>. QED
      BY <2>0, <2>4, <2>5, <3>1, MoneyKept DEF NoReplay
  <2>6. ASSUME NEW p \in Procs, LockWallet(p) PROVE IInv'
    <3>1. Locked'
      <4>1. \A q \in Procs : pc[q] \in {"insert", "update", "commit"} =>
                 req[q].user # req[p].user /\ q # p
        BY <2>6, WalletAssumption DEF LockWallet, CanLock, Locked
      <4>2. /\ req[p].user \in Wallets /\ req[p].user \in Users
            /\ balance[req[p].user] + req[p].amount >= 0
        BY <2>6, RequestType DEF LockWallet, CanLock, Solvent
      <4>3. ASSUME NEW q \in Procs, pc'[q] \in {"insert", "update", "commit"}
            PROVE  /\ lock'[req'[q].user] = q
                   /\ req'[q].user \in Wallets
                   /\ before'[q] = balance'[req'[q].user]
                   /\ before'[q] + req'[q].amount >= 0
        <5>1. CASE q = p
          BY <2>6, <4>2, <5>1 DEF LockWallet, TypeOK
        <5>2. CASE q # p
          <6>1. pc'[q] = pc[q] /\ before'[q] = before[q] /\ req' = req /\ balance' = balance
            BY <2>6, <5>2 DEF LockWallet, TypeOK
          <6>2. lock'[req[q].user] = lock[req[q].user]
            BY <2>6, <4>1, <4>3, <6>1, RequestType DEF LockWallet, TypeOK
          <6>. QED
            BY <4>3, <6>1, <6>2 DEF Locked
        <5>. QED
          BY <5>1, <5>2
      <4>. QED
        BY <4>3 DEF Locked
    <3>2. Reserved'
      BY <2>6 DEF LockWallet, Reserved, HasInserted, Committed, TypeOK
    <3>. QED
      BY <2>0, <2>4, <2>6, <3>1, <3>2, MoneyKept DEF LockWallet
  <2>7. ASSUME NEW p \in Procs, InsertRow(p) PROVE IInv'
    <3>1. Locked'
      BY <2>7 DEF InsertRow, Locked, TypeOK
    <3>2. Reserved'
      BY <2>7 DEF InsertRow, CanInsert, Reserved, HasInserted, Committed, TypeOK
    <3>. QED
      BY <2>0, <2>4, <2>7, <3>1, <3>2, MoneyKept DEF InsertRow
  <2>8. ASSUME NEW p \in Procs, UpdateBalance(p) PROVE IInv'
    <3>1. CASE Rollback(p, "failed")
      BY <2>1, <3>1
    <3>2. CASE pc' = [pc EXCEPT ![p] = "commit"]
               /\ UNCHANGED <<ledger, balance, lock, req, before, snapshot, outcome, calls>>
      <4>1. Locked'
        BY <2>8, <3>2 DEF UpdateBalance, Locked, TypeOK
      <4>2. Reserved'
        BY <2>8, <3>2 DEF UpdateBalance, Reserved, HasInserted, Committed, TypeOK
      <4>. QED
        BY <2>0, <2>4, <3>2, <4>1, <4>2, MoneyKept
    <3>. QED
      BY <2>8, <3>1, <3>2 DEF UpdateBalance
  <2>9. ASSUME NEW p \in Procs, Commit(p) PROVE IInv'
    BY <2>0, <2>9, CommitMoney, CommitKeeps, CommitAnswers
  <2>10. ASSUME NEW p \in Procs,
                RefuseReuse(p) \/ NoWallet(p) \/ SerializationFailure(p)
                \/ RefuseInsolvent(p) \/ DuplicateKey(p) \/ Abort(p)
         PROVE  IInv'
    BY <2>1, <2>10 DEF RefuseReuse, NoWallet, SerializationFailure, RefuseInsolvent,
                       DuplicateKey, Abort
  <2>11. CASE UNCHANGED vars
    BY <2>0, <2>11, MoneyKept DEF vars, Locked, Reserved, HasInserted, Committed, Snapshots,
                              AnswersTrue, AnswerTrue, ReplayMatches
  <2>. QED
    BY <2>2, <2>3, <2>5, <2>6, <2>7, <2>8, <2>9, <2>10, <2>11 DEF Next, Step
<1>. QED
  BY <1>1, <1>2, PTL DEF Spec

\* The invariant Money of the run: whatever the processes do, the coins of the
\* ledger are in order. The three theorems that follow say its parts one by one.
THEOREM MoneyIsSafe == Spec => []Money
BY InvariantHolds, PTL DEF IInv

\* The chain of every wallet is gap free and ends in the cached balance.
THEOREM ChainIsGapFree == Spec => []GapFreeChain
BY InvariantHolds, PTL DEF IInv, Money

\* No idempotency key moves coins twice, however its callers interleave.
THEOREM KeysMoveCoinsOnce == Spec => []KeysMoveOnce
BY InvariantHolds, PTL DEF IInv, Money

\* No balance is ever negative.
THEOREM BalancesNeverNegative == Spec => []NeverNegative
BY InvariantHolds, PTL DEF IInv, Money

\* Every answer stays true of the ledger.
THEOREM AnswersStayTrue == Spec => []AnswersTrue
BY InvariantHolds, PTL DEF IInv

-----------------------------------------------------------------------------
\* No step changes or removes a committed row, and a balance moves with a row.
THEOREM LedgerAppendOnly == Spec => AppendOnly
<1>1. TypeOK /\ [Next]_vars => [AppendStep]_vars
  <2>. SUFFICES ASSUME TypeOK, Next PROVE AppendStep
    OBVIOUS
  <2>1. CASE UNCHANGED <<ledger, balance>>
    BY <2>1 DEF AppendStep, TypeOK
  <2>2. ASSUME NEW p \in Procs, Commit(p) PROVE AppendStep
    <3>. DEFINE u == req[p].user
                row == LedgerRow(req[p], before[p])
    <3>1. u \in Users /\ row \in Row /\ ledger[u] \in Seq(Row)
      BY RequestType, LedgerRowType DEF TypeOK
    <3>2. /\ ledger'[u] = Append(ledger[u], row)
          /\ \A v \in Users \ {u} : ledger'[v] = ledger[v] /\ balance'[v] = balance[v]
      BY <2>2, <3>1 DEF Commit, TypeOK
    <3>. HIDE DEF u, row
    <3>3. /\ Len(ledger'[u]) = Len(ledger[u]) + 1
          /\ \A i \in 1 .. Len(ledger[u]) : ledger'[u][i] = ledger[u][i]
      BY <3>1, <3>2
    <3>4. \A v \in Users : Len(ledger[v]) \in Nat
      BY DEF TypeOK
    <3>5. ASSUME NEW v \in Users
          PROVE  /\ Len(ledger'[v]) >= Len(ledger[v])
                 /\ \A i \in 1 .. Len(ledger[v]) : ledger'[v][i] = ledger[v][i]
                 /\ balance'[v] # balance[v] => Len(ledger'[v]) = Len(ledger[v]) + 1
      BY <3>1, <3>2, <3>3, <3>4
    <3>6. \A v \in Users : ledger'[v] # ledger[v] => v = u
      BY <3>2
    <3>. QED
      BY <3>5, <3>6 DEF AppendStep
  <2>. QED
    BY <2>1, <2>2 DEF Next, Step, Begin, Abort, Rollback, NoReplay, AnswerReplay, RefuseReuse,
       NoWallet, SerializationFailure, RefuseInsolvent, LockWallet, InsertRow, DuplicateKey,
       UpdateBalance
<1>. QED
  BY <1>1, TypeCorrect, PTL DEF Spec, AppendOnly

\* The rows an atomic ledger has under a key are the committed rows with it.
LEMMA CommittedRows ==
    ASSUME NEW k
    PROVE  Committed(k) <=> Atomic!RowsWith(k) # {}
BY DEF Committed, Atomic!RowsWith

\* What a transaction sees under its key is in the committed ledger.
LEMMA ExistingIsCommitted ==
    ASSUME TypeOK, Snapshots, NEW p \in Procs
    PROVE  Existing(p) \subseteq Atomic!RowsWith(req[p].key)
<1>. SUFFICES ASSUME NEW row \in Existing(p)
     PROVE  row \in Atomic!RowsWith(req[p].key)
  OBVIOUS
<1>1. row.key = req[p].key
  BY DEF Existing
<1>2. PICK u \in Users : \E i \in 1 .. Visible(p, u) : row = ledger[u][i]
  BY DEF Existing
<1>3. Visible(p, u) \in Nat /\ Visible(p, u) <= Len(ledger[u]) /\ Len(ledger[u]) \in Nat
  BY DEF Visible, TypeOK, Snapshots
<1>4. \E i \in 1 .. Len(ledger[u]) : row = ledger[u][i]
  BY <1>2, <1>3
<1>. QED
  BY <1>1, <1>4 DEF Atomic!RowsWith

\* Ending an open transaction is an answer of the atomic ledger.
LEMMA EndAnswers ==
    ASSUME TypeOK, NEW p \in Procs, NEW o, End(p, o), pc[p] # "idle"
    PROVE  Atomic!Answer(p, o)
BY DEF End, Atomic!Answer, TypeOK

\* Every interleaving of the statements looks to the callers like one of the
\* atomic ledger: a movement takes effect at its commit, or not at all.
THEOREM WalletIsAtomic == Spec => ImplementsAtomicLedger
<1>1. Init => Atomic!Init
  <2>1. (CHOOSE r \in Requests : TRUE) \in Requests
    BY WalletAssumption
  <2>. QED
    BY <2>1 DEF Init, Atomic!Init
<1>2. IInv /\ [Next]_vars => [Atomic!Next]_Atomic!vars
  <2>. SUFFICES ASSUME IInv, [Next]_vars
       PROVE  Atomic!Next \/ UNCHANGED Atomic!vars
    OBVIOUS
  <2>. USE DEF IInv
  <2>1. ASSUME NEW p \in Procs, NEW o \in {"replayed", "keyReuse", "insufficient", "noWallet",
                                           "uniqueViolation", "failed"},
               Atomic!Decline(p, o)
        PROVE  Atomic!Next
    BY <2>1 DEF Atomic!Next
  <2>2. ASSUME NEW p \in Procs, NEW r \in Requests, Begin(p, r) PROVE Atomic!Next
    <3>1. Atomic!Ask(p, r)
      BY <2>2 DEF Begin, Atomic!Ask, TypeOK
    <3>. QED
      BY <3>1 DEF Atomic!Next
  <2>3. ASSUME NEW p \in Procs, Commit(p) PROVE Atomic!Next
    <3>1. /\ before[p] = balance[req[p].user] /\ req[p].user \in Wallets
          /\ before[p] + req[p].amount >= 0
          /\ ~Committed(req[p].key)
      BY <2>3 DEF Commit, Locked, Reserved, HasInserted
    <3>2. Atomic!Answer(p, "applied")
      BY <2>3, EndAnswers DEF Commit
    <3>3. balance' = [balance EXCEPT ![req[p].user] = @ + req[p].amount]
      BY <2>3, <3>1 DEF Commit
    <3>4. Atomic!Move(p)
      BY <2>3, <3>1, <3>2, <3>3, CommittedRows DEF Commit, Atomic!Move, LedgerRow
    <3>. QED
      BY <3>4 DEF Atomic!Next
  <2>4. ASSUME NEW p \in Procs,
               NoReplay(p) \/ LockWallet(p) \/ InsertRow(p)
        PROVE  UNCHANGED Atomic!vars
    <3>1. /\ UNCHANGED <<ledger, balance, req, outcome>>
          /\ \E s \in {"lock", "insert", "update"} : pc' = [pc EXCEPT ![p] = s]
          /\ pc[p] # "idle"
      BY <2>4 DEF NoReplay, LockWallet, CanLock, InsertRow
    <3>2. \A q \in Procs : (pc'[q] # "idle") = (pc[q] # "idle")
      BY <3>1 DEF TypeOK
    <3>. QED
      BY <3>1, <3>2 DEF Atomic!vars
  <2>5. ASSUME NEW p \in Procs, AnswerReplay(p) PROVE Atomic!Next
    <3>1. Atomic!Answer(p, "replayed")
      BY <2>5, EndAnswers DEF AnswerReplay, Rollback
    <3>2. \E row \in Atomic!RowsWith(req[p].key) :
              req[p].writer = "engine" \/ Atomic!Same(req[p], row)
      BY <2>5, ExistingIsCommitted DEF AnswerReplay, ReplayMatches, Atomic!Same
    <3>3. Atomic!Decline(p, "replayed")
      BY <2>5, <3>1, <3>2 DEF AnswerReplay, Rollback, Atomic!Decline
    <3>. QED
      BY <2>1, <3>3
  <2>6. ASSUME NEW p \in Procs, RefuseReuse(p) PROVE Atomic!Next
    <3>1. Atomic!Answer(p, "keyReuse")
      BY <2>6, EndAnswers DEF RefuseReuse, Rollback
    <3>2. \E row \in Atomic!RowsWith(req[p].key) : ~Atomic!Same(req[p], row)
      BY <2>6, ExistingIsCommitted DEF RefuseReuse, ReplayMatches, Atomic!Same
    <3>3. Atomic!Decline(p, "keyReuse")
      BY <2>6, <3>1, <3>2 DEF RefuseReuse, Rollback, Atomic!Decline
    <3>. QED
      BY <2>1, <3>3
  <2>7. ASSUME NEW p \in Procs, NEW o \in {"noWallet", "failed", "insufficient",
                                           "uniqueViolation"},
               Rollback(p, o), pc[p] # "idle",
               o = "noWallet" => req[p].user \notin Wallets,
               o = "insufficient" => balance[req[p].user] + req[p].amount < 0,
               o = "uniqueViolation" => Committed(req[p].key)
        PROVE  Atomic!Next
    <3>1. Atomic!Answer(p, o)
      BY <2>7, EndAnswers DEF Rollback
    <3>2. Atomic!Decline(p, o)
      BY <2>7, <3>1, CommittedRows DEF Rollback, Atomic!Decline
    <3>. QED
      BY <2>1, <3>2
  <2>8. ASSUME NEW p \in Procs, RefuseInsolvent(p) PROVE Atomic!Next
    <3>1. balance[req[p].user] + req[p].amount < 0
      BY <2>8, RequestType DEF RefuseInsolvent, Solvent, TypeOK
    <3>. QED
      BY <2>7, <2>8, <3>1 DEF RefuseInsolvent, CanLock
  <2>9. ASSUME NEW p \in Procs,
               NoWallet(p) \/ SerializationFailure(p) \/ DuplicateKey(p) \/ Abort(p)
        PROVE  Atomic!Next
    BY <2>7, <2>9 DEF NoWallet, SerializationFailure, CanLock, DuplicateKey, Abort
  <2>10. ASSUME NEW p \in Procs, UpdateBalance(p)
         PROVE  Atomic!Next \/ UNCHANGED Atomic!vars
    <3>1. CASE Rollback(p, "failed")
      BY <2>7, <2>10, <3>1 DEF UpdateBalance
    <3>2. CASE pc' = [pc EXCEPT ![p] = "commit"]
               /\ UNCHANGED <<ledger, balance, lock, req, before, snapshot, outcome, calls>>
      BY <2>10, <3>2 DEF UpdateBalance, Atomic!vars, TypeOK
    <3>. QED
      BY <2>10, <3>1, <3>2 DEF UpdateBalance
  <2>11. CASE UNCHANGED vars
    BY <2>11 DEF vars, Atomic!vars
  <2>. QED
    BY <2>2, <2>3, <2>4, <2>5, <2>6, <2>8, <2>9, <2>10, <2>11 DEF Next, Step
<1>. QED
  BY <1>1, <1>2, InvariantHolds, PTL DEF Spec, Atomic!Spec, ImplementsAtomicLedger
=============================================================================
