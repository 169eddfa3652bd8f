-------------------------- MODULE SettlementProofs --------------------------
(***************************************************************************)
(* Settlement for every number of players, replicas, accounts and offers.  *)
(* A transaction that has locked a wallet holds the balance it will write  *)
(* (Drafts); a settlement whose snapshot nobody has touched reads the bets *)
(* as they are (Snapshots); so each commit is one step of BetBook.  A sum  *)
(* is the number of its units (Total): its laws are those of finite sets.  *)
(***************************************************************************)
EXTENDS Settlement, FiniteSetTheorems, FunctionTheorems, TLAPS

Programs ==
    /\ \A p \in Players : pc[p] \in {"idle", "insert", "debit", "commit"}
    /\ \A s \in Settlers : pc[s] \in {"idle", "draw", "settle", "lock", "pay"}

Finite == IsFiniteSet(DOMAIN bets) /\ IsFiniteSet(ledger)

\* Who holds which row: the round, a bet in flight, a wallet.
Owners ==
    /\ \A s \in Settlers : holder = s <=> pc[s] = "pay"
    /\ holder # None => \A p \in Players : ~HasInserted(p)
    /\ \A p \in Players : HasInserted(p) =>
          /\ Id(call[p]) \notin DOMAIN bets
          /\ \A q \in Players : HasInserted(q) /\ Id(call[q]) = Id(call[p]) => q = p
    /\ \A u \in Users, p \in Players : lock[u] = p => pc[p] = "commit" /\ call[p].user = u
    /\ \A u \in Users, s \in Settlers : lock[u] = s => pc[s] = "pay"

\* What settlement s has credited to u so far.
Dues       == [id \in DOMAIN bets |-> Due(id)]
Done(s, u) == {id \in plan[s] \ todo[s] : id[1] = u}

PlayerDrafts ==
    \A p \in Players : pc[p] = "commit" =>
        LET o == call[p] IN
        /\ lock[o.user] = p /\ balance[o.user] >= o.amount
        /\ draft[o.user] = balance[o.user] - o.amount

SettlerDrafts ==
    \A s \in Settlers, u \in Users : pc[s] = "pay" =>
        BalanceRead(s, u) = balance[u] + Total(Dues, Done(s, u))

Drafts == PlayerDrafts /\ SettlerDrafts

Snapshots ==
    \A s \in Settlers :
        /\ pc[s] \in {"settle", "lock", "pay"} => state # "BETTING"
        /\ pc[s] = "lock" => todo[s] = plan[s]
        /\ pc[s] = "pay" => state = "DRAWING" /\ "round" \notin moved[s]
        /\ InSnapshot(s) /\ "round" \notin moved[s] =>
              \A id \in plan[s] : bets[id].status = "PLACED"

Base == TypeOK /\ Programs /\ Finite /\ Owners

IInv == Base /\ Drafts /\ Snapshots /\ PaidExactly /\ CoinsBalance


-----------------------------------------------------------------------------
(* Sums.                                                                     *)

\* The units of a finite sum are finitely many.
Units(f, S) == UNION {{x} \X (1 .. f[x]) : x \in S}

\* A sum is the number of its units.
LEMMA TotalUnits == ASSUME NEW f, NEW S PROVE Total(f, S) = Cardinality(Units(f, S))
BY DEF Total, Units

\* The units of a finite sum are finitely many.
LEMMA UnitsFinite ==
    ASSUME NEW f, NEW S, IsFiniteSet(S), \A x \in S : f[x] \in Nat
    PROVE  IsFiniteSet(Units(f, S))
<1>. DEFINE g == [x \in S |-> {x} \X (1 .. f[x])]
            T == {{x} \X (1 .. f[x]) : x \in S}
<1>1. g \in Surjection(S, T)
  BY DEF Surjection
<1>2. IsFiniteSet(T)
  BY <1>1, FS_Surjection
<1>3. ASSUME NEW x \in S PROVE IsFiniteSet({x} \X (1 .. f[x]))
  <2>1. IsFiniteSet({x})
    BY FS_Singleton
  <2>2. IsFiniteSet(1 .. f[x])
    <3>1. f[x] \in Int
      OBVIOUS
    <3>. QED
      BY <3>1, FS_Interval
  <2>. QED
    BY <2>1, <2>2, FS_Product
<1>4. \A U \in T : IsFiniteSet(U)
  BY <1>3
<1>. QED
  BY <1>2, <1>4, FS_UNION DEF Units

\* A sum of naturals is a natural.
LEMMA TotalType ==
    ASSUME NEW f, NEW S, IsFiniteSet(S), \A x \in S : f[x] \in Nat
    PROVE  Total(f, S) \in Nat
BY UnitsFinite, TotalUnits, FS_CardinalityType

\* The empty sum is 0.
LEMMA TotalEmpty == ASSUME NEW f PROVE Total(f, {}) = 0
<1>1. Units(f, {}) = {}
  BY DEF Units
<1>. QED
  BY <1>1, TotalUnits, FS_EmptySet

\* The sum depends on the members of S that have something to add only.
LEMMA TotalSame ==
    ASSUME NEW f, NEW g, NEW S, NEW T, T \subseteq S,
           \A x \in T : f[x] = g[x], \A x \in S \ T : f[x] = 0
    PROVE  Total(f, S) = Total(g, T)
<1>1. Units(f, S) = Units(g, T)
  <2>1. ASSUME NEW x \in S \ T PROVE {x} \X (1 .. f[x]) = {}
    <3>1. f[x] = 0
      BY <2>1
    <3>2. 1 .. f[x] = {}
      BY <3>1
    <3>. QED
      BY <3>2
  <2>2. ASSUME NEW x \in T PROVE {x} \X (1 .. f[x]) = {x} \X (1 .. g[x])
    BY <2>2
  <2>. QED
    BY <2>1, <2>2 DEF Units
<1>. QED
  BY <1>1, TotalUnits

\* Sums over disjoint sets add up.
LEMMA TotalUnion ==
    ASSUME NEW f, NEW S, NEW T, IsFiniteSet(S), IsFiniteSet(T), S \cap T = {},
           \A x \in S \cup T : f[x] \in Nat
    PROVE  Total(f, S \cup T) = Total(f, S) + Total(f, T)
<1>1. Units(f, S \cup T) = Units(f, S) \cup Units(f, T)
  BY DEF Units
<1>2. Units(f, S) \cap Units(f, T) = {}
  <2>. SUFFICES ASSUME NEW c \in Units(f, S) \cap Units(f, T) PROVE FALSE
    OBVIOUS
  <2>1. c[1] \in S /\ c[1] \in T
    BY DEF Units
  <2>. QED
    BY <2>1
<1>3. IsFiniteSet(Units(f, S)) /\ IsFiniteSet(Units(f, T))
  BY UnitsFinite
<1>4. Cardinality(Units(f, S) \cup Units(f, T))
        = Cardinality(Units(f, S)) + Cardinality(Units(f, T)) - Cardinality({})
  BY <1>2, <1>3, FS_Union
<1>5. Cardinality(Units(f, S)) \in Nat /\ Cardinality(Units(f, T)) \in Nat
  BY <1>3, FS_CardinalityType
<1>6. Total(f, S) = Cardinality(Units(f, S)) /\ Total(f, T) = Cardinality(Units(f, T))
      /\ Total(f, S \cup T) = Cardinality(Units(f, S \cup T))
  BY TotalUnits
<1>7. Cardinality({}) = 0
  BY FS_EmptySet
<1>8. Total(f, S \cup T) = Cardinality(Units(f, S) \cup Units(f, T))
  BY <1>1, <1>6, Zenon
<1>. QED
  BY <1>4, <1>5, <1>6, <1>7, <1>8

\* The sum over one member is what it has.
LEMMA TotalSingle ==
    ASSUME NEW f, NEW x, f[x] \in Nat
    PROVE  Total(f, {x}) = f[x]
<1>1. Units(f, {x}) = {x} \X (1 .. f[x])
  BY DEF Units
<1>2. IsFiniteSet({x}) /\ Cardinality({x}) = 1
  BY FS_Singleton
<1>3. IsFiniteSet(1 .. f[x]) /\ Cardinality(1 .. f[x]) = f[x]
  BY FS_Interval
<1>4. Cardinality({x} \X (1 .. f[x])) = 1 * f[x]
  BY <1>2, <1>3, FS_Product
<1>5. Total(f, {x}) = Cardinality({x} \X (1 .. f[x]))
  BY <1>1, TotalUnits, Zenon
<1>. QED
  BY <1>4, <1>5

\* One more member adds what it has.
LEMMA TotalAdd ==
    ASSUME NEW f, NEW S, NEW x, IsFiniteSet(S), x \notin S,
           \A y \in S \cup {x} : f[y] \in Nat
    PROVE  Total(f, S \cup {x}) = Total(f, S) + f[x]
<1>1. IsFiniteSet({x}) /\ S \cap {x} = {} /\ f[x] \in Nat
  BY FS_Singleton
<1>2. Total(f, S \cup {x}) = Total(f, S) + Total(f, {x})
  BY <1>1, TotalUnion
<1>. QED
  BY <1>1, <1>2, TotalSingle

\* Sums over sets that correspond one to one are equal.
LEMMA TotalMap ==
    ASSUME NEW f, NEW g, NEW S, NEW T, NEW h \in Bijection(S, T),
           IsFiniteSet(S), \A x \in S : f[x] \in Nat /\ g[h[x]] = f[x]
    PROVE  Total(f, S) = Total(g, T)
<1>. DEFINE c == [u \in Units(f, S) |-> <<h[u[1]], u[2]>>]
<1>1. /\ h \in [S -> T]
      /\ \A x, y \in S : h[x] = h[y] => x = y
      /\ \A t \in T : \E x \in S : h[x] = t
  BY DEF Bijection, Injection, Surjection, IsInjective
<1>2. ASSUME NEW u \in Units(f, S)
      PROVE  u[1] \in S /\ u[2] \in 1 .. f[u[1]] /\ u = <<u[1], u[2]>>
  BY DEF Units
<1>3. c \in [Units(f, S) -> Units(g, T)]
  <2>. SUFFICES ASSUME NEW u \in Units(f, S) PROVE <<h[u[1]], u[2]>> \in Units(g, T)
    OBVIOUS
  <2>1. h[u[1]] \in T /\ u[2] \in 1 .. g[h[u[1]]]
    BY <1>1, <1>2
  <2>. QED
    BY <2>1 DEF Units
<1>4. ASSUME NEW u \in Units(f, S), NEW v \in Units(f, S), c[u] = c[v] PROVE u = v
  <2>1. h[u[1]] = h[v[1]] /\ u[2] = v[2]
    BY <1>4
  <2>2. u[1] = v[1]
    BY <1>1, <1>2, <2>1
  <2>. QED
    BY <1>2, <2>1, <2>2
<1>5. ASSUME NEW w \in Units(g, T) PROVE \E u \in Units(f, S) : c[u] = w
  <2>1. w[1] \in T /\ w[2] \in 1 .. g[w[1]] /\ w = <<w[1], w[2]>>
    BY DEF Units
  <2>2. PICK x \in S : h[x] = w[1]
    BY <1>1, <2>1
  <2>3. <<x, w[2]>> \in Units(f, S)
    BY <2>1, <2>2 DEF Units
  <2>. QED
    BY <2>1, <2>2, <2>3
<1>6. c \in Bijection(Units(f, S), Units(g, T))
  BY <1>3, <1>4, <1>5 DEF Bijection, Injection, Surjection, IsInjective
<1>7. ExistsBijection(Units(f, S), Units(g, T))
  BY <1>6 DEF ExistsBijection
<1>. QED
  BY <1>7, UnitsFinite, FS_Bijection, TotalUnits

-----------------------------------------------------------------------------
(* The wallet rows and the programs. *)

\* A payout is a natural number: half an odd stake is rounded down.
LEMMA PayoutType ==
    ASSUME NEW side \in Sides, NEW amount \in Nat, NEW outcome \in Sides
    PROVE  Payout(side, amount, outcome) \in Nat
<1>1. Verdict(side, outcome) \in {"WON", "REFUNDED", "LOST"}
  BY DEF Verdict
<1>2. Multiplier(outcome) \in {1, 8}
  BY DEF Multiplier
<1>3. amount + amount * Multiplier(outcome) \in Nat
  <2>1. CASE Multiplier(outcome) = 1
    BY <2>1
  <2>2. CASE Multiplier(outcome) = 8
    BY <2>2
  <2>. QED
    BY <1>2, <2>1, <2>2
<1>4. (amount * 50) \div 100 \in Nat
  OBVIOUS
<1>. QED
  BY <1>1, <1>3, <1>4 DEF Payout

\* What a bet is due is a natural number, of type WIN or REFUND.
LEMMA DueType ==
    ASSUME TypeOK, NEW id \in DOMAIN bets
    PROVE  Due(id) \in Nat /\ Dues[id] = Due(id) /\ Kind(id) \in {"WIN", "REFUND"}
<1>1. bets[id].side \in Sides /\ bets[id].amount \in Nat
  BY DEF TypeOK, BetRow
<1>2. draw \in Sides
  BY DEF TypeOK
<1>. QED
  BY <1>1, <1>2, PayoutType DEF Due, Dues, Kind

\* The call of a player makes a bet row.
LEMMA RowType ==
    ASSUME TypeOK, NEW p \in Players
    PROVE  /\ call[p].user \in Users /\ call[p].key \in Keys
           /\ [side |-> call[p].side, amount |-> call[p].amount,
               status |-> "PLACED", payout |-> 0] \in BetRow
           /\ call[p].amount \in Nat \ {0} /\ Id(call[p]) \in Ids
<1>1. call[p] \in Offer
  BY SettlementAssumption DEF TypeOK
<1>. QED
  BY <1>1 DEF Offer, BetRow, Statuses, Id, Ids

\* The commit of a bet keeps the types: the new entry names the new bet.
LEMMA CommitBetType ==
    ASSUME Base, NEW p \in Players, CommitBet(p) PROVE TypeOK'
<1>. DEFINE o == call[p]
<1>1. DOMAIN bets' = DOMAIN bets \cup {Id(o)}
  BY DEF CommitBet
<1>2. bets' \in [DOMAIN bets' -> BetRow] /\ DOMAIN bets' \subseteq Ids
  BY <1>1, RowType DEF CommitBet, Base, TypeOK
<1>3. \A e \in ledger' : /\ e.bet \in DOMAIN bets' /\ e.amount \in Int
                         /\ e.type \in {"BET", "WIN", "REFUND"}
  <2>1. Entry(Id(o), "BET", -o.amount).bet \in DOMAIN bets'
        /\ Entry(Id(o), "BET", -o.amount).amount \in Int
        /\ Entry(Id(o), "BET", -o.amount).type = "BET"
    <3>1. o.amount \in Nat
      BY RowType DEF Base
    <3>2. -o.amount \in Int
      BY <3>1
    <3>3. Id(o) \in DOMAIN bets'
      BY <1>1
    <3>. QED
      BY <3>2, <3>3 DEF Entry
  <2>. QED
    BY <1>1, <2>1 DEF CommitBet, Base, TypeOK
<1>4. balance' \in [Users -> Nat] /\ draft' \in [Users -> Nat] /\ lock' \in [Users -> Procs \cup {None}]
  BY RowType DEF CommitBet, Unlock, Base, TypeOK
<1>5. moved' \in [Settlers -> SUBSET (Users \cup {"round"})]
  BY RowType DEF CommitBet, Touch, Base, TypeOK
<1>6. /\ todo' \in [Settlers -> SUBSET DOMAIN bets'] /\ plan' \in [Settlers -> SUBSET DOMAIN bets']
      /\ \A s \in Settlers : todo'[s] \subseteq plan'[s]
  BY <1>1 DEF CommitBet, Base, TypeOK
<1>7. pc' \in [Procs -> {"idle", "insert", "debit", "commit", "draw", "settle", "lock", "pay"}]
  BY DEF CommitBet, Go, Base, TypeOK
<1>. QED
  BY <1>1, <1>2, <1>3, <1>4, <1>5, <1>6, <1>7 DEF CommitBet, Base, TypeOK

\* A settlement reads a natural balance, its own draft or the committed one.
LEMMA BalanceReadType ==
    ASSUME TypeOK, NEW s \in Settlers, NEW u \in Users PROVE BalanceRead(s, u) \in Nat
BY DEF BalanceRead, TypeOK

\* A credit keeps the types.
LEMMA CreditType ==
    ASSUME Base, NEW s \in Settlers, NEW id \in todo[s], Credit(s, id) PROVE TypeOK'
<1>1. id \in DOMAIN bets /\ id[1] \in Users
  BY DEF Base, TypeOK, Ids
<1>2. BalanceRead(s, id[1]) + Due(id) \in Nat
  BY <1>1, DueType, BalanceReadType DEF Base
<1>3. draft' \in [Users -> Nat] /\ lock' \in [Users -> Procs \cup {None}]
  BY <1>1, <1>2 DEF Credit, Base, TypeOK, Procs
<1>. QED
  BY <1>3 DEF Credit, Base, TypeOK, money

\* A settled row is a bet row whose status and payout follow from the draw.
LEMMA ResultType ==
    ASSUME TypeOK, NEW id \in DOMAIN bets
    PROVE  Result(id) \in BetRow /\ Result(id).side = bets[id].side
           /\ Result(id).amount = bets[id].amount
           /\ Result(id).status = Verdict(bets[id].side, draw)
           /\ Result(id).payout = Due(id) /\ Result(id).status # "PLACED"
<1>1. bets[id] \in BetRow
  BY DEF TypeOK
<1>2. Verdict(bets[id].side, draw) \in {"WON", "REFUNDED", "LOST"}
  BY DEF Verdict
<1>. QED
  BY <1>1, <1>2, DueType DEF Result, BetRow, Statuses

\* The commit of a settlement keeps the types.
LEMMA CommitSettlementType ==
    ASSUME Base, NEW s \in Settlers, CommitSettlement(s) PROVE TypeOK'
<1>1. DOMAIN bets' = DOMAIN bets /\ bets' \in [DOMAIN bets -> BetRow]
  BY ResultType DEF CommitSettlement, Results, Base, TypeOK
<1>2. \A e \in ledger' : /\ e.bet \in DOMAIN bets' /\ e.amount \in Int
                         /\ e.type \in {"BET", "WIN", "REFUND"}
  <2>1. ASSUME NEW id \in Credited(s)
        PROVE  Entry(id, Kind(id), Due(id)).bet \in DOMAIN bets'
               /\ Entry(id, Kind(id), Due(id)).amount \in Int
               /\ Entry(id, Kind(id), Due(id)).type \in {"BET", "WIN", "REFUND"}
    <3>1. id \in DOMAIN bets
      BY DEF Credited, Base, TypeOK
    <3>. QED
      BY <1>1, <3>1, DueType DEF Entry, Base
  <2>. QED
    BY <1>1, <2>1 DEF CommitSettlement, Base, TypeOK
<1>3. balance' \in [Users -> Nat] /\ draft' \in [Users -> Nat] /\ lock' \in [Users -> Procs \cup {None}]
  BY DEF CommitSettlement, EndSettlement, Unlock, Base, TypeOK
<1>4. moved' \in [Settlers -> SUBSET (Users \cup {"round"})]
  BY DEF CommitSettlement, Touch, Base, TypeOK
<1>5. /\ todo' \in [Settlers -> SUBSET DOMAIN bets'] /\ plan' \in [Settlers -> SUBSET DOMAIN bets']
      /\ \A q \in Settlers : todo'[q] \subseteq plan'[q]
  BY <1>1 DEF CommitSettlement, EndSettlement, Base, TypeOK
<1>6. /\ pc' \in [Procs -> {"idle", "insert", "debit", "commit", "draw", "settle", "lock", "pay"}]
      /\ holder' \in Settlers \cup {None}
  BY DEF CommitSettlement, EndSettlement, Go, Base, TypeOK
<1>. QED
  BY <1>1, <1>2, <1>3, <1>4, <1>5, <1>6 DEF CommitSettlement, EndSettlement, Base, TypeOK

\* A transaction that dies keeps the types.
LEMMA DieType == ASSUME Base, NEW x \in Procs, Die(x) PROVE TypeOK'
<1>1. CASE x \in Settlers
  BY <1>1, SettlementAssumption DEF Die, Base, TypeOK, Procs, Go, Unlock,
     EndSettlement, Rollback, money
<1>2. CASE x \notin Settlers
  BY <1>2, SettlementAssumption DEF Die, Base, TypeOK, Procs, Go, Unlock, money, work
<1>. QED
  BY <1>1, <1>2


\* Every step keeps the types.
LEMMA TypeStep == ASSUME Base, [Next]_vars PROVE TypeOK'
<1>1. ASSUME NEW p \in Players, NEW o \in Offers, ReadRound(p, o) PROVE TypeOK'
  BY <1>1, SettlementAssumption DEF ReadRound, Base, TypeOK,
     Procs, Go, Id, money, locks, work
<1>2. ASSUME NEW p \in Players, InsertBet(p) PROVE TypeOK'
  BY <1>2, SettlementAssumption DEF InsertBet, Base, TypeOK,
     Procs, Go, Id, CanInsert, money, locks, work
<1>3. ASSUME NEW p \in Players, BetAlreadyPlaced(p) PROVE TypeOK'
  BY <1>3, SettlementAssumption DEF BetAlreadyPlaced, Base, TypeOK,
     Procs, Go, Id, CanInsert, money, locks, work
<1>4. ASSUME NEW p \in Players, Debit(p) PROVE TypeOK'
  <2>1. call[p].user \in Users /\ balance[call[p].user] - call[p].amount \in Nat
    <3>1. call[p].user \in Users /\ call[p].amount \in Nat
      BY RowType DEF Base
    <3>2. balance[call[p].user] \in Nat /\ balance[call[p].user] >= call[p].amount
      BY <1>4, <3>1 DEF Debit, Solvent, Base, TypeOK
    <3>. QED
      BY <3>1, <3>2
  <2>2. draft' \in [Users -> Nat] /\ lock' \in [Users -> Procs \cup {None}]
    BY <1>4, <2>1 DEF Debit, Base, TypeOK, Procs
  <2>. QED
    BY <1>4, <2>2 DEF Debit, Base, TypeOK, Procs, Go, money, work
<1>5. ASSUME NEW p \in Players, Insolvent(p) PROVE TypeOK'
  BY <1>5, SettlementAssumption DEF Insolvent, Base, TypeOK,
     Procs, Go, Id, money, locks, work, Solvent
<1>6. ASSUME NEW p \in Players, CommitBet(p) PROVE TypeOK'
  BY <1>6, CommitBetType
<1>7. ASSUME NEW s \in Settlers, ReadDue(s) PROVE TypeOK'
  BY <1>7, SettlementAssumption DEF ReadDue, Base, TypeOK,
     Procs, Go, Id, money, locks, work
<1>8. ASSUME NEW s \in Settlers, BeginDrawing(s) PROVE TypeOK'
  BY <1>8, SettlementAssumption DEF BeginDrawing, Base, TypeOK,
     InSnapshot, Procs, Go, Id, money, locks, Touch
<1>9. ASSUME NEW s \in Settlers, Snapshot(s) PROVE TypeOK'
  BY <1>9, SettlementAssumption DEF Snapshot, Base, TypeOK,
     Procs, Go, Id, money, locks
<1>10. ASSUME NEW s \in Settlers, NothingToSettle(s) PROVE TypeOK'
  BY <1>10, SettlementAssumption DEF NothingToSettle, Base, TypeOK,
     Procs, Go, Id, Unlock, EndSettlement, Rollback, CanLockRound, money
<1>11. ASSUME NEW s \in Settlers, LockRound(s) PROVE TypeOK'
  BY <1>11, SettlementAssumption DEF LockRound, Base, TypeOK,
     Procs, Go, Id, CanLockRound, money, locks, work
<1>12. ASSUME NEW s \in Settlers, NEW id \in todo[s], Pass(s, id) PROVE TypeOK'
  BY <1>12, SettlementAssumption DEF Pass, Base, TypeOK,
     Procs, Id, money, locks
<1>13. ASSUME NEW s \in Settlers, NEW id \in todo[s], Credit(s, id) PROVE TypeOK'
  BY <1>13, CreditType
<1>14. ASSUME NEW s \in Settlers, NEW id \in todo[s], CreditFails(s, id) PROVE TypeOK'
  BY <1>14, SettlementAssumption DEF CreditFails, Base, TypeOK,
     Procs, Go, Id, Unlock, EndSettlement, Rollback, money
<1>15. ASSUME NEW s \in Settlers, CommitSettlement(s) PROVE TypeOK'
  BY <1>15, CommitSettlementType
<1>16. ASSUME NEW x \in Procs, Die(x) PROVE TypeOK'
  BY <1>16, DieType
<1>17. CASE UNCHANGED vars
  BY <1>17 DEF vars, Base, TypeOK, Programs, Owners, HasInserted, Procs, Id, money,
     locks, work
<1>. QED
  BY <1>1, <1>2, <1>3, <1>4, <1>5, <1>6, <1>7, <1>8, <1>9, <1>10, <1>11, <1>12, <1>13,
     <1>14, <1>15, <1>16, <1>17 DEF Next, PlayerStep, SettlerStep

\* A transaction that dies gives up all it holds and nothing else.
LEMMA DieOwners == ASSUME Base, NEW x \in Procs, Die(x) PROVE Programs' /\ Owners'
<1>1. CASE x \in Settlers
  BY <1>1, SettlementAssumption DEF Die, Base, TypeOK, Programs, Owners, HasInserted,
     Procs, Go, Id, Unlock, EndSettlement, Rollback, money
<1>2. CASE x \in Players
  BY <1>2, SettlementAssumption DEF Die, Base, TypeOK, Programs, Owners, HasInserted,
     Procs, Go, Id, Unlock, money, work
<1>. QED
  BY <1>1, <1>2 DEF Procs

\* Every step keeps who runs what and who holds which row.
LEMMA ProgramsStep == ASSUME Base, [Next]_vars PROVE Programs' /\ Owners'
<1>1. ASSUME NEW p \in Players, NEW o \in Offers, ReadRound(p, o) PROVE Programs' /\ Owners'
  BY <1>1, SettlementAssumption DEF ReadRound, Base, TypeOK, Programs, Owners,
     HasInserted, Procs, Go, Id, money, locks, work
<1>2. ASSUME NEW p \in Players, InsertBet(p) PROVE Programs' /\ Owners'
  BY <1>2, SettlementAssumption DEF InsertBet, Base, TypeOK, Programs, Owners,
     HasInserted, Procs, Go, Id, CanInsert, money, locks, work
<1>3. ASSUME NEW p \in Players, BetAlreadyPlaced(p) PROVE Programs' /\ Owners'
  BY <1>3, SettlementAssumption DEF BetAlreadyPlaced, Base, TypeOK, Programs, Owners,
     HasInserted, Procs, Go, Id, CanInsert, money, locks, work
<1>4. ASSUME NEW p \in Players, Debit(p) PROVE Programs' /\ Owners'
  BY <1>4, SettlementAssumption DEF Debit, Base, TypeOK, Programs, Owners,
     HasInserted, Procs, Go, Id, money, work
<1>5. ASSUME NEW p \in Players, Insolvent(p) PROVE Programs' /\ Owners'
  BY <1>5, SettlementAssumption DEF Insolvent, Base, TypeOK, Programs, Owners,
     HasInserted, Procs, Go, Id, money, locks, work
<1>6. ASSUME NEW p \in Players, CommitBet(p) PROVE Programs' /\ Owners'
  BY <1>6, SettlementAssumption DEF CommitBet, Base, TypeOK, Programs, Owners,
     HasInserted, Procs, Go, Id, Unlock
<1>7. ASSUME NEW s \in Settlers, ReadDue(s) PROVE Programs' /\ Owners'
  BY <1>7, SettlementAssumption DEF ReadDue, Base, TypeOK, Programs, Owners,
     HasInserted, Procs, Go, Id, money, locks, work
<1>8. ASSUME NEW s \in Settlers, BeginDrawing(s) PROVE Programs' /\ Owners'
  BY <1>8, SettlementAssumption DEF BeginDrawing, Base, TypeOK, Programs, Owners,
     HasInserted, Procs, Go, Id, money, locks
<1>9. ASSUME NEW s \in Settlers, Snapshot(s) PROVE Programs' /\ Owners'
  BY <1>9, SettlementAssumption DEF Snapshot, Base, TypeOK, Programs, Owners,
     HasInserted, Procs, Go, Id, money, locks
<1>10. ASSUME NEW s \in Settlers, NothingToSettle(s) PROVE Programs' /\ Owners'
  BY <1>10, SettlementAssumption DEF NothingToSettle, Base, TypeOK, Programs, Owners,
     HasInserted, Procs, Go, Id, Unlock, EndSettlement, Rollback, CanLockRound, money
<1>11. ASSUME NEW s \in Settlers, LockRound(s) PROVE Programs' /\ Owners'
  BY <1>11, SettlementAssumption DEF LockRound, Base, TypeOK, Programs, Owners,
     HasInserted, Procs, Go, Id, CanLockRound, money, locks, work
<1>12. ASSUME NEW s \in Settlers, NEW id \in todo[s], Pass(s, id) PROVE Programs' /\ Owners'
  BY <1>12, SettlementAssumption DEF Pass, Base, TypeOK, Programs, Owners,
     HasInserted, Procs, Id, money, locks
<1>13. ASSUME NEW s \in Settlers, NEW id \in todo[s], Credit(s, id) PROVE Programs' /\ Owners'
  BY <1>13, SettlementAssumption DEF Credit, Base, TypeOK, Programs, Owners,
     HasInserted, Procs, Id, money
<1>14. ASSUME NEW s \in Settlers, NEW id \in todo[s], CreditFails(s, id) PROVE Programs' /\ Owners'
  BY <1>14, SettlementAssumption DEF CreditFails, Base, TypeOK, Programs, Owners,
     HasInserted, Procs, Go, Id, Unlock, EndSettlement, Rollback, money
<1>15. ASSUME NEW s \in Settlers, CommitSettlement(s) PROVE Programs' /\ Owners'
  BY <1>15, SettlementAssumption DEF CommitSettlement, Base, TypeOK, Programs, Owners,
     HasInserted, Procs, Go, Id, Unlock, EndSettlement
<1>16. ASSUME NEW x \in Procs, Die(x) PROVE Programs' /\ Owners'
  BY <1>16, DieOwners
<1>17. CASE UNCHANGED vars
  BY <1>17 DEF vars, Base, TypeOK, Programs, Owners, HasInserted, Procs, Id, money,
     locks, work
<1>. QED
  BY <1>1, <1>2, <1>3, <1>4, <1>5, <1>6, <1>7, <1>8, <1>9, <1>10, <1>11, <1>12, <1>13,
     <1>14, <1>15, <1>16, <1>17 DEF Next, PlayerStep, SettlerStep

-----------------------------------------------------------------------------
(* The payouts of a settlement. *)

\* The ids a settlement credits, and the entries it writes for them.
LEMMA CreditedFinite ==
    ASSUME Base, NEW s \in Settlers
    PROVE  /\ IsFiniteSet(plan[s]) /\ IsFiniteSet(Credited(s))
           /\ IsFiniteSet({Entry(id, Kind(id), Due(id)) : id \in Credited(s)})
<1>. DEFINE E == {Entry(id, Kind(id), Due(id)) : id \in Credited(s)}
            e == [id \in Credited(s) |-> Entry(id, Kind(id), Due(id))]
<1>1. plan[s] \subseteq DOMAIN bets /\ Credited(s) \subseteq DOMAIN bets
  BY DEF Base, TypeOK, Credited
<1>2. IsFiniteSet(plan[s]) /\ IsFiniteSet(Credited(s))
  BY <1>1, FS_Subset DEF Base, Finite
<1>3. e \in Surjection(Credited(s), E)
  BY DEF Surjection
<1>. QED
  BY <1>2, <1>3, FS_Surjection

\* The bets and the ledger change by the two commits only.
LEMMA Quiet ==
    ASSUME [Next]_vars
    PROVE  \/ UNCHANGED <<draw, bets, money>>
           \/ \E p \in Players : CommitBet(p)
           \/ \E s \in Settlers : CommitSettlement(s)
BY DEF Next, PlayerStep, SettlerStep, vars, money, work, locks, ReadRound, InsertBet,
       BetAlreadyPlaced, Debit, Insolvent, ReadDue, BeginDrawing, Snapshot, NothingToSettle,
       EndSettlement, Rollback, LockRound, Pass, Credit, CreditFails, Die

\* Every step keeps the bets and the ledger finite.
LEMMA FiniteStep == ASSUME Base, [Next]_vars PROVE Finite'
<1>1. ASSUME NEW p \in Players, CommitBet(p) PROVE Finite'
  <2>1. DOMAIN bets' = DOMAIN bets \cup {Id(call[p])}
    BY <1>1 DEF CommitBet
  <2>2. ledger' = ledger \cup {Entry(Id(call[p]), "BET", -call[p].amount)}
    BY <1>1 DEF CommitBet
  <2>. QED
    BY <2>1, <2>2, FS_AddElement DEF Base, Finite
<1>2. ASSUME NEW s \in Settlers, CommitSettlement(s) PROVE Finite'
  <2>1. DOMAIN bets' = DOMAIN bets
    BY <1>2 DEF CommitSettlement, Results
  <2>2. ledger' = ledger \cup {Entry(id, Kind(id), Due(id)) : id \in Credited(s)}
    BY <1>2 DEF CommitSettlement
  <2>. QED
    BY <2>1, <2>2, CreditedFinite, FS_Union DEF Base, Finite
<1>3. CASE UNCHANGED <<bets, ledger>>
  BY <1>3 DEF Base, Finite
<1>. QED
  BY <1>1, <1>2, <1>3, Quiet DEF money

\* What is due changes with the draw and the bets only.
LEMMA DuesKept == ASSUME UNCHANGED <<draw, bets>> PROVE Dues' = Dues
BY DEF Dues, Due

\* A payout is in the ledger of exactly the bets that are settled and due one.
LEMMA PaidMeans ==
    ASSUME TypeOK, PaidExactly, NEW id \in DOMAIN bets
    PROVE  Paid(id) <=> bets[id].status # "PLACED" /\ Due(id) > 0
<1>1. Kind(id) # "BET"
  BY DueType
<1>2. ASSUME NEW i \in DOMAIN bets, NEW e \in Owed(i)
      PROVE  e.bet = i /\ (e.type = "BET" \/ (bets[i].status # "PLACED" /\ Due(i) > 0))
  <2>1. CASE bets[i].status # "PLACED" /\ Due(i) > 0
    BY <2>1 DEF Owed, Entry
  <2>2. CASE ~(bets[i].status # "PLACED" /\ Due(i) > 0)
    BY <2>2 DEF Owed, Entry
  <2>. QED
    BY <2>1, <2>2
<1>3. ASSUME Paid(id) PROVE bets[id].status # "PLACED" /\ Due(id) > 0
  <2>1. PICK e \in ledger : e.bet = id /\ e.type = Kind(id)
    BY <1>3 DEF Paid
  <2>2. PICK i \in DOMAIN bets : e \in Owed(i)
    BY <2>1 DEF PaidExactly
  <2>. QED
    BY <1>1, <1>2, <2>1, <2>2
<1>4. ASSUME bets[id].status # "PLACED", Due(id) > 0 PROVE Paid(id)
  <2>1. Entry(id, Kind(id), Due(id)) \in ledger
    BY <1>4 DEF PaidExactly, Owed
  <2>. QED
    BY <2>1 DEF Paid, Entry
<1>. QED
  BY <1>3, <1>4

-----------------------------------------------------------------------------
(* The ledger holds exactly what is owed. *)

\* The commit of a bet keeps the ledger exact: its entry is the first of its bet.
LEMMA CommitBetPaid ==
    ASSUME IInv, NEW p \in Players, CommitBet(p) PROVE PaidExactly'
<1>. SUFFICES ASSUME NEW new, new = Id(call[p]) PROVE PaidExactly'
  OBVIOUS
<1>1. new \notin DOMAIN bets /\ DOMAIN bets' = DOMAIN bets \cup {new}
  BY DEF CommitBet, IInv, Base, Owners, HasInserted
<1>2. bets'[new].status = "PLACED" /\ bets'[new].amount = call[p].amount /\ draw' = draw
  BY <1>1 DEF CommitBet
<1>3. \A id \in DOMAIN bets : bets'[id] = bets[id]
  BY <1>1 DEF CommitBet
<1>4. \A id \in DOMAIN bets : Owed(id)' = Owed(id)
  BY <1>2, <1>3 DEF Owed, Due, Kind
<1>5. Owed(new)' = {Entry(new, "BET", -call[p].amount)}
  BY <1>2 DEF Owed
<1>6. ledger' = ledger \cup {Entry(new, "BET", -call[p].amount)}
  BY DEF CommitBet
<1>7. ledger' = UNION {Owed(id)' : id \in DOMAIN bets'}
  BY <1>1, <1>4, <1>5, <1>6 DEF IInv, PaidExactly
<1>8. \A id \in DOMAIN bets' : bets'[id].status # "PLACED" =>
         bets'[id].status = Verdict(bets'[id].side, draw') /\ bets'[id].payout = Due(id)'
  BY <1>1, <1>2, <1>3 DEF IInv, PaidExactly, Due
<1>. QED
  BY <1>7, <1>8 DEF PaidExactly

\* What a settlement commits: open bets, of which it credited those due something.
LEMMA CreditedAre ==
    ASSUME IInv, NEW s \in Settlers, CommitSettlement(s)
    PROVE  /\ plan[s] \subseteq {id \in DOMAIN bets : bets[id].status = "PLACED"}
           /\ Credited(s) = {id \in plan[s] : Due(id) > 0}
           /\ state = "DRAWING"
<1>1. pc[s] = "pay" /\ "round" \notin moved[s] /\ InSnapshot(s) /\ state = "DRAWING"
  BY DEF CommitSettlement, IInv, Snapshots, InSnapshot
<1>2. \A id \in plan[s] : id \in DOMAIN bets /\ bets[id].status = "PLACED"
  BY <1>1 DEF IInv, Base, TypeOK, Snapshots
<1>3. \A id \in plan[s] : ~Paid(id)
  BY <1>2, PaidMeans DEF IInv, Base
<1>. QED
  BY <1>1, <1>2, <1>3 DEF Credited

\* A settlement changes the results of what it planned, not what is due.
LEMMA SettledRows ==
    ASSUME IInv, NEW s \in Settlers, CommitSettlement(s)
    PROVE  /\ DOMAIN bets' = DOMAIN bets /\ draw' = draw
           /\ \A id \in DOMAIN bets :
                 /\ Due(id)' = Due(id) /\ Kind(id)' = Kind(id)
                 /\ bets'[id].side = bets[id].side /\ bets'[id].amount = bets[id].amount
           /\ \A id \in DOMAIN bets \ plan[s] : bets'[id] = bets[id]
           /\ \A id \in plan[s] : bets'[id] = Result(id)
<1>1. DOMAIN bets' = DOMAIN bets /\ draw' = draw
  BY DEF CommitSettlement, EndSettlement, Results
<1>2. \A id \in DOMAIN bets : bets'[id] = IF id \in plan[s] THEN Result(id) ELSE bets[id]
  BY DEF CommitSettlement, Results
<1>3. plan[s] \subseteq DOMAIN bets
  BY DEF IInv, Base, TypeOK
<1>4. ASSUME NEW id \in DOMAIN bets
      PROVE  bets'[id].side = bets[id].side /\ bets'[id].amount = bets[id].amount
  BY <1>2, ResultType DEF IInv, Base
<1>5. \A id \in DOMAIN bets : Due(id)' = Due(id) /\ Kind(id)' = Kind(id)
  BY <1>1, <1>4 DEF Due, Kind
<1>. QED
  BY <1>1, <1>2, <1>3, <1>4, <1>5

\* The commit of a settlement keeps the ledger exact: the bets it credits were open
\* until then.
LEMMA CommitSettlementPaid ==
    ASSUME IInv, NEW s \in Settlers, CommitSettlement(s) PROVE PaidExactly'
<1>1. ASSUME NEW id \in plan[s]
      PROVE  /\ Owed(id)' = Owed(id) \cup
                   (IF Due(id) > 0 THEN {Entry(id, Kind(id), Due(id))} ELSE {})
             /\ bets'[id].status = Verdict(bets'[id].side, draw') /\ bets'[id].payout = Due(id)'
  <2>1. id \in DOMAIN bets /\ bets[id].status = "PLACED"
    BY CreditedAre
  <2>2. Owed(id) = {Entry(id, "BET", -bets[id].amount)}
    BY <2>1 DEF Owed
  <2>3. bets'[id].status # "PLACED" /\ bets'[id].amount = bets[id].amount
        /\ Due(id)' = Due(id) /\ Kind(id)' = Kind(id)
    BY <2>1, SettledRows, ResultType DEF IInv, Base
  <2>4. bets'[id].status = Verdict(bets'[id].side, draw') /\ bets'[id].payout = Due(id)'
    BY <2>1, SettledRows, ResultType DEF IInv, Base
  <2>. QED
    BY <2>2, <2>3, <2>4 DEF Owed
<1>2. ASSUME NEW id \in DOMAIN bets \ plan[s]
      PROVE  /\ Owed(id)' = Owed(id)
             /\ bets'[id].status # "PLACED" =>
                   bets'[id].status = Verdict(bets'[id].side, draw')
                   /\ bets'[id].payout = Due(id)'
  BY SettledRows DEF Owed, IInv, PaidExactly
<1>3. ledger' = ledger \cup {Entry(id, Kind(id), Due(id)) : id \in {i \in plan[s] : Due(i) > 0}}
  BY CreditedAre DEF CommitSettlement
<1>4. ledger = UNION {Owed(id) : id \in DOMAIN bets} /\ DOMAIN bets' = DOMAIN bets
      /\ plan[s] \subseteq DOMAIN bets
  BY SettledRows, CreditedAre DEF IInv, PaidExactly
<1>5. ledger' = UNION {Owed(id)' : id \in DOMAIN bets'}
  <2>1. ASSUME NEW e \in ledger' PROVE \E id \in DOMAIN bets' : e \in Owed(id)'
    BY <1>1, <1>2, <1>3, <1>4, <2>1
  <2>2. ASSUME NEW id \in DOMAIN bets', NEW e \in Owed(id)' PROVE e \in ledger'
    BY <1>1, <1>2, <1>3, <1>4, <2>2
  <2>. QED
    BY <2>1, <2>2
<1>6. \A id \in DOMAIN bets' : bets'[id].status # "PLACED" =>
         bets'[id].status = Verdict(bets'[id].side, draw') /\ bets'[id].payout = Due(id)'
  BY <1>1, <1>2, <1>4
<1>. QED
  BY <1>5, <1>6 DEF PaidExactly

\* Every step keeps the ledger exact.
LEMMA PaidStep == ASSUME IInv, [Next]_vars PROVE PaidExactly'
<1>1. CASE UNCHANGED <<draw, bets, money>>
  BY <1>1 DEF IInv, PaidExactly, Owed, Due, Kind, money
<1>. QED
  BY <1>1, Quiet, CommitBetPaid, CommitSettlementPaid

-----------------------------------------------------------------------------
(* Snapshots and drafts. *)

\* Every step keeps what a settlement knows of its snapshot: what others commit
\* meanwhile is in moved.
LEMMA SnapshotsStep == ASSUME IInv, [Next]_vars PROVE Snapshots'
<1>. USE DEF IInv, Base, Snapshots, InSnapshot
<1>1. ASSUME NEW p \in Players, CommitBet(p) PROVE Snapshots'
  <2>1. \A id \in DOMAIN bets : bets'[id] = bets[id]
    BY <1>1 DEF CommitBet, Owners, HasInserted
  <2>2. holder = None /\ \A s \in Settlers : pc[s] # "pay"
    BY <1>1, SettlementAssumption DEF CommitBet, Owners, HasInserted, TypeOK
  <2>3. \A s \in Settlers : pc'[s] = pc[s]
    BY <1>1, SettlementAssumption DEF CommitBet, Go, TypeOK, Procs
  <2>4. \A s \in Settlers : plan'[s] = plan[s] /\ plan[s] \subseteq DOMAIN bets
    BY <1>1 DEF CommitBet, TypeOK
  <2>5. \A s \in Settlers : "round" \notin moved'[s] => "round" \notin moved[s]
    BY <1>1 DEF CommitBet, Touch, TypeOK
  <2>. QED
    BY <1>1, <2>1, <2>2, <2>3, <2>4, <2>5 DEF CommitBet, TypeOK
<1>2. ASSUME NEW s \in Settlers, CommitSettlement(s) PROVE Snapshots'
  <2>1. ASSUME NEW q \in Settlers, q # s
        PROVE  /\ pc'[q] = pc[q] /\ pc[q] # "pay"
               /\ todo'[q] = todo[q] /\ plan'[q] = plan[q]
               /\ InSnapshot(q) => "round" \in moved'[q]
    BY <1>2, <2>1 DEF CommitSettlement, EndSettlement, Go, Touch, TypeOK, Procs, Owners
  <2>2. pc'[s] = "idle" /\ state' = "SETTLED"
    BY <1>2 DEF CommitSettlement, EndSettlement, Go, TypeOK, Procs
  <2>. QED
    BY <2>1, <2>2
<1>3. ASSUME NEW s \in Settlers, ReadDue(s) PROVE Snapshots'
  BY <1>3 DEF ReadDue, Go, TypeOK, Procs, work
<1>4. ASSUME NEW s \in Settlers, BeginDrawing(s) PROVE Snapshots'
  <2>1. \A q \in Settlers : pc[q] # "pay"
    BY <1>4, SettlementAssumption DEF BeginDrawing, Owners
  <2>. QED
    BY <1>4, <2>1 DEF BeginDrawing, Go, Touch, TypeOK, Procs
<1>5. ASSUME NEW s \in Settlers, Snapshot(s) PROVE Snapshots'
  BY <1>5 DEF Snapshot, Go, TypeOK, Procs
<1>6. ASSUME NEW s \in Settlers, Rollback(s) PROVE Snapshots'
  BY <1>6 DEF Rollback, EndSettlement, Go, TypeOK, Procs
<1>7. ASSUME NEW s \in Settlers, LockRound(s) PROVE Snapshots'
  BY <1>7 DEF LockRound, CanLockRound, Go, TypeOK, Procs, work
<1>8. ASSUME NEW s \in Settlers, NEW id \in todo[s], Pass(s, id) \/ Credit(s, id)
      PROVE  Snapshots'
  BY <1>8 DEF Pass, Credit, TypeOK, work
<1>9. ASSUME UNCHANGED <<state, bets, plan, todo, moved>>, \A s \in Settlers : pc'[s] = pc[s]
      PROVE  Snapshots'
  BY <1>9
<1>10. CASE UNCHANGED vars
  BY <1>9, <1>10 DEF vars, work
<1>11. ASSUME NEW p \in Players,
              \/ \E o \in Offers : ReadRound(p, o)
              \/ InsertBet(p) \/ BetAlreadyPlaced(p) \/ Debit(p) \/ Insolvent(p)
              \/ Die(p)
       PROVE  Snapshots'
  <2>1. UNCHANGED <<state, bets, plan, todo, moved>>
    BY <1>11, SettlementAssumption DEF ReadRound, InsertBet, BetAlreadyPlaced, Debit,
       Insolvent, Die, work
  <2>2. \A s \in Settlers : pc'[s] = pc[s]
    BY <1>11, SettlementAssumption DEF ReadRound, InsertBet, BetAlreadyPlaced, Debit,
       Insolvent, Die, Go, TypeOK, Procs
  <2>. QED
    BY <1>9, <2>1, <2>2
<1>. QED
  BY <1>1, <1>2, <1>3, <1>4, <1>5, <1>6, <1>7, <1>8, <1>10, <1>11
     DEF Next, PlayerStep, SettlerStep, NothingToSettle, CreditFails, Die, Procs

\* Every step keeps the draft of a player who has debited: the wallet is locked.
LEMMA PlayerDraftsStep == ASSUME IInv, [Next]_vars PROVE PlayerDrafts'
<1>. USE SettlementAssumption DEF IInv, Base, Drafts
<1>2. ASSUME NEW p \in Players, NEW o \in Offers, ReadRound(p, o) PROVE PlayerDrafts'
  BY <1>2 DEF ReadRound, PlayerDrafts, TypeOK, Procs, Go, money, locks
<1>3. ASSUME NEW p \in Players, InsertBet(p) \/ BetAlreadyPlaced(p) \/ Insolvent(p)
      PROVE  PlayerDrafts'
  BY <1>3 DEF InsertBet, BetAlreadyPlaced, Insolvent, PlayerDrafts, TypeOK, Procs, Go, money, locks
<1>4. ASSUME NEW p \in Players, Debit(p) PROVE PlayerDrafts'
  <2>. SUFFICES ASSUME NEW q \in Players, pc'[q] = "commit"
                PROVE  LET o == call'[q] IN
                       /\ lock'[o.user] = q /\ balance'[o.user] >= o.amount
                       /\ draft'[o.user] = balance'[o.user] - o.amount
    BY DEF PlayerDrafts
  <2>1. CASE q = p
    BY <1>4, <2>1, RowType DEF Debit, Solvent, TypeOK, money
  <2>2. CASE q # p
    BY <1>4, <2>2, RowType DEF Debit, PlayerDrafts, TypeOK, Procs, Go, money
  <2>. QED
    BY <2>1, <2>2
<1>5. ASSUME NEW p \in Players, CommitBet(p) PROVE PlayerDrafts'
  <2>. SUFFICES ASSUME NEW q \in Players, pc'[q] = "commit"
                PROVE  LET o == call'[q] IN
                       /\ lock'[o.user] = q /\ balance'[o.user] >= o.amount
                       /\ draft'[o.user] = balance'[o.user] - o.amount
    BY DEF PlayerDrafts
  <2>1. q # p /\ pc[q] = "commit" /\ call' = call
    BY <1>5 DEF CommitBet, Go, TypeOK, Procs
  <2>2. lock[call[q].user] = q /\ lock[call[p].user] = p
        /\ call[q].user \in Users /\ call[p].user \in Users
    BY <1>5, <2>1, RowType DEF CommitBet, PlayerDrafts
  <2>3. lock'[call[q].user] = q /\ draft'[call[q].user] = draft[call[q].user]
        /\ balance'[call[q].user] = balance[call[q].user]
    BY <1>5, <2>1, <2>2 DEF CommitBet, Unlock, TypeOK
  <2>. QED
    BY <2>1, <2>3 DEF PlayerDrafts
<1>6. ASSUME NEW s \in Settlers,
             ReadDue(s) \/ BeginDrawing(s) \/ Snapshot(s) \/ LockRound(s)
      PROVE  PlayerDrafts'
  BY <1>6 DEF ReadDue, BeginDrawing, Snapshot, LockRound, PlayerDrafts, TypeOK, Procs, Go,
          money, locks
<1>7. ASSUME NEW s \in Settlers, Rollback(s) PROVE PlayerDrafts'
  BY <1>7, RowType DEF Rollback, EndSettlement, Unlock, PlayerDrafts, TypeOK, Procs, Go, money
<1>8. ASSUME NEW s \in Settlers, NEW id \in todo[s], Pass(s, id) PROVE PlayerDrafts'
  BY <1>8 DEF Pass, PlayerDrafts, money, locks
<1>9. ASSUME NEW s \in Settlers, NEW id \in todo[s], Credit(s, id) PROVE PlayerDrafts'
  BY <1>9, RowType DEF Credit, PlayerDrafts, TypeOK, money, Procs
<1>10. ASSUME NEW s \in Settlers, CommitSettlement(s) PROVE PlayerDrafts'
  BY <1>10, RowType DEF CommitSettlement, EndSettlement, Unlock, PlayerDrafts, TypeOK, Procs, Go
<1>11. ASSUME NEW p \in Players, Die(p) PROVE PlayerDrafts'
  <2>. SUFFICES ASSUME NEW q \in Players, pc'[q] = "commit"
                PROVE  LET o == call'[q] IN
                       /\ lock'[o.user] = q /\ balance'[o.user] >= o.amount
                       /\ draft'[o.user] = balance'[o.user] - o.amount
    BY DEF PlayerDrafts
  <2>1. q # p /\ pc[q] = "commit" /\ call' = call /\ balance' = balance
    BY <1>11 DEF Die, Go, TypeOK, Procs, money
  <2>2. Unlock(p) /\ lock[call[q].user] = q /\ call[q].user \in Users
    BY <1>11, <2>1, RowType DEF Die, PlayerDrafts
  <2>3. lock'[call[q].user] = lock[call[q].user] /\ draft'[call[q].user] = draft[call[q].user]
    BY <2>1, <2>2 DEF Unlock
  <2>. QED
    BY <2>1, <2>3 DEF PlayerDrafts
<1>12. CASE UNCHANGED vars
  BY <1>12 DEF vars, money, locks, PlayerDrafts
<1>. QED
  BY <1>2, <1>3, <1>4, <1>5, <1>6, <1>7, <1>8, <1>9, <1>10, <1>11, <1>12
     DEF Next, PlayerStep, SettlerStep, NothingToSettle, CreditFails, Die, Procs

\* Only its own commit changes the bets and balances a paying settlement works on.
LEMMA PayingAlone ==
    ASSUME IInv, [Next]_vars, NEW s \in Settlers, pc[s] = "pay", pc'[s] = "pay"
    PROVE  UNCHANGED <<draw, bets, money>>
<1>1. ASSUME NEW p \in Players, CommitBet(p) PROVE FALSE
  BY <1>1, SettlementAssumption DEF CommitBet, IInv, Base, TypeOK, Owners, HasInserted
<1>2. ASSUME NEW q \in Settlers, CommitSettlement(q) PROVE FALSE
  BY <1>2 DEF CommitSettlement, EndSettlement, Go, IInv, Base, TypeOK, Owners, Procs
<1>. QED
  BY <1>1, <1>2, Quiet


\* What is planned is finitely many bets, each due a natural number.
LEMMA PlannedDue ==
    ASSUME IInv, NEW s \in Settlers, pc[s] = "pay", NEW id \in plan[s]
    PROVE  ~Paid(id)
<1>1. id \in DOMAIN bets /\ bets[id].status = "PLACED"
  BY DEF IInv, Base, TypeOK, Snapshots, InSnapshot
<1>. QED
  BY <1>1, PaidMeans DEF IInv, Base

\* One more bet done: what it is due is credited.
LEMMA DoneOne ==
    ASSUME IInv, NEW s \in Settlers, NEW u \in Users, NEW id \in todo[s],
           UNCHANGED <<draw, bets, plan>>, todo' = [todo EXCEPT ![s] = @ \ {id}]
    PROVE  /\ Total(Dues', Done(s, u)') =
                 Total(Dues, Done(s, u)) + (IF id[1] = u THEN Due(id) ELSE 0)
           /\ Total(Dues, Done(s, u)) \in Nat /\ Due(id) \in Nat
<1>. USE DEF IInv, Base
<1>1. Dues' = Dues
  BY DuesKept
<1>2. plan[s] \subseteq DOMAIN bets /\ id \in plan[s] /\ id \notin Done(s, u)
  BY DEF TypeOK, Done
<1>3. IsFiniteSet(Done(s, u)) /\ Done(s, u) \subseteq DOMAIN bets
  BY <1>2, FS_Subset DEF Done, Finite
<1>4. Total(Dues, Done(s, u)) \in Nat /\ Due(id) \in Nat
  BY <1>2, <1>3, DueType, TotalType
<1>5. CASE id[1] = u
  <2>1. Done(s, u)' = Done(s, u) \cup {id}
    BY <1>2, <1>5 DEF Done, TypeOK
  <2>2. \A i \in Done(s, u) \cup {id} : Dues[i] \in Nat
    BY <1>2, <1>3, DueType
  <2>3. Total(Dues, Done(s, u) \cup {id}) = Total(Dues, Done(s, u)) + Dues[id]
    BY <1>2, <1>3, <2>2, TotalAdd
  <2>4. Total(Dues', Done(s, u)') = Total(Dues, Done(s, u) \cup {id})
    BY <1>1, <2>1, Zenon
  <2>5. Dues[id] = Due(id)
    BY <1>2, DueType
  <2>. QED
    BY <1>4, <1>5, <2>3, <2>4, <2>5
<1>6. CASE id[1] # u
  <2>1. Done(s, u)' = Done(s, u)
    BY <1>6 DEF Done, TypeOK
  <2>2. Total(Dues', Done(s, u)') = Total(Dues, Done(s, u))
    BY <1>1, <2>1, Zenon
  <2>. QED
    BY <1>4, <1>6, <2>2
<1>. QED
  BY <1>4, <1>5, <1>6

\* Every step keeps a paying settlement's reads: the balance and what it has credited.
LEMMA SettlerDraftsStep == ASSUME IInv, [Next]_vars PROVE SettlerDrafts'
<1>. SUFFICES ASSUME NEW s \in Settlers, NEW u \in Users, pc'[s] = "pay"
              PROVE  BalanceRead(s, u)' = balance'[u] + Total(Dues', Done(s, u)')
  BY DEF SettlerDrafts
<1>. USE SettlementAssumption DEF IInv, Base, Drafts
<1>1. CASE LockRound(s)
  <2>1. todo'[s] = plan'[s] /\ BalanceRead(s, u)' = balance'[u] /\ balance'[u] \in Nat
    BY <1>1 DEF LockRound, CanLockRound, Snapshots, BalanceRead, Owners, TypeOK, work, locks, money
  <2>2. Done(s, u)' = {}
    BY <2>1 DEF Done
  <2>3. Total(Dues', {}) = 0
    BY TotalEmpty
  <2>4. Total(Dues', Done(s, u)') = 0
    BY <2>2, <2>3, Zenon
  <2>. QED
    BY <2>1, <2>4
<1>2. ASSUME NEW id \in todo[s], Pass(s, id)
      PROVE  BalanceRead(s, u)' = balance'[u] + Total(Dues', Done(s, u)')
  <2>1. id \in plan[s] /\ Due(id) = 0
    BY <1>2, PlannedDue DEF Pass, TypeOK
  <2>2. /\ Total(Dues', Done(s, u)') =
              Total(Dues, Done(s, u)) + (IF id[1] = u THEN Due(id) ELSE 0)
        /\ Total(Dues, Done(s, u)) \in Nat
    BY <1>2, DoneOne DEF Pass, money
  <2>3. BalanceRead(s, u)' = BalanceRead(s, u) /\ balance' = balance
    BY <1>2 DEF Pass, BalanceRead, locks, money
  <2>. QED
    BY <1>2, <2>1, <2>2, <2>3 DEF SettlerDrafts, Pass, TypeOK
<1>3. ASSUME NEW id \in todo[s], Credit(s, id)
      PROVE  BalanceRead(s, u)' = balance'[u] + Total(Dues', Done(s, u)')
  <2>1. /\ Total(Dues', Done(s, u)') =
              Total(Dues, Done(s, u)) + (IF id[1] = u THEN Due(id) ELSE 0)
        /\ Total(Dues, Done(s, u)) \in Nat /\ Due(id) \in Nat
    BY <1>3, DoneOne DEF Credit, money
  <2>2. BalanceRead(s, u)' = BalanceRead(s, u) + (IF id[1] = u THEN Due(id) ELSE 0)
        /\ balance' = balance
    BY <1>3 DEF Credit, BalanceRead, money, TypeOK
  <2>. QED
    BY <1>3, <2>1, <2>2 DEF SettlerDrafts, Credit, TypeOK
<1>4. CASE /\ pc[s] = "pay" /\ todo'[s] = todo[s] /\ plan'[s] = plan[s]
           /\ lock'[u] = s <=> lock[u] = s
           /\ lock[u] = s => draft'[u] = draft[u]
  <2>1. UNCHANGED <<draw, bets, money>>
    BY <1>4, PayingAlone
  <2>2. BalanceRead(s, u)' = BalanceRead(s, u) /\ balance' = balance
    BY <1>4, <2>1 DEF BalanceRead, money
  <2>3. Dues' = Dues /\ Done(s, u)' = Done(s, u)
    BY <1>4, <2>1, DuesKept DEF Done
  <2>4. Total(Dues', Done(s, u)') = Total(Dues, Done(s, u))
    BY <2>3, Zenon
  <2>. QED
    BY <1>4, <2>2, <2>4 DEF SettlerDrafts
<1>5. ASSUME NEW p \in Players,
             PlayerStep(p) \/ (\E o \in Offers : ReadRound(p, o)) \/ Die(p)
      PROVE  BalanceRead(s, u)' = balance'[u] + Total(Dues', Done(s, u)')
  <2>1. pc[s] = "pay" /\ todo' = todo /\ plan' = plan
    BY <1>5 DEF PlayerStep, ReadRound, InsertBet, BetAlreadyPlaced, Debit, Insolvent, CommitBet,
                Die, Go, work, TypeOK, Procs
  <2>2. (lock'[u] = s <=> lock[u] = s) /\ (lock[u] = s => draft'[u] = draft[u])
    BY <1>5, RowType DEF PlayerStep, ReadRound, InsertBet, BetAlreadyPlaced, Debit, Insolvent,
                CommitBet, Die, Unlock, locks, TypeOK
  <2>. QED
    BY <1>4, <2>1, <2>2
<1>6. ASSUME NEW q \in Settlers, SettlerStep(q) \/ Die(q), q # s
      PROVE  BalanceRead(s, u)' = balance'[u] + Total(Dues', Done(s, u)')
  <2>1. pc[s] = "pay" /\ todo'[s] = todo[s] /\ plan'[s] = plan[s]
    BY <1>6 DEF SettlerStep, ReadDue, BeginDrawing, Snapshot, NothingToSettle, LockRound, Pass,
                Credit, CreditFails, CommitSettlement, Rollback, EndSettlement, Die, Go, work,
                TypeOK, Procs
  <2>2. (lock'[u] = s <=> lock[u] = s) /\ (lock[u] = s => draft'[u] = draft[u])
    BY <1>6 DEF SettlerStep, ReadDue, BeginDrawing, Snapshot, NothingToSettle, LockRound, Pass,
                Credit, CreditFails, CommitSettlement, Rollback, EndSettlement, Die, Unlock,
                locks, TypeOK
  <2>. QED
    BY <1>4, <2>1, <2>2
<1>7. ASSUME SettlerStep(s) \/ Die(s)
      PROVE  LockRound(s) \/ \E id \in todo[s] : Pass(s, id) \/ Credit(s, id)
  BY <1>7 DEF SettlerStep, ReadDue, BeginDrawing, Snapshot, NothingToSettle, CreditFails,
              CommitSettlement, Rollback, EndSettlement, Die, Go, TypeOK, Procs
<1>8. CASE UNCHANGED vars
  BY <1>4, <1>8 DEF vars, work, locks
<1>. QED
  BY <1>1, <1>2, <1>3, <1>5, <1>6, <1>7, <1>8 DEF Next, Procs

-----------------------------------------------------------------------------
(* The balances. *)

\* An entry is worth a natural number of coins, and a wallet has finitely many entries.
LEMMA CoinsType ==
    ASSUME Base, NEW u \in Users
    PROVE  /\ IsFiniteSet(In(u)) /\ IsFiniteSet(Out(u))
           /\ \A e \in ledger : Coins[e] \in Nat
           /\ Total(Coins, In(u)) \in Nat /\ Total(Coins, Out(u)) \in Nat
<1>1. \A e \in ledger : Coins[e] \in Nat
  BY DEF Base, TypeOK, Coins
<1>2. In(u) \subseteq ledger /\ Out(u) \subseteq ledger
  BY DEF In, Out
<1>3. IsFiniteSet(In(u)) /\ IsFiniteSet(Out(u))
  BY <1>2, FS_Subset DEF Base, Finite
<1>. QED
  BY <1>1, <1>2, <1>3, TotalType

\* An entry is worth the same in a longer ledger.
LEMMA CoinsKept ==
    ASSUME Base, ledger \subseteq ledger', NEW S, S \subseteq ledger
    PROVE  Total(Coins', S) = Total(Coins, S)
<1>1. \A e \in S : Coins'[e] = Coins[e]
  BY DEF Coins
<1>. QED
  BY <1>1, TotalSame

\* The commit of a bet takes its stake from the balance and adds its entry.
LEMMA CommitBetCoins ==
    ASSUME IInv, NEW p \in Players, CommitBet(p) PROVE CoinsBalance'
<1>. DEFINE n == call[p].amount
<1>. SUFFICES ASSUME NEW u \in Users, NEW e, e = Entry(Id(call[p]), "BET", -n)
              PROVE  balance'[u] = Deposit + Total(Coins', In(u)') - Total(Coins', Out(u)')
  BY DEF CoinsBalance
<1>. USE DEF IInv, Base
<1>1. /\ ledger' = ledger \cup {e} /\ e \notin ledger
      /\ e.bet[1] = call[p].user /\ e.amount = -n /\ n \in Nat \ {0}
  <2>1. Id(call[p]) \notin DOMAIN bets
    BY DEF CommitBet, Owners, HasInserted
  <2>. QED
    BY <2>1, RowType DEF CommitBet, TypeOK, Entry, Id
<1>2. Total(Coins', In(u)) = Total(Coins, In(u)) /\ Total(Coins', Out(u)) = Total(Coins, Out(u))
  BY <1>1, CoinsKept DEF In, Out
<1>3. In(u)' = In(u)
  BY <1>1 DEF In
<1>4. Total(Coins', In(u)') = Total(Coins, In(u))
  BY <1>2, <1>3, Zenon
<1>5. CASE u = call[p].user
  <2>1. Out(u)' = Out(u) \cup {e}
    BY <1>1, <1>5 DEF Out
  <2>2. Coins'[e] = n /\ \A x \in Out(u) : Coins'[x] \in Nat
    <3>1. Coins'[e] = n
      BY <1>1 DEF Coins
    <3>2. \A x \in Out(u) : Coins'[x] = Coins[x] /\ Coins[x] \in Nat
      BY <1>1, CoinsType DEF Coins, Out
    <3>. QED
      BY <3>1, <3>2
  <2>3. e \notin Out(u) /\ IsFiniteSet(Out(u))
    BY <1>1, CoinsType DEF Out
  <2>4. Total(Coins', Out(u) \cup {e}) = Total(Coins', Out(u)) + Coins'[e]
    BY <1>1, <2>2, <2>3, TotalAdd
  <2>5. Total(Coins', Out(u)') = Total(Coins', Out(u) \cup {e})
    BY <2>1, Zenon
  <2>6. balance'[u] = balance[u] - n
    BY <1>5 DEF CommitBet, Drafts, PlayerDrafts, TypeOK
  <2>7. balance[u] = Deposit + Total(Coins, In(u)) - Total(Coins, Out(u))
    BY DEF CoinsBalance
  <2>. QED
    BY <1>1, <1>2, <1>4, <2>2, <2>4, <2>5, <2>6, <2>7, CoinsType, SettlementAssumption
<1>6. CASE u # call[p].user
  <2>1. Out(u)' = Out(u)
    BY <1>1, <1>6 DEF Out
  <2>2. Total(Coins', Out(u)') = Total(Coins, Out(u))
    BY <1>2, <2>1, Zenon
  <2>3. balance'[u] = balance[u]
    BY <1>6 DEF CommitBet, TypeOK
  <2>. QED
    BY <1>4, <2>2, <2>3 DEF CoinsBalance
<1>. QED
  BY <1>5, <1>6

\* What a settlement writes for u is worth what its bets are due.
LEMMA CreditedSum ==
    ASSUME IInv, NEW s \in Settlers, CommitSettlement(s), NEW u \in Users,
           NEW New, New = {Entry(id, Kind(id), Due(id)) : id \in {i \in Credited(s) : i[1] = u}}
    PROVE  /\ IsFiniteSet(New) /\ \A e \in New : Coins'[e] \in Nat
           /\ Total(Coins', New) = Total(Dues, Done(s, u))
<1>. DEFINE S == {i \in Credited(s) : i[1] = u}
            h == [id \in S |-> Entry(id, Kind(id), Due(id))]
<1>. USE DEF IInv, Base
<1>1. S \subseteq DOMAIN bets /\ \A id \in S : Due(id) \in Nat \ {0} /\ Dues[id] = Due(id)
  BY CreditedAre, DueType
<1>2. IsFiniteSet(S)
  BY CreditedFinite, FS_Subset
<1>3. h \in Bijection(S, New)
  BY DEF Entry, Bijection, Injection, Surjection, IsInjective
<1>4. \A id \in S : Entry(id, Kind(id), Due(id)) \in ledger'
  BY DEF CommitSettlement
<1>5. \A id \in S : Coins'[h[id]] = Dues[id]
  BY <1>1, <1>4 DEF Coins, Entry
<1>6. IsFiniteSet(New)
  BY <1>2, <1>3, FS_Surjection DEF Bijection
<1>7. \A e \in New : Coins'[e] \in Nat
  <2>1. \A e \in New : \E id \in S : e = h[id]
    OBVIOUS
  <2>. HIDE DEF S, h
  <2>. QED
    BY <1>1, <1>5, <2>1
<1>8. Total(Dues, S) = Total(Coins', New)
  <2>. HIDE DEF S, h
  <2>. QED
    BY <1>1, <1>2, <1>3, <1>5, TotalMap
<1>9. Total(Dues, Done(s, u)) = Total(Dues, S)
  <2>1. Done(s, u) = {id \in plan[s] : id[1] = u}
    BY DEF Done, CommitSettlement
  <2>2. S \subseteq Done(s, u) /\ \A id \in Done(s, u) \ S : Dues[id] = 0
    <3>1. \A id \in plan[s] : Due(id) \in Nat /\ Dues[id] = Due(id)
      BY DueType DEF TypeOK
    <3>. QED
      BY <2>1, <3>1, CreditedAre
  <2>. HIDE DEF S
  <2>. QED
    BY <2>2, TotalSame
<1>. QED
  BY <1>6, <1>7, <1>8, <1>9

\* The commit of a settlement adds to each balance what it adds to the ledger.
LEMMA CommitSettlementCoins ==
    ASSUME IInv, NEW s \in Settlers, CommitSettlement(s) PROVE CoinsBalance'
<1>. SUFFICES ASSUME NEW u \in Users,
                     NEW New, New = {Entry(id, Kind(id), Due(id)) : id \in {i \in Credited(s) : i[1] = u}}
              PROVE  balance'[u] = Deposit + Total(Coins', In(u)') - Total(Coins', Out(u)')
  BY DEF CoinsBalance
<1>. USE DEF IInv, Base
<1>1. ledger' = ledger \cup {Entry(id, Kind(id), Due(id)) : id \in Credited(s)}
  BY DEF CommitSettlement
<1>2. \A id \in Credited(s) : /\ Due(id) \in Nat \ {0}
                              /\ Entry(id, Kind(id), Due(id)) \notin ledger
                              /\ Entry(id, Kind(id), Due(id)).bet = id
                              /\ Entry(id, Kind(id), Due(id)).amount = Due(id)
  BY DueType, CreditedAre DEF Credited, Paid, Entry
<1>3. In(u)' = In(u) \cup New /\ In(u) \cap New = {} /\ Out(u)' = Out(u)
  BY <1>1, <1>2 DEF In, Out
<1>4. Total(Coins', In(u)) = Total(Coins, In(u)) /\ Total(Coins', Out(u)) = Total(Coins, Out(u))
  BY <1>1, CoinsKept DEF In, Out
<1>5. Total(Coins', In(u) \cup New) = Total(Coins', In(u)) + Total(Coins', New)
  <2>1. \A e \in In(u) \cup New : Coins'[e] \in Nat
    BY <1>1, CreditedSum, CoinsType DEF In, Coins
  <2>. QED
    BY <1>3, <2>1, CreditedSum, CoinsType, TotalUnion
<1>6. Total(Coins', In(u)') = Total(Coins', In(u) \cup New)
      /\ Total(Coins', Out(u)') = Total(Coins', Out(u))
  BY <1>3, Zenon
<1>7. balance'[u] = balance[u] + Total(Dues, Done(s, u))
  BY DEF CommitSettlement, BalanceRead, Drafts, SettlerDrafts
<1>8. Total(Coins', New) = Total(Dues, Done(s, u)) /\ Total(Dues, Done(s, u)) \in Nat
  <2>1. Total(Coins', New) = Total(Dues, Done(s, u))
    BY CreditedSum
  <2>2. Done(s, u) \subseteq plan[s]
    BY DEF Done
  <2>3. IsFiniteSet(Done(s, u)) /\ \A id \in Done(s, u) : Dues[id] \in Nat
    BY <2>2, CreditedFinite, FS_Subset, DueType DEF TypeOK
  <2>. QED
    BY <2>1, <2>3, TotalType
<1>. QED
  BY <1>4, <1>5, <1>6, <1>7, <1>8, CoinsType, SettlementAssumption DEF CoinsBalance

\* Every step keeps balances and ledger in agreement.
LEMMA CoinsStep == ASSUME IInv, [Next]_vars PROVE CoinsBalance'
<1>1. CASE UNCHANGED <<draw, bets, money>>
  <2>. SUFFICES ASSUME NEW u \in Users
                PROVE  balance'[u] = Deposit + Total(Coins', In(u)') - Total(Coins', Out(u)')
    BY DEF CoinsBalance
  <2>1. In(u)' = In(u) /\ Out(u)' = Out(u) /\ Coins' = Coins /\ balance' = balance
    BY <1>1 DEF In, Out, Coins, money
  <2>2. Total(Coins', In(u)') = Total(Coins, In(u)) /\ Total(Coins', Out(u)') = Total(Coins, Out(u))
    BY <2>1, Zenon
  <2>. QED
    BY <2>1, <2>2 DEF IInv, CoinsBalance
<1>. QED
  BY <1>1, Quiet, CommitBetCoins, CommitSettlementCoins

-----------------------------------------------------------------------------
(* The invariant. *)

\* The invariant holds in the initial state.
LEMMA InitIInv == Init => IInv
<1>. SUFFICES ASSUME Init PROVE IInv
  OBVIOUS
<1>. USE SettlementAssumption
<1>1. DOMAIN bets = {} /\ ledger = {}
  BY DEF Init
<1>2. TypeOK
  <2>1. bets \in [DOMAIN bets -> BetRow] /\ DOMAIN bets \subseteq Ids
    BY <1>1 DEF Init
  <2>2. call \in [Players -> Offers]
    BY DEF Init
  <2>. QED
    BY <1>1, <2>1, <2>2 DEF Init, TypeOK, Procs
<1>3. Programs /\ Owners
  BY <1>1 DEF Init, Programs, Owners, HasInserted, Procs
<1>4. Finite
  BY <1>1, FS_EmptySet DEF Finite
<1>5. Drafts /\ Snapshots
  BY DEF Init, Drafts, PlayerDrafts, SettlerDrafts, Snapshots, InSnapshot, Procs
<1>6. PaidExactly
  BY <1>1 DEF PaidExactly
<1>7. CoinsBalance
  <2>. SUFFICES ASSUME NEW u \in Users
                PROVE  balance[u] = Deposit + Total(Coins, In(u)) - Total(Coins, Out(u))
    BY DEF CoinsBalance
  <2>1. In(u) = {} /\ Out(u) = {}
    BY <1>1 DEF In, Out
  <2>2. Total(Coins, In(u)) = Total(Coins, {}) /\ Total(Coins, Out(u)) = Total(Coins, {})
    BY <2>1, Zenon
  <2>3. Total(Coins, {}) = 0
    BY TotalEmpty
  <2>. QED
    BY <2>2, <2>3 DEF Init
<1>. QED
  BY <1>2, <1>3, <1>4, <1>5, <1>6, <1>7 DEF IInv, Base

\* The invariant holds whatever the players, the replicas, the drawn side and the
\* transactions that die.
THEOREM IInvHolds == Spec => []IInv
<1>1. Init => IInv
  BY InitIInv
<1>2. IInv /\ [Next]_vars => IInv'
  BY ProgramsStep, TypeStep, FiniteStep, PlayerDraftsStep, SettlerDraftsStep, SnapshotsStep,
     PaidStep, CoinsStep DEF IInv, Base, Drafts
<1>. QED
  BY <1>1, <1>2, PTL DEF Spec

\* Every variable keeps its type: bets name players and keys that exist, ledger entries
\* name bets that exist, no balance is negative, no settlement has something to do it
\* did not plan.
THEOREM TypeCorrect == Spec => []TypeOK
<1>1. IInv => TypeOK
  BY DEF IInv, Base
<1>. QED
  BY <1>1, IInvHolds, PTL

\* Each bet has one BET entry over its stake, and one WIN or REFUND entry over its
\* payout exactly if it was settled with one, however often the round is drawn and
\* settled again (settlement.ts:24-139).
THEOREM LedgerExact == Spec => []PaidExactly
<1>1. IInv => PaidExactly
  BY DEF IInv
<1>. QED
  BY <1>1, IInvHolds, PTL

\* Every balance is the deposit plus what the entries of its user have paid in, less
\* what they took out: neither the API's debit (game.service.ts:534) nor the engine's
\* unguarded update (settlement.ts:168) loses the other's.
THEOREM CoinsBalanced == Spec => []CoinsBalance
<1>1. IInv => CoinsBalance
  BY DEF IInv
<1>. QED
  BY <1>1, IInvHolds, PTL

-----------------------------------------------------------------------------
(* The bets and settlements of BetBook. *)

\* An empty round is an empty book.
LEMMA InitBook == Init => Book!Init
BY DEF Init, Book!Init

\* The commit of a bet places it in the book.
LEMMA PlaceStep ==
    ASSUME IInv, NEW p \in Players, CommitBet(p) PROVE Book!Place(call[p])
<1>. DEFINE o == call[p]
<1>. USE DEF IInv, Base
<1>1. <<o.user, o.key>> \notin DOMAIN bets
  BY DEF CommitBet, Owners, HasInserted, Id
<1>2. balance[o.user] >= o.amount /\ draft[o.user] = balance[o.user] - o.amount
  BY DEF CommitBet, Drafts, PlayerDrafts
<1>3. balance' = [balance EXCEPT ![o.user] = @ - o.amount]
  BY <1>2 DEF CommitBet, TypeOK
<1>. QED
  BY <1>1, <1>2, <1>3 DEF CommitBet, Book!Place, Id

\* The commit of a settlement settles its plan in the book, all of it or nothing.
LEMMA SettleStep ==
    ASSUME IInv, NEW s \in Settlers, CommitSettlement(s)
    PROVE  plan[s] \in SUBSET Book!Open /\ Book!Settle(plan[s])
<1>. USE DEF IInv, Base
<1>1. state = "DRAWING" /\ plan[s] \in SUBSET Book!Open
  BY CreditedAre DEF Book!Open
<1>2. \A id \in DOMAIN bets : Book!Due(id) = Due(id)
  BY DEF Book!Due, Due
<1>3. bets' = [id \in DOMAIN bets |->
                 IF id \in plan[s] THEN [bets[id] EXCEPT !.status = Verdict(bets[id].side, draw),
                                                         !.payout = Book!Due(id)]
                              ELSE bets[id]]
  BY <1>2 DEF CommitSettlement, Results, Result
<1>4. ASSUME NEW u \in Users
      PROVE  BalanceRead(s, u) = balance[u] + Total(Book!Dues, {id \in plan[s] : id[1] = u})
  <2>1. Done(s, u) = {id \in plan[s] : id[1] = u} /\ Book!Dues = Dues
    BY <1>2 DEF Done, CommitSettlement, Dues, Book!Dues
  <2>2. Total(Dues, Done(s, u)) = Total(Book!Dues, {id \in plan[s] : id[1] = u})
    BY <2>1, Zenon
  <2>. QED
    BY <2>2 DEF CommitSettlement, Drafts, SettlerDrafts
<1>5. balance' = [u \in Users |-> balance[u] + Total(Book!Dues, {id \in plan[s] : id[1] = u})]
  BY <1>4 DEF CommitSettlement, BalanceRead
<1>. QED
  BY <1>1, <1>3, <1>5 DEF CommitSettlement, EndSettlement, Book!Settle

\* Every step is one of the book or none: a draw closes it, a commit places or settles.
LEMMA BookStep == ASSUME IInv, [Next]_vars PROVE [Book!Next]_(Book!vars)
<1>1. ASSUME NEW p \in Players, CommitBet(p) PROVE Book!Next
  BY <1>1, PlaceStep DEF Book!Next, IInv, Base, TypeOK
<1>2. ASSUME NEW s \in Settlers, CommitSettlement(s) PROVE Book!Next
  BY <1>2, SettleStep DEF Book!Next
<1>3. ASSUME NEW s \in Settlers, BeginDrawing(s) PROVE Book!Next
  BY <1>3 DEF BeginDrawing, Book!Next, Book!Close, money
<1>4. \/ UNCHANGED Book!vars
      \/ \E p \in Players : CommitBet(p)
      \/ \E s \in Settlers : CommitSettlement(s) \/ BeginDrawing(s)
  BY DEF Next, PlayerStep, SettlerStep, vars, money, work, locks, ReadRound, InsertBet,
         BetAlreadyPlaced, Debit, Insolvent, ReadDue, Snapshot, NothingToSettle, EndSettlement,
         Rollback, LockRound, Pass, Credit, CreditFails, Die, Book!vars
<1>. QED
  BY <1>1, <1>2, <1>3, <1>4

\* Settlements and bets, statement by statement, do what BetBook says in single steps: a
\* bet is placed with its stake or not at all, and a settlement fixes results and pays
\* all of its plan or nothing.
THEOREM SettlementImplementsBook == Spec => ImplementsBetBook
<1>1. IInv /\ [Next]_vars => [Book!Next]_(Book!vars)
  BY BookStep
<1>. QED
  BY <1>1, InitBook, IInvHolds, PTL DEF Spec, ImplementsBetBook, Book!Spec
=============================================================================
