------------------------------- MODULE Rewards -------------------------------
(***************************************************************************)
(* The daily reward and one promo code, each of which two routes grant:    *)
(* POST /rewards/... (RewardsService) and POST /wallet/... (WalletService),*)
(* and the reconciliation that reads the wallet they credit.               *)
(*                                                                         *)
(* A credit is one step, good once per key, as module Wallet shows and     *)
(* AtomicLedger states.  All rewards of a kind are of one amount.          *)
(***************************************************************************)
EXTENDS Integers, FiniteSetTheorems, TLAPS

CONSTANTS Procs,     \* calls that can be open at the same time
          Users,
          Zone,      \* half-days by which each user's calendar runs ahead of UTC
          Keys,      \* Idempotency-Key headers, any of which any client may send
          Cap,       \* promo_codes.maxRedemptions, 0 for none
          PerUser,   \* promo_codes.perUserLimit
          Starts, Expires, \* promo_codes.startsAt and expiresAt, in half-days
          Routes,    \* the routes clients use
          MaxCalls,  \* bound: calls
          MaxClock,  \* bound: half-days
          MaxFaults  \* bound: calls that die between two statements

AllRoutes == {"rewards/daily", "wallet/daily", "rewards/promo", "wallet/promo", "reconcile"}

RewardsAssumption ==
    /\ Users # {} /\ Zone \in [Users -> {0, 1}]
    /\ Cap \in Nat /\ PerUser \in Nat \ {0} /\ Routes \subseteq AllRoutes
    /\ Starts \in Nat /\ Expires \in Nat
    /\ MaxCalls \in Nat /\ MaxClock \in Nat /\ MaxFaults \in Nat /\ <<>> \notin Keys

VARIABLES
    ledger,      \* wallet_ledgers rows
    balance,     \* virtual_wallets.balance, in rewards
    redemptions, \* promo_redemptions rows, each with the key its call sent
    clock,       \* half-days
    pc,
    user, key, \* of each call
    seen,      \* what its first statement counted or read
    drift,     \* what reconciliations have reported
    sent,      \* ghost: who has asked for coins under which key, and who made the key:
               \* the client, a header, or WalletService
    calls, faults

rows == <<ledger, balance, redemptions>>
args == <<user, key, seen>>
vars == <<rows, clock, pc, args, drift, sent, calls, faults>>

Row(u, kind, k) == [user |-> u, kind |-> kind, key |-> k, at |-> clock]
Today(u) == (clock + Zone[u]) \div 2
Rows(kind) == {r \in ledger : r.kind = kind}
RowsOf(u, kind) == {r \in Rows(kind) : r.user = u}
Used(k) == \E r \in ledger : r.key = k
Redeemed(u) == \E d \in redemptions : d.user = u
Asks(u, k, by) == [user |-> u, key |-> k, by |-> by]

Go(p, where) == pc' = [pc EXCEPT ![p] = where]

End(p) ==
    /\ Go(p, "idle")
    /\ user' = [user EXCEPT ![p] = CHOOSE u \in Users : TRUE]
    /\ key'  = [key EXCEPT ![p] = <<>>]
    /\ seen' = [seen EXCEPT ![p] = 0]

\* WalletService.credit: a key that was used moves nothing.

Credit(u, kind, k) ==
    IF Used(k) THEN UNCHANGED <<ledger, balance>>
    ELSE /\ ledger'  = ledger \cup {Row(u, kind, k)}
         /\ balance' = [balance EXCEPT ![u] = @ + 1]

Call(p, route, u, k, where) ==
    /\ pc[p] = "idle" /\ route \in Routes /\ calls < MaxCalls
    /\ calls' = calls + 1
    /\ user' = [user EXCEPT ![p] = u]
    /\ key'  = [key EXCEPT ![p] = k]
    /\ sent' = CASE k = <<>> -> sent
                [] route \in {"rewards/daily", "rewards/promo"} ->
                      sent \cup {Asks(u, k, "client")}
                [] OTHER -> sent \cup {Asks(u, k, "wallet")}
    /\ Go(p, where)
    /\ UNCHANGED <<rows, clock, drift, faults>>

-----------------------------------------------------------------------------
Init ==
    /\ ledger = {} /\ balance = [u \in Users |-> 0] /\ redemptions = {}
    /\ clock = 0
    /\ pc = [p \in Procs |-> "idle"]
    /\ user = [p \in Procs |-> CHOOSE u \in Users : TRUE]
    /\ key = [p \in Procs |-> <<>>] /\ seen = [p \in Procs |-> 0]
    /\ drift = {} /\ sent = {} /\ calls = 0 /\ faults = 0

(* RewardsService.claimDailyReward: a look-up, then a credit.              *)

\* The header is the key of the ledger row, and keys are one space for all users.
DailyLookup(p, u, k) ==
    /\ \A r \in RowsOf(u, "daily") : r.at \div 2 < clock \div 2
    /\ Call(p, "rewards/daily", u, k, "daily")
    /\ UNCHANGED seen

\* A key that was used for something else is refused, in both routes.
DailyCredit(p) ==
    /\ pc[p] = "daily"
    /\ Credit(user[p], "daily", key[p])
    /\ End(p)
    /\ UNCHANGED <<redemptions, clock, drift, sent, calls, faults>>

(* WalletService.claimDailyReward: the user and the day are read, and the  *)
(* day is in the key.                                                      *)

\* fault: the day is the server's.
DailyKeyUtc(u) == <<"daily", u, clock \div 2>>

DailyKey(u) == <<"daily", u, Today(u)>>

DailyDay(p, u) ==
    /\ Call(p, "wallet/daily", u, DailyKey(u), "daily")
    /\ UNCHANGED seen

(* RewardsService.redeemPromo: one READ COMMITTED transaction.             *)

\* The redemptions of the code are counted, then those of the user, who has at
\* most one; an insert in flight is seen by neither.
PromoBegin(p, u, k) ==
    /\ Starts <= clock /\ clock <= Expires
    /\ Cap = 0 \/ Cardinality(redemptions) < Cap
    /\ Call(p, "rewards/promo", u, k, "own")
    /\ UNCHANGED seen

PromoOwn(p) ==
    /\ pc[p] = "own"
    /\ IF Redeemed(user[p]) THEN End(p) ELSE Go(p, "insert") /\ UNCHANGED args
    /\ UNCHANGED <<rows, clock, drift, sent, calls, faults>>

\* The insert of the redemption waits for one in flight of the same user.
PromoInsert(p) ==
    /\ pc[p] = "insert"
    /\ \A q \in Procs : pc[q] = "commit" => user[q] # user[p]
    /\ IF Redeemed(user[p]) THEN End(p) ELSE Go(p, "commit") /\ UNCHANGED args
    /\ UNCHANGED <<rows, clock, drift, sent, calls, faults>>

\* The credit joins the transaction.  A key of another reward makes it fail; one of a
\* promo row, whoever's, is taken for a replay of it.
PromoCommit(p) ==
    /\ pc[p] = "commit"
    /\ IF \E r \in Rows("daily") : r.key = key[p]
       THEN UNCHANGED rows
       ELSE /\ redemptions' = redemptions \cup {[user |-> user[p], key |-> key[p]]}
            /\ Credit(user[p], "promo", key[p])
    /\ End(p)
    /\ UNCHANGED <<clock, drift, sent, calls, faults>>

(* WalletService.redeemPromo: two counts of committed rows, in any order,  *)
(* then a credit whose key holds the second.                               *)

\* The moment a code expires is the last of it in the rewards route, and past it here.
PromoActive == Starts <= clock /\ clock < Expires

PromoCountAll(p, u) ==
    /\ PromoActive
    /\ Cap = 0 \/ Cardinality(Rows("promo")) < Cap
    /\ Call(p, "wallet/promo", u, <<>>, "count")
    /\ UNCHANGED seen

PromoCountOwn(p) ==
    LET n == Cardinality(RowsOf(user[p], "promo")) IN
    /\ pc[p] = "count"
    /\ IF n >= PerUser
       THEN End(p)
       ELSE seen' = [seen EXCEPT ![p] = n] /\ Go(p, "pay") /\ UNCHANGED <<user, key>>
    /\ UNCHANGED <<rows, clock, drift, sent, calls, faults>>

PromoKey(p) == <<"promo", user[p], seen[p]>>

PromoPay(p) ==
    /\ pc[p] = "pay"
    /\ Credit(user[p], "promo", PromoKey(p))
    /\ sent' = sent \cup {Asks(user[p], PromoKey(p), "wallet")}
    /\ End(p)
    /\ UNCHANGED <<redemptions, clock, drift, calls, faults>>

(* reconcile: the balance is read, then the ledger is summed.              *)

ReadBalance(p, u) ==
    /\ Call(p, "reconcile", u, <<>>, "sum")
    /\ seen' = [seen EXCEPT ![p] = balance[u]]

SumLedger(p) ==
    /\ pc[p] = "sum"
    /\ drift' = drift \cup {seen[p] - Cardinality({r \in ledger : r.user = user[p]})}
    /\ End(p)
    /\ UNCHANGED <<rows, clock, sent, calls, faults>>

Tick ==
    /\ clock < MaxClock
    /\ clock' = clock + 1
    /\ UNCHANGED <<rows, pc, args, drift, sent, calls, faults>>

\* A call dies; what its transaction has not committed goes with it.
Die(p) ==
    /\ pc[p] # "idle" /\ faults < MaxFaults
    /\ faults' = faults + 1
    /\ End(p)
    /\ UNCHANGED <<rows, clock, drift, sent, calls>>

Next ==
    \/ \E p \in Procs :
          \/ DailyCredit(p) \/ PromoOwn(p) \/ PromoInsert(p) \/ PromoCommit(p)
          \/ PromoCountOwn(p) \/ PromoPay(p) \/ SumLedger(p) \/ Die(p)
          \/ \E u \in Users :
                \/ DailyDay(p, u) \/ PromoCountAll(p, u) \/ ReadBalance(p, u)
                \/ \E k \in Keys : DailyLookup(p, u, k) \/ PromoBegin(p, u, k)
    \/ Tick

Spec == Init /\ [][Next]_vars
-----------------------------------------------------------------------------
\* Every reward granted is in the ledger under a key of its own, and counted in
\* the balance, and a user has one redemption of the code.
TypeOK ==
    /\ \A r \in ledger : r.user \in Users /\ r.kind \in {"daily", "promo"} /\ r.at <= clock
    /\ \A r, s \in ledger : r.key = s.key => r = s
    /\ balance = [u \in Users |-> Cardinality({r \in ledger : r.user = u})]
    /\ \A d \in redemptions : d.user \in Users
    /\ \A d, e \in redemptions : d.user = e.user => d = e
    /\ pc \in [Procs -> {"idle", "daily", "own", "insert", "commit", "count", "pay", "sum"}]
    /\ clock \in 0 .. MaxClock /\ calls \in 0 .. MaxCalls /\ faults \in 0 .. MaxFaults

\* "The redemption row and the coins must commit together" (rewards.service.ts
\* 84-85), whoever dies: a redemption has its user's coins under the key it was sent
\* with, unless another user has asked for coins under that key,
RedemptionsPaid ==
    \A d \in redemptions :
       (\A a \in sent : a.key = d.key => a.user = d.user)
       => \E r \in RowsOf(d.user, "promo") : r.key = d.key

\* which takes the coins of one of the two: a key is taken for a replay of any row of
\* its amount and type.
RedemptionsCredited == \A d \in redemptions : RowsOf(d.user, "promo") # {}

\* A header has been sent that is this key.
Forged(k) == \E a \in sent : a.by = "client" /\ a.key = k

\* "Once per day in the user's own timezone" (wallet.service.ts 452-453): a claim
\* is granted if the user has had no reward on this day of their own calendar, and
\* nobody has sent the key of the day as a header of their own.
GrantedEachDay ==
    \A p \in Procs :
       LET u == user[p] IN
       /\ DailyCredit(p)
       /\ key[p] = DailyKey(u) /\ ~Forged(key[p])
       /\ \A r \in RowsOf(u, "daily") : (r.at + Zone[u]) \div 2 < Today(u)
       => balance'[u] = balance[u] + 1

\* Another user's header takes the day.
GrantedWhateverKeys ==
    [][\A p \in Procs :
          LET u == user[p] IN
          /\ DailyCredit(p) /\ key[p] = DailyKey(u)
          /\ \A r \in RowsOf(u, "daily") : (r.at + Zone[u]) \div 2 < Today(u)
          => balance'[u] = balance[u] + 1]_vars

\* The caps of a promo code (wallet.service.ts 500-502: "under global and
\* per-user caps").
PerUserLimit == \A u \in Users : Cardinality(RowsOf(u, "promo")) <= PerUser
GlobalCap    == Cap # 0 => Cardinality(Rows("promo")) <= Cap

\* The daily reward is one per day, whichever route and key.
DailyOnce ==
    \A r, s \in Rows("daily") :
        r.user = s.user /\ r.at = s.at => r = s

\* "Any non-zero drift means something wrote balance outside this service, or a
\* ledger row was mutated" (wallet.service.ts 603-604), which nothing here does.
NoFalseDrift == drift \subseteq {0}
-----------------------------------------------------------------------------
(* Proofs, for any users, calendars, limits and numbers of calls and deaths. *)

\* A row is under a key its user has asked for.  If that key was not sent as a header,
\* WalletService made it, and the key of a day is no later than the day of the row, since
\* the day is read before the credit.
Named ==
    \A r \in ledger :
        /\ r.user \in Users /\ r.at \in Nat
        /\ \E a \in sent : a.user = r.user /\ a.key = r.key
        /\ ~Forged(r.key) =>
              \/ r.key[1] = "promo"
              \/ /\ r.kind = "daily" /\ r.key[2] = r.user
                 /\ r.key[3] <= (r.at + Zone[r.user]) \div 2

\* So is each credit a call is going to make, and a redemption that waits for its commit
\* is the only one of its user.
Calls ==
    /\ user \in [Procs -> Users] /\ DOMAIN key = Procs /\ DOMAIN seen = Procs
    /\ \A p \in Procs :
          /\ pc[p] \in {"own", "insert", "commit"} => Asks(user[p], key[p], "client") \in sent
          /\ pc[p] = "daily" =>
                \/ Asks(user[p], key[p], "client") \in sent
                \/ /\ Asks(user[p], key[p], "wallet") \in sent
                   /\ key[p][1] = "daily" /\ key[p][2] = user[p]
                   /\ key[p][3] \in Int /\ key[p][3] <= Today(user[p])
          /\ pc[p] = "commit" =>
                /\ ~Redeemed(user[p])
                /\ \A q \in Procs : pc[q] = "commit" /\ user[q] = user[p] => q = p

\* A redemption is of a promo row with its key.
Kept == \A d \in redemptions : \E r \in Rows("promo") : r.key = d.key

Inv == TypeOK /\ IsFiniteSet(ledger) /\ Named /\ Calls /\ Kept

\* A credit keeps the ledger and the balance together.
LEMMA CreditKeeps ==
    ASSUME RewardsAssumption, Inv, NEW u \in Users, NEW kind \in {"daily", "promo"}, NEW k,
           Credit(u, kind, k)
    PROVE  /\ IsFiniteSet(ledger') /\ ledger \subseteq ledger'
           /\ ledger' \subseteq ledger \cup {Row(u, kind, k)}
           /\ \A r, s \in ledger' : r.key = s.key => r = s
           /\ \E r \in ledger' : r.key = k
           /\ balance' = [v \in Users |-> Cardinality({r \in ledger' : r.user = v})]
<1>1. CASE Used(k)
  BY <1>1 DEF Credit, Used, Inv, TypeOK
<1>2. CASE ~Used(k)
  <2>. DEFINE row == Row(u, kind, k)
  <2>1. /\ ledger' = ledger \cup {row} /\ row \notin ledger /\ row.key = k /\ row.user = u
        /\ balance' = [balance EXCEPT ![u] = @ + 1]
    BY <1>2 DEF Credit, Used, Row
  <2>2. IsFiniteSet(ledger')
    BY <2>1, FS_AddElement DEF Inv
  <2>3. ASSUME NEW v \in Users
        PROVE  balance'[v] = Cardinality({r \in ledger' : r.user = v})
    <3>. DEFINE mine == {r \in ledger : r.user = v}
    <3>1. IsFiniteSet(mine)
      BY FS_Subset DEF Inv
    <3>2. CASE v = u
      <4>1. {r \in ledger' : r.user = v} = mine \cup {row} /\ row \notin mine
        BY <2>1, <3>2
      <4>2. Cardinality(mine \cup {row}) = Cardinality(mine) + 1
        BY <3>1, <4>1, FS_AddElement
      <4>3. balance'[v] = Cardinality(mine) + 1
        BY <2>1, <3>2 DEF Inv, TypeOK
      <4>4. Cardinality({r \in ledger' : r.user = v}) = Cardinality(mine \cup {row})
        BY <4>1, Zenon
      <4>. QED
        BY <4>2, <4>3, <4>4
    <3>3. CASE v # u
      <4>1. {r \in ledger' : r.user = v} = mine
        BY <2>1, <3>3
      <4>2. balance'[v] = Cardinality(mine)
        BY <2>1, <3>3 DEF Inv, TypeOK
      <4>. QED
        BY <4>1, <4>2, Zenon
    <3>. QED
      BY <3>2, <3>3
  <2>4. balance' = [v \in Users |-> balance'[v]]
    BY <2>1 DEF Inv, TypeOK
  <2>5. balance' = [v \in Users |-> Cardinality({r \in ledger' : r.user = v})]
    BY <2>3, <2>4
  <2>6. \A r, s \in ledger' : r.key = s.key => r = s
    BY <1>2, <2>1 DEF Used, Inv, TypeOK
  <2>. QED
    BY <2>1, <2>2, <2>5, <2>6
<1>. QED
  BY <1>1, <1>2

\* The initial states.
LEMMA InvInit == ASSUME RewardsAssumption, Init PROVE Inv
<1>1. (CHOOSE u \in Users : TRUE) \in Users
  BY DEF RewardsAssumption
<1>2. balance = [u \in Users |-> Cardinality({r \in ledger : r.user = u})]
  <2>1. \A u \in Users : {r \in ledger : r.user = u} = {}
    BY DEF Init
  <2>. QED
    BY <2>1, FS_EmptySet DEF Init
<1>. QED
  BY <1>1, <1>2, FS_EmptySet DEF Init, Inv, TypeOK, Named, Calls, Kept, RewardsAssumption

\* A step that makes no row and no redemption, and of calls at most begins, moves on or
\* ends that of p, keeps what does not depend on that call.
Quiet(p) ==
    /\ UNCHANGED <<rows, clock>> /\ sent \subseteq sent'
    /\ \A q \in Procs \ {p} :
          pc'[q] = pc[q] /\ user'[q] = user[q] /\ key'[q] = key[q]

\* What Calls asks of one call.
Fits(p) ==
    /\ pc[p] \in {"own", "insert", "commit"} => Asks(user[p], key[p], "client") \in sent
    /\ pc[p] = "daily" =>
          \/ Asks(user[p], key[p], "client") \in sent
          \/ /\ Asks(user[p], key[p], "wallet") \in sent
             /\ key[p][1] = "daily" /\ key[p][2] = user[p]
             /\ key[p][3] \in Int /\ key[p][3] <= Today(user[p])
    /\ pc[p] = "commit" =>
          /\ ~Redeemed(user[p])
          /\ \A q \in Procs : pc[q] = "commit" /\ user[q] = user[p] => q = p

\* Who asks and under which key.
LEMMA AsksFields ==
    ASSUME NEW S, NEW u, NEW k, NEW by, Asks(u, k, by) \in S
    PROVE  /\ \E a \in S : a.user = u /\ a.key = k
           /\ \E a \in S : a.by = by /\ a.key = k
<1>1. /\ Asks(u, k, by).user = u /\ Asks(u, k, by).key = k /\ Asks(u, k, by).by = by
  BY DEF Asks
<1>. QED
  BY <1>1

\* A credit of a key that was asked for keeps the rows named.
LEMMA NamedKept ==
    ASSUME RewardsAssumption, Inv, NEW u \in Users, NEW kind \in {"daily", "promo"}, NEW k,
           Credit(u, kind, k), UNCHANGED clock, sent \subseteq sent',
           \E a \in sent' : a.user = u /\ a.key = k,
           \/ Forged(k)' \/ k[1] = "promo"
           \/ kind = "daily" /\ k[2] = u /\ k[3] \in Int /\ k[3] <= Today(u)
    PROVE  Named'
<1>1. ledger' \subseteq ledger \cup {Row(u, kind, k)}
  BY CreditKeeps
<1>2. ASSUME NEW r \in ledger
      PROVE  /\ r.user \in Users /\ r.at \in Nat
             /\ \E a \in sent' : a.user = r.user /\ a.key = r.key
             /\ ~Forged(r.key)' =>
                   \/ r.key[1] = "promo"
                   \/ /\ r.kind = "daily" /\ r.key[2] = r.user
                      /\ r.key[3] <= (r.at + Zone[r.user]) \div 2
  BY DEF Inv, Named, Forged
<1>3. /\ Row(u, kind, k).user = u /\ Row(u, kind, k).kind = kind
      /\ Row(u, kind, k).key = k /\ Row(u, kind, k).at = clock
  BY DEF Row
<1>4. clock \in Nat
  BY DEF Inv, TypeOK, RewardsAssumption
<1>. QED
  BY <1>1, <1>2, <1>3, <1>4 DEF Named, Today

\* What moves no coins keeps the rest, if it keeps the call that moves.
LEMMA QuietKeeps ==
    ASSUME RewardsAssumption, Inv, NEW p \in Procs, Quiet(p), TypeOK',
           user' \in [Procs -> Users], DOMAIN key' = Procs, DOMAIN seen' = Procs, Fits(p)'
    PROVE  Inv'
<1>1. Named'
  BY DEF Inv, Named, Quiet, Forged, rows
<1>2. Kept' /\ IsFiniteSet(ledger')
  BY DEF Inv, Kept, Quiet, rows, Rows
<1>3. ASSUME NEW q \in Procs, q # p PROVE Fits(q)'
  <2>1. Fits(q)
    BY DEF Inv, Calls, Fits
  <2>2. pc'[q] = pc[q] /\ user'[q] = user[q] /\ key'[q] = key[q] /\ redemptions' = redemptions
        /\ clock' = clock /\ sent \subseteq sent'
    BY <1>3 DEF Quiet, rows
  <2>3. ASSUME pc'[q] = "commit", NEW r \in Procs, pc'[r] = "commit", user'[r] = user'[q]
        PROVE  r = q
    <3>1. CASE r = p
      BY <2>3, <3>1 DEF Fits
    <3>2. CASE r # p
      BY <2>1, <2>2, <2>3, <3>2 DEF Fits, Quiet
    <3>. QED
      BY <3>1, <3>2
  <2>. QED
    BY <2>1, <2>2, <2>3 DEF Fits, Today, Asks, Redeemed
<1>4. Calls'
  BY <1>3 DEF Calls, Fits
<1>. QED
  BY <1>1, <1>2, <1>4 DEF Inv

\* A credit of a key that was asked for, with the call that made it, keeps the rest.
LEMMA PaidKeeps ==
    ASSUME RewardsAssumption, Inv, NEW p \in Procs, NEW kind \in {"daily", "promo"}, NEW k,
           Credit(user[p], kind, k), End(p), UNCHANGED <<redemptions, clock, calls, faults>>,
           sent \subseteq sent', \E a \in sent' : a.user = user[p] /\ a.key = k,
           \/ Forged(k)' \/ k[1] = "promo"
           \/ kind = "daily" /\ k[2] = user[p] /\ k[3] \in Int /\ k[3] <= Today(user[p])
    PROVE  Inv'
<1>. (CHOOSE u \in Users : TRUE) \in Users /\ user[p] \in Users
  BY DEF RewardsAssumption, Inv, Calls
<1>1. /\ IsFiniteSet(ledger') /\ ledger \subseteq ledger'
      /\ ledger' \subseteq ledger \cup {Row(user[p], kind, k)}
      /\ \A r, s \in ledger' : r.key = s.key => r = s
      /\ balance' = [v \in Users |-> Cardinality({r \in ledger' : r.user = v})]
  BY CreditKeeps
<1>2. TypeOK'
  BY <1>1 DEF Inv, TypeOK, Row, End, Go, RewardsAssumption
<1>3. Named'
  BY NamedKept
<1>4. Kept'
  BY <1>1 DEF Inv, Kept, Rows
<1>5. Calls'
  BY DEF Inv, TypeOK, Calls, End, Go, Today, Asks, Redeemed
<1>. QED
  BY <1>1, <1>2, <1>3, <1>4, <1>5 DEF Inv

\* Each step keeps rows, redemptions and calls with what was asked for.
LEMMA InvStep == ASSUME RewardsAssumption, Inv, [Next]_vars PROVE Inv'
<1>. USE DEF Go, rows, args
<1>0. (CHOOSE u \in Users : TRUE) \in Users
  BY DEF RewardsAssumption
<1>a. TypeOK /\ user \in [Procs -> Users] /\ DOMAIN key = Procs /\ DOMAIN seen = Procs
      /\ \A p \in Procs : Fits(p)
  BY DEF Inv, Calls, Fits
<1>e. ASSUME NEW p \in Procs, End(p), UNCHANGED <<rows, clock, calls, sent>>,
             faults' \in 0 .. MaxFaults
      PROVE  Inv'
  <2>1. TypeOK' /\ Quiet(p) /\ Fits(p)'
    BY <1>a, <1>e DEF TypeOK, Quiet, End, Fits
  <2>. QED
    BY <1>0, <1>a, <1>e, <2>1, QuietKeeps DEF End
<1>1. ASSUME NEW p \in Procs, DailyCredit(p) PROVE Inv'
  <2>1. /\ \E a \in sent' : a.user = user[p] /\ a.key = key[p]
        /\ \/ \E a \in sent' : a.by = "client" /\ a.key = key[p]
           \/ key[p][2] = user[p] /\ key[p][3] \in Int /\ key[p][3] <= Today(user[p])
    <3>1. pc[p] = "daily" /\ Fits(p) /\ sent' = sent
      BY <1>a, <1>1 DEF DailyCredit
    <3>2. CASE Asks(user[p], key[p], "client") \in sent
      BY <3>1, <3>2, AsksFields
    <3>3. CASE /\ Asks(user[p], key[p], "wallet") \in sent
               /\ key[p][1] = "daily" /\ key[p][2] = user[p]
               /\ key[p][3] \in Int /\ key[p][3] <= Today(user[p])
      BY <3>1, <3>3, AsksFields
    <3>. QED
      BY <3>1, <3>2, <3>3 DEF Fits
  <2>2. /\ Credit(user[p], "daily", key[p]) /\ End(p) /\ sent \subseteq sent'
        /\ UNCHANGED <<redemptions, clock, calls, faults>>
    BY <1>1 DEF DailyCredit
  <2>3. PICK kind \in {"daily", "promo"} : kind = "daily"
    OBVIOUS
  <2>4. PICK k : k = key[p]
    OBVIOUS
  <2>5. /\ \E a \in sent' : a.user = user[p] /\ a.key = k
        /\ \/ Forged(k)' \/ k[1] = "promo"
           \/ kind = "daily" /\ k[2] = user[p] /\ k[3] \in Int /\ k[3] <= Today(user[p])
    BY <2>1, <2>3, <2>4 DEF Forged
  <2>6. Credit(user[p], kind, k)
    BY <2>2, <2>3, <2>4
  <2>. QED
    BY <2>2, <2>5, <2>6, PaidKeeps
<1>2. ASSUME NEW p \in Procs, PromoOwn(p) PROVE Inv'
  <2>1. CASE Redeemed(user[p])
    BY <1>a, <1>e, <1>2, <2>1 DEF PromoOwn, TypeOK
  <2>2. CASE ~Redeemed(user[p])
    <3>1. TypeOK' /\ Quiet(p) /\ Fits(p)'
      BY <1>a, <1>2, <2>2 DEF PromoOwn, TypeOK, Quiet, Fits
    <3>. QED
      BY <1>a, <1>2, <2>2, <3>1, QuietKeeps DEF PromoOwn
  <2>. QED
    BY <2>1, <2>2
<1>3. ASSUME NEW p \in Procs, PromoInsert(p) PROVE Inv'
  <2>1. CASE Redeemed(user[p])
    BY <1>a, <1>e, <1>3, <2>1 DEF PromoInsert, TypeOK
  <2>2. CASE ~Redeemed(user[p])
    <3>1. TypeOK' /\ Quiet(p)
      BY <1>a, <1>3, <2>2 DEF PromoInsert, TypeOK, Quiet
    <3>2. Fits(p)'
      BY <1>a, <1>3, <2>2 DEF PromoInsert, TypeOK, Fits, Redeemed
    <3>. QED
      BY <1>a, <1>3, <2>2, <3>1, <3>2, QuietKeeps DEF PromoInsert
  <2>. QED
    BY <2>1, <2>2
<1>4. ASSUME NEW p \in Procs, PromoCommit(p) PROVE Inv'
  <2>1. CASE \E r \in Rows("daily") : r.key = key[p]
    BY <1>a, <1>e, <1>4, <2>1 DEF PromoCommit, TypeOK
  <2>2. CASE ~ \E r \in Rows("daily") : r.key = key[p]
    <3>. DEFINE new == [user |-> user[p], key |-> key[p]]
    <3>1. /\ redemptions' = redemptions \cup {new} /\ Credit(user[p], "promo", key[p])
          /\ End(p) /\ UNCHANGED <<clock, sent, calls, faults>>
          /\ ~Redeemed(user[p]) /\ Asks(user[p], key[p], "client") \in sent
          /\ \A q \in Procs : pc[q] = "commit" /\ user[q] = user[p] => q = p
          /\ user[p] \in Users
      BY <1>a, <1>4, <2>2 DEF PromoCommit, Fits
    <3>2. /\ IsFiniteSet(ledger') /\ ledger \subseteq ledger'
          /\ ledger' \subseteq ledger \cup {Row(user[p], "promo", key[p])}
          /\ \A r, s \in ledger' : r.key = s.key => r = s
          /\ \E r \in ledger' : r.key = key[p]
          /\ balance' = [v \in Users |-> Cardinality({r \in ledger' : r.user = v})]
      BY <3>1, CreditKeeps
    <3>3. (\A d \in redemptions' : d.user \in Users)
          /\ (\A d, e \in redemptions' : d.user = e.user => d = e)
      BY <1>a, <3>1 DEF TypeOK, Redeemed
    <3>4. TypeOK'
      BY <1>a, <3>1, <3>2, <3>3 DEF TypeOK, Row, End, RewardsAssumption
    <3>5. Named'
      <4>1. /\ \E a \in sent' : a.by = "client" /\ a.key = key[p]
            /\ \E a \in sent' : a.user = user[p] /\ a.key = key[p]
        BY <3>1, AsksFields
      <4>2. PICK kind \in {"daily", "promo"} : kind = "promo"
        OBVIOUS
      <4>3. PICK k : k = key[p]
        OBVIOUS
      <4>4. Credit(user[p], kind, k) /\ UNCHANGED clock /\ sent \subseteq sent'
        BY <3>1, <4>2, <4>3
      <4>5. PICK u \in Users : u = user[p]
        BY <3>1
      <4>6. /\ \E a \in sent' : a.user = u /\ a.key = k
            /\ \/ Forged(k)' \/ k[1] = "promo"
               \/ kind = "daily" /\ k[2] = u /\ k[3] \in Int /\ k[3] <= Today(u)
        BY <4>1, <4>3, <4>5 DEF Forged
      <4>7. Credit(u, kind, k)
        BY <4>4, <4>5
      <4>. QED
        BY <4>4, <4>6, <4>7, NamedKept
    <3>6. Kept'
      <4>1. PICK r \in ledger' : r.key = key[p]
        BY <3>2
      <4>2. r.kind = "promo"
        BY <1>a, <2>2, <3>2, <4>1 DEF Rows, Row, TypeOK
      <4>. QED
        BY <3>1, <3>2, <4>1, <4>2 DEF Inv, Kept, Rows
    <3>7. Calls'
      <4>1. ASSUME NEW q \in Procs PROVE Fits(q)'
        <5>1. CASE q = p
          BY <1>a, <3>1, <5>1 DEF Fits, End, TypeOK
        <5>2. CASE q # p
          <6>1. /\ pc'[q] = pc[q] /\ user'[q] = user[q] /\ key'[q] = key[q]
                /\ clock' = clock /\ sent' = sent /\ pc'[p] = "idle"
            BY <1>a, <3>1, <5>2 DEF End, TypeOK
          <6>2. ASSUME pc[q] = "commit" PROVE ~Redeemed(user[q])'
            <7>1. ~Redeemed(user[q]) /\ user[q] # user[p] /\ user'[q] = user[q]
              BY <1>a, <3>1, <5>2, <6>1, <6>2 DEF Fits
            <7>2. redemptions' = redemptions \cup {new} /\ new.user = user[p]
              BY <3>1
            <7>. QED
              BY <7>1, <7>2 DEF Redeemed
          <6>3. ASSUME pc[q] = "commit", NEW r \in Procs, pc'[r] = "commit", user'[r] = user[q]
                PROVE  r = q
            <7>1. r # p /\ pc'[r] = pc[r] /\ user'[r] = user[r]
              BY <1>a, <3>1, <6>1, <6>3 DEF End, TypeOK
            <7>. QED
              BY <1>a, <6>3, <7>1 DEF Fits
          <6>. QED
            BY <1>a, <6>1, <6>2, <6>3 DEF Fits, Today, Asks, Redeemed
        <5>. QED
          BY <5>1, <5>2
      <4>. QED
        BY <1>0, <1>a, <3>1, <4>1 DEF Calls, Fits, End
    <3>. QED
      BY <3>2, <3>4, <3>5, <3>6, <3>7 DEF Inv
  <2>. QED
    BY <2>1, <2>2
<1>5. ASSUME NEW p \in Procs, PromoCountOwn(p) PROVE Inv'
  <2>1. CASE Cardinality(RowsOf(user[p], "promo")) >= PerUser
    BY <1>a, <1>e, <1>5, <2>1 DEF PromoCountOwn, TypeOK
  <2>2. CASE ~ (Cardinality(RowsOf(user[p], "promo")) >= PerUser)
    <3>1. TypeOK' /\ Quiet(p) /\ Fits(p)'
      BY <1>a, <1>5, <2>2 DEF PromoCountOwn, TypeOK, Quiet, Fits
    <3>. QED
      BY <1>a, <1>5, <2>2, <3>1, QuietKeeps DEF PromoCountOwn
  <2>. QED
    BY <2>1, <2>2
<1>6. ASSUME NEW p \in Procs, PromoPay(p) PROVE Inv'
  <2>1. /\ \E a \in sent' : a.user = user[p] /\ a.key = PromoKey(p)
        /\ PromoKey(p)[1] = "promo"
    <3>1. Asks(user[p], PromoKey(p), "wallet") \in sent'
      BY <1>6 DEF PromoPay
    <3>2. /\ Asks(user[p], PromoKey(p), "wallet").user = user[p]
          /\ Asks(user[p], PromoKey(p), "wallet").key = PromoKey(p)
      BY DEF Asks
    <3>3. PromoKey(p)[1] = "promo"
      BY DEF PromoKey
    <3>. QED
      BY <3>1, <3>2, <3>3
  <2>2. /\ Credit(user[p], "promo", PromoKey(p)) /\ End(p) /\ sent \subseteq sent'
        /\ UNCHANGED <<redemptions, clock, calls, faults>>
    BY <1>6 DEF PromoPay
  <2>3. PICK kind \in {"daily", "promo"} : kind = "promo"
    OBVIOUS
  <2>4. PICK k : k = PromoKey(p)
    OBVIOUS
  <2>. QED
    BY <2>1, <2>2, <2>3, <2>4, PaidKeeps
<1>7. ASSUME NEW p \in Procs, SumLedger(p) PROVE Inv'
  BY <1>a, <1>e, <1>7 DEF SumLedger, TypeOK
<1>8. ASSUME NEW p \in Procs, Die(p) PROVE Inv'
  BY <1>a, <1>e, <1>8 DEF Die, TypeOK, RewardsAssumption
<1>c. ASSUME NEW p \in Procs, NEW route, NEW u \in Users, NEW k, NEW where,
             Call(p, route, u, k, where), DOMAIN seen' = Procs,
             \/ where \in {"count", "sum"}
             \/ /\ where \in {"daily", "own"} /\ route \in {"rewards/daily", "rewards/promo"}
                /\ k # <<>>
             \/ /\ where = "daily" /\ k = DailyKey(u) /\ route = "wallet/daily"
      PROVE  Inv'
  <2>1. TypeOK' /\ Quiet(p)
    BY <1>a, <1>c DEF TypeOK, Call, Quiet, RewardsAssumption
  <2>2. Fits(p)'
    <3>1. CASE where \in {"count", "sum"}
      BY <1>a, <1>c, <3>1 DEF TypeOK, Call, Fits
    <3>2. CASE where \in {"daily", "own"} /\ route \in {"rewards/daily", "rewards/promo"}
               /\ k # <<>>
      BY <1>a, <1>c, <3>2 DEF TypeOK, Call, Fits
    <3>3. CASE where = "daily" /\ k = DailyKey(u) /\ route = "wallet/daily"
      <4>1. Today(u) \in Int /\ k[1] = "daily" /\ k[2] = u /\ k[3] = Today(u) /\ k # <<>>
        BY <1>a, <3>3 DEF TypeOK, DailyKey, Today, RewardsAssumption
      <4>. QED
        <5>1. Asks(u, k, "wallet") \in sent'
          BY <1>c, <3>3, <4>1 DEF Call
        <5>2. pc'[p] = "daily" /\ user'[p] = u /\ key'[p] = k /\ Today(u)' = Today(u)
          BY <1>a, <1>c, <3>3 DEF TypeOK, Call, Today
        <5>. QED
          BY <4>1, <5>1, <5>2 DEF Fits, Today, Asks
    <3>. QED
      BY <1>c, <3>1, <3>2, <3>3
  <2>. QED
    BY <1>a, <1>c, <2>1, <2>2, QuietKeeps DEF Call
<1>9. ASSUME NEW p \in Procs, NEW u \in Users, DailyDay(p, u) PROVE Inv'
  BY <1>a, <1>c, <1>9 DEF DailyDay
<1>10. ASSUME NEW p \in Procs, NEW u \in Users, PromoCountAll(p, u) PROVE Inv'
  BY <1>a, <1>c, <1>10 DEF PromoCountAll
<1>11. ASSUME NEW p \in Procs, NEW u \in Users, ReadBalance(p, u) PROVE Inv'
  BY <1>a, <1>c, <1>11 DEF ReadBalance
<1>12. ASSUME NEW p \in Procs, NEW u \in Users, NEW k \in Keys, DailyLookup(p, u, k)
       PROVE  Inv'
  BY <1>a, <1>c, <1>12 DEF DailyLookup, RewardsAssumption
<1>13. ASSUME NEW p \in Procs, NEW u \in Users, NEW k \in Keys, PromoBegin(p, u, k)
       PROVE  Inv'
  BY <1>a, <1>c, <1>13 DEF PromoBegin, RewardsAssumption
<1>14. CASE Tick
  <2>1. \A u \in Users : Today(u) \in Int /\ Today(u)' \in Int /\ Today(u) <= Today(u)'
    BY <1>a, <1>14 DEF Tick, Today, TypeOK, RewardsAssumption
  <2>2. TypeOK'
    <3>1. clock \in Nat /\ MaxClock \in Nat /\ clock' = clock + 1 /\ clock < MaxClock
      BY <1>a, <1>14 DEF Tick, TypeOK, RewardsAssumption
    <3>2. \A r \in ledger : r.at \in Nat
      BY DEF Inv, Named
    <3>. QED
      BY <1>a, <1>14, <3>1, <3>2 DEF Tick, TypeOK
  <2>3. Named' /\ Kept' /\ IsFiniteSet(ledger')
    BY <1>14 DEF Tick, Inv, Named, Kept, Forged, Rows
  <2>4. ASSUME NEW q \in Procs PROVE Fits(q)'
    BY <1>a, <1>14, <2>1 DEF Tick, Fits, Asks, Redeemed
  <2>5. Calls'
    BY <1>a, <1>14, <2>4 DEF Tick, Calls, Fits
  <2>. QED
    BY <2>2, <2>3, <2>5 DEF Inv
<1>15. CASE UNCHANGED vars
  BY <1>15 DEF vars, Inv, TypeOK, Named, Calls, Kept, Today, Forged, Rows, Asks, Redeemed
<1>. QED
  BY <1>1, <1>2, <1>3, <1>4, <1>5, <1>6, <1>7, <1>8, <1>9, <1>10, <1>11, <1>12,
     <1>13, <1>14, <1>15 DEF Next

\* The inductive invariant.
LEMMA InvHolds == ASSUME RewardsAssumption PROVE Spec => []Inv
<1>1. Init => Inv
  BY InvInit
<1>2. Inv /\ [Next]_vars => Inv'
  BY InvStep
<1>. QED
  BY <1>1, <1>2, PTL DEF Spec

\* The ledger takes a key once and the balance counts it, and who has a redemption has
\* its coins, whoever dies and whatever keys the clients choose, another user's included,
\* unless two users ask under one key (WalletService.credit, RewardsService.redeemPromo).
THEOREM RedemptionsWhole ==
    ASSUME RewardsAssumption PROVE Spec => [](TypeOK /\ RedemptionsPaid)
<1>1. Inv => RedemptionsPaid
  BY DEF Inv, Kept, Named, RedemptionsPaid, Rows, RowsOf
<1>2. Inv => TypeOK
  BY DEF Inv
<1>. QED
  BY <1>1, <1>2, InvHolds, PTL

\* A claim of a day that has given nothing yet and whose key nobody has sent as a header is
\* granted, in every calendar and whenever midnight falls between the read of the day and
\* the credit, whatever other headers were sent (WalletService.claimDailyReward).
THEOREM DayIsGranted ==
    ASSUME RewardsAssumption PROVE Spec => [][GrantedEachDay]_vars
<1>1. ASSUME Inv, NEW p \in Procs, DailyCredit(p), key[p] = DailyKey(user[p]), ~Forged(key[p]),
             \A r \in RowsOf(user[p], "daily") : (r.at + Zone[user[p]]) \div 2 < Today(user[p])
      PROVE  balance'[user[p]] = balance[user[p]] + 1
  <2>1. user[p] \in Users /\ Today(user[p]) \in Int
    BY <1>1 DEF Inv, TypeOK, Calls, Today, RewardsAssumption
  <2>2. ~Used(key[p])
    <3>. SUFFICES ASSUME NEW r \in ledger, r.key = key[p] PROVE FALSE
      BY DEF Used
    <3>1. r.key[1] = "daily" /\ r.key[2] = user[p] /\ r.key[3] = Today(user[p])
      BY <1>1 DEF DailyKey
    <3>2. /\ r.user = user[p] /\ r.kind = "daily" /\ r.at \in Nat
          /\ Today(user[p]) <= (r.at + Zone[user[p]]) \div 2
      BY <1>1, <3>1 DEF Inv, Named
    <3>3. (r.at + Zone[user[p]]) \div 2 \in Int
      BY <2>1, <3>2 DEF RewardsAssumption
    <3>4. r \in RowsOf(user[p], "daily")
      BY <3>2 DEF RowsOf, Rows
    <3>. QED
      BY <1>1, <2>1, <3>2, <3>3, <3>4
  <2>. QED
    BY <1>1, <2>1, <2>2 DEF DailyCredit, Credit, Inv, TypeOK
<1>2. Inv => GrantedEachDay
  BY <1>1 DEF GrantedEachDay
<1>. QED
  BY <1>2, InvHolds, PTL

\* Through the wallet's route alone, the keys are numbered below the limit.
Numbered ==
    /\ \A r \in Rows("promo") : \E n \in 0 .. PerUser - 1 : r.key = <<"promo", r.user, n>>
    /\ \A p \in Procs :
          /\ pc[p] = "pay" => seen[p] \in 0 .. PerUser - 1
          /\ pc[p] \notin {"own", "insert", "commit"}

\* A count below the limit makes a key below the limit.
LEMMA NumberedStep ==
    ASSUME RewardsAssumption, "rewards/promo" \notin Routes, Inv, Numbered, [Next]_vars
    PROVE  Numbered'
<1>a. /\ pc \in [Procs -> {"idle", "daily", "own", "insert", "commit", "count", "pay", "sum"}]
      /\ IsFiniteSet(ledger) /\ DOMAIN seen = Procs /\ clock \in Nat
  BY DEF Inv, TypeOK, Calls, RewardsAssumption
<1>. USE <1>a DEF Numbered, RowsOf, Rows, Go, rows, args
<1>1. ASSUME NEW p \in Procs, DailyCredit(p) PROVE Numbered'
  <2>1. Credit(user[p], "daily", key[p]) /\ End(p)
    BY <1>1 DEF DailyCredit
  <2>2. \A r \in ledger' : r \in ledger \/ r = Row(user[p], "daily", key[p])
    BY <2>1 DEF Credit
  <2>. QED
    BY <2>1, <2>2 DEF End, Row
<1>2. ASSUME NEW p \in Procs, PromoOwn(p) \/ PromoInsert(p) \/ PromoCommit(p) PROVE Numbered'
  BY <1>2 DEF PromoOwn, PromoInsert, PromoCommit
<1>3. ASSUME NEW p \in Procs, PromoCountOwn(p) PROVE Numbered'
  <2>. DEFINE n == Cardinality(RowsOf(user[p], "promo"))
  <2>1. n \in Nat
    BY FS_Subset, FS_CardinalityType
  <2>2. CASE n >= PerUser
    BY <1>3, <2>2 DEF PromoCountOwn, End
  <2>3. CASE ~ (n >= PerUser)
    <3>1. n \in 0 .. PerUser - 1
      BY <2>1, <2>3 DEF RewardsAssumption
    <3>. QED
      BY <1>3, <2>3, <3>1 DEF PromoCountOwn
  <2>. QED
    BY <2>2, <2>3
<1>4. ASSUME NEW p \in Procs, PromoPay(p) PROVE Numbered'
  <2>1. \A r \in ledger' : r \in ledger \/ r = Row(user[p], "promo", PromoKey(p))
    BY <1>4 DEF PromoPay, Credit
  <2>2. seen[p] \in 0 .. PerUser - 1
    BY <1>4 DEF PromoPay
  <2>. QED
    BY <1>4, <2>1, <2>2 DEF PromoPay, PromoKey, Row, End
<1>5. ASSUME NEW p \in Procs, SumLedger(p) \/ Die(p) PROVE Numbered'
  BY <1>5 DEF SumLedger, Die, End
<1>6. ASSUME NEW p \in Procs, NEW u \in Users,
             DailyDay(p, u) \/ PromoCountAll(p, u) \/ ReadBalance(p, u)
      PROVE  Numbered'
  BY <1>6 DEF DailyDay, PromoCountAll, ReadBalance, Call
<1>7. ASSUME NEW p \in Procs, NEW u \in Users, NEW k \in Keys,
             DailyLookup(p, u, k) \/ PromoBegin(p, u, k)
      PROVE  Numbered'
  BY <1>7 DEF DailyLookup, PromoBegin, Call
<1>8. CASE Tick \/ UNCHANGED vars
  BY <1>8 DEF Tick, vars
<1>. QED
  BY <1>1, <1>2, <1>3, <1>4, <1>5, <1>6, <1>7, <1>8 DEF Next

\* Two counts that see the same number make the same key, so the limit per user holds
\* however many calls race (WalletService.redeemPromo); the rewards route, which has no
\* such key, would give one more.
THEOREM LimitPerUser ==
    ASSUME RewardsAssumption, "rewards/promo" \notin Routes PROVE Spec => []PerUserLimit
<1>1. Init => Numbered
  BY DEF Init, Numbered, Rows
<1>2. Inv /\ Numbered /\ [Next]_vars => Numbered'
  BY NumberedStep
<1>3. Inv /\ Numbered => PerUserLimit
  <2>. SUFFICES ASSUME Inv, Numbered, NEW u \in Users
                PROVE  Cardinality(RowsOf(u, "promo")) <= PerUser
    BY DEF PerUserLimit
  <2>. DEFINE S == RowsOf(u, "promo")
              T == 0 .. PerUser - 1
              f == [r \in S |-> r.key[3]]
  <2>1. IsFiniteSet(T) /\ Cardinality(T) = PerUser
    BY FS_Interval DEF RewardsAssumption
  <2>2. ASSUME NEW r \in S PROVE r.key = <<"promo", u, f[r]>> /\ f[r] \in T
    BY DEF Numbered, RowsOf, Rows
  <2>3. f \in [S -> T]
    BY <2>2
  <2>4. ASSUME NEW r \in S, NEW s \in S, f[r] = f[s] PROVE r = s
    <3>1. r.key = s.key
      <4>1. r.key = <<"promo", u, f[r]>> /\ s.key = <<"promo", u, f[s]>>
        BY <2>2
      <4>. QED
        BY <4>1, <2>4
    <3>2. r \in ledger /\ s \in ledger
      BY DEF RowsOf, Rows
    <3>. QED
      BY <3>1, <3>2 DEF Inv, TypeOK
  <2>. HIDE DEF S, T, f
  <2>5. f \in Injection(S, T)
    BY <2>3, <2>4 DEF Injection, IsInjective
  <2>. QED
    BY <2>1, <2>5, FS_Injection DEF S
<1>. QED
  BY <1>1, <1>2, <1>3, InvHolds, PTL DEF Spec

=============================================================================
