------------------------------- MODULE Wallet -------------------------------
(***************************************************************************)
(* The money path: WalletService.mutate / applyMovement of the API and     *)
(* creditWinnings of the game engine, the two writers of the tables        *)
(* virtual_wallets and wallet_ledgers.                                     *)
(*                                                                         *)
(* One process is one database transaction that makes one movement.  Each  *)
(* statement it sends to PostgreSQL is a step of its own, so statements of *)
(* different transactions interleave.  The API runs at READ COMMITTED, the *)
(* engine at SERIALIZABLE (its reads see the snapshot of its first         *)
(* statement).  Rows a transaction has written but not committed are not   *)
(* stored: its program counter and the balance it read determine them.     *)
(* The audit row of an API movement is written in the transaction of the   *)
(* ledger row and repeats it, so the ledger row stands for both.           *)
(***************************************************************************)
EXTENDS Integers, Sequences

CONSTANTS Users,      \* accounts
          Wallets,    \* the accounts that have a row in virtual_wallets
          Procs,      \* transactions that can be open at the same time
          Keys,       \* idempotency keys
          Types,      \* the LedgerType of a movement
          Requests,   \* the movements callers may ask for
          None,       \* the owner of a row nobody has locked
          MaxCalls    \* bound: movements asked for in one behaviour

Request == [writer : {"api", "engine"}, user : Users, key : Keys,
            type : Types, amount : Int]

\* mutate refuses an amount that is not positive before a transaction opens;
\* amount here is signed, a debit is negative.  The engine only credits.
ASSUME WalletAssumption ==
    /\ Wallets \subseteq Users
    /\ None \notin Procs
    /\ MaxCalls \in Nat
    /\ Requests \subseteq Request /\ Requests # {}
    /\ \A r \in Requests : /\ r.amount # 0
                           /\ r.writer = "engine" => r.amount > 0

VARIABLES
    ledger,    \* committed ledger rows of each account, oldest first
    balance,   \* committed virtual_wallets.balance
    lock,      \* the transaction that holds the row lock of a wallet
    pc,        \* the next statement of a transaction
    req,       \* the movement it makes
    before,    \* balanceBefore, read under the row lock
    snapshot,  \* how much of each ledger a SERIALIZABLE transaction sees
    outcome,   \* what the caller of the last movement was told
    calls      \* movements asked for so far

vars == <<ledger, balance, lock, pc, req, before, snapshot, outcome, calls>>

Row == [key : Keys, type : Types, amount : Int, before : Int, after : Int]

\* fault: a row without balanceAfter.
LedgerRowShort(r, b) ==
    [key |-> r.key, type |-> r.type, amount |-> r.amount, before |-> b]

LedgerRow(r, b) == [key |-> r.key, type |-> r.type, amount |-> r.amount,
                    before |-> b, after |-> b + r.amount]

Outcomes == {"none", "applied", "replayed", "keyReuse", "insufficient",
             "noWallet", "uniqueViolation", "failed"}

EmptySnapshot == [u \in Users |-> 0]

HasInserted(p) == pc[p] \in {"update", "commit"}

\* The unique index on idempotency_key, over committed rows.
Committed(k) == \E u \in Users : \E i \in 1 .. Len(ledger[u]) : ledger[u][i].key = k

-----------------------------------------------------------------------------
Init ==
    /\ ledger   = [u \in Users |-> <<>>]
    /\ balance  = [u \in Users |-> 0]
    /\ lock     = [u \in Users |-> None]
    /\ pc       = [p \in Procs |-> "idle"]
    /\ req      = [p \in Procs |-> CHOOSE r \in Requests : TRUE]
    /\ before   = [p \in Procs |-> 0]
    /\ snapshot = [p \in Procs |-> EmptySnapshot]
    /\ outcome  = [p \in Procs |-> "none"]
    /\ calls    = 0

\* fault: the wallet row stays locked.
EndLocked(p, o) ==
    /\ pc'       = [pc EXCEPT ![p] = "idle"]
    /\ outcome'  = [outcome EXCEPT ![p] = o]
    /\ before'   = [before EXCEPT ![p] = 0]
    /\ snapshot' = [snapshot EXCEPT ![p] = EmptySnapshot]
    /\ UNCHANGED <<req, calls, lock>>
\* COMMIT or ROLLBACK: row locks go with the transaction.

End(p, o) ==
    /\ pc'       = [pc EXCEPT ![p] = "idle"]
    /\ outcome'  = [outcome EXCEPT ![p] = o]
    /\ lock'     = [u \in Users |-> IF lock[u] = p THEN None ELSE lock[u]]
    /\ before'   = [before EXCEPT ![p] = 0]
    /\ snapshot' = [snapshot EXCEPT ![p] = EmptySnapshot]
    /\ UNCHANGED <<req, calls>>

Rollback(p, o) == End(p, o) /\ UNCHANGED <<ledger, balance>>

\* BEGIN.  A retry is a second Begin with the same request.
Begin(p, r) ==
    /\ pc[p] = "idle"
    /\ calls < MaxCalls
    /\ calls'    = calls + 1
    /\ pc'       = [pc EXCEPT ![p] = "check"]
    /\ req'      = [req EXCEPT ![p] = r]
    /\ outcome'  = [outcome EXCEPT ![p] = "none"]
    /\ snapshot' = IF r.writer = "engine"
                   THEN [snapshot EXCEPT ![p] = [u \in Users |-> Len(ledger[u])]]
                   ELSE snapshot
    /\ UNCHANGED <<ledger, balance, lock, before>>

\* findByIdempotencyKey: the rows with the caller's key it can see.  No lock is
\* held yet and the answer may be stale by the time it is used.
Visible(p, u) == IF req[p].writer = "engine" THEN snapshot[p][u] ELSE Len(ledger[u])

Existing(p) ==
    {row \in UNION {{ledger[u][i] : i \in 1 .. Visible(p, u)} : u \in Users} :
        row.key = req[p].key}

\* assertReplayMatches compares the signed amount and the type, nothing else.
ReplayMatches(row, r) == row.amount = r.amount /\ row.type = r.type

NoReplay(p) ==
    /\ pc[p] = "check"
    /\ Existing(p) = {}
    /\ pc' = [pc EXCEPT ![p] = "lock"]
    /\ UNCHANGED <<ledger, balance, lock, req, before, snapshot, outcome, calls>>

\* fault: the API does not compare either.
AnswerReplayBlindly(p) ==
    pc[p] = "check" /\ Existing(p) # {} /\ Rollback(p, "replayed")

\* The engine returns on any row with its key; the API compares first.
AnswerReplay(p) ==
    /\ pc[p] = "check"
    /\ \E row \in Existing(p) : req[p].writer = "engine" \/ ReplayMatches(row, req[p])
    /\ Rollback(p, "replayed")

RefuseReuse(p) ==
    /\ pc[p] = "check"
    /\ req[p].writer = "api"
    /\ \E row \in Existing(p) : ~ReplayMatches(row, req[p])
    /\ Rollback(p, "keyReuse")

\* SELECT ... FOR UPDATE finds no wallet.
NoWallet(p) ==
    /\ pc[p] = "lock"
    /\ req[p].user \notin Wallets
    /\ Rollback(p, "noWallet")

\* fault: a SELECT without FOR UPDATE.
CanLockAlways(p) ==
    pc[p] = "lock" /\ req[p].user \in Wallets

\* FOR UPDATE waits for the transaction that holds the row.
CanLock(p) ==
    /\ pc[p] = "lock"
    /\ req[p].user \in Wallets
    /\ lock[req[p].user] = None

\* A SERIALIZABLE transaction may not lock a row that changed after its
\* snapshot (SQLSTATE 40001); every change of a wallet row appends to its ledger.
WalletMoved(p) ==
    req[p].writer = "engine" /\ Len(ledger[req[p].user]) # snapshot[p][req[p].user]

SerializationFailure(p) ==
    /\ CanLock(p)
    /\ WalletMoved(p)
    /\ Rollback(p, "failed")

Solvent(p) == balance[req[p].user] + req[p].amount >= 0

RefuseInsolvent(p) ==
    /\ CanLock(p)
    /\ ~WalletMoved(p)
    /\ ~Solvent(p)
    /\ Rollback(p, "insufficient")

LockWallet(p) ==
    /\ CanLock(p)
    /\ ~WalletMoved(p)
    /\ Solvent(p)
    /\ lock'   = [lock EXCEPT ![req[p].user] = p]
    /\ before' = [before EXCEPT ![p] = balance[req[p].user]]
    /\ pc'     = [pc EXCEPT ![p] = "insert"]
    /\ UNCHANGED <<ledger, balance, req, snapshot, outcome, calls>>

\* fault: no unique index over open transactions.
CanInsertAlways(k) == TRUE

\* The insert waits while another open transaction has inserted the same key.
CanInsert(k) == \A q \in Procs : HasInserted(q) => req[q].key # k

InsertRow(p) ==
    /\ pc[p] = "insert"
    /\ ~Committed(req[p].key)
    /\ CanInsert(req[p].key)
    /\ pc' = [pc EXCEPT ![p] = "update"]
    /\ UNCHANGED <<ledger, balance, lock, req, before, snapshot, outcome, calls>>

\* P2002.  PostgreSQL aborts the transaction, so the look-up of the winner in
\* the catch block fails too (SQLSTATE 25P02): the caller is told of an error.
DuplicateKey(p) ==
    /\ pc[p] = "insert"
    /\ Committed(req[p].key)
    /\ Rollback(p, "uniqueViolation")

\* The API guards the update with the balance it read; the engine does not.
UpdateBalance(p) ==
    /\ pc[p] = "update"
    /\ IF req[p].writer = "api" /\ balance[req[p].user] # before[p]
       THEN Rollback(p, "failed")
       ELSE /\ pc' = [pc EXCEPT ![p] = "commit"]
            /\ UNCHANGED <<ledger, balance, lock, req, before, snapshot, outcome, calls>>

\* fault: the newest row is overwritten.
CommitUpsert(p) ==
    /\ pc[p] = "commit"
    /\ ledger'  = [ledger EXCEPT ![req[p].user] =
                      SubSeq(@, 1, Len(@) - 1) \o <<LedgerRow(req[p], before[p])>>]
    /\ balance' = [balance EXCEPT ![req[p].user] = before[p] + req[p].amount]
    /\ End(p, "applied")

Commit(p) ==
    /\ pc[p] = "commit"
    /\ ledger'  = [ledger EXCEPT ![req[p].user] =
                      Append(@, LedgerRow(req[p], before[p]))]
    /\ balance' = [balance EXCEPT ![req[p].user] = before[p] + req[p].amount]
    /\ End(p, "applied")

\* A timeout, a lost connection, a crash of the process, or a caller that
\* rolls back the transaction the movement was enlisted in.
Abort(p) == pc[p] # "idle" /\ Rollback(p, "failed")

Step(p) ==
    \/ NoReplay(p) \/ AnswerReplay(p) \/ RefuseReuse(p)
    \/ NoWallet(p) \/ SerializationFailure(p) \/ RefuseInsolvent(p) \/ LockWallet(p)
    \/ InsertRow(p) \/ DuplicateKey(p) \/ UpdateBalance(p) \/ Commit(p)

Next == \E p \in Procs : Step(p) \/ Abort(p) \/ \E r \in Requests : Begin(p, r)

Spec == Init /\ [][Next]_vars

\* The database answers every statement whose row or key is free.
FairSpec == Spec /\ \A p \in Procs : WF_vars(Step(p))

-----------------------------------------------------------------------------
(* Properties.                                                             *)

TypeOK ==
    /\ ledger   \in [Users -> Seq(Row)]
    /\ balance  \in [Users -> Int]
    /\ lock     \in [Users -> Procs \cup {None}]
    /\ pc       \in [Procs -> {"idle", "check", "lock", "insert", "update", "commit"}]
    /\ req      \in [Procs -> Requests]
    /\ before   \in [Procs -> Int]
    /\ snapshot \in [Procs -> [Users -> Nat]]
    /\ outcome  \in [Procs -> Outcomes]
    /\ calls    \in 0 .. MaxCalls

\* Invariant 4 of the class comment (wallet.service.ts:100-102): the rows of a
\* wallet form one chain from zero, each row starting where the last one ended
\* and moving by its amount, and the cached balance is where the chain ends.
GapFreeChain ==
    \A u \in Users :
        /\ \A i \in 1 .. Len(ledger[u]) :
              /\ ledger[u][i].before = IF i = 1 THEN 0 ELSE ledger[u][i - 1].after
              /\ ledger[u][i].after = ledger[u][i].before + ledger[u][i].amount
        /\ balance[u] = IF ledger[u] = <<>> THEN 0 ELSE ledger[u][Len(ledger[u])].after

\* Invariant 3 (97-99): no key moves coins twice, in one wallet or in two, however
\* the look-ups, inserts and commits of its callers interleave.
KeysMoveOnce ==
    \A u, v \in Users : \A i \in 1 .. Len(ledger[u]), j \in 1 .. Len(ledger[v]) :
        ledger[u][i].key = ledger[v][j].key => u = v /\ i = j

\* Invariant 6 (104): no committed balance, now or in the chain, is negative.
NeverNegative ==
    \A u \in Users :
        /\ balance[u] >= 0
        /\ \A i \in 1 .. Len(ledger[u]) : ledger[u][i].after >= 0

\* The three together: what the coins of the ledger always are.
Money == GapFreeChain /\ KeysMoveOnce /\ NeverNegative

\* What a caller was told stays true: "applied" means the movement is in the
\* caller's ledger; "replayed" means a row with that key is in some ledger and,
\* for the API, with the amount and type asked for.
AnswerTrue(p) ==
    /\ outcome[p] = "applied" =>
          \E i \in 1 .. Len(ledger[req[p].user]) :
              /\ ledger[req[p].user][i].key = req[p].key
              /\ ReplayMatches(ledger[req[p].user][i], req[p])
    /\ outcome[p] = "replayed" =>
          \E u \in Users : \E i \in 1 .. Len(ledger[u]) :
              /\ ledger[u][i].key = req[p].key
              /\ req[p].writer = "api" => ReplayMatches(ledger[u][i], req[p])

AnswersTrue == \A p \in Procs : AnswerTrue(p)

\* Invariants 1 and 2 (94-96): a committed row is never changed or removed, a
\* step appends at most one row in all, and a balance moves only with a row.
AppendStep ==
    /\ \A u \in Users :
          /\ Len(ledger'[u]) >= Len(ledger[u])
          /\ \A i \in 1 .. Len(ledger[u]) : ledger'[u][i] = ledger[u][i]
          /\ balance'[u] # balance[u] => Len(ledger'[u]) = Len(ledger[u]) + 1
    /\ \A u, v \in Users : ledger'[u] # ledger[u] /\ ledger'[v] # ledger[v] => u = v

AppendOnly == [][AppendStep]_vars

\* Every movement ends: no transaction waits for ever for a row or a key.
EveryCallEnds == \A p \in Procs : pc[p] # "idle" ~> pc[p] = "idle"

\* The movements behave like the atomic ones of AtomicLedger.
Atomic == INSTANCE AtomicLedger WITH open <- [p \in Procs |-> pc[p] # "idle"]

ImplementsAtomicLedger == Atomic!Spec

\* wallet.service.ts:225-226 and 463-464: the loser of a race on a key is
\* answered with the winner's row, not with an error.
LoserGetsWinnersRow ==
    \A p \in Procs : outcome[p] = "uniqueViolation" /\ req[p].writer = "api" =>
        ~\E i \in 1 .. Len(ledger[req[p].user]) :
            /\ ledger[req[p].user][i].key = req[p].key
            /\ ReplayMatches(ledger[req[p].user][i], req[p])

\* wallet.service.ts:350-352: a replay never reports an unrelated entry; the
\* row it reports is one of the caller's own wallet.
ReplayIsOwn ==
    \A p \in Procs : outcome[p] = "replayed" =>
        \E i \in 1 .. Len(ledger[req[p].user]) : ledger[req[p].user][i].key = req[p].key
=============================================================================
