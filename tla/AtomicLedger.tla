---------------------------- MODULE AtomicLedger ----------------------------
(***************************************************************************)
(* What the wallet promises its callers: a movement happens in one step or *)
(* not at all, a key moves coins at most once, and each answer was true at *)
(* some moment while the call was open.  Wallet implements it.             *)
(***************************************************************************)
EXTENDS Integers, Sequences

CONSTANTS Users, Wallets, Procs, Requests
VARIABLES ledger,   \* the rows of each account
          balance,  \* the coins of each account
          open,     \* whether a call is waiting for its answer
          req,      \* the movement it asked for
          outcome   \* its answer

vars == <<ledger, balance, open, req, outcome>>

Init ==
    /\ ledger  = [u \in Users |-> <<>>]
    /\ balance = [u \in Users |-> 0]
    /\ open    = [p \in Procs |-> FALSE]
    /\ req     \in [Procs -> Requests]
    /\ outcome = [p \in Procs |-> "none"]

Ask(p, r) ==
    /\ ~open[p]
    /\ open'    = [open EXCEPT ![p] = TRUE]
    /\ req'     = [req EXCEPT ![p] = r]
    /\ outcome' = [outcome EXCEPT ![p] = "none"]
    /\ UNCHANGED <<ledger, balance>>

Answer(p, o) ==
    /\ open[p]
    /\ open'    = [open EXCEPT ![p] = FALSE]
    /\ outcome' = [outcome EXCEPT ![p] = o]
    /\ UNCHANGED req

\* The rows with key k, in any wallet.
RowsWith(k) ==
    {row \in UNION {{ledger[u][i] : i \in 1 .. Len(ledger[u])} : u \in Users} :
        row.key = k}

Same(r, row) == row.amount = r.amount /\ row.type = r.type

Move(p) ==
    LET r == req[p] u == r.user IN
    /\ u \in Wallets
    /\ balance[u] + r.amount >= 0
    /\ RowsWith(r.key) = {}
    /\ Answer(p, "applied")
    /\ balance' = [balance EXCEPT ![u] = @ + r.amount]
    /\ ledger'  = [ledger EXCEPT ![u] = Append(@,
                      [key |-> r.key, type |-> r.type, amount |-> r.amount,
                       before |-> balance[u], after |-> balance[u] + r.amount])]

\* An answer that leaves the money alone, and what must hold for it.
Decline(p, o) ==
    LET r == req[p] IN
    /\ \/ o = "replayed" /\ \E row \in RowsWith(r.key) :
                               r.writer = "engine" \/ Same(r, row)
       \/ o = "keyReuse" /\ \E row \in RowsWith(r.key) : ~Same(r, row)
       \/ o = "insufficient" /\ balance[r.user] + r.amount < 0
       \/ o = "noWallet" /\ r.user \notin Wallets
       \/ o = "uniqueViolation" /\ RowsWith(r.key) # {}
       \/ o = "failed"
    /\ Answer(p, o)
    /\ UNCHANGED <<ledger, balance>>

Next == \E p \in Procs :
    \/ \E r \in Requests : Ask(p, r)
    \/ Move(p)
    \/ \E o \in {"replayed", "keyReuse", "insufficient", "noWallet",
                 "uniqueViolation", "failed"} : Decline(p, o)

Spec == Init /\ [][Next]_vars
=============================================================================
