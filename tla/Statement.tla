----------------------------- MODULE Statement ------------------------------
(***************************************************************************)
(* The wallet ledger as the user page of the admin console shows it: a     *)
(* line per row, its amount with the sign its type stands for, the balance *)
(* after it, and its age (formatRelativeTime, which the web application    *)
(* shares and also shows the end of a tournament with).                    *)
(*                                                                         *)
(* Balances are those the wallet keeps (module Wallet); here only the      *)
(* types and signs the code writes, and the passing of time, matter.       *)
(***************************************************************************)
EXTENDS Integers, Sequences, SequencesExt

CONSTANTS Source,   \* where the page gets its rows: "fixtures" or "api"
          Rates,    \* the amounts that move
          Pauses,   \* seconds that can pass between two rows
          MaxRows,  \* bound: rows
          MaxPauses \* bound: pauses

StatementAssumption ==
    /\ Source \in {"fixtures", "api"}
    /\ Rates \subseteq Nat \ {0} /\ Pauses \subseteq Nat \ {0}
    /\ MaxRows \in Nat /\ MaxPauses \in Nat

VARIABLES ledger, balance, now, pauses

vars == <<ledger, balance, now, pauses>>

\* What the code writes, and the sign it writes it with.
Debits  == {"BET", "TOURNAMENT_ENTRY"}
Credits == {"WIN", "REFUND", "SIGNUP_BONUS", "DAILY_REWARD", "PROMO", "ADMIN_CREDIT"}

\* The console's names of the same types.
LedgerEntryType ==
    [t \in Debits \cup Credits |->
        CASE t = "BET" -> "bet" [] t = "TOURNAMENT_ENTRY" -> "tournament_entry" [] t = "WIN" -> "win"
          [] t = "REFUND" -> "refund" [] t = "SIGNUP_BONUS" -> "signup_bonus"
          [] t = "DAILY_REWARD" -> "daily_reward" [] t = "PROMO" -> "promo"
          [] t = "ADMIN_CREDIT" -> "admin_credit"]

-----------------------------------------------------------------------------
Init == ledger = <<>> /\ balance = 0 /\ now = 0 /\ pauses = 0

MoveBefore(type, amount) ==  \* fault: the row has the balance before it
    /\ Len(ledger) < MaxRows /\ balance + amount >= 0
    /\ ledger' = Append(ledger, [type |-> type, amount |-> amount, after |-> balance, at |-> now])
    /\ balance' = balance + amount
    /\ UNCHANGED <<now, pauses>>

Move(type, amount) ==
    /\ Len(ledger) < MaxRows /\ balance + amount >= 0
    /\ ledger' = Append(ledger, [type |-> type, amount |-> amount, after |-> balance + amount, at |-> now])
    /\ balance' = balance + amount
    /\ UNCHANGED <<now, pauses>>

Pass(s) ==
    /\ pauses < MaxPauses /\ pauses' = pauses + 1
    /\ now' = now + s
    /\ UNCHANGED <<ledger, balance>>

Next ==
    \/ \E a \in Rates : \/ \E t \in Debits : Move(t, -a)
                        \/ \E t \in Credits : Move(t, a)
    \/ \E s \in Pauses : Pass(s)

Spec == Init /\ [][Next]_vars
-----------------------------------------------------------------------------
(* The lines.                                                              *)

DebitsOfBets == {"bet", "admin_debit"}  \* fault: the fee of a tournament is forgotten

DebitTypes == {"bet", "admin_debit", "tournament_entry"}

\* The type a row arrives with: the API sends the enum as Prisma has it.
Arrives(row) == IF Source = "api" THEN row.type ELSE LedgerEntryType[row.type]

IsLedgerDebit(type) == type \in DebitTypes

Magnitude(n) == IF n < 0 THEN -n ELSE n

Line(row) ==
    [amount  |-> (IF IsLedgerDebit(Arrives(row)) THEN -1 ELSE 1) * Magnitude(row.amount),
     balance |-> row.after]

\* RELATIVE_UNITS, the largest first, in seconds.
UnitsOfMonths31 ==  \* fault: a month of 31 days
    <<365 * 86400, 31 * 86400, 7 * 86400, 86400, 3600, 60, 1>>

RelativeUnits == <<365 * 86400, 30 * 86400, 7 * 86400, 86400, 3600, 60, 1>>

RoundDown(a, b) == IF a < 0 THEN -(-a \div b) ELSE a \div b  \* fault: Math.trunc

\* Math.round of a negative number: halves go towards zero.
RoundHalf(a, b) == IF a < 0 THEN -((b - 1 - 2 * a) \div (2 * b)) ELSE (2 * a + b) \div (2 * b)

Unit(seconds) == RelativeUnits[SelectInSeq(RelativeUnits, LAMBDA u : Magnitude(seconds) >= u)]

\* The time a text stands for, in seconds: negative for "2 weeks ago", positive for
\* "in 2 weeks", nothing for "just now".
Relative(delta) ==
    IF Magnitude(delta) < 45 THEN 0 ELSE RoundHalf(delta, Unit(delta)) * Unit(delta)

Age(row) == Relative(row.at - now)
-----------------------------------------------------------------------------
TypeOK ==
    /\ Len(ledger) <= MaxRows /\ pauses \in 0 .. MaxPauses
    /\ \A i \in DOMAIN ledger :
          ledger[i].after = (IF i = 1 THEN 0 ELSE ledger[i - 1].after) + ledger[i].amount

\* The lines add up: the balance of each is that of the one before it and the amount
\* with the sign it is shown with.
LinesAdd ==
    \A i \in 2 .. Len(ledger) :
        Line(ledger[i]).balance = Line(ledger[i - 1]).balance + Line(ledger[i]).amount

\* A later row is never shown as the older one, and what is said of a row's age, or of
\* the time until an end, is off by no more than half of the unit it is said in.
AgesInOrder == \A i, j \in DOMAIN ledger : i <= j => Age(ledger[i]) <= Age(ledger[j])
AgeNear(delta) ==
    Magnitude(delta) >= 45 => 2 * Magnitude(Relative(delta) - delta) <= Unit(delta)
AgesNear == \A i \in DOMAIN ledger : AgeNear(ledger[i].at - now) /\ AgeNear(now - ledger[i].at)

\* No age is ever taken back while time passes.
AgesGrow == \A i \in DOMAIN ledger : Relative(ledger[i].at - now') <= Age(ledger[i])
=============================================================================
