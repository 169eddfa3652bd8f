---------------------------- MODULE Verification -----------------------------
(***************************************************************************)
(* One new account and its verification: AuthService.register, resendOtp   *)
(* and verifyOtp with OtpService.issueVerification and verifyCode.         *)
(*                                                                         *)
(* A record is the code it was made for; a guess is a code or no code.     *)
(* The issuing transaction is READ COMMITTED and takes the rows it         *)
(* supersedes; the other statements are transactions of their own.         *)
(***************************************************************************)
EXTENDS Integers, FiniteSetsExt

CONSTANTS Procs,       \* calls that can be open at the same time
          Channels,    \* contacts of the account: email, mobile
          MaxAttempts, \* OTP_MAX_ATTEMPTS
          MaxIssues,   \* bound: codes
          MaxFaults    \* bound: calls that die between two statements

VerificationAssumption ==
    /\ IsFiniteSet(Procs) /\ Channels # {}
    /\ MaxAttempts \in Nat \ {0} /\ MaxIssues \in Nat /\ MaxFaults \in Nat

Ids == 1 .. MaxIssues
NoId == 0

VARIABLES
    registered,
    verified,   \* contacts with emailVerifiedAt, mobileVerifiedAt
    bonuses,    \* keys of the SIGNUP_BONUS rows
    records,    \* verification_records, oldest first
    cooldown,   \* contacts with an otpCooldown key
    pc,
    chan, guess, rec, \* of each call: its contact, the code entered, the record read
    held,       \* records its open transaction has expired
    latest,     \* ghost: the newest record of the contact when rec was read
    faults

account == <<registered, verified, bonuses>>
args == <<chan, guess, rec, held, latest>>
vars == <<account, records, cooldown, pc, args, faults>>

Go(p, where) == pc' = [pc EXCEPT ![p] = where]
Clear(p) ==
    /\ chan' = [chan EXCEPT ![p] = CHOOSE c \in Channels : TRUE]
    /\ guess' = [guess EXCEPT ![p] = NoId] /\ rec' = [rec EXCEPT ![p] = NoId]
    /\ latest' = [latest EXCEPT ![p] = NoId]
End(p) == Go(p, "idle") /\ Clear(p) /\ held' = [held EXCEPT ![p] = {}]
Begin(p, c, g, where) ==
    /\ pc[p] = "idle"
    /\ chan' = [chan EXCEPT ![p] = c] /\ guess' = [guess EXCEPT ![p] = g]
    /\ Go(p, where)
    /\ UNCHANGED <<rec, held, latest>>

OfChannel(c) == {i \in Ids : records[i].state # "none" /\ records[i].channel = c}
Newest(S) == IF S = {} THEN NoId ELSE Max(S)
Locked(i) == \E q \in Procs : i \in held[q]

-----------------------------------------------------------------------------
Init ==
    /\ registered = FALSE /\ verified = {} /\ bonuses = {}
    /\ records = [i \in Ids |-> [state |-> "none", channel |-> CHOOSE c \in Channels : TRUE,
                                 attempts |-> 0, used |-> 0]]
    /\ cooldown = {}
    /\ pc = [p \in Procs |-> "idle"]
    /\ chan = [p \in Procs |-> CHOOSE c \in Channels : TRUE]
    /\ guess = [p \in Procs |-> NoId] /\ rec = [p \in Procs |-> NoId]
    /\ held = [p \in Procs |-> {}] /\ latest = [p \in Procs |-> NoId]
    /\ faults = 0

\* The account is created in one transaction; the unique e-mail and mobile let one in.
Register(p, c) ==
    /\ ~registered /\ registered' = TRUE
    /\ Begin(p, c, NoId, "enforce")
    /\ UNCHANGED <<verified, bonuses, records, cooldown, faults>>

ResendOtp(p, c) ==
    /\ registered /\ c \notin verified
    /\ Begin(p, c, NoId, "enforce")
    /\ UNCHANGED <<account, records, cooldown, faults>>

(* issueVerification                                                       *)

EnforceCooldown(p) ==
    /\ pc[p] = "enforce"
    /\ IF chan[p] \in cooldown THEN End(p) ELSE Go(p, "supersede") /\ UNCHANGED args
    /\ UNCHANGED <<account, records, cooldown, faults>>

\* Waits for the rows another transaction has taken.
Supersede(p) ==
    LET live == {i \in OfChannel(chan[p]) : records[i].state = "live"} IN
    /\ pc[p] = "supersede"
    /\ \A i \in live : ~Locked(i)
    /\ held' = [held EXCEPT ![p] = live]
    /\ Go(p, "insert")
    /\ UNCHANGED <<account, records, cooldown, chan, guess, rec, latest, faults>>

\* What becomes of row j when a transaction inserts i: what it has taken expires.
Issued(p, i, j) ==
    CASE j = i         -> [records[j] EXCEPT !.state = "live", !.channel = chan[p]]
      [] j \in held[p] -> [records[j] EXCEPT !.state = "expired"]
      [] OTHER         -> records[j]

Insert(p) ==
    /\ pc[p] = "insert"
    /\ \E i \in Ids :
          /\ \A j \in Ids : records[j].state = "none" <=> j >= i
          /\ records' = [j \in Ids |-> Issued(p, i, j)]
    /\ held' = [held EXCEPT ![p] = {}]
    /\ Go(p, "cool")
    /\ UNCHANGED <<account, cooldown, chan, guess, rec, latest, faults>>

\* The code is delivered, or the failure logged, and the cooldown set.
StartCooldown(p) ==
    /\ pc[p] = "cool"
    /\ cooldown' = cooldown \cup {chan[p]}
    /\ End(p)
    /\ UNCHANGED <<account, records, faults>>

(* verifyOtp and verifyCode                                                *)

VerifyOtp(p, c, g) ==
    /\ registered /\ c \notin verified
    /\ g # NoId => records[g].state # "none"
    /\ Begin(p, c, g, "find")
    /\ UNCHANGED <<account, records, cooldown, faults>>

Candidate(c) == Newest({i \in OfChannel(c) : records[i].state # "verified"})

\* fault: the attempts are not looked at.
FindNoCap(p) ==
    LET i == Candidate(chan[p]) IN
    /\ pc[p] = "find"
    /\ i # NoId /\ records[i].state = "live"
    /\ rec' = [rec EXCEPT ![p] = i]
    /\ latest' = [latest EXCEPT ![p] = Newest(OfChannel(chan[p]))]
    /\ Go(p, "compare")
    /\ UNCHANGED <<account, records, cooldown, chan, guess, held, faults>>
\* The newest record that is not verified must be live and have attempts left.

Find(p) ==
    LET i == Candidate(chan[p]) IN
    /\ pc[p] = "find"
    /\ IF i = NoId \/ records[i].state # "live" \/ records[i].attempts >= MaxAttempts
       THEN End(p)
       ELSE /\ rec' = [rec EXCEPT ![p] = i]
            /\ latest' = [latest EXCEPT ![p] = Newest(OfChannel(chan[p]))]
            /\ Go(p, "compare")
            /\ UNCHANGED <<chan, guess, held>>
    /\ UNCHANGED <<account, records, cooldown, faults>>

Miss(p) ==
    /\ pc[p] = "compare" /\ guess[p] # rec[p] /\ ~Locked(rec[p])
    /\ records' = [records EXCEPT ![rec[p]].attempts = @ + 1]
    /\ End(p)
    /\ UNCHANGED <<account, cooldown, faults>>

\* By id, whatever has become of the record since it was read.
Consume(p) ==
    /\ pc[p] = "compare" /\ guess[p] = rec[p] /\ ~Locked(rec[p])
    /\ records' = [records EXCEPT ![rec[p]].attempts = @ + 1, ![rec[p]].state = "verified",
                                  ![rec[p]].used = @ + 1]
    /\ Go(p, "uncool")
    /\ UNCHANGED <<account, cooldown, args, faults>>

DropCooldown(p) ==
    /\ pc[p] = "uncool"
    /\ cooldown' = cooldown \ {chan[p]}
    /\ Go(p, "mark")
    /\ UNCHANGED <<account, records, args, faults>>

Mark(p) ==
    /\ pc[p] = "mark"
    /\ verified' = verified \cup {chan[p]}
    /\ Go(p, "bonus")
    /\ UNCHANGED <<registered, bonuses, records, cooldown, args, faults>>

BonusKey(p) == "signup-bonus"

\* WalletService.credit, good once per key; then the session (module Sessions).
Grant(p) ==
    /\ pc[p] = "bonus"
    /\ bonuses' = bonuses \cup {BonusKey(p)}
    /\ End(p)
    /\ UNCHANGED <<registered, verified, records, cooldown, faults>>

Expire(i) ==
    /\ records[i].state = "live" /\ ~Locked(i)
    /\ records' = [records EXCEPT ![i].state = "expired"]
    /\ UNCHANGED <<account, cooldown, pc, args, faults>>

CooldownEnds(c) ==
    /\ c \in cooldown
    /\ cooldown' = cooldown \ {c}
    /\ UNCHANGED <<account, records, pc, args, faults>>

\* A call dies; an open transaction is rolled back.
Die(p) ==
    /\ pc[p] # "idle" /\ faults < MaxFaults
    /\ faults' = faults + 1
    /\ End(p)
    /\ UNCHANGED <<account, records, cooldown>>

Step(p) ==
    \/ EnforceCooldown(p) \/ Supersede(p) \/ Insert(p) \/ StartCooldown(p)
    \/ Find(p) \/ Miss(p) \/ Consume(p) \/ DropCooldown(p) \/ Mark(p) \/ Grant(p)

Next ==
    \/ \E p \in Procs :
          \/ Step(p) \/ Die(p)
          \/ \E c \in Channels :
                \/ Register(p, c) \/ ResendOtp(p, c)
                \/ \E g \in Ids \cup {NoId} : VerifyOtp(p, c, g)
    \/ \E i \in Ids : Expire(i)
    \/ \E c \in Channels : CooldownEnds(c)

Spec == Init /\ [][Next]_vars
FairSpec == Spec /\ \A p \in Procs : WF_vars(Step(p))
-----------------------------------------------------------------------------
TypeOK ==
    /\ registered \in BOOLEAN /\ verified \subseteq Channels /\ cooldown \subseteq Channels
    /\ \A i \in Ids :
          /\ records[i].state \in {"none", "live", "expired", "verified"}
          /\ records[i].channel \in Channels /\ records[i].attempts \in Nat
          /\ records[i].state = "verified" <=> records[i].used > 0
    /\ \A p, q \in Procs : p # q => held[p] \cap held[q] = {}
    /\ \A p \in Procs : rec[p] # NoId => records[rec[p]].channel = chan[p]
    /\ faults \in 0 .. MaxFaults

\* "OTP attempt cap (5) with lockout" (SECURITY.md 14): guesses made one at a time
\* are capped, and guesses made at once exceed the cap by less than their number.
Misses(i) == records[i].attempts - records[i].used
GuessesCapped  == \A i \in Ids : Misses(i) <= MaxAttempts
GuessesBounded == \A i \in Ids : records[i].attempts < MaxAttempts + Cardinality(Procs)

\* A contact is verified by a code that was made for it, and for no other contact.
VerifiedByCode ==
    \A c \in verified : \E i \in OfChannel(c) : records[i].state = "verified"

\* "Idempotent by construction: one signup bonus per user id, ever" (auth.service.ts
\* 234), whichever contacts are verified, at once or one after the other; and only
\* for an account with a verified contact.
BonusOnce == Cardinality(bonuses) <= 1 /\ (bonuses # {} => verified # {})

\* "Confirms ownership of the email or mobile, activates the account, grants the
\* signup bonus" (auth.service.ts 195-197)
VerifiedGetsBonus == verified # {} ~> bonuses # {}

\* "Any earlier unconsumed code for the same target is invalidated first, so only
\* the newest code ever works." (otp.service.ts 68-69)
OnlyNewestWorks == [][\A p \in Procs : Consume(p) => rec[p] = latest[p]]_vars

\* "Rate-limited by the OTP cooldown" (auth.service.ts 277): no code is made while
\* the cooldown of the last one runs.
CooldownKept == [][\A p \in Procs : Insert(p) => chan[p] \notin cooldown]_vars
=============================================================================
