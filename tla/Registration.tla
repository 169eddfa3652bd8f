---------------------------- MODULE Registration -----------------------------
(***************************************************************************)
(* The accounts and the contacts they are found by: AuthService.register,  *)
(* resendOtp, verifyOtp, forgotPassword, resetPassword and login, by       *)
(* people who may register at once with the same e-mail or mobile.         *)
(*                                                                         *)
(* A contact is typed plainly or oddly (capitals, blanks).  The life of a  *)
(* code is that of modules Verification and ResetCodes: here one that has  *)
(* been delivered is good until it is used.                                *)
(***************************************************************************)
EXTENDS Integers, FiniteSets

CONSTANTS Procs,    \* calls that can be open at the same time
          Ids,      \* of the accounts
          Emails, Mobiles,
          MaxFaults \* bound: crashes, messages not delivered, passwords forgotten

RegistrationAssumption ==
    /\ Procs # {} /\ Ids \subseteq Nat \ {0} /\ Emails \cap Mobiles = {} /\ MaxFaults \in Nat

NoContact == <<"none">>
NoId == 0
Spell(names, spellings) == names \X spellings
Typed == Spell(Emails \cup Mobiles, {"plain", "odd"})

VARIABLES
    users,  \* the users table; [made |-> FALSE ...] where there is no row
    codes,  \* verification codes people have received: <<account, contact>>
    resets, \* reset codes people have received
    signed, \* accounts somebody has signed in to
    pc,
    dto,    \* of each call: the e-mail and the mobile it names
    id,     \* the account it is about
    answer, \* the last answer to it
    faults

calls == <<pc, dto, id, answer>>
vars == <<users, codes, resets, signed, calls, faults>>

Rows == {"role", "wallet", "preference"}
NoUser == [made |-> FALSE, email |-> NoContact, mobile |-> NoContact, rows |-> {},
           verified |-> {}, knows |-> TRUE]
Contacts(r) == {r.email, r.mobile} \ {NoContact}
Made == {i \in Ids : users[i].made}
Holders(cs) == {i \in Made : Contacts(users[i]) \cap cs # {}}

Go(p, where) == pc' = [pc EXCEPT ![p] = where]
End(p, a) ==
    /\ Go(p, "idle")
    /\ answer' = [answer EXCEPT ![p] = a]
    /\ UNCHANGED <<dto, id>>
Call(p, e, m, i, where) ==
    /\ pc[p] = "idle"
    /\ dto' = [dto EXCEPT ![p] = [email |-> e, mobile |-> m]]
    /\ id' = [id EXCEPT ![p] = i]
    /\ answer' = [answer EXCEPT ![p] = "none"]
    /\ Go(p, where)
Fault == faults < MaxFaults /\ faults' = faults + 1

\* emailSchema and mobileSchema, and normalizeTarget.

Normal(t) == IF t = NoContact THEN NoContact ELSE <<t[1], "plain">>

\* The one contact of the other calls, as an e-mail or a mobile.
CallFor(p, t, i, where) ==
    IF t[1] \in Emails THEN Call(p, Normal(t), NoContact, i, where) ELSE Call(p, NoContact, Normal(t), i, where)

\* findByIdentifier; who holds a contact is unique.
Find(t) == CHOOSE i \in Made : Normal(t) \in Contacts(users[i])
Held(t) == Holders({Normal(t)}) # {}

-----------------------------------------------------------------------------
Init ==
    /\ users = [i \in Ids |-> NoUser] /\ codes = {} /\ resets = {} /\ signed = {}
    /\ pc = [p \in Procs |-> "idle"]
    /\ dto = [p \in Procs |-> [email |-> NoContact, mobile |-> NoContact]]
    /\ id = [p \in Procs |-> NoId] /\ answer = [p \in Procs |-> "none"]
    /\ faults = 0

(* register                                                                *)

Register(p, e, m) ==
    /\ e # NoContact \/ m # NoContact
    /\ Call(p, Normal(e), Normal(m), NoId, "check")
    /\ UNCHANGED <<users, codes, resets, signed, faults>>

\* The field assertIdentifierAvailable names, from the account it found.
Taken(p, i) ==
    IF dto[p].email # NoContact /\ users[i].email = dto[p].email THEN "email" ELSE "mobile"

Check(p) ==
    LET holders == Holders(Contacts(dto[p])) IN
    /\ pc[p] = "check"
    /\ IF holders = {}
       THEN Go(p, "create") /\ UNCHANGED <<dto, id, answer>>
       ELSE \E i \in holders : End(p, Taken(p, i))
    /\ UNCHANGED <<users, codes, resets, signed, faults>>

\* The rows an open transaction has inserted, which only its commit shows.
Open(q) == pc[q] \in {"role", "wallet", "preference", "commit"}

\* The unique indexes: the insert waits for one in flight of the same contact, and
\* fails (P2002, answered by the exception filter) if that one has committed.
CreateUser(p) ==
    /\ pc[p] = "create"
    /\ \A q \in Procs : Open(q) => Contacts(dto[q]) \cap Contacts(dto[p]) = {}
    /\ IF Holders(Contacts(dto[p])) # {}
       THEN End(p, "conflict")
       ELSE /\ \E i \in Ids \ (Made \cup {id[q] : q \in Procs}) : id' = [id EXCEPT ![p] = i]
            /\ Go(p, "role")
            /\ UNCHANGED <<dto, answer>>
    /\ UNCHANGED <<users, codes, resets, signed, faults>>

CreateRow(p) ==
    /\ pc[p] \in Rows
    /\ Go(p, CASE pc[p] = "role" -> "wallet" [] pc[p] = "wallet" -> "preference" [] OTHER -> "commit")
    /\ UNCHANGED <<users, codes, resets, signed, dto, id, answer, faults>>

Commit(p) ==
    /\ pc[p] = "commit"
    /\ users' = [users EXCEPT ![id[p]] =
                    [NoUser EXCEPT !.made = TRUE, !.rows = Rows,
                                   !.email = dto[p].email, !.mobile = dto[p].mobile]]
    /\ Go(p, "issue")
    /\ UNCHANGED <<codes, resets, signed, dto, id, answer, faults>>

\* A message that is not delivered is logged, and the call goes on.
Deliver(box, i, c) ==
    \/ box' = box \cup {<<i, c>>} /\ UNCHANGED faults
    \/ box' = box /\ Fault

\* issueVerification, by e-mail if there is one.
Issue(p) ==
    LET c == IF dto[p].email # NoContact THEN dto[p].email ELSE dto[p].mobile IN
    /\ pc[p] = "issue"
    /\ Deliver(codes, id[p], c)
    /\ End(p, "issued")
    /\ UNCHANGED <<users, resets, signed>>

(* The calls that name one contact.                                        *)

\* fault: only a code that was issued is issued again.
ResendIssued(p, t) ==
    /\ Held(t) /\ Normal(t) \notin users[Find(t)].verified
    /\ \E c \in codes : c[1] = Find(t)
    /\ CallFor(p, t, Find(t), "issue")
    /\ UNCHANGED <<users, codes, resets, signed, faults>>

ResendOtp(p, t) ==
    /\ Held(t) /\ Normal(t) \notin users[Find(t)].verified
    /\ CallFor(p, t, Find(t), "issue")
    /\ UNCHANGED <<users, codes, resets, signed, faults>>

\* Finds the account, consumes the code, marks the contact.
VerifyOtp(p, t) ==
    /\ Held(t) /\ Normal(t) \notin users[Find(t)].verified
    /\ <<Find(t), Normal(t)>> \in codes
    /\ users' = [users EXCEPT ![Find(t)].verified = @ \cup {Normal(t)}]
    /\ codes' = codes \ {<<Find(t), Normal(t)>>}
    /\ CallFor(p, t, Find(t), "answer")
    /\ UNCHANGED <<resets, signed, faults>>

\* The bonus and the session are those of Verification and Sessions; the account is
\* read again for the answer.
Answer(p) ==
    /\ pc[p] = "answer"
    /\ signed' = signed \cup {id[p]}
    /\ End(p, IF users[id[p]].verified # {} THEN "verified" ELSE "unverified")
    /\ UNCHANGED <<users, codes, resets, faults>>

ForgotPassword(p, t) ==
    /\ pc[p] = "idle" /\ Held(t) /\ ~users[Find(t)].knows
    /\ Deliver(resets, Find(t), Normal(t))
    /\ UNCHANGED <<users, codes, signed, calls>>

ResetPassword(p, t) ==
    /\ pc[p] = "idle" /\ Held(t) /\ <<Find(t), Normal(t)>> \in resets
    /\ users' = [users EXCEPT ![Find(t)].knows = TRUE]
    /\ resets' = resets \ {<<Find(t), Normal(t)>>}
    /\ UNCHANGED <<codes, signed, calls, faults>>

\* By either contact, if one of them is verified.
Login(p, t) ==
    /\ pc[p] = "idle" /\ Held(t) /\ users[Find(t)].knows /\ users[Find(t)].verified # {}
    /\ signed' = signed \cup {Find(t)}
    /\ UNCHANGED <<users, codes, resets, calls, faults>>

\* The holder forgets the password.
Forget(i) ==
    /\ users[i].made /\ users[i].knows /\ Fault
    /\ users' = [users EXCEPT ![i].knows = FALSE]
    /\ UNCHANGED <<codes, resets, signed, calls>>

\* A call dies; an open transaction is rolled back.
Die(p) ==
    /\ pc[p] # "idle" /\ Fault
    /\ End(p, "none")
    /\ UNCHANGED <<users, codes, resets, signed>>

Step(p) ==
    Check(p) \/ CreateUser(p) \/ CreateRow(p) \/ Commit(p) \/ Issue(p) \/ Answer(p)
Named(p, t) ==
    ResendOtp(p, t) \/ VerifyOtp(p, t) \/ ForgotPassword(p, t) \/ ResetPassword(p, t) \/ Login(p, t)

Next ==
    \/ \E p \in Procs :
          \/ Step(p) \/ Die(p)
          \/ \E e \in Spell(Emails, {"plain", "odd"}) \cup {NoContact},
                m \in Spell(Mobiles, {"plain", "odd"}) \cup {NoContact} : Register(p, e, m)
          \/ \E t \in Typed : Named(p, t)
    \/ \E i \in Ids : Forget(i)

Spec == Init /\ [][Next]_vars

\* What the holder of an account does next: enters a code that came, asks for one if
\* none did, signs in.
Useful(i) ==
    \E p \in Procs, t \in Typed :
        /\ Held(t) /\ Find(t) = i
        /\ \/ VerifyOtp(p, t) \/ ResetPassword(p, t) \/ Login(p, t)
           \/ (\A c \in codes : c[1] # i) /\ ResendOtp(p, t)
           \/ (\A c \in resets : c[1] # i) /\ ForgotPassword(p, t)

\* Calls go on, and people who are left without an answer ask again.
FairSpec ==
    /\ Spec
    /\ \A p \in Procs : WF_vars(Step(p))
    /\ \A i \in Ids : SF_vars(Useful(i))
-----------------------------------------------------------------------------
\* A contact is stored as it is looked up, and no two accounts share one
\* (schema.prisma 165-166), however it was typed and whoever registered at once.
TypeOK ==
    /\ \A i \in Ids : Contacts(users[i]) \subseteq Spell(Emails \cup Mobiles, {"plain"})
    /\ \A i, j \in Made : Contacts(users[i]) \cap Contacts(users[j]) # {} => i = j
    /\ \A i \in Made : Contacts(users[i]) # {} /\ users[i].verified \subseteq Contacts(users[i])
    /\ codes \cup resets \subseteq Made \X Typed /\ signed \subseteq Made
    /\ faults \in 0 .. MaxFaults

\* "a half-created account with no wallet would break every later money path"
\* (auth.service.ts 97-98): an account that can be seen has all its rows.
AccountsComplete == \A i \in Made : users[i].rows = Rows

\* Somebody is told that a contact is taken only when it is, and which of the two.
RefusalTrue ==
    \A p \in Procs :
        /\ answer[p] = "email"  => Holders({dto[p].email}) # {}
        /\ answer[p] = "mobile" => Holders({dto[p].mobile}) # {}
        /\ answer[p] = "conflict" => Holders(Contacts(dto[p])) # {}

\* Who has just verified a contact is told that the account is verified.
AnswerCurrent == \A p \in Procs : answer[p] # "unverified"

\* "let the user resend" (otp.service.ts 354): an account whose first code was lost, or
\* never made because the call died, and whose password was forgotten, is signed in to
\* after all.
GetsIn == \A i \in Ids : users[i].made ~> i \in signed
=============================================================================
