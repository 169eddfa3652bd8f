----------------------------- MODULE SignInForms -----------------------------
(***************************************************************************)
(* The forms of the player's client that ask for an account: sign up, sign *)
(* in, reset of the password.  Each has a schema; the library (react-hook- *)
(* form) runs it on a blur, on a change after the first submit, and on a   *)
(* submit, and keeps the errors.  The request is awaited with the fields   *)
(* still open.  What the API's own schemas take is defined beside them.    *)
(* A value of a field stands for all the values its facts hold for.        *)
(***************************************************************************)
EXTENDS Integers, FiniteSets

CONSTANT
    MaxSubmits    \* bound: requests sent

SignInFormsAssumption == MaxSubmits \in Nat

VARIABLES
    form,        \* the page: "register", "login" or "forgot"
    values,      \* the fields
    errors,      \* the fields an error is shown at
    submitted,   \* isSubmitted of the library
    sending,     \* isSubmitting: the request under way, or NoRequest
    requests,    \* how many were sent
    accepted,    \* history: the values the last request that succeeded had
    route        \* where the page went: [page, channel, target]

vars == <<form, values, errors, submitted, sending, requests, accepted, route>>

NoRequest == [f \in {} |-> ""]

Fields(f) == CASE f = "register" -> {"identifier", "displayName", "password",
                                     "ageConfirmed", "termsAccepted"}
               [] f = "login"    -> {"identifier", "password"}
               [] f = "forgot"   -> {"identifier"}

\* Nothing, an address, ten digits alone, with a space, with letters between
\* them, and the international form of a number.
Identifiers == {"", "address", "digits", "spaced", "lettered", "international"}
\* Seven characters; eight without a digit; eight with one; more than 128.
Passwords   == {"seven", "letters", "mixed", "long"}
\* Two, three or thirty characters; three signs that are no letters.
Names       == {"two", "three", "thirty", "signs"}

Domain(field) ==
    CASE field = "identifier"  -> Identifiers
      [] field = "displayName" -> Names
      [] field = "password"    -> Passwords
      [] OTHER                 -> {"no", "yes"}

EmailPattern(v)  == v = "address"
\* The pattern of ten digits, on the value as it is.
MobilePattern(v) == v = "digits"
\* The value without everything that is not a digit.
Stripped(v)      == IF v \in {"spaced", "lettered"} THEN "digits" ELSE v

\* The schemas of the pages, field by field.
Valid(f, field, v) ==
    CASE field = "identifier" /\ f = "forgot" -> EmailPattern(v) \/ MobilePattern(v)
      [] field = "identifier" /\ f # "forgot" -> EmailPattern(v) \/ MobilePattern(Stripped(v))
      [] field = "displayName" -> v \in {"three", "signs"}
      [] field = "password"    -> v # "seven"
      [] OTHER                 -> v = "yes"

\* The schemas of the API for the same fields: a number is E.164.
ApiIdentifier(v) == v \in {"address", "international"}
ApiPassword(v)   == v = "mixed"
ApiName(v)       == v \in {"two", "three", "thirty"}
ApiAccepts(f, vals) ==
    /\ ApiIdentifier(vals["identifier"])
    /\ f = "register" => /\ ApiPassword(vals["password"])
                         /\ ApiName(vals["displayName"])
    /\ f = "login" => vals["password"] # "long"

\* What the form says is wrong with its values.
Wrong == {x \in Fields(form) : ~Valid(form, x, values[x])}

Here == [page |-> form, channel |-> "", target |-> ""]

Init ==
    /\ form \in {"register", "login", "forgot"}
    /\ values = [x \in Fields(form) |->
                    CASE x = "identifier"  -> ""
                      [] x = "displayName" -> "two"
                      [] x = "password"    -> "seven"
                      [] OTHER             -> "no"]
    /\ errors = {}
    /\ submitted = FALSE
    /\ sending = NoRequest
    /\ requests = 0
    /\ accepted = NoRequest
    /\ route = Here

Open == route = Here

\* The field's own error, found again.
Recheck(x, vals) ==
    errors' = IF Valid(form, x, vals[x]) THEN errors \ {x} ELSE errors \cup {x}

\* A field changes.  After the first submit the schema runs on every change.
Change(x, v) ==
    /\ Open
    /\ v # values[x]
    /\ values' = [values EXCEPT ![x] = v]
    /\ IF submitted THEN Recheck(x, values') ELSE UNCHANGED errors
    /\ UNCHANGED <<form, submitted, sending, requests, accepted, route>>

\* A field of the sign-up form is left: mode 'onBlur', until the first submit.
Blur(x) ==
    /\ Open
    /\ form = "register" /\ ~submitted
    /\ Recheck(x, values)
    /\ UNCHANGED <<form, values, submitted, sending, requests, accepted, route>>

\* fault: what the schema found is not shown
HandleSubmitQuiet ==
    /\ Open
    /\ sending = NoRequest
    /\ requests < MaxSubmits
    /\ IF Wrong = {}
       THEN /\ sending' = values
            /\ requests' = requests + 1
            /\ UNCHANGED submitted
       ELSE /\ submitted' = TRUE
            /\ UNCHANGED <<sending, requests>>
    /\ UNCHANGED <<form, values, errors, accepted, route>>

\* handleSubmit: the schema runs on all fields; the button is dead while a
\* request is under way.
HandleSubmit ==
    /\ Open
    /\ sending = NoRequest
    /\ requests < MaxSubmits
    /\ errors' = Wrong
    /\ IF Wrong = {}
       THEN /\ sending' = values
            /\ requests' = requests + 1
            /\ UNCHANGED submitted
       ELSE /\ submitted' = TRUE
            /\ UNCHANGED <<sending, requests>>
    /\ UNCHANGED <<form, values, accepted, route>>

\* onSubmit after the answer: the page goes on with the values it sent.
OnSubmit ==
    /\ sending # NoRequest
    /\ sending' = NoRequest
    /\ submitted' = TRUE
    /\ accepted' = sending
    /\ route' = CASE form = "register" ->
                        [page |-> "verify-otp", target |-> sending["identifier"],
                         channel |-> IF EmailPattern(sending["identifier"])
                                     THEN "email" ELSE "mobile"]
                  [] form = "login"  -> [page |-> "home", channel |-> "", target |-> ""]
                  [] form = "forgot" -> [page |-> "sent", channel |-> "", target |-> ""]
    /\ UNCHANGED <<form, values, errors, requests>>

\* onSubmit after a failure.  Sign in shows the API's errors at the fields of
\* the same name, and one at the password for a refusal.
OnFailure ==
    /\ sending # NoRequest
    /\ sending' = NoRequest
    /\ submitted' = TRUE
    /\ IF form = "login"
       THEN \E told \in SUBSET Fields("login") : errors' = errors \cup told
       ELSE UNCHANGED errors
    /\ UNCHANGED <<form, values, requests, accepted, route>>

Next ==
    \/ \E x \in Fields(form) : \/ \E v \in Domain(x) : Change(x, v)
                               \/ Blur(x)
    \/ HandleSubmit \/ OnSubmit \/ OnFailure

Spec == Init /\ [][Next]_vars

-----------------------------------------------------------------------------
TypeOK ==
    /\ DOMAIN values = Fields(form)
    /\ \A x \in Fields(form) : values[x] \in Domain(x)
    /\ errors \subseteq Fields(form)
    /\ sending # NoRequest => DOMAIN sending = Fields(form)
    /\ requests \in 0..MaxSubmits

\* No account, session or code is asked for with values the form's schema
\* refuses, and no account without the two consents, however often the fields
\* were changed before, between and during the requests.
SentIsValid ==
    sending # NoRequest => \A x \in Fields(form) : Valid(form, x, sending[x])

\* The page that asks for the code names the address the code was sent to, and
\* its channel, also when the field changed while the request was under way.
TargetIsSent ==
    route.page = "verify-otp" =>
        /\ route.target = accepted["identifier"]
        /\ route.channel = "email" <=> EmailPattern(route.target)

\* A submit that is kept back says why, at every field it is kept back for.
RefusalTold ==
    submitted' /\ ~submitted /\ requests' = requests /\ sending = NoRequest
        => Wrong # {} /\ Wrong \subseteq errors'

\* "Same rules across layers": what a form sends the API's schema accepts.
ApiAgrees == sending # NoRequest => ApiAccepts(form, sending)

\* A sign-in form and a reset form "consistent with the sign-in form" take the
\* same accounts: what is typed there is not refused here.
FormsAgree ==
    form = "forgot" /\ "identifier" \in errors
        => ~Valid("login", "identifier", values["identifier"])
=============================================================================
