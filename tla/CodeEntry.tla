------------------------------ MODULE CodeEntry ------------------------------
(***************************************************************************)
(* The page where a player enters the one-time code: one box a digit, the  *)
(* code sent as soon as the last box is filled, a countdown before another *)
(* code can be asked for.  Boxes are numbered from one; Empty is no digit. *)
(***************************************************************************)
EXTENDS Integers, Sequences, SequencesExt

CONSTANTS
    OtpLength,     \* OTP_LENGTH
    DigitSet,      \* the digits the player types
    Cooldown,      \* RESEND_COOLDOWN_SECONDS
    MaxResends     \* bound: requests for another code under way at once

CodeEntryAssumption ==
    /\ OtpLength \in Nat \ {0}
    /\ 0 \notin DigitSet /\ DigitSet # {}
    /\ Cooldown \in Nat \ {0}
    /\ MaxResends \in Nat

VARIABLES
    digits,       \* the boxes
    focus,        \* the box with the focus, or NoFocus
    error,        \* a message is shown
    isVerifying,  \* a code is at the server; the boxes are disabled
    sent,         \* the code that was sent last
    signedIn,     \* the server took a code; the page is about to go
    cooldown,     \* seconds before the button to resend
    resends       \* requests for another code under way

vars == <<digits, focus, error, isVerifying, sent, signedIn, cooldown, resends>>

Empty   == 0
NoFocus == 0
Boxes   == 1..OtpLength
Blank   == [i \in Boxes |-> Empty]

\* The boxes read as a text: empty ones are left out.
Text(d) == SelectSeq(d, LAMBDA x : x # Empty)

Code == Text(digits)

\* What a change of a box may leave in it: typed, pasted, filled in, deleted.
Values == BoundedSeq(DigitSet, OtpLength)

Init ==
    /\ digits = Blank
    /\ focus = 1
    /\ error = FALSE
    /\ isVerifying = FALSE
    /\ sent = <<>>
    /\ signedIn = FALSE
    /\ cooldown = Cooldown
    /\ resends = 0

\* submit, with a complete code.
Submit(value) ==
    /\ sent' = value
    /\ isVerifying' = TRUE
    /\ error' = FALSE
    /\ focus' = NoFocus

\* Nothing is sent by this change.
NoSubmit(e, f) ==
    /\ error' = e
    /\ focus' = f
    /\ UNCHANGED <<sent, isVerifying>>

\* A box was emptied.
Cleared(i) ==
    /\ digits' = [digits EXCEPT ![i] = Empty]
    /\ NoSubmit(error, focus)

\* One digit in box i; the last box sends a complete code.
Typed(i, x) ==
    /\ digits' = [digits EXCEPT ![i] = x]
    /\ IF i < OtpLength THEN NoSubmit(FALSE, i + 1)
       ELSE IF Len(Text(digits')) = OtpLength THEN Submit(Text(digits'))
       ELSE NoSubmit(FALSE, focus)

\* Several digits in box i: they go to the boxes from i on.
Pasted(i, v) ==
    /\ digits' = [j \in Boxes |-> IF j \in i..(i + Len(v) - 1) THEN v[j - i + 1]
                                                             ELSE digits[j]]
    /\ IF Len(Text(digits')) = OtpLength THEN Submit(Text(digits'))
       ELSE NoSubmit(error, IF i + Len(v) < OtpLength THEN i + Len(v) ELSE OtpLength)

\* handleChange: the value of the box with the focus changed to v.
HandleChange(v) ==
    /\ ~isVerifying
    /\ focus \in Boxes
    /\ v # Text(<<digits[focus]>>)
    /\ CASE Len(v) = 0 -> Cleared(focus)
         [] Len(v) = 1 -> Typed(focus, v[1])
         [] OTHER      -> Pasted(focus, v)
    /\ UNCHANGED <<signedIn, cooldown, resends>>

\* Backspace in an empty box empties the one before it.
Backspace ==
    /\ ~isVerifying
    /\ focus \in Boxes \ {1} /\ digits[focus] = Empty
    /\ digits' = [digits EXCEPT ![focus - 1] = Empty]
    /\ focus' = focus - 1
    /\ UNCHANGED <<error, isVerifying, sent, signedIn, cooldown, resends>>

\* The arrow keys, or a click on a box.
GoTo(i) ==
    /\ ~isVerifying
    /\ focus' = i
    /\ UNCHANGED <<digits, error, isVerifying, sent, signedIn, cooldown, resends>>

\* The Verify button or Enter: dead while the code is not complete.
Verify ==
    /\ ~isVerifying
    /\ Len(Code) = OtpLength
    /\ Submit(Code)
    /\ UNCHANGED <<digits, signedIn, cooldown, resends>>

Accepted ==
    /\ isVerifying
    /\ signedIn' = TRUE
    /\ isVerifying' = FALSE
    /\ UNCHANGED <<digits, focus, error, sent, cooldown, resends>>

\* The code was refused: the boxes are emptied.  The first box is still
\* disabled when it is given the focus, so it does not take it.
Refused ==
    /\ isVerifying
    /\ digits' = Blank
    /\ error' = TRUE
    /\ isVerifying' = FALSE
    /\ UNCHANGED <<focus, sent, signedIn, cooldown, resends>>

\* A second of the countdown.
Tick ==
    /\ cooldown > 0
    /\ cooldown' = cooldown - 1
    /\ UNCHANGED <<digits, focus, error, isVerifying, sent, signedIn, resends>>

\* Resend code: the button stays until the answer is there.
HandleResend ==
    /\ cooldown = 0
    /\ resends < MaxResends
    /\ resends' = resends + 1
    /\ UNCHANGED <<digits, focus, error, isVerifying, sent, signedIn, cooldown>>

Resent ==
    /\ resends > 0
    /\ resends' = resends - 1
    /\ cooldown' = Cooldown
    /\ UNCHANGED <<digits, focus, error, isVerifying, sent, signedIn>>

Next ==
    \/ \E v \in Values : HandleChange(v)
    \/ Backspace
    \/ \E i \in Boxes : GoTo(i)
    \/ Verify \/ Accepted \/ Refused
    \/ Tick \/ HandleResend \/ Resent

Spec == Init /\ [][Next]_vars

-----------------------------------------------------------------------------
TypeOK ==
    /\ digits \in [Boxes -> DigitSet \cup {Empty}]
    /\ focus \in Boxes \cup {NoFocus}
    /\ sent \in Values
    /\ cooldown \in 0..Cooldown
    /\ resends \in 0..MaxResends

\* The code at the server is complete and is the one the boxes show, digit by
\* digit, whichever way they were filled.
SentIsShown == isVerifying => sent = digits

\* While a refusal is told no code goes out that the player did not enter
\* since: the boxes change in the step that sends it.
RefusedIsGone ==
    ~isVerifying /\ isVerifying' /\ error /\ sent' = sent
        => \E i \in Boxes : digits'[i] # digits[i]
=============================================================================
