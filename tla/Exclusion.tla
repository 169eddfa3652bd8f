------------------------------ MODULE Exclusion ------------------------------
(***************************************************************************)
(* The responsible-gaming page of the player's client and its dialog for   *)
(* self-exclusion.  The dialog is the one of the console, except that it   *)
(* leaves with an animation: its elements stay on the page, and in reach   *)
(* of the keyboard, for a moment after it closed.                          *)
(***************************************************************************)
EXTENDS Dialog, FiniteSets

CONSTANT
    MaxOpenings    \* bound: openings of the dialog

ExclusionAssumption == MaxOpenings \in Nat

VARIABLES
    leaving,     \* the animation of a dialog that closed runs
    duration,    \* selectedDuration
    text,        \* confirmText
    openings,    \* how often the dialog was opened
    confirmed,   \* history: Confirm Self-Exclusion was pressed
    signedIn     \* the player's session on this device

vars == <<dialog, leaving, duration, text, openings, confirmed, signedIn>>

El(kind)  == <<kind, NoOwner>>
Durations == {"day", "ever"}
Texts     == {"", "exclude me", "EXCLUDE ME"}

\* Session limits, the button of the dialog, the reset of the local data.
PageItems == <<El("limit"), El("exclude"), El("reset")>>

\* The exact phrase is typed and a duration is chosen.
CanConfirm == text = "EXCLUDE ME" /\ duration # "none"

\* What takes the focus in the dialog while it is on the page.
DialogItems ==
    IF ~dialog.open /\ ~leaving THEN <<>>
    ELSE <<El("close"), El("day"), El("ever"), El("field")>> \o
         (IF CanConfirm THEN <<El("confirm")>> ELSE <<>>)

Init ==
    /\ dialog = Shut /\ leaving = FALSE
    /\ duration = "none" /\ text = ""
    /\ openings = 0
    /\ confirmed = FALSE /\ signedIn = TRUE

\* The mouse reaches the page when no dialog, open or leaving, covers it.
Usable(f) == dialog.focus = f \/ (~dialog.open /\ ~leaving)

\* Set Up Self-Exclusion.  A dialog that was leaving comes back.
OpenModal ==
    /\ Usable(El("exclude"))
    /\ IF dialog.open
       THEN UNCHANGED <<dialog, leaving, openings>>
       ELSE /\ openings < MaxOpenings
            /\ openings' = openings + 1
            /\ dialog' = Opened(El("exclude"))
            /\ leaving' = FALSE
    /\ UNCHANGED <<duration, text, confirmed, signedIn>>

\* The cross, Escape or the backdrop; duration and phrase stay.
CloseModal ==
    /\ dialog.open
    /\ dialog' = Closed
    /\ leaving' = TRUE
    /\ UNCHANGED <<duration, text, openings, confirmed, signedIn>>

\* The animation ends: the elements go, and with them a focus they had.
Gone ==
    /\ leaving
    /\ leaving' = FALSE
    /\ dialog' = [dialog EXCEPT !.focus = IF @ \in ToSet(DialogItems) \cup {Panel}
                                          THEN Body ELSE @]
    /\ UNCHANGED <<duration, text, openings, confirmed, signedIn>>

\* A duration is chosen, by the key or with the mouse.
SelectDuration(d) ==
    /\ dialog.open \/ leaving
    /\ duration' = d
    /\ dialog' = [dialog EXCEPT !.focus = El(d)]
    /\ UNCHANGED <<leaving, text, openings, confirmed, signedIn>>

Type(t) ==
    /\ dialog.open \/ leaving
    /\ dialog.focus = El("field")
    /\ text' = t
    /\ UNCHANGED <<dialog, leaving, duration, openings, confirmed, signedIn>>

\* Confirm Self-Exclusion: the button has no handler.
Confirm ==
    /\ dialog.open \/ leaving
    /\ CanConfirm
    /\ confirmed' = TRUE
    /\ dialog' = [dialog EXCEPT !.focus = El("confirm")]
    /\ UNCHANGED <<leaving, duration, text, openings, signedIn>>

Tab ==
    /\ \E back \in BOOLEAN :
          dialog' = [dialog EXCEPT !.focus = Tabbed(PageItems, DialogItems, back)]
    /\ UNCHANGED <<leaving, duration, text, openings, confirmed, signedIn>>

\* The frame of an opening, unless the dialog closed before.
Frame ==
    /\ FirstFocus(DialogItems)
    /\ UNCHANGED <<leaving, duration, text, openings, confirmed, signedIn>>

Next ==
    \/ OpenModal \/ CloseModal \/ Gone
    \/ \E d \in Durations : SelectDuration(d)
    \/ \E t \in Texts : Type(t)
    \/ Confirm \/ Tab \/ Frame

Spec == Init /\ [][Next]_vars

-----------------------------------------------------------------------------
TypeOK ==
    /\ leaving \in BOOLEAN
    /\ duration \in Durations \cup {"none"}
    /\ text \in Texts
    /\ openings \in 0..MaxOpenings
    /\ confirmed \in BOOLEAN /\ signedIn \in BOOLEAN
    /\ dialog.focus \in ToSet(PageItems) \cup ToSet(DialogItems) \cup {Body, Panel}

\* A page whose dialog closed scrolls at once, also when the dialog comes back
\* before it was gone: the lock found then is not its own.
ScrollHeld == (dialog.overflow = "hidden") <=> dialog.open

\* The button that opened the dialog has the focus after it closed, in every
\* order of closing, leaving and coming back.
FocusBack ==
    dialog.open /\ ~dialog'.open => dialog'.focus = El("exclude")

\* No press confirms without a duration, or with the phrase in other letters.
ConfirmedExactly ==
    confirmed' # confirmed => duration # "none" /\ text = "EXCLUDE ME"

\* "This action will immediately log you out".
SignedOut == confirmed => ~signedIn
=============================================================================
