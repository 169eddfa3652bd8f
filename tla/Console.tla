------------------------------- MODULE Console ------------------------------
(***************************************************************************)
(* The user pages of the admin console: a list and a detail page per user, *)
(* and the one dialog that asks for a reason before an action on an        *)
(* account.  The administrator has a keyboard and, with Pointer, a mouse;  *)
(* an open dialog covers the page for the mouse but not for the keyboard.  *)
(***************************************************************************)
EXTENDS Dialog, FiniteSets

CONSTANTS
    Users,         \* the rows of the list, in order
    Pointer,       \* the administrator also uses a mouse
    MayReject,     \* what a call of onConfirm may do: {FALSE}, or BOOLEAN
    MaxOpenings    \* bound: openings of a dialog

ConsoleAssumption ==
    /\ Len(Users) > 0
    /\ IsInjective(Users)
    /\ Pointer \in BOOLEAN
    /\ MayReject \subseteq BOOLEAN /\ MayReject # {}
    /\ MaxOpenings \in Nat

VARIABLES
    status,    \* the accounts, fixtures of the page
    page,      \* "list", or the user of the detail page
    pending,   \* the action asked for: suspendTarget, pending
    reason,    \* the text of the field
    touched,   \* the field was left, or Confirm pressed
    openings,  \* how often a dialog was opened
    meant,     \* history: the action the reason was typed for
    calls      \* the calls of onConfirm, in order

vars == <<dialog, status, page, pending, reason, touched, openings, meant, calls>>

UserSet  == ToSet(Users)
Statuses == {"active", "suspended", "self_excluded"}
Texts    == {"", "spaces", "short", "enough"}
NoAction == [user |-> NoOwner, do |-> NoOwner]
Actions  == [user : UserSet, do : {"suspend", "activate", "exclude"}]

El(kind) == <<kind, NoOwner>>

\* What takes the focus on the page: a search box and two elements a row, or
\* the way back and two buttons.
PageItems ==
    IF page = "list"
    THEN <<El("search")>> \o
         [i \in 1..(2 * Len(Users)) |->
            IF i % 2 = 1 THEN <<"view", Users[(i + 1) \div 2]>>
                         ELSE <<"act", Users[i \div 2]>>]
    ELSE <<El("back"), <<"act", page>>, <<"exclude", page>>>>

\* The text without the spaces around it.
Trim(t) == IF t = "spaces" THEN "" ELSE t

\* The reason is missing or shorter than ten characters.
ReasonError == Trim(reason) \in {"", "short"}

CanSubmit == ~ReasonError

\* The one error the dialog shows.
ErrorShown == touched /\ ReasonError

\* What takes the focus in the dialog: a disabled button does not.
DialogItems ==
    IF ~dialog.open THEN <<>>
    ELSE <<El("close"), El("field"), El("cancel")>> \o
         (IF CanSubmit THEN <<El("confirm")>> ELSE <<>>)

Init ==
    /\ dialog = Shut
    /\ status \in [UserSet -> Statuses]
    /\ page = "list"
    /\ pending = NoAction
    /\ reason = "" /\ touched = FALSE
    /\ openings = 0
    /\ meant = NoAction
    /\ calls = <<>>

\* The action a button of the page asks for; NoAction for one without a handler.
Asked(f) ==
    CASE page = "list" /\ f[1] = "act" /\ status[f[2]] = "active"
            -> [user |-> f[2], do |-> "suspend"]
      [] page # "list" /\ f[1] = "act"
            -> [user |-> page,
                do |-> IF status[page] = "active" THEN "suspend" ELSE "activate"]
      [] f[1] = "exclude" -> [user |-> page, do |-> "exclude"]
      [] OTHER -> NoAction

\* An element of the page can be used: by its key, or by the mouse when no
\* dialog covers it.
Usable(f) == dialog.focus = f \/ (Pointer /\ ~dialog.open)

\* A button of the page asks for an action.  When a dialog is open already
\* only the action changes: the effects of opening do not run again.
Ask(f) ==
    /\ Usable(f)
    /\ Asked(f) # NoAction
    /\ pending' = Asked(f)
    /\ IF dialog.open
       THEN UNCHANGED <<dialog, openings>>
       ELSE /\ openings < MaxOpenings
            /\ openings' = openings + 1
            /\ dialog' = Opened(f)
    /\ UNCHANGED <<status, page, reason, touched, meant, calls>>

\* The effect of closing: the form is emptied.
Forget == reason' = "" /\ touched' = FALSE /\ meant' = NoAction

\* The way out of a dialog: Cancel, the cross, Escape or the backdrop.
Dismiss(f) ==
    /\ dialog.open
    /\ f \in {El("cancel"), El("close"), El("escape"), El("backdrop")}
    /\ \/ dialog.focus = f
       \/ f = El("escape")
       \/ Pointer
    /\ pending' = NoAction
    /\ dialog' = Closed
    /\ Forget
    /\ UNCHANGED <<status, page, openings, calls>>

\* handleConfirm: the page's handler closes the dialog; one that rejects
\* leaves it as it is, and nothing catches the failure.
HandleConfirm ==
    /\ dialog.open /\ CanSubmit
    /\ dialog.focus = El("confirm") \/ Pointer
    /\ \E rejects \in MayReject :
          /\ Len(calls) < MaxOpenings + 1
          /\ calls' = Append(calls, [target |-> pending, meant |-> meant,
                                     reason |-> Trim(reason), opening |-> openings,
                                     ok |-> ~rejects])
          /\ IF rejects
             THEN /\ dialog' = [dialog EXCEPT !.focus = El("confirm")]
                  /\ touched' = TRUE
                  /\ UNCHANGED <<pending, reason, meant>>
             ELSE /\ pending' = NoAction /\ dialog' = Closed /\ Forget
    /\ UNCHANGED <<status, page, openings>>

\* The text changes under the hands of who has the focus in the field.
Type(t) ==
    /\ dialog.open /\ dialog.focus = El("field")
    /\ t # reason
    /\ reason' = t
    /\ meant' = pending
    /\ UNCHANGED <<dialog, status, page, pending, touched, openings, calls>>

\* The focus moves to f; leaving the field touches it.
MoveFocus(f) ==
    /\ dialog' = [dialog EXCEPT !.focus = f]
    /\ touched' = (touched \/ (dialog.open /\ dialog.focus = El("field") /\ f # El("field")))
    /\ UNCHANGED <<status, page, pending, reason, openings, meant, calls>>

Tab == \E back \in BOOLEAN : MoveFocus(Tabbed(PageItems, DialogItems, back))

\* A click into the dialog: on its field, or on its text.
Click ==
    /\ Pointer /\ dialog.open
    /\ \E f \in {El("field"), Panel} : MoveFocus(f)

Frame ==
    /\ FirstFocus(DialogItems)
    /\ UNCHANGED <<status, page, pending, reason, touched, openings, meant, calls>>

\* A link of the page is followed: the page goes, its dialog with it.
Navigate(f) ==
    /\ f[1] \in {"view", "back"}
    /\ Usable(f)
    /\ page' = (IF f[1] = "view" THEN f[2] ELSE "list")
    /\ dialog' = [(IF dialog.open THEN Closed ELSE dialog) EXCEPT !.focus = Body]
    /\ pending' = NoAction
    /\ Forget
    /\ UNCHANGED <<status, openings, calls>>

Next ==
    \/ \E f \in ToSet(PageItems) : Ask(f) \/ Navigate(f)
    \/ \E k \in {"cancel", "close", "escape", "backdrop"} : Dismiss(El(k))
    \/ HandleConfirm
    \/ \E t \in Texts : Type(t)
    \/ Tab
    \/ Click
    \/ Frame

Spec == Init /\ [][Next]_vars

-----------------------------------------------------------------------------
TypeOK ==
    /\ status \in [UserSet -> Statuses]
    /\ page \in {"list"} \cup UserSet
    /\ pending \in Actions \cup {NoAction}
    /\ reason \in Texts /\ touched \in BOOLEAN
    /\ openings \in 0..MaxOpenings
    /\ meant \in Actions \cup {NoAction}
    /\ Len(calls) <= MaxOpenings + 1
    /\ dialog.focus \in ToSet(PageItems) \cup ToSet(DialogItems) \cup {Body, Panel}
    /\ dialog.open <=> pending # NoAction

\* Every call carries a reason of ten characters that are not all spaces, and
\* asks for what the user's status allows the page to offer, whichever ways
\* through openings, pages and keys led to it.
CallsAllowed ==
    \A c \in ToSet(calls) :
        /\ c.reason = "enough"
        /\ c.target.do = "suspend"  => status[c.target.user] = "active"
        /\ c.target.do = "activate" => status[c.target.user] # "active"

\* One opening of the dialog gives at most one call that is carried out.
OneCall ==
    \A i, j \in DOMAIN calls :
        i # j /\ calls[i].ok /\ calls[j].ok => calls[i].opening # calls[j].opening

\* A page without a dialog scrolls and a page under one does not, also after
\* the dialog went with its page.
ScrollHeld == (dialog.overflow = "hidden") <=> dialog.open

\* A dialog that closes on its page gives the focus back to the button that
\* opened it.
FocusBack ==
    dialog.open /\ ~dialog'.open /\ page' = page
        => dialog'.focus = dialog.trigger /\ dialog.trigger \in ToSet(PageItems)

\* A dialog opens on an empty form.
FreshForm ==
    openings' # openings => reason' = "" /\ ~touched'

\* "Traps focus": once the dialog has taken the focus it keeps it.
FocusTrapped == dialog.open /\ ~dialog.frame => Inside(DialogItems)

\* "Never carry a justification from one action over to the next": the reason
\* of a call was typed for that action.
ReasonNotCarried == \A c \in ToSet(calls) : c.meant = c.target

\* "Staff cannot lift an exclusion early": no call lets an excluded user back.
NoLift ==
    \A c \in ToSet(calls) :
        c.target.do = "activate" => status[c.target.user] # "self_excluded"

\* "Throw (or reject) to keep the dialog open and surface the failure": after
\* a call that failed the open dialog tells so.
FailureTold ==
    dialog.open /\ calls # <<>> /\ Last(calls).opening = openings /\ ~Last(calls).ok
        => ErrorShown
=============================================================================
