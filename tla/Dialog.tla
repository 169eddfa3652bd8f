------------------------------- MODULE Dialog -------------------------------
(***************************************************************************)
(* The dialog both clients open over a page (components/ui/modal.tsx): what *)
(* it does to the focus, to the scrolling of the page and to the keyboard.  *)
(* The module that extends it says which elements of the page and of the    *)
(* dialog take the focus; an element is <<kind, owner>>.  The dialog is the *)
(* last child of the body: its elements come after those of the page.       *)
(***************************************************************************)
EXTENDS Integers, Sequences, SequencesExt

VARIABLE dialog

NoOwner == "-"
Body    == <<"body", NoOwner>>    \* nothing of the document has the focus
Panel   == <<"panel", NoOwner>>   \* the dialog itself (tabIndex -1)

\* A page without a dialog.
Shut == [open |-> FALSE, focus |-> Body, trigger |-> Body,
         overflow |-> "scroll", original |-> "scroll", frame |-> FALSE]

\* The dialog after the effect of opening, when f has the focus.
Opened(f) ==
    [open |-> TRUE, focus |-> f, trigger |-> f, overflow |-> "hidden",
     original |-> dialog.overflow, frame |-> TRUE]

\* The dialog after the clean-up of that effect.
Closed ==
    [dialog EXCEPT !.open = FALSE, !.frame = FALSE,
                   !.overflow = dialog.original, !.focus = dialog.trigger]

\* The frame after the opening: the first element takes the focus.
FirstFocus(items) ==
    /\ dialog.open
    /\ dialog.frame
    /\ dialog' = [dialog EXCEPT !.frame = FALSE,
                      !.focus = IF items = <<>> THEN Panel ELSE Head(items)]

\* Where the browser takes the focus from f, with nobody in its way.
Neighbour(page, items, f, back) ==
    LET order == page \o items
        at    == CASE f = Body  -> IF back THEN Len(order) + 1 ELSE 0
                   [] f = Panel -> IF back THEN Len(page) + 1 ELSE Len(page)
                   [] OTHER     -> CHOOSE i \in DOMAIN order : order[i] = f
        to    == IF back THEN at - 1 ELSE at + 1
    IN  IF to \in DOMAIN order THEN order[to] ELSE Body

\* Tab and Shift+Tab (back): held at the two ends of an open dialog.
Tabbed(page, items, back) ==
    CASE dialog.open /\ items = <<>> -> dialog.focus
      [] dialog.open /\ items # <<>> /\ back /\ dialog.focus = Head(items)
            -> Last(items)
      [] dialog.open /\ items # <<>> /\ ~back /\ dialog.focus = Last(items)
            -> Head(items)
      [] OTHER -> Neighbour(page, items, dialog.focus, back)

\* The focus is on the dialog or on one of its elements.
Inside(items) == dialog.focus \in ToSet(items) \cup {Panel}
=============================================================================
