------------------------------- MODULE Toasts -------------------------------
(***************************************************************************)
(* ToastProvider of the web and the admin application: the toasts on the   *)
(* screen, the timers that take them away, and the callers.  A timer that  *)
(* has run out is a callback in the queue until it runs; clearing it in    *)
(* between takes it out.  The two providers differ in Visible and in the   *)
(* errors of the admin console, which get no timer.                        *)
(***************************************************************************)
EXTENDS Naturals, Sequences, SequencesExt

CONSTANTS Timed, Sticky, \* the toasts callers show, with and without a duration
          Visible        \* MAX_VISIBLE

Ids == Timed \cup Sticky

ToastsAssumption == Visible \in Nat \ {0} /\ Timed \cap Sticky = {}

VARIABLES
    toasts,  \* the list the provider renders, oldest first
    timers,  \* ids with an entry in timers.current
    running, \* timers that run
    fired,   \* callbacks in the queue
    shown,   \* ids that were shown
    gone,    \* ids dismissed, by a click, a timer or dismissAll
    mounted

vars == <<toasts, timers, running, fired, shown, gone, mounted>>

On == ToSet(toasts)

\* fault: one more.
NewestMore(list, n) == IF Len(list) <= n THEN list ELSE SubSeq(list, Len(list) - n, Len(list))
\* The last n of a list.
Newest(list, n) == IF Len(list) <= n THEN list ELSE SubSeq(list, Len(list) - n + 1, Len(list))

Init ==
    /\ toasts = <<>> /\ timers = {} /\ running = {} /\ fired = {}
    /\ shown = {} /\ gone = {} /\ mounted = TRUE

\* fault: the oldest are kept.
ToastOldest(id) ==
    /\ mounted /\ id \notin shown
    /\ toasts' = SubSeq(Append(toasts, id), 1, IF Len(toasts) < Visible THEN Len(toasts) + 1 ELSE Visible)
    /\ timers' = timers \cup ({id} \cap Timed)
    /\ running' = running \cup ({id} \cap Timed)
    /\ shown' = shown \cup {id}
    /\ UNCHANGED <<fired, gone, mounted>>
\* fault: only a toast that finds room gets a timer.
ToastUntimed(id) ==
    /\ mounted /\ id \notin shown
    /\ toasts' = Newest(Append(toasts, id), Visible)
    /\ timers' = IF Len(toasts) < Visible THEN timers \cup ({id} \cap Timed) ELSE timers
    /\ running' = IF Len(toasts) < Visible THEN running \cup ({id} \cap Timed) ELSE running
    /\ shown' = shown \cup {id}
    /\ UNCHANGED <<fired, gone, mounted>>
\* The list keeps the newest; one it drops keeps its timer.
Toast(id) ==
    /\ mounted /\ id \notin shown
    /\ toasts' = Newest(Append(toasts, id), Visible)
    /\ timers' = timers \cup ({id} \cap Timed)
    /\ running' = running \cup ({id} \cap Timed)
    /\ shown' = shown \cup {id}
    /\ UNCHANGED <<fired, gone, mounted>>

\* fault: the timer is left to run.
DropKept(id) ==
    /\ toasts' = SelectSeq(toasts, LAMBDA t : t # id)
    /\ UNCHANGED <<timers, running, fired>>
\* The body of dismiss: the timer is cleared, the toast filtered out.
Drop(id) ==
    /\ timers' = timers \ {id}
    /\ running' = running \ {id} /\ fired' = fired \ {id}
    /\ toasts' = SelectSeq(toasts, LAMBDA t : t # id)

\* A click on a toast or on its action.
Dismiss(id) ==
    /\ mounted /\ id \in On
    /\ Drop(id)
    /\ gone' = gone \cup {id}
    /\ UNCHANGED <<shown, mounted>>

Elapse(id) ==
    /\ id \in running
    /\ running' = running \ {id} /\ fired' = fired \cup {id}
    /\ UNCHANGED <<toasts, timers, shown, gone, mounted>>

TimerFires(id) ==
    /\ id \in fired
    /\ Drop(id)
    /\ gone' = gone \cup {id}
    /\ UNCHANGED <<shown, mounted>>

DismissAll ==
    /\ mounted
    /\ toasts' = <<>> /\ timers' = {}
    /\ running' = running \ timers /\ fired' = fired \ timers
    /\ gone' = gone \cup On
    /\ UNCHANGED <<shown, mounted>>

\* fault: the timers are left behind.
UnmountLeaving ==
    /\ mounted /\ mounted' = FALSE
    /\ toasts' = <<>> /\ timers' = {}
    /\ UNCHANGED <<running, fired, shown, gone>>
\* The cleanup of the effect.
Unmount ==
    /\ mounted /\ mounted' = FALSE
    /\ toasts' = <<>> /\ timers' = {}
    /\ running' = running \ timers /\ fired' = fired \ timers
    /\ UNCHANGED <<shown, gone>>

Next ==
    \/ \E id \in Ids : Toast(id) \/ Dismiss(id) \/ Elapse(id) \/ TimerFires(id)
    \/ DismissAll \/ Unmount

Spec == Init /\ [][Next]_vars

-----------------------------------------------------------------------------
TypeOK ==
    /\ toasts \in Seq(Ids) /\ Len(toasts) <= Visible /\ IsInjective(toasts)
    /\ timers \subseteq Timed /\ running \subseteq Timed /\ fired \subseteq Timed
    /\ shown \subseteq Ids /\ gone \subseteq Ids /\ mounted \in BOOLEAN

\* No timer outlives the provider or a toast that was dismissed, and a toast on
\* the screen that is to leave by itself has exactly one that runs or has run out.
TimersOwned ==
    /\ timers = running \cup fired /\ running \cap fired = {}
    /\ Timed \cap On \subseteq timers
    /\ timers \cap gone = {} /\ (~ mounted => timers = {})

\* A toast that is shown comes on the screen whatever is there already: the list
\* makes room at its old end (toast.tsx 99).
NewestOnScreen ==
    \A id \in Ids : id \in shown' \ shown => toasts'[Len(toasts')] = id

\* "`0` keeps it until dismissed" (toast.tsx 25), and in the admin console "errors
\* never auto-dismiss" (97): a toast without a duration leaves by being dismissed.
StickyStays ==
    \A id \in Sticky : mounted' /\ id \in On /\ id \notin On' => id \in gone'
=============================================================================
