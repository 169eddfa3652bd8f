---- MODULE MCClients -------------------------------------------------------
(* The player's web client and the console for TLC: pages, dialogs, forms, the     *)
(* session they share, and what the analytics say.  part says which of them runs,   *)
(* with which bounds.                                                               *)
EXTENDS Integers, Sequences, FiniteSets, TLC

CONSTANTS Parts,      \* the ones that may run
          Off, None

VARIABLES
    part,  \* the one that runs
    mounted, tableClient_phase, tableClient_side, tableClient_amount,
    tableClient_submitting, tableClient_confirmed, tableClient_pending, drawn,
    tableClient_balance, tableClient_played, round, visit,
    t, timers, tableScreen_phase, remaining, countdown, tableScreen_side,
    tableScreen_amount, tableScreen_submitting, tableScreen_confirmed, asked, cards,
    revealed, result, visible, tableScreen_balance, before, stakes,
    open, session, stored, issued, live, call, applied, told,
    console_dialog, status, page, console_pending, reason, touched, console_openings, meant,
    calls,
    exclusion_dialog, leaving, duration, text, exclusion_openings, exclusion_confirmed,
    exclusion_signedIn,
    stack, pageSize, query, shown,
    digits, focus, error, isVerifying, sent, codeEntry_signedIn, cooldown, resends,
    form, values, errors, submitted, sending, requests, accepted, route,
    window, counts, estimate,
    bets, analytics_played, current,
    toasts, toasts_timers, running, fired, toasts_shown, gone, toasts_mounted,
    ledger, statement_balance, now, pauses

TableStays == INSTANCE TableClient WITH
    Amounts <- {1, 2}, Start <- 2, Leaves <- FALSE, Rounds <- 3, Visits <- 2,
    phase <- tableClient_phase, side <- tableClient_side, amount <- tableClient_amount,
    submitting <- tableClient_submitting, confirmed <- tableClient_confirmed,
    pending <- tableClient_pending, balance <- tableClient_balance,
    played <- tableClient_played
TableLeft == INSTANCE TableClient WITH
    Amounts <- {1, 2}, Start <- 2, Leaves <- TRUE, Rounds <- 3, Visits <- 3,
    phase <- tableClient_phase, side <- tableClient_side, amount <- tableClient_amount,
    submitting <- tableClient_submitting, confirmed <- tableClient_confirmed,
    pending <- tableClient_pending, balance <- tableClient_balance,
    played <- tableClient_played
Screen == INSTANCE TableScreen WITH
    Betting <- 2000, Drawing <- 4000, Reveal <- 1200, Result <- 6000, Confirming <- 350,
    Ticks <- 200, Step <- 50, Late <- 100, Values <- {1, 2}, Amounts <- {100, 200, 300},
    MinBet <- 50, MaxBet <- 200, Start <- 300, Stakes <- 1, phase <- tableScreen_phase,
    side <- tableScreen_side, amount <- tableScreen_amount,
    submitting <- tableScreen_submitting, confirmed <- tableScreen_confirmed,
    balance <- tableScreen_balance
AuthClient == INSTANCE AuthClient WITH
    Tabs <- {"t1", "t2"}, Calls <- {"query", "mutation"}, Mutations <- {"mutation"},
    Logins <- 2
Mouse == INSTANCE Console WITH
    Users <- <<"u1">>, Pointer <- TRUE, MayReject <- BOOLEAN, MaxOpenings <- 2,
    dialog <- console_dialog, pending <- console_pending, openings <- console_openings
Keys == INSTANCE Console WITH
    Users <- <<"u1", "u2">>, Pointer <- FALSE, MayReject <- {FALSE}, MaxOpenings <- 2,
    dialog <- console_dialog, pending <- console_pending, openings <- console_openings
Exclusion == INSTANCE Exclusion WITH
    MaxOpenings <- 3, dialog <- exclusion_dialog, openings <- exclusion_openings,
    confirmed <- exclusion_confirmed, signedIn <- exclusion_signedIn
Pages == INSTANCE DataTable WITH
    Rows <- 13, PageSizes <- 1..5, KeepRows <- FALSE, MaxDepth <- 14
KeptPages == INSTANCE DataTable WITH
    Rows <- 7, PageSizes <- 1..3, KeepRows <- TRUE, MaxDepth <- 5
CodeEntry == INSTANCE CodeEntry WITH
    OtpLength <- 3, DigitSet <- {1, 2}, Cooldown <- 2, MaxResends <- 2,
    signedIn <- codeEntry_signedIn
SignInForms == INSTANCE SignInForms WITH
    MaxSubmits <- 2
Estimate == INSTANCE Estimate WITH
    Windows <- {10, 25, 50, 100}, ApiWindow <- 50
Analytics == INSTANCE Analytics WITH
    Rooms <- {"r1"}, BetsPerRound <- 1, Rounds <- 6, Window <- 5, played <- analytics_played
Toasts == INSTANCE Toasts WITH
    Timed <- {"t1", "t2", "t3"}, Sticky <- {"s1"}, Visible <- 2, timers <- toasts_timers,
    shown <- toasts_shown, mounted <- toasts_mounted
Lines == INSTANCE Statement WITH
    Source <- "fixtures", Rates <- {1, 2}, Pauses <- {}, MaxRows <- 3, MaxPauses <- 0,
    balance <- statement_balance
\* Pauses on both sides of every unit of time.
Ages == INSTANCE Statement WITH
    Source <- "fixtures", Rates <- {1}, MaxRows <- 2, MaxPauses <- 2,
    Pauses <- LET Day == 86400 IN
              {1, 15, 29, 45, 59, 3541, 3600, 12 * 3600, Day - 30, Day, 3 * Day, 7 * Day,
               15 * Day, 28 * Day, 334 * Day, 360 * Day, 365 * Day},
    balance <- statement_balance

tableClientVars == <<mounted, tableClient_phase, tableClient_side, tableClient_amount,
    tableClient_submitting, tableClient_confirmed, tableClient_pending, drawn,
    tableClient_balance, tableClient_played, round, visit>>
tableScreenVars == <<t, timers, tableScreen_phase, remaining, countdown, tableScreen_side,
    tableScreen_amount, tableScreen_submitting, tableScreen_confirmed, asked, cards,
    revealed, result, visible, tableScreen_balance, before, stakes>>
authClientVars == <<open, session, stored, issued, live, call, applied, told>>
consoleVars == <<console_dialog, status, page, console_pending, reason, touched,
    console_openings, meant, calls>>
exclusionVars == <<exclusion_dialog, leaving, duration, text, exclusion_openings,
    exclusion_confirmed, exclusion_signedIn>>
dataTableVars == <<stack, pageSize, query, shown>>
codeEntryVars == <<digits, focus, error, isVerifying, sent, codeEntry_signedIn, cooldown,
    resends>>
signInFormsVars == <<form, values, errors, submitted, sending, requests, accepted, route>>
estimateVars == <<window, counts, estimate>>
analyticsVars == <<bets, analytics_played, current>>
toastsVars == <<toasts, toasts_timers, running, fired, toasts_shown, gone, toasts_mounted>>
statementVars == <<ledger, statement_balance, now, pauses>>
vars == <<part, tableClientVars, tableScreenVars, authClientVars, consoleVars,
    exclusionVars, dataTableVars, codeEntryVars, signInFormsVars, estimateVars,
    analyticsVars, toastsVars, statementVars>>

\* A component that does not run keeps Off in its variables.
TableClientRests ==
    /\ mounted = Off /\ tableClient_phase = Off /\ tableClient_side = Off
    /\ tableClient_amount = Off /\ tableClient_submitting = Off
    /\ tableClient_confirmed = Off /\ tableClient_pending = Off /\ drawn = Off
    /\ tableClient_balance = Off /\ tableClient_played = Off /\ round = Off /\ visit = Off
TableScreenRests ==
    /\ t = Off /\ timers = Off /\ tableScreen_phase = Off /\ remaining = Off
    /\ countdown = Off /\ tableScreen_side = Off /\ tableScreen_amount = Off
    /\ tableScreen_submitting = Off /\ tableScreen_confirmed = Off /\ asked = Off
    /\ cards = Off /\ revealed = Off /\ result = Off /\ visible = Off
    /\ tableScreen_balance = Off /\ before = Off /\ stakes = Off
AuthClientRests ==
    /\ open = Off /\ session = Off /\ stored = Off /\ issued = Off /\ live = Off
    /\ call = Off /\ applied = Off /\ told = Off
ConsoleRests ==
    /\ console_dialog = Off /\ status = Off /\ page = Off /\ console_pending = Off
    /\ reason = Off /\ touched = Off /\ console_openings = Off /\ meant = Off
    /\ calls = Off
ExclusionRests ==
    /\ exclusion_dialog = Off /\ leaving = Off /\ duration = Off /\ text = Off
    /\ exclusion_openings = Off /\ exclusion_confirmed = Off /\ exclusion_signedIn = Off
DataTableRests ==
    /\ stack = Off /\ pageSize = Off /\ query = Off /\ shown = Off
CodeEntryRests ==
    /\ digits = Off /\ focus = Off /\ error = Off /\ isVerifying = Off /\ sent = Off
    /\ codeEntry_signedIn = Off /\ cooldown = Off /\ resends = Off
SignInFormsRests ==
    /\ form = Off /\ values = Off /\ errors = Off /\ submitted = Off /\ sending = Off
    /\ requests = Off /\ accepted = Off /\ route = Off
EstimateRests ==
    /\ window = Off /\ counts = Off /\ estimate = Off
AnalyticsRests ==
    /\ bets = Off /\ analytics_played = Off /\ current = Off
ToastsRests ==
    /\ toasts = Off /\ toasts_timers = Off /\ running = Off /\ fired = Off
    /\ toasts_shown = Off /\ gone = Off /\ toasts_mounted = Off
StatementRests ==
    /\ ledger = Off /\ statement_balance = Off /\ now = Off /\ pauses = Off

Init ==
    /\ part \in Parts
    /\ CASE part = "table_stays" -> TableStays!Init
         [] part = "table_left" -> TableLeft!Init
         [] OTHER -> TableClientRests
    /\ IF part = "screen" THEN Screen!Init ELSE TableScreenRests
    /\ IF part = "auth_client" THEN AuthClient!Init ELSE AuthClientRests
    /\ CASE part = "console" -> Mouse!Init
         [] part = "console_keys" -> Keys!Init
         [] OTHER -> ConsoleRests
    /\ IF part = "exclusion" THEN Exclusion!Init ELSE ExclusionRests
    /\ CASE part = "data_table" -> Pages!Init
         [] part = "data_table_kept" -> KeptPages!Init
         [] OTHER -> DataTableRests
    /\ IF part = "code_entry" THEN CodeEntry!Init ELSE CodeEntryRests
    /\ IF part = "sign_in" THEN SignInForms!Init ELSE SignInFormsRests
    /\ IF part = "estimate" THEN Estimate!Init ELSE EstimateRests
    /\ IF part = "analytics" THEN Analytics!Init ELSE AnalyticsRests
    /\ IF part = "toasts" THEN Toasts!Init ELSE ToastsRests
    /\ CASE part = "statement" -> Lines!Init
         [] part = "ages" -> Ages!Init
         [] OTHER -> StatementRests

Next ==
    /\ UNCHANGED part
    /\ CASE part = "table_stays" -> TableStays!Next
         [] part = "table_left" -> TableLeft!Next
         [] OTHER -> UNCHANGED tableClientVars
    /\ IF part = "screen" THEN Screen!Next ELSE UNCHANGED tableScreenVars
    /\ IF part = "auth_client" THEN AuthClient!Next ELSE UNCHANGED authClientVars
    /\ CASE part = "console" -> Mouse!Next
         [] part = "console_keys" -> Keys!Next
         [] OTHER -> UNCHANGED consoleVars
    /\ IF part = "exclusion" THEN Exclusion!Next ELSE UNCHANGED exclusionVars
    /\ CASE part = "data_table" -> Pages!Next
         [] part = "data_table_kept" -> KeptPages!Next
         [] OTHER -> UNCHANGED dataTableVars
    /\ IF part = "code_entry" THEN CodeEntry!Next ELSE UNCHANGED codeEntryVars
    /\ IF part = "sign_in" THEN SignInForms!Next ELSE UNCHANGED signInFormsVars
    /\ IF part = "estimate" THEN Estimate!Next ELSE UNCHANGED estimateVars
    /\ IF part = "analytics" THEN Analytics!Next ELSE UNCHANGED analyticsVars
    /\ IF part = "toasts" THEN Toasts!Next ELSE UNCHANGED toastsVars
    /\ CASE part = "statement" -> Lines!Next
         [] part = "ages" -> Ages!Next
         [] OTHER -> UNCHANGED statementVars

Spec == Init /\ [][Next]_vars

-----------------------------------------------------------------------------
\* The bounds of each are ones its component allows.
ASSUME ClientsAssumption ==
    /\ TableStays!TableClientAssumption /\ TableLeft!TableClientAssumption
    /\ Screen!TableScreenAssumption /\ AuthClient!AuthClientAssumption
    /\ Mouse!ConsoleAssumption /\ Keys!ConsoleAssumption
    /\ Exclusion!ExclusionAssumption
    /\ Pages!DataTableAssumption /\ KeptPages!DataTableAssumption
    /\ CodeEntry!CodeEntryAssumption /\ SignInForms!SignInFormsAssumption
    /\ Estimate!EstimateAssumption /\ Analytics!AnalyticsAssumption
    /\ Toasts!ToastsAssumption /\ Lines!StatementAssumption /\ Ages!StatementAssumption

\* The variables of the component that runs keep their types, and what it holds fits
\* together.
TypeOK ==
    /\ part = "table_left"   => TableLeft!TypeOK
    /\ part = "screen"       => Screen!TypeOK
    /\ part = "auth_client"  => AuthClient!TypeOK
    /\ part = "console"      => Mouse!TypeOK
    /\ part = "exclusion"    => Exclusion!TypeOK
    /\ part = "data_table"   => Pages!TypeOK
    /\ part = "data_table_kept" => KeptPages!TypeOK
    /\ part = "code_entry"   => CodeEntry!TypeOK
    /\ part = "sign_in"      => SignInForms!TypeOK
    /\ part = "estimate"     => Estimate!TypeOK
    /\ part = "toasts"       => Toasts!TypeOK
    /\ part = "statement"    => Lines!TypeOK

\* The coins, times and stakes a table shows are those of the round, however late its
\* timers fire, no coins come of leaving it or reloading it, and no timer of a notice
\* outlives it (game/[roomId]/page.tsx, game-store.ts, bet-panel.tsx, toast.tsx).
TableTellsTheTruth ==
    /\ part = "table_stays" => TableStays!BalanceExplained
    /\ part = "table_left"  => TableLeft!NoFreeCoins
    /\ part = "screen" => /\ Screen!DigitsTrue /\ Screen!StakeInLimits
                          /\ Screen!NetTold /\ Screen!ReturnTold
    /\ part = "toasts" => Toasts!TimersOwned

\* What goes to the API is what was on the page when it was asked for, is allowed
\* there, and goes once; a rejected session is not used again (query-client.ts,
\* auth-store.ts, verify-otp/page.tsx, reason-modal.tsx).
SentAsMeant ==
    /\ part = "auth_client" => AuthClient!NoLoop /\ AuthClient!MutationOnce
    /\ part = "console" => Mouse!CallsAllowed /\ Mouse!OneCall /\ Mouse!ScrollHeld
    /\ part = "console_keys" => Keys!FocusTrapped /\ Keys!ReasonNotCarried
    /\ part = "exclusion" => Exclusion!ScrollHeld
    /\ part = "code_entry" => CodeEntry!SentIsShown
    /\ part = "sign_in" => SignInForms!SentIsValid /\ SignInForms!TargetIsSent

\* Pages, ranges, streaks, shares, leans, balances and ages that are told are those of
\* the data (data-table.tsx, lib/analytics.ts, analytics.service.ts, lib/utils.ts,
\* users/[id]/page.tsx).
FiguresTrue ==
    /\ part = "data_table" => Pages!RangeTrue /\ Pages!NeverPastTheEnd /\ Pages!StackTrue
    /\ part = "data_table_kept" => KeptPages!NeverPastTheEnd
    /\ part = "estimate" => /\ Estimate!LeanIsTrue /\ Estimate!LabelsEarned
                            /\ Estimate!SharesAddUp
    /\ part = "analytics" => /\ Analytics!StreakRight /\ Analytics!ApiStreaksRight
                             /\ Analytics!SameSummary
    /\ part = "statement" => Lines!LinesAdd
    /\ part = "ages" => Ages!AgesInOrder /\ Ages!AgesNear

\* What the user settled stays so until they change it: a selection, a confirmation,
\* the focus, a refused code, a lean that only grows stronger; the newest notice is on
\* the screen, and no age is taken back.
StepsAsMeant ==
    [][/\ part = "table_stays" => TableStays!SelectionLocked
       /\ part = "screen" => Screen!BlindStake
       /\ part = "console" => Mouse!FocusBack /\ Mouse!FreshForm
       /\ part = "exclusion" => Exclusion!FocusBack /\ Exclusion!ConfirmedExactly
       /\ part = "code_entry" => CodeEntry!RefusedIsGone
       /\ part = "sign_in" => SignInForms!RefusalTold
       /\ part = "estimate" => Estimate!MoreOfTheSame
       /\ part = "toasts" => Toasts!NewestOnScreen
       /\ part = "ages" => Ages!AgesGrow]_vars
=============================================================================
