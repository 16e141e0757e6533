------------------------------- MODULE PosPages -------------------------------
(***************************************************************************)
(* The point-of-sale page in the browser: PosPage.tsx over the store of    *)
(* posSlice.ts, the date panel, the paged table and the import dialog.     *)
(*                                                                         *)
(* Requests are answered in any order.  A page of daily figures answers    *)
(* with the page and the limit it was asked for but not with the dates.    *)
(* An effect asks again whenever dates, page or limit have changed.        *)
(***************************************************************************)
EXTENDS Integers, FiniteSets, Bags

CONSTANTS
    PpRanges,   \* the date ranges a user picks from
    PpPages,    \* page numbers
    PpLimits,   \* rows per page
    PpSyncs,    \* names for the syncs under way
    PpScripts   \* bounds: what a user may still do, which requests fail

NoJob == "none"
FileJob == "file"
PpJobs == PpSyncs \cup {FileJob}

\* A sync, the file import and no job at all are told apart; there is a first page.
ASSUME PpAssumption == 1 \in PpPages /\ {NoJob, FileJob} \cap PpSyncs = {}

VARIABLES
    ppView,     \* the store: dates, page, limit, view, loading flags, error
    ppShown,    \* the request whose rows are shown; {} before the first
    ppMissed,   \* whether the last request for rows to end has failed
    ppFlights,  \* the requests not yet answered, a bag
    ppJob,      \* progress of each sync and of the file import
    ppModal,    \* the import dialog
    ppScript    \* what may still be done

ppVars == <<ppView, ppShown, ppMissed, ppFlights, ppJob, ppModal, ppScript>>
-----------------------------------------------------------------------------
(* Requests.                                                               *)

\* fetchDaily and fetchOverview take dates, page and limit from the store.
Daily(view, job) ==
    [kind |-> "daily", range |-> view.range, page |-> view.page, limit |-> view.limit, job |-> job]
Overview(view, job) ==
    [kind |-> "overview", range |-> view.range, page |-> 0, limit |-> 0, job |-> job]

Some(condition, request) == IF condition THEN SetToBag({request}) ELSE EmptyBag

\* The effects of PosPage: new dates ask for both, a new page or limit for the rows.
Effects(old, new) ==
    Some(new.range # old.range, Overview(new, NoJob))
    (+) Some(\E f \in {"range", "page", "limit"} : new[f] # old[f], Daily(new, NoJob))

\* pending: the flag of the kind goes up and any error goes away.
Pending(view, sent) ==
    LET Kind(k) == \E r \in BagToSet(sent) : r.kind = k
    IN  [view EXCEPT !.daily = @ \/ Kind("daily"),
                     !.overview = @ \/ Kind("overview"),
                     !.error = @ /\ sent = EmptyBag]

\* The store becomes view, effects run, and what they and the caller ask is sent.
Become(view, asked, answered) ==
    LET sent == Effects(ppView, view) (+) asked
    IN  /\ ppFlights' = (ppFlights (-) answered) (+) sent
        /\ ppView' = Pending(view, sent)

Act(op) ==
    /\ op \in ppScript.ops /\ ppScript.left > 0
    /\ ppScript' = [ppScript EXCEPT !.left = @ - 1]
-----------------------------------------------------------------------------
(* What a user does.                                                       *)

\* setDateRange goes back to the first page.  The panel is never disabled.
SetDateRange ==
    /\ Act("range")
    /\ \E r \in PpRanges : Become([ppView EXCEPT !.range = r, !.page = 1], EmptyBag, EmptyBag)
    /\ UNCHANGED <<ppShown, ppMissed, ppJob, ppModal>>

\* The pager stands under the rows: neither while they load, nor in the other
\* view, nor before there are any.
PagerShown == ppView.view = "table" /\ ~ppView.daily /\ ppShown # {}

SetPage ==
    /\ Act("page") /\ PagerShown
    /\ \E p \in PpPages : Become([ppView EXCEPT !.page = p], EmptyBag, EmptyBag)
    /\ UNCHANGED <<ppShown, ppMissed, ppJob, ppModal>>

SetLimit ==
    /\ Act("limit") /\ PagerShown
    /\ \E l \in PpLimits : Become([ppView EXCEPT !.limit = l, !.page = 1], EmptyBag, EmptyBag)
    /\ UNCHANGED <<ppShown, ppMissed, ppJob, ppModal>>

SetView ==
    /\ Act("view")
    /\ Become([ppView EXCEPT !.view = IF @ = "table" THEN "dashboard" ELSE "table"],
              EmptyBag, EmptyBag)
    /\ UNCHANGED <<ppShown, ppMissed, ppJob, ppModal>>

Refresh ==
    /\ Act("refresh") /\ ~ppView.daily /\ ~ppView.overview
    /\ Become(ppView, Some(TRUE, Daily(ppView, NoJob)) (+) Some(TRUE, Overview(ppView, NoJob)),
              EmptyBag)
    /\ UNCHANGED <<ppShown, ppMissed, ppJob, ppModal>>

\* The primary action, from the panel or, without rows, from the empty view,
\* which does not look whether a sync is under way.
PrimaryEnabled ==
    \/ ~ppView.daily /\ ~ppView.overview /\ ~ppView.syncing
    \/ ppView.view = "table" /\ ~ppView.daily /\ ppShown = {}
    \/ ppView.view = "dashboard" /\ ~ppView.overview /\ ppShown = {}

\* syncGoogleSheet, pending
SyncNow ==
    /\ Act("sync") /\ PrimaryEnabled
    /\ \E j \in PpSyncs :
          /\ ppJob[j] = "idle"
          /\ ppJob' = [ppJob EXCEPT ![j] = "commit"]
    /\ ppView' = [ppView EXCEPT !.syncing = TRUE, !.error = FALSE]
    /\ UNCHANGED <<ppShown, ppMissed, ppFlights, ppModal>>

Closed == [open |-> FALSE, phase |-> "source", busy |-> FALSE]

OpenModal ==
    /\ Act("open") /\ PrimaryEnabled /\ ~ppModal.open
    /\ ppModal' = [ppModal EXCEPT !.open = TRUE]
    /\ UNCHANGED <<ppView, ppShown, ppMissed, ppFlights, ppJob>>

\* selectSource, handleFileSelect and handleProceed; handleBack
ChooseFile ==
    /\ ppModal.open /\ ppModal.phase = "source"
    /\ ppModal' = [ppModal EXCEPT !.phase = "confirm"]
    /\ UNCHANGED <<ppView, ppShown, ppMissed, ppFlights, ppJob, ppScript>>

\* The dialog closes also while it is busy: on Escape or a click beside it.
CloseModal ==
    /\ ppModal.open
    /\ ppModal' = Closed
    /\ UNCHANGED <<ppView, ppShown, ppMissed, ppFlights, ppJob, ppScript>>

CommitFile ==
    /\ ppModal.open /\ ppModal.phase = "confirm" /\ ~ppModal.busy
    /\ ppJob[FileJob] = "idle"
    /\ ppModal' = [ppModal EXCEPT !.busy = TRUE]
    /\ ppJob' = [ppJob EXCEPT ![FileJob] = "commit"]
    /\ UNCHANGED <<ppView, ppShown, ppMissed, ppFlights, ppScript>>
-----------------------------------------------------------------------------
(* Answers.                                                                *)

\* The import is made: the rows are asked for, then the overview (onImported,
\* syncGoogleSheet).
Imported ==
    \E j \in PpJobs :
        /\ ppJob[j] = "commit"
        /\ ppJob' = [ppJob EXCEPT ![j] = "reload"]
        /\ Become(ppView, Some(TRUE, Daily(ppView, j)), EmptyBag)
        /\ UNCHANGED <<ppShown, ppMissed, ppModal, ppScript>>

\* The import is refused.  A sync tells the store, the dialog tells itself.
ImportRefused ==
    /\ Act("refuse")
    /\ \E j \in PpJobs :
          /\ ppJob[j] = "commit"
          /\ ppJob' = [ppJob EXCEPT ![j] = "idle"]
          /\ ppView' = IF j = FileJob THEN ppView
                       ELSE [ppView EXCEPT !.syncing = FALSE, !.error = TRUE]
          /\ ppModal' = IF j = FileJob THEN [ppModal EXCEPT !.busy = FALSE] ELSE ppModal
    /\ UNCHANGED <<ppShown, ppMissed, ppFlights>>

\* What waits for an answer goes on when it has come, good or bad: after the rows
\* the overview; then a sync is over, and an import closes the dialog that is
\* open by now.
Continue(f, view) ==
    LET over == f.job # NoJob /\ f.kind = "overview"
    IN  /\ ppJob' = [j \in PpJobs |-> IF over /\ j = f.job THEN "idle" ELSE ppJob[j]]
        /\ ppModal' = IF over /\ f.job = FileJob THEN Closed ELSE ppModal
        /\ Become([view EXCEPT !.syncing = @ /\ ~(over /\ f.job \in PpSyncs)],
                  Some(f.job # NoJob /\ f.kind = "daily", Overview(view, f.job)),
                  SetToBag({f}))

\* Mutant: rows keep the page the store has by now.
FulfilledInPlace(f) == [ppView EXCEPT !.daily = FALSE]

\* fetchDaily.fulfilled: page and limit become those of the rows.
Fulfilled(f) == [ppView EXCEPT !.daily = FALSE, !.page = f.page, !.limit = f.limit]

DailyAnswered ==
    \E f \in BagToSet(ppFlights) :
        /\ f.kind = "daily"
        /\ ppShown' = {[f EXCEPT !.job = NoJob]}
        /\ ppMissed' = FALSE
        /\ Continue(f, Fulfilled(f))
        /\ UNCHANGED ppScript

OverviewAnswered ==
    \E f \in BagToSet(ppFlights) :
        /\ f.kind = "overview"
        /\ Continue(f, [ppView EXCEPT !.overview = FALSE])
        /\ UNCHANGED <<ppShown, ppMissed, ppScript>>

RequestFailed ==
    /\ Act("fail")
    /\ \E f \in BagToSet(ppFlights) :
          /\ ppMissed' = (ppMissed \/ f.kind = "daily")
          /\ Continue(f, [ppView EXCEPT ![f.kind] = FALSE, !.error = TRUE])
    /\ UNCHANGED ppShown

PpNext ==
    \/ SetDateRange \/ SetPage \/ SetLimit \/ SetView \/ Refresh
    \/ SyncNow \/ OpenModal \/ ChooseFile \/ CloseModal \/ CommitFile
    \/ Imported \/ ImportRefused \/ DailyAnswered \/ OverviewAnswered \/ RequestFailed

\* The page is opened: its effects have asked for the rows and the overview.
PpInit ==
    \E s \in PpScripts, r \in PpRanges, l \in PpLimits :
        LET blank == [range |-> r, page |-> 1, limit |-> l, view |-> "table",
                      daily |-> FALSE, overview |-> FALSE, syncing |-> FALSE, error |-> FALSE]
            sent == Some(TRUE, Daily(blank, NoJob)) (+) Some(TRUE, Overview(blank, NoJob))
        IN  /\ r = s.range /\ l = s.limit
            /\ ppScript = s
            /\ ppView = IF s.ops = {} THEN blank ELSE Pending(blank, sent)
            /\ ppFlights = IF s.ops = {} THEN EmptyBag ELSE sent
            /\ ppShown = {} /\ ppMissed = FALSE
            /\ ppJob = [j \in PpJobs |-> "idle"]
            /\ ppModal = Closed
-----------------------------------------------------------------------------
\* The store has its type and no request is lost: what waits for one has it.
PpTypeOK ==
    /\ ppView.range \in PpRanges /\ ppView.page \in PpPages /\ ppView.limit \in PpLimits
    /\ ppView.view \in {"table", "dashboard"}
    /\ \A f \in {"daily", "overview", "syncing", "error"} : ppView[f] \in BOOLEAN
    /\ ppJob \in [PpJobs -> {"idle", "commit", "reload"}]
    /\ \A j \in PpJobs : ppJob[j] = "reload" <=> \E f \in BagToSet(ppFlights) : f.job = j
    /\ ppMissed \in BOOLEAN
    /\ ppModal \in [open : BOOLEAN, phase : {"source", "confirm"}, busy : BOOLEAN]

\* Once no rows are on their way, and unless the last request for them failed, the
\* pager tells the page and the limit of the rows above it, however the answers
\* overtook one another: fetchDaily.fulfilled takes both from the answer and the
\* effect of PosPage asks again when that moved the page.
RecordsMatchPage ==
    (ppShown # {} /\ ~ppMissed /\ \A f \in BagToSet(ppFlights) : f.kind # "daily")
        => \A s \in ppShown : s.page = ppView.page /\ s.limit = ppView.limit
=============================================================================
