--------------------------- MODULE AccountingPages ---------------------------
(***************************************************************************)
(* The accounting pages of the browser: a statement that is watched while  *)
(* the jobs of StatementPipeline move it on (StatementsPage.tsx,           *)
(* StatementDetailPage.tsx), and the ledger whose rows are ticked and      *)
(* approved while QuickBooks posts them (LedgerPage.tsx).                  *)
(*                                                                         *)
(* A page asks, the server reads, the answer arrives; calls are not        *)
(* cancelled and arrive in any order.  Of a statement the model keeps the  *)
(* status, of a ledger entry its review and posting in one word.           *)
(***************************************************************************)
EXTENDS Naturals, Sequences, SequencesExt

CONSTANTS
    ApEntries, \* ledger entries
    ApPlans    \* bounds: what the user and the jobs do, and how often

ASSUME ApAssumption == \A plan \in ApPlans : plan.left \in Nat

VARIABLES
    apStatus,  \* the statement's stored status
    apPage,    \* the page that shows it
    apRows,    \* the stored ledger
    apLedger,  \* the page that shows it
    apPlan     \* what may still follow

apVars == <<apStatus, apPage, apRows, apLedger, apPlan>>

ApStatuses == {"uploaded", "extracting", "structuring", "checks_queued", "ready_for_review",
               "failed"}
NoStatus == "none"
AtRest == {"ready_for_review", "failed"}

\* Mutant: a page stops watching once the checks are queued.
PolledBriefly == {"extracting", "structuring"}
\* The statuses at which a page asks again every three seconds.
Polled == {"extracting", "structuring", "checks_queued"}

ApSpend(op) == op \in apPlan.ops /\ apPlan.left > 0 /\ apPlan' = [apPlan EXCEPT !.left = @ - 1]
-----------------------------------------------------------------------------
(* The statement.                                                          *)

\* The jobs move a statement on, and begin again after a failure.
Moves(status) ==
    CASE status = "uploaded" -> {"extracting", "failed"}
      [] status = "extracting" -> {"structuring", "failed"}
      [] status = "structuring" -> {"checks_queued", "failed"}
      [] status = "checks_queued" -> {"ready_for_review", "failed"}
      [] status = "failed" -> {"extracting"}
      [] status = "ready_for_review" -> {}

\* moved: a job, or somebody else, took up the statement at rest while it was shown.
MoveStatement ==
    /\ ApSpend("job")
    /\ \/ apStatus' \in Moves(apStatus)
          /\ apPage' = [apPage EXCEPT !.moved = @ \/ apStatus \in AtRest]
       \/ apStatus \in AtRest /\ apStatus' = "uploaded"
          /\ apPage' = [apPage EXCEPT !.moved = TRUE]
    /\ UNCHANGED <<apRows, apLedger>>

\* The calls under way in the order they were made; behind is set when the answer
\* of a later one has been shown.
Call(op) == [op |-> op, got |-> NoStatus, behind |-> FALSE]
WithCall(page, op) == [page EXCEPT !.calls = Append(@, Call(op))]

\* load clears the alert and asks.
WithLoad(page) == [WithCall(page, "load") EXCEPT !.told = FALSE]
FreshPage == [shown |-> NoStatus, calls |-> <<>>, told |-> FALSE, late |-> FALSE, moved |-> FALSE]

\* A page is opened (again): answers to the former one are no longer heard.
OpenStatement ==
    /\ ApSpend("open") /\ \A i \in DOMAIN apPage.calls : apPage.calls[i].op = "load"
    /\ apPage' = [FreshPage EXCEPT !.calls = <<Call("load")>>]
    /\ UNCHANGED <<apStatus, apRows, apLedger>>

\* The interval: it runs while the status shown is one of these.
PollStatement ==
    /\ ApSpend("poll") /\ apPage.shown \in Polled
    /\ apPage' = WithLoad(apPage)
    /\ UNCHANGED <<apStatus, apRows, apLedger>>

\* reprocess, and retryCheck for a check that failed: the one puts the statement
\* back to uploaded, the other leaves it as it is.
OrderJob(op) ==
    /\ ApSpend(op) /\ apPage.shown # NoStatus
    /\ apPage' = WithCall(apPage, op)
    /\ UNCHANGED <<apStatus, apRows, apLedger>>

ServeStatement(i) ==
    LET call == apPage.calls[i] IN
    /\ call.got = NoStatus
    /\ apStatus' = IF call.op = "reprocess" THEN "uploaded" ELSE apStatus
    /\ apPage' = [apPage EXCEPT !.calls[i].got = apStatus]
    /\ UNCHANGED <<apRows, apLedger, apPlan>>

\* The answer of a load is shown, whatever was shown before.
Overtake(calls, i) == [j \in DOMAIN calls |-> [calls[j] EXCEPT !.behind = @ \/ j < i]]
StatementShown(i) ==
    LET call == apPage.calls[i] IN
    /\ call.op = "load" /\ call.got # NoStatus
    /\ apPage' = [apPage EXCEPT !.shown = call.got, !.late = call.behind,
                                !.calls = RemoveAt(Overtake(@, i), i)]
    /\ UNCHANGED <<apStatus, apRows, apLedger, apPlan>>

\* An order that was taken is followed by a load.
OrderTaken(i) ==
    LET call == apPage.calls[i] IN
    /\ call.op # "load" /\ call.got # NoStatus
    /\ apPage' = WithLoad([apPage EXCEPT !.calls = RemoveAt(@, i)])
    /\ UNCHANGED <<apStatus, apRows, apLedger, apPlan>>

\* A call fails, or its answer is lost: the user is told, and that is all.
StatementCallFails(i) ==
    /\ ApSpend("fail")
    /\ apPage' = [apPage EXCEPT !.calls = RemoveAt(@, i), !.told = TRUE]
    /\ UNCHANGED <<apStatus, apRows, apLedger>>
-----------------------------------------------------------------------------
(* The ledger.                                                             *)

EntryStates == {"proposed", "approved", "excluded", "posted"}
Settled == {"excluded", "posted"}
Nothing == [e \in {} |-> "proposed"]

\* Mutant: ticks outlive the rows they were set on.
ShownKeepingTicks(ledger, rows) == [ledger EXCEPT !.rows = rows]

\* An answer replaces the rows and unticks them.
RowsShown(ledger, rows) == [ledger EXCEPT !.rows = rows, !.selected = {}]

\* Posting, and other reviewers; an excluded entry is open again once it is edited.
Reviewed(state) ==
    CASE state = "proposed" -> {"approved", "excluded"}
      [] state = "approved" -> {"posted", "excluded"}
      [] state = "excluded" -> {"proposed"}
      [] state = "posted" -> {}
ReviewElsewhere(e) ==
    /\ ApSpend("elsewhere")
    /\ \E state \in Reviewed(apRows[e]) : apRows' = [apRows EXCEPT ![e] = state]
    /\ UNCHANGED <<apStatus, apPage, apLedger>>

\* Calls of the page: for the rows, and decisions on some of them.  Two alike are one.
RowsCall == [op |-> "rows", ids |-> {}, got |-> {}]
Sends(op, call) ==
    /\ ApSpend(op)
    /\ apLedger' = [apLedger EXCEPT !.calls = @ \cup {call}]
    /\ UNCHANGED <<apStatus, apPage, apRows>>
AskRows == Sends("rows", RowsCall)
ToggleSelect(e) ==
    /\ ApSpend("tick") /\ e \in DOMAIN apLedger.rows /\ apLedger.rows[e] \notin Settled
    /\ apLedger' = [apLedger EXCEPT !.selected = IF e \in @ THEN @ \ {e} ELSE @ \cup {e}]
    /\ UNCHANGED <<apStatus, apPage, apRows>>
BulkApprove ==
    /\ apLedger.selected # {}
    /\ Sends("bulk", [RowsCall EXCEPT !.op = "bulk", !.ids = apLedger.selected])
DecideOne(e, op) ==
    /\ e \in DOMAIN apLedger.rows
    /\ apLedger.rows[e] \notin Settled /\ (op = "approve" => apLedger.rows[e] # "approved")
    /\ Sends(op, [RowsCall EXCEPT !.op = op, !.ids = {e}])

\* The server reads the rows that match some filter.
ServeRows(call) ==
    /\ call.op = "rows" /\ call.got = {}
    /\ \E matching \in {ApEntries} \cup {{e \in ApEntries : apRows[e] = s} : s \in EntryStates} :
          apLedger' = [apLedger EXCEPT !.calls =
                          (@ \ {call}) \cup {[call EXCEPT !.got = {[e \in matching |-> apRows[e]]}]}]
    /\ UNCHANGED <<apStatus, apPage, apRows, apPlan>>
RowsArrive(call) ==
    /\ \E rows \in call.got :
          apLedger' = RowsShown([apLedger EXCEPT !.calls = @ \ {call}], rows)
    /\ UNCHANGED <<apStatus, apPage, apRows, apPlan>>

\* A decision together leaves out what was settled meanwhile, one alone is refused
\* then; what was taken is followed by a load.
ServeDecision(call) ==
    LET open == {e \in call.ids : apRows[e] \notin Settled}
        taken == call.op = "bulk" \/ open = call.ids
    IN
    /\ call.op # "rows"
    /\ apRows' = [e \in ApEntries |-> IF e \notin open THEN apRows[e]
                                      ELSE IF call.op = "exclude" THEN "excluded" ELSE "approved"]
    /\ apLedger' = [apLedger EXCEPT !.calls =
                        (@ \ {call}) \cup (IF taken THEN {RowsCall} ELSE {})]
    /\ UNCHANGED <<apStatus, apPage, apPlan>>
LedgerCallFails(call) ==
    /\ ApSpend("fail")
    /\ apLedger' = [apLedger EXCEPT !.calls = @ \ {call}]
    /\ UNCHANGED <<apStatus, apPage, apRows>>
-----------------------------------------------------------------------------
ApInit ==
    /\ apPlan \in ApPlans
    /\ apStatus \in IF apPlan.left = 0 THEN {"uploaded"} ELSE ApStatuses
    /\ apPage = FreshPage
    /\ apRows = [e \in ApEntries |-> "proposed"]
    /\ apLedger = [rows |-> Nothing, selected |-> {}, calls |-> {}]

ApNext ==
    \/ MoveStatement \/ OpenStatement \/ PollStatement
    \/ \E op \in {"reprocess", "retry"} : OrderJob(op)
    \/ \E i \in DOMAIN apPage.calls :
          ServeStatement(i) \/ StatementShown(i) \/ OrderTaken(i) \/ StatementCallFails(i)
    \/ AskRows \/ BulkApprove
    \/ \E call \in apLedger.calls :
          ServeRows(call) \/ RowsArrive(call) \/ ServeDecision(call) \/ LedgerCallFails(call)
    \/ \E e \in ApEntries :
          ReviewElsewhere(e) \/ ToggleSelect(e) \/ \E op \in {"approve", "exclude"} : DecideOne(e, op)
ApSpec == ApInit /\ [][ApNext]_apVars
-----------------------------------------------------------------------------
(* Properties.                                                             *)

ApTypeOK ==
    /\ apStatus \in ApStatuses /\ apPage.shown \in ApStatuses \cup {NoStatus}
    /\ apPage.calls \in Seq([op : {"load", "reprocess", "retry"}, got : ApStatuses \cup {NoStatus},
                             behind : BOOLEAN])
    /\ apRows \in [ApEntries -> EntryStates]
    /\ DOMAIN apLedger.rows \subseteq ApEntries /\ apLedger.selected \subseteq ApEntries

\* A page that has stopped asking shows the statement as it is, unless the user
\* was told of a failure, an older answer overtook a newer one, or the statement
\* was taken up at rest; uploaded is shown but not watched.
PageKeepsUp ==
    (/\ apPage.calls = <<>> /\ apPage.shown \notin Polled \cup {NoStatus, "uploaded"}
     /\ ~apPage.told /\ ~apPage.late /\ ~apPage.moved) => apPage.shown = apStatus

\* What is ticked, and so what is approved together, is on screen as not yet
\* excluded or posted, although rows come and go with filters and other reviewers.
TicksAreOpen ==
    \A e \in apLedger.selected : e \in DOMAIN apLedger.rows /\ apLedger.rows[e] \notin Settled
=============================================================================
