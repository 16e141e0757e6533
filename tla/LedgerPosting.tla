--------------------------- MODULE LedgerPosting ---------------------------
(***************************************************************************)
(* The review and posting life of statement-derived ledger entries:        *)
(* ledgerController.ts (update, approve, exclude, bulk approve), the tail   *)
(* of the check.process and matching.refresh jobs and the delete/create     *)
(* part of statement.structure (accountingTaskRunner.ts), and the           *)
(* quickbooks.post_approved job (quickbooksSyncService.ts).                 *)
(*                                                                         *)
(* Every await between two database calls is a place where another actor    *)
(* may run, so a handler is several actions.  A document update is atomic.  *)
(* QuickBooks is external: it keeps what it was asked to create.            *)
(***************************************************************************)
EXTENDS Naturals, Sequences

CONSTANTS
    Lines,          \* bank lines parsed from one statement
    Contents,       \* the proposals a line may carry, without their status
    Untyped,        \* contents with no qbTxnType (migrated rows)
    Complete,       \* contents with every field their qbTxnType requires
    Matched,        \* contents buildMatchingProposal can return
    Initial,        \* contents of the rows found in the database at the start
    Workers,        \* deliveries of quickbooks.post_approved running at a time
    Requests,       \* HTTP handlers and statement jobs running at a time
    Handlers,       \* the handlers and jobs that occur
    Faults,         \* the faults that occur
    MaxCreates,     \* bound: transactions one call may leave in QuickBooks
    MaxDeliveries,  \* bound: deliveries of quickbooks.post_approved
    MaxRebuilds     \* bound: reruns of statement.structure

AllHandlers == {"update", "approve", "exclude", "bulk", "match", "refresh"}
AllFaults == {"lostReply", "dbWrite", "crash"}

ASSUME LedgerAssumption ==
    /\ Untyped \subseteq Contents
    /\ Complete \subseteq Contents \ Untyped
    /\ Matched \subseteq Contents \ (Untyped \cup Complete)
    /\ Initial \subseteq Contents
    /\ Lines # {} /\ Contents # {}
    /\ Handlers \subseteq AllHandlers
    /\ Faults \subseteq AllFaults
    /\ MaxCreates \in Nat \ {0}
    /\ MaxDeliveries \in Nat
    /\ MaxRebuilds \in Nat

VARIABLES
    live,        \* lines whose LedgerEntry exists
    mirrored,    \* lines whose StatementTransaction exists
    row,         \* LedgerEntry of each line; its id is that of its transaction
    mirror,      \* StatementTransaction of each line
    rebuild,     \* progress of the statement.structure job
    books,       \* transactions QuickBooks holds, in creation order
    worker,      \* progress of each delivery of post_approved
    request,     \* progress of each handler
    push,        \* IntegrationSettings.quickbooks.lastPushStatus
    deliveries,  \* deliveries of post_approved so far
    approvals    \* history: <<line, content>> pairs a reviewer approved

reviewVars == <<request, approvals>>
postVars == <<books, worker, push, deliveries>>
rebuildVars == <<live, mirrored, rebuild>>
vars == <<rebuildVars, row, mirror, postVars, reviewVars>>

ReviewStatus == {"proposed", "edited", "approved", "excluded"}
PostingStatus == {"not_posted", "posted", "failed"}
PushStatus == {"idle", "running", "success", "error"}
NoTxn == 0       \* posting.qbTxnId null; a position of books otherwise

Proposal == [content : Contents, status : ReviewStatus]
Decision == [review : ReviewStatus, proposal : Proposal]
Entry == [id : Nat, review : ReviewStatus, proposal : Proposal,
          posting : PostingStatus, qb : Nat]
Item == [line : Lines, id : Nat, content : Contents]
QbTxn == [line : Lines, content : Contents, kind : {"typed", "journal"}]

\* What a worker and a handler remember between jobs: nothing.
NoItem == [line |-> CHOOSE l \in Lines : TRUE, id |-> 0,
           content |-> CHOOSE c \in Contents : TRUE]
NoDecision == [review |-> "proposed",
               proposal |-> [content |-> NoItem.content, status |-> "proposed"]]
IdleWorker == [pc |-> "idle", todo |-> {}, took |-> {}, cur |-> NoItem,
               kind |-> "typed", txn |-> NoTxn, failed |-> FALSE]
IdleRequest == [pc |-> "idle", line |-> NoItem.line, id |-> 0,
                loaded |-> NoDecision, new |-> NoDecision]

FreshEntry(id, c) ==
    [id |-> id, review |-> "proposed",
     proposal |-> [content |-> c, status |-> "proposed"],
     posting |-> "not_posted", qb |-> NoTxn]

\* A document is found by the id of the transaction: a rebuilt line has a new
\* one.  Either document may exist without the other.
Finds(l, id) == l \in live /\ row[l].id = id
FindsMirror(l, id) == l \in mirrored /\ mirror[l].id = id
DecisionOf(e) == [review |-> e.review, proposal |-> e.proposal]

\* document.save(): mongoose writes only the paths that differ from what the
\* handler loaded; `proposal` is assigned, and so written, as a whole.
SaveField(stored, loaded, new) == IF new = loaded THEN stored ELSE new
Saved(e, loaded, new) ==
    [e EXCEPT !.review = SaveField(@, loaded.review, new.review),
              !.proposal = SaveField(@, loaded.proposal, new.proposal)]
\* updateOne with $set writes the fields whatever was there.
Overwritten(e, new) == [e EXCEPT !.review = new.review, !.proposal = new.proposal]

-----------------------------------------------------------------------------
(* Review handlers and statement jobs.                                     *)

RequestPc == {"idle", "loaded", "saved", "matchBoth", "matchRow", "matchMirror",
              "refreshMirror", "refreshRow"}

Start(r, pc, l, e, new) ==
    request' = [request EXCEPT ![r] =
        [pc |-> pc, line |-> l, id |-> e.id, loaded |-> DecisionOf(e), new |-> new]]
Proceed(r, pc) == request' = [request EXCEPT ![r].pc = pc]
EndRequest(r) == request' = [request EXCEPT ![r] = IdleRequest]
ProceedOrEnd(r, more, pc) == IF more THEN Proceed(r, pc) ELSE EndRequest(r)
Idle(r) == request[r].pc = "idle"
ReviewOnly == UNCHANGED <<rebuildVars, postVars>>

\* PATCH /ledger/entries/:id.  A patched proposal is "edited" unless the body
\* also names a status; a status alone keeps the content.
UpdateLedgerEntry(r, l) ==
    /\ "update" \in Handlers /\ Idle(r) /\ l \in live
    /\ row[l].posting # "posted"
    /\ \E c \in Contents, s \in ReviewStatus :
         Start(r, "loaded", l, row[l],
               [review |-> s, proposal |-> [content |-> c, status |-> s]])
    /\ ReviewOnly /\ UNCHANGED <<row, mirror, approvals>>

Decide(r, l, s) ==
    /\ Start(r, "loaded", l, row[l],
             [review |-> s, proposal |-> [row[l].proposal EXCEPT !.status = s]])
    /\ ReviewOnly /\ UNCHANGED <<row, mirror, approvals>>

ApproveLedgerEntry(r, l) ==
    /\ "approve" \in Handlers /\ Idle(r) /\ l \in live
    /\ row[l].review # "excluded"
    /\ Decide(r, l, "approved")

ExcludeLedgerEntry(r, l) ==
    /\ "exclude" \in Handlers /\ Idle(r) /\ l \in live
    /\ row[l].posting # "posted"
    /\ Decide(r, l, "excluded")

\* entry.save() of the three handlers above; a deleted document rejects it
\* and the handler ends before the mirror update.
SaveLedgerEntry(r) ==
    LET q == request[r] IN
    /\ q.pc = "loaded"
    /\ IF Finds(q.line, q.id)
       THEN /\ row' = [row EXCEPT ![q.line] = Saved(@, q.loaded, q.new)]
            /\ Proceed(r, "saved")
            /\ approvals' = IF q.new.review = "approved"
                            THEN approvals \cup {<<q.line, q.new.proposal.content>>}
                            ELSE approvals
       ELSE /\ EndRequest(r)
            /\ UNCHANGED <<row, approvals>>
    /\ ReviewOnly /\ UNCHANGED mirror

\* Mutant: the mirror update is left out.
MirrorDecisionDropped(r) ==
    /\ request[r].pc = "saved"
    /\ EndRequest(r)
    /\ ReviewOnly /\ UNCHANGED <<row, mirror, approvals>>

\* StatementTransactionModel.updateOne after the save.
MirrorDecision(r) ==
    LET q == request[r] IN
    /\ q.pc = "saved"
    /\ mirror' = IF FindsMirror(q.line, q.id)
                 THEN [mirror EXCEPT ![q.line] = Overwritten(@, q.new)] ELSE mirror
    /\ EndRequest(r)
    /\ ReviewOnly /\ UNCHANGED <<row, approvals>>

\* updateMany is atomic per document, so one action per selected row.  Its
\* second updateMany looks StatementTransactions up by ledger entry ids, which
\* no StatementTransaction has: the mirror keeps its value.
BulkApproveLedgerEntry(r, l) ==
    /\ "bulk" \in Handlers /\ Idle(r) /\ l \in live
    /\ row[l].review # "excluded" /\ row[l].posting # "posted"
    /\ row' = [row EXCEPT ![l] = Overwritten(@,
           [review |-> "approved", proposal |-> [row[l].proposal EXCEPT !.status = "approved"]])]
    /\ approvals' = approvals \cup {<<l, row[l].proposal.content>>}
    /\ ReviewOnly /\ UNCHANGED <<mirror, request>>

\* End of check.process: a fresh proposal for the transaction it had loaded,
\* written to both documents by Promise.all, in either order.
StartMatch(r, l) ==
    /\ "match" \in Handlers /\ Idle(r) /\ l \in mirrored
    /\ \E c \in Matched :
         Start(r, "matchBoth", l, mirror[l],
               [review |-> "proposed", proposal |-> [content |-> c, status |-> "proposed"]])
    /\ ReviewOnly /\ UNCHANGED <<row, mirror, approvals>>

MatchRow(r) ==
    LET q == request[r] IN
    /\ q.pc \in {"matchBoth", "matchRow"}
    /\ row' = IF Finds(q.line, q.id)
              THEN [row EXCEPT ![q.line] = Overwritten(@, q.new)] ELSE row
    /\ ProceedOrEnd(r, q.pc = "matchBoth", "matchMirror")
    /\ ReviewOnly /\ UNCHANGED <<mirror, approvals>>

MatchMirror(r) ==
    LET q == request[r] IN
    /\ q.pc \in {"matchBoth", "matchMirror"}
    /\ mirror' = IF FindsMirror(q.line, q.id)
                 THEN [mirror EXCEPT ![q.line] = Overwritten(@, q.new)] ELSE mirror
    /\ ProceedOrEnd(r, q.pc = "matchBoth", "matchRow")
    /\ ReviewOnly /\ UNCHANGED <<row, approvals>>

\* matching.refresh for one transaction: save the mirror, then overwrite the
\* proposal of the row.  Neither write touches reviewStatus.
StartRefresh(r, l) ==
    /\ "refresh" \in Handlers /\ Idle(r) /\ l \in mirrored
    /\ \E c \in Matched :
         Start(r, "refreshMirror", l, mirror[l],
               [review |-> mirror[l].review,
                proposal |-> [content |-> c, status |-> "proposed"]])
    /\ ReviewOnly /\ UNCHANGED <<row, mirror, approvals>>

RefreshMirror(r) ==
    LET q == request[r] IN
    /\ q.pc = "refreshMirror"
    /\ IF FindsMirror(q.line, q.id)
       THEN /\ mirror' = [mirror EXCEPT ![q.line] = Saved(@, q.loaded, q.new)]
            /\ Proceed(r, "refreshRow")
       ELSE /\ EndRequest(r)
            /\ UNCHANGED mirror
    /\ ReviewOnly /\ UNCHANGED <<row, approvals>>

RefreshRow(r) ==
    LET q == request[r] IN
    /\ q.pc = "refreshRow"
    /\ row' = IF Finds(q.line, q.id)
              THEN [row EXCEPT ![q.line].proposal = q.new.proposal] ELSE row
    /\ EndRequest(r)
    /\ ReviewOnly /\ UNCHANGED <<mirror, approvals>>

\* The process dies, or a database call rejects, between two steps.
AbandonRequest(r) ==
    /\ "crash" \in Faults /\ ~Idle(r)
    /\ EndRequest(r)
    /\ ReviewOnly /\ UNCHANGED <<row, mirror, approvals>>

-----------------------------------------------------------------------------
(* The quickbooks.post_approved job.                                       *)

WorkerPc == {"idle", "next", "journal", "record", "recordMirror", "fail", "failMirror"}

PostOnly == UNCHANGED <<rebuildVars, reviewVars>>
Advance(w, state) == worker' = [worker EXCEPT ![w] = state]
At(w, pc) == worker[w].pc = pc

\* One call of requestQuickBooksApi: it may have created the transaction on
\* attempts whose reply was lost, and an error does not say that none exists.
CreatedOnReply == IF "lostReply" \in Faults THEN 1..MaxCreates ELSE {1}
CreatedOnError == IF "lostReply" \in Faults THEN 0..MaxCreates ELSE {0}
Create(item, kind, n) ==
    books' = books \o [i \in 1..n |-> [line |-> item.line, content |-> item.content,
                                       kind |-> kind]]

\* Mutants: the selection without its gate on qbTxnId and posting status, and
\* without its gate on the review status.
PostableAgain(l) == l \in live /\ row[l].review = "approved"
PostableUnreviewed(l) ==
    l \in live /\ row[l].posting \in {"not_posted", "failed"} /\ row[l].qb = NoTxn

\* The rows post_approved selects.
Postable(l) ==
    /\ l \in live
    /\ row[l].review = "approved"
    /\ row[l].posting \in {"not_posted", "failed"}
    /\ row[l].qb = NoTxn
ItemOf(l) == [line |-> l, id |-> row[l].id, content |-> row[l].proposal.content]

\* POST /quickbooks/sync/post-approved marks the push running before it
\* enqueues; POST /ledger/post-approved only enqueues.
MarkQuickBooksSyncRunning ==
    /\ push' = "running"
    /\ PostOnly /\ UNCHANGED <<row, mirror, books, worker, deliveries>>

\* A delivery starts: the selection is read once, the loop works from it.
StartPosting(w) ==
    /\ At(w, "idle") /\ deliveries < MaxDeliveries
    /\ deliveries' = deliveries + 1
    /\ LET todo == {ItemOf(l) : l \in {k \in Lines : Postable(k)}} IN
       Advance(w, [worker[w] EXCEPT !.pc = "next", !.todo = todo, !.took = todo,
                                    !.failed = FALSE])
    /\ PostOnly /\ UNCHANGED <<row, mirror, books, push>>

Take(w, item, state) ==
    /\ At(w, "next") /\ item \in worker[w].todo
    /\ Advance(w, [state EXCEPT !.todo = @ \ {item}, !.cur = item])

\* Mutant: the failed row is not counted.
RejectUncounted(w, item) ==
    /\ item.content \in Untyped
    /\ Take(w, item, [worker[w] EXCEPT !.pc = "fail"])
    /\ PostOnly /\ UNCHANGED <<row, mirror, books, push, deliveries>>

\* No qbTxnType: the row fails without a call.
RejectUntyped(w, item) ==
    /\ item.content \in Untyped
    /\ Take(w, item, [worker[w] EXCEPT !.pc = "fail", !.failed = TRUE])
    /\ PostOnly /\ UNCHANGED <<row, mirror, books, push, deliveries>>

\* A field the type requires is missing: throws into the fallback, no call.
RejectIncomplete(w, item) ==
    /\ item.content \notin Untyped \cup Complete
    /\ Take(w, item, [worker[w] EXCEPT !.pc = "journal"])
    /\ PostOnly /\ UNCHANGED <<row, mirror, books, push, deliveries>>

\* Mutant: the id remembered is not the one of this call's transaction.
PostTypedStaleId(w, item) ==
    /\ item.content \in Complete
    /\ \E n \in CreatedOnReply :
         /\ Create(item, "typed", n)
         /\ Take(w, item, [worker[w] EXCEPT !.pc = "record", !.txn = Len(books)])
    /\ PostOnly /\ UNCHANGED <<row, mirror, push, deliveries>>

\* The Expense, Deposit, Transfer or Check call.
PostTyped(w, item) ==
    /\ item.content \in Complete
    /\ \/ \E n \in CreatedOnReply :
            /\ Create(item, "typed", n)
            /\ Take(w, item, [worker[w] EXCEPT !.pc = "record", !.kind = "typed",
                                              !.txn = Len(books) + n])
       \/ \E n \in CreatedOnError :
            /\ Create(item, "typed", n)
            /\ Take(w, item, [worker[w] EXCEPT !.pc = "journal"])
    /\ PostOnly /\ UNCHANGED <<row, mirror, push, deliveries>>

\* Mutant: an answer without an id counts as a success.
PostJournalUnchecked(w) ==
    /\ At(w, "journal")
    /\ \E n \in CreatedOnReply \cup CreatedOnError :
         /\ Create(worker[w].cur, "journal", n)
         /\ Advance(w, [worker[w] EXCEPT !.pc = "record", !.kind = "journal",
                                         !.txn = Len(books) + 1])
    /\ PostOnly /\ UNCHANGED <<row, mirror, push, deliveries>>

\* The catch block: any error above posts a fallback journal entry.
PostJournal(w) ==
    LET item == worker[w].cur IN
    /\ At(w, "journal")
    /\ \/ \E n \in CreatedOnReply :
            /\ Create(item, "journal", n)
            /\ Advance(w, [worker[w] EXCEPT !.pc = "record", !.kind = "journal",
                                           !.txn = Len(books) + n])
       \/ \E n \in CreatedOnError :
            /\ Create(item, "journal", n)
            /\ Advance(w, [worker[w] EXCEPT !.pc = "fail", !.failed = TRUE])
    /\ PostOnly /\ UNCHANGED <<row, mirror, push, deliveries>>

\* LedgerEntryModel.updateOne({_id}, posted): no look at the row's status.
WriteRow(item, posting, qb) ==
    row' = IF Finds(item.line, item.id)
           THEN [row EXCEPT ![item.line].posting = posting, ![item.line].qb = qb]
           ELSE row
\* syncStatementTransactionPosting.
WriteMirror(item, posting, qb) ==
    mirror' = IF FindsMirror(item.line, item.id)
              THEN [mirror EXCEPT ![item.line].posting = posting, ![item.line].qb = qb]
              ELSE mirror

\* Mutant: the mirror is written first.
RecordMirrorFirst(w) ==
    /\ At(w, "record")
    /\ WriteMirror(worker[w].cur, "posted", worker[w].txn)
    /\ Advance(w, [worker[w] EXCEPT !.pc = "recordMirror"])
    /\ PostOnly /\ UNCHANGED <<row, books, push, deliveries>>

RecordRow(w) ==
    /\ At(w, "record")
    /\ WriteRow(worker[w].cur, "posted", worker[w].txn)
    /\ Advance(w, [worker[w] EXCEPT !.pc = "recordMirror"])
    /\ PostOnly /\ UNCHANGED <<mirror, books, push, deliveries>>

RecordMirror(w) ==
    /\ At(w, "recordMirror")
    /\ WriteMirror(worker[w].cur, "posted", worker[w].txn)
    /\ Advance(w, [worker[w] EXCEPT !.pc = "next"])
    /\ PostOnly /\ UNCHANGED <<row, books, push, deliveries>>

\* A database write of the try block rejects: after the typed call it lands
\* in the fallback, after the journal call in setPostingFailure.
RecordError(w) ==
    /\ "dbWrite" \in Faults /\ worker[w].pc \in {"record", "recordMirror"}
    /\ Advance(w, IF worker[w].kind = "typed"
                  THEN [worker[w] EXCEPT !.pc = "journal"]
                  ELSE [worker[w] EXCEPT !.pc = "fail", !.failed = TRUE])
    /\ PostOnly /\ UNCHANGED <<row, mirror, books, push, deliveries>>

\* Mutants: setPostingFailure clears the id; it writes a status of the sync.
FailRowForgets(w) ==
    /\ At(w, "fail")
    /\ WriteRow(worker[w].cur, "failed", NoTxn)
    /\ Advance(w, [worker[w] EXCEPT !.pc = "failMirror"])
    /\ PostOnly /\ UNCHANGED <<mirror, books, push, deliveries>>
FailRowError(w) ==
    /\ At(w, "fail")
    /\ WriteRow(worker[w].cur, "error", NoTxn)
    /\ Advance(w, [worker[w] EXCEPT !.pc = "failMirror"])
    /\ PostOnly /\ UNCHANGED <<mirror, books, push, deliveries>>

\* setPostingFailure: posting.qbTxnId is left as it is.
FailRow(w) ==
    LET item == worker[w].cur IN
    /\ At(w, "fail")
    /\ WriteRow(item, "failed", row[item.line].qb)
    /\ Advance(w, [worker[w] EXCEPT !.pc = "failMirror"])
    /\ PostOnly /\ UNCHANGED <<mirror, books, push, deliveries>>

\* The mirror's qbTxnId is set to null.
FailMirror(w) ==
    /\ At(w, "failMirror")
    /\ WriteMirror(worker[w].cur, "failed", NoTxn)
    /\ Advance(w, [worker[w] EXCEPT !.pc = "next"])
    /\ PostOnly /\ UNCHANGED <<row, books, push, deliveries>>

FinishPosting(w) ==
    /\ At(w, "next") /\ worker[w].todo = {}
    /\ push' = IF worker[w].failed THEN "error" ELSE "success"
    /\ Advance(w, IdleWorker)
    /\ PostOnly /\ UNCHANGED <<row, mirror, books, deliveries>>

\* A failure write rejects outside any try: runAccountingTask catches it and
\* markQuickBooksSyncFailure records it.
AbortPosting(w) ==
    /\ "dbWrite" \in Faults /\ worker[w].pc \in {"fail", "failMirror"}
    /\ push' = "error"
    /\ Advance(w, IdleWorker)
    /\ PostOnly /\ UNCHANGED <<row, mirror, books, deliveries>>

\* The worker process dies; the queue delivers the task again (StartPosting).
CrashPosting(w) ==
    /\ "crash" \in Faults /\ ~At(w, "idle")
    /\ Advance(w, IdleWorker)
    /\ PostOnly /\ UNCHANGED <<row, mirror, books, push, deliveries>>

-----------------------------------------------------------------------------
(* statement.structure run again on the same statement, one delivery of it  *)
(* at a time.                                                               *)

\* stopped: the job ended in its create loop.
RebuildPc == {"done", "delete", "create", "entry", "stopped"}
RebuildOnly == UNCHANGED <<postVars, reviewVars>>

StartRebuild ==
    /\ rebuild.pc \in {"done", "stopped"}
    /\ \A l \in Lines : mirror[l].id <= MaxRebuilds
    /\ rebuild' = [rebuild EXCEPT !.pc = "delete", !.todo = Lines]
    /\ RebuildOnly /\ UNCHANGED <<live, mirrored, row, mirror>>

\* The two deleteMany calls run side by side, atomic for each document: every
\* document goes, whatever its posting status.  When one of them rejects, the
\* job ends and the other call goes on; the next delivery deletes what is left,
\* so a job that ended here is one whose FinishDeletes has not come.
DeleteEntry(l) ==
    /\ rebuild.pc = "delete" /\ l \in live
    /\ live' = live \ {l}
    /\ RebuildOnly /\ UNCHANGED <<mirrored, rebuild, row, mirror>>

DeleteTransaction(l) ==
    /\ rebuild.pc = "delete" /\ l \in mirrored
    /\ mirrored' = mirrored \ {l}
    /\ RebuildOnly /\ UNCHANGED <<live, rebuild, row, mirror>>

\* Mutant: the deletion of the transactions is not awaited.
FinishDeletesEarly ==
    /\ rebuild.pc = "delete" /\ live = {}
    /\ rebuild' = [rebuild EXCEPT !.pc = "create"]
    /\ RebuildOnly /\ UNCHANGED <<live, mirrored, row, mirror>>

\* Promise.all resolves.
FinishDeletes ==
    /\ rebuild.pc = "delete" /\ live = {} /\ mirrored = {}
    /\ rebuild' = [rebuild EXCEPT !.pc = "create"]
    /\ RebuildOnly /\ UNCHANGED <<live, mirrored, row, mirror>>

\* The two writes of one turn of the create loop: the entry gets the proposal
\* and the id of the transaction created before it.
CreateTransaction(l) ==
    /\ rebuild.pc = "create" /\ l \in rebuild.todo
    /\ \E c \in Matched :
         /\ mirror' = [mirror EXCEPT ![l] = FreshEntry(@.id + 1, c)]
         /\ rebuild' = [rebuild EXCEPT !.pc = "entry",
                          !.cur = [line |-> l, id |-> mirror[l].id + 1, content |-> c]]
    /\ mirrored' = mirrored \cup {l}
    /\ RebuildOnly /\ UNCHANGED <<live, row>>

CreateEntry ==
    LET item == rebuild.cur  left == rebuild.todo \ {item.line} IN
    /\ rebuild.pc = "entry"
    /\ row' = [row EXCEPT ![item.line] = FreshEntry(item.id, item.content)]
    /\ live' = live \cup {item.line}
    /\ rebuild' = [pc |-> IF left = {} THEN "done" ELSE "create",
                   todo |-> left, cur |-> NoItem]
    /\ RebuildOnly /\ UNCHANGED <<mirrored, mirror>>

\* A database call of the create loop rejects or the process dies; a later
\* delivery or a reprocess starts from the beginning.
FailRebuild ==
    /\ {"dbWrite", "crash"} \cap Faults # {}
    /\ rebuild.pc \in {"create", "entry"}
    /\ rebuild' = [pc |-> "stopped", todo |-> {}, cur |-> NoItem]
    /\ RebuildOnly /\ UNCHANGED <<live, mirrored, row, mirror>>

-----------------------------------------------------------------------------

Init ==
    /\ live = Lines /\ mirrored = Lines
    /\ rebuild = [pc |-> "done", todo |-> {}, cur |-> NoItem]
    /\ row \in [Lines -> {FreshEntry(1, c) : c \in Initial}]
    /\ mirror = row
    /\ books = <<>>
    /\ worker = [w \in Workers |-> IdleWorker]
    /\ request = [r \in Requests |-> IdleRequest]
    /\ push = "idle" /\ deliveries = 0 /\ approvals = {}

ReviewStep ==
    \/ \E r \in Requests, l \in Lines :
         \/ UpdateLedgerEntry(r, l) \/ ApproveLedgerEntry(r, l)
         \/ ExcludeLedgerEntry(r, l) \/ BulkApproveLedgerEntry(r, l)
         \/ StartMatch(r, l) \/ StartRefresh(r, l)
    \/ \E r \in Requests :
         \/ SaveLedgerEntry(r) \/ MirrorDecision(r) \/ MatchRow(r)
         \/ MatchMirror(r) \/ RefreshMirror(r) \/ RefreshRow(r)
         \/ AbandonRequest(r)

PostStep ==
    \/ MarkQuickBooksSyncRunning
    \/ \E w \in Workers :
         \/ StartPosting(w)
         \/ \E item \in worker[w].todo :
              RejectUntyped(w, item) \/ RejectIncomplete(w, item) \/ PostTyped(w, item)
         \/ PostJournal(w) \/ RecordRow(w) \/ RecordMirror(w) \/ RecordError(w)
         \/ FailRow(w) \/ FailMirror(w) \/ FinishPosting(w)
         \/ AbortPosting(w) \/ CrashPosting(w)

RebuildStep ==
    \/ StartRebuild \/ FinishDeletes \/ CreateEntry \/ FailRebuild
    \/ \E l \in Lines : DeleteEntry(l) \/ DeleteTransaction(l) \/ CreateTransaction(l)

Next == ReviewStep \/ PostStep \/ RebuildStep

Spec == Init /\ [][Next]_vars
-----------------------------------------------------------------------------
(* Properties.                                                             *)

WorkerState == [pc : WorkerPc, todo : SUBSET Item, took : SUBSET Item, cur : Item,
                kind : {"typed", "journal"}, txn : Nat, failed : BOOLEAN]
RequestState == [pc : RequestPc, line : Lines, id : Nat, loaded : Decision, new : Decision]

\* Type invariant: every document keeps the shape its schema gives it.
TypeOK ==
    /\ live \subseteq Lines /\ mirrored \subseteq Lines
    /\ rebuild \in [pc : RebuildPc, todo : SUBSET Lines, cur : Item]
    /\ row \in [Lines -> Entry]
    /\ mirror \in [Lines -> Entry]
    /\ books \in Seq(QbTxn)
    /\ worker \in [Workers -> WorkerState]
    /\ request \in [Requests -> RequestState]
    /\ push \in PushStatus
    /\ deliveries \in Nat
    /\ approvals \subseteq Lines \X Contents

BackedBy(l, qb) == qb \in 1..Len(books) /\ books[qb].line = l

\* A row or mirror that says "posted" names a transaction QuickBooks really
\* holds for that very line, whatever faults and races there were: posted is
\* never written on the strength of a failed call or of another row's call.
PostedIsBacked ==
    \A l \in Lines : \A e \in {row[l], mirror[l]} :
        /\ e.posting = "posted" => e.qb # NoTxn
        /\ e.qb # NoTxn => BackedBy(l, e.qb)

\* The ledger entry is written before its mirror (quickbooksSyncService.ts:404,
\* 419): a transaction id shown on the statement side is known to its ledger
\* entry, even after a crash between the two writes.  Only the deletes of a
\* reprocess, finished or not, part the two.
MirrorFollowsRow ==
    \A l \in mirrored : mirror[l].qb # NoTxn =>
        IF l \in live THEN row[l].id = mirror[l].id /\ row[l].qb # NoTxn
                      ELSE rebuild.pc = "delete"

\* Once recorded on a row, a QuickBooks id is never erased, only replaced: a
\* late failure of a second delivery cannot make the row postable again.
\* (A rebuilt line is a new row.)
RecordedForGood ==
    [][\A l \in Lines : row[l].qb # NoTxn /\ row'[l].id = row[l].id
                            => row'[l].qb # NoTxn]_vars

\* QuickBooks holds at most one transaction for a bank line
\* (docs/accounting/module-ledger.md:87, "prevents duplicates").
AtMostOnce ==
    \A i, j \in 1..Len(books) : books[i].line = books[j].line => i = j

\* The promise of BookOnce, read off the documents and QuickBooks: each line is
\* booked once, and its row shows that booking only after it was made and for
\* good (quickbooksSyncService.ts, the posting loop).
Held == [l \in Lines |-> {i \in 1..Len(books) : books[i].line = l}]
Shown == [l \in Lines |-> {row[l].qb} \ {NoTxn}]
Promise == INSTANCE BookOnce WITH held <- Held, shown <- Shown
KeepsThePromise == Promise!Spec

\* What is sent to QuickBooks is a proposal some reviewer approved for that
\* line (docs/accounting/module-ledger.md:87, "enforces explicit approval").
OnlyApprovedPosted ==
    \A i \in 1..Len(books) : <<books[i].line, books[i].content>> \in approvals

\* A job that reports success has left every row it selected posted.
SuccessMeansPosted ==
    \A w \in Workers : At(w, "next") /\ ~worker[w].failed =>
        \A item \in worker[w].took \ worker[w].todo :
            Finds(item.line, item.id) => row[item.line].posting = "posted"

Quiet == (\A r \in Requests : Idle(r)) /\ (\A w \in Workers : At(w, "idle"))

\* With nothing in flight, the statement-side mirror shows the ledger's
\* decision and posting (docs/accounting/module-ledger.md:96).
MirrorAgrees == Quiet => \A l \in live \cap mirrored : mirror[l] = row[l]

\* A posted row is neither edited nor excluded
\* (docs/accounting/module-ledger.md:91-92).
PostedRowsFrozen ==
    [][\A l \in Lines :
        row[l].posting = "posted" /\ row'[l].id = row[l].id =>
            /\ row'[l].proposal.content = row[l].proposal.content
            /\ row'[l].review = "excluded" => row[l].review = "excluded"]_vars
=============================================================================
