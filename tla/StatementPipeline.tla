------------------------- MODULE StatementPipeline -------------------------
(***************************************************************************)
(* One bank statement through the OCR pipeline: createStatement,            *)
(* reprocessStatement and retryStatementCheck (accountingController.ts),    *)
(* enqueueAccountingJob (accountingQueue.ts) and the five statement jobs    *)
(* of accountingTaskRunner.ts, with the mongoose documents they load, hold  *)
(* across awaits and save.                                                  *)
(*                                                                         *)
(* mode is how a job is enqueued: "tasks" hands it to Cloud Tasks, which    *)
(* delivers at least once and in any order; "http" runs it in the worker    *)
(* and waits; "inline" runs it, and the jobs that follow it, in place.      *)
(***************************************************************************)
EXTENDS Naturals, FiniteSets

CONSTANTS
    Workers,        \* deliveries of tasks running at a time
    Requests,       \* HTTP handlers running at a time
    Modes,          \* the ways the service may be configured to enqueue
    Handlers,       \* the handlers that occur
    FromJobs,       \* jobs a reprocess may start from, in each mode
    Faults,         \* the faults that occur
    Structured,     \* whether the statement was structured before the behaviour starts
    Candidates,     \* check candidates in the statement's text
    Reads,          \* the counts that one moment answers: a partition of Counted
    MaxChecks,      \* bound: StatementChecks ever created
    MaxRequests,    \* bound: HTTP requests
    MaxRedeliveries \* bound: tasks delivered again

AllHandlers == {"create", "reprocess", "retry"}
AllModes == {"tasks", "http", "inline"}
AllFaults == {"artifact", "enqueue", "crash", "duplicate"}
Job == {"extract", "structure", "spawn", "check", "refresh"}

\* What updateStatementProgressFromChecks counts, one query each.
Counted == {"total", "queued", "processing", "ready", "failed"}

ASSUME PipelineAssumption ==
    /\ Workers \cap Requests = {}
    /\ Modes \subseteq AllModes
    /\ Handlers \subseteq AllHandlers /\ Faults \subseteq AllFaults
    /\ FromJobs \subseteq AllModes \X Job
    /\ Structured \in BOOLEAN
    /\ UNION Reads = Counted /\ \A R, S \in Reads : R = S \/ R \cap S = {}
    /\ Candidates \in Nat /\ MaxChecks \in Nat
    /\ MaxRequests \in Nat /\ MaxRedeliveries \in Nat

VARIABLES
    mode,     \* the configured way; it does not change while the service runs
    stmt,     \* the BankStatement document
    rows,     \* StatementTransactions that are check candidates
    checks,   \* the StatementCheck documents
    made,     \* StatementChecks created so far: ids are never reused
    queued,   \* tasks Cloud Tasks holds: how many of each
    proc,     \* progress of each worker and handler
    requests, \* HTTP requests so far
    redelivered \* deliveries repeated so far

vars == <<mode, stmt, rows, checks, made, queued, proc, requests, redelivered>>

Procs == Workers \cup Requests
CheckIds == 1..MaxChecks
NoCheck == 0
Task == [job : Job, check : CheckIds \cup {NoCheck}]

Unmade == [status |-> "none", errors |-> FALSE, v |-> 0]
NewCheck == [Unmade EXCEPT !.status = "queued"]

\* "ready" is also "needs_review": every reader adds the two up.
CheckStatus == {"queued", "processing", "ready", "failed"}
Check == [status : CheckStatus \cup {"none"}, errors : BOOLEAN, v : Nat]
StatementStatus == {"uploaded", "extracting", "structuring", "checks_queued",
                    "ready_for_review", "failed"}
Progress == [total : Nat, queued : Nat, processing : Nat, ready : Nat, failed : Nat]
NoProgress == [total |-> 0, queued |-> 0, processing |-> 0, ready |-> 0, failed |-> 0]

Uploaded == [status |-> "uploaded", progress |-> NoProgress, issues |-> FALSE, v |-> 0]
Missing == [Uploaded EXCEPT !.status = "none"]

CountOf(s) == Cardinality({c \in CheckIds :
                  IF s = "total" THEN checks[c].status # "none"
                  ELSE checks[c].status = s})
Uncounted == [s \in {} |-> 0]

IdleProc == [pc |-> "idle", caller |-> "queue", job |-> "extract", check |-> NoCheck,
             nested |-> FALSE, doc |-> Missing, was |-> Unmade, left |-> 0,
             todo |-> {}, seen |-> Uncounted, resume |-> "done"]

At(p, pc) == proc[p].pc = pc
Become(p, state) == proc' = [proc EXCEPT ![p] = state]
Go(p, pc) == Become(p, [proc[p] EXCEPT !.pc = pc])
Existing(c) == c \in CheckIds /\ checks[c].status # "none"

\* document.save(): only the fields that differ from what was loaded are
\* written; a save that sets the issues array also checks and moves __v.
Conflicts(doc, setsIssues) == setsIssues /\ stmt.v # doc.v
Saved(doc, new, setsIssues) ==
    [status   |-> IF new.status = doc.status THEN stmt.status ELSE new.status,
     progress |-> IF new.progress = doc.progress THEN stmt.progress ELSE new.progress,
     issues   |-> IF setsIssues THEN new.issues ELSE stmt.issues,
     v        |-> IF setsIssues THEN stmt.v + 1 ELSE stmt.v]
SaveStatus(p, status, pc) ==
    /\ stmt' = Saved(proc[p].doc, [proc[p].doc EXCEPT !.status = status], FALSE)
    /\ Become(p, [proc[p] EXCEPT !.doc.status = status, !.pc = pc])

ChecksOnly == UNCHANGED <<mode, stmt, rows, made, queued, requests, redelivered>>
StatementOnly == UNCHANGED <<mode, rows, checks, made, queued, requests, redelivered>>
ProcOnly == StatementOnly /\ UNCHANGED stmt

-----------------------------------------------------------------------------
(* HTTP handlers.                                                          *)

Serves(p, h) ==
    /\ p \in Requests /\ h \in Handlers /\ At(p, "idle")
    /\ requests < MaxRequests /\ requests' = requests + 1
Request(p, h, state, pc) == Become(p, [state EXCEPT !.caller = h, !.pc = pc])
RequestOnly == UNCHANGED <<mode, rows, checks, made, queued, redelivered>>

CreateStatement(p) ==
    /\ Serves(p, "create") /\ stmt = Missing
    /\ stmt' = Uploaded
    /\ Request(p, "create", [IdleProc EXCEPT !.doc = Uploaded], "enqueue")
    /\ RequestOnly

\* reprocessStatement loads the statement ...
ReprocessStatement(p, job) ==
    /\ Serves(p, "reprocess") /\ stmt # Missing /\ <<mode, job>> \in FromJobs
    /\ Request(p, "reprocess", [IdleProc EXCEPT !.doc = stmt, !.job = job], "reset")
    /\ RequestOnly /\ UNCHANGED stmt

\* ... resets it; a version conflict ends the request with 500 ...
ResetStatement(p) ==
    LET doc == proc[p].doc IN
    /\ At(p, "reset")
    /\ IF Conflicts(doc, doc.issues)
       THEN UNCHANGED stmt /\ Become(p, IdleProc)
       ELSE stmt' = Saved(doc, Uploaded, doc.issues) /\ Go(p, "clear")
    /\ StatementOnly

\* ... and deletes its checks, whatever jobs are under way for them.
ClearChecks(p) ==
    /\ At(p, "clear")
    /\ checks' = [c \in CheckIds |-> Unmade]
    /\ Go(p, "enqueue")
    /\ ChecksOnly

\* retryStatementCheck accepts a check in any status.
RetryStatementCheck(p, c) ==
    /\ Serves(p, "retry") /\ Existing(c)
    /\ Request(p, "retry", [IdleProc EXCEPT !.job = "check", !.check = c,
                                            !.was = checks[c]], "requeue")
    /\ RequestOnly /\ UNCHANGED stmt

\* Mutant: the retry does not enqueue.
RequeueOnly(p) ==
    /\ At(p, "requeue")
    /\ checks' = IF Existing(proc[p].check)
                 THEN [checks EXCEPT ![proc[p].check].status = "queued"] ELSE checks
    /\ Become(p, IdleProc)
    /\ ChecksOnly

\* Clearing its errors checks and moves the version of a check that had some.
RequeueCheck(p) ==
    LET c == proc[p].check  was == proc[p].was IN
    /\ At(p, "requeue")
    /\ IF Existing(c) /\ (was.errors => checks[c].v = was.v)
       THEN /\ checks' = [checks EXCEPT
                  ![c].status = IF was.status = "queued" THEN @ ELSE "queued",
                  ![c].errors = IF was.errors THEN FALSE ELSE @,
                  ![c].v = IF was.errors THEN @ + 1 ELSE @]
            /\ Go(p, "enqueue")
       ELSE UNCHANGED checks /\ Become(p, IdleProc)
    /\ ChecksOnly

\* How a handler goes on once enqueueAccountingJob returned, or threw.
Returned(p) == IF proc[p].caller = "create" THEN [proc[p] EXCEPT !.pc = "created"]
               ELSE IdleProc
Threw(p) == IF proc[p].caller = "create" THEN [proc[p] EXCEPT !.pc = "dispatchFailed"]
            ELSE IdleProc

Put(task) == queued' = [queued EXCEPT ![task] = @ + 1]
QueueOnly == UNCHANGED <<mode, stmt, rows, checks, made, requests>>

\* enqueueAccountingJob of a handler: a Cloud Task, or the job run in place.
\* createStatement keeps its document; a job loads its own.
Enqueue(p) ==
    /\ At(p, "enqueue")
    /\ IF mode = "tasks"
       THEN /\ Put([job |-> proc[p].job, check |-> proc[p].check])
            /\ Become(p, Returned(p))
       ELSE Go(p, "load") /\ UNCHANGED queued
    /\ QueueOnly /\ UNCHANGED redelivered

EnqueueError(p) ==
    /\ "enqueue" \in Faults /\ At(p, "enqueue") /\ mode # "inline"
    /\ Become(p, Threw(p))
    /\ ProcOnly

\* createStatement's save once the job was enqueued or, inline, has run: its
\* document still says "uploaded", so "extracting" is written over whatever
\* the jobs made of the status.
SaveExtracting(p) ==
    /\ At(p, "created")
    /\ stmt' = Saved(Uploaded, [Uploaded EXCEPT !.status = "extracting"], FALSE)
    /\ Become(p, IdleProc)
    /\ StatementOnly

SaveDispatchFailed(p) ==
    /\ At(p, "dispatchFailed")
    /\ stmt' = IF Conflicts(Uploaded, TRUE) THEN stmt
               ELSE Saved(Uploaded, [Uploaded EXCEPT !.status = "failed", !.issues = TRUE], TRUE)
    /\ Become(p, IdleProc)
    /\ StatementOnly

-----------------------------------------------------------------------------
(* A job from delivery to answer: runAccountingTask.                        *)

\* Cloud Tasks delivers a task to a free worker.
Deliver(p, task) ==
    /\ p \in Workers /\ At(p, "idle") /\ queued[task] > 0
    /\ queued' = [queued EXCEPT ![task] = @ - 1]
    /\ Become(p, [IdleProc EXCEPT !.job = task.job, !.check = task.check, !.pc = "load"])
    /\ QueueOnly /\ UNCHANGED redelivered

\* A task that was not acknowledged is delivered again, until its attempts
\* are used up.
Again(p) ==
    \/ /\ redelivered < MaxRedeliveries /\ redelivered' = redelivered + 1
       /\ Put([job |-> proc[p].job, check |-> proc[p].check])
    \/ UNCHANGED <<queued, redelivered>>

BackToSpawn(p, pc) ==
    Become(p, [proc[p] EXCEPT !.job = "spawn", !.check = NoCheck, !.nested = FALSE, !.pc = pc])

\* Mutant: the chain ends after statement.structure.
NextJobShort == [job \in {"extract"} |-> "structure"]

NextJob == [job \in {"extract", "structure"} |->
               IF job = "extract" THEN "structure" ELSE "spawn"]

\* The job returns: to the queue, to the checks.spawn that runs it in place,
\* to the next job of an inline chain, or to the handler.
\* The task route drops nextJobType.
Succeed(p) ==
    /\ At(p, "done")
    /\ IF proc[p].nested THEN BackToSpawn(p, "fanOut") /\ UNCHANGED <<queued, redelivered>>
       ELSE IF proc[p].caller = "queue"
       THEN /\ Become(p, IdleProc)
            /\ \/ UNCHANGED <<queued, redelivered>>
               \/ "duplicate" \in Faults /\ Again(p)
       ELSE /\ Become(p, IF mode = "inline" /\ proc[p].job \in DOMAIN NextJob
                         THEN [proc[p] EXCEPT !.job = NextJob[@], !.pc = "load"]
                         ELSE Returned(p))
            /\ UNCHANGED <<queued, redelivered>>
    /\ QueueOnly

\* The job's error reaches its caller; the task route answers 500.
Rethrow(p) ==
    /\ At(p, "rethrow")
    /\ IF proc[p].nested THEN BackToSpawn(p, "fail") /\ UNCHANGED <<queued, redelivered>>
       ELSE IF proc[p].caller = "queue" THEN Become(p, IdleProc) /\ Again(p)
       ELSE Become(p, Threw(p)) /\ UNCHANGED <<queued, redelivered>>
    /\ QueueOnly

\* The process dies in the middle of a job or a handler.
Crash(p) ==
    /\ "crash" \in Faults /\ ~At(p, "idle")
    /\ Become(p, IdleProc)
    /\ IF proc[p].caller = "queue" THEN Again(p) ELSE UNCHANGED <<queued, redelivered>>
    /\ QueueOnly

\* Mutant: the catch block of a check.process marks the check only.
LoadFailedCheckOnly(p) ==
    /\ At(p, "fail")
    /\ Become(p, [proc[p] EXCEPT !.doc = stmt, !.pc =
                      IF proc[p].job = "check" THEN "failCheck" ELSE "saveFailed"])
    /\ ProcOnly

\* The catch block: the statement is loaded again ...
LoadFailed(p) ==
    /\ At(p, "fail")
    /\ Become(p, [proc[p] EXCEPT !.doc = stmt, !.pc = "saveFailed"])
    /\ ProcOnly

\* Mutant: the check of a failed job is not marked.
SaveFailedAndRethrow(p) ==
    /\ At(p, "saveFailed")
    /\ stmt' = Saved(proc[p].doc, [proc[p].doc EXCEPT !.status = "failed", !.issues = TRUE], TRUE)
    /\ Go(p, "rethrow")
    /\ StatementOnly

\* ... and saved as failed with one more issue; a version conflict here leaves
\* the catch block before the check is marked.
SaveFailed(p) ==
    LET doc == proc[p].doc IN
    /\ At(p, "saveFailed")
    /\ IF Conflicts(doc, TRUE)
       THEN UNCHANGED stmt /\ Go(p, "rethrow")
       ELSE /\ stmt' = Saved(doc, [doc EXCEPT !.status = "failed", !.issues = TRUE], TRUE)
            /\ Go(p, IF proc[p].job = "check" /\ proc[p].check # NoCheck
                     THEN "failCheck" ELSE "rethrow")
    /\ StatementOnly

StartCount(p, resume) ==
    Become(p, [proc[p] EXCEPT !.pc = "count", !.doc = Missing, !.was = Unmade,
                              !.seen = Uncounted, !.resume = resume])

\* Mutant: a status the schema does not have.
FailCheckError(p) ==
    /\ At(p, "failCheck")
    /\ checks' = IF Existing(proc[p].check)
                 THEN [checks EXCEPT ![proc[p].check].status = "error"] ELSE checks
    /\ StartCount(p, "rethrow")
    /\ ChecksOnly

FailCheck(p) ==
    LET c == proc[p].check IN
    /\ At(p, "failCheck")
    /\ checks' = IF Existing(c) THEN [checks EXCEPT ![c].status = "failed", ![c].errors = TRUE] ELSE checks
    /\ StartCount(p, "rethrow")
    /\ ChecksOnly

\* Cloud Storage or the OCR text is not available: the job throws.
ArtifactError(p) ==
    /\ "artifact" \in Faults
    /\ \/ proc[p].pc \in {"artifacts", "extracted", "work"}
       \/ At(p, "spawn") /\ proc[p].left > 0
    /\ Go(p, "fail")
    /\ ProcOnly

-----------------------------------------------------------------------------
(* runTaskLogic: the jobs.                                                  *)

\* Every job first loads the statement; check.process without a checkId
\* throws.
LoadStatement(p) ==
    /\ At(p, "load")
    /\ Become(p, [proc[p] EXCEPT
          !.doc = IF proc[p].job \in {"check", "refresh"} THEN Missing ELSE stmt, !.pc =
          CASE proc[p].job \in {"extract", "structure"} -> "begin"
            [] proc[p].job = "spawn" -> "deleteChecks"
            [] proc[p].job = "check" -> IF proc[p].check = NoCheck THEN "fail" ELSE "findCheck"
            [] OTHER -> "refresh"])
    /\ ProcOnly

\* matching.refresh writes no statement (LedgerPosting has its writes).
RefreshMatching(p) == At(p, "refresh") /\ Go(p, "done") /\ ProcOnly

BeginExtract(p) ==
    /\ At(p, "begin") /\ proc[p].job = "extract"
    /\ SaveStatus(p, "extracting", "extracted")
    /\ StatementOnly

FinishExtract(p) ==
    /\ At(p, "extracted")
    /\ SaveStatus(p, "structuring", "done")
    /\ StatementOnly

BeginStructure(p) ==
    /\ At(p, "begin") /\ proc[p].job = "structure"
    /\ SaveStatus(p, "structuring", "artifacts")
    /\ StatementOnly

\* Mutant: the old rows stay.
KeepRows(p) ==
    /\ At(p, "artifacts")
    /\ Become(p, [proc[p] EXCEPT !.left = Candidates, !.pc = "create"])
    /\ UNCHANGED <<mode, stmt, rows, checks, made, queued, requests, redelivered>>

\* The old rows go ...
DeleteRows(p) ==
    /\ At(p, "artifacts")
    /\ rows' = 0
    /\ Become(p, [proc[p] EXCEPT !.left = Candidates, !.pc = "create"])
    /\ UNCHANGED <<mode, stmt, checks, made, queued, requests, redelivered>>

\* ... and the new ones are created one by one.
CreateRow(p) ==
    /\ At(p, "create") /\ proc[p].left > 0
    /\ rows' = rows + 1
    /\ Become(p, [proc[p] EXCEPT !.left = @ - 1])
    /\ UNCHANGED <<mode, stmt, checks, made, queued, requests, redelivered>>

FinishStructure(p) ==
    LET doc == proc[p].doc IN
    /\ At(p, "create") /\ proc[p].left = 0
    /\ stmt' = Saved(doc, [doc EXCEPT !.status = "checks_queued", !.progress = NoProgress], FALSE)
    /\ Go(p, "done")
    /\ StatementOnly

DeleteChecks(p) ==
    /\ At(p, "deleteChecks")
    /\ checks' = [c \in CheckIds |-> Unmade]
    /\ Go(p, "select")
    /\ ChecksOnly

SelectCandidates(p) ==
    /\ At(p, "select")
    /\ Become(p, [proc[p] EXCEPT !.left = rows, !.todo = {}, !.pc = "spawn"])
    /\ ProcOnly

SpawnCheck(p) ==
    /\ At(p, "spawn") /\ proc[p].left > 0 /\ made < MaxChecks
    /\ made' = made + 1
    /\ checks' = [checks EXCEPT ![made + 1] = NewCheck]
    /\ Become(p, [proc[p] EXCEPT !.left = @ - 1, !.todo = @ \cup {made + 1}])
    /\ UNCHANGED <<mode, stmt, rows, queued, requests, redelivered>>

FinishSpawn(p) ==
    LET doc == proc[p].doc  n == Cardinality(proc[p].todo) IN
    /\ At(p, "spawn") /\ proc[p].left = 0
    /\ stmt' = Saved(doc, [doc EXCEPT
                  !.progress = [NoProgress EXCEPT !.total = n, !.queued = n],
                  !.status = IF n > 0 THEN "checks_queued" ELSE "ready_for_review"], FALSE)
    /\ Go(p, "fanOut")
    /\ StatementOnly

\* One check.process per check, in the order they were created: a task of its
\* own, or run in place before the next.
FanOut(p) ==
    /\ At(p, "fanOut")
    /\ IF proc[p].todo = {} THEN Go(p, "done") /\ UNCHANGED queued
       ELSE LET c == CHOOSE c \in proc[p].todo : \A d \in proc[p].todo : c <= d
                rest == [proc[p] EXCEPT !.todo = @ \ {c}]
            IN IF mode = "tasks"
               THEN Put([job |-> "check", check |-> c]) /\ Become(p, rest)
               ELSE /\ Become(p, [rest EXCEPT !.job = "check", !.check = c,
                                              !.nested = TRUE, !.pc = "load"])
                    /\ UNCHANGED queued
    /\ QueueOnly /\ UNCHANGED redelivered

FanOutError(p) ==
    /\ "enqueue" \in Faults /\ At(p, "fanOut") /\ proc[p].todo # {} /\ mode # "inline"
    /\ Go(p, "fail")
    /\ ProcOnly

\* check.process loads its check ...
FindCheck(p) ==
    LET c == proc[p].check IN
    /\ At(p, "findCheck")
    /\ IF Existing(c)
       THEN Become(p, [proc[p] EXCEPT !.was = checks[c], !.pc = "mark"])
       ELSE Go(p, "fail")
    /\ ProcOnly

\* ... marks it, unless it was deleted meanwhile ...
MarkProcessing(p) ==
    LET c == proc[p].check IN
    /\ At(p, "mark")
    /\ IF Existing(c)
       THEN /\ checks' = IF proc[p].was.status = "processing" THEN checks
                         ELSE [checks EXCEPT ![c].status = "processing"]
            /\ StartCount(p, "work")
       ELSE UNCHANGED checks /\ Go(p, "fail")
    /\ ChecksOnly

\* Mutant: the result is saved and the progress not recounted.
SaveResultOnly(p) ==
    /\ At(p, "work")
    /\ checks' = IF Existing(proc[p].check)
                 THEN [checks EXCEPT ![proc[p].check].status = "ready"] ELSE checks
    /\ Go(p, "done")
    /\ ChecksOnly

\* ... and saves its result.
SaveResult(p) ==
    LET c == proc[p].check IN
    /\ At(p, "work")
    /\ IF Existing(c)
       THEN /\ checks' = [checks EXCEPT ![c].status = "ready"]
            /\ StartCount(p, "done")
       ELSE UNCHANGED checks /\ Go(p, "fail")
    /\ ChecksOnly

\* updateStatementProgressFromChecks: the counts are concurrent queries, so
\* they may see the checks at different moments ...
CountChecks(p) ==
    /\ At(p, "count")
    /\ \E S \in Reads :
         /\ S \cap DOMAIN proc[p].seen = {}
         /\ Become(p, [proc[p] EXCEPT !.seen =
               [t \in DOMAIN @ \cup S |-> IF t \in S THEN CountOf(t) ELSE @[t]]])
    /\ ProcOnly

\* ... then the statement is loaded ...
LoadProgress(p) ==
    /\ At(p, "count") /\ DOMAIN proc[p].seen = Counted
    /\ Become(p, [proc[p] EXCEPT !.doc = stmt, !.pc = "progress"])
    /\ ProcOnly

\* ... and saved, as ready once no check is seen under way.
SeenSettled(seen, status) ==
    \/ seen["total"] > 0 /\ seen["queued"] = 0 /\ seen["processing"] = 0
    \/ seen["total"] = 0 /\ status = "checks_queued"

SaveProgress(p) ==
    LET seen == proc[p].seen  doc == proc[p].doc IN
    /\ At(p, "progress")
    /\ stmt' = Saved(doc, [doc EXCEPT
          !.status = IF SeenSettled(seen, @) THEN "ready_for_review" ELSE @,
          !.progress = [s \in Counted |-> seen[s]]], FALSE)
    /\ Become(p, [proc[p] EXCEPT !.doc = Missing, !.seen = Uncounted,
                              !.pc = proc[p].resume])
    /\ StatementOnly

-----------------------------------------------------------------------------

Init ==
    /\ mode \in Modes
    /\ stmt = IF Structured THEN [Uploaded EXCEPT !.status = "checks_queued"] ELSE Missing
    /\ rows = IF Structured THEN Candidates ELSE 0
    /\ made = 0
    /\ checks = [c \in CheckIds |-> Unmade]
    /\ queued = [task \in Task |-> 0]
    /\ proc = [p \in Procs |-> IdleProc]
    /\ requests = 0 /\ redelivered = 0

Arrive(p) ==
    \/ CreateStatement(p)
    \/ \E job \in Job : ReprocessStatement(p, job)
    \/ \E c \in CheckIds : RetryStatementCheck(p, c)

Fault(p) == EnqueueError(p) \/ FanOutError(p) \/ ArtifactError(p) \/ Crash(p)

Proceed(p) ==
    \/ ResetStatement(p) \/ ClearChecks(p) \/ RequeueCheck(p)
    \/ Enqueue(p) \/ SaveExtracting(p) \/ SaveDispatchFailed(p)
    \/ \E task \in Task : Deliver(p, task)
    \/ Succeed(p) \/ Rethrow(p) \/ LoadFailed(p) \/ SaveFailed(p) \/ FailCheck(p)
    \/ LoadStatement(p) \/ RefreshMatching(p) \/ BeginExtract(p) \/ FinishExtract(p)
    \/ BeginStructure(p) \/ DeleteRows(p) \/ CreateRow(p) \/ FinishStructure(p)
    \/ DeleteChecks(p) \/ SelectCandidates(p) \/ SpawnCheck(p) \/ FinishSpawn(p)
    \/ FanOut(p) \/ FindCheck(p) \/ MarkProcessing(p) \/ SaveResult(p)
    \/ CountChecks(p) \/ LoadProgress(p) \/ SaveProgress(p)

Next == \E p \in Procs : Arrive(p) \/ Proceed(p) \/ Fault(p)

Spec == Init /\ [][Next]_vars

\* A process that can go on does, and a queued task is delivered; nothing
\* makes a user send a request or a fault happen.
FairSpec == Spec /\ \A p \in Procs : WF_vars(Proceed(p))
-----------------------------------------------------------------------------
(* Properties.                                                             *)

ProcState ==
    [pc : {"idle", "enqueue", "reset", "clear", "requeue", "created", "dispatchFailed",
           "load", "begin", "extracted", "artifacts", "create", "deleteChecks", "select",
           "spawn", "fanOut", "findCheck", "mark", "count", "progress", "work", "refresh",
           "fail", "saveFailed", "failCheck", "done", "rethrow"},
     caller : Handlers \cup {"queue"}, job : Job, check : CheckIds \cup {NoCheck},
     nested : BOOLEAN, doc : [status : StatementStatus \cup {"none"}, progress : Progress,
                              issues : BOOLEAN, v : Nat],
     was : Check, left : Nat, todo : SUBSET CheckIds,
     seen : UNION {[S -> 0..MaxChecks] : S \in SUBSET Counted},
     resume : {"work", "done", "rethrow"}]

\* Type invariant: documents and jobs keep the shape the schemas give them.
TypeOK ==
    /\ mode \in Modes
    /\ stmt \in [status : StatementStatus \cup {"none"}, progress : Progress,
                 issues : BOOLEAN, v : Nat]
    /\ rows \in Nat /\ made \in 0..MaxChecks
    /\ checks \in [CheckIds -> Check]
    /\ queued \in [Task -> Nat]
    /\ proc \in [Procs -> ProcState]
    /\ requests \in 0..MaxRequests /\ redelivered \in 0..MaxRedeliveries

Open(c) == checks[c].status \in {"queued", "processing"}
Settled == \A c \in CheckIds : ~Open(c)
Quiet == (\A p \in Procs : At(p, "idle")) /\ (\A task \in Task : queued[task] = 0)

\* Trouble is told: a check that is not finished when nothing is left to do, and
\* one that has failed, leave the issue of the job that failed on the statement,
\* however the catch block's two writes interleave with the other checks' jobs.
\* A task lost between a check's creation and its check.process would break it.
TroubleIsReported ==
    Quiet /\ (\E c \in CheckIds : Open(c) \/ checks[c].status = "failed") => stmt.issues

\* When the last job is over and every check is finished, one of the recounts
\* of updateStatementProgressFromChecks has seen it: the statement does not
\* keep waiting for its checks.
NoLostFinish ==
    Quiet /\ Settled /\ (\E c \in CheckIds : Existing(c))
        => stmt.status \in {"ready_for_review", "failed"}

\* When nothing is left to do, no check is left as under way, one whose job threw
\* included, and the progress of a statement that reports no issue is what its
\* checks say.
ProgressAgrees ==
    Quiet =>
        /\ \A c \in CheckIds : checks[c].status # "processing"
        /\ ~stmt.issues => stmt.progress = [s \in DOMAIN NoProgress |-> CountOf(s)]

\* structure and checks.spawn replace what an earlier run left: one row and
\* one check for each candidate of the text, however often they run.
NoDuplicates == rows <= Candidates /\ CountOf("total") <= Candidates

\* A statement is done when the last job of its last request is: the chain
\* of jobs goes on to its end whatever enqueues them
\* (docs/accounting/scheduling-and-operations.md:10).
QuietIsDone == Quiet /\ requests > 0 => stmt.status \in {"ready_for_review", "failed"}

\* The inline chain does reach its end: no failing job, retry or reprocess
\* leaves the statement between two of its jobs.
InlineIsDone == mode = "inline" => QuietIsDone

\* Every check that is queued, by checks.spawn or by a retry, gets finished or
\* is deleted by a reprocess.
ChecksFinish == \A c \in CheckIds : Open(c) ~> ~Open(c)
=============================================================================
