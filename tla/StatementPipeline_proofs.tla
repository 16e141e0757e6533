---------------------- MODULE StatementPipeline_proofs ----------------------
(***************************************************************************)
(* Proofs about StatementPipeline.  For any workers, requests, modes and   *)
(* candidates: type correctness; that trouble is told, when no process     *)
(* dies; that the finish of the last check is not lost, when no second     *)
(* checks.spawn overlaps the first.  With one delivery and one request at  *)
(* a time: that structure and checks.spawn leave one row and one check for *)
(* each candidate, however often they run, fail, crash and run again.      *)
(* With one inline reprocess at a time: that it ends with what it reports. *)
(* With both one at a time: that the progress is what the checks say.      *)
(***************************************************************************)
EXTENDS StatementPipeline, FiniteSetTheorems, WellFoundedInduction, TLAPS

StatementDoc == [status : StatementStatus \cup {"none"}, progress : Progress,
                 issues : BOOLEAN, v : Nat]

\* Where a handler and where a job may be.
HandlerSteps == {"enqueue", "reset", "clear", "requeue", "created", "dispatchFailed"}
JobSteps == {"load", "begin", "extracted", "artifacts", "create", "deleteChecks", "select",
             "spawn", "fanOut", "findCheck", "mark", "count", "progress", "work", "refresh",
             "fail", "saveFailed", "failCheck", "done", "rethrow"}
Steps == {"idle"} \cup HandlerSteps \cup JobSteps
Seen == UNION {[S -> 0..MaxChecks] : S \in SUBSET Counted}
-----------------------------------------------------------------------------
(* Lemmas about records. *)

LEMMA StateForm ==
    ProcState = [pc : Steps, caller : Handlers \cup {"queue"}, job : Job,
                 check : CheckIds \cup {NoCheck}, nested : BOOLEAN, doc : StatementDoc,
                 was : Check, left : Nat, todo : SUBSET CheckIds, seen : Seen,
                 resume : {"work", "done", "rethrow"}]
<1>1. Steps = {"idle", "enqueue", "reset", "clear", "requeue", "created", "dispatchFailed",
           "load", "begin", "extracted", "artifacts", "create", "deleteChecks", "select",
           "spawn", "fanOut", "findCheck", "mark", "count", "progress", "work", "refresh",
           "fail", "saveFailed", "failCheck", "done", "rethrow"}
  BY DEF Steps, HandlerSteps, JobSteps
<1> QED
  BY <1>1 DEF ProcState, StatementDoc, Seen

LEMMA DocsTyped ==
    /\ NoProgress \in Progress /\ Uploaded \in StatementDoc /\ Missing \in StatementDoc
    /\ Unmade \in Check /\ NewCheck \in Check
BY DEF NoProgress, Progress, Uploaded, Missing, StatementDoc, StatementStatus, Unmade, NewCheck,
       Check, CheckStatus

LEMMA UncountedTyped == Uncounted \in Seen
<1>1. Uncounted \in [{} -> 0..MaxChecks] /\ {} \in SUBSET Counted
  BY DEF Uncounted
<1> QED
  BY <1>1 DEF Seen

LEMMA IdleTyped == IdleProc \in ProcState
<1>1. /\ "idle" \in Steps /\ "extract" \in Job /\ NoCheck \in CheckIds \cup {NoCheck}
      /\ FALSE \in BOOLEAN /\ {} \in SUBSET CheckIds /\ 0 \in Nat
  BY DEF Steps, Job
<1> HIDE DEF NoCheck, StatementDoc
<1> QED
  BY <1>1, StateForm, DocsTyped, UncountedTyped DEF IdleProc

LEMMA Fields ==
    ASSUME NEW x \in ProcState
    PROVE  /\ x.pc \in Steps /\ x.caller \in Handlers \cup {"queue"} /\ x.job \in Job
           /\ x.check \in CheckIds \cup {NoCheck} /\ x.nested \in BOOLEAN
           /\ x.doc \in StatementDoc /\ x.was \in Check /\ x.left \in Nat
           /\ x.todo \in SUBSET CheckIds /\ x.seen \in Seen
           /\ x.resume \in {"work", "done", "rethrow"}
BY StateForm

\* What a save leaves is a statement.
LEMMA SavedTyped ==
    ASSUME stmt \in StatementDoc, NEW doc \in StatementDoc, NEW new \in StatementDoc,
           NEW issues \in BOOLEAN
    PROVE  Saved(doc, new, issues) \in StatementDoc
BY DEF Saved, StatementDoc

\* A set of naturals has a least element.
LEMMA LeastOf ==
    ASSUME NEW S, S \subseteq Nat, S # {}
    PROVE  \E least \in S : \A d \in S : least <= d
<1> DEFINE R == OpToRel(<, Nat)
<1>1. ASSUME NEW d \in Nat, NEW e \in Nat, d < e PROVE <<d, e>> \in R
  BY <1>1, Zenon DEF OpToRel
<1>2. IsWellFoundedOn(R, Nat)
  BY NatLessThanWellFounded, Zenon
<1> HIDE DEF R
<1>3. PICK least \in S : \A d \in S : ~(<<d, least>> \in R)
  BY <1>2, WFMin, Zenon
<1>4. ASSUME NEW d \in S PROVE least <= d
  <2>1. d \in Nat /\ least \in Nat
    OBVIOUS
  <2>2. ~(d < least)
    BY <1>1, <1>3, <2>1
  <2> QED
    BY <2>1, <2>2
<1> QED
  BY <1>4
-----------------------------------------------------------------------------
(* Kinds of steps. *)

\* A step of p that leaves the other processes alone.
Moves(p) == \E new \in ProcState : Become(p, new)

LEMMA ProcTyped ==
    ASSUME TypeOK, NEW p \in Procs
    PROVE  proc[p] \in ProcState /\ stmt \in StatementDoc /\ checks \in [CheckIds -> Check]
           /\ rows \in Nat /\ made \in 0..MaxChecks /\ queued \in [Task -> Nat]
BY DEF TypeOK, StatementDoc

LEMMA StepTyped ==
    ASSUME TypeOK, NEW p \in Procs, Moves(p), stmt' \in StatementDoc, rows' \in Nat,
           made' \in 0..MaxChecks, checks' \in [CheckIds -> Check], queued' \in [Task -> Nat],
           mode' = mode, requests' \in 0..MaxRequests, redelivered' \in 0..MaxRedeliveries
    PROVE  TypeOK'
<1>1. PICK new \in ProcState : proc' = [proc EXCEPT ![p] = new]
  BY DEF Moves, Become
<1>2. proc \in [Procs -> ProcState] /\ mode \in Modes
  BY DEF TypeOK
<1>3. proc' \in [Procs -> ProcState]
  BY <1>1, <1>2
<1> QED
  BY <1>2, <1>3 DEF TypeOK, StatementDoc

LEMMA StatementStep ==
    ASSUME TypeOK, NEW p \in Procs, Moves(p), StatementOnly, stmt' \in StatementDoc
    PROVE  TypeOK'
BY StepTyped DEF StatementOnly, TypeOK

LEMMA ProcStep == ASSUME TypeOK, NEW p \in Procs, Moves(p), ProcOnly PROVE TypeOK'
BY StepTyped DEF ProcOnly, StatementOnly, TypeOK, StatementDoc

LEMMA ChecksStep ==
    ASSUME TypeOK, NEW p \in Procs, Moves(p), ChecksOnly, checks' \in [CheckIds -> Check]
    PROVE  TypeOK'
BY StepTyped DEF ChecksOnly, TypeOK, StatementDoc

LEMMA QueueStep ==
    ASSUME TypeOK, NEW p \in Procs, Moves(p), QueueOnly, queued' \in [Task -> Nat],
           redelivered' \in 0..MaxRedeliveries
    PROVE  TypeOK'
BY StepTyped DEF QueueOnly, TypeOK, StatementDoc

LEMMA IdleMoves == ASSUME NEW p \in Procs, Become(p, IdleProc) PROVE Moves(p)
BY IdleTyped DEF Moves

LEMMA GoMoves ==
    ASSUME TypeOK, NEW p \in Procs, NEW pc \in Steps, Go(p, pc) PROVE Moves(p)
<1>1. [proc[p] EXCEPT !.pc = pc] \in ProcState
  BY ProcTyped, StateForm
<1> QED
  BY <1>1 DEF Go, Moves

LEMMA DocMoves ==
    ASSUME TypeOK, NEW p \in Procs, NEW pc \in Steps, NEW d \in StatementDoc,
           Become(p, [proc[p] EXCEPT !.doc = d, !.pc = pc])
    PROVE  Moves(p)
<1>1. [proc[p] EXCEPT !.doc = d, !.pc = pc] \in ProcState
  <2> HIDE DEF StatementDoc, Steps
  <2> QED
    BY ProcTyped, StateForm
<1> QED
  BY <1>1 DEF Moves

LEMMA CountMoves ==
    ASSUME TypeOK, NEW p \in Procs, NEW resume \in {"work", "done", "rethrow"},
           StartCount(p, resume)
    PROVE  Moves(p)
<1> DEFINE new == [proc[p] EXCEPT !.pc = "count", !.doc = Missing, !.was = Unmade,
                                  !.seen = Uncounted, !.resume = resume]
<1>1. "count" \in Steps
  BY DEF Steps, JobSteps
<1>2. new \in ProcState
  BY <1>1, ProcTyped, StateForm, DocsTyped, UncountedTyped
<1> QED
  BY <1>2 DEF StartCount, Moves
-----------------------------------------------------------------------------
(* Types: the handlers. *)

\* The steps a process may be at.
LEMMA StepNames ==
    /\ "idle" \in Steps /\ HandlerSteps \subseteq Steps /\ JobSteps \subseteq Steps
    /\ {"clear", "enqueue", "created", "dispatchFailed", "reset", "requeue"} \subseteq Steps
    /\ {"load", "done", "fail", "rethrow", "saveFailed", "failCheck", "fanOut", "work"}
          \subseteq Steps
    /\ {"begin", "deleteChecks", "findCheck", "refresh", "extracted", "artifacts", "create",
        "select", "spawn", "mark", "count", "progress"} \subseteq Steps
BY DEF Steps, HandlerSteps, JobSteps

\* A request that arrives.
LEMMA RequestTyped ==
    ASSUME TypeOK, NEW p \in Procs, NEW h, Serves(p, h), NEW state \in ProcState,
           NEW pc \in Steps, Request(p, h, state, pc), RequestOnly, stmt' \in StatementDoc
    PROVE  TypeOK'
<1>1. h \in Handlers /\ requests' \in 0..MaxRequests
  BY PipelineAssumption DEF Serves, TypeOK
<1>2. [state EXCEPT !.caller = h, !.pc = pc] \in ProcState
  BY <1>1, StateForm
<1>3. Moves(p)
  BY <1>2 DEF Request, Moves
<1>4. /\ rows' \in Nat /\ made' \in 0..MaxChecks /\ checks' \in [CheckIds -> Check]
      /\ queued' \in [Task -> Nat] /\ mode' = mode /\ redelivered' \in 0..MaxRedeliveries
  BY DEF RequestOnly, TypeOK
<1> QED
  BY <1>1, <1>3, <1>4, StepTyped

LEMMA ArriveTyped == ASSUME TypeOK, NEW p \in Procs, Arrive(p) PROVE TypeOK'
<1>1. CASE CreateStatement(p)
  <2> DEFINE state == [IdleProc EXCEPT !.doc = Uploaded]
  <2>1. state \in ProcState
    BY IdleTyped, StateForm, DocsTyped
  <2>2. /\ Serves(p, "create") /\ Request(p, "create", state, "enqueue") /\ RequestOnly
        /\ stmt' \in StatementDoc
    BY <1>1, DocsTyped DEF CreateStatement
  <2> HIDE DEF state
  <2> QED
    BY <2>1, <2>2, RequestTyped, StepNames
<1>2. ASSUME NEW job \in Job, ReprocessStatement(p, job) PROVE TypeOK'
  <2> DEFINE state == [IdleProc EXCEPT !.doc = stmt, !.job = job]
  <2>1. state \in ProcState
    <3> HIDE DEF StatementDoc, Steps
    <3> QED
      BY IdleTyped, StateForm, ProcTyped
  <2>2. /\ Serves(p, "reprocess") /\ Request(p, "reprocess", state, "reset") /\ RequestOnly
        /\ stmt' \in StatementDoc
    BY <1>2, ProcTyped DEF ReprocessStatement
  <2> HIDE DEF state
  <2> QED
    BY <2>1, <2>2, RequestTyped, StepNames
<1>3. ASSUME NEW c \in CheckIds, RetryStatementCheck(p, c) PROVE TypeOK'
  <2> DEFINE state == [IdleProc EXCEPT !.job = "check", !.check = c, !.was = checks[c]]
  <2>1. state \in ProcState
    <3>1. "check" \in Job /\ checks[c] \in Check /\ c \in CheckIds \cup {NoCheck}
      BY ProcTyped DEF Job
    <3> HIDE DEF Job, Check
    <3> QED
      BY <3>1, IdleTyped, StateForm
  <2>2. /\ Serves(p, "retry") /\ Request(p, "retry", state, "requeue") /\ RequestOnly
        /\ stmt' \in StatementDoc
    BY <1>3, ProcTyped DEF RetryStatementCheck
  <2> HIDE DEF state
  <2> QED
    BY <2>1, <2>2, RequestTyped, StepNames
<1> QED
  BY <1>1, <1>2, <1>3 DEF Arrive

LEMMA ResetTyped == ASSUME TypeOK, NEW p \in Procs, ResetStatement(p) PROVE TypeOK'
<1>1. proc[p].doc \in StatementDoc /\ proc[p].doc.issues \in BOOLEAN
  BY ProcTyped, Fields DEF StatementDoc
<1>2. Moves(p) /\ stmt' \in StatementDoc
  BY <1>1, IdleMoves, GoMoves, StepNames, SavedTyped, DocsTyped, ProcTyped DEF ResetStatement
<1> QED
  BY <1>2, StatementStep DEF ResetStatement

LEMMA ClearTyped == ASSUME TypeOK, NEW p \in Procs, ClearChecks(p) \/ DeleteChecks(p) PROVE TypeOK'
<1>1. Moves(p)
  BY GoMoves, StepNames DEF ClearChecks, DeleteChecks
<1>2. checks' \in [CheckIds -> Check]
  BY DocsTyped DEF ClearChecks, DeleteChecks
<1> QED
  BY <1>1, <1>2, ChecksStep DEF ClearChecks, DeleteChecks

LEMMA RequeueTyped == ASSUME TypeOK, NEW p \in Procs, RequeueCheck(p) PROVE TypeOK'
<1>1. Moves(p)
  BY GoMoves, IdleMoves, StepNames DEF RequeueCheck
<1>2. checks' \in [CheckIds -> Check]
  BY ProcTyped DEF RequeueCheck, Check, CheckStatus
<1> QED
  BY <1>1, <1>2, ChecksStep DEF RequeueCheck

\* How a handler goes on.
LEMMA ReturnedTyped ==
    ASSUME TypeOK, NEW p \in Procs PROVE Returned(p) \in ProcState /\ Threw(p) \in ProcState
<1>1. /\ [proc[p] EXCEPT !.pc = "created"] \in ProcState
      /\ [proc[p] EXCEPT !.pc = "dispatchFailed"] \in ProcState
  BY ProcTyped, StateForm, StepNames
<1> QED
  BY <1>1, IdleTyped DEF Returned, Threw

LEMMA PutTyped ==
    ASSUME TypeOK, NEW p \in Procs, Put([job |-> proc[p].job, check |-> proc[p].check])
    PROVE  queued' \in [Task -> Nat]
<1> DEFINE task == [job |-> proc[p].job, check |-> proc[p].check]
<1>1. task \in Task
  BY ProcTyped, Fields DEF Task
<1> HIDE DEF task
<1> QED
  BY <1>1, ProcTyped DEF Put, task

LEMMA EnqueueTyped ==
    ASSUME TypeOK, NEW p \in Procs, Enqueue(p) \/ EnqueueError(p) PROVE TypeOK'
<1>1. CASE Enqueue(p)
  <2>1. Moves(p)
    BY <1>1, ReturnedTyped, GoMoves, StepNames DEF Enqueue, Moves
  <2>2. queued' \in [Task -> Nat] /\ redelivered' \in 0..MaxRedeliveries
    BY <1>1, PutTyped, ProcTyped DEF Enqueue, TypeOK
  <2> QED
    BY <1>1, <2>1, <2>2, QueueStep DEF Enqueue
<1>2. CASE EnqueueError(p)
  <2>1. Moves(p)
    BY <1>2, ReturnedTyped DEF EnqueueError, Moves
  <2> QED
    BY <1>2, <2>1, ProcStep DEF EnqueueError
<1> QED
  BY <1>1, <1>2

LEMMA SaveHandlerTyped ==
    ASSUME TypeOK, NEW p \in Procs, SaveExtracting(p) \/ SaveDispatchFailed(p) PROVE TypeOK'
<1>1. /\ [Uploaded EXCEPT !.status = "extracting"] \in StatementDoc
      /\ [Uploaded EXCEPT !.status = "failed", !.issues = TRUE] \in StatementDoc
  BY DocsTyped DEF StatementDoc, StatementStatus
<1>2. stmt' \in StatementDoc
  BY <1>1, DocsTyped, SavedTyped, ProcTyped DEF SaveExtracting, SaveDispatchFailed
<1>3. Moves(p)
  BY IdleMoves DEF SaveExtracting, SaveDispatchFailed
<1> QED
  BY <1>2, <1>3, StatementStep DEF SaveExtracting, SaveDispatchFailed
-----------------------------------------------------------------------------
(* Types: the jobs. *)

LEMMA AgainTyped ==
    ASSUME TypeOK, NEW p \in Procs,
           \/ Again(p)
           \/ UNCHANGED <<queued, redelivered>>
    PROVE  queued' \in [Task -> Nat] /\ redelivered' \in 0..MaxRedeliveries
<1>1. CASE UNCHANGED <<queued, redelivered>>
  BY <1>1 DEF TypeOK
<1>2. CASE /\ redelivered < MaxRedeliveries /\ redelivered' = redelivered + 1
           /\ Put([job |-> proc[p].job, check |-> proc[p].check])
  BY <1>2, PutTyped, PipelineAssumption DEF TypeOK
<1> QED
  BY <1>1, <1>2 DEF Again

LEMMA DeliverTyped ==
    ASSUME TypeOK, NEW p \in Procs, NEW task \in Task, Deliver(p, task) PROVE TypeOK'
<1>1. task.job \in Job /\ task.check \in CheckIds \cup {NoCheck}
  BY DEF Task
<1>2. [IdleProc EXCEPT !.job = task.job, !.check = task.check, !.pc = "load"] \in ProcState
  <2> HIDE DEF NoCheck, Job
  <2> QED
    BY <1>1, IdleTyped, StateForm, StepNames
<1>3. Moves(p)
  BY <1>2 DEF Deliver, Moves
<1>4. queued' \in [Task -> Nat]
  BY ProcTyped DEF Deliver
<1>5. redelivered' \in 0..MaxRedeliveries
  BY DEF Deliver, TypeOK
<1> QED
  BY <1>3, <1>4, <1>5, QueueStep DEF Deliver

LEMMA BackMoves ==
    ASSUME TypeOK, NEW p \in Procs, NEW pc \in Steps, BackToSpawn(p, pc) PROVE Moves(p)
<1> DEFINE new == [proc[p] EXCEPT !.job = "spawn", !.check = NoCheck, !.nested = FALSE, !.pc = pc]
<1>1. "spawn" \in Job /\ NoCheck \in CheckIds \cup {NoCheck} /\ proc[p] \in ProcState
  BY ProcTyped DEF Job
<1>2. new \in ProcState
  <2> HIDE DEF NoCheck, Job
  <2> QED
    BY <1>1, StateForm
<1> QED
  BY <1>2 DEF BackToSpawn, Moves

LEMMA SucceedTyped == ASSUME TypeOK, NEW p \in Procs, Succeed(p) PROVE TypeOK'
<1> DEFINE next == [proc[p] EXCEPT !.job = NextJob[proc[p].job], !.pc = "load"]
<1>1. proc[p].job \in DOMAIN NextJob => next \in ProcState
  <2> SUFFICES ASSUME proc[p].job \in DOMAIN NextJob PROVE next \in ProcState
    OBVIOUS
  <2>1. NextJob[proc[p].job] \in Job
    BY DEF NextJob, Job
  <2> HIDE DEF Job
  <2> QED
    BY <2>1, ProcTyped, StateForm, StepNames
<1>2. \/ BackToSpawn(p, "fanOut") \/ Become(p, IdleProc)
      \/ proc[p].job \in DOMAIN NextJob /\ Become(p, next)
      \/ Become(p, Returned(p))
  BY DEF Succeed
<1> HIDE DEF next
<1>3. Moves(p)
  BY <1>1, <1>2, BackMoves, IdleMoves, ReturnedTyped, StepNames DEF Moves
<1>4. Again(p) \/ UNCHANGED <<queued, redelivered>>
  BY DEF Succeed
<1> QED
  BY <1>3, <1>4, AgainTyped, QueueStep DEF Succeed

LEMMA RethrowTyped == ASSUME TypeOK, NEW p \in Procs, Rethrow(p) \/ Crash(p) PROVE TypeOK'
<1>1. BackToSpawn(p, "fail") \/ Become(p, IdleProc) \/ Become(p, Threw(p))
  BY DEF Rethrow, Crash
<1>2. Moves(p)
  BY <1>1, BackMoves, IdleMoves, ReturnedTyped, StepNames DEF Moves
<1>3. Again(p) \/ UNCHANGED <<queued, redelivered>>
  BY DEF Rethrow, Crash
<1> QED
  BY <1>2, <1>3, AgainTyped, QueueStep DEF Rethrow, Crash

LEMMA CatchTyped ==
    ASSUME TypeOK, NEW p \in Procs, LoadFailed(p) \/ SaveFailed(p) \/ FailCheck(p) PROVE TypeOK'
<1>1. CASE LoadFailed(p)
  <2>1. Moves(p)
    BY <1>1, DocMoves, ProcTyped, StepNames DEF LoadFailed
  <2> QED
    BY <1>1, <2>1, ProcStep DEF LoadFailed
<1>2. CASE SaveFailed(p)
  <2>1. Moves(p)
    BY <1>2, GoMoves, StepNames DEF SaveFailed
  <2>2. proc[p].doc \in StatementDoc
    BY ProcTyped, Fields
  <2>3. [proc[p].doc EXCEPT !.status = "failed", !.issues = TRUE] \in StatementDoc
    BY <2>2 DEF StatementDoc, StatementStatus
  <2>4. stmt' \in StatementDoc
    BY <1>2, <2>2, <2>3, ProcTyped, SavedTyped DEF SaveFailed
  <2> QED
    BY <1>2, <2>1, <2>4, StatementStep DEF SaveFailed
<1>3. CASE FailCheck(p)
  <2>1. Moves(p)
    BY <1>3, CountMoves DEF FailCheck
  <2>2. checks' \in [CheckIds -> Check]
    BY <1>3, ProcTyped DEF FailCheck, Check, CheckStatus
  <2> QED
    BY <1>3, <2>1, <2>2, ChecksStep DEF FailCheck
<1> QED
  BY <1>1, <1>2, <1>3

LEMMA ErrorTyped ==
    ASSUME TypeOK, NEW p \in Procs, ArtifactError(p) \/ FanOutError(p) PROVE TypeOK'
<1>1. Moves(p)
  BY GoMoves, StepNames DEF ArtifactError, FanOutError
<1> QED
  BY <1>1, ProcStep DEF ArtifactError, FanOutError

LEMMA LoadTyped == ASSUME TypeOK, NEW p \in Procs, LoadStatement(p) PROVE TypeOK'
<1> DEFINE doc == IF proc[p].job \in {"check", "refresh"} THEN Missing ELSE stmt
           pc == CASE proc[p].job \in {"extract", "structure"} -> "begin"
                   [] proc[p].job = "spawn" -> "deleteChecks"
                   [] proc[p].job = "check" -> IF proc[p].check = NoCheck THEN "fail" ELSE "findCheck"
                   [] OTHER -> "refresh"
<1>1. doc \in StatementDoc
  BY ProcTyped, DocsTyped
<1>2. pc \in {"begin", "deleteChecks", "fail", "findCheck", "refresh"}
  OBVIOUS
<1>3. pc \in Steps
  BY <1>2, StepNames
<1>4. Become(p, [proc[p] EXCEPT !.doc = doc, !.pc = pc])
  BY DEF LoadStatement
<1> HIDE DEF doc, pc
<1> QED
  BY <1>1, <1>3, <1>4, DocMoves, ProcStep DEF LoadStatement

\* A save of the status alone.
LEMMA StatusTyped ==
    ASSUME TypeOK, NEW p \in Procs, NEW status \in StatementStatus, NEW pc \in Steps,
           SaveStatus(p, status, pc), StatementOnly
    PROVE  TypeOK'
<1>1. proc[p].doc \in StatementDoc /\ proc[p] \in ProcState
  BY ProcTyped, Fields
<1> DEFINE doc == [proc[p].doc EXCEPT !.status = status]
<1>2. doc \in StatementDoc
  BY <1>1 DEF StatementDoc
<1>3. stmt' \in StatementDoc
  BY <1>1, <1>2, ProcTyped, SavedTyped DEF SaveStatus
<1>4. Become(p, [proc[p] EXCEPT !.doc = doc, !.pc = pc])
  BY DEF SaveStatus
<1> HIDE DEF doc
<1> QED
  BY <1>2, <1>3, <1>4, DocMoves, StatementStep

LEMMA StatusStepsTyped ==
    ASSUME TypeOK, NEW p \in Procs,
           RefreshMatching(p) \/ BeginExtract(p) \/ FinishExtract(p) \/ BeginStructure(p)
    PROVE  TypeOK'
<1>1. CASE RefreshMatching(p)
  BY <1>1, GoMoves, ProcStep, StepNames DEF RefreshMatching
<1>2. {"extracting", "structuring"} \subseteq StatementStatus
  BY DEF StatementStatus
<1>3. CASE BeginExtract(p) \/ FinishExtract(p) \/ BeginStructure(p)
  BY <1>2, <1>3, StatusTyped, StepNames DEF BeginExtract, FinishExtract, BeginStructure
<1> QED
  BY <1>1, <1>3

LEMMA RowsTyped ==
    ASSUME TypeOK, NEW p \in Procs,
           DeleteRows(p) \/ CreateRow(p) \/ SelectCandidates(p) \/ SpawnCheck(p)
    PROVE  TypeOK'
<1>1. /\ proc[p] \in ProcState /\ proc[p].left \in Nat /\ proc[p].todo \in SUBSET CheckIds
      /\ rows \in Nat /\ Candidates \in Nat /\ MaxChecks \in Nat /\ made \in 0..MaxChecks
  BY ProcTyped, Fields, PipelineAssumption
<1>2. CASE DeleteRows(p)
  <2>1. [proc[p] EXCEPT !.left = Candidates, !.pc = "create"] \in ProcState
    BY <1>1, StateForm, StepNames
  <2>2. Moves(p)
    BY <1>2, <2>1 DEF DeleteRows, Moves
  <2> QED
    BY <1>2, <2>2, StepTyped, ProcTyped DEF DeleteRows, TypeOK
<1>3. CASE CreateRow(p)
  <2>1. [proc[p] EXCEPT !.left = proc[p].left - 1] \in ProcState
    <3>1. proc[p].left - 1 \in Nat
      BY <1>1, <1>3 DEF CreateRow
    <3> QED
      BY <1>1, <3>1, StateForm
  <2>2. Moves(p)
    BY <1>3, <2>1 DEF CreateRow, Moves
  <2>3. rows' \in Nat
    BY <1>1, <1>3 DEF CreateRow
  <2> QED
    BY <1>3, <2>2, <2>3, StepTyped, ProcTyped DEF CreateRow, TypeOK
<1>4. CASE SelectCandidates(p)
  <2>1. [proc[p] EXCEPT !.left = rows, !.todo = {}, !.pc = "spawn"] \in ProcState
    BY <1>1, StateForm, StepNames
  <2>2. Moves(p)
    BY <1>4, <2>1 DEF SelectCandidates, Moves
  <2> QED
    BY <1>4, <2>2, ProcStep DEF SelectCandidates
<1>5. CASE SpawnCheck(p)
  <2>1. proc[p].left - 1 \in Nat /\ made + 1 \in CheckIds /\ made + 1 \in 0..MaxChecks
    BY <1>1, <1>5 DEF SpawnCheck, CheckIds
  <2>2. [proc[p] EXCEPT !.left = proc[p].left - 1, !.todo = proc[p].todo \cup {made + 1}] \in ProcState
    BY <1>1, <2>1, StateForm
  <2>3. Moves(p)
    BY <1>5, <2>2 DEF SpawnCheck, Moves
  <2>4. checks' \in [CheckIds -> Check]
    BY <1>5, DocsTyped, ProcTyped DEF SpawnCheck
  <2> QED
    BY <1>5, <2>1, <2>3, <2>4, StepTyped, ProcTyped DEF SpawnCheck, TypeOK
<1> QED
  BY <1>2, <1>3, <1>4, <1>5

LEMMA FinishStructureTyped == ASSUME TypeOK, NEW p \in Procs, FinishStructure(p) PROVE TypeOK'
<1> DEFINE doc == proc[p].doc
           new == [doc EXCEPT !.status = "checks_queued", !.progress = NoProgress]
<1>1. doc \in StatementDoc
  BY ProcTyped, Fields
<1> HIDE DEF doc
<1>2. new \in StatementDoc
  BY <1>1, DocsTyped DEF StatementDoc, StatementStatus
<1>3. stmt' = Saved(doc, new, FALSE)
  BY DEF FinishStructure, doc
<1> HIDE DEF new
<1>4. stmt' \in StatementDoc
  BY <1>1, <1>2, <1>3, ProcTyped, SavedTyped
<1>5. Moves(p)
  BY GoMoves, StepNames DEF FinishStructure
<1> QED
  BY <1>4, <1>5, StatementStep DEF FinishStructure

\* Sets of checks are finite.
LEMMA ChecksFinite ==
    ASSUME NEW S, S \subseteq CheckIds
    PROVE  IsFiniteSet(S) /\ Cardinality(S) \in 0..MaxChecks
<1>1. MaxChecks \in Nat
  BY PipelineAssumption
<1>2. IsFiniteSet(1..MaxChecks) /\ Cardinality(1..MaxChecks) = MaxChecks
  BY <1>1, FS_Interval
<1>3. IsFiniteSet(S) /\ Cardinality(S) <= MaxChecks
  BY <1>2, FS_Subset DEF CheckIds
<1> QED
  BY <1>1, <1>3, FS_CardinalityType

LEMMA FinishSpawnTyped == ASSUME TypeOK, NEW p \in Procs, FinishSpawn(p) PROVE TypeOK'
<1> DEFINE doc == proc[p].doc
           n == Cardinality(proc[p].todo)
           progress == [NoProgress EXCEPT !.total = n, !.queued = n]
           status == IF n > 0 THEN "checks_queued" ELSE "ready_for_review"
           new == [doc EXCEPT !.progress = progress, !.status = status]
<1>1. doc \in StatementDoc /\ proc[p].todo \in SUBSET CheckIds
  BY ProcTyped, Fields
<1>2. n \in Nat
  BY <1>1, ChecksFinite
<1>3. stmt' = Saved(doc, new, FALSE)
  BY DEF FinishSpawn
<1> HIDE DEF n, doc
<1>4. progress \in Progress
  BY <1>2 DEF NoProgress, Progress
<1> HIDE DEF progress
<1>5. new \in StatementDoc
  BY <1>1, <1>4 DEF StatementDoc, StatementStatus
<1> HIDE DEF new
<1>6. stmt' \in StatementDoc
  BY <1>1, <1>3, <1>5, ProcTyped, SavedTyped
<1>7. Moves(p)
  BY GoMoves, StepNames DEF FinishSpawn
<1> QED
  BY <1>6, <1>7, StatementStep DEF FinishSpawn

LEMMA FanOutTyped == ASSUME TypeOK, NEW p \in Procs, FanOut(p) PROVE TypeOK'
<1> DEFINE c == CHOOSE c \in proc[p].todo : \A d \in proc[p].todo : c <= d
           rest == [proc[p] EXCEPT !.todo = proc[p].todo \ {c}]
           next == [rest EXCEPT !.job = "check", !.check = c, !.nested = TRUE, !.pc = "load"]
           task == [job |-> "check", check |-> c]
<1>1. proc[p] \in ProcState /\ proc[p].todo \in SUBSET CheckIds
  BY ProcTyped, Fields
<1>2. CASE proc[p].todo = {}
  <2>1. Moves(p)
    BY <1>2, GoMoves, StepNames DEF FanOut
  <2>2. queued' \in [Task -> Nat] /\ redelivered' \in 0..MaxRedeliveries
    BY <1>2 DEF FanOut, TypeOK
  <2> QED
    BY <2>1, <2>2, QueueStep DEF FanOut
<1>3. CASE proc[p].todo # {}
  <2>1. \/ Put(task) /\ Become(p, rest)
        \/ Become(p, next) /\ UNCHANGED queued
    BY <1>3 DEF FanOut
  <2>2. c \in CheckIds
    <3>1. PICK least \in proc[p].todo : \A d \in proc[p].todo : least <= d
      <4>1. proc[p].todo \subseteq Nat /\ proc[p].todo # {}
        BY <1>1, <1>3, PipelineAssumption DEF CheckIds
      <4> DEFINE S == proc[p].todo
      <4> QED
        BY <4>1, LeastOf
    <3> QED
      BY <1>1, <3>1
  <2> HIDE DEF c
  <2>3. rest \in ProcState
    BY <1>1, StateForm
  <2>4. "check" \in Job /\ c \in CheckIds \cup {NoCheck} /\ task \in Task
    BY <2>2 DEF Job, Task
  <2> HIDE DEF rest
  <2>5. next \in ProcState
    <3> HIDE DEF NoCheck, Job
    <3> QED
      BY <2>3, <2>4, StateForm, StepNames
  <2> HIDE DEF next, task
  <2>6. Moves(p)
    BY <2>1, <2>3, <2>5 DEF Moves
  <2>7. queued' \in [Task -> Nat]
    BY <2>1, <2>4, ProcTyped DEF Put
  <2>8. redelivered' \in 0..MaxRedeliveries
    BY DEF FanOut, TypeOK
  <2> QED
    BY <2>6, <2>7, <2>8, QueueStep DEF FanOut
<1> QED
  BY <1>2, <1>3

LEMMA CheckStepsTyped ==
    ASSUME TypeOK, NEW p \in Procs, FindCheck(p) \/ MarkProcessing(p) \/ SaveResult(p)
    PROVE  TypeOK'
<1>1. CASE FindCheck(p)
  <2>1. Existing(proc[p].check) => [proc[p] EXCEPT !.was = checks[proc[p].check], !.pc = "mark"] \in ProcState
    <3> SUFFICES ASSUME Existing(proc[p].check)
                 PROVE [proc[p] EXCEPT !.was = checks[proc[p].check], !.pc = "mark"] \in ProcState
      OBVIOUS
    <3>1. checks[proc[p].check] \in Check
      BY ProcTyped DEF Existing
    <3> HIDE DEF Check
    <3> QED
      BY <3>1, ProcTyped, StateForm, StepNames
  <2>2. Moves(p)
    BY <1>1, <2>1, GoMoves, StepNames DEF FindCheck, Moves
  <2> QED
    BY <1>1, <2>2, ProcStep DEF FindCheck
<1>2. CASE MarkProcessing(p)
  <2>1. Moves(p)
    BY <1>2, GoMoves, CountMoves, StepNames DEF MarkProcessing
  <2>2. checks' \in [CheckIds -> Check]
    BY <1>2, ProcTyped DEF MarkProcessing, Check, CheckStatus
  <2> QED
    BY <1>2, <2>1, <2>2, ChecksStep DEF MarkProcessing
<1>3. CASE SaveResult(p)
  <2>1. Moves(p)
    BY <1>3, GoMoves, CountMoves, StepNames DEF SaveResult
  <2>2. checks' \in [CheckIds -> Check]
    BY <1>3, ProcTyped DEF SaveResult, Check, CheckStatus
  <2> QED
    BY <1>3, <2>1, <2>2, ChecksStep DEF SaveResult
<1> QED
  BY <1>1, <1>2, <1>3

LEMMA CountTyped == ASSUME TypeOK, NEW p \in Procs, CountChecks(p) PROVE TypeOK'
<1>1. PICK S \in Reads : Become(p, [proc[p] EXCEPT !.seen =
               [t \in DOMAIN proc[p].seen \cup S |-> IF t \in S THEN CountOf(t) ELSE proc[p].seen[t]]])
  BY DEF CountChecks
<1> DEFINE seen == [t \in DOMAIN proc[p].seen \cup S |->
                       IF t \in S THEN CountOf(t) ELSE proc[p].seen[t]]
<1>2. PICK T \in SUBSET Counted : proc[p].seen \in [T -> 0..MaxChecks]
  <2>1. proc[p].seen \in Seen
    BY ProcTyped, Fields
  <2> QED
    BY <2>1 DEF Seen
<1>3. ASSUME NEW t PROVE CountOf(t) \in 0..MaxChecks
  BY ChecksFinite DEF CountOf
<1>4. T \cup S \in SUBSET Counted
  BY PipelineAssumption
<1>5. seen \in [T \cup S -> 0..MaxChecks]
  BY <1>2, <1>3
<1>6. seen \in Seen
  BY <1>4, <1>5 DEF Seen
<1> HIDE DEF seen
<1>7. [proc[p] EXCEPT !.seen = seen] \in ProcState
  BY <1>6, ProcTyped, StateForm
<1>8. Moves(p)
  BY <1>1, <1>7 DEF Moves, seen
<1> QED
  BY <1>8, ProcStep DEF CountChecks

LEMMA LoadProgressTyped == ASSUME TypeOK, NEW p \in Procs, LoadProgress(p) PROVE TypeOK'
BY ProcTyped, StepNames, DocMoves, ProcStep DEF LoadProgress

\* What a recount has seen when it saves: every count.
SeenAll == \A p \in Procs : At(p, "progress") => DOMAIN proc[p].seen = Counted

LEMMA SaveProgressTyped ==
    ASSUME TypeOK, SeenAll, NEW p \in Procs, SaveProgress(p) PROVE TypeOK'
<1> DEFINE doc == proc[p].doc
           seen == proc[p].seen
           status == IF SeenSettled(seen, doc.status) THEN "ready_for_review" ELSE doc.status
           progress == [s \in Counted |-> seen[s]]
           new == [doc EXCEPT !.status = status, !.progress = progress]
           next == [proc[p] EXCEPT !.doc = Missing, !.seen = Uncounted, !.pc = proc[p].resume]
<1>1. doc \in StatementDoc /\ seen \in Seen /\ proc[p].resume \in {"work", "done", "rethrow"}
  BY ProcTyped, Fields
<1>2. progress \in Progress
  <2>1. \A s \in Counted : seen[s] \in Nat
    BY <1>1, PipelineAssumption DEF Seen, SeenAll, SaveProgress
  <2> QED
    BY <2>1 DEF Progress, Counted
<1>3. stmt' = Saved(doc, new, FALSE) /\ Become(p, next)
  BY DEF SaveProgress
<1>4. proc[p].resume \in Steps
  BY <1>1, StepNames
<1>5. next \in ProcState
  BY <1>4, ProcTyped, StateForm, DocsTyped, UncountedTyped
<1>6. status \in StatementStatus \cup {"none"}
  BY <1>1 DEF StatementDoc, StatementStatus
<1> HIDE DEF doc, seen, status, progress, next
<1>7. new \in StatementDoc
  BY <1>1, <1>2, <1>6 DEF StatementDoc
<1> HIDE DEF new
<1>8. stmt' \in StatementDoc /\ Moves(p)
  BY <1>1, <1>3, <1>5, <1>7, SavedTyped, ProcTyped DEF Moves
<1> QED
  BY <1>8, StatementStep DEF SaveProgress

LEMMA InitTyped == Init => TypeOK /\ SeenAll
<1> SUFFICES ASSUME Init PROVE TypeOK /\ SeenAll
  OBVIOUS
<1>1. stmt \in StatementDoc
  BY DocsTyped DEF Init, StatementDoc, StatementStatus
<1>2. proc \in [Procs -> ProcState] /\ SeenAll
  BY IdleTyped DEF Init, SeenAll, At, IdleProc
<1>3. rows \in Nat /\ made \in 0..MaxChecks /\ requests \in 0..MaxRequests
      /\ redelivered \in 0..MaxRedeliveries /\ queued \in [Task -> Nat] /\ mode \in Modes
  BY PipelineAssumption DEF Init
<1>4. checks \in [CheckIds -> Check]
  BY DocsTyped DEF Init
<1> QED
  BY <1>1, <1>2, <1>3, <1>4 DEF TypeOK, StatementDoc

LEMMA ProceedTyped ==
    ASSUME TypeOK, SeenAll, NEW p \in Procs, Arrive(p) \/ Proceed(p) \/ Fault(p) PROVE TypeOK'
<1>1. CASE Arrive(p)
  BY <1>1, ArriveTyped
<1>2. CASE Fault(p)
  BY <1>2, EnqueueTyped, ErrorTyped, RethrowTyped DEF Fault
<1>3. CASE Proceed(p)
  BY <1>3, ResetTyped, ClearTyped, RequeueTyped, EnqueueTyped, SaveHandlerTyped, DeliverTyped,
     SucceedTyped, RethrowTyped, CatchTyped, LoadTyped, StatusStepsTyped, RowsTyped,
     FinishStructureTyped, FinishSpawnTyped, FanOutTyped, CheckStepsTyped, CountTyped,
     LoadProgressTyped, SaveProgressTyped
     DEF Proceed
<1> QED
  BY <1>1, <1>2, <1>3
-----------------------------------------------------------------------------
(* How processes move. *)

\* p goes on with what it was called for, at one of the steps.
Continues(p, steps) == proc'[p].pc \in steps /\ proc'[p].caller = proc[p].caller

\* Every other process stays where it is.
Alone(p) == \A q \in Procs : q # p => proc'[q] = proc[q]

LEMMA BecomeGives ==
    ASSUME TypeOK, NEW p \in Procs, NEW new, Become(p, new)
    PROVE  proc'[p] = new /\ Alone(p)
BY DEF TypeOK, Become, Alone

LEMMA GoGives ==
    ASSUME TypeOK, NEW p \in Procs, NEW pc, Go(p, pc)
    PROVE  Continues(p, {pc}) /\ Alone(p)
<1>1. proc'[p] = [proc[p] EXCEPT !.pc = pc] /\ Alone(p)
  BY BecomeGives DEF Go
<1>2. proc[p] \in ProcState
  BY ProcTyped
<1> QED
  BY <1>1, <1>2, StateForm DEF Continues

\* A step leaves the others alone.
LEMMA StepAlone ==
    ASSUME TypeOK, NEW p \in Procs, Arrive(p) \/ Proceed(p) \/ Fault(p) PROVE Alone(p)
<1>1. \E new : Become(p, new)
  <2>1. CASE Arrive(p)
    BY <2>1, Zenon DEF Arrive, CreateStatement, ReprocessStatement, RetryStatementCheck, Request
  <2>2. CASE Fault(p)
    BY <2>2, Zenon DEF Fault, EnqueueError, FanOutError, ArtifactError, Crash, Go
  <2>3. CASE Proceed(p)
    BY <2>3, Zenon DEF Proceed, ResetStatement, ClearChecks, RequeueCheck, Enqueue,
       SaveExtracting, SaveDispatchFailed, Deliver, Succeed, Rethrow, LoadFailed, SaveFailed,
       FailCheck, LoadStatement, RefreshMatching, BeginExtract, FinishExtract, BeginStructure,
       DeleteRows, CreateRow, FinishStructure, DeleteChecks, SelectCandidates, SpawnCheck,
       FinishSpawn, FanOut, FindCheck, MarkProcessing, SaveResult, CountChecks, LoadProgress,
       SaveProgress, Go, StartCount, SaveStatus, BackToSpawn
  <2> QED
    BY <2>1, <2>2, <2>3
<1> QED
  BY <1>1, BecomeGives
\* A record of p's with some fields replaced.
LEMMA FieldsGiven ==
    ASSUME TypeOK, NEW p \in Procs, NEW pc \in Steps
    PROVE  /\ [proc[p] EXCEPT !.pc = pc].pc = pc
           /\ [proc[p] EXCEPT !.pc = pc].caller = proc[p].caller
BY ProcTyped, StateForm

\* The records the jobs' steps write keep the caller.
LEMMA JobFields ==
    ASSUME NEW x \in ProcState, NEW pc, NEW d, NEW job, NEW c, NEW was, NEW left, NEW todo,
           NEW seen, NEW resume, NEW nested
    PROVE  /\ LET y == [x EXCEPT !.doc.status = d, !.pc = pc] IN y.pc = pc /\ y.caller = x.caller
           /\ LET y == [x EXCEPT !.doc = d, !.pc = pc] IN y.pc = pc /\ y.caller = x.caller
           /\ LET y == [x EXCEPT !.left = left, !.pc = pc] IN y.pc = pc /\ y.caller = x.caller
           /\ LET y == [x EXCEPT !.left = left] IN y.pc = x.pc /\ y.caller = x.caller
           /\ LET y == [x EXCEPT !.left = left, !.todo = todo, !.pc = pc]
              IN y.pc = pc /\ y.caller = x.caller
           /\ LET y == [x EXCEPT !.left = left, !.todo = todo]
              IN y.pc = x.pc /\ y.caller = x.caller
           /\ LET y == [x EXCEPT !.todo = todo] IN y.pc = x.pc /\ y.caller = x.caller
           /\ LET y == [x EXCEPT !.was = was, !.pc = pc] IN y.pc = pc /\ y.caller = x.caller
           /\ LET y == [x EXCEPT !.seen = seen] IN y.pc = x.pc /\ y.caller = x.caller
           /\ LET y == [x EXCEPT !.doc = d, !.seen = seen, !.pc = pc]
              IN y.pc = pc /\ y.caller = x.caller
           /\ LET y == [x EXCEPT !.job = job, !.pc = pc] IN y.pc = pc /\ y.caller = x.caller
           /\ LET y == [x EXCEPT !.job = job, !.check = c, !.nested = nested, !.pc = pc]
              IN y.pc = pc /\ y.caller = x.caller
           /\ LET y == [x EXCEPT !.pc = pc, !.doc = d, !.was = was, !.seen = seen,
                                 !.resume = resume]
              IN y.pc = pc /\ y.caller = x.caller
BY StateForm

\* A handler goes on with itself, ends, or runs its job in place.
LEMMA HandlerGoes ==
    ASSUME TypeOK, NEW p \in Procs,
           \/ ResetStatement(p) \/ ClearChecks(p) \/ RequeueCheck(p) \/ Enqueue(p)
           \/ EnqueueError(p) \/ SaveExtracting(p) \/ SaveDispatchFailed(p)
    PROVE  /\ proc[p].pc \in HandlerSteps
           /\ \/ Continues(p, HandlerSteps) \/ proc'[p] = IdleProc
              \/ mode # "tasks" /\ Continues(p, {"load"})
<1> USE DEF HandlerSteps, At
<1>1. CASE ResetStatement(p) \/ ClearChecks(p) \/ RequeueCheck(p)
  BY <1>1, GoGives, BecomeGives DEF ResetStatement, ClearChecks, RequeueCheck, Continues
<1>2. Returned(p) = IdleProc \/ Returned(p) = [proc[p] EXCEPT !.pc = "created"]
  BY DEF Returned
<1>3. Threw(p) = IdleProc \/ Threw(p) = [proc[p] EXCEPT !.pc = "dispatchFailed"]
  BY DEF Threw
<1>4. CASE Enqueue(p)
  <2>1. CASE mode = "tasks"
    <3>1. proc'[p] = Returned(p)
      BY <1>4, <2>1, BecomeGives DEF Enqueue
    <3>2. At(p, "enqueue")
      BY <1>4 DEF Enqueue
    <3>3. LET y == [proc[p] EXCEPT !.pc = "created"] IN
             y.pc = "created" /\ y.caller = proc[p].caller
      BY FieldsGiven, StepNames
    <3> QED
      BY <3>1, <3>2, <3>3, <1>2 DEF Continues
  <2>2. CASE mode # "tasks"
    BY <1>4, <2>2, GoGives DEF Enqueue
  <2> QED
    BY <2>1, <2>2
<1>5. CASE EnqueueError(p)
  <2>1. proc'[p] = Threw(p) /\ At(p, "enqueue")
    BY <1>5, BecomeGives DEF EnqueueError
  <2>2. LET y == [proc[p] EXCEPT !.pc = "dispatchFailed"] IN
           y.pc = "dispatchFailed" /\ y.caller = proc[p].caller
    BY FieldsGiven, StepNames
  <2> QED
    BY <2>1, <2>2, <1>3 DEF Continues
<1>6. CASE SaveExtracting(p) \/ SaveDispatchFailed(p)
  BY <1>6, BecomeGives DEF SaveExtracting, SaveDispatchFailed
<1> QED
  BY <1>1, <1>4, <1>5, <1>6

\* Steps of a job before its last.
Working(p) ==
    \/ LoadFailed(p) \/ SaveFailed(p) \/ FailCheck(p) \/ LoadStatement(p) \/ RefreshMatching(p)
    \/ BeginExtract(p) \/ FinishExtract(p) \/ BeginStructure(p) \/ DeleteRows(p) \/ CreateRow(p)
    \/ FinishStructure(p) \/ DeleteChecks(p) \/ SelectCandidates(p) \/ SpawnCheck(p)
    \/ FinishSpawn(p) \/ FanOut(p) \/ FindCheck(p) \/ MarkProcessing(p) \/ SaveResult(p)
    \/ CountChecks(p) \/ LoadProgress(p) \/ SaveProgress(p) \/ FanOutError(p) \/ ArtifactError(p)

\* The steps at which what is to be created next is counted.
Creating == {"create", "select", "spawn"}

LEMMA StatusGoes ==
    ASSUME TypeOK, NEW p \in Procs, NEW status, NEW pc, SaveStatus(p, status, pc)
    PROVE  Continues(p, {pc})
<1>1. proc'[p] = [proc[p] EXCEPT !.doc.status = status, !.pc = pc]
  BY BecomeGives DEF SaveStatus
<1> QED
  BY <1>1, ProcTyped, JobFields DEF Continues

LEMMA CountGoes ==
    ASSUME TypeOK, NEW p \in Procs, NEW resume, StartCount(p, resume)
    PROVE  Continues(p, {"count"})
<1>1. proc'[p] = [proc[p] EXCEPT !.pc = "count", !.doc = Missing, !.was = Unmade,
                              !.seen = Uncounted, !.resume = resume]
  BY BecomeGives DEF StartCount
<1> QED
  BY <1>1, ProcTyped, JobFields DEF Continues

\* Where one working step leads.
Leads(p) ==
    /\ proc[p].pc \in JobSteps /\ Continues(p, JobSteps)
    /\ proc'[p].pc = "progress" => LoadProgress(p)
    /\ proc'[p].pc \in Creating =>
          \/ DeleteRows(p) \/ CreateRow(p) \/ DeleteChecks(p) \/ SelectCandidates(p) \/ SpawnCheck(p)

\* Steps that only move p.
LEMMA GoLeads ==
    ASSUME TypeOK, NEW p \in Procs, NEW pc, Go(p, pc), proc[p].pc \in JobSteps,
           pc \in JobSteps, pc \notin Creating, pc # "progress"
    PROVE  Leads(p)
BY GoGives DEF Leads, Continues

LEMMA ContinuesLeads ==
    ASSUME TypeOK, NEW p \in Procs, NEW pc, Continues(p, {pc}), proc[p].pc \in JobSteps,
           pc \in JobSteps, pc \notin Creating, pc # "progress"
    PROVE  Leads(p)
BY DEF Leads, Continues

LEMMA WorkingLeads == ASSUME TypeOK, NEW p \in Procs, Working(p) PROVE Leads(p)
<1> USE DEF JobSteps, Creating, At
<1>1. CASE LoadFailed(p)
  <2>1. proc'[p] = [proc[p] EXCEPT !.doc = stmt, !.pc = "saveFailed"]
    BY <1>1, BecomeGives DEF LoadFailed
  <2> QED
    BY <1>1, <2>1, ProcTyped, JobFields DEF LoadFailed, Leads, Continues
<1>2. CASE SaveFailed(p)
  BY <1>2, GoLeads DEF SaveFailed
<1>3. CASE FailCheck(p)
  BY <1>3, CountGoes, ContinuesLeads DEF FailCheck
<1>4. CASE LoadStatement(p)
  <2>1. PICK d, pc : /\ proc'[p] = [proc[p] EXCEPT !.doc = d, !.pc = pc]
                     /\ pc \in {"begin", "deleteChecks", "fail", "findCheck", "refresh"}
    BY <1>4, BecomeGives DEF LoadStatement
  <2> QED
    BY <1>4, <2>1, ProcTyped, JobFields DEF LoadStatement, Leads, Continues
<1>5. CASE RefreshMatching(p)
  BY <1>5, GoLeads DEF RefreshMatching
<1>6. CASE BeginExtract(p) \/ FinishExtract(p) \/ BeginStructure(p)
  BY <1>6, StatusGoes, ContinuesLeads DEF BeginExtract, FinishExtract, BeginStructure
<1>7. CASE DeleteRows(p)
  <2>1. proc'[p] = [proc[p] EXCEPT !.left = Candidates, !.pc = "create"]
    BY <1>7, BecomeGives DEF DeleteRows
  <2> QED
    BY <1>7, <2>1, ProcTyped, JobFields DEF DeleteRows, Leads, Continues
<1>8. CASE CreateRow(p)
  <2>1. proc'[p] = [proc[p] EXCEPT !.left = proc[p].left - 1]
    BY <1>8, BecomeGives DEF CreateRow
  <2> QED
    BY <1>8, <2>1, ProcTyped, JobFields DEF CreateRow, Leads, Continues
<1>9. CASE FinishStructure(p) \/ FinishSpawn(p)
  BY <1>9, GoLeads DEF FinishStructure, FinishSpawn
<1>10. CASE DeleteChecks(p)
  BY <1>10, GoGives DEF DeleteChecks, Leads, Continues
<1>11. CASE SelectCandidates(p)
  <2>1. proc'[p] = [proc[p] EXCEPT !.left = rows, !.todo = {}, !.pc = "spawn"]
    BY <1>11, BecomeGives DEF SelectCandidates
  <2> QED
    BY <1>11, <2>1, ProcTyped, JobFields DEF SelectCandidates, Leads, Continues
<1>12. CASE SpawnCheck(p)
  <2>1. proc'[p] = [proc[p] EXCEPT !.left = proc[p].left - 1, !.todo = proc[p].todo \cup {made + 1}]
    BY <1>12, BecomeGives DEF SpawnCheck
  <2> QED
    BY <1>12, <2>1, ProcTyped, JobFields DEF SpawnCheck, Leads, Continues
<1>13. CASE FanOut(p)
  <2>1. CASE proc[p].todo = {}
    BY <1>13, <2>1, GoLeads DEF FanOut
  <2>2. CASE proc[p].todo # {}
    <3> DEFINE c == CHOOSE c \in proc[p].todo : \A d \in proc[p].todo : c <= d
               rest == [proc[p] EXCEPT !.todo = proc[p].todo \ {c}]
    <3>1. \/ proc'[p] = rest
          \/ proc'[p] = [rest EXCEPT !.job = "check", !.check = c, !.nested = TRUE, !.pc = "load"]
      BY <1>13, <2>2, BecomeGives DEF FanOut
    <3>2. rest \in ProcState
      BY ProcTyped, StateForm
    <3>3. rest.pc = proc[p].pc /\ rest.caller = proc[p].caller
      BY ProcTyped, JobFields
    <3> HIDE DEF rest, c
    <3>4. LET y == [rest EXCEPT !.job = "check", !.check = c, !.nested = TRUE, !.pc = "load"]
          IN  y.pc = "load" /\ y.caller = rest.caller
      BY <3>2, JobFields
    <3>5. proc[p].pc = "fanOut"
      BY <1>13 DEF FanOut
    <3> QED
      BY <3>1, <3>3, <3>4, <3>5 DEF Leads, Continues
  <2> QED
    BY <2>1, <2>2
<1>14. CASE FindCheck(p)
  <2>1. CASE Existing(proc[p].check)
    <3>1. proc'[p] = [proc[p] EXCEPT !.was = checks[proc[p].check], !.pc = "mark"]
      BY <1>14, <2>1, BecomeGives DEF FindCheck
    <3> QED
      BY <1>14, <3>1, ProcTyped, JobFields DEF FindCheck, Leads, Continues
  <2>2. CASE ~Existing(proc[p].check)
    BY <1>14, <2>2, GoLeads DEF FindCheck
  <2> QED
    BY <2>1, <2>2
<1>15. CASE MarkProcessing(p) \/ SaveResult(p)
  BY <1>15, GoLeads, CountGoes, ContinuesLeads DEF MarkProcessing, SaveResult
<1>16. CASE CountChecks(p)
  <2>1. PICK seen : proc'[p] = [proc[p] EXCEPT !.seen = seen]
    BY <1>16, BecomeGives DEF CountChecks
  <2> QED
    BY <1>16, <2>1, ProcTyped, JobFields DEF CountChecks, Leads, Continues
<1>17. CASE LoadProgress(p)
  <2>1. proc'[p] = [proc[p] EXCEPT !.doc = stmt, !.pc = "progress"]
    BY <1>17, BecomeGives DEF LoadProgress
  <2> QED
    BY <1>17, <2>1, ProcTyped, JobFields DEF LoadProgress, Leads, Continues
<1>18. CASE SaveProgress(p)
  <2>1. proc'[p] = [proc[p] EXCEPT !.doc = Missing, !.seen = Uncounted, !.pc = proc[p].resume]
    BY <1>18, BecomeGives DEF SaveProgress
  <2>2. proc[p].resume \in {"work", "done", "rethrow"}
    BY ProcTyped, Fields
  <2> QED
    BY <1>18, <2>1, <2>2, ProcTyped, JobFields DEF SaveProgress, Leads, Continues
<1>19. CASE FanOutError(p) \/ ArtifactError(p)
  BY <1>19, GoLeads DEF FanOutError, ArtifactError
<1> QED
  BY <1>1, <1>2, <1>3, <1>4, <1>5, <1>6, <1>7, <1>8, <1>9, <1>10, <1>11, <1>12, <1>13, <1>14,
     <1>15, <1>16, <1>17, <1>18, <1>19 DEF Working

\* A job that returns or throws, a process that dies.
LEMMA EndGoes ==
    ASSUME TypeOK, NEW p \in Procs, Succeed(p) \/ Rethrow(p) \/ Crash(p)
    PROVE  /\ proc[p].pc # "idle"
           /\ \/ proc'[p] = IdleProc
              \/ proc[p].pc \in JobSteps /\ Continues(p, {"load", "fanOut", "fail"})
              \/ proc[p].pc \in JobSteps /\ proc[p].caller # "queue"
                 /\ Continues(p, {"created", "dispatchFailed"})
<1> USE DEF JobSteps, At
<1>1. Returned(p) = IdleProc \/ Returned(p) = [proc[p] EXCEPT !.pc = "created"]
  BY DEF Returned
<1>2. Threw(p) = IdleProc \/ Threw(p) = [proc[p] EXCEPT !.pc = "dispatchFailed"]
  BY DEF Threw
<1>3. LET y == [proc[p] EXCEPT !.pc = "created"] IN y.pc = "created" /\ y.caller = proc[p].caller
  BY FieldsGiven, StepNames
<1>4. LET y == [proc[p] EXCEPT !.pc = "dispatchFailed"] IN
         y.pc = "dispatchFailed" /\ y.caller = proc[p].caller
  BY FieldsGiven, StepNames
<1>5. ASSUME NEW pc, BackToSpawn(p, pc) PROVE Continues(p, {pc})
  <2>1. proc'[p] = [proc[p] EXCEPT !.job = "spawn", !.check = NoCheck, !.nested = FALSE, !.pc = pc]
    BY <1>5, BecomeGives DEF BackToSpawn
  <2> QED
    BY <2>1, ProcTyped, JobFields DEF Continues
<1>6. CASE Succeed(p)
  <2>1. proc[p].pc = "done"
    BY <1>6 DEF Succeed
  <2>2. CASE proc[p].nested
    BY <1>5, <1>6, <2>1, <2>2 DEF Succeed, Continues
  <2>3. CASE ~proc[p].nested /\ proc[p].caller = "queue"
    BY <1>6, <2>1, <2>3, BecomeGives DEF Succeed
  <2>4. CASE ~proc[p].nested /\ proc[p].caller # "queue"
    <3>1. \/ proc'[p] = [proc[p] EXCEPT !.job = NextJob[proc[p].job], !.pc = "load"]
          \/ proc'[p] = Returned(p)
      BY <1>6, <2>4, BecomeGives DEF Succeed
    <3>2. LET y == [proc[p] EXCEPT !.job = NextJob[proc[p].job], !.pc = "load"]
          IN  y.pc = "load" /\ y.caller = proc[p].caller
      BY ProcTyped, JobFields
    <3> QED
      BY <1>1, <1>3, <2>1, <2>4, <3>1, <3>2 DEF Continues
  <2> QED
    BY <2>2, <2>3, <2>4
<1>7. CASE Rethrow(p)
  <2>1. proc[p].pc = "rethrow"
    BY <1>7 DEF Rethrow
  <2>2. CASE proc[p].nested
    BY <1>5, <1>7, <2>1, <2>2 DEF Rethrow, Continues
  <2>3. CASE ~proc[p].nested /\ proc[p].caller = "queue"
    BY <1>7, <2>1, <2>3, BecomeGives DEF Rethrow
  <2>4. CASE ~proc[p].nested /\ proc[p].caller # "queue"
    <3>1. proc'[p] = Threw(p)
      BY <1>7, <2>4, BecomeGives DEF Rethrow
    <3> QED
      BY <1>2, <1>4, <2>1, <2>4, <3>1 DEF Continues
  <2> QED
    BY <2>2, <2>3, <2>4
<1>8. CASE Crash(p)
  BY <1>8, BecomeGives DEF Crash
<1> QED
  BY <1>6, <1>7, <1>8

\* A request and a task that arrive.
LEMMA RequestGoes ==
    ASSUME TypeOK, NEW p \in Procs, NEW h, Serves(p, h), NEW state \in ProcState, NEW pc,
           Request(p, h, state, pc), pc \in {"enqueue", "reset", "requeue"}
    PROVE  /\ p \in Requests /\ At(p, "idle") /\ proc'[p].pc \in HandlerSteps
           /\ proc'[p].caller \in Handlers
<1>1. proc'[p] = [state EXCEPT !.caller = h, !.pc = pc]
  BY BecomeGives DEF Request
<1>2. proc'[p].pc = pc /\ proc'[p].caller = h
  BY <1>1, StateForm
<1> QED
  BY <1>2 DEF Serves, HandlerSteps

LEMMA ArriveGoes ==
    ASSUME TypeOK, NEW p \in Procs, Arrive(p)
    PROVE  /\ p \in Requests /\ At(p, "idle") /\ proc'[p].pc \in HandlerSteps
           /\ proc'[p].caller \in Handlers
<1>1. ASSUME NEW d \in StatementDoc PROVE [IdleProc EXCEPT !.doc = d] \in ProcState
  BY IdleTyped, StateForm
<1>2. ASSUME NEW d \in StatementDoc, NEW job \in Job
      PROVE [IdleProc EXCEPT !.doc = d, !.job = job] \in ProcState
  <2> HIDE DEF StatementDoc, Job
  <2> QED
    BY IdleTyped, StateForm
<1>3. ASSUME NEW c \in CheckIds
      PROVE [IdleProc EXCEPT !.job = "check", !.check = c, !.was = checks[c]] \in ProcState
  <2>1. "check" \in Job /\ checks[c] \in Check /\ c \in CheckIds \cup {NoCheck}
    BY ProcTyped DEF Job
  <2> HIDE DEF Job, Check
  <2> QED
    BY <2>1, IdleTyped, StateForm
<1>4. CASE CreateStatement(p)
  <2> DEFINE state == [IdleProc EXCEPT !.doc = Uploaded]
  <2>1. state \in ProcState /\ Serves(p, "create") /\ Request(p, "create", state, "enqueue")
    BY <1>1, <1>4, DocsTyped DEF CreateStatement
  <2> HIDE DEF state
  <2> QED
    BY <2>1, RequestGoes
<1>5. CASE \E job \in Job : ReprocessStatement(p, job)
  <2>1. PICK job \in Job : ReprocessStatement(p, job)
    BY <1>5
  <2> DEFINE state == [IdleProc EXCEPT !.doc = stmt, !.job = job]
  <2>2. state \in ProcState /\ Serves(p, "reprocess") /\ Request(p, "reprocess", state, "reset")
    BY <1>2, <2>1, ProcTyped DEF ReprocessStatement
  <2> HIDE DEF state
  <2> QED
    BY <2>2, RequestGoes
<1>6. CASE \E c \in CheckIds : RetryStatementCheck(p, c)
  <2>1. PICK c \in CheckIds : RetryStatementCheck(p, c)
    BY <1>6
  <2> DEFINE state == [IdleProc EXCEPT !.job = "check", !.check = c, !.was = checks[c]]
  <2>2. state \in ProcState /\ Serves(p, "retry") /\ Request(p, "retry", state, "requeue")
    BY <1>3, <2>1 DEF RetryStatementCheck
  <2> HIDE DEF state
  <2> QED
    BY <2>2, RequestGoes
<1> QED
  BY <1>4, <1>5, <1>6 DEF Arrive

LEMMA DeliverGoes ==
    ASSUME TypeOK, NEW p \in Procs, NEW task \in Task, Deliver(p, task)
    PROVE  p \in Workers /\ proc'[p].pc = "load" /\ proc'[p].caller = "queue"
           /\ queued[task] > 0
<1>1. proc'[p] = [IdleProc EXCEPT !.job = task.job, !.check = task.check, !.pc = "load"]
  BY BecomeGives DEF Deliver
<1> QED
  BY <1>1 DEF Deliver, IdleProc

\* What a step is: every action is one of these.
LEMMA StepKinds ==
    ASSUME NEW p \in Procs, Arrive(p) \/ Proceed(p) \/ Fault(p)
    PROVE  \/ Arrive(p)
           \/ \/ ResetStatement(p) \/ ClearChecks(p) \/ RequeueCheck(p) \/ Enqueue(p)
              \/ EnqueueError(p) \/ SaveExtracting(p) \/ SaveDispatchFailed(p)
           \/ \E task \in Task : Deliver(p, task)
           \/ Succeed(p) \/ Rethrow(p) \/ Crash(p)
           \/ Working(p)
BY Zenon DEF Proceed, Fault, Working

\* Only LoadProgress leads to a save of the progress.
LEMMA SeenKept ==
    ASSUME TypeOK, SeenAll, NEW p \in Procs, Arrive(p) \/ Proceed(p) \/ Fault(p)
    PROVE  SeenAll'
<1>1. proc'[p].pc = "progress" => LoadProgress(p)
  BY StepKinds, ArriveGoes, HandlerGoes, DeliverGoes, EndGoes, WorkingLeads
     DEF Leads, Continues, HandlerSteps, IdleProc
<1>2. LoadProgress(p) => DOMAIN proc'[p].seen = Counted
  <2> SUFFICES ASSUME LoadProgress(p) PROVE DOMAIN proc'[p].seen = Counted
    OBVIOUS
  <2>1. proc'[p] = [proc[p] EXCEPT !.doc = stmt, !.pc = "progress"] /\ DOMAIN proc[p].seen = Counted
    BY BecomeGives DEF LoadProgress
  <2> QED
    BY <2>1, ProcTyped, StateForm
<1>3. Alone(p)
  BY StepAlone
<1>4. ASSUME NEW q \in Procs, proc'[q].pc = "progress" PROVE DOMAIN proc'[q].seen = Counted
  BY <1>1, <1>2, <1>3, <1>4 DEF SeenAll, Alone, At
<1> QED
  BY <1>4 DEF SeenAll, At
-----------------------------------------------------------------------------

\* Type correctness of StatementPipeline: whatever the mode, the faults and the
\* interleaving of deliveries and requests, statements, checks, tasks and jobs keep
\* the shape the schemas give them, and a recount saves only counts it has.
THEOREM StatementTypes == Spec => []TypeOK
<1>1. Init => TypeOK /\ SeenAll
  BY InitTyped
<1>2. TypeOK /\ SeenAll /\ [Next]_vars => TypeOK' /\ SeenAll'
  <2>1. CASE UNCHANGED vars
    BY <2>1 DEF vars, TypeOK, SeenAll, At
  <2>2. CASE Next
    BY <2>2, ProceedTyped, SeenKept DEF Next
  <2> QED
    BY <2>1, <2>2
<1> QED
  BY <1>1, <1>2, PTL DEF Spec
-----------------------------------------------------------------------------
(* One delivery and one request at a time. *)

OneAtATime == (\A p, q \in Workers : p = q) /\ (\A p, q \in Requests : p = q)

\* Jobs run in workers when they come from the queue, in handlers when not.
Homes ==
    /\ mode # "tasks" => /\ \A task \in Task : queued[task] = 0
                         /\ \A p \in Workers : At(p, "idle")
    /\ \A p \in Requests :
          /\ ~At(p, "idle") => proc[p].caller # "queue"
          /\ mode = "tasks" => proc[p].pc \notin JobSteps
    /\ \A p \in Workers : proc[p].caller = "queue" /\ proc[p].pc \notin HandlerSteps

LEMMA HomesInit == Init => Homes
BY DEF Init, Homes, At, IdleProc, JobSteps, HandlerSteps, Procs

\* A job is run by one process only.
LEMMA OneRuns ==
    ASSUME OneAtATime, Homes, NEW p \in Procs, NEW q \in Procs,
           proc[p].pc \in JobSteps, proc[q].pc \in JobSteps
    PROVE  p = q
BY DEF OneAtATime, Homes, Procs, At, JobSteps

\* The queue is filled by Cloud Tasks only.
LEMMA QueueKept ==
    ASSUME TypeOK, Homes, NEW p \in Procs, Arrive(p) \/ Proceed(p) \/ Fault(p), mode # "tasks"
    PROVE  mode' = mode /\ UNCHANGED queued
<1>1. CASE Arrive(p)
  BY <1>1 DEF Arrive, CreateStatement, ReprocessStatement, RetryStatementCheck, RequestOnly
<1>2. CASE ResetStatement(p) \/ ClearChecks(p) \/ RequeueCheck(p) \/ Enqueue(p)
           \/ EnqueueError(p) \/ SaveExtracting(p) \/ SaveDispatchFailed(p)
  BY <1>2 DEF ResetStatement, ClearChecks, RequeueCheck, Enqueue, EnqueueError, SaveExtracting,
              SaveDispatchFailed, StatementOnly, ChecksOnly, QueueOnly, ProcOnly
<1>3. CASE \E task \in Task : Deliver(p, task)
  BY <1>3, ProcTyped DEF Homes, Deliver
<1>4. CASE Succeed(p) \/ Rethrow(p) \/ Crash(p)
  <2>1. ~At(p, "idle")
    BY <1>4, EndGoes DEF At
  <2>2. proc[p].caller # "queue"
    BY <2>1 DEF Homes, Procs
  <2> QED
    BY <1>4, <2>2 DEF Succeed, Rethrow, Crash, QueueOnly
<1>5. CASE Working(p)
  BY <1>5, Zenon DEF Working, LoadFailed, SaveFailed, FailCheck, LoadStatement, RefreshMatching,
     BeginExtract, FinishExtract, BeginStructure, DeleteRows, CreateRow, FinishStructure, DeleteChecks,
     SelectCandidates, SpawnCheck, FinishSpawn, FanOut, FindCheck, MarkProcessing, SaveResult,
     CountChecks, LoadProgress, SaveProgress, FanOutError, ArtifactError,
     StatementOnly, ChecksOnly, ProcOnly, QueueOnly
<1> QED
  BY <1>1, <1>2, <1>3, <1>4, <1>5, StepKinds

LEMMA ModeKept ==
    ASSUME NEW p \in Procs, Arrive(p) \/ Proceed(p) \/ Fault(p) PROVE mode' = mode
BY Zenon DEF Arrive, CreateStatement, ReprocessStatement, RetryStatementCheck, RequestOnly, Proceed,
   Fault, ResetStatement, ClearChecks, RequeueCheck, Enqueue, EnqueueError, SaveExtracting,
   SaveDispatchFailed, Deliver, Succeed, Rethrow, Crash, LoadFailed, SaveFailed, FailCheck,
   LoadStatement, RefreshMatching, BeginExtract, FinishExtract, BeginStructure, DeleteRows, CreateRow,
   FinishStructure, DeleteChecks, SelectCandidates, SpawnCheck, FinishSpawn, FanOut, FindCheck,
   MarkProcessing, SaveResult, CountChecks, LoadProgress, SaveProgress, FanOutError, ArtifactError,
   StatementOnly, ChecksOnly, ProcOnly, QueueOnly

LEMMA HomesKept ==
    ASSUME TypeOK, Homes, NEW p \in Procs, Arrive(p) \/ Proceed(p) \/ Fault(p) PROVE Homes'
<1> DEFINE P(q, pc, caller) ==
             /\ mode # "tasks" /\ q \in Workers => pc = "idle"
             /\ q \in Requests => /\ pc # "idle" => caller # "queue"
                                  /\ mode = "tasks" => pc \notin JobSteps
             /\ q \in Workers => caller = "queue" /\ pc \notin HandlerSteps
<1>1. mode' = mode /\ Alone(p) /\ (mode # "tasks" => UNCHANGED queued)
  BY ModeKept, StepAlone, QueueKept
<1>2. ASSUME NEW q \in Procs PROVE P(q, proc[q].pc, proc[q].caller)
  BY <1>2 DEF Homes, At, Procs
<1>3. Workers \cap Requests = {} /\ Handlers \subseteq AllHandlers /\ "queue" \notin Handlers
  BY PipelineAssumption DEF AllHandlers
<1>4. P(p, proc'[p].pc, proc'[p].caller)
  <2>1. CASE proc'[p] = IdleProc
    BY <2>1, <1>3 DEF IdleProc, HandlerSteps, JobSteps
  <2>2. CASE Arrive(p)
    BY <2>2, <1>3, ArriveGoes DEF HandlerSteps, JobSteps
  <2>3. CASE /\ proc[p].pc \in HandlerSteps
             /\ Continues(p, HandlerSteps) \/ (mode # "tasks" /\ Continues(p, {"load"}))
    BY <2>3, <1>2, <1>3 DEF Continues, Procs, HandlerSteps, JobSteps
  <2>4. CASE \E task \in Task : Deliver(p, task)
    BY <2>4, <1>3, DeliverGoes DEF Homes, HandlerSteps, JobSteps
  <2>5. CASE \/ proc[p].pc \in JobSteps /\ Continues(p, {"load", "fanOut", "fail"})
             \/ proc[p].pc \in JobSteps /\ proc[p].caller # "queue"
                /\ Continues(p, {"created", "dispatchFailed"})
    BY <2>5, <1>2 DEF Continues, HandlerSteps, JobSteps
  <2>6. CASE Working(p)
    BY <2>6, <1>2, WorkingLeads DEF Leads, Continues, HandlerSteps, JobSteps
  <2> HIDE DEF P
  <2>7. CASE \/ ResetStatement(p) \/ ClearChecks(p) \/ RequeueCheck(p) \/ Enqueue(p)
             \/ EnqueueError(p) \/ SaveExtracting(p) \/ SaveDispatchFailed(p)
    <3>1. /\ proc[p].pc \in HandlerSteps
          /\ \/ Continues(p, HandlerSteps) \/ proc'[p] = IdleProc
             \/ mode # "tasks" /\ Continues(p, {"load"})
      BY <2>7, HandlerGoes, Zenon
    <3> QED
      BY <2>1, <2>3, <3>1
  <2>8. CASE Succeed(p) \/ Rethrow(p) \/ Crash(p)
    BY <2>1, <2>5, <2>8, EndGoes
  <2> QED
    BY <2>2, <2>4, <2>6, <2>7, <2>8, StepKinds
<1>5. ASSUME NEW q \in Procs PROVE P(q, proc'[q].pc, proc'[q].caller)
  BY <1>1, <1>2, <1>4 DEF Alone
<1> QED
  BY <1>1, <1>5 DEF Homes, At, Procs
-----------------------------------------------------------------------------
(* One row and one check for each candidate. *)

Present == {c \in CheckIds : checks[c].status # "none"}

\* What a job has made and has still to make fits the candidates.
Room ==
    /\ rows <= Candidates /\ Cardinality(Present) <= Candidates
    /\ \A p \in Procs :
          /\ At(p, "create") => rows + proc[p].left <= Candidates
          /\ At(p, "select") => Present = {}
          /\ At(p, "spawn") => Cardinality(Present) + proc[p].left <= Candidates

LEMMA PresentCounted == Present \subseteq CheckIds /\ CountOf("total") = Cardinality(Present)
BY DEF Present, CountOf

LEMMA NonePresent == ASSUME \A c \in CheckIds : checks[c] = Unmade PROVE Present = {}
BY DEF Present, Unmade

LEMMA FewerPresent ==
    ASSUME Present' \subseteq Present
    PROVE  Cardinality(Present') <= Cardinality(Present) /\ Cardinality(Present') \in Nat
<1>1. IsFiniteSet(Present)
  BY PresentCounted, ChecksFinite
<1>2. IsFiniteSet(Present') /\ Cardinality(Present') <= Cardinality(Present)
  BY <1>1, FS_Subset
<1> QED
  BY <1>2, FS_CardinalityType

\* Steps that create nothing.
Creates(p) == \/ DeleteRows(p) \/ CreateRow(p) \/ DeleteChecks(p) \/ SelectCandidates(p)
              \/ SpawnCheck(p)

LEMMA RowsKept ==
    ASSUME NEW p \in Procs, Arrive(p) \/ Proceed(p) \/ Fault(p), ~Creates(p) PROVE rows' = rows
BY Zenon DEF Creates, Arrive, CreateStatement, ReprocessStatement, RetryStatementCheck, RequestOnly,
   Proceed,
   Fault, ResetStatement, ClearChecks, RequeueCheck, Enqueue, EnqueueError, SaveExtracting,
   SaveDispatchFailed, Deliver, Succeed, Rethrow, Crash, LoadFailed, SaveFailed, FailCheck,
   LoadStatement, RefreshMatching, BeginExtract, FinishExtract, BeginStructure,
   FinishStructure, FinishSpawn, FanOut, FindCheck,
   MarkProcessing, SaveResult, CountChecks, LoadProgress, SaveProgress, FanOutError, ArtifactError,
   StatementOnly, ChecksOnly, ProcOnly, QueueOnly

LEMMA ChecksKept ==
    ASSUME TypeOK, NEW p \in Procs, Arrive(p) \/ Proceed(p) \/ Fault(p), ~Creates(p)
    PROVE  Present' \subseteq Present
<1>1. CASE ClearChecks(p)
  BY <1>1 DEF ClearChecks, Present, Unmade
<1>2. CASE RequeueCheck(p)
  BY <1>2, ProcTyped DEF RequeueCheck, Existing, Present
<1>3. CASE FailCheck(p)
  BY <1>3, ProcTyped DEF FailCheck, Existing, Present
<1>4. CASE MarkProcessing(p)
  BY <1>4, ProcTyped DEF MarkProcessing, Existing, Present
<1>5. CASE SaveResult(p)
  BY <1>5, ProcTyped DEF SaveResult, Existing, Present
<1>6. CASE /\ ~ClearChecks(p) /\ ~RequeueCheck(p) /\ ~FailCheck(p) /\ ~MarkProcessing(p)
           /\ ~SaveResult(p)
  <2>1. checks' = checks
    BY <1>6, Zenon DEF Creates, Arrive, CreateStatement, ReprocessStatement, RetryStatementCheck,
       RequestOnly, Proceed, Fault, ResetStatement, Enqueue, EnqueueError,
       SaveExtracting, SaveDispatchFailed, Deliver, Succeed, Rethrow, Crash, LoadFailed, SaveFailed,
       LoadStatement, RefreshMatching, BeginExtract, FinishExtract, BeginStructure,
       FinishStructure, FinishSpawn, FanOut, FindCheck, CountChecks, LoadProgress, SaveProgress,
       FanOutError, ArtifactError, StatementOnly, ChecksOnly, ProcOnly, QueueOnly
  <2> QED
    BY <2>1 DEF Present
<1> QED
  BY <1>1, <1>2, <1>3, <1>4, <1>5, <1>6

LEMMA RoomInit == Init => Room
<1> SUFFICES ASSUME Init PROVE Room
  OBVIOUS
<1>1. Present = {}
  BY NonePresent DEF Init
<1>2. Cardinality({}) = 0
  BY FS_EmptySet
<1>3. \A p \in Procs : At(p, "idle")
  BY DEF Init, At, IdleProc
<1>4. Candidates \in Nat
  BY PipelineAssumption
<1> QED
  BY <1>1, <1>2, <1>3, <1>4 DEF Room, At, Init

\* What a creating step changes; nobody else is at a creating step.
LEMMA CreateRoom ==
    ASSUME TypeOK, Room, NEW p \in Procs, Creates(p), Alone(p),
           \A q \in Procs : q # p => proc[q].pc \notin Creating
    PROVE  Room'
<1>1. /\ rows \in Nat /\ Candidates \in Nat /\ MaxChecks \in Nat /\ proc[p].left \in Nat
      /\ proc[p] \in ProcState
  BY ProcTyped, Fields, PipelineAssumption
<1>2. Cardinality(Present) \in Nat /\ IsFiniteSet(Present)
  BY <1>1, PresentCounted, ChecksFinite
<1>3. rows <= Candidates /\ Cardinality(Present) <= Candidates
  BY DEF Room
<1>4. ASSUME rows' <= Candidates, Cardinality(Present') <= Candidates,
             At(p, "create")' => rows' + proc'[p].left <= Candidates,
             At(p, "select")' => Present' = {},
             At(p, "spawn")' => Cardinality(Present') + proc'[p].left <= Candidates
      PROVE  Room'
  BY <1>4 DEF Room, At, Alone, Creating
<1>5. CASE DeleteRows(p)
  <2>1. proc'[p] = [proc[p] EXCEPT !.left = Candidates, !.pc = "create"]
    BY <1>5, BecomeGives DEF DeleteRows
  <2>2. proc'[p].pc = "create" /\ proc'[p].left = Candidates
    BY <1>1, <2>1, StateForm
  <2>3. rows' = 0 /\ Present' = Present
    BY <1>5 DEF DeleteRows, Present
  <2> QED
    BY <1>1, <1>3, <1>4, <2>2, <2>3 DEF At
<1>6. CASE CreateRow(p)
  <2>1. proc'[p] = [proc[p] EXCEPT !.left = proc[p].left - 1]
    BY <1>6, BecomeGives DEF CreateRow
  <2>2. proc'[p].pc = "create" /\ proc'[p].left = proc[p].left - 1
    BY <1>1, <1>6, <2>1, StateForm DEF CreateRow, At
  <2>3. rows' = rows + 1 /\ Present' = Present /\ proc[p].left > 0
    BY <1>6 DEF CreateRow, Present
  <2>4. rows + proc[p].left <= Candidates
    BY <1>6 DEF Room, CreateRow
  <2> QED
    BY <1>1, <1>3, <1>4, <2>2, <2>3, <2>4 DEF At
<1>7. CASE DeleteChecks(p)
  <2>1. Continues(p, {"select"})
    BY <1>7, GoGives DEF DeleteChecks
  <2>2. rows' = rows /\ Present' = {}
    BY <1>7 DEF DeleteChecks, ChecksOnly, Present, Unmade
  <2>3. Cardinality({}) = 0
    BY FS_EmptySet
  <2> QED
    BY <1>1, <1>3, <1>4, <2>1, <2>2, <2>3 DEF At, Continues
<1>8. CASE SelectCandidates(p)
  <2>1. proc'[p] = [proc[p] EXCEPT !.left = rows, !.todo = {}, !.pc = "spawn"]
    BY <1>8, BecomeGives DEF SelectCandidates
  <2>2. proc'[p].pc = "spawn" /\ proc'[p].left = rows
    BY <1>1, <2>1, StateForm
  <2>3. rows' = rows /\ Present' = Present /\ Present = {}
    BY <1>8 DEF SelectCandidates, ProcOnly, StatementOnly, Present, Room
  <2>4. Cardinality({}) = 0
    BY FS_EmptySet
  <2> QED
    BY <1>1, <1>3, <1>4, <2>2, <2>3, <2>4 DEF At
<1>9. CASE SpawnCheck(p)
  <2>1. proc'[p] = [proc[p] EXCEPT !.left = proc[p].left - 1, !.todo = proc[p].todo \cup {made + 1}]
    BY <1>9, BecomeGives DEF SpawnCheck
  <2>2. proc'[p].pc = "spawn" /\ proc'[p].left = proc[p].left - 1
    BY <1>1, <1>9, <2>1, StateForm DEF SpawnCheck, At
  <2>3. rows' = rows /\ proc[p].left > 0
    BY <1>9 DEF SpawnCheck
  <2>4. Cardinality(Present) + proc[p].left <= Candidates
    BY <1>9 DEF Room, SpawnCheck
  <2>5. Cardinality(Present') \in Nat /\ Cardinality(Present') <= Cardinality(Present) + 1
    <3> DEFINE More == Present \cup {made + 1}
    <3>1. IsFiniteSet(More) /\ Cardinality(More) <= Cardinality(Present) + 1
      <4>1. /\ IsFiniteSet(More)
            /\ \/ Cardinality(More) = Cardinality(Present)
               \/ Cardinality(More) = Cardinality(Present) + 1
        BY <1>2, FS_AddElement
      <4> HIDE DEF More
      <4> QED
        BY <1>2, <4>1
    <3>2. Present' \subseteq More
      BY <1>9, ProcTyped DEF SpawnCheck, Present
    <3> HIDE DEF More
    <3>3. IsFiniteSet(Present') /\ Cardinality(Present') <= Cardinality(More)
      BY <3>1, <3>2, FS_Subset
    <3>4. Cardinality(Present') \in Nat /\ Cardinality(More) \in Nat
      BY <3>1, <3>3, FS_CardinalityType
    <3> QED
      BY <1>2, <3>1, <3>3, <3>4
  <2> QED
    BY <1>1, <1>2, <1>3, <1>4, <2>2, <2>3, <2>4, <2>5 DEF At
<1> QED
  BY <1>5, <1>6, <1>7, <1>8, <1>9 DEF Creates

LEMMA RoomKept ==
    ASSUME OneAtATime, TypeOK, Homes, Room, NEW p \in Procs, Arrive(p) \/ Proceed(p) \/ Fault(p)
    PROVE  Room'
<1>1. Alone(p)
  BY StepAlone
<1>2. CASE Creates(p)
  <2>1. proc[p].pc \in JobSteps
    BY <1>2 DEF Creates, DeleteRows, CreateRow, DeleteChecks, SelectCandidates, SpawnCheck, At,
       JobSteps
  <2>2. \A q \in Procs : q # p => proc[q].pc \notin Creating
    BY <2>1, OneRuns DEF Creating, JobSteps
  <2> QED
    BY <1>1, <1>2, <2>2, CreateRoom
<1>3. CASE ~Creates(p)
  <2>1. rows' = rows /\ Present' \subseteq Present
    BY <1>3, RowsKept, ChecksKept
  <2>2. Cardinality(Present') <= Cardinality(Present) /\ Cardinality(Present') \in Nat
    BY <2>1, FewerPresent
  <2>3. Cardinality(Present) \in Nat /\ Candidates \in Nat
    BY PresentCounted, ChecksFinite, PipelineAssumption
  <2>4. proc'[p].pc \notin Creating
    <3> USE DEF Creating
    <3>1. CASE Arrive(p)
      BY <3>1, ArriveGoes DEF HandlerSteps
    <3>2. CASE \/ ResetStatement(p) \/ ClearChecks(p) \/ RequeueCheck(p) \/ Enqueue(p)
               \/ EnqueueError(p) \/ SaveExtracting(p) \/ SaveDispatchFailed(p)
      BY <3>2, HandlerGoes DEF Continues, HandlerSteps, IdleProc
    <3>3. CASE \E task \in Task : Deliver(p, task)
      BY <3>3, DeliverGoes
    <3>4. CASE Succeed(p) \/ Rethrow(p) \/ Crash(p)
      BY <3>4, EndGoes DEF Continues, IdleProc
    <3>5. CASE Working(p)
      BY <1>3, <3>5, WorkingLeads DEF Leads, Creates
    <3> QED
      BY <3>1, <3>2, <3>3, <3>4, <3>5, StepKinds
  <2>5. ASSUME NEW q \in Procs
        PROVE  /\ proc'[q].pc = "create" => rows' + proc'[q].left <= Candidates
               /\ proc'[q].pc = "select" => Present' = {}
               /\ proc'[q].pc = "spawn" => Cardinality(Present') + proc'[q].left <= Candidates
    <3>1. CASE q = p
      BY <2>4, <3>1 DEF Creating
    <3>2. CASE q # p
      <4>1. proc'[q] = proc[q] /\ proc[q].left \in Nat
        BY <1>1, <3>2, ProcTyped, Fields DEF Alone
      <4>2. /\ proc[q].pc = "create" => rows + proc[q].left <= Candidates
            /\ proc[q].pc = "select" => Present = {}
            /\ proc[q].pc = "spawn" => Cardinality(Present) + proc[q].left <= Candidates
        BY DEF Room, At
      <4> QED
        BY <2>1, <2>2, <2>3, <4>1, <4>2
    <3> QED
      BY <3>1, <3>2
  <2>6. rows' <= Candidates /\ Cardinality(Present') <= Candidates
    BY <2>1, <2>2, <2>3 DEF Room
  <2> QED
    BY <2>5, <2>6 DEF Room, At
<1> QED
  BY <1>2, <1>3

\* Deliveries and requests one at a time, each job's reruns replace what its earlier
\* runs left: however often statement.structure and checks.spawn run, fail, crash and
\* are delivered again, there is at most one row and one check for each candidate.
THEOREM StatementNoDuplicates == OneAtATime => (Spec => []NoDuplicates)
<1> SUFFICES ASSUME OneAtATime PROVE Spec => []NoDuplicates
  OBVIOUS
<1> DEFINE Inv == TypeOK /\ SeenAll /\ Homes /\ Room
<1>1. Init => Inv
  BY InitTyped, HomesInit, RoomInit
<1>2. Inv /\ [Next]_vars => Inv'
  <2>1. CASE UNCHANGED vars
    BY <2>1 DEF vars, TypeOK, SeenAll, Homes, Room, At, Present
  <2>2. CASE Next
    BY <2>2, ProceedTyped, SeenKept, HomesKept, RoomKept DEF Next
  <2> QED
    BY <2>1, <2>2
<1>3. Inv => NoDuplicates
  BY PresentCounted DEF Room, NoDuplicates
<1> QED
  BY <1>1, <1>2, <1>3, PTL DEF Spec
-----------------------------------------------------------------------------
(* Where each action acts. *)

LEMMA Guards ==
    ASSUME NEW p
    PROVE  /\ Arrive(p) => At(p, "idle")
           /\ (\E task \in Task : Deliver(p, task)) => At(p, "idle")
           /\ ResetStatement(p) => At(p, "reset")
           /\ ClearChecks(p) => At(p, "clear")
           /\ RequeueCheck(p) => At(p, "requeue")
           /\ Enqueue(p) \/ EnqueueError(p) => At(p, "enqueue")
           /\ SaveExtracting(p) => At(p, "created")
           /\ SaveDispatchFailed(p) => At(p, "dispatchFailed")
           /\ Succeed(p) => At(p, "done")
           /\ Rethrow(p) => At(p, "rethrow")
           /\ LoadFailed(p) => At(p, "fail")
           /\ SaveFailed(p) => At(p, "saveFailed")
           /\ FailCheck(p) => At(p, "failCheck")
           /\ LoadStatement(p) => At(p, "load")
           /\ RefreshMatching(p) => At(p, "refresh")
           /\ BeginExtract(p) \/ BeginStructure(p) => At(p, "begin")
           /\ FinishExtract(p) => At(p, "extracted")
           /\ DeleteRows(p) => At(p, "artifacts")
           /\ CreateRow(p) \/ FinishStructure(p) => At(p, "create")
           /\ DeleteChecks(p) => At(p, "deleteChecks")
           /\ SelectCandidates(p) => At(p, "select")
           /\ SpawnCheck(p) \/ FinishSpawn(p) => At(p, "spawn")
           /\ FanOut(p) \/ FanOutError(p) => At(p, "fanOut")
           /\ FindCheck(p) => At(p, "findCheck")
           /\ MarkProcessing(p) => At(p, "mark")
           /\ SaveResult(p) => At(p, "work")
           /\ CountChecks(p) \/ LoadProgress(p) => At(p, "count")
           /\ SaveProgress(p) => At(p, "progress")
           /\ ArtifactError(p) => proc[p].pc \in {"artifacts", "extracted", "work", "spawn"}
<1>1. /\ Arrive(p) => At(p, "idle")
      /\ (\E task \in Task : Deliver(p, task)) => At(p, "idle")
  BY DEF Arrive, CreateStatement, ReprocessStatement, RetryStatementCheck, Serves, Deliver
<1>2. /\ ResetStatement(p) => At(p, "reset")
      /\ ClearChecks(p) => At(p, "clear")
      /\ RequeueCheck(p) => At(p, "requeue")
      /\ Enqueue(p) \/ EnqueueError(p) => At(p, "enqueue")
      /\ SaveExtracting(p) => At(p, "created")
      /\ SaveDispatchFailed(p) => At(p, "dispatchFailed")
  BY Zenon DEF ResetStatement, ClearChecks, RequeueCheck, Enqueue, EnqueueError, SaveExtracting,
     SaveDispatchFailed
<1>3. /\ Succeed(p) => At(p, "done")
      /\ Rethrow(p) => At(p, "rethrow")
      /\ LoadFailed(p) => At(p, "fail")
      /\ SaveFailed(p) => At(p, "saveFailed")
      /\ FailCheck(p) => At(p, "failCheck")
      /\ LoadStatement(p) => At(p, "load")
      /\ RefreshMatching(p) => At(p, "refresh")
  BY Zenon DEF Succeed, Rethrow, LoadFailed, SaveFailed, FailCheck, LoadStatement, RefreshMatching
<1>4. /\ BeginExtract(p) \/ BeginStructure(p) => At(p, "begin")
      /\ FinishExtract(p) => At(p, "extracted")
      /\ DeleteRows(p) => At(p, "artifacts")
      /\ CreateRow(p) \/ FinishStructure(p) => At(p, "create")
      /\ DeleteChecks(p) => At(p, "deleteChecks")
      /\ SelectCandidates(p) => At(p, "select")
      /\ SpawnCheck(p) \/ FinishSpawn(p) => At(p, "spawn")
      /\ FanOut(p) \/ FanOutError(p) => At(p, "fanOut")
  BY Zenon DEF BeginExtract, BeginStructure, FinishExtract, DeleteRows, CreateRow, FinishStructure,
     DeleteChecks, SelectCandidates, SpawnCheck, FinishSpawn, FanOut, FanOutError
<1>5. /\ FindCheck(p) => At(p, "findCheck")
      /\ MarkProcessing(p) => At(p, "mark")
      /\ SaveResult(p) => At(p, "work")
      /\ CountChecks(p) \/ LoadProgress(p) => At(p, "count")
      /\ SaveProgress(p) => At(p, "progress")
  BY Zenon DEF FindCheck, MarkProcessing, SaveResult, CountChecks, LoadProgress, SaveProgress
<1>6. ArtifactError(p) => proc[p].pc \in {"artifacts", "extracted", "work", "spawn"}
  BY DEF ArtifactError, At
<1> QED
  BY <1>1, <1>2, <1>3, <1>4, <1>5, <1>6

\* What p can do where it is, unless it dies.
LEMMA StepsAt ==
    ASSUME NEW p, Arrive(p) \/ Proceed(p) \/ Fault(p), ~Crash(p)
    PROVE  /\ At(p, "enqueue") => Enqueue(p) \/ EnqueueError(p)
           /\ At(p, "clear") => ClearChecks(p)
           /\ At(p, "load") => LoadStatement(p)
           /\ At(p, "findCheck") => FindCheck(p)
           /\ At(p, "mark") => MarkProcessing(p)
           /\ At(p, "work") => SaveResult(p) \/ ArtifactError(p)
           /\ At(p, "count") => CountChecks(p) \/ LoadProgress(p)
           /\ At(p, "progress") => SaveProgress(p)
           /\ At(p, "fail") => LoadFailed(p)
           /\ At(p, "saveFailed") => SaveFailed(p)
           /\ At(p, "failCheck") => FailCheck(p)
           /\ At(p, "spawn") => SpawnCheck(p) \/ FinishSpawn(p) \/ ArtifactError(p)
           /\ At(p, "fanOut") => FanOut(p) \/ FanOutError(p)
           /\ At(p, "done") => Succeed(p)
           /\ At(p, "rethrow") => Rethrow(p)
<1>1. \/ Arrive(p) \/ ResetStatement(p) \/ ClearChecks(p) \/ RequeueCheck(p) \/ Enqueue(p)
      \/ EnqueueError(p) \/ SaveExtracting(p) \/ SaveDispatchFailed(p)
      \/ (\E task \in Task : Deliver(p, task))
      \/ Succeed(p) \/ Rethrow(p) \/ LoadFailed(p) \/ SaveFailed(p) \/ FailCheck(p)
      \/ LoadStatement(p) \/ RefreshMatching(p) \/ BeginExtract(p) \/ FinishExtract(p)
      \/ BeginStructure(p) \/ DeleteRows(p) \/ CreateRow(p) \/ FinishStructure(p)
      \/ DeleteChecks(p) \/ SelectCandidates(p) \/ SpawnCheck(p) \/ FinishSpawn(p)
      \/ FanOut(p) \/ FindCheck(p) \/ MarkProcessing(p) \/ SaveResult(p)
      \/ CountChecks(p) \/ LoadProgress(p) \/ SaveProgress(p) \/ FanOutError(p) \/ ArtifactError(p)
  BY Zenon DEF Proceed, Fault
<1>2. ASSUME NEW a, NEW b, a # b PROVE ~(At(p, a) /\ At(p, b))
  BY <1>2 DEF At
<1> QED
  BY <1>1, Guards DEF At

\* What a step that is neither a hand-over nor a choice of work keeps of p's job.
SameWork(p) ==
    /\ proc'[p].job = proc[p].job /\ proc'[p].check = proc[p].check
    /\ proc'[p].nested = proc[p].nested /\ proc'[p].todo = proc[p].todo

LEMMA WorkFields ==
    ASSUME NEW x \in ProcState, NEW pc, NEW d, NEW was, NEW left, NEW seen, NEW resume
    PROVE  /\ LET y == [x EXCEPT !.pc = pc]
              IN y.job = x.job /\ y.check = x.check /\ y.nested = x.nested /\ y.todo = x.todo
                 /\ y.resume = x.resume /\ y.pc = pc /\ y.doc = x.doc /\ y.caller = x.caller
           /\ LET y == [x EXCEPT !.doc.status = d, !.pc = pc]
              IN y.job = x.job /\ y.check = x.check /\ y.nested = x.nested /\ y.todo = x.todo
           /\ LET y == [x EXCEPT !.doc = d, !.pc = pc]
              IN y.job = x.job /\ y.check = x.check /\ y.nested = x.nested /\ y.todo = x.todo
                 /\ y.doc = d /\ y.resume = x.resume /\ y.pc = pc
           /\ LET y == [x EXCEPT !.left = left, !.pc = pc]
              IN y.job = x.job /\ y.check = x.check /\ y.nested = x.nested /\ y.todo = x.todo
           /\ LET y == [x EXCEPT !.left = left]
              IN y.job = x.job /\ y.check = x.check /\ y.nested = x.nested /\ y.todo = x.todo
           /\ LET y == [x EXCEPT !.was = was, !.pc = pc]
              IN y.job = x.job /\ y.check = x.check /\ y.nested = x.nested /\ y.todo = x.todo
           /\ LET y == [x EXCEPT !.seen = seen]
              IN y.job = x.job /\ y.check = x.check /\ y.nested = x.nested /\ y.todo = x.todo
                 /\ y.resume = x.resume /\ y.pc = x.pc
           /\ LET y == [x EXCEPT !.doc = d, !.seen = seen, !.pc = pc]
              IN y.job = x.job /\ y.check = x.check /\ y.nested = x.nested /\ y.todo = x.todo
                 /\ y.pc = pc
           /\ LET y == [x EXCEPT !.pc = pc, !.doc = d, !.was = was, !.seen = seen,
                                 !.resume = resume]
              IN y.job = x.job /\ y.check = x.check /\ y.nested = x.nested /\ y.todo = x.todo
                 /\ y.resume = resume /\ y.pc = pc
BY StateForm

LEMMA GoKeeps ==
    ASSUME TypeOK, NEW p \in Procs, NEW pc, Go(p, pc)
    PROVE  SameWork(p) /\ proc'[p].pc = pc /\ proc'[p].resume = proc[p].resume
           /\ proc'[p].doc = proc[p].doc
<1>1. proc'[p] = [proc[p] EXCEPT !.pc = pc] /\ proc[p] \in ProcState
  BY BecomeGives, ProcTyped DEF Go
<1> QED
  BY <1>1, WorkFields DEF SameWork

LEMMA CountKeeps ==
    ASSUME TypeOK, NEW p \in Procs, NEW resume, StartCount(p, resume)
    PROVE  SameWork(p) /\ proc'[p].pc = "count" /\ proc'[p].resume = resume
<1>1. /\ proc'[p] = [proc[p] EXCEPT !.pc = "count", !.doc = Missing, !.was = Unmade,
                              !.seen = Uncounted, !.resume = resume]
      /\ proc[p] \in ProcState
  BY BecomeGives, ProcTyped DEF StartCount
<1> QED
  BY <1>1, WorkFields DEF SameWork

\* The working steps that choose what is to be done next.
Chooses(p) == SelectCandidates(p) \/ SpawnCheck(p) \/ FanOut(p)

LEMMA WorkingKeeps == ASSUME TypeOK, NEW p \in Procs, Working(p), ~Chooses(p) PROVE SameWork(p)
<1>0. proc[p] \in ProcState
  BY ProcTyped
<1>1. CASE LoadFailed(p)
  <2>1. proc'[p] = [proc[p] EXCEPT !.doc = stmt, !.pc = "saveFailed"]
    BY <1>1, BecomeGives DEF LoadFailed
  <2> QED
    BY <1>0, <2>1, WorkFields DEF SameWork
<1>2. CASE SaveFailed(p)
  BY <1>2, GoKeeps DEF SaveFailed
<1>3. CASE FailCheck(p)
  BY <1>3, CountKeeps DEF FailCheck
<1>4. CASE LoadStatement(p)
  <2>1. PICK d, pc : Become(p, [proc[p] EXCEPT !.doc = d, !.pc = pc])
    BY <1>4, Zenon DEF LoadStatement
  <2>2. proc'[p] = [proc[p] EXCEPT !.doc = d, !.pc = pc]
    BY <2>1, BecomeGives
  <2> QED
    BY <1>0, <2>2, WorkFields DEF SameWork
<1>5. CASE RefreshMatching(p)
  BY <1>5, GoKeeps DEF RefreshMatching
<1>6. CASE BeginExtract(p) \/ FinishExtract(p) \/ BeginStructure(p)
  <2>1. PICK d, pc : Become(p, [proc[p] EXCEPT !.doc.status = d, !.pc = pc])
    BY <1>6, Zenon DEF BeginExtract, FinishExtract, BeginStructure, SaveStatus
  <2>2. proc'[p] = [proc[p] EXCEPT !.doc.status = d, !.pc = pc]
    BY <2>1, BecomeGives
  <2> QED
    BY <1>0, <2>2, WorkFields DEF SameWork
<1>7. CASE DeleteRows(p)
  <2>1. proc'[p] = [proc[p] EXCEPT !.left = Candidates, !.pc = "create"]
    BY <1>7, BecomeGives DEF DeleteRows
  <2> QED
    BY <1>0, <2>1, WorkFields DEF SameWork
<1>8. CASE CreateRow(p)
  <2>1. proc'[p] = [proc[p] EXCEPT !.left = proc[p].left - 1]
    BY <1>8, BecomeGives DEF CreateRow
  <2> QED
    BY <1>0, <2>1, WorkFields DEF SameWork
<1>9. CASE FinishStructure(p) \/ FinishSpawn(p)
  BY <1>9, GoKeeps DEF FinishStructure, FinishSpawn
<1>10. CASE DeleteChecks(p)
  BY <1>10, GoKeeps DEF DeleteChecks
<1>11. CASE FindCheck(p)
  <2>1. CASE Existing(proc[p].check)
    <3>1. proc'[p] = [proc[p] EXCEPT !.was = checks[proc[p].check], !.pc = "mark"]
      BY <1>11, <2>1, BecomeGives DEF FindCheck
    <3> QED
      BY <1>0, <3>1, WorkFields DEF SameWork
  <2>2. CASE ~Existing(proc[p].check)
    BY <1>11, <2>2, GoKeeps DEF FindCheck
  <2> QED
    BY <2>1, <2>2
<1>12. CASE MarkProcessing(p) \/ SaveResult(p)
  BY <1>12, GoKeeps, CountKeeps DEF MarkProcessing, SaveResult
<1>13. CASE CountChecks(p)
  <2>1. PICK seen : proc'[p] = [proc[p] EXCEPT !.seen = seen]
    BY <1>13, BecomeGives DEF CountChecks
  <2> QED
    BY <1>0, <2>1, WorkFields DEF SameWork
<1>14. CASE LoadProgress(p)
  <2>1. proc'[p] = [proc[p] EXCEPT !.doc = stmt, !.pc = "progress"]
    BY <1>14, BecomeGives DEF LoadProgress
  <2> QED
    BY <1>0, <2>1, WorkFields DEF SameWork
<1>15. CASE SaveProgress(p)
  <2>1. proc'[p] = [proc[p] EXCEPT !.doc = Missing, !.seen = Uncounted, !.pc = proc[p].resume]
    BY <1>15, BecomeGives DEF SaveProgress
  <2> QED
    BY <1>0, <2>1, WorkFields DEF SameWork
<1>16. CASE FanOutError(p) \/ ArtifactError(p)
  BY <1>16, GoKeeps DEF FanOutError, ArtifactError
<1> QED
  BY <1>1, <1>2, <1>3, <1>4, <1>5, <1>6, <1>7, <1>8, <1>9, <1>10, <1>11, <1>12, <1>13, <1>14,
     <1>15, <1>16, Zenon DEF Working, Chooses

\* Only a request's reset and the saves of a failure touch the issues; they move the
\* version, too.
LEMMA IssuesKept ==
    ASSUME TypeOK, NEW p \in Procs, Arrive(p) \/ Proceed(p) \/ Fault(p),
           ~ResetStatement(p), ~SaveDispatchFailed(p), ~SaveFailed(p)
    PROVE  stmt'.issues = stmt.issues /\ stmt'.v = stmt.v
<1>1. CASE CreateStatement(p)
  BY <1>1 DEF CreateStatement, Missing, Uploaded
<1>2. ASSUME NEW doc, NEW new, stmt' = Saved(doc, new, FALSE)
      PROVE  stmt'.issues = stmt.issues /\ stmt'.v = stmt.v
  BY <1>2 DEF Saved
<1>3. CASE \/ BeginExtract(p) \/ FinishExtract(p) \/ BeginStructure(p) \/ FinishStructure(p)
           \/ FinishSpawn(p) \/ SaveProgress(p) \/ SaveExtracting(p)
  <2>1. \E doc, new : stmt' = Saved(doc, new, FALSE)
    BY <1>3, Zenon DEF BeginExtract, FinishExtract, BeginStructure, FinishStructure, FinishSpawn,
       SaveProgress, SaveExtracting, SaveStatus
  <2> QED
    BY <1>2, <2>1
<1>4. CASE ~(\/ CreateStatement(p) \/ BeginExtract(p) \/ FinishExtract(p) \/ BeginStructure(p)
             \/ FinishStructure(p) \/ FinishSpawn(p) \/ SaveProgress(p) \/ SaveExtracting(p))
  <2>1. stmt' = stmt
    BY <1>4, Zenon DEF Arrive, ReprocessStatement, RetryStatementCheck, Proceed, Fault, ClearChecks,
       RequeueCheck, Enqueue, EnqueueError, Deliver, Succeed, Rethrow, Crash, LoadFailed, FailCheck,
       LoadStatement, RefreshMatching, DeleteRows, CreateRow, DeleteChecks, SelectCandidates,
       SpawnCheck, FanOut, FindCheck, MarkProcessing, SaveResult, CountChecks, LoadProgress,
       FanOutError, ArtifactError, ChecksOnly, ProcOnly, QueueOnly
  <2> QED
    BY <2>1
<1> QED
  BY <1>1, <1>3, <1>4

LEMMA IssuesMoved ==
    ASSUME TypeOK, NEW p \in Procs, ResetStatement(p) \/ SaveDispatchFailed(p) \/ SaveFailed(p)
    PROVE  \/ stmt' = stmt
           \/ stmt'.issues
           \/ ResetStatement(p) /\ proc'[p].pc = "clear"
<1>1. CASE ResetStatement(p)
  BY <1>1, GoKeeps DEF ResetStatement
<1>2. CASE SaveDispatchFailed(p)
  BY <1>2 DEF SaveDispatchFailed, Saved, Uploaded
<1>3. CASE SaveFailed(p)
  <2>1. proc[p].doc \in StatementDoc
    BY ProcTyped, Fields
  <2>2. CASE Conflicts(proc[p].doc, TRUE)
    BY <1>3, <2>2 DEF SaveFailed
  <2>3. CASE ~Conflicts(proc[p].doc, TRUE)
    <3> DEFINE new == [proc[p].doc EXCEPT !.status = "failed", !.issues = TRUE]
    <3>1. stmt' = Saved(proc[p].doc, new, TRUE)
      BY <1>3, <2>3 DEF SaveFailed
    <3>2. new.issues = TRUE
      BY <2>1 DEF StatementDoc
    <3> HIDE DEF new
    <3> QED
      BY <3>1, <3>2 DEF Saved
  <2> QED
    BY <2>2, <2>3
<1> QED
  BY <1>1, <1>2, <1>3

CheckTask(c) == [job |-> "check", check |-> c]

\* What an arriving request or task is to do.
LEMMA ArriveFields ==
    ASSUME TypeOK, NEW p \in Procs, Arrive(p)
    PROVE  /\ ~proc'[p].nested /\ proc'[p].todo = {} /\ UNCHANGED <<checks, made, queued>>
           /\ \/ proc'[p].check = NoCheck /\ proc'[p].pc \in {"enqueue", "reset"}
              \/ /\ "retry" \in Handlers /\ Existing(proc'[p].check)
                 /\ proc'[p].job = "check" /\ proc'[p].pc = "requeue"
<1>1. CASE CreateStatement(p)
  <2>1. proc'[p] = [[IdleProc EXCEPT !.doc = Uploaded] EXCEPT !.caller = "create", !.pc = "enqueue"]
    BY <1>1, BecomeGives DEF CreateStatement, Request
  <2> QED
    BY <1>1, <2>1 DEF CreateStatement, RequestOnly, IdleProc
<1>2. CASE \E job \in Job : ReprocessStatement(p, job)
  <2>1. PICK job \in Job : ReprocessStatement(p, job)
    BY <1>2
  <2>2. proc'[p] = [[IdleProc EXCEPT !.doc = stmt, !.job = job]
                       EXCEPT !.caller = "reprocess", !.pc = "reset"]
    BY <2>1, BecomeGives DEF ReprocessStatement, Request
  <2> QED
    BY <2>1, <2>2 DEF ReprocessStatement, RequestOnly, IdleProc
<1>3. CASE \E c \in CheckIds : RetryStatementCheck(p, c)
  <2>1. PICK c \in CheckIds : RetryStatementCheck(p, c)
    BY <1>3
  <2>2. proc'[p] = [[IdleProc EXCEPT !.job = "check", !.check = c, !.was = checks[c]]
                       EXCEPT !.caller = "retry", !.pc = "requeue"]
    BY <2>1, BecomeGives DEF RetryStatementCheck, Request
  <2> QED
    BY <2>1, <2>2 DEF RetryStatementCheck, RequestOnly, Serves, IdleProc
<1> QED
  BY <1>1, <1>2, <1>3 DEF Arrive

LEMMA DeliverFields ==
    ASSUME TypeOK, NEW p \in Procs, NEW task \in Task, Deliver(p, task)
    PROVE  /\ proc'[p].job = task.job /\ proc'[p].check = task.check /\ proc'[p].pc = "load"
           /\ ~proc'[p].nested /\ proc'[p].todo = {} /\ UNCHANGED <<checks, made>>
           /\ queued[task] > 0 /\ queued' = [queued EXCEPT ![task] = @ - 1]
<1>1. proc'[p] = [IdleProc EXCEPT !.job = task.job, !.check = task.check, !.pc = "load"]
  BY BecomeGives DEF Deliver
<1> QED
  BY <1>1 DEF Deliver, IdleProc, QueueOnly

\* How p's job ends.
Ends(p) ==
    \/ proc'[p] = IdleProc /\ ~proc[p].nested
    \/ /\ proc[p].nested /\ ~proc'[p].nested /\ proc'[p].todo = proc[p].todo
       /\ proc'[p].check = NoCheck /\ proc'[p].pc \in {"fanOut", "fail"}
    \/ /\ ~proc[p].nested /\ ~proc'[p].nested /\ proc'[p].todo = proc[p].todo
       /\ proc'[p].check = proc[p].check /\ proc'[p].pc \in {"load", "created", "dispatchFailed"}

LEMMA EndFields == ASSUME TypeOK, NEW p \in Procs, Succeed(p) \/ Rethrow(p) PROVE Ends(p)
<1>0. proc[p] \in ProcState
  BY ProcTyped
<1>1. ASSUME NEW pc \in {"fanOut", "fail"}, BackToSpawn(p, pc), proc[p].nested PROVE Ends(p)
  <2>1. proc'[p] = [proc[p] EXCEPT !.job = "spawn", !.check = NoCheck, !.nested = FALSE, !.pc = pc]
    BY <1>1, BecomeGives DEF BackToSpawn
  <2>2. ~proc'[p].nested /\ proc'[p].todo = proc[p].todo /\ proc'[p].check = NoCheck
        /\ proc'[p].pc = pc
    BY <1>0, <2>1, StateForm
  <2> QED
    BY <1>1, <2>2 DEF Ends
<1>2. ASSUME NEW pc \in {"created", "dispatchFailed"}, proc'[p] = [proc[p] EXCEPT !.pc = pc],
             ~proc[p].nested
      PROVE  Ends(p)
  <2>1. proc'[p].nested = proc[p].nested /\ proc'[p].todo = proc[p].todo
        /\ proc'[p].check = proc[p].check /\ proc'[p].pc = pc
    BY <1>0, <1>2, WorkFields
  <2> QED
    BY <1>2, <2>1 DEF Ends
<1>3. ASSUME proc'[p] = IdleProc, ~proc[p].nested PROVE Ends(p)
  BY <1>3 DEF Ends
<1>4. ASSUME proc'[p] = [proc[p] EXCEPT !.job = NextJob[proc[p].job], !.pc = "load"],
             ~proc[p].nested
      PROVE  Ends(p)
  <2> DEFINE job == NextJob[proc[p].job]
  <2> HIDE DEF job
  <2>1. proc'[p] = [proc[p] EXCEPT !.job = job, !.pc = "load"]
    BY <1>4 DEF job
  <2>2. proc'[p].nested = proc[p].nested /\ proc'[p].todo = proc[p].todo
        /\ proc'[p].check = proc[p].check /\ proc'[p].pc = "load"
    BY <1>0, <2>1, StateForm
  <2> QED
    BY <1>4, <2>2 DEF Ends
<1>5. CASE Succeed(p)
  <2>1. CASE proc[p].nested
    BY <1>1, <1>5, <2>1 DEF Succeed
  <2>2. CASE ~proc[p].nested
    <3>1. \/ proc'[p] = IdleProc
          \/ proc'[p] = [proc[p] EXCEPT !.job = NextJob[proc[p].job], !.pc = "load"]
          \/ proc'[p] = [proc[p] EXCEPT !.pc = "created"]
      BY <1>5, <2>2, BecomeGives DEF Succeed, Returned
    <3> QED
      BY <1>2, <1>3, <1>4, <2>2, <3>1
  <2> QED
    BY <2>1, <2>2
<1>6. CASE Rethrow(p)
  <2>1. CASE proc[p].nested
    BY <1>1, <1>6, <2>1 DEF Rethrow
  <2>2. CASE ~proc[p].nested
    <3>1. \/ proc'[p] = IdleProc
          \/ proc'[p] = [proc[p] EXCEPT !.pc = "dispatchFailed"]
      BY <1>6, <2>2, BecomeGives DEF Rethrow, Threw
    <3> QED
      BY <1>2, <1>3, <2>2, <3>1
  <2> QED
    BY <2>1, <2>2
<1> QED
  BY <1>5, <1>6

\* The steps of a handler outside its job.
Handles(p) ==
    \/ ResetStatement(p) \/ ClearChecks(p) \/ RequeueCheck(p) \/ Enqueue(p)
    \/ EnqueueError(p) \/ SaveExtracting(p) \/ SaveDispatchFailed(p)

LEMMA HandlerFields ==
    ASSUME TypeOK, NEW p \in Procs, Handles(p)
    PROVE  \/ proc'[p] = IdleProc
           \/ /\ SameWork(p)
              /\ \/ proc[p].pc \in {"reset", "clear", "requeue"} /\ proc'[p].pc \in {"clear", "enqueue"}
                 \/ At(p, "enqueue") /\ proc'[p].pc \in {"created", "dispatchFailed", "load"}
<1> DEFINE Goal == \/ proc'[p] = IdleProc
                   \/ /\ SameWork(p)
                      /\ \/ /\ proc[p].pc \in {"reset", "clear", "requeue"}
                            /\ proc'[p].pc \in {"clear", "enqueue"}
                         \/ At(p, "enqueue") /\ proc'[p].pc \in {"created", "dispatchFailed", "load"}
<1>1. CASE ResetStatement(p) \/ ClearChecks(p) \/ RequeueCheck(p)
  BY <1>1, GoKeeps, BecomeGives DEF ResetStatement, ClearChecks, RequeueCheck, At
<1>2. CASE Enqueue(p) \/ EnqueueError(p)
  <2>1. \/ proc'[p] = IdleProc \/ Go(p, "created") \/ Go(p, "dispatchFailed") \/ Go(p, "load")
    BY <1>2, BecomeGives DEF Enqueue, EnqueueError, Returned, Threw, Go
  <2>2. At(p, "enqueue")
    BY <1>2, Guards
  <2>3. CASE proc'[p] = IdleProc
    BY <2>3
  <2>4. ASSUME NEW pc \in {"created", "dispatchFailed", "load"}, Go(p, pc) PROVE Goal
    BY <2>2, <2>4, GoKeeps
  <2> QED
    BY <2>1, <2>3, <2>4
<1>3. CASE SaveExtracting(p) \/ SaveDispatchFailed(p)
  BY <1>3, BecomeGives DEF SaveExtracting, SaveDispatchFailed
<1> QED
  BY <1>1, <1>2, <1>3 DEF Handles

\* The choices of what is to be done next.
LEMMA SelectFields ==
    ASSUME TypeOK, NEW p \in Procs, SelectCandidates(p)
    PROVE  /\ proc'[p].todo = {} /\ proc'[p].check = proc[p].check
           /\ proc'[p].nested = proc[p].nested /\ proc'[p].pc = "spawn"
<1>1. proc'[p] = [proc[p] EXCEPT !.left = rows, !.todo = {}, !.pc = "spawn"]
  BY BecomeGives DEF SelectCandidates
<1> QED
  BY <1>1, ProcTyped, StateForm

LEMMA SpawnFields ==
    ASSUME TypeOK, NEW p \in Procs, SpawnCheck(p)
    PROVE  /\ proc'[p].todo = proc[p].todo \cup {made + 1} /\ proc'[p].check = proc[p].check
           /\ proc'[p].nested = proc[p].nested /\ proc'[p].pc = "spawn"
           /\ made' = made + 1 /\ made + 1 \in CheckIds
           /\ checks' = [checks EXCEPT ![made + 1] = NewCheck]
<1>1. proc'[p] = [proc[p] EXCEPT !.left = proc[p].left - 1, !.todo = proc[p].todo \cup {made + 1}]
  BY BecomeGives DEF SpawnCheck
<1>2. made \in 0..MaxChecks /\ MaxChecks \in Nat /\ made < MaxChecks
  BY ProcTyped, PipelineAssumption DEF SpawnCheck
<1> QED
  BY <1>1, <1>2, ProcTyped, StateForm DEF SpawnCheck, At, CheckIds

LEMMA FanOutFields ==
    ASSUME TypeOK, NEW p \in Procs, FanOut(p)
    PROVE  /\ UNCHANGED <<checks, made, mode>>
           /\ \/ /\ proc[p].todo = {} /\ SameWork(p) /\ proc'[p].pc = "done" /\ UNCHANGED queued
              \/ \E c \in proc[p].todo :
                    /\ proc'[p].todo = proc[p].todo \ {c}
                    /\ \/ /\ mode = "tasks" /\ Put(CheckTask(c)) /\ proc'[p].pc = "fanOut"
                          /\ proc'[p].check = proc[p].check /\ proc'[p].nested = proc[p].nested
                       \/ /\ mode # "tasks" /\ UNCHANGED queued /\ proc'[p].job = "check"
                          /\ proc'[p].check = c /\ proc'[p].nested /\ proc'[p].pc = "load"
<1> DEFINE c == CHOOSE c \in proc[p].todo : \A d \in proc[p].todo : c <= d
           rest == [proc[p] EXCEPT !.todo = proc[p].todo \ {c}]
           next == [rest EXCEPT !.job = "check", !.check = c, !.nested = TRUE, !.pc = "load"]
<1>1. proc[p] \in ProcState /\ proc[p].todo \in SUBSET CheckIds
  BY ProcTyped, Fields
<1>2. UNCHANGED <<checks, made, mode>> /\ At(p, "fanOut")
  BY DEF FanOut, QueueOnly
<1>3. CASE proc[p].todo = {}
  BY <1>2, <1>3, GoKeeps DEF FanOut
<1>4. CASE proc[p].todo # {}
  <2>1. \/ mode = "tasks" /\ Put([job |-> "check", check |-> c]) /\ Become(p, rest)
        \/ mode # "tasks" /\ Become(p, next) /\ UNCHANGED queued
    BY <1>4 DEF FanOut
  <2>2. c \in proc[p].todo
    <3>1. proc[p].todo \subseteq Nat /\ proc[p].todo # {}
      BY <1>1, <1>4, PipelineAssumption DEF CheckIds
    <3> DEFINE S == proc[p].todo
    <3>2. PICK least \in S : \A d \in S : least <= d
      BY <3>1, LeastOf
    <3> QED
      BY <3>2
  <2> HIDE DEF c
  <2>3. rest \in ProcState /\ rest.todo = proc[p].todo \ {c} /\ rest.check = proc[p].check
        /\ rest.nested = proc[p].nested /\ rest.pc = proc[p].pc
    BY <1>1, StateForm
  <2> HIDE DEF rest
  <2>4. /\ next.todo = rest.todo /\ next.job = "check" /\ next.check = c /\ next.nested
        /\ next.pc = "load"
    BY <2>3, StateForm
  <2> HIDE DEF next
  <2> QED
    BY <1>2, <2>1, <2>2, <2>3, <2>4, BecomeGives DEF At, CheckTask
<1> QED
  BY <1>2, <1>3, <1>4

\* Checks are made by SpawnCheck only.
LEMMA MadeKept ==
    ASSUME TypeOK, NEW p \in Procs, Arrive(p) \/ Proceed(p) \/ Fault(p), ~SpawnCheck(p)
    PROVE  made' = made /\ Present' \subseteq Present
<1>1. made' = made
  BY Zenon DEF Arrive, CreateStatement, ReprocessStatement, RetryStatementCheck, RequestOnly,
   Proceed, Fault, ResetStatement, ClearChecks, RequeueCheck, Enqueue, EnqueueError, SaveExtracting,
   SaveDispatchFailed, Deliver, Succeed, Rethrow, Crash, LoadFailed, SaveFailed, FailCheck,
   LoadStatement, RefreshMatching, BeginExtract, FinishExtract, BeginStructure, DeleteRows,
   CreateRow, FinishStructure, DeleteChecks, SelectCandidates, FinishSpawn, FanOut, FindCheck,
   MarkProcessing, SaveResult, CountChecks, LoadProgress, SaveProgress, FanOutError, ArtifactError,
   StatementOnly, ChecksOnly, ProcOnly, QueueOnly
<1>2. CASE DeleteRows(p) \/ CreateRow(p) \/ SelectCandidates(p)
  BY <1>2 DEF DeleteRows, CreateRow, SelectCandidates, ProcOnly, StatementOnly, Present
<1>3. CASE DeleteChecks(p)
  <2>1. Present' \subseteq Present
    BY <1>3 DEF DeleteChecks, Present, Unmade
  <2> QED
    BY <1>1, <2>1
<1>4. CASE ~Creates(p)
  <2>1. Present' \subseteq Present
    BY <1>4, ChecksKept
  <2> QED
    BY <1>1, <2>1
<1> QED
  BY <1>1, <1>2, <1>3, <1>4 DEF Creates

\* Which steps touch the queue.
LEMMA QueueSame ==
    ASSUME NEW p \in Procs, Arrive(p) \/ Proceed(p) \/ Fault(p), ~FanOut(p), ~Enqueue(p),
           ~Succeed(p), ~Rethrow(p), ~Crash(p), ~\E t \in Task : Deliver(p, t)
    PROVE  queued' = queued
BY Zenon DEF Arrive, CreateStatement, ReprocessStatement, RetryStatementCheck, RequestOnly,
       Proceed, Fault, ResetStatement, ClearChecks, RequeueCheck, EnqueueError, SaveExtracting,
       SaveDispatchFailed, LoadFailed, SaveFailed, FailCheck,
       LoadStatement, RefreshMatching, BeginExtract, FinishExtract, BeginStructure, DeleteRows,
       CreateRow, FinishStructure, DeleteChecks, SelectCandidates, SpawnCheck, FinishSpawn, FindCheck,
       MarkProcessing, SaveResult, CountChecks, LoadProgress, SaveProgress, FanOutError, ArtifactError,
       StatementOnly, ChecksOnly, ProcOnly

\* What a step does to the queue: nothing, one task more, or one delivered.
LEMMA QueueMoves ==
    ASSUME TypeOK, NEW p \in Procs, Arrive(p) \/ Proceed(p) \/ Fault(p), NEW task \in Task
    PROVE  \/ queued'[task] = queued[task]
           \/ /\ queued'[task] = queued[task] + 1
              /\ \/ ~At(p, "idle") /\ task = [job |-> proc[p].job, check |-> proc[p].check]
                 \/ \E c \in proc[p].todo : FanOut(p) /\ task = CheckTask(c)
           \/ Deliver(p, task)
<1>0. queued \in [Task -> Nat]
  BY ProcTyped
<1>1. ASSUME NEW t, Put(t)
      PROVE  \/ queued'[task] = queued[task]
             \/ task = t /\ queued'[task] = queued[task] + 1
  BY <1>0, <1>1 DEF Put
<1>2. CASE FanOut(p)
  BY <1>1, <1>2, FanOutFields
<1>3. CASE Enqueue(p)
  BY <1>1, <1>3 DEF Enqueue, At
<1>4. CASE Succeed(p) \/ Rethrow(p) \/ Crash(p)
  <2>1. Again(p) \/ UNCHANGED queued
    BY <1>4 DEF Succeed, Rethrow, Crash
  <2>2. ~At(p, "idle")
    BY <1>4, EndGoes DEF At
  <2> QED
    BY <1>1, <2>1, <2>2 DEF Again
<1>5. CASE \E t \in Task : Deliver(p, t)
  <2>1. PICK t \in Task : Deliver(p, t)
    BY <1>5
  <2>2. CASE t = task
    BY <2>1, <2>2
  <2>3. CASE t # task
    BY <1>0, <2>1, <2>3, DeliverFields
  <2> QED
    BY <2>2, <2>3
<1>6. CASE ~(\/ FanOut(p) \/ Enqueue(p) \/ Succeed(p) \/ Rethrow(p) \/ Crash(p)
             \/ \E t \in Task : Deliver(p, t))
  BY <1>6, QueueSame
<1> QED
  BY <1>2, <1>3, <1>4, <1>5, <1>6

\* What ends a job with no trace of it: a process that dies, and a retry whose task was
\* not accepted.
NothingDropped ==
    /\ "crash" \notin Faults
    /\ "retry" \in Handlers /\ "enqueue" \in Faults => Modes \subseteq {"inline"}

\* The statement reports trouble, or is about to lose every check it has.
Told == stmt.issues \/ \E r \in Procs : At(r, "clear")

\* The check still has to be worked on, or has failed.
Troubled(c) == checks[c].status \notin {"none", "ready"}

\* p will report on check c, or leave it "ready": it is the check of its job ...
Fresh(p) == proc[p].doc.v = stmt.v
RunsCheck(p, c) ==
    /\ proc[p].check = c
    /\ \/ proc[p].pc \in {"enqueue", "load"} /\ proc[p].job = "check"
       \/ proc[p].pc \in {"findCheck", "mark", "work", "fail"}
       \/ proc[p].pc \in {"count", "progress"} /\ proc[p].resume = "work"
       \/ At(p, "saveFailed") /\ Fresh(p)

\* ... or one its checks.spawn has still to hand over.
HasToRun(p, c) ==
    /\ c \in proc[p].todo
    /\ \/ proc[p].nested
       \/ proc[p].pc \in {"spawn", "fanOut", "fail"}
       \/ At(p, "saveFailed") /\ Fresh(p)

Carries(p, c) == RunsCheck(p, c) \/ HasToRun(p, c)

\* Where the job of a check may be that checks.spawn runs in place.
NestedSteps == {"load", "findCheck", "mark", "count", "progress", "work", "fail", "saveFailed",
                "failCheck", "done", "rethrow"}

\* Only retries ask for a check; ids are of checks made; checks.spawn runs nothing but
\* checks in place.
Asked == \A p \in Procs :
    /\ proc[p].pc \in {"reset", "clear", "requeue", "enqueue"} /\ proc[p].check # NoCheck
           => "retry" \in Handlers
    /\ At(p, "requeue") => proc[p].job = "check"
Known ==
    /\ \A c \in Present : c <= made
    /\ \A p \in Procs : proc[p].check <= made /\ \A c \in proc[p].todo : c <= made
    /\ \A task \in Task : queued[task] > 0 => task.check <= made
NestedRuns == \A p \in Procs :
    proc[p].nested => proc[p].job = "check" /\ proc[p].pc \in NestedSteps

\* A job that is about to mark its check has told of it; every check in trouble is told
\* of, queued or carried.
FailuresTold == \A p \in Procs : At(p, "failCheck") /\ Existing(proc[p].check) => Told
TroubleCarried ==
    \A c \in CheckIds : Troubled(c) =>
        Told \/ queued[CheckTask(c)] > 0 \/ \E p \in Procs : Carries(p, c)

TroubleInv == TypeOK /\ SeenAll /\ Asked /\ Known /\ NestedRuns /\ FailuresTold /\ TroubleCarried

LEMMA NoCrash ==
    ASSUME NothingDropped, NEW p \in Procs PROVE ~Crash(p)
BY DEF NothingDropped, Crash

LEMMA StepIs ==
    ASSUME NothingDropped, NEW p \in Procs, Arrive(p) \/ Proceed(p) \/ Fault(p)
    PROVE  \/ Arrive(p) \/ Handles(p)
           \/ \E task \in Task : Deliver(p, task)
           \/ Succeed(p) \/ Rethrow(p)
           \/ Working(p)
<1>1. ~Crash(p)
  BY NoCrash
<1> QED
  BY <1>1, StepKinds, Zenon DEF Handles

LEMMA AskedKept ==
    ASSUME NothingDropped, TypeOK, Asked, NEW p \in Procs, Arrive(p) \/ Proceed(p) \/ Fault(p)
    PROVE  Asked'
<1> DEFINE Ok(x) == /\ x.pc \in {"reset", "clear", "requeue", "enqueue"} /\ x.check # NoCheck
                           => "retry" \in Handlers
                    /\ x.pc = "requeue" => x.job = "check"
<1>1. Alone(p) /\ \A q \in Procs : Ok(proc[q])
  BY StepAlone DEF Asked, At
<1>2. Ok(proc'[p])
  <2>1. CASE Arrive(p)
    BY <2>1, ArriveFields
  <2>2. CASE Handles(p)
    BY <1>1, <2>2, HandlerFields DEF SameWork, IdleProc, At
  <2>3. CASE \E task \in Task : Deliver(p, task)
    BY <2>3, DeliverFields
  <2>4. CASE Succeed(p) \/ Rethrow(p)
    BY <2>4, EndFields DEF Ends, IdleProc
  <2>5. CASE Working(p)
    BY <2>5, WorkingLeads DEF Leads, Continues, JobSteps
  <2> QED
    BY <2>1, <2>2, <2>3, <2>4, <2>5, StepIs
<1>3. \A q \in Procs : Ok(proc'[q])
  <2> SUFFICES ASSUME NEW q \in Procs PROVE Ok(proc'[q])
    OBVIOUS
  <2>1. q # p => proc'[q] = proc[q]
    BY <1>1 DEF Alone
  <2> HIDE DEF Ok
  <2> QED
    BY <1>1, <1>2, <2>1
<1> QED
  BY <1>3 DEF Asked, At

\* Where a check.process goes.
LEMMA NestedGoes ==
    ASSUME TypeOK, NEW p \in Procs, Working(p), proc[p].job = "check", proc[p].pc \in NestedSteps
    PROVE  proc'[p].pc \in NestedSteps
<1>1. CASE LoadFailed(p)
  <2>1. proc'[p] = [proc[p] EXCEPT !.doc = stmt, !.pc = "saveFailed"]
    BY <1>1, BecomeGives DEF LoadFailed
  <2> QED
    BY <2>1, ProcTyped, WorkFields DEF NestedSteps
<1>2. CASE SaveFailed(p)
  BY <1>2, GoKeeps DEF SaveFailed, NestedSteps
<1>3. CASE FailCheck(p)
  BY <1>3, CountKeeps DEF FailCheck, NestedSteps
<1>4. CASE LoadStatement(p)
  <2>1. PICK d, pc : Become(p, [proc[p] EXCEPT !.doc = d, !.pc = pc]) /\ pc \in {"fail", "findCheck"}
    BY <1>4 DEF LoadStatement
  <2>2. proc'[p] = [proc[p] EXCEPT !.doc = d, !.pc = pc]
    BY <2>1, BecomeGives
  <2> QED
    BY <2>1, <2>2, ProcTyped, WorkFields DEF NestedSteps
<1>5. CASE FindCheck(p)
  <2>1. CASE Existing(proc[p].check)
    <3>1. proc'[p] = [proc[p] EXCEPT !.was = checks[proc[p].check], !.pc = "mark"]
      BY <1>5, <2>1, BecomeGives DEF FindCheck
    <3>2. proc'[p].pc = "mark"
      BY <3>1, ProcTyped, StateForm
    <3> QED
      BY <3>2 DEF NestedSteps
  <2>2. CASE ~Existing(proc[p].check)
    BY <1>5, <2>2, GoKeeps DEF FindCheck, NestedSteps
  <2> QED
    BY <2>1, <2>2
<1>6. CASE MarkProcessing(p) \/ SaveResult(p)
  BY <1>6, GoKeeps, CountKeeps DEF MarkProcessing, SaveResult, NestedSteps
<1>7. CASE CountChecks(p)
  <2>1. PICK seen : proc'[p] = [proc[p] EXCEPT !.seen = seen]
    BY <1>7, BecomeGives DEF CountChecks
  <2> QED
    BY <2>1, ProcTyped, WorkFields
<1>8. CASE LoadProgress(p)
  <2>1. proc'[p] = [proc[p] EXCEPT !.doc = stmt, !.pc = "progress"]
    BY <1>8, BecomeGives DEF LoadProgress
  <2> QED
    BY <2>1, ProcTyped, WorkFields DEF NestedSteps
<1>9. CASE SaveProgress(p)
  <2>1. proc'[p] = [proc[p] EXCEPT !.doc = Missing, !.seen = Uncounted, !.pc = proc[p].resume]
    BY <1>9, BecomeGives DEF SaveProgress
  <2>2. proc[p].resume \in {"work", "done", "rethrow"} /\ proc[p] \in ProcState
    BY ProcTyped, Fields
  <2> QED
    BY <2>1, <2>2, WorkFields DEF NestedSteps
<1>10. CASE ArtifactError(p)
  BY <1>10, GoKeeps DEF ArtifactError, NestedSteps
<1> QED
  <2>1. \/ LoadFailed(p) \/ SaveFailed(p) \/ FailCheck(p) \/ LoadStatement(p) \/ FindCheck(p)
        \/ MarkProcessing(p) \/ SaveResult(p) \/ CountChecks(p) \/ LoadProgress(p)
        \/ SaveProgress(p) \/ ArtifactError(p)
    BY Guards DEF Working, NestedSteps, At
  <2> QED
    BY <2>1, <1>1, <1>2, <1>3, <1>4, <1>5, <1>6, <1>7, <1>8, <1>9, <1>10

LEMMA NestedKept ==
    ASSUME NothingDropped, TypeOK, NestedRuns, NEW p \in Procs,
           Arrive(p) \/ Proceed(p) \/ Fault(p)
    PROVE  NestedRuns'
<1>1. Alone(p)
  BY StepAlone
<1>2. proc[p].nested => proc[p].job = "check" /\ proc[p].pc \in NestedSteps
  BY DEF NestedRuns
<1>3. proc'[p].nested => proc'[p].job = "check" /\ proc'[p].pc \in NestedSteps
  <2>1. CASE Arrive(p)
    BY <2>1, ArriveFields
  <2>2. CASE Handles(p)
    <3>1. proc'[p] = IdleProc \/ SameWork(p)
      BY <2>2, HandlerFields
    <3>2. proc[p].pc \notin NestedSteps
      <4>1. proc[p].pc \in HandlerSteps
        BY <2>2, HandlerGoes, Zenon DEF Handles
      <4> QED
        BY <4>1 DEF HandlerSteps, NestedSteps
    <3>3. IdleProc.nested = FALSE
      BY DEF IdleProc
    <3> QED
      BY <1>2, <3>1, <3>2, <3>3 DEF SameWork
  <2>3. CASE \E task \in Task : Deliver(p, task)
    BY <2>3, DeliverFields
  <2>4. CASE Succeed(p) \/ Rethrow(p)
    BY <2>4, EndFields DEF Ends, IdleProc
  <2>5. CASE Working(p) /\ ~Chooses(p)
    BY <1>2, <2>5, WorkingKeeps, NestedGoes DEF SameWork
  <2>6. CASE SelectCandidates(p)
    BY <1>2, <2>6, Guards, SelectFields DEF At, NestedSteps
  <2>7. CASE SpawnCheck(p)
    BY <1>2, <2>7, Guards, SpawnFields DEF At, NestedSteps
  <2>8. CASE FanOut(p)
    BY <1>2, <2>8, Guards, FanOutFields DEF At, NestedSteps, SameWork
  <2> QED
    BY <2>1, <2>2, <2>3, <2>4, <2>5, <2>6, <2>7, <2>8, StepIs DEF Chooses
<1> QED
  BY <1>1, <1>3 DEF NestedRuns, Alone

LEMMA KnownKept ==
    ASSUME NothingDropped, TypeOK, Known, NEW p \in Procs, Arrive(p) \/ Proceed(p) \/ Fault(p)
    PROVE  Known'
<1>1. /\ Alone(p) /\ made \in Nat /\ IdleProc.check = 0 /\ IdleProc.todo = {}
      /\ \A q \in Procs : proc[q].check \in Nat /\ \A c \in proc[q].todo : c \in Nat
  BY StepAlone, ProcTyped, Fields, PipelineAssumption DEF IdleProc, NoCheck, CheckIds
<1>2. /\ proc[p].check <= made /\ \A c \in proc[p].todo : c <= made
      /\ \A task \in Task : queued[task] > 0 => task.check <= made
      /\ \A c \in Present : c <= made
  BY DEF Known
<1>3. made' \in Nat /\ made <= made' /\ \A c \in Present' : c <= made'
  <2>1. CASE SpawnCheck(p)
    <3>1. /\ made' = made + 1 /\ checks' = [checks EXCEPT ![made + 1] = NewCheck]
      BY <2>1, SpawnFields
    <3>2. Present' \subseteq Present \cup {made + 1}
      BY <3>1, ProcTyped DEF Present
    <3>3. Present \subseteq Nat
      BY PipelineAssumption DEF Present, CheckIds
    <3> QED
      BY <1>1, <1>2, <3>1, <3>2, <3>3
  <2>2. CASE ~SpawnCheck(p)
    BY <1>1, <1>2, <2>2, MadeKept
  <2> QED
    BY <2>1, <2>2
<1>4. proc'[p].check <= made' /\ \A c \in proc'[p].todo : c <= made'
  <2>1. CASE Arrive(p)
    <3>1. proc'[p].todo = {} /\ (proc'[p].check = NoCheck \/ Existing(proc'[p].check))
      BY <2>1, ArriveFields
    <3>2. proc'[p].check \in Nat
      BY <3>1, PipelineAssumption DEF Existing, CheckIds, NoCheck
    <3>3. proc'[p].check <= made
      BY <1>1, <1>2, <3>1 DEF Existing, Present, NoCheck
    <3> QED
      BY <1>1, <1>3, <3>1, <3>2, <3>3
  <2>2. CASE Handles(p)
    <3>1. proc'[p] = IdleProc \/ SameWork(p)
      BY <2>2, HandlerFields
    <3> QED
      BY <1>1, <1>2, <1>3, <3>1 DEF SameWork
  <2>3. CASE \E task \in Task : Deliver(p, task)
    <3>1. PICK task \in Task : Deliver(p, task)
      BY <2>3
    <3>2. proc'[p].check = task.check /\ proc'[p].todo = {} /\ task.check <= made
      BY <1>2, <3>1, DeliverFields
    <3>3. task.check \in Nat
      BY PipelineAssumption DEF Task, CheckIds, NoCheck
    <3> QED
      BY <1>1, <1>3, <3>2, <3>3
  <2>4. CASE Succeed(p) \/ Rethrow(p)
    <3>1. \/ proc'[p] = IdleProc
          \/ /\ proc'[p].todo = proc[p].todo
             /\ proc'[p].check = NoCheck \/ proc'[p].check = proc[p].check
      BY <2>4, EndFields DEF Ends
    <3> QED
      BY <1>1, <1>2, <1>3, <3>1 DEF NoCheck
  <2>5. CASE Working(p) /\ ~Chooses(p)
    <3>1. SameWork(p)
      BY <2>5, WorkingKeeps
    <3> QED
      BY <1>1, <1>2, <1>3, <3>1 DEF SameWork
  <2>6. CASE SelectCandidates(p)
    BY <1>1, <1>2, <1>3, <2>6, SelectFields
  <2>7. CASE SpawnCheck(p)
    <3>1. /\ proc'[p].todo = proc[p].todo \cup {made + 1} /\ proc'[p].check = proc[p].check
          /\ made' = made + 1
      BY <2>7, SpawnFields
    <3> QED
      BY <1>1, <1>2, <1>3, <3>1
  <2>8. CASE FanOut(p)
    <3>1. \/ proc'[p].todo = proc[p].todo /\ proc'[p].check = proc[p].check
          \/ \E c \in proc[p].todo :
                /\ proc'[p].todo = proc[p].todo \ {c}
                /\ proc'[p].check = proc[p].check \/ proc'[p].check = c
      BY <2>8, FanOutFields, Zenon DEF SameWork
    <3> QED
      BY <1>1, <1>2, <1>3, <3>1
  <2> QED
    BY <2>1, <2>2, <2>3, <2>4, <2>5, <2>6, <2>7, <2>8, StepIs DEF Chooses
<1>5. ASSUME NEW task \in Task, queued'[task] > 0 PROVE task.check <= made'
  <2>1. task.check \in Nat /\ queued[task] \in Nat
    <3>1. task.check \in CheckIds \cup {NoCheck}
      BY DEF Task
    <3> QED
      BY <3>1, PipelineAssumption, ProcTyped DEF CheckIds, NoCheck
  <2>2. task.check <= made
    <3>1. CASE queued'[task] = queued[task]
      BY <1>2, <1>5, <3>1
    <3>2. CASE task = [job |-> proc[p].job, check |-> proc[p].check]
      BY <1>2, <3>2
    <3>3. CASE \E c \in proc[p].todo : task = CheckTask(c)
      BY <1>2, <3>3 DEF CheckTask
    <3>4. CASE Deliver(p, task)
      BY <1>2, <3>4, DeliverFields
    <3> QED
      BY <3>1, <3>2, <3>3, <3>4, QueueMoves
  <2> QED
    BY <1>1, <1>3, <2>1, <2>2
<1>6. ASSUME NEW q \in Procs PROVE proc'[q].check <= made' /\ \A c \in proc'[q].todo : c <= made'
  <2>1. CASE q = p
    BY <1>4, <2>1
  <2>2. CASE q # p
    <3>1. proc'[q] = proc[q] /\ proc[q].check <= made /\ \A c \in proc[q].todo : c <= made
      BY <1>1, <2>2 DEF Alone, Known
    <3> QED
      BY <1>1, <1>3, <3>1
  <2> QED
    BY <2>1, <2>2
<1> QED
  BY <1>3, <1>5, <1>6 DEF Known
-----------------------------------------------------------------------------
(* What is told stays told until the checks are gone. *)

LEMMA ToldKept ==
    ASSUME NothingDropped, TypeOK, NEW p \in Procs, Arrive(p) \/ Proceed(p) \/ Fault(p), Told,
           ~ClearChecks(p)
    PROVE  Told'
<1>1. CASE \E r \in Procs : At(r, "clear")
  <2>1. PICK r \in Procs : At(r, "clear")
    BY <1>1
  <2>2. r # p
    BY <2>1, NoCrash, StepsAt
  <2>3. At(r, "clear")'
    BY <2>1, <2>2, StepAlone DEF Alone, At
  <2> QED
    BY <2>3 DEF Told
<1>2. CASE stmt.issues
  <2>1. \/ stmt'.issues
        \/ proc'[p].pc = "clear"
    BY <1>2, IssuesKept, IssuesMoved
  <2> QED
    BY <2>1 DEF Told, At
<1> QED
  BY <1>1, <1>2 DEF Told

LEMMA VersionTold ==
    ASSUME TypeOK, NEW p \in Procs, Arrive(p) \/ Proceed(p) \/ Fault(p), stmt'.v # stmt.v
    PROVE  Told'
<1>1. \/ stmt'.issues
      \/ proc'[p].pc = "clear"
  BY IssuesKept, IssuesMoved
<1> QED
  BY <1>1 DEF Told, At

LEMMA Cleared == ASSUME NEW p \in Procs, ClearChecks(p), NEW c \in CheckIds
                 PROVE  ~Troubled(c)' /\ ~Existing(c)'
BY DEF ClearChecks, Troubled, Existing, Unmade

LEMMA FailuresKept ==
    ASSUME NothingDropped, TypeOK, NestedRuns, Known, FailuresTold, NEW p \in Procs,
           Arrive(p) \/ Proceed(p) \/ Fault(p)
    PROVE  FailuresTold'
<1> SUFFICES ASSUME NEW q \in Procs, (At(q, "failCheck") /\ Existing(proc[q].check))' PROVE Told'
  BY DEF FailuresTold
<1>1. Alone(p) /\ ~ClearChecks(p)
  BY StepAlone, Cleared DEF Existing
<1>2. CASE q = p
  <2>1. SaveFailed(p)
    <3>1. CASE Arrive(p) \/ Handles(p) \/ Succeed(p) \/ Rethrow(p)
      BY <1>2, <3>1, ArriveFields, HandlerFields, EndFields DEF Ends, At, IdleProc
    <3>2. CASE \E task \in Task : Deliver(p, task)
      BY <1>2, <3>2, DeliverFields DEF At
    <3>3. CASE Working(p) /\ ~SaveFailed(p)
      <4>0. proc[p] \in ProcState /\ proc[p].resume \in {"work", "done", "rethrow"}
        BY ProcTyped, Fields
      <4>1. proc'[p].pc = "failCheck"
        BY <1>2 DEF At
      <4>2. CASE Chooses(p)
        BY <4>1, <4>2, SelectFields, SpawnFields, FanOutFields DEF Chooses
      <4>3. CASE ~Chooses(p)
        <5>1. ASSUME NEW pc, NEW d, Become(p, [proc[p] EXCEPT !.doc = d, !.pc = pc]) PROVE pc = "failCheck"
          <6>1. proc'[p] = [proc[p] EXCEPT !.doc = d, !.pc = pc]
            BY <5>1, BecomeGives
          <6> QED
            BY <4>0, <4>1, <6>1, WorkFields
        <5>2. ASSUME NEW pc, Go(p, pc) PROVE pc = "failCheck"
          BY <4>1, <5>2, GoKeeps
        <5>3. ASSUME NEW resume, StartCount(p, resume) PROVE FALSE
          BY <4>1, <5>3, CountKeeps
        <5>4. ~LoadFailed(p) /\ ~LoadProgress(p)
          BY <5>1 DEF LoadFailed, LoadProgress
        <5>5. ~LoadStatement(p)
          BY <5>1 DEF LoadStatement
        <5>6. ~FailCheck(p) /\ ~MarkProcessing(p) /\ ~SaveResult(p)
          BY <5>2, <5>3 DEF FailCheck, MarkProcessing, SaveResult
        <5>7. /\ ~RefreshMatching(p) /\ ~FinishStructure(p) /\ ~FinishSpawn(p) /\ ~DeleteChecks(p)
              /\ ~FanOutError(p) /\ ~ArtifactError(p)
          BY <5>2 DEF RefreshMatching, FinishStructure, FinishSpawn, DeleteChecks, FanOutError,
                      ArtifactError
        <5>8. ~BeginExtract(p) /\ ~FinishExtract(p) /\ ~BeginStructure(p)
          BY <4>1, StatusGoes DEF BeginExtract, FinishExtract, BeginStructure, Continues
        <5>9. ~DeleteRows(p)
          <6> SUFFICES ASSUME DeleteRows(p) PROVE FALSE
            OBVIOUS
          <6>1. proc'[p] = [proc[p] EXCEPT !.left = Candidates, !.pc = "create"]
            BY BecomeGives DEF DeleteRows
          <6> QED
            BY <4>0, <4>1, <6>1, JobFields
        <5>10. ~CreateRow(p)
          BY <4>0, <4>1, BecomeGives, StateForm DEF CreateRow, At
        <5>11. ~FindCheck(p)
          <6> SUFFICES ASSUME FindCheck(p) PROVE FALSE
            OBVIOUS
          <6>1. \/ Go(p, "fail")
                \/ Become(p, [proc[p] EXCEPT !.was = checks[proc[p].check], !.pc = "mark"])
            BY DEF FindCheck
          <6>2. proc'[p] = [proc[p] EXCEPT !.was = checks[proc[p].check], !.pc = "mark"]
            BY <5>2, <6>1, BecomeGives
          <6> QED
            BY <4>0, <4>1, <6>2, JobFields
        <5>12. ~CountChecks(p)
          <6> SUFFICES ASSUME CountChecks(p) PROVE FALSE
            OBVIOUS
          <6>1. PICK seen : proc'[p] = [proc[p] EXCEPT !.seen = seen]
            BY BecomeGives DEF CountChecks
          <6> QED
            BY <4>0, <4>1, <6>1, WorkFields, Guards DEF At
        <5>13. ~SaveProgress(p)
          <6> SUFFICES ASSUME SaveProgress(p) PROVE FALSE
            OBVIOUS
          <6>1. proc'[p] = [proc[p] EXCEPT !.doc = Missing, !.seen = Uncounted, !.pc = proc[p].resume]
            BY BecomeGives DEF SaveProgress
          <6> QED
            BY <4>0, <4>1, <6>1, WorkFields
        <5> QED
          BY <3>3, <4>3, <5>4, <5>5, <5>6, <5>7, <5>8, <5>9, <5>10, <5>11, <5>12, <5>13, Zenon
             DEF Working, Chooses
      <4> QED
        BY <4>2, <4>3
    <3> QED
      BY <3>1, <3>2, <3>3, StepIs
  <2>2. stmt'.issues
    <3> DEFINE new == [proc[p].doc EXCEPT !.status = "failed", !.issues = TRUE]
    <3>1. stmt' = Saved(proc[p].doc, new, TRUE)
      <4>1. CASE Conflicts(proc[p].doc, TRUE)
        BY <1>2, <2>1, <4>1, GoKeeps DEF SaveFailed, At
      <4> QED
        BY <2>1, <4>1 DEF SaveFailed
    <3>2. new.issues = TRUE
      BY ProcTyped, Fields DEF StatementDoc
    <3> HIDE DEF new
    <3> QED
      BY <3>1, <3>2 DEF Saved
  <2> QED
    BY <2>2 DEF Told
<1>3. CASE q # p
  <2>1. proc'[q] = proc[q] /\ At(q, "failCheck")
    BY <1>1, <1>3 DEF Alone, At
  <2>2. proc[q].check <= made /\ made \in Nat
    BY ProcTyped DEF Known
  <2>3. Existing(proc[q].check)
    <3>1. proc[q].check \in Present'
      <4>1. Existing(proc[q].check)' /\ proc'[q].check = proc[q].check
        BY <2>1
      <4> QED
        BY <4>1 DEF Existing, Present
    <3>2. CASE SpawnCheck(p)
      <4>1. checks' = [checks EXCEPT ![made + 1] = NewCheck] /\ proc[q].check # made + 1
        BY <2>2, <3>2, SpawnFields, ProcTyped, Fields, PipelineAssumption DEF CheckIds, NoCheck
      <4> QED
        BY <3>1, <4>1, ProcTyped DEF Present, Existing
    <3>3. CASE ~SpawnCheck(p)
      BY <3>1, <3>3, MadeKept DEF Present, Existing
    <3> QED
      BY <3>2, <3>3
  <2>4. Told
    BY <2>1, <2>3 DEF FailuresTold
  <2> QED
    BY <1>1, <2>4, ToldKept
<1> QED
  BY <1>2, <1>3

\* A check is in new trouble when a retry takes it, when it is created, and when its job
\* marks it.
LEMMA NewTrouble ==
    ASSUME TypeOK, NEW p \in Procs, Arrive(p) \/ Proceed(p) \/ Fault(p), NEW c \in CheckIds,
           Troubled(c)', ~Troubled(c)
    PROVE  \/ RequeueCheck(p) /\ c = proc[p].check /\ Go(p, "enqueue")
           \/ SpawnCheck(p) /\ c = made + 1
           \/ MarkProcessing(p) /\ c = proc[p].check /\ StartCount(p, "work")
           \/ FailCheck(p) /\ c = proc[p].check /\ Existing(c)
<1>0. checks \in [CheckIds -> Check] /\ checks' # checks
  BY ProcTyped DEF Troubled
<1>1. \/ ClearChecks(p) \/ DeleteChecks(p) \/ RequeueCheck(p) \/ SpawnCheck(p)
      \/ MarkProcessing(p) \/ FailCheck(p) \/ SaveResult(p)
  BY <1>0, Zenon DEF Arrive, CreateStatement, ReprocessStatement, RetryStatementCheck,
     RequestOnly, Proceed, Fault, ResetStatement, Enqueue, EnqueueError,
     SaveExtracting, SaveDispatchFailed, Deliver, Succeed, Rethrow, Crash, LoadFailed, SaveFailed,
     LoadStatement, RefreshMatching, BeginExtract, FinishExtract, BeginStructure, DeleteRows, CreateRow,
     FinishStructure, SelectCandidates, FinishSpawn, FanOut, FindCheck, CountChecks, LoadProgress, SaveProgress,
     FanOutError, ArtifactError, StatementOnly, ChecksOnly, ProcOnly, QueueOnly
<1>2. ~ClearChecks(p) /\ ~DeleteChecks(p)
  BY DEF ClearChecks, DeleteChecks, Troubled, Unmade
<1>3. ~SaveResult(p)
  BY <1>0 DEF SaveResult, Troubled, Check
<1>4. RequeueCheck(p) => c = proc[p].check /\ Go(p, "enqueue")
  BY <1>0 DEF RequeueCheck, Troubled, Check
<1>5. SpawnCheck(p) => c = made + 1
  BY <1>0 DEF SpawnCheck, Troubled
<1>6. MarkProcessing(p) => c = proc[p].check /\ StartCount(p, "work")
  BY <1>0 DEF MarkProcessing, Troubled, Check
<1>7. FailCheck(p) => c = proc[p].check /\ Existing(c)
  BY <1>0 DEF FailCheck, Troubled, Check
<1> QED
  BY <1>1, <1>2, <1>3, <1>4, <1>5, <1>6, <1>7

\* The check of p's job: p goes on carrying it, or has handed it to the queue, told of it
\* or finished it.
LEMMA RunsOn ==
    ASSUME NothingDropped, TypeOK, Asked, NEW p \in Procs, Arrive(p) \/ Proceed(p) \/ Fault(p),
           NEW c \in CheckIds, RunsCheck(p, c), Troubled(c)'
    PROVE  Told' \/ queued'[CheckTask(c)] > 0 \/ RunsCheck(p, c)'
<1>0. /\ c # NoCheck /\ ~Crash(p) /\ proc[p].check = c /\ proc[p] \in ProcState
      /\ checks \in [CheckIds -> Check] /\ queued \in [Task -> Nat] /\ CheckTask(c) \in Task
  BY NoCrash, ProcTyped, PipelineAssumption
     DEF RunsCheck, CheckIds, NoCheck, Task, Job, CheckTask
<1>1. CASE At(p, "enqueue")
  <2>1. proc[p].job = "check"
    BY <1>1 DEF RunsCheck, At
  <2>2. ~EnqueueError(p)
    <3>1. "retry" \in Handlers
      BY <1>0, <1>1 DEF Asked, At
    <3>2. mode \in Modes
      BY DEF TypeOK
    <3> QED
      BY <3>1, <3>2 DEF NothingDropped, EnqueueError
  <2>3. Enqueue(p)
    BY <1>0, <1>1, <2>2, StepsAt
  <2>4. CASE mode = "tasks"
    <3>1. Put(CheckTask(c))
      BY <1>0, <2>1, <2>3, <2>4 DEF Enqueue, CheckTask
    <3> QED
      BY <1>0, <3>1 DEF Put
  <2>5. CASE mode # "tasks"
    BY <1>0, <2>1, <2>3, <2>5, GoKeeps DEF Enqueue, SameWork, RunsCheck
  <2> QED
    BY <2>4, <2>5
<1>2. CASE At(p, "load")
  <2>1. LoadStatement(p) /\ proc[p].job = "check"
    BY <1>0, <1>2, StepsAt DEF RunsCheck, At
  <2>2. PICK d, pc : Become(p, [proc[p] EXCEPT !.doc = d, !.pc = pc]) /\ pc = "findCheck"
    BY <1>0, <2>1 DEF LoadStatement
  <2>3. proc'[p] = [proc[p] EXCEPT !.doc = d, !.pc = pc]
    BY <2>2, BecomeGives
  <2>4. proc'[p].check = c /\ proc'[p].pc = "findCheck"
    BY <1>0, <2>2, <2>3, WorkFields
  <2> QED
    BY <2>4 DEF RunsCheck
<1>3. CASE At(p, "findCheck")
  <2>1. FindCheck(p)
    BY <1>0, <1>3, StepsAt
  <2>2. CASE Existing(c)
    <3>1. proc'[p] = [proc[p] EXCEPT !.was = checks[c], !.pc = "mark"]
      BY <1>0, <2>1, <2>2, BecomeGives DEF FindCheck
    <3>2. proc'[p].check = c /\ proc'[p].pc = "mark"
      BY <1>0, <3>1, StateForm
    <3> QED
      BY <3>2 DEF RunsCheck
  <2>3. CASE ~Existing(c)
    BY <1>0, <2>1, <2>3, GoKeeps DEF FindCheck, SameWork, RunsCheck
  <2> QED
    BY <2>2, <2>3
<1>4. CASE At(p, "mark")
  <2>1. MarkProcessing(p)
    BY <1>0, <1>4, StepsAt
  <2>2. StartCount(p, "work") \/ Go(p, "fail")
    BY <2>1 DEF MarkProcessing
  <2> QED
    BY <1>0, <2>2, GoKeeps, CountKeeps DEF SameWork, RunsCheck
<1>5. CASE At(p, "work")
  <2>1. Go(p, "fail")
    <3>1. ASSUME SaveResult(p) PROVE ~Existing(c)
      BY <1>0, <3>1 DEF SaveResult, Troubled, Check
    <3> QED
      BY <1>0, <1>5, <3>1, StepsAt DEF SaveResult, ArtifactError
  <2> QED
    BY <1>0, <2>1, GoKeeps DEF SameWork, RunsCheck
<1>6. CASE At(p, "count")
  <2>1. proc[p].resume = "work"
    BY <1>6 DEF RunsCheck, At
  <2>2. CASE CountChecks(p)
    <3>1. PICK seen : proc'[p] = [proc[p] EXCEPT !.seen = seen]
      BY <2>2, BecomeGives DEF CountChecks
    <3>2. proc'[p].check = c /\ proc'[p].resume = "work" /\ proc'[p].pc = "count"
      BY <1>0, <1>6, <2>1, <3>1, WorkFields DEF At
    <3> QED
      BY <3>2 DEF RunsCheck
  <2>3. CASE LoadProgress(p)
    <3>1. proc'[p] = [proc[p] EXCEPT !.doc = stmt, !.pc = "progress"]
      BY <2>3, BecomeGives DEF LoadProgress
    <3>2. proc'[p].check = c /\ proc'[p].resume = "work" /\ proc'[p].pc = "progress"
      BY <1>0, <2>1, <3>1, WorkFields
    <3> QED
      BY <3>2 DEF RunsCheck
  <2> QED
    BY <1>0, <1>6, <2>2, <2>3, StepsAt
<1>7. CASE At(p, "progress")
  <2>1. proc[p].resume = "work" /\ SaveProgress(p)
    BY <1>0, <1>7, StepsAt DEF RunsCheck, At
  <2>2. proc'[p] = [proc[p] EXCEPT !.doc = Missing, !.seen = Uncounted, !.pc = proc[p].resume]
    BY <2>1, BecomeGives DEF SaveProgress
  <2>3. proc'[p].check = c /\ proc'[p].pc = "work"
    BY <1>0, <2>1, <2>2, WorkFields
  <2> QED
    BY <2>3 DEF RunsCheck
<1>8. CASE At(p, "fail")
  <2>1. LoadFailed(p)
    BY <1>0, <1>8, StepsAt
  <2>2. proc'[p] = [proc[p] EXCEPT !.doc = stmt, !.pc = "saveFailed"] /\ stmt' = stmt
    BY <2>1, BecomeGives DEF LoadFailed, ProcOnly
  <2>3. proc'[p].check = c /\ proc'[p].pc = "saveFailed" /\ proc'[p].doc = stmt'
    BY <1>0, <2>2, WorkFields
  <2> QED
    BY <2>3 DEF RunsCheck, At, Fresh
<1>9. CASE At(p, "saveFailed")
  <2>1. SaveFailed(p) /\ Fresh(p)
    BY <1>0, <1>9, StepsAt DEF RunsCheck, At
  <2>2. stmt'.v # stmt.v
    <3>1. stmt'.v = stmt.v + 1 /\ stmt.v \in Nat
      BY <2>1, ProcTyped DEF SaveFailed, Fresh, Conflicts, Saved, StatementDoc
    <3> QED
      BY <3>1
  <2> QED
    BY <2>2, VersionTold
<1> QED
  BY <1>1, <1>2, <1>3, <1>4, <1>5, <1>6, <1>7, <1>8, <1>9 DEF RunsCheck, At

\* The checks of p's checks.spawn, likewise.
LEMMA HasToRunOn ==
    ASSUME NothingDropped, TypeOK, NestedRuns, NEW p \in Procs, Arrive(p) \/ Proceed(p) \/ Fault(p),
           NEW c \in CheckIds, HasToRun(p, c)
    PROVE  Told' \/ queued'[CheckTask(c)] > 0 \/ Carries(p, c)'
<1>0. /\ ~Crash(p) /\ c \in proc[p].todo /\ proc[p] \in ProcState
      /\ queued \in [Task -> Nat] /\ CheckTask(c) \in Task
  BY NoCrash, ProcTyped DEF HasToRun, Task, Job, CheckTask
<1>1. CASE proc[p].nested
  <2>1. proc[p].job = "check" /\ proc[p].pc \in NestedSteps
    BY <1>1 DEF NestedRuns
  <2>2. ~Arrive(p) /\ ~Chooses(p) /\ \A task \in Task : ~Deliver(p, task)
    BY <2>1, Guards DEF NestedSteps, At, Chooses
  <2>3. ~Handles(p)
    BY <2>1, Guards DEF NestedSteps, At, Handles
  <2>4. CASE Working(p)
    BY <1>0, <1>1, <2>2, <2>4, WorkingKeeps DEF SameWork, HasToRun, Carries
  <2>5. CASE Succeed(p) \/ Rethrow(p)
    BY <1>0, <1>1, <2>5, EndFields DEF Ends, HasToRun, Carries
  <2> QED
    BY <2>2, <2>3, <2>4, <2>5, StepIs
<1>2. CASE At(p, "spawn")
  <2>1. CASE SpawnCheck(p)
    BY <1>0, <2>1, SpawnFields DEF HasToRun, Carries
  <2>2. CASE FinishSpawn(p) \/ ArtifactError(p)
    <3>1. Go(p, "fanOut") \/ Go(p, "fail")
      BY <2>2 DEF FinishSpawn, ArtifactError
    <3> QED
      BY <1>0, <3>1, GoKeeps DEF SameWork, HasToRun, Carries
  <2> QED
    BY <1>0, <1>2, <2>1, <2>2, StepsAt
<1>3. CASE At(p, "fanOut")
  <2>1. CASE FanOutError(p)
    BY <1>0, <2>1, GoKeeps DEF FanOutError, SameWork, HasToRun, Carries
  <2>2. CASE FanOut(p)
    <3>1. PICK d \in proc[p].todo :
                 /\ proc'[p].todo = proc[p].todo \ {d}
                 /\ \/ Put(CheckTask(d)) /\ proc'[p].pc = "fanOut"
                    \/ /\ proc'[p].job = "check" /\ proc'[p].check = d /\ proc'[p].nested
                       /\ proc'[p].pc = "load"
      BY <1>0, <2>2, FanOutFields
    <3>2. CASE d = c
      <4>1. CASE Put(CheckTask(c))
        BY <1>0, <4>1 DEF Put
      <4>2. CASE proc'[p].job = "check" /\ proc'[p].check = c /\ proc'[p].pc = "load"
        BY <4>2 DEF RunsCheck, Carries
      <4> QED
        BY <3>1, <3>2, <4>1, <4>2
    <3>3. CASE d # c
      BY <1>0, <3>1, <3>3 DEF HasToRun, Carries
    <3> QED
      BY <3>2, <3>3
  <2> QED
    BY <1>0, <1>3, <2>1, <2>2, StepsAt
<1>4. CASE At(p, "fail")
  <2>1. LoadFailed(p)
    BY <1>0, <1>4, StepsAt
  <2>2. proc'[p] = [proc[p] EXCEPT !.doc = stmt, !.pc = "saveFailed"] /\ stmt' = stmt
    BY <2>1, BecomeGives DEF LoadFailed, ProcOnly
  <2>3. c \in proc'[p].todo /\ proc'[p].pc = "saveFailed" /\ proc'[p].doc = stmt'
    BY <1>0, <2>2, WorkFields
  <2> QED
    BY <2>3 DEF HasToRun, Carries, At, Fresh
<1>5. CASE At(p, "saveFailed") /\ Fresh(p)
  <2>1. SaveFailed(p)
    BY <1>0, <1>5, StepsAt
  <2>2. stmt'.v # stmt.v
    <3>1. stmt'.v = stmt.v + 1 /\ stmt.v \in Nat
      BY <1>5, <2>1, ProcTyped DEF SaveFailed, Fresh, Conflicts, Saved, StatementDoc
    <3> QED
      BY <3>1
  <2> QED
    BY <2>2, VersionTold
<1> QED
  BY <1>1, <1>2, <1>3, <1>4, <1>5 DEF HasToRun, At

\* Another process goes on carrying what it carries, until the statement tells.
LEMMA CarriedElsewhere ==
    ASSUME TypeOK, NEW p \in Procs, Arrive(p) \/ Proceed(p) \/ Fault(p),
           NEW q \in Procs, q # p, NEW c \in CheckIds, Carries(q, c)
    PROVE  Told' \/ Carries(q, c)'
<1>1. proc'[q] = proc[q]
  BY StepAlone DEF Alone
<1>2. CASE stmt'.v = stmt.v
  BY <1>1, <1>2 DEF Carries, RunsCheck, HasToRun, Fresh, At
<1>3. CASE stmt'.v # stmt.v
  BY <1>3, VersionTold
<1> QED
  BY <1>2, <1>3

LEMMA CarriedKept ==
    ASSUME NothingDropped, TroubleInv, NEW p \in Procs, Arrive(p) \/ Proceed(p) \/ Fault(p)
    PROVE  TroubleCarried'
<1> USE DEF TroubleInv
<1> SUFFICES ASSUME NEW c \in CheckIds, Troubled(c)'
             PROVE  Told' \/ queued'[CheckTask(c)] > 0 \/ \E q \in Procs : Carries(q, c)'
  BY DEF TroubleCarried
<1>0. ~ClearChecks(p) /\ CheckTask(c) \in Task /\ queued \in [Task -> Nat] /\ proc[p] \in ProcState
  BY Cleared, ProcTyped DEF Task, Job, CheckTask
<1>1. CASE ~Troubled(c)
  <2>1. CASE RequeueCheck(p) /\ c = proc[p].check /\ Go(p, "enqueue")
    <3>1. proc[p].job = "check"
      BY <2>1, Guards DEF Asked
    <3> QED
      BY <2>1, <3>1, GoKeeps DEF SameWork, Carries, RunsCheck
  <2>2. CASE SpawnCheck(p) /\ c = made + 1
    BY <2>2, SpawnFields DEF Carries, HasToRun
  <2>3. CASE MarkProcessing(p) /\ c = proc[p].check /\ StartCount(p, "work")
    BY <2>3, CountKeeps DEF SameWork, Carries, RunsCheck
  <2>4. CASE FailCheck(p) /\ c = proc[p].check /\ Existing(c)
    <3>1. Told
      BY <2>4, Guards DEF FailuresTold
    <3> QED
      BY <1>0, <3>1, ToldKept
  <2> QED
    BY <1>1, <2>1, <2>2, <2>3, <2>4, NewTrouble
<1>2. CASE Told
  BY <1>0, <1>2, ToldKept
<1>3. CASE queued[CheckTask(c)] > 0
  <2>1. CASE Deliver(p, CheckTask(c))
    <3>1. proc'[p].job = "check" /\ proc'[p].check = c /\ proc'[p].pc = "load"
      BY <1>0, <2>1, DeliverFields DEF CheckTask
    <3> QED
      BY <3>1 DEF Carries, RunsCheck
  <2>2. CASE \/ queued'[CheckTask(c)] = queued[CheckTask(c)]
             \/ queued'[CheckTask(c)] = queued[CheckTask(c)] + 1
    BY <1>0, <1>3, <2>2
  <2> QED
    BY <1>0, <2>1, <2>2, QueueMoves
<1>4. ASSUME NEW q \in Procs, Carries(q, c)
      PROVE  Told' \/ queued'[CheckTask(c)] > 0 \/ \E r \in Procs : Carries(r, c)'
  <2>1. CASE q # p
    BY <1>4, <2>1, CarriedElsewhere
  <2>2. CASE q = p /\ RunsCheck(p, c)
    BY <2>2, RunsOn DEF Carries
  <2>3. CASE q = p /\ HasToRun(p, c)
    BY <2>3, HasToRunOn
  <2> QED
    BY <1>4, <2>1, <2>2, <2>3 DEF Carries
<1>5. Troubled(c) => Told \/ queued[CheckTask(c)] > 0 \/ \E q \in Procs : Carries(q, c)
  BY DEF TroubleCarried
<1> QED
  BY <1>1, <1>2, <1>3, <1>4, <1>5

LEMMA TroubleInit == Init => TroubleInv
<1> SUFFICES ASSUME Init PROVE TroubleInv
  OBVIOUS
<1>1. TypeOK /\ SeenAll
  BY InitTyped
<1>2. /\ \A p \in Procs : proc[p] = IdleProc
      /\ IdleProc.pc = "idle" /\ IdleProc.check = 0 /\ IdleProc.todo = {} /\ IdleProc.nested = FALSE
  BY DEF Init, IdleProc, NoCheck
<1>3. Asked /\ NestedRuns /\ FailuresTold
  BY <1>2 DEF Asked, NestedRuns, FailuresTold, At
<1>4. Known
  <2>1. Present = {}
    BY NonePresent DEF Init
  <2> QED
    BY <1>2, <2>1 DEF Known, Init
<1>5. TroubleCarried
  BY DEF TroubleCarried, Troubled, Init, Unmade
<1> QED
  BY <1>1, <1>3, <1>4, <1>5 DEF TroubleInv

\* Trouble is told, for any workers, requests, modes and reprocesses, with documents and
\* OCR artifacts that fail, tasks delivered again and failing hand-overs, as long as no
\* process dies in the middle of a job and no retry loses its task: when nothing is left to
\* do, the statement of a check that is not finished, or has failed, has an issue.
THEOREM StatementTroubleReported == NothingDropped => (Spec => []TroubleIsReported)
<1> SUFFICES ASSUME NothingDropped PROVE Spec => []TroubleIsReported
  OBVIOUS
<1>1. Init => TroubleInv
  BY TroubleInit
<1>2. TroubleInv /\ [Next]_vars => TroubleInv'
  <2> SUFFICES ASSUME TroubleInv, [Next]_vars PROVE TroubleInv'
    OBVIOUS
  <2>1. CASE UNCHANGED vars
    BY <2>1 DEF vars, TroubleInv, TypeOK, SeenAll, Asked, Known, NestedRuns, FailuresTold,
       TroubleCarried, Present, Told, Troubled, Carries, RunsCheck, HasToRun, Fresh, At, Existing
  <2>2. CASE Next
    <3>1. PICK p \in Procs : Arrive(p) \/ Proceed(p) \/ Fault(p)
      BY <2>2 DEF Next
    <3> QED
      BY <3>1, ProceedTyped, SeenKept, AskedKept, KnownKept, NestedKept, FailuresKept, CarriedKept
         DEF TroubleInv
  <2> QED
    BY <2>1, <2>2
<1>3. TroubleInv => TroubleIsReported
  <2> SUFFICES ASSUME TroubleInv, Quiet, NEW c \in CheckIds, Open(c) \/ checks[c].status = "failed"
               PROVE  stmt.issues
    BY DEF TroubleIsReported
  <2>1. Troubled(c) /\ CheckTask(c) \in Task
    BY DEF Open, Troubled, CheckTask, Task, Job
  <2>2. queued[CheckTask(c)] = 0 /\ \A p \in Procs : proc[p].pc = "idle" /\ ~proc[p].nested
    BY <2>1 DEF Quiet, At, TroubleInv, NestedRuns, NestedSteps
  <2>3. Told
    BY <2>1, <2>2 DEF TroubleInv, TroubleCarried, Carries, RunsCheck, HasToRun, At
  <2> QED
    BY <2>2, <2>3 DEF Told, At
<1> QED
  BY <1>1, <1>2, <1>3, PTL DEF Spec

-----------------------------------------------------------------------------
(* One checks.spawn at a time. *)

\* The statement has been structured, requests only start over from checks.spawn or
\* retry a check, and no process dies.
OnlyChecks ==
    /\ Handlers \subseteq {"reprocess", "retry"} /\ FromJobs \subseteq AllModes \X {"spawn"}
    /\ "crash" \notin Faults

SpawnTask == [job |-> "spawn", check |-> NoCheck]

\* A reprocess or a checks.spawn, the checks it runs in place included.
Spawner(p) == proc[p].job = "spawn" \/ proc[p].nested

\* Reprocesses and runs of checks.spawn do not overlap; the jobs of checks may.
OneSpawner ==
    /\ \A p, q \in Procs : Spawner(p) /\ Spawner(q) => p = q
    /\ queued[SpawnTask] <= 1
    /\ queued[SpawnTask] > 0 => \A p \in Procs : ~Spawner(p)

\* Nothing is under way but these.
SpawnSteps == {"reset", "clear", "enqueue", "load", "deleteChecks", "select", "spawn", "fanOut",
               "fail", "saveFailed", "done", "rethrow"}
CheckSteps == {"requeue", "enqueue"} \cup NestedSteps
Spawns(x) == x.job = "spawn" /\ x.check = NoCheck /\ ~x.nested /\ x.pc \in SpawnSteps
Checks(x) == /\ x.job = "check" /\ x.check \in CheckIds /\ x.pc \in CheckSteps
             /\ x.nested => x.pc \in NestedSteps
Shape(x) == x = IdleProc \/ Spawns(x) \/ Checks(x)

Split ==
    /\ \A p \in Procs : Shape(proc[p])
    /\ \A task \in Task : queued[task] > 0 =>
          task = SpawnTask \/ \E c \in CheckIds : task = CheckTask(c)

LEMMA IdleShape == IdleProc.pc = "idle" /\ IdleProc.job = "extract" /\ IdleProc.nested = FALSE
BY DEF IdleProc

LEMMA SpawnNoCrash == ASSUME OnlyChecks, NEW p \in Procs PROVE ~Crash(p)
BY DEF OnlyChecks, Crash

\* The steps of a process that spawns, and of one that runs a check.
LEMMA SpawnActs ==
    ASSUME NEW p \in Procs, Working(p), Spawns(proc[p])
    PROVE  \/ LoadStatement(p) \/ DeleteChecks(p) \/ SelectCandidates(p) \/ SpawnCheck(p)
           \/ FinishSpawn(p) \/ FanOut(p) \/ FanOutError(p) \/ ArtifactError(p) \/ LoadFailed(p)
           \/ SaveFailed(p)
BY Guards DEF Working, Spawns, SpawnSteps, At

LEMMA CheckActs ==
    ASSUME NEW p \in Procs, Working(p), Checks(proc[p])
    PROVE  \/ LoadFailed(p) \/ SaveFailed(p) \/ FailCheck(p) \/ LoadStatement(p) \/ FindCheck(p)
           \/ MarkProcessing(p) \/ SaveResult(p) \/ CountChecks(p) \/ LoadProgress(p)
           \/ SaveProgress(p) \/ ArtifactError(p)
BY Guards DEF Working, Checks, CheckSteps, NestedSteps, At

LEMMA SpawnGoes ==
    ASSUME TypeOK, NEW p \in Procs, Working(p), Spawns(proc[p]), ~FanOut(p)
    PROVE  Spawns(proc'[p])
<1>0. proc[p] \in ProcState /\ proc[p].job = "spawn" /\ proc[p].check = NoCheck /\ ~proc[p].nested
  BY ProcTyped DEF Spawns
<1>1. ASSUME NEW pc \in SpawnSteps, Go(p, pc) PROVE Spawns(proc'[p])
  BY <1>0, <1>1, GoKeeps DEF Spawns, SameWork
<1>2. CASE LoadStatement(p)
  <2>1. PICK d, pc : Become(p, [proc[p] EXCEPT !.doc = d, !.pc = pc]) /\ pc = "deleteChecks"
    BY <1>0, <1>2 DEF LoadStatement
  <2>2. proc'[p] = [proc[p] EXCEPT !.doc = d, !.pc = pc]
    BY <2>1, BecomeGives
  <2>3. proc'[p].pc = "deleteChecks" /\ proc'[p].job = "spawn" /\ proc'[p].check = NoCheck
        /\ ~proc'[p].nested
    BY <1>0, <2>1, <2>2, WorkFields
  <2> QED
    BY <2>3 DEF Spawns, SpawnSteps
<1>3. CASE DeleteChecks(p)
  BY <1>1, <1>3 DEF DeleteChecks, SpawnSteps
<1>4. CASE SelectCandidates(p)
  <2>1. proc'[p] = [proc[p] EXCEPT !.left = rows, !.todo = {}, !.pc = "spawn"]
    BY <1>4, BecomeGives DEF SelectCandidates
  <2>2. proc'[p].pc = "spawn" /\ proc'[p].job = "spawn" /\ proc'[p].check = NoCheck
        /\ ~proc'[p].nested
    BY <1>0, <2>1, StateForm
  <2> QED
    BY <2>2 DEF Spawns, SpawnSteps
<1>5. CASE SpawnCheck(p)
  <2>1. proc'[p] = [proc[p] EXCEPT !.left = proc[p].left - 1, !.todo = proc[p].todo \cup {made + 1}]
    BY <1>5, BecomeGives DEF SpawnCheck
  <2>2. proc'[p].pc = proc[p].pc /\ proc'[p].job = "spawn" /\ proc'[p].check = NoCheck
        /\ ~proc'[p].nested
    BY <1>0, <2>1, StateForm
  <2> QED
    BY <2>2 DEF Spawns
<1>6. CASE FinishSpawn(p)
  BY <1>1, <1>6 DEF FinishSpawn, SpawnSteps
<1>7. CASE FanOutError(p) \/ ArtifactError(p)
  BY <1>1, <1>7 DEF FanOutError, ArtifactError, SpawnSteps
<1>8. CASE LoadFailed(p)
  <2>1. proc'[p] = [proc[p] EXCEPT !.doc = stmt, !.pc = "saveFailed"]
    BY <1>8, BecomeGives DEF LoadFailed
  <2>2. proc'[p].pc = "saveFailed" /\ proc'[p].job = "spawn" /\ proc'[p].check = NoCheck
        /\ ~proc'[p].nested
    BY <1>0, <2>1, WorkFields
  <2> QED
    BY <2>2 DEF Spawns, SpawnSteps
<1>9. CASE SaveFailed(p)
  <2>1. Go(p, "rethrow")
    BY <1>0, <1>9 DEF SaveFailed
  <2> QED
    BY <1>1, <2>1 DEF SpawnSteps
<1> QED
  BY <1>2, <1>3, <1>4, <1>5, <1>6, <1>7, <1>8, <1>9, SpawnActs

LEMMA ArriveShape ==
    ASSUME OnlyChecks, TypeOK, NEW p \in Procs, Arrive(p) PROVE Shape(proc'[p])
<1>1. ~CreateStatement(p)
  BY DEF OnlyChecks, CreateStatement, Serves
<1>2. CASE \E job \in Job : ReprocessStatement(p, job)
  <2>1. PICK job \in Job : ReprocessStatement(p, job)
    BY <1>2
  <2>2. job = "spawn"
    BY <2>1 DEF OnlyChecks, ReprocessStatement
  <2>3. proc'[p] = [[IdleProc EXCEPT !.doc = stmt, !.job = job]
                       EXCEPT !.caller = "reprocess", !.pc = "reset"]
    BY <2>1, BecomeGives DEF ReprocessStatement, Request
  <2>4. proc'[p].job = job /\ proc'[p].check = NoCheck /\ ~proc'[p].nested /\ proc'[p].pc = "reset"
    BY <2>3 DEF IdleProc
  <2> QED
    BY <2>2, <2>4 DEF Shape, Spawns, SpawnSteps
<1>3. CASE \E c \in CheckIds : RetryStatementCheck(p, c)
  <2>1. PICK c \in CheckIds : RetryStatementCheck(p, c)
    BY <1>3
  <2>2. proc'[p] = [[IdleProc EXCEPT !.job = "check", !.check = c, !.was = checks[c]]
                       EXCEPT !.caller = "retry", !.pc = "requeue"]
    BY <2>1, BecomeGives DEF RetryStatementCheck, Request
  <2>3. proc'[p].job = "check" /\ proc'[p].check = c /\ proc'[p].pc = "requeue" /\ ~proc'[p].nested
    BY <2>2 DEF IdleProc
  <2> QED
    BY <2>3 DEF Shape, Checks, CheckSteps
<1> QED
  BY <1>1, <1>2, <1>3 DEF Arrive

LEMMA HandlerShape ==
    ASSUME OnlyChecks, TypeOK, NEW p \in Procs, Shape(proc[p]), Handles(p) PROVE Shape(proc'[p])
<1>0. proc[p] \in ProcState /\ proc[p].caller # "create"
  BY ProcTyped, Fields DEF OnlyChecks
<1>1. CASE ResetStatement(p) \/ ClearChecks(p)
  <2>1. Spawns(proc[p])
    BY <1>1, Guards, IdleShape DEF Shape, Checks, CheckSteps, NestedSteps, At
  <2>2. proc'[p] = IdleProc \/ Go(p, "clear") \/ Go(p, "enqueue")
    BY <1>1, BecomeGives DEF ResetStatement, ClearChecks
  <2> QED
    BY <2>1, <2>2, GoKeeps DEF Shape, Spawns, SpawnSteps, SameWork
<1>2. CASE RequeueCheck(p)
  <2>1. Checks(proc[p]) /\ ~proc[p].nested
    BY <1>2, Guards, IdleShape DEF Shape, Spawns, SpawnSteps, Checks, NestedSteps, At
  <2>2. proc'[p] = IdleProc \/ Go(p, "enqueue")
    BY <1>2, BecomeGives DEF RequeueCheck
  <2> QED
    BY <2>1, <2>2, GoKeeps DEF Shape, Checks, CheckSteps, SameWork
<1>3. CASE Enqueue(p) \/ EnqueueError(p)
  <2>1. Spawns(proc[p]) \/ Checks(proc[p])
    BY <1>3, Guards, IdleShape DEF Shape, At
  <2>2. proc'[p] = IdleProc \/ Go(p, "load")
    BY <1>0, <1>3, BecomeGives DEF Enqueue, EnqueueError, Returned, Threw
  <2> QED
    BY <2>1, <2>2, GoKeeps DEF Shape, Spawns, Checks, SpawnSteps, CheckSteps, NestedSteps, SameWork
<1>4. CASE SaveExtracting(p) \/ SaveDispatchFailed(p)
  BY <1>4, BecomeGives DEF SaveExtracting, SaveDispatchFailed, Shape
<1> QED
  BY <1>1, <1>2, <1>3, <1>4 DEF Handles

LEMMA EndShape ==
    ASSUME OnlyChecks, TypeOK, NEW p \in Procs, Shape(proc[p]), Succeed(p) \/ Rethrow(p)
    PROVE  Shape(proc'[p])
<1>0. /\ proc[p] \in ProcState /\ proc[p].caller # "create"
      /\ proc[p].job \in {"spawn", "check"}
  <2>1. proc[p].pc # "idle"
    BY Guards DEF At
  <2> QED
    BY <2>1, IdleShape, ProcTyped, Fields DEF OnlyChecks, Shape, Spawns, Checks
<1>1. ASSUME NEW pc \in {"fanOut", "fail"}, BackToSpawn(p, pc) PROVE Shape(proc'[p])
  <2>1. proc'[p] = [proc[p] EXCEPT !.job = "spawn", !.check = NoCheck, !.nested = FALSE, !.pc = pc]
    BY <1>1, BecomeGives DEF BackToSpawn
  <2>2. ~proc'[p].nested /\ proc'[p].job = "spawn" /\ proc'[p].check = NoCheck /\ proc'[p].pc = pc
    BY <1>0, <2>1, StateForm
  <2> QED
    BY <1>1, <2>2 DEF Shape, Spawns, SpawnSteps
<1>2. \/ \E pc \in {"fanOut", "fail"} : BackToSpawn(p, pc)
      \/ proc'[p] = IdleProc
  BY <1>0, BecomeGives DEF Succeed, Rethrow, Returned, Threw, NextJob
<1> QED
  BY <1>1, <1>2 DEF Shape

LEMMA SplitKept ==
    ASSUME OnlyChecks, TypeOK, Split, NEW p \in Procs, Arrive(p) \/ Proceed(p) \/ Fault(p)
    PROVE  Split'
<1>0. /\ Alone(p) /\ Shape(proc[p]) /\ proc[p] \in ProcState /\ queued \in [Task -> Nat]
      /\ ~Crash(p)
  BY StepAlone, ProcTyped, SpawnNoCrash DEF Split
<1>1. Shape(proc'[p])
  <2>1. CASE \E task \in Task : Deliver(p, task)
    <3>1. PICK task \in Task : Deliver(p, task)
      BY <2>1
    <3>2. /\ proc'[p].job = task.job /\ proc'[p].check = task.check /\ proc'[p].pc = "load"
          /\ ~proc'[p].nested
      BY <3>1, DeliverFields
    <3>3. task = SpawnTask \/ \E c \in CheckIds : task = CheckTask(c)
      BY <3>1, DeliverFields DEF Split
    <3> QED
      BY <3>2, <3>3 DEF Shape, Spawns, Checks, SpawnSteps, CheckSteps, NestedSteps, SpawnTask, CheckTask
  <2>2. CASE Working(p) /\ Spawns(proc[p]) /\ ~FanOut(p)
    BY <2>2, SpawnGoes DEF Shape
  <2>3. CASE FanOut(p)
    <3>1. Spawns(proc[p])
      BY <1>0, <2>3, Guards, IdleShape DEF Shape, Checks, CheckSteps, NestedSteps, At
    <3>2. proc[p].todo \subseteq CheckIds
      BY ProcTyped, Fields
    <3>3. CASE SameWork(p) /\ proc'[p].pc = "done"
      BY <3>1, <3>3 DEF Shape, Spawns, SpawnSteps, SameWork
    <3>4. CASE /\ mode = "tasks" /\ proc[p].todo # {}
      <4> DEFINE c == CHOOSE c \in proc[p].todo : \A d \in proc[p].todo : c <= d
                 left == proc[p].todo \ {c}
      <4> HIDE DEF left
      <4>1. proc'[p] = [proc[p] EXCEPT !.todo = left]
        BY <2>3, <3>4, BecomeGives DEF FanOut, left
      <4>2. proc'[p].job = proc[p].job /\ proc'[p].check = proc[p].check
            /\ proc'[p].nested = proc[p].nested /\ proc'[p].pc = proc[p].pc
        BY <1>0, <4>1, StateForm
      <4> QED
        BY <3>1, <4>2 DEF Shape, Spawns
    <3>5. CASE /\ mode # "tasks" /\ proc[p].todo # {}
      <4>1. \E c \in proc[p].todo : proc'[p].job = "check" /\ proc'[p].check = c /\ proc'[p].pc = "load"
        BY <2>3, <3>5, FanOutFields
      <4> QED
        BY <3>2, <4>1 DEF Shape, Checks, CheckSteps, NestedSteps
    <3> QED
      BY <2>3, <3>3, <3>4, <3>5, FanOutFields
  <2>4. CASE Working(p) /\ Checks(proc[p])
    <3>1. ~Chooses(p) /\ proc[p].pc \in NestedSteps /\ proc[p].job = "check"
      <4>1. proc[p].pc \in CheckSteps /\ proc[p].job = "check"
        BY <2>4 DEF Checks
      <4>2. proc[p].pc \in JobSteps
        BY <2>4, WorkingLeads DEF Leads
      <4> QED
        BY <4>1, <4>2, Guards DEF Chooses, CheckSteps, NestedSteps, JobSteps, At
    <3>2. SameWork(p) /\ proc'[p].pc \in NestedSteps
      BY <2>4, <3>1, WorkingKeeps, NestedGoes
    <3> QED
      BY <2>4, <3>2 DEF Shape, Checks, CheckSteps, SameWork
  <2>5. CASE Working(p) /\ proc[p] = IdleProc
    BY <2>5, WorkingLeads, IdleShape DEF Leads, JobSteps
  <2> QED
    BY <1>0, <2>1, <2>2, <2>3, <2>4, <2>5, ArriveShape, HandlerShape, EndShape, StepKinds, Zenon
       DEF Shape, Handles
<1>2. ASSUME NEW q \in Procs PROVE Shape(proc'[q])
  <2>1. q # p => proc'[q] = proc[q]
    BY <1>0 DEF Alone
  <2> HIDE DEF Shape
  <2> QED
    BY <1>1, <2>1 DEF Split
<1>3. ASSUME NEW task \in Task, queued'[task] > 0
      PROVE  task = SpawnTask \/ \E c \in CheckIds : task = CheckTask(c)
  <2>1. CASE ~At(p, "idle") /\ task = [job |-> proc[p].job, check |-> proc[p].check]
    BY <1>0, <2>1, IdleShape DEF At, Shape, Spawns, Checks, SpawnTask, CheckTask
  <2>2. CASE \E c \in proc[p].todo : task = CheckTask(c)
    BY <2>2, ProcTyped, Fields
  <2>3. CASE queued'[task] = queued[task]
    BY <1>3, <2>3 DEF Split
  <2>4. CASE Deliver(p, task)
    BY <2>4, DeliverFields DEF Split
  <2> QED
    BY <2>1, <2>2, <2>3, <2>4, QueueMoves
<1> QED
  BY <1>2, <1>3 DEF Split

\* What checks.spawn has made, and has still to hand over, is there.
TodoPresent ==
    \A p \in Procs :
       /\ At(p, "select") => Present = {}
       /\ At(p, "spawn") => proc[p].todo = Present
       /\ At(p, "fanOut") \/ proc[p].nested => proc[p].todo \subseteq Present

\* Where the steps of a checks.spawn lead that create no check and hand none over.
LEMMA SpawnLeads ==
    ASSUME TypeOK, NEW p \in Procs, Working(p), Spawns(proc[p]), ~Chooses(p), ~DeleteChecks(p),
           ~FinishSpawn(p)
    PROVE  proc'[p].pc \in {"deleteChecks", "fail", "saveFailed", "rethrow"}
<1>0. proc[p] \in ProcState /\ proc[p].job = "spawn"
  BY ProcTyped DEF Spawns
<1>1. CASE LoadStatement(p)
  <2>1. PICK d, pc : Become(p, [proc[p] EXCEPT !.doc = d, !.pc = pc]) /\ pc = "deleteChecks"
    BY <1>0, <1>1 DEF LoadStatement
  <2>2. proc'[p] = [proc[p] EXCEPT !.doc = d, !.pc = pc]
    BY <2>1, BecomeGives
  <2> QED
    BY <1>0, <2>1, <2>2, WorkFields
<1>2. CASE LoadFailed(p)
  <2>1. proc'[p] = [proc[p] EXCEPT !.doc = stmt, !.pc = "saveFailed"]
    BY <1>2, BecomeGives DEF LoadFailed
  <2> QED
    BY <1>0, <2>1, WorkFields
<1>3. CASE SaveFailed(p)
  BY <1>0, <1>3, GoKeeps DEF SaveFailed
<1>4. CASE FanOutError(p) \/ ArtifactError(p)
  BY <1>4, GoKeeps DEF FanOutError, ArtifactError
<1> QED
  BY <1>1, <1>2, <1>3, <1>4, SpawnActs DEF Chooses

\* Which checks there are changes by these steps only.
LEMMA PresentSame ==
    ASSUME TypeOK, NEW p \in Procs, Arrive(p) \/ Proceed(p) \/ Fault(p),
           ~ClearChecks(p), ~DeleteChecks(p), ~SpawnCheck(p)
    PROVE  Present' = Present
<1>0. checks \in [CheckIds -> Check]
  BY ProcTyped
<1>1. CASE RequeueCheck(p)
  <2>1. \A c \in CheckIds : checks'[c].status = "none" <=> checks[c].status = "none"
    BY <1>0, <1>1 DEF RequeueCheck, Existing, Check
  <2> QED
    BY <2>1 DEF Present
<1>2. CASE FailCheck(p)
  <2>1. \A c \in CheckIds : checks'[c].status = "none" <=> checks[c].status = "none"
    BY <1>0, <1>2 DEF FailCheck, Existing, Check
  <2> QED
    BY <2>1 DEF Present
<1>3. CASE MarkProcessing(p)
  <2>1. \A c \in CheckIds : checks'[c].status = "none" <=> checks[c].status = "none"
    BY <1>0, <1>3 DEF MarkProcessing, Existing, Check
  <2> QED
    BY <2>1 DEF Present
<1>4. CASE SaveResult(p)
  <2>1. \A c \in CheckIds : checks'[c].status = "none" <=> checks[c].status = "none"
    BY <1>0, <1>4 DEF SaveResult, Existing, Check
  <2> QED
    BY <2>1 DEF Present
<1>5. CASE ~RequeueCheck(p) /\ ~FailCheck(p) /\ ~MarkProcessing(p) /\ ~SaveResult(p)
  <2>1. checks' = checks
    BY <1>5, Zenon DEF Arrive, CreateStatement, ReprocessStatement, RetryStatementCheck,
       RequestOnly, Proceed, Fault, ResetStatement, Enqueue, EnqueueError,
       SaveExtracting, SaveDispatchFailed, Deliver, Succeed, Rethrow, Crash, LoadFailed, SaveFailed,
       LoadStatement, RefreshMatching, BeginExtract, FinishExtract, BeginStructure, DeleteRows,
       CreateRow, FinishStructure, SelectCandidates, FinishSpawn, FanOut, FindCheck, CountChecks,
       LoadProgress, SaveProgress, FanOutError, ArtifactError, StatementOnly, ChecksOnly, ProcOnly,
       QueueOnly
  <2> QED
    BY <2>1 DEF Present
<1> QED
  BY <1>1, <1>2, <1>3, <1>4, <1>5

LEMMA PresentCleared ==
    ASSUME NEW p \in Procs, ClearChecks(p) \/ DeleteChecks(p) PROVE Present' = {}
BY DEF ClearChecks, DeleteChecks, Present, Unmade

LEMMA PresentGrows ==
    ASSUME TypeOK, NEW p \in Procs, SpawnCheck(p) PROVE Present' = Present \cup {made + 1}
<1>1. checks \in [CheckIds -> Check] /\ made + 1 \in CheckIds
  BY ProcTyped, SpawnFields
<1> QED
  BY <1>1 DEF SpawnCheck, Present, NewCheck, Unmade

\* Who deletes or creates checks is the one spawner.
LEMMA SpawnerActs ==
    ASSUME Split, NEW p \in Procs, ClearChecks(p) \/ DeleteChecks(p) \/ SpawnCheck(p)
    PROVE  Spawner(p)
<1>1. Shape(proc[p])
  BY DEF Split
<1> QED
  BY <1>1, Guards, IdleShape DEF Shape, Spawns, Checks, CheckSteps, NestedSteps, At, Spawner

LEMMA TodoKept ==
    ASSUME OnlyChecks, OneSpawner, TypeOK, Split, TodoPresent, NEW p \in Procs,
           Arrive(p) \/ Proceed(p) \/ Fault(p)
    PROVE  TodoPresent'
<1>0. /\ Alone(p) /\ Shape(proc[p]) /\ proc[p] \in ProcState
      /\ ~Crash(p)
  BY StepAlone, ProcTyped, SpawnNoCrash DEF Split
<1>1. /\ At(p, "select") => Present = {}
      /\ At(p, "spawn") => proc[p].todo = Present
      /\ At(p, "fanOut") \/ proc[p].nested => proc[p].todo \subseteq Present
  BY DEF TodoPresent
<1> DEFINE Fine(x, there) ==
        /\ x.pc = "select" => there = {}
        /\ x.pc = "spawn" => x.todo = there
        /\ x.pc = "fanOut" \/ x.nested => x.todo \subseteq there
<1>2. Fine(proc'[p], Present')
  <2>1. CASE SpawnCheck(p)
    <3>1. ~proc[p].nested /\ proc[p].pc = "spawn"
      BY <1>0, <2>1, Guards, IdleShape DEF Shape, Spawns, Checks, CheckSteps, NestedSteps, At
    <3>2. proc'[p].todo = Present' /\ ~proc'[p].nested /\ proc'[p].pc = "spawn"
      BY <1>1, <2>1, <3>1, SpawnFields, PresentGrows DEF At
    <3> QED
      BY <3>2
  <2>2. CASE DeleteChecks(p) \/ ClearChecks(p)
    <3>1. ~proc[p].nested
      BY <1>0, <2>2, Guards, IdleShape DEF Shape, Spawns, Checks, CheckSteps, NestedSteps, At
    <3>2. Present' = {} /\ (Go(p, "select") \/ Go(p, "enqueue"))
      BY <2>2, PresentCleared DEF DeleteChecks, ClearChecks
    <3>3. ~proc'[p].nested /\ proc'[p].pc \in {"select", "enqueue"}
      BY <3>1, <3>2, GoKeeps DEF SameWork
    <3> QED
      BY <3>2, <3>3
  <2>3. CASE ~SpawnCheck(p) /\ ~DeleteChecks(p) /\ ~ClearChecks(p)
    <3>0. Present' = Present
      BY <2>3, PresentSame
    <3>1. CASE SelectCandidates(p)
      <4>1. ~proc[p].nested /\ proc[p].pc = "select"
        BY <1>0, <3>1, Guards, IdleShape DEF Shape, Spawns, Checks, CheckSteps, NestedSteps, At
      <4>2. proc'[p].todo = Present' /\ ~proc'[p].nested /\ proc'[p].pc = "spawn"
        BY <1>1, <3>0, <3>1, <4>1, SelectFields DEF At
      <4> QED
        BY <4>2
    <3>2. CASE FinishSpawn(p)
      <4>1. proc[p].pc = "spawn" /\ Go(p, "fanOut")
        BY <3>2, Guards DEF At, FinishSpawn
      <4>2. proc'[p].todo = Present' /\ proc'[p].pc = "fanOut"
        BY <1>1, <3>0, <4>1, GoKeeps DEF At, SameWork
      <4> QED
        BY <4>2
    <3>3. CASE FanOut(p)
      <4>1. proc[p].pc = "fanOut" /\ proc[p].todo \subseteq Present
        BY <1>1, <3>3, Guards DEF At
      <4>2. proc'[p].todo \subseteq proc[p].todo /\ proc'[p].pc \in {"fanOut", "load", "done"}
        BY <3>3, FanOutFields DEF SameWork
      <4> QED
        BY <3>0, <4>1, <4>2
    <3>4. CASE Succeed(p) \/ Rethrow(p)
      <4>1. \/ proc'[p] = IdleProc
            \/ /\ proc[p].nested /\ ~proc'[p].nested /\ proc'[p].todo = proc[p].todo
               /\ proc'[p].pc \in {"fanOut", "fail"}
            \/ ~proc'[p].nested /\ proc'[p].pc \in {"load", "created", "dispatchFailed"}
        BY <3>4, EndFields DEF Ends
      <4> QED
        BY <1>1, <3>0, <4>1, IdleShape
    <3>5. CASE Working(p) /\ ~Chooses(p) /\ ~FinishSpawn(p)
      <4>1. SameWork(p)
        BY <3>5, WorkingKeeps
      <4>2. CASE Spawns(proc[p])
        <5>1. proc'[p].pc \in {"deleteChecks", "fail", "saveFailed", "rethrow"}
          BY <2>3, <3>5, <4>2, SpawnLeads DEF Chooses
        <5> QED
          BY <1>1, <3>0, <4>1, <4>2, <5>1 DEF SameWork, Spawns
      <4>3. CASE Checks(proc[p])
        <5>1. proc'[p].pc \in NestedSteps
          <6>1. proc[p].pc \in JobSteps
            BY <3>5, WorkingLeads DEF Leads
          <6>2. proc[p].pc \in NestedSteps /\ proc[p].job = "check"
            BY <4>3, <6>1 DEF Checks, CheckSteps, JobSteps, NestedSteps
          <6> QED
            BY <3>5, <6>2, NestedGoes
        <5> QED
          BY <1>1, <3>0, <4>1, <5>1 DEF SameWork, NestedSteps
      <4>4. proc[p] # IdleProc
        BY <3>5, WorkingLeads, IdleShape DEF Leads, JobSteps
      <4> QED
        BY <1>0, <4>2, <4>3, <4>4 DEF Shape
    <3>6. CASE Handles(p)
      <4>1. ~proc[p].nested
        BY <1>0, <3>6, Guards, IdleShape DEF Shape, Spawns, Checks, NestedSteps, Handles, At
      <4> QED
        BY <1>1, <3>0, <3>6, <4>1, HandlerFields, IdleShape DEF SameWork
    <3>7. CASE Arrive(p) \/ \E task \in Task : Deliver(p, task)
      BY <3>7, ArriveFields, DeliverFields
    <3> QED
      BY <1>0, <3>1, <3>2, <3>3, <3>4, <3>5, <3>6, <3>7, <2>3, StepKinds, Zenon DEF Chooses, Handles
  <2> QED
    BY <2>1, <2>2, <2>3
<1>3. ASSUME NEW q \in Procs PROVE Fine(proc'[q], Present')
  <2>1. CASE q = p
    BY <1>2, <2>1
  <2>2. CASE q # p /\ Spawner(q)
    <3>1. Present' = Present
      BY <2>2, SpawnerActs, PresentSame DEF OneSpawner
    <3>2. proc'[q] = proc[q] /\ Fine(proc[q], Present)
      BY <1>0, <2>2 DEF Alone, TodoPresent, At
    <3> QED
      BY <3>1, <3>2
  <2>3. CASE q # p /\ ~Spawner(q)
    <3>1. proc'[q] = proc[q] /\ Shape(proc[q])
      BY <1>0, <2>3 DEF Alone, Split
    <3>2. ~proc[q].nested /\ proc[q].pc \notin {"select", "spawn", "fanOut"}
      BY <2>3, <3>1, IdleShape DEF Shape, Spawns, Checks, CheckSteps, NestedSteps, Spawner
    <3> QED
      BY <3>1, <3>2
  <2> QED
    BY <2>1, <2>2, <2>3
<1> QED
  BY <1>3 DEF TodoPresent, At

-----------------------------------------------------------------------------
(* Once every check is finished, some process still has to say so.         *)

Done(status) == status \in {"ready_for_review", "failed"}

\* Counts that do not contradict a statement with checks that are all finished.
Good(seen) ==
    /\ "total" \in DOMAIN seen => seen["total"] > 0
    /\ "queued" \in DOMAIN seen => seen["queued"] = 0
    /\ "processing" \in DOMAIN seen => seen["processing"] = 0

\* p will finish the statement, unfinish a check or hand on to one that does.
Witness(p) ==
    \/ proc[p].pc \in {"clear", "spawn", "failCheck"}
    \/ At(p, "fanOut") /\ proc[p].todo # {}
    \/ At(p, "fail") /\ proc[p].job = "spawn"
    \/ At(p, "saveFailed") /\ proc[p].job = "spawn" /\ Fresh(p) /\ proc[p].doc.status # "failed"
    \/ At(p, "load") /\ proc[p].job = "check" /\ proc[p].check \in Present
    \/ At(p, "findCheck") /\ proc[p].check \in Present
    \/ At(p, "mark") /\ proc[p].check \in Present /\ proc[p].was.status # "processing"
    \/ At(p, "count") /\ proc[p].resume # "work" /\ Good(proc[p].seen)
    \/ At(p, "progress") /\ Good(proc[p].seen) /\ proc[p].doc.status # "ready_for_review"

Finishing ==
    \/ Done(stmt.status)
    \/ \E p \in Procs : Witness(p)
    \/ \E c \in Present : queued[CheckTask(c)] > 0

FinishClaim == Present # {} /\ Settled => Finishing

\* Where the status of a statement that only spawns and processes checks changes.
LEMMA StatusMoves ==
    ASSUME OnlyChecks, TypeOK, Split, NEW p \in Procs, Arrive(p) \/ Proceed(p) \/ Fault(p)
    PROVE  \/ stmt'.status = stmt.status
           \/ Done(stmt'.status)
           \/ ResetStatement(p) /\ Go(p, "clear")
           \/ FinishSpawn(p)
<1>1. Shape(proc[p]) /\ ~CreateStatement(p)
  BY DEF Split, OnlyChecks, CreateStatement, Serves
<1>2. /\ ~SaveExtracting(p) /\ ~SaveDispatchFailed(p) /\ ~BeginExtract(p) /\ ~FinishExtract(p)
      /\ ~BeginStructure(p) /\ ~FinishStructure(p)
  BY <1>1, Guards, IdleShape DEF Shape, Spawns, Checks, SpawnSteps, CheckSteps, NestedSteps, At
<1>3. CASE ResetStatement(p)
  BY <1>3 DEF ResetStatement
<1>4. CASE SaveFailed(p)
  <2>1. PICK new \in StatementDoc : new.status = "failed"
                                   /\ (stmt' = stmt \/ stmt' = Saved(proc[p].doc, new, TRUE))
    <3>1. proc[p].doc \in StatementDoc
      BY ProcTyped, Fields
    <3>2. [proc[p].doc EXCEPT !.status = "failed", !.issues = TRUE] \in StatementDoc
          /\ [proc[p].doc EXCEPT !.status = "failed", !.issues = TRUE].status = "failed"
      BY <3>1 DEF StatementDoc, StatementStatus
    <3> QED
      BY <1>4, <3>2 DEF SaveFailed
  <2> QED
    BY <2>1 DEF Saved, Done
<1>5. CASE SaveProgress(p)
  BY <1>5 DEF SaveProgress, Saved, Done
<1>6. CASE ~ResetStatement(p) /\ ~SaveFailed(p) /\ ~SaveProgress(p) /\ ~FinishSpawn(p)
  <2>1. UNCHANGED stmt
    BY <1>1, <1>2, <1>6, Zenon DEF Arrive, ReprocessStatement, RetryStatementCheck, Proceed, Fault,
       ClearChecks, RequeueCheck, Enqueue, EnqueueError, Deliver, Succeed, Rethrow, Crash,
       LoadFailed, FailCheck, LoadStatement, RefreshMatching, DeleteRows, CreateRow, DeleteChecks,
       SelectCandidates, SpawnCheck, FanOut, FindCheck, MarkProcessing, SaveResult, CountChecks,
       LoadProgress, FanOutError, ArtifactError, ChecksOnly, ProcOnly, QueueOnly
  <2> QED
    BY <2>1
<1> QED
  BY <1>3, <1>4, <1>5, <1>6

\* The checks there are stay, go all together, or one more is created.
LEMMA PresentMoves ==
    ASSUME TypeOK, NEW p \in Procs, Arrive(p) \/ Proceed(p) \/ Fault(p), Present' # {}
    PROVE  /\ ~ClearChecks(p) /\ ~DeleteChecks(p)
           /\ \/ Present' = Present
              \/ SpawnCheck(p) /\ Present' = Present \cup {made + 1}
<1>1. ~ClearChecks(p) /\ ~DeleteChecks(p)
  BY PresentCleared
<1>2. CASE SpawnCheck(p)
  BY <1>1, <1>2, PresentGrows
<1>3. CASE ~SpawnCheck(p)
  BY <1>1, <1>3, PresentSame
<1> QED
  BY <1>2, <1>3

LEMMA PresentExists == \A c : c \in Present <=> Existing(c)
BY DEF Present, Existing

\* What a recount sees of checks that are all finished.
LEMMA SettledCounts ==
    ASSUME Settled, Present # {}
    PROVE  CountOf("total") > 0 /\ CountOf("queued") = 0 /\ CountOf("processing") = 0
<1>1. {c \in CheckIds : checks[c].status = "queued"} = {}
      /\ {c \in CheckIds : checks[c].status = "processing"} = {}
  BY DEF Settled, Open
<1>2. CountOf("queued") = 0 /\ CountOf("processing") = 0
  BY <1>1, FS_EmptySet DEF CountOf
<1>3. CountOf("total") = Cardinality(Present) /\ Present \subseteq CheckIds
  BY PresentCounted
<1>4. IsFiniteSet(Present) /\ Cardinality(Present) \in Nat
  BY <1>3, ChecksFinite, FS_CardinalityType
<1>5. Cardinality(Present) # 0
  BY <1>4, FS_EmptySet
<1> QED
  BY <1>2, <1>3, <1>4, <1>5

LEMMA UncountedGood == Good(Uncounted)
BY DEF Good, Uncounted

LEMMA CountStarts ==
    ASSUME TypeOK, NEW p \in Procs, NEW resume, StartCount(p, resume)
    PROVE  proc'[p].pc = "count" /\ proc'[p].resume = resume /\ proc'[p].seen = Uncounted
<1>1. proc[p] \in ProcState
  BY ProcTyped
<1>2. proc'[p] = [proc[p] EXCEPT !.pc = "count", !.doc = Missing, !.was = Unmade,
                                 !.seen = Uncounted, !.resume = resume]
  BY BecomeGives DEF StartCount
<1> HIDE DEF Uncounted, Missing, Unmade
<1> QED
  BY <1>1, <1>2, StateForm

\* A step that finishes the last check goes on to a recount.
LEMMA Finishes ==
    ASSUME TypeOK, NEW p \in Procs, Arrive(p) \/ Proceed(p) \/ Fault(p), Present' # {}, Settled',
           ~Settled
    PROVE  Witness(p)'
<1>0. checks \in [CheckIds -> Check] /\ ~ClearChecks(p) /\ ~DeleteChecks(p)
  BY ProcTyped, PresentMoves
<1>1. PICK c \in CheckIds : Open(c)
  BY DEF Settled
<1>2. checks'[c].status \notin {"queued", "processing"}
  BY DEF Settled, Open
<1>3. CASE SaveResult(p)
  <2>1. Existing(proc[p].check)
    BY <1>1, <1>2, <1>3 DEF SaveResult, Open
  <2>2. StartCount(p, "done")
    BY <1>3, <2>1 DEF SaveResult
  <2>3. proc'[p].pc = "count" /\ proc'[p].resume = "done" /\ proc'[p].seen = Uncounted
    BY <2>2, CountStarts
  <2> QED
    BY <2>3, UncountedGood DEF Witness, At
<1>4. CASE FailCheck(p)
  <2>1. proc'[p].pc = "count" /\ proc'[p].resume = "rethrow" /\ proc'[p].seen = Uncounted
    BY <1>4, CountStarts DEF FailCheck
  <2> QED
    BY <2>1, UncountedGood DEF Witness, At
<1>5. CASE ~SaveResult(p) /\ ~FailCheck(p)
  <2>1. CASE RequeueCheck(p)
    <3>1. \/ checks' = checks
          \/ checks'[c].status \in {checks[c].status, "queued"}
      BY <1>0, <1>1, <2>1 DEF RequeueCheck, Existing, Check
    <3> QED
      BY <1>1, <1>2, <3>1 DEF Open
  <2>2. CASE MarkProcessing(p)
    <3>1. \/ checks' = checks
          \/ checks'[c].status \in {checks[c].status, "processing"}
      BY <1>0, <1>1, <2>2 DEF MarkProcessing, Existing, Check
    <3> QED
      BY <1>1, <1>2, <3>1 DEF Open
  <2>3. CASE SpawnCheck(p)
    BY <1>0, <1>1, <1>2, <2>3 DEF SpawnCheck, Open, NewCheck, Unmade
  <2>4. CASE ~RequeueCheck(p) /\ ~MarkProcessing(p) /\ ~SpawnCheck(p)
    <3>1. checks' = checks
      BY <1>0, <1>5, <2>4, Zenon DEF Arrive, CreateStatement, ReprocessStatement, RetryStatementCheck,
         RequestOnly, Proceed, Fault, ResetStatement, Enqueue, EnqueueError,
         SaveExtracting, SaveDispatchFailed, Deliver, Succeed, Rethrow, Crash, LoadFailed, SaveFailed,
         LoadStatement, RefreshMatching, BeginExtract, FinishExtract, BeginStructure, DeleteRows,
         CreateRow, FinishStructure, SelectCandidates, FinishSpawn, FanOut, FindCheck, CountChecks,
         LoadProgress, SaveProgress, FanOutError, ArtifactError, StatementOnly, ChecksOnly, ProcOnly,
         QueueOnly
    <3> QED
      BY <1>1, <1>2, <3>1 DEF Open
  <2> QED
    BY <2>1, <2>2, <2>3, <2>4
<1> QED
  BY <1>3, <1>4, <1>5

\* A witness that moves finishes the statement or hands on.
LEMMA WitnessActs ==
    ASSUME OnlyChecks, TypeOK, SeenAll, Split, TodoPresent, NEW p \in Procs,
           Arrive(p) \/ Proceed(p) \/ Fault(p), Witness(p), Settled, Settled',
           Present # {}, Present' # {}
    PROVE  Finishing'
<1>0. /\ ~Crash(p) /\ Shape(proc[p]) /\ proc[p] \in ProcState /\ checks \in [CheckIds -> Check]
      /\ proc[p].doc \in StatementDoc /\ proc[p].was \in Check
      /\ ~ClearChecks(p) /\ ~DeleteChecks(p)
      /\ Present' = Present \/ SpawnCheck(p)
  BY SpawnNoCrash, ProcTyped, Fields, PresentMoves DEF Split
<1>a. Witness(p)' => Finishing'
  BY DEF Finishing
<1>b. Done(stmt'.status) => Finishing'
  BY DEF Finishing
<1>1. CASE At(p, "clear")
  BY <1>0, <1>1, StepsAt
<1>2. CASE At(p, "spawn")
  <2>0. proc[p].job = "spawn" /\ proc[p].todo = Present
    BY <1>0, <1>2, IdleShape DEF Shape, Spawns, Checks, CheckSteps, NestedSteps, At, TodoPresent
  <2>1. ~SpawnCheck(p)
    <3>1. SpawnCheck(p) => made + 1 \in CheckIds /\ checks'[made + 1] = NewCheck
      BY <1>0, SpawnFields
    <3> QED
      BY <3>1 DEF Settled, Open, NewCheck, Unmade
  <2>2. CASE FinishSpawn(p)
    <3>1. Go(p, "fanOut")
      BY <2>2 DEF FinishSpawn
    <3>2. proc'[p].pc = "fanOut" /\ proc'[p].todo = proc[p].todo
      BY <3>1, GoKeeps DEF SameWork
    <3> QED
      BY <1>a, <2>0, <3>2 DEF Witness, At
  <2>3. CASE ArtifactError(p)
    <3>1. proc'[p].pc = "fail" /\ proc'[p].job = proc[p].job
      BY <2>3, GoKeeps DEF ArtifactError, SameWork
    <3> QED
      BY <1>a, <2>0, <3>1 DEF Witness, At
  <2> QED
    BY <1>0, <1>2, <2>1, <2>2, <2>3, StepsAt
<1>3. CASE At(p, "failCheck")
  <2>1. StartCount(p, "rethrow")
    BY <1>0, <1>3, StepsAt DEF FailCheck
  <2>2. proc'[p].pc = "count" /\ proc'[p].resume = "rethrow" /\ proc'[p].seen = Uncounted
    BY <2>1, CountStarts
  <2> QED
    BY <1>a, <2>2, UncountedGood DEF Witness, At
<1>4. CASE At(p, "fanOut") /\ proc[p].todo # {}
  <2>0. proc[p].job = "spawn" /\ proc[p].todo \subseteq Present /\ ~SpawnCheck(p)
    BY <1>0, <1>4, IdleShape, Guards
       DEF Shape, Spawns, Checks, CheckSteps, NestedSteps, At, TodoPresent
  <2>1. CASE FanOut(p)
    <3>1. PICK c \in proc[p].todo :
             \/ Put(CheckTask(c))
             \/ proc'[p].job = "check" /\ proc'[p].check = c /\ proc'[p].pc = "load"
      BY <1>4, <2>1, FanOutFields
    <3>2. c \in Present' /\ CheckTask(c) \in Task /\ queued \in [Task -> Nat]
      BY <1>0, <2>0, ProcTyped DEF Present, CheckTask, Task, Job
    <3>3. CASE Put(CheckTask(c))
      <4>1. queued'[CheckTask(c)] > 0
        BY <3>2, <3>3 DEF Put
      <4> QED
        BY <3>2, <4>1 DEF Finishing
    <3>4. CASE proc'[p].job = "check" /\ proc'[p].check = c /\ proc'[p].pc = "load"
      BY <1>a, <3>2, <3>4 DEF Witness, At
    <3> QED
      BY <3>1, <3>3, <3>4
  <2>2. CASE FanOutError(p)
    <3>1. proc'[p].pc = "fail" /\ proc'[p].job = proc[p].job
      BY <2>2, GoKeeps DEF FanOutError, SameWork
    <3> QED
      BY <1>a, <2>0, <3>1 DEF Witness, At
  <2> QED
    BY <1>0, <1>4, <2>1, <2>2, StepsAt
<1>5. CASE At(p, "fail") /\ proc[p].job = "spawn"
  <2>1. proc'[p] = [proc[p] EXCEPT !.doc = stmt, !.pc = "saveFailed"] /\ stmt' = stmt
    BY <1>0, <1>5, StepsAt, BecomeGives DEF LoadFailed, ProcOnly
  <2>2. proc'[p].job = "spawn" /\ proc'[p].doc = stmt' /\ proc'[p].pc = "saveFailed"
    BY <1>0, <1>5, <2>1, WorkFields
  <2> QED
    BY <1>a, <1>b, <2>2 DEF Witness, At, Fresh, Done
<1>6. CASE At(p, "saveFailed") /\ Fresh(p) /\ proc[p].doc.status # "failed"
  <2>1. SaveFailed(p) /\ ~Conflicts(proc[p].doc, TRUE)
    BY <1>0, <1>6, StepsAt DEF Conflicts, Fresh
  <2>2. stmt' = Saved(proc[p].doc, [proc[p].doc EXCEPT !.status = "failed", !.issues = TRUE], TRUE)
    BY <2>1 DEF SaveFailed
  <2>3. [proc[p].doc EXCEPT !.status = "failed", !.issues = TRUE].status = "failed"
    BY <1>0 DEF StatementDoc
  <2>4. stmt'.status = "failed"
    BY <1>6, <2>2, <2>3 DEF Saved
  <2> QED
    BY <1>b, <2>4 DEF Done
<1>7. CASE At(p, "load") /\ proc[p].job = "check" /\ proc[p].check \in Present
  <2>0. proc[p].check # NoCheck /\ ~SpawnCheck(p)
    BY <1>7, Guards DEF At, Present, CheckIds, NoCheck
  <2>1. Become(p, [proc[p] EXCEPT !.doc = Missing, !.pc = "findCheck"])
    BY <1>0, <1>7, <2>0, StepsAt DEF LoadStatement
  <2>2. proc'[p] = [proc[p] EXCEPT !.doc = Missing, !.pc = "findCheck"]
    BY <2>1, BecomeGives
  <2>3. proc'[p].check = proc[p].check /\ proc'[p].pc = "findCheck"
    BY <1>0, <2>2, WorkFields
  <2> QED
    BY <1>0, <1>a, <1>7, <2>0, <2>3 DEF Witness, At
<1>8. CASE At(p, "findCheck") /\ proc[p].check \in Present
  <2> DEFINE was == checks[proc[p].check]
  <2>0. Existing(proc[p].check) /\ was.status # "processing" /\ ~SpawnCheck(p)
    BY <1>8, Guards, PresentExists DEF At, Settled, Open, Existing
  <2>1. Become(p, [proc[p] EXCEPT !.was = was, !.pc = "mark"])
    BY <1>0, <1>8, <2>0, StepsAt DEF FindCheck
  <2>2. proc'[p] = [proc[p] EXCEPT !.was = was, !.pc = "mark"]
    BY <2>1, BecomeGives
  <2> HIDE DEF was
  <2>3. proc'[p].check = proc[p].check /\ proc'[p].pc = "mark" /\ proc'[p].was = was
    BY <1>0, <2>2, StateForm
  <2> QED
    BY <1>0, <1>a, <1>8, <2>0, <2>3 DEF Witness, At
<1>9. CASE At(p, "mark") /\ proc[p].check \in Present /\ proc[p].was.status # "processing"
  <2>1. Existing(proc[p].check) /\ MarkProcessing(p)
    BY <1>0, <1>9, StepsAt, PresentExists
  <2>2. checks'[proc[p].check].status = "processing"
    BY <1>0, <1>9, <2>1 DEF MarkProcessing, Existing, Check
  <2> QED
    BY <2>1, <2>2 DEF Settled, Open, Existing
<1>10. CASE At(p, "count") /\ proc[p].resume # "work" /\ Good(proc[p].seen)
  <2> DEFINE seen == proc[p].seen
  <2>1. CASE CountChecks(p)
    <3>1. PICK S \in Reads : Become(p, [proc[p] EXCEPT !.seen =
               [t \in DOMAIN seen \cup S |-> IF t \in S THEN CountOf(t) ELSE seen[t]]])
      BY <2>1 DEF CountChecks
    <3> DEFINE new == [t \in DOMAIN seen \cup S |-> IF t \in S THEN CountOf(t) ELSE seen[t]]
    <3>2. Good(new)
      BY <1>10, SettledCounts DEF Good
    <3> HIDE DEF new
    <3>3. proc'[p] = [proc[p] EXCEPT !.seen = new]
      BY <3>1, BecomeGives DEF new
    <3>4. proc'[p].pc = "count" /\ proc'[p].resume = proc[p].resume /\ proc'[p].seen = new
      BY <1>0, <1>10, <3>3, StateForm DEF At
    <3> QED
      BY <1>a, <1>10, <3>2, <3>4 DEF Witness, At
  <2>2. CASE LoadProgress(p)
    <3>1. proc'[p] = [proc[p] EXCEPT !.doc = stmt, !.pc = "progress"] /\ stmt' = stmt
      BY <2>2, BecomeGives DEF LoadProgress, ProcOnly
    <3>2. proc'[p].pc = "progress" /\ proc'[p].doc = stmt' /\ proc'[p].seen = seen
      BY <1>0, <3>1, StateForm
    <3> QED
      BY <1>a, <1>b, <1>10, <3>2 DEF Witness, At, Done
  <2> QED
    BY <1>0, <1>10, <2>1, <2>2, StepsAt
<1>11. CASE At(p, "progress") /\ Good(proc[p].seen) /\ proc[p].doc.status # "ready_for_review"
  <2> DEFINE doc == proc[p].doc
             counts == [s \in Counted |-> proc[p].seen[s]]
             new == [doc EXCEPT !.status = "ready_for_review", !.progress = counts]
  <2>1. SaveProgress(p) /\ DOMAIN proc[p].seen = Counted
    BY <1>0, <1>11, StepsAt DEF SeenAll
  <2>2. SeenSettled(proc[p].seen, doc.status)
    BY <1>11, <2>1 DEF Good, SeenSettled, Counted
  <2>3. stmt' = Saved(doc, new, FALSE)
    BY <2>1, <2>2 DEF SaveProgress
  <2>4. new.status = "ready_for_review"
    BY <1>0 DEF StatementDoc
  <2>5. stmt'.status = "ready_for_review"
    BY <1>11, <2>3, <2>4 DEF Saved
  <2> QED
    BY <1>b, <2>5 DEF Done
<1> QED
  BY <1>1, <1>2, <1>3, <1>4, <1>5, <1>6, <1>7, <1>8, <1>9, <1>10, <1>11 DEF Witness, At

\* A witness stays one while another process moves, or hands over to that one.
LEMMA WitnessWaits ==
    ASSUME OnlyChecks, OneSpawner, TypeOK, Split, NEW p \in Procs,
           Arrive(p) \/ Proceed(p) \/ Fault(p), NEW q \in Procs, q # p, Witness(q),
           Present' # {}
    PROVE  Finishing'
<1>0. /\ proc'[q] = proc[q] /\ Present \subseteq Present'
      /\ Shape(proc[p]) /\ Shape(proc[q])
  BY StepAlone, PresentMoves DEF Alone, Split
<1>1. CASE ~At(q, "saveFailed")
  <2>1. Witness(q)'
    BY <1>0, <1>1 DEF Witness, At
  <2> QED
    BY <2>1 DEF Finishing
<1>2. CASE At(q, "saveFailed") /\ stmt'.v = stmt.v
  <2>1. Witness(q)'
    BY <1>0, <1>2 DEF Witness, At, Fresh
  <2> QED
    BY <2>1 DEF Finishing
<1>3. CASE At(q, "saveFailed") /\ stmt'.v # stmt.v
  <2>1. Spawner(q) /\ ~Spawner(p)
    <3>1. Spawner(q)
      BY <1>3 DEF Witness, At, Spawner
    <3> QED
      BY <3>1 DEF OneSpawner
  <2>2. SaveFailed(p)
    BY <1>0, <1>3, <2>1, IssuesKept, Guards, IdleShape
       DEF Shape, Spawns, Checks, CheckSteps, NestedSteps, At, Spawner
  <2>3. proc[p].job = "check" /\ proc[p].check # NoCheck
    BY <1>0, <2>1, <2>2, Guards, IdleShape DEF Shape, Spawns, Checks, At, Spawner, CheckIds, NoCheck
  <2>4. Go(p, "failCheck")
    BY <1>3, <2>2, <2>3 DEF SaveFailed
  <2>5. Witness(p)'
    BY <2>4, GoKeeps DEF Witness, At
  <2> QED
    BY <2>5 DEF Finishing
<1> QED
  BY <1>1, <1>2, <1>3

\* A finished statement is unfinished by a reset and by a checks.spawn only, and
\* both go on.
LEMMA DoneKept ==
    ASSUME OnlyChecks, TypeOK, Split, TodoPresent, NEW p \in Procs,
           Arrive(p) \/ Proceed(p) \/ Fault(p), Done(stmt.status), Present # {}
    PROVE  Finishing'
<1>1. CASE Done(stmt'.status)
  BY <1>1 DEF Finishing
<1>2. CASE Go(p, "clear")
  <2>1. Witness(p)'
    BY <1>2, GoKeeps DEF Witness, At
  <2> QED
    BY <2>1 DEF Finishing
<1>3. CASE FinishSpawn(p)
  <2>1. proc[p].todo = Present /\ Go(p, "fanOut")
    BY <1>3, Guards DEF TodoPresent, FinishSpawn
  <2>2. Witness(p)'
    BY <2>1, GoKeeps DEF Witness, At, SameWork
  <2> QED
    BY <2>2 DEF Finishing
<1> QED
  BY <1>1, <1>2, <1>3, StatusMoves

\* A queued check.process is delivered to a process that runs it.
LEMMA QueuedKept ==
    ASSUME TypeOK, NEW p \in Procs, Arrive(p) \/ Proceed(p) \/ Fault(p), Present' # {},
           NEW c \in Present, queued[CheckTask(c)] > 0
    PROVE  Finishing'
<1>1. CheckTask(c) \in Task /\ c \in Present' /\ queued[CheckTask(c)] \in Nat
  BY PresentMoves, ProcTyped DEF Present, CheckTask, Task, Job
<1>2. CASE Deliver(p, CheckTask(c))
  <2>1. proc'[p].job = "check" /\ proc'[p].check = c /\ proc'[p].pc = "load"
    BY <1>1, <1>2, DeliverFields DEF CheckTask
  <2>2. Witness(p)'
    BY <1>1, <2>1 DEF Witness, At
  <2> QED
    BY <2>2 DEF Finishing
<1>3. CASE ~Deliver(p, CheckTask(c))
  <2>1. queued'[CheckTask(c)] > 0
    BY <1>1, <1>3, QueueMoves
  <2> QED
    BY <1>1, <2>1 DEF Finishing
<1> QED
  BY <1>2, <1>3

LEMMA ClaimKept ==
    ASSUME OnlyChecks, OneSpawner, TypeOK, SeenAll, Split, TodoPresent, FinishClaim,
           NEW p \in Procs, Arrive(p) \/ Proceed(p) \/ Fault(p)
    PROVE  FinishClaim'
<1> SUFFICES ASSUME Present' # {}, Settled' PROVE Finishing'
  BY DEF FinishClaim
<1>1. CASE Present = {}
  <2>1. SpawnCheck(p)
    BY <1>1, PresentMoves
  <2>2. Witness(p)'
    BY <2>1, SpawnFields DEF Witness
  <2> QED
    BY <2>2 DEF Finishing
<1>2. CASE ~Settled
  <2>1. Witness(p)'
    BY <1>2, Finishes
  <2> QED
    BY <2>1 DEF Finishing
<1>3. CASE Present # {} /\ Settled
  <2>1. CASE Done(stmt.status)
    BY <1>3, <2>1, DoneKept
  <2>2. CASE \E q \in Procs : Witness(q)
    <3>1. PICK q \in Procs : Witness(q)
      BY <2>2
    <3>2. CASE q = p
      BY <1>3, <3>1, <3>2, WitnessActs
    <3>3. CASE q # p
      BY <3>1, <3>3, WitnessWaits
    <3> QED
      BY <3>2, <3>3
  <2>3. CASE \E c \in Present : queued[CheckTask(c)] > 0
    BY <2>3, QueuedKept
  <2> QED
    BY <1>3, <2>1, <2>2, <2>3 DEF FinishClaim, Finishing
<1> QED
  BY <1>1, <1>2, <1>3

FinishInv == TypeOK /\ SeenAll /\ Split /\ TodoPresent /\ FinishClaim

LEMMA FinishInit == Init => FinishInv
<1> SUFFICES ASSUME Init PROVE FinishInv
  OBVIOUS
<1>1. TypeOK /\ SeenAll
  BY InitTyped
<1>2. \A p \in Procs : proc[p] = IdleProc
  BY DEF Init
<1>3. Split
  <2>1. \A task \in Task : queued[task] = 0
    BY DEF Init
  <2> QED
    BY <1>2, <2>1 DEF Split, Shape
<1>4. TodoPresent
  BY <1>2, IdleShape DEF TodoPresent, At
<1>5. Present = {}
  BY DEF Init, Present, Unmade
<1> QED
  BY <1>1, <1>3, <1>4, <1>5 DEF FinishInv, FinishClaim

LEMMA FinishStep ==
    ASSUME OnlyChecks, OneSpawner, FinishInv, [Next]_vars PROVE FinishInv'
<1>1. CASE UNCHANGED vars
  BY <1>1 DEF vars, FinishInv, TypeOK, SeenAll, Split, TodoPresent, FinishClaim, Finishing,
     Witness, At, Fresh, Present, Settled, Open
<1>2. CASE Next
  <2>1. PICK p \in Procs : Arrive(p) \/ Proceed(p) \/ Fault(p)
    BY <1>2 DEF Next
  <2> QED
    BY <2>1, ProceedTyped, SeenKept, SplitKept, TodoKept, ClaimKept DEF FinishInv
<1> QED
  BY <1>1, <1>2

LEMMA FinishSeen == ASSUME FinishInv PROVE NoLostFinish
<1> SUFFICES ASSUME Quiet, Settled, NEW c \in CheckIds, Existing(c)
             PROVE  Done(stmt.status)
  BY DEF NoLostFinish, Done
<1>1. c \in Present
  BY DEF Present, Existing
<1>2. \A p \in Procs : ~Witness(p)
  BY DEF Witness, Quiet, At
<1>3. \A d \in Present : ~(queued[CheckTask(d)] > 0)
  BY DEF Quiet, Present, CheckTask, Task, Job
<1> QED
  BY <1>1, <1>2, <1>3 DEF FinishInv, FinishClaim, Finishing

\* No finish is lost (NoLostFinish): whatever the workers, the redeliveries, the failing
\* jobs and hand-overs, the retries and the moments the five counts of a recount see, once
\* nothing is left to do and every check is finished the statement says so; as long as
\* reprocesses start from checks.spawn and one is over before the next begins.
THEOREM StatementFinishSeen == OnlyChecks => (Spec /\ []OneSpawner => []NoLostFinish)
<1> SUFFICES ASSUME OnlyChecks PROVE Spec /\ []OneSpawner => []NoLostFinish
  OBVIOUS
<1>1. Init => FinishInv
  BY FinishInit
<1>2. OneSpawner /\ FinishInv /\ [Next]_vars => FinishInv'
  BY FinishStep
<1>3. FinishInv => NoLostFinish
  BY FinishSeen
<1> QED
  BY <1>1, <1>2, <1>3, PTL DEF Spec

\* With one request there is one checks.spawn at a time: its task is put back only by the
\* process that gives it up.
OneRun ==
    /\ OneSpawner
    /\ requests = 0 => queued[SpawnTask] = 0 /\ \A p \in Procs : ~Spawner(p)

LEMMA EndsOver ==
    ASSUME OnlyChecks, TypeOK, NEW p \in Procs, Shape(proc[p]), Succeed(p) \/ Rethrow(p)
    PROVE  \/ proc'[p] = IdleProc
           \/ proc[p].nested /\ proc'[p].job = "spawn" /\ UNCHANGED queued
<1>0. /\ proc[p] \in ProcState /\ proc[p].caller # "create"
      /\ proc[p].job \in {"spawn", "check"}
  <2>1. proc[p].pc # "idle"
    BY Guards DEF At
  <2> QED
    BY <2>1, IdleShape, ProcTyped, Fields DEF OnlyChecks, Shape, Spawns, Checks
<1>1. CASE proc[p].nested
  <2>1. PICK pc : BackToSpawn(p, pc) /\ UNCHANGED queued
    BY <1>1 DEF Succeed, Rethrow
  <2>2. proc'[p] = [proc[p] EXCEPT !.job = "spawn", !.check = NoCheck, !.nested = FALSE, !.pc = pc]
    BY <2>1, BecomeGives DEF BackToSpawn
  <2> QED
    BY <1>0, <1>1, <2>1, <2>2, StateForm
<1>2. CASE ~proc[p].nested
  <2>1. proc[p].job \notin DOMAIN NextJob
    BY <1>0 DEF NextJob
  <2>2. Become(p, IdleProc)
    BY <1>0, <1>2, <2>1 DEF Succeed, Rethrow, Returned, Threw
  <2> QED
    BY <2>2, BecomeGives
<1> QED
  BY <1>1, <1>2

\* A process starts to spawn when its task is delivered only.
LEMMA NoNewSpawner ==
    ASSUME OnlyChecks, TypeOK, Split, NEW p \in Procs, Proceed(p) \/ Fault(p), ~Spawner(p)
    PROVE  \/ ~Spawner(p)' /\ queued'[SpawnTask] = queued[SpawnTask]
           \/ Deliver(p, SpawnTask)
<1>0. /\ Shape(proc[p]) /\ ~Crash(p) /\ proc[p].job # "spawn" /\ ~proc[p].nested
      /\ proc[p] \in ProcState /\ queued \in [Task -> Nat] /\ SpawnTask \in Task
  BY SpawnNoCrash, ProcTyped DEF Split, Spawner, SpawnTask, Task, Job
<1>1. ~FanOut(p) /\ ~SelectCandidates(p) /\ ~SpawnCheck(p)
  BY <1>0, Guards, IdleShape DEF Shape, Spawns, Checks, CheckSteps, NestedSteps, At
<1>2. CASE \E task \in Task : Deliver(p, task)
  <2>1. PICK task \in Task : Deliver(p, task)
    BY <1>2
  <2>2. task = SpawnTask \/ task.job = "check"
    BY <2>1, DeliverFields DEF Split, CheckTask
  <2>3. CASE task # SpawnTask
    <3>1. proc'[p].job = "check" /\ ~proc'[p].nested /\ queued' = [queued EXCEPT ![task] = @ - 1]
      BY <2>1, <2>2, <2>3, DeliverFields
    <3> QED
      BY <1>0, <2>3, <3>1 DEF Spawner
  <2> QED
    BY <2>1, <2>3
<1>3. CASE ~\E task \in Task : Deliver(p, task)
  <2>1. queued'[SpawnTask] = queued[SpawnTask]
    BY <1>0, <1>1, <1>3, QueueMoves DEF SpawnTask
  <2>2. SameWork(p) \/ proc'[p] = IdleProc
    <3>1. Working(p) => SameWork(p)
      BY <1>1, WorkingKeeps DEF Chooses
    <3>2. Handles(p) => SameWork(p) \/ proc'[p] = IdleProc
      BY HandlerFields
    <3>3. Succeed(p) \/ Rethrow(p) => proc'[p] = IdleProc
      BY <1>0, EndsOver
    <3> QED
      BY <1>0, <1>3, <3>1, <3>2, <3>3, Zenon DEF Proceed, Fault, Handles, Working
  <2>3. ~Spawner(p)'
    BY <1>0, <2>2, IdleShape DEF SameWork, Spawner
  <2> QED
    BY <2>1, <2>3
<1> QED
  BY <1>2, <1>3

\* Its task is put back when it gives up.
LEMMA SpawnerPuts ==
    ASSUME OnlyChecks, TypeOK, Split, NEW p \in Procs, Proceed(p) \/ Fault(p), Spawner(p)
    PROVE  \/ queued'[SpawnTask] = queued[SpawnTask]
           \/ queued'[SpawnTask] = queued[SpawnTask] + 1 /\ ~Spawner(p)'
<1>0. /\ Shape(proc[p]) /\ ~Crash(p) /\ proc[p] \in ProcState /\ proc[p].caller # "create"
      /\ queued \in [Task -> Nat] /\ SpawnTask \in Task
  BY SpawnNoCrash, ProcTyped, Fields DEF OnlyChecks, Split, SpawnTask, Task, Job
<1>1. ~At(p, "idle")
  BY <1>0, IdleShape DEF Shape, Spawns, Checks, SpawnSteps, CheckSteps, NestedSteps, At, Spawner
<1>2. CASE Enqueue(p)
  <2>1. UNCHANGED queued \/ proc'[p] = IdleProc
    BY <1>0, <1>2, BecomeGives DEF Enqueue, Returned
  <2> QED
    BY <1>0, <1>1, <2>1, QueueMoves, Guards, IdleShape DEF Spawner, SpawnTask, CheckTask
<1>3. CASE Succeed(p) \/ Rethrow(p)
  <2>1. UNCHANGED queued \/ proc'[p] = IdleProc
    BY <1>0, <1>3, EndsOver
  <2> QED
    BY <1>0, <1>1, <2>1, QueueMoves, Guards, IdleShape DEF Spawner, SpawnTask, CheckTask
<1>4. CASE FanOut(p)
  <2>1. \/ UNCHANGED queued
        \/ \E c \in proc[p].todo : Put(CheckTask(c))
    BY <1>4, FanOutFields
  <2> QED
    BY <1>0, <2>1 DEF Put, SpawnTask, CheckTask
<1>5. ~\E t \in Task : Deliver(p, t)
  BY <1>1, Guards
<1> QED
  BY <1>0, <1>2, <1>3, <1>4, <1>5, QueueSame

LEMMA OneRunKept ==
    ASSUME OnlyChecks, MaxRequests <= 1, TypeOK, Split, OneRun, NEW p \in Procs,
           Arrive(p) \/ Proceed(p) \/ Fault(p)
    PROVE  OneRun'
<1>0. /\ Alone(p) /\ queued[SpawnTask] \in Nat /\ queued \in [Task -> Nat] /\ SpawnTask \in Task
      /\ requests \in Nat /\ MaxRequests \in Nat
  <2>1. queued \in [Task -> Nat] /\ Alone(p)
    BY ProcTyped, StepAlone
  <2>2. SpawnTask \in Task
    BY DEF SpawnTask, Task, Job
  <2>3. requests \in 0..MaxRequests /\ MaxRequests \in Nat
    BY PipelineAssumption DEF TypeOK
  <2> QED
    BY <2>1, <2>2, <2>3
<1>1. \A q \in Procs : q # p => (Spawner(q)' <=> Spawner(q))
  BY <1>0 DEF Alone, Spawner
<1>2. CASE Arrive(p)
  <2>1. requests = 0 /\ requests' = 1
    <3>1. requests < MaxRequests /\ requests' = requests + 1
      BY <1>2, Zenon DEF Arrive, CreateStatement, ReprocessStatement, RetryStatementCheck, Serves
    <3> QED
      BY <1>0, <3>1
  <2>2. queued' = queued
    BY <1>2, ArriveFields
  <2> QED
    BY <1>1, <2>1, <2>2 DEF OneRun, OneSpawner
<1>3. CASE Proceed(p) \/ Fault(p)
  <2>0. requests' = requests
    BY <1>3, Zenon DEF Proceed, Fault, ResetStatement, ClearChecks, RequeueCheck, Enqueue,
       EnqueueError, SaveExtracting, SaveDispatchFailed, Deliver, Succeed, Rethrow, Crash, LoadFailed,
       SaveFailed, FailCheck, LoadStatement, RefreshMatching, BeginExtract, FinishExtract,
       BeginStructure, DeleteRows, CreateRow, FinishStructure, DeleteChecks, SelectCandidates,
       SpawnCheck, FinishSpawn, FanOut, FindCheck, MarkProcessing, SaveResult, CountChecks,
       LoadProgress, SaveProgress, FanOutError, ArtifactError, StatementOnly, ChecksOnly, ProcOnly,
       QueueOnly
  <2>1. CASE Spawner(p)
    <3>1. \/ queued'[SpawnTask] = queued[SpawnTask]
          \/ queued'[SpawnTask] = queued[SpawnTask] + 1 /\ ~Spawner(p)'
      BY <1>3, <2>1, SpawnerPuts
    <3>2. queued[SpawnTask] = 0 /\ requests # 0 /\ \A q \in Procs : q # p => ~Spawner(q)
      BY <1>0, <2>1 DEF OneRun, OneSpawner
    <3> QED
      BY <1>1, <2>0, <3>1, <3>2 DEF OneRun, OneSpawner
  <2>2. CASE ~Spawner(p) /\ ~Spawner(p)' /\ queued'[SpawnTask] = queued[SpawnTask]
    BY <1>1, <2>0, <2>2 DEF OneRun, OneSpawner
  <2>3. CASE Deliver(p, SpawnTask)
    <3>1. queued[SpawnTask] > 0 /\ queued'[SpawnTask] = queued[SpawnTask] - 1
      BY <1>0, <2>3, DeliverFields
    <3>2. queued'[SpawnTask] = 0 /\ requests # 0 /\ \A q \in Procs : ~Spawner(q)
      BY <1>0, <3>1 DEF OneRun, OneSpawner
    <3> QED
      BY <1>1, <2>0, <3>2 DEF OneRun, OneSpawner
  <2> QED
    BY <1>3, <2>1, <2>2, <2>3, NoNewSpawner
<1> QED
  BY <1>2, <1>3

\* No finish is lost when one user asks for checks.spawn once, however often its task is
\* delivered, fails and is delivered again: its runs then never overlap.
THEOREM StatementNoLostFinish ==
    OnlyChecks /\ MaxRequests <= 1 => (Spec => []NoLostFinish)
<1> SUFFICES ASSUME OnlyChecks, MaxRequests <= 1 PROVE Spec => []NoLostFinish
  OBVIOUS
<1>1. Init => FinishInv /\ OneRun
  <2> SUFFICES ASSUME Init PROVE FinishInv /\ OneRun
    OBVIOUS
  <2>1. /\ \A p \in Procs : ~Spawner(p)
        /\ SpawnTask \in Task /\ queued[SpawnTask] = 0
    BY IdleShape DEF Init, Spawner, SpawnTask, Task, Job
  <2> QED
    BY <2>1, FinishInit DEF OneRun, OneSpawner
<1>2. FinishInv /\ OneRun /\ [Next]_vars => (FinishInv /\ OneRun)'
  <2> SUFFICES ASSUME FinishInv, OneRun, [Next]_vars PROVE FinishInv' /\ OneRun'
    OBVIOUS
  <2>1. FinishInv'
    BY FinishStep DEF OneRun
  <2>2. CASE UNCHANGED vars
    <3>1. UNCHANGED <<proc, queued, requests>>
      BY <2>2 DEF vars
    <3>2. \A p \in Procs : Spawner(p)' <=> Spawner(p)
      BY <3>1 DEF Spawner
    <3>3. OneRun'
      BY <3>1, <3>2 DEF OneRun, OneSpawner
    <3> QED
      BY <2>1, <3>3
  <2>3. CASE Next
    <3>1. PICK p \in Procs : Arrive(p) \/ Proceed(p) \/ Fault(p)
      BY <2>3 DEF Next
    <3> QED
      BY <2>1, <3>1, OneRunKept DEF FinishInv
  <2> QED
    BY <2>1, <2>2, <2>3
<1>3. FinishInv => NoLostFinish
  BY FinishSeen
<1> QED
  BY <1>1, <1>2, <1>3, PTL DEF Spec
-----------------------------------------------------------------------------
(* Where each step leads. *)

\* p goes on with the same work, at one of the steps.
Goes(p, steps) ==
    /\ SameWork(p) /\ proc'[p].caller = proc[p].caller /\ proc'[p].pc \in steps
GoesWith(p, pc, doc) ==
    /\ Goes(p, {pc}) /\ proc'[p].doc = doc /\ proc'[p].resume = proc[p].resume
    /\ proc'[p].seen = proc[p].seen /\ proc'[p].was = proc[p].was

LEMMA GoGoes ==
    ASSUME TypeOK, NEW p \in Procs, NEW pc, Go(p, pc) PROVE GoesWith(p, pc, proc[p].doc)
<1>1. proc'[p] = [proc[p] EXCEPT !.pc = pc] /\ proc[p] \in ProcState
  BY BecomeGives, ProcTyped DEF Go
<1> QED
  BY <1>1, StateForm DEF GoesWith, Goes, SameWork

LEMMA DocGoes ==
    ASSUME TypeOK, NEW p \in Procs, NEW doc, NEW pc,
           Become(p, [proc[p] EXCEPT !.doc = doc, !.pc = pc])
    PROVE  GoesWith(p, pc, doc)
<1>1. proc'[p] = [proc[p] EXCEPT !.doc = doc, !.pc = pc] /\ proc[p] \in ProcState
  BY BecomeGives, ProcTyped
<1> QED
  BY <1>1, StateForm DEF GoesWith, Goes, SameWork

LEMMA StatusSaved ==
    ASSUME TypeOK, NEW p \in Procs, NEW status, NEW pc, SaveStatus(p, status, pc)
    PROVE  GoesWith(p, pc, [proc[p].doc EXCEPT !.status = status])
<1>1. proc'[p] = [proc[p] EXCEPT !.doc.status = status, !.pc = pc] /\ proc[p] \in ProcState
  BY BecomeGives, ProcTyped DEF SaveStatus
<1> QED
  BY <1>1, StateForm DEF GoesWith, Goes, SameWork

LEMMA CountBegins ==
    ASSUME TypeOK, NEW p \in Procs, NEW resume, StartCount(p, resume)
    PROVE  Goes(p, {"count"}) /\ proc'[p].seen = Uncounted /\ proc'[p].resume = resume
<1>1. proc'[p] = [proc[p] EXCEPT !.pc = "count", !.doc = Missing, !.was = Unmade,
                                 !.seen = Uncounted, !.resume = resume]
      /\ proc[p] \in ProcState
  BY BecomeGives, ProcTyped DEF StartCount
<1> HIDE DEF Uncounted, Missing, Unmade
<1> QED
  BY <1>1, StateForm DEF Goes, SameWork

LEMMA LeftGoes ==
    ASSUME TypeOK, NEW p \in Procs, NEW left, NEW pc,
           Become(p, [proc[p] EXCEPT !.left = left, !.pc = pc])
    PROVE  GoesWith(p, pc, proc[p].doc)
<1>1. proc'[p] = [proc[p] EXCEPT !.left = left, !.pc = pc] /\ proc[p] \in ProcState
  BY BecomeGives, ProcTyped
<1> QED
  BY <1>1, StateForm DEF GoesWith, Goes, SameWork

LEMMA Lands ==
    ASSUME TypeOK, NEW p \in Procs
    PROVE  /\ LoadFailed(p) => GoesWith(p, "saveFailed", stmt)
           /\ SaveFailed(p) =>
                 IF Conflicts(proc[p].doc, TRUE) \/ proc[p].job # "check" \/ proc[p].check = NoCheck
                 THEN GoesWith(p, "rethrow", proc[p].doc)
                 ELSE GoesWith(p, "failCheck", proc[p].doc)
           /\ FailCheck(p) =>
                 Goes(p, {"count"}) /\ proc'[p].seen = Uncounted /\ proc'[p].resume = "rethrow"
           /\ RefreshMatching(p) => GoesWith(p, "done", proc[p].doc)
           /\ BeginExtract(p) =>
                 GoesWith(p, "extracted", [proc[p].doc EXCEPT !.status = "extracting"])
           /\ FinishExtract(p) =>
                 GoesWith(p, "done", [proc[p].doc EXCEPT !.status = "structuring"])
           /\ BeginStructure(p) =>
                 GoesWith(p, "artifacts", [proc[p].doc EXCEPT !.status = "structuring"])
           /\ DeleteRows(p) \/ CreateRow(p) => GoesWith(p, "create", proc[p].doc)
           /\ FinishStructure(p) => GoesWith(p, "done", proc[p].doc)
           /\ DeleteChecks(p) => GoesWith(p, "select", proc[p].doc)
           /\ FinishSpawn(p) => GoesWith(p, "fanOut", proc[p].doc)
           /\ FanOutError(p) \/ ArtifactError(p) => GoesWith(p, "fail", proc[p].doc)
<1>1. LoadFailed(p) => GoesWith(p, "saveFailed", stmt)
  BY DocGoes DEF LoadFailed
<1>2. SaveFailed(p) =>
                 IF Conflicts(proc[p].doc, TRUE) \/ proc[p].job # "check" \/ proc[p].check = NoCheck
                 THEN GoesWith(p, "rethrow", proc[p].doc)
                 ELSE GoesWith(p, "failCheck", proc[p].doc)
  BY GoGoes DEF SaveFailed
<1>3. FailCheck(p) =>
                 Goes(p, {"count"}) /\ proc'[p].seen = Uncounted /\ proc'[p].resume = "rethrow"
  BY CountBegins DEF FailCheck
<1>4. RefreshMatching(p) => GoesWith(p, "done", proc[p].doc)
  BY GoGoes DEF RefreshMatching
<1>5. /\ BeginExtract(p) =>
                 GoesWith(p, "extracted", [proc[p].doc EXCEPT !.status = "extracting"])
      /\ FinishExtract(p) =>
                 GoesWith(p, "done", [proc[p].doc EXCEPT !.status = "structuring"])
      /\ BeginStructure(p) =>
                 GoesWith(p, "artifacts", [proc[p].doc EXCEPT !.status = "structuring"])
  BY StatusSaved DEF BeginExtract, FinishExtract, BeginStructure
<1>6. DeleteRows(p) => GoesWith(p, "create", proc[p].doc)
  BY LeftGoes DEF DeleteRows
<1>7. CreateRow(p) => GoesWith(p, "create", proc[p].doc)
  <2> SUFFICES ASSUME CreateRow(p) PROVE GoesWith(p, "create", proc[p].doc)
    OBVIOUS
  <2>1. proc'[p] = [proc[p] EXCEPT !.left = proc[p].left - 1] /\ proc[p].pc = "create"
        /\ proc[p] \in ProcState
    BY BecomeGives, ProcTyped DEF CreateRow, At
  <2> QED
    BY <2>1, StateForm DEF GoesWith, Goes, SameWork
<1>8. FinishStructure(p) => GoesWith(p, "done", proc[p].doc)
  BY GoGoes DEF FinishStructure
<1>9. DeleteChecks(p) => GoesWith(p, "select", proc[p].doc)
  BY GoGoes DEF DeleteChecks
<1>10. FinishSpawn(p) => GoesWith(p, "fanOut", proc[p].doc)
  BY GoGoes DEF FinishSpawn
<1>11. FanOutError(p) \/ ArtifactError(p) => GoesWith(p, "fail", proc[p].doc)
  BY GoGoes DEF FanOutError, ArtifactError
<1> QED
  BY <1>1, <1>2, <1>3, <1>4, <1>5, <1>6, <1>7, <1>8, <1>9, <1>10, <1>11

LEMMA CheckLands ==
    ASSUME TypeOK, NEW p \in Procs
    PROVE  /\ FindCheck(p) =>
                 IF Existing(proc[p].check) THEN Goes(p, {"mark"}) ELSE Goes(p, {"fail"})
           /\ MarkProcessing(p) =>
                 IF Existing(proc[p].check)
                 THEN Goes(p, {"count"}) /\ proc'[p].seen = Uncounted /\ proc'[p].resume = "work"
                 ELSE Goes(p, {"fail"})
           /\ SaveResult(p) =>
                 IF Existing(proc[p].check)
                 THEN Goes(p, {"count"}) /\ proc'[p].seen = Uncounted /\ proc'[p].resume = "done"
                 ELSE Goes(p, {"fail"})
           /\ LoadProgress(p) => GoesWith(p, "progress", stmt)
           /\ SaveProgress(p) => Goes(p, {proc[p].resume})
           /\ CountChecks(p) =>
                 /\ Goes(p, {"count"}) /\ proc'[p].resume = proc[p].resume
                 /\ \E S \in Reads : S \cap DOMAIN proc[p].seen = {} /\ proc'[p].seen =
                       [t \in DOMAIN proc[p].seen \cup S |->
                            IF t \in S THEN CountOf(t) ELSE proc[p].seen[t]]
<1>0. proc[p] \in ProcState
  BY ProcTyped
<1>1. FindCheck(p) => IF Existing(proc[p].check) THEN Goes(p, {"mark"}) ELSE Goes(p, {"fail"})
  <2>1. CASE Existing(proc[p].check) /\ FindCheck(p)
    <3>1. proc'[p] = [proc[p] EXCEPT !.was = checks[proc[p].check], !.pc = "mark"]
      BY <2>1, BecomeGives DEF FindCheck
    <3> QED
      BY <1>0, <2>1, <3>1, StateForm DEF Goes, SameWork
  <2> QED
    BY <2>1, GoGoes DEF FindCheck, GoesWith
<1>2. MarkProcessing(p) =>
         IF Existing(proc[p].check)
         THEN Goes(p, {"count"}) /\ proc'[p].seen = Uncounted /\ proc'[p].resume = "work"
         ELSE Goes(p, {"fail"})
  BY CountBegins, GoGoes DEF MarkProcessing, GoesWith
<1>3. SaveResult(p) =>
         IF Existing(proc[p].check)
         THEN Goes(p, {"count"}) /\ proc'[p].seen = Uncounted /\ proc'[p].resume = "done"
         ELSE Goes(p, {"fail"})
  BY CountBegins, GoGoes DEF SaveResult, GoesWith
<1>4. LoadProgress(p) => GoesWith(p, "progress", stmt)
  BY DocGoes DEF LoadProgress
<1>5. SaveProgress(p) => Goes(p, {proc[p].resume})
  <2> SUFFICES ASSUME SaveProgress(p) PROVE Goes(p, {proc[p].resume})
    OBVIOUS
  <2>1. proc'[p] = [proc[p] EXCEPT !.doc = Missing, !.seen = Uncounted, !.pc = proc[p].resume]
    BY BecomeGives DEF SaveProgress
  <2> HIDE DEF Missing, Uncounted
  <2> QED
    BY <1>0, <2>1, StateForm DEF Goes, SameWork
<1>6. CountChecks(p) =>
         /\ Goes(p, {"count"}) /\ proc'[p].resume = proc[p].resume
         /\ \E S \in Reads : S \cap DOMAIN proc[p].seen = {} /\ proc'[p].seen =
               [t \in DOMAIN proc[p].seen \cup S |->
                    IF t \in S THEN CountOf(t) ELSE proc[p].seen[t]]
  <2> SUFFICES ASSUME CountChecks(p)
               PROVE  /\ Goes(p, {"count"}) /\ proc'[p].resume = proc[p].resume
                      /\ \E S \in Reads : S \cap DOMAIN proc[p].seen = {} /\ proc'[p].seen =
                            [t \in DOMAIN proc[p].seen \cup S |->
                                 IF t \in S THEN CountOf(t) ELSE proc[p].seen[t]]
    OBVIOUS
  <2> DEFINE new(S) == [t \in DOMAIN proc[p].seen \cup S |->
                            IF t \in S THEN CountOf(t) ELSE proc[p].seen[t]]
  <2>1. PICK S \in Reads : /\ S \cap DOMAIN proc[p].seen = {}
                           /\ Become(p, [proc[p] EXCEPT !.seen = new(S)])
    BY DEF CountChecks
  <2>2. proc'[p] = [proc[p] EXCEPT !.seen = new(S)] /\ proc[p].pc = "count"
    BY <2>1, BecomeGives DEF CountChecks, At
  <2> HIDE DEF new
  <2>3. Goes(p, {"count"}) /\ proc'[p].resume = proc[p].resume /\ proc'[p].seen = new(S)
    BY <1>0, <2>2, StateForm DEF Goes, SameWork
  <2> QED
    BY <2>1, <2>3 DEF new
<1> QED
  BY <1>1, <1>2, <1>3, <1>4, <1>5, <1>6

LEMMA LoadLands ==
    ASSUME TypeOK, NEW p \in Procs, LoadStatement(p)
    PROVE  /\ proc[p].job \in {"extract", "structure"} => GoesWith(p, "begin", stmt)
           /\ proc[p].job = "spawn" => GoesWith(p, "deleteChecks", stmt)
           /\ proc[p].job = "check" /\ proc[p].check = NoCheck => Goes(p, {"fail"})
           /\ proc[p].job = "check" /\ proc[p].check # NoCheck => Goes(p, {"findCheck"})
           /\ proc[p].job = "refresh" => Goes(p, {"refresh"})
<1>1. CASE proc[p].job \in {"extract", "structure"}
  BY <1>1, DocGoes DEF LoadStatement
<1>2. CASE proc[p].job = "spawn"
  BY <1>2, DocGoes DEF LoadStatement
<1>3. CASE proc[p].job = "check"
  BY <1>3, DocGoes DEF LoadStatement, GoesWith, Goes
<1>4. CASE proc[p].job = "refresh"
  BY <1>4, DocGoes DEF LoadStatement, GoesWith, Goes
<1> QED
  BY <1>1, <1>2, <1>3, <1>4

\* p's checks.spawn goes on with these checks to hand over.
Spawning(p, pc, todo) ==
    /\ proc'[p].job = proc[p].job /\ proc'[p].check = proc[p].check
    /\ proc'[p].nested = proc[p].nested /\ proc'[p].caller = proc[p].caller
    /\ proc'[p].doc = proc[p].doc /\ proc'[p].pc = pc /\ proc'[p].todo = todo

LEMMA SpawnLands ==
    ASSUME TypeOK, NEW p \in Procs
    PROVE  /\ SelectCandidates(p) => Spawning(p, "spawn", {})
           /\ SpawnCheck(p) => Spawning(p, "spawn", proc[p].todo \cup {made + 1})
           /\ FanOut(p) => \/ proc[p].todo = {} /\ GoesWith(p, "done", proc[p].doc)
                           \/ \E c \in proc[p].todo :
                                 \/ /\ mode = "tasks" /\ Put(CheckTask(c))
                                    /\ Spawning(p, "fanOut", proc[p].todo \ {c})
                                 \/ /\ mode # "tasks"
                                    /\ proc'[p].job = "check" /\ proc'[p].check = c
                                    /\ proc'[p].nested /\ proc'[p].caller = proc[p].caller
                                    /\ proc'[p].pc = "load" /\ proc'[p].todo = proc[p].todo \ {c}
<1>0. proc[p] \in ProcState
  BY ProcTyped
<1>1. SelectCandidates(p) => Spawning(p, "spawn", {})
  <2> SUFFICES ASSUME SelectCandidates(p) PROVE Spawning(p, "spawn", {})
    OBVIOUS
  <2>1. proc'[p] = [proc[p] EXCEPT !.left = rows, !.todo = {}, !.pc = "spawn"]
    BY BecomeGives DEF SelectCandidates
  <2> QED
    BY <1>0, <2>1, StateForm DEF Spawning
<1>2. SpawnCheck(p) => Spawning(p, "spawn", proc[p].todo \cup {made + 1})
  <2> SUFFICES ASSUME SpawnCheck(p) PROVE Spawning(p, "spawn", proc[p].todo \cup {made + 1})
    OBVIOUS
  <2> DEFINE todo == proc[p].todo \cup {made + 1}
  <2>1. proc'[p] = [proc[p] EXCEPT !.left = proc[p].left - 1, !.todo = todo] /\ proc[p].pc = "spawn"
    BY BecomeGives DEF SpawnCheck, At
  <2> HIDE DEF todo
  <2>2. Spawning(p, "spawn", todo)
    BY <1>0, <2>1, StateForm DEF Spawning
  <2> QED
    BY <2>2 DEF todo
<1>3. FanOut(p) /\ proc[p].todo = {} => GoesWith(p, "done", proc[p].doc)
  BY GoGoes DEF FanOut
<1>4. ASSUME FanOut(p), proc[p].todo # {}
      PROVE  \E c \in proc[p].todo :
                                 \/ /\ mode = "tasks" /\ Put(CheckTask(c))
                                    /\ Spawning(p, "fanOut", proc[p].todo \ {c})
                                 \/ /\ mode # "tasks"
                                    /\ proc'[p].job = "check" /\ proc'[p].check = c
                                    /\ proc'[p].nested /\ proc'[p].caller = proc[p].caller
                                    /\ proc'[p].pc = "load" /\ proc'[p].todo = proc[p].todo \ {c}
  <2> DEFINE c == CHOOSE c \in proc[p].todo : \A d \in proc[p].todo : c <= d
             rest == [proc[p] EXCEPT !.todo = proc[p].todo \ {c}]
             next == [rest EXCEPT !.job = "check", !.check = c, !.nested = TRUE, !.pc = "load"]
  <2>1. \/ mode = "tasks" /\ Put([job |-> "check", check |-> c]) /\ Become(p, rest)
        \/ mode # "tasks" /\ Become(p, next) /\ UNCHANGED queued
    BY <1>4 DEF FanOut
  <2>2. c \in proc[p].todo
    <3>0. proc[p].todo \in SUBSET CheckIds
      BY <1>0, Fields
    <3>1. proc[p].todo \subseteq Nat /\ proc[p].todo # {}
      BY <3>0, <1>4, PipelineAssumption DEF CheckIds
    <3> DEFINE S == proc[p].todo
    <3>2. PICK least \in S : \A d \in S : least <= d
      BY <3>1, LeastOf
    <3> QED
      BY <3>2
  <2>3. proc[p].pc = "fanOut"
    BY <1>4 DEF FanOut, At
  <2> HIDE DEF c
  <2>4. rest \in ProcState /\ rest.todo = proc[p].todo \ {c} /\ rest.check = proc[p].check
        /\ rest.nested = proc[p].nested /\ rest.pc = proc[p].pc /\ rest.job = proc[p].job
        /\ rest.caller = proc[p].caller /\ rest.doc = proc[p].doc
    BY <1>0, StateForm
  <2> HIDE DEF rest
  <2>5. /\ next.todo = rest.todo /\ next.job = "check" /\ next.check = c /\ next.nested
        /\ next.pc = "load" /\ next.caller = rest.caller
    BY <2>4, StateForm
  <2> HIDE DEF next
  <2>6. CASE mode = "tasks" /\ Put([job |-> "check", check |-> c]) /\ Become(p, rest)
    <3>1. proc'[p] = rest
      BY <2>6, BecomeGives
    <3>2. Spawning(p, "fanOut", proc[p].todo \ {c})
      BY <3>1, <2>4, <2>3 DEF Spawning
    <3> QED
      BY <2>2, <2>6, <3>2 DEF CheckTask
  <2>7. CASE mode # "tasks" /\ Become(p, next)
    BY <2>2, <2>4, <2>5, <2>7, BecomeGives
  <2> QED
    BY <2>1, <2>6, <2>7
<1> QED
  BY <1>1, <1>2, <1>3, <1>4

\* How a job and a handler end.
LEMMA EndLands ==
    ASSUME TypeOK, NEW p \in Procs, Succeed(p) \/ Rethrow(p)
    PROVE  \/ /\ proc[p].nested /\ proc'[p].job = "spawn" /\ proc'[p].check = NoCheck
              /\ ~proc'[p].nested /\ proc'[p].todo = proc[p].todo
              /\ proc'[p].caller = proc[p].caller
              /\ proc'[p].pc = IF Succeed(p) THEN "fanOut" ELSE "fail"
           \/ /\ ~proc[p].nested /\ Succeed(p) /\ proc[p].caller # "queue" /\ mode = "inline"
              /\ proc[p].job \in DOMAIN NextJob
              /\ proc'[p].job = NextJob[proc[p].job] /\ proc'[p].check = proc[p].check
              /\ ~proc'[p].nested /\ proc'[p].todo = proc[p].todo
              /\ proc'[p].caller = proc[p].caller /\ proc'[p].pc = "load"
           \/ /\ ~proc[p].nested
              /\ \/ proc'[p] = IdleProc
                 \/ proc[p].caller = "create" /\ Goes(p, {"created", "dispatchFailed"})
              /\ Succeed(p) /\ proc[p].caller # "queue" =>
                    ~(mode = "inline" /\ proc[p].job \in DOMAIN NextJob)
<1>0. proc[p] \in ProcState /\ ~(Succeed(p) /\ Rethrow(p))
  BY ProcTyped DEF Succeed, Rethrow, At
<1>1. CASE proc[p].nested
  <2>1. PICK pc \in {"fanOut", "fail"} :
           /\ proc'[p] = [proc[p] EXCEPT !.job = "spawn", !.check = NoCheck, !.nested = FALSE, !.pc = pc]
           /\ pc = IF Succeed(p) THEN "fanOut" ELSE "fail"
    <3>1. \/ Succeed(p) /\ BackToSpawn(p, "fanOut")
          \/ ~Succeed(p) /\ BackToSpawn(p, "fail")
      BY <1>0, <1>1 DEF Succeed, Rethrow
    <3> QED
      BY <3>1, BecomeGives DEF BackToSpawn
  <2>2. proc'[p].job = "spawn" /\ proc'[p].check = NoCheck /\ ~proc'[p].nested
        /\ proc'[p].todo = proc[p].todo /\ proc'[p].caller = proc[p].caller /\ proc'[p].pc = pc
    BY <1>0, <2>1, StateForm
  <2> QED
    BY <1>1, <2>1, <2>2
<1>2. CASE ~proc[p].nested /\ Succeed(p) /\ proc[p].caller # "queue" /\ mode = "inline"
           /\ proc[p].job \in DOMAIN NextJob
  <2> DEFINE job == NextJob[proc[p].job]
  <2>1. proc'[p] = [proc[p] EXCEPT !.job = job, !.pc = "load"]
    BY <1>2, BecomeGives DEF Succeed
  <2> HIDE DEF job
  <2>2. proc'[p].job = job /\ proc'[p].check = proc[p].check /\ ~proc'[p].nested
        /\ proc'[p].todo = proc[p].todo /\ proc'[p].caller = proc[p].caller /\ proc'[p].pc = "load"
    BY <1>0, <1>2, <2>1, StateForm
  <2> QED
    BY <1>2, <2>2 DEF job
<1>3. CASE /\ ~proc[p].nested
           /\ ~(Succeed(p) /\ proc[p].caller # "queue" /\ mode = "inline"
                /\ proc[p].job \in DOMAIN NextJob)
  <2>1. \/ Become(p, IdleProc)
        \/ proc[p].caller = "create" /\ (Go(p, "created") \/ Go(p, "dispatchFailed"))
    BY <1>3 DEF Succeed, Rethrow, Returned, Threw, Go
  <2> QED
    BY <1>3, <2>1, BecomeGives, GoGoes DEF GoesWith, Goes
<1> QED
  BY <1>1, <1>2, <1>3

LEMMA HandlerLands ==
    ASSUME TypeOK, NEW p \in Procs
    PROVE  /\ ResetStatement(p) =>
                 IF Conflicts(proc[p].doc, proc[p].doc.issues)
                 THEN stmt' = stmt /\ proc'[p] = IdleProc
                 ELSE /\ stmt' = Saved(proc[p].doc, Uploaded, proc[p].doc.issues)
                      /\ GoesWith(p, "clear", proc[p].doc)
           /\ ClearChecks(p) => GoesWith(p, "enqueue", proc[p].doc)
           /\ RequeueCheck(p) => \/ checks' = checks /\ proc'[p] = IdleProc
                                 \/ GoesWith(p, "enqueue", proc[p].doc)
           /\ Enqueue(p) /\ mode # "tasks" => GoesWith(p, "load", proc[p].doc)
           /\ Enqueue(p) /\ mode = "tasks" =>
                 /\ Put([job |-> proc[p].job, check |-> proc[p].check])
                 /\ \/ proc'[p] = IdleProc
                    \/ proc[p].caller = "create" /\ Goes(p, {"created"})
           /\ EnqueueError(p) => \/ proc'[p] = IdleProc
                                 \/ proc[p].caller = "create" /\ Goes(p, {"dispatchFailed"})
           /\ SaveExtracting(p) \/ SaveDispatchFailed(p) => proc'[p] = IdleProc
<1>1. ResetStatement(p) =>
                 IF Conflicts(proc[p].doc, proc[p].doc.issues)
                 THEN stmt' = stmt /\ proc'[p] = IdleProc
                 ELSE /\ stmt' = Saved(proc[p].doc, Uploaded, proc[p].doc.issues)
                      /\ GoesWith(p, "clear", proc[p].doc)
  BY GoGoes, BecomeGives DEF ResetStatement
<1>2. ClearChecks(p) => GoesWith(p, "enqueue", proc[p].doc)
  BY GoGoes DEF ClearChecks
<1>3. RequeueCheck(p) => \/ checks' = checks /\ proc'[p] = IdleProc
                         \/ GoesWith(p, "enqueue", proc[p].doc)
  BY GoGoes, BecomeGives DEF RequeueCheck
<1>4. Enqueue(p) /\ mode # "tasks" => GoesWith(p, "load", proc[p].doc)
  BY GoGoes DEF Enqueue
<1>5. Enqueue(p) /\ mode = "tasks" =>
                 /\ Put([job |-> proc[p].job, check |-> proc[p].check])
                 /\ \/ proc'[p] = IdleProc
                    \/ proc[p].caller = "create" /\ Goes(p, {"created"})
  <2>1. Enqueue(p) /\ mode = "tasks" =>
           /\ Put([job |-> proc[p].job, check |-> proc[p].check])
           /\ Become(p, IdleProc) \/ (proc[p].caller = "create" /\ Go(p, "created"))
    BY DEF Enqueue, Returned, Go
  <2> QED
    BY <2>1, BecomeGives, GoGoes DEF GoesWith
<1>6. EnqueueError(p) => \/ proc'[p] = IdleProc
                         \/ proc[p].caller = "create" /\ Goes(p, {"dispatchFailed"})
  <2>1. EnqueueError(p) =>
           Become(p, IdleProc) \/ (proc[p].caller = "create" /\ Go(p, "dispatchFailed"))
    BY DEF EnqueueError, Threw, Go
  <2> QED
    BY <2>1, BecomeGives, GoGoes DEF GoesWith
<1>7. SaveExtracting(p) \/ SaveDispatchFailed(p) => proc'[p] = IdleProc
  BY BecomeGives DEF SaveExtracting, SaveDispatchFailed
<1> QED
  BY <1>1, <1>2, <1>3, <1>4, <1>5, <1>6, <1>7

LEMMA ArriveLands ==
    ASSUME TypeOK, NEW p \in Procs, Arrive(p)
    PROVE  /\ ~proc'[p].nested /\ proc'[p].todo = {}
           /\ UNCHANGED <<mode, checks, made, queued, rows>> /\ requests' = requests + 1
           /\ \/ /\ "create" \in Handlers /\ proc'[p].caller = "create" /\ proc'[p].pc = "enqueue"
                 /\ proc'[p].job = "extract" /\ proc'[p].check = NoCheck /\ stmt = Missing
                 /\ stmt' = Uploaded
              \/ /\ proc'[p].caller = "reprocess" /\ proc'[p].pc = "reset" /\ stmt' = stmt
                 /\ proc'[p].doc = stmt /\ proc'[p].check = NoCheck
                 /\ <<mode, proc'[p].job>> \in FromJobs
              \/ /\ proc'[p].caller = "retry" /\ proc'[p].pc = "requeue" /\ stmt' = stmt
                 /\ proc'[p].job = "check" /\ proc'[p].check \in Present
<1>1. CASE CreateStatement(p)
  <2>1. proc'[p] = [[IdleProc EXCEPT !.doc = Uploaded] EXCEPT !.caller = "create", !.pc = "enqueue"]
    BY <1>1, BecomeGives DEF CreateStatement, Request
  <2>2. proc'[p].caller = "create" /\ proc'[p].pc = "enqueue" /\ proc'[p].job = "extract"
        /\ proc'[p].check = NoCheck /\ ~proc'[p].nested /\ proc'[p].todo = {}
    BY <2>1 DEF IdleProc
  <2> QED
    BY <1>1, <2>2 DEF CreateStatement, RequestOnly, Serves
<1>2. CASE \E job \in Job : ReprocessStatement(p, job)
  <2>1. PICK job \in Job : ReprocessStatement(p, job)
    BY <1>2
  <2>2. proc'[p] = [[IdleProc EXCEPT !.doc = stmt, !.job = job]
                       EXCEPT !.caller = "reprocess", !.pc = "reset"]
    BY <2>1, BecomeGives DEF ReprocessStatement, Request
  <2>3. proc'[p].caller = "reprocess" /\ proc'[p].pc = "reset" /\ proc'[p].job = job
        /\ proc'[p].check = NoCheck /\ ~proc'[p].nested /\ proc'[p].todo = {} /\ proc'[p].doc = stmt
    BY <2>2 DEF IdleProc
  <2> QED
    BY <2>1, <2>3 DEF ReprocessStatement, RequestOnly, Serves
<1>3. CASE \E c \in CheckIds : RetryStatementCheck(p, c)
  <2>1. PICK c \in CheckIds : RetryStatementCheck(p, c)
    BY <1>3
  <2>2. proc'[p] = [[IdleProc EXCEPT !.job = "check", !.check = c, !.was = checks[c]]
                       EXCEPT !.caller = "retry", !.pc = "requeue"]
    BY <2>1, BecomeGives DEF RetryStatementCheck, Request
  <2>3. proc'[p].caller = "retry" /\ proc'[p].pc = "requeue" /\ proc'[p].job = "check"
        /\ proc'[p].check = c /\ ~proc'[p].nested /\ proc'[p].todo = {}
    BY <2>2 DEF IdleProc
  <2> QED
    BY <2>1, <2>3 DEF RetryStatementCheck, RequestOnly, Serves, Present, Existing
<1> QED
  BY <1>1, <1>2, <1>3 DEF Arrive
-----------------------------------------------------------------------------
(* Every step is of its job. *)

CheckPcs == {"findCheck", "mark", "count", "progress", "work", "failCheck"}
Place(x) ==
    /\ x.pc = "begin" => x.job \in {"extract", "structure"}
    /\ x.pc = "extracted" => x.job = "extract"
    /\ x.pc \in {"artifacts", "create"} => x.job = "structure"
    /\ x.pc \in {"deleteChecks", "select", "spawn", "fanOut"} => x.job = "spawn"
    /\ x.pc \in CheckPcs => x.job = "check" /\ x.check \in CheckIds
    /\ x.pc = "requeue" => x.job = "check" /\ x.check \in CheckIds
    /\ x.nested => x.job = "check" /\ x.check \in CheckIds /\ x.pc \in NestedSteps
Placed == \A p \in Procs : Place(proc[p])

\* Steps that no job has to itself.
Shared == {"idle", "enqueue", "reset", "clear", "created", "dispatchFailed", "load", "refresh",
           "fail", "saveFailed", "done", "rethrow"}

LEMMA PlaceMoves ==
    ASSUME NEW x, NEW y, Place(x), y.job = x.job, y.check = x.check, y.nested = x.nested
    PROVE  /\ y.pc \in Shared /\ (x.nested => y.pc \in NestedSteps) => Place(y)
           /\ y.pc = x.pc => Place(y)
           /\ x.pc \in CheckPcs /\ y.pc \in CheckPcs => Place(y)
BY DEF Place, Shared, CheckPcs, NestedSteps

LEMMA WorkPlaced ==
    ASSUME TypeOK, NEW p \in Procs, Place(proc[p]), Working(p) PROVE Place(proc'[p])
<1>0. /\ proc[p] \in ProcState /\ proc[p].check \in CheckIds \cup {NoCheck}
      /\ proc[p].resume \in {"work", "done", "rethrow"} /\ proc[p].job \in Job
      /\ proc[p].todo \in SUBSET CheckIds
  BY ProcTyped, Fields
<1> USE DEF At
<1>1. CASE LoadFailed(p) \/ RefreshMatching(p)
  <2>1. Goes(p, {"saveFailed", "done"}) 
    BY <1>1, Lands DEF GoesWith, Goes
  <2> QED
    BY <2>1, PlaceMoves DEF Goes, SameWork, Shared, NestedSteps
<1>2. CASE SaveFailed(p)
  <2>1. CASE Goes(p, {"rethrow"})
    BY <2>1, PlaceMoves DEF Goes, SameWork, Shared, NestedSteps
  <2>2. CASE Goes(p, {"failCheck"}) /\ proc[p].job = "check" /\ proc[p].check # NoCheck
    BY <1>0, <2>2 DEF Goes, SameWork, Place, NestedSteps, CheckPcs
  <2> QED
    BY <1>2, <2>1, <2>2, Lands DEF GoesWith
<1>3. CASE FailCheck(p) \/ MarkProcessing(p) \/ SaveResult(p) \/ CountChecks(p) \/ LoadProgress(p)
           \/ FindCheck(p)
  <2>1. Goes(p, {"count", "progress", "mark", "fail"}) /\ proc[p].pc \in CheckPcs
    <3>1. proc[p].pc \in CheckPcs
      BY <1>3, Guards DEF CheckPcs
    <3> QED
      BY <1>3, <3>1, Lands, CheckLands DEF GoesWith, Goes
  <2> QED
    BY <2>1, PlaceMoves DEF Goes, SameWork, Shared, NestedSteps, CheckPcs
<1>4. CASE SaveProgress(p)
  <2>1. Goes(p, {"work", "done", "rethrow"}) /\ proc[p].pc = "progress"
    BY <1>0, <1>4, CheckLands, Guards DEF Goes
  <2> QED
    BY <2>1, PlaceMoves DEF Goes, SameWork, Shared, NestedSteps, CheckPcs
<1>5. CASE LoadStatement(p)
  <2>1. proc[p].pc = "load"
    BY <1>5, Guards
  <2>2. /\ Goes(p, {"begin", "deleteChecks", "fail", "findCheck", "refresh"})
        /\ proc'[p].pc = "begin" => proc[p].job \in {"extract", "structure"}
        /\ proc'[p].pc = "deleteChecks" => proc[p].job = "spawn"
        /\ proc'[p].pc = "findCheck" => proc[p].job = "check" /\ proc[p].check \in CheckIds
        /\ proc'[p].pc = "refresh" => proc[p].job = "refresh"
    <3>1. \/ Goes(p, {"begin"}) /\ proc[p].job \in {"extract", "structure"}
          \/ Goes(p, {"deleteChecks"}) /\ proc[p].job = "spawn"
          \/ Goes(p, {"fail"})
          \/ Goes(p, {"findCheck"}) /\ proc[p].job = "check" /\ proc[p].check # NoCheck
          \/ Goes(p, {"refresh"}) /\ proc[p].job = "refresh"
      BY <1>0, <1>5, LoadLands DEF GoesWith, Job
    <3> QED
      BY <1>0, <3>1 DEF Goes
  <2> QED
    BY <2>1, <2>2 DEF Goes, SameWork, Place, NestedSteps, CheckPcs
<1>6. CASE BeginExtract(p) \/ FinishExtract(p) \/ BeginStructure(p)
  <2>1. /\ BeginExtract(p) => Goes(p, {"extracted"}) /\ proc[p].pc = "begin" /\ proc[p].job = "extract"
        /\ FinishExtract(p) => Goes(p, {"done"}) /\ proc[p].pc = "extracted"
        /\ BeginStructure(p) =>
              Goes(p, {"artifacts"}) /\ proc[p].pc = "begin" /\ proc[p].job = "structure"
    BY Lands, Guards DEF GoesWith, BeginExtract, BeginStructure
  <2> QED
    BY <1>6, <2>1 DEF Goes, SameWork, Place, NestedSteps, CheckPcs
<1>7. CASE DeleteRows(p) \/ CreateRow(p) \/ FinishStructure(p)
  <2>1. Goes(p, {"create", "done"}) /\ proc[p].pc \in {"artifacts", "create"}
    BY <1>7, Lands, Guards DEF GoesWith, Goes
  <2> QED
    BY <2>1 DEF Goes, SameWork, Place, NestedSteps, CheckPcs
<1>8. CASE DeleteChecks(p) \/ FinishSpawn(p)
  <2>1. Goes(p, {"select", "fanOut"}) /\ proc[p].pc \in {"deleteChecks", "spawn"}
    BY <1>8, Lands, Guards DEF GoesWith, Goes
  <2> QED
    BY <2>1 DEF Goes, SameWork, Place, NestedSteps, CheckPcs
<1>9. CASE SelectCandidates(p) \/ SpawnCheck(p)
  <2>1. /\ proc'[p].job = proc[p].job /\ proc'[p].nested = proc[p].nested /\ proc'[p].pc = "spawn"
        /\ proc[p].pc \in {"select", "spawn"}
    BY <1>9, SpawnLands, Guards DEF Spawning
  <2> QED
    BY <2>1 DEF Place, NestedSteps, CheckPcs
<1>10. CASE FanOut(p)
  <2>0. proc[p].pc = "fanOut" /\ proc[p].job = "spawn" /\ ~proc[p].nested
    BY <1>10, Guards DEF Place, NestedSteps
  <2>1. \/ Goes(p, {"done"})
        \/ /\ proc'[p].job = proc[p].job /\ proc'[p].nested = proc[p].nested
           /\ proc'[p].pc = "fanOut"
        \/ proc'[p].job = "check" /\ proc'[p].check \in CheckIds /\ proc'[p].pc = "load"
    BY <1>0, <1>10, SpawnLands DEF GoesWith, Spawning
  <2> QED
    BY <2>0, <2>1 DEF Goes, SameWork, Place, NestedSteps, CheckPcs
<1>11. CASE FanOutError(p) \/ ArtifactError(p)
  <2>1. Goes(p, {"fail"})
    BY <1>11, Lands DEF GoesWith
  <2> QED
    BY <2>1, PlaceMoves DEF Goes, SameWork, Shared, NestedSteps
<1> QED
  BY <1>1, <1>2, <1>3, <1>4, <1>5, <1>6, <1>7, <1>8, <1>9, <1>10, <1>11, Zenon DEF Working

LEMMA PlacedKept ==
    ASSUME TypeOK, Placed, NEW p \in Procs, Arrive(p) \/ Proceed(p) \/ Fault(p) PROVE Placed'
<1>1. Alone(p) /\ Place(proc[p])
  BY StepAlone DEF Placed
<1>2. Place(IdleProc)
  BY IdleShape DEF Place, CheckPcs
<1>3. Place(proc'[p])
  <2>1. CASE Arrive(p)
    BY <2>1, ArriveLands DEF Place, CheckPcs, Present
  <2>2. CASE Handles(p)
    <3>1. proc[p].pc \in HandlerSteps
      BY <2>2, HandlerGoes, Zenon DEF Handles
    <3>2. ~proc[p].nested
      BY <1>1, <3>1 DEF Place, NestedSteps, HandlerSteps
    <3>3. \/ proc'[p] = IdleProc
          \/ SameWork(p) /\ proc'[p].pc \in {"clear", "enqueue", "created", "dispatchFailed", "load"}
      BY <2>2, HandlerFields
    <3> QED
      BY <1>1, <1>2, <3>2, <3>3, PlaceMoves DEF SameWork, Shared
  <2>3. CASE \E task \in Task : Deliver(p, task)
    BY <2>3, DeliverFields DEF Place, CheckPcs
  <2>4. CASE Succeed(p) \/ Rethrow(p)
    <3>1. CASE proc'[p] = IdleProc
      BY <1>2, <3>1
    <3>2. CASE ~proc[p].nested /\ Goes(p, {"created", "dispatchFailed"})
      BY <1>1, <3>2, PlaceMoves DEF Goes, SameWork, Shared
    <3>3. CASE ~proc'[p].nested /\ proc'[p].pc \in {"fail", "load"}
      BY <3>3 DEF Place, CheckPcs
    <3>4. CASE ~proc'[p].nested /\ proc'[p].pc = "fanOut" /\ proc'[p].job = "spawn"
      BY <3>4 DEF Place, CheckPcs
    <3> QED
      BY <2>4, <3>1, <3>2, <3>3, <3>4, EndLands
  <2>5. CASE Crash(p)
    BY <1>2, <2>5, BecomeGives DEF Crash
  <2>6. CASE Working(p)
    BY <1>1, <2>6, WorkPlaced
  <2> QED
    BY <2>1, <2>2, <2>3, <2>4, <2>5, <2>6, StepKinds, Zenon DEF Handles
<1> QED
  BY <1>1, <1>3 DEF Placed, Alone
-----------------------------------------------------------------------------
(* The inline chain reaches its end. *)

\* One request at a time, no first run (its handler writes "extracting" over what the
\* chain made of the status), no process that dies, no chain that is asked for the
\* matching only.
InlineChain ==
    /\ \A p, q \in Requests : p = q
    /\ "create" \notin Handlers /\ "crash" \notin Faults
    /\ <<"inline", "refresh">> \notin FromJobs

OpenChecks == {c \in CheckIds : Open(c)}

\* A check.process in place that has saved its result and has only to count.
Concludes(p) ==
    /\ proc[p].nested
    /\ proc[p].pc = "done" \/ (proc[p].pc \in {"count", "progress"} /\ proc[p].resume = "done")

\* What the chain knows where it is: its document is the statement where it will save it,
\* and the checks that are not finished are those it has still to run.
Chain(p) ==
    /\ proc[p].job # "refresh" /\ proc[p].pc \notin {"refresh", "created", "dispatchFailed"}
    /\ proc[p].pc \in {"reset", "clear"} => proc[p].check = NoCheck
    /\ proc[p].pc \in {"reset", "deleteChecks", "select", "spawn", "progress", "saveFailed"}
           => proc[p].doc = stmt
    /\ proc[p].pc = "select" => Present = {}
    /\ proc[p].pc \in {"spawn", "fanOut"} => OpenChecks \subseteq proc[p].todo
    /\ proc[p].nested => OpenChecks \subseteq proc[p].todo \cup {proc[p].check}
    /\ Concludes(p) => OpenChecks \subseteq proc[p].todo /\ proc[p].check \in Present

\* p will say that the statement is ready or that it failed.
Onward(p) ==
    \/ proc[p].pc \in {"reset", "clear", "begin", "extracted", "artifacts", "create",
                       "deleteChecks", "select", "spawn", "fail", "saveFailed"}
    \/ /\ proc[p].pc \in {"enqueue", "load"}
       /\ proc[p].nested \/ proc[p].job # "check" \/ proc[p].check = NoCheck
    \/ proc[p].pc = "fanOut" /\ proc[p].todo # {}
    \/ proc[p].pc = "done" /\ proc[p].job \in {"extract", "structure"}
    \/ proc[p].nested /\ proc[p].pc \in {"findCheck", "mark", "work", "failCheck", "rethrow"}
    \/ /\ proc[p].nested /\ proc[p].pc \in {"count", "progress"}
       /\ proc[p].resume # "done" \/ Good(proc[p].seen)
    \/ Concludes(p) /\ proc[p].todo # {}

Said(p) == Done(stmt.status) \/ Onward(p)
InlineMain ==
    mode = "inline" =>
        /\ \A p \in Procs : Chain(p)
        /\ requests = 0 => (\A p \in Procs : At(p, "idle")) /\ Present = {}
        /\ requests > 0 => Done(stmt.status) \/ \E p \in Procs : Onward(p)
InlineInv == TypeOK /\ SeenAll /\ Homes /\ Placed /\ InlineMain

LEMMA ChecksSame ==
    ASSUME UNCHANGED checks PROVE Present' = Present /\ OpenChecks' = OpenChecks
BY DEF Present, OpenChecks, Open

LEMMA OpenPresent == OpenChecks \subseteq Present
BY DEF OpenChecks, Open, Present

\* The other processes are idle.
LEMMA OthersIdle ==
    ASSUME InlineChain, mode = "inline", TypeOK, Homes, NEW p \in Procs,
           Arrive(p) \/ Proceed(p) \/ Fault(p)
    PROVE  /\ p \in Requests /\ ~Crash(p) /\ ~(\E task \in Task : Deliver(p, task))
           /\ \A q \in Procs : q # p => At(q, "idle")
<1>1. ~(\E task \in Task : Deliver(p, task)) /\ ~Crash(p)
  <2>1. ASSUME NEW task \in Task, Deliver(p, task) PROVE FALSE
    <3>1. queued[task] > 0 /\ queued[task] = 0
      BY <2>1 DEF Homes, Deliver
    <3> QED
      BY <3>1
  <2>2. ~Crash(p)
    BY DEF InlineChain, Crash
  <2> QED
    BY <2>1, <2>2
<1>2. p \in Requests
  <2>1. SUFFICES ASSUME p \in Workers, p \notin Requests PROVE FALSE
    BY DEF Procs
  <2>2. At(p, "idle")
    BY <2>1 DEF Homes
  <2>3. ~Arrive(p)
    BY <2>1 DEF Arrive, CreateStatement, ReprocessStatement, RetryStatementCheck, Serves
  <2>4. Handles(p) \/ Succeed(p) \/ Rethrow(p) \/ Working(p)
    BY <1>1, <2>3, StepKinds, Zenon DEF Handles
  <2>5. proc[p].pc \in HandlerSteps \cup JobSteps
    <3>1. Handles(p) => proc[p].pc \in HandlerSteps
      BY HandlerGoes, Zenon DEF Handles
    <3>2. Working(p) => proc[p].pc \in JobSteps
      BY WorkingLeads DEF Leads
    <3>3. Succeed(p) \/ Rethrow(p) => proc[p].pc \in JobSteps
      BY Guards DEF At, JobSteps
    <3> QED
      BY <2>4, <3>1, <3>2, <3>3
  <2> QED
    BY <2>2, <2>5 DEF At, HandlerSteps, JobSteps
<1>3. ASSUME NEW q \in Procs, q # p PROVE At(q, "idle")
  BY <1>2, <1>3 DEF InlineChain, Procs, Homes
<1> QED
  BY <1>1, <1>2, <1>3

\* At a step of its own a job is not nested; an idle process knows nothing.
LEMMA IdleChain ==
    ASSUME NEW p, proc'[p] = IdleProc PROVE Chain(p)' /\ ~Onward(p)'
BY DEF Chain, Onward, Concludes, IdleProc

\* Same work at a step the chain knows nothing special of.
Plain == {"idle", "enqueue", "load", "begin", "extracted", "artifacts", "create", "findCheck",
          "mark", "work", "fail", "failCheck", "rethrow"}
LEMMA PlainChain ==
    ASSUME NEW p, Chain(p), SameWork(p), proc'[p].pc \in Plain,
           proc[p].nested => OpenChecks' \subseteq OpenChecks \cup {proc[p].check}
    PROVE  Chain(p)'
BY DEF Chain, SameWork, Plain, Concludes

LEMMA HandlerChain ==
    ASSUME InlineChain, mode = "inline", TypeOK, NEW p \in Procs, Place(proc[p]), Chain(p), Said(p),
           Handles(p)
    PROVE  Chain(p)' /\ Said(p)'
<1>0. proc[p].pc \in HandlerSteps /\ ~proc[p].nested /\ proc[p].caller # "create"
  <2>1. proc[p].pc \in HandlerSteps
    BY HandlerGoes, Zenon DEF Handles
  <2>2. proc[p].caller # "create"
    BY ProcTyped, Fields DEF InlineChain
  <2> QED
    BY <2>1, <2>2 DEF Place, NestedSteps, HandlerSteps
<1>1. CASE ResetStatement(p)
  <2>1. proc[p].pc = "reset" /\ proc[p].doc = stmt
    BY <1>1, Guards DEF At, Chain
  <2>2. GoesWith(p, "clear", proc[p].doc)
    BY <1>1, <2>1, HandlerLands DEF Conflicts
  <2> QED
    BY <1>0, <2>1, <2>2 DEF GoesWith, Goes, SameWork, Chain, Said, Onward, Concludes
<1>2. CASE ClearChecks(p)
  <2>1. proc[p].pc = "clear" /\ GoesWith(p, "enqueue", proc[p].doc)
    BY <1>2, Guards, HandlerLands DEF At
  <2> QED
    BY <1>0, <2>1, PlainChain DEF GoesWith, Goes, SameWork, Plain, Chain, Said, Onward
<1>3. CASE RequeueCheck(p)
  <2>1. proc[p].pc = "requeue" /\ stmt' = stmt
    BY <1>3, Guards DEF At, RequeueCheck, ChecksOnly
  <2>2. Done(stmt.status)
    BY <1>0, <2>1 DEF Said, Onward, Concludes
  <2>3. CASE proc'[p] = IdleProc
    BY <2>1, <2>2, <2>3, IdleChain DEF Said
  <2>4. CASE GoesWith(p, "enqueue", proc[p].doc)
    BY <1>0, <2>1, <2>2, <2>4, PlainChain DEF GoesWith, Goes, SameWork, Plain, Said
  <2> QED
    BY <1>3, <2>3, <2>4, HandlerLands
<1>4. CASE Enqueue(p)
  <2>1. proc[p].pc = "enqueue" /\ stmt' = stmt /\ GoesWith(p, "load", proc[p].doc)
    BY <1>4, Guards, HandlerLands DEF At, Enqueue, QueueOnly
  <2> QED
    BY <1>0, <2>1, PlainChain DEF GoesWith, Goes, SameWork, Plain, Said, Onward, Concludes
<1>5. ~EnqueueError(p) /\ ~SaveExtracting(p) /\ ~SaveDispatchFailed(p)
  BY DEF EnqueueError, SaveExtracting, SaveDispatchFailed, At, Chain
<1> QED
  BY <1>1, <1>2, <1>3, <1>4, <1>5 DEF Handles

LEMMA EndChain ==
    ASSUME InlineChain, mode = "inline", TypeOK, NEW p \in Procs, Place(proc[p]), Chain(p), Said(p),
           proc[p].caller # "queue", Succeed(p) \/ Rethrow(p)
    PROVE  Chain(p)' /\ Said(p)'
<1>0. /\ proc[p].caller # "create" /\ proc[p].job \in Job /\ stmt' = stmt
      /\ Present' = Present /\ OpenChecks' = OpenChecks
      /\ Succeed(p) => proc[p].pc = "done"
      /\ Rethrow(p) => proc[p].pc = "rethrow"
  <2>1. proc[p].caller # "create" /\ proc[p].job \in Job
    BY ProcTyped, Fields DEF InlineChain
  <2>2. stmt' = stmt /\ checks' = checks
    BY DEF Succeed, Rethrow, QueueOnly
  <2> QED
    BY <2>1, <2>2, ChecksSame, Guards DEF At
<1>1. CASE proc[p].nested
  <2>1. /\ proc'[p].job = "spawn" /\ ~proc'[p].nested /\ proc'[p].todo = proc[p].todo
        /\ Succeed(p) => proc'[p].pc = "fanOut"
        /\ ~Succeed(p) => proc'[p].pc = "fail"
    BY <1>1, EndLands
  <2>2. CASE Succeed(p)
    <3>1. OpenChecks \subseteq proc[p].todo /\ proc[p].pc = "done" /\ proc[p].job = "check"
      BY <1>0, <1>1, <2>2 DEF Chain, Concludes, Place
    <3>2. Chain(p)'
      BY <1>0, <2>1, <2>2, <3>1 DEF Chain, Concludes
    <3>3. Said(p)'
      BY <1>0, <1>1, <2>1, <2>2, <3>1 DEF Said, Onward, Concludes
    <3> QED
      BY <3>2, <3>3
  <2>3. CASE ~Succeed(p)
    BY <2>1, <2>3 DEF Chain, Concludes, Said, Onward
  <2> QED
    BY <2>2, <2>3
<1>2. CASE ~proc[p].nested /\ Succeed(p) /\ proc[p].job \in DOMAIN NextJob
  <2>1. proc'[p].job = NextJob[proc[p].job] /\ ~proc'[p].nested /\ proc'[p].pc = "load"
    BY <1>0, <1>2, EndLands
  <2>2. proc'[p].job \in {"structure", "spawn"}
    BY <1>2, <2>1 DEF NextJob
  <2> QED
    BY <2>1, <2>2 DEF Chain, Concludes, Said, Onward
<1>3. CASE ~proc[p].nested /\ ~(Succeed(p) /\ proc[p].job \in DOMAIN NextJob)
  <2>1. proc'[p] = IdleProc
    BY <1>0, <1>3, EndLands
  <2>2. Done(stmt.status)
    BY <1>0, <1>3 DEF Said, Onward, Concludes, NextJob
  <2> QED
    BY <1>0, <2>1, <2>2, IdleChain DEF Said
<1> QED
  BY <1>1, <1>2, <1>3

\* What a working step that goes on with the same work has to keep.
LEMMA CatchChain ==
    ASSUME InlineChain, mode = "inline", TypeOK, NEW p \in Procs, Place(proc[p]), Chain(p), Said(p),
           LoadFailed(p) \/ SaveFailed(p) \/ FailCheck(p) \/ ArtifactError(p)
    PROVE  Chain(p)' /\ Said(p)'
<1>0. proc[p].doc \in StatementDoc /\ checks \in [CheckIds -> Check]
  BY ProcTyped, Fields
<1>1. CASE LoadFailed(p)
  <2>1. GoesWith(p, "saveFailed", stmt) /\ stmt' = stmt /\ checks' = checks
    BY <1>1, Lands DEF LoadFailed, ProcOnly, StatementOnly
  <2> QED
    BY <2>1, ChecksSame DEF GoesWith, Goes, SameWork, Chain, Concludes, Said, Onward
<1>2. CASE SaveFailed(p)
  <2>1. proc[p].pc = "saveFailed" /\ proc[p].doc = stmt /\ checks' = checks
    BY <1>2, Guards DEF At, Chain, SaveFailed, StatementOnly
  <2>2. Goes(p, {"rethrow", "failCheck"})
    BY <1>2, Lands DEF GoesWith, Goes
  <2>3. stmt' = Saved(stmt, [stmt EXCEPT !.status = "failed", !.issues = TRUE], TRUE)
    BY <1>2, <2>1 DEF SaveFailed, Conflicts
  <2>4. stmt'.status = "failed"
    BY <1>0, <2>1, <2>3 DEF Saved, StatementDoc
  <2>5. Chain(p)'
    BY <2>1, <2>2, ChecksSame, PlainChain DEF Goes, SameWork, Plain
  <2> QED
    BY <2>4, <2>5 DEF Said, Done
<1>3. CASE FailCheck(p)
  <2>1. proc[p].pc = "failCheck" /\ stmt' = stmt
    BY <1>3, Guards DEF At, FailCheck, ChecksOnly
  <2>2. Goes(p, {"count"}) /\ proc'[p].resume = "rethrow"
    BY <1>3, Lands
  <2>3. OpenChecks' \subseteq OpenChecks
    BY <1>0, <1>3 DEF FailCheck, OpenChecks, Open, Existing, Check
  <2> QED
    BY <2>1, <2>2, <2>3 DEF Goes, SameWork, Chain, Concludes, Said, Onward
<1>4. CASE ArtifactError(p)
  <2>1. GoesWith(p, "fail", proc[p].doc) /\ stmt' = stmt /\ checks' = checks
    BY <1>4, Lands DEF ArtifactError, ProcOnly, StatementOnly
  <2> QED
    BY <2>1, ChecksSame, PlainChain DEF GoesWith, Goes, SameWork, Plain, Said, Onward
<1> QED
  BY <1>1, <1>2, <1>3, <1>4

LEMMA LoadChain ==
    ASSUME InlineChain, mode = "inline", TypeOK, NEW p \in Procs, Place(proc[p]), Chain(p), Said(p),
           LoadStatement(p)
    PROVE  Chain(p)' /\ Said(p)'
<1>1. /\ proc[p].pc = "load" /\ stmt' = stmt /\ Present' = Present /\ OpenChecks' = OpenChecks
      /\ proc[p].job \in Job /\ proc[p].job # "refresh"
  BY Guards, ChecksSame, ProcTyped, Fields DEF At, LoadStatement, ProcOnly, StatementOnly, Chain
<1>2. CASE proc[p].job \in {"extract", "structure"}
  <2>1. GoesWith(p, "begin", stmt)
    BY <1>2, LoadLands
  <2> QED
    BY <1>1, <2>1, PlainChain DEF GoesWith, Goes, SameWork, Plain, Said, Onward
<1>3. CASE proc[p].job = "spawn"
  <2>1. GoesWith(p, "deleteChecks", stmt)
    BY <1>3, LoadLands
  <2> QED
    BY <1>1, <2>1 DEF GoesWith, Goes, SameWork, Chain, Concludes, Said, Onward
<1>4. CASE proc[p].job = "check" /\ proc[p].check = NoCheck
  <2>1. Goes(p, {"fail"})
    BY <1>4, LoadLands
  <2> QED
    BY <1>1, <2>1, PlainChain DEF Goes, SameWork, Plain, Said, Onward
<1>5. CASE proc[p].job = "check" /\ proc[p].check # NoCheck
  <2>1. Goes(p, {"findCheck"})
    BY <1>5, LoadLands
  <2> QED
    BY <1>1, <1>5, <2>1, PlainChain DEF Goes, SameWork, Plain, Said, Onward, Concludes
<1> QED
  BY <1>1, <1>2, <1>3, <1>4, <1>5 DEF Job

LEMMA BuildChain ==
    ASSUME InlineChain, mode = "inline", TypeOK, NEW p \in Procs, Place(proc[p]), Chain(p), Said(p),
           \/ BeginExtract(p) \/ FinishExtract(p) \/ BeginStructure(p)
           \/ DeleteRows(p) \/ CreateRow(p) \/ FinishStructure(p)
    PROVE  Chain(p)' /\ Said(p)'
<1>1. checks' = checks
  BY DEF BeginExtract, FinishExtract, BeginStructure, DeleteRows, CreateRow, FinishStructure,
         StatementOnly
<1>2. /\ ~proc[p].nested /\ Goes(p, {"extracted", "artifacts", "create", "done"})
      /\ proc'[p].pc = "done" => proc[p].job \in {"extract", "structure"}
  <2>1. CASE BeginExtract(p) \/ BeginStructure(p)
    <3>1. proc[p].pc = "begin" /\ Goes(p, {"extracted", "artifacts"})
      BY <2>1, Guards, Lands DEF At, GoesWith, Goes
    <3> QED
      BY <3>1 DEF Goes, Place, NestedSteps
  <2>2. CASE FinishExtract(p)
    <3>1. proc[p].pc = "extracted" /\ Goes(p, {"done"})
      BY <2>2, Guards, Lands DEF At, GoesWith
    <3> QED
      BY <3>1 DEF Goes, Place, NestedSteps
  <2>3. CASE DeleteRows(p) \/ CreateRow(p) \/ FinishStructure(p)
    <3>1. proc[p].pc \in {"artifacts", "create"} /\ Goes(p, {"create", "done"})
      BY <2>3, Guards, Lands DEF At, GoesWith, Goes
    <3> QED
      BY <3>1 DEF Goes, Place, NestedSteps
  <2> QED
    BY <2>1, <2>2, <2>3
<1> QED
  BY <1>1, <1>2, ChecksSame DEF Goes, SameWork, Chain, Concludes, Said, Onward

LEMMA SpawnChain ==
    ASSUME InlineChain, mode = "inline", TypeOK, NEW p \in Procs, Place(proc[p]), Chain(p), Said(p),
           DeleteChecks(p) \/ SelectCandidates(p) \/ SpawnCheck(p) \/ FinishSpawn(p) \/ FanOut(p)
    PROVE  Chain(p)' /\ Said(p)'
<1>0. /\ proc[p].todo \in SUBSET CheckIds /\ proc[p].doc \in StatementDoc /\ stmt \in StatementDoc
      /\ checks \in [CheckIds -> Check] /\ ~proc[p].nested /\ proc[p].job = "spawn"
  BY ProcTyped, Fields, Guards DEF At, Place, NestedSteps
<1>1. CASE DeleteChecks(p)
  <2>1. /\ proc[p].pc = "deleteChecks" /\ GoesWith(p, "select", proc[p].doc) /\ stmt' = stmt
        /\ Present' = {}
    BY <1>1, Guards, Lands, PresentCleared DEF At, DeleteChecks, ChecksOnly
  <2> QED
    BY <1>0, <2>1 DEF GoesWith, Goes, SameWork, Chain, Concludes, Said, Onward
<1>2. CASE SelectCandidates(p)
  <2>1. /\ proc[p].pc = "select" /\ Spawning(p, "spawn", {}) /\ stmt' = stmt
        /\ OpenChecks' = OpenChecks
    BY <1>2, Guards, SpawnLands, ChecksSame DEF At, SelectCandidates, ProcOnly, StatementOnly
  <2> QED
    BY <1>0, <2>1, OpenPresent DEF Spawning, Chain, Concludes, Said, Onward
<1>3. CASE SpawnCheck(p)
  <2>1. /\ proc[p].pc = "spawn" /\ Spawning(p, "spawn", proc[p].todo \cup {made + 1})
        /\ stmt' = stmt
    BY <1>3, Guards, SpawnLands DEF At, SpawnCheck
  <2>2. OpenChecks' \subseteq OpenChecks \cup {made + 1}
    BY <1>0, <1>3 DEF SpawnCheck, OpenChecks, Open, Check
  <2> QED
    BY <1>0, <2>1, <2>2 DEF Spawning, Chain, Concludes, Said, Onward
<1>4. CASE FinishSpawn(p)
  <2>1. /\ proc[p].pc = "spawn" /\ GoesWith(p, "fanOut", proc[p].doc) /\ OpenChecks' = OpenChecks
        /\ proc[p].doc = stmt
    BY <1>4, Guards, Lands, ChecksSame DEF At, FinishSpawn, StatementOnly, Chain
  <2>2. Chain(p)'
    BY <1>0, <2>1 DEF GoesWith, Goes, SameWork, Chain, Concludes
  <2>3. proc[p].todo = {} => stmt'.status = "ready_for_review"
    <3>1. SUFFICES ASSUME proc[p].todo = {} PROVE stmt'.status = "ready_for_review"
      OBVIOUS
    <3>2. Cardinality(proc[p].todo) = 0
      BY <3>1, FS_EmptySet
    <3> DEFINE n == Cardinality(proc[p].todo)
               progress == [NoProgress EXCEPT !.total = n, !.queued = n]
    <3>3. stmt' = Saved(stmt, [stmt EXCEPT !.progress = progress, !.status =
                           IF n > 0 THEN "checks_queued" ELSE "ready_for_review"], FALSE)
      BY <1>4, <2>1 DEF FinishSpawn
    <3> HIDE DEF progress
    <3>4. ~(n > 0)
      BY <3>2
    <3> HIDE DEF n
    <3> QED
      BY <1>0, <3>3, <3>4 DEF Saved, StatementDoc
  <2> QED
    BY <2>1, <2>2, <2>3 DEF GoesWith, Goes, SameWork, Said, Onward, Done
<1>5. CASE FanOut(p)
  <2>1. /\ proc[p].pc = "fanOut" /\ stmt' = stmt /\ OpenChecks' = OpenChecks
        /\ Present' = Present /\ OpenChecks \subseteq proc[p].todo
    BY <1>5, Guards, ChecksSame DEF At, FanOut, QueueOnly, Chain
  <2>2. CASE proc[p].todo = {} /\ GoesWith(p, "done", proc[p].doc)
    BY <1>0, <2>1, <2>2 DEF GoesWith, Goes, SameWork, Chain, Concludes, Said, Onward
  <2>3. ASSUME NEW c \in proc[p].todo, proc'[p].job = "check", proc'[p].check = c, proc'[p].nested,
               proc'[p].pc = "load", proc'[p].todo = proc[p].todo \ {c}
        PROVE  Chain(p)' /\ Said(p)'
    BY <2>1, <2>3 DEF Chain, Concludes, Said, Onward
  <2> QED
    BY <1>5, <2>2, <2>3, SpawnLands
<1> QED
  BY <1>1, <1>2, <1>3, <1>4, <1>5

LEMMA CheckChain ==
    ASSUME InlineChain, mode = "inline", TypeOK, NEW p \in Procs, Place(proc[p]), Chain(p), Said(p),
           FindCheck(p) \/ MarkProcessing(p) \/ SaveResult(p)
    PROVE  Chain(p)' /\ Said(p)'
<1>0. checks \in [CheckIds -> Check]
  BY ProcTyped
<1>1. CASE FindCheck(p)
  <2>1. proc[p].pc = "findCheck" /\ stmt' = stmt /\ OpenChecks' = OpenChecks
        /\ Goes(p, {"mark", "fail"})
    BY <1>1, Guards, ChecksSame, CheckLands DEF At, FindCheck, ProcOnly, StatementOnly, Goes
  <2> QED
    BY <2>1, PlainChain DEF Goes, SameWork, Plain, Said, Onward, Concludes
<1>2. CASE MarkProcessing(p)
  <2>1. proc[p].pc = "mark" /\ stmt' = stmt
    BY <1>2, Guards DEF At, MarkProcessing, ChecksOnly
  <2>2. \/ Goes(p, {"fail"})
        \/ Goes(p, {"count"}) /\ proc'[p].resume = "work"
    BY <1>2, CheckLands
  <2>3. OpenChecks' \subseteq OpenChecks \cup {proc[p].check}
    BY <1>0, <1>2 DEF MarkProcessing, OpenChecks, Open, Existing, Check
  <2>4. CASE Goes(p, {"fail"})
    BY <2>1, <2>3, <2>4, PlainChain DEF Goes, SameWork, Plain, Said, Onward
  <2>5. CASE Goes(p, {"count"}) /\ proc'[p].resume = "work"
    BY <2>1, <2>3, <2>5 DEF Goes, SameWork, Chain, Concludes, Said, Onward
  <2> QED
    BY <2>2, <2>4, <2>5
<1>3. CASE SaveResult(p) /\ ~Existing(proc[p].check)
  <2>1. proc[p].pc = "work" /\ stmt' = stmt /\ OpenChecks' = OpenChecks /\ Goes(p, {"fail"})
    BY <1>3, Guards, ChecksSame, CheckLands DEF At, SaveResult, ChecksOnly
  <2> QED
    BY <2>1, PlainChain DEF Goes, SameWork, Plain, Said, Onward
<1>4. CASE SaveResult(p) /\ Existing(proc[p].check)
  <2>1. proc[p].pc = "work" /\ stmt' = stmt
    BY <1>4, Guards DEF At, SaveResult, ChecksOnly
  <2>2. Goes(p, {"count"}) /\ proc'[p].resume = "done" /\ Good(proc'[p].seen)
    BY <1>4, CheckLands, UncountedGood
  <2>3. checks' = [checks EXCEPT ![proc[p].check].status = "ready"] /\ proc[p].check \in CheckIds
    BY <1>4 DEF SaveResult, Existing
  <2>4. OpenChecks' \subseteq OpenChecks \ {proc[p].check} /\ proc[p].check \in Present'
    BY <1>0, <2>3 DEF OpenChecks, Open, Present, Check
  <2> QED
    BY <2>1, <2>2, <2>4 DEF Goes, SameWork, Chain, Concludes, Said, Onward
<1> QED
  BY <1>1, <1>2, <1>3, <1>4

LEMMA CountChain ==
    ASSUME InlineChain, mode = "inline", TypeOK, SeenAll, NEW p \in Procs, Place(proc[p]), Chain(p),
           Said(p), CountChecks(p) \/ LoadProgress(p) \/ SaveProgress(p)
    PROVE  Chain(p)' /\ Said(p)'
<1>0. /\ proc[p].doc \in StatementDoc /\ proc[p].seen \in Seen
      /\ proc[p].resume \in {"work", "done", "rethrow"}
      /\ OpenChecks' = OpenChecks /\ Present' = Present
  BY ProcTyped, Fields, ChecksSame DEF CountChecks, LoadProgress, SaveProgress, ProcOnly,
     StatementOnly
<1>1. CASE CountChecks(p)
  <2>1. /\ proc[p].pc = "count" /\ stmt' = stmt /\ Goes(p, {"count"})
        /\ proc'[p].resume = proc[p].resume
    BY <1>1, Guards, CheckLands DEF At, CountChecks, ProcOnly, StatementOnly
  <2>2. Chain(p)'
    BY <1>0, <2>1 DEF Goes, SameWork, Chain, Concludes
  <2>3. CASE Concludes(p) /\ proc[p].todo = {} /\ Good(proc[p].seen)
    <3>1. OpenChecks = {} /\ Present # {}
      BY <2>3 DEF Chain
    <3>2. CountOf("total") > 0 /\ CountOf("queued") = 0 /\ CountOf("processing") = 0
      BY <3>1, SettledCounts DEF Settled, OpenChecks
    <3>3. PICK S \in Reads : proc'[p].seen = [t \in DOMAIN proc[p].seen \cup S |->
                                  IF t \in S THEN CountOf(t) ELSE proc[p].seen[t]]
      BY <1>1, CheckLands
    <3>4. Good(proc'[p].seen)
      BY <2>3, <3>2, <3>3 DEF Good
    <3> QED
      BY <2>1, <2>2, <2>3, <3>4 DEF Goes, SameWork, Concludes, Said, Onward
  <2>4. CASE ~(Concludes(p) /\ proc[p].todo = {} /\ Good(proc[p].seen))
    BY <2>1, <2>2, <2>4 DEF Goes, SameWork, Concludes, Said, Onward
  <2> QED
    BY <2>3, <2>4
<1>2. CASE LoadProgress(p)
  <2>1. proc[p].pc = "count" /\ stmt' = stmt /\ GoesWith(p, "progress", stmt)
    BY <1>2, Guards, CheckLands DEF At, LoadProgress, ProcOnly, StatementOnly
  <2> QED
    BY <1>0, <2>1 DEF GoesWith, Goes, SameWork, Chain, Concludes, Said, Onward
<1>3. CASE SaveProgress(p)
  <2>1. /\ proc[p].pc = "progress" /\ Goes(p, {proc[p].resume}) /\ proc[p].doc = stmt
        /\ DOMAIN proc[p].seen = Counted
    BY <1>3, Guards, CheckLands DEF At, Chain, SeenAll
  <2>2. PICK progress : stmt' = Saved(stmt, [stmt EXCEPT
               !.status = IF SeenSettled(proc[p].seen, @) THEN "ready_for_review" ELSE @,
               !.progress = progress], FALSE)
    BY <1>3, <2>1 DEF SaveProgress
  <2>3. stmt'.status = stmt.status \/ stmt'.status = "ready_for_review"
    BY <1>0, <2>1, <2>2 DEF Saved, StatementDoc
  <2>4. Good(proc[p].seen) => stmt'.status = "ready_for_review"
    <3>1. SUFFICES ASSUME Good(proc[p].seen) PROVE stmt'.status = "ready_for_review"
      OBVIOUS
    <3>2. SeenSettled(proc[p].seen, stmt.status)
      BY <2>1, <3>1 DEF Good, SeenSettled, Counted
    <3> QED
      BY <1>0, <2>1, <2>2, <3>2 DEF Saved, StatementDoc
  <2>5. Chain(p)'
    BY <1>0, <2>1 DEF Goes, SameWork, Chain, Concludes
  <2>6. Said(p)'
    BY <1>0, <2>1, <2>3, <2>4 DEF Goes, SameWork, Concludes, Said, Onward, Done
  <2> QED
    BY <2>5, <2>6
<1> QED
  BY <1>1, <1>2, <1>3

LEMMA ArriveChain ==
    ASSUME InlineChain, mode = "inline", TypeOK, NEW p \in Procs, InlineMain, Arrive(p),
           \A q \in Procs : q # p => At(q, "idle")
    PROVE  Chain(p)' /\ Said(p)'
<1>0. /\ ~proc'[p].nested /\ proc[p].pc = "idle" /\ Present' = Present /\ OpenChecks' = OpenChecks
      /\ requests \in Nat
  <2>1. ~proc'[p].nested /\ checks' = checks
    BY ArriveLands
  <2>2. proc[p].pc = "idle" /\ requests \in Nat
    BY Guards, PipelineAssumption DEF At, TypeOK
  <2> QED
    BY <2>1, <2>2, ChecksSame
<1>1. CASE /\ proc'[p].pc = "reset" /\ stmt' = stmt /\ proc'[p].doc = stmt
           /\ proc'[p].check = NoCheck /\ <<mode, proc'[p].job>> \in FromJobs
  <2>1. proc'[p].job # "refresh"
    BY <1>1 DEF InlineChain
  <2> QED
    BY <1>0, <1>1, <2>1 DEF Chain, Concludes, Said, Onward
<1>2. CASE /\ proc'[p].pc = "requeue" /\ stmt' = stmt /\ proc'[p].job = "check"
           /\ proc'[p].check \in Present
  <2>1. requests > 0
    BY <1>0, <1>2 DEF InlineMain
  <2>2. Done(stmt.status)
    <3>1. ASSUME NEW q \in Procs PROVE ~Onward(q)
      BY <1>0 DEF At, Onward, Concludes
    <3> QED
      BY <2>1, <3>1 DEF InlineMain
  <2> QED
    BY <1>0, <1>2, <2>2 DEF Chain, Concludes, Said
<1> QED
  BY <1>1, <1>2, ArriveLands DEF InlineChain

LEMMA ChainStep ==
    ASSUME InlineChain, mode = "inline", TypeOK, SeenAll, Homes, Placed, InlineMain,
           NEW p \in Procs, Arrive(p) \/ Proceed(p) \/ Fault(p)
    PROVE  Chain(p)' /\ Said(p)' /\ requests' \in Nat /\ requests' > 0
<1>1. /\ p \in Requests /\ ~Crash(p) /\ ~(\E task \in Task : Deliver(p, task))
      /\ \A q \in Procs : q # p => At(q, "idle")
  BY OthersIdle
<1>2. CASE Arrive(p)
  <2>1. Chain(p)' /\ Said(p)'
    BY <1>1, <1>2, ArriveChain
  <2>2. requests \in Nat
    BY PipelineAssumption DEF TypeOK
  <2>3. requests' = requests + 1
    BY <1>2, ArriveLands
  <2> QED
    BY <2>1, <2>2, <2>3
<1>3. CASE ~Arrive(p)
  <2>1. /\ Place(proc[p]) /\ Chain(p)
        /\ Handles(p) \/ Succeed(p) \/ Rethrow(p) \/ Working(p)
    BY <1>1, <1>3, StepKinds, Zenon DEF Handles, Placed, InlineMain
  <2>2. proc[p].pc # "idle"
    <3>1. Handles(p) => proc[p].pc \in HandlerSteps
      BY HandlerGoes, Zenon DEF Handles
    <3>2. Working(p) => proc[p].pc \in JobSteps
      BY WorkingLeads DEF Leads
    <3>3. Succeed(p) \/ Rethrow(p) => proc[p].pc \in JobSteps
      BY Guards DEF At, JobSteps
    <3> QED
      BY <2>1, <3>1, <3>2, <3>3 DEF HandlerSteps, JobSteps
  <2>3. proc[p].caller # "queue" /\ requests # 0 /\ requests \in Nat
    BY <1>1, <2>2 DEF Homes, InlineMain, At, TypeOK
  <2>4. Said(p)
    <3>1. ASSUME NEW q \in Procs, q # p PROVE ~Onward(q)
      <4>1. proc[q].pc = "idle"
        BY <1>1, <3>1 DEF At
      <4> QED
        BY <4>1 DEF Onward, Concludes
    <3> QED
      BY <2>3, <3>1 DEF InlineMain, Said
  <2>5. requests' = requests
    BY <1>1, <1>3, Zenon DEF Proceed, Fault, ResetStatement, ClearChecks, RequeueCheck, Enqueue,
       EnqueueError, SaveExtracting, SaveDispatchFailed, Succeed, Rethrow, LoadFailed, SaveFailed,
       FailCheck, LoadStatement, RefreshMatching, BeginExtract, FinishExtract, BeginStructure,
       DeleteRows, CreateRow, FinishStructure, DeleteChecks, SelectCandidates, SpawnCheck,
       FinishSpawn, FanOut, FindCheck, MarkProcessing, SaveResult, CountChecks, LoadProgress,
       SaveProgress, FanOutError, ArtifactError, ChecksOnly, ProcOnly, QueueOnly, StatementOnly
  <2>6. Handles(p) => Chain(p)' /\ Said(p)'
    BY <2>1, <2>4, HandlerChain
  <2>7. Succeed(p) \/ Rethrow(p) => Chain(p)' /\ Said(p)'
    BY <2>1, <2>3, <2>4, EndChain
  <2>8. ASSUME Working(p) PROVE Chain(p)' /\ Said(p)'
    <3>1. ~RefreshMatching(p) /\ ~FanOutError(p)
      BY <2>1, Guards DEF At, Chain, FanOutError
    <3>2. \/ LoadFailed(p) \/ SaveFailed(p) \/ FailCheck(p) \/ ArtifactError(p)
          \/ LoadStatement(p)
          \/ BeginExtract(p) \/ FinishExtract(p) \/ BeginStructure(p)
          \/ DeleteRows(p) \/ CreateRow(p) \/ FinishStructure(p)
          \/ DeleteChecks(p) \/ SelectCandidates(p) \/ SpawnCheck(p) \/ FinishSpawn(p) \/ FanOut(p)
          \/ FindCheck(p) \/ MarkProcessing(p) \/ SaveResult(p)
          \/ CountChecks(p) \/ LoadProgress(p) \/ SaveProgress(p)
      BY <2>8, <3>1, Zenon DEF Working
    <3> QED
      BY <2>1, <2>4, <3>2, CatchChain, LoadChain, BuildChain, SpawnChain, CheckChain, CountChain, Zenon
  <2> QED
    BY <2>1, <2>3, <2>5, <2>6, <2>7, <2>8
<1> QED
  BY <1>2, <1>3

LEMMA MainKept ==
    ASSUME InlineChain, TypeOK, SeenAll, Homes, Placed, InlineMain, NEW p \in Procs,
           Arrive(p) \/ Proceed(p) \/ Fault(p)
    PROVE  InlineMain'
<1>1. mode' = mode /\ Alone(p)
  BY ModeKept, StepAlone
<1>2. SUFFICES ASSUME mode = "inline" PROVE InlineMain'
  BY <1>1 DEF InlineMain
<1>3. Chain(p)' /\ Said(p)' /\ requests' \in Nat /\ requests' > 0
  BY <1>2, ChainStep
<1>4. ASSUME NEW q \in Procs PROVE Chain(q)'
  <2>1. CASE q # p
    <3>1. proc'[q] = proc[q] /\ proc[q].pc = "idle" /\ Place(proc[q]) /\ Chain(q)
      BY <1>1, <1>2, <2>1, OthersIdle DEF Alone, At, Placed, InlineMain
    <3> QED
      BY <3>1 DEF Chain, Concludes, Place, NestedSteps
  <2> QED
    BY <1>3, <2>1
<1> QED
  BY <1>3, <1>4 DEF InlineMain, Said

LEMMA InlineInit == Init => InlineInv
<1> SUFFICES ASSUME Init PROVE InlineInv
  OBVIOUS
<1>1. TypeOK /\ SeenAll /\ Homes
  BY InitTyped, HomesInit
<1>2. \A p \in Procs : proc[p] = IdleProc
  BY DEF Init
<1>3. Placed
  BY <1>2, IdleShape DEF Placed, Place, CheckPcs
<1>4. ASSUME NEW p \in Procs PROVE Chain(p) /\ At(p, "idle")
  BY <1>2 DEF Chain, Concludes, IdleProc, At
<1>5. Present = {} /\ requests = 0
  BY NonePresent DEF Init
<1> QED
  BY <1>1, <1>3, <1>4, <1>5 DEF InlineInv, InlineMain

\* A statement whose jobs run in place is not left between two of them: with one request at
\* a time, no first run and no process that dies, it is ready or failed whenever nothing is
\* under way, whatever job a reprocess starts from, whatever check is retried and whichever
\* artifact is missing (accountingQueue.ts's inline branch and the jobs' catch block).
THEOREM StatementInlineIsDone == InlineChain => (Spec => []InlineIsDone)
<1> SUFFICES ASSUME InlineChain PROVE Spec => []InlineIsDone
  OBVIOUS
<1>1. Init => InlineInv
  BY InlineInit
<1>2. InlineInv /\ [Next]_vars => InlineInv'
  <2> SUFFICES ASSUME InlineInv, [Next]_vars PROVE InlineInv'
    OBVIOUS
  <2>1. CASE UNCHANGED vars
    <3>1. TypeOK' /\ SeenAll'
      BY <2>1 DEF vars, InlineInv, TypeOK, SeenAll, At
    <3>2. Homes' /\ Placed'
      BY <2>1 DEF vars, InlineInv, Homes, Placed, At
    <3>3. InlineMain'
      <4>1. Present' = Present /\ OpenChecks' = OpenChecks /\ stmt' = stmt /\ proc' = proc
            /\ mode' = mode /\ requests' = requests
        BY <2>1, ChecksSame DEF vars
      <4>2. ASSUME NEW p \in Procs PROVE (Chain(p)' <=> Chain(p)) /\ (Onward(p)' <=> Onward(p))
        BY <4>1 DEF Chain, Concludes, Onward
      <4> QED
        BY <4>1, <4>2 DEF InlineInv, InlineMain, At
    <3> QED
      BY <3>1, <3>2, <3>3 DEF InlineInv
  <2>2. CASE Next
    <3>1. PICK p \in Procs : Arrive(p) \/ Proceed(p) \/ Fault(p)
      BY <2>2 DEF Next
    <3>2. TypeOK' /\ SeenAll' /\ Homes' /\ Placed'
      BY <3>1, ArriveTyped, ProceedTyped, SeenKept, HomesKept, PlacedKept DEF InlineInv
    <3> QED
      BY <3>1, <3>2, MainKept DEF InlineInv
  <2> QED
    BY <2>1, <2>2
<1>3. InlineInv => InlineIsDone
  <2> SUFFICES ASSUME InlineInv, mode = "inline", Quiet, requests > 0 PROVE Done(stmt.status)
    BY DEF InlineIsDone, QuietIsDone, Done
  <2>1. ASSUME NEW p \in Procs PROVE ~Onward(p)
    <3>1. proc[p].pc = "idle"
      BY DEF Quiet, At
    <3> QED
      BY <3>1 DEF Onward, Concludes
  <2> QED
    BY <2>1 DEF InlineInv, InlineMain
<1> QED
  BY <1>1, <1>2, <1>3, PTL DEF Spec
-----------------------------------------------------------------------------
(* The progress of a statement is what its checks say. *)

\* One delivery and one request at a time, no process that dies, no task that is refused;
\* with Cloud Tasks, reprocesses start from checks.spawn (its task route drops the jobs
\* that would follow an earlier one).
ProgressCalm ==
    /\ OneAtATime
    /\ "crash" \notin Faults
    /\ "enqueue" \in Faults => Modes \subseteq {"inline"}
    /\ \A job : <<"tasks", job>> \in FromJobs => job = "spawn"

\* Before the statement there is nothing.
NothingYet ==
    stmt.status = "none" =>
        /\ stmt = Missing /\ Present = {}
        /\ \A p \in Procs : At(p, "idle")
        /\ \A task \in Task : queued[task] = 0

\* No task structures a statement, and a reset of tasks is for checks.spawn.
Routed ==
    mode = "tasks" =>
        /\ \A p \in Procs :
              /\ ~At(p, "dispatchFailed") /\ proc[p].job # "structure"
              /\ proc[p].pc \in {"reset", "clear"} => proc[p].job = "spawn"
        /\ \A task \in Task : queued[task] > 0 => task.job # "structure"

Agrees == stmt.progress = [s \in DOMAIN NoProgress |-> CountOf(s)]

\* Jobs that recount: those queued, about to be handed over, or under way.
Counting == {"spawn", "check"}
TaskAhead == \E task \in Task : queued[task] > 0 /\ task.job \in Counting
Handing(p) == At(p, "clear") \/ (At(p, "enqueue") /\ proc[p].job \in Counting)
Ahead(p) == TaskAhead \/ \E q \in Procs : q # p /\ Handing(q)
Recounts(p) ==
    \/ Handing(p)
    \/ /\ proc[p].job = "check"
       /\ proc[p].pc \in {"load", "findCheck", "mark", "count", "progress", "work", "fail",
                          "saveFailed", "failCheck"}
    \/ /\ proc[p].job = "spawn"
       /\ proc[p].pc \in {"load", "deleteChecks", "select", "spawn", "fail", "saveFailed"}
WillAgree == ~stmt.issues /\ ~Agrees => TaskAhead \/ \E p \in Procs : Recounts(p)

\* What p knows of the statement and its checks is so, unless another recount is ahead.
Counts(seen) == \A t \in DOMAIN seen : seen[t] = CountOf(t)
Sure(p) ==
    /\ proc[p].pc \in {"deleteChecks", "select", "spawn", "progress"}
           => proc[p].doc.progress = stmt.progress
    /\ At(p, "select") => Present = {}
    /\ At(p, "spawn") => Present = proc[p].todo
                         /\ \A c \in Present : checks[c].status = "queued"
    /\ proc[p].pc \in {"count", "progress"} => Counts(proc[p].seen)
    /\ At(p, "saveFailed") => Fresh(p)
SureOrAhead == \A p \in Procs : Sure(p) \/ Ahead(p)

\* Run in place, the jobs before checks.spawn find no progress and no checks.
Early == {"extract", "structure"}
Blank(p) ==
    /\ At(p, "reset") => proc[p].doc.progress = stmt.progress
    /\ At(p, "clear") => stmt.progress = NoProgress
    /\ proc[p].pc \in {"begin", "extracted", "artifacts", "create"}
           => proc[p].doc.progress = NoProgress
    /\ proc[p].job \in Early /\ proc[p].pc \notin {"idle", "reset", "clear"}
           => stmt.progress = NoProgress /\ Present = {}
Blanks == mode # "tasks" => \A p \in Procs : Blank(p)

\* A check marked as under way has a job that will mark it again.
Marks(p, c) ==
    /\ proc[p].job = "check" /\ proc[p].check = c
    /\ \/ proc[p].pc \in {"work", "fail", "failCheck"}
       \/ proc[p].pc \in {"count", "progress"} /\ proc[p].resume = "work"
       \/ At(p, "saveFailed") /\ Fresh(p)
Marking ==
    \A c \in CheckIds : checks[c].status = "processing" =>
        \E p \in Procs : Marks(p, c) \/ At(p, "clear")

ProgressInv ==
    /\ TypeOK /\ SeenAll /\ Homes /\ Placed /\ NothingYet /\ Routed
    /\ WillAgree /\ SureOrAhead /\ Blanks /\ Marking

\* Which steps write the checks.
WritesChecks(p) ==
    \/ ClearChecks(p) \/ RequeueCheck(p) \/ FailCheck(p) \/ DeleteChecks(p) \/ SpawnCheck(p)
    \/ MarkProcessing(p) \/ SaveResult(p)

LEMMA ChecksWritten ==
    ASSUME NEW p \in Procs, Arrive(p) \/ Proceed(p) \/ Fault(p), ~WritesChecks(p)
    PROVE  checks' = checks
BY Zenon DEF WritesChecks, Arrive, CreateStatement, ReprocessStatement, RetryStatementCheck,
   RequestOnly, Proceed, Fault, ResetStatement, Enqueue, EnqueueError, SaveExtracting,
   SaveDispatchFailed, Deliver, Succeed, Rethrow, Crash, LoadFailed, SaveFailed, LoadStatement,
   RefreshMatching, BeginExtract, FinishExtract, BeginStructure, DeleteRows, CreateRow,
   FinishStructure, SelectCandidates, FinishSpawn, FanOut, FindCheck, CountChecks, LoadProgress,
   SaveProgress, FanOutError, ArtifactError, StatementOnly, ChecksOnly, ProcOnly, QueueOnly

\* Which steps write the statement.
WritesStatement(p) ==
    \/ CreateStatement(p) \/ ResetStatement(p) \/ SaveExtracting(p) \/ SaveDispatchFailed(p)
    \/ SaveFailed(p) \/ BeginExtract(p) \/ FinishExtract(p) \/ BeginStructure(p)
    \/ FinishStructure(p) \/ FinishSpawn(p) \/ SaveProgress(p)

LEMMA StatementWritten ==
    ASSUME NEW p \in Procs, Arrive(p) \/ Proceed(p) \/ Fault(p), ~WritesStatement(p)
    PROVE  stmt' = stmt
BY Zenon DEF WritesStatement, Arrive, ReprocessStatement, RetryStatementCheck, Proceed, Fault,
   ClearChecks, RequeueCheck, Enqueue, EnqueueError, Deliver, Succeed, Rethrow, Crash, LoadFailed,
   FailCheck, LoadStatement, RefreshMatching, DeleteRows, CreateRow, DeleteChecks,
   SelectCandidates, SpawnCheck, FanOut, FindCheck, MarkProcessing, SaveResult, CountChecks,
   LoadProgress, FanOutError, ArtifactError, ChecksOnly, ProcOnly, QueueOnly

LEMMA CountsSame ==
    ASSUME checks' = checks
    PROVE  /\ \A s : CountOf(s)' = CountOf(s)
           /\ Present' = Present
           /\ \A seen : Counts(seen)' <=> Counts(seen)
BY DEF CountOf, Present, Counts

\* Only these steps write another progress than they found.
LEMMA ProgressWritten ==
    ASSUME TypeOK, NEW p \in Procs, Arrive(p) \/ Proceed(p) \/ Fault(p), ~ResetStatement(p),
           ~FinishStructure(p), ~FinishSpawn(p), ~SaveProgress(p)
    PROVE  stmt'.progress = stmt.progress
<1>0. proc[p].doc \in StatementDoc
  BY ProcTyped, Fields
<1>1. ASSUME NEW doc \in StatementDoc, NEW new, NEW sets \in BOOLEAN, new.progress = doc.progress,
             stmt' = Saved(doc, new, sets)
      PROVE  stmt'.progress = stmt.progress
  BY <1>1 DEF Saved
<1>2. CASE CreateStatement(p)
  BY <1>2 DEF CreateStatement, Missing, Uploaded
<1>3. ASSUME NEW status, NEW pc, SaveStatus(p, status, pc) PROVE stmt'.progress = stmt.progress
  <2>1. [proc[p].doc EXCEPT !.status = status].progress = proc[p].doc.progress
    BY <1>0 DEF StatementDoc
  <2> QED
    BY <1>0, <1>1, <1>3, <2>1 DEF SaveStatus
<1>4. CASE SaveFailed(p)
  <2>1. [proc[p].doc EXCEPT !.status = "failed", !.issues = TRUE].progress = proc[p].doc.progress
    BY <1>0 DEF StatementDoc
  <2> QED
    BY <1>0, <1>1, <1>4, <2>1 DEF SaveFailed
<1>5. CASE SaveExtracting(p) \/ SaveDispatchFailed(p)
  <2>1. /\ [Uploaded EXCEPT !.status = "extracting"].progress = Uploaded.progress
        /\ [Uploaded EXCEPT !.status = "failed", !.issues = TRUE].progress = Uploaded.progress
    BY DEF Uploaded
  <2> QED
    BY <1>1, <1>5, <2>1, DocsTyped DEF SaveExtracting, SaveDispatchFailed
<1>6. CASE BeginExtract(p) \/ FinishExtract(p) \/ BeginStructure(p)
  BY <1>3, <1>6 DEF BeginExtract, FinishExtract, BeginStructure
<1> QED
  BY <1>2, <1>4, <1>5, <1>6, StatementWritten DEF WritesStatement

\* A statement is never missing again.
LEMMA StatementStays ==
    ASSUME TypeOK, NEW p \in Procs, Arrive(p) \/ Proceed(p) \/ Fault(p), stmt.status # "none"
    PROVE  stmt'.status # "none"
<1>0. proc[p].doc \in StatementDoc
  BY ProcTyped, Fields
<1>1. ASSUME NEW doc \in StatementDoc, NEW new, NEW sets \in BOOLEAN,
             new.status \in {doc.status, "uploaded", "extracting", "structuring",
                             "checks_queued", "ready_for_review", "failed"},
             stmt' = Saved(doc, new, sets)
      PROVE  stmt'.status # "none"
  BY <1>1 DEF Saved
<1>2. CASE CreateStatement(p)
  BY <1>2 DEF CreateStatement, Uploaded
<1>3. ASSUME NEW status \in {"extracting", "structuring"}, NEW pc, SaveStatus(p, status, pc)
      PROVE  stmt'.status # "none"
  <2>1. [proc[p].doc EXCEPT !.status = status].status = status
    BY <1>0 DEF StatementDoc
  <2> QED
    BY <1>0, <1>1, <1>3, <2>1 DEF SaveStatus
<1>4. CASE SaveFailed(p)
  <2>1. [proc[p].doc EXCEPT !.status = "failed", !.issues = TRUE].status = "failed"
    BY <1>0 DEF StatementDoc
  <2> QED
    BY <1>0, <1>1, <1>4, <2>1 DEF SaveFailed
<1>5. CASE SaveExtracting(p) \/ SaveDispatchFailed(p)
  <2>1. /\ [Uploaded EXCEPT !.status = "extracting"].status = "extracting"
        /\ [Uploaded EXCEPT !.status = "failed", !.issues = TRUE].status = "failed"
    BY DEF Uploaded
  <2> QED
    BY <1>1, <1>5, <2>1, DocsTyped DEF SaveExtracting, SaveDispatchFailed
<1>6. CASE BeginExtract(p) \/ FinishExtract(p) \/ BeginStructure(p)
  BY <1>3, <1>6 DEF BeginExtract, FinishExtract, BeginStructure
<1>7. CASE ResetStatement(p)
  <2>1. Uploaded.status = "uploaded" /\ proc[p].doc.issues \in BOOLEAN
    BY <1>0 DEF Uploaded, StatementDoc
  <2> QED
    BY <1>0, <1>1, <1>7, <2>1 DEF ResetStatement
<1>8. CASE FinishStructure(p)
  <2>1. [proc[p].doc EXCEPT !.status = "checks_queued", !.progress = NoProgress].status
            = "checks_queued"
    BY <1>0 DEF StatementDoc
  <2> QED
    BY <1>0, <1>1, <1>8, <2>1 DEF FinishStructure
<1>9. CASE FinishSpawn(p)
  <2> DEFINE n == Cardinality(proc[p].todo)
             progress == [NoProgress EXCEPT !.total = n, !.queued = n]
             status == IF n > 0 THEN "checks_queued" ELSE "ready_for_review"
  <2>1. stmt' = Saved(proc[p].doc, [proc[p].doc EXCEPT !.progress = progress, !.status = status],
                      FALSE)
    BY <1>9 DEF FinishSpawn
  <2>2. status \in {"checks_queued", "ready_for_review"}
    OBVIOUS
  <2> HIDE DEF progress, status
  <2>3. [proc[p].doc EXCEPT !.progress = progress, !.status = status].status = status
    BY <1>0 DEF StatementDoc
  <2> QED
    BY <1>0, <1>1, <2>1, <2>2, <2>3
<1>10. CASE SaveProgress(p)
  <2> DEFINE doc == proc[p].doc
             progress == [s \in Counted |-> proc[p].seen[s]]
             status == IF SeenSettled(proc[p].seen, doc.status) THEN "ready_for_review"
                       ELSE doc.status
  <2>1. stmt' = Saved(doc, [doc EXCEPT !.status = status, !.progress = progress], FALSE)
    BY <1>10 DEF SaveProgress
  <2>2. status \in {doc.status, "ready_for_review"}
    OBVIOUS
  <2> HIDE DEF progress, status
  <2>3. [doc EXCEPT !.status = status, !.progress = progress].status = status
    BY <1>0 DEF StatementDoc
  <2> QED
    BY <1>0, <1>1, <2>1, <2>2, <2>3
<1> QED
  BY <1>2, <1>4, <1>5, <1>6, <1>7, <1>8, <1>9, <1>10, StatementWritten DEF WritesStatement

LEMMA CalmSteps ==
    ASSUME ProgressCalm, TypeOK, NEW p \in Procs, Arrive(p) \/ Proceed(p) \/ Fault(p)
    PROVE  /\ ~Crash(p) /\ ~EnqueueError(p) /\ ~FanOutError(p)
           /\ \/ Arrive(p) \/ Handles(p)
              \/ \E task \in Task : Deliver(p, task)
              \/ Succeed(p) \/ Rethrow(p)
              \/ Working(p)
<1>1. ~Crash(p)
  BY DEF ProgressCalm, Crash
<1>2. ~EnqueueError(p) /\ ~FanOutError(p)
  BY DEF ProgressCalm, EnqueueError, FanOutError, TypeOK
<1> QED
  BY <1>1, <1>2, StepKinds, Zenon DEF Handles

LEMMA NothingKept ==
    ASSUME TypeOK, NothingYet, NEW p \in Procs, Arrive(p) \/ Proceed(p) \/ Fault(p)
    PROVE  NothingYet'
<1>1. CASE stmt.status # "none"
  BY <1>1, StatementStays DEF NothingYet
<1>2. CASE stmt.status = "none"
  <2>1. /\ stmt = Missing /\ Present = {} /\ At(p, "idle")
        /\ \A task \in Task : queued[task] = 0
    BY <1>2 DEF NothingYet
  <2>2. Arrive(p)
    <3>1. ASSUME NEW task \in Task, Deliver(p, task) PROVE FALSE
      <4>1. queued[task] > 0 /\ queued[task] = 0
        BY <2>1, <3>1 DEF Deliver
      <4> QED
        BY <4>1
    <3> QED
      BY <2>1, <3>1, StepKinds, HandlerGoes, EndGoes, WorkingLeads
         DEF Leads, At, HandlerSteps, JobSteps
  <2>3. stmt' = Uploaded
    BY <2>1, <2>2, ArriveLands, Zenon DEF Arrive, CreateStatement, ReprocessStatement,
       RetryStatementCheck, Existing, Present
  <2> QED
    BY <2>3 DEF NothingYet, Uploaded
<1> QED
  BY <1>1, <1>2

\* With Cloud Tasks a worker's job ends in the queue's answer.
LEMMA TasksEnd ==
    ASSUME TypeOK, Homes, Placed, mode = "tasks", NEW p \in Procs, Succeed(p) \/ Rethrow(p)
    PROVE  \/ proc'[p] = IdleProc
           \/ proc'[p].job = "spawn" /\ proc'[p].pc \in {"fanOut", "fail"}
<1>1. p \in Workers
  BY Guards DEF Homes, Procs, At, JobSteps
<1>2. proc[p].caller = "queue"
  BY <1>1 DEF Homes
<1>3. proc[p].caller # "create"
  BY <1>2
<1> QED
  BY <1>3, EndLands

LEMMA RoutedKept ==
    ASSUME ProgressCalm, TypeOK, Homes, Placed, Routed, NEW p \in Procs,
           Arrive(p) \/ Proceed(p) \/ Fault(p)
    PROVE  Routed'
<1> SUFFICES ASSUME mode = "tasks", mode' = mode PROVE Routed'
  BY ModeKept DEF Routed
<1>1. Alone(p)
  BY StepAlone
<1>2. ASSUME NEW task \in Task, queued'[task] > 0 PROVE task.job # "structure"
  <2>1. queued[task] > 0 => task.job # "structure"
    BY DEF Routed
  <2>2. CASE queued'[task] = queued[task]
    BY <1>2, <2>1, <2>2
  <2>3. CASE ~At(p, "idle") /\ task = [job |-> proc[p].job, check |-> proc[p].check]
    BY <2>3 DEF Routed
  <2>4. CASE \E c \in proc[p].todo : FanOut(p) /\ task = CheckTask(c)
    BY <2>4 DEF CheckTask
  <2>5. CASE Deliver(p, task)
    BY <2>1, <2>5, DeliverFields
  <2> QED
    BY <2>2, <2>3, <2>4, <2>5, QueueMoves
<1>3. /\ proc'[p].pc # "dispatchFailed" /\ proc'[p].job # "structure"
      /\ proc'[p].pc \in {"reset", "clear"} => proc'[p].job = "spawn"
  <2>0. /\ proc[p].pc # "dispatchFailed" /\ proc[p].job # "structure"
        /\ proc[p].pc \in {"reset", "clear"} => proc[p].job = "spawn"
    BY DEF Routed, At
  <2>1. IdleProc.pc = "idle" /\ IdleProc.job = "extract"
    BY IdleShape
  <2>2. CASE Arrive(p)
    BY <2>2, ArriveLands DEF ProgressCalm
  <2>3. CASE Handles(p)
    <3>1. \/ proc'[p] = IdleProc
          \/ /\ SameWork(p)
             /\ \/ proc[p].pc \in {"reset", "clear", "requeue"}
                   /\ proc'[p].pc \in {"clear", "enqueue"}
                \/ At(p, "enqueue") /\ proc'[p].pc \in {"created", "dispatchFailed", "load"}
      BY <2>3, HandlerFields
    <3>2. CASE At(p, "enqueue")
      <4>1. Enqueue(p)
        BY <2>3, <3>2, CalmSteps, StepsAt
      <4> QED
        BY <2>0, <2>1, <4>1, HandlerLands DEF Goes, SameWork
    <3>3. CASE SameWork(p) /\ proc[p].pc = "requeue" /\ proc'[p].pc \in {"clear", "enqueue"}
      <4>1. RequeueCheck(p)
        BY <2>3, <3>3, Guards DEF Handles, At
      <4>2. proc'[p].pc = "enqueue"
        BY <2>1, <3>3, <4>1, HandlerLands DEF GoesWith, Goes
      <4> QED
        BY <2>0, <3>3, <4>2 DEF SameWork
    <3> QED
      BY <2>0, <2>1, <3>1, <3>2, <3>3 DEF SameWork
  <2>4. CASE \E task \in Task : Deliver(p, task)
    <3>1. PICK task \in Task : Deliver(p, task)
      BY <2>4
    <3>2. queued[task] > 0 /\ proc'[p].job = task.job /\ proc'[p].pc = "load"
      BY <3>1, DeliverFields
    <3> QED
      BY <3>2 DEF Routed
  <2>5. CASE Succeed(p) \/ Rethrow(p)
    BY <2>1, <2>5, TasksEnd
  <2>6. CASE Working(p)
    <3>1. proc'[p].pc \in JobSteps
      BY <2>6, WorkingLeads DEF Leads, Continues
    <3>2. proc'[p].job \in {proc[p].job, "check"}
      BY <2>6, WorkingKeeps, SpawnLands DEF Chooses, SameWork, Spawning, GoesWith, Goes
    <3> QED
      BY <2>0, <3>1, <3>2 DEF JobSteps
  <2> QED
    BY <2>2, <2>3, <2>4, <2>5, <2>6, CalmSteps
<1>4. ASSUME NEW q \in Procs
      PROVE  /\ ~At(q, "dispatchFailed")' /\ proc'[q].job # "structure"
             /\ proc'[q].pc \in {"reset", "clear"} => proc'[q].job = "spawn"
  BY <1>1, <1>3 DEF Alone, At, Routed
<1> QED
  BY <1>2, <1>4 DEF Routed

-----------------------------------------------------------------------------
(* The counts that are ahead stay ahead.                                    *)

LEMMA HandingPlace ==
    ASSUME NEW p, Handing(p) PROVE proc[p].pc \in HandlerSteps /\ Recounts(p)
BY DEF Handing, Recounts, At, HandlerSteps

\* A queued recount stays queued until it is delivered.
LEMMA QueueGrows ==
    ASSUME TypeOK, TaskAhead, NEW p \in Procs, Arrive(p) \/ Proceed(p) \/ Fault(p)
    PROVE  TaskAhead' \/ (proc'[p].pc = "load" /\ proc'[p].job \in Counting /\ p \in Workers)
<1>1. PICK task \in Task : queued[task] > 0 /\ task.job \in Counting
  BY DEF TaskAhead
<1>2. CASE Deliver(p, task)
  BY <1>1, <1>2, DeliverFields DEF Deliver
<1>3. CASE ~Deliver(p, task)
  <2>1. queued[task] \in Nat
    BY ProcTyped
  <2>2. queued'[task] > 0
    BY <1>1, <1>3, <2>1, QueueMoves
  <2> QED
    BY <1>1, <2>2 DEF TaskAhead
<1> QED
  BY <1>2, <1>3

\* A task put in the queue.
LEMMA PutAhead ==
    ASSUME TypeOK, NEW p \in Procs, Put([job |-> proc[p].job, check |-> proc[p].check]),
           proc[p].job \in Counting
    PROVE  TaskAhead'
<1> DEFINE task == [job |-> proc[p].job, check |-> proc[p].check]
<1>1. task \in Task /\ queued \in [Task -> Nat] /\ task.job \in Counting
  BY ProcTyped, Fields DEF Task
<1>2. queued' = [queued EXCEPT ![task] = @ + 1]
  BY DEF Put
<1> HIDE DEF task
<1>3. queued'[task] > 0
  BY <1>1, <1>2
<1> QED
  BY <1>1, <1>3 DEF TaskAhead

\* What is handed over is handed over.
LEMMA HandingGoes ==
    ASSUME ProgressCalm, TypeOK, Routed, NEW p \in Procs, Arrive(p) \/ Proceed(p) \/ Fault(p),
           Handing(p), mode = "tasks"
    PROVE  TaskAhead' \/ Handing(p)'
<1>1. CASE At(p, "clear")
  <2>1. GoesWith(p, "enqueue", proc[p].doc)
    BY <1>1, CalmSteps, StepsAt, HandlerLands
  <2>2. proc[p].job = "spawn"
    BY <1>1 DEF Routed, At
  <2> QED
    BY <2>1, <2>2 DEF GoesWith, Goes, SameWork, Handing, Counting, At
<1>2. CASE At(p, "enqueue") /\ proc[p].job \in Counting
  <2>1. Enqueue(p)
    BY <1>2, CalmSteps, StepsAt
  <2>2. Put([job |-> proc[p].job, check |-> proc[p].check])
    BY <2>1, HandlerLands
  <2> QED
    BY <1>2, <2>2, PutAhead
<1> QED
  BY <1>1, <1>2 DEF Handing

\* While p runs a job, the recounts ahead of it stay ahead.
LEMMA AheadWorking ==
    ASSUME TypeOK, NEW p \in Procs, Arrive(p) \/ Proceed(p) \/ Fault(p), proc[p].pc \in JobSteps,
           Ahead(p)
    PROVE  Ahead(p)'
<1>1. CASE TaskAhead
  <2>1. ~\E task \in Task : Deliver(p, task)
    BY Guards DEF At, JobSteps
  <2>2. PICK task \in Task : queued[task] > 0 /\ task.job \in Counting
    BY <1>1 DEF TaskAhead
  <2>3. queued[task] \in Nat
    BY ProcTyped
  <2>4. queued'[task] > 0
    BY <2>1, <2>2, <2>3, QueueMoves
  <2> QED
    BY <2>2, <2>4 DEF TaskAhead, Ahead
<1>2. CASE ~TaskAhead
  <2>1. PICK q \in Procs : q # p /\ Handing(q)
    BY <1>2 DEF Ahead
  <2>2. proc'[q] = proc[q]
    BY <2>1, StepAlone DEF Alone
  <2>3. Handing(q)'
    BY <2>1, <2>2 DEF Handing, At
  <2> QED
    BY <2>1, <2>3 DEF Ahead
<1> QED
  BY <1>1, <1>2

\* While another process runs a job, what p has to hand over stays ahead of it.
LEMMA AheadWaiting ==
    ASSUME ProgressCalm, TypeOK, Homes, Routed, mode = "tasks", NEW p \in Procs,
           Arrive(p) \/ Proceed(p) \/ Fault(p), p \notin Workers,
           NEW q \in Procs, q # p, Ahead(q)
    PROVE  Ahead(q)'
<1>1. CASE TaskAhead
  BY <1>1, QueueGrows DEF Ahead
<1>2. CASE ~TaskAhead
  <2>1. PICK r \in Procs : r # q /\ Handing(r)
    BY <1>2 DEF Ahead
  <2>2. CASE r = p
    BY <2>1, <2>2, HandingGoes DEF Ahead
  <2>3. CASE r # p
    <3>1. proc'[r] = proc[r]
      BY <2>3, StepAlone DEF Alone
    <3>2. Handing(r)'
      BY <2>1, <3>1 DEF Handing, At
    <3> QED
      BY <2>1, <3>2 DEF Ahead
  <2> QED
    BY <2>2, <2>3
<1> QED
  BY <1>1, <1>2

-----------------------------------------------------------------------------
(* What the jobs know. *)

\* Where p has to know something.
Knowing == {"deleteChecks", "select", "spawn", "count", "progress", "saveFailed"}

LEMMA NothingToKnow == ASSUME NEW p, proc'[p].pc \notin Knowing PROVE Sure(p)'
BY DEF Sure, Knowing, At

\* A step of another process: only requests move while a job runs.
LEMMA SureElsewhere ==
    ASSUME ProgressCalm, TypeOK, Homes, Placed, Routed, NEW p \in Procs,
           Arrive(p) \/ Proceed(p) \/ Fault(p), NEW q \in Procs, q # p, Sure(q) \/ Ahead(q)
    PROVE  (Sure(q) \/ Ahead(q))'
<1>0. proc'[q] = proc[q] /\ mode' = mode
  BY StepAlone, ModeKept DEF Alone
<1>1. CASE proc[q].pc \notin Knowing
  BY <1>0, <1>1, NothingToKnow
<1>2. CASE proc[q].pc \in Knowing
  <2>0. proc[q].pc \in JobSteps
    BY <1>2 DEF Knowing, JobSteps
  <2>1. proc[p].pc \notin JobSteps
    BY <2>0, OneRuns DEF ProgressCalm
  <2>2. p \notin Workers /\ mode = "tasks"
    <3>1. ASSUME mode # "tasks" PROVE FALSE
      <4>1. q \in Requests
        BY <2>0, <3>1 DEF Homes, Procs, At, JobSteps
      <4>2. p \in Workers
        BY <4>1 DEF ProgressCalm, OneAtATime, Procs
      <4>3. At(p, "idle") /\ \A task \in Task : queued[task] = 0
        BY <3>1, <4>2 DEF Homes
      <4>4. p \notin Requests
        BY <4>2, PipelineAssumption
      <4>5. ~Arrive(p)
        BY <4>4, ArriveGoes
      <4>6. ASSUME NEW task \in Task, Deliver(p, task) PROVE FALSE
        <5>1. queued[task] > 0 /\ queued[task] = 0
          BY <4>3, <4>6 DEF Deliver
        <5> QED
          BY <5>1
      <4> QED
        BY <4>3, <4>5, <4>6, StepKinds, HandlerGoes, EndGoes, WorkingLeads
           DEF Leads, At, HandlerSteps, JobSteps
    <3>2. q \in Workers
      BY <2>0, <3>1 DEF Homes, Procs
    <3> QED
      BY <3>1, <3>2 DEF ProgressCalm, OneAtATime
  <2>3. CASE Ahead(q)
    BY <2>2, <2>3, AheadWaiting
  <2>4. CASE Sure(q)
    <3>1. Arrive(p) \/ Handles(p)
      <4>1. ~\E task \in Task : Deliver(p, task)
        BY <2>2 DEF Deliver
      <4>2. ~Working(p)
        BY <2>1, WorkingLeads DEF Leads
      <4>3. ~Succeed(p) /\ ~Rethrow(p)
        BY <2>1, Guards DEF At, JobSteps
      <4> QED
        BY <4>1, <4>2, <4>3, CalmSteps
    <3>2. CASE proc'[p].pc = "clear"
      BY <3>2 DEF Ahead, Handing, At
    <3>3. CASE ClearChecks(p)
      <4>1. At(p, "clear")
        BY <3>3, Guards
      <4> QED
        BY <2>2, <4>1, HandingGoes DEF Ahead, Handing
    <3>4. CASE RequeueCheck(p)
      <4>1. proc[p].job = "check"
        BY <3>4, Guards DEF Placed, Place, At
      <4>2. CASE GoesWith(p, "enqueue", proc[p].doc)
        BY <4>1, <4>2 DEF Ahead, Handing, At, GoesWith, Goes, SameWork, Counting
      <4>3. CASE checks' = checks
        <5>1. stmt' = stmt
          BY <3>4 DEF RequeueCheck, ChecksOnly
        <5> QED
          BY <1>0, <2>4, <4>3, <5>1, CountsSame DEF Sure, At, Fresh
      <4> QED
        BY <3>4, <4>2, <4>3, HandlerLands
    <3>5. CASE ~ClearChecks(p) /\ ~RequeueCheck(p) /\ proc'[p].pc # "clear"
      <4>1. ~Working(p) /\ ~Creates(p)
        BY <2>1, WorkingLeads DEF Leads, Creates, Working
      <4>2. checks' = checks
        BY <3>5, <4>1, ChecksWritten DEF WritesChecks, Working
      <4>3. stmt'.progress = stmt.progress /\ stmt'.v = stmt.v
        <5>1. CASE ResetStatement(p)
          BY <3>5, <5>1, HandlerLands DEF GoesWith, Goes
        <5>2. CASE ~ResetStatement(p)
          <6>1. ~SaveDispatchFailed(p)
            BY <2>2, Guards DEF Routed
          <6>2. stmt'.progress = stmt.progress
            BY <4>1, <5>2, ProgressWritten DEF Working
          <6> QED
            BY <4>1, <5>2, <6>1, <6>2, IssuesKept DEF Working
        <5> QED
          BY <5>1, <5>2
      <4> QED
        BY <1>0, <2>4, <4>2, <4>3, CountsSame DEF Sure, At, Fresh
    <3> QED
      BY <3>2, <3>3, <3>4, <3>5
  <2> QED
    BY <2>3, <2>4
<1> QED
  BY <1>1, <1>2

\* A check that is created is queued; the others stay as they are.
LEMMA SpawnQueued ==
    ASSUME TypeOK, NEW p \in Procs, SpawnCheck(p), \A c \in Present : checks[c].status = "queued"
    PROVE  \A c \in Present' : checks'[c].status = "queued"
<1>1. checks' = [checks EXCEPT ![made + 1] = NewCheck] /\ made + 1 \in CheckIds
  BY SpawnFields
<1>2. Present' = Present \cup {made + 1} /\ checks \in [CheckIds -> Check]
  BY PresentGrows, ProcTyped
<1>3. Present \subseteq CheckIds
  BY DEF Present
<1> QED
  BY <1>1, <1>2, <1>3 DEF NewCheck, Unmade

\* A step of p's own job.
LEMMA SureHere ==
    ASSUME TypeOK, NEW p \in Procs, Working(p), Sure(p), Arrive(p) \/ Proceed(p) \/ Fault(p)
    PROVE  Sure(p)'
<1>0. proc[p].doc \in StatementDoc /\ stmt \in StatementDoc
  BY ProcTyped, Fields
<1>1. CASE LoadFailed(p)
  <2>1. GoesWith(p, "saveFailed", stmt) /\ stmt' = stmt
    BY <1>1, Lands DEF LoadFailed, ProcOnly
  <2> QED
    BY <2>1 DEF GoesWith, Goes, Sure, At, Fresh
<1>2. CASE FailCheck(p) \/ MarkProcessing(p) \/ SaveResult(p)
  <2>1. \/ proc'[p].pc = "fail"
        \/ proc'[p].pc = "count" /\ proc'[p].seen = Uncounted
    BY <1>2, Lands, CheckLands DEF Goes
  <2> QED
    BY <2>1 DEF Sure, At, Counts, Uncounted
<1>3. CASE LoadStatement(p)
  <2>1. stmt' = stmt /\ proc[p].job \in Job
    BY <1>3, ProcTyped, Fields DEF LoadStatement, ProcOnly
  <2>2. \/ GoesWith(p, "deleteChecks", stmt)
        \/ proc'[p].pc \in {"begin", "fail", "findCheck", "refresh"}
    BY <1>3, <2>1, LoadLands DEF GoesWith, Goes, Job
  <2> QED
    BY <2>1, <2>2 DEF GoesWith, Goes, Sure, At
<1>4. CASE DeleteChecks(p)
  <2>1. GoesWith(p, "select", proc[p].doc) /\ stmt' = stmt /\ Present' = {} /\ At(p, "deleteChecks")
    BY <1>4, Lands, PresentCleared, Guards DEF DeleteChecks, ChecksOnly
  <2> QED
    BY <2>1 DEF GoesWith, Goes, Sure, At
<1>5. CASE SelectCandidates(p)
  <2>1. /\ Spawning(p, "spawn", {}) /\ stmt' = stmt /\ checks' = checks /\ At(p, "select")
        /\ Present' = Present
    BY <1>5, SpawnLands, Guards, CountsSame DEF SelectCandidates, ProcOnly, StatementOnly
  <2> QED
    BY <2>1 DEF Spawning, Sure, At
<1>6. CASE SpawnCheck(p)
  <2>1. /\ Spawning(p, "spawn", proc[p].todo \cup {made + 1}) /\ stmt' = stmt /\ At(p, "spawn")
        /\ Present' = Present \cup {made + 1}
    BY <1>6, SpawnLands, Guards, PresentGrows DEF SpawnCheck
  <2>2. Present = proc[p].todo /\ \A c \in Present : checks[c].status = "queued"
    BY <2>1 DEF Sure
  <2>3. \A c \in Present' : checks'[c].status = "queued"
    BY <1>6, <2>2, SpawnQueued
  <2> QED
    BY <2>1, <2>2, <2>3 DEF Spawning, Sure, At
<1>7. CASE CountChecks(p)
  <2>1. checks' = checks /\ At(p, "count") /\ proc'[p].pc = "count"
    BY <1>7, Guards, CheckLands DEF CountChecks, ProcOnly, StatementOnly, Goes
  <2>2. PICK S \in Reads : proc'[p].seen = [t \in DOMAIN proc[p].seen \cup S |->
                                   IF t \in S THEN CountOf(t) ELSE proc[p].seen[t]]
    BY <1>7, CheckLands
  <2>3. Counts(proc[p].seen)
    BY <2>1 DEF Sure, At
  <2>4. \A t : CountOf(t)' = CountOf(t)
    BY <2>1, CountsSame
  <2>6. \A t \in DOMAIN proc'[p].seen : proc'[p].seen[t] = CountOf(t)
    BY <2>2, <2>3 DEF Counts
  <2>7. \A t \in DOMAIN proc'[p].seen : proc'[p].seen[t] = CountOf(t)'
    BY <2>4, <2>6
  <2> QED
    BY <2>1, <2>7 DEF Sure, At, Counts
<1>8. CASE LoadProgress(p)
  <2>1. /\ checks' = checks /\ stmt' = stmt /\ At(p, "count") /\ GoesWith(p, "progress", stmt)
    BY <1>8, Guards, CheckLands DEF LoadProgress, ProcOnly, StatementOnly
  <2> QED
    BY <2>1, CountsSame DEF GoesWith, Goes, Sure, At
<1>9. CASE ~(\/ LoadFailed(p) \/ FailCheck(p) \/ MarkProcessing(p) \/ SaveResult(p)
             \/ LoadStatement(p) \/ DeleteChecks(p) \/ SelectCandidates(p) \/ SpawnCheck(p)
             \/ CountChecks(p) \/ LoadProgress(p))
  <2>1. proc'[p].pc \notin Knowing
    <3>1. CASE SaveFailed(p)
      <4>1. proc'[p].pc \in {"rethrow", "failCheck"}
        BY <3>1, Lands DEF GoesWith, Goes
      <4> QED
        BY <4>1 DEF Knowing
    <3>2. CASE FanOut(p) \/ FanOutError(p) \/ ArtifactError(p)
      <4>1. proc'[p].pc \in {"done", "fanOut", "load", "fail"}
        BY <3>2, Lands, SpawnLands DEF GoesWith, Goes, Spawning
      <4> QED
        BY <4>1 DEF Knowing
    <3>3. CASE FindCheck(p)
      <4>1. proc'[p].pc \in {"mark", "fail"}
        BY <3>3, CheckLands DEF Goes
      <4> QED
        BY <4>1 DEF Knowing
    <3>4. CASE SaveProgress(p)
      <4>1. proc'[p].pc \in {"work", "done", "rethrow"}
        BY <3>4, CheckLands, ProcTyped, Fields DEF Goes
      <4> QED
        BY <4>1 DEF Knowing
    <3>5. CASE \/ RefreshMatching(p) \/ BeginExtract(p) \/ FinishExtract(p) \/ BeginStructure(p)
               \/ DeleteRows(p) \/ CreateRow(p) \/ FinishStructure(p) \/ FinishSpawn(p)
      <4>1. proc'[p].pc \in {"done", "extracted", "artifacts", "create", "fanOut"}
        BY <3>5, Lands DEF GoesWith, Goes
      <4> QED
        BY <4>1 DEF Knowing
    <3> QED
      BY <1>9, <3>1, <3>2, <3>3, <3>4, <3>5 DEF Working
  <2> QED
    BY <2>1, NothingToKnow
<1> QED
  BY <1>1, <1>2, <1>3, <1>4, <1>5, <1>6, <1>7, <1>8, <1>9

LEMMA SureKept ==
    ASSUME ProgressCalm, TypeOK, Homes, Placed, Routed, SureOrAhead, NEW p \in Procs,
           Arrive(p) \/ Proceed(p) \/ Fault(p)
    PROVE  SureOrAhead'
<1>1. ASSUME NEW q \in Procs, q # p PROVE (Sure(q) \/ Ahead(q))'
  <2>1. Sure(q) \/ Ahead(q)
    BY DEF SureOrAhead
  <2> QED
    BY <1>1, <2>1, SureElsewhere
<1>2. (Sure(p) \/ Ahead(p))'
  <2>1. CASE Working(p)
    <3>1. proc[p].pc \in JobSteps
      BY <2>1, WorkingLeads DEF Leads
    <3> QED
      BY <2>1, <3>1, AheadWorking, SureHere DEF SureOrAhead
  <2>2. CASE ~Working(p)
    <3>1. proc'[p].pc \notin Knowing
      <4>1. CASE Arrive(p)
        BY <4>1, ArriveLands DEF Knowing
      <4>2. CASE Handles(p)
        BY <4>2, HandlerFields, IdleShape DEF Knowing
      <4>3. CASE \E task \in Task : Deliver(p, task)
        BY <4>3, DeliverFields DEF Knowing
      <4>4. CASE Succeed(p) \/ Rethrow(p)
        <5>1. proc'[p].pc \in {"idle", "fanOut", "fail", "load", "created", "dispatchFailed"}
          BY <4>4, EndFields, IdleShape DEF Ends
        <5> QED
          BY <5>1 DEF Knowing
      <4> QED
        BY <2>2, <4>1, <4>2, <4>3, <4>4, CalmSteps
    <3> QED
      BY <3>1, NothingToKnow
  <2> QED
    BY <2>1, <2>2
<1> QED
  BY <1>1, <1>2 DEF SureOrAhead

-----------------------------------------------------------------------------
(* The progress agrees, or something will recount. *)

\* A save that knew the progress it replaces writes the new one.
LEMMA ProgressSaved ==
    ASSUME NEW doc \in StatementDoc, NEW new, NEW sets, doc.progress = stmt.progress,
           stmt' = Saved(doc, new, sets)
    PROVE  stmt'.progress = new.progress
BY DEF Saved

\* What a recount saves.
LEMMA RecountAgrees ==
    ASSUME TypeOK, SeenAll, NEW p \in Procs, SaveProgress(p), Sure(p)
    PROVE  Agrees'
<1> DEFINE doc == proc[p].doc
           progress == [s \in Counted |-> proc[p].seen[s]]
           status == IF SeenSettled(proc[p].seen, doc.status) THEN "ready_for_review"
                     ELSE doc.status
           new == [doc EXCEPT !.status = status, !.progress = progress]
<1>0. doc \in StatementDoc /\ At(p, "progress") /\ checks' = checks
  BY ProcTyped, Fields, Guards DEF SaveProgress, StatementOnly
<1>1. stmt' = Saved(doc, new, FALSE)
  BY DEF SaveProgress
<1>2. DOMAIN proc[p].seen = Counted /\ Counts(proc[p].seen) /\ doc.progress = stmt.progress
  BY <1>0 DEF SeenAll, Sure, At
<1>3. progress = [s \in Counted |-> CountOf(s)]
  BY <1>2 DEF Counts
<1> HIDE DEF progress, status
<1>4. new.progress = progress
  BY <1>0 DEF StatementDoc
<1>5. stmt'.progress = progress
  <2> HIDE DEF doc, new
  <2> QED
    BY <1>0, <1>1, <1>2, <1>4, ProgressSaved
<1>6. DOMAIN NoProgress = Counted
  BY DEF NoProgress, Counted
<1>7. \A s : CountOf(s)' = CountOf(s)
  BY <1>0, CountsSame
<1> QED
  BY <1>3, <1>5, <1>6, <1>7 DEF Agrees

\* The counts that checks.spawn writes.
LEMMA SpawnProgress ==
    ASSUME NEW n
    PROVE  LET y == [NoProgress EXCEPT !.total = n, !.queued = n]
           IN  /\ DOMAIN y = DOMAIN NoProgress /\ y = [s \in DOMAIN y |-> y[s]]
               /\ y.total = n /\ y.queued = n
               /\ y.processing = 0 /\ y.ready = 0 /\ y.failed = 0
BY DEF NoProgress

\* What checks.spawn saves when it has created its checks.
LEMMA SpawnAgrees ==
    ASSUME TypeOK, NEW p \in Procs, FinishSpawn(p), Sure(p)
    PROVE  Agrees'
<1> DEFINE doc == proc[p].doc
           n == Cardinality(proc[p].todo)
           progress == [NoProgress EXCEPT !.total = n, !.queued = n]
           status == IF n > 0 THEN "checks_queued" ELSE "ready_for_review"
           new == [doc EXCEPT !.progress = progress, !.status = status]
<1>0. doc \in StatementDoc /\ At(p, "spawn") /\ checks' = checks
  BY ProcTyped, Fields, Guards DEF FinishSpawn, StatementOnly
<1>1. stmt' = Saved(doc, new, FALSE)
  BY DEF FinishSpawn
<1>2. /\ Present = proc[p].todo /\ doc.progress = stmt.progress
      /\ \A c \in Present : checks[c].status = "queued"
  BY <1>0 DEF Sure, At
<1>3. CountOf("total") = n /\ CountOf("queued") = n
  <2>1. {c \in CheckIds : checks[c].status = "queued"} = Present
    BY <1>2 DEF Present
  <2>2. CountOf("queued") = Cardinality({c \in CheckIds : checks[c].status = "queued"})
    BY DEF CountOf
  <2> QED
    BY <1>2, <2>1, <2>2, PresentCounted
<1>4. ASSUME NEW s \in {"processing", "ready", "failed"} PROVE CountOf(s) = 0
  <2>1. {c \in CheckIds : checks[c].status = s} = {}
    BY <1>2, <1>4 DEF Present
  <2>2. s # "total"
    BY <1>4
  <2> QED
    BY <2>1, <2>2, FS_EmptySet DEF CountOf
<1>5. progress = [s \in DOMAIN NoProgress |-> CountOf(s)]
  <2>1. /\ DOMAIN progress = DOMAIN NoProgress /\ progress = [s \in DOMAIN progress |-> progress[s]]
        /\ progress.total = n /\ progress.queued = n
        /\ progress.processing = 0 /\ progress.ready = 0 /\ progress.failed = 0
    <3> HIDE DEF n
    <3> QED
      BY SpawnProgress
  <2>2. DOMAIN NoProgress = {"total", "queued", "processing", "ready", "failed"}
    BY DEF NoProgress
  <2> HIDE DEF progress, n
  <2>3. ASSUME NEW s \in DOMAIN NoProgress PROVE progress[s] = CountOf(s)
    BY <1>3, <1>4, <2>1, <2>2, <2>3
  <2> QED
    BY <2>1, <2>3
<1> HIDE DEF progress, status
<1>6. new.progress = progress
  BY <1>0 DEF StatementDoc
<1>7. stmt'.progress = progress
  <2> HIDE DEF doc, new
  <2> QED
    BY <1>0, <1>1, <1>2, <1>6, ProgressSaved
<1>8. \A s : CountOf(s)' = CountOf(s)
  BY <1>0, CountsSame
<1> QED
  BY <1>5, <1>7, <1>8 DEF Agrees

\* The counts of no checks.
LEMMA NoneCounted ==
    ASSUME Present' = {}
    PROVE  \A s \in DOMAIN NoProgress : CountOf(s)' = 0
<1>1. SUFFICES ASSUME NEW s \in {"total"} \cup CheckStatus PROVE CountOf(s)' = 0
  BY DEF NoProgress, CheckStatus
<1>2. CountOf(s)' = Cardinality({c \in CheckIds : IF s = "total" THEN checks'[c].status # "none"
                                                  ELSE checks'[c].status = s})
  BY DEF CountOf
<1>3. {c \in CheckIds : IF s = "total" THEN checks'[c].status # "none"
                        ELSE checks'[c].status = s} = {}
  BY DEF Present, CheckStatus
<1> QED
  BY <1>2, <1>3, FS_EmptySet

\* Something will recount.
Coming == TaskAhead \/ \E q \in Procs : Recounts(q)

LEMMA AheadComes == ASSUME NEW p \in Procs, Ahead(p)' PROVE Coming'
BY DEF Ahead, Coming, Recounts

LEMMA RecountComes == ASSUME NEW p \in Procs, Recounts(p)' PROVE Coming'
BY DEF Coming

\* A step of p that leaves statement and checks as they are, and does not end a recount.
LEMMA ComingKept ==
    ASSUME TypeOK, WillAgree, NEW p \in Procs, Arrive(p) \/ Proceed(p) \/ Fault(p),
           ~Recounts(p), checks' = checks, stmt'.progress = stmt.progress,
           stmt'.issues = stmt.issues, ~stmt'.issues, ~Agrees'
    PROVE  Coming'
<1>1. ~Agrees
  BY CountsSame DEF Agrees
<1>2. CASE TaskAhead
  <2>1. TaskAhead' \/ (proc'[p].pc = "load" /\ proc'[p].job \in Counting)
    BY <1>2, QueueGrows
  <2>2. proc'[p].pc = "load" /\ proc'[p].job \in Counting => Recounts(p)'
    BY DEF Recounts, Counting
  <2> QED
    BY <2>1, <2>2 DEF Coming
<1>3. CASE ~TaskAhead
  <2>1. PICK q \in Procs : Recounts(q)
    BY <1>1, <1>3 DEF WillAgree
  <2>2. q # p
    BY <2>1
  <2>3. proc'[q] = proc[q]
    BY <2>2, StepAlone DEF Alone
  <2>4. Recounts(q)'
    BY <2>1, <2>3 DEF Recounts, Handing, At
  <2> QED
    BY <2>4, RecountComes
<1> QED
  BY <1>2, <1>3

\* The steps of a job that recounts, before its save.
LEMMA RecountsOn ==
    ASSUME TypeOK, NEW p \in Procs, Place(proc[p]),
           \/ FailCheck(p) \/ DeleteChecks(p) \/ SelectCandidates(p) \/ SpawnCheck(p)
           \/ FindCheck(p) \/ MarkProcessing(p) \/ SaveResult(p) \/ CountChecks(p)
           \/ LoadProgress(p)
    PROVE  Recounts(p)'
<1>1. CASE FailCheck(p)
  <2>1. At(p, "failCheck") /\ Goes(p, {"count"})
    BY <1>1, Guards, Lands
  <2> QED
    BY <2>1 DEF At, Place, CheckPcs, Goes, SameWork, Recounts
<1>2. CASE DeleteChecks(p)
  <2>1. At(p, "deleteChecks") /\ Goes(p, {"select"})
    BY <1>2, Guards, Lands DEF GoesWith
  <2> QED
    BY <2>1 DEF At, Place, Goes, SameWork, Recounts
<1>3. CASE SelectCandidates(p) \/ SpawnCheck(p)
  <2>1. proc[p].pc \in {"select", "spawn"} /\ proc'[p].pc = "spawn" /\ proc'[p].job = proc[p].job
    BY <1>3, Guards, SpawnLands DEF At, Spawning
  <2> QED
    BY <2>1 DEF Place, Recounts
<1>4. CASE FindCheck(p) \/ MarkProcessing(p) \/ SaveResult(p) \/ CountChecks(p) \/ LoadProgress(p)
  <2>1. proc[p].pc \in CheckPcs
    BY <1>4, Guards DEF At, CheckPcs
  <2>2. Goes(p, {"mark", "fail", "count", "progress"})
    BY <1>4, CheckLands DEF GoesWith, Goes
  <2> QED
    BY <2>1, <2>2 DEF Place, Goes, SameWork, Recounts
<1> QED
  BY <1>1, <1>2, <1>3, <1>4

\* A handler's step.
LEMMA HandlerAgrees ==
    ASSUME ProgressCalm, TypeOK, Homes, Placed, Routed, Blanks, WillAgree, NEW p \in Procs,
           Arrive(p) \/ Proceed(p) \/ Fault(p), Handles(p), ~stmt'.issues, ~Agrees'
    PROVE  Coming'
<1>1. CASE ResetStatement(p)
  <2>1. CASE stmt' = stmt
    <3>1. checks' = checks /\ ~Recounts(p)
      BY <1>1, Guards DEF ResetStatement, StatementOnly, Recounts, Handing, At
    <3> QED
      BY <2>1, <3>1, ComingKept
  <2>2. CASE proc'[p].pc = "clear"
    BY <2>2, RecountComes DEF Recounts, Handing, At
  <2> QED
    BY <1>1, <2>1, <2>2, HandlerLands DEF GoesWith, Goes
<1>2. CASE ClearChecks(p)
  <2>1. GoesWith(p, "enqueue", proc[p].doc) /\ At(p, "clear") /\ Present' = {} /\ stmt' = stmt
    BY <1>2, Guards, HandlerLands, PresentCleared DEF ClearChecks, ChecksOnly
  <2>2. CASE proc[p].job \in Counting
    BY <2>1, <2>2, RecountComes DEF Recounts, Handing, At, GoesWith, Goes, SameWork
  <2>3. CASE proc[p].job \notin Counting
    <3>1. mode # "tasks"
      BY <2>1, <2>3 DEF Routed, At, Counting
    <3>2. stmt'.progress = NoProgress
      BY <2>1, <3>1 DEF Blanks, Blank
    <3>3. \A s \in DOMAIN NoProgress : CountOf(s)' = NoProgress[s]
      BY <2>1, NoneCounted DEF NoProgress
    <3>4. NoProgress = [s \in DOMAIN NoProgress |-> NoProgress[s]]
      BY DEF NoProgress
    <3> QED
      BY <3>2, <3>3, <3>4 DEF Agrees
  <2> QED
    BY <2>2, <2>3
<1>3. CASE RequeueCheck(p)
  <2>1. At(p, "requeue") /\ proc[p].job = "check" /\ stmt' = stmt
    BY <1>3, Guards DEF Placed, Place, At, RequeueCheck, ChecksOnly
  <2>2. CASE GoesWith(p, "enqueue", proc[p].doc)
    BY <2>1, <2>2, RecountComes DEF Recounts, Handing, At, GoesWith, Goes, SameWork, Counting
  <2>3. CASE checks' = checks
    BY <2>1, <2>3, ComingKept DEF Recounts, Handing, At
  <2> QED
    BY <1>3, <2>2, <2>3, HandlerLands
<1>4. CASE Enqueue(p)
  <2>1. stmt' = stmt /\ checks' = checks /\ At(p, "enqueue")
    BY <1>4, Guards DEF Enqueue, QueueOnly
  <2>2. CASE proc[p].job \in Counting /\ mode = "tasks"
    BY <1>4, <2>2, HandlerLands, PutAhead DEF Coming
  <2>3. CASE proc[p].job \in Counting /\ mode # "tasks"
    BY <1>4, <2>3, HandlerLands, RecountComes DEF GoesWith, Goes, SameWork, Recounts, Counting
  <2>4. CASE proc[p].job \notin Counting
    BY <2>1, <2>4, ComingKept DEF Recounts, Handing, At, Counting
  <2> QED
    BY <2>2, <2>3, <2>4
<1>5. CASE SaveExtracting(p)
  <2>1. checks' = checks /\ ~Recounts(p)
    BY <1>5, Guards DEF SaveExtracting, StatementOnly, Recounts, Handing, At
  <2>2. /\ ~ResetStatement(p) /\ ~FinishStructure(p) /\ ~FinishSpawn(p) /\ ~SaveProgress(p)
        /\ ~SaveFailed(p) /\ ~SaveDispatchFailed(p)
    BY <1>5, Guards DEF At
  <2> QED
    BY <2>1, <2>2, ProgressWritten, IssuesKept, ComingKept
<1>6. CASE SaveDispatchFailed(p)
  <2>1. stmt' = stmt
    <3>1. ~ResetStatement(p)
      BY <1>6, Guards DEF At
    <3> QED
      BY <1>6, <3>1, IssuesMoved
  <2>2. checks' = checks /\ ~Recounts(p)
    BY <1>6, Guards DEF SaveDispatchFailed, StatementOnly, Recounts, Handing, At
  <2> QED
    BY <2>1, <2>2, ComingKept
<1> QED
  BY <1>1, <1>2, <1>3, <1>4, <1>5, <1>6, CalmSteps DEF Handles

\* A job's step.
LEMMA WorkAgrees ==
    ASSUME ProgressCalm, TypeOK, SeenAll, Homes, Placed, Routed, Blanks, WillAgree, SureOrAhead,
           NEW p \in Procs, Arrive(p) \/ Proceed(p) \/ Fault(p), Working(p),
           ~stmt'.issues, ~Agrees'
    PROVE  Coming'
<1>0. proc[p].pc \in JobSteps /\ Place(proc[p])
  BY WorkingLeads DEF Leads, Placed
<1>a. CASE Ahead(p)
  BY <1>0, <1>a, AheadWorking, AheadComes
<1>b. CASE Sure(p)
  <2>1. CASE \/ FailCheck(p) \/ DeleteChecks(p) \/ SelectCandidates(p) \/ SpawnCheck(p)
             \/ FindCheck(p) \/ MarkProcessing(p) \/ SaveResult(p) \/ CountChecks(p)
             \/ LoadProgress(p)
    BY <1>0, <2>1, RecountsOn, RecountComes
  <2>2. CASE SaveProgress(p)
    BY <1>b, <2>2, RecountAgrees
  <2>3. CASE FinishSpawn(p)
    BY <1>b, <2>3, SpawnAgrees
  <2>4. CASE SaveFailed(p)
    <3>1. At(p, "saveFailed") /\ proc[p].doc.v = stmt.v
      BY <1>b, <2>4, Guards DEF Sure, Fresh
    <3> DEFINE new == [proc[p].doc EXCEPT !.status = "failed", !.issues = TRUE]
    <3>2. stmt' = Saved(proc[p].doc, new, TRUE)
      BY <2>4, <3>1 DEF SaveFailed, Conflicts
    <3>3. new.issues = TRUE
      BY ProcTyped, Fields DEF StatementDoc
    <3> HIDE DEF new
    <3> QED
      BY <3>2, <3>3 DEF Saved
  <2>5. CASE LoadFailed(p) \/ ArtifactError(p)
    <3>1. stmt' = stmt /\ checks' = checks
      BY <2>5 DEF LoadFailed, ArtifactError, ProcOnly, StatementOnly
    <3>2. CASE Recounts(p)
      <4>1. \/ At(p, "fail") /\ Goes(p, {"saveFailed"})
            \/ proc[p].pc \in {"artifacts", "extracted", "work", "spawn"} /\ Goes(p, {"fail"})
        BY <2>5, Guards, Lands DEF GoesWith
      <4>2. proc[p].job \in Counting
        BY <1>0, <3>2 DEF Recounts, Handing, At, JobSteps, Counting
      <4> QED
        BY <4>1, <4>2, RecountComes DEF At, Goes, SameWork, Recounts, Counting
    <3> QED
      BY <3>1, <3>2, ComingKept
  <2>6. CASE LoadStatement(p)
    <3>1. stmt' = stmt /\ checks' = checks /\ At(p, "load")
      BY <2>6, Guards DEF LoadStatement, ProcOnly, StatementOnly
    <3>2. CASE proc[p].job = "spawn"
      BY <2>6, <3>2, LoadLands, RecountComes DEF GoesWith, Goes, SameWork, Recounts
    <3>3. CASE proc[p].job = "check"
      BY <2>6, <3>3, LoadLands, RecountComes DEF Goes, SameWork, Recounts
    <3>4. CASE proc[p].job \notin Counting
      BY <3>1, <3>4, ComingKept DEF Recounts, Handing, At, Counting
    <3> QED
      BY <3>2, <3>3, <3>4 DEF Counting
  <2>7. CASE FinishStructure(p)
    <3>1. At(p, "create") /\ proc[p].job = "structure" /\ checks' = checks
      BY <1>0, <2>7, Guards DEF At, Place, FinishStructure, StatementOnly
    <3>2. mode # "tasks"
      BY <3>1 DEF Routed
    <3>3. proc[p].doc.progress = NoProgress /\ stmt.progress = NoProgress
      BY <3>1, <3>2 DEF Blanks, Blank, At, Early
    <3> DEFINE new == [proc[p].doc EXCEPT !.status = "checks_queued", !.progress = NoProgress]
    <3>4. stmt' = Saved(proc[p].doc, new, FALSE)
      BY <2>7 DEF FinishStructure
    <3>5. new.progress = NoProgress /\ proc[p].doc \in StatementDoc
      BY ProcTyped, Fields DEF StatementDoc
    <3> HIDE DEF new
    <3>6. stmt'.progress = stmt.progress /\ stmt'.issues = stmt.issues
      BY <3>3, <3>4, <3>5 DEF Saved
    <3> QED
      BY <3>1, <3>6, ComingKept DEF Recounts, Handing, At
  <2>8. CASE \/ RefreshMatching(p) \/ BeginExtract(p) \/ FinishExtract(p) \/ BeginStructure(p)
             \/ DeleteRows(p) \/ CreateRow(p) \/ FanOut(p)
    <3>1. proc[p].pc \in {"refresh", "begin", "extracted", "artifacts", "create", "fanOut"}
      BY <2>8, Guards DEF At
    <3>2. checks' = checks /\ ~Recounts(p)
      <4>1. ~WritesChecks(p)
        BY <3>1, Guards DEF At, WritesChecks
      <4>2. ~Recounts(p)
        BY <1>0, <3>1 DEF Place, Recounts, Handing, At
      <4> QED
        BY <4>1, <4>2, ChecksWritten
    <3>3. /\ ~ResetStatement(p) /\ ~FinishSpawn(p) /\ ~SaveProgress(p) /\ ~SaveFailed(p)
          /\ ~SaveDispatchFailed(p)
      BY <3>1, Guards DEF At
    <3>4. ~FinishStructure(p)
      <4>1. ASSUME FinishStructure(p) PROVE FALSE
        <5>1. At(p, "create") /\ proc'[p].pc = "done"
          BY <4>1, Guards, Lands DEF GoesWith, Goes
        <5>2. CreateRow(p)
          BY <2>8, <5>1, Guards DEF At
        <5>3. proc'[p].pc = "create"
          BY <5>2, Lands DEF GoesWith, Goes
        <5> QED
          BY <5>1, <5>3
      <4> QED
        BY <4>1
    <3> QED
      BY <3>2, <3>3, <3>4, ProgressWritten, IssuesKept, ComingKept
  <2> QED
    BY <2>1, <2>2, <2>3, <2>4, <2>5, <2>6, <2>7, <2>8, CalmSteps DEF Working
<1> QED
  BY <1>a, <1>b DEF SureOrAhead

LEMMA WillAgreeKept ==
    ASSUME ProgressCalm, TypeOK, SeenAll, Homes, Placed, Routed, Blanks, WillAgree, SureOrAhead,
           NEW p \in Procs, Arrive(p) \/ Proceed(p) \/ Fault(p)
    PROVE  WillAgree'
<1> SUFFICES ASSUME ~stmt'.issues, ~Agrees' PROVE Coming'
  BY DEF WillAgree, Coming
<1>1. CASE Arrive(p)
  <2>1. checks' = checks /\ proc[p].pc = "idle"
    BY <1>1, ArriveLands, Guards DEF At
  <2>2. ~Recounts(p)
    BY <2>1 DEF Recounts, Handing, At
  <2>3. /\ ~ResetStatement(p) /\ ~FinishStructure(p) /\ ~FinishSpawn(p) /\ ~SaveProgress(p)
        /\ ~SaveFailed(p) /\ ~SaveDispatchFailed(p)
    BY <2>1, Guards DEF At
  <2> QED
    BY <2>1, <2>2, <2>3, ProgressWritten, IssuesKept, ComingKept
<1>2. CASE Handles(p)
  BY <1>2, HandlerAgrees
<1>3. CASE Working(p)
  BY <1>3, WorkAgrees
<1>4. CASE (\E task \in Task : Deliver(p, task)) \/ Succeed(p) \/ Rethrow(p)
  <2>1. proc[p].pc \in {"idle", "done", "rethrow"}
    BY <1>4, Guards DEF At
  <2>2. stmt' = stmt /\ checks' = checks
    BY <1>4 DEF Deliver, Succeed, Rethrow, QueueOnly
  <2>3. ~Recounts(p)
    BY <2>1 DEF Recounts, Handing, At
  <2> QED
    BY <2>2, <2>3, ComingKept
<1> QED
  BY <1>1, <1>2, <1>3, <1>4, CalmSteps

-----------------------------------------------------------------------------
(* Run in place, the early jobs find nothing. *)

LEMMA OthersRest ==
    ASSUME ProgressCalm, mode # "tasks", TypeOK, Homes, NEW p \in Procs,
           Arrive(p) \/ Proceed(p) \/ Fault(p)
    PROVE  /\ p \in Requests /\ ~(\E task \in Task : Deliver(p, task))
           /\ \A q \in Procs : q # p => At(q, "idle")
<1>1. ASSUME NEW task \in Task, Deliver(p, task) PROVE FALSE
  <2>1. queued[task] > 0 /\ queued[task] = 0
    BY <1>1 DEF Homes, Deliver
  <2> QED
    BY <2>1
<1>2. p \in Requests
  <2>1. SUFFICES ASSUME p \in Workers, p \notin Requests PROVE FALSE
    BY DEF Procs
  <2>2. At(p, "idle")
    BY <2>1 DEF Homes
  <2>3. ~Arrive(p)
    BY <2>1, ArriveGoes
  <2> QED
    BY <1>1, <2>2, <2>3, StepKinds, HandlerGoes, EndGoes, WorkingLeads
       DEF Leads, At, HandlerSteps, JobSteps
<1>3. ASSUME NEW q \in Procs, q # p PROVE At(q, "idle")
  BY <1>2, <1>3 DEF ProgressCalm, OneAtATime, Procs, Homes
<1> QED
  BY <1>1, <1>2, <1>3

\* A job that is not early, at a step that knows nothing.
LEMMA LaterBlank ==
    ASSUME NEW p, proc'[p].pc \notin {"reset", "clear", "begin", "extracted", "artifacts", "create"},
           proc'[p].pc = "idle" \/ proc'[p].job \notin Early
    PROVE  Blank(p)'
BY DEF Blank, At

LEMMA HandlerBlank ==
    ASSUME ProgressCalm, mode # "tasks", TypeOK, Placed, NEW p \in Procs,
           Arrive(p) \/ Proceed(p) \/ Fault(p), Handles(p), Blank(p)
    PROVE  Blank(p)'
<1>0. proc[p].doc \in StatementDoc
  BY ProcTyped, Fields
<1>1. CASE ResetStatement(p)
  <2>1. CASE GoesWith(p, "clear", proc[p].doc)
            /\ stmt' = Saved(proc[p].doc, Uploaded, proc[p].doc.issues)
    <3>1. proc[p].doc.progress = stmt.progress
      BY <1>1, Guards DEF Blank
    <3>2. Uploaded.progress = NoProgress
      BY DEF Uploaded
    <3>3. stmt'.progress = NoProgress
      BY <1>0, <2>1, <3>1, <3>2, ProgressSaved
    <3> QED
      BY <2>1, <3>3 DEF GoesWith, Goes, Blank, At
  <2>2. CASE proc'[p] = IdleProc
    BY <2>2, IdleShape, LaterBlank
  <2> QED
    BY <1>1, <2>1, <2>2, HandlerLands
<1>2. CASE ClearChecks(p)
  <2>1. /\ GoesWith(p, "enqueue", proc[p].doc) /\ At(p, "clear") /\ Present' = {} /\ stmt' = stmt
    BY <1>2, Guards, HandlerLands, PresentCleared DEF ClearChecks, ChecksOnly
  <2> QED
    BY <2>1 DEF GoesWith, Goes, Blank, At
<1>3. CASE RequeueCheck(p)
  <2>1. proc[p].job = "check"
    BY <1>3, Guards DEF Placed, Place, At
  <2> QED
    BY <1>3, <2>1, HandlerLands, IdleShape, LaterBlank DEF GoesWith, Goes, SameWork, Early
<1>4. CASE Enqueue(p)
  <2>1. /\ GoesWith(p, "load", proc[p].doc) /\ At(p, "enqueue") /\ stmt' = stmt
        /\ Present' = Present
    BY <1>4, Guards, HandlerLands, CountsSame DEF Enqueue, QueueOnly
  <2> QED
    BY <2>1 DEF GoesWith, Goes, SameWork, Blank, At
<1>5. CASE SaveExtracting(p) \/ SaveDispatchFailed(p)
  BY <1>5, HandlerLands, IdleShape, LaterBlank
<1> QED
  BY <1>1, <1>2, <1>3, <1>4, <1>5, CalmSteps DEF Handles

LEMMA WorkBlank ==
    ASSUME ProgressCalm, mode # "tasks", TypeOK, Placed, NEW p \in Procs,
           Arrive(p) \/ Proceed(p) \/ Fault(p), Working(p), Blank(p)
    PROVE  Blank(p)'
<1>0. proc[p].pc \in JobSteps /\ Place(proc[p]) /\ proc'[p].pc \in JobSteps
      /\ proc[p].doc \in StatementDoc
  BY WorkingLeads, ProcTyped, Fields DEF Leads, Placed, Continues
<1>1. CASE proc[p].job \notin Early
  <2>1. proc'[p].job \in {proc[p].job, "check"}
    BY WorkingKeeps, SpawnLands DEF Chooses, SameWork, Spawning, GoesWith, Goes
  <2>2. proc'[p].pc \notin {"begin", "extracted", "artifacts", "create"}
    <3>1. Place(proc'[p])
      BY <1>0, WorkPlaced
    <3> QED
      BY <1>1, <2>1, <3>1 DEF Place, Early
  <2> QED
    BY <1>0, <1>1, <2>1, <2>2, LaterBlank DEF Early, JobSteps
<1>2. CASE proc[p].job \in Early
  <2>0. stmt.progress = NoProgress /\ Present = {}
    BY <1>0, <1>2 DEF Blank, JobSteps
  <2>1. proc[p].pc \notin {"deleteChecks", "select", "spawn", "fanOut"} \cup CheckPcs
    BY <1>0, <1>2 DEF Place, Early
  <2>2. checks' = checks
    <3>1. ~WritesChecks(p)
      BY <1>0, <2>1, Guards DEF At, WritesChecks, CheckPcs, JobSteps
    <3> QED
      BY <3>1, ChecksWritten
  <2>3. SameWork(p)
    BY <2>1, WorkingKeeps, Guards DEF Chooses, At, CheckPcs
  <2>4. CASE FinishStructure(p)
    <3>1. GoesWith(p, "done", proc[p].doc) /\ At(p, "create")
      BY <2>4, Lands, Guards
    <3>2. stmt'.progress = NoProgress
      <4>1. [proc[p].doc EXCEPT !.status = "checks_queued", !.progress = NoProgress].progress
                = NoProgress
        BY <1>0 DEF StatementDoc
      <4>2. proc[p].doc.progress = stmt.progress
        BY <2>0, <3>1 DEF Blank, At
      <4> QED
        BY <1>0, <2>4, <4>1, <4>2, ProgressSaved DEF FinishStructure
    <3> QED
      BY <2>0, <2>2, <3>1, <3>2, CountsSame DEF GoesWith, Goes, Blank, At
  <2>5. CASE ~FinishStructure(p)
    <3>1. stmt'.progress = NoProgress /\ Present' = {}
      <4>1. ~ResetStatement(p) /\ ~FinishSpawn(p) /\ ~SaveProgress(p)
        BY <1>0, <2>1, Guards DEF At, CheckPcs, JobSteps
      <4> QED
        BY <2>0, <2>2, <2>5, <4>1, ProgressWritten, CountsSame
    <3>2. proc'[p].pc \in {"begin", "extracted", "artifacts", "create"}
              => proc'[p].doc.progress = NoProgress
      <4>1. CASE LoadStatement(p)
        <5>1. GoesWith(p, "begin", stmt)
          BY <1>2, <4>1, LoadLands DEF Early
        <5> QED
          BY <2>0, <5>1 DEF GoesWith
      <4>2. CASE BeginExtract(p) \/ FinishExtract(p) \/ BeginStructure(p)
        <5>1. proc[p].doc.progress = NoProgress
          BY <4>2, Guards DEF Blank, At
        <5>2. \A status : [proc[p].doc EXCEPT !.status = status].progress = proc[p].doc.progress
          BY <1>0 DEF StatementDoc
        <5>3. \E status : proc'[p].doc = [proc[p].doc EXCEPT !.status = status]
          BY <4>2, Lands, Zenon DEF GoesWith
        <5> QED
          BY <5>1, <5>2, <5>3
      <4>3. CASE DeleteRows(p) \/ CreateRow(p)
        <5>1. proc[p].doc.progress = NoProgress
          BY <4>3, Guards DEF Blank, At
        <5> QED
          BY <4>3, <5>1, Lands DEF GoesWith
      <4>4. CASE ArtifactError(p) \/ LoadFailed(p) \/ SaveFailed(p) \/ RefreshMatching(p)
        <5>1. proc'[p].pc \in {"fail", "saveFailed", "rethrow", "failCheck", "done"}
          BY <4>4, Lands DEF GoesWith, Goes
        <5> QED
          BY <5>1
      <4> QED
        BY <2>1, <2>5, <4>1, <4>2, <4>3, <4>4, Guards, CalmSteps DEF Working, At, CheckPcs
    <3> QED
      BY <1>0, <3>1, <3>2 DEF Blank, At, JobSteps
  <2> QED
    BY <2>4, <2>5
<1> QED
  BY <1>1, <1>2

LEMMA BlanksKept ==
    ASSUME ProgressCalm, TypeOK, Homes, Placed, NothingYet, Blanks, NEW p \in Procs,
           Arrive(p) \/ Proceed(p) \/ Fault(p)
    PROVE  Blanks'
<1> SUFFICES ASSUME mode # "tasks" PROVE \A q \in Procs : Blank(q)'
  BY ModeKept DEF Blanks
<1>1. ASSUME NEW q \in Procs, q # p PROVE Blank(q)'
  <2>1. proc'[q] = proc[q] /\ At(q, "idle")
    BY <1>1, OthersRest, StepAlone DEF Alone
  <2> QED
    BY <2>1, LaterBlank DEF At
<1>2. Blank(p)'
  <2>1. CASE Arrive(p)
    <3>1. CASE /\ proc'[p].pc = "enqueue" /\ proc'[p].job = "extract"
               /\ stmt = Missing /\ stmt' = Uploaded
      <4>1. Present = {} /\ checks' = checks
        <5>1. stmt.status = "none"
          BY <3>1 DEF Missing, Uploaded
        <5> QED
          BY <2>1, <5>1, ArriveLands DEF NothingYet
      <4> QED
        BY <3>1, <4>1, CountsSame DEF Blank, At, Uploaded
    <3>2. CASE proc'[p].pc = "reset" /\ proc'[p].doc = stmt /\ stmt' = stmt
      BY <3>2 DEF Blank, At
    <3>3. CASE proc'[p].pc = "requeue" /\ proc'[p].job = "check"
      BY <3>3, LaterBlank DEF Early
    <3> QED
      BY <2>1, <3>1, <3>2, <3>3, ArriveLands
  <2>2. CASE Handles(p)
    BY <2>2, HandlerBlank DEF Blanks
  <2>3. CASE Working(p)
    BY <2>3, WorkBlank DEF Blanks
  <2>4. CASE Succeed(p) \/ Rethrow(p)
    <3>1. stmt' = stmt /\ Present' = Present /\ proc[p].pc \in {"done", "rethrow"}
      BY <2>4, Guards, CountsSame DEF Succeed, Rethrow, QueueOnly, At
    <3>2. CASE proc'[p].job = "spawn" /\ proc'[p].pc \in {"fanOut", "fail"}
      BY <3>2, LaterBlank DEF Early
    <3>3. CASE proc[p].job \in DOMAIN NextJob /\ proc'[p].pc = "load"
      BY <3>1, <3>3 DEF Blanks, Blank, NextJob, Early, At
    <3>4. CASE proc'[p] = IdleProc
      BY <3>4, IdleShape, LaterBlank
    <3>5. CASE Goes(p, {"created", "dispatchFailed"})
      BY <3>1, <3>5 DEF Goes, SameWork, Blanks, Blank, At
    <3> QED
      BY <2>4, <3>2, <3>3, <3>4, <3>5, EndLands
  <2> QED
    BY <2>1, <2>2, <2>3, <2>4, OthersRest, CalmSteps
<1> QED
  BY <1>1, <1>2

-----------------------------------------------------------------------------
(* A check under way has its job. *)

\* A check comes under way when its job marks it.
LEMMA NewProcessing ==
    ASSUME TypeOK, NEW p \in Procs, Arrive(p) \/ Proceed(p) \/ Fault(p), NEW c \in CheckIds,
           checks'[c].status = "processing"
    PROVE  /\ ~ClearChecks(p)
           /\ \/ checks[c].status = "processing"
                 /\ ~(SaveResult(p) /\ c = proc[p].check) /\ ~(FailCheck(p) /\ c = proc[p].check)
              \/ MarkProcessing(p) /\ c = proc[p].check /\ StartCount(p, "work")
<1>0. checks \in [CheckIds -> Check]
  BY ProcTyped
<1>1. CASE ClearChecks(p) \/ DeleteChecks(p)
  BY <1>1 DEF ClearChecks, DeleteChecks, Unmade
<1>2. ASSUME NEW d, Existing(d), NEW new \in Check, new.status # "processing",
             checks' = [checks EXCEPT ![d] = new]
      PROVE  d # c /\ checks[c].status = "processing"
  BY <1>0, <1>2 DEF Existing
<1>3. CASE RequeueCheck(p)
  <2>1. \A d : checks'[c].status \in {checks[c].status, "queued"}
    BY <1>0, <1>3 DEF RequeueCheck, Check
  <2>2. ~SaveResult(p) /\ ~FailCheck(p) /\ ~ClearChecks(p)
    BY <1>3, Guards DEF At
  <2> QED
    BY <2>1, <2>2
<1>4. CASE FailCheck(p)
  <2>1. c = proc[p].check =>
            checks'[c].status = "failed" \/ (~Existing(c) /\ checks' = checks)
    BY <1>0, <1>4 DEF FailCheck, Check
  <2>2. c # proc[p].check => checks'[c] = checks[c]
    BY <1>0, <1>4 DEF FailCheck
  <2>3. ~SaveResult(p) /\ ~ClearChecks(p)
    BY <1>4, Guards DEF At
  <2> QED
    BY <2>1, <2>2, <2>3 DEF Existing
<1>5. CASE SaveResult(p)
  <2>1. c = proc[p].check =>
            checks'[c].status = "ready" \/ (~Existing(c) /\ checks' = checks)
    BY <1>0, <1>5 DEF SaveResult, Check
  <2>2. c # proc[p].check => checks'[c] = checks[c]
    BY <1>0, <1>5 DEF SaveResult
  <2>3. ~FailCheck(p) /\ ~ClearChecks(p)
    BY <1>5, Guards DEF At
  <2> QED
    BY <2>1, <2>2, <2>3 DEF Existing
<1>6. CASE MarkProcessing(p)
  <2>1. c # proc[p].check => checks'[c] = checks[c]
    BY <1>0, <1>6 DEF MarkProcessing
  <2>2. Existing(proc[p].check) => StartCount(p, "work")
    BY <1>6 DEF MarkProcessing
  <2>3. ~Existing(proc[p].check) => checks' = checks
    BY <1>6 DEF MarkProcessing
  <2>4. ~SaveResult(p) /\ ~FailCheck(p) /\ ~ClearChecks(p)
    BY <1>6, Guards DEF At
  <2> QED
    BY <1>6, <2>1, <2>2, <2>3, <2>4
<1>7. CASE SpawnCheck(p)
  <2>1. checks' = [checks EXCEPT ![made + 1] = NewCheck] /\ NewCheck.status = "queued"
    BY <1>7, SpawnFields DEF NewCheck, Unmade
  <2>2. checks'[c] = checks[c]
    BY <1>0, <2>1
  <2>3. ~SaveResult(p) /\ ~FailCheck(p) /\ ~ClearChecks(p)
    BY <1>7, Guards DEF At
  <2> QED
    BY <2>2, <2>3
<1>8. CASE ~WritesChecks(p)
  BY <1>8, ChecksWritten DEF WritesChecks
<1> QED
  BY <1>1, <1>3, <1>4, <1>5, <1>6, <1>7, <1>8 DEF WritesChecks

\* The job of a check goes on until it has marked it again.
LEMMA MarksOn ==
    ASSUME ProgressCalm, TypeOK, Placed, NEW p \in Procs, Arrive(p) \/ Proceed(p) \/ Fault(p),
           NEW c \in CheckIds, Marks(p, c), checks[c].status = "processing",
           ~SaveResult(p), ~FailCheck(p)
    PROVE  Marks(p, c)'
<1>0. proc[p].job = "check" /\ proc[p].check = c /\ c # NoCheck
  BY DEF Marks, CheckIds, NoCheck
<1>1. CASE At(p, "work")
  <2>1. ArtifactError(p)
    BY <1>1, CalmSteps, StepsAt
  <2> QED
    BY <1>0, <2>1, Lands DEF GoesWith, Goes, SameWork, Marks
<1>2. CASE At(p, "fail")
  <2>1. LoadFailed(p)
    BY <1>2, CalmSteps, StepsAt
  <2>2. stmt' = stmt
    BY <2>1 DEF LoadFailed, ProcOnly
  <2> QED
    BY <1>0, <2>1, <2>2, Lands DEF GoesWith, Goes, SameWork, Marks, At, Fresh
<1>3. CASE At(p, "failCheck")
  BY <1>3, CalmSteps, StepsAt
<1>4. CASE At(p, "count") /\ proc[p].resume = "work"
  <2>1. CountChecks(p) \/ LoadProgress(p)
    BY <1>4, CalmSteps, StepsAt
  <2>2. Goes(p, {"count", "progress"}) /\ proc'[p].resume = proc[p].resume
    BY <2>1, CheckLands DEF GoesWith, Goes
  <2> QED
    BY <1>0, <1>4, <2>2 DEF Goes, SameWork, Marks
<1>5. CASE At(p, "progress") /\ proc[p].resume = "work"
  <2>1. SaveProgress(p)
    BY <1>5, CalmSteps, StepsAt
  <2> QED
    BY <1>0, <1>5, <2>1, CheckLands DEF Goes, SameWork, Marks
<1>6. CASE At(p, "saveFailed") /\ Fresh(p)
  <2>1. SaveFailed(p)
    BY <1>6, CalmSteps, StepsAt
  <2>2. GoesWith(p, "failCheck", proc[p].doc)
    BY <1>0, <1>6, <2>1, Lands DEF Conflicts, Fresh
  <2> QED
    BY <1>0, <2>2 DEF GoesWith, Goes, SameWork, Marks
<1> QED
  BY <1>1, <1>2, <1>3, <1>4, <1>5, <1>6 DEF Marks, At

LEMMA MarkingKept ==
    ASSUME ProgressCalm, TypeOK, Homes, Placed, Routed, Marking, NEW p \in Procs,
           Arrive(p) \/ Proceed(p) \/ Fault(p)
    PROVE  Marking'
<1> SUFFICES ASSUME NEW c \in CheckIds, checks'[c].status = "processing"
             PROVE  \E q \in Procs : (Marks(q, c) \/ At(q, "clear"))'
  BY DEF Marking
<1>1. CASE MarkProcessing(p) /\ c = proc[p].check /\ StartCount(p, "work")
  <2>1. proc[p].job = "check"
    BY <1>1, Guards DEF Placed, Place, At, CheckPcs
  <2>2. Marks(p, c)'
    BY <1>1, <2>1, CountBegins DEF Goes, SameWork, Marks
  <2> QED
    BY <2>2
<1>2. CASE /\ checks[c].status = "processing" /\ ~ClearChecks(p)
           /\ ~(SaveResult(p) /\ c = proc[p].check) /\ ~(FailCheck(p) /\ c = proc[p].check)
  <2>1. PICK q \in Procs : Marks(q, c) \/ At(q, "clear")
    BY <1>2 DEF Marking
  <2>2. CASE q = p
    <3>1. ~At(p, "clear")
      BY <1>2, CalmSteps, StepsAt
    <3>2. Marks(p, c) /\ ~SaveResult(p) /\ ~FailCheck(p)
      BY <1>2, <2>1, <2>2, <3>1 DEF Marks
    <3>3. Marks(p, c)'
      BY <1>2, <3>2, MarksOn
    <3> QED
      BY <3>3
  <2>3. CASE q # p
    <3>1. proc'[q] = proc[q]
      BY <2>3, StepAlone DEF Alone
    <3>2. CASE stmt'.v = stmt.v \/ ~At(q, "saveFailed")
      <4>1. Marks(q, c)' \/ At(q, "clear")'
        BY <2>1, <3>1, <3>2 DEF Marks, At, Fresh
      <4> QED
        BY <4>1
    <3>3. CASE stmt'.v # stmt.v /\ At(q, "saveFailed")
      <4>1. ~SaveFailed(p)
        <5>1. proc[p].pc \notin JobSteps
          BY <2>3, <3>3, OneRuns DEF ProgressCalm, At, JobSteps
        <5> QED
          BY <5>1, Guards DEF At, JobSteps
      <4>2. ~SaveDispatchFailed(p)
        <5>1. CASE mode = "tasks"
          BY <5>1, Guards DEF Routed
        <5>2. CASE mode # "tasks"
          BY <2>3, <3>3, <5>2, OthersRest DEF At
        <5> QED
          BY <5>1, <5>2
      <4>3. ResetStatement(p)
        BY <3>3, <4>1, <4>2, IssuesKept
      <4>4. At(p, "clear")'
        BY <3>3, <4>3, HandlerLands DEF GoesWith, Goes, At
      <4> QED
        BY <4>4
    <3> QED
      BY <3>2, <3>3
  <2> QED
    BY <2>2, <2>3
<1> QED
  BY <1>1, <1>2, NewProcessing
-----------------------------------------------------------------------------

LEMMA ProgressInit == Init => ProgressInv
<1> SUFFICES ASSUME Init PROVE ProgressInv
  OBVIOUS
<1>1. TypeOK /\ SeenAll /\ Homes
  BY InitTyped, HomesInit
<1>2. \A p \in Procs : proc[p] = IdleProc
  BY DEF Init
<1>3. Placed /\ \A p \in Procs : At(p, "idle") /\ proc[p].job = "extract"
  BY <1>2, IdleShape DEF Placed, Place, CheckPcs, At
<1>4. /\ Present = {} /\ checks = [c \in CheckIds |-> Unmade]
      /\ queued = [task \in Task |-> 0]
  BY NonePresent DEF Init
<1>5. NothingYet
  <2>1. stmt.status = "none" => stmt = Missing
    BY DEF Init, Uploaded
  <2> QED
    BY <1>3, <1>4, <2>1 DEF NothingYet
<1>6. Routed /\ Blanks /\ SureOrAhead
  BY <1>3, <1>4 DEF Routed, Blanks, Blank, SureOrAhead, Sure, At
<1>7. WillAgree
  <2>1. stmt.progress = NoProgress
    BY DEF Init, Missing, Uploaded
  <2>2. \A s \in DOMAIN NoProgress : CountOf(s) = 0
    <3>1. SUFFICES ASSUME NEW s \in {"total"} \cup CheckStatus PROVE CountOf(s) = 0
      BY DEF NoProgress, CheckStatus
    <3>2. {c \in CheckIds : IF s = "total" THEN checks[c].status # "none"
                            ELSE checks[c].status = s} = {}
      BY <1>4 DEF Unmade, CheckStatus
    <3> QED
      BY <3>2, FS_EmptySet DEF CountOf
  <2>3. /\ \A s \in DOMAIN NoProgress : NoProgress[s] = 0
        /\ NoProgress = [s \in DOMAIN NoProgress |-> NoProgress[s]]
    BY DEF NoProgress
  <2> QED
    BY <2>1, <2>2, <2>3 DEF WillAgree, Agrees
<1>8. Marking
  BY <1>4 DEF Marking, Unmade
<1> QED
  BY <1>1, <1>3, <1>5, <1>6, <1>7, <1>8 DEF ProgressInv

LEMMA ProgressStep ==
    ASSUME ProgressCalm, ProgressInv, [Next]_vars PROVE ProgressInv'
<1>1. CASE UNCHANGED vars
  <2>1. /\ proc' = proc /\ stmt' = stmt /\ checks' = checks /\ queued' = queued /\ mode' = mode
        /\ Present' = Present
    BY <1>1, CountsSame DEF vars
  <2>2. TypeOK' /\ SeenAll' /\ Homes' /\ Placed'
    BY <1>1 DEF vars, ProgressInv, TypeOK, SeenAll, Homes, Placed, At
  <2>3. NothingYet' /\ Routed' /\ Marking'
    BY <2>1 DEF ProgressInv, NothingYet, Routed, Marking, Marks, Fresh, At
  <2>4. Blanks'
    BY <2>1 DEF ProgressInv, Blanks, Blank, At
  <2>5. (TaskAhead' <=> TaskAhead) /\ (Agrees' <=> Agrees)
    BY <2>1, CountsSame DEF TaskAhead, Agrees
  <2>6. ASSUME NEW p \in Procs
        PROVE  (Handing(p)' <=> Handing(p)) /\ (Recounts(p)' <=> Recounts(p))
               /\ (Sure(p)' <=> Sure(p))
    BY <2>1, CountsSame DEF Handing, Recounts, Sure, Fresh, At
  <2>7. WillAgree'
    BY <2>1, <2>5, <2>6 DEF ProgressInv, WillAgree
  <2>8. SureOrAhead'
    BY <2>5, <2>6 DEF ProgressInv, SureOrAhead, Ahead
  <2> QED
    BY <2>2, <2>3, <2>4, <2>7, <2>8 DEF ProgressInv
<1>2. CASE Next
  <2>1. PICK p \in Procs : Arrive(p) \/ Proceed(p) \/ Fault(p)
    BY <1>2 DEF Next
  <2>2. TypeOK' /\ SeenAll' /\ Homes' /\ Placed'
    BY <2>1, ArriveTyped, ProceedTyped, SeenKept, HomesKept, PlacedKept DEF ProgressInv
  <2>3. NothingYet' /\ Routed' /\ Marking' /\ Blanks'
    BY <2>1, NothingKept, RoutedKept, MarkingKept, BlanksKept DEF ProgressInv
  <2>4. WillAgree' /\ SureOrAhead'
    BY <2>1, WillAgreeKept, SureKept DEF ProgressInv
  <2> QED
    BY <2>2, <2>3, <2>4 DEF ProgressInv
<1> QED
  BY <1>1, <1>2

\* The progress of a statement without an issue is what its checks say, and none of them is
\* left as under way, whenever nothing is left to do: with deliveries and requests one at a
\* time and no process that dies, for every mode, redelivery, failing artifact and retry,
\* and whatever moments the five counts of updateStatementProgressFromChecks see.
THEOREM StatementProgressAgrees == ProgressCalm => (Spec => []ProgressAgrees)
<1> SUFFICES ASSUME ProgressCalm PROVE Spec => []ProgressAgrees
  OBVIOUS
<1>1. Init => ProgressInv
  BY ProgressInit
<1>2. ProgressInv /\ [Next]_vars => ProgressInv'
  BY ProgressStep
<1>3. ProgressInv => ProgressAgrees
  <2> SUFFICES ASSUME ProgressInv, Quiet PROVE
        /\ \A c \in CheckIds : checks[c].status # "processing"
        /\ ~stmt.issues => Agrees
    BY DEF ProgressAgrees, Agrees
  <2>1. \A p \in Procs : proc[p].pc = "idle"
    BY DEF Quiet, At
  <2>2. ~TaskAhead
    <3>1. ASSUME NEW task \in Task, queued[task] > 0 PROVE FALSE
      <4>1. queued[task] = 0
        BY DEF Quiet
      <4> QED
        BY <3>1, <4>1
    <3> QED
      BY <3>1 DEF TaskAhead
  <2>3. \A p \in Procs : ~Recounts(p)
    BY <2>1 DEF Recounts, Handing, At
  <2>4. \A p \in Procs : \A c : ~Marks(p, c) /\ ~At(p, "clear")
    BY <2>1 DEF Marks, At
  <2> QED
    BY <2>2, <2>3, <2>4 DEF ProgressInv, WillAgree, Marking
<1> QED
  BY <1>1, <1>2, <1>3, PTL DEF Spec
=============================================================================
