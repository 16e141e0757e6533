------------------------ MODULE LedgerPosting_proofs ------------------------
(***************************************************************************)
(* Theorems about LedgerPosting, for every set of lines, proposals,         *)
(* workers and handlers and every combination of faults.                    *)
(***************************************************************************)
EXTENDS LedgerPosting, SequenceTheorems, TLAPS

USE DEF rebuildVars

(* The records a worker and a handler hold when they have nothing to do.    *)
LEMMA IdleTypes ==
    /\ NoItem \in Item /\ NoDecision \in Decision
    /\ IdleWorker \in WorkerState /\ IdleRequest \in RequestState
<1>1. (CHOOSE l \in Lines : TRUE) \in Lines /\ (CHOOSE c \in Contents : TRUE) \in Contents
  BY LedgerAssumption
<1>2. NoItem \in Item
  BY <1>1 DEF NoItem, Item
<1>3. NoDecision \in Decision
  BY <1>1 DEF NoDecision, NoItem, Decision, Proposal, ReviewStatus
<1>4. IdleWorker \in WorkerState
  BY <1>2 DEF IdleWorker, WorkerState, WorkerPc, NoTxn
<1>5. IdleRequest \in RequestState
  BY <1>1, <1>3 DEF IdleRequest, RequestState, RequestPc, NoItem
<1> QED BY <1>2, <1>3, <1>4, <1>5

(* Calling QuickBooks n times for one item only appends to its books, and   *)
(* what is appended is that item's transaction.                             *)
LEMMA CreateAppends ==
    ASSUME books \in Seq(QbTxn), NEW item \in Item, NEW kind \in {"typed", "journal"},
           NEW n \in Nat, Create(item, kind, n)
    PROVE  /\ books' \in Seq(QbTxn)
           /\ Len(books') = Len(books) + n
           /\ \A i \in 1..Len(books) : books'[i] = books[i]
           /\ \A i \in (Len(books) + 1)..(Len(books) + n) :
                books'[i] = [line |-> item.line, content |-> item.content, kind |-> kind]
<1> DEFINE txn == [line |-> item.line, content |-> item.content, kind |-> kind]
           new == [i \in 1..n |-> txn]
<1>1. txn \in QbTxn
  BY DEF Item, QbTxn
<1>2. new \in Seq(QbTxn) /\ Len(new) = n
  <2>1. new \in [1..n -> QbTxn]
    BY <1>1
  <2>2. new \in Seq(QbTxn)
    BY <2>1, SeqDef
  <2>3. DOMAIN new = 1..n /\ DOMAIN new = 1..Len(new) /\ Len(new) \in Nat
    BY <2>1, <2>2, LenProperties
  <2> QED BY <2>2, <2>3
<1>3. books' = books \o new
  BY DEF Create
<1>4. Len(books) \in Nat
  BY LenProperties
<1> HIDE DEF new
<1>5. /\ books \o new \in Seq(QbTxn)
      /\ Len(books \o new) = Len(books) + n
      /\ \A i \in 1..Len(books) + n :
           (books \o new)[i] = IF i <= Len(books) THEN books[i] ELSE new[i - Len(books)]
  BY <1>2, ConcatProperties
<1>6. ASSUME NEW i \in (Len(books) + 1)..(Len(books) + n)
      PROVE  books'[i] = txn
  <2>1. i \in 1..Len(books) + n /\ ~(i <= Len(books)) /\ i - Len(books) \in 1..n
    BY <1>4
  <2>2. books'[i] = new[i - Len(books)]
    BY <2>1, <1>3, <1>5
  <2> QED BY <2>1, <2>2 DEF new
<1>7. \A i \in 1..Len(books) : books'[i] = books[i]
  BY <1>3, <1>4, <1>5
<1> QED BY <1>3, <1>5, <1>6, <1>7

(* How many transactions a call may create.                                 *)
LEMMA CreatedTypes == CreatedOnReply \subseteq Nat \ {0} /\ CreatedOnError \subseteq Nat
BY LedgerAssumption DEF CreatedOnReply, CreatedOnError

-----------------------------------------------------------------------------
(* Type correctness.                                                        *)

LEMMA FreshTypes ==
    ASSUME NEW id \in Nat, NEW c \in Contents
    PROVE  FreshEntry(id, c) \in Entry
BY DEF FreshEntry, Entry, Proposal, ReviewStatus, PostingStatus, NoTxn

LEMMA TypeInit == Init => TypeOK
<1> SUFFICES ASSUME Init PROVE TypeOK
  OBVIOUS
<1>1. \A c \in Initial : FreshEntry(1, c) \in Entry
  BY FreshTypes, LedgerAssumption
<1>2. row \in [Lines -> Entry]
  BY <1>1 DEF Init
<1>3. books \in Seq(QbTxn)
  BY EmptySeq DEF Init
<1> QED BY <1>2, <1>3, IdleTypes DEF Init, TypeOK, PushStatus, RebuildPc

(* A handler's first step stores a request of the right shape.              *)
LEMMA StartTypes ==
    ASSUME TypeOK, NEW r \in Requests, NEW pc \in RequestPc, NEW l \in Lines,
           NEW e \in Entry, NEW new \in Decision, Start(r, pc, l, e, new)
    PROVE  request' \in [Requests -> RequestState]
<1>1. DecisionOf(e) \in Decision
  BY DEF DecisionOf, Decision, Entry
<1>2. [pc |-> pc, line |-> l, id |-> e.id, loaded |-> DecisionOf(e), new |-> new]
        \in RequestState
  BY <1>1 DEF RequestState, Entry
<1> QED BY <1>2 DEF Start, TypeOK

LEMMA ProceedTypes ==
    ASSUME TypeOK, NEW r \in Requests, NEW pc \in RequestPc,
           Proceed(r, pc) \/ EndRequest(r)
    PROVE  request' \in [Requests -> RequestState]
<1>1. request \in [Requests -> RequestState]
  BY DEF TypeOK
<1>2. CASE Proceed(r, pc)
  <2>1. [request[r] EXCEPT !.pc = pc] \in RequestState
    BY <1>1 DEF RequestState
  <2> HIDE DEF RequestState, RequestPc
  <2> QED BY <1>1, <1>2, <2>1 DEF Proceed
<1>3. CASE EndRequest(r)
  <2> HIDE DEF RequestState, RequestPc
  <2> QED BY <1>1, <1>3, IdleTypes DEF EndRequest
<1> QED BY <1>2, <1>3

(* Writing a decision to a document keeps its shape.                        *)
LEMMA DecisionTypes ==
    ASSUME NEW e \in Entry, NEW loaded \in Decision, NEW new \in Decision
    PROVE  Saved(e, loaded, new) \in Entry /\ Overwritten(e, new) \in Entry
BY DEF Saved, Overwritten, SaveField, Entry, Decision

(* Writing a posting result to a document keeps its shape.                  *)
LEMMA PostingTypes ==
    ASSUME TypeOK, NEW item \in Item, NEW posting \in PostingStatus, NEW qb \in Nat
    PROVE  /\ WriteRow(item, posting, qb) => row' \in [Lines -> Entry]
           /\ WriteMirror(item, posting, qb) => mirror' \in [Lines -> Entry]
<1>1. item.line \in Lines
  BY DEF Item
<1>2. ASSUME NEW f \in [Lines -> Entry]
      PROVE  [f EXCEPT ![item.line].posting = posting, ![item.line].qb = qb]
               \in [Lines -> Entry]
  BY <1>1, <1>2 DEF Entry
<1> QED BY <1>2 DEF TypeOK, WriteRow, WriteMirror

LEMMA TypeReview == TypeOK /\ ReviewStep => TypeOK'
<1> SUFFICES ASSUME TypeOK, ReviewStep PROVE TypeOK'
  OBVIOUS
<1> USE DEF ReviewOnly, postVars
<1>a. \A l \in Lines : row[l] \in Entry /\ mirror[l] \in Entry
  BY DEF TypeOK
<1>b. \A q \in Requests : request[q] \in RequestState
  BY DEF TypeOK
<1>c. \A c \in Matched : c \in Contents
  BY LedgerAssumption
<1>1. ASSUME NEW r \in Requests, NEW l \in Lines, UpdateLedgerEntry(r, l)
      PROVE  TypeOK'
  <2>1. PICK c \in Contents, s \in ReviewStatus :
          Start(r, "loaded", l, row[l],
                [review |-> s, proposal |-> [content |-> c, status |-> s]])
    BY <1>1 DEF UpdateLedgerEntry
  <2>2. [review |-> s, proposal |-> [content |-> c, status |-> s]] \in Decision
    BY DEF Decision, Proposal
  <2>3. request' \in [Requests -> RequestState]
    BY <2>1, <2>2, <1>a, StartTypes DEF RequestPc
  <2> QED BY <1>1, <2>3 DEF UpdateLedgerEntry, TypeOK
<1>2. ASSUME NEW r \in Requests, NEW l \in Lines, NEW s \in ReviewStatus, Decide(r, l, s)
      PROVE  TypeOK'
  <2>1. [review |-> s, proposal |-> [row[l].proposal EXCEPT !.status = s]] \in Decision
    BY <1>a DEF Decision, Entry, Proposal
  <2>2. request' \in [Requests -> RequestState]
    BY <1>2, <2>1, <1>a, StartTypes DEF RequestPc, Decide
  <2> QED BY <1>2, <2>2 DEF Decide, TypeOK
<1>3. ASSUME NEW r \in Requests, NEW l \in Lines, BulkApproveLedgerEntry(r, l)
      PROVE  TypeOK'
  <2> DEFINE new == [review |-> "approved",
                     proposal |-> [row[l].proposal EXCEPT !.status = "approved"]]
  <2>0. new \in Decision
    BY <1>a DEF Decision, Entry, Proposal, ReviewStatus
  <2> HIDE DEF new
  <2>1. row' \in [Lines -> Entry]
    BY <1>3, <1>a, <2>0, DecisionTypes DEF BulkApproveLedgerEntry, TypeOK, new
  <2>2. approvals' \subseteq Lines \X Contents
    BY <1>3, <1>a DEF BulkApproveLedgerEntry, TypeOK, Entry, Proposal
  <2> QED BY <1>3, <2>1, <2>2 DEF BulkApproveLedgerEntry, TypeOK
<1>4. ASSUME NEW r \in Requests, NEW l \in Lines, StartMatch(r, l)
      PROVE  TypeOK'
  <2>1. PICK c \in Matched :
          Start(r, "matchBoth", l, mirror[l],
                [review |-> "proposed",
                 proposal |-> [content |-> c, status |-> "proposed"]])
    BY <1>4 DEF StartMatch
  <2>2. [review |-> "proposed", proposal |-> [content |-> c, status |-> "proposed"]]
          \in Decision
    BY <1>c DEF Decision, Proposal, ReviewStatus
  <2>3. request' \in [Requests -> RequestState]
    BY <2>1, <2>2, <1>a, StartTypes DEF RequestPc
  <2> QED BY <1>4, <2>3 DEF StartMatch, TypeOK
<1>5. ASSUME NEW r \in Requests, NEW l \in Lines, StartRefresh(r, l)
      PROVE  TypeOK'
  <2>1. PICK c \in Matched :
          Start(r, "refreshMirror", l, mirror[l],
                [review |-> mirror[l].review,
                 proposal |-> [content |-> c, status |-> "proposed"]])
    BY <1>5 DEF StartRefresh
  <2>2. [review |-> mirror[l].review,
         proposal |-> [content |-> c, status |-> "proposed"]] \in Decision
    BY <1>a, <1>c DEF Decision, Proposal, ReviewStatus, Entry
  <2>3. request' \in [Requests -> RequestState]
    BY <2>1, <2>2, <1>a, StartTypes DEF RequestPc
  <2> QED BY <1>5, <2>3 DEF StartRefresh, TypeOK
<1>6. ASSUME NEW r \in Requests
      PROVE  /\ request[r].line \in Lines
             /\ request[r].loaded \in Decision /\ request[r].new \in Decision
             /\ request[r].new.proposal \in Proposal
             /\ request[r].new.proposal.content \in Contents
  BY <1>b DEF RequestState, Decision, Proposal
<1>7. ASSUME NEW r \in Requests, SaveLedgerEntry(r)
      PROVE  TypeOK'
  <2>1. Proceed(r, "saved") \/ EndRequest(r)
    BY <1>7 DEF SaveLedgerEntry
  <2>2. request' \in [Requests -> RequestState]
    BY <2>1, ProceedTypes DEF RequestPc
  <2>3. Saved(row[request[r].line], request[r].loaded, request[r].new) \in Entry
    BY <1>6, <1>a, DecisionTypes
  <2>4. row' \in [Lines -> Entry]
    BY <1>7, <2>3 DEF SaveLedgerEntry, TypeOK
  <2>5. approvals' \subseteq Lines \X Contents
    BY <1>7, <1>6 DEF SaveLedgerEntry, TypeOK
  <2> QED BY <1>7, <2>2, <2>4, <2>5 DEF SaveLedgerEntry, TypeOK
<1>8. ASSUME NEW r \in Requests,
             \/ MirrorDecision(r) \/ MatchRow(r) \/ MatchMirror(r)
             \/ RefreshMirror(r) \/ RefreshRow(r) \/ AbandonRequest(r)
      PROVE  TypeOK'
  <2>1. \E pc \in RequestPc : Proceed(r, pc) \/ EndRequest(r)
    BY <1>8 DEF MirrorDecision, MatchRow, MatchMirror, RefreshMirror, RefreshRow,
                AbandonRequest, ProceedOrEnd, RequestPc
  <2>2. request' \in [Requests -> RequestState]
    BY <2>1, ProceedTypes
  <2> DEFINE l == request[r].line  new == request[r].new
  <2>3. /\ Overwritten(row[l], new) \in Entry /\ Overwritten(mirror[l], new) \in Entry
        /\ Saved(mirror[l], request[r].loaded, new) \in Entry
        /\ [row[l] EXCEPT !.proposal = new.proposal] \in Entry
    <3>1. row[l] \in Entry /\ mirror[l] \in Entry
      BY <1>a, <1>6
    <3>2. [row[l] EXCEPT !.proposal = new.proposal] \in Entry
      BY <3>1, <1>6 DEF Entry
    <3> QED BY <3>1, <3>2, <1>6, DecisionTypes
  <2> HIDE DEF l, new
  <2>4. row' \in [Lines -> Entry]
    BY <1>8, <2>3, <1>6 DEF MirrorDecision, MatchRow, MatchMirror, RefreshMirror,
                RefreshRow, AbandonRequest, TypeOK, l, new
  <2>5. mirror' \in [Lines -> Entry]
    BY <1>8, <2>3, <1>6 DEF MirrorDecision, MatchRow, MatchMirror, RefreshMirror,
                RefreshRow, AbandonRequest, TypeOK, l, new
  <2> QED BY <1>8, <2>2, <2>4, <2>5 DEF MirrorDecision, MatchRow, MatchMirror,
                RefreshMirror, RefreshRow, AbandonRequest, TypeOK
<1> QED BY <1>1, <1>2, <1>3, <1>4, <1>5, <1>7, <1>8
        DEF ReviewStep, ApproveLedgerEntry, ExcludeLedgerEntry, ReviewStatus
LEMMA TypePost == TypeOK /\ PostStep => TypeOK'
<1> SUFFICES ASSUME TypeOK, PostStep PROVE TypeOK'
  OBVIOUS
<1> USE DEF PostOnly, reviewVars
<1>a. \A w \in Workers : worker[w] \in WorkerState
  BY DEF TypeOK
<1>b. \A l \in Lines : row[l] \in Entry
  BY DEF TypeOK
<1>c. Len(books) \in Nat
  BY LenProperties DEF TypeOK
<1>1. CASE MarkQuickBooksSyncRunning
  BY <1>1 DEF MarkQuickBooksSyncRunning, TypeOK, PushStatus
<1>2. ASSUME NEW w \in Workers, StartPosting(w) PROVE TypeOK'
  <2> DEFINE todo == {ItemOf(l) : l \in {k \in Lines : Postable(k)}}
  <2>1. todo \subseteq Item
    BY <1>b DEF ItemOf, Item, Entry, Proposal
  <2> HIDE DEF todo
  <2>2. [worker[w] EXCEPT !.pc = "next", !.todo = todo, !.took = todo, !.failed = FALSE]
          \in WorkerState
    BY <1>a, <2>1 DEF WorkerState, WorkerPc
  <2> QED BY <1>2, <2>2 DEF StartPosting, Advance, TypeOK, todo
<1>3. ASSUME NEW w \in Workers, NEW item \in worker[w].todo,
             NEW state \in WorkerState, Take(w, item, state)
      PROVE  /\ worker' \in [Workers -> WorkerState]
             /\ item \in Item
  <2>1. item \in Item
    BY <1>a DEF WorkerState
  <2>2. [state EXCEPT !.todo = @ \ {item}, !.cur = item] \in WorkerState
    BY <2>1 DEF WorkerState
  <2> QED BY <1>3, <2>1, <2>2 DEF Take, Advance, TypeOK
<1>4. ASSUME NEW w \in Workers, NEW pc \in WorkerPc, NEW kind \in {"typed", "journal"},
             NEW txn \in Nat
      PROVE  /\ [worker[w] EXCEPT !.pc = pc] \in WorkerState
             /\ [worker[w] EXCEPT !.pc = pc, !.failed = TRUE] \in WorkerState
             /\ [worker[w] EXCEPT !.pc = pc, !.kind = kind, !.txn = txn] \in WorkerState
  BY <1>a DEF WorkerState
<1>5. ASSUME NEW w \in Workers, NEW item \in worker[w].todo,
             RejectUntyped(w, item) \/ RejectIncomplete(w, item)
      PROVE  TypeOK'
  BY <1>3, <1>4, <1>5 DEF RejectUntyped, RejectIncomplete, TypeOK, WorkerPc
<1>6. ASSUME NEW w \in Workers, NEW item \in worker[w].todo, PostTyped(w, item)
      PROVE  TypeOK'
  <2>1. item \in Item
    BY <1>a DEF WorkerState
  <2>2. PICK n \in Nat :
          /\ Create(item, "typed", n)
          /\ \/ Take(w, item, [worker[w] EXCEPT !.pc = "record", !.kind = "typed",
                                                !.txn = Len(books) + n])
             \/ Take(w, item, [worker[w] EXCEPT !.pc = "journal"])
    BY <1>6, CreatedTypes DEF PostTyped
  <2>3. books' \in Seq(QbTxn)
    BY <2>1, <2>2, CreateAppends DEF TypeOK
  <2>4. Len(books) + n \in Nat
    BY <1>c
  <2>5. worker' \in [Workers -> WorkerState]
    BY <2>2, <2>4, <1>3, <1>4 DEF WorkerPc
  <2> QED BY <1>6, <2>3, <2>5 DEF PostTyped, TypeOK
<1>7. ASSUME NEW w \in Workers, PostJournal(w)
      PROVE  TypeOK'
  <2>1. worker[w].cur \in Item
    BY <1>a DEF WorkerState
  <2>2. PICK n \in Nat :
          /\ Create(worker[w].cur, "journal", n)
          /\ \/ Advance(w, [worker[w] EXCEPT !.pc = "record", !.kind = "journal",
                                             !.txn = Len(books) + n])
             \/ Advance(w, [worker[w] EXCEPT !.pc = "fail", !.failed = TRUE])
    BY <1>7, CreatedTypes DEF PostJournal
  <2>3. books' \in Seq(QbTxn)
    BY <2>1, <2>2, CreateAppends DEF TypeOK
  <2>4. Len(books) + n \in Nat
    BY <1>c
  <2>5. \E state \in WorkerState : Advance(w, state)
    <3>1. /\ [worker[w] EXCEPT !.pc = "record", !.kind = "journal", !.txn = Len(books) + n]
               \in WorkerState
          /\ [worker[w] EXCEPT !.pc = "fail", !.failed = TRUE] \in WorkerState
      BY <2>4, <1>4 DEF WorkerPc
    <3> QED BY <2>2, <3>1
  <2>6. worker' \in [Workers -> WorkerState]
    BY <2>5 DEF Advance, TypeOK
  <2> QED BY <1>7, <2>3, <2>6 DEF PostJournal, TypeOK
<1>8. ASSUME NEW w \in Workers,
             \/ RecordRow(w) \/ RecordMirror(w) \/ RecordError(w) \/ FailRow(w)
             \/ FailMirror(w) \/ FinishPosting(w) \/ AbortPosting(w) \/ CrashPosting(w)
      PROVE  TypeOK'
  <2>1. /\ worker[w].cur \in Item /\ worker[w].txn \in Nat
        /\ row[worker[w].cur.line].qb \in Nat
    BY <1>a, <1>b DEF WorkerState, Item, Entry
  <2>2. \E state \in WorkerState : Advance(w, state)
    BY <1>8, <1>4, IdleTypes DEF RecordRow, RecordMirror, RecordError, FailRow, FailMirror,
       FinishPosting, AbortPosting, CrashPosting, WorkerPc
  <2>3. worker' \in [Workers -> WorkerState]
    BY <2>2 DEF Advance, TypeOK
  <2>4. row' \in [Lines -> Entry]
    BY <1>8, <2>1, PostingTypes DEF RecordRow, RecordMirror, RecordError, FailRow,
       FailMirror, FinishPosting, AbortPosting, CrashPosting, PostingStatus, TypeOK
  <2>5. mirror' \in [Lines -> Entry]
    BY <1>8, <2>1, PostingTypes DEF RecordRow, RecordMirror, RecordError, FailRow,
       FailMirror, FinishPosting, AbortPosting, CrashPosting, PostingStatus, TypeOK, NoTxn
  <2>6. push' \in PushStatus
    BY <1>8 DEF RecordRow, RecordMirror, RecordError, FailRow,
       FailMirror, FinishPosting, AbortPosting, CrashPosting, TypeOK, PushStatus
  <2> QED BY <1>8, <2>3, <2>4, <2>5, <2>6 DEF RecordRow, RecordMirror, RecordError,
       FailRow, FailMirror, FinishPosting, AbortPosting, CrashPosting, TypeOK
<1> QED BY <1>1, <1>2, <1>5, <1>6, <1>7, <1>8 DEF PostStep

LEMMA TypeRebuild == TypeOK /\ RebuildStep => TypeOK'
<1> SUFFICES ASSUME TypeOK, RebuildStep PROVE TypeOK'
  OBVIOUS
<1> USE DEF RebuildOnly, postVars, reviewVars
<1> DEFINE Rebuild == [pc : RebuildPc, todo : SUBSET Lines, cur : Item]
<1>1. rebuild \in Rebuild /\ NoItem \in Item
  BY IdleTypes DEF TypeOK
<1>2. CASE StartRebuild \/ FinishDeletes \/ FailRebuild
  <2>1. CASE StartRebuild
    <3>1. rebuild' = [rebuild EXCEPT !.pc = "delete", !.todo = Lines]
      BY <2>1 DEF StartRebuild
    <3>2. rebuild' \in Rebuild
      BY <1>1, <3>1 DEF RebuildPc
    <3> QED BY <2>1, <3>2 DEF StartRebuild, TypeOK
  <2>2. CASE FinishDeletes
    <3>1. rebuild' \in Rebuild
      BY <1>1, <2>2 DEF FinishDeletes, RebuildPc
    <3> QED BY <2>2, <3>1 DEF FinishDeletes, TypeOK
  <2>3. CASE FailRebuild
    <3>1. rebuild' \in Rebuild
      BY <1>1, <2>3 DEF FailRebuild, RebuildPc
    <3> QED BY <2>3, <3>1 DEF FailRebuild, TypeOK
  <2> QED BY <1>2, <2>1, <2>2, <2>3
<1>3. ASSUME NEW l \in Lines, DeleteEntry(l) \/ DeleteTransaction(l) PROVE TypeOK'
  BY <1>3 DEF DeleteEntry, DeleteTransaction, TypeOK
<1>4. ASSUME NEW l \in Lines, CreateTransaction(l) PROVE TypeOK'
  <2>1. PICK c \in Matched :
          /\ mirror' = [mirror EXCEPT ![l] = FreshEntry(@.id + 1, c)]
          /\ rebuild' = [rebuild EXCEPT !.pc = "entry",
                           !.cur = [line |-> l, id |-> mirror[l].id + 1, content |-> c]]
    BY <1>4 DEF CreateTransaction
  <2>2. c \in Contents /\ mirror[l].id + 1 \in Nat
    BY LedgerAssumption DEF TypeOK, Entry
  <2>3. FreshEntry(mirror[l].id + 1, c) \in Entry
    BY <2>2, FreshTypes
  <2>4. mirror' \in [Lines -> Entry]
    BY <2>1, <2>3 DEF TypeOK
  <2>5. [line |-> l, id |-> mirror[l].id + 1, content |-> c] \in Item
    BY <2>2 DEF Item
  <2>6. rebuild' \in Rebuild
    BY <1>1, <2>1, <2>5 DEF RebuildPc
  <2> QED BY <1>4, <2>4, <2>6 DEF CreateTransaction, TypeOK
<1>5. CASE CreateEntry
  <2> DEFINE item == rebuild.cur
  <2>1. item.line \in Lines /\ item.id \in Nat /\ item.content \in Contents
    BY <1>1 DEF Item
  <2>2. FreshEntry(item.id, item.content) \in Entry
    BY <2>1, FreshTypes
  <2>3. row' \in [Lines -> Entry]
    BY <1>5, <2>2 DEF CreateEntry, TypeOK
  <2>4. rebuild' \in Rebuild
    BY <1>1, <1>5 DEF CreateEntry, RebuildPc
  <2> QED BY <1>5, <2>1, <2>3, <2>4 DEF CreateEntry, TypeOK
<1> QED BY <1>2, <1>3, <1>4, <1>5 DEF RebuildStep

LEMMA TypeStep == TypeOK /\ [Next]_vars => TypeOK'
<1>1. TypeOK /\ UNCHANGED vars => TypeOK'
  BY DEF vars, postVars, reviewVars, TypeOK
<1> QED BY <1>1, TypeReview, TypePost, TypeRebuild DEF Next

(* Type correctness: whatever faults occur, every document, job and handler *)
(* keeps the shape its schema gives it.                                     *)
THEOREM LedgerTypes == Spec => []TypeOK
BY TypeInit, TypeStep, PTL DEF Spec

-----------------------------------------------------------------------------
(* What holds in spite of faults, concurrent deliveries and rebuilds.       *)

(* A worker about to record a transaction holds one that is the line's.     *)
WorkersBacked ==
    \A w \in Workers : worker[w].pc \in {"record", "recordMirror"} =>
        BackedBy(worker[w].cur.line, worker[w].txn)

(* A worker that goes on to the mirror has written the row, or the row is   *)
(* gone; ids only grow, so it cannot be taken for the row rebuilt since.    *)
MirrorPending ==
    \A w \in Workers : worker[w].pc = "recordMirror" =>
        LET item == worker[w].cur IN
        Finds(item.line, item.id) => row[item.line].qb # NoTxn
IdsKnown ==
    \A w \in Workers : \A item \in worker[w].todo \cup {worker[w].cur} :
        item.id <= row[item.line].id

(* The documents of a line that has both are of one id; a transaction       *)
(* created without its entry is newer than every entry there was.           *)
Paired ==
    \A l \in Lines :
        /\ 1 <= row[l].id /\ row[l].id <= mirror[l].id
        /\ l \in live /\ l \in mirrored => row[l].id = mirror[l].id
        /\ l \in mirrored /\ l \notin live =>
             rebuild.pc = "delete" \/ row[l].id < mirror[l].id
(* What the create loop still has to do is not there, but for a transaction *)
(* whose entry comes next.                                                  *)
RebuildPending ==
    /\ rebuild.pc = "create" => rebuild.todo \cap (live \cup mirrored) = {}
    /\ rebuild.pc = "entry" =>
         /\ rebuild.cur.line \in rebuild.todo
         /\ rebuild.todo \cap live = {} /\ rebuild.todo \cap mirrored = {rebuild.cur.line}
         /\ rebuild.cur.id = mirror[rebuild.cur.line].id
         /\ row[rebuild.cur.line].id < rebuild.cur.id
    /\ MaxRebuilds = 0 => rebuild.pc = "done"
RebuildInv == Paired /\ RebuildPending

PostingInv ==
    /\ TypeOK /\ PostedIsBacked /\ MirrorFollowsRow
    /\ WorkersBacked /\ MirrorPending /\ IdsKnown /\ RebuildInv

(* What holds when deliveries are serialised and nothing fails.             *)
Serial ==
    /\ Faults = {} /\ MaxRebuilds = 0
    /\ \A v, w \in Workers : v = w

Booked(l) == \E i \in 1..Len(books) : books[i].line = l
Busy == {"journal", "record", "recordMirror", "fail", "failMirror"}

(* Every transaction is recorded on its row or about to be.                 *)
BookedIsRecorded ==
    \A l \in Lines : Booked(l) =>
        \/ row[l].qb # NoTxn
        \/ \E w \in Workers : worker[w].pc = "record" /\ worker[w].cur.line = l
(* What a delivery still has to post is not in QuickBooks.                  *)
Unbooked(state) ==
    /\ \A item \in state.todo : item.id = 1 /\ ~Booked(item.line)
    /\ \A i, j \in state.todo : i.line = j.line => i = j
    /\ state.pc \in Busy =>
         /\ state.cur.id = 1
         /\ \A item \in state.todo : item.line # state.cur.line
    /\ state.pc \in {"journal", "fail", "failMirror"} => ~Booked(state.cur.line)
PendingIsUnbooked == \A w \in Workers : Unbooked(worker[w])
NeverRebuilt ==
    live = Lines /\ rebuild.pc = "done" /\ \A l \in Lines : row[l].id = 1

SerialInv == AtMostOnce /\ BookedIsRecorded /\ PendingIsUnbooked /\ NeverRebuilt

-----------------------------------------------------------------------------
(* Frames: what each kind of step leaves alone.                             *)

(* Reviewing, matching and refreshing never touch an id or a posting.       *)
LEMMA ReviewFrame ==
    ASSUME TypeOK, ReviewStep
    PROVE  /\ UNCHANGED <<live, mirrored, rebuild, postVars>>
           /\ \A l \in Lines :
                /\ row'[l].id = row[l].id /\ row'[l].posting = row[l].posting
                /\ row'[l].qb = row[l].qb
                /\ mirror'[l].id = mirror[l].id
                /\ mirror'[l].posting = mirror[l].posting
                /\ mirror'[l].qb = mirror[l].qb
<1> DEFINE Kept(e, f) == f.id = e.id /\ f.posting = e.posting /\ f.qb = e.qb
<1>1. \A e \in Entry, d, n \in Decision :
        Kept(e, Saved(e, d, n)) /\ Kept(e, Overwritten(e, n))
  BY DEF Entry, Saved, Overwritten
<1>2. \A e \in Entry, p \in Proposal : Kept(e, [e EXCEPT !.proposal = p])
  BY DEF Entry
<1>a. \A l \in Lines : row[l] \in Entry /\ mirror[l] \in Entry
  BY DEF TypeOK
<1>b. \A r \in Requests :
        /\ request[r].line \in Lines
        /\ request[r].loaded \in Decision /\ request[r].new \in Decision
        /\ request[r].new.proposal \in Proposal
  BY DEF TypeOK, RequestState, Decision
<1>c. \A l \in Lines : [review |-> "approved",
           proposal |-> [row[l].proposal EXCEPT !.status = "approved"]] \in Decision
  BY <1>a DEF Decision, Entry, Proposal, ReviewStatus
<1> HIDE DEF Kept
<1>3. /\ UNCHANGED <<live, mirrored, rebuild, postVars>>
      /\ \A l \in Lines : row'[l] = row[l] \/ Kept(row[l], row'[l])
      /\ \A l \in Lines : mirror'[l] = mirror[l] \/ Kept(mirror[l], mirror'[l])
  <2> DEFINE Goal == /\ UNCHANGED <<live, mirrored, rebuild, postVars>>
                     /\ \A l \in Lines : row'[l] = row[l] \/ Kept(row[l], row'[l])
                     /\ \A l \in Lines : mirror'[l] = mirror[l] \/ Kept(mirror[l], mirror'[l])
  <2>1. ASSUME NEW r \in Requests, NEW l \in Lines,
               \/ UpdateLedgerEntry(r, l) \/ ApproveLedgerEntry(r, l)
               \/ ExcludeLedgerEntry(r, l) \/ StartMatch(r, l) \/ StartRefresh(r, l)
        PROVE  Goal
    BY <2>1 DEF UpdateLedgerEntry, ApproveLedgerEntry, ExcludeLedgerEntry, StartMatch,
                StartRefresh, Decide, ReviewOnly
  <2>2. ASSUME NEW r \in Requests, NEW l \in Lines, BulkApproveLedgerEntry(r, l)
        PROVE  Goal
    BY <2>2, <1>1, <1>a, <1>c DEF BulkApproveLedgerEntry, ReviewOnly, TypeOK
  <2>3. ASSUME NEW r \in Requests,
               \/ SaveLedgerEntry(r) \/ MirrorDecision(r) \/ MatchRow(r)
               \/ MatchMirror(r) \/ RefreshMirror(r) \/ AbandonRequest(r)
        PROVE  Goal
    BY <2>3, <1>1, <1>a, <1>b DEF SaveLedgerEntry, MirrorDecision, MatchRow,
       MatchMirror, RefreshMirror, AbandonRequest, ReviewOnly, TypeOK
  <2>4. ASSUME NEW r \in Requests, RefreshRow(r)
        PROVE  Goal
    BY <2>4, <1>2, <1>a, <1>b DEF RefreshRow, ReviewOnly, TypeOK
  <2> QED BY <2>1, <2>2, <2>3, <2>4 DEF ReviewStep
<1> QED BY <1>3, <1>a DEF Kept

(* The rebuild gives every line it touches documents nobody has seen, and   *)
(* a line that has both got the second one last.                            *)
LEMMA RebuildFrame ==
    ASSUME TypeOK, RebuildInv, RebuildStep
    PROVE  /\ UNCHANGED <<postVars, reviewVars>>
           /\ \A l \in Lines :
                \/ row'[l] = row[l] /\ (l \in live' => l \in live)
                \/ /\ CreateEntry /\ l = rebuild.cur.line
                   /\ row'[l] = FreshEntry(rebuild.cur.id, rebuild.cur.content)
                   /\ row[l].id < row'[l].id /\ row'[l].id = mirror[l].id
                   /\ mirror' = mirror /\ l \in mirrored /\ l \notin live
           /\ \A l \in Lines :
                \/ mirror'[l] = mirror[l] /\ (l \in mirrored' => l \in mirrored)
                \/ /\ CreateTransaction(l) /\ row' = row /\ live' = live
                   /\ \E c \in Matched : mirror'[l] = FreshEntry(mirror[l].id + 1, c)
                   /\ mirror'[l].id = mirror[l].id + 1
                   /\ mirror'[l].posting = "not_posted" /\ mirror'[l].qb = NoTxn
                   /\ l \notin live /\ l \notin mirrored
<1> USE DEF RebuildOnly
<1>1. CASE StartRebuild \/ FinishDeletes \/ FailRebuild
  BY <1>1 DEF StartRebuild, FinishDeletes, FailRebuild
<1>2. ASSUME NEW l \in Lines, DeleteEntry(l) \/ DeleteTransaction(l)
      PROVE  /\ UNCHANGED <<postVars, reviewVars, row, mirror>>
             /\ live' \subseteq live /\ mirrored' \subseteq mirrored
  BY <1>2 DEF DeleteEntry, DeleteTransaction
<1>3. CASE CreateEntry
  <2>1. rebuild.cur.line \in Lines /\ rebuild.cur.id \in Nat
    BY DEF TypeOK, Item
  <2>2. /\ row[rebuild.cur.line].id < rebuild.cur.id
        /\ rebuild.cur.id = mirror[rebuild.cur.line].id
        /\ rebuild.cur.line \in mirrored /\ rebuild.cur.line \notin live
    BY <1>3 DEF CreateEntry, RebuildInv, RebuildPending
  <2>3. /\ UNCHANGED <<postVars, reviewVars, mirror, mirrored>>
        /\ live' = live \cup {rebuild.cur.line}
        /\ row' = [row EXCEPT ![rebuild.cur.line]
                     = FreshEntry(rebuild.cur.id, rebuild.cur.content)]
    BY <1>3 DEF CreateEntry
  <2>4. FreshEntry(rebuild.cur.id, rebuild.cur.content).id = rebuild.cur.id
    BY DEF FreshEntry
  <2> QED BY <1>3, <2>1, <2>2, <2>3, <2>4 DEF TypeOK
<1>4. ASSUME NEW l \in Lines, CreateTransaction(l)
      PROVE  /\ UNCHANGED <<postVars, reviewVars, row, live>>
             /\ \A k \in Lines \ {l} : mirror'[k] = mirror[k] /\ (k \in mirrored' => k \in mirrored)
             /\ \E c \in Matched : mirror'[l] = FreshEntry(mirror[l].id + 1, c)
             /\ mirror'[l].id = mirror[l].id + 1
             /\ mirror'[l].posting = "not_posted" /\ mirror'[l].qb = NoTxn
             /\ l \notin live /\ l \notin mirrored
  <2>1. PICK c \in Matched : mirror' = [mirror EXCEPT ![l] = FreshEntry(@.id + 1, c)]
    BY <1>4 DEF CreateTransaction
  <2>2. mirror'[l] = FreshEntry(mirror[l].id + 1, c) /\ \A k \in Lines \ {l} : mirror'[k] = mirror[k]
    BY <2>1 DEF TypeOK
  <2>3. mirror'[l].id = mirror[l].id + 1
    BY <2>2 DEF FreshEntry
  <2>4. l \notin live /\ l \notin mirrored
    BY <1>4 DEF CreateTransaction, RebuildInv, RebuildPending
  <2>5. mirror'[l].posting = "not_posted" /\ mirror'[l].qb = NoTxn
    BY <2>2 DEF FreshEntry
  <2> QED BY <1>4, <2>2, <2>3, <2>4, <2>5 DEF CreateTransaction
<1> QED
  BY <1>1, <1>2, <1>3, <1>4, Zenon DEF RebuildStep

(* Neither a review step nor a delivery disturbs the rebuild.               *)
LEMMA RebuildKept ==
    ASSUME RebuildInv, UNCHANGED rebuildVars, TypeOK,
           \A l \in Lines : row'[l].id = row[l].id /\ mirror'[l].id = mirror[l].id
    PROVE  RebuildInv'
<1>1. rebuild.cur.line \in Lines
  BY DEF TypeOK, Item
<1> QED BY <1>1 DEF RebuildInv, Paired, RebuildPending

LEMMA RebuildInvStep ==
    ASSUME TypeOK, RebuildInv, RebuildStep
    PROVE  RebuildInv'
<1> USE DEF RebuildOnly
<1>a. \A l \in Lines : row[l].id \in Nat /\ mirror[l].id \in Nat
  BY DEF TypeOK, Entry
<1>b. /\ rebuild.pc \in RebuildPc /\ rebuild.todo \subseteq Lines /\ rebuild.cur.line \in Lines
      /\ DOMAIN rebuild = {"pc", "todo", "cur"}
  BY DEF TypeOK, Item
<1>1. CASE StartRebuild
  <2>1. /\ UNCHANGED <<live, mirrored, row, mirror>> /\ rebuild'.pc = "delete"
        /\ \A l \in Lines : mirror[l].id <= MaxRebuilds
    BY <1>1, <1>b DEF StartRebuild, TypeOK
  <2>2. MaxRebuilds # 0
    <3>1. PICK l \in Lines : TRUE
      BY LedgerAssumption
    <3> QED BY <2>1, <1>a, LedgerAssumption DEF RebuildInv, Paired
  <2> QED BY <2>1, <2>2 DEF RebuildInv, Paired, RebuildPending
<1>2. CASE FinishDeletes
  <2>1. /\ UNCHANGED <<live, mirrored, row, mirror>> /\ rebuild'.pc = "create"
        /\ live = {} /\ mirrored = {} /\ rebuild.pc = "delete"
    BY <1>2, <1>b DEF FinishDeletes, TypeOK
  <2> QED BY <2>1 DEF RebuildInv, Paired, RebuildPending
<1>3. CASE FailRebuild
  <2>1. /\ UNCHANGED <<live, mirrored, row, mirror>> /\ rebuild'.pc = "stopped"
        /\ rebuild.pc \in {"create", "entry"}
    BY <1>3 DEF FailRebuild
  <2> QED BY <2>1 DEF RebuildInv, Paired, RebuildPending
<1>4. ASSUME NEW l \in Lines, DeleteEntry(l) \/ DeleteTransaction(l)
      PROVE  RebuildInv'
  BY <1>4 DEF DeleteEntry, DeleteTransaction, RebuildInv, Paired, RebuildPending
<1>5. ASSUME NEW l \in Lines, CreateTransaction(l)
      PROVE  RebuildInv'
  <2>1. /\ rebuild.pc = "create" /\ l \in rebuild.todo
        /\ rebuild'.pc = "entry" /\ rebuild'.todo = rebuild.todo
        /\ rebuild'.cur.line = l /\ rebuild'.cur.id = mirror[l].id + 1
        /\ mirrored' = mirrored \cup {l} /\ live' = live /\ row' = row
    BY <1>5, <1>b DEF CreateTransaction, TypeOK
  <2>2. mirror'[l].id = mirror[l].id + 1 /\ \A k \in Lines \ {l} : mirror'[k] = mirror[k]
    BY <1>5 DEF CreateTransaction, FreshEntry, TypeOK
  <2>3. rebuild.todo \cap (live \cup mirrored) = {} /\ MaxRebuilds # 0
    BY <2>1 DEF RebuildInv, RebuildPending
  <2>4. Paired'
    BY <2>1, <2>2, <2>3, <1>a DEF RebuildInv, Paired
  <2>5. RebuildPending'
    BY <2>1, <2>2, <2>3, <1>a DEF RebuildInv, Paired, RebuildPending
  <2> QED BY <2>4, <2>5 DEF RebuildInv
<1>6. CASE CreateEntry
  <2> DEFINE l == rebuild.cur.line
  <2>1. /\ rebuild.pc = "entry" /\ live' = live \cup {l}
        /\ UNCHANGED <<mirrored, mirror>>
        /\ rebuild'.pc \in {"done", "create"} /\ rebuild'.todo = rebuild.todo \ {l}
        /\ row' = [row EXCEPT ![l] = FreshEntry(rebuild.cur.id, rebuild.cur.content)]
    BY <1>6 DEF CreateEntry
  <2>2. row'[l].id = rebuild.cur.id /\ \A k \in Lines \ {l} : row'[k] = row[k]
    BY <2>1, <1>b DEF FreshEntry, TypeOK
  <2>3. /\ rebuild.todo \cap live = {} /\ rebuild.todo \cap mirrored = {l}
        /\ rebuild.cur.id = mirror[l].id /\ MaxRebuilds # 0
    BY <2>1 DEF RebuildInv, RebuildPending
  <2> HIDE DEF l
  <2>4. Paired'
    BY <2>1, <2>2, <2>3, <1>a DEF RebuildInv, Paired
  <2>5. RebuildPending'
    BY <2>1, <2>3 DEF RebuildPending
  <2> QED BY <2>4, <2>5 DEF RebuildInv
<1> QED
  BY <1>1, <1>2, <1>3, <1>4, <1>5, <1>6 DEF RebuildStep

(* The books only grow, so what backed a row still does.                    *)
LEMMA StillBacked ==
    ASSUME TypeOK, NEW item \in Item, NEW kind \in {"typed", "journal"}, NEW n \in Nat,
           Create(item, kind, n)
    PROVE  /\ \A l \in Lines, qb \in Nat : BackedBy(l, qb) => BackedBy(l, qb)'
           /\ \A qb \in Nat : n # 0 /\ qb = Len(books) + n => BackedBy(item.line, qb)'
<1>1. books \in Seq(QbTxn)
  BY DEF TypeOK
<1>2. /\ Len(books') = Len(books) + n
      /\ \A i \in 1..Len(books) : books'[i] = books[i]
      /\ \A i \in (Len(books) + 1)..(Len(books) + n) :
           books'[i] = [line |-> item.line, content |-> item.content, kind |-> kind]
  BY <1>1, CreateAppends
<1>3. Len(books) \in Nat
  BY <1>1, LenProperties
<1>4. \A l \in Lines, qb \in Nat : BackedBy(l, qb) => BackedBy(l, qb)'
  BY <1>2, <1>3 DEF BackedBy
<1>5. ASSUME NEW qb \in Nat, n # 0, qb = Len(books) + n
      PROVE  BackedBy(item.line, qb)'
  <2>1. qb \in (Len(books) + 1)..(Len(books) + n) /\ qb \in 1..Len(books')
    BY <1>2, <1>3, <1>5
  <2> QED BY <1>2, <2>1 DEF BackedBy
<1> QED BY <1>4, <1>5

LEMMA PostingInvInit == Init => PostingInv
<1> SUFFICES ASSUME Init PROVE PostingInv
  OBVIOUS
<1>1. \A l \in Lines : row[l].posting = "not_posted" /\ row[l].qb = NoTxn /\ row[l].id = 1
  BY DEF Init, FreshEntry
<1>2. PostedIsBacked /\ MirrorFollowsRow
  BY <1>1 DEF Init, PostedIsBacked, MirrorFollowsRow, NoTxn
<1>3. WorkersBacked /\ MirrorPending
  BY DEF Init, WorkersBacked, MirrorPending, IdleWorker
<1>4. NoItem.line \in Lines
  BY LedgerAssumption DEF NoItem
<1>5. IdsKnown
  BY <1>1, <1>4 DEF Init, IdsKnown, IdleWorker, NoItem
<1>6. RebuildInv
  BY <1>1 DEF Init, RebuildInv, Paired, RebuildPending
<1> QED BY <1>2, <1>3, <1>5, <1>6, TypeInit DEF PostingInv

(* A worker step that writes no document keeps the invariant, if what the   *)
(* worker then holds is still known and backed.                             *)
LEMMA WorkerMoves ==
    ASSUME PostingInv, NEW w \in Workers, NEW state \in WorkerState, Advance(w, state),
           UNCHANGED <<live, mirrored, rebuild, row, mirror>>,
           \A l \in Lines, qb \in Nat : BackedBy(l, qb) => BackedBy(l, qb)',
           \A item \in state.todo \cup {state.cur} : item.id <= row[item.line].id,
           state.pc # "recordMirror",
           state.pc = "record" => BackedBy(state.cur.line, state.txn)'
    PROVE  /\ PostedIsBacked' /\ MirrorFollowsRow'
           /\ WorkersBacked' /\ MirrorPending' /\ IdsKnown' /\ RebuildInv'
<1>1. \A v \in Workers : worker'[v] = IF v = w THEN state ELSE worker[v]
  BY DEF Advance, PostingInv, TypeOK
<1>a. \A l \in Lines : row[l] \in Entry /\ mirror[l] \in Entry
  BY DEF PostingInv, TypeOK
<1>b. \A v \in Workers : worker[v].cur.line \in Lines /\ worker[v].txn \in Nat
  BY DEF PostingInv, TypeOK, WorkerState, Item
<1>2. PostedIsBacked'
  BY <1>a DEF PostingInv, PostedIsBacked, Entry
<1>3. MirrorFollowsRow'
  BY DEF PostingInv, MirrorFollowsRow
<1>4. WorkersBacked'
  BY <1>1, <1>b DEF PostingInv, WorkersBacked
<1>5. MirrorPending'
  BY <1>1 DEF PostingInv, MirrorPending, Finds
<1>6. IdsKnown'
  BY <1>1 DEF PostingInv, IdsKnown
<1>7. RebuildInv'
  BY RebuildKept DEF PostingInv
<1> QED BY <1>2, <1>3, <1>4, <1>5, <1>6, <1>7

(* Recording a result on the row of the item a worker holds.                *)
LEMMA RowWritten ==
    ASSUME PostingInv, NEW w \in Workers, NEW pc \in WorkerPc,
           NEW posting \in PostingStatus, NEW qb \in Nat,
           Advance(w, [worker[w] EXCEPT !.pc = pc]), UNCHANGED <<live, mirrored, rebuild, mirror, books>>,
           WriteRow(worker[w].cur, posting, qb),
           worker[w].pc \notin {"recordMirror"},
           posting = "posted" \/ row[worker[w].cur.line].qb # NoTxn => qb # NoTxn,
           qb # NoTxn => BackedBy(worker[w].cur.line, qb),
           pc \notin {"record"},
           pc = "recordMirror" => qb = worker[w].txn /\ qb # NoTxn
    PROVE  /\ PostedIsBacked' /\ MirrorFollowsRow'
           /\ WorkersBacked' /\ MirrorPending' /\ IdsKnown' /\ RebuildInv'
<1> DEFINE l == worker[w].cur.line
           found == Finds(worker[w].cur.line, worker[w].cur.id)
<1>a. \A k \in Lines : row[k] \in Entry /\ mirror[k] \in Entry
  BY DEF PostingInv, TypeOK
<1>b. \A v \in Workers :
        worker[v] \in WorkerState /\ worker[v].cur.line \in Lines /\ worker[v].txn \in Nat
  BY DEF PostingInv, TypeOK, WorkerState, Item
<1>c. \A v \in Workers : \A item \in worker[v].todo \cup {worker[v].cur} : item.line \in Lines
  BY DEF PostingInv, TypeOK, WorkerState, Item
<1>1. \A v \in Workers :
        /\ worker'[v].cur = worker[v].cur /\ worker'[v].todo = worker[v].todo
        /\ worker'[v].txn = worker[v].txn
        /\ worker'[v].pc = IF v = w THEN pc ELSE worker[v].pc
  BY <1>b DEF Advance, PostingInv, TypeOK, WorkerState
<1>2. \A k \in Lines :
        /\ row'[k].id = row[k].id
        /\ row'[k].qb = IF k = l /\ found THEN qb ELSE row[k].qb
        /\ row'[k].posting = IF k = l /\ found THEN posting ELSE row[k].posting
  BY <1>a, <1>b DEF WriteRow, PostingInv, TypeOK, Entry
<1> HIDE DEF l, found
<1>3. PostedIsBacked'
  <2>1. books' = books /\ mirror' = mirror
    OBVIOUS
  <2>2. ASSUME NEW k \in Lines, NEW e \in {row[k], mirror[k]}
        PROVE  /\ e.posting = "posted" => e.qb # NoTxn
               /\ e.qb # NoTxn => BackedBy(k, e.qb)
    BY DEF PostingInv, PostedIsBacked
  <2>3. ASSUME NEW k \in Lines
        PROVE  /\ row'[k].posting = "posted" => row'[k].qb # NoTxn
               /\ row'[k].qb # NoTxn => BackedBy(k, row'[k].qb)
    <3>1. CASE k = l /\ found
      <4>1. row'[k].qb = qb /\ row'[k].posting = posting
        BY <1>2, <3>1
      <4>2. qb # NoTxn => BackedBy(k, qb)
        BY <3>1 DEF l
      <4>3. posting = "posted" => qb # NoTxn
        OBVIOUS
      <4> QED
        BY <4>1, <4>2, <4>3
    <3>2. CASE ~(k = l /\ found)
      <4>1. row'[k].qb = row[k].qb /\ row'[k].posting = row[k].posting
        BY <1>2, <3>2
      <4> QED
        BY <4>1, <2>2
    <3> QED
      BY <3>1, <3>2
  <2> QED
    BY <2>1, <2>2, <2>3 DEF PostedIsBacked, BackedBy
<1>4. MirrorFollowsRow'
  <2>1. ASSUME NEW k \in mirrored, mirror[k].qb # NoTxn
        PROVE  IF k \in live THEN row'[k].id = mirror[k].id /\ row'[k].qb # NoTxn
                             ELSE rebuild.pc = "delete"
    <3>1. k \in Lines
      BY DEF PostingInv, TypeOK
    <3>2. IF k \in live THEN row[k].id = mirror[k].id /\ row[k].qb # NoTxn
                        ELSE rebuild.pc = "delete"
      BY <2>1 DEF PostingInv, MirrorFollowsRow
    <3> QED BY <1>2, <3>1, <3>2 DEF l
  <2> QED BY <2>1 DEF MirrorFollowsRow
<1>5. WorkersBacked'
  BY <1>1, <1>b DEF PostingInv, WorkersBacked, BackedBy, NoTxn
<1>6. MirrorPending'
  BY <1>1, <1>2, <1>b DEF PostingInv, MirrorPending, Finds, l, found
<1>7. IdsKnown'
  BY <1>1, <1>2, <1>c DEF PostingInv, IdsKnown
<1>8. RebuildInv'
  BY <1>2, RebuildKept DEF PostingInv
<1> QED BY <1>3, <1>4, <1>5, <1>6, <1>7, <1>8

(* The same for the mirror.                                                 *)
LEMMA MirrorWritten ==
    ASSUME PostingInv, NEW w \in Workers, NEW posting \in PostingStatus, NEW qb \in Nat,
           Advance(w, [worker[w] EXCEPT !.pc = "next"]), UNCHANGED <<live, mirrored, rebuild, row, books>>,
           WriteMirror(worker[w].cur, posting, qb),
           posting = "posted" => qb # NoTxn,
           qb # NoTxn => /\ BackedBy(worker[w].cur.line, qb)
                         /\ worker[w].pc = "recordMirror"
    PROVE  /\ PostedIsBacked' /\ MirrorFollowsRow'
           /\ WorkersBacked' /\ MirrorPending' /\ IdsKnown' /\ RebuildInv'
<1> DEFINE l == worker[w].cur.line
           found == FindsMirror(worker[w].cur.line, worker[w].cur.id)
<1>a. \A k \in Lines : row[k] \in Entry /\ mirror[k] \in Entry
  BY DEF PostingInv, TypeOK
<1>b. \A v \in Workers :
        worker[v] \in WorkerState /\ worker[v].cur.line \in Lines /\ worker[v].txn \in Nat
  BY DEF PostingInv, TypeOK, WorkerState, Item
<1>1. \A v \in Workers :
        /\ worker'[v].cur = worker[v].cur /\ worker'[v].todo = worker[v].todo
        /\ worker'[v].txn = worker[v].txn
        /\ worker'[v].pc = IF v = w THEN "next" ELSE worker[v].pc
  BY <1>b DEF Advance, PostingInv, TypeOK, WorkerState
<1>2. \A k \in Lines :
        /\ mirror'[k].id = mirror[k].id
        /\ mirror'[k].qb = IF k = l /\ found THEN qb ELSE mirror[k].qb
        /\ mirror'[k].posting = IF k = l /\ found THEN posting ELSE mirror[k].posting
  BY <1>a, <1>b DEF WriteMirror, PostingInv, TypeOK, Entry
<1> HIDE DEF l, found
<1>3. PostedIsBacked'
  BY <1>2, <1>a, SMTT(30) DEF PostingInv, PostedIsBacked, BackedBy, Entry, l, NoTxn
\* The mirror found is that of the row written before, or the row is gone.
<1>4. MirrorFollowsRow'
  <2> SUFFICES ASSUME NEW k \in mirrored, mirror'[k].qb # NoTxn
               PROVE  IF k \in live THEN row[k].id = mirror[k].id /\ row[k].qb # NoTxn
                                   ELSE rebuild.pc = "delete"
    BY <1>2 DEF MirrorFollowsRow, PostingInv, TypeOK
  <2>1. k \in Lines
    BY DEF PostingInv, TypeOK
  <2>2. CASE k = l /\ found
    <3>1. k \in mirrored /\ mirror[k].id = worker[w].cur.id /\ worker[w].pc = "recordMirror"
      BY <1>2, <2>1, <2>2 DEF l, found, FindsMirror
    <3>2. worker[w].cur.id <= row[k].id
      BY <2>2 DEF PostingInv, IdsKnown, l
    <3>3. row[k].id \in Nat /\ mirror[k].id \in Nat
      BY <1>a, <2>1 DEF Entry
    <3>4. CASE k \in live
      <4>1. row[k].id = mirror[k].id
        BY <3>4, <2>1 DEF PostingInv, RebuildInv, Paired
      <4>2. row[k].qb # NoTxn
        BY <2>2, <3>1, <3>4, <4>1 DEF PostingInv, MirrorPending, Finds, l
      <4> QED BY <3>4, <4>1, <4>2
    <3>5. CASE k \notin live
      BY <2>1, <3>1, <3>2, <3>3, <3>5 DEF PostingInv, RebuildInv, Paired
    <3> QED BY <3>4, <3>5
  <2>3. CASE ~(k = l /\ found)
    BY <1>2, <2>1, <2>3 DEF PostingInv, MirrorFollowsRow
  <2> QED BY <2>2, <2>3
<1>5. WorkersBacked'
  BY <1>1, <1>b DEF PostingInv, WorkersBacked, BackedBy
<1>6. MirrorPending'
  BY <1>1 DEF PostingInv, MirrorPending, Finds
<1>7. IdsKnown'
  BY <1>1 DEF PostingInv, IdsKnown
<1>8. RebuildInv'
  BY <1>2, RebuildKept DEF PostingInv
<1> QED BY <1>3, <1>4, <1>5, <1>6, <1>7, <1>8

LEMMA PostingInvPost == PostingInv /\ PostStep => PostingInv'
<1> SUFFICES ASSUME PostingInv, PostStep PROVE PostingInv'
  OBVIOUS
<1> DEFINE Goal == /\ PostedIsBacked' /\ MirrorFollowsRow'
                   /\ WorkersBacked' /\ MirrorPending' /\ IdsKnown' /\ RebuildInv'
           Backs(state) == state.pc = "record" => BackedBy(state.cur.line, state.txn)'
<1> USE DEF PostOnly
<1>0. TypeOK /\ TypeOK'
  BY TypePost DEF PostingInv
<1>a. /\ \A w \in Workers : worker[w] \in WorkerState /\ worker[w].cur \in Item
      /\ \A w \in Workers : \A item \in worker[w].todo : item \in Item
      /\ \A l \in Lines : row[l] \in Entry
  BY <1>0 DEF TypeOK, WorkerState
<1>b. \A l \in Lines, qb \in Nat : UNCHANGED books /\ BackedBy(l, qb) => BackedBy(l, qb)'
  BY DEF BackedBy
<1>c. Len(books) \in Nat
  BY <1>0, LenProperties DEF TypeOK
\* Keeps(w, state, pc): state is worker w at pc, with the same items.
<1> DEFINE Keeps(w, state, pc) ==
             /\ state \in WorkerState /\ state.pc = pc
             /\ state.todo = worker[w].todo /\ state.cur = worker[w].cur
<1>d. ASSUME NEW w \in Workers
      PROVE  /\ Keeps(w, [worker[w] EXCEPT !.pc = "journal"], "journal")
             /\ Keeps(w, [worker[w] EXCEPT !.pc = "fail", !.failed = TRUE], "fail")
  BY <1>a DEF WorkerState, WorkerPc
<1>e. ASSUME NEW w \in Workers, NEW kind \in {"typed", "journal"}, NEW txn \in Nat
      PROVE  LET state == [worker[w] EXCEPT !.pc = "record", !.kind = kind, !.txn = txn] IN
             Keeps(w, state, "record") /\ state.txn = txn
  BY <1>a DEF WorkerState, WorkerPc
<1>1. CASE MarkQuickBooksSyncRunning
  <2>1. UNCHANGED <<live, mirrored, rebuild, row, mirror, books, worker>>
    BY <1>1 DEF MarkQuickBooksSyncRunning
  <2>2. RebuildInv'
    BY <1>0, <2>1, RebuildKept DEF PostingInv
  <2> QED BY <1>0, <2>1, <2>2 DEF PostingInv, PostedIsBacked, MirrorFollowsRow,
             WorkersBacked, MirrorPending, IdsKnown, BackedBy, Finds
<1>2. ASSUME NEW w \in Workers, StartPosting(w)
      PROVE  Goal
  <2> DEFINE todo == {ItemOf(l) : l \in {k \in Lines : Postable(k)}}
             state == [worker[w] EXCEPT !.pc = "next", !.todo = todo, !.took = todo,
                                        !.failed = FALSE]
  <2>1. todo \subseteq Item /\ \A item \in todo : item.id <= row[item.line].id
    BY <1>a DEF ItemOf, Item, Entry, Proposal
  <2> HIDE DEF todo
  <2>2. state \in WorkerState /\ state.pc = "next" /\ state.cur = worker[w].cur
        /\ state.todo = todo
    BY <1>a, <2>1 DEF WorkerState, WorkerPc
  <2>3. Advance(w, state) /\ UNCHANGED <<live, mirrored, rebuild, row, mirror, books>>
    BY <1>2 DEF StartPosting, todo
  <2>4. \A item \in state.todo \cup {state.cur} : item.id <= row[item.line].id
    BY <2>1, <2>2 DEF PostingInv, IdsKnown
  <2> HIDE DEF state
  <2> QED BY <2>2, <2>3, <2>4, <1>b, WorkerMoves
\* Taking an item up, whatever the books did meanwhile.
<1>3. ASSUME NEW w \in Workers, NEW item \in worker[w].todo, NEW base \in WorkerState,
             Take(w, item, base), base.todo = worker[w].todo,
             base.pc # "recordMirror",
             base.pc = "record" => BackedBy(item.line, base.txn)',
             UNCHANGED <<live, mirrored, rebuild, row, mirror>>,
             \A l \in Lines, qb \in Nat : BackedBy(l, qb) => BackedBy(l, qb)'
      PROVE  Goal
  <2> DEFINE state == [base EXCEPT !.todo = @ \ {item}, !.cur = item]
  <2>1. /\ state \in WorkerState /\ state.pc = base.pc /\ state.txn = base.txn
        /\ state.cur = item /\ state.todo \subseteq worker[w].todo
    BY <1>3, <1>a DEF WorkerState
  <2>2. Advance(w, state)
    BY <1>3 DEF Take
  <2>3. \A i \in state.todo \cup {state.cur} : i.id <= row[i.line].id
    BY <2>1 DEF PostingInv, IdsKnown
  <2> HIDE DEF state
  <2> QED BY <1>3, <2>1, <2>2, <2>3, WorkerMoves
\* Moving on with the same item.
<1>4. ASSUME NEW w \in Workers, NEW state \in WorkerState, Advance(w, state),
             state.todo = worker[w].todo, state.cur = worker[w].cur,
             state.pc # "recordMirror",
             state.pc = "record" => BackedBy(state.cur.line, state.txn)',
             UNCHANGED <<live, mirrored, rebuild, row, mirror>>,
             \A l \in Lines, qb \in Nat : BackedBy(l, qb) => BackedBy(l, qb)'
      PROVE  Goal
  <2>1. \A i \in state.todo \cup {state.cur} : i.id <= row[i.line].id
    BY <1>4 DEF PostingInv, IdsKnown
  <2> QED BY <1>4, <2>1, WorkerMoves
<1>5. ASSUME NEW w \in Workers, NEW item \in worker[w].todo,
             RejectUntyped(w, item) \/ RejectIncomplete(w, item)
      PROVE  Goal
  <2> DEFINE failed == [worker[w] EXCEPT !.pc = "fail", !.failed = TRUE]
             fallback == [worker[w] EXCEPT !.pc = "journal"]
  <2>1. Keeps(w, failed, "fail") /\ Keeps(w, fallback, "journal")
    BY <1>d
  <2>2. Take(w, item, failed) \/ Take(w, item, fallback)
    BY <1>5 DEF RejectUntyped, RejectIncomplete
  <2>3. UNCHANGED <<live, mirrored, rebuild, row, mirror, books>>
    BY <1>5 DEF RejectUntyped, RejectIncomplete
  <2> HIDE DEF failed, fallback
  <2> QED BY <2>1, <2>2, <2>3, <1>3, <1>b
<1>6. ASSUME NEW w \in Workers, NEW item \in worker[w].todo, PostTyped(w, item)
      PROVE  Goal
  <2>1. PICK n \in Nat :
          /\ Create(item, "typed", n)
          /\ \/ /\ n # 0
                /\ Take(w, item, [worker[w] EXCEPT !.pc = "record", !.kind = "typed",
                                                   !.txn = Len(books) + n])
             \/ Take(w, item, [worker[w] EXCEPT !.pc = "journal"])
    BY <1>6, CreatedTypes DEF PostTyped
  <2> DEFINE fallback == [worker[w] EXCEPT !.pc = "journal"]
  <2>2. /\ \A l \in Lines, qb \in Nat : BackedBy(l, qb) => BackedBy(l, qb)'
        /\ \A qb \in Nat : n # 0 /\ qb = Len(books) + n => BackedBy(item.line, qb)'
    BY <1>0, <1>a, <2>1, StillBacked
  <2>3. Len(books) + n \in Nat
    BY <1>c
  <2>4. PICK created \in WorkerState :
          /\ created = [worker[w] EXCEPT !.pc = "record", !.kind = "typed",
                                         !.txn = Len(books) + n]
          /\ Keeps(w, created, "record") /\ created.txn = Len(books) + n
    <3> DEFINE txn == Len(books) + n
               state == [worker[w] EXCEPT !.pc = "record", !.kind = "typed", !.txn = txn]
    <3> HIDE DEF txn
    <3>1. Keeps(w, state, "record") /\ state.txn = txn
      BY <1>e, <2>3 DEF txn
    <3>2. state = [worker[w] EXCEPT !.pc = "record", !.kind = "typed", !.txn = Len(books) + n]
      BY DEF txn
    <3> HIDE DEF state
    <3> QED
      BY <3>1, <3>2 DEF txn
  <2>10. Keeps(w, fallback, "journal")
    BY <1>d
  <2>5. UNCHANGED <<live, mirrored, rebuild, row, mirror>>
    BY <1>6 DEF PostTyped
  <2>6. (n # 0 /\ Take(w, item, created)) \/ Take(w, item, fallback)
    BY <2>1, <2>4
  <2> HIDE DEF fallback
  <2>7. ASSUME n # 0 PROVE BackedBy(item.line, created.txn)'
    BY <2>2, <2>3, <2>4, <2>7
  <2>8. CASE n # 0 /\ Take(w, item, created)
    BY <2>2, <2>4, <2>5, <2>7, <2>8, <1>3
  <2>9. CASE Take(w, item, fallback)
    BY <2>2, <2>5, <2>9, <2>10, <1>3
  <2> QED BY <2>6, <2>8, <2>9
<1>7. ASSUME NEW w \in Workers, PostJournal(w)
      PROVE  Goal
  <2>0. PICK item \in Item : item = worker[w].cur
    BY <1>a
  <2>1. PICK n \in Nat :
          /\ Create(item, "journal", n)
          /\ \/ /\ n # 0
                /\ Advance(w, [worker[w] EXCEPT !.pc = "record", !.kind = "journal",
                                                !.txn = Len(books) + n])
             \/ Advance(w, [worker[w] EXCEPT !.pc = "fail", !.failed = TRUE])
    BY <1>7, <2>0, CreatedTypes DEF PostJournal
  <2> DEFINE failed == [worker[w] EXCEPT !.pc = "fail", !.failed = TRUE]
  <2>2. /\ \A l \in Lines, qb \in Nat : BackedBy(l, qb) => BackedBy(l, qb)'
        /\ \A qb \in Nat : n # 0 /\ qb = Len(books) + n => BackedBy(item.line, qb)'
    BY <1>0, <2>1, StillBacked
  <2>3. Len(books) + n \in Nat
    BY <1>c
  <2>4. PICK created \in WorkerState :
          /\ created = [worker[w] EXCEPT !.pc = "record", !.kind = "journal",
                                         !.txn = Len(books) + n]
          /\ Keeps(w, created, "record") /\ created.txn = Len(books) + n
    <3> DEFINE txn == Len(books) + n
               state == [worker[w] EXCEPT !.pc = "record", !.kind = "journal", !.txn = txn]
    <3> HIDE DEF txn
    <3>1. Keeps(w, state, "record") /\ state.txn = txn
      BY <1>e, <2>3 DEF txn
    <3>2. state = [worker[w] EXCEPT !.pc = "record", !.kind = "journal", !.txn = Len(books) + n]
      BY DEF txn
    <3> HIDE DEF state
    <3> QED
      BY <3>1, <3>2 DEF txn
  <2>10. Keeps(w, failed, "fail")
    BY <1>d
  <2>5. UNCHANGED <<live, mirrored, rebuild, row, mirror>>
    BY <1>7 DEF PostJournal
  <2>6. (n # 0 /\ Advance(w, created)) \/ Advance(w, failed)
    BY <2>1, <2>4
  <2> HIDE DEF failed
  <2>7. n # 0 => BackedBy(created.cur.line, created.txn)'
    <3>1. PICK txn \in Nat : txn = created.txn
      BY <2>3, <2>4
    <3>2. n # 0 => BackedBy(item.line, txn)'
      BY <2>2, <2>4, <3>1
    <3> QED BY <3>1, <3>2, <2>0, <2>4
  <2>8. CASE n # 0 /\ Advance(w, created)
    BY <2>2, <2>4, <2>5, <2>7, <2>8, <1>4
  <2>9. CASE Advance(w, failed)
    BY <2>2, <2>5, <2>9, <2>10, <1>4
  <2> QED BY <2>6, <2>8, <2>9
<1>8. ASSUME NEW w \in Workers, RecordError(w)
      PROVE  Goal
  <2> DEFINE fallback == [worker[w] EXCEPT !.pc = "journal"]
             failed == [worker[w] EXCEPT !.pc = "fail", !.failed = TRUE]
  <2>1. Keeps(w, fallback, "journal") /\ Keeps(w, failed, "fail")
    BY <1>d
  <2>2. Advance(w, fallback) \/ Advance(w, failed)
    BY <1>8 DEF RecordError
  <2>3. UNCHANGED <<live, mirrored, rebuild, row, mirror, books>>
    BY <1>8 DEF RecordError
  <2> HIDE DEF failed, fallback
  <2> QED BY <2>1, <2>2, <2>3, <1>4, <1>b
<1>9. ASSUME NEW w \in Workers, FinishPosting(w) \/ AbortPosting(w) \/ CrashPosting(w)
      PROVE  Goal
  <2>1. /\ IdleWorker \in WorkerState /\ IdleWorker.pc = "idle"
        /\ Advance(w, IdleWorker) /\ UNCHANGED <<live, mirrored, rebuild, row, mirror, books>>
    BY <1>9, IdleTypes DEF FinishPosting, AbortPosting, CrashPosting, IdleWorker
  <2>2. NoItem.line \in Lines /\ NoItem.id = 0
    BY IdleTypes DEF NoItem, Item
  <2>3. \A i \in IdleWorker.todo \cup {IdleWorker.cur} : i.id <= row[i.line].id
    BY <1>a, <2>2 DEF IdleWorker, Entry
  <2> HIDE DEF IdleWorker
  <2> QED BY <2>1, <2>3, <1>b, WorkerMoves
<1>10. ASSUME NEW w \in Workers, RecordRow(w)
       PROVE  Goal
  <2>1. /\ BackedBy(worker[w].cur.line, worker[w].txn)
        /\ worker[w].txn \in Nat /\ worker[w].txn # NoTxn
    BY <1>10, <1>a, <1>c DEF PostingInv, WorkersBacked, RecordRow, BackedBy, WorkerState, NoTxn, At
  <2>2. /\ WriteRow(worker[w].cur, "posted", worker[w].txn)
        /\ Advance(w, [worker[w] EXCEPT !.pc = "recordMirror"])
        /\ UNCHANGED <<live, mirrored, rebuild, mirror, books>> /\ worker[w].pc = "record"
    BY <1>10 DEF RecordRow, At
  <2> QED BY <2>1, <2>2, RowWritten DEF WorkerPc, PostingStatus
<1>11. ASSUME NEW w \in Workers, FailRow(w)
       PROVE  Goal
  <2> DEFINE qb == row[worker[w].cur.line].qb
  <2>1. worker[w].cur.line \in Lines /\ qb \in Nat
    BY <1>a DEF Item, Entry
  <2>2. qb # NoTxn => BackedBy(worker[w].cur.line, qb)
    BY <2>1 DEF PostingInv, PostedIsBacked
  <2>3. /\ WriteRow(worker[w].cur, "failed", qb)
        /\ Advance(w, [worker[w] EXCEPT !.pc = "failMirror"])
        /\ UNCHANGED <<live, mirrored, rebuild, mirror, books>> /\ worker[w].pc = "fail"
    BY <1>11 DEF FailRow, At
  <2> QED BY <2>1, <2>2, <2>3, RowWritten DEF WorkerPc, PostingStatus
<1>12. ASSUME NEW w \in Workers, RecordMirror(w) \/ FailMirror(w)
       PROVE  Goal
  <2>1. /\ Advance(w, [worker[w] EXCEPT !.pc = "next"])
        /\ UNCHANGED <<live, mirrored, rebuild, row, books>>
    BY <1>12 DEF RecordMirror, FailMirror
  <2>2. CASE RecordMirror(w)
    <3>1. /\ WriteMirror(worker[w].cur, "posted", worker[w].txn)
          /\ BackedBy(worker[w].cur.line, worker[w].txn)
          /\ worker[w].txn \in Nat /\ worker[w].txn # NoTxn
          /\ worker[w].pc = "recordMirror"
      BY <2>2, <1>a, <1>c DEF PostingInv, WorkersBacked, RecordMirror, BackedBy, WorkerState, NoTxn, At
    <3> QED BY <2>1, <3>1, MirrorWritten DEF PostingStatus
  <2>3. CASE FailMirror(w)
    <3>1. WriteMirror(worker[w].cur, "failed", NoTxn) /\ NoTxn \in Nat
      BY <2>3 DEF FailMirror, NoTxn
    <3> QED BY <2>1, <3>1, MirrorWritten DEF PostingStatus
  <2> QED BY <1>12, <2>2, <2>3
<1>13. Goal => PostingInv'
  BY <1>0 DEF PostingInv
<1> HIDE DEF Goal
<1> QED BY <1>1, <1>2, <1>5, <1>6, <1>7, <1>8, <1>9, <1>10, <1>11, <1>12, <1>13 DEF PostStep

LEMMA PostingInvReview == PostingInv /\ ReviewStep => PostingInv'
<1> SUFFICES ASSUME PostingInv, ReviewStep PROVE PostingInv'
  OBVIOUS
<1>0. TypeOK /\ TypeOK'
  BY TypeReview DEF PostingInv
<1>1. /\ UNCHANGED <<live, mirrored, rebuild, books, worker>>
      /\ \A l \in Lines :
           /\ row'[l].id = row[l].id /\ row'[l].posting = row[l].posting
           /\ row'[l].qb = row[l].qb /\ mirror'[l].id = mirror[l].id
           /\ mirror'[l].posting = mirror[l].posting /\ mirror'[l].qb = mirror[l].qb
  BY <1>0, ReviewFrame DEF postVars
<1>2. \A w \in Workers : \A item \in worker[w].todo \cup {worker[w].cur} : item.line \in Lines
  BY <1>0 DEF TypeOK, WorkerState, Item
<1>3. PostedIsBacked'
  BY <1>1 DEF PostingInv, PostedIsBacked, BackedBy
<1>7. MirrorFollowsRow'
  <2>1. mirrored \subseteq Lines
    BY <1>0 DEF TypeOK
  <2> QED BY <1>1, <2>1 DEF PostingInv, MirrorFollowsRow
<1>4. WorkersBacked'
  BY <1>1 DEF PostingInv, WorkersBacked, BackedBy
<1>5. MirrorPending' /\ IdsKnown'
  BY <1>1, <1>2 DEF PostingInv, MirrorPending, IdsKnown, Finds
<1>6. RebuildInv'
  BY <1>0, <1>1, RebuildKept DEF PostingInv
<1> QED BY <1>0, <1>3, <1>4, <1>5, <1>6, <1>7 DEF PostingInv

LEMMA PostingInvRebuild == PostingInv /\ RebuildStep => PostingInv'
<1> SUFFICES ASSUME PostingInv, RebuildStep PROVE PostingInv'
  OBVIOUS
<1>0. TypeOK /\ TypeOK' /\ RebuildInv /\ RebuildInv'
  BY TypeRebuild, RebuildInvStep DEF PostingInv
<1>a. \A w \in Workers : \A item \in worker[w].todo \cup {worker[w].cur} :
        item.line \in Lines /\ item.id \in Nat
  BY <1>0 DEF TypeOK, WorkerState, Item
<1>b. \A l \in Lines : row[l].id \in Nat /\ mirror[l].id \in Nat /\ row'[l].id \in Nat
  BY <1>0 DEF TypeOK, Entry
<1>1. UNCHANGED <<books, worker>>
  BY <1>0, RebuildFrame DEF postVars
<1>2. \A l \in Lines :
        \/ row'[l] = row[l] /\ (l \in live' => l \in live)
        \/ /\ CreateEntry /\ row[l].id < row'[l].id /\ row'[l].id = mirror[l].id
           /\ row'[l].posting = "not_posted" /\ row'[l].qb = NoTxn
           /\ mirror' = mirror /\ l \in mirrored /\ l \notin live
  BY <1>0, RebuildFrame DEF FreshEntry
<1>3. \A l \in Lines :
        \/ mirror'[l] = mirror[l] /\ (l \in mirrored' => l \in mirrored)
        \/ mirror'[l].posting = "not_posted" /\ mirror'[l].qb = NoTxn
  BY <1>0, RebuildFrame
<1>4. PostedIsBacked'
  BY <1>1, <1>2, <1>3 DEF PostingInv, PostedIsBacked, BackedBy, NoTxn
<1>5. MirrorFollowsRow'
  <2> SUFFICES ASSUME NEW l \in mirrored', mirror'[l].qb # NoTxn
               PROVE  IF l \in live' THEN row'[l].id = mirror'[l].id /\ row'[l].qb # NoTxn
                                     ELSE rebuild'.pc = "delete"
    BY DEF MirrorFollowsRow
  <2>1. l \in Lines /\ mirror'[l] = mirror[l] /\ l \in mirrored
    BY <1>0, <1>3 DEF TypeOK
  <2>2. IF l \in live THEN row[l].id = mirror[l].id /\ row[l].qb # NoTxn
                      ELSE rebuild.pc = "delete"
    BY <2>1 DEF PostingInv, MirrorFollowsRow
  <2>3. CASE CreateEntry
    BY <1>2, <2>1, <2>2, <2>3 DEF CreateEntry
  <2>4. CASE ~CreateEntry /\ l \in live'
    BY <1>2, <2>1, <2>2, <2>4
  <2>5. CASE ~CreateEntry /\ l \notin live'
    <3>1. CASE l \in live
      BY <2>5, <3>1, <1>b, <2>1 DEF RebuildStep, StartRebuild, FinishDeletes, FailRebuild,
         DeleteEntry, DeleteTransaction, CreateTransaction
    <3>2. CASE l \notin live
      BY <2>1, <2>2, <2>5, <3>2 DEF RebuildStep, StartRebuild, FinishDeletes, FailRebuild,
         DeleteEntry, DeleteTransaction, CreateTransaction
    <3> QED BY <3>1, <3>2
  <2> QED BY <2>3, <2>4, <2>5
<1>6. WorkersBacked'
  BY <1>1 DEF PostingInv, WorkersBacked, BackedBy
<1>7. MirrorPending'
  <2> SUFFICES ASSUME NEW w \in Workers, worker[w].pc = "recordMirror",
                      Finds(worker[w].cur.line, worker[w].cur.id)'
               PROVE  row'[worker[w].cur.line].qb # NoTxn
    BY <1>1 DEF MirrorPending
  <2>1. worker[w].cur.id <= row[worker[w].cur.line].id
    BY DEF PostingInv, IdsKnown
  <2>2. row'[worker[w].cur.line].id = worker[w].cur.id /\ worker[w].cur.line \in live'
    BY <1>1 DEF Finds
  <2>3. row'[worker[w].cur.line] = row[worker[w].cur.line] /\ worker[w].cur.line \in live
    BY <1>2, <1>a, <1>b, <2>1, <2>2
  <2> QED BY <2>2, <2>3 DEF PostingInv, MirrorPending, Finds
<1>8. IdsKnown'
  <2> SUFFICES ASSUME NEW w \in Workers,
                      NEW item \in worker[w].todo \cup {worker[w].cur}
               PROVE  item.id <= row'[item.line].id
    BY <1>1 DEF IdsKnown
  <2>1. item.id <= row[item.line].id /\ item.line \in Lines /\ item.id \in Nat
    BY <1>a DEF PostingInv, IdsKnown
  <2> QED BY <1>2, <1>b, <2>1
<1> QED BY <1>0, <1>4, <1>5, <1>6, <1>7, <1>8 DEF PostingInv

LEMMA PostingInvStep == PostingInv /\ [Next]_vars => PostingInv'
<1>1. PostingInv /\ UNCHANGED vars => PostingInv'
  BY DEF vars, postVars, reviewVars, PostingInv, TypeOK, PostedIsBacked, MirrorFollowsRow,
         WorkersBacked, MirrorPending, IdsKnown, BackedBy, Finds, RebuildInv, Paired,
         RebuildPending
<1> QED BY <1>1, PostingInvReview, PostingInvPost, PostingInvRebuild DEF Next

(* A posted row or mirror names a transaction QuickBooks holds for that     *)
(* very line, under every fault, race and rebuild.                          *)
THEOREM LedgerPostedIsBacked == Spec => []PostedIsBacked
<1>1. PostingInv => PostedIsBacked
  BY DEF PostingInv
<1> QED BY <1>1, PostingInvInit, PostingInvStep, PTL DEF Spec

(* The statement side never shows a transaction id the ledger lacks, even   *)
(* after a crash between the two writes of a posting, or with a rebuild     *)
(* that stops half-way; only while the two deletions of a rebuild are under *)
(* way may the entry be gone before its transaction.                        *)
THEOREM LedgerMirrorFollowsRow == Spec => []MirrorFollowsRow
<1>1. PostingInv => MirrorFollowsRow
  BY DEF PostingInv
<1> QED BY <1>1, PostingInvInit, PostingInvStep, PTL DEF Spec

(* A recorded QuickBooks id is never erased from its row, whichever of two  *)
(* overlapping deliveries writes last.                                      *)
THEOREM LedgerRecordedForGood == Spec => RecordedForGood
<1> DEFINE Kept == \A l \in Lines : row[l].qb # NoTxn /\ row'[l].id = row[l].id
                                        => row'[l].qb # NoTxn
<1>1. PostingInv /\ [Next]_vars => Kept
  <2> SUFFICES ASSUME PostingInv, [Next]_vars PROVE Kept
    OBVIOUS
  <2>0. TypeOK
    BY DEF PostingInv
  <2>1. CASE ReviewStep
    BY <2>0, <2>1, ReviewFrame
  <2>2. ASSUME NEW w \in Workers, RecordRow(w) \/ FailRow(w)
        PROVE  Kept
    <3>1. worker[w].cur.line \in Lines /\ (At(w, "record") => worker[w].txn # NoTxn)
      BY <2>0 DEF PostingInv, WorkersBacked, BackedBy, TypeOK, WorkerState, Item, At, NoTxn
    <3>2. \E posting \in PostingStatus, qb \in Nat :
            /\ WriteRow(worker[w].cur, posting, qb)
            /\ row[worker[w].cur.line].qb # NoTxn => qb # NoTxn
      BY <2>0, <2>2, <3>1 DEF RecordRow, FailRow, TypeOK, WorkerState, Entry, PostingStatus
    <3>3. PICK posting \in PostingStatus, qb \in Nat :
            /\ WriteRow(worker[w].cur, posting, qb)
            /\ row[worker[w].cur.line].qb # NoTxn => qb # NoTxn
      BY <3>2
    <3>4. \A k \in Lines :
            row'[k].qb = IF k = worker[w].cur.line /\ Finds(k, worker[w].cur.id)
                         THEN qb ELSE row[k].qb
      BY <3>1, <3>3, <2>0 DEF WriteRow, TypeOK, Entry
    <3> QED BY <3>3, <3>4
  <2>3. CASE PostStep /\ ~\E w \in Workers : RecordRow(w) \/ FailRow(w)
    <3>1. row' = row
      BY <2>3 DEF PostStep, MarkQuickBooksSyncRunning, StartPosting, RejectUntyped,
         RejectIncomplete, PostTyped, PostJournal, RecordMirror, RecordError, FailMirror,
         FinishPosting, AbortPosting, CrashPosting
    <3> QED BY <3>1
  <2>4. CASE RebuildStep
    <3>1. \A l \in Lines : row'[l] = row[l] \/ row[l].id < row'[l].id
      BY <2>0, <2>4, RebuildFrame DEF PostingInv
    <3>2. \A l \in Lines : row[l].id \in Nat
      BY <2>0 DEF TypeOK, Entry
    <3> QED BY <3>1, <3>2
  <2>5. CASE UNCHANGED vars
    BY <2>5 DEF vars
  <2> QED BY <2>1, <2>2, <2>3, <2>4, <2>5 DEF Next
<1>2. PostingInv /\ [Next]_vars => [Kept]_vars
  BY <1>1
<1> HIDE DEF Kept
<1>3. Spec => [][Kept]_vars
  BY <1>2, PostingInvInit, PostingInvStep, PTL DEF Spec
<1> QED BY <1>3 DEF Kept, RecordedForGood

-----------------------------------------------------------------------------
(* Serialised deliveries without faults post a line at most once.           *)

(* What a call that created nothing, or one transaction, does to the books. *)
LEMMA BooksGrow ==
    ASSUME TypeOK, NEW item \in Item, NEW kind \in {"typed", "journal"},
           NEW n \in {0, 1}, Create(item, kind, n), AtMostOnce
    PROVE  /\ n = 0 => (\A l \in Lines : Booked(l)' <=> Booked(l)) /\ AtMostOnce'
           /\ n = 1 => \A l \in Lines : Booked(l)' <=> Booked(l) \/ l = item.line
           /\ n = 1 /\ ~Booked(item.line) => AtMostOnce'
<1>1. books \in Seq(QbTxn)
  BY DEF TypeOK
<1>2. /\ Len(books') = Len(books) + n
      /\ \A i \in 1..Len(books) : books'[i] = books[i]
      /\ \A i \in (Len(books) + 1)..(Len(books) + n) :
           books'[i] = [line |-> item.line, content |-> item.content, kind |-> kind]
  BY <1>1, n \in Nat, CreateAppends
<1>3. Len(books) \in Nat
  BY <1>1, LenProperties
<1>4. n = 1 => books'[Len(books) + 1].line = item.line
  BY <1>2, <1>3
<1>5. CASE n = 0
  BY <1>2, <1>3, <1>5 DEF Booked, AtMostOnce
<1>6. CASE n = 1
  <2>1. \A i \in 1..Len(books') : i \in 1..Len(books) \/ i = Len(books) + 1
    BY <1>2, <1>3, <1>6
  <2>2. \A i \in 1..Len(books) : i \in 1..Len(books')
    BY <1>2, <1>3, <1>6
  <2>3. Len(books) + 1 \in 1..Len(books')
    BY <1>2, <1>3, <1>6
  <2>4. \A l \in Lines : Booked(l)' <=> Booked(l) \/ l = item.line
    BY <1>2, <1>4, <1>6, <2>1, <2>2, <2>3 DEF Booked
  <2>5. ~Booked(item.line) => AtMostOnce'
    BY <1>2, <1>4, <1>6, <2>1, <2>2, <2>3 DEF Booked, AtMostOnce
  <2> QED BY <1>6, <2>4, <2>5
<1> QED BY <1>5, <1>6

(* With one delivery at a time, what its state satisfies is all there is.   *)
LEMMA OneWorker ==
    ASSUME Serial, TypeOK, NEW w \in Workers, NEW state, Advance(w, state),
           AtMostOnce', NeverRebuilt', Unbooked(state)',
           \A l \in Lines : Booked(l)' =>
               row'[l].qb # NoTxn \/ (state.pc = "record" /\ state.cur.line = l)
    PROVE  SerialInv'
<1>1. \A v \in Workers : v = w /\ worker'[v] = state
  BY DEF Serial, Advance, TypeOK
<1>2. BookedIsRecorded'
  BY <1>1 DEF BookedIsRecorded
<1>3. PendingIsUnbooked'
  BY <1>1 DEF PendingIsUnbooked
<1> QED BY <1>2, <1>3 DEF SerialInv

LEMMA SerialInvInit == Init => SerialInv
<1> SUFFICES ASSUME Init PROVE SerialInv
  OBVIOUS
<1>1. \A l \in Lines : row[l].id = 1
  BY DEF Init, FreshEntry
<1>2. \A l \in Lines : ~Booked(l)
  BY DEF Init, Booked
<1>3. AtMostOnce
  BY DEF Init, AtMostOnce
<1>4. PendingIsUnbooked
  BY DEF Init, PendingIsUnbooked, Unbooked, Busy, IdleWorker
<1> QED BY <1>1, <1>2, <1>3, <1>4 DEF Init, SerialInv, BookedIsRecorded, NeverRebuilt

LEMMA SerialInvReview ==
    ASSUME Serial, TypeOK, SerialInv, ReviewStep
    PROVE  SerialInv'
<1>1. /\ UNCHANGED <<live, mirrored, rebuild, books, worker>>
      /\ \A l \in Lines : row'[l].id = row[l].id /\ row'[l].qb = row[l].qb
  BY ReviewFrame DEF postVars
<1>2. AtMostOnce' /\ NeverRebuilt'
  BY <1>1 DEF SerialInv, AtMostOnce, NeverRebuilt
<1>3. BookedIsRecorded' /\ PendingIsUnbooked'
  BY <1>1 DEF SerialInv, BookedIsRecorded, PendingIsUnbooked, Unbooked, Booked
<1> QED BY <1>2, <1>3 DEF SerialInv

LEMMA SerialNoRebuild ==
    ASSUME Serial, PostingInv, SerialInv
    PROVE  ~RebuildStep
<1>1. PICK l \in Lines : TRUE
  BY LedgerAssumption
<1>2. 1 <= row[l].id /\ row[l].id <= mirror[l].id /\ row[l].id \in Nat /\ mirror[l].id \in Nat
  BY DEF PostingInv, RebuildInv, Paired, TypeOK, Entry
<1>3. ~(mirror[l].id <= MaxRebuilds)
  BY <1>2 DEF Serial
<1> QED BY <1>1, <1>3 DEF SerialInv, NeverRebuilt, RebuildStep, StartRebuild, FinishDeletes,
           FailRebuild, DeleteEntry, DeleteTransaction, CreateTransaction, CreateEntry

LEMMA SerialInvPost ==
    ASSUME Serial, PostingInv, SerialInv, PostStep
    PROVE  SerialInv'
<1> USE DEF PostOnly
<1>0. TypeOK
  BY DEF PostingInv
<1>a. /\ \A w \in Workers : worker[w] \in WorkerState /\ worker[w].cur \in Item
      /\ \A w \in Workers : \A item \in worker[w].todo : item \in Item
      /\ \A l \in Lines : row[l] \in Entry
  BY <1>0 DEF TypeOK, WorkerState
<1>b. \A w \in Workers : Unbooked(worker[w])
  BY DEF SerialInv, PendingIsUnbooked
<1>c. /\ AtMostOnce
      /\ UNCHANGED books => AtMostOnce' /\ \A l \in Lines : Booked(l)' <=> Booked(l)
      /\ UNCHANGED <<live, mirrored, rebuild, row>> => NeverRebuilt'
  BY DEF SerialInv, AtMostOnce, Booked, NeverRebuilt
<1>d. CreatedOnReply = {1} /\ CreatedOnError = {0}
  BY DEF Serial, CreatedOnReply, CreatedOnError
<1>e. ASSUME NEW w \in Workers, ~At(w, "record"), NEW l \in Lines, Booked(l)
      PROVE  row[l].qb # NoTxn
  BY <1>e DEF SerialInv, BookedIsRecorded, Serial, At
<1>f. ASSUME NEW w \in Workers
      PROVE  /\ worker[w].cur.line \in Lines
             /\ \A item \in worker[w].todo : item.line \in Lines
  BY <1>a DEF Item
<1>1. CASE MarkQuickBooksSyncRunning
  BY <1>1, <1>c, <1>f DEF MarkQuickBooksSyncRunning, SerialInv, BookedIsRecorded,
     PendingIsUnbooked, Unbooked
<1>2. ASSUME NEW w \in Workers, StartPosting(w)
      PROVE  SerialInv'
  <2>1. PICK todo : todo = {ItemOf(l) : l \in {k \in Lines : Postable(k)}}
    OBVIOUS
  <2>2. PICK state : state = [worker[w] EXCEPT !.pc = "next", !.todo = todo, !.took = todo,
                                               !.failed = FALSE]
    OBVIOUS
  <2>3. state.todo = todo /\ state.pc = "next"
    BY <2>2, <1>a DEF WorkerState
  <2>4. /\ Advance(w, state) /\ ~At(w, "record")
        /\ UNCHANGED <<live, mirrored, rebuild, row, books>>
    BY <1>2, <2>1, <2>2 DEF StartPosting, At
  <2>5. \A l \in Lines : Postable(l) => ItemOf(l).id = 1 /\ ItemOf(l).line = l /\ ~Booked(l)
    BY <1>e, <2>4 DEF ItemOf, Postable, SerialInv, NeverRebuilt
  <2>6. /\ \A item \in todo : item.line \in Lines /\ item.id = 1 /\ ~Booked(item.line)
        /\ \A i, j \in todo : i.line = j.line => i = j
    BY <2>1, <2>5
  <2>7. Unbooked(state)'
    BY <2>3, <2>4, <2>6, <1>c DEF Unbooked, Busy
  <2>8. \A l \in Lines : Booked(l)' => row'[l].qb # NoTxn
    BY <2>4, <1>c, <1>e
  <2> QED BY <1>0, <1>c, <2>4, <2>7, <2>8, OneWorker
\* Taking an item up: base is what the worker then holds but for the item.
<1>3. ASSUME NEW w \in Workers, NEW item \in worker[w].todo, NEW base \in WorkerState,
             Take(w, item, base), base.todo = worker[w].todo,
             UNCHANGED <<live, mirrored, rebuild, row>>, AtMostOnce',
             \/ /\ base.pc \in {"fail", "journal"}
                /\ \A l \in Lines : Booked(l)' <=> Booked(l)
             \/ /\ base.pc = "record"
                /\ \A l \in Lines : Booked(l)' <=> Booked(l) \/ l = item.line
      PROVE  SerialInv'
  <2>1. PICK state : state = [base EXCEPT !.todo = @ \ {item}, !.cur = item]
    OBVIOUS
  <2>2. state.todo = worker[w].todo \ {item} /\ state.cur = item /\ state.pc = base.pc
    BY <2>1, <1>3 DEF WorkerState
  <2>3. Advance(w, state) /\ ~At(w, "record")
    BY <1>3, <2>1 DEF Take, At
  <2>4. /\ item.id = 1 /\ ~Booked(item.line)
        /\ \A i \in state.todo : i.line # item.line /\ i.id = 1 /\ ~Booked(i.line)
        /\ \A i, j \in state.todo : i.line = j.line => i = j
    BY <2>2, <1>3, <1>b DEF Unbooked
  <2>5. /\ item.line \in Lines
        /\ \A i \in state.todo : i.line \in Lines /\ (Booked(i.line)' <=> Booked(i.line))
    BY <1>3, <1>f, <2>2, <2>4
  <2>6. Unbooked(state)'
    BY <1>3, <2>2, <2>4, <2>5 DEF Unbooked, Busy
  <2>7. \A l \in Lines : Booked(l)' =>
          row'[l].qb # NoTxn \/ (state.pc = "record" /\ state.cur.line = l)
    BY <1>3, <1>e, <2>2, <2>3
  <2> QED BY <1>0, <1>3, <1>c, <2>3, <2>6, <2>7, OneWorker
<1>4. ASSUME NEW w \in Workers, NEW item \in worker[w].todo,
             RejectUntyped(w, item) \/ RejectIncomplete(w, item) \/ PostTyped(w, item)
      PROVE  SerialInv'
  <2>1. PICK base \in WorkerState, n \in {0, 1} :
          /\ Take(w, item, base) /\ base.todo = worker[w].todo
          /\ n = 0 => base.pc \in {"fail", "journal"}
          /\ n = 1 => base.pc = "record"
          /\ (UNCHANGED books /\ n = 0) \/ Create(item, "typed", n)
    <3>1. CASE RejectUntyped(w, item)
      <4> DEFINE base == [worker[w] EXCEPT !.pc = "fail", !.failed = TRUE]
      <4>1. base \in WorkerState /\ base.todo = worker[w].todo /\ base.pc = "fail"
        BY <1>a DEF WorkerState, WorkerPc
      <4>2. Take(w, item, base) /\ UNCHANGED books
        BY <3>1 DEF RejectUntyped
      <4> HIDE DEF base
      <4> QED BY <4>1, <4>2
    <3>2. CASE RejectIncomplete(w, item) \/ PostTyped(w, item)
      <4> DEFINE fallback == [worker[w] EXCEPT !.pc = "journal"]
                 created == [worker[w] EXCEPT !.pc = "record", !.kind = "typed",
                                              !.txn = Len(books) + 1]
      <4>1. Len(books) + 1 \in Nat
        BY <1>0, LenProperties DEF TypeOK
      <4>2. /\ fallback \in WorkerState /\ fallback.todo = worker[w].todo
            /\ fallback.pc = "journal"
        BY <1>a DEF WorkerState, WorkerPc
      <4>3. created \in WorkerState /\ created.todo = worker[w].todo /\ created.pc = "record"
        BY <1>a, <4>1 DEF WorkerState, WorkerPc
      <4>4. \/ Take(w, item, fallback) /\ (UNCHANGED books \/ Create(item, "typed", 0))
            \/ Take(w, item, created) /\ Create(item, "typed", 1)
        BY <3>2, <1>d DEF RejectIncomplete, PostTyped
      <4> HIDE DEF fallback, created
      <4> QED BY <4>2, <4>3, <4>4
    <3> QED BY <1>4, <3>1, <3>2
  <2>2. UNCHANGED <<live, mirrored, rebuild, row>>
    BY <1>4 DEF RejectUntyped, RejectIncomplete, PostTyped
  <2>3. item \in Item /\ ~Booked(item.line)
    BY <1>a, <1>b DEF Unbooked
  <2>4. /\ AtMostOnce'
        /\ n = 0 => \A l \in Lines : Booked(l)' <=> Booked(l)
        /\ n = 1 => \A l \in Lines : Booked(l)' <=> Booked(l) \/ l = item.line
    BY <2>1, <2>3, <1>0, <1>c, BooksGrow
  <2> QED BY <2>1, <2>2, <2>4, <1>3
\* Going on with the same item.
<1>5. ASSUME NEW w \in Workers, NEW state \in WorkerState, Advance(w, state),
             state.todo = worker[w].todo, state.cur = worker[w].cur,
             worker[w].pc \in Busy, NeverRebuilt', AtMostOnce',
             \A l \in Lines : Booked(l)' =>
                 row'[l].qb # NoTxn \/ (state.pc = "record" /\ state.cur.line = l),
             \A l \in Lines : Booked(l)' => Booked(l) \/ l = worker[w].cur.line,
             state.pc \in {"journal", "fail", "failMirror"} => ~Booked(state.cur.line)'
      PROVE  SerialInv'
  <2>1. /\ \A item \in state.todo : item.line \in Lines /\ item.id = 1 /\ ~Booked(item.line)
        /\ \A i, j \in state.todo : i.line = j.line => i = j
        /\ state.cur.id = 1 /\ \A item \in state.todo : item.line # state.cur.line
    BY <1>5, <1>b, <1>f DEF Unbooked
  <2>2. Unbooked(state)'
    BY <1>5, <2>1 DEF Unbooked
  <2> QED BY <1>0, <1>5, <2>2, OneWorker
<1>6. ASSUME NEW w \in Workers, PostJournal(w)
      PROVE  SerialInv'
  <2>0. PICK item \in Item : item = worker[w].cur
    BY <1>a
  <2>1. Len(books) + 1 \in Nat
    BY <1>0, LenProperties DEF TypeOK
  <2>2. PICK state \in WorkerState, n \in {0, 1} :
          /\ Advance(w, state) /\ state.todo = worker[w].todo /\ state.cur = item
          /\ n = 0 => state.pc = "fail"
          /\ n = 1 => state.pc = "record"
          /\ Create(item, "journal", n)
    <3> DEFINE failed == [worker[w] EXCEPT !.pc = "fail", !.failed = TRUE]
               created == [worker[w] EXCEPT !.pc = "record", !.kind = "journal",
                                            !.txn = Len(books) + 1]
    <3>1. /\ failed \in WorkerState /\ failed.todo = worker[w].todo
          /\ failed.cur = item /\ failed.pc = "fail"
      BY <1>a, <2>0 DEF WorkerState, WorkerPc
    <3>2. /\ created \in WorkerState /\ created.todo = worker[w].todo
          /\ created.cur = item /\ created.pc = "record"
      BY <1>a, <2>0, <2>1 DEF WorkerState, WorkerPc
    <3>3. \/ Advance(w, failed) /\ Create(item, "journal", 0)
          \/ Advance(w, created) /\ Create(item, "journal", 1)
      BY <1>6, <1>d, <2>0 DEF PostJournal
    <3> HIDE DEF failed, created
    <3> QED BY <3>1, <3>2, <3>3
  <2>3. worker[w].pc = "journal" /\ UNCHANGED <<live, mirrored, rebuild, row>>
    BY <1>6 DEF PostJournal, At
  <2>4. ~Booked(item.line) /\ item.line \in Lines
    BY <2>0, <2>3, <1>b, <1>f DEF Unbooked
  <2>5. /\ AtMostOnce'
        /\ n = 0 => \A l \in Lines : Booked(l)' <=> Booked(l)
        /\ n = 1 => \A l \in Lines : Booked(l)' <=> Booked(l) \/ l = item.line
    BY <2>2, <2>4, <1>0, <1>c, BooksGrow
  <2>6. \A l \in Lines : Booked(l) => row'[l].qb # NoTxn
    BY <2>3, <1>e DEF At
  <2>7. state.pc = "fail" => ~Booked(state.cur.line)'
    <3>1. n = 0 => ~Booked(item.line)'
      BY <2>4, <2>5
    <3> QED BY <2>2, <3>1
  <2> QED BY <2>0, <2>2, <2>3, <2>5, <2>6, <2>7, <1>5, <1>c DEF Busy
<1>7. ASSUME NEW w \in Workers, NEW pc \in {"recordMirror", "next", "failMirror"},
             Advance(w, [worker[w] EXCEPT !.pc = pc]), UNCHANGED <<live, mirrored, rebuild, books>>,
             worker[w].pc \in Busy,
             pc = "failMirror" => worker[w].pc = "fail",
             \A l \in Lines : row'[l].id = row[l].id,
             \A l \in Lines : row[l].qb # NoTxn => row'[l].qb # NoTxn,
             worker[w].pc = "record" => row'[worker[w].cur.line].qb # NoTxn
      PROVE  SerialInv'
  <2>1. PICK state \in WorkerState :
          /\ state = [worker[w] EXCEPT !.pc = pc]
          /\ state.todo = worker[w].todo /\ state.cur = worker[w].cur /\ state.pc = pc
    <3> DEFINE state == [worker[w] EXCEPT !.pc = pc]
    <3>1. /\ state \in WorkerState /\ state.todo = worker[w].todo
          /\ state.cur = worker[w].cur /\ state.pc = pc
      BY <1>a DEF WorkerState, WorkerPc
    <3> QED BY <3>1
  <2>2. AtMostOnce' /\ \A l \in Lines : Booked(l)' <=> Booked(l)
    BY <1>7, <1>c
  <2>3. NeverRebuilt'
    BY <1>7 DEF SerialInv, NeverRebuilt
  <2>4. ASSUME NEW l \in Lines, Booked(l)
        PROVE  row'[l].qb # NoTxn
    BY <1>7, <2>4 DEF SerialInv, BookedIsRecorded, Serial
  <2>5. pc = "failMirror" => ~Booked(state.cur.line)'
    <3>1. PICK l \in Lines : l = worker[w].cur.line
      BY <1>f
    <3>2. pc = "failMirror" => ~Booked(l)'
      BY <3>1, <1>7, <1>b, <2>2 DEF Unbooked
    <3> QED BY <3>1, <3>2, <2>1
  <2> QED BY <1>7, <2>1, <2>2, <2>3, <2>4, <2>5, <1>5
<1>8. ASSUME NEW w \in Workers, RecordRow(w) \/ RecordMirror(w) \/ FailRow(w) \/ FailMirror(w)
      PROVE  SerialInv'
  <2>1. /\ UNCHANGED <<live, mirrored, rebuild, books>>
        /\ \E pc \in {"recordMirror", "next", "failMirror"} :
             /\ Advance(w, [worker[w] EXCEPT !.pc = pc])
             /\ pc = "failMirror" => worker[w].pc = "fail"
        /\ worker[w].pc \in Busy
    BY <1>8 DEF RecordRow, RecordMirror, FailRow, FailMirror, At, Busy
  <2>2. ASSUME NEW posting \in PostingStatus, NEW qb \in Nat,
               WriteRow(worker[w].cur, posting, qb)
        PROVE  \A l \in Lines :
                 /\ row'[l].id = row[l].id
                 /\ row'[l].qb = IF l = worker[w].cur.line /\ Finds(l, worker[w].cur.id)
                                 THEN qb ELSE row[l].qb
    BY <2>2, <1>0, <1>f DEF WriteRow, TypeOK, Entry
  <2>3. CASE RecordRow(w)
    <3>1. /\ worker[w].txn \in Nat /\ worker[w].txn # NoTxn /\ worker[w].pc = "record"
          /\ WriteRow(worker[w].cur, "posted", worker[w].txn)
      BY <2>3, <1>a DEF RecordRow, At, PostingInv, WorkersBacked, BackedBy, WorkerState, NoTxn
    <3>2. Finds(worker[w].cur.line, worker[w].cur.id)
      BY <3>1, <1>b, <1>f DEF Unbooked, Busy, Finds, SerialInv, NeverRebuilt
    <3>3. /\ \A l \in Lines : row'[l].id = row[l].id
          /\ \A l \in Lines : row[l].qb # NoTxn => row'[l].qb # NoTxn
          /\ row'[worker[w].cur.line].qb # NoTxn
      BY <3>1, <3>2, <2>2, <1>f DEF PostingStatus
    <3> QED BY <2>1, <3>3, <1>7
  <2>4. CASE FailRow(w)
    <3>1. /\ worker[w].pc = "fail" /\ row[worker[w].cur.line].qb \in Nat
          /\ WriteRow(worker[w].cur, "failed", row[worker[w].cur.line].qb)
      BY <2>4, <1>a, <1>f DEF FailRow, At, Entry
    <3>2. \A l \in Lines : row'[l].id = row[l].id /\ row'[l].qb = row[l].qb
      BY <3>1, <2>2 DEF PostingStatus
    <3> QED BY <2>1, <3>1, <3>2, <1>7
  <2>5. CASE RecordMirror(w) \/ FailMirror(w)
    <3>1. row' = row /\ worker[w].pc # "record"
      BY <2>5 DEF RecordMirror, FailMirror, At
    <3> QED BY <2>1, <3>1, <1>7
  <2> QED BY <1>8, <2>3, <2>4, <2>5
<1>9. ASSUME NEW w \in Workers, FinishPosting(w)
      PROVE  SerialInv'
  <2>1. /\ Advance(w, IdleWorker) /\ UNCHANGED <<live, mirrored, rebuild, row, books>> /\ ~At(w, "record")
    BY <1>9 DEF FinishPosting, At
  <2>2. PICK state : state = IdleWorker
    OBVIOUS
  <2>3. Unbooked(state)'
    BY <2>2 DEF Unbooked, Busy, IdleWorker
  <2>4. \A l \in Lines : Booked(l)' => row'[l].qb # NoTxn
    BY <2>1, <1>c, <1>e
  <2> QED BY <1>0, <1>c, <2>1, <2>2, <2>3, <2>4, OneWorker
<1>10. \A w \in Workers : ~RecordError(w) /\ ~AbortPosting(w) /\ ~CrashPosting(w)
  BY DEF Serial, RecordError, AbortPosting, CrashPosting
<1> QED BY <1>1, <1>2, <1>4, <1>6, <1>8, <1>9, <1>10 DEF PostStep

LEMMA SerialInvStep ==
    ASSUME Serial
    PROVE  PostingInv /\ SerialInv /\ [Next]_vars => SerialInv'
<1> SUFFICES ASSUME PostingInv, SerialInv, [Next]_vars PROVE SerialInv'
  OBVIOUS
<1>1. CASE UNCHANGED vars
  BY <1>1 DEF vars, postVars, SerialInv, AtMostOnce, BookedIsRecorded,
     PendingIsUnbooked, Unbooked, NeverRebuilt, Booked
<1> QED BY <1>1, SerialInvReview, SerialInvPost, SerialNoRebuild DEF Next, PostingInv

(* When deliveries of post_approved are serialised, nothing fails and the   *)
(* statement is not rebuilt, QuickBooks holds at most one transaction for   *)
(* a line, whatever reviewers and matching jobs do meanwhile.  Each of the  *)
(* three conditions is needed: runs with one of them dropped end in a       *)
(* duplicate.                                                               *)
THEOREM LedgerSerialAtMostOnce ==
    ASSUME Serial
    PROVE  Spec => []AtMostOnce
<1>1. SerialInv => AtMostOnce
  BY DEF SerialInv
<1>2. PostingInv /\ SerialInv /\ [Next]_vars => SerialInv'
  BY SerialInvStep
<1> QED BY <1>1, <1>2, PostingInvInit, PostingInvStep, SerialInvInit, PTL DEF Spec

-----------------------------------------------------------------------------
(* What a delivery does to its documents and to itself: each of its steps,  *)
(* reduced to what the three theorems below need of it.                     *)

Others(w) == \A v \in Workers : v # w => worker'[v] = worker[v]
Kept(w) ==
    /\ worker'[w].todo = worker[w].todo /\ worker'[w].took = worker[w].took
    /\ worker'[w].cur = worker[w].cur /\ worker'[w].txn = worker[w].txn
BooksGrowBy(item) ==
    \A i \in 1..Len(books') :
        \/ i \in 1..Len(books) /\ books'[i] = books[i]
        \/ books'[i].line = item.line /\ books'[i].content = item.content

Selects(w) ==
    /\ worker[w].pc = "idle" /\ worker'[w].pc = "next" /\ ~worker'[w].failed
    /\ worker'[w].todo = {ItemOf(l) : l \in {k \in Lines : Postable(k)}}
    /\ worker'[w].took = worker'[w].todo
    /\ UNCHANGED <<row, mirror, books>>
Takes(w) ==
    \E item \in worker[w].todo :
        /\ worker[w].pc = "next" /\ worker'[w].pc \in {"journal", "record", "fail"}
        /\ worker'[w].todo = worker[w].todo \ {item} /\ worker'[w].cur = item
        /\ worker'[w].took = worker[w].took
        /\ worker'[w].pc = "fail" \/ worker[w].failed => worker'[w].failed
        /\ BooksGrowBy(item) /\ UNCHANGED <<row, mirror>>
Turns(w) ==
    /\ worker[w].pc \in {"journal", "record", "recordMirror"}
    /\ worker'[w].pc \in {"journal", "record", "fail"}
    /\ worker[w].pc # "journal" => "dbWrite" \in Faults
    /\ worker'[w].todo = worker[w].todo /\ worker'[w].took = worker[w].took
    /\ worker'[w].cur = worker[w].cur
    /\ worker'[w].pc = "fail" \/ worker[w].failed => worker'[w].failed
    /\ BooksGrowBy(worker[w].cur) /\ UNCHANGED <<row, mirror>>
Writes(w, from, to) ==
    /\ worker[w].pc = from /\ worker'[w].pc = to
    /\ Kept(w) /\ worker'[w].failed = worker[w].failed /\ UNCHANGED books
Records(w) ==
    /\ Writes(w, "record", "recordMirror")
    /\ WriteRow(worker[w].cur, "posted", worker[w].txn) /\ UNCHANGED mirror
MirrorsRecord(w) ==
    /\ Writes(w, "recordMirror", "next")
    /\ WriteMirror(worker[w].cur, "posted", worker[w].txn) /\ UNCHANGED row
Fails(w) ==
    /\ Writes(w, "fail", "failMirror")
    /\ WriteRow(worker[w].cur, "failed", row[worker[w].cur.line].qb) /\ UNCHANGED mirror
MirrorsFailure(w) ==
    /\ Writes(w, "failMirror", "next")
    /\ WriteMirror(worker[w].cur, "failed", NoTxn) /\ UNCHANGED row
Ends(w) ==
    /\ worker'[w] = IdleWorker /\ UNCHANGED <<row, mirror, books>>
    /\ worker[w].pc # "next" => Faults \cap {"dbWrite", "crash"} # {}

Delivers(w) ==
    \/ Selects(w) \/ Takes(w) \/ Turns(w) \/ Records(w) \/ MirrorsRecord(w)
    \/ Fails(w) \/ MirrorsFailure(w) \/ Ends(w)

(* A call adds nothing but transactions of its item.                        *)
LEMMA AppendedOnly ==
    ASSUME books \in Seq(QbTxn), NEW item \in Item, NEW kind \in {"typed", "journal"},
           NEW n \in Nat, Create(item, kind, n)
    PROVE  BooksGrowBy(item)
<1>1. /\ Len(books') = Len(books) + n
      /\ \A i \in 1..Len(books) : books'[i] = books[i]
      /\ \A i \in (Len(books) + 1)..(Len(books) + n) :
           books'[i] = [line |-> item.line, content |-> item.content, kind |-> kind]
  BY CreateAppends
<1>2. Len(books) \in Nat
  BY LenProperties
<1>3. ASSUME NEW i \in 1..Len(books'), i \notin 1..Len(books)
      PROVE  i \in (Len(books) + 1)..(Len(books) + n)
  BY <1>1, <1>2, <1>3
<1> QED
  BY <1>1, <1>3 DEF BooksGrowBy

LEMMA AdvanceGives ==
    ASSUME TypeOK, NEW w \in Workers, NEW state, Advance(w, state)
    PROVE  worker'[w] = state /\ Others(w)
BY DEF Advance, TypeOK, Others

(* Every step of post_approved is one of these moves of one delivery.       *)
LEMMA DeliveryStep ==
    ASSUME TypeOK, PostStep
    PROVE  /\ UNCHANGED <<live, mirrored, rebuild, request, approvals>>
           /\ \/ UNCHANGED <<row, mirror, books, worker>>
              \/ \E w \in Workers : Others(w) /\ Delivers(w)
<1> USE DEF PostOnly, reviewVars
<1>a. \A w \in Workers : worker[w] \in WorkerState /\ worker[w].cur \in Item
        /\ worker[w].todo \subseteq Item
  BY DEF TypeOK, WorkerState
<1>b. books \in Seq(QbTxn) /\ Len(books) \in Nat
  BY LenProperties DEF TypeOK
<1>c. \A item : UNCHANGED books => BooksGrowBy(item)
  BY DEF BooksGrowBy
<1>1. CASE MarkQuickBooksSyncRunning
  BY <1>1 DEF MarkQuickBooksSyncRunning
<1>2. ASSUME NEW w \in Workers, StartPosting(w) PROVE Others(w) /\ Selects(w)
  <2> DEFINE todo == {ItemOf(l) : l \in {k \in Lines : Postable(k)}}
  <2> HIDE DEF todo
  <2>1. /\ worker'[w] = [worker[w] EXCEPT !.pc = "next", !.todo = todo, !.took = todo,
                                          !.failed = FALSE]
        /\ Others(w) /\ worker[w].pc = "idle" /\ UNCHANGED <<row, mirror, books>>
    BY <1>2, AdvanceGives DEF StartPosting, At, todo
  <2>2. /\ worker'[w].pc = "next" /\ worker'[w].todo = todo /\ worker'[w].took = todo
        /\ ~worker'[w].failed
    BY <2>1, <1>a DEF WorkerState
  <2> QED
    BY <2>1, <2>2 DEF Selects, todo
\* Taking up an item with what the call made of the worker.
<1>3. ASSUME NEW w \in Workers, NEW item \in worker[w].todo, NEW base, Take(w, item, base),
             \/ base = [worker[w] EXCEPT !.pc = "fail", !.failed = TRUE]
             \/ base = [worker[w] EXCEPT !.pc = "journal"]
             \/ \E n \in Nat : base = [worker[w] EXCEPT !.pc = "record", !.kind = "typed",
                                                        !.txn = Len(books) + n],
             BooksGrowBy(item), UNCHANGED <<row, mirror>>
      PROVE  Others(w) /\ Takes(w)
  <2>1. /\ base \in WorkerState /\ base.todo = worker[w].todo /\ base.took = worker[w].took
        /\ base.pc \in {"journal", "record", "fail"}
        /\ base.pc = "fail" \/ worker[w].failed => base.failed
    <3>1. worker[w] \in WorkerState
      BY <1>a
    <3>2. CASE base = [worker[w] EXCEPT !.pc = "fail", !.failed = TRUE]
      BY <3>1, <3>2 DEF WorkerState, WorkerPc
    <3>3. CASE base = [worker[w] EXCEPT !.pc = "journal"]
      BY <3>1, <3>3 DEF WorkerState, WorkerPc
    <3>4. ASSUME NEW t \in Nat,
                 base = [worker[w] EXCEPT !.pc = "record", !.kind = "typed", !.txn = t]
          PROVE  /\ base \in WorkerState /\ base.todo = worker[w].todo
                 /\ base.took = worker[w].took /\ base.pc = "record"
                 /\ worker[w].failed => base.failed
      BY <3>1, <3>4 DEF WorkerState, WorkerPc
    <3>5. \A n \in Nat : Len(books) + n \in Nat
      BY <1>b
    <3> QED
      BY <1>3, <3>2, <3>3, <3>4, <3>5
  <2>2. /\ worker'[w] = [base EXCEPT !.todo = base.todo \ {item}, !.cur = item] /\ Others(w)
        /\ worker[w].pc = "next"
    BY <1>3, AdvanceGives DEF Take, At
  <2>3. /\ worker'[w].todo = worker[w].todo \ {item} /\ worker'[w].cur = item
        /\ worker'[w].took = worker[w].took /\ worker'[w].pc = base.pc
        /\ worker'[w].failed = base.failed
    BY <2>1, <2>2 DEF WorkerState
  <2> QED
    BY <1>3, <2>1, <2>2, <2>3 DEF Takes
<1>4. ASSUME NEW w \in Workers, NEW item \in worker[w].todo,
             RejectUntyped(w, item) \/ RejectIncomplete(w, item)
      PROVE  Others(w) /\ Takes(w)
  BY <1>4, <1>3, <1>c DEF RejectUntyped, RejectIncomplete
<1>5. ASSUME NEW w \in Workers, NEW item \in worker[w].todo, PostTyped(w, item)
      PROVE  Others(w) /\ Takes(w)
  <2>1. PICK n \in Nat :
          /\ Create(item, "typed", n)
          /\ \/ Take(w, item, [worker[w] EXCEPT !.pc = "record", !.kind = "typed",
                                                !.txn = Len(books) + n])
             \/ Take(w, item, [worker[w] EXCEPT !.pc = "journal"])
    BY <1>5, CreatedTypes DEF PostTyped
  <2>2. BooksGrowBy(item)
    BY <2>1, <1>a, <1>b, AppendedOnly
  <2> QED
    BY <1>5, <2>1, <2>2, <1>3 DEF PostTyped
<1>6. ASSUME NEW w \in Workers, PostJournal(w) PROVE Others(w) /\ Turns(w)
  <2>0. PICK n \in Nat :
          /\ Create(worker[w].cur, "journal", n)
          /\ \/ Advance(w, [worker[w] EXCEPT !.pc = "record", !.kind = "journal",
                                             !.txn = Len(books) + n])
             \/ Advance(w, [worker[w] EXCEPT !.pc = "fail", !.failed = TRUE])
    BY <1>6, CreatedTypes DEF PostJournal
  <2>1. PICK base :
          /\ Advance(w, base)
          /\ \/ base = [worker[w] EXCEPT !.pc = "record", !.kind = "journal",
                                         !.txn = Len(books) + n]
             \/ base = [worker[w] EXCEPT !.pc = "fail", !.failed = TRUE]
    BY <2>0
  <2>2. BooksGrowBy(worker[w].cur)
    BY <2>0, <1>a, <1>b, AppendedOnly
  <2>3. /\ base.todo = worker[w].todo /\ base.took = worker[w].took /\ base.cur = worker[w].cur
        /\ base.pc \in {"record", "fail"}
        /\ base.pc = "fail" \/ worker[w].failed => base.failed
    BY <2>1, <1>a DEF WorkerState
  <2>4. worker'[w] = base /\ Others(w)
    BY <2>1, AdvanceGives
  <2>5. worker[w].pc = "journal" /\ UNCHANGED <<row, mirror>>
    BY <1>6 DEF PostJournal, At
  <2> QED
    BY <2>2, <2>3, <2>4, <2>5 DEF Turns
<1>7. ASSUME NEW w \in Workers, RecordError(w) PROVE Others(w) /\ Turns(w)
  <2>1. PICK base :
          /\ Advance(w, base)
          /\ \/ base = [worker[w] EXCEPT !.pc = "journal"]
             \/ base = [worker[w] EXCEPT !.pc = "fail", !.failed = TRUE]
    BY <1>7 DEF RecordError
  <2>2. /\ base.todo = worker[w].todo /\ base.took = worker[w].took /\ base.cur = worker[w].cur
        /\ base.pc \in {"journal", "fail"}
        /\ base.pc = "fail" \/ worker[w].failed => base.failed
    BY <2>1, <1>a DEF WorkerState
  <2>3. worker'[w] = base /\ Others(w)
    BY <2>1, AdvanceGives
  <2> QED
    BY <1>7, <1>c, <2>2, <2>3 DEF RecordError, Turns
<1>8. ASSUME NEW w \in Workers, NEW pc \in WorkerPc, Advance(w, [worker[w] EXCEPT !.pc = pc])
      PROVE  Others(w) /\ Kept(w) /\ worker'[w].pc = pc /\ worker'[w].failed = worker[w].failed
  <2>1. worker'[w] = [worker[w] EXCEPT !.pc = pc] /\ Others(w)
    BY <1>8, AdvanceGives
  <2> QED
    BY <2>1, <1>a DEF WorkerState, Kept
<1>9. ASSUME NEW w \in Workers, RecordRow(w) PROVE Others(w) /\ Records(w)
  BY <1>9, <1>8 DEF RecordRow, Records, Writes, At, WorkerPc
<1>10. ASSUME NEW w \in Workers, RecordMirror(w) PROVE Others(w) /\ MirrorsRecord(w)
  BY <1>10, <1>8 DEF RecordMirror, MirrorsRecord, Writes, At, WorkerPc
<1>11. ASSUME NEW w \in Workers, FailRow(w) PROVE Others(w) /\ Fails(w)
  BY <1>11, <1>8 DEF FailRow, Fails, Writes, At, WorkerPc
<1>12. ASSUME NEW w \in Workers, FailMirror(w) PROVE Others(w) /\ MirrorsFailure(w)
  BY <1>12, <1>8 DEF FailMirror, MirrorsFailure, Writes, At, WorkerPc
<1>13. ASSUME NEW w \in Workers, FinishPosting(w) \/ AbortPosting(w) \/ CrashPosting(w)
       PROVE  Others(w) /\ Ends(w)
  BY <1>13, AdvanceGives DEF FinishPosting, AbortPosting, CrashPosting, Ends, At
<1>14. UNCHANGED <<live, mirrored, rebuild, request, approvals>>
  BY DEF PostStep, MarkQuickBooksSyncRunning, StartPosting, RejectUntyped, RejectIncomplete,
     PostTyped, PostJournal, RecordRow, RecordMirror, RecordError, FailRow, FailMirror,
     FinishPosting, AbortPosting, CrashPosting
<1> HIDE DEF PostOnly, reviewVars
<1> QED
  BY <1>1, <1>2, <1>4, <1>5, <1>6, <1>7, <1>9, <1>10, <1>11, <1>12, <1>13, <1>14
     DEF PostStep, Delivers

-----------------------------------------------------------------------------
(* One review request at a time.                                            *)

OneReviewer == \A r, s \in Requests : r = s

(* An open request has read the document as it still is, or the document    *)
(* was created anew since.                                                  *)
Matches == {"matchBoth", "matchRow", "matchMirror"}
Refreshes == {"refreshMirror", "refreshRow"}
RequestFresh ==
    \A r \in Requests :
        /\ request[r].pc \in Refreshes => "refresh" \in Handlers
        /\ request[r].pc \in Matches => "match" \in Handlers /\ request[r].new.review = "proposed"
        /\ request[r].id <= mirror[request[r].line].id
        /\ request[r].pc \in {"loaded", "saved"} => request[r].id <= row[request[r].line].id
        /\ request[r].pc = "loaded" /\ request[r].id = row[request[r].line].id =>
             request[r].loaded = DecisionOf(row[request[r].line])
        /\ request[r].pc = "refreshMirror" /\ request[r].id = mirror[request[r].line].id =>
             request[r].loaded = DecisionOf(mirror[request[r].line])

(* What a request does to the documents and to itself.                      *)
RowDecided(l, id, d) ==
    \A k \in Lines :
        DecisionOf(row'[k]) = IF k = l /\ Finds(l, id) THEN d ELSE DecisionOf(row[k])
MirrorDecided(l, id, d) ==
    \A k \in Lines :
        DecisionOf(mirror'[k]) = IF k = l /\ FindsMirror(l, id) THEN d ELSE DecisionOf(mirror[k])
Goes(r, pc) ==
    /\ request'[r].pc = pc /\ request'[r].line = request[r].line
    /\ request'[r].id = request[r].id /\ request'[r].new = request[r].new
Closes(r) == request'[r] = IdleRequest

Opens(r) ==
    /\ request[r].pc = "idle" /\ UNCHANGED <<row, mirror, approvals>>
    /\ request'[r].line \in Lines
    /\ \/ /\ request'[r].pc = "loaded" /\ request'[r].id = row[request'[r].line].id
          /\ request'[r].loaded = DecisionOf(row[request'[r].line])
       \/ /\ request'[r].pc = "matchBoth" /\ "match" \in Handlers
          /\ request'[r].id = mirror[request'[r].line].id
          /\ request'[r].new.review = "proposed"
       \/ /\ request'[r].pc = "refreshMirror" /\ "refresh" \in Handlers
          /\ request'[r].id = mirror[request'[r].line].id
          /\ request'[r].loaded = DecisionOf(mirror[request'[r].line])
          /\ request'[r].new.review = mirror[request'[r].line].review
BulkApproves(r) ==
    \E l \in live : \E d \in Decision :
        /\ request[r].pc = "idle" /\ "bulk" \in Handlers /\ UNCHANGED <<request, mirror>>
        /\ RowDecided(l, row[l].id, d)
        /\ approvals' = approvals \cup {<<l, d.proposal.content>>}
Saves(r) ==
    /\ request[r].pc = "loaded" /\ UNCHANGED mirror
    /\ RowDecided(request[r].line, request[r].id, request[r].new)
    /\ \/ /\ Finds(request[r].line, request[r].id) /\ Goes(r, "saved")
          /\ approvals \subseteq approvals'
          /\ request[r].new.review = "approved" =>
               <<request[r].line, request[r].new.proposal.content>> \in approvals'
       \/ ~Finds(request[r].line, request[r].id) /\ Closes(r) /\ UNCHANGED approvals
MirrorsDecision(r) ==
    /\ request[r].pc = "saved" /\ Closes(r) /\ UNCHANGED <<row, approvals>>
    /\ MirrorDecided(request[r].line, request[r].id, request[r].new)
MatchesRow(r) ==
    /\ UNCHANGED <<mirror, approvals>>
    /\ RowDecided(request[r].line, request[r].id, request[r].new)
    /\ \/ request[r].pc = "matchBoth" /\ Goes(r, "matchMirror")
       \/ request[r].pc = "matchRow" /\ Closes(r)
MatchesMirror(r) ==
    /\ UNCHANGED <<row, approvals>>
    /\ MirrorDecided(request[r].line, request[r].id, request[r].new)
    /\ \/ request[r].pc = "matchBoth" /\ Goes(r, "matchRow")
       \/ request[r].pc = "matchMirror" /\ Closes(r)
RefreshesMirror(r) ==
    /\ request[r].pc = "refreshMirror" /\ UNCHANGED <<row, approvals>>
    /\ MirrorDecided(request[r].line, request[r].id, request[r].new)
    /\ \/ FindsMirror(request[r].line, request[r].id) /\ Goes(r, "refreshRow")
       \/ ~FindsMirror(request[r].line, request[r].id) /\ Closes(r)
RefreshesRow(r) ==
    /\ request[r].pc = "refreshRow" /\ Closes(r) /\ UNCHANGED <<mirror, approvals>>
    /\ RowDecided(request[r].line, request[r].id,
                  [review |-> row[request[r].line].review, proposal |-> request[r].new.proposal])
Abandons(r) == "crash" \in Faults /\ Closes(r) /\ UNCHANGED <<row, mirror, approvals>>

Reviews(r) ==
    \/ Opens(r) \/ BulkApproves(r) \/ Saves(r) \/ MirrorsDecision(r) \/ MatchesRow(r)
    \/ MatchesMirror(r) \/ RefreshesMirror(r) \/ RefreshesRow(r) \/ Abandons(r)

(* A save or an update leaves the decision that was to be written.          *)
LEMMA DecisionWritten ==
    ASSUME NEW e \in Entry, NEW d \in Decision
    PROVE  DecisionOf(Overwritten(e, d)) = d /\ DecisionOf(Saved(e, DecisionOf(e), d)) = d
<1>1. DecisionOf(Overwritten(e, d)) = [review |-> d.review, proposal |-> d.proposal]
  BY DEF Overwritten, DecisionOf, Entry
<1>2. DecisionOf(Saved(e, DecisionOf(e), d)) = [review |-> d.review, proposal |-> d.proposal]
  BY DEF Saved, SaveField, DecisionOf, Entry
<1>3. d = [review |-> d.review, proposal |-> d.proposal]
  BY DEF Decision
<1> QED
  BY <1>1, <1>2, <1>3

(* The parts of a request, typed.                                           *)
LEMMA RequestParts ==
    ASSUME TypeOK, NEW r \in Requests
    PROVE  /\ request[r] \in RequestState /\ request[r].line \in Lines
           /\ request[r].loaded \in Decision /\ request[r].new \in Decision
           /\ request[r].id \in Nat
BY DEF TypeOK, RequestState

(* Writing one document.                                                    *)
LEMMA OneDecided ==
    ASSUME TypeOK, NEW l \in Lines, NEW id, NEW d \in Decision
    PROVE  /\ row' = (IF Finds(l, id) THEN [row EXCEPT ![l] = Overwritten(@, d)] ELSE row)
                => RowDecided(l, id, d)
           /\ mirror' = (IF FindsMirror(l, id) THEN [mirror EXCEPT ![l] = Overwritten(@, d)]
                         ELSE mirror) => MirrorDecided(l, id, d)
BY DecisionWritten DEF TypeOK, RowDecided, MirrorDecided

(* With one reviewer, every review step is one of these moves of it.        *)
LEMMA Reviewed ==
    ASSUME OneReviewer, TypeOK, RequestFresh, ReviewStep
    PROVE  \E r \in Requests : Reviews(r)
<1>a. \A k \in Lines : row[k] \in Entry /\ mirror[k] \in Entry
  BY DEF TypeOK
<1>1. ASSUME NEW r \in Requests, NEW pc, NEW l \in Lines, NEW e \in {row[l], mirror[l]},
             NEW new, Start(r, pc, l, e, new), Idle(r), UNCHANGED <<row, mirror, approvals>>,
             \/ pc = "loaded" /\ e = row[l]
             \/ /\ pc = "matchBoth" /\ e = mirror[l] /\ "match" \in Handlers
                /\ new.review = "proposed"
             \/ /\ pc = "refreshMirror" /\ e = mirror[l] /\ "refresh" \in Handlers
                /\ new.review = mirror[l].review
      PROVE  Opens(r)
  <2>1. request'[r] = [pc |-> pc, line |-> l, id |-> e.id, loaded |-> DecisionOf(e),
                       new |-> new]
    BY <1>1 DEF Start, TypeOK
  <2> QED
    BY <1>1, <2>1 DEF Opens, Idle
<1>2. ASSUME NEW r \in Requests, NEW l \in Lines, UpdateLedgerEntry(r, l)
      PROVE  Opens(r)
  <2>1. PICK new : Start(r, "loaded", l, row[l], new)
    BY <1>2 DEF UpdateLedgerEntry
  <2> QED
    BY <1>1, <1>2, <2>1 DEF UpdateLedgerEntry
<1>3. ASSUME NEW r \in Requests, NEW l \in Lines,
             ApproveLedgerEntry(r, l) \/ ExcludeLedgerEntry(r, l)
      PROVE  Opens(r)
  <2>1. PICK s : Decide(r, l, s)
    BY <1>3 DEF ApproveLedgerEntry, ExcludeLedgerEntry
  <2>2. PICK new : Start(r, "loaded", l, row[l], new)
    BY <2>1 DEF Decide
  <2>3. Idle(r) /\ l \in live
    BY <1>3 DEF ApproveLedgerEntry, ExcludeLedgerEntry
  <2> QED
    BY <1>1, <2>1, <2>2, <2>3 DEF Decide
<1>4. ASSUME NEW r \in Requests, NEW l \in Lines, StartMatch(r, l)
      PROVE  Opens(r)
  <2>1. PICK c \in Matched :
          Start(r, "matchBoth", l, mirror[l],
                [review |-> "proposed", proposal |-> [content |-> c, status |-> "proposed"]])
    BY <1>4 DEF StartMatch
  <2> QED
    BY <1>1, <1>4, <2>1 DEF StartMatch
<1>5. ASSUME NEW r \in Requests, NEW l \in Lines, BulkApproveLedgerEntry(r, l)
      PROVE  BulkApproves(r)
  <2> DEFINE d == [review |-> "approved",
                   proposal |-> [row[l].proposal EXCEPT !.status = "approved"]]
  <2>1. d \in Decision /\ d.proposal.content = row[l].proposal.content
    BY <1>a DEF Decision, Entry, Proposal, ReviewStatus
  <2>2. l \in live /\ Finds(l, row[l].id)
    BY <1>5 DEF BulkApproveLedgerEntry, Finds
  <2>3. row' = [row EXCEPT ![l] = Overwritten(@, d)]
    BY <1>5 DEF BulkApproveLedgerEntry
  <2> HIDE DEF d
  <2>4. RowDecided(l, row[l].id, d)
    BY <2>1, <2>2, <2>3, OneDecided
  <2> QED
    BY <1>5, <2>1, <2>2, <2>4 DEF BulkApproveLedgerEntry, BulkApproves, Idle
\* Going on and ending, for the only reviewer.
<1>6. ASSUME NEW r \in Requests, NEW pc
      PROVE  (Proceed(r, pc) => Goes(r, pc)) /\ (EndRequest(r) => Closes(r))
  BY RequestParts DEF Proceed, EndRequest, Goes, Closes, TypeOK, RequestState
<1>7. ASSUME NEW r \in Requests, SaveLedgerEntry(r)
      PROVE  Saves(r)
  <2>1. CASE Finds(request[r].line, request[r].id)
    <3>1. row' = [row EXCEPT ![request[r].line]
                    = Saved(@, request[r].loaded, request[r].new)]
      BY <1>7, <2>1 DEF SaveLedgerEntry
    <3>2. request[r].loaded = DecisionOf(row[request[r].line])
      BY <1>7, <2>1 DEF SaveLedgerEntry, RequestFresh, Finds
    <3>3. RowDecided(request[r].line, request[r].id, request[r].new)
      BY <2>1, <3>1, <3>2, RequestParts, DecisionWritten DEF RowDecided, TypeOK
    <3> QED
      BY <1>7, <2>1, <3>3, <1>6 DEF SaveLedgerEntry, Saves
  <2>2. CASE ~Finds(request[r].line, request[r].id)
    BY <1>7, <2>2, <1>6 DEF SaveLedgerEntry, Saves, RowDecided
  <2> QED
    BY <2>1, <2>2
<1>8. ASSUME NEW r \in Requests, MirrorDecision(r) \/ MatchRow(r) \/ MatchMirror(r)
      PROVE  MirrorsDecision(r) \/ MatchesRow(r) \/ MatchesMirror(r)
  <2>1. CASE MirrorDecision(r)
    BY <2>1, <1>6, RequestParts, OneDecided DEF MirrorDecision, MirrorsDecision
  <2>2. CASE MatchRow(r)
    BY <2>2, <1>6, RequestParts, OneDecided DEF MatchRow, MatchesRow, ProceedOrEnd
  <2>3. CASE MatchMirror(r)
    BY <2>3, <1>6, RequestParts, OneDecided DEF MatchMirror, MatchesMirror, ProceedOrEnd
  <2> QED
    BY <1>8, <2>1, <2>2, <2>3
<1>9. ASSUME NEW r \in Requests, AbandonRequest(r)
      PROVE  Abandons(r)
  BY <1>9, <1>6 DEF AbandonRequest, Abandons
<1>10. ASSUME NEW r \in Requests, NEW l \in Lines, StartRefresh(r, l)
       PROVE  Opens(r)
  <2>1. PICK c \in Matched :
          Start(r, "refreshMirror", l, mirror[l],
                [review |-> mirror[l].review,
                 proposal |-> [content |-> c, status |-> "proposed"]])
    BY <1>10 DEF StartRefresh
  <2> QED
    BY <1>1, <1>10, <2>1 DEF StartRefresh
<1>11. ASSUME NEW r \in Requests, RefreshMirror(r)
       PROVE  RefreshesMirror(r)
  <2>1. CASE FindsMirror(request[r].line, request[r].id)
    <3>1. mirror' = [mirror EXCEPT ![request[r].line]
                       = Saved(@, request[r].loaded, request[r].new)]
      BY <1>11, <2>1 DEF RefreshMirror
    <3>2. request[r].loaded = DecisionOf(mirror[request[r].line])
      BY <1>11, <2>1 DEF RefreshMirror, RequestFresh, FindsMirror
    <3>3. MirrorDecided(request[r].line, request[r].id, request[r].new)
      BY <2>1, <3>1, <3>2, RequestParts, DecisionWritten DEF MirrorDecided, TypeOK
    <3> QED
      BY <1>11, <2>1, <3>3, <1>6 DEF RefreshMirror, RefreshesMirror
  <2>2. CASE ~FindsMirror(request[r].line, request[r].id)
    BY <1>11, <2>2, <1>6 DEF RefreshMirror, RefreshesMirror, MirrorDecided
  <2> QED
    BY <2>1, <2>2
<1>12. ASSUME NEW r \in Requests, RefreshRow(r)
       PROVE  RefreshesRow(r)
  <2>1. request[r].line \in Lines
    BY RequestParts
  <2>2. \A e \in Entry : DecisionOf([e EXCEPT !.proposal = request[r].new.proposal])
          = [review |-> e.review, proposal |-> request[r].new.proposal]
    BY DEF Entry, DecisionOf
  <2>3. \A k \in Lines : row'[k] =
          IF k = request[r].line /\ Finds(request[r].line, request[r].id)
          THEN [row[k] EXCEPT !.proposal = request[r].new.proposal] ELSE row[k]
    BY <1>12, <2>1 DEF RefreshRow, TypeOK
  <2>4. RowDecided(request[r].line, request[r].id,
          [review |-> row[request[r].line].review, proposal |-> request[r].new.proposal])
    BY <1>a, <2>2, <2>3 DEF RowDecided
  <2> QED
    BY <1>12, <1>6, <2>4 DEF RefreshRow, RefreshesRow
<1> QED
  BY <1>2, <1>3, <1>4, <1>5, <1>7, <1>8, <1>9, <1>10, <1>11, <1>12, Zenon
     DEF ReviewStep, Reviews

(* A delivery never touches an id or a decision.                            *)
LEMMA DeliveryFrame ==
    ASSUME TypeOK, PostStep
    PROVE  /\ UNCHANGED <<live, mirrored, rebuild, request, approvals>>
           /\ \A l \in Lines :
                /\ row'[l].id = row[l].id /\ DecisionOf(row'[l]) = DecisionOf(row[l])
                /\ mirror'[l].id = mirror[l].id
                /\ DecisionOf(mirror'[l]) = DecisionOf(mirror[l])
<1>a. \A l \in Lines : row[l] \in Entry /\ mirror[l] \in Entry
  BY DEF TypeOK
<1>b. \A w \in Workers : worker[w].cur.line \in Lines
  BY DEF TypeOK, WorkerState, Item
<1> DEFINE Posted(e, posting, qb) == [e EXCEPT !.posting = posting, !.qb = qb]
           Same(e, f) == f.id = e.id /\ DecisionOf(f) = DecisionOf(e)
<1>1. \A e \in Entry : Same(e, e) /\ \A posting, qb : Same(e, Posted(e, posting, qb))
  BY DEF Entry, DecisionOf
<1>2. ASSUME NEW item, item.line \in Lines, NEW posting, NEW qb
      PROVE  /\ WriteRow(item, posting, qb) => \A l \in Lines : Same(row[l], row'[l])
             /\ WriteMirror(item, posting, qb) => \A l \in Lines : Same(mirror[l], mirror'[l])
  <2>1. WriteRow(item, posting, qb) => \A l \in Lines :
          row'[l] \in {row[l], Posted(row[l], posting, qb)}
    BY <1>2 DEF WriteRow, TypeOK
  <2>2. WriteMirror(item, posting, qb) => \A l \in Lines :
          mirror'[l] \in {mirror[l], Posted(mirror[l], posting, qb)}
    BY <1>2 DEF WriteMirror, TypeOK
  <2> HIDE DEF Posted, Same
  <2> QED
    BY <1>1, <1>a, <2>1, <2>2
<1>3. ASSUME NEW w \in Workers, Delivers(w)
      PROVE  /\ row' = row \/ \E posting, qb : WriteRow(worker[w].cur, posting, qb)
             /\ mirror' = mirror \/ \E posting, qb : WriteMirror(worker[w].cur, posting, qb)
  BY <1>3 DEF Delivers, Selects, Takes, Turns, Records, MirrorsRecord, Fails,
     MirrorsFailure, Ends
<1>4. /\ UNCHANGED <<live, mirrored, rebuild, request, approvals>>
      /\ UNCHANGED <<row, mirror>> \/ \E w \in Workers : Delivers(w)
  BY DeliveryStep
<1>5. \A l \in Lines : Same(row[l], row'[l]) /\ Same(mirror[l], mirror'[l])
  <2> HIDE DEF Same
  <2> QED
    BY <1>1, <1>2, <1>3, <1>4, <1>a, <1>b
<1> QED
  BY <1>4, <1>5

LEMMA RequestFreshInit == Init => RequestFresh
<1> SUFFICES ASSUME Init PROVE RequestFresh
  OBVIOUS
<1>1. \A l \in Lines : row[l].id = 1
  BY DEF Init, FreshEntry
<1>2. NoItem.line \in Lines
  BY IdleTypes DEF Item
<1> QED
  BY <1>1, <1>2 DEF Init, RequestFresh, IdleRequest, Matches, Refreshes

(* The only open request stays fresh: nobody else writes what it has read.  *)
LEMMA RequestFreshReview ==
    ASSUME OneReviewer, PostingInv, RequestFresh, ReviewStep
    PROVE  RequestFresh'
<1>0. TypeOK
  BY DEF PostingInv
<1>1. \A l \in Lines : row'[l].id = row[l].id /\ mirror'[l].id = mirror[l].id
  BY <1>0, ReviewFrame
<1>2. PICK r \in Requests : Reviews(r)
  BY <1>0, Reviewed
<1>3. request[r].line \in Lines /\ request[r].id \in Nat
  BY <1>0, RequestParts
<1>4. /\ NoItem.line \in Lines
      /\ \A l \in Lines : row[l].id \in Nat /\ mirror[l].id \in Nat /\ row[l].id <= mirror[l].id
  BY <1>0, IdleTypes DEF Item, TypeOK, Entry, PostingInv, RebuildInv, Paired
<1>5. /\ request[r].id <= mirror[request[r].line].id
      /\ request[r].pc \in {"loaded", "saved"} => request[r].id <= row[request[r].line].id
      /\ request[r].pc \in Matches => "match" \in Handlers /\ request[r].new.review = "proposed"
      /\ request[r].pc \in Refreshes => "refresh" \in Handlers
  BY DEF RequestFresh
<1>7. /\ request'[r].pc \in Refreshes => "refresh" \in Handlers
      /\ request'[r].pc \in Matches => "match" \in Handlers /\ request'[r].new.review = "proposed"
      /\ request'[r].id <= mirror'[request'[r].line].id
      /\ request'[r].pc \in {"loaded", "saved"} => request'[r].id <= row'[request'[r].line].id
      /\ request'[r].pc = "loaded" /\ request'[r].id = row'[request'[r].line].id =>
           request'[r].loaded = DecisionOf(row'[request'[r].line])
      /\ request'[r].pc = "refreshMirror" /\ request'[r].id = mirror'[request'[r].line].id =>
           request'[r].loaded = DecisionOf(mirror'[request'[r].line])
  <2>1. CASE Opens(r)
    BY <2>1, <1>4 DEF Opens, Matches, Refreshes
  <2>2. CASE Closes(r)
    BY <2>2, <1>1, <1>4 DEF Closes, IdleRequest, Matches, Refreshes
  <2>3. CASE \/ request[r].pc = "loaded" /\ Goes(r, "saved")
             \/ request[r].pc = "matchBoth" /\ Goes(r, "matchMirror")
             \/ request[r].pc = "matchBoth" /\ Goes(r, "matchRow")
             \/ request[r].pc = "refreshMirror" /\ Goes(r, "refreshRow")
    BY <2>3, <1>1, <1>3, <1>5 DEF Goes, Matches, Refreshes
  <2>4. CASE BulkApproves(r)
    BY <2>4, <1>1, <1>3, <1>5 DEF BulkApproves, Matches, Refreshes
  <2> QED
    BY <1>2, <2>1, <2>2, <2>3, <2>4 DEF Reviews, Saves, MirrorsDecision, MatchesRow,
       MatchesMirror, RefreshesMirror, RefreshesRow, Abandons
<1>8. \A s \in Requests : s = r
  BY DEF OneReviewer
<1> QED
  BY <1>7, <1>8 DEF RequestFresh

LEMMA RequestFreshStep ==
    ASSUME OneReviewer
    PROVE  PostingInv /\ RequestFresh /\ [Next]_vars => RequestFresh'
<1> SUFFICES ASSUME PostingInv, RequestFresh, [Next]_vars PROVE RequestFresh'
  OBVIOUS
<1>0. TypeOK
  BY DEF PostingInv
<1>1. \A r \in Requests : request[r].line \in Lines /\ request[r].id \in Nat
  BY <1>0, RequestParts
<1>2. \A l \in Lines : row[l].id \in Nat /\ mirror[l].id \in Nat
  BY <1>0 DEF TypeOK, Entry
<1>3. CASE PostStep
  BY <1>0, <1>3, <1>1, DeliveryFrame DEF RequestFresh
<1>4. CASE RebuildStep
  <2>1. /\ request' = request
        /\ \A l \in Lines : row'[l] = row[l] \/ row[l].id < row'[l].id
        /\ \A l \in Lines : mirror'[l] = mirror[l] \/ mirror'[l].id = mirror[l].id + 1
    BY <1>0, <1>4, RebuildFrame DEF reviewVars, PostingInv
  <2>2. \A l \in Lines : row'[l].id \in Nat
    BY <1>0, <1>4, TypeRebuild DEF TypeOK, Entry
  <2> QED
    BY <2>1, <2>2, <1>1, <1>2 DEF RequestFresh
<1>5. CASE UNCHANGED vars
  BY <1>5 DEF vars, reviewVars, RequestFresh
<1> QED
  BY <1>3, <1>4, <1>5, RequestFreshReview DEF Next

-----------------------------------------------------------------------------
(* What is approved, selected and sent.                                     *)

ApprovedKnown ==
    \A l \in Lines : row[l].review = "approved" => <<l, row[l].proposal.content>> \in approvals
Approved(item) == <<item.line, item.content>> \in approvals
SelectedKnown ==
    \A w \in Workers :
        /\ \A item \in worker[w].todo : Approved(item)
        /\ worker[w].pc \in Busy => Approved(worker[w].cur)
ApprovalInv == RequestFresh /\ ApprovedKnown /\ SelectedKnown /\ OnlyApprovedPosted

LEMMA ApprovalInvInit == Init => ApprovalInv
<1> SUFFICES ASSUME Init PROVE ApprovalInv
  OBVIOUS
<1>1. ApprovedKnown
  BY DEF Init, ApprovedKnown, FreshEntry
<1>2. SelectedKnown
  BY DEF Init, SelectedKnown, IdleWorker, Busy
<1>3. OnlyApprovedPosted
  BY DEF Init, OnlyApprovedPosted
<1> QED
  BY <1>1, <1>2, <1>3, RequestFreshInit DEF ApprovalInv

(* A decision that approves is known before it is written.                  *)
LEMMA ApprovalInvReview ==
    ASSUME OneReviewer, "refresh" \notin Handlers, TypeOK, ApprovalInv, ReviewStep
    PROVE  ApprovedKnown' /\ approvals \subseteq approvals'
<1>1. PICK r \in Requests : Reviews(r)
  BY Reviewed DEF ApprovalInv
<1>2. request[r].line \in Lines /\ request[r].new \in Decision
  BY RequestParts
<1>a. \A l \in Lines : row[l] \in Entry
  BY DEF TypeOK
<1>3. \A l \in Lines : /\ row[l].review = DecisionOf(row[l]).review
                       /\ row[l].proposal = DecisionOf(row[l]).proposal
                       /\ row'[l].review = DecisionOf(row'[l]).review
                       /\ row'[l].proposal = DecisionOf(row'[l]).proposal
  BY DEF DecisionOf
<1>4. ASSUME NEW l \in Lines, NEW id, NEW d \in Decision, RowDecided(l, id, d),
             approvals \subseteq approvals',
             d.review = "approved" /\ Finds(l, id) => <<l, d.proposal.content>> \in approvals'
      PROVE  ApprovedKnown'
  <2>1. ASSUME NEW k \in Lines, row'[k].review = "approved"
        PROVE  <<k, row'[k].proposal.content>> \in approvals'
    <3>1. CASE k = l /\ Finds(l, id)
      BY <1>3, <1>4, <2>1, <3>1 DEF RowDecided
    <3>2. CASE ~(k = l /\ Finds(l, id))
      <4>1. row'[k].review = row[k].review /\ row'[k].proposal = row[k].proposal
        BY <1>3, <1>4, <3>2 DEF RowDecided
      <4> QED
        BY <1>4, <2>1, <4>1 DEF ApprovalInv, ApprovedKnown
    <3> QED
      BY <3>1, <3>2
  <2> QED
    BY <2>1 DEF ApprovedKnown
<1>5. CASE BulkApproves(r)
  <2>1. PICK l \in live, d \in Decision :
          RowDecided(l, row[l].id, d) /\ approvals' = approvals \cup {<<l, d.proposal.content>>}
    BY <1>5 DEF BulkApproves
  <2>2. l \in Lines
    BY DEF TypeOK
  <2> QED
    BY <2>1, <2>2, <1>4
<1>6. CASE Saves(r)
  <2>1. /\ RowDecided(request[r].line, request[r].id, request[r].new)
        /\ approvals \subseteq approvals'
        /\ request[r].new.review = "approved" /\ Finds(request[r].line, request[r].id) =>
             <<request[r].line, request[r].new.proposal.content>> \in approvals'
    BY <1>6 DEF Saves
  <2> QED
    BY <2>1, <1>2, <1>4
<1>7. CASE MatchesRow(r)
  <2>1. /\ RowDecided(request[r].line, request[r].id, request[r].new)
        /\ approvals' = approvals /\ request[r].new.review = "proposed"
    BY <1>7 DEF MatchesRow, ApprovalInv, RequestFresh, Matches
  <2> QED
    BY <2>1, <1>2, <1>4
<1>8. CASE Opens(r) \/ MirrorsDecision(r) \/ MatchesMirror(r) \/ Abandons(r)
  BY <1>8 DEF Opens, MirrorsDecision, MatchesMirror, Abandons, ApprovalInv, ApprovedKnown
<1>9. ~RefreshesMirror(r) /\ ~RefreshesRow(r)
  BY DEF RefreshesMirror, RefreshesRow, ApprovalInv, RequestFresh, Refreshes
<1> QED
  BY <1>1, <1>5, <1>6, <1>7, <1>8, <1>9 DEF Reviews

(* What a delivery sends was selected, and what it selected is approved.    *)
LEMMA ApprovalInvPost ==
    ASSUME TypeOK, ApprovalInv, PostStep
    PROVE  ApprovedKnown' /\ SelectedKnown' /\ OnlyApprovedPosted'
<1>1. /\ approvals' = approvals
      /\ \A l \in Lines : DecisionOf(row'[l]) = DecisionOf(row[l])
  BY DeliveryFrame
<1>2. ApprovedKnown'
  BY <1>1 DEF ApprovalInv, ApprovedKnown, DecisionOf
<1>3. UNCHANGED <<row, mirror, books, worker>> \/ \E w \in Workers : Others(w) /\ Delivers(w)
  BY DeliveryStep
<1>4. CASE UNCHANGED <<row, mirror, books, worker>>
  BY <1>1, <1>2, <1>4 DEF ApprovalInv, SelectedKnown, Approved, OnlyApprovedPosted
<1>5. ASSUME NEW w \in Workers, Others(w), Delivers(w)
      PROVE  SelectedKnown' /\ OnlyApprovedPosted'
  <2>1. (\A item \in worker[w].todo : Approved(item))
        /\ (worker[w].pc \in Busy => Approved(worker[w].cur))
    BY DEF ApprovalInv, SelectedKnown
  <2>2. ASSUME NEW item, Approved(item), BooksGrowBy(item)
        PROVE  OnlyApprovedPosted'
    BY <1>1, <2>2 DEF BooksGrowBy, Approved, ApprovalInv, OnlyApprovedPosted
  <2>3. ASSUME UNCHANGED books
        PROVE  OnlyApprovedPosted'
    BY <1>1, <2>3 DEF ApprovalInv, OnlyApprovedPosted
  <2>4. ASSUME \A item \in worker'[w].todo : Approved(item),
               worker'[w].pc \in Busy => Approved(worker'[w].cur)
        PROVE  SelectedKnown'
    BY <1>1, <1>5, <2>4 DEF Others, ApprovalInv, SelectedKnown, Approved
  <2>5. CASE Selects(w)
    <3>1. \A item \in worker'[w].todo : Approved(item)
      BY <2>5 DEF Selects, ItemOf, Postable, Approved, ApprovalInv, ApprovedKnown
    <3>2. UNCHANGED books /\ worker'[w].pc \notin Busy
      BY <2>5 DEF Selects, Busy
    <3> QED
      BY <3>1, <3>2, <2>3, <2>4
  <2>6. CASE Takes(w)
    BY <2>6, <2>1, <2>2, <2>4 DEF Takes
  <2>7. CASE Turns(w)
    BY <2>7, <2>1, <2>2, <2>4 DEF Turns, Busy
  <2>8. CASE Records(w) \/ MirrorsRecord(w) \/ Fails(w) \/ MirrorsFailure(w)
    <3>1. /\ worker'[w].todo = worker[w].todo /\ worker'[w].cur = worker[w].cur
          /\ worker'[w].pc \in Busy => worker[w].pc \in Busy
          /\ UNCHANGED books
      BY <2>8 DEF Records, MirrorsRecord, Fails, MirrorsFailure, Writes, Kept, Busy
    <3> QED
      BY <3>1, <2>1, <2>3, <2>4
  <2>9. CASE Ends(w)
    <3>1. worker'[w].todo = {} /\ worker'[w].pc \notin Busy /\ UNCHANGED books
      BY <2>9 DEF Ends, IdleWorker, Busy
    <3> QED
      BY <3>1, <2>3, <2>4
  <2> QED
    BY <1>5, <2>5, <2>6, <2>7, <2>8, <2>9 DEF Delivers
<1> QED
  BY <1>2, <1>3, <1>4, <1>5

LEMMA ApprovalInvStep ==
    ASSUME OneReviewer, "refresh" \notin Handlers
    PROVE  PostingInv /\ ApprovalInv /\ [Next]_vars => ApprovalInv'
<1> SUFFICES ASSUME PostingInv, ApprovalInv, [Next]_vars PROVE ApprovalInv'
  OBVIOUS
<1>0. TypeOK
  BY DEF PostingInv
<1>1. RequestFresh'
  BY RequestFreshStep DEF ApprovalInv
<1>2. CASE ReviewStep
  <2>1. ApprovedKnown' /\ approvals \subseteq approvals'
    BY <1>0, <1>2, ApprovalInvReview
  <2>2. books' = books /\ worker' = worker
    BY <1>0, <1>2, ReviewFrame DEF postVars
  <2>3. SelectedKnown' /\ OnlyApprovedPosted'
    BY <2>1, <2>2 DEF ApprovalInv, SelectedKnown, Approved, OnlyApprovedPosted
  <2> QED
    BY <1>1, <2>1, <2>3 DEF ApprovalInv
<1>3. CASE RebuildStep
  <2>1. /\ books' = books /\ worker' = worker /\ approvals' = approvals
        /\ \A l \in Lines : row'[l] = row[l] \/ row'[l].review = "proposed"
    BY <1>0, <1>3, RebuildFrame DEF postVars, reviewVars, PostingInv, FreshEntry
  <2>2. ApprovedKnown'
    BY <2>1 DEF ApprovalInv, ApprovedKnown
  <2>3. SelectedKnown' /\ OnlyApprovedPosted'
    BY <2>1 DEF ApprovalInv, SelectedKnown, Approved, OnlyApprovedPosted
  <2> QED
    BY <1>1, <2>2, <2>3 DEF ApprovalInv
<1>4. CASE UNCHANGED vars
  BY <1>1, <1>4 DEF vars, postVars, reviewVars, ApprovalInv, ApprovedKnown, SelectedKnown,
     Approved, OnlyApprovedPosted
<1> QED
  BY <1>0, <1>1, <1>2, <1>3, <1>4, ApprovalInvPost DEF Next, ApprovalInv

(* Only proposals a reviewer approved for the line reach QuickBooks, with   *)
(* any number of deliveries, any faults and rebuilds, when review requests  *)
(* do not overlap and matching.refresh does not run.  A delivery posts what *)
(* it selected long before, so the argument is about the history of         *)
(* approvals and not about the rows as they are.                            *)
THEOREM LedgerOnlyApprovedPosted ==
    ASSUME OneReviewer, "refresh" \notin Handlers
    PROVE  Spec => []OnlyApprovedPosted
<1>1. ApprovalInv => OnlyApprovedPosted
  BY DEF ApprovalInv
<1>2. PostingInv /\ ApprovalInv /\ [Next]_vars => ApprovalInv'
  BY ApprovalInvStep
<1> QED
  BY <1>1, <1>2, ApprovalInvInit, PostingInvInit, PostingInvStep, PTL DEF Spec

-----------------------------------------------------------------------------
(* One delivery of post_approved at a time.                                 *)

OneDelivery == \A v, w \in Workers : v = w

(* A delivery with nothing failed has posted what it took up, but for the   *)
(* item it is at.                                                           *)
PostedSoFar ==
    \A w \in Workers :
        /\ worker[w].pc \in {"fail", "failMirror"} => worker[w].failed
        /\ \A item \in worker[w].took : item.id <= row[item.line].id
        /\ worker[w].pc # "idle" /\ ~worker[w].failed =>
             \A item \in worker[w].took \ worker[w].todo :
                 \/ worker[w].pc \in {"journal", "record"} /\ item = worker[w].cur
                 \/ Finds(item.line, item.id) => row[item.line].posting = "posted"

LEMMA PostedSoFarInit == Init => PostedSoFar
BY DEF Init, PostedSoFar, IdleWorker

(* The parts of a worker, typed.                                            *)
LEMMA WorkerParts ==
    ASSUME TypeOK, NEW w \in Workers
    PROVE  /\ worker[w] \in WorkerState /\ worker[w].cur \in Item
           /\ worker[w].cur.line \in Lines /\ worker[w].cur.id \in Nat
           /\ \A item \in worker[w].todo : item \in Item /\ item.line \in Lines
           /\ \A item \in worker[w].took :
                item \in Item /\ item.line \in Lines /\ item.id \in Nat
BY DEF TypeOK, WorkerState, Item

(* What writing a result does to the rows and to the mirrors.               *)
LEMMA ResultWritten ==
    ASSUME TypeOK, NEW item \in Item, NEW posting, NEW qb
    PROVE  /\ WriteRow(item, posting, qb) => \A l \in Lines :
                IF l = item.line /\ Finds(l, item.id)
                THEN row'[l].posting = posting /\ row'[l].qb = qb
                ELSE row'[l].posting = row[l].posting /\ row'[l].qb = row[l].qb
           /\ WriteMirror(item, posting, qb) => \A l \in Lines :
                IF l = item.line /\ FindsMirror(l, item.id)
                THEN mirror'[l].posting = posting /\ mirror'[l].qb = qb
                ELSE mirror'[l].posting = mirror[l].posting /\ mirror'[l].qb = mirror[l].qb
<1>1. item.line \in Lines
  BY DEF Item
<1> DEFINE Posted(e) == [e EXCEPT !.posting = posting, !.qb = qb]
<1>2. \A e \in Entry : Posted(e).posting = posting /\ Posted(e).qb = qb
  BY DEF Entry
<1>3. \A l \in Lines : row[l] \in Entry /\ mirror[l] \in Entry
  BY DEF TypeOK
<1>4. /\ WriteRow(item, posting, qb) => \A l \in Lines :
           row'[l] = IF l = item.line /\ Finds(l, item.id) THEN Posted(row[l]) ELSE row[l]
      /\ WriteMirror(item, posting, qb) => \A l \in Lines :
           mirror'[l] = IF l = item.line /\ FindsMirror(l, item.id) THEN Posted(mirror[l])
                        ELSE mirror[l]
  BY <1>1 DEF TypeOK, WriteRow, WriteMirror
<1> HIDE DEF Posted
<1> QED
  BY <1>2, <1>3, <1>4

(* A step of the delivery posts its item, fails it, or leaves it in hand.   *)
LEMMA PostedSoFarPost ==
    ASSUME OneDelivery, TypeOK, PostedSoFar, PostStep
    PROVE  PostedSoFar'
<1>1. \A l \in Lines : row'[l].id = row[l].id
  BY DeliveryFrame
<1>2. live' = live /\ (UNCHANGED <<row, worker>> \/ \E w \in Workers : Delivers(w))
  BY DeliveryStep
<1>3. CASE UNCHANGED <<row, worker>>
  BY <1>2, <1>3 DEF PostedSoFar, Finds
<1>4. ASSUME NEW w \in Workers, Delivers(w)
      PROVE  PostedSoFar'
  <2>a. /\ worker[w].pc \in {"fail", "failMirror"} => worker[w].failed
        /\ \A item \in worker[w].took : item.id <= row[item.line].id
        /\ worker[w].pc # "idle" /\ ~worker[w].failed =>
             \A item \in worker[w].took \ worker[w].todo :
                 \/ worker[w].pc \in {"journal", "record"} /\ item = worker[w].cur
                 \/ Finds(item.line, item.id) => row[item.line].posting = "posted"
    BY DEF PostedSoFar
  <2>b. \A item \in worker[w].took : item \in Item /\ item.line \in Lines /\ item.id \in Nat
    BY WorkerParts
  <2>1. ASSUME worker'[w].pc \in {"fail", "failMirror"} => worker'[w].failed,
               \A item \in worker'[w].took : item.id <= row'[item.line].id,
               worker'[w].pc # "idle" /\ ~worker'[w].failed =>
                 \A item \in worker'[w].took \ worker'[w].todo :
                     \/ worker'[w].pc \in {"journal", "record"} /\ item = worker'[w].cur
                     \/ Finds(item.line, item.id)' => row'[item.line].posting = "posted"
        PROVE  PostedSoFar'
    BY <2>1 DEF OneDelivery, PostedSoFar
  <2>2. CASE Selects(w)
    <3>1. \A item \in worker'[w].took : item.id <= row'[item.line].id
      BY <2>2 DEF Selects, ItemOf, TypeOK, Entry
    <3> QED
      BY <2>1, <2>2, <3>1 DEF Selects
  <2>3. CASE Takes(w)
    <3>1. PICK item \in worker[w].todo :
            /\ worker[w].pc = "next" /\ worker'[w].pc \in {"journal", "record", "fail"}
            /\ worker'[w].todo = worker[w].todo \ {item} /\ worker'[w].cur = item
            /\ worker'[w].took = worker[w].took
            /\ worker'[w].pc = "fail" \/ worker[w].failed => worker'[w].failed
            /\ UNCHANGED row
      BY <2>3 DEF Takes
    <3>2. \A i \in worker'[w].took \ worker'[w].todo :
            i = item \/ i \in worker[w].took \ worker[w].todo
      BY <3>1
    <3>3. worker'[w].pc # "idle" /\ ~worker'[w].failed =>
            \A i \in worker'[w].took \ worker'[w].todo :
                \/ worker'[w].pc \in {"journal", "record"} /\ i = worker'[w].cur
                \/ Finds(i.line, i.id)' => row'[i.line].posting = "posted"
      BY <3>1, <3>2, <2>a, <1>2 DEF Finds
    <3> QED
      BY <2>1, <3>1, <3>3, <2>a
  <2>4. CASE Turns(w)
    <3>1. worker[w].pc # "idle" /\ worker[w].pc \notin {"fail", "failMirror", "next"}
      BY <2>4 DEF Turns
    <3>2. worker'[w].pc # "idle" /\ ~worker'[w].failed =>
            \A i \in worker'[w].took \ worker'[w].todo :
                \/ worker'[w].pc \in {"journal", "record"} /\ i = worker'[w].cur
                \/ Finds(i.line, i.id)' => row'[i.line].posting = "posted"
      BY <2>4, <3>1, <2>a, <1>2 DEF Turns, Finds
    <3> QED
      BY <2>1, <2>4, <3>2, <2>a DEF Turns
  <2>5. CASE Records(w)
    <3>1. \A l \in Lines : row'[l].posting =
            IF l = worker[w].cur.line /\ Finds(l, worker[w].cur.id)
            THEN "posted" ELSE row[l].posting
      BY <2>5, ResultWritten, WorkerParts DEF Records
    <3>2. /\ worker[w].pc = "record" /\ worker'[w].pc = "recordMirror" /\ Kept(w)
          /\ worker'[w].failed = worker[w].failed
      BY <2>5 DEF Records, Writes
    <3>3. ~worker'[w].failed => \A i \in worker'[w].took \ worker'[w].todo :
            Finds(i.line, i.id)' => row'[i.line].posting = "posted"
      BY <3>1, <3>2, <2>a, <2>b, <1>1, <1>2 DEF Finds, Kept
    <3> QED
      BY <2>1, <3>2, <3>3, <2>a, <2>b, <1>1 DEF Kept
  <2>6. CASE MirrorsRecord(w)
    <3>1. /\ worker[w].pc = "recordMirror" /\ worker'[w].pc = "next" /\ Kept(w)
          /\ worker'[w].failed = worker[w].failed /\ row' = row
      BY <2>6 DEF MirrorsRecord, Writes
    <3> QED
      BY <2>1, <3>1, <2>a, <1>2 DEF Kept, Finds
  <2>7. CASE Fails(w) \/ MirrorsFailure(w)
    <3>1. /\ worker[w].pc \in {"fail", "failMirror"} /\ Kept(w)
          /\ worker'[w].failed = worker[w].failed
      BY <2>7 DEF Fails, MirrorsFailure, Writes
    <3> QED
      BY <2>1, <3>1, <2>a, <2>b, <1>1 DEF Kept
  <2>8. CASE Ends(w)
    BY <2>1, <2>8 DEF Ends, IdleWorker
  <2> QED
    BY <1>4, <2>2, <2>3, <2>4, <2>5, <2>6, <2>7, <2>8 DEF Delivers
<1> QED
  BY <1>2, <1>3, <1>4

LEMMA PostedSoFarStep ==
    ASSUME OneDelivery
    PROVE  PostingInv /\ PostedSoFar /\ [Next]_vars => PostedSoFar'
<1> SUFFICES ASSUME PostingInv, PostedSoFar, [Next]_vars PROVE PostedSoFar'
  OBVIOUS
<1>0. TypeOK
  BY DEF PostingInv
<1>1. CASE ReviewStep
  <2>1. /\ live' = live /\ worker' = worker
        /\ \A l \in Lines : row'[l].id = row[l].id /\ row'[l].posting = row[l].posting
    BY <1>0, <1>1, ReviewFrame DEF postVars
  <2> QED
    BY <1>0, <2>1, WorkerParts DEF PostedSoFar, Finds
<1>2. CASE RebuildStep
  <2>1. /\ worker' = worker
        /\ \A l \in Lines :
             \/ row'[l] = row[l] /\ (l \in live' => l \in live)
             \/ row[l].id < row'[l].id
    BY <1>0, <1>2, RebuildFrame DEF postVars, PostingInv
  <2>2. \A l \in Lines : row[l].id \in Nat /\ row'[l].id \in Nat
    BY <1>0, <1>2, TypeRebuild DEF TypeOK, Entry
  <2>3. ASSUME NEW w \in Workers, NEW item \in worker[w].took
        PROVE  /\ item.id <= row'[item.line].id
               /\ Finds(item.line, item.id)' =>
                    Finds(item.line, item.id) /\ row'[item.line] = row[item.line]
    <3>1. item.line \in Lines /\ item.id \in Nat /\ item.id <= row[item.line].id
      BY <1>0, WorkerParts DEF PostedSoFar
    <3> QED
      BY <3>1, <2>1, <2>2 DEF Finds
  <2> QED
    BY <2>1, <2>3 DEF PostedSoFar
<1>3. CASE UNCHANGED vars
  BY <1>3 DEF vars, postVars, PostedSoFar, Finds
<1> QED
  BY <1>0, <1>1, <1>2, <1>3, PostedSoFarPost DEF Next

(* A delivery that ends in success has posted every row it selected that    *)
(* still exists, whatever writes fail, processes die, lines are rebuilt and *)
(* reviewers do, when deliveries of post_approved do not overlap.  Two that *)
(* overlap break it: one fails a row the other has posted.                  *)
THEOREM LedgerSuccessMeansPosted ==
    ASSUME OneDelivery
    PROVE  Spec => []SuccessMeansPosted
<1>1. PostedSoFar => SuccessMeansPosted
  BY DEF PostedSoFar, SuccessMeansPosted, At
<1>2. PostingInv /\ PostedSoFar /\ [Next]_vars => PostedSoFar'
  BY PostedSoFarStep
<1> QED
  BY <1>1, <1>2, PostedSoFarInit, PostingInvInit, PostingInvStep, PTL DEF Spec

-----------------------------------------------------------------------------
(* Nothing is left half written: no bulk approval, no failed write.         *)

Unhurried ==
    /\ OneReviewer /\ OneDelivery /\ "bulk" \notin Handlers /\ Faults \subseteq {"lostReply"}
    /\ MaxRebuilds = 0 \/ Handlers \cap {"match", "refresh"} = {}

Deciding == {"saved", "matchRow", "matchMirror", "refreshRow"}
Results == {"recordMirror", "failMirror"}
InHand(l, holder) == holder.line = l /\ holder.id = row[l].id

(* The lines that have both documents, and a line both of whose documents   *)
(* have the id.                                                             *)
Both == live \cap mirrored
FindsBoth(l, id) == Finds(l, id) /\ FindsMirror(l, id)

(* Row and mirror carry the same decision, but for the one being written;   *)
(* the entry about to be created gets that of its transaction.              *)
DecisionPending ==
    /\ \A r \in Requests : FindsBoth(request[r].line, request[r].id) =>
         /\ request[r].pc \in {"saved", "matchMirror"} =>
              DecisionOf(row[request[r].line]) = request[r].new
         /\ request[r].pc \in {"matchRow", "refreshRow"} =>
              DecisionOf(mirror[request[r].line]) = request[r].new
         /\ request[r].pc \in {"refreshMirror", "refreshRow"} =>
              row[request[r].line].review = request[r].new.review
    /\ \A l \in Both :
         \/ DecisionOf(row[l]) = DecisionOf(mirror[l])
         \/ \E r \in Requests : request[r].pc \in Deciding /\ InHand(l, request[r])
NewDecision ==
    rebuild.pc = "entry" =>
        DecisionOf(mirror[rebuild.cur.line])
            = DecisionOf(FreshEntry(rebuild.cur.id, rebuild.cur.content))
(* The same of the posting result.                                          *)
SameResult(l) == row[l].posting = mirror[l].posting /\ row[l].qb = mirror[l].qb
ResultOf(w) ==
    LET l == worker[w].cur.line IN
    /\ worker[w].pc = "recordMirror" => row[l].posting = "posted" /\ row[l].qb = worker[w].txn
    /\ worker[w].pc = "failMirror" => row[l].posting = "failed" /\ row[l].qb = NoTxn
PostingPending ==
    /\ \A w \in Workers : Finds(worker[w].cur.line, worker[w].cur.id) => ResultOf(w)
    /\ \A l \in Both :
         \/ SameResult(l)
         \/ \E w \in Workers : worker[w].pc \in Results /\ InHand(l, worker[w].cur)
NewResult ==
    rebuild.pc = "entry" =>
        mirror[rebuild.cur.line].posting = "not_posted" /\ mirror[rebuild.cur.line].qb = NoTxn
(* What a delivery still has to record has no QuickBooks id on its row.     *)
Unposted ==
    \A w \in Workers :
        /\ \A item \in worker[w].todo :
             Finds(item.line, item.id) => row[item.line].qb = NoTxn
        /\ worker[w].pc \in {"journal", "record", "fail"} =>
             (Finds(worker[w].cur.line, worker[w].cur.id) => row[worker[w].cur.line].qb = NoTxn)
        /\ \A i, j \in worker[w].todo : i.line = j.line => i = j
        /\ worker[w].pc \in Busy => \A i \in worker[w].todo : i.line # worker[w].cur.line

LEMMA PendingInit ==
    ASSUME Init
    PROVE  DecisionPending /\ PostingPending /\ Unposted /\ NewDecision /\ NewResult
<1>1. DecisionPending
  BY DEF Init, DecisionPending, IdleRequest
<1>2. PostingPending
  BY DEF Init, PostingPending, ResultOf, SameResult, IdleWorker
<1>3. Unposted
  BY DEF Init, Unposted, IdleWorker, Busy
<1>4. NewDecision /\ NewResult
  BY DEF Init, NewDecision, NewResult
<1> QED
  BY <1>1, <1>2, <1>3, <1>4

(* A decision reaches both documents, the row and then the mirror, or the   *)
(* other way round for a matching job.                                      *)
LEMMA DecisionPendingReview ==
    ASSUME Unhurried, PostingInv, RequestFresh, DecisionPending, ReviewStep
    PROVE  DecisionPending'
<1>0. TypeOK
  BY DEF PostingInv
<1>1. \A l \in Lines : row'[l].id = row[l].id /\ mirror'[l].id = mirror[l].id
  BY <1>0, ReviewFrame
<1>2. live' = live /\ mirrored' = mirrored /\ Both' = Both /\ Both \subseteq Lines
  BY <1>0, ReviewFrame DEF TypeOK, Both
<1>b. ASSUME NEW l \in Both, NEW id \in Nat
      PROVE  /\ (FindsBoth(l, id)' <=> FindsBoth(l, id))
             /\ (FindsBoth(l, id) <=> Finds(l, id))
             /\ (FindsBoth(l, id) <=> FindsMirror(l, id))
             /\ (Finds(l, id)' <=> Finds(l, id))
             /\ (FindsMirror(l, id)' <=> FindsMirror(l, id))
  BY <1>1, <1>2 DEF FindsBoth, Finds, FindsMirror, Both, PostingInv, RebuildInv, Paired
<1>3. PICK r \in Requests : Reviews(r)
  BY <1>0, Reviewed DEF Unhurried
<1>4. request[r].line \in Lines /\ \A s \in Requests : s = r
  BY <1>0, RequestParts DEF Unhurried, OneReviewer
<1>a. /\ FindsBoth(request[r].line, request[r].id) =>
           /\ request[r].pc \in {"saved", "matchMirror"} =>
                DecisionOf(row[request[r].line]) = request[r].new
           /\ request[r].pc \in {"matchRow", "refreshRow"} =>
                DecisionOf(mirror[request[r].line]) = request[r].new
           /\ request[r].pc \in {"refreshMirror", "refreshRow"} =>
                row[request[r].line].review = request[r].new.review
      /\ \A l \in Both : DecisionOf(row[l]) # DecisionOf(mirror[l]) =>
           request[r].pc \in Deciding /\ InHand(l, request[r])
  BY <1>4 DEF DecisionPending
<1>5. ASSUME FindsBoth(request[r].line, request[r].id)' =>
               /\ request'[r].pc \in {"saved", "matchMirror"} =>
                    DecisionOf(row'[request'[r].line]) = request'[r].new
               /\ request'[r].pc \in {"matchRow", "refreshRow"} =>
                    DecisionOf(mirror'[request'[r].line]) = request'[r].new
               /\ request'[r].pc \in {"refreshMirror", "refreshRow"} =>
                    row'[request'[r].line].review = request'[r].new.review,
             \A l \in Both : DecisionOf(row'[l]) # DecisionOf(mirror'[l]) =>
               request'[r].pc \in Deciding /\ InHand(l, request[r])'
      PROVE  DecisionPending'
  BY <1>2, <1>4, <1>5 DEF DecisionPending
\* On a line that has both documents, to be found is to be found in both.
<1>c. request[r].id \in Nat
  BY <1>0, RequestParts
<1>d. ASSUME NEW l \in Both
      PROVE  /\ (InHand(l, request[r]) <=>
                   l = request[r].line /\ FindsBoth(request[r].line, request[r].id))
             /\ (Finds(l, request[r].id) <=> FindsBoth(l, request[r].id))
             /\ (FindsMirror(l, request[r].id) <=> FindsBoth(l, request[r].id))
  BY <1>b, <1>c, <1>2 DEF InHand, Finds, Both
<1>e. ASSUME NEW d, NEW l \in Both
      PROVE  /\ RowDecided(request[r].line, request[r].id, d) =>
                  DecisionOf(row'[l]) =
                    IF l = request[r].line /\ FindsBoth(request[r].line, request[r].id)
                    THEN d ELSE DecisionOf(row[l])
             /\ MirrorDecided(request[r].line, request[r].id, d) =>
                  DecisionOf(mirror'[l]) =
                    IF l = request[r].line /\ FindsBoth(request[r].line, request[r].id)
                    THEN d ELSE DecisionOf(mirror[l])
  BY <1>d, <1>2 DEF RowDecided, MirrorDecided
<1>f. FindsBoth(request[r].line, request[r].id) => request[r].line \in Both
  BY DEF FindsBoth, Finds, FindsMirror, Both
\* A request that goes on keeps its line and its id.
<1>g. ASSUME NEW pc, Goes(r, pc)
      PROVE  /\ FindsBoth(request[r].line, request[r].id)' <=>
                  FindsBoth(request[r].line, request[r].id)
             /\ \A l \in Both : InHand(l, request[r])' <=> InHand(l, request[r])
  BY <1>1, <1>2, <1>4, <1>g DEF Goes, FindsBoth, Finds, FindsMirror, InHand
<1>6. CASE Opens(r)
  <2>1. UNCHANGED <<row, mirror>> /\ \A l \in Both : DecisionOf(row[l]) = DecisionOf(mirror[l])
    BY <1>6, <1>a DEF Opens, Deciding
  <2>2. \A l \in Both : row[l].review = mirror[l].review
    BY <2>1 DEF DecisionOf
  <2>3. FindsBoth(request[r].line, request[r].id)' => request'[r].line \in Both
    BY <1>2 DEF FindsBoth, Finds, FindsMirror, Both
  <2>4. /\ request'[r].pc \notin Deciding
        /\ request'[r].pc = "refreshMirror" =>
             request'[r].new.review = mirror[request'[r].line].review
    BY <1>6 DEF Opens, Deciding
  <2> QED
    BY <1>5, <2>1, <2>2, <2>3, <2>4 DEF Deciding
<1>7. CASE Saves(r)
  <2>1. \A l \in Both : DecisionOf(row[l]) = DecisionOf(mirror[l])
    BY <1>7, <1>a DEF Saves, Deciding
  <2>2. RowDecided(request[r].line, request[r].id, request[r].new) /\ mirror' = mirror
    BY <1>7 DEF Saves
  <2>3. CASE Finds(request[r].line, request[r].id)
    <3>1. Goes(r, "saved")
      BY <1>7, <2>3 DEF Saves
    <3>2. request'[r].pc = "saved" /\ request'[r].line = request[r].line
          /\ request'[r].new = request[r].new
      BY <3>1 DEF Goes
    <3> QED
      BY <2>1, <2>2, <3>1, <3>2, <1>d, <1>e, <1>f, <1>g, <1>5 DEF Deciding
  <2>4. CASE ~Finds(request[r].line, request[r].id)
    <3>1. request'[r].pc = "idle"
      BY <1>7, <2>4 DEF Saves, Closes, IdleRequest
    <3>2. ~FindsBoth(request[r].line, request[r].id)
      BY <2>4 DEF FindsBoth
    <3> QED
      BY <2>1, <2>2, <3>1, <3>2, <1>e, <1>5
  <2> QED
    BY <2>3, <2>4
<1>8. CASE MirrorsDecision(r) \/ (request[r].pc = "matchMirror" /\ MatchesMirror(r))
  <2>1. /\ request'[r].pc = "idle" /\ row' = row
        /\ MirrorDecided(request[r].line, request[r].id, request[r].new)
        /\ request[r].pc \in {"saved", "matchMirror"}
    BY <1>8 DEF MirrorsDecision, MatchesMirror, Closes, IdleRequest
  <2>2. ASSUME NEW l \in Both
        PROVE  DecisionOf(row'[l]) = DecisionOf(mirror'[l])
    BY <2>1, <1>a, <1>d, <1>e
  <2> QED
    BY <2>1, <2>2, <1>5
<1>9. CASE request[r].pc = "matchRow" /\ MatchesRow(r)
  <2>1. /\ request'[r].pc = "idle" /\ mirror' = mirror
        /\ RowDecided(request[r].line, request[r].id, request[r].new)
    BY <1>9 DEF MatchesRow, Closes, IdleRequest
  <2>2. ASSUME NEW l \in Both
        PROVE  DecisionOf(row'[l]) = DecisionOf(mirror'[l])
    BY <2>1, <1>9, <1>a, <1>d, <1>e
  <2> QED
    BY <2>1, <2>2, <1>5
<1>10. CASE RefreshesMirror(r)
  <2>1. \A l \in Both : DecisionOf(row[l]) = DecisionOf(mirror[l])
    BY <1>10, <1>a DEF RefreshesMirror, Deciding
  <2>2. /\ MirrorDecided(request[r].line, request[r].id, request[r].new) /\ row' = row
        /\ request[r].pc = "refreshMirror"
    BY <1>10 DEF RefreshesMirror
  <2>3. CASE FindsMirror(request[r].line, request[r].id)
    <3>1. Goes(r, "refreshRow")
      BY <1>10, <2>3 DEF RefreshesMirror
    <3>2. request'[r].pc = "refreshRow" /\ request'[r].line = request[r].line
          /\ request'[r].new = request[r].new
      BY <3>1 DEF Goes
    <3>3. FindsBoth(request[r].line, request[r].id) =>
            row'[request[r].line].review = request[r].new.review
      BY <2>2, <1>a
    <3> QED
      BY <2>1, <2>2, <3>1, <3>2, <3>3, <1>d, <1>e, <1>f, <1>g, <1>5 DEF Deciding
  <2>4. CASE ~FindsMirror(request[r].line, request[r].id)
    <3>1. request'[r].pc = "idle"
      BY <1>10, <2>4 DEF RefreshesMirror, Closes, IdleRequest
    <3>2. ~FindsBoth(request[r].line, request[r].id)
      BY <2>4 DEF FindsBoth
    <3> QED
      BY <2>1, <2>2, <3>1, <3>2, <1>e, <1>5
  <2> QED
    BY <2>3, <2>4
<1>11. CASE RefreshesRow(r)
  <2>1. /\ request'[r].pc = "idle" /\ mirror' = mirror
        /\ RowDecided(request[r].line, request[r].id,
             [review |-> row[request[r].line].review, proposal |-> request[r].new.proposal])
        /\ request[r].pc = "refreshRow"
    BY <1>11 DEF RefreshesRow, Closes, IdleRequest
  <2>2. ASSUME FindsBoth(request[r].line, request[r].id)
        PROVE  [review |-> row[request[r].line].review, proposal |-> request[r].new.proposal]
                 = request[r].new
    <3>1. row[request[r].line].review = request[r].new.review
      BY <2>1, <2>2, <1>a
    <3>2. request[r].new = [review |-> request[r].new.review,
                            proposal |-> request[r].new.proposal]
      BY <1>0, RequestParts DEF Decision
    <3> QED
      BY <3>1, <3>2
  <2>3. ASSUME NEW l \in Both
        PROVE  DecisionOf(row'[l]) = DecisionOf(mirror'[l])
    BY <2>1, <2>2, <1>a, <1>d, <1>e
  <2> QED
    BY <2>1, <2>3, <1>5
<1>12. CASE request[r].pc = "matchBoth" /\ (MatchesRow(r) \/ MatchesMirror(r))
  <2>1. \A l \in Both : DecisionOf(row[l]) = DecisionOf(mirror[l])
    BY <1>12, <1>a DEF Deciding
  <2>2. CASE MatchesRow(r)
    <3>1. Goes(r, "matchMirror") /\ mirror' = mirror
          /\ RowDecided(request[r].line, request[r].id, request[r].new)
      BY <1>12, <2>2 DEF MatchesRow
    <3>2. request'[r].pc = "matchMirror" /\ request'[r].line = request[r].line
          /\ request'[r].new = request[r].new
      BY <3>1 DEF Goes
    <3> QED
      BY <2>1, <3>1, <3>2, <1>d, <1>e, <1>f, <1>g, <1>5 DEF Deciding
  <2>3. CASE MatchesMirror(r)
    <3>1. Goes(r, "matchRow") /\ row' = row
          /\ MirrorDecided(request[r].line, request[r].id, request[r].new)
      BY <1>12, <2>3 DEF MatchesMirror
    <3>2. request'[r].pc = "matchRow" /\ request'[r].line = request[r].line
          /\ request'[r].new = request[r].new
      BY <3>1 DEF Goes
    <3> QED
      BY <2>1, <3>1, <3>2, <1>d, <1>e, <1>f, <1>g, <1>5 DEF Deciding
  <2> QED
    BY <1>12, <2>2, <2>3
<1>13. ~BulkApproves(r) /\ ~Abandons(r)
  BY DEF Unhurried, BulkApproves, Abandons
<1> QED
  BY <1>3, <1>6, <1>7, <1>8, <1>9, <1>10, <1>11, <1>12, <1>13 DEF Reviews, MatchesRow, MatchesMirror

(* So does a posting result.                                                *)
LEMMA PostingPendingPost ==
    ASSUME Unhurried, PostingInv, PostingPending, Unposted, PostStep
    PROVE  PostingPending' /\ Unposted'
<1>0. TypeOK
  BY DEF PostingInv
<1>1. \A l \in Lines : row'[l].id = row[l].id
  BY <1>0, DeliveryFrame
<1>2. live' = live /\ Both' = Both /\ Both \subseteq Lines
  BY <1>0, DeliveryStep DEF TypeOK, Both
<1>b. ASSUME NEW l \in Both, NEW id \in Nat
      PROVE  Finds(l, id) <=> FindsMirror(l, id)
  BY <1>2 DEF Finds, FindsMirror, Both, PostingInv, RebuildInv, Paired
<1>3. UNCHANGED <<row, mirror, worker>> \/ \E w \in Workers : Delivers(w)
  BY <1>0, DeliveryStep
<1>4. CASE UNCHANGED <<row, mirror, worker>>
  BY <1>2, <1>4 DEF PostingPending, SameResult, ResultOf, Unposted, InHand, Finds
<1>5. ASSUME NEW w \in Workers, Delivers(w)
      PROVE  PostingPending' /\ Unposted'
  <2>1. \A v \in Workers : v = w
    BY DEF Unhurried, OneDelivery
  <2>2. worker[w].cur \in Item /\ worker[w].cur.line \in Lines
        /\ \A item \in worker[w].todo : item.line \in Lines
    BY <1>0, WorkerParts
  <2>a. /\ Finds(worker[w].cur.line, worker[w].cur.id) => ResultOf(w)
        /\ \A l \in Both : SameResult(l) \/ (worker[w].pc \in Results /\ InHand(l, worker[w].cur))
    BY <2>1 DEF PostingPending
  <2>b. /\ \A item \in worker[w].todo :
             Finds(item.line, item.id) => row[item.line].qb = NoTxn
        /\ worker[w].pc \in {"journal", "record", "fail"} =>
             (Finds(worker[w].cur.line, worker[w].cur.id) => row[worker[w].cur.line].qb = NoTxn)
        /\ \A i, j \in worker[w].todo : i.line = j.line => i = j
        /\ worker[w].pc \in Busy => \A i \in worker[w].todo : i.line # worker[w].cur.line
    BY DEF Unposted
  <2>3. ASSUME Finds(worker[w].cur.line, worker[w].cur.id)' => ResultOf(w)',
               \A l \in Both : SameResult(l)' \/ (worker'[w].pc \in Results
                                                  /\ InHand(l, worker[w].cur)')
        PROVE  PostingPending'
    BY <1>2, <2>1, <2>3 DEF PostingPending
  <2>4. ASSUME \A item \in worker'[w].todo :
                 Finds(item.line, item.id) => row'[item.line].qb = NoTxn,
               worker'[w].pc \in {"journal", "record", "fail"} =>
                 (Finds(worker[w].cur.line, worker[w].cur.id)' =>
                      row'[worker'[w].cur.line].qb = NoTxn),
               \A i, j \in worker'[w].todo : i.line = j.line => i = j,
               worker'[w].pc \in Busy => \A i \in worker'[w].todo : i.line # worker'[w].cur.line,
               \A item \in worker'[w].todo : item.line \in Lines
        PROVE  Unposted'
    <3>1. \A item \in worker'[w].todo : Finds(item.line, item.id)' => Finds(item.line, item.id)
      BY <1>1, <1>2, <2>4 DEF Finds
    <3> QED
      BY <2>1, <2>4, <3>1 DEF Unposted
  <2>5. ASSUME UNCHANGED <<row, mirror>>, worker[w].pc \notin Results,
               worker'[w].pc \notin Results
        PROVE  PostingPending'
    <3>1. \A l \in Both : SameResult(l)'
      BY <2>5, <2>a DEF SameResult
    <3>2. ResultOf(w)'
      BY <2>5 DEF ResultOf, Results
    <3> QED
      BY <3>1, <3>2, <2>3
  <2>6. CASE Selects(w)
    <3>1. PostingPending'
      BY <2>5, <2>6 DEF Selects, Results
    <3>2. /\ worker'[w].pc \notin Busy /\ row' = row
          /\ worker'[w].todo = {ItemOf(l) : l \in {k \in Lines : Postable(k)}}
      BY <2>6 DEF Selects, Busy
    <3>3. \A i \in worker'[w].todo : i.line \in Lines /\ i = ItemOf(i.line) /\ Postable(i.line)
      BY <3>2 DEF ItemOf
    <3>4. \A i \in worker'[w].todo : row'[i.line].qb = NoTxn
      BY <3>2, <3>3 DEF Postable
    <3> QED
      BY <2>4, <3>1, <3>2, <3>3, <3>4 DEF Busy
  <2>7. CASE Takes(w)
    <3>1. PICK item \in worker[w].todo :
            /\ worker[w].pc = "next" /\ worker'[w].pc \in {"journal", "record", "fail"}
            /\ worker'[w].todo = worker[w].todo \ {item} /\ worker'[w].cur = item
            /\ UNCHANGED <<row, mirror>>
      BY <2>7 DEF Takes
    <3>2. PostingPending'
      BY <2>5, <3>1 DEF Results
    <3>3. Finds(worker[w].cur.line, worker[w].cur.id)' => row'[worker'[w].cur.line].qb = NoTxn
      BY <3>1, <2>b, <1>2 DEF Finds
    <3> QED
      BY <2>4, <2>2, <2>b, <3>1, <3>2, <3>3
  <2>8. CASE Turns(w)
    <3>1. /\ worker[w].pc = "journal" /\ worker'[w].pc \in {"journal", "record", "fail"}
          /\ worker'[w].todo = worker[w].todo /\ worker'[w].cur = worker[w].cur
          /\ UNCHANGED <<row, mirror>>
      BY <2>8 DEF Turns, Unhurried
    <3>2. PostingPending'
      BY <2>5, <3>1 DEF Results
    <3>3. Finds(worker[w].cur.line, worker[w].cur.id)' => row'[worker'[w].cur.line].qb = NoTxn
      BY <3>1, <2>b, <1>2 DEF Finds
    <3> QED
      BY <2>4, <2>2, <2>b, <3>1, <3>2, <3>3 DEF Busy
  <2>9. CASE Ends(w)
    <3>1. /\ worker[w].pc = "next" /\ worker'[w].todo = {} /\ worker'[w].pc = "idle"
          /\ UNCHANGED <<row, mirror>>
      BY <2>9 DEF Ends, IdleWorker, Unhurried
    <3>2. PostingPending'
      BY <2>5, <3>1 DEF Results
    <3> QED
      BY <2>4, <3>1, <3>2 DEF Busy
\* The two writes of the row.
  <2>10. CASE Records(w) \/ Fails(w)
    <3>1. PICK posting, qb :
            /\ WriteRow(worker[w].cur, posting, qb) /\ UNCHANGED mirror
            /\ Kept(w) /\ worker[w].pc \in {"record", "fail"}
            /\ \/ worker'[w].pc = "recordMirror" /\ posting = "posted" /\ qb = worker[w].txn
               \/ /\ worker'[w].pc = "failMirror" /\ posting = "failed"
                  /\ qb = row[worker[w].cur.line].qb
      BY <2>10 DEF Records, Fails, Writes
    <3>2. \A l \in Lines :
            IF l = worker[w].cur.line /\ Finds(l, worker[w].cur.id)
            THEN row'[l].posting = posting /\ row'[l].qb = qb
            ELSE row'[l].posting = row[l].posting /\ row'[l].qb = row[l].qb
      BY <3>1, <2>2, <1>0, ResultWritten
    <3>3. Finds(worker[w].cur.line, worker[w].cur.id)' <=>
            Finds(worker[w].cur.line, worker[w].cur.id)
      BY <3>1, <1>1, <1>2, <2>2 DEF Finds, Kept
    <3>4. Finds(worker[w].cur.line, worker[w].cur.id)' => ResultOf(w)'
      BY <3>1, <3>2, <3>3, <2>b, <2>2 DEF ResultOf, Kept
    <3>5. ASSUME NEW l \in Both
          PROVE  SameResult(l)' \/ InHand(l, worker[w].cur)'
      <4>1. SameResult(l) /\ l \in Lines
        BY <3>1, <2>a, <1>2 DEF Results
      <4>2. CASE l = worker[w].cur.line /\ Finds(l, worker[w].cur.id)
        BY <4>1, <4>2, <3>1, <1>1 DEF InHand, Finds, Kept
      <4>3. CASE ~(l = worker[w].cur.line /\ Finds(l, worker[w].cur.id))
        BY <4>1, <4>3, <3>1, <3>2 DEF SameResult
      <4> QED
        BY <4>2, <4>3
    <3>6. PostingPending'
      BY <3>1, <3>4, <3>5, <2>3 DEF Results
    <3>7. \A item \in worker[w].todo :
            Finds(item.line, item.id) => row'[item.line].qb = NoTxn
      BY <3>1, <3>2, <2>2, <2>b DEF Busy
    <3> QED
      BY <3>1, <3>6, <3>7, <2>2, <2>4, <2>b DEF Busy, Kept
\* The two writes of the mirror.
  <2>11. CASE MirrorsRecord(w) \/ MirrorsFailure(w)
    <3>1. PICK posting, qb :
            /\ WriteMirror(worker[w].cur, posting, qb) /\ UNCHANGED row
            /\ Kept(w) /\ worker'[w].pc = "next"
            /\ \/ worker[w].pc = "recordMirror" /\ posting = "posted" /\ qb = worker[w].txn
               \/ worker[w].pc = "failMirror" /\ posting = "failed" /\ qb = NoTxn
      BY <2>11 DEF MirrorsRecord, MirrorsFailure, Writes
    <3>2. \A l \in Lines :
            IF l = worker[w].cur.line /\ FindsMirror(l, worker[w].cur.id)
            THEN mirror'[l].posting = posting /\ mirror'[l].qb = qb
            ELSE mirror'[l].posting = mirror[l].posting /\ mirror'[l].qb = mirror[l].qb
      BY <3>1, <2>2, <1>0, ResultWritten
    <3>3. ASSUME NEW l \in Both
          PROVE  SameResult(l)'
      <4>1. l \in Lines
        BY <1>2
      <4>2. CASE l = worker[w].cur.line /\ Finds(l, worker[w].cur.id)
        <5>1. row[l].posting = posting /\ row[l].qb = qb
          BY <4>2, <3>1, <2>a DEF ResultOf
        <5>2. FindsMirror(l, worker[w].cur.id)
          BY <4>2, <1>0, <1>b, WorkerParts
        <5> QED
          BY <4>1, <4>2, <5>1, <5>2, <3>1, <3>2 DEF SameResult
      <4>3. CASE ~(l = worker[w].cur.line /\ Finds(l, worker[w].cur.id))
        <5>1. SameResult(l)
          BY <4>3, <2>a DEF InHand, Finds, Both
        <5>2. ~(l = worker[w].cur.line /\ FindsMirror(l, worker[w].cur.id))
          BY <4>3, <1>0, <1>b, WorkerParts
        <5> QED
          BY <4>1, <4>3, <5>1, <5>2, <3>1, <3>2 DEF SameResult
      <4> QED
        BY <4>2, <4>3
    <3>4. PostingPending'
      BY <3>1, <3>3, <2>3 DEF ResultOf
    <3> QED
      BY <3>1, <3>4, <2>2, <2>4, <2>b DEF Busy, Kept
  <2> QED
    BY <1>5, <2>6, <2>7, <2>8, <2>9, <2>10, <2>11 DEF Delivers
<1> QED
  BY <1>3, <1>4, <1>5

MirrorInv ==
    /\ RequestFresh /\ DecisionPending /\ PostingPending /\ Unposted
    /\ NewDecision /\ NewResult

(* A transaction whose entry is still to come is in nobody's hands.         *)
LEMMA NewUntouched ==
    ASSUME Unhurried, PostingInv, RequestFresh, rebuild.pc = "entry"
    PROVE  /\ rebuild.cur.line \in Lines /\ MaxRebuilds # 0
           /\ \A r \in Requests : request[r].pc \notin Matches \cup Refreshes
           /\ \A r \in Requests : request[r].pc \in {"loaded", "saved"} =>
                ~FindsMirror(rebuild.cur.line, request[r].id) \/ request[r].line # rebuild.cur.line
           /\ \A w \in Workers :
                ~FindsMirror(rebuild.cur.line, worker[w].cur.id)
                \/ worker[w].cur.line # rebuild.cur.line
<1> DEFINE l == rebuild.cur.line
<1>1. l \in Lines /\ row[l].id \in Nat /\ mirror[l].id \in Nat
  BY DEF PostingInv, TypeOK, Item, Entry
<1>2. MaxRebuilds # 0 /\ row[l].id < mirror[l].id
  BY DEF PostingInv, RebuildInv, RebuildPending
<1>3. \A r \in Requests : request[r].pc \notin Matches \cup Refreshes
  BY <1>2 DEF Unhurried, RequestFresh
<1>4. ASSUME NEW r \in Requests, request[r].pc \in {"loaded", "saved"}, request[r].line = l
      PROVE  ~FindsMirror(l, request[r].id)
  <2>1. request[r].id <= row[l].id /\ request[r].id \in Nat
    BY <1>4, RequestParts DEF RequestFresh, PostingInv
  <2> QED BY <1>1, <1>2, <2>1 DEF FindsMirror
<1>5. ASSUME NEW w \in Workers, worker[w].cur.line = l
      PROVE  ~FindsMirror(l, worker[w].cur.id)
  <2>1. worker[w].cur.id <= row[l].id /\ worker[w].cur.id \in Nat
    BY <1>5, WorkerParts DEF PostingInv, IdsKnown
  <2> QED BY <1>1, <1>2, <2>1 DEF FindsMirror
<1> QED BY <1>1, <1>2, <1>3, <1>4, <1>5

(* A rebuild gives a line two equal documents that nobody holds yet.        *)
LEMMA MirrorInvRebuild ==
    ASSUME Unhurried, PostingInv, MirrorInv, RebuildStep
    PROVE  MirrorInv'
<1>0. TypeOK /\ TypeOK' /\ RebuildInv
  BY TypeRebuild DEF PostingInv
<1>1. /\ worker' = worker /\ request' = request
      /\ \A l \in Lines :
           \/ row'[l] = row[l] /\ (l \in live' => l \in live)
           \/ row[l].id < row'[l].id /\ row'[l].qb = NoTxn
  BY <1>0, RebuildFrame DEF postVars, reviewVars, FreshEntry
<1>2. \A l \in Lines : row[l].id \in Nat /\ row'[l].id \in Nat /\ mirror[l].id \in Nat
  BY <1>0 DEF TypeOK, Entry
<1>3. ASSUME NEW l \in Lines, NEW id \in Nat, id <= row[l].id, Finds(l, id)'
      PROVE  Finds(l, id) /\ row'[l] = row[l]
  BY <1>1, <1>2, <1>3 DEF Finds
\* A line that has both documents afterwards is one of two.
<1>4. ASSUME NEW l \in Both'
      PROVE  /\ l \in Lines
             /\ \/ l \in Both /\ row'[l] = row[l] /\ mirror'[l] = mirror[l]
                \/ /\ rebuild.pc = "entry" /\ l = rebuild.cur.line
                   /\ row'[l] = FreshEntry(rebuild.cur.id, rebuild.cur.content)
                   /\ mirror'[l] = mirror[l] /\ row[l].id < row'[l].id
  <2>1. l \in Lines /\ l \in live' /\ l \in mirrored'
    BY <1>0, <1>4 DEF Both, TypeOK
  <2>2. CASE row'[l] = row[l] /\ (l \in live' => l \in live)
    BY <1>0, <2>1, <2>2, RebuildFrame DEF Both
  <2>3. CASE ~(row'[l] = row[l] /\ (l \in live' => l \in live))
    <3>1. /\ CreateEntry /\ l = rebuild.cur.line /\ mirror' = mirror
          /\ row'[l] = FreshEntry(rebuild.cur.id, rebuild.cur.content)
          /\ row[l].id < row'[l].id
      BY <1>0, <2>1, <2>3, RebuildFrame
    <3> QED BY <2>1, <3>1 DEF CreateEntry
  <2> QED BY <2>2, <2>3
<1>5. ASSUME NEW w \in Workers, NEW item \in worker[w].todo \cup {worker[w].cur}
      PROVE  /\ item.line \in Lines
             /\ Finds(item.line, item.id)' =>
                  Finds(item.line, item.id) /\ row'[item.line] = row[item.line]
  <2>1. item.line \in Lines /\ item.id \in Nat /\ item.id <= row[item.line].id
    BY <1>0, WorkerParts DEF PostingInv, IdsKnown, Item
  <2> QED BY <2>1, <1>3
<1>6. DecisionPending'
  <2>1. ASSUME NEW r \in Requests, FindsBoth(request[r].line, request[r].id)',
               request[r].pc \in {"saved"} \cup Matches \cup Refreshes
        PROVE  /\ FindsBoth(request[r].line, request[r].id)
               /\ row'[request[r].line] = row[request[r].line]
               /\ mirror'[request[r].line] = mirror[request[r].line]
    <3> DEFINE l == request[r].line
    <3>1. l \in Both' /\ row'[l].id = request[r].id /\ request[r].id \in Nat
      BY <1>0, <1>1, <2>1, RequestParts DEF FindsBoth, Finds, FindsMirror, Both
    <3>2. CASE rebuild.pc = "entry" /\ l = rebuild.cur.line /\ row[l].id < row'[l].id
      <4>1. request[r].pc = "saved"
        BY <2>1, <3>2, NewUntouched DEF MirrorInv
      <4>2. request[r].id <= row[l].id
        BY <4>1 DEF MirrorInv, RequestFresh
      <4> QED BY <1>2, <1>4, <3>1, <3>2, <4>2
    <3>3. CASE l \in Both /\ row'[l] = row[l] /\ mirror'[l] = mirror[l]
      BY <1>1, <2>1, <3>3 DEF FindsBoth, Finds, FindsMirror, Both
    <3> QED BY <1>4, <3>1, <3>2, <3>3
  <2>2. ASSUME NEW l \in Both'
        PROVE  \/ DecisionOf(row'[l]) = DecisionOf(mirror'[l])
               \/ \E r \in Requests : request[r].pc \in Deciding /\ InHand(l, request[r])'
    <3>1. CASE l \in Both /\ row'[l] = row[l] /\ mirror'[l] = mirror[l]
      BY <1>1, <3>1 DEF MirrorInv, DecisionPending, InHand
    <3>2. CASE /\ rebuild.pc = "entry" /\ l = rebuild.cur.line /\ mirror'[l] = mirror[l]
               /\ row'[l] = FreshEntry(rebuild.cur.id, rebuild.cur.content)
      BY <3>2 DEF MirrorInv, NewDecision
    <3> QED BY <1>4, <3>1, <3>2
  <2> QED
    BY <1>1, <2>1, <2>2 DEF MirrorInv, DecisionPending, Matches, Refreshes
<1>7. PostingPending'
  <2>1. \A w \in Workers : Finds(worker[w].cur.line, worker[w].cur.id)' => ResultOf(w)'
    BY <1>1, <1>5 DEF MirrorInv, PostingPending, ResultOf
  <2>2. ASSUME NEW l \in Both'
        PROVE  \/ SameResult(l)'
               \/ \E w \in Workers : worker[w].pc \in Results /\ InHand(l, worker[w].cur)'
    <3>1. CASE l \in Both /\ row'[l] = row[l] /\ mirror'[l] = mirror[l]
      BY <1>1, <3>1 DEF MirrorInv, PostingPending, SameResult, InHand
    <3>2. CASE /\ rebuild.pc = "entry" /\ l = rebuild.cur.line /\ mirror'[l] = mirror[l]
               /\ row'[l] = FreshEntry(rebuild.cur.id, rebuild.cur.content)
      BY <3>2 DEF MirrorInv, NewResult, SameResult, FreshEntry
    <3> QED BY <1>4, <3>1, <3>2
  <2> QED
    BY <1>1, <2>1, <2>2 DEF PostingPending
<1>8. Unposted'
  <2>1. ASSUME NEW w \in Workers
        PROVE  /\ \A item \in worker[w].todo :
                    Finds(item.line, item.id)' => row'[item.line].qb = NoTxn
               /\ worker[w].pc \in {"journal", "record", "fail"} =>
                    (Finds(worker[w].cur.line, worker[w].cur.id)' =>
                        row'[worker[w].cur.line].qb = NoTxn)
    BY <1>1, <1>5 DEF MirrorInv, Unposted
  <2> QED
    BY <1>1, <2>1 DEF MirrorInv, Unposted
<1>9. NewDecision' /\ NewResult'
  <2>1. rebuild'.pc = "entry" => \E l \in Lines : CreateTransaction(l)
    <3>1. CASE StartRebuild \/ FinishDeletes
      BY <1>0, <3>1 DEF StartRebuild, FinishDeletes, TypeOK
    <3>2. CASE CreateEntry
      BY <3>2 DEF CreateEntry
    <3>3. CASE FailRebuild
      BY <3>3 DEF FailRebuild
    <3>4. ASSUME NEW l \in Lines, DeleteEntry(l) \/ DeleteTransaction(l)
          PROVE  rebuild'.pc # "entry"
      BY <3>4 DEF DeleteEntry, DeleteTransaction
    <3> QED BY <3>1, <3>2, <3>3, <3>4 DEF RebuildStep
  <2>2. ASSUME NEW l \in Lines, CreateTransaction(l)
        PROVE  NewDecision' /\ NewResult'
    <3>1. PICK c \in Matched :
            /\ mirror' = [mirror EXCEPT ![l] = FreshEntry(@.id + 1, c)]
            /\ rebuild' = [rebuild EXCEPT !.pc = "entry",
                 !.cur = [line |-> l, id |-> mirror[l].id + 1, content |-> c]]
      BY <2>2 DEF CreateTransaction
    <3>2. rebuild'.cur = [line |-> l, id |-> mirror[l].id + 1, content |-> c]
      BY <1>0, <3>1 DEF TypeOK
    <3>3. mirror'[l] = FreshEntry(mirror[l].id + 1, c)
      BY <1>0, <3>1 DEF TypeOK
    <3> QED BY <3>2, <3>3 DEF NewDecision, NewResult, FreshEntry
  <2> QED BY <2>1, <2>2 DEF NewDecision, NewResult
<1>10. RequestFresh'
  BY RequestFreshStep DEF Unhurried, MirrorInv, Next
<1> QED
  BY <1>6, <1>7, <1>8, <1>9, <1>10 DEF MirrorInv

LEMMA MirrorInvStep ==
    ASSUME Unhurried
    PROVE  PostingInv /\ MirrorInv /\ [Next]_vars => MirrorInv'
<1> SUFFICES ASSUME PostingInv, MirrorInv, [Next]_vars PROVE MirrorInv'
  OBVIOUS
<1>0. TypeOK
  BY DEF PostingInv
<1>1. RequestFresh'
  BY RequestFreshStep DEF MirrorInv, Unhurried
<1>2. CASE ReviewStep
  <2>1. DecisionPending'
    BY <1>2, DecisionPendingReview DEF MirrorInv
  <2>2. /\ live' = live /\ mirrored' = mirrored /\ rebuild' = rebuild /\ worker' = worker
        /\ Both' = Both /\ Both \subseteq Lines
        /\ \A l \in Lines :
             /\ row'[l].id = row[l].id /\ row'[l].posting = row[l].posting
             /\ row'[l].qb = row[l].qb
             /\ mirror'[l].posting = mirror[l].posting /\ mirror'[l].qb = mirror[l].qb
    BY <1>0, <1>2, ReviewFrame DEF postVars, TypeOK, Both
  <2>3. \A w \in Workers : \A item \in worker[w].todo \cup {worker[w].cur} : item.line \in Lines
    BY <1>0, WorkerParts
  <2>4. PostingPending'
    BY <2>2, <2>3 DEF MirrorInv, PostingPending, SameResult, ResultOf, InHand, Finds
  <2>5. Unposted'
    BY <2>2, <2>3 DEF MirrorInv, Unposted, Finds
  <2>6. NewResult'
    BY <1>0, <2>2 DEF MirrorInv, NewResult, TypeOK, Item
  <2>7. NewDecision'
    <3> SUFFICES ASSUME rebuild.pc = "entry"
                 PROVE  DecisionOf(mirror'[rebuild.cur.line]) = DecisionOf(mirror[rebuild.cur.line])
      BY <2>2 DEF MirrorInv, NewDecision
    <3>1. PICK r \in Requests : Reviews(r)
      BY <1>0, <1>2, Reviewed DEF Unhurried, MirrorInv
    <3>2. rebuild.cur.line \in Lines /\ request[r].pc \notin Matches \cup Refreshes
      BY NewUntouched DEF MirrorInv
    <3>3. request[r].pc \in {"loaded", "saved"} =>
            ~FindsMirror(rebuild.cur.line, request[r].id) \/ request[r].line # rebuild.cur.line
      BY NewUntouched DEF MirrorInv
    <3>4. CASE MirrorsDecision(r)
      BY <3>2, <3>3, <3>4 DEF MirrorsDecision, MirrorDecided
    <3>5. CASE ~MirrorsDecision(r)
      BY <3>1, <3>2, <3>5 DEF Reviews, Opens, BulkApproves, Saves, MatchesRow, MatchesMirror,
         RefreshesMirror, RefreshesRow, Abandons, Matches, Refreshes
    <3> QED BY <3>4, <3>5
  <2> QED
    BY <1>1, <2>1, <2>4, <2>5, <2>6, <2>7 DEF MirrorInv
<1>3. CASE PostStep
  <2>1. /\ live' = live /\ mirrored' = mirrored /\ rebuild' = rebuild /\ request' = request
        /\ Both' = Both /\ Both \subseteq Lines
        /\ \A l \in Lines :
             /\ row'[l].id = row[l].id /\ DecisionOf(row'[l]) = DecisionOf(row[l])
             /\ mirror'[l].id = mirror[l].id
             /\ DecisionOf(mirror'[l]) = DecisionOf(mirror[l])
    BY <1>0, <1>3, DeliveryFrame DEF TypeOK, Both
  <2>2. \A l \in Lines : row'[l].review = row[l].review
    BY <2>1 DEF DecisionOf
  <2>3. DecisionPending'
    BY <1>0, <2>1, <2>2, RequestParts DEF MirrorInv, DecisionPending, InHand, FindsBoth,
       Finds, FindsMirror
  <2>4. NewDecision'
    BY <1>0, <2>1 DEF MirrorInv, NewDecision, TypeOK, Item
  <2>5. NewResult'
    <3> SUFFICES ASSUME rebuild.pc = "entry"
                 PROVE  /\ mirror'[rebuild.cur.line].posting = mirror[rebuild.cur.line].posting
                        /\ mirror'[rebuild.cur.line].qb = mirror[rebuild.cur.line].qb
      BY <2>1 DEF MirrorInv, NewResult
    <3>1. rebuild.cur.line \in Lines
      BY NewUntouched DEF MirrorInv
    <3>2. \A w \in Workers : ~FindsMirror(rebuild.cur.line, worker[w].cur.id)
                             \/ worker[w].cur.line # rebuild.cur.line
      BY NewUntouched DEF MirrorInv
    <3>3. CASE UNCHANGED mirror
      BY <3>3
    <3>4. ASSUME NEW w \in Workers, Delivers(w), mirror' # mirror
          PROVE  /\ mirror'[rebuild.cur.line].posting = mirror[rebuild.cur.line].posting
                 /\ mirror'[rebuild.cur.line].qb = mirror[rebuild.cur.line].qb
      <4>1. PICK posting, qb : WriteMirror(worker[w].cur, posting, qb)
        BY <3>4 DEF Delivers, Selects, Takes, Turns, Records, MirrorsRecord, Fails,
           MirrorsFailure, Ends
      <4>2. worker[w].cur \in Item
        BY <1>0, WorkerParts
      <4>3. IF rebuild.cur.line = worker[w].cur.line
               /\ FindsMirror(rebuild.cur.line, worker[w].cur.id)
            THEN TRUE
            ELSE /\ mirror'[rebuild.cur.line].posting = mirror[rebuild.cur.line].posting
                 /\ mirror'[rebuild.cur.line].qb = mirror[rebuild.cur.line].qb
        BY <1>0, <3>1, <4>1, <4>2, ResultWritten
      <4> QED BY <3>2, <4>3
    <3> QED BY <1>0, <1>3, <3>3, <3>4, DeliveryStep
  <2> QED
    BY <1>1, <1>3, <2>3, <2>4, <2>5, PostingPendingPost DEF MirrorInv
<1>4. CASE RebuildStep
  BY <1>4, MirrorInvRebuild
<1>5. CASE UNCHANGED vars
  BY <1>1, <1>5 DEF vars, postVars, reviewVars, MirrorInv, DecisionPending, PostingPending,
     SameResult, ResultOf, InHand, FindsBoth, Finds, FindsMirror, Both, Unposted,
     NewDecision, NewResult
<1> QED
  BY <1>2, <1>3, <1>4, <1>5 DEF Next

LEMMA MirrorInvAgrees ==
    ASSUME PostingInv, MirrorInv
    PROVE  MirrorAgrees
<1> SUFFICES ASSUME Quiet, NEW l \in Both PROVE mirror[l] = row[l]
  BY DEF MirrorAgrees, Both
<1>1. l \in Lines /\ row[l] \in Entry /\ mirror[l] \in Entry
  BY DEF PostingInv, TypeOK, Both
<1>2. DecisionOf(row[l]) = DecisionOf(mirror[l])
  BY DEF MirrorInv, DecisionPending, Quiet, Idle, Deciding
<1>3. SameResult(l)
  BY DEF MirrorInv, PostingPending, Quiet, At, Results
<1>4. row[l].id = mirror[l].id
  BY <1>1 DEF PostingInv, RebuildInv, Paired, Both
<1>5. row[l].review = mirror[l].review /\ row[l].proposal = mirror[l].proposal
  BY <1>2 DEF DecisionOf
<1> QED
  BY <1>1, <1>3, <1>4, <1>5 DEF SameResult, Entry

(* At rest, mirror and row of every line are equal, when review requests do *)
(* not overlap, deliveries do not overlap, there is no bulk approval (it    *)
(* leaves the mirror behind) and no database write fails; QuickBooks        *)
(* replies may be lost.  Statements may be rebuilt when no job refreshes or *)
(* matches a transaction: between the two creates it finds a mirror that    *)
(* has no row yet, and only the mirror gets its proposal.                   *)
THEOREM LedgerMirrorAgrees ==
    ASSUME Unhurried
    PROVE  Spec => []MirrorAgrees
<1>1. Init => MirrorInv
  BY PendingInit, RequestFreshInit DEF MirrorInv
<1>2. PostingInv /\ MirrorInv /\ [Next]_vars => MirrorInv'
  BY MirrorInvStep
<1>3. PostingInv /\ MirrorInv => MirrorAgrees
  BY MirrorInvAgrees
<1> QED
  BY <1>1, <1>2, <1>3, PostingInvInit, PostingInvStep, PTL DEF Spec

-----------------------------------------------------------------------------
(* Serialised postings implement BookOnce: every step is, under the mapping *)
(* Held and Shown, a step of BookOnce or a stutter.                         *)

(* Nothing changes at the level of the promise.                             *)
LEMMA PromiseStutters ==
    ASSUME UNCHANGED books, \A l \in Lines : row'[l].qb = row[l].qb
    PROVE  UNCHANGED Promise!vars
<1>1. Held' = Held
  BY DEF Held
<1>2. Shown' = Shown
  BY DEF Shown
<1> QED BY <1>1, <1>2 DEF Promise!vars

(* A call that creates one transaction for an unbooked line books it; one   *)
(* that creates none changes nothing.                                       *)
LEMMA CreateBooks ==
    ASSUME TypeOK, NEW item \in Item, NEW kind \in {"typed", "journal"},
           NEW n \in {0, 1}, Create(item, kind, n), UNCHANGED row, AtMostOnce'
    PROVE  [Promise!Next]_(Promise!vars)
<1>1. books \in Seq(QbTxn) /\ Len(books) \in Nat /\ item.line \in Lines
  BY LenProperties DEF TypeOK, Item
<1>2. /\ Len(books') = Len(books) + n
      /\ \A i \in 1..Len(books) : books'[i] = books[i]
      /\ \A i \in (Len(books) + 1)..(Len(books) + n) :
           books'[i] = [line |-> item.line, content |-> item.content, kind |-> kind]
  <2>1. n \in Nat
    OBVIOUS
  <2> QED
    BY <1>1, <2>1, CreateAppends, ZenonT(60)
<1>3. Shown' = Shown
  BY DEF Shown
<1>4. CASE n = 0
  <2>1. \A l \in Lines : {i \in 1..Len(books) : books[i].line = l}'
                           = {i \in 1..Len(books) : books[i].line = l}
    BY <1>1, <1>2, <1>4
  <2>2. Held' = Held
    BY <2>1 DEF Held
  <2> QED BY <1>3, <2>2 DEF Promise!vars
<1>5. CASE n = 1
  <2> DEFINE last == Len(books) + 1
  <2>1. last \in 1..Len(books') /\ books'[last].line = item.line
    BY <1>1, <1>2, <1>5
  <2>2. \A i \in 1..Len(books') : books'[i].line = item.line => i = last
    BY <2>1 DEF AtMostOnce
  <2>3. \A i \in 1..Len(books) : i \in 1..Len(books') /\ i # last
    BY <1>1, <1>2, <1>5
  <2>4. \A i \in 1..Len(books') : i \in 1..Len(books) \/ i = last
    BY <1>1, <1>2, <1>5
  <2>5. Held[item.line] = {} /\ Held'[item.line] = {last}
    BY <1>1, <1>2, <2>1, <2>2, <2>3 DEF Held
  <2>6. \A l \in Lines \ {item.line} : Held'[l] = Held[l]
    BY <1>1, <1>2, <2>1, <2>3, <2>4 DEF Held
  <2>7. Held' = [Held EXCEPT ![item.line] = {last}]
    BY <2>5, <2>6 DEF Held
  <2> HIDE DEF last
  <2>8. Promise!Book(item.line)
    BY <1>1, <1>3, <2>5, <2>7 DEF Promise!Book
  <2> QED BY <1>1, <2>8 DEF Promise!Next
<1> QED BY <1>4, <1>5

(* Recording the id on the row shows the line's only booking.               *)
LEMMA RecordShows ==
    ASSUME PostingInv, AtMostOnce, NEW w \in Workers, RecordRow(w)
    PROVE  [Promise!Next]_(Promise!vars)
<1> DEFINE l == worker[w].cur.line
           id == worker[w].txn
<1>1. /\ TypeOK /\ l \in Lines /\ worker[w].cur \in Item
      /\ id \in 1..Len(books) /\ books[id].line = l
  BY DEF RecordRow, At, PostingInv, WorkersBacked, BackedBy, TypeOK, WorkerState, Item
<1>2. Held[l] = {id}
  <2>1. \A i \in 1..Len(books) : books[i].line = l => i = id
    BY <1>1 DEF AtMostOnce
  <2>2. Held[l] = {i \in 1..Len(books) : books[i].line = l}
    BY <1>1 DEF Held
  <2> HIDE DEF l, id
  <2> QED BY <1>1, <2>1, <2>2
<1>3. Held' = Held
  BY DEF RecordRow, Held
<1>4. id # NoTxn
  BY <1>1, LenProperties DEF TypeOK, NoTxn
<1>5. CASE Finds(l, worker[w].cur.id)
  <2>1. /\ row'[l].qb = id
        /\ \A k \in Lines \ {l} : row'[k] = row[k]
    BY <1>1, <1>5 DEF RecordRow, WriteRow, TypeOK, Entry
  <2>2. Shown' = [Shown EXCEPT ![l] = {id}]
    BY <1>1, <1>4, <2>1 DEF Shown
  <2>3. Promise!Show(l)
    BY <1>2, <1>3, <2>2 DEF Promise!Show
  <2> QED BY <1>1, <2>3 DEF Promise!Next
<1>6. CASE ~Finds(l, worker[w].cur.id)
  BY <1>6, PromiseStutters DEF RecordRow, WriteRow, PostOnly
<1> QED BY <1>5, <1>6

(* The step of the refinement.                                              *)
LEMMA PromiseStep ==
    ASSUME Serial, PostingInv, SerialInv, SerialInv', [Next]_vars
    PROVE  [Promise!Next]_(Promise!vars)
<1>0. TypeOK /\ AtMostOnce /\ AtMostOnce'
  BY DEF PostingInv, SerialInv
<1>1. CASE UNCHANGED vars
  BY <1>1, PromiseStutters DEF vars, postVars
<1>2. CASE ReviewStep
  BY <1>0, <1>2, ReviewFrame, PromiseStutters DEF postVars
<1>3. ~RebuildStep
  BY SerialNoRebuild
<1>4. ASSUME NEW w \in Workers, NEW item \in worker[w].todo, PostTyped(w, item)
      PROVE  [Promise!Next]_(Promise!vars)
  <2>1. item \in Item
    BY <1>0, <1>4 DEF TypeOK, WorkerState
  <2>2. PICK n \in {0, 1} : Create(item, "typed", n)
    BY <1>4 DEF PostTyped, Serial, CreatedOnReply, CreatedOnError
  <2> QED BY <1>0, <1>4, <2>1, <2>2, CreateBooks DEF PostTyped
<1>5. ASSUME NEW w \in Workers, PostJournal(w)
      PROVE  [Promise!Next]_(Promise!vars)
  <2>1. worker[w].cur \in Item
    BY <1>0 DEF TypeOK, WorkerState
  <2>2. PICK n \in {0, 1} : Create(worker[w].cur, "journal", n)
    BY <1>5 DEF PostJournal, Serial, CreatedOnReply, CreatedOnError
  <2> QED BY <1>0, <1>5, <2>1, <2>2, CreateBooks DEF PostJournal
<1>6. ASSUME NEW w \in Workers, FailRow(w)
      PROVE  [Promise!Next]_(Promise!vars)
  <2>1. \A l \in Lines : row'[l].qb = row[l].qb
    BY <1>0, <1>6 DEF FailRow, WriteRow, TypeOK, Entry, WorkerState, Item
  <2> QED BY <1>6, <2>1, PromiseStutters DEF FailRow
<1>7. CASE PostStep /\ UNCHANGED <<row, books>>
  BY <1>7, PromiseStutters
<1>8. PostStep => \/ UNCHANGED <<row, books>>
                  \/ \E w \in Workers :
                       \/ \E item \in worker[w].todo : PostTyped(w, item)
                       \/ PostJournal(w) \/ RecordRow(w) \/ FailRow(w)
  BY DEF PostStep, MarkQuickBooksSyncRunning, StartPosting, RejectUntyped,
     RejectIncomplete, RecordMirror, RecordError, FailMirror, FinishPosting,
     AbortPosting, CrashPosting
<1> QED BY <1>0, <1>1, <1>2, <1>3, <1>4, <1>5, <1>6, <1>7, <1>8, RecordShows DEF Next

(* With serialised deliveries, no fault and no rebuild, the posting job     *)
(* implements BookOnce: each bank line is booked once, its row shows that   *)
(* very transaction only after it exists, and never stops showing it.       *)
THEOREM LedgerKeepsThePromise ==
    ASSUME Serial
    PROVE  Spec => KeepsThePromise
<1>1. Init => Promise!Init
  <2> SUFFICES ASSUME Init PROVE Promise!Init
    OBVIOUS
  <2>1. \A l \in Lines : row[l].qb = NoTxn
    BY DEF Init, FreshEntry
  <2>2. books = <<>> /\ 1..Len(books) = {}
    BY DEF Init
  <2> QED BY <2>1, <2>2 DEF Promise!Init, Held, Shown
<1>2. PostingInv /\ SerialInv /\ [Next]_vars => SerialInv'
  BY SerialInvStep
<1>3. PostingInv /\ SerialInv /\ SerialInv' /\ [Next]_vars => [Promise!Next]_(Promise!vars)
  BY PromiseStep
<1> QED BY <1>1, <1>2, <1>3, PostingInvInit, PostingInvStep, SerialInvInit, PTL
        DEF Spec, KeepsThePromise, Promise!Spec
=============================================================================
