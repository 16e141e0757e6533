--------------------- MODULE QuickBooksConnection_proofs ---------------------
(***************************************************************************)
(* Proofs about the QuickBooks connection, for any number of pulls, desks,  *)
(* realms, tokens, accounts and faults: the state is well-typed and every   *)
(* token in use was issued; between two requests the settings say what the  *)
(* secret can do; a client request id stands for one document of a type;    *)
(* and accounts keep their codes.                                           *)
(***************************************************************************)
EXTENDS QuickBooksConnection, WellFoundedInduction, FiniteSetTheorems, TLAPS

(* What a process keeps at each step: tokens that were issued, the one it    *)
(* renews and the new one of its realm, the one it sends, the one a code was *)
(* exchanged for.                                                            *)
Renewing == {"renewLoad", "renewAsk", "renewSave"}
Calling == {"ensure"} \cup Renewing
HoldsTokens(s, issued) ==
    LET Held(token) == token \in 1 .. Len(issued) IN
    /\ s.pc \in {"renewAsk", "renewSave"} => Held(s.old)
    /\ s.pc = "renewSave" => Held(s.token) /\ issued[s.token] = issued[s.old]
    /\ s.pc = "send" \/ s.stage = "attempt" => Held(s.token)
    /\ s.pc = "exchange" => s.realm \in Realms
    /\ s.pc = "saveSecret" => Held(s.token) /\ issued[s.token] = s.realm

(* The status page only asks for the realm, a pull only reads, a desk looks  *)
(* for its tag before it posts.                                              *)
Reads == {"find", "post", "accounts", "entities"}
InTurn(p, s) ==
    /\ s.pc = "send" => s.stage = "attempt" /\ s.next \in Reads
    /\ s.pc \in {"readChart", "writeChart"} => p \in QbJobs
    /\ s.pc \in Calling => s.next # "done" /\ (s.stage # "path" => s.next \in Reads)
    /\ p = QbAdmin => /\ s.next \in {"done", "heal"}
                      /\ s.pc \in Calling => s.next = "heal" /\ s.stage = "path"
                      /\ s.pc \notin {"send", "markError", "markSuccess"}
    /\ p \in QbJobs => s.next \in {"done", "accounts", "entities"}
    /\ p \in QbDesks => s.next \in {"done", "hold", "find", "post"}
    /\ s.next \in {"hold", "find", "post"} => s.tag \in TaggedDocs
    /\ s.next = "post" => s.found \in Realms

QbFits == \A p \in QbProcs : HoldsTokens(qbProc[p], qbIssued) /\ InTurn(p, qbProc[p])

(* The stored documents and what is outside the processes.                   *)
QbBudgetSet == [start : Realms \cup {NoRealm}, grants : Nat, admin : Nat,
                pull : Nat, write : Nat, fault : Nat]
QbSettingsSet == [connected : BOOLEAN, realm : Realms \cup {NoRealm}, pull : PullStatus]
CodeLists == [QbAccounts -> QbCodes \cup {NoCode}]
QbStores ==
    /\ qbSettings \in QbSettingsSet
    /\ qbIssued \in Seq(Realms) /\ Len(qbIssued) <= MaxTokensQb
    /\ qbSecret \in 0 .. Len(qbIssued) /\ qbExpired \subseteq 1 .. Len(qbIssued)
    /\ qbGrants \in Nat /\ qbCookie \in 0 .. qbGrants
    /\ qbChart \in CodeLists
    /\ qbBooks \in [Realms \X TaggedDocs -> Nat] /\ qbExcused \in [TaggedDocs -> Nat]
    /\ qbRaced \subseteq {"refresh", "environment"} /\ qbQueue \in Nat
    /\ qbBudget \in QbBudgetSet
QbInv == QbStores /\ qbProc \in [QbProcs -> QbState] /\ QbFits

(* The tokens issued so far stay.                                            *)
IssuedGrows ==
    /\ Len(qbIssued) \in Nat /\ Len(qbIssued') \in Nat /\ Len(qbIssued) <= Len(qbIssued')
    /\ \A i \in 1 .. Len(qbIssued) : qbIssued'[i] = qbIssued[i]

(* The invariant implies the type invariant of the runs.                    *)
LEMMA InvIsTyped == QbInv => QbTypeOK
BY DEF QbInv, QbStores, QbTypeOK, QbSettingsSet, QbBudgetSet, CodeLists

(* A process that is idle holds nothing.                                    *)
LEMMA IdleFits ==
    /\ QbIdle \in QbState /\ QbIdle.pc = "idle" /\ QbIdle.next = "done"
    /\ \A issued : HoldsTokens(QbIdle, issued)
    /\ \A p : InTurn(p, QbIdle)
<1>1. NoCodes \in [QbAccounts -> QbCodes \cup {NoCode}]
  BY DEF NoCodes
<1>2. 0 \in QbTokens /\ 0 \in 0 .. MaxAttempts
  BY QuickBooksAssumption DEF QbTokens, MaxAttempts
<1>3. QbIdle \in QbState
  BY <1>1, <1>2 DEF QbIdle, QbState, Disconnected, PullStatus
<1>4. \A issued : HoldsTokens(QbIdle, issued)
  BY DEF HoldsTokens, QbIdle
<1>5. \A p : InTurn(p, QbIdle)
  BY DEF InTurn, QbIdle, Calling, Renewing
<1> QED
  BY <1>3, <1>4, <1>5 DEF QbIdle

(* What the invariant says of one process.                                   *)
LEMMA StateIs ==
    ASSUME QbInv, NEW p \in QbProcs
    PROVE  qbProc[p] \in QbState /\ HoldsTokens(qbProc[p], qbIssued) /\ InTurn(p, qbProc[p])
BY DEF QbInv, QbFits

(* A step that changes no token and moves no process, and one that moves one.*)
LEMMA FitsStay ==
    ASSUME NEW s, NEW issued, NEW more, HoldsTokens(s, issued),
           Len(issued) \in Nat, Len(more) \in Nat, Len(issued) <= Len(more),
           \A i \in 1 .. Len(issued) : more[i] = issued[i]
    PROVE  HoldsTokens(s, more)
BY DEF HoldsTokens

(* A step that moves one process, and one that moves none.                  *)
LEMMA QbMoves ==
    ASSUME QbInv, NEW p \in QbProcs, NEW new \in QbState, QbSet(p, new), QbStores', IssuedGrows,
           HoldsTokens(new, qbIssued'), InTurn(p, new)
    PROVE  QbInv'
<1>1. qbProc' = [qbProc EXCEPT ![p] = new]
  BY DEF QbSet
<1>2. qbProc' \in [QbProcs -> QbState]
      /\ \A q \in QbProcs : qbProc'[q] = IF q = p THEN new ELSE qbProc[q]
  BY <1>1 DEF QbInv
<1>3. \A q \in QbProcs : HoldsTokens(qbProc[q], qbIssued') /\ InTurn(q, qbProc[q])
  BY StateIs, FitsStay DEF IssuedGrows
<1>4. \A q \in QbProcs : HoldsTokens(qbProc'[q], qbIssued') /\ InTurn(q, qbProc'[q])
  BY <1>2, <1>3
<1> QED
  BY <1>2, <1>4 DEF QbInv, QbFits

(* A step that moves no process.                                            *)
LEMMA QbStays ==
    ASSUME QbInv, qbProc' = qbProc, QbStores', IssuedGrows
    PROVE  QbInv'
<1>1. \A q \in QbProcs : HoldsTokens(qbProc[q], qbIssued') /\ InTurn(q, qbProc[q])
  BY StateIs, FitsStay DEF IssuedGrows
<1> QED
  BY <1>1 DEF QbInv, QbFits

(* Requests and faults still to come, one fewer.                             *)
LEMMA Spends ==
    ASSUME QbInv, NEW what \in {"grants", "admin", "pull", "write", "fault"}, QbSpend(what)
    PROVE  qbBudget' \in QbBudgetSet
<1>1. qbBudget \in QbBudgetSet /\ qbBudget[what] > 0
      /\ qbBudget' = [qbBudget EXCEPT ![what] = qbBudget[what] - 1]
  BY DEF QbInv, QbStores, QbSpend
<1>2. qbBudget[what] - 1 \in Nat
  BY <1>1 DEF QbBudgetSet
<1>3. \A n \in Nat : [qbBudget EXCEPT ![what] = n] \in QbBudgetSet
  BY <1>1 DEF QbBudgetSet
<1> QED
  BY <1>1, <1>2, <1>3

(* A fault takes one from those still to come.                              *)
LEMMA Faulty ==
    ASSUME QbInv, NEW f, QbFault(f)
    PROVE  qbBudget' \in QbBudgetSet
<1>1. QbSpend("fault")
  BY DEF QbFault
<1> QED
  BY <1>1, Spends

(* Without a new token.                                                      *)
LEMMA SameTokens == ASSUME QbInv, qbIssued' = qbIssued PROVE IssuedGrows
BY DEF QbInv, QbStores, IssuedGrows

(* A new token for a realm.                                                  *)
LEMMA TokenIssued ==
    ASSUME QbInv, NEW r \in Realms, Len(qbIssued) < MaxTokensQb, qbIssued' = Append(qbIssued, r)
    PROVE  /\ IssuedGrows /\ qbIssued' \in Seq(Realms) /\ Len(qbIssued') <= MaxTokensQb
           /\ Len(qbIssued') = Len(qbIssued) + 1 /\ Len(qbIssued) \in Nat
           /\ qbIssued'[Len(qbIssued) + 1] = r /\ Len(qbIssued) + 1 \in 1 .. Len(qbIssued')
           /\ Len(qbIssued) + 1 \in QbTokens
BY QuickBooksAssumption DEF QbInv, QbStores, IssuedGrows, QbTokens

(* The fields that are saved are those of two documents.                     *)
LEMMA SavedIs ==
    ASSUME QbInv, NEW doc \in QbSettingsSet, NEW new \in QbSettingsSet
    PROVE  /\ SavedSettings(doc, new) \in QbSettingsSet
           /\ SavedSettings(doc, new).connected =
                 IF new.connected = doc.connected THEN qbSettings.connected ELSE new.connected
           /\ SavedSettings(doc, new).realm =
                 IF new.realm = doc.realm THEN qbSettings.realm ELSE new.realm
BY DEF QbInv, QbStores, QbSettingsSet, SavedSettings

-----------------------------------------------------------------------------
(* What a call that throws, is retried, has its token or its answer goes on  *)
(* with.                                                                     *)
GoesOn(p, new, issued) == new \in QbState /\ HoldsTokens(new, issued) /\ InTurn(p, new)

(* A call that throws.                                                      *)
LEMMA ThrownIs ==
    ASSUME NEW p \in QbProcs, NEW issued
    PROVE  GoesOn(p, Thrown(p), issued) /\ Thrown(p).pc \in {"idle", "markError"}
           /\ (p \notin QbJobs => Thrown(p) = QbIdle) /\ Thrown(p).next = "done"
<1>1. CASE p \in QbJobs
  <2> DEFINE new == [QbIdle EXCEPT !.pc = "markError"]
  <2>1. Thrown(p) = new
    BY <1>1 DEF Thrown
  <2>2. new \in QbState /\ new.pc = "markError" /\ new.next = "done" /\ new.stage = "path"
    BY IdleFits DEF QbState, QbIdle
  <2>3. p # QbAdmin /\ p \notin QbDesks
    BY <1>1, QuickBooksAssumption
  <2> HIDE DEF new
  <2>4. HoldsTokens(new, issued)
    BY <2>2 DEF HoldsTokens
  <2>5. InTurn(p, new)
    BY <1>1, <2>2, <2>3 DEF InTurn, Calling, Renewing
  <2> QED
    BY <1>1, <2>1, <2>2, <2>4, <2>5 DEF GoesOn
<1>2. CASE p \notin QbJobs
  BY <1>2, IdleFits DEF Thrown, GoesOn
<1> QED
  BY <1>1, <1>2

(* A call that is retried, or throws after its last attempt.                *)
LEMMA RetriedIs ==
    ASSUME QbInv, NEW p \in QbProcs, qbProc[p].stage = "attempt", qbProc[p].next \in Reads
    PROVE  GoesOn(p, Retried(p), qbIssued)
<1> DEFINE s == qbProc[p]
           new == [s EXCEPT !.pc = "send", !.tries = s.tries + 1, !.renewed = FALSE]
<1>0. s \in QbState /\ HoldsTokens(s, qbIssued) /\ InTurn(p, s)
  BY StateIs
<1>1. CASE s.tries < MaxAttempts
  <2>1. Retried(p) = new
    BY <1>1 DEF Retried
  <2>2. s.tries + 1 \in 0 .. MaxAttempts
    BY <1>0, <1>1 DEF QbState, MaxAttempts
  <2>3. /\ new \in QbState /\ new.pc = "send" /\ new.stage = "attempt" /\ new.token = s.token
        /\ new.next = s.next /\ new.tag = s.tag /\ new.found = s.found
    <3>1. \A t \in 0 .. MaxAttempts : [s EXCEPT !.pc = "send", !.tries = t, !.renewed = FALSE] \in QbState
      BY <1>0 DEF QbState
    <3>2. new \in QbState
      BY <2>2, <3>1
    <3>3. /\ new.pc = "send" /\ new.stage = "attempt" /\ new.token = s.token
          /\ new.next = s.next /\ new.tag = s.tag /\ new.found = s.found
      BY <1>0 DEF QbState
    <3> QED
      BY <3>2, <3>3
  <2> HIDE DEF new
  <2>4. HoldsTokens(new, qbIssued)
    BY <1>0, <2>3 DEF HoldsTokens
  <2>5. InTurn(p, new)
    BY <1>0, <2>3 DEF InTurn, Calling, Renewing, Reads
  <2> QED
    BY <2>1, <2>3, <2>4, <2>5 DEF GoesOn
<1>2. CASE ~(s.tries < MaxAttempts)
  BY <1>2, ThrownIs DEF Retried
<1> QED
  BY <1>1, <1>2

(* A renewal that throws.                                                   *)
LEMMA RenewThrownIs ==
    ASSUME QbInv, NEW p \in QbProcs, qbProc[p].pc \in Calling
    PROVE  GoesOn(p, RenewThrown(p), qbIssued)
<1>1. CASE qbProc[p].stage = "attempt"
  <2>1. qbProc[p].next \in Reads
    BY <1>1, StateIs DEF InTurn
  <2> QED
    BY <1>1, <2>1, RetriedIs DEF RenewThrown
<1>2. CASE qbProc[p].stage # "attempt"
  BY <1>2, ThrownIs DEF RenewThrown
<1> QED
  BY <1>1, <1>2

(* A token in hand: what it was asked for.                                   *)
LEMMA WithSecretIs ==
    ASSUME QbInv, NEW p \in QbProcs, qbProc[p].pc \in Calling, NEW token \in 1 .. Len(qbIssued)
    PROVE  GoesOn(p, WithSecret(p, token), qbIssued)
<1> DEFINE s == qbProc[p]
           heal == [s EXCEPT !.pc = "heal", !.path = qbIssued[token]]
           hold == [s EXCEPT !.pc = "ensure", !.held = qbIssued[token], !.next = "find"]
           path == [s EXCEPT !.pc = "ensure", !.stage = "call", !.path = qbIssued[token]]
           call == [s EXCEPT !.pc = "send", !.stage = "attempt", !.token = token, !.tries = 1,
                             !.old = 0, !.renewed = FALSE]
           attempt == [s EXCEPT !.pc = "send", !.token = token, !.old = 0]
<1>0. s \in QbState /\ HoldsTokens(s, qbIssued) /\ InTurn(p, s)
  BY StateIs
<1>1. /\ qbIssued[token] \in Realms /\ token \in QbTokens /\ 0 \in QbTokens
      /\ 1 \in 0 .. MaxAttempts
  BY QuickBooksAssumption DEF QbInv, QbStores, QbTokens, MaxAttempts
<1>2. CASE s.stage = "path" /\ s.next = "heal"
  <2>1. WithSecret(p, token) = heal
    BY <1>2 DEF WithSecret
  <2>2. heal \in QbState /\ heal.pc = "heal" /\ heal.next = "heal" /\ heal.stage = "path"
    BY <1>0, <1>1, <1>2 DEF QbState
  <2>3. p \notin QbJobs /\ p \notin QbDesks
    BY <1>0, <1>2 DEF InTurn
  <2> HIDE DEF heal
  <2>4. HoldsTokens(heal, qbIssued) /\ InTurn(p, heal)
    BY <2>2, <2>3 DEF HoldsTokens, InTurn, Calling, Renewing
  <2> QED
    BY <2>1, <2>2, <2>4 DEF GoesOn
<1>3. CASE s.stage = "path" /\ s.next = "hold"
  <2>1. WithSecret(p, token) = hold
    BY <1>3 DEF WithSecret
  <2>2. /\ hold \in QbState /\ hold.pc = "ensure" /\ hold.next = "find" /\ hold.stage = "path"
        /\ hold.tag = s.tag
    BY <1>0, <1>1, <1>3 DEF QbState
  <2>3. p # QbAdmin /\ p \notin QbJobs /\ s.tag \in TaggedDocs
    BY <1>0, <1>3 DEF InTurn
  <2> HIDE DEF hold
  <2>4. HoldsTokens(hold, qbIssued) /\ InTurn(p, hold)
    BY <2>2, <2>3 DEF HoldsTokens, InTurn, Calling, Renewing
  <2> QED
    BY <2>1, <2>2, <2>4 DEF GoesOn
<1>4. CASE s.stage = "path" /\ s.next \notin {"heal", "hold"}
  <2>1. WithSecret(p, token) = path
    BY <1>4 DEF WithSecret
  <2>2. /\ path \in QbState /\ path.pc = "ensure" /\ path.next = s.next /\ path.stage = "call"
        /\ path.tag = s.tag /\ path.found = s.found
    BY <1>0, <1>1, <1>4 DEF QbState
  <2>3. s.next \in Reads /\ p # QbAdmin
    BY <1>0, <1>4 DEF InTurn, QbState, Reads
  <2> HIDE DEF path
  <2>4. HoldsTokens(path, qbIssued)
    BY <2>2 DEF HoldsTokens
  <2>5. InTurn(p, path)
    BY <1>0, <2>2, <2>3 DEF InTurn, Calling, Renewing
  <2> QED
    BY <2>1, <2>2, <2>4, <2>5 DEF GoesOn
<1>5. CASE s.stage = "call"
  <2>1. WithSecret(p, token) = call
    BY <1>5 DEF WithSecret
  <2>2. /\ call \in QbState /\ call.pc = "send" /\ call.next = s.next /\ call.stage = "attempt"
        /\ call.tag = s.tag /\ call.found = s.found /\ call.token = token
    <3>1. \A t \in 0 .. MaxAttempts :
             [s EXCEPT !.pc = "send", !.stage = "attempt", !.token = token, !.tries = t,
                       !.old = 0, !.renewed = FALSE] \in QbState
      BY <1>0, <1>1, ZenonT(60) DEF QbState
    <3>2. call \in QbState
      BY <1>1, <3>1
    <3>3. /\ call.pc = "send" /\ call.next = s.next /\ call.stage = "attempt"
          /\ call.tag = s.tag /\ call.found = s.found /\ call.token = token
      BY <1>0 DEF QbState
    <3> QED
      BY <3>2, <3>3
  <2>3. s.next \in Reads /\ p # QbAdmin
    BY <1>0, <1>5 DEF InTurn
  <2> HIDE DEF call
  <2>4. HoldsTokens(call, qbIssued)
    BY <2>2 DEF HoldsTokens
  <2>5. InTurn(p, call)
    BY <1>0, <2>2, <2>3 DEF InTurn, Calling, Renewing
  <2> QED
    BY <2>1, <2>2, <2>4, <2>5 DEF GoesOn
<1>6. CASE s.stage = "attempt"
  <2>1. WithSecret(p, token) = attempt
    BY <1>6 DEF WithSecret
  <2>2. /\ attempt \in QbState /\ attempt.pc = "send" /\ attempt.next = s.next
        /\ attempt.stage = "attempt" /\ attempt.tag = s.tag /\ attempt.found = s.found
        /\ attempt.token = token
    BY <1>0, <1>1, <1>6, ZenonT(60) DEF QbState
  <2>3. s.next \in Reads /\ p # QbAdmin
    BY <1>0, <1>6 DEF InTurn
  <2> HIDE DEF attempt
  <2>4. HoldsTokens(attempt, qbIssued)
    BY <2>2 DEF HoldsTokens
  <2>5. InTurn(p, attempt)
    BY <1>0, <2>2, <2>3 DEF InTurn, Calling, Renewing
  <2> QED
    BY <2>1, <2>2, <2>4, <2>5 DEF GoesOn
<1> QED
  BY <1>0, <1>2, <1>3, <1>4, <1>5, <1>6 DEF QbState

-----------------------------------------------------------------------------
(* Codes. Induction over a set of naturals, from the well-foundedness of <.  *)

(* A set of naturals that holds 0 and each successor holds them all.         *)
LEMMA SetInduction ==
    ASSUME NEW T, 0 \in T, \A n \in Nat : n \in T => n + 1 \in T
    PROVE  Nat \subseteq T
<1> DEFINE Missing == {n \in Nat : n \notin T}
           R == {ss \in Nat \X Nat : ss[1] < ss[2]}
<1>1. IsWellFoundedOn(R, Nat)
  BY NatLessThanWellFounded DEF OpToRel
<1> SUFFICES ASSUME Missing # {}
             PROVE  FALSE
  OBVIOUS
<1>2. Missing \subseteq Nat
  OBVIOUS
<1>3. PICK n \in Missing : \A m \in Missing : ~(<<m, n>> \in R)
  <2> HIDE DEF R, Missing
  <2> QED
    BY <1>1, <1>2, WFMin
<1>4. n \in Nat /\ n # 0 /\ n - 1 \in Nat /\ n - 1 < n /\ (n - 1) + 1 = n
  OBVIOUS
<1>5. n - 1 \in T
  BY <1>3, <1>4
<1> QED
  BY <1>4, <1>5

(* A set of naturals that is not empty has a least member.                   *)
LEMMA LeastOf ==
    ASSUME NEW T, T \subseteq Nat, T # {}
    PROVE  \E n \in T : \A m \in 0 .. n - 1 : m \notin T
<1> DEFINE R == {ss \in Nat \X Nat : ss[1] < ss[2]}
<1>1. IsWellFoundedOn(R, Nat)
  BY NatLessThanWellFounded DEF OpToRel
<1>2. PICK n \in T : \A m \in T : ~(<<m, n>> \in R)
  <2> HIDE DEF R
  <2> QED
    BY <1>1, WFMin
<1>3. \A m \in 0 .. n - 1 : m \in Nat /\ m < n
  OBVIOUS
<1> QED
  BY <1>2, <1>3

(* The codes that are taken when an account is to get one.                   *)
UsedCodes(chart, new) ==
    SystemCodes \cup {chart[b] : b \in QbAccounts} \cup {new[b] : b \in QbAccounts}

(* What a pull has decided so far: a known account keeps its code; a new     *)
(* code is none of the chart's, none of the default chart's, nobody else's.  *)
Decided(chart, new) ==
    /\ new \in CodeLists
    /\ \A a \in QbAccounts : chart[a] # NoCode => new[a] \in {NoCode, chart[a]}
    /\ \A a \in QbAccounts : chart[a] = NoCode /\ new[a] # NoCode =>
          /\ new[a] \notin SystemCodes
          /\ \A b \in QbAccounts : new[a] # chart[b] /\ (b # a => new[a] # new[b])

(* There are more suffixes than codes in use.                                *)
LEMMA SuffixLeft ==
    ASSUME NEW chart \in CodeLists, NEW new, Decided(chart, new), NEW a \in QbAccounts
    PROVE  \E k \in CodeSuffixes : <<a, k>> \notin UsedCodes(chart, new)
<1> DEFINE code(b) == IF chart[b] # NoCode THEN chart[b] ELSE new[b]
           places == 1 .. Len(AccountList)
           f == [n \in places |-> code(AccountList[n])]
           image == {f[n] : n \in places}
           size == Len(AccountList) + Cardinality(SystemCodes)
           g == [k \in CodeSuffixes |-> <<a, k>>]
<1> SUFFICES ASSUME \A k \in CodeSuffixes : <<a, k>> \in UsedCodes(chart, new)
             PROVE  FALSE
  OBVIOUS
<1>1. Len(AccountList) \in Nat /\ QbAccounts = {AccountList[n] : n \in places}
  BY ChartAssumption DEF QbAccounts
<1>2. IsFiniteSet(places) /\ Cardinality(places) = Len(AccountList)
  <2>1. 1 \in Int /\ Len(AccountList) \in Int
    BY <1>1
  <2>2. /\ IsFiniteSet(places)
        /\ Cardinality(places) = IF 1 > Len(AccountList) THEN 0 ELSE Len(AccountList) - 1 + 1
    BY <2>1, FS_Interval, Zenon
  <2> QED
    BY <1>1, <2>2
<1>3. IsFiniteSet(image) /\ Cardinality(image) <= Len(AccountList)
  <2>1. f \in Surjection(places, image)
    BY DEF Surjection
  <2> HIDE DEF f, image, places
  <2> QED
    BY <1>2, <2>1, FS_Surjection
<1>4. IsFiniteSet(SystemCodes) /\ Cardinality(SystemCodes) \in Nat
  BY ChartAssumption, FS_CardinalityType
<1>5. /\ IsFiniteSet(SystemCodes \cup image)
      /\ Cardinality(SystemCodes \cup image) <= size
      /\ Cardinality(SystemCodes \cup image) \in Nat
  <2> HIDE DEF image
  <2>1. /\ IsFiniteSet(SystemCodes \cup image)
        /\ Cardinality(SystemCodes \cup image) =
              Cardinality(SystemCodes) + Cardinality(image) - Cardinality(SystemCodes \cap image)
    BY <1>3, <1>4, FS_Union
  <2>2. IsFiniteSet(SystemCodes \cap image)
    BY <1>4, FS_Subset
  <2>3. /\ Cardinality(SystemCodes \cap image) \in Nat /\ Cardinality(image) \in Nat
        /\ Cardinality(SystemCodes \cup image) \in Nat
    BY <1>3, <2>1, <2>2, FS_CardinalityType
  <2> QED
    BY <1>1, <1>3, <1>4, <2>1, <2>3
<1>6. IsFiniteSet(CodeSuffixes) /\ Cardinality(CodeSuffixes) = size + 1
  <2>1. 0 \in Int /\ size \in Int /\ ~(0 > size)
    BY <1>1, <1>4
  <2>2. CodeSuffixes = 0 .. size
    BY DEF CodeSuffixes
  <2> HIDE DEF size
  <2>3. IsFiniteSet(0 .. size) /\ Cardinality(0 .. size) = IF 0 > size THEN 0 ELSE size - 0 + 1
    BY <2>1, FS_Interval, Zenon
  <2> QED
    BY <2>1, <2>2, <2>3
<1>7. ASSUME NEW k \in CodeSuffixes
      PROVE  <<a, k>> \in SystemCodes \cup image
  <2>1. <<a, k>> \in QbCodes
    BY DEF QbCodes
  <2>2. <<a, k>> # NoCode
    BY <2>1, ChartAssumption
  <2>3. CASE <<a, k>> \in SystemCodes
    BY <2>3
  <2>4. ASSUME NEW b \in QbAccounts, <<a, k>> \in {chart[b], new[b]}
        PROVE  <<a, k>> \in image
    <3>1. <<a, k>> = code(b)
      BY <2>2, <2>4 DEF Decided
    <3>2. PICK n \in places : AccountList[n] = b
      BY <1>1
    <3>3. f[n] = code(b)
      BY <3>2
    <3> QED
      BY <3>1, <3>3
  <2> QED
    BY <2>3, <2>4 DEF UsedCodes
<1>8. g \in [CodeSuffixes -> SystemCodes \cup image]
  BY <1>7
<1>9. Cardinality(SystemCodes \cup image) < Cardinality(CodeSuffixes)
  <2> HIDE DEF image, size
  <2>1. size \in Nat
    BY <1>1, <1>4 DEF size
  <2> QED
    BY <1>5, <1>6, <2>1
<1>10. \E x, y \in CodeSuffixes : x # y /\ g[x] = g[y]
  <2> HIDE DEF image, g, size
  <2> QED
    BY <1>5, <1>6, <1>8, <1>9, FS_PigeonHole
<1> QED
  BY <1>10

(* A code nobody has.                                                        *)
LEMMA UniqueCodeIs ==
    ASSUME NEW chart \in CodeLists, NEW new, Decided(chart, new), NEW a \in QbAccounts
    PROVE  /\ UniqueCode(a, UsedCodes(chart, new)) \in QbCodes
           /\ UniqueCode(a, UsedCodes(chart, new)) \notin UsedCodes(chart, new)
<1> DEFINE used == UsedCodes(chart, new)
           free == {k \in CodeSuffixes : <<a, k>> \notin used}
<1>1. CASE PreferredCode[a] \notin used
  BY <1>1 DEF UniqueCode, QbCodes
<1>2. CASE PreferredCode[a] \in used
  <2>1. CodeSuffixes \subseteq Nat
    BY DEF CodeSuffixes
  <2>2. free \subseteq Nat /\ free # {}
    BY <2>1, SuffixLeft
  <2>3. \E k \in free : \A j \in 0 .. k - 1 : j \notin free
    <3> HIDE DEF free
    <3> QED
      BY <2>2, LeastOf
  <2>4. \A k \in CodeSuffixes : \A j \in 0 .. k - 1 : j \in CodeSuffixes
    <3>1. Len(AccountList) + Cardinality(SystemCodes) \in Nat
      BY ChartAssumption, FS_CardinalityType
    <3> QED
      BY <3>1 DEF CodeSuffixes
  <2>5. \E k \in CodeSuffixes : /\ <<a, k>> \notin used
                            /\ \A j \in 0 .. k - 1 : <<a, j>> \in used
    BY <2>3, <2>4
  <2> DEFINE k0 == CHOOSE k \in CodeSuffixes : /\ <<a, k>> \notin used
                                           /\ \A j \in 0 .. k - 1 : <<a, j>> \in used
  <2>6. k0 \in CodeSuffixes /\ <<a, k0>> \notin used
    <3> HIDE DEF used
    <3> QED
      BY <2>5
  <2>7. UniqueCode(a, used) = <<a, k0>>
    BY <1>2 DEF UniqueCode
  <2> HIDE DEF k0, used
  <2>8. <<a, k0>> \in QbCodes
    BY <2>6 DEF QbCodes
  <2> QED
    BY <2>6, <2>7, <2>8 DEF used
<1> QED
  BY <1>1, <1>2

(* The decision about one account after another, as CodesFor makes it.       *)
NextCodes(chart, active, prev, a) ==
    [prev EXCEPT ![a] = IF a \notin active THEN NoCode
                        ELSE IF chart[a] # NoCode THEN chart[a]
                        ELSE UniqueCode(a, UsedCodes(chart, prev))]
DecidesUpTo(chart, active, g, n) ==
    g = [m \in 0 .. n |-> IF m = 0 THEN NoCodes
                          ELSE NextCodes(chart, active, g[m - 1], AccountList[m])]

(* The decision about one more account keeps what was decided.              *)
LEMMA NextIsDecided ==
    ASSUME NEW chart \in CodeLists, NEW active, NEW prev, Decided(chart, prev),
           NEW a \in QbAccounts
    PROVE  Decided(chart, NextCodes(chart, active, prev, a))
<1> DEFINE used == UsedCodes(chart, prev)
           code == UniqueCode(a, used)
           value == IF a \notin active THEN NoCode
                    ELSE IF chart[a] # NoCode THEN chart[a] ELSE code
           next == [prev EXCEPT ![a] = value]
<1>1. NextCodes(chart, active, prev, a) = next
  BY DEF NextCodes
<1>2. code \in QbCodes /\ code \notin used
  BY UniqueCodeIs
<1>3. \/ value = NoCode
      \/ value = chart[a] /\ chart[a] # NoCode
      \/ value = code /\ chart[a] = NoCode
  OBVIOUS
<1> HIDE DEF value, code
<1>4. prev \in CodeLists
  BY DEF Decided
<1>5. value \in QbCodes \cup {NoCode}
  BY <1>2, <1>3 DEF CodeLists
<1>6. next \in CodeLists /\ \A b \in QbAccounts : next[b] = IF b = a THEN value ELSE prev[b]
  BY <1>4, <1>5 DEF CodeLists
<1>7. \A b \in QbAccounts : chart[b] # NoCode => next[b] \in {NoCode, chart[b]}
  BY <1>3, <1>6 DEF Decided
<1>8. ASSUME NEW b \in QbAccounts, chart[b] = NoCode, next[b] # NoCode
      PROVE  /\ next[b] \notin SystemCodes
             /\ \A c \in QbAccounts : next[b] # chart[c] /\ (c # b => next[b] # next[c])
  <2>1. CASE b = a
    <3>1. next[b] = code
      BY <1>3, <1>6, <1>8, <2>1
    <3>2. code \notin SystemCodes /\ \A c \in QbAccounts : code # chart[c] /\ code # prev[c]
      BY <1>2 DEF UsedCodes
    <3> QED
      BY <1>6, <2>1, <3>1, <3>2
  <2>2. CASE b # a
    <3>1. /\ next[b] = prev[b] /\ next[b] \notin SystemCodes
          /\ \A c \in QbAccounts : next[b] # chart[c] /\ (c # b => next[b] # prev[c])
      BY <1>6, <1>8, <2>2 DEF Decided
    <3>2. next[b] # value
      <4>1. prev[b] \in used
        BY DEF UsedCodes
      <4> QED
        BY <1>2, <1>3, <1>8, <3>1, <4>1
    <3> QED
      BY <1>6, <3>1, <3>2
  <2> QED
    BY <2>1, <2>2
<1>9. Decided(chart, next)
  BY <1>6, <1>7, <1>8 DEF Decided
<1> QED
  BY <1>1, <1>9

(* There is a function that CodesFor's equations describe.                   *)
LEMMA DecisionsExist ==
    ASSUME NEW chart, NEW active
    PROVE  \A n \in Nat : \E g : DecidesUpTo(chart, active, g, n)
<1> DEFINE Next(prev, m) == NextCodes(chart, active, prev, AccountList[m])
           T == {n \in Nat : \E g : DecidesUpTo(chart, active, g, n)}
<1>1. 0 \in T
  <2> DEFINE g == [m \in 0 .. 0 |-> NoCodes]
  <2>1. DecidesUpTo(chart, active, g, 0)
    BY DEF DecidesUpTo
  <2> QED
    BY <2>1
<1>2. ASSUME NEW n \in Nat, n \in T
      PROVE  n + 1 \in T
  <2>1. PICK g : DecidesUpTo(chart, active, g, n)
    BY <1>2
  <2> DEFINE h == [m \in 0 .. n + 1 |-> IF m <= n THEN g[m] ELSE Next(g[n], n + 1)]
             body == [m \in 0 .. n + 1 |-> IF m = 0 THEN NoCodes ELSE Next(h[m - 1], m)]
  <2>2. g = [m \in 0 .. n |-> IF m = 0 THEN NoCodes ELSE Next(g[m - 1], m)]
    BY <2>1 DEF DecidesUpTo
  <2> HIDE DEF Next
  <2>3. \A m \in 0 .. n + 1 : h[m] = IF m = 0 THEN NoCodes ELSE Next(h[m - 1], m)
    <3> SUFFICES ASSUME NEW m \in 0 .. n + 1
                 PROVE  h[m] = IF m = 0 THEN NoCodes ELSE Next(h[m - 1], m)
      OBVIOUS
    <3>1. CASE m = 0
      <4>1. 0 \in 0 .. n /\ 0 <= n
        OBVIOUS
      <4>2. g[0] = NoCodes
        BY <2>2, <4>1
      <4> QED
        BY <3>1, <4>1, <4>2
    <3>2. CASE m \in 1 .. n
      <4>1. m \in 0 .. n /\ m # 0 /\ m <= n /\ m - 1 \in 0 .. n + 1 /\ m - 1 <= n
        BY <3>2
      <4>2. g[m] = Next(g[m - 1], m)
        BY <2>2, <4>1
      <4>3. h[m] = g[m] /\ h[m - 1] = g[m - 1]
        BY <4>1
      <4> QED
        BY <4>1, <4>2, <4>3
    <3>3. CASE m = n + 1
      <4>1. m # 0 /\ ~(m <= n) /\ m - 1 = n /\ n \in 0 .. n + 1 /\ n <= n
        BY <3>3
      <4>2. h[n] = g[n] /\ h[m] = Next(g[n], n + 1)
        BY <4>1
      <4> QED
        BY <3>3, <4>1, <4>2
    <3> QED
      BY <3>1, <3>2, <3>3
  <2>4. h = body
    <3>1. \A m \in 0 .. n + 1 : h[m] = body[m]
      BY <2>3
    <3> QED
      BY <3>1
  <2>5. DecidesUpTo(chart, active, h, n + 1)
    <3> HIDE DEF h
    <3> QED
      BY <2>4 DEF DecidesUpTo, Next
  <2>6. n + 1 \in Nat
    OBVIOUS
  <2> HIDE DEF h
  <2> QED
    BY <2>5, <2>6
<1>3. Nat \subseteq T
  <2> HIDE DEF T
  <2> QED
    BY <1>1, <1>2, SetInduction
<1> QED
  BY <1>3

(* What CodesFor returns: codes decided as above.                            *)
LEMMA CodesForIs ==
    ASSUME NEW chart \in CodeLists, NEW active
    PROVE  Decided(chart, CodesFor(chart, active))
<1> DEFINE last == Len(AccountList)
           f == CHOOSE g : DecidesUpTo(chart, active, g, last)
           T == {n \in Nat : n <= last => Decided(chart, f[n])}
<1>1. last \in Nat /\ \A n \in 1 .. last : AccountList[n] \in QbAccounts
  BY ChartAssumption DEF QbAccounts
<1>2. CodesFor(chart, active) = f[last]
  BY DEF CodesFor, DecidesUpTo, NextCodes, UsedCodes
<1>3. DecidesUpTo(chart, active, f, last)
  <2> HIDE DEF last
  <2> QED
    BY <1>1, DecisionsExist
<1> HIDE DEF f
<1>4. 0 \in T
  <2>1. f[0] = NoCodes
    BY <1>1, <1>3 DEF DecidesUpTo
  <2>2. Decided(chart, NoCodes)
    BY DEF Decided, NoCodes, CodeLists
  <2> QED
    BY <2>1, <2>2
<1>5. ASSUME NEW n \in Nat, n \in T
      PROVE  n + 1 \in T
  <2> SUFFICES ASSUME n + 1 <= last
               PROVE  Decided(chart, f[n + 1])
    OBVIOUS
  <2>1. Decided(chart, f[n])
    BY <1>1, <1>5
  <2>2. n + 1 \in 0 .. last /\ n + 1 # 0 /\ (n + 1) - 1 = n /\ n + 1 \in 1 .. last
    BY <1>1
  <2>3. f[n + 1] = NextCodes(chart, active, f[n], AccountList[n + 1])
    BY <1>3, <2>2 DEF DecidesUpTo
  <2> QED
    BY <1>1, <2>1, <2>2, <2>3, NextIsDecided
<1>6. Nat \subseteq T
  <2> HIDE DEF T
  <2> QED
    BY <1>4, <1>5, SetInduction
<1> QED
  BY <1>1, <1>2, <1>6

-----------------------------------------------------------------------------
(* What follows an answer to a read.                                         *)
LEMMA AfterReadIs ==
    ASSUME QbInv, NEW p \in QbProcs, Admitted(p), qbProc[p].next # "post"
    PROVE  GoesOn(p, AfterRead(p), qbIssued)
<1> DEFINE s == qbProc[p]
           chart == [s EXCEPT !.pc = "readChart"]
           mark == [s EXCEPT !.pc = "markSuccess"]
           way == IF s.held = NoRealm THEN "path" ELSE "call"
           post == [s EXCEPT !.pc = "ensure", !.next = "post", !.found = s.path,
                             !.stage = IF s.held = NoRealm THEN "path" ELSE "call",
                             !.path = s.held, !.token = 0, !.tries = 0, !.renewed = FALSE]
<1>0. s \in QbState /\ HoldsTokens(s, qbIssued) /\ InTurn(p, s)
  BY StateIs
<1>1. s.pc = "send" /\ s.stage = "attempt" /\ s.next \in {"find", "accounts", "entities"}
  BY <1>0 DEF Admitted, QbAt, InTurn, Reads
<1>2. s.path \in Realms
  <2>1. s.token \in 1 .. Len(qbIssued) /\ qbIssued[s.token] = s.path
    BY <1>0, <1>1 DEF HoldsTokens, Admitted
  <2> QED
    BY <2>1 DEF QbInv, QbStores
<1>3. p # QbAdmin /\ (s.next \in {"accounts", "entities"} => p \in QbJobs /\ p \notin QbDesks)
  BY <1>0, <1>1 DEF InTurn, QbProcs
<1>4. CASE s.next = "accounts"
  <2>1. AfterRead(p) = chart
    BY <1>4 DEF AfterRead
  <2>2. /\ chart \in QbState /\ chart.pc = "readChart" /\ chart.next = s.next
        /\ chart.stage = s.stage /\ chart.token = s.token
    BY <1>0 DEF QbState
  <2> HIDE DEF chart
  <2>3. HoldsTokens(chart, qbIssued)
    BY <1>0, <1>1, <2>2 DEF HoldsTokens
  <2>4. InTurn(p, chart)
    BY <1>3, <1>4, <2>2 DEF InTurn, Calling, Renewing
  <2> QED
    BY <2>1, <2>2, <2>3, <2>4 DEF GoesOn
<1>5. CASE s.next = "entities"
  <2>1. AfterRead(p) = mark
    BY <1>5 DEF AfterRead
  <2>2. /\ mark \in QbState /\ mark.pc = "markSuccess" /\ mark.next = s.next
        /\ mark.stage = s.stage /\ mark.token = s.token
    BY <1>0 DEF QbState
  <2> HIDE DEF mark
  <2>3. HoldsTokens(mark, qbIssued)
    BY <1>0, <1>1, <2>2 DEF HoldsTokens
  <2>4. InTurn(p, mark)
    BY <1>3, <1>5, <2>2 DEF InTurn, Calling, Renewing
  <2> QED
    BY <2>1, <2>2, <2>3, <2>4 DEF GoesOn
<1>6. CASE s.next = "find" /\ Found(s)
  BY <1>6, IdleFits DEF AfterRead, GoesOn
<1>7. CASE s.next = "find" /\ ~Found(s)
  <2>1. AfterRead(p) = post
    BY <1>7 DEF AfterRead
  <2>2. 0 \in QbTokens /\ 0 \in 0 .. MaxAttempts
    BY QuickBooksAssumption DEF QbTokens, MaxAttempts
  <2>3. /\ post.pc = "ensure" /\ post.next = "post" /\ post.found = s.path /\ post.tag = s.tag
        /\ post.stage \in {"path", "call"}
    BY <1>0 DEF QbState
  <2>4. post \in QbState
    <3>1. s.held \in Realms \cup {NoRealm} /\ way \in {"path", "call"}
      BY <1>0 DEF QbState
    <3> DEFINE half == [s EXCEPT !.pc = "ensure", !.next = "post", !.found = s.path, !.stage = way]
               other == [half EXCEPT !.path = s.held, !.token = 0, !.renewed = FALSE]
    <3>2. half \in QbState
      <4>1. \A w \in {"path", "call"} : [s EXCEPT !.pc = "ensure", !.next = "post",
                                                 !.found = s.path, !.stage = w] \in QbState
        BY <1>0, <1>2 DEF QbState
      <4> QED
        BY <3>1, <4>1
    <3>3. post = [other EXCEPT !.tries = 0]
      BY <1>0 DEF QbState
    <3> HIDE DEF half
    <3>4. \A r \in Realms \cup {NoRealm}, k \in QbTokens :
             [half EXCEPT !.path = r, !.token = k, !.renewed = FALSE] \in QbState
      BY <3>2 DEF QbState
    <3>5. other \in QbState
      BY <2>2, <3>1, <3>4
    <3> HIDE DEF other
    <3>6. \A t \in 0 .. MaxAttempts : [other EXCEPT !.tries = t] \in QbState
      BY <3>5 DEF QbState
    <3> QED
      BY <2>2, <3>3, <3>6
  <2>5. s.tag \in TaggedDocs /\ p \notin QbJobs
    BY <1>0, <1>7 DEF InTurn
  <2> HIDE DEF post
  <2>6. HoldsTokens(post, qbIssued)
    BY <2>3 DEF HoldsTokens
  <2>7. InTurn(p, post)
    BY <1>2, <1>3, <2>3, <2>5 DEF InTurn, Calling, Renewing, Reads
  <2> QED
    BY <2>1, <2>4, <2>6, <2>7 DEF GoesOn
<1> QED
  BY <1>1, <1>4, <1>5, <1>6, <1>7

(* A step of one process that changes no token and no stored document but    *)
(* the budget.                                                               *)
LEMMA ProcOnlyKeeps ==
    ASSUME QbInv, NEW p \in QbProcs, NEW new, QbSet(p, new), GoesOn(p, new, qbIssued), QbProcOnly,
           qbBudget' \in QbBudgetSet
    PROVE  QbInv'
<1>1. QbStores' /\ qbIssued' = qbIssued
  BY DEF QbProcOnly, QbInv, QbStores
<1> QED
  BY <1>1, QbMoves, SameTokens DEF GoesOn

(* A budget that is not spent.                                               *)
LEMMA BudgetStays == ASSUME QbInv, UNCHANGED qbBudget PROVE qbBudget' \in QbBudgetSet
BY DEF QbInv, QbStores

(* The administrator's requests, as they begin.                              *)
LEMMA BeginningsKeep ==
    ASSUME QbInv, StartConnect \/ DisconnectQuickBooks \/ SetQuickbooksSettings \/ OAuthStatus
                  \/ QueuePull
    PROVE  QbInv'
<1>0. /\ QbAdmin \in QbProcs /\ QbAdmin \notin QbJobs /\ QbAdmin \notin QbDesks
      /\ qbSettings \in QbSettingsSet /\ 0 \in 0 .. Len(qbIssued)
  BY QuickBooksAssumption DEF QbProcs, QbInv, QbStores
<1>1. CASE StartConnect
  <2>1. QbStores'
    <3>1. qbBudget' \in QbBudgetSet
      BY <1>1, Spends DEF StartConnect
    <3>2. qbGrants' \in Nat /\ qbCookie' \in 0 .. qbGrants'
      BY <1>1 DEF StartConnect, QbInv, QbStores
    <3> QED
      BY <1>1, <3>1, <3>2 DEF StartConnect, QbInv, QbStores
  <2>2. qbProc' = qbProc /\ qbIssued' = qbIssued
    BY <1>1 DEF StartConnect
  <2> QED
    BY <2>1, <2>2, QbStays, SameTokens
<1>2. CASE DisconnectQuickBooks
  <2> DEFINE new == [QbIdle EXCEPT !.pc = "loadDisconnected"]
  <2>1. qbBudget' \in QbBudgetSet
    BY <1>2, Spends DEF DisconnectQuickBooks
  <2>2. QbStores' /\ qbIssued' = qbIssued /\ QbSet(QbAdmin, new)
    BY <1>0, <1>2, <2>1 DEF DisconnectQuickBooks, QbSecretOnly, QbInv, QbStores
  <2>3. /\ new \in QbState /\ new.pc = "loadDisconnected" /\ new.next = "done"
        /\ new.stage = "path"
    BY IdleFits DEF QbState, QbIdle
  <2> HIDE DEF new
  <2>4. HoldsTokens(new, qbIssued) /\ InTurn(QbAdmin, new)
    BY <1>0, <2>3 DEF HoldsTokens, InTurn, Calling, Renewing
  <2> QED
    BY <1>0, <2>2, <2>3, <2>4, QbMoves, SameTokens
<1>3. CASE SetQuickbooksSettings
  <2>1. qbBudget' \in QbBudgetSet
    BY <1>3, Spends DEF SetQuickbooksSettings
  <2>2. qbSettings' \in QbSettingsSet
    BY <1>0, <1>3 DEF SetQuickbooksSettings, QbSettingsSet
  <2>3. QbStores' /\ qbIssued' = qbIssued /\ qbProc' = qbProc
    BY <1>3, <2>1, <2>2 DEF SetQuickbooksSettings, QbSettingsOnly, QbInv, QbStores
  <2> QED
    BY <2>3, QbStays, SameTokens
<1>4. CASE OAuthStatus
  <2> DEFINE new == [QbIdle EXCEPT !.pc = "ensure", !.doc = qbSettings, !.next = "heal"]
  <2>1. qbBudget' \in QbBudgetSet /\ QbProcOnly /\ QbSet(QbAdmin, new)
    BY <1>4, Spends DEF OAuthStatus
  <2>2. new \in QbState /\ new.pc = "ensure" /\ new.next = "heal" /\ new.stage = "path"
    BY <1>0, IdleFits, ZenonT(60) DEF QbState, QbIdle, QbSettingsSet
  <2> HIDE DEF new
  <2>3. HoldsTokens(new, qbIssued) /\ InTurn(QbAdmin, new)
    BY <1>0, <2>2 DEF HoldsTokens, InTurn, Calling, Renewing
  <2> QED
    BY <1>0, <2>1, <2>2, <2>3, ProcOnlyKeeps DEF GoesOn
<1>5. CASE QueuePull
  <2> DEFINE new == [QbIdle EXCEPT !.pc = "enqueue"]
  <2>1. qbBudget' \in QbBudgetSet
    BY <1>5, Spends DEF QueuePull
  <2>2. qbSettings' \in QbSettingsSet
    BY <1>0, <1>5 DEF QueuePull, QbSettingsSet, PullStatus
  <2>3. QbStores' /\ qbIssued' = qbIssued /\ QbSet(QbAdmin, new)
    BY <1>5, <2>1, <2>2 DEF QueuePull, QbSettingsOnly, QbInv, QbStores
  <2>4. new \in QbState /\ new.pc = "enqueue" /\ new.next = "done" /\ new.stage = "path"
    BY IdleFits DEF QbState, QbIdle
  <2> HIDE DEF new
  <2>5. HoldsTokens(new, qbIssued) /\ InTurn(QbAdmin, new)
    BY <1>0, <2>4 DEF HoldsTokens, InTurn, Calling, Renewing
  <2> QED
    BY <1>0, <2>3, <2>4, <2>5, QbMoves, SameTokens
<1> QED
  BY <1>1, <1>2, <1>3, <1>4, <1>5

-----------------------------------------------------------------------------
(* The administrator's requests, step by step.                               *)

(* The kinds of processes are apart.                                        *)
LEMMA AdminIs ==
    /\ QbAdmin \in QbProcs /\ QbAdmin \notin QbJobs /\ QbAdmin \notin QbDesks
    /\ QbJobs \subseteq QbProcs /\ QbDesks \subseteq QbProcs
    /\ \A p \in QbJobs : p # QbAdmin /\ p \notin QbDesks
    /\ \A p \in QbDesks : p # QbAdmin /\ p \notin QbJobs
BY QuickBooksAssumption DEF QbProcs

(* A connect flow, up to its secret.                                        *)
LEMMA ConnectsKeep ==
    ASSUME QbInv, \/ \E g \in 1 .. qbGrants, r \in Realms \cup {NoRealm} : QuickBooksCallback(g, r)
                  \/ ExchangeCode \/ SaveConnected
    PROVE  QbInv'
<1> DEFINE s == qbProc[QbAdmin]
<1>0. s \in QbState /\ HoldsTokens(s, qbIssued) /\ InTurn(QbAdmin, s)
  BY StateIs, AdminIs
<1>1. ASSUME NEW g \in 1 .. qbGrants, NEW r \in Realms \cup {NoRealm}, QuickBooksCallback(g, r)
      PROVE  QbInv'
  <2> DEFINE new == [QbIdle EXCEPT !.pc = "exchange", !.realm = r]
  <2>1. qbBudget' \in QbBudgetSet
    BY <1>1, Spends DEF QuickBooksCallback
  <2>2. QbStores' /\ qbIssued' = qbIssued
    <3>1. 0 \in 0 .. qbGrants
      BY DEF QbInv, QbStores
    <3>2. qbCookie' = 0 /\ UNCHANGED <<qbSettings, qbSecret, qbIssued, qbExpired, qbGrants, qbChart,
                                      qbBooks, qbExcused, qbRaced, qbQueue>>
      BY <1>1 DEF QuickBooksCallback
    <3> QED
      BY <2>1, <3>1, <3>2 DEF QbInv, QbStores
  <2>3. CASE NonceAccepted(g) /\ r # NoRealm
    <3>1. QbSet(QbAdmin, new)
      BY <1>1, <2>3 DEF QuickBooksCallback
    <3>2. /\ new \in QbState /\ new.pc = "exchange" /\ new.next = "done" /\ new.stage = "path"
          /\ new.realm \in Realms
      BY <2>3, IdleFits DEF QbState, QbIdle
    <3> HIDE DEF new
    <3>3. HoldsTokens(new, qbIssued') /\ InTurn(QbAdmin, new)
      BY <3>2, AdminIs DEF HoldsTokens, InTurn, Calling, Renewing
    <3> QED
      BY <2>2, <3>1, <3>2, <3>3, AdminIs, QbMoves, SameTokens
  <2>4. CASE ~(NonceAccepted(g) /\ r # NoRealm)
    <3>1. qbProc' = qbProc
      BY <1>1, <2>4 DEF QuickBooksCallback
    <3> QED
      BY <2>2, <3>1, QbStays, SameTokens
  <2> QED
    BY <2>3, <2>4
<1>2. CASE ExchangeCode
  <2>1. s.pc = "exchange" /\ s.realm \in Realms
    BY <1>0, <1>2 DEF ExchangeCode, QbAt, HoldsTokens
  <2>2. CASE /\ Len(qbIssued) < MaxTokensQb /\ qbIssued' = Append(qbIssued, s.realm)
             /\ QbSet(QbAdmin, [s EXCEPT !.pc = "saveSecret", !.token = Len(qbIssued) + 1])
             /\ UNCHANGED qbBudget
    <3> DEFINE new == [s EXCEPT !.pc = "saveSecret", !.token = Len(qbIssued) + 1]
    <3>1. /\ IssuedGrows /\ qbIssued' \in Seq(Realms) /\ Len(qbIssued') <= MaxTokensQb
          /\ Len(qbIssued') = Len(qbIssued) + 1 /\ Len(qbIssued) \in Nat
          /\ qbIssued'[Len(qbIssued) + 1] = s.realm /\ Len(qbIssued) + 1 \in 1 .. Len(qbIssued')
          /\ Len(qbIssued) + 1 \in QbTokens
      BY <2>1, <2>2, TokenIssued
    <3>2. QbStores'
      BY <1>2, <2>2, <3>1 DEF ExchangeCode, QbInv, QbStores
    <3>3. new \in QbState
      <4>1. \A t \in QbTokens : [s EXCEPT !.pc = "saveSecret", !.token = t] \in QbState
        BY <1>0 DEF QbState
      <4> QED
        BY <3>1, <4>1
    <3>4. /\ new.pc = "saveSecret" /\ new.next = s.next /\ new.token = Len(qbIssued) + 1
          /\ new.stage = s.stage /\ new.realm = s.realm /\ new.tag = s.tag /\ new.found = s.found
      BY <1>0 DEF QbState
    <3> HIDE DEF new
    <3>5. HoldsTokens(new, qbIssued')
      BY <3>1, <3>4 DEF HoldsTokens
    <3>6. InTurn(QbAdmin, new)
      BY <1>0, <3>4, AdminIs DEF InTurn, Calling, Renewing
    <3> QED
      BY <2>2, <3>1, <3>2, <3>3, <3>5, <3>6, AdminIs, QbMoves DEF new
  <2>3. CASE QbFault("tokenEndpoint") /\ QbSet(QbAdmin, QbIdle) /\ UNCHANGED qbIssued
    <3>1. qbBudget' \in QbBudgetSet
      BY <2>3, Faulty
    <3>2. QbStores'
      BY <1>2, <2>3, <3>1 DEF ExchangeCode, QbInv, QbStores
    <3> QED
      BY <2>3, <3>2, AdminIs, QbMoves, SameTokens, IdleFits
  <2> QED
    BY <1>2, <2>2, <2>3 DEF ExchangeCode
<1>3. CASE SaveConnected
  <2> DEFINE new == [s EXCEPT !.pc = "loadConnected"]
  <2>1. s.pc = "saveSecret" /\ s.token \in 1 .. Len(qbIssued)
    BY <1>0, <1>3 DEF SaveConnected, QbAt, HoldsTokens
  <2>2. QbStores' /\ qbIssued' = qbIssued /\ QbSet(QbAdmin, new)
    BY <1>3, <2>1 DEF SaveConnected, QbGo, QbSecretOnly, QbInv, QbStores
  <2>3. /\ new \in QbState /\ new.pc = "loadConnected" /\ new.next = s.next /\ new.stage = s.stage
        /\ new.tag = s.tag /\ new.found = s.found /\ new.token = s.token
    BY <1>0 DEF QbState
  <2> HIDE DEF new
  <2>4. HoldsTokens(new, qbIssued) /\ InTurn(QbAdmin, new)
    BY <1>0, <2>1, <2>3, AdminIs DEF HoldsTokens, InTurn, Calling, Renewing
  <2> QED
    BY <2>2, <2>3, <2>4, AdminIs, QbMoves, SameTokens
<1> QED
  BY <1>1, <1>2, <1>3

(* A step that leaves the process idle and changes settings, queue, budget.  *)
LEMMA SettingsKeep ==
    ASSUME QbInv, NEW p \in QbProcs, QbSettingsOnly, qbSettings' \in QbSettingsSet,
           qbRaced' \subseteq {"refresh", "environment"}, qbQueue' \in Nat,
           qbBudget' \in QbBudgetSet, NEW new, QbSet(p, new), GoesOn(p, new, qbIssued)
    PROVE  QbInv'
<1>1. QbStores' /\ qbIssued' = qbIssued
  BY DEF QbSettingsOnly, QbInv, QbStores
<1> QED
  BY <1>1, QbMoves, SameTokens DEF GoesOn

(* The settings of a company without a connection.                          *)
LEMMA DisconnectedIs == Disconnected \in QbSettingsSet
BY DEF Disconnected, QbSettingsSet, PullStatus

(* The settings a connect, or a status page, is to save.                    *)
LEMMA ConnectedIs ==
    ASSUME NEW doc \in QbSettingsSet, NEW r \in Realms \cup {NoRealm}
    PROVE  /\ ConnectedAs(doc, r) \in QbSettingsSet
           /\ ConnectedAs(doc, r).connected = TRUE /\ ConnectedAs(doc, r).realm = r
           /\ [doc EXCEPT !.realm = r] \in QbSettingsSet
           /\ [doc EXCEPT !.realm = r].connected = doc.connected
           /\ [doc EXCEPT !.realm = r].realm = r
BY DEF ConnectedAs, QbSettingsSet

(* The settings are loaded and saved, a pull is enqueued.                   *)
LEMMA SavesKeep ==
    ASSUME QbInv, LoadSettings \/ SaveSettings \/ HealSettings \/ EnqueuePull
    PROVE  QbInv'
<1> DEFINE s == qbProc[QbAdmin]
<1>0. /\ s \in QbState /\ HoldsTokens(s, qbIssued) /\ InTurn(QbAdmin, s)
      /\ s.doc \in QbSettingsSet /\ s.realm \in Realms \cup {NoRealm}
      /\ s.path \in Realms \cup {NoRealm}
  <2>1. s \in QbState /\ HoldsTokens(s, qbIssued) /\ InTurn(QbAdmin, s)
    BY StateIs, AdminIs
  <2> QED
    BY <2>1 DEF QbState, QbSettingsSet
<1>1. /\ qbSettings \in QbSettingsSet /\ qbRaced \subseteq {"refresh", "environment"}
      /\ qbQueue \in Nat /\ qbBudget \in QbBudgetSet
  BY DEF QbInv, QbStores
<1>2. GoesOn(QbAdmin, QbIdle, qbIssued)
  BY IdleFits DEF GoesOn
<1>3. CASE LoadSettings
  <2> DEFINE pc == IF s.pc = "loadConnected" THEN "saveConnected" ELSE "saveDisconnected"
             new == [s EXCEPT !.doc = qbSettings, !.pc = pc]
  <2>1. QbSet(QbAdmin, new) /\ QbProcOnly /\ UNCHANGED qbBudget
    BY <1>3 DEF LoadSettings
  <2>2. pc \in {"saveConnected", "saveDisconnected"}
    OBVIOUS
  <2> HIDE DEF pc
  <2>3. /\ new \in QbState /\ new.pc = pc /\ new.next = s.next /\ new.stage = s.stage
        /\ new.tag = s.tag /\ new.found = s.found /\ new.token = s.token
    <3>1. new \in QbState
      BY <1>0, <1>1, <2>2 DEF QbState, QbSettingsSet
    <3> QED
      BY <1>0, <3>1 DEF QbState
  <2> HIDE DEF new
  <2>4. HoldsTokens(new, qbIssued) /\ InTurn(QbAdmin, new)
    BY <1>0, <2>2, <2>3, AdminIs DEF HoldsTokens, InTurn, Calling, Renewing
  <2> QED
    BY <1>1, <2>1, <2>3, <2>4, AdminIs, ProcOnlyKeeps DEF GoesOn
<1>4. CASE SaveSettings
  <2>1. qbSettings' \in QbSettingsSet
    <3>1. \/ qbSettings' = SavedSettings(s.doc, ConnectedAs(s.doc, s.realm))
          \/ qbSettings' = SavedSettings(s.doc, Disconnected)
      BY <1>4 DEF SaveSettings
    <3>2. s.doc \in QbSettingsSet /\ ConnectedAs(s.doc, s.realm) \in QbSettingsSet
      BY <1>0, ConnectedIs
    <3>3. SavedSettings(s.doc, ConnectedAs(s.doc, s.realm)) \in QbSettingsSet
      BY <3>2, SavedIs
    <3>4. SavedSettings(s.doc, Disconnected) \in QbSettingsSet
      BY <3>2, SavedIs, DisconnectedIs
    <3> QED
      BY <3>1, <3>3, <3>4
  <2>2. /\ QbSettingsOnly /\ qbRaced' = qbRaced \ {"environment"} /\ UNCHANGED <<qbQueue, qbBudget>>
        /\ QbSet(QbAdmin, QbIdle)
    BY <1>4 DEF SaveSettings
  <2> QED
    BY <1>1, <1>2, <2>1, <2>2, AdminIs, SettingsKeep
<1>5. CASE HealSettings
  <2>1. qbSettings' \in QbSettingsSet
    <3> DEFINE new == [s.doc EXCEPT !.realm = s.path]
    <3>1. qbSettings' = SavedSettings(s.doc, new)
      BY <1>5 DEF HealSettings
    <3>2. new \in QbSettingsSet
      BY <1>0, ConnectedIs
    <3>3. s.doc \in QbSettingsSet
      BY <1>0
    <3> HIDE DEF new
    <3>4. SavedSettings(s.doc, new) \in QbSettingsSet
      BY <3>2, <3>3, SavedIs
    <3> QED
      BY <3>1, <3>4
  <2>2. /\ QbSettingsOnly /\ qbRaced' = qbRaced \ {"environment"} /\ UNCHANGED <<qbQueue, qbBudget>>
        /\ QbSet(QbAdmin, QbIdle)
    BY <1>5 DEF HealSettings
  <2> QED
    BY <1>1, <1>2, <2>1, <2>2, AdminIs, SettingsKeep
<1>6. CASE EnqueuePull
  <2>1. QbAt(QbAdmin, "enqueue") /\ QbSettingsOnly /\ UNCHANGED <<qbSettings, qbRaced>>
    BY <1>6 DEF EnqueuePull
  <2>2. CASE qbQueue' = qbQueue + 1 /\ QbSet(QbAdmin, QbIdle) /\ UNCHANGED qbBudget
    BY <1>1, <1>2, <2>1, <2>2, AdminIs, SettingsKeep
  <2>3. CASE QbFault("enqueue") /\ QbGo(QbAdmin, "markFailure") /\ UNCHANGED qbQueue
    <3> DEFINE new == [s EXCEPT !.pc = "markFailure"]
    <3>1. QbSet(QbAdmin, new) /\ qbBudget' \in QbBudgetSet
      BY <2>3, Faulty DEF QbGo
    <3>2. /\ new \in QbState /\ new.pc = "markFailure" /\ new.next = s.next /\ new.stage = s.stage
          /\ new.tag = s.tag /\ new.found = s.found /\ new.token = s.token
      BY <1>0 DEF QbState
    <3> HIDE DEF new
    <3>3. HoldsTokens(new, qbIssued) /\ InTurn(QbAdmin, new)
      BY <1>0, <3>2, AdminIs DEF HoldsTokens, InTurn, Calling, Renewing
    <3>4. GoesOn(QbAdmin, new, qbIssued)
      BY <3>2, <3>3 DEF GoesOn
    <3>5. qbSettings' \in QbSettingsSet /\ qbRaced' \subseteq {"refresh", "environment"}
          /\ qbQueue' \in Nat
      BY <1>1, <2>1, <2>3
    <3> QED
      BY <2>1, <3>1, <3>4, <3>5, AdminIs, SettingsKeep
  <2> QED
    BY <1>6, <2>2, <2>3 DEF EnqueuePull
<1> QED
  BY <1>3, <1>4, <1>5, <1>6

(* A pull is marked.                                                        *)
LEMMA MarksKeep ==
    ASSUME QbInv, NEW p \in QbProcs, NEW pc, NEW status \in PullStatus, MarkPull(p, pc, status)
    PROVE  QbInv'
<1>1. /\ qbSettings \in QbSettingsSet /\ qbRaced \subseteq {"refresh", "environment"}
      /\ qbQueue \in Nat /\ qbBudget \in QbBudgetSet
  BY DEF QbInv, QbStores
<1>2. GoesOn(p, QbIdle, qbIssued)
  BY IdleFits DEF GoesOn
<1>3. qbSettings' \in QbSettingsSet
  BY <1>1 DEF MarkPull, QbSettingsSet
<1>4. QbSettingsOnly /\ UNCHANGED <<qbRaced, qbQueue, qbBudget>> /\ QbSet(p, QbIdle)
  BY DEF MarkPull
<1> QED
  BY <1>1, <1>2, <1>3, <1>4, SettingsKeep

-----------------------------------------------------------------------------
(* Calls of the API.                                                         *)

(* A secret that is there is a token that was issued.                       *)
LEMMA SecretIs ==
    ASSUME QbInv, qbSecret # 0
    PROVE  qbSecret \in 1 .. Len(qbIssued)
BY DEF QbInv, QbStores

(* A call asks for a fresh token, a renewal loads the secret.               *)
LEMMA FreshKeeps ==
    ASSUME QbInv, NEW p \in QbProcs, EnsureFresh(p) \/ RenewLoad(p)
    PROVE  QbInv'
<1> DEFINE s == qbProc[p]
           load == [s EXCEPT !.pc = "renewLoad"]
           ask == [s EXCEPT !.pc = "renewAsk", !.old = qbSecret]
<1>0. s \in QbState /\ HoldsTokens(s, qbIssued) /\ InTurn(p, s)
  BY StateIs
<1>1. s.pc \in Calling /\ QbProcOnly /\ UNCHANGED qbBudget
  BY DEF EnsureFresh, RenewLoad, QbAt, Calling, Renewing
<1>2. GoesOn(p, Thrown(p), qbIssued)
  BY ThrownIs
<1>3. GoesOn(p, RenewThrown(p), qbIssued)
  BY <1>1, RenewThrownIs
<1>4. ASSUME qbSecret # 0
      PROVE  GoesOn(p, WithSecret(p, qbSecret), qbIssued)
  BY <1>1, <1>4, SecretIs, WithSecretIs
<1>5. GoesOn(p, load, qbIssued)
  <2>1. /\ load \in QbState /\ load.pc = "renewLoad" /\ load.next = s.next /\ load.stage = s.stage
        /\ load.tag = s.tag /\ load.found = s.found /\ load.token = s.token
    BY <1>0 DEF QbState
  <2> HIDE DEF load
  <2>2. HoldsTokens(load, qbIssued)
    BY <1>0, <2>1 DEF HoldsTokens
  <2>3. InTurn(p, load)
    BY <1>0, <1>1, <2>1 DEF InTurn, Calling, Renewing
  <2> QED
    BY <2>1, <2>2, <2>3 DEF GoesOn
<1>6. ASSUME qbSecret # 0
      PROVE  GoesOn(p, ask, qbIssued)
  <2>1. qbSecret \in QbTokens /\ qbSecret \in 1 .. Len(qbIssued)
    BY <1>6, QuickBooksAssumption DEF QbInv, QbStores, QbTokens
  <2>2. /\ ask \in QbState /\ ask.pc = "renewAsk" /\ ask.next = s.next /\ ask.stage = s.stage
        /\ ask.tag = s.tag /\ ask.found = s.found /\ ask.token = s.token /\ ask.old = qbSecret
    BY <1>0, <2>1, ZenonT(60) DEF QbState
  <2> HIDE DEF ask
  <2>3. HoldsTokens(ask, qbIssued)
    BY <1>0, <2>1, <2>2 DEF HoldsTokens
  <2>4. InTurn(p, ask)
    BY <1>0, <1>1, <2>2 DEF InTurn, Calling, Renewing
  <2> QED
    BY <2>2, <2>3, <2>4 DEF GoesOn
<1>7. CASE EnsureFresh(p)
  <2>1. QbSet(p, IF qbSecret = 0 THEN Thrown(p)
                 ELSE IF qbSecret \in qbExpired THEN load ELSE WithSecret(p, qbSecret))
    BY <1>7 DEF EnsureFresh
  <2> HIDE DEF load
  <2> QED
    BY <1>1, <1>2, <1>4, <1>5, <2>1, BudgetStays, ProcOnlyKeeps
<1>8. CASE RenewLoad(p)
  <2>1. QbSet(p, IF qbSecret = 0 THEN RenewThrown(p) ELSE ask)
    BY <1>8 DEF RenewLoad
  <2> HIDE DEF ask
  <2> QED
    BY <1>1, <1>3, <1>6, <2>1, BudgetStays, ProcOnlyKeeps
<1> QED
  BY <1>7, <1>8

(* A renewal asks Intuit, and saves.                                        *)
LEMMA RenewalKeeps ==
    ASSUME QbInv, NEW p \in QbProcs, RenewAsk(p) \/ RenewSave(p)
    PROVE  QbInv'
<1> DEFINE s == qbProc[p]
<1>0. s \in QbState /\ HoldsTokens(s, qbIssued) /\ InTurn(p, s)
  BY StateIs
<1>1. s.pc \in {"renewAsk", "renewSave"} /\ s.pc \in Calling
  BY DEF RenewAsk, RenewSave, QbAt, Calling, Renewing
<1>2. s.old \in 1 .. Len(qbIssued) /\ qbIssued[s.old] \in Realms
  <2>1. s.old \in 1 .. Len(qbIssued)
    BY <1>0, <1>1 DEF HoldsTokens
  <2> QED
    BY <2>1 DEF QbInv, QbStores
<1>3. CASE RenewAsk(p)
  <2>1. CASE /\ Len(qbIssued) < MaxTokensQb
             /\ qbIssued' = Append(qbIssued, qbIssued[s.old])
             /\ QbSet(p, [s EXCEPT !.pc = "renewSave", !.token = Len(qbIssued) + 1])
             /\ UNCHANGED qbBudget
    <3> DEFINE new == [s EXCEPT !.pc = "renewSave", !.token = Len(qbIssued) + 1]
    <3>1. /\ IssuedGrows /\ qbIssued' \in Seq(Realms) /\ Len(qbIssued') <= MaxTokensQb
          /\ Len(qbIssued') = Len(qbIssued) + 1 /\ Len(qbIssued) \in Nat
          /\ qbIssued'[Len(qbIssued) + 1] = qbIssued[s.old]
          /\ Len(qbIssued) + 1 \in 1 .. Len(qbIssued') /\ Len(qbIssued) + 1 \in QbTokens
      BY <1>2, <2>1, TokenIssued
    <3>2. QbStores'
      BY <1>3, <2>1, <3>1 DEF RenewAsk, QbInv, QbStores
    <3>3. new \in QbState
      <4>1. \A t \in QbTokens : [s EXCEPT !.pc = "renewSave", !.token = t] \in QbState
        BY <1>0 DEF QbState
      <4> QED
        BY <3>1, <4>1
    <3>4. /\ new.pc = "renewSave" /\ new.next = s.next /\ new.token = Len(qbIssued) + 1
          /\ new.stage = s.stage /\ new.old = s.old /\ new.tag = s.tag /\ new.found = s.found
      BY <1>0 DEF QbState
    <3> HIDE DEF new
    <3>5. HoldsTokens(new, qbIssued')
      <4>1. s.old \in 1 .. Len(qbIssued') /\ qbIssued'[s.old] = qbIssued[s.old]
        BY <1>2, <3>1 DEF IssuedGrows
      <4> QED
        BY <3>1, <3>4, <4>1 DEF HoldsTokens
    <3>6. InTurn(p, new)
      BY <1>0, <1>1, <3>4 DEF InTurn, Calling, Renewing
    <3> QED
      BY <2>1, <3>1, <3>2, <3>3, <3>5, <3>6, QbMoves DEF new
  <2>2. CASE QbFault("tokenEndpoint") /\ QbSet(p, RenewThrown(p)) /\ UNCHANGED qbIssued
    <3>1. qbBudget' \in QbBudgetSet
      BY <2>2, Faulty
    <3>2. QbStores' /\ qbIssued' = qbIssued
      BY <1>3, <2>2, <3>1 DEF RenewAsk, QbInv, QbStores
    <3>3. GoesOn(p, RenewThrown(p), qbIssued)
      BY <1>1, RenewThrownIs
    <3> QED
      BY <2>2, <3>2, <3>3, QbMoves, SameTokens DEF GoesOn
  <2> QED
    BY <1>3, <2>1, <2>2 DEF RenewAsk
<1>4. CASE RenewSave(p)
  <2>1. s.token \in 1 .. Len(qbIssued)
    BY <1>0, <1>4 DEF RenewSave, QbAt, HoldsTokens
  <2>2. QbStores' /\ qbIssued' = qbIssued
    <3>1. qbRaced' \subseteq {"refresh", "environment"}
      BY <1>4 DEF RenewSave, QbInv, QbStores
    <3> QED
      BY <1>4, <2>1, <3>1 DEF RenewSave, QbSecretOnly, QbInv, QbStores
  <2>3. QbSet(p, WithSecret(p, s.token)) /\ GoesOn(p, WithSecret(p, s.token), qbIssued)
    BY <1>1, <1>4, <2>1, WithSecretIs DEF RenewSave
  <2> QED
    BY <2>2, <2>3, QbMoves, SameTokens DEF GoesOn
<1> QED
  BY <1>3, <1>4

(* The answers to a request.                                                *)
LEMMA AnswersKeep ==
    ASSUME QbInv, NEW p \in QbProcs,
           RefusedRequest(p) \/ ReadAnswered(p) \/ Unavailable(p) \/ Posted(p)
    PROVE  QbInv'
<1> DEFINE s == qbProc[p]
           again == [s EXCEPT !.pc = "renewLoad", !.renewed = TRUE]
<1>0. s \in QbState /\ HoldsTokens(s, qbIssued) /\ InTurn(p, s)
  BY StateIs
<1>1. s.pc = "send" /\ s.stage = "attempt" /\ s.next \in Reads /\ s.token \in 1 .. Len(qbIssued)
  <2>1. s.pc = "send"
    BY DEF RefusedRequest, ReadAnswered, Unavailable, Posted, Admitted, QbAt
  <2> QED
    BY <1>0, <2>1 DEF HoldsTokens, InTurn
<1>2. GoesOn(p, Thrown(p), qbIssued) /\ GoesOn(p, Retried(p), qbIssued)
      /\ GoesOn(p, QbIdle, qbIssued)
  BY <1>1, ThrownIs, RetriedIs, IdleFits DEF GoesOn
<1>3. CASE RefusedRequest(p)
  <2>1. GoesOn(p, again, qbIssued)
    <3>1. /\ again \in QbState /\ again.pc = "renewLoad" /\ again.next = s.next
          /\ again.stage = s.stage /\ again.tag = s.tag /\ again.found = s.found
          /\ again.token = s.token
      BY <1>0, ZenonT(60) DEF QbState
    <3>2. p # QbAdmin
      BY <1>0, <1>1 DEF InTurn
    <3> HIDE DEF again
    <3>3. HoldsTokens(again, qbIssued)
      BY <1>0, <3>1 DEF HoldsTokens
    <3>4. InTurn(p, again)
      BY <1>0, <1>1, <3>1, <3>2 DEF InTurn, Calling, Renewing, Reads
    <3> QED
      BY <3>1, <3>3, <3>4 DEF GoesOn
  <2>2. QbProcOnly /\ UNCHANGED qbBudget /\ (QbSet(p, Thrown(p)) \/ QbSet(p, again))
    BY <1>3 DEF RefusedRequest
  <2> HIDE DEF again
  <2> QED
    BY <1>2, <2>1, <2>2, BudgetStays, ProcOnlyKeeps
<1>4. CASE ReadAnswered(p)
  <2>1. /\ QbProcOnly /\ UNCHANGED qbBudget /\ QbSet(p, AfterRead(p))
        /\ Admitted(p) /\ s.next # "post"
    BY <1>4 DEF ReadAnswered
  <2>2. GoesOn(p, AfterRead(p), qbIssued)
    BY <2>1, AfterReadIs
  <2> QED
    BY <2>1, <2>2, BudgetStays, ProcOnlyKeeps
<1>5. CASE Unavailable(p)
  <2>1. QbProcOnly /\ QbSet(p, Retried(p)) /\ qbBudget' \in QbBudgetSet
    BY <1>5, Faulty DEF Unavailable
  <2> QED
    BY <1>2, <2>1, ProcOnlyKeeps
<1>6. CASE Posted(p)
  <2>1. s.next = "post" /\ s.path \in Realms /\ s.tag \in TaggedDocs
    <3>1. qbIssued[s.token] = s.path /\ s.next = "post"
      BY <1>6 DEF Posted, Admitted
    <3> QED
      BY <1>0, <1>1, <3>1 DEF InTurn, QbInv, QbStores
  <2>2. qbBooks' \in [Realms \X TaggedDocs -> Nat]
    <3>1. qbBooks' = [qbBooks EXCEPT ![<<s.path, s.tag>>] = qbBooks[<<s.path, s.tag>>] + 1]
      BY <1>6 DEF Posted
    <3>2. <<s.path, s.tag>> \in Realms \X TaggedDocs /\ qbBooks \in [Realms \X TaggedDocs -> Nat]
      BY <2>1 DEF QbInv, QbStores
    <3> QED
      BY <3>1, <3>2
  <2>3. qbExcused' \in [TaggedDocs -> Nat]
    <3>1. \/ qbExcused' = [qbExcused EXCEPT ![s.tag] =
                              IF s.found = s.path THEN qbExcused[s.tag] ELSE qbExcused[s.tag] + 1]
          \/ qbExcused' = [qbExcused EXCEPT ![s.tag] = qbExcused[s.tag] + 1]
      BY <1>6 DEF Posted
    <3>2. qbExcused \in [TaggedDocs -> Nat]
      BY DEF QbInv, QbStores
    <3> QED
      BY <2>1, <3>1, <3>2
  <2>4. qbBudget' \in QbBudgetSet /\ (QbSet(p, QbIdle) \/ QbSet(p, Retried(p)))
    BY <1>6, BudgetStays, Faulty DEF Posted
  <2>5. QbStores' /\ qbIssued' = qbIssued
    BY <1>6, <2>2, <2>3, <2>4 DEF Posted, QbInv, QbStores
  <2> QED
    BY <1>2, <2>4, <2>5, QbMoves, SameTokens DEF GoesOn
<1> QED
  BY <1>3, <1>4, <1>5, <1>6

-----------------------------------------------------------------------------
(* Pulls, and the tax desk.                                                  *)

(* A token expires.                                                         *)
LEMMA ExpiryKeeps ==
    ASSUME QbInv, NEW t, ExpireToken(t)
    PROVE  QbInv'
<1>1. qbBudget' \in QbBudgetSet
  BY Faulty DEF ExpireToken
<1>2. QbStores' /\ qbIssued' = qbIssued /\ qbProc' = qbProc
  BY <1>1 DEF ExpireToken, QbInv, QbStores
<1> QED
  BY <1>2, QbStays, SameTokens

(* A pull is taken, the desk begins to write.                               *)
LEMMA TakesKeep ==
    ASSUME QbInv, NEW p \in QbProcs,
           \/ TakePull(p)
           \/ \E type \in DocTypes, id \in QbTags : TaxWrite(p, type, id)
    PROVE  QbInv'
<1>1. CASE TakePull(p)
  <2> DEFINE new == [QbIdle EXCEPT !.pc = "ensure", !.next = "accounts"]
  <2>1. /\ p \in QbJobs /\ QbSet(p, new) /\ qbQueue' = qbQueue - 1 /\ qbQueue > 0
        /\ UNCHANGED <<qbSettings, qbRaced>> /\ QbSettingsOnly /\ UNCHANGED qbBudget
    BY <1>1 DEF TakePull
  <2>2. new \in QbState /\ new.pc = "ensure" /\ new.next = "accounts" /\ new.stage = "path"
    BY IdleFits DEF QbState, QbIdle
  <2> HIDE DEF new
  <2>3. HoldsTokens(new, qbIssued) /\ InTurn(p, new)
    BY <2>1, <2>2, AdminIs DEF HoldsTokens, InTurn, Calling, Renewing
  <2>4. /\ qbSettings' \in QbSettingsSet /\ qbRaced' \subseteq {"refresh", "environment"}
        /\ qbQueue' \in Nat /\ qbBudget' \in QbBudgetSet
    BY <2>1 DEF QbInv, QbStores
  <2> QED
    BY <2>1, <2>2, <2>3, <2>4, SettingsKeep DEF GoesOn
<1>2. ASSUME NEW type \in DocTypes, NEW id \in QbTags, TaxWrite(p, type, id)
      PROVE  QbInv'
  <2> DEFINE tag == <<type, id>>
             next == IF type = "Payment" THEN "hold" ELSE "find"
             new == [QbIdle EXCEPT !.pc = "ensure", !.tag = tag, !.next = next]
  <2>1. p \in QbDesks /\ QbSet(p, new) /\ QbProcOnly /\ qbBudget' \in QbBudgetSet
    BY <1>2, Spends DEF TaxWrite
  <2>2. next \in {"hold", "find"} /\ tag \in TaggedDocs
    BY DEF TaggedDocs
  <2> HIDE DEF next, tag
  <2>3. /\ new \in QbState /\ new.pc = "ensure" /\ new.next = next /\ new.stage = "path"
        /\ new.tag = tag
    <3>1. \A n \in {"hold", "find"} :
             /\ [QbIdle EXCEPT !.pc = "ensure", !.tag = tag, !.next = n] \in QbState
             /\ [QbIdle EXCEPT !.pc = "ensure", !.tag = tag, !.next = n].next = n
      BY <2>2, IdleFits DEF QbState
    <3> QED
      BY <2>2, <3>1 DEF QbIdle
  <2> HIDE DEF new
  <2>4. HoldsTokens(new, qbIssued) /\ InTurn(p, new)
    BY <2>1, <2>2, <2>3, AdminIs DEF HoldsTokens, InTurn, Calling, Renewing
  <2> QED
    BY <2>1, <2>3, <2>4, ProcOnlyKeeps DEF GoesOn
<1> QED
  BY <1>1, <1>2

(* The chart of accounts is read, and written.                              *)
LEMMA ChartsKeep ==
    ASSUME QbInv, NEW p \in QbProcs,
           (\E active \in SUBSET QbAccounts : ReadChart(p, active)) \/ WriteChart(p)
    PROVE  QbInv'
<1> DEFINE s == qbProc[p]
<1>0. s \in QbState /\ HoldsTokens(s, qbIssued) /\ InTurn(p, s)
  BY StateIs
<1>1. s.pc \in {"readChart", "writeChart"} /\ p \in QbJobs
  <2>1. s.pc \in {"readChart", "writeChart"}
    BY DEF ReadChart, WriteChart, QbAt
  <2> QED
    BY <1>0, <2>1 DEF InTurn
<1>2. p # QbAdmin /\ p \notin QbDesks /\ s.next \in {"done", "accounts", "entities"}
  BY <1>0, <1>1, AdminIs DEF InTurn
<1>3. ASSUME NEW active \in SUBSET QbAccounts, ReadChart(p, active)
      PROVE  QbInv'
  <2> DEFINE codes == CodesFor(qbChart, active)
             new == [s EXCEPT !.pc = "writeChart", !.codes = codes]
  <2>1. codes \in [QbAccounts -> QbCodes \cup {NoCode}]
    BY CodesForIs DEF Decided, CodeLists, QbInv, QbStores
  <2>2. QbSet(p, new) /\ QbProcOnly /\ UNCHANGED qbBudget
    BY <1>3 DEF ReadChart
  <2> HIDE DEF codes
  <2>3. /\ new \in QbState /\ new.pc = "writeChart" /\ new.next = s.next /\ new.stage = s.stage
        /\ new.tag = s.tag /\ new.found = s.found /\ new.token = s.token
    BY <1>0, <2>1, ZenonT(60) DEF QbState
  <2> HIDE DEF new
  <2>4. HoldsTokens(new, qbIssued) /\ InTurn(p, new)
    BY <1>0, <1>1, <1>2, <2>3 DEF HoldsTokens, InTurn, Calling, Renewing
  <2> QED
    BY <2>2, <2>3, <2>4, BudgetStays, ProcOnlyKeeps DEF GoesOn
<1>4. CASE WriteChart(p)
  <2> DEFINE refused == {a \in QbAccounts : s.codes[a] # NoCode
                            /\ \E b \in QbAccounts \ {a} : qbChart[b] = s.codes[a]}
             new == [s EXCEPT !.pc = "ensure", !.stage = "path", !.next = "entities"]
  <2>1. /\ qbChart' = [a \in QbAccounts |-> IF s.codes[a] = NoCode \/ a \in refused
                                           THEN qbChart[a] ELSE s.codes[a]]
        /\ QbSet(p, IF refused # {} THEN Thrown(p) ELSE new)
        /\ UNCHANGED <<qbSettings, qbSecret, qbIssued, qbExpired, qbCookie, qbGrants,
                       qbBooks, qbExcused, qbRaced, qbQueue, qbBudget>>
    BY <1>4 DEF WriteChart
  <2> HIDE DEF refused
  <2>2. qbChart' \in CodeLists
    BY <1>0, <2>1 DEF QbState, CodeLists, QbInv, QbStores
  <2>3. QbStores' /\ qbIssued' = qbIssued
    BY <2>1, <2>2 DEF QbInv, QbStores
  <2>4. /\ new \in QbState /\ new.pc = "ensure" /\ new.next = "entities" /\ new.stage = "path"
        /\ new.tag = s.tag /\ new.found = s.found /\ new.token = s.token
    <3> DEFINE half == [s EXCEPT !.pc = "ensure", !.stage = "path"]
    <3>1. half \in QbState
      BY <1>0, ZenonT(60) DEF QbState
    <3>2. new = [half EXCEPT !.next = "entities"]
      BY <1>0 DEF QbState
    <3>3. /\ new.pc = "ensure" /\ new.next = "entities" /\ new.stage = "path"
          /\ new.tag = s.tag /\ new.found = s.found /\ new.token = s.token
      BY <1>0 DEF QbState
    <3> HIDE DEF half
    <3>4. [half EXCEPT !.next = "entities"] \in QbState
      BY <3>1 DEF QbState
    <3> QED
      BY <3>2, <3>3, <3>4
  <2> HIDE DEF new
  <2>5. HoldsTokens(new, qbIssued) /\ InTurn(p, new)
    BY <1>1, <1>2, <2>4 DEF HoldsTokens, InTurn, Calling, Renewing
  <2>6. GoesOn(p, Thrown(p), qbIssued)
    BY ThrownIs
  <2> QED
    BY <2>1, <2>3, <2>4, <2>5, <2>6, QbMoves, SameTokens DEF GoesOn
<1> QED
  BY <1>3, <1>4
-----------------------------------------------------------------------------
(* The steps a process takes by itself.                                      *)
LEMMA ProceedKeeps ==
    ASSUME QbInv, NEW p \in QbProcs, QbProceed(p)
    PROVE  QbInv'
<1>1. ASSUME MarkPull(p, "markFailure", "error") \/ MarkPull(p, "markError", "error")
             \/ MarkPull(p, "markSuccess", "success")
      PROVE  QbInv'
  <2>1. "error" \in PullStatus /\ "success" \in PullStatus
    BY DEF PullStatus
  <2> QED
    BY <1>1, <2>1, MarksKeep
<1>2. \/ ExchangeCode \/ SaveConnected
      \/ LoadSettings \/ SaveSettings \/ HealSettings \/ EnqueuePull
      \/ MarkPull(p, "markFailure", "error") \/ MarkPull(p, "markError", "error")
      \/ MarkPull(p, "markSuccess", "success")
      \/ EnsureFresh(p) \/ RenewLoad(p) \/ RenewAsk(p) \/ RenewSave(p)
      \/ RefusedRequest(p) \/ ReadAnswered(p) \/ Unavailable(p) \/ Posted(p)
      \/ TakePull(p) \/ WriteChart(p)
      \/ \E active \in SUBSET QbAccounts : ReadChart(p, active)
  BY Zenon DEF QbProceed
<1> QED
  BY <1>1, <1>2, ConnectsKeep, SavesKeep, FreshKeeps, RenewalKeeps, AnswersKeep, TakesKeep,
     ChartsKeep, Zenon

(* At first.                                                                *)
LEMMA QbInitially == ASSUME QbInit PROVE QbInv
<1>1. QbIdle \in QbState /\ \A issued, p : HoldsTokens(QbIdle, issued) /\ InTurn(p, QbIdle)
  BY IdleFits
<1>2. qbProc \in [QbProcs -> QbState] /\ \A p \in QbProcs : qbProc[p] = QbIdle
  BY <1>1 DEF QbInit
<1>3. qbBudget \in QbBudgetSet /\ MaxTokensQb \in Nat \ {0} /\ NoRealm \notin Realms
  BY QuickBooksAssumption DEF QbInit, QbBudgetSet
<1>4. /\ qbSettings \in QbSettingsSet /\ qbIssued \in Seq(Realms) /\ Len(qbIssued) <= MaxTokensQb
      /\ qbSecret \in 0 .. Len(qbIssued)
  <2>1. CASE qbBudget.start = NoRealm
    <3>1. qbSettings = Disconnected /\ qbSecret = 0 /\ qbIssued = <<>>
      BY <2>1 DEF QbInit
    <3> QED
      BY <1>3, <3>1, DisconnectedIs
  <2>2. CASE qbBudget.start # NoRealm
    <3>1. /\ qbSettings = [connected |-> TRUE, realm |-> qbBudget.start, pull |-> "idle"]
          /\ qbSecret = 1 /\ qbIssued = <<qbBudget.start>>
      BY <2>2 DEF QbInit
    <3>2. qbBudget.start \in Realms
      BY <1>3, <2>2 DEF QbBudgetSet
    <3> QED
      BY <1>3, <3>1, <3>2 DEF QbSettingsSet, PullStatus
  <2> QED
    BY <2>1, <2>2
<1>5. qbChart \in CodeLists /\ qbRaced \subseteq {"refresh", "environment"}
      /\ qbExpired \subseteq 1 .. Len(qbIssued)
  BY DEF QbInit, NoCodes, CodeLists
<1>6. /\ qbGrants \in Nat /\ qbCookie \in 0 .. qbGrants /\ qbQueue \in Nat
      /\ qbBooks \in [Realms \X TaggedDocs -> Nat] /\ qbExcused \in [TaggedDocs -> Nat]
  BY DEF QbInit
<1> QED
  BY <1>1, <1>2, <1>3, <1>4, <1>5, <1>6 DEF QbInv, QbFits, QbStores

(* Every step keeps the invariant.                                          *)
LEMMA QbStepKeeps ==
    ASSUME QbInv, [QbNext]_qbVars
    PROVE  QbInv'
<1>1. CASE UNCHANGED qbVars
  BY <1>1 DEF qbVars, QbInv, QbStores, QbFits
<1>2. ASSUME NEW t \in QbTokens, ExpireToken(t)
      PROVE  QbInv'
  BY <1>2, ExpiryKeeps
<1>3. ASSUME NEW p \in QbDesks, NEW type \in DocTypes, NEW id \in QbTags,
             TaxWrite(p, type, id)
      PROVE  QbInv'
  BY <1>3, AdminIs, TakesKeep
<1>4. ASSUME NEW p \in QbProcs, QbProceed(p)
      PROVE  QbInv'
  BY <1>4, ProceedKeeps
<1> QED
  BY <1>1, <1>2, <1>3, <1>4, BeginningsKeep, ConnectsKeep, Zenon DEF QbNext

(* Type correctness of the connection.                                       *)
THEOREM QuickBooksSteady == QbSpec => []QbInv
<1>1. QbInit => QbInv
  BY QbInitially
<1>2. QbInv /\ [QbNext]_qbVars => QbInv'
  BY QbStepKeeps
<1> QED
  BY <1>1, <1>2, PTL DEF QbSpec

(* The type invariant that the runs check.                                  *)
THEOREM QuickBooksTypes == QbSpec => []QbTypeOK
BY QuickBooksSteady, InvIsTyped, PTL

-----------------------------------------------------------------------------
(* The settings and the secret.                                              *)

(* The settings say what the secret can do.                                  *)
Agreed(settings, secret, realm, raced) ==
    /\ settings.connected <=> secret # 0
    /\ settings.realm = IF "environment" \in raced THEN NoRealm ELSE realm

(* What the administrator's request a has at hand, and has done by halves:   *)
(* before it touches the secret, and after it saved the settings, they agree.*)
Whole == {"idle", "exchange", "saveSecret", "enqueue", "markFailure", "heal"} \cup Calling
Saving == {"saveConnected", "saveDisconnected", "heal"} \cup Calling
Backing(a, settings, secret, realm, raced) ==
    /\ a.pc \in Whole => Agreed(settings, secret, realm, raced)
    /\ a.pc \in {"loadConnected", "saveConnected"} => secret # 0 /\ realm = a.realm
    /\ a.pc \in {"loadDisconnected", "saveDisconnected"} => secret = 0
    /\ a.pc \in Saving => /\ a.doc.connected <=> settings.connected
                          /\ a.doc.realm = settings.realm
    /\ a.pc = "heal" => secret # 0 /\ a.path = realm
SecretInv ==
    "refresh" \notin qbRaced =>
        Backing(qbProc[QbAdmin], qbSettings, qbSecret, RealmOf(qbSecret), qbRaced)

(* Another's step: what it leaves alone, and a secret of the same realm.     *)
LEMMA BackingStays ==
    ASSUME NEW a, NEW settings, NEW secret, NEW realm, NEW raced, NEW settings2, NEW secret2,
           Backing(a, settings, secret, realm, raced),
           settings2.connected <=> settings.connected, settings2.realm = settings.realm,
           secret2 # 0 <=> secret # 0
    PROVE  Backing(a, settings2, secret2, realm, raced)
BY DEF Backing, Agreed

(* A step of another that leaves secret and settings.                       *)
LEMMA OthersBack ==
    ASSUME QbInv, SecretInv, IssuedGrows, qbProc'[QbAdmin] = qbProc[QbAdmin],
           qbSettings'.connected <=> qbSettings.connected, qbSettings'.realm = qbSettings.realm,
           UNCHANGED <<qbSecret, qbRaced>>
    PROVE  SecretInv'
<1> SUFFICES ASSUME "refresh" \notin qbRaced
             PROVE  Backing(qbProc'[QbAdmin], qbSettings', qbSecret', RealmOf(qbSecret)', qbRaced')
  BY DEF SecretInv
<1>1. RealmOf(qbSecret)' = RealmOf(qbSecret)
  <2>1. qbSecret \in 0 .. Len(qbIssued) /\ qbSecret' = qbSecret
    BY DEF QbInv, QbStores
  <2>2. CASE qbSecret = 0
    BY <2>1, <2>2 DEF RealmOf
  <2>3. CASE qbSecret # 0
    <3>1. qbIssued'[qbSecret] = qbIssued[qbSecret]
      BY <2>3, SecretIs DEF IssuedGrows
    <3> QED
      BY <2>1, <2>3, <3>1 DEF RealmOf
  <2> QED
    BY <2>2, <2>3
<1>2. Backing(qbProc[QbAdmin], qbSettings, qbSecret, RealmOf(qbSecret), qbRaced)
  BY DEF SecretInv
<1>3. Backing(qbProc[QbAdmin], qbSettings', qbSecret', RealmOf(qbSecret), qbRaced)
  BY <1>2, BackingStays
<1> QED
  BY <1>1, <1>3

(* A renewal that saved over the secret it had read has another of its realm.*)
LEMMA RenewedIs ==
    ASSUME QbInv, NEW p \in QbProcs, RenewSave(p), "refresh" \notin qbRaced'
    PROVE  /\ "refresh" \notin qbRaced /\ qbRaced' = qbRaced /\ qbSecret # 0 /\ qbSecret' # 0
           /\ qbSettings' = qbSettings /\ qbIssued' = qbIssued
           /\ qbSecret' = qbProc[p].token /\ qbIssued[qbProc[p].token] = RealmOf(qbSecret)
           /\ RealmOf(qbSecret)' = RealmOf(qbSecret)
<1> DEFINE s == qbProc[p]
<1>1. /\ s.old \in 1 .. Len(qbIssued) /\ s.token \in 1 .. Len(qbIssued)
      /\ qbIssued[s.token] = qbIssued[s.old]
  BY StateIs DEF RenewSave, QbAt, HoldsTokens
<1>2. /\ qbSecret' = s.token /\ qbSettings' = qbSettings /\ qbIssued' = qbIssued
      /\ qbRaced' = IF qbSecret # s.old THEN qbRaced \cup {"refresh"} ELSE qbRaced
  BY DEF RenewSave, QbSecretOnly
<1>3. qbSecret = s.old /\ qbRaced' = qbRaced
  BY <1>2
<1>4. qbSecret # 0 /\ qbSecret' # 0
  BY <1>1, <1>2, <1>3
<1> QED
  BY <1>1, <1>2, <1>3, <1>4 DEF RealmOf

(* A renewal of another.                                                    *)
LEMMA OthersRenew ==
    ASSUME QbInv, SecretInv, NEW p \in QbProcs, RenewSave(p), p # QbAdmin
    PROVE  SecretInv'
<1> SUFFICES ASSUME "refresh" \notin qbRaced'
             PROVE  Backing(qbProc'[QbAdmin], qbSettings', qbSecret', RealmOf(qbSecret)', qbRaced')
  BY DEF SecretInv
<1>1. /\ "refresh" \notin qbRaced /\ qbRaced' = qbRaced /\ qbSecret # 0 /\ qbSecret' # 0
      /\ qbSettings' = qbSettings /\ RealmOf(qbSecret)' = RealmOf(qbSecret)
  BY RenewedIs
<1>2. qbProc'[QbAdmin] = qbProc[QbAdmin]
  BY AdminIs DEF RenewSave, QbSet, QbInv
<1>3. Backing(qbProc[QbAdmin], qbSettings, qbSecret, RealmOf(qbSecret), qbRaced)
  BY <1>1 DEF SecretInv
<1>4. Backing(qbProc[QbAdmin], qbSettings, qbSecret', RealmOf(qbSecret), qbRaced)
  BY <1>1, <1>3, BackingStays
<1> QED
  BY <1>1, <1>2, <1>4

(* Jobs and desks never write the connection.                                *)
LEMMA OthersKeep ==
    ASSUME QbInv, NEW p \in QbProcs, p # QbAdmin, QbProceed(p), ~RenewSave(p)
    PROVE  /\ qbProc'[QbAdmin] = qbProc[QbAdmin] /\ UNCHANGED <<qbSecret, qbRaced>> /\ IssuedGrows
           /\ (qbSettings'.connected <=> qbSettings.connected)
           /\ qbSettings'.realm = qbSettings.realm
<1>0. qbProc \in [QbProcs -> QbState] /\ qbSettings \in QbSettingsSet
  BY DEF QbInv, QbStores
<1>1. \A new : QbSet(p, new) => qbProc'[QbAdmin] = qbProc[QbAdmin]
  BY <1>0, AdminIs DEF QbSet
<1>2. ASSUME NEW pc, NEW status, MarkPull(p, pc, status)
      PROVE  /\ \E new : QbSet(p, new)
             /\ UNCHANGED <<qbSecret, qbRaced, qbIssued>>
             /\ (qbSettings'.connected <=> qbSettings.connected)
             /\ qbSettings'.realm = qbSettings.realm
  BY <1>0, <1>2 DEF MarkPull, QbSettingsOnly, QbSettingsSet
<1>3. ASSUME RenewAsk(p)
      PROVE  /\ (\E new : QbSet(p, new)) /\ UNCHANGED <<qbSecret, qbRaced, qbSettings>>
             /\ IssuedGrows
  <2>1. (\E new : QbSet(p, new)) /\ UNCHANGED <<qbSecret, qbRaced, qbSettings>>
    BY <1>3 DEF RenewAsk
  <2>2. \/ qbIssued' = qbIssued
        \/ Len(qbIssued) < MaxTokensQb /\ qbIssued' = Append(qbIssued, qbIssued[qbProc[p].old])
    BY <1>3 DEF RenewAsk
  <2>3. qbIssued[qbProc[p].old] \in Realms
    <3>1. qbProc[p].old \in 1 .. Len(qbIssued)
      BY <1>3, StateIs DEF RenewAsk, QbAt, HoldsTokens
    <3> QED
      BY <3>1 DEF QbInv, QbStores
  <2> QED
    BY <2>1, <2>2, <2>3, SameTokens, TokenIssued
<1>4. ASSUME \/ EnsureFresh(p) \/ RenewLoad(p) \/ RefusedRequest(p) \/ ReadAnswered(p)
             \/ Unavailable(p) \/ \E active \in SUBSET QbAccounts : ReadChart(p, active)
      PROVE  (\E new : QbSet(p, new)) /\ QbProcOnly
  BY <1>4, Zenon DEF EnsureFresh, RenewLoad, RefusedRequest, ReadAnswered, Unavailable, ReadChart
<1>5. ASSUME Posted(p) \/ TakePull(p) \/ WriteChart(p)
      PROVE  (\E new : QbSet(p, new)) /\ UNCHANGED <<qbSecret, qbRaced, qbIssued, qbSettings>>
  <2>1. \E new : QbSet(p, new)
    BY <1>5, Zenon DEF Posted, TakePull, WriteChart
  <2>2. UNCHANGED <<qbSecret, qbRaced, qbIssued, qbSettings>>
    BY <1>5 DEF Posted, TakePull, WriteChart, QbSettingsOnly
  <2> QED
    BY <2>1, <2>2
<1>6. \/ MarkPull(p, "markError", "error") \/ MarkPull(p, "markSuccess", "success")
      \/ RenewAsk(p)
      \/ EnsureFresh(p) \/ RenewLoad(p) \/ RefusedRequest(p) \/ ReadAnswered(p) \/ Unavailable(p)
      \/ \E active \in SUBSET QbAccounts : ReadChart(p, active)
      \/ Posted(p) \/ TakePull(p) \/ WriteChart(p)
  BY Zenon DEF QbProceed
<1>7. CASE MarkPull(p, "markError", "error") \/ MarkPull(p, "markSuccess", "success")
  BY <1>1, <1>2, <1>7, SameTokens
<1>8. CASE RenewAsk(p)
  BY <1>1, <1>3, <1>8
<1>9. CASE \/ EnsureFresh(p) \/ RenewLoad(p) \/ RefusedRequest(p) \/ ReadAnswered(p)
           \/ Unavailable(p) \/ \E active \in SUBSET QbAccounts : ReadChart(p, active)
  <2>1. UNCHANGED <<qbSecret, qbRaced, qbIssued, qbSettings>> /\ \E new : QbSet(p, new)
    BY <1>4, <1>9 DEF QbProcOnly
  <2> QED
    BY <1>1, <2>1, SameTokens
<1>10. CASE Posted(p) \/ TakePull(p) \/ WriteChart(p)
  BY <1>1, <1>5, <1>10, SameTokens
<1> QED
  BY <1>6, <1>7, <1>8, <1>9, <1>10

(* The administrator's own step, to a new state of the request.              *)
LEMMA AdminGoes ==
    ASSUME QbInv, NEW new, QbSet(QbAdmin, new),
           "refresh" \notin qbRaced' =>
               Backing(new, qbSettings', qbSecret', RealmOf(qbSecret)', qbRaced')
    PROVE  SecretInv'
<1>1. qbProc'[QbAdmin] = new
  BY AdminIs DEF QbSet, QbInv
<1> QED
  BY <1>1 DEF SecretInv

(* One that leaves the connection and the secret alone.                      *)
LEMMA AdminReads ==
    ASSUME QbInv, NEW new, QbSet(QbAdmin, new), IssuedGrows, UNCHANGED <<qbSecret, qbRaced>>,
           qbSettings'.connected <=> qbSettings.connected, qbSettings'.realm = qbSettings.realm,
           "refresh" \notin qbRaced =>
               Backing(new, qbSettings, qbSecret, RealmOf(qbSecret), qbRaced)
    PROVE  SecretInv'
<1> SUFFICES ASSUME "refresh" \notin qbRaced
             PROVE  Backing(new, qbSettings', qbSecret', RealmOf(qbSecret)', qbRaced')
  BY AdminGoes
<1>1. RealmOf(qbSecret)' = RealmOf(qbSecret)
  <2>1. qbSecret' = qbSecret
    OBVIOUS
  <2>2. CASE qbSecret = 0
    BY <2>1, <2>2 DEF RealmOf
  <2>3. CASE qbSecret # 0
    <3>1. qbIssued'[qbSecret] = qbIssued[qbSecret]
      BY <2>3, SecretIs DEF IssuedGrows
    <3> QED
      BY <2>1, <2>3, <3>1 DEF RealmOf
  <2> QED
    BY <2>2, <2>3
<1>2. Backing(new, qbSettings', qbSecret', RealmOf(qbSecret), qbRaced)
  BY BackingStays
<1> QED
  BY <1>1, <1>2

(* A request that is over, while all agree.                                  *)
LEMMA IdleBacks ==
    ASSUME NEW settings, NEW secret, NEW realm, NEW raced, Agreed(settings, secret, realm, raced)
    PROVE  Backing(QbIdle, settings, secret, realm, raced)
BY DEF Backing, QbIdle, Whole, Saving, Calling, Renewing

(* What the administrator's request is backed by.                            *)
LEMMA AdminHas ==
    ASSUME QbInv, SecretInv, "refresh" \notin qbRaced
    PROVE  LET a == qbProc[QbAdmin] IN
           /\ a.pc \in Whole => Agreed(qbSettings, qbSecret, RealmOf(qbSecret), qbRaced)
           /\ a.pc \in {"loadConnected", "saveConnected"} =>
                 qbSecret # 0 /\ RealmOf(qbSecret) = a.realm
           /\ a.pc \in {"loadDisconnected", "saveDisconnected"} => qbSecret = 0
           /\ a.pc \in Saving => /\ a.doc.connected <=> qbSettings.connected
                                 /\ a.doc.realm = qbSettings.realm
           /\ a.pc = "heal" => qbSecret # 0 /\ a.path = RealmOf(qbSecret)
BY DEF SecretInv, Backing

(* The administrator's requests begin.                                      *)
LEMMA BeginningsBack ==
    ASSUME QbInv, SecretInv,
           StartConnect \/ DisconnectQuickBooks \/ SetQuickbooksSettings \/ OAuthStatus \/ QueuePull
    PROVE  SecretInv'
<1>0. /\ qbProc \in [QbProcs -> QbState] /\ qbSettings \in QbSettingsSet
      /\ qbRaced \subseteq {"refresh", "environment"}
  BY DEF QbInv, QbStores
<1>1. CASE StartConnect
  <2>1. UNCHANGED <<qbProc, qbSettings, qbSecret, qbIssued, qbRaced>>
    BY <1>1 DEF StartConnect
  <2> QED
    BY <2>1, OthersBack, SameTokens
<1>2. CASE DisconnectQuickBooks
  <2> DEFINE new == [QbIdle EXCEPT !.pc = "loadDisconnected"]
  <2>1. qbSecret' = 0 /\ QbSet(QbAdmin, new)
    BY <1>2 DEF DisconnectQuickBooks
  <2>2. new.pc = "loadDisconnected"
    BY DEF QbIdle
  <2> HIDE DEF new
  <2>3. \A settings, realm, raced : Backing(new, settings, 0, realm, raced)
    BY <2>2 DEF Backing, Whole, Saving, Calling, Renewing
  <2> QED
    BY <2>1, <2>3, AdminGoes
<1>3. CASE SetQuickbooksSettings
  <2>1. /\ qbProc' = qbProc /\ qbProc[QbAdmin].pc = "idle" /\ qbSecret' = qbSecret
        /\ qbIssued' = qbIssued /\ qbRaced' = qbRaced \cup {"environment"}
        /\ qbSettings' = [qbSettings EXCEPT !.realm = NoRealm]
    BY <1>3 DEF SetQuickbooksSettings, QbSettingsOnly, QbAt
  <2>2. (qbSettings'.connected <=> qbSettings.connected) /\ qbSettings'.realm = NoRealm
    BY <1>0, <2>1 DEF QbSettingsSet
  <2> SUFFICES ASSUME "refresh" \notin qbRaced
               PROVE  Backing(qbProc'[QbAdmin], qbSettings', qbSecret', RealmOf(qbSecret)', qbRaced')
    BY <2>1 DEF SecretInv
  <2>3. qbSettings.connected <=> qbSecret # 0
    BY <2>1, AdminHas DEF Whole, Agreed
  <2>4. Agreed(qbSettings', qbSecret', RealmOf(qbSecret)', qbRaced')
    BY <2>1, <2>2, <2>3 DEF Agreed
  <2> QED
    BY <2>1, <2>4 DEF Backing, Whole, Saving, Calling, Renewing
<1>4. CASE OAuthStatus
  <2> DEFINE new == [QbIdle EXCEPT !.pc = "ensure", !.doc = qbSettings, !.next = "heal"]
  <2>1. /\ QbProcOnly /\ QbSet(QbAdmin, new) /\ qbProc[QbAdmin].pc = "idle"
        /\ UNCHANGED <<qbSettings, qbSecret, qbIssued, qbRaced>>
    BY <1>4 DEF OAuthStatus, QbProcOnly, QbAt
  <2>2. new.pc = "ensure" /\ new.doc = qbSettings
    BY DEF QbIdle
  <2> HIDE DEF new
  <2>3. "refresh" \notin qbRaced => Backing(new, qbSettings, qbSecret, RealmOf(qbSecret), qbRaced)
    BY <2>1, <2>2, AdminHas DEF Backing, Whole, Saving, Calling, Renewing
  <2> QED
    BY <2>1, <2>3, AdminReads, SameTokens
<1>5. CASE QueuePull
  <2> DEFINE new == [QbIdle EXCEPT !.pc = "enqueue"]
  <2>1. /\ QbSet(QbAdmin, new) /\ qbProc[QbAdmin].pc = "idle"
        /\ UNCHANGED <<qbSecret, qbIssued, qbRaced>>
        /\ qbSettings' = [qbSettings EXCEPT !.pull = "running"]
    BY <1>5 DEF QueuePull, QbSettingsOnly, QbAt
  <2>2. new.pc = "enqueue"
    BY DEF QbIdle
  <2>3. (qbSettings'.connected <=> qbSettings.connected) /\ qbSettings'.realm = qbSettings.realm
    BY <1>0, <2>1 DEF QbSettingsSet
  <2> HIDE DEF new
  <2>4. "refresh" \notin qbRaced => Backing(new, qbSettings, qbSecret, RealmOf(qbSecret), qbRaced)
    BY <2>1, <2>2, AdminHas DEF Backing, Whole, Saving, Calling, Renewing
  <2> QED
    BY <2>1, <2>3, <2>4, AdminReads, SameTokens
<1> QED
  BY <1>1, <1>2, <1>3, <1>4, <1>5

(* A connect flow, up to its secret.                                        *)
LEMMA ConnectsBack ==
    ASSUME QbInv, SecretInv,
           \/ \E g \in 1 .. qbGrants, r \in Realms \cup {NoRealm} : QuickBooksCallback(g, r)
           \/ ExchangeCode \/ SaveConnected
    PROVE  SecretInv'
<1> DEFINE s == qbProc[QbAdmin]
<1>0. s \in QbState /\ HoldsTokens(s, qbIssued)
  BY StateIs, AdminIs
<1>1. ASSUME NEW g \in 1 .. qbGrants, NEW r \in Realms \cup {NoRealm}, QuickBooksCallback(g, r)
      PROVE  SecretInv'
  <2> DEFINE new == [QbIdle EXCEPT !.pc = "exchange", !.realm = r]
  <2>1. /\ UNCHANGED <<qbSettings, qbSecret, qbIssued, qbRaced>> /\ s.pc = "idle"
        /\ QbSet(QbAdmin, new) \/ qbProc' = qbProc
    BY <1>1 DEF QuickBooksCallback, QbAt
  <2>2. new.pc = "exchange"
    BY DEF QbIdle
  <2> HIDE DEF new
  <2>3. "refresh" \notin qbRaced => Backing(new, qbSettings, qbSecret, RealmOf(qbSecret), qbRaced)
    BY <2>1, <2>2, AdminHas DEF Backing, Whole, Saving, Calling, Renewing
  <2> QED
    BY <2>1, <2>3, AdminReads, OthersBack, SameTokens
<1>2. CASE ExchangeCode
  <2> DEFINE new == [s EXCEPT !.pc = "saveSecret", !.token = Len(qbIssued) + 1]
  <2>1. UNCHANGED <<qbSettings, qbSecret, qbRaced>> /\ s.pc = "exchange" /\ s.realm \in Realms
    BY <1>0, <1>2 DEF ExchangeCode, QbAt, HoldsTokens
  <2>2. \/ /\ Len(qbIssued) < MaxTokensQb /\ qbIssued' = Append(qbIssued, s.realm)
           /\ QbSet(QbAdmin, new)
        \/ QbSet(QbAdmin, QbIdle) /\ qbIssued' = qbIssued
    BY <1>2 DEF ExchangeCode
  <2>3. IssuedGrows
    BY <2>1, <2>2, SameTokens, TokenIssued
  <2>4. new.pc = "saveSecret"
    BY <1>0 DEF QbState
  <2> HIDE DEF new
  <2>5. "refresh" \notin qbRaced =>
           /\ Backing(new, qbSettings, qbSecret, RealmOf(qbSecret), qbRaced)
           /\ Backing(QbIdle, qbSettings, qbSecret, RealmOf(qbSecret), qbRaced)
    <3> SUFFICES ASSUME "refresh" \notin qbRaced
                 PROVE  /\ Backing(new, qbSettings, qbSecret, RealmOf(qbSecret), qbRaced)
                        /\ Backing(QbIdle, qbSettings, qbSecret, RealmOf(qbSecret), qbRaced)
      OBVIOUS
    <3>1. Agreed(qbSettings, qbSecret, RealmOf(qbSecret), qbRaced)
      BY <2>1, AdminHas DEF Whole
    <3> QED
      BY <2>4, <3>1, IdleBacks DEF Backing, Whole, Saving, Calling, Renewing
  <2> QED
    BY <2>1, <2>2, <2>3, <2>5, AdminReads
<1>3. CASE SaveConnected
  <2> DEFINE new == [s EXCEPT !.pc = "loadConnected"]
  <2>1. /\ s.pc = "saveSecret" /\ s.token \in 1 .. Len(qbIssued) /\ qbIssued[s.token] = s.realm
        /\ qbSecret' = s.token /\ qbIssued' = qbIssued /\ QbSet(QbAdmin, new)
    BY <1>0, <1>3 DEF SaveConnected, QbSecretOnly, QbGo, QbAt, HoldsTokens
  <2>2. new.pc = "loadConnected" /\ new.realm = s.realm
    BY <1>0 DEF QbState
  <2>3. qbSecret' # 0 /\ RealmOf(qbSecret)' = s.realm
    <3>1. s.token # 0
      BY <2>1
    <3> QED
      BY <2>1, <3>1 DEF RealmOf
  <2> HIDE DEF new
  <2>4. Backing(new, qbSettings', qbSecret', RealmOf(qbSecret)', qbRaced')
    BY <2>2, <2>3 DEF Backing, Whole, Saving, Calling, Renewing
  <2> QED
    BY <2>1, <2>4, AdminGoes
<1> QED
  BY <1>1, <1>2, <1>3

(* Loading and saving the settings.                                          *)
LEMMA SavesBack ==
    ASSUME QbInv, SecretInv,
           LoadSettings \/ SaveSettings \/ HealSettings \/ EnqueuePull
           \/ MarkPull(QbAdmin, "markFailure", "error")
    PROVE  SecretInv'
<1> DEFINE s == qbProc[QbAdmin]
<1>0. /\ s \in QbState /\ s.doc \in QbSettingsSet
      /\ s.realm \in Realms \cup {NoRealm} /\ s.path \in Realms \cup {NoRealm}
  <2>1. s \in QbState
    BY StateIs, AdminIs
  <2> QED
    BY <2>1 DEF QbState, QbSettingsSet
<1>1. qbSettings \in QbSettingsSet /\ qbRaced \subseteq {"refresh", "environment"}
  BY DEF QbInv, QbStores
<1>2. CASE LoadSettings
  <2> DEFINE pc == IF s.pc = "loadConnected" THEN "saveConnected" ELSE "saveDisconnected"
             new == [s EXCEPT !.doc = qbSettings, !.pc = pc]
  <2>1. /\ QbSet(QbAdmin, new) /\ UNCHANGED <<qbSettings, qbSecret, qbIssued, qbRaced>>
        /\ \/ s.pc = "loadConnected" /\ pc = "saveConnected"
           \/ s.pc = "loadDisconnected" /\ pc = "saveDisconnected"
    BY <1>2 DEF LoadSettings, QbProcOnly, QbAt
  <2> HIDE DEF pc
  <2>2. new.pc = pc /\ new.doc = qbSettings /\ new.realm = s.realm
    BY <1>0 DEF QbState
  <2> HIDE DEF new
  <2>3. "refresh" \notin qbRaced => Backing(new, qbSettings, qbSecret, RealmOf(qbSecret), qbRaced)
    BY <2>1, <2>2, AdminHas DEF Backing, Whole, Saving, Calling, Renewing
  <2> QED
    BY <2>1, <2>3, AdminReads, SameTokens
<1>3. CASE SaveSettings
  <2> DEFINE connected == ConnectedAs(s.doc, s.realm)
  <2>1. /\ QbSet(QbAdmin, QbIdle) /\ qbSecret' = qbSecret /\ qbIssued' = qbIssued
        /\ qbRaced' = qbRaced \ {"environment"}
        /\ \/ s.pc = "saveConnected" /\ qbSettings' = SavedSettings(s.doc, connected)
           \/ s.pc = "saveDisconnected" /\ qbSettings' = SavedSettings(s.doc, Disconnected)
    BY <1>3 DEF SaveSettings, QbSettingsOnly, QbAt
  <2>2. RealmOf(qbSecret)' = RealmOf(qbSecret)
    BY <2>1 DEF RealmOf
  <2>3. /\ connected \in QbSettingsSet /\ connected.connected = TRUE
        /\ connected.realm = s.realm
    BY <1>0, ConnectedIs
  <2>4. /\ Disconnected \in QbSettingsSet /\ Disconnected.connected = FALSE
        /\ Disconnected.realm = NoRealm
    BY DisconnectedIs DEF Disconnected
  <2> HIDE DEF connected
  <2> SUFFICES ASSUME "refresh" \notin qbRaced
               PROVE  Agreed(qbSettings', qbSecret', RealmOf(qbSecret)', qbRaced')
    BY <2>1, AdminGoes, IdleBacks
  <2>5. /\ "environment" \notin qbRaced' /\ (s.doc.connected <=> qbSettings.connected)
        /\ s.doc.realm = qbSettings.realm
    BY <2>1, AdminHas DEF Saving
  <2>6. CASE s.pc = "saveConnected"
    <3>1. qbSettings' = SavedSettings(s.doc, connected)
      BY <2>1, <2>6
    <3>2. /\ SavedSettings(s.doc, connected).connected
          /\ SavedSettings(s.doc, connected).realm = s.realm
      BY <1>0, <2>3, <2>5, SavedIs
    <3>3. qbSecret # 0 /\ RealmOf(qbSecret) = s.realm
      BY <2>6, AdminHas
    <3> QED
      BY <2>1, <2>2, <2>5, <3>1, <3>2, <3>3 DEF Agreed
  <2>7. CASE s.pc = "saveDisconnected"
    <3>1. qbSettings' = SavedSettings(s.doc, Disconnected)
      BY <2>1, <2>7
    <3>2. /\ SavedSettings(s.doc, Disconnected).connected = FALSE
          /\ SavedSettings(s.doc, Disconnected).realm = NoRealm
      <4>1. s.doc.connected \in BOOLEAN /\ qbSettings.connected \in BOOLEAN
        BY <1>0, <1>1 DEF QbSettingsSet
      <4> QED
        BY <1>0, <2>4, <2>5, <4>1, SavedIs
    <3>3. qbSecret = 0 /\ RealmOf(qbSecret) = NoRealm
      BY <2>7, AdminHas DEF RealmOf
    <3> QED
      BY <2>1, <2>2, <2>5, <3>1, <3>2, <3>3 DEF Agreed
  <2> QED
    BY <2>1, <2>6, <2>7
<1>4. CASE HealSettings
  <2> DEFINE healed == [s.doc EXCEPT !.realm = s.path]
  <2>1. /\ QbSet(QbAdmin, QbIdle) /\ qbSecret' = qbSecret /\ qbIssued' = qbIssued
        /\ qbRaced' = qbRaced \ {"environment"}
        /\ s.pc = "heal" /\ qbSettings' = SavedSettings(s.doc, healed)
    BY <1>4 DEF HealSettings, QbSettingsOnly, QbAt
  <2>2. RealmOf(qbSecret)' = RealmOf(qbSecret)
    BY <2>1 DEF RealmOf
  <2>3. healed \in QbSettingsSet /\ healed.connected = s.doc.connected /\ healed.realm = s.path
    BY <1>0, ConnectedIs
  <2> HIDE DEF healed
  <2> SUFFICES ASSUME "refresh" \notin qbRaced
               PROVE  Agreed(qbSettings', qbSecret', RealmOf(qbSecret)', qbRaced')
    BY <2>1, AdminGoes, IdleBacks
  <2>4. /\ "environment" \notin qbRaced' /\ (s.doc.connected <=> qbSettings.connected)
        /\ s.doc.realm = qbSettings.realm /\ qbSecret # 0 /\ s.path = RealmOf(qbSecret)
        /\ qbSettings.connected
    BY <2>1, AdminHas DEF Saving, Whole, Agreed
  <2>5. /\ SavedSettings(s.doc, healed).connected = qbSettings.connected
        /\ SavedSettings(s.doc, healed).realm = s.path
    <3>1. /\ SavedSettings(s.doc, healed).connected =
                IF healed.connected = s.doc.connected THEN qbSettings.connected
                ELSE healed.connected
          /\ SavedSettings(s.doc, healed).realm =
                IF healed.realm = s.doc.realm THEN qbSettings.realm ELSE healed.realm
      BY <1>0, <2>3, SavedIs
    <3>2. SavedSettings(s.doc, healed).connected = qbSettings.connected
      BY <2>3, <3>1
    <3>3. SavedSettings(s.doc, healed).realm = s.path
      BY <2>3, <2>4, <3>1
    <3> QED
      BY <3>2, <3>3
  <2> QED
    BY <2>1, <2>2, <2>4, <2>5 DEF Agreed
<1>5. CASE EnqueuePull
  <2> DEFINE new == [s EXCEPT !.pc = "markFailure"]
  <2>1. /\ QbSet(QbAdmin, new) \/ QbSet(QbAdmin, QbIdle)
        /\ s.pc = "enqueue" /\ UNCHANGED <<qbSettings, qbSecret, qbIssued, qbRaced>>
    BY <1>5 DEF EnqueuePull, QbSettingsOnly, QbAt, QbGo
  <2>2. new.pc = "markFailure"
    BY <1>0 DEF QbState
  <2> HIDE DEF new
  <2>3. "refresh" \notin qbRaced =>
           /\ Backing(new, qbSettings, qbSecret, RealmOf(qbSecret), qbRaced)
           /\ Backing(QbIdle, qbSettings, qbSecret, RealmOf(qbSecret), qbRaced)
    BY <2>1, <2>2, AdminHas, IdleBacks DEF Backing, Whole, Saving, Calling, Renewing
  <2> QED
    BY <2>1, <2>3, AdminReads, SameTokens
<1>6. CASE MarkPull(QbAdmin, "markFailure", "error")
  <2>1. /\ QbSet(QbAdmin, QbIdle) /\ s.pc = "markFailure"
        /\ UNCHANGED <<qbSecret, qbIssued, qbRaced>>
        /\ qbSettings' = [qbSettings EXCEPT !.pull = "error"]
    BY <1>6 DEF MarkPull, QbSettingsOnly, QbAt
  <2>2. (qbSettings'.connected <=> qbSettings.connected) /\ qbSettings'.realm = qbSettings.realm
    BY <1>1, <2>1 DEF QbSettingsSet
  <2>3. "refresh" \notin qbRaced =>
           Backing(QbIdle, qbSettings, qbSecret, RealmOf(qbSecret), qbRaced)
    BY <2>1, AdminHas, IdleBacks DEF Whole
  <2> QED
    BY <2>1, <2>2, <2>3, AdminReads, SameTokens
<1> QED
  BY <1>2, <1>3, <1>4, <1>5, <1>6

(* The status page's call of the API: it ends with the realm of the secret.  *)
LEMMA CallsBack ==
    ASSUME QbInv, SecretInv,
           EnsureFresh(QbAdmin) \/ RenewLoad(QbAdmin) \/ RenewAsk(QbAdmin) \/ RenewSave(QbAdmin)
    PROVE  SecretInv'
<1> DEFINE s == qbProc[QbAdmin]
           heal(token) == [s EXCEPT !.pc = "heal", !.path = qbIssued[token]]
           load == [s EXCEPT !.pc = "renewLoad"]
           ask == [s EXCEPT !.pc = "renewAsk", !.old = qbSecret]
<1>0. s \in QbState /\ HoldsTokens(s, qbIssued) /\ InTurn(QbAdmin, s) /\ QbAdmin \notin QbJobs
  BY StateIs, AdminIs
<1>1. s.pc \in Calling /\ s.next = "heal" /\ s.stage = "path"
  <2>1. s.pc \in Calling
    BY DEF EnsureFresh, RenewLoad, RenewAsk, RenewSave, QbAt, Calling, Renewing
  <2> QED
    BY <1>0, <2>1 DEF InTurn
<1>2. /\ Thrown(QbAdmin) = QbIdle /\ RenewThrown(QbAdmin) = QbIdle
      /\ \A token : WithSecret(QbAdmin, token) = heal(token)
  BY <1>0, <1>1 DEF Thrown, RenewThrown, WithSecret
<1>3. ASSUME NEW settings, NEW secret, NEW realm, NEW raced,
             Agreed(settings, secret, realm, raced),
             s.doc.connected <=> settings.connected, s.doc.realm = settings.realm,
             NEW new, new.pc \in Renewing, new.doc = s.doc
      PROVE  Backing(new, settings, secret, realm, raced)
  BY <1>3 DEF Backing, Whole, Saving, Calling, Renewing
<1>4. ASSUME NEW settings, NEW secret, NEW raced, NEW token \in 1 .. Len(qbIssued), secret # 0,
             Agreed(settings, secret, qbIssued[token], raced),
             s.doc.connected <=> settings.connected, s.doc.realm = settings.realm
      PROVE  Backing(heal(token), settings, secret, qbIssued[token], raced)
  <2>1. qbIssued[token] \in Realms
    BY DEF QbInv, QbStores
  <2>2. heal(token).pc = "heal" /\ heal(token).doc = s.doc /\ heal(token).path = qbIssued[token]
    BY <1>0, <2>1 DEF QbState
  <2> HIDE DEF heal
  <2> QED
    BY <1>4, <2>2 DEF Backing, Whole, Saving, Calling, Renewing
<1>5. /\ load.pc = "renewLoad" /\ load.doc = s.doc /\ ask.pc = "renewAsk" /\ ask.doc = s.doc
  BY <1>0 DEF QbState
<1>6. "refresh" \notin qbRaced =>
         /\ Agreed(qbSettings, qbSecret, RealmOf(qbSecret), qbRaced)
         /\ (s.doc.connected <=> qbSettings.connected) /\ s.doc.realm = qbSettings.realm
         /\ Backing(QbIdle, qbSettings, qbSecret, RealmOf(qbSecret), qbRaced)
  BY <1>1, AdminHas, IdleBacks DEF Whole, Saving
<1> HIDE DEF heal, load, ask
<1>7. CASE EnsureFresh(QbAdmin)
  <2>1. /\ UNCHANGED <<qbSettings, qbSecret, qbIssued, qbRaced>>
        /\ QbSet(QbAdmin, IF qbSecret = 0 THEN QbIdle
                          ELSE IF qbSecret \in qbExpired THEN load ELSE heal(qbSecret))
    BY <1>2, <1>7 DEF EnsureFresh, QbProcOnly, load
  <2>2. "refresh" \notin qbRaced => Backing(load, qbSettings, qbSecret, RealmOf(qbSecret), qbRaced)
    BY <1>3, <1>5, <1>6 DEF Renewing
  <2>3. "refresh" \notin qbRaced /\ qbSecret # 0 =>
           Backing(heal(qbSecret), qbSettings, qbSecret, RealmOf(qbSecret), qbRaced)
    BY <1>4, <1>6, SecretIs DEF RealmOf
  <2>4. CASE QbSet(QbAdmin, QbIdle)
    BY <1>6, <2>1, <2>4, AdminReads, SameTokens
  <2>5. CASE QbSet(QbAdmin, load)
    BY <2>1, <2>2, <2>5, AdminReads, SameTokens
  <2>6. CASE qbSecret # 0 /\ QbSet(QbAdmin, heal(qbSecret))
    BY <2>1, <2>3, <2>6, AdminReads, SameTokens
  <2> QED
    BY <2>1, <2>4, <2>5, <2>6
<1>8. CASE RenewLoad(QbAdmin)
  <2>1. /\ UNCHANGED <<qbSettings, qbSecret, qbIssued, qbRaced>>
        /\ QbSet(QbAdmin, IF qbSecret = 0 THEN QbIdle ELSE ask)
    BY <1>2, <1>8 DEF RenewLoad, QbProcOnly, ask
  <2>2. "refresh" \notin qbRaced => Backing(ask, qbSettings, qbSecret, RealmOf(qbSecret), qbRaced)
    BY <1>3, <1>5, <1>6 DEF Renewing
  <2> QED
    BY <1>6, <2>1, <2>2, AdminReads, SameTokens
<1>9. CASE RenewAsk(QbAdmin)
  <2> DEFINE new == [s EXCEPT !.pc = "renewSave", !.token = Len(qbIssued) + 1]
  <2>1. /\ UNCHANGED <<qbSettings, qbSecret, qbRaced>>
        /\ \/ /\ Len(qbIssued) < MaxTokensQb /\ qbIssued' = Append(qbIssued, qbIssued[s.old])
              /\ QbSet(QbAdmin, new)
           \/ QbSet(QbAdmin, QbIdle) /\ qbIssued' = qbIssued
    BY <1>2, <1>9 DEF RenewAsk
  <2>2. qbIssued[s.old] \in Realms
    <3>1. s.old \in 1 .. Len(qbIssued)
      BY <1>0, <1>9 DEF RenewAsk, QbAt, HoldsTokens
    <3> QED
      BY <3>1 DEF QbInv, QbStores
  <2>3. IssuedGrows
    BY <2>1, <2>2, SameTokens, TokenIssued
  <2>4. new.pc = "renewSave" /\ new.doc = s.doc
    BY <1>0 DEF QbState
  <2> HIDE DEF new
  <2>5. "refresh" \notin qbRaced => Backing(new, qbSettings, qbSecret, RealmOf(qbSecret), qbRaced)
    BY <1>3, <1>6, <2>4 DEF Renewing
  <2> QED
    BY <1>6, <2>1, <2>3, <2>5, AdminReads
<1>10. CASE RenewSave(QbAdmin)
  <2>1. QbSet(QbAdmin, heal(s.token)) /\ s.token \in 1 .. Len(qbIssued)
    BY <1>0, <1>2, <1>10 DEF RenewSave, HoldsTokens, QbAt
  <2> SUFFICES ASSUME "refresh" \notin qbRaced'
               PROVE  Backing(heal(s.token), qbSettings', qbSecret', RealmOf(qbSecret)', qbRaced')
    BY <2>1, AdminGoes
  <2>2. /\ "refresh" \notin qbRaced /\ qbRaced' = qbRaced /\ qbSecret # 0 /\ qbSecret' # 0
        /\ qbSettings' = qbSettings /\ qbIssued[s.token] = RealmOf(qbSecret)
        /\ RealmOf(qbSecret)' = RealmOf(qbSecret)
    BY <1>10, AdminIs, RenewedIs
  <2>3. Agreed(qbSettings', qbSecret', qbIssued[s.token], qbRaced')
    BY <1>6, <2>2 DEF Agreed
  <2>4. (s.doc.connected <=> qbSettings'.connected) /\ s.doc.realm = qbSettings'.realm
    BY <1>6, <2>2
  <2> QED
    BY <1>4, <2>1, <2>2, <2>3, <2>4
<1> QED
  BY <1>7, <1>8, <1>9, <1>10

(* At first there is both, or neither.                                      *)
LEMMA SecretInitially == ASSUME QbInit PROVE SecretInv
<1>1. qbProc[QbAdmin] = QbIdle
  BY AdminIs DEF QbInit
<1>2. Agreed(qbSettings, qbSecret, RealmOf(qbSecret), qbRaced)
  <2>1. qbRaced = {}
    BY DEF QbInit
  <2>2. CASE qbBudget.start = NoRealm
    <3>1. qbSettings = Disconnected /\ qbSecret = 0
      BY <2>2 DEF QbInit
    <3> QED
      BY <2>1, <3>1 DEF Agreed, RealmOf, Disconnected
  <2>3. CASE qbBudget.start # NoRealm
    <3>1. /\ qbSettings = [connected |-> TRUE, realm |-> qbBudget.start, pull |-> "idle"]
          /\ qbSecret = 1 /\ qbIssued = <<qbBudget.start>>
      BY <2>3 DEF QbInit
    <3> QED
      BY <2>1, <3>1 DEF Agreed, RealmOf
  <2> QED
    BY <2>2, <2>3
<1> QED
  BY <1>1, <1>2, IdleBacks DEF SecretInv

(* Every step keeps secret and settings backed.                             *)
LEMMA SecretKeeps ==
    ASSUME QbInv, SecretInv, [QbNext]_qbVars
    PROVE  SecretInv'
<1>0. qbProc \in [QbProcs -> QbState]
  BY DEF QbInv
<1>1. CASE UNCHANGED qbVars
  BY <1>1, OthersBack, SameTokens DEF qbVars
<1>2. ASSUME NEW t \in QbTokens, ExpireToken(t)
      PROVE  SecretInv'
  BY <1>2, OthersBack, SameTokens DEF ExpireToken
<1>3. ASSUME NEW p \in QbDesks, NEW type \in DocTypes, NEW id \in QbTags,
             TaxWrite(p, type, id)
      PROVE  SecretInv'
  <2>1. /\ \E new : QbSet(p, new)
        /\ UNCHANGED <<qbSettings, qbSecret, qbIssued, qbRaced>>
    BY <1>3 DEF TaxWrite, QbProcOnly
  <2>2. qbProc'[QbAdmin] = qbProc[QbAdmin]
    BY <1>0, <2>1, AdminIs DEF QbSet
  <2> QED
    BY <2>1, <2>2, OthersBack, SameTokens
<1>4. ASSUME NEW p \in QbProcs, QbProceed(p), p # QbAdmin
      PROVE  SecretInv'
  BY <1>4, OthersKeep, OthersBack, OthersRenew
<1>5. ASSUME QbProceed(QbAdmin)
      PROVE  SecretInv'
  <2>1. qbProc[QbAdmin].pc \notin {"send", "readChart", "writeChart"} /\ QbAdmin \notin QbJobs
    BY AdminIs, StateIs DEF InTurn
  <2>2. ~ \/ RefusedRequest(QbAdmin) \/ ReadAnswered(QbAdmin) \/ Unavailable(QbAdmin)
          \/ Posted(QbAdmin) \/ TakePull(QbAdmin) \/ WriteChart(QbAdmin)
          \/ \E active \in SUBSET QbAccounts : ReadChart(QbAdmin, active)
    BY <2>1 DEF RefusedRequest, ReadAnswered, Unavailable, Posted, Admitted, TakePull,
                WriteChart, ReadChart, QbAt
  <2>3. \/ ExchangeCode \/ SaveConnected \/ LoadSettings \/ SaveSettings \/ HealSettings
        \/ EnqueuePull \/ MarkPull(QbAdmin, "markFailure", "error")
        \/ EnsureFresh(QbAdmin) \/ RenewLoad(QbAdmin) \/ RenewAsk(QbAdmin) \/ RenewSave(QbAdmin)
    BY <1>5, <2>1, <2>2, Zenon DEF QbProceed
  <2> QED
    BY <2>3, ConnectsBack, SavesBack, CallsBack
<1> QED
  BY <1>1, <1>2, <1>3, <1>4, <1>5, BeginningsBack, ConnectsBack, Zenon DEF QbNext

(* Between two requests of the administrator the settings say what the       *)
(* secret can do, SecretBacksSettings.                                       *)
THEOREM QuickBooksSecretBacksSettings == QbSpec => []SecretBacksSettings
<1>1. QbInit => SecretInv
  BY SecretInitially
<1>2. QbInv /\ SecretInv /\ [QbNext]_qbVars => SecretInv'
  BY SecretKeeps
<1>3. SecretInv => SecretBacksSettings
  BY DEF SecretInv, SecretBacksSettings, Backing, Agreed, Whole, QbAt
<1> QED
  BY <1>1, <1>2, <1>3, QuickBooksSteady, PTL DEF QbSpec
-----------------------------------------------------------------------------
(* The documents of a client request id.                                     *)

(* Two desks never ask for a document of one type under one id at once; what  *)
(* they send under it from the two forms is apart anyway.                    *)
TagsApart ==
    \A p, q \in QbDesks :
        p # q /\ qbProc[p].pc # "idle" /\ qbProc[q].pc # "idle" => qbProc[p].tag # qbProc[q].tag

(* A desk that has found nothing in a company's books is right about it, but *)
(* for the excused.                                                          *)
TagInv ==
    /\ OneDocumentPerTag
    /\ \A p \in QbDesks : LET s == qbProc[p] IN
           s.next = "post" /\ s.pc # "idle" => qbBooks[<<s.found, s.tag>>] <= qbExcused[s.tag]

(* A step that writes no document, and leaves desks as they were or done.    *)
LEMMA TagsStay ==
    ASSUME QbInv, TagInv, UNCHANGED <<qbBooks, qbExcused>>, NEW p \in QbProcs, NEW new,
           QbSet(p, new),
           p \in QbDesks /\ new.next = "post" /\ new.pc # "idle" =>
               qbBooks[<<new.found, new.tag>>] <= qbExcused[new.tag]
    PROVE  TagInv'
<1>1. \A q \in QbDesks : qbProc'[q] = IF q = p THEN new ELSE qbProc[q]
  BY AdminIs DEF QbSet, QbInv
<1>2. OneDocumentPerTag'
  BY DEF TagInv, OneDocumentPerTag
<1>3. ASSUME NEW q \in QbDesks, qbProc'[q].next = "post", qbProc'[q].pc # "idle"
      PROVE  qbBooks'[<<qbProc'[q].found, qbProc'[q].tag>>] <= qbExcused'[qbProc'[q].tag]
  BY <1>1, <1>3 DEF TagInv
<1> QED
  BY <1>2, <1>3 DEF TagInv

(* A process that goes on with the same post, or with none.                  *)
SamePost(s, new) ==
    \/ new.pc = "idle" \/ new.next # "post"
    \/ s.pc # "idle" /\ s.next = "post" /\ new.found = s.found /\ new.tag = s.tag

(* A step to the same post, or none.                                        *)
LEMMA SamePostStays ==
    ASSUME QbInv, TagInv, UNCHANGED <<qbBooks, qbExcused>>, NEW p \in QbProcs, NEW new,
           QbSet(p, new), SamePost(qbProc[p], new)
    PROVE  TagInv'
<1>1. p \in QbDesks /\ new.next = "post" /\ new.pc # "idle" =>
          qbBooks[<<new.found, new.tag>>] <= qbExcused[new.tag]
  BY DEF SamePost, TagInv
<1> QED
  BY <1>1, TagsStay

(* A step that touches no document and no process.                          *)
LEMMA TagsUntouched ==
    ASSUME TagInv, UNCHANGED <<qbBooks, qbExcused, qbProc>>
    PROVE  TagInv'
BY DEF TagInv, OneDocumentPerTag

(* A call that is retried, or throws, keeps its post or ends it.            *)
LEMMA RetriedPosts ==
    ASSUME QbInv, NEW p \in QbProcs, qbProc[p].pc # "idle"
    PROVE  /\ SamePost(qbProc[p], Retried(p)) /\ SamePost(qbProc[p], RenewThrown(p))
           /\ SamePost(qbProc[p], Thrown(p))
<1> DEFINE s == qbProc[p]
           new == [s EXCEPT !.pc = "send", !.tries = s.tries + 1, !.renewed = FALSE]
<1>0. s \in QbState
  BY StateIs
<1>1. SamePost(s, Thrown(p))
  BY ThrownIs DEF SamePost
<1>2. SamePost(s, Retried(p))
  <2>1. new.next = s.next /\ new.found = s.found /\ new.tag = s.tag
    BY <1>0 DEF QbState
  <2> HIDE DEF new
  <2>2. SamePost(s, new)
    BY <2>1 DEF SamePost
  <2> QED
    BY <1>1, <2>2 DEF Retried, new
<1> QED
  BY <1>1, <1>2 DEF RenewThrown

(* A token in hand changes no post.                                         *)
LEMMA SecretPosts ==
    ASSUME QbInv, NEW p \in QbProcs, qbProc[p].pc \in Calling, NEW token \in 1 .. Len(qbIssued)
    PROVE  SamePost(qbProc[p], WithSecret(p, token))
<1> DEFINE s == qbProc[p]
           new == WithSecret(p, token)
<1>0. s \in QbState /\ s.pc # "idle"
  BY StateIs DEF Calling, Renewing
<1>1. CASE s.stage = "path" /\ s.next = "heal"
  <2>1. new = [s EXCEPT !.pc = "heal", !.path = qbIssued[token]]
    BY <1>1 DEF WithSecret
  <2>2. new.next = "heal"
    BY <1>0, <1>1, <2>1 DEF QbState
  <2> QED
    BY <2>2 DEF SamePost
<1>2. CASE s.stage = "path" /\ s.next = "hold"
  <2>1. new = [s EXCEPT !.pc = "ensure", !.held = qbIssued[token], !.next = "find"]
    BY <1>2 DEF WithSecret
  <2>2. new.next = "find"
    BY <1>0, <2>1 DEF QbState
  <2> QED
    BY <2>2 DEF SamePost
<1>3. CASE s.stage = "path" /\ s.next \notin {"heal", "hold"}
  <2>1. new = [s EXCEPT !.pc = "ensure", !.stage = "call", !.path = qbIssued[token]]
    BY <1>3 DEF WithSecret
  <2>2. new.next = s.next /\ new.found = s.found /\ new.tag = s.tag
    BY <1>0, <2>1 DEF QbState
  <2> QED
    BY <1>0, <2>2 DEF SamePost
<1>4. CASE s.stage = "call"
  <2>1. new = [s EXCEPT !.pc = "send", !.stage = "attempt", !.token = token, !.tries = 1,
                        !.old = 0, !.renewed = FALSE]
    BY <1>4 DEF WithSecret
  <2>2. new.next = s.next /\ new.found = s.found /\ new.tag = s.tag
    BY <1>0, <2>1 DEF QbState
  <2> QED
    BY <1>0, <2>2 DEF SamePost
<1>5. CASE s.stage = "attempt"
  <2>1. new = [s EXCEPT !.pc = "send", !.token = token, !.old = 0]
    BY <1>5 DEF WithSecret
  <2>2. new.next = s.next /\ new.found = s.found /\ new.tag = s.tag
    BY <1>0, <2>1 DEF QbState
  <2> QED
    BY <1>0, <2>2 DEF SamePost
<1> QED
  BY <1>0, <1>1, <1>2, <1>3, <1>4, <1>5 DEF QbState

(* The steps of a call up to its answer.                                     *)
LEMMA CallsKeepPosts ==
    ASSUME QbInv, TagInv, NEW p \in QbProcs,
           \/ EnsureFresh(p) \/ RenewLoad(p) \/ RenewAsk(p) \/ RenewSave(p)
           \/ RefusedRequest(p) \/ Unavailable(p)
    PROVE  TagInv'
<1> DEFINE s == qbProc[p]
<1>0. s \in QbState /\ HoldsTokens(s, qbIssued)
  BY StateIs
<1>1. s.pc \in Calling \cup {"send"} /\ s.pc # "idle" /\ UNCHANGED <<qbBooks, qbExcused>>
  BY DEF EnsureFresh, RenewLoad, RenewAsk, RenewSave, RefusedRequest, Unavailable, Admitted,
         QbProcOnly, QbSecretOnly, QbAt, Calling, Renewing
<1> DEFINE load == [s EXCEPT !.pc = "renewLoad"]
           ask == [s EXCEPT !.pc = "renewAsk", !.old = qbSecret]
           save == [s EXCEPT !.pc = "renewSave", !.token = Len(qbIssued) + 1]
           again == [s EXCEPT !.pc = "renewLoad", !.renewed = TRUE]
<1>2. SamePost(s, load) /\ SamePost(s, ask) /\ SamePost(s, save) /\ SamePost(s, again)
  <2>1. load.next = s.next /\ load.found = s.found /\ load.tag = s.tag
    BY <1>0 DEF QbState
  <2>2. ask.next = s.next /\ ask.found = s.found /\ ask.tag = s.tag
    BY <1>0 DEF QbState
  <2>3. save.next = s.next /\ save.found = s.found /\ save.tag = s.tag
    BY <1>0 DEF QbState
  <2>4. again.next = s.next /\ again.found = s.found /\ again.tag = s.tag
    BY <1>0 DEF QbState
  <2> HIDE DEF load, ask, save, again
  <2> QED
    BY <1>1, <2>1, <2>2, <2>3, <2>4 DEF SamePost
<1>3. SamePost(s, Thrown(p)) /\ SamePost(s, Retried(p)) /\ SamePost(s, RenewThrown(p))
  BY <1>1, RetriedPosts
<1>4. ASSUME EnsureFresh(p) \/ RenewSave(p)
      PROVE  \A token \in 1 .. Len(qbIssued) : SamePost(s, WithSecret(p, token))
  <2>1. s.pc \in Calling
    BY <1>4 DEF EnsureFresh, RenewSave, QbAt, Calling, Renewing
  <2> QED
    BY <2>1, SecretPosts
<1>5. \E new : QbSet(p, new) /\ SamePost(s, new)
  <2>1. CASE EnsureFresh(p)
    <3>1. QbSet(p, IF qbSecret = 0 THEN Thrown(p)
                   ELSE IF qbSecret \in qbExpired THEN load ELSE WithSecret(p, qbSecret))
      BY <2>1 DEF EnsureFresh
    <3>2. qbSecret # 0 => SamePost(s, WithSecret(p, qbSecret))
      BY <1>4, <2>1, SecretIs
    <3> HIDE DEF load
    <3> QED
      BY <1>2, <1>3, <3>1, <3>2
  <2>2. CASE RenewLoad(p)
    <3>1. QbSet(p, IF qbSecret = 0 THEN RenewThrown(p) ELSE ask)
      BY <2>2 DEF RenewLoad
    <3> HIDE DEF ask
    <3> QED
      BY <1>2, <1>3, <3>1
  <2>3. CASE RenewAsk(p)
    <3>1. QbSet(p, save) \/ QbSet(p, RenewThrown(p))
      BY <2>3 DEF RenewAsk
    <3> HIDE DEF save
    <3> QED
      BY <1>2, <1>3, <3>1
  <2>4. CASE RenewSave(p)
    <3>1. QbSet(p, WithSecret(p, s.token)) /\ s.token \in 1 .. Len(qbIssued)
      BY <1>0, <2>4 DEF RenewSave, QbAt, HoldsTokens
    <3> QED
      BY <1>4, <2>4, <3>1
  <2>5. CASE RefusedRequest(p)
    <3>1. QbSet(p, Thrown(p)) \/ QbSet(p, again)
      BY <2>5 DEF RefusedRequest
    <3> HIDE DEF again
    <3> QED
      BY <1>2, <1>3, <3>1
  <2>6. CASE Unavailable(p)
    BY <1>3, <2>6 DEF Unavailable
  <2> QED
    BY <2>1, <2>2, <2>3, <2>4, <2>5, <2>6
<1> QED
  BY <1>1, <1>5, SamePostStays

(* The answer to the look-up, and the post.                                  *)
LEMMA LookUpKeepsPosts ==
    ASSUME QbInv, TagInv, NEW p \in QbProcs, ReadAnswered(p)
    PROVE  TagInv'
<1> DEFINE s == qbProc[p]
           new == [s EXCEPT !.pc = "ensure", !.next = "post", !.found = s.path,
                            !.stage = IF s.held = NoRealm THEN "path" ELSE "call",
                            !.path = s.held, !.token = 0, !.tries = 0, !.renewed = FALSE]
<1>0. s \in QbState /\ HoldsTokens(s, qbIssued) /\ InTurn(p, s)
  BY StateIs
<1>1. /\ s.pc = "send" /\ s.next \in {"find", "accounts", "entities"}
      /\ QbSet(p, AfterRead(p)) /\ UNCHANGED <<qbBooks, qbExcused>>
      /\ qbIssued[s.token] = s.path
  BY <1>0 DEF ReadAnswered, Admitted, QbAt, InTurn, Reads, QbProcOnly
<1>2. CASE s.next # "find"
  <2>1. \/ QbSet(p, [s EXCEPT !.pc = "readChart"]) \/ QbSet(p, [s EXCEPT !.pc = "markSuccess"])
    BY <1>1, <1>2 DEF AfterRead
  <2>2. SamePost(s, [s EXCEPT !.pc = "readChart"]) /\ SamePost(s, [s EXCEPT !.pc = "markSuccess"])
    <3>1. [s EXCEPT !.pc = "readChart"].next = s.next /\ [s EXCEPT !.pc = "markSuccess"].next = s.next
      BY <1>0 DEF QbState
    <3> QED
      BY <1>1, <3>1 DEF SamePost
  <2> QED
    BY <1>1, <2>1, <2>2, SamePostStays
<1>3. CASE s.next = "find" /\ Found(s)
  <2>1. QbSet(p, QbIdle)
    BY <1>1, <1>3 DEF AfterRead
  <2>2. SamePost(s, QbIdle)
    BY IdleFits DEF SamePost
  <2> QED
    BY <1>1, <2>1, <2>2, SamePostStays
<1>4. CASE s.next = "find" /\ ~Found(s)
  <2>1. QbSet(p, new)
    BY <1>1, <1>4 DEF AfterRead
  <2>2. new.found = s.path /\ new.tag = s.tag
    BY <1>0 DEF QbState
  <2>3. s.path \in Realms /\ s.tag \in TaggedDocs
    <3>1. s.token \in 1 .. Len(qbIssued) /\ s.tag \in TaggedDocs
      BY <1>0, <1>1, <1>4 DEF HoldsTokens, InTurn
    <3> QED
      BY <1>1, <3>1 DEF QbInv, QbStores
  <2>4. qbBooks[<<s.path, s.tag>>] \in Nat /\ qbExcused[s.tag] \in Nat
    <3>1. <<s.path, s.tag>> \in Realms \X TaggedDocs
      BY <2>3
    <3> QED
      BY <2>3, <3>1 DEF QbInv, QbStores
  <2>5. qbBooks[<<s.path, s.tag>>] <= qbExcused[s.tag]
    BY <1>4, <2>4 DEF Found
  <2> HIDE DEF new
  <2>6. qbBooks[<<new.found, new.tag>>] <= qbExcused[new.tag]
    BY <2>2, <2>5
  <2> QED
    BY <1>1, <2>1, <2>6, TagsStay
<1> QED
  BY <1>1, <1>2, <1>3, <1>4

(* A post: its document is the first of its tag, or excused.                *)
LEMMA PostedKeepsPosts ==
    ASSUME QbInv, TagInv, TagsApart, NEW p \in QbProcs, Posted(p)
    PROVE  TagInv'
<1> DEFINE s == qbProc[p]
           w == <<s.path, s.tag>>
<1>0. s \in QbState /\ HoldsTokens(s, qbIssued) /\ InTurn(p, s)
  BY StateIs
<1>1. /\ s.pc = "send" /\ s.next = "post" /\ qbIssued[s.token] = s.path
      /\ qbBooks' = [qbBooks EXCEPT ![w] = qbBooks[w] + 1]
  BY DEF Posted, Admitted, QbAt
<1>2. p \in QbDesks
  BY <1>0, <1>1 DEF InTurn, QbProcs
<1>3. s.path \in Realms /\ s.tag \in TaggedDocs /\ s.found \in Realms
  <2>1. s.token \in 1 .. Len(qbIssued) /\ s.tag \in TaggedDocs /\ s.found \in Realms
    BY <1>0, <1>1 DEF HoldsTokens, InTurn
  <2> QED
    BY <1>1, <2>1 DEF QbInv, QbStores
<1>4. /\ qbBooks \in [Realms \X TaggedDocs -> Nat] /\ qbExcused \in [TaggedDocs -> Nat]
      /\ w \in Realms \X TaggedDocs
  BY <1>3 DEF QbInv, QbStores
<1>5. \A r \in Realms, t \in TaggedDocs :
          /\ <<r, t>> \in Realms \X TaggedDocs /\ qbBooks[<<r, t>>] \in Nat
          /\ (r = s.path /\ t = s.tag => qbBooks'[<<r, t>>] = qbBooks[w] + 1)
          /\ (~(r = s.path /\ t = s.tag) => qbBooks'[<<r, t>>] = qbBooks[<<r, t>>])
  BY <1>1, <1>4
<1>6. \E n \in Nat : /\ qbExcused' = [qbExcused EXCEPT ![s.tag] = n]
                     /\ n >= qbExcused[s.tag]
                     /\ (n >= qbExcused[s.tag] + 1 \/ (s.found = s.path /\ QbSet(p, QbIdle)))
  <2>1. qbExcused[s.tag] \in Nat
    BY <1>3, <1>4
  <2>2. \/ /\ QbSet(p, QbIdle)
           /\ qbExcused' = [qbExcused EXCEPT ![s.tag] =
                               IF s.found = s.path THEN qbExcused[s.tag] ELSE qbExcused[s.tag] + 1]
        \/ qbExcused' = [qbExcused EXCEPT ![s.tag] = qbExcused[s.tag] + 1]
    BY DEF Posted
  <2>3. qbExcused[s.tag] + 1 \in Nat /\ qbExcused[s.tag] + 1 >= qbExcused[s.tag]
        /\ qbExcused[s.tag] + 1 >= qbExcused[s.tag] + 1 /\ qbExcused[s.tag] >= qbExcused[s.tag]
    BY <2>1
  <2> QED
    BY <2>1, <2>2, <2>3
<1>7. PICK n \in Nat : /\ qbExcused' = [qbExcused EXCEPT ![s.tag] = n]
                       /\ n >= qbExcused[s.tag]
                       /\ (n >= qbExcused[s.tag] + 1 \/ (s.found = s.path /\ QbSet(p, QbIdle)))
  BY <1>6
<1>8. \A t \in TaggedDocs : /\ qbExcused[t] \in Nat
                        /\ (t = s.tag => qbExcused'[t] = n)
                        /\ (t # s.tag => qbExcused'[t] = qbExcused[t])
  BY <1>4, <1>7
<1>9. qbBooks[<<s.found, s.tag>>] <= qbExcused[s.tag]
  BY <1>1, <1>2 DEF TagInv
<1>10. \A r \in Realms, t \in TaggedDocs : qbBooks[<<r, t>>] <= 1 + qbExcused[t]
  BY DEF TagInv, OneDocumentPerTag
<1>11. OneDocumentPerTag'
  <2> SUFFICES ASSUME NEW r \in Realms, NEW t \in TaggedDocs
               PROVE  qbBooks'[<<r, t>>] <= 1 + qbExcused'[t]
    BY DEF OneDocumentPerTag
  <2>1. CASE t # s.tag
    BY <1>5, <1>8, <1>10, <2>1
  <2>2. CASE t = s.tag /\ r # s.path
    <3>1. /\ qbBooks'[<<r, t>>] = qbBooks[<<r, t>>] /\ qbExcused'[t] = n
          /\ qbBooks[<<r, t>>] \in Nat /\ qbBooks[<<r, t>>] <= 1 + qbExcused[t]
          /\ qbExcused[t] \in Nat /\ n >= qbExcused[t]
      BY <1>5, <1>7, <1>8, <1>10, <2>2
    <3> QED
      BY <3>1
  <2>3. CASE t = s.tag /\ r = s.path
    <3>1. /\ qbBooks'[<<r, t>>] = qbBooks[w] + 1 /\ qbExcused'[t] = n
          /\ qbBooks[w] \in Nat /\ qbBooks[w] <= 1 + qbExcused[t]
          /\ qbExcused[t] \in Nat /\ n >= qbExcused[t]
      BY <1>5, <1>7, <1>8, <1>10, <2>3
    <3>2. CASE n >= qbExcused[t] + 1
      BY <3>1, <3>2
    <3>3. CASE s.found = s.path
      <4>1. qbBooks[w] <= qbExcused[t]
        BY <1>9, <2>3, <3>3
      <4> QED
        BY <3>1, <4>1
    <3> QED
      BY <1>7, <2>3, <3>2, <3>3
  <2> QED
    BY <2>1, <2>2, <2>3
<1>12. QbSet(p, QbIdle) \/ QbSet(p, Retried(p))
  BY DEF Posted
<1>13. ASSUME NEW q \in QbDesks, qbProc'[q].next = "post", qbProc'[q].pc # "idle"
       PROVE  qbBooks'[<<qbProc'[q].found, qbProc'[q].tag>>] <= qbExcused'[qbProc'[q].tag]
  <2>1. CASE q # p
    <3>1. qbProc'[q] = qbProc[q]
      BY <1>12, <2>1, AdminIs DEF QbSet, QbInv
    <3> DEFINE o == qbProc[q]
    <3>2. o.tag # s.tag
      BY <1>1, <1>2, <1>13, <2>1, <3>1 DEF TagsApart
    <3>3. o.tag \in TaggedDocs /\ o.found \in Realms
      BY <1>13, <3>1, AdminIs, StateIs DEF InTurn
    <3>4. qbBooks[<<o.found, o.tag>>] <= qbExcused[o.tag]
      BY <1>13, <3>1 DEF TagInv
    <3> QED
      BY <1>5, <1>8, <3>1, <3>2, <3>3, <3>4
  <2>2. CASE q = p
    <3>1. qbProc'[p] # QbIdle
      BY <1>13, <2>2, IdleFits
    <3>2. ~QbSet(p, QbIdle)
      BY <3>1 DEF QbSet, QbInv
    <3>3. qbProc'[p] = Retried(p) /\ n >= qbExcused[s.tag] + 1
      BY <1>7, <1>12, <3>2 DEF QbSet, QbInv
    <3>4. SamePost(s, Retried(p))
      BY <1>1, RetriedPosts
    <3>5. qbProc'[p].found = s.found /\ qbProc'[p].tag = s.tag
      BY <1>13, <2>2, <3>3, <3>4 DEF SamePost
    <3>6. /\ qbBooks[<<s.found, s.tag>>] \in Nat /\ qbExcused'[s.tag] = n
          /\ qbExcused[s.tag] \in Nat
          /\ qbBooks'[<<s.found, s.tag>>] \in {qbBooks[<<s.found, s.tag>>], qbBooks[<<s.found, s.tag>>] + 1}
      BY <1>3, <1>5, <1>8
    <3>7. qbBooks'[<<s.found, s.tag>>] <= qbExcused'[s.tag]
      BY <1>9, <3>3, <3>6
    <3> QED
      BY <2>2, <3>5, <3>7
  <2> QED
    BY <2>1, <2>2
<1> QED
  BY <1>11, <1>13 DEF TagInv

(* The administrator and the pulls post nothing.                             *)
LEMMA OthersKeepPosts ==
    ASSUME QbInv, TagInv, NEW p \in QbProcs, p \notin QbDesks, NEW new, QbSet(p, new),
           UNCHANGED <<qbBooks, qbExcused>>
    PROVE  TagInv'
BY TagsStay

(* Every step keeps the documents of a tag explained.                       *)
LEMMA TagsKeep ==
    ASSUME QbInv, TagInv, TagsApart, [QbNext]_qbVars
    PROVE  TagInv'
<1>1. CASE UNCHANGED qbVars
  BY <1>1, TagsUntouched DEF qbVars
<1>2. ASSUME NEW t \in QbTokens, ExpireToken(t)
      PROVE  TagInv'
  BY <1>2, TagsUntouched DEF ExpireToken
<1>3. ASSUME NEW p \in QbDesks, NEW type \in DocTypes, NEW id \in QbTags,
             TaxWrite(p, type, id)
      PROVE  TagInv'
  <2> DEFINE tag == <<type, id>>
             next == IF type = "Payment" THEN "hold" ELSE "find"
             new == [QbIdle EXCEPT !.pc = "ensure", !.tag = tag, !.next = next]
  <2>1. QbSet(p, new) /\ UNCHANGED <<qbBooks, qbExcused>>
    BY <1>3 DEF TaxWrite, QbProcOnly
  <2>2. new.next # "post"
    BY DEF QbIdle
  <2> HIDE DEF new
  <2>3. SamePost(qbProc[p], new)
    BY <2>2 DEF SamePost
  <2> QED
    BY <2>1, <2>3, AdminIs, SamePostStays
<1>4. CASE StartConnect \/ DisconnectQuickBooks \/ SetQuickbooksSettings \/ OAuthStatus \/ QueuePull
  <2>1. /\ UNCHANGED <<qbBooks, qbExcused>>
        /\ qbProc' = qbProc \/ \E new : QbSet(QbAdmin, new)
    BY <1>4 DEF StartConnect, DisconnectQuickBooks, SetQuickbooksSettings, OAuthStatus, QueuePull,
                QbSettingsOnly, QbSecretOnly, QbProcOnly
  <2> QED
    BY <2>1, AdminIs, TagsUntouched, OthersKeepPosts
<1>5. ASSUME NEW g \in 1 .. qbGrants, NEW r \in Realms \cup {NoRealm}, QuickBooksCallback(g, r)
      PROVE  TagInv'
  <2>1. /\ UNCHANGED <<qbBooks, qbExcused>>
        /\ qbProc' = qbProc \/ \E new : QbSet(QbAdmin, new)
    BY <1>5 DEF QuickBooksCallback
  <2> QED
    BY <2>1, AdminIs, TagsUntouched, OthersKeepPosts
<1>6. ASSUME NEW p \in QbProcs, QbProceed(p)
      PROVE  TagInv'
  <2>1. CASE p = QbAdmin /\ (ExchangeCode \/ SaveConnected \/ LoadSettings \/ SaveSettings
                              \/ HealSettings \/ EnqueuePull)
    <3>1. UNCHANGED <<qbBooks, qbExcused>>
      BY <2>1 DEF ExchangeCode, SaveConnected, LoadSettings, SaveSettings, HealSettings,
                  EnqueuePull, QbSettingsOnly, QbSecretOnly, QbProcOnly
    <3>2. \E new : QbSet(QbAdmin, new)
      BY <2>1, Zenon DEF ExchangeCode, SaveConnected, LoadSettings, SaveSettings, HealSettings,
                         EnqueuePull, QbGo
    <3> QED
      BY <3>1, <3>2, AdminIs, OthersKeepPosts
  <2>2. ASSUME p \in QbJobs \/ p = QbAdmin, NEW pc, NEW status, MarkPull(p, pc, status)
        PROVE  TagInv'
    BY <2>2, AdminIs, OthersKeepPosts DEF MarkPull, QbSettingsOnly
  <2>3. CASE TakePull(p) \/ WriteChart(p) \/ \E active \in SUBSET QbAccounts : ReadChart(p, active)
    <3>1. UNCHANGED <<qbBooks, qbExcused>> /\ \E new : QbSet(p, new)
      <4>1. UNCHANGED <<qbBooks, qbExcused>>
        BY <2>3 DEF TakePull, WriteChart, ReadChart, QbSettingsOnly, QbProcOnly
      <4>2. \E new : QbSet(p, new)
        BY <2>3, Zenon DEF TakePull, WriteChart, ReadChart
      <4> QED
        BY <4>1, <4>2
    <3>2. p \in QbJobs
      BY <2>3, StateIs DEF TakePull, WriteChart, ReadChart, QbAt, InTurn
    <3> QED
      BY <3>1, <3>2, AdminIs, OthersKeepPosts
  <2> QED
    BY <1>6, <2>1, <2>2, <2>3, CallsKeepPosts, LookUpKeepsPosts, PostedKeepsPosts, Zenon
       DEF QbProceed
<1> QED
  BY <1>1, <1>2, <1>3, <1>4, <1>5, <1>6, Zenon DEF QbNext

(* While no two desks ask for a document of one type under one id at once,   *)
(* the id stands for at most one document of each type, OneDocumentPerTag,   *)
(* whatever is renewed, refused, retried and sent again meanwhile, and       *)
(* whatever the id is used for in the other form.                            *)
THEOREM QuickBooksTagsApart == QbSpec /\ []TagsApart => []OneDocumentPerTag
<1>1. QbInit => TagInv
  BY AdminIs, IdleFits DEF QbInit, TagInv, OneDocumentPerTag
<1>2. QbInv /\ TagInv /\ TagsApart /\ [QbNext]_qbVars => TagInv'
  BY TagsKeep
<1>3. TagInv => OneDocumentPerTag
  BY DEF TagInv
<1> QED
  BY <1>1, <1>2, <1>3, QuickBooksSteady, PTL DEF QbSpec

OneDesk == \A p, q \in QbDesks : p = q

(* With one desk that is so by itself, and OneDocumentPerTag holds always:   *)
(* one document of each type for an id, however it is typed into both forms. *)
THEOREM QuickBooksOneDocumentPerTag == OneDesk => (QbSpec => []OneDocumentPerTag)
<1> SUFFICES ASSUME OneDesk PROVE QbSpec => []OneDocumentPerTag
  OBVIOUS
<1>1. TagsApart
  BY DEF OneDesk, TagsApart
<1> QED
  BY <1>1, QuickBooksTagsApart, PTL
-----------------------------------------------------------------------------
(* The codes of the chart of accounts.                                       *)

(* Pulls do not overlap.                                                     *)
OneJob == \A p, q \in QbJobs : p = q

(* The chart is what the index on codes makes it, and what a pull is about   *)
(* to write fits it.                                                         *)
CodesApart(chart) ==
    \A a \in QbAccounts : chart[a] # NoCode =>
        chart[a] \notin SystemCodes /\ \A b \in QbAccounts \ {a} : chart[b] # chart[a]
ChartInv ==
    /\ CodesApart(qbChart)
    /\ \A p \in QbJobs : QbAt(p, "writeChart") => Decided(qbChart, qbProc[p].codes)
CodesKept ==
    /\ \A a \in QbAccounts : qbChart[a] # NoCode => qbChart'[a] = qbChart[a]
    /\ \A a, b \in QbAccounts : a # b /\ qbChart'[a] # NoCode =>
           qbChart'[a] # qbChart'[b] /\ qbChart'[a] \notin SystemCodes

(* What was decided is written as a whole.                                   *)
LEMMA DecidedIsWritten ==
    ASSUME NEW chart \in CodeLists, NEW codes, Decided(chart, codes), CodesApart(chart)
    PROVE  LET refused == {a \in QbAccounts : codes[a] # NoCode
                              /\ \E b \in QbAccounts \ {a} : chart[b] = codes[a]}
               new == [a \in QbAccounts |-> IF codes[a] = NoCode THEN chart[a] ELSE codes[a]]
           IN  /\ refused = {}
               /\ CodesApart(new)
               /\ \A a \in QbAccounts : chart[a] # NoCode => new[a] = chart[a]
<1> DEFINE new == [a \in QbAccounts |-> IF codes[a] = NoCode THEN chart[a] ELSE codes[a]]
<1>1. /\ \A a \in QbAccounts : chart[a] # NoCode => codes[a] \in {NoCode, chart[a]}
      /\ \A a \in QbAccounts : chart[a] = NoCode /\ codes[a] # NoCode =>
            /\ codes[a] \notin SystemCodes
            /\ \A b \in QbAccounts : codes[a] # chart[b] /\ (b # a => codes[a] # codes[b])
  BY DEF Decided
<1>2. \A a \in QbAccounts : codes[a] # NoCode =>
          \A b \in QbAccounts \ {a} : chart[b] # codes[a]
  BY <1>1 DEF CodesApart
<1>3. /\ \A a \in QbAccounts : chart[a] # NoCode => new[a] = chart[a]
      /\ \A a \in QbAccounts : chart[a] = NoCode => new[a] = codes[a]
  BY <1>1
<1> HIDE DEF new
<1>4. CodesApart(new)
  <2> SUFFICES ASSUME NEW a \in QbAccounts, new[a] # NoCode
               PROVE  new[a] \notin SystemCodes /\ \A b \in QbAccounts \ {a} : new[b] # new[a]
    BY DEF CodesApart
  <2>1. CASE chart[a] # NoCode
    BY <1>1, <1>3, <2>1 DEF CodesApart
  <2>2. CASE chart[a] = NoCode
    BY <1>1, <1>3, <2>2
  <2> QED
    BY <2>1, <2>2
<1> QED
  BY <1>2, <1>3, <1>4 DEF new

(* The chart is written.                                                    *)
LEMMA WritesKeepCodes ==
    ASSUME OneJob, QbInv, ChartInv, NEW p \in QbProcs, WriteChart(p)
    PROVE  ChartInv' /\ CodesKept
<1> DEFINE s == qbProc[p]
           codes == s.codes
           refused == {a \in QbAccounts : codes[a] # NoCode
                          /\ \E b \in QbAccounts \ {a} : qbChart[b] = codes[a]}
           new == [a \in QbAccounts |-> IF codes[a] = NoCode THEN qbChart[a] ELSE codes[a]]
           next == [s EXCEPT !.pc = "ensure", !.stage = "path", !.next = "entities"]
<1>1. s \in QbState /\ s.pc = "writeChart" /\ p \in QbJobs /\ qbChart \in CodeLists
  BY StateIs DEF WriteChart, QbAt, InTurn, QbInv, QbStores
<1>2. Decided(qbChart, codes) /\ CodesApart(qbChart)
  BY <1>1 DEF ChartInv, QbAt
<1>3. refused = {} /\ CodesApart(new)
      /\ \A a \in QbAccounts : qbChart[a] # NoCode => new[a] = qbChart[a]
  BY <1>1, <1>2, DecidedIsWritten
<1>4. qbChart' = new /\ QbSet(p, next)
  BY <1>3 DEF WriteChart
<1>5. next.pc = "ensure"
  BY <1>1 DEF QbState
<1> HIDE DEF new, next
<1>6. \A q \in QbJobs : qbProc'[q].pc # "writeChart"
  BY <1>1, <1>4, <1>5 DEF OneJob, QbSet, QbInv
<1>7. CodesKept
  BY <1>3, <1>4 DEF CodesKept, CodesApart
<1> QED
  BY <1>3, <1>4, <1>6, <1>7 DEF ChartInv, QbAt

(* The codes are decided.                                                   *)
LEMMA ReadsKeepCodes ==
    ASSUME QbInv, ChartInv, NEW p \in QbProcs, NEW active \in SUBSET QbAccounts,
           ReadChart(p, active)
    PROVE  ChartInv' /\ qbChart' = qbChart
<1> DEFINE s == qbProc[p]
           codes == CodesFor(qbChart, active)
           new == [s EXCEPT !.pc = "writeChart", !.codes = codes]
<1>1. s \in QbState /\ qbChart \in CodeLists
  BY StateIs DEF QbInv, QbStores
<1>2. Decided(qbChart, codes)
  BY <1>1, CodesForIs
<1>3. QbSet(p, new) /\ qbChart' = qbChart
  BY DEF ReadChart, QbProcOnly
<1> HIDE DEF codes
<1>4. new.codes = codes
  BY <1>1 DEF QbState
<1> HIDE DEF new
<1>5. \A q \in QbJobs : qbProc'[q] = IF q = p THEN new ELSE qbProc[q]
  BY <1>3, AdminIs DEF QbSet, QbInv
<1> QED
  BY <1>2, <1>3, <1>4, <1>5 DEF ChartInv, QbAt

(* Every other step leaves the chart, and begins no write.                   *)
LEMMA CodesStay ==
    ASSUME QbInv, ChartInv, qbChart' = qbChart, NEW p \in QbProcs, NEW new, QbSet(p, new),
           new.pc # "writeChart"
    PROVE  ChartInv'
<1>1. \A q \in QbJobs : qbProc'[q] = IF q = p THEN new ELSE qbProc[q]
  BY AdminIs DEF QbSet, QbInv
<1> QED
  BY <1>1 DEF ChartInv, QbAt

(* A step that moves no pull.                                               *)
LEMMA AdminKeepsCodes ==
    ASSUME QbInv, ChartInv, qbChart' = qbChart, qbProc' = qbProc \/ \E new : QbSet(QbAdmin, new)
    PROVE  ChartInv'
<1>1. \A q \in QbJobs : qbProc'[q] = qbProc[q]
  BY AdminIs DEF QbSet, QbInv
<1> QED
  BY <1>1 DEF ChartInv, QbAt

(* What a call goes on with is not a write of the chart.                     *)
LEMMA CallsWriteNoChart ==
    ASSUME QbInv, NEW p \in QbProcs
    PROVE  /\ Thrown(p).pc # "writeChart" /\ Retried(p).pc # "writeChart"
           /\ RenewThrown(p).pc # "writeChart"
<1> DEFINE s == qbProc[p]
           new == [s EXCEPT !.pc = "send", !.tries = s.tries + 1, !.renewed = FALSE]
<1>0. s \in QbState
  BY StateIs
<1>1. Thrown(p).pc # "writeChart"
  BY ThrownIs
<1>2. Retried(p).pc # "writeChart"
  <2>1. new.pc = "send"
    BY <1>0 DEF QbState
  <2> HIDE DEF new
  <2> QED
    BY <1>1, <2>1 DEF Retried, new
<1> QED
  BY <1>1, <1>2 DEF RenewThrown

(* Nor does a token in hand.                                                *)
LEMMA TokensWriteNoChart ==
    ASSUME QbInv, NEW p \in QbProcs, NEW token
    PROVE  WithSecret(p, token).pc # "writeChart"
<1> DEFINE s == qbProc[p]
           new == WithSecret(p, token)
<1>0. s \in QbState
  BY StateIs
<1>1. CASE s.stage = "path" /\ s.next = "heal"
  <2>1. new = [s EXCEPT !.pc = "heal", !.path = qbIssued[token]]
    BY <1>1 DEF WithSecret
  <2> QED
    BY <1>0, <2>1 DEF QbState
<1>2. CASE s.stage = "path" /\ s.next = "hold"
  <2>1. new = [s EXCEPT !.pc = "ensure", !.held = qbIssued[token], !.next = "find"]
    BY <1>2 DEF WithSecret
  <2> QED
    BY <1>0, <2>1 DEF QbState
<1>3. CASE s.stage = "path" /\ s.next \notin {"heal", "hold"}
  <2>1. new = [s EXCEPT !.pc = "ensure", !.stage = "call", !.path = qbIssued[token]]
    BY <1>3 DEF WithSecret
  <2> QED
    BY <1>0, <2>1 DEF QbState
<1>4. CASE s.stage = "call"
  <2>1. new = [s EXCEPT !.pc = "send", !.stage = "attempt", !.token = token, !.tries = 1,
                        !.old = 0, !.renewed = FALSE]
    BY <1>4 DEF WithSecret
  <2> QED
    BY <1>0, <2>1 DEF QbState
<1>5. CASE s.stage = "attempt"
  <2>1. new = [s EXCEPT !.pc = "send", !.token = token, !.old = 0]
    BY <1>5 DEF WithSecret
  <2> QED
    BY <1>0, <2>1 DEF QbState
<1> QED
  BY <1>0, <1>1, <1>2, <1>3, <1>4, <1>5 DEF QbState

(* Nor does an answer.                                                      *)
LEMMA AnswersWriteNoChart ==
    ASSUME QbInv, NEW p \in QbProcs, qbProc[p].next \in {"accounts", "entities", "find"}
    PROVE  AfterRead(p).pc # "writeChart"
<1> DEFINE s == qbProc[p]
           post == [s EXCEPT !.pc = "ensure", !.next = "post", !.found = s.path,
                             !.stage = IF s.held = NoRealm THEN "path" ELSE "call",
                             !.path = s.held, !.token = 0, !.tries = 0, !.renewed = FALSE]
<1>0. s \in QbState
  BY StateIs
<1>1. CASE s.next = "accounts"
  <2>1. AfterRead(p) = [s EXCEPT !.pc = "readChart"]
    BY <1>1 DEF AfterRead
  <2> QED
    BY <1>0, <2>1 DEF QbState
<1>2. CASE s.next = "entities"
  <2>1. AfterRead(p) = [s EXCEPT !.pc = "markSuccess"]
    BY <1>2 DEF AfterRead
  <2> QED
    BY <1>0, <2>1 DEF QbState
<1>3. CASE s.next = "find"
  <2>1. post.pc = "ensure"
    BY <1>0 DEF QbState
  <2>2. AfterRead(p) = IF Found(s) THEN QbIdle ELSE post
    BY <1>3 DEF AfterRead
  <2> HIDE DEF post
  <2> QED
    BY <2>1, <2>2, IdleFits
<1> QED
  BY <1>1, <1>2, <1>3

(* The steps of a call.                                                     *)
LEMMA CallsKeepCodes ==
    ASSUME QbInv, ChartInv, NEW p \in QbProcs,
           \/ EnsureFresh(p) \/ RenewLoad(p) \/ RenewAsk(p) \/ RenewSave(p)
           \/ RefusedRequest(p) \/ ReadAnswered(p) \/ Unavailable(p) \/ Posted(p)
    PROVE  ChartInv' /\ qbChart' = qbChart
<1> DEFINE s == qbProc[p]
<1>0. s \in QbState /\ InTurn(p, s)
  BY StateIs
<1>1. qbChart' = qbChart
  BY DEF EnsureFresh, RenewLoad, RenewAsk, RenewSave, RefusedRequest, ReadAnswered, Unavailable,
         Posted, QbProcOnly, QbSecretOnly
<1> DEFINE load == [s EXCEPT !.pc = "renewLoad"]
           ask == [s EXCEPT !.pc = "renewAsk", !.old = qbSecret]
           save == [s EXCEPT !.pc = "renewSave", !.token = Len(qbIssued) + 1]
           again == [s EXCEPT !.pc = "renewLoad", !.renewed = TRUE]
<1>2. /\ load.pc # "writeChart" /\ ask.pc # "writeChart" /\ save.pc # "writeChart"
      /\ again.pc # "writeChart" /\ QbIdle.pc # "writeChart"
  BY <1>0, IdleFits DEF QbState
<1>3. /\ Thrown(p).pc # "writeChart" /\ Retried(p).pc # "writeChart"
      /\ RenewThrown(p).pc # "writeChart" /\ \A token : WithSecret(p, token).pc # "writeChart"
  BY CallsWriteNoChart, TokensWriteNoChart
<1>4. \E new : QbSet(p, new) /\ new.pc # "writeChart"
  <2>1. CASE EnsureFresh(p)
    <3>1. QbSet(p, IF qbSecret = 0 THEN Thrown(p)
                   ELSE IF qbSecret \in qbExpired THEN load ELSE WithSecret(p, qbSecret))
      BY <2>1 DEF EnsureFresh
    <3> HIDE DEF load
    <3> QED
      BY <1>2, <1>3, <3>1
  <2>2. CASE RenewLoad(p)
    <3>1. QbSet(p, IF qbSecret = 0 THEN RenewThrown(p) ELSE ask)
      BY <2>2 DEF RenewLoad
    <3> HIDE DEF ask
    <3> QED
      BY <1>2, <1>3, <3>1
  <2>3. CASE RenewAsk(p)
    <3>1. QbSet(p, save) \/ QbSet(p, RenewThrown(p))
      BY <2>3 DEF RenewAsk
    <3> HIDE DEF save
    <3> QED
      BY <1>2, <1>3, <3>1
  <2>4. CASE RenewSave(p)
    BY <1>3, <2>4 DEF RenewSave
  <2>5. CASE RefusedRequest(p)
    <3>1. QbSet(p, Thrown(p)) \/ QbSet(p, again)
      BY <2>5 DEF RefusedRequest
    <3> HIDE DEF again
    <3> QED
      BY <1>2, <1>3, <3>1
  <2>6. CASE ReadAnswered(p)
    <3>1. s.next \in {"accounts", "entities", "find"} /\ QbSet(p, AfterRead(p))
      BY <1>0, <2>6 DEF ReadAnswered, Admitted, QbAt, InTurn, Reads
    <3> QED
      BY <3>1, AnswersWriteNoChart
  <2>7. CASE Unavailable(p)
    BY <1>3, <2>7 DEF Unavailable
  <2>8. CASE Posted(p)
    <3>1. QbSet(p, QbIdle) \/ QbSet(p, Retried(p))
      BY <2>8 DEF Posted
    <3> QED
      BY <1>2, <1>3, <3>1
  <2> QED
    BY <2>1, <2>2, <2>3, <2>4, <2>5, <2>6, <2>7, <2>8
<1> QED
  BY <1>1, <1>4, CodesStay

(* Every step keeps the codes, or leaves the chart.                         *)
LEMMA ChartSteps ==
    ASSUME OneJob, QbInv, ChartInv, [QbNext]_qbVars
    PROVE  ChartInv' /\ (CodesKept \/ qbChart' = qbChart)
<1>1. CASE UNCHANGED qbVars
  BY <1>1, AdminKeepsCodes DEF qbVars
<1>2. ASSUME NEW t \in QbTokens, ExpireToken(t)
      PROVE  ChartInv' /\ qbChart' = qbChart
  BY <1>2, AdminKeepsCodes DEF ExpireToken
<1>3. ASSUME NEW p \in QbDesks, NEW type \in DocTypes, NEW id \in QbTags,
             TaxWrite(p, type, id)
      PROVE  ChartInv' /\ qbChart' = qbChart
  <2> DEFINE new == [QbIdle EXCEPT !.pc = "ensure", !.tag = <<type, id>>,
                                   !.next = IF type = "Payment" THEN "hold" ELSE "find"]
  <2>1. QbSet(p, new) /\ qbChart' = qbChart
    BY <1>3 DEF TaxWrite, QbProcOnly
  <2>2. new.pc = "ensure"
    BY DEF QbIdle
  <2> HIDE DEF new
  <2> QED
    BY <2>1, <2>2, AdminIs, CodesStay
<1>4. ASSUME \/ StartConnect \/ DisconnectQuickBooks \/ SetQuickbooksSettings \/ OAuthStatus
             \/ QueuePull
      PROVE  ChartInv' /\ qbChart' = qbChart
  <2>1. qbChart' = qbChart /\ (qbProc' = qbProc \/ \E new : QbSet(QbAdmin, new))
    BY <1>4 DEF StartConnect, DisconnectQuickBooks, SetQuickbooksSettings, OAuthStatus, QueuePull,
                QbSettingsOnly, QbSecretOnly, QbProcOnly
  <2> QED
    BY <2>1, AdminKeepsCodes
<1>5. ASSUME NEW g \in 1 .. qbGrants, NEW r \in Realms \cup {NoRealm}, QuickBooksCallback(g, r)
      PROVE  ChartInv' /\ qbChart' = qbChart
  <2>1. qbChart' = qbChart /\ (qbProc' = qbProc \/ \E new : QbSet(QbAdmin, new))
    BY <1>5 DEF QuickBooksCallback
  <2> QED
    BY <2>1, AdminKeepsCodes
<1>6. ASSUME NEW p \in QbProcs, QbProceed(p)
      PROVE  ChartInv' /\ (CodesKept \/ qbChart' = qbChart)
  <2>1. ASSUME \/ ExchangeCode \/ SaveConnected \/ LoadSettings \/ SaveSettings
               \/ HealSettings \/ EnqueuePull
        PROVE  ChartInv' /\ qbChart' = qbChart
    <3>1. qbChart' = qbChart
      BY <2>1 DEF ExchangeCode, SaveConnected, LoadSettings, SaveSettings, HealSettings,
                  EnqueuePull, QbSettingsOnly, QbSecretOnly, QbProcOnly
    <3>2. \E new : QbSet(QbAdmin, new)
      BY <2>1, Zenon DEF ExchangeCode, SaveConnected, LoadSettings, SaveSettings, HealSettings,
                         EnqueuePull, QbGo
    <3> QED
      BY <3>1, <3>2, AdminKeepsCodes
  <2>2. ASSUME NEW pc, NEW status, MarkPull(p, pc, status)
        PROVE  ChartInv' /\ qbChart' = qbChart
    <3>1. QbSet(p, QbIdle) /\ QbIdle.pc # "writeChart" /\ qbChart' = qbChart
      BY <2>2, IdleFits DEF MarkPull, QbSettingsOnly
    <3> QED
      BY <3>1, CodesStay
  <2>3. ASSUME TakePull(p)
        PROVE  ChartInv' /\ qbChart' = qbChart
    <3> DEFINE new == [QbIdle EXCEPT !.pc = "ensure", !.next = "accounts"]
    <3>1. QbSet(p, new) /\ qbChart' = qbChart
      BY <2>3 DEF TakePull, QbSettingsOnly
    <3>2. new.pc = "ensure"
      BY DEF QbIdle
    <3> HIDE DEF new
    <3> QED
      BY <3>1, <3>2, CodesStay
  <2>4. ASSUME NEW active \in SUBSET QbAccounts, ReadChart(p, active)
        PROVE  ChartInv' /\ qbChart' = qbChart
    BY <2>4, ReadsKeepCodes
  <2> QED
    BY <1>6, <2>1, <2>2, <2>3, <2>4, CallsKeepCodes, WritesKeepCodes, Zenon DEF QbProceed
<1> QED
  BY <1>1, <1>2, <1>3, <1>4, <1>5, <1>6, Zenon DEF QbNext

(* With pulls that do not overlap, an account keeps its code and no two      *)
(* share one, CodesAreKept, whatever the accounts and their numbers are.     *)
THEOREM QuickBooksCodesAreKept == OneJob => (QbSpec => CodesAreKept)
<1> SUFFICES ASSUME OneJob PROVE QbSpec => CodesAreKept
  OBVIOUS
<1>1. QbInit => ChartInv
  <2> SUFFICES ASSUME QbInit PROVE ChartInv
    OBVIOUS
  <2>1. \A a \in QbAccounts : qbChart[a] = NoCode
    BY DEF QbInit, NoCodes
  <2>2. \A p \in QbJobs : qbProc[p] = QbIdle
    BY AdminIs DEF QbInit
  <2> QED
    BY <2>1, <2>2, IdleFits DEF ChartInv, CodesApart, QbAt
<1>2. QbInv /\ ChartInv /\ [QbNext]_qbVars => ChartInv'
  BY ChartSteps
<1>3. QbInv /\ ChartInv /\ [QbNext]_qbVars =>
          [/\ \A a \in QbAccounts : qbChart[a] # NoCode => qbChart'[a] = qbChart[a]
           /\ \A a, b \in QbAccounts : a # b /\ qbChart'[a] # NoCode =>
                  qbChart'[a] # qbChart'[b] /\ qbChart'[a] \notin SystemCodes]_qbVars
  <2> SUFFICES ASSUME QbInv, ChartInv, [QbNext]_qbVars
               PROVE  CodesKept
    BY DEF CodesKept
  <2>1. CodesKept \/ qbChart' = qbChart
    BY ChartSteps
  <2>2. qbChart' = qbChart => CodesKept
    BY DEF ChartInv, CodesApart, CodesKept
  <2> QED
    BY <2>1, <2>2
<1> QED
  BY <1>1, <1>2, <1>3, QuickBooksSteady, PTL DEF QbSpec, CodesAreKept
=============================================================================
