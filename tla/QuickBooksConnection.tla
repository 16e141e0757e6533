------------------------ MODULE QuickBooksConnection ------------------------
(***************************************************************************)
(* The connection of one company to QuickBooks Online: the OAuth tokens     *)
(* (an IntegrationSecret), the quickbooks part of IntegrationSettings, the  *)
(* handlers of quickbooksController.ts, requestQuickBooksApi with its       *)
(* refreshes and retries (quickbooksService.ts), the pull of the chart of   *)
(* accounts (quickbooksSyncService.ts) and the documents that the tax desk  *)
(* writes (quickbooksTaxService.ts).                                        *)
(*                                                                         *)
(* A realm is a company in QuickBooks, a token a pair of access and refresh *)
(* tokens that Intuit issued for it; both are external. One administrator   *)
(* works at a time; jobs and tax requests run beside.                       *)
(***************************************************************************)
EXTENDS Naturals, Sequences, FiniteSets

CONSTANTS
    QbAdmin,     \* the browser of the administrator: one handler at a time
    QbJobs,      \* workers that run quickbooks.refresh_reference_data
    QbDesks,     \* users of the tax page
    Realms,
    QbTags,      \* client request ids of payments and adjustments
    AccountList, \* the ids of accounts in QuickBooks, of any realm, as it lists them
    PreferredCode, \* the AcctNum of each account, or QB-id without one
    SystemCodes, \* codes of the default chart of accounts
    QbFaults,    \* the faults that occur
    MaxTokensQb, \* bound: tokens Intuit issues
    QbBudgets    \* bounds: the realm connected at first and how many flows, other
                 \* requests of the administrator, pulls, tax requests and faults follow

NoRealm == "none"
AllQbFaults == {"expire", "tokenEndpoint", "unavailable", "lostReply", "enqueue"}

ASSUME QuickBooksAssumption ==
    /\ QbAdmin \notin QbJobs \cup QbDesks /\ QbJobs \cap QbDesks = {}
    /\ QbFaults \subseteq AllQbFaults
    /\ NoRealm \notin Realms /\ MaxTokensQb \in Nat \ {0}
    /\ QbBudgets \subseteq [start : Realms \cup {NoRealm}, grants : Nat, admin : Nat,
                            pull : Nat, write : Nat, fault : Nat]

VARIABLES
    qbSettings, \* IntegrationSettings.quickbooks
    qbSecret,   \* the token of the IntegrationSecret; 0 without one
    qbIssued,   \* the realm of each token issued so far
    qbExpired,  \* tokens whose access token has expired
    qbCookie,   \* the nonce cookie of the browser; 0 without one
    qbGrants,   \* connect flows started; the nonce of each is its number
    qbChart,    \* the code of each QuickBooks account in ChartOfAccount
    qbBooks,    \* documents in each realm's books, for each type and client request id
    qbExcused,  \* history: posts whose reply was lost, or whose look-up read other books
    qbRaced,    \* history: why settings and secret differ: "refresh", one saved over a
                \* secret it had not read; "environment", a change that took the realm along
    qbProc,     \* progress of each process
    qbQueue,    \* pulls enqueued and not taken
    qbBudget    \* requests and faults still to come

qbVars == <<qbSettings, qbSecret, qbIssued, qbExpired, qbCookie, qbGrants, qbChart,
            qbBooks, qbExcused, qbRaced, qbProc, qbQueue, qbBudget>>

QbProcs == {QbAdmin} \cup QbJobs \cup QbDesks
QbTokens == 0 .. MaxTokensQb
\* A code is a pair: an account number and 0, or QB-id and its suffix.
QbAccounts == {AccountList[i] : i \in DOMAIN AccountList}
CodeSuffixes == 0 .. Len(AccountList) + Cardinality(SystemCodes)
QbCodes == {PreferredCode[a] : a \in QbAccounts} \cup SystemCodes \cup QbAccounts \X CodeSuffixes
NoCode == <<"none", 0>>
NoCodes == [a \in QbAccounts |-> NoCode]

ASSUME ChartAssumption ==
    /\ AccountList \in Seq(QbAccounts) /\ IsFiniteSet(SystemCodes)
    /\ NoCode \notin QbCodes
\* What a tag is looked up for and posted as: a customer payment, a vendor payment
\* (a check) or a journal entry, each under the client request id a user typed.
DocTypes == {"Payment", "Purchase", "JournalEntry"}
TaggedDocs == DocTypes \X QbTags
NoTag == "none"
MaxAttempts == 3
PullStatus == {"idle", "running", "success", "error"}

Disconnected == [connected |-> FALSE, realm |-> NoRealm, pull |-> "idle"]

\* doc is the settings document a handler loaded; token the secret a call holds;
\* path the realm in its URL; tries its attempts; renewed whether the attempt
\* under way has met a 401; next what follows the call; found the realm whose
\* books were searched; held the realm a customer payment read at its start;
\* tag the tagged document the desk asks for.
QbIdle == [pc |-> "idle", doc |-> Disconnected, realm |-> NoRealm, stage |-> "path",
           token |-> 0, path |-> NoRealm, tries |-> 0, renewed |-> FALSE, next |-> "done",
           old |-> 0, tag |-> NoTag, found |-> NoRealm, held |-> NoRealm, codes |-> NoCodes]

QbAt(p, pc) == qbProc[p].pc = pc
QbSet(p, state) == qbProc' = [qbProc EXCEPT ![p] = state]
QbGo(p, pc) == QbSet(p, [qbProc[p] EXCEPT !.pc = pc])
QbSpend(what) ==
    /\ qbBudget[what] > 0
    /\ qbBudget' = [qbBudget EXCEPT ![what] = @ - 1]
QbFault(f) == f \in QbFaults /\ QbSpend("fault")
RealmOf(token) == IF token = 0 THEN NoRealm ELSE qbIssued[token]

\* settings.save(): only fields that differ from what was loaded are written.
SavedSettings(doc, new) ==
    [f \in DOMAIN qbSettings |-> IF new[f] = doc[f] THEN qbSettings[f] ELSE new[f]]

QbProcOnly == UNCHANGED <<qbSettings, qbSecret, qbIssued, qbExpired, qbCookie, qbGrants,
                          qbChart, qbBooks, qbExcused, qbRaced, qbQueue>>
QbSettingsOnly == UNCHANGED <<qbSecret, qbIssued, qbExpired, qbCookie, qbGrants,
                              qbChart, qbBooks, qbExcused>>
QbSecretOnly == UNCHANGED <<qbSettings, qbIssued, qbExpired, qbCookie, qbGrants,
                            qbChart, qbBooks, qbExcused, qbQueue>>
-----------------------------------------------------------------------------
(* Connect and disconnect. *)

\* The connect URL carries a signed state; its nonce goes into a cookie, over
\* the nonce of a flow that another tab has started.
StartConnect ==
    /\ QbAt(QbAdmin, "idle") /\ QbSpend("grants")
    /\ qbGrants' = qbGrants + 1 /\ qbCookie' = qbGrants + 1
    /\ UNCHANGED <<qbSettings, qbSecret, qbIssued, qbExpired, qbChart, qbBooks,
                   qbExcused, qbRaced, qbProc, qbQueue>>

\* The callback clears the cookie. A nonce is compared only when the browser
\* still has one: the flow of a second tab is accepted without.
NonceAccepted(g) == qbCookie \in {0, g}
QuickBooksCallback(g, r) ==
    /\ QbAt(QbAdmin, "idle") /\ QbSpend("admin")
    /\ qbCookie' = 0
    /\ IF NonceAccepted(g) /\ r # NoRealm
       THEN QbSet(QbAdmin, [QbIdle EXCEPT !.pc = "exchange", !.realm = r])
       ELSE UNCHANGED qbProc
    /\ UNCHANGED <<qbSettings, qbSecret, qbIssued, qbExpired, qbGrants, qbChart,
                   qbBooks, qbExcused, qbRaced, qbQueue>>

\* exchangeQuickBooksAuthorizationCode; what the old secret adds is its name only.
ExchangeCode ==
    /\ QbAt(QbAdmin, "exchange")
    /\ \/ /\ Len(qbIssued) < MaxTokensQb
          /\ qbIssued' = Append(qbIssued, qbProc[QbAdmin].realm)
          /\ QbSet(QbAdmin, [qbProc[QbAdmin] EXCEPT !.pc = "saveSecret",
                                                    !.token = Len(qbIssued) + 1])
          /\ UNCHANGED qbBudget
       \/ /\ QbFault("tokenEndpoint")
          /\ QbSet(QbAdmin, QbIdle) /\ UNCHANGED qbIssued
    /\ UNCHANGED <<qbSettings, qbSecret, qbExpired, qbCookie, qbGrants, qbChart,
                   qbBooks, qbExcused, qbRaced, qbQueue>>

SaveConnected ==
    /\ QbAt(QbAdmin, "saveSecret")
    /\ qbSecret' = qbProc[QbAdmin].token
    /\ QbGo(QbAdmin, "loadConnected")
    /\ QbSecretOnly /\ UNCHANGED <<qbRaced, qbBudget>>

\* The settings are loaded, and saved, only now.
LoadSettings ==
    /\ \/ QbAt(QbAdmin, "loadConnected")
       \/ QbAt(QbAdmin, "loadDisconnected")
    /\ QbSet(QbAdmin, [qbProc[QbAdmin] EXCEPT !.doc = qbSettings,
                          !.pc = IF @ = "loadConnected" THEN "saveConnected"
                                 ELSE "saveDisconnected"])
    /\ QbProcOnly /\ UNCHANGED qbBudget

\* Mutant: the callback leaves the realm of the settings for the status page to heal.
ConnectedWithoutRealm(doc, realm) == [doc EXCEPT !.connected = TRUE]

ConnectedAs(doc, realm) == [doc EXCEPT !.connected = TRUE, !.realm = realm]
SaveSettings ==
    /\ \/ /\ QbAt(QbAdmin, "saveConnected")
          /\ qbSettings' = LET doc == qbProc[QbAdmin].doc IN
                           SavedSettings(doc, ConnectedAs(doc, qbProc[QbAdmin].realm))
       \/ /\ QbAt(QbAdmin, "saveDisconnected")
          /\ qbSettings' = SavedSettings(qbProc[QbAdmin].doc, Disconnected)
    /\ QbSet(QbAdmin, QbIdle)
    /\ qbRaced' = qbRaced \ {"environment"}
    /\ QbSettingsOnly /\ UNCHANGED <<qbQueue, qbBudget>>

\* setQuickbooksSettings, as the settings page calls it to change the environment:
\* the realm, which is not sent, is cleared.  (updateQuickBooksSettings, for the
\* page of QuickBooks, writes the environment alone.)
SetQuickbooksSettings ==
    /\ QbAt(QbAdmin, "idle") /\ QbSpend("admin")
    /\ qbSettings' = [qbSettings EXCEPT !.realm = NoRealm]
    /\ qbRaced' = qbRaced \cup {"environment"}
    /\ QbSettingsOnly /\ UNCHANGED <<qbQueue, qbProc>>

\* disconnectQuickBooks deletes the secret first.
DisconnectQuickBooks ==
    /\ QbAt(QbAdmin, "idle") /\ QbSpend("admin")
    /\ qbSecret' = 0
    /\ QbSet(QbAdmin, [QbIdle EXCEPT !.pc = "loadDisconnected"])
    /\ QbSecretOnly /\ UNCHANGED qbRaced

\* The status page reports a connection only with its secret, refreshes a token
\* near its end, and lets the settings follow the realm of the secret.
OAuthStatus ==
    /\ QbAt(QbAdmin, "idle") /\ QbSpend("admin")
    /\ qbSettings.connected
    /\ QbSet(QbAdmin, [QbIdle EXCEPT !.pc = "ensure", !.doc = qbSettings, !.next = "heal"])
    /\ QbProcOnly
HealSettings ==
    /\ QbAt(QbAdmin, "heal")
    /\ qbSettings' = LET doc == qbProc[QbAdmin].doc IN
                     SavedSettings(doc, [doc EXCEPT !.realm = qbProc[QbAdmin].path])
    /\ QbSet(QbAdmin, QbIdle)
    /\ qbRaced' = qbRaced \ {"environment"}
    /\ QbSettingsOnly /\ UNCHANGED <<qbQueue, qbBudget>>

\* A pull is marked as running, then enqueued; without Cloud Tasks it is marked
\* as failed.
QueuePull ==
    /\ QbAt(QbAdmin, "idle") /\ QbSpend("pull")
    /\ qbSettings.connected
    /\ qbSettings' = [qbSettings EXCEPT !.pull = "running"]
    /\ QbSet(QbAdmin, [QbIdle EXCEPT !.pc = "enqueue"])
    /\ QbSettingsOnly /\ UNCHANGED <<qbRaced, qbQueue>>
EnqueuePull ==
    /\ QbAt(QbAdmin, "enqueue")
    /\ \/ /\ qbQueue' = qbQueue + 1 /\ QbSet(QbAdmin, QbIdle)
          /\ UNCHANGED qbBudget
       \/ /\ QbFault("enqueue")
          /\ QbGo(QbAdmin, "markFailure") /\ UNCHANGED qbQueue
    /\ QbSettingsOnly /\ UNCHANGED <<qbSettings, qbRaced>>
MarkPull(p, pc, status) ==
    /\ QbAt(p, pc)
    /\ qbSettings' = [qbSettings EXCEPT !.pull = status]
    /\ QbSet(p, QbIdle)
    /\ QbSettingsOnly /\ UNCHANGED <<qbRaced, qbQueue, qbBudget>>

-----------------------------------------------------------------------------
(* A call of the API, for the status page, a pull or the tax desk.         *)

\* Mutant: a pull that throws is not marked.
ThrownUnmarked(p) == QbIdle

\* What a call that throws does to its caller.
Thrown(p) == IF p \in QbJobs THEN [QbIdle EXCEPT !.pc = "markError"] ELSE QbIdle

\* 429, 5xx and network errors, a failed refresh among them, are retried.
Retried(p) ==
    IF qbProc[p].tries < MaxAttempts
    THEN [qbProc[p] EXCEPT !.pc = "send", !.tries = @ + 1, !.renewed = FALSE]
    ELSE Thrown(p)

\* With a fresh token in hand: the first time its realm goes into the path (or
\* is what the caller wanted); the second time the request is sent with it.
WithSecret(p, token) ==
    LET s == qbProc[p] IN
    CASE s.stage = "path" /\ s.next = "heal" ->
             [s EXCEPT !.pc = "heal", !.path = qbIssued[token]]
      [] s.stage = "path" /\ s.next = "hold" ->
             [s EXCEPT !.pc = "ensure", !.held = qbIssued[token], !.next = "find"]
      [] s.stage = "path" /\ s.next \notin {"heal", "hold"} ->
             [s EXCEPT !.pc = "ensure", !.stage = "call", !.path = qbIssued[token]]
      [] s.stage = "call" ->
             [s EXCEPT !.pc = "send", !.stage = "attempt", !.token = token, !.tries = 1,
                       !.old = 0, !.renewed = FALSE]
      [] s.stage = "attempt" -> [s EXCEPT !.pc = "send", !.token = token, !.old = 0]

\* ensureFreshQuickBooksSecret.
EnsureFresh(p) ==
    /\ QbAt(p, "ensure")
    /\ QbSet(p, IF qbSecret = 0 THEN Thrown(p)
                ELSE IF qbSecret \in qbExpired THEN [qbProc[p] EXCEPT !.pc = "renewLoad"]
                ELSE WithSecret(p, qbSecret))
    /\ QbProcOnly /\ UNCHANGED qbBudget

\* refreshQuickBooksSecretForCompany: load, ask Intuit, save; nothing is locked.
RenewThrown(p) == IF qbProc[p].stage = "attempt" THEN Retried(p) ELSE Thrown(p)
RenewLoad(p) ==
    /\ QbAt(p, "renewLoad")
    /\ QbSet(p, IF qbSecret = 0 THEN RenewThrown(p)
                ELSE [qbProc[p] EXCEPT !.pc = "renewAsk", !.old = qbSecret])
    /\ QbProcOnly /\ UNCHANGED qbBudget
RenewAsk(p) ==
    /\ QbAt(p, "renewAsk")
    /\ \/ /\ Len(qbIssued) < MaxTokensQb
          /\ qbIssued' = Append(qbIssued, qbIssued[qbProc[p].old])
          /\ QbSet(p, [qbProc[p] EXCEPT !.pc = "renewSave", !.token = Len(qbIssued) + 1])
          /\ UNCHANGED qbBudget
       \/ /\ QbFault("tokenEndpoint")
          /\ QbSet(p, RenewThrown(p)) /\ UNCHANGED qbIssued
    /\ UNCHANGED <<qbSettings, qbSecret, qbExpired, qbCookie, qbGrants, qbChart,
                   qbBooks, qbExcused, qbRaced, qbQueue>>
\* The save is an upsert: a secret that was deleted meanwhile is back.
RenewSave(p) ==
    /\ QbAt(p, "renewSave")
    /\ qbSecret' = qbProc[p].token
    /\ qbRaced' = IF qbSecret # qbProc[p].old THEN qbRaced \cup {"refresh"} ELSE qbRaced
    /\ QbSet(p, WithSecret(p, qbProc[p].token))
    /\ QbSecretOnly /\ UNCHANGED qbBudget

\* Mutant: the look-up's answer is not used.
FoundIgnored(s) == FALSE

\* Mutant: every form looks among the customer payments.
FoundAmongPayments(s) == qbBooks[<<s.path, <<"Payment", s.tag[2]>>>>] > 0

\* The look-up by tag, each of the documents of one type.
Found(s) == qbBooks[<<s.path, s.tag>>] > 0

\* What follows an answer: the pull goes on, the look-up is followed by a post
\* unless it found the tag among the documents of its type.
AfterRead(p) ==
    LET s == qbProc[p] IN
    CASE s.next = "accounts" -> [s EXCEPT !.pc = "readChart"]
      [] s.next = "entities" -> [s EXCEPT !.pc = "markSuccess"]
      [] s.next = "find" ->
             IF Found(s) THEN QbIdle
             ELSE [s EXCEPT !.pc = "ensure", !.next = "post", !.found = s.path,
                            !.stage = IF s.held = NoRealm THEN "path" ELSE "call",
                            !.path = s.held, !.token = 0, !.tries = 0, !.renewed = FALSE]

\* An attempt: the token must be the path's realm's; a 401 is followed by one
\* refresh and one more request.
RefusedRequest(p) ==
    /\ QbAt(p, "send")
    /\ LET s == qbProc[p] IN
       \/ /\ s.token \in qbExpired
          /\ QbSet(p, IF s.renewed THEN Thrown(p)
                      ELSE [s EXCEPT !.pc = "renewLoad", !.renewed = TRUE])
       \/ /\ s.token \notin qbExpired /\ qbIssued[s.token] # s.path
          /\ QbSet(p, Thrown(p))
    /\ QbProcOnly /\ UNCHANGED qbBudget
Admitted(p) ==
    /\ QbAt(p, "send")
    /\ qbProc[p].token \notin qbExpired /\ qbIssued[qbProc[p].token] = qbProc[p].path
ReadAnswered(p) ==
    /\ Admitted(p) /\ qbProc[p].next # "post"
    /\ QbSet(p, AfterRead(p))
    /\ QbProcOnly /\ UNCHANGED qbBudget
Unavailable(p) ==
    /\ Admitted(p) /\ QbFault("unavailable")
    /\ QbSet(p, Retried(p))
    /\ QbProcOnly
\* A post that is applied; its answer may be lost, and then it is sent again.
Posted(p) ==
    LET s == qbProc[p] IN
    /\ Admitted(p) /\ s.next = "post"
    /\ qbBooks' = [qbBooks EXCEPT ![<<s.path, s.tag>>] = @ + 1]
    /\ \/ /\ QbSet(p, QbIdle)
          /\ qbExcused' = [qbExcused EXCEPT ![s.tag] = IF s.found = s.path THEN @ ELSE @ + 1]
          /\ UNCHANGED qbBudget
       \/ /\ QbFault("lostReply")
          /\ QbSet(p, Retried(p))
          /\ qbExcused' = [qbExcused EXCEPT ![s.tag] = @ + 1]
    /\ UNCHANGED <<qbSettings, qbSecret, qbIssued, qbExpired, qbCookie, qbGrants,
                   qbChart, qbRaced, qbQueue>>

\* An access token reaches its end.
ExpireToken(t) ==
    /\ QbFault("expire") /\ t \in 1 .. Len(qbIssued) /\ t \notin qbExpired
    /\ qbExpired' = qbExpired \cup {t}
    /\ UNCHANGED <<qbSettings, qbSecret, qbIssued, qbCookie, qbGrants, qbChart,
                   qbBooks, qbExcused, qbRaced, qbProc, qbQueue>>
-----------------------------------------------------------------------------
(* The pull of the chart of accounts, and the tax desk.                    *)

TakePull(p) ==
    /\ p \in QbJobs /\ QbAt(p, "idle") /\ qbQueue > 0
    /\ qbQueue' = qbQueue - 1
    /\ QbSet(p, [QbIdle EXCEPT !.pc = "ensure", !.next = "accounts"])
    /\ UNCHANGED <<qbSettings, qbRaced>> /\ QbSettingsOnly /\ UNCHANGED qbBudget

\* ensureUniqueCode: the account's number, or QB-id with the first free suffix.
UniqueCode(a, used) ==
    IF PreferredCode[a] \notin used THEN PreferredCode[a]
    ELSE <<a, CHOOSE k \in CodeSuffixes : /\ <<a, k>> \notin used
                                          /\ \A j \in 0 .. k - 1 : <<a, j>> \in used>>

\* Mutant: a known account is given a code again.
CodesForgotten(chart, active) ==
    LET codes[n \in 0 .. Len(AccountList)] ==
            IF n = 0 THEN NoCodes
            ELSE LET a == AccountList[n] IN
                 [codes[n - 1] EXCEPT ![a] =
                     IF a \notin active THEN NoCode
                     ELSE UniqueCode(a, SystemCodes \cup {codes[n - 1][b] : b \in QbAccounts})]
    IN  codes[Len(AccountList)]

\* The code each active account is to have: its own, or a new one that neither
\* the chart nor this pull has used.
CodesFor(chart, active) ==
    LET Used(new) == SystemCodes \cup {chart[b] : b \in QbAccounts} \cup {new[b] : b \in QbAccounts}
        codes[n \in 0 .. Len(AccountList)] ==
            IF n = 0 THEN NoCodes
            ELSE LET a == AccountList[n] IN
                 [codes[n - 1] EXCEPT ![a] =
                     IF a \notin active THEN NoCode
                     ELSE IF chart[a] # NoCode THEN chart[a]
                     ELSE UniqueCode(a, Used(codes[n - 1]))]
    IN  codes[Len(AccountList)]

ReadChart(p, active) ==
    /\ QbAt(p, "readChart")
    /\ QbSet(p, [qbProc[p] EXCEPT !.pc = "writeChart", !.codes = CodesFor(qbChart, active)])
    /\ QbProcOnly /\ UNCHANGED qbBudget
\* An unordered bulk of upserts: the index on codes refuses those in use, and
\* then the pull fails although the others were written.
WriteChart(p) ==
    LET codes == qbProc[p].codes
        refused == {a \in QbAccounts : codes[a] # NoCode
                        /\ \E b \in QbAccounts \ {a} : qbChart[b] = codes[a]}
    IN
    /\ QbAt(p, "writeChart")
    /\ qbChart' = [a \in QbAccounts |-> IF codes[a] = NoCode \/ a \in refused
                                        THEN qbChart[a] ELSE codes[a]]
    /\ QbSet(p, IF refused # {} THEN Thrown(p)
                ELSE [qbProc[p] EXCEPT !.pc = "ensure", !.stage = "path", !.next = "entities"])
    /\ UNCHANGED <<qbSettings, qbSecret, qbIssued, qbExpired, qbCookie, qbGrants,
                   qbBooks, qbExcused, qbRaced, qbQueue, qbBudget>>

\* Either form of the tax page, with an id the user typed into it or into the other.
\* recoverQuickBooksPayment for a customer reads the realm before it looks for
\* the tag; a vendor payment and a journal adjustment read it again afterwards.
TaxWrite(p, type, id) ==
    /\ p \in QbDesks /\ QbAt(p, "idle") /\ QbSpend("write")
    /\ QbSet(p, [QbIdle EXCEPT !.pc = "ensure", !.tag = <<type, id>>,
                               !.next = IF type = "Payment" THEN "hold" ELSE "find"])
    /\ QbProcOnly
-----------------------------------------------------------------------------
QbInit ==
    /\ qbBudget \in QbBudgets
    /\ IF qbBudget.start = NoRealm
       THEN qbSettings = Disconnected /\ qbSecret = 0 /\ qbIssued = <<>>
       ELSE /\ qbSettings = [connected |-> TRUE, realm |-> qbBudget.start, pull |-> "idle"]
            /\ qbSecret = 1 /\ qbIssued = <<qbBudget.start>>
    /\ qbExpired = {} /\ qbCookie = 0 /\ qbGrants = 0
    /\ qbChart = NoCodes
    /\ qbBooks = [w \in Realms \X TaggedDocs |-> 0] /\ qbExcused = [d \in TaggedDocs |-> 0]
    /\ qbRaced = {}
    /\ qbProc = [p \in QbProcs |-> QbIdle]
    /\ qbQueue = 0

\* The steps a process takes by itself once it has begun.
QbProceed(p) ==
    \/ p = QbAdmin /\ (ExchangeCode \/ SaveConnected \/ LoadSettings \/ SaveSettings
                        \/ HealSettings \/ EnqueuePull)
    \/ p = QbAdmin /\ MarkPull(p, "markFailure", "error")
    \/ p \in QbJobs /\ (MarkPull(p, "markError", "error") \/ MarkPull(p, "markSuccess", "success"))
    \/ EnsureFresh(p) \/ RenewLoad(p) \/ RenewAsk(p) \/ RenewSave(p)
    \/ RefusedRequest(p) \/ ReadAnswered(p) \/ Unavailable(p) \/ Posted(p)
    \/ TakePull(p) \/ WriteChart(p)
    \/ \E active \in SUBSET QbAccounts : ReadChart(p, active)

QbNext ==
    \/ StartConnect \/ DisconnectQuickBooks \/ SetQuickbooksSettings \/ OAuthStatus \/ QueuePull
    \/ \E g \in 1 .. qbGrants, r \in Realms \cup {NoRealm} : QuickBooksCallback(g, r)
    \/ \E t \in QbTokens : ExpireToken(t)
    \/ \E p \in QbDesks, type \in DocTypes, id \in QbTags : TaxWrite(p, type, id)
    \/ \E p \in QbProcs : QbProceed(p)
-----------------------------------------------------------------------------
(* Properties. *)

QbState ==
    [pc : {"idle", "exchange", "saveSecret", "loadConnected", "saveConnected",
           "loadDisconnected", "saveDisconnected", "heal", "enqueue", "markFailure",
           "ensure", "renewLoad", "renewAsk", "renewSave", "send", "readChart",
           "writeChart", "markError", "markSuccess"},
     doc : [connected : BOOLEAN, realm : Realms \cup {NoRealm}, pull : PullStatus],
     realm : Realms \cup {NoRealm}, stage : {"path", "call", "attempt"},
     token : QbTokens, path : Realms \cup {NoRealm}, tries : 0 .. MaxAttempts,
     renewed : BOOLEAN, old : QbTokens,
     next : {"done", "heal", "hold", "find", "post", "accounts", "entities"},
     tag : TaggedDocs \cup {NoTag}, found : Realms \cup {NoRealm},
     held : Realms \cup {NoRealm}, codes : [QbAccounts -> QbCodes \cup {NoCode}]]
QbTypeOK ==
    /\ qbSettings \in [connected : BOOLEAN, realm : Realms \cup {NoRealm}, pull : PullStatus]
    /\ qbIssued \in Seq(Realms) /\ Len(qbIssued) <= MaxTokensQb
    /\ qbSecret \in 0 .. Len(qbIssued) /\ qbExpired \subseteq 1 .. Len(qbIssued)
    /\ qbGrants \in Nat /\ qbCookie \in 0 .. qbGrants
    /\ qbChart \in [QbAccounts -> QbCodes \cup {NoCode}]
    /\ qbBooks \in [Realms \X TaggedDocs -> Nat] /\ qbExcused \in [TaggedDocs -> Nat]
    /\ qbRaced \subseteq {"refresh", "environment"} /\ qbQueue \in Nat
    /\ qbProc \in [QbProcs -> QbState]
    /\ qbBudget \in [start : Realms \cup {NoRealm}, grants : Nat, admin : Nat,
                     pull : Nat, write : Nat, fault : Nat]

\* Between two requests of the administrator the settings say what the secret
\* can do: connected exactly if there is one, and to its realm, whatever tabs
\* connected and whatever jobs refreshed meanwhile. Only a refresh that saved
\* over a connect or a disconnect it had not seen breaks this
\* (quickbooksService.ts:346); and a change of the environment from the settings
\* page (SettingsPage.tsx:569) clears the realm until the status page heals it.
SecretBacksSettings ==
    QbAt(QbAdmin, "idle") /\ "refresh" \notin qbRaced =>
        /\ qbSettings.connected <=> qbSecret # 0
        /\ qbSettings.realm = IF "environment" \in qbRaced THEN NoRealm ELSE RealmOf(qbSecret)

\* A client request id stands for at most one document of a type in a company's
\* books, however often the desk sends it again after an error and whatever it sends
\* under the same id from the other form; each further one is explained by a post
\* that was applied though its answer was lost, or by a look-up that another
\* company's books answered (quickbooksTaxService.ts:599, 725). Of two types it may
\* well stand for two: each look-up reads the documents of its own type.
OneDocumentPerTag ==
    \A r \in Realms, d \in TaggedDocs : qbBooks[<<r, d>>] <= 1 + qbExcused[d]

\* An account keeps its code, which ledger entries refer to, and no two share
\* one, from pull to pull, whatever subset of the accounts is active.
CodesAreKept ==
    [][/\ \A a \in QbAccounts : qbChart[a] # NoCode => qbChart'[a] = qbChart[a]
       /\ \A a, b \in QbAccounts : a # b /\ qbChart'[a] # NoCode =>
              qbChart'[a] # qbChart'[b] /\ qbChart'[a] \notin SystemCodes]_qbVars

\* A pull that is shown as running comes to an end, with success or an error.
PullEnds == qbSettings.pull = "running" ~> qbSettings.pull # "running"

QbFairness == \A p \in QbProcs : WF_qbVars(QbProceed(p))
QbSpec == QbInit /\ [][QbNext]_qbVars /\ QbFairness
=============================================================================
