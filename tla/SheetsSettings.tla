--------------------------- MODULE SheetsSettings ---------------------------
(***************************************************************************)
(* The Google Sheets part of a company's IntegrationSettings document and   *)
(* the handlers that change it: googleSheetsController.ts (sources and      *)
(* profiles, activate, stage and commit, debug), settingsController.ts      *)
(* (disconnect, reset), integrationsSheetsController.ts (the older routes,  *)
(* delete), the end of a Google sign-in (googleController.ts) and the       *)
(* clean-up script (googleSheetsDbCleanup.ts).                              *)
(*                                                                         *)
(* Every handler loads the document, waits for Google, and saves.  What a   *)
(* save writes depends on how the handler assigned: single fields, one      *)
(* place in an array (checked against the document's __v), or the whole     *)
(* subtree (unchecked).                                                     *)
(*                                                                         *)
(* A source (oauth) and a profile (shared) are both a container; each has   *)
(* its one connector, pos_daily.  Of a connector the model keeps whether it *)
(* is enabled and how its columns are mapped.                               *)
(***************************************************************************)
EXTENDS Naturals, Sequences, FiniteSets

CONSTANTS
    SgProcs,    \* requests under way: administrators, imports, the script
    Maps,       \* column mappings a user sends
    GoodMaps,   \* those with every required target and none twice
    SgScripts   \* bounds: the document at first, the operations and how many follow

Kinds == {"oauth", "shared"}
NoKind == "none"
SameMap == "same"   \* a request without a mapping
SgOps == {"activate", "create", "update", "commit", "stage", "debug", "import", "reset",
          "delete", "legacy", "verify", "connect", "disconnect", "status", "cleanup"}

ASSUME SheetsSettingsAssumption ==
    /\ GoodMaps \subseteq Maps /\ SameMap \notin Maps
    /\ \A s \in SgScripts : s.ops \subseteq SgOps /\ s.left \in Nat

\* How many containers a document has.
Containers(doc) == Cardinality({w \in Kinds \X (1 .. 9) : w[2] \in DOMAIN doc.half[w[1]].held})

\* The document at first is one that the handlers have saved: no id given twice, none
\* active that was never given.
ASSUME SheetsStartAssumption ==
    \A s \in SgScripts :
        /\ \A k \in Kinds :
              LET held == s.start.half[k].held
              IN  /\ \A i, j \in DOMAIN held : /\ held[i].id \in 1 .. Containers(s.start)
                                               /\ held[i].id = held[j].id => i = j
                  /\ s.start.half[k].activeId <= Containers(s.start)
        /\ s.start \in
              [active : Kinds \cup {NoKind}, connected : BOOLEAN,
               half : [Kinds -> [on : BOOLEAN, activeId : Nat,
                                 held : Seq([id : Nat, on : BOOLEAN, map : GoodMaps])]]]
        /\ s.start.active \in Kinds =>
              LET half == s.start.half[s.start.active]
              IN  half.on /\ \E i \in DOMAIN half.held : half.held[i].id = half.activeId

VARIABLES
    sgDoc,     \* the stored document's googleSheets
    sgVersion, \* its __v
    sgMade,    \* containers created so far; an id is a number
    sgSecret,  \* the google_oauth tokens; 0 without
    sgTokens,  \* tokens Google has issued
    sgRaced,   \* history: a save undid, or landed on, another's save it had not read
    sgProc,    \* progress of each request
    sgScript   \* what may still be asked

sgVars == <<sgDoc, sgVersion, sgMade, sgSecret, sgTokens, sgRaced, sgProc, sgScript>>

Unset == [on |-> FALSE, activeId |-> 0, held |-> <<>>]
Cleared == [active |-> NoKind, connected |-> FALSE, half |-> [k \in Kinds |-> Unset]]
NoRequest == [op |-> "none", kind |-> NoKind, id |-> 0, map |-> SameMap, flag |-> FALSE]

\* doc is the document the request loaded; behind whether another save came
\* after that, wiped whether one of those wrote a whole subtree; id and map are
\* those of the container that was resolved.
SgIdle == [pc |-> "idle", req |-> NoRequest, doc |-> Cleared, version |-> 0, id |-> 0,
           map |-> SameMap, behind |-> FALSE, wiped |-> FALSE]

SgAt(p, pc) == sgProc[p].pc = pc
SgSet(p, state) == sgProc' = [sgProc EXCEPT ![p] = state]
SgOp(p) == sgProc[p].req.op
SgDone(p) == SgSet(p, SgIdle)
SgQuiet == UNCHANGED <<sgDoc, sgVersion, sgMade, sgRaced, sgScript>>
-----------------------------------------------------------------------------
(* Looking a container up.                                                 *)

\* The place of a container; 0 when there is none.
Place(held, id) ==
    IF \E i \in DOMAIN held : held[i].id = id
    THEN CHOOSE i \in DOMAIN held : held[i].id = id
    ELSE 0

\* resolveSheetsConfigByRef: the named container or else the active one, which
\* must exist and have its connector enabled.
ByRef(doc, kind, id) ==
    LET half == doc.half[kind]
        at == Place(half.held, IF id # 0 THEN id ELSE half.activeId)
    IN  IF at = 0 THEN {} ELSE {c \in {half.held[at]} : c.on}

\* resolveActiveSheetsConfig: of the active kind, if that is enabled.
Active(doc) ==
    IF doc.active \in Kinds /\ doc.half[doc.active].on /\ doc.half[doc.active].activeId # 0
    THEN ByRef(doc, doc.active, 0)
    ELSE {}

\* resolveContainerForIntegration is lenient: a name it does not know stands for
\* the active container, else the first, else (0) one to be made.
Fallback(half, id) ==
    CASE Place(half.held, id) # 0 -> Place(half.held, id)
      [] Place(half.held, id) = 0 /\ Place(half.held, half.activeId) # 0 ->
             Place(half.held, half.activeId)
      [] Place(half.held, id) = 0 /\ Place(half.held, half.activeId) = 0 ->
             IF half.held = <<>> THEN 0 ELSE 1

\* Mutant: the connector's own mapping wins over the one sent.
KeptMap(req, half) ==
    LET at == IF req.op = "update" THEN Place(half.held, req.id) ELSE Fallback(half, req.id)
    IN  IF at = 0 THEN req.map ELSE half.held[at].map

\* The mapping that a request has checked against the sheet: the one sent, or
\* the one the connector has.
CheckedMap(req, half) ==
    LET at == IF req.op = "update" THEN Place(half.held, req.id) ELSE Fallback(half, req.id)
    IN  IF req.map # SameMap \/ at = 0 THEN req.map ELSE half.held[at].map
-----------------------------------------------------------------------------
(* What a save writes.                                                     *)

\* A field is written only if its value differs from the loaded one.
Written(stored, loaded, new) == IF new = loaded THEN stored ELSE new
Fields(stored, loaded, new) ==
    [active |-> Written(stored.active, loaded.active, new.active),
     connected |-> Written(stored.connected, loaded.connected, new.connected),
     half |-> [k \in Kinds |->
         [on |-> Written(stored.half[k].on, loaded.half[k].on, new.half[k].on),
          activeId |-> Written(stored.half[k].activeId, loaded.half[k].activeId,
                               new.half[k].activeId),
          held |-> stored.half[k].held]]]

\* Mutant: the commit activates the container that was asked for.
CommittedAsNamed(doc, req, id) ==
    [doc EXCEPT !.active = req.kind, !.half[req.kind].on = TRUE,
                !.half[req.kind].activeId = IF req.id # 0 THEN req.id ELSE id]

\* Activating a container: activateGoogleSheets, and a commit with activate set.
ActivatedAs(doc, req, id) ==
    [doc EXCEPT !.active = req.kind, !.half[req.kind].on = TRUE, !.half[req.kind].activeId = id]

\* A new source or profile enables its kind and becomes its active container if
\* there is none; the active kind stays.
CreatedIn(doc, kind, id) ==
    [doc EXCEPT !.half[kind].on = TRUE, !.half[kind].activeId = IF @ = 0 THEN id ELSE @]

\* A commit writes the connector, enabled, into its container or into a new one.
CommittedAs(doc, req, new) ==
    LET half == doc.half[req.kind]
        at == Fallback(half, req.id)
        id == IF at = 0 THEN new ELSE half.held[at].id
        connector == [id |-> id, on |-> TRUE, map |-> req.map]
        kept == [doc EXCEPT !.half[req.kind].held =
                     IF at = 0 THEN Append(@, connector) ELSE [@ EXCEPT ![at] = connector]]
    IN  IF req.flag THEN ActivatedAs(kept, req, id) ELSE kept

\* cleanupGoogleSheetsConfig: an active id that names nothing is cleared, a kind
\* with containers is enabled, and the active kind is the one that is ready.
Cleaned(doc) ==
    LET half == [k \in Kinds |->
                    [doc.half[k] EXCEPT
                        !.on = @ \/ doc.half[k].held # <<>>,
                        !.activeId = IF Place(doc.half[k].held, @) = 0 THEN 0 ELSE @]]
        Ready(k) == half[k].activeId # 0 /\ half[k].held[Place(half[k].held, half[k].activeId)].on
        ready == {k \in Kinds : Ready(k)}
    IN  [doc EXCEPT !.half = half,
                    !.active = IF @ \in ready THEN @
                               ELSE IF Cardinality(ready) = 1 THEN CHOOSE k \in ready : TRUE
                               ELSE NoKind]
-----------------------------------------------------------------------------
(* The steps of a request.                                                 *)

\* The first thing a handler does: load the document, resolve a configuration,
\* or touch the secret.
FirstStep(op) ==
    CASE op \in {"debug", "import"} -> "resolve"
      [] op = "connect" -> "exchange"
      [] op = "disconnect" -> "drop"
      [] op = "status" -> "peek"
      [] op \notin {"debug", "import", "connect", "disconnect", "status"} -> "load"
Begin(p, req) ==
    /\ SgAt(p, "idle") /\ req.op \in sgScript.ops /\ sgScript.left > 0
    /\ sgScript' = [sgScript EXCEPT !.left = @ - 1]
    /\ SgSet(p, [SgIdle EXCEPT !.pc = FirstStep(req.op), !.req = req])
    /\ UNCHANGED <<sgDoc, sgVersion, sgMade, sgSecret, sgTokens, sgRaced>>

\* getOrCreateSettings; an update of a container that is not there ends at once.
AfterLoad(req) ==
    CASE req.op = "activate" -> "resolve"
      [] req.op \in {"create", "commit", "stage", "verify"} -> "read"
      [] req.op = "update" -> IF Place(sgDoc.half[req.kind].held, req.id) = 0 THEN "done" ELSE "read"
      [] req.op \in {"reset", "legacy", "cleanup", "connect"} -> "save"
      [] req.op = "delete" -> "drop"
SgLoad(p) ==
    LET req == sgProc[p].req IN
    /\ SgAt(p, "load")
    /\ SgSet(p, IF AfterLoad(req) = "done" THEN SgIdle
                ELSE [sgProc[p] EXCEPT
                         !.pc = AfterLoad(req), !.doc = sgDoc, !.version = sgVersion,
                         !.map = IF req.kind \in Kinds
                                 THEN CheckedMap(req, sgDoc.half[req.kind]) ELSE SameMap])
    /\ SgQuiet /\ UNCHANGED <<sgSecret, sgTokens>>

\* activate, debug and import read the document (again) to find the connector;
\* an import without a kind and a debug without a name take the active one.
Resolve(p) ==
    LET req == sgProc[p].req
        active == (req.op = "import" /\ req.kind = NoKind) \/ (req.op = "debug" /\ req.id = 0)
        found == IF active THEN Active(sgDoc) ELSE ByRef(sgDoc, req.kind, req.id)
    IN
    /\ SgAt(p, "resolve")
    /\ \/ found = {} /\ SgDone(p)
       \/ \E c \in found :
             SgSet(p, [sgProc[p] EXCEPT !.pc = "read", !.id = c.id, !.map = c.map,
                                        !.req.kind = IF active THEN sgDoc.active ELSE @])
    /\ SgQuiet /\ UNCHANGED <<sgSecret, sgTokens>>

\* The sample of the sheet: an OAuth read needs the tokens, any read may fail.
HasTokens(kind) == kind # "oauth" \/ sgSecret # 0
SampleFails(p) ==
    /\ SgAt(p, "read") /\ SgOp(p) # "verify" /\ SgDone(p)
    /\ SgQuiet /\ UNCHANGED <<sgSecret, sgTokens>>

\* Columns that the sheet lacks are a warning; a required target that is not
\* mapped, or one mapped twice, ends the request.
Compatible(map) == map \in GoodMaps
ReadSample(p) ==
    LET s == sgProc[p] IN
    /\ SgAt(p, "read") /\ s.req.op \in {"activate", "create", "update", "commit"}
    /\ HasTokens(s.req.kind)
    /\ SgSet(p, IF Compatible(s.map) THEN [s EXCEPT !.pc = "save"] ELSE SgIdle)
    /\ SgQuiet /\ UNCHANGED <<sgSecret, sgTokens>>

\* stage reads the sample and reports on it; nothing is kept.
StageChange(p) ==
    /\ SgAt(p, "read") /\ SgOp(p) = "stage" /\ HasTokens(sgProc[p].req.kind)
    /\ SgDone(p)
    /\ SgQuiet /\ UNCHANGED <<sgSecret, sgTokens>>

\* verifySharedSheetsConfig ends without a sheet to look at; else it saves what
\* it found, or that it found nothing.
VerifyOlder(p) ==
    /\ SgAt(p, "read") /\ SgOp(p) = "verify"
    /\ SgDone(p) \/ SgSet(p, [sgProc[p] EXCEPT !.pc = "save"])
    /\ SgQuiet /\ UNCHANGED <<sgSecret, sgTokens>>

\* A debug keeps its result in lastDebugResult, which decides nothing; errors of
\* the read are part of the result.
DebugConnector(p) ==
    /\ SgAt(p, "read") /\ SgOp(p) = "debug"
    /\ SgDone(p)
    /\ SgQuiet /\ UNCHANGED <<sgSecret, sgTokens>>

\* The import reads its rows with the mapping it resolved, then notes the time.
ReadRows(p) ==
    /\ SgAt(p, "read") /\ SgOp(p) = "import" /\ HasTokens(sgProc[p].req.kind)
    /\ SgSet(p, [sgProc[p] EXCEPT !.pc = "rows"])
    /\ SgQuiet /\ UNCHANGED <<sgSecret, sgTokens>>
MarkImported(p) ==
    /\ SgAt(p, "rows") /\ SgDone(p)
    /\ SgQuiet /\ UNCHANGED <<sgSecret, sgTokens>>

\* Every other request that has loaded the document is behind now.
Overtaken(p, whole) ==
    [q \in SgProcs |->
        IF q = p THEN SgIdle
        ELSE IF sgProc[q].pc \in {"resolve", "read", "drop", "save"}
             THEN [sgProc[q] EXCEPT !.behind = TRUE, !.wiped = @ \/ whole]
             ELSE sgProc[q]]
Store(p, doc, whole) ==
    /\ sgDoc' = doc
    /\ sgProc' = Overtaken(p, whole)
    /\ sgRaced' = (sgRaced \/ (whole /\ sgProc[p].behind) \/ sgProc[p].wiped)
    /\ UNCHANGED <<sgSecret, sgTokens>>

SaveActivated(p) ==
    LET s == sgProc[p] IN
    /\ SgAt(p, "save") /\ s.req.op = "activate"
    /\ Store(p, Fields(sgDoc, s.doc, ActivatedAs(s.doc, s.req, s.id)), FALSE)
    /\ UNCHANGED <<sgVersion, sgMade, sgScript>>

\* A push goes to the end of whatever the array is, and moves __v.
SaveCreated(p) ==
    LET s == sgProc[p]
        kind == s.req.kind
        new == [id |-> sgMade + 1, on |-> s.req.flag, map |-> s.map]
    IN
    /\ SgAt(p, "save") /\ s.req.op = "create"
    /\ Store(p, [Fields(sgDoc, s.doc, CreatedIn(s.doc, kind, sgMade + 1))
                    EXCEPT !.half[kind].held = Append(@, new)], FALSE)
    /\ sgVersion' = sgVersion + 1 /\ sgMade' = sgMade + 1
    /\ UNCHANGED sgScript

\* The fields of a connector that an update writes.
Patched(connector, old, new) ==
    [connector EXCEPT !.on = Written(@, old.on, new.on), !.map = Written(@, old.map, new.map)]

\* An update writes the fields that differ at the place it loaded; __v must not
\* have moved.  Where a reset has emptied the array, MongoDB makes up an element
\* at that place: what follows is not modelled, and no request begins any more.
SaveUpdated(p) ==
    LET s == sgProc[p]
        kind == s.req.kind
        at == Place(s.doc.half[kind].held, s.req.id)
        old == s.doc.half[kind].held[at]
        new == [old EXCEPT !.on = s.req.flag, !.map = s.map]
    IN
    /\ SgAt(p, "save") /\ s.req.op = "update"
    /\ IF s.version # sgVersion
       THEN SgDone(p) /\ SgQuiet /\ UNCHANGED <<sgSecret, sgTokens>>
       ELSE /\ IF at \in DOMAIN sgDoc.half[kind].held
               THEN /\ Store(p, [sgDoc EXCEPT !.half[kind].held[at] = Patched(@, old, new)],
                             FALSE)
                    /\ UNCHANGED sgScript
               ELSE /\ Store(p, sgDoc, FALSE)
                    /\ sgScript' = [sgScript EXCEPT !.left = 0]
            /\ UNCHANGED <<sgVersion, sgMade>>

\* These write the subtree, or both halves of it, whole; none looks at __v.
SaveWhole(p, op, doc) ==
    /\ SgAt(p, "save") /\ SgOp(p) = op
    /\ Store(p, doc, TRUE)
    /\ UNCHANGED <<sgVersion, sgScript>>
SaveCommitted(p) ==
    LET s == sgProc[p] IN
    /\ SaveWhole(p, "commit", CommittedAs(s.doc, s.req, sgMade + 1))
    /\ sgMade' = IF Fallback(s.doc.half[s.req.kind], s.req.id) = 0 THEN sgMade + 1 ELSE sgMade
SaveDeleted(p) == SaveWhole(p, "delete", Cleared) /\ UNCHANGED sgMade
SaveReset(p) ==
    /\ SaveWhole(p, "reset", [Cleared EXCEPT !.active =
                                 Written(sgDoc.active, sgProc[p].doc.active, NoKind)])
    /\ UNCHANGED sgMade
\* The routes for sheets of the older shape assign fields that the schema drops,
\* and then the subtree as they loaded it.
SaveOlder(p) ==
    /\ SgOp(p) \in {"legacy", "verify"}
    /\ SaveWhole(p, SgOp(p), sgProc[p].doc) /\ UNCHANGED sgMade
SaveCleaned(p) == SaveWhole(p, "cleanup", Cleaned(sgProc[p].doc)) /\ UNCHANGED sgMade
-----------------------------------------------------------------------------
(* The tokens.                                                             *)

\* googleSheetsCallback: the tokens first, then the settings.
Exchange(p) ==
    /\ SgAt(p, "exchange")
    /\ sgTokens' = sgTokens + 1 /\ sgSecret' = sgTokens + 1
    /\ SgSet(p, [sgProc[p] EXCEPT !.pc = "load"])
    /\ SgQuiet
SaveConnection(p) ==
    LET s == sgProc[p] IN
    /\ SgAt(p, "save") /\ s.req.op = "connect"
    /\ Store(p, Fields(sgDoc, s.doc, [s.doc EXCEPT !.connected = TRUE, !.half["oauth"].on = TRUE]),
             FALSE)
    /\ UNCHANGED <<sgVersion, sgMade, sgScript>>

\* A delete and a disconnect remove the tokens; what the disconnect then assigns
\* are fields of the older shape, which the schema drops: the settings stay.
DropSecret(p) ==
    /\ SgAt(p, "drop")
    /\ sgSecret' = 0
    /\ SgSet(p, IF SgOp(p) = "delete" THEN [sgProc[p] EXCEPT !.pc = "save"] ELSE SgIdle)
    /\ SgQuiet /\ UNCHANGED sgTokens

\* The status page writes the tokens it read back, with the account's address.
PeekSecret(p) ==
    /\ SgAt(p, "peek")
    /\ SgSet(p, IF sgDoc.connected /\ sgSecret # 0
                THEN [sgProc[p] EXCEPT !.pc = "back", !.id = sgSecret] ELSE SgIdle)
    /\ SgQuiet /\ UNCHANGED <<sgSecret, sgTokens>>
WriteAddress(p) ==
    /\ SgAt(p, "back")
    /\ sgSecret' \in {sgSecret, IF sgSecret = 0 THEN 0 ELSE sgProc[p].id}
    /\ SgDone(p)
    /\ SgQuiet /\ UNCHANGED sgTokens
-----------------------------------------------------------------------------
Ids == 0 .. sgMade + 1
Requests ==
    [op : {"activate", "debug", "import", "stage"}, kind : Kinds, id : Ids, map : {SameMap},
     flag : {FALSE}]
    \cup [op : {"update"}, kind : Kinds, id : Ids, map : Maps \cup {SameMap}, flag : BOOLEAN]
    \cup [op : {"commit"}, kind : Kinds, id : Ids, map : Maps, flag : BOOLEAN]
    \cup [op : {"create"}, kind : Kinds, id : {0}, map : Maps, flag : BOOLEAN]
    \cup [op : {"import", "reset", "delete", "legacy", "verify", "connect", "disconnect",
                "status", "cleanup"},
          kind : {NoKind}, id : {0}, map : {SameMap}, flag : {FALSE}]

SgInit ==
    /\ sgScript \in SgScripts
    /\ sgDoc = sgScript.start
    /\ sgVersion = 0
    /\ sgMade = Containers(sgDoc)
    /\ sgSecret = 1 /\ sgTokens = 1
    /\ sgRaced = FALSE
    /\ sgProc = [p \in SgProcs |-> SgIdle]

SgStep(p) ==
    \/ SgLoad(p) \/ Resolve(p) \/ SampleFails(p) \/ ReadSample(p) \/ StageChange(p)
    \/ VerifyOlder(p) \/ DebugConnector(p) \/ ReadRows(p) \/ MarkImported(p)
    \/ SaveActivated(p) \/ SaveCreated(p) \/ SaveUpdated(p) \/ SaveCommitted(p)
    \/ SaveDeleted(p) \/ SaveReset(p) \/ SaveOlder(p) \/ SaveCleaned(p)
    \/ Exchange(p) \/ SaveConnection(p) \/ DropSecret(p) \/ PeekSecret(p) \/ WriteAddress(p)
SgNext == \E p \in SgProcs : SgStep(p) \/ \E req \in Requests : Begin(p, req)
SgSpec == SgInit /\ [][SgNext]_sgVars
-----------------------------------------------------------------------------
(* Properties.                                                             *)

Container == [id : 0 .. sgMade, on : BOOLEAN, map : Maps]
Document(doc) ==
    /\ doc.active \in Kinds \cup {NoKind} /\ doc.connected \in BOOLEAN
    /\ \A k \in Kinds : /\ doc.half[k].on \in BOOLEAN /\ doc.half[k].activeId \in 0 .. sgMade
                        /\ doc.half[k].held \in Seq(Container)
SgTypeOK ==
    /\ Document(sgDoc) /\ sgVersion \in Nat /\ sgSecret \in 0 .. sgTokens
    /\ sgRaced \in BOOLEAN
    /\ \A p \in SgProcs : LET s == sgProc[p] IN
          /\ s.pc \in {"idle", "load", "resolve", "read", "save", "rows", "exchange", "drop",
                       "peek", "back"}
          /\ s.req.op \in SgOps \cup {"none"} /\ Document(s.doc)
          /\ s.map \in Maps \cup {SameMap} /\ s.behind \in BOOLEAN /\ s.wiped \in BOOLEAN

\* The active kind is enabled and its active id names a source or profile that
\* exists, after any mixture of creates, updates, activations, commits (also
\* ones that name an unknown source), resets, deletes, sign-ins and clean-ups;
\* only a whole write over a document that had moved on, or a save that began
\* before one, breaks it (googleSheetsController.ts:1585, settingsController.ts:604).
ActiveNamesSource ==
    sgDoc.active # NoKind /\ ~sgRaced =>
        /\ sgDoc.half[sgDoc.active].on
        /\ Place(sgDoc.half[sgDoc.active].held, sgDoc.half[sgDoc.active].activeId) # 0

\* However saves overlap, each connector's mapping has the required targets, none
\* twice, and so has the mapping that an import under way reads its rows with.
ConnectorsAreMapped ==
    /\ \A k \in Kinds : \A i \in DOMAIN sgDoc.half[k].held : sgDoc.half[k].held[i].map \in GoodMaps
    /\ \A p \in SgProcs : SgAt(p, "rows") => sgProc[p].map \in GoodMaps
=============================================================================
