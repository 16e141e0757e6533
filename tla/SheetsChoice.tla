---------------------------- MODULE SheetsChoice ----------------------------
(***************************************************************************)
(* Which sheet the browser says is in use.  The server resolves the active  *)
(* container itself (Active); the browser decides again, from the same      *)
(* document, in three places: the settings slice and the settings card      *)
(* (settingsSlice.ts, googleSheetsStatus.ts, GoogleSheetsIntegrationCard),  *)
(* the sync of the point-of-sale page (posSlice.ts), and the test whether   *)
(* that page offers a sync (PosPage.tsx).                                   *)
(*                                                                         *)
(* The interface gives every source and profile one name, POS DATA SHEET.   *)
(***************************************************************************)
EXTENDS SheetsSettings

\* A connector with a sheet and a mapping; the enabled flag is not looked at.
Usable(c) == c.map # SameMap
FirstOf(seq, Test(_)) ==
    LET good == {i \in DOMAIN seq : Test(seq[i])}
    IN  {seq[i] : i \in {j \in good : \A k \in good : j <= k}}
Named(half) == {c \in {half.held[i] : i \in DOMAIN half.held} : c.id = half.activeId}
-----------------------------------------------------------------------------
(* The sync of the point-of-sale page.                                     *)

\* Mutant: the first usable container, active or not.
FirstUsable(half) == FirstOf(half.held, Usable)

\* pickActiveOauthSource, pickActiveSharedProfile: the active container if it is
\* usable, else the first that is.
PickActive(half) ==
    LET named == {c \in Named(half) : Usable(c)}
    IN  IF named # {} THEN named ELSE FirstOf(half.held, Usable)

\* The request that syncGoogleSheet makes of the settings it has fetched: the
\* active kind's container; with no active kind a source, else a profile;
\* without any, the server is to decide.
SyncRequest(doc) ==
    LET kinds == CASE doc.active \in Kinds -> {doc.active}
                   [] doc.active = NoKind ->
                          IF PickActive(doc.half["oauth"]) # {} THEN {"oauth"} ELSE {"shared"}
        found == UNION {{<<k, c.id>> : c \in PickActive(doc.half[k])} : k \in kinds}
    IN  IF found = {} THEN [NoRequest EXCEPT !.op = "import"]
        ELSE LET ref == CHOOSE r \in found : TRUE
             IN  [NoRequest EXCEPT !.op = "import", !.kind = ref[1], !.id = ref[2]]

\* The page offers the sync: a usable connector of the active kind, or (the
\* older view of the settings) any source or an enabled profile.
HasUsable(half) == \E i \in DOMAIN half.held : Usable(half.held[i])
SyncConfigured(doc) ==
    \/ doc.active \in Kinds /\ HasUsable(doc.half[doc.active])
    \/ HasUsable(doc.half["oauth"])
    \/ doc.active = NoKind /\ HasUsable(doc.half["shared"])
    \/ \E i \in DOMAIN doc.half["shared"].held :
           LET c == doc.half["shared"].held[i] IN Usable(c) /\ c.on
-----------------------------------------------------------------------------
(* The settings card.                                                      *)

\* The slice knows two modes; no active kind counts as the shared one.
ModeOf(doc) == IF doc.active = "oauth" THEN "oauth" ELSE "shared"

\* pickPreferredOAuthSource, pickPreferredSharedProfile: the active container,
\* else the first.
Preferred(half) ==
    IF Named(half) # {} THEN Named(half) ELSE FirstOf(half.held, LAMBDA c : TRUE)

\* A source is ready whatever its enabled flag, if the account is connected; a
\* profile if it is enabled.
StatusOf(doc, kind) ==
    LET shown == Preferred(doc.half[kind]) IN
    CASE kind = "oauth" /\ ~doc.connected -> "not_connected"
      [] kind = "oauth" /\ doc.connected ->
             IF \E c \in shown : Usable(c) THEN "ready" ELSE "incomplete"
      [] kind = "shared" /\ shown = {} -> "not_connected"
      [] kind = "shared" /\ shown # {} ->
             IF \E c \in shown : Usable(c) /\ c.on THEN "ready" ELSE "incomplete"

\* getAuthorityState: of the mode's kind, if it has a container at all.
AuthorityState(doc) ==
    CASE StatusOf(doc, ModeOf(doc)) = "ready" -> "active_ready"
      [] StatusOf(doc, ModeOf(doc)) # "ready" ->
             IF Preferred(doc.half[ModeOf(doc)]) # {} THEN "paused" ELSE "none"

\* What "Syncing via ..." names.
CardShows(doc) ==
    IF AuthorityState(doc) = "active_ready" THEN Preferred(doc.half[ModeOf(doc)]) ELSE {}

\* The state of the card's main button; confirmed is the mapping the user has
\* confirmed here or which was stored as confirmed.
ReadinessOf(doc, confirmed) ==
    CASE AuthorityState(doc) = "none" -> "not_configured"
      [] AuthorityState(doc) = "paused" -> "invalid"
      [] AuthorityState(doc) = "active_ready" ->
             LET c == CHOOSE c \in CardShows(doc) : TRUE IN
             IF c.map \notin GoodMaps THEN "invalid"
             ELSE IF c.map = confirmed THEN "ready" ELSE "needs_review"

\* Confirming a mapping commits it again for the container shown, and activates.
ConfirmRequest(doc) ==
    LET c == CHOOSE c \in CardShows(doc) : TRUE
    IN  [op |-> "commit", kind |-> ModeOf(doc), id |-> c.id, map |-> c.map, flag |-> TRUE]
-----------------------------------------------------------------------------
(* Properties.                                                             *)

\* Whatever order sources and profiles were made, moved, activated and dropped
\* in: when the server would sync a container by itself, the point-of-sale page
\* offers a sync and its request resolves to that very container, and the card
\* of a connected account shows it.  What a card shows as synced is, unless a
\* whole write raced or the connector is switched off, what the server resolves,
\* and confirming its mapping names the same container and keeps its mapping.
ClientsAgree ==
    /\ \A c \in Active(sgDoc) :
          /\ SyncConfigured(sgDoc)
          /\ ByRef(sgDoc, SyncRequest(sgDoc).kind, SyncRequest(sgDoc).id) = {c}
          /\ (sgDoc.active = "oauth" => sgDoc.connected) => CardShows(sgDoc) = {c}
    /\ sgDoc.active \in Kinds /\ ~sgRaced =>
          \A c \in CardShows(sgDoc) :
             /\ Active(sgDoc) = {d \in {c} : d.on}
             /\ ReadinessOf(sgDoc, c.map) = "ready"
             /\ CommittedAs(sgDoc, ConfirmRequest(sgDoc), 0)
                   = [sgDoc EXCEPT !.half[sgDoc.active].held =
                         [i \in DOMAIN @ |-> IF @[i] = c THEN [c EXCEPT !.on = TRUE] ELSE @[i]]]
=============================================================================
