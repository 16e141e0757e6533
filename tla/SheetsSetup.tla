------------------------------ MODULE SheetsSetup ------------------------------
(***************************************************************************)
(* The wizard that sets up a sheet for import: GoogleSheetsSetupInline.tsx. *)
(* It lists spreadsheets, loads the tabs of the one selected and previews a *)
(* tab, each by a request of its own that effects send whenever what they   *)
(* watch has changed; the one flag busy is lowered by whichever ends first. *)
(* Saving captures the selection and goes through four calls to the server: *)
(* one judges the mapping, two read the tab, and none judges them together. *)
(***************************************************************************)
EXTENDS Integers, Sequences, FiniteSets

CONSTANTS
    SuTabs,       \* the tabs of each spreadsheet, in order
    SuFiles,      \* the spreadsheets Google lists for the signed-in user
    SuMappings,   \* mappings
    SuSuggested,  \* the mapping suggested for each spreadsheet
    SuNormal,     \* each mapping as normalizeMapping leaves it
    SuCompatible, \* <<spreadsheet, tab, mapping>>: the wizard's own checks pass
                  \* against the header of that tab
    SuMatched,    \* mappings the server's match accepts
    SuScripts     \* bounds: what a user may do, how often, what is configured

SuSheets == DOMAIN SuTabs
NoSheet == "none"
NoTab == ""
NoMapping == "empty"
NoHead == [sheet |-> NoSheet, tab |-> NoTab]

\* The lists name spreadsheets that exist; what is configured is one of them, or none.
ASSUME SuAssumption ==
    /\ SuMatched \subseteq SuMappings /\ \A c \in SuCompatible : c[3] \in SuMappings
    /\ SuFiles \in Seq(SuSheets) /\ SuSuggested \in [SuSheets -> SuMappings]
    /\ \A s \in SuScripts :
          /\ s \in [source : {"oauth", "shared"}, config : {s.config}, shared : Seq(SuSheets),
                    ops : {s.ops}, left : Nat]
          /\ \A source \in {"oauth", "shared"} :
                /\ s.config[source].sheet \in SuSheets \cup {NoSheet}
                /\ s.config[source].map \in SuMappings \cup {NoMapping}

VARIABLES
    suForm,     \* the state of the wizard
    suFlights,  \* requests not yet answered
    suSaves,    \* the saves under way
    suShown,    \* history: what the form showed whenever Save was pressed
    suSaved,    \* what was last committed, {} before
    suScript    \* what may still be done

suVars == <<suForm, suFlights, suSaves, suShown, suSaved, suScript>>
-----------------------------------------------------------------------------
(* Effects.                                                                *)

Chosen(sheet, tab) == [sheet |-> sheet, tab |-> tab]
TabTitles(sheet) == {SuTabs[sheet][i] : i \in 1..Len(SuTabs[sheet])}

\* Another spreadsheet: tab, tabs and preview are forgotten.
WithSheet(form, sheet) ==
    [form EXCEPT !.sheet = sheet, !.tab = NoTab, !.tabs = {}, !.head = NoHead, !.key = NoHead]

\* Past the first step a spreadsheet is always one of the list: if not, the first.
AutoSelected(form) ==
    IF form.step >= 1 /\ form.files # <<>>
       /\ \A i \in 1..Len(form.files) : form.files[i] # form.sheet
    THEN WithSheet(form, form.files[1]) ELSE form

AskTabs(sheet) == [kind |-> "tabs", sheet |-> sheet, tab |-> NoTab, empty |-> FALSE]
AskFiles == [kind |-> "files", sheet |-> NoSheet, tab |-> NoTab, empty |-> FALSE]

\* loadPreview remembers whether there was a mapping when it was called.
AskPreview(form) ==
    [kind |-> "preview", sheet |-> form.sheet, tab |-> form.tab, empty |-> form.map = NoMapping]

\* A tab of the list is previewed once for each selection.
PreviewDue(form) ==
    /\ form.step >= 1 /\ form.sheet # NoSheet /\ form.tab \in form.tabs
    /\ form.key # Chosen(form.sheet, form.tab)

\* The wizard takes the state form and its effects run: the tabs of a spreadsheet
\* just selected, and of the one selected instead, then the preview.
Render(form, asked, answered) ==
    LET final == AutoSelected(form)
        changed == form.step # suForm.step \/ form.sheet # suForm.sheet
        tabs == {AskTabs(s) : s \in
                    ({s \in {form.sheet} : form.step >= 1 /\ changed}
                     \cup {s \in {final.sheet} : final.sheet # form.sheet}) \ {NoSheet}}
        preview == {AskPreview(f) : f \in {g \in {final} : PreviewDue(g)}}
    IN  /\ suFlights' = (suFlights \ answered) \cup asked \cup tabs \cup preview
        /\ suForm' = [final EXCEPT !.busy = @ \/ tabs # {} \/ preview # {},
                                   !.key = IF preview = {} THEN @
                                           ELSE Chosen(final.sheet, final.tab)]
-----------------------------------------------------------------------------
(* What a user does.                                                       *)

SuAct(op) ==
    /\ op \in suScript.ops /\ suScript.left > 0
    /\ suScript' = [suScript EXCEPT !.left = @ - 1]

\* applyDraftFromConfig: the draft begins with what is configured for the source.
Drafted(form, source) ==
    LET config == suScript.config[source]
    IN  [WithSheet(form, config.sheet) EXCEPT
            !.source = source, !.tab = config.tab, !.map = config.map,
            !.verified = (source = "shared" /\ config.sheet # NoSheet)]

\* Opening it, at a source and a step, also on coming back from the consent screen.
OpenWizard ==
    /\ SuAct("open") /\ ~suForm.open
    /\ \E source \in {"oauth", "shared"}, step \in 0..1 :
          Render([Drafted(suForm, source) EXCEPT !.open = TRUE, !.step = step,
                     !.files = IF source = suForm.source THEN @
                               ELSE IF source = "oauth" THEN <<>> ELSE suScript.shared],
                 IF source = "oauth" /\ source # suForm.source THEN {AskFiles} ELSE {}, {})
    /\ UNCHANGED <<suSaves, suShown, suSaved>>

\* handleSourceSwitch: the list of the other source is loaded, from Google or from
\* the settings at hand.
SwitchSource ==
    /\ SuAct("switch") /\ suForm.open /\ suForm.step = 0 /\ ~suForm.busy
    /\ LET source == IF suForm.source = "oauth" THEN "shared" ELSE "oauth"
       IN  Render([Drafted(suForm, source) EXCEPT
                      !.files = IF source = "oauth" THEN <<>> ELSE suScript.shared],
                  IF source = "oauth" THEN {AskFiles} ELSE {}, {})
    /\ UNCHANGED <<suSaves, suShown, suSaved>>

\* handleContinue.  A shared source must be verified first; the third step needs a
\* previewed tab.
Continuable ==
    /\ suForm.open /\ ~suForm.busy
    /\ suForm.step = 0 => suForm.source = "oauth" \/ suForm.verified
    /\ suForm.step = 1 => suForm.sheet # NoSheet /\ suForm.tab # NoTab /\ suForm.head # NoHead

Proceed ==
    /\ Continuable /\ suForm.step < 2
    /\ Render([suForm EXCEPT !.step = @ + 1], {}, {})
    /\ UNCHANGED <<suSaves, suShown, suSaved, suScript>>

GoBack ==
    /\ SuAct("back") /\ suForm.open /\ ~suForm.busy /\ suForm.step > 0
    /\ Render([suForm EXCEPT !.step = @ - 1], {}, {})
    /\ UNCHANGED <<suSaves, suShown, suSaved>>

SelectSheet ==
    /\ SuAct("sheet") /\ suForm.open /\ suForm.step = 1 /\ ~suForm.busy
    /\ \E i \in 1..Len(suForm.files) :
          /\ suForm.files[i] # suForm.sheet
          /\ Render(WithSheet(suForm, suForm.files[i]), {}, {})
    /\ UNCHANGED <<suSaves, suShown, suSaved>>

SelectTab ==
    /\ SuAct("tab") /\ suForm.open /\ suForm.step = 1 /\ ~suForm.busy
    /\ \E t \in suForm.tabs :
          Render([suForm EXCEPT !.tab = t], {}, {})
    /\ UNCHANGED <<suSaves, suShown, suSaved>>

\* The mapping form is not disabled by busy.
EditMapping ==
    /\ SuAct("map") /\ suForm.open /\ suForm.step = 2 /\ suForm.head # NoHead
    /\ \E mapping \in SuMappings : Render([suForm EXCEPT !.map = mapping], {}, {})
    /\ UNCHANGED <<suSaves, suShown, suSaved>>

\* verifySharedAccess, when the sheet is shared: it is selected for the next step.
VerifyShared ==
    /\ SuAct("verify") /\ suForm.open /\ suForm.step = 0 /\ suForm.source = "shared"
    /\ ~suForm.busy
    /\ \E sheet \in SuSheets :
          Render([suForm EXCEPT !.verified = TRUE, !.sheet = sheet, !.step = 1,
                     !.files = IF \E i \in 1..Len(@) : @[i] = sheet THEN @ ELSE Append(@, sheet)],
                 {}, {})
    /\ UNCHANGED <<suSaves, suShown, suSaved>>

CloseWizard ==
    /\ SuAct("close") /\ suForm.open /\ ~suForm.busy
    /\ suForm' = [suForm EXCEPT !.open = FALSE]
    /\ UNCHANGED <<suFlights, suSaves, suShown, suSaved>>
-----------------------------------------------------------------------------
(* Answers to the effects.                                                 *)

FilesListed ==
    /\ AskFiles \in suFlights
    /\ Render(IF suForm.source = "oauth" THEN [suForm EXCEPT !.files = SuFiles] ELSE suForm,
              {}, {AskFiles})
    /\ UNCHANGED <<suSaves, suShown, suSaved, suScript>>

\* loadTabs: the tabs answered are those of the spreadsheet now selected, whichever
\* was asked for; the first of them is selected.
TabsLoaded ==
    \E f \in suFlights :
        /\ f.kind = "tabs"
        /\ Render([suForm EXCEPT !.tabs = TabTitles(f.sheet), !.tab = SuTabs[f.sheet][1],
                                 !.key = NoHead, !.busy = FALSE], {}, {f})
        /\ UNCHANGED <<suSaves, suShown, suSaved, suScript>>

\* loadPreview: the header; and a mapping, when there was none at the time of asking.
PreviewLoaded ==
    \E f \in suFlights :
        /\ f.kind = "preview" /\ f.tab \in TabTitles(f.sheet)
        /\ Render([suForm EXCEPT !.head = Chosen(f.sheet, f.tab), !.busy = FALSE,
                                 !.map = IF f.empty THEN SuSuggested[f.sheet] ELSE @], {}, {f})
        /\ UNCHANGED <<suSaves, suShown, suSaved, suScript>>

\* A list of tabs or a preview that cannot be had, because Google fails or because
\* the spreadsheet has no such tab.
LoadFailed ==
    \E f \in suFlights :
        /\ \/ f.kind = "preview" /\ f.tab \notin TabTitles(f.sheet) /\ UNCHANGED suScript
           \/ f.kind # "files" /\ SuAct("fail")
        /\ Render([suForm EXCEPT !.busy = FALSE], {}, {f})
        /\ UNCHANGED <<suSaves, suShown, suSaved>>
-----------------------------------------------------------------------------
(* Saving: handleCommit.                                                   *)

\* saveDisabledReason and the check of handleCommit, which are those of MappingWizard:
\* of the mapping against the header on display, whichever tab that is of.
Savable ==
    /\ suForm.open /\ suForm.step = 2 /\ ~suForm.busy
    /\ suForm.sheet # NoSheet /\ suForm.tab # NoTab /\ suForm.head # NoHead
    /\ <<suForm.head.sheet, suForm.head.tab, suForm.map>> \in SuCompatible

\* The call keeps the selection it was made with.
HandleCommit ==
    /\ Savable
    /\ suShown' = suShown \cup {[sheet |-> suForm.sheet, tab |-> suForm.tab, map |-> suForm.map]}
    /\ suSaves' = suSaves \cup
           {[pc |-> "validate", sheet |-> suForm.sheet, tab |-> suForm.tab, map |-> suForm.map]}
    /\ suForm' = [suForm EXCEPT !.busy = TRUE]
    /\ UNCHANGED <<suFlights, suSaved, suScript>>

SaveGoes(save, pc) == suSaves' = (suSaves \ {save}) \cup {[save EXCEPT !.pc = pc]}

\* A call that fails ends the save: the wizard stays as it is.
SaveStops(save) ==
    /\ suSaves' = suSaves \ {save}
    /\ suForm' = [suForm EXCEPT !.busy = FALSE]

SavePasses(save, test, pc) ==
    IF test THEN SaveGoes(save, pc) /\ UNCHANGED suForm ELSE SaveStops(save)

\* Mutant: the match's answer is not looked at.
MatchIgnored(save) == TRUE

\* matchPosImportMapping reads the mapping, not normalized, and nothing else of what
\* the wizard sends: no spreadsheet or tab, so without columns, and no figures.
Matches(save) == save.map \in SuMatched

Validate ==
    \E save \in suSaves :
        /\ save.pc = "validate"
        /\ SavePasses(save, Matches(save), "stage")
        /\ UNCHANGED <<suFlights, suShown, suSaved, suScript>>

\* Mutant: the tab is taken as it was sent.
Unread(save) == TRUE

\* Staging and committing read a sample of the tab, which the spreadsheet must have.
\* Columns of the mapping that the sample lacks are a warning only, and a mapping
\* that commits refuse for its targets is one that Savable has refused.
Readable(save) == save.tab \in TabTitles(save.sheet)

Stage ==
    \E save \in suSaves :
        /\ save.pc = "stage"
        /\ SavePasses(save, Readable(save), "commit")
        /\ UNCHANGED <<suFlights, suShown, suSaved, suScript>>

\* Mutant: what is committed is what is selected by now.
CommittedNow(save) ==
    [sheet |-> suForm.sheet, tab |-> suForm.tab, map |-> SuNormal[suForm.map]]

\* commitGoogleSheetsChange gets the captured selection and the normalized mapping.
Committed(save) == [sheet |-> save.sheet, tab |-> save.tab, map |-> SuNormal[save.map]]

CommitChange ==
    \E save \in suSaves :
        /\ save.pc = "commit"
        /\ suSaved' = IF Readable(save) THEN {Committed(save)} ELSE suSaved
        /\ SavePasses(save, Readable(save), "sync")
        /\ UNCHANGED <<suFlights, suShown, suScript>>

\* runInstantSync, onSaved; the wizard closes.
InstantSync ==
    \E save \in suSaves :
        /\ save.pc = "sync"
        /\ suSaves' = suSaves \ {save}
        /\ Render([suForm EXCEPT !.busy = FALSE, !.step = 0, !.open = FALSE], {}, {})
        /\ UNCHANGED <<suShown, suSaved, suScript>>

\* A call of the chain fails.  What was committed stays so.
SaveFailed ==
    /\ SuAct("fail")
    /\ \E save \in suSaves : SaveStops(save)
    /\ UNCHANGED <<suFlights, suShown, suSaved>>

SuNext ==
    \/ OpenWizard \/ SwitchSource \/ Proceed \/ GoBack \/ SelectSheet \/ SelectTab
    \/ EditMapping \/ VerifyShared \/ CloseWizard
    \/ FilesListed \/ TabsLoaded \/ PreviewLoaded \/ LoadFailed
    \/ HandleCommit \/ Validate \/ Stage \/ CommitChange \/ InstantSync \/ SaveFailed

\* The settings card shows the closed wizard; its list is on the way.
SuInit ==
    \E s \in SuScripts :
        /\ suScript = s
        /\ suForm = [open |-> FALSE, source |-> s.source, step |-> 0, files |-> <<>>,
                     sheet |-> s.config[s.source].sheet, tab |-> s.config[s.source].tab,
                     map |-> s.config[s.source].map, tabs |-> {}, head |-> NoHead,
                     key |-> NoHead, verified |-> FALSE, busy |-> FALSE]
        /\ suFlights = IF s.left > 0 /\ s.source = "oauth" THEN {AskFiles} ELSE {}
        /\ suSaves = {} /\ suShown = {} /\ suSaved = {}

SuSpec == SuInit /\ [][SuNext]_suVars
-----------------------------------------------------------------------------
\* The draft is one the wizard can show, and a save names a whole selection.
SuTypeOK ==
    /\ suForm.step \in 0..2 /\ suForm.source \in {"oauth", "shared"}
    /\ suForm.sheet \in SuSheets \cup {NoSheet}
    /\ suForm.map \in SuMappings \cup {NoMapping}
    /\ suForm.tabs \subseteq UNION {TabTitles(s) : s \in SuSheets}
    /\ \A save \in suSaves : save.sheet \in SuSheets /\ save.map \in SuMappings

\* What a commit stores is a selection the form showed when Save was pressed: that
\* spreadsheet with that tab, which it has, and the normal form of that mapping, which
\* the server's match accepted. So it is though lists, tabs and previews that answer
\* late change the selection during the save or pair a spreadsheet with the tab of
\* another, the flag busy is lowered by another request and a second save begins
\* (GoogleSheetsSetupInline.tsx:1016). That the tab has the mapping's columns is
\* not said: no check of the chain sees both.
SavedWasChecked ==
    \A saved \in suSaved :
        /\ saved.tab \in TabTitles(saved.sheet)
        /\ \E shown \in suShown :
              /\ shown.map \in SuMatched
              /\ saved = [shown EXCEPT !.map = SuNormal[@]]
=============================================================================
