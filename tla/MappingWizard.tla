----------------------------- MODULE MappingWizard -----------------------------
(***************************************************************************)
(* The form in which a user maps the columns of a sheet: MatchingWizard.tsx *)
(* with mappingLogic.ts and expressionValidation.ts.  Its mapping and its   *)
(* derived figures belong to the page around it, which also changes the     *)
(* headers when another tab is previewed.                                   *)
(*                                                                         *)
(* The form judges the mapping with checks of its own; the server's, which  *)
(* decide, are those of PosDays.                                            *)
(***************************************************************************)
EXTENDS PosDays

CONSTANTS
    MwStamps,   \* the columns whose name speaks of a timestamp
    MwScripts   \* bounds: what the form opens on, what is picked, how many edits

Mappable == RequiredTargets \cup {"notes"}
\* The figures shown above a figure.
Above == [day |-> {}, totalSales |-> {"day"}, creditPlusLottery |-> {"day", "totalSales"},
          cashDiff |-> {"day", "totalSales", "creditPlusLottery"}]

VARIABLES
    mwMapping,  \* column -> target
    mwDerived,  \* transforms.__derivedConfig: calculated, or a column of its own
    mwHeaders,  \* the columns of the tab last previewed
    mwScript    \* what may still be done

mwVars == <<mwMapping, mwDerived, mwHeaders, mwScript>>
-----------------------------------------------------------------------------
(* The two forms of a mapping.                                             *)

\* toMappingByTarget: one column for each target the form shows; others are dropped.
ByTarget(mapping) ==
    [t \in Mappable |-> IF ColumnOf(mapping, t) = {} THEN NoColumn
                        ELSE CHOOSE c \in ColumnOf(mapping, t) : TRUE]

\* toMappingByColumn
ByColumn(byTarget) ==
    [c \in {byTarget[t] : t \in Mappable} \ {NoColumn} |->
        CHOOSE t \in Mappable : byTarget[t] = c]

NormalizeMapping(mapping) == ByColumn(ByTarget(mapping))

\* The figures as the form shows them: a column mapped to one goes before its
\* configuration; the cash difference is always calculated.
ShownConfig(mapping, derived) ==
    [k \in DerivedKeys |->
        CASE k = "cashDiff" -> Calc
          [] k # "cashDiff" /\ ColumnOf(mapping, k) # {} ->
                CHOOSE c \in ColumnOf(mapping, k) : TRUE
          [] OTHER -> derived[k]]

Shown == ShownConfig(mwMapping, mwDerived)
-----------------------------------------------------------------------------
(* What the form says of a mapping.                                        *)

\* getMissingDependencies
MissingDependencies(k, byTarget, config) ==
    LET Lacks(targets) == {t \in targets : byTarget[t] = NoColumn}
    IN  CASE k = "day" -> Lacks({"date"})
          [] k = "totalSales" -> Lacks({"highTax", "lowTax"})
          [] k = "creditPlusLottery" -> Lacks({"creditCard", "lotteryPayout"})
          [] k = "cashDiff" ->
                Lacks({"saleTax", "gas", "lottery", "creditCard", "lotteryPayout"})
                \cup (IF config["totalSales"] # NoColumn THEN {} ELSE Lacks({"highTax", "lowTax"}))

\* Mutant: only the targets count as users of a column.
UsedByTargets(c, byTarget, config) == {t \in Mappable : byTarget[t] = c}

UsedBy(c, byTarget, config) ==
    {t \in Mappable : byTarget[t] = c} \cup {k \in DerivedKeys : config[k] = c}

\* getCompatibility.  The equations are the fixed ones: each is well formed, and
\* between them there is no cycle.
IsCompatible(byTarget, config, headers) ==
    /\ \A t \in RequiredTargets : byTarget[t] # NoColumn
    /\ \A c \in ({byTarget[t] : t \in Mappable} \cup {config[k] : k \in DerivedKeys})
                \ {NoColumn, Calc} : Cardinality(UsedBy(c, byTarget, config)) = 1
    /\ \A k \in DerivedKeys :
          IF config[k] = Calc THEN MissingDependencies(k, byTarget, config) = {}
          ELSE config[k] \in headers

FormIsHappy == IsCompatible(ByTarget(mwMapping), Shown, mwHeaders)
-----------------------------------------------------------------------------
(* Editing.                                                                *)

\* setColumnForTarget: the column leaves the target it had.
SetColumn(byTarget, target, column) ==
    [t \in Mappable |-> IF t = target THEN column
                        ELSE IF byTarget[t] = column THEN NoColumn ELSE byTarget[t]]

\* setColumnForDerivedMap: the column leaves the target and the figure it had.
SetOwnColumn(config, key, column) ==
    [k \in DerivedKeys |-> IF k = key THEN column
                           ELSE IF config[k] = column /\ column \notin {Calc, NoColumn}
                                THEN NoColumn ELSE config[k]]

\* pushState: mapping and figures go to the page together.
PushState(byTarget, config) ==
    /\ mwScript.left > 0
    /\ mwMapping' = ByColumn(byTarget)
    /\ mwDerived' = config
    /\ mwScript' = [mwScript EXCEPT !.left = @ - 1]
    /\ UNCHANGED mwHeaders

Picks == mwScript.picks \cap mwHeaders

SelectColumn ==
    \E t \in mwScript.targets, c \in Picks \cup {NoColumn} :
        PushState(SetColumn(ByTarget(mwMapping), t, c), Shown)

\* setDerivedMode: neither mode has a column yet.  The cash difference has no switch.
ToggleMode ==
    \E k \in DerivedKeys \ {"cashDiff"} :
        PushState(ByTarget(mwMapping),
                  [Shown EXCEPT ![k] = IF @ = Calc THEN NoColumn ELSE Calc])

SelectOwnColumn ==
    \E k \in DerivedKeys \ {"cashDiff"}, c \in Picks \cup {NoColumn} :
        /\ Shown[k] # Calc
        /\ LET byTarget == ByTarget(mwMapping)
           IN  PushState([t \in Mappable |-> IF byTarget[t] = c THEN NoColumn ELSE byTarget[t]],
                         SetOwnColumn(Shown, k, c))

\* The repairs the form offers while it is not happy.
UseDateHeader ==
    /\ ~FormIsHappy
    /\ "date" \in mwHeaders
    /\ ByTarget(mwMapping)["date"] # "date"
    /\ PushState(SetColumn(ByTarget(mwMapping), "date", "date"), Shown)

ClearTimestamps ==
    LET Without(f) == [x \in DOMAIN f |-> IF f[x] \in MwStamps THEN NoColumn ELSE f[x]]
        byTarget == ByTarget(mwMapping)
    IN  /\ ~FormIsHappy
        /\ \/ \E t \in Mappable : byTarget[t] \in MwStamps
           \/ \E k \in DerivedKeys : Shown[k] \in MwStamps
        /\ PushState(Without(byTarget), Without(Shown))

\* autoFixDuplicateColumnUsage: a column stays with its target, else with the
\* first figure that has it.
AutoFix ==
    LET byTarget == ByTarget(mwMapping)
        columns == {byTarget[t] : t \in Mappable}
    IN  /\ ~FormIsHappy
        /\ PushState(byTarget,
               [k \in DerivedKeys |->
                   IF Shown[k] # Calc /\ (Shown[k] \in columns \/ \E e \in Above[k] : Shown[e] = Shown[k])
                   THEN NoColumn ELSE Shown[k]])

\* The page previews another tab.  It keeps the mapping unless it is empty.
PreviewTab ==
    /\ mwScript.left > 0
    /\ \E h \in mwScript.tabs :
          /\ mwHeaders' = h
          /\ mwMapping' = IF DOMAIN mwMapping # {} THEN mwMapping
                          ELSE [c \in h \cap RequiredTargets |-> c]
    /\ mwScript' = [mwScript EXCEPT !.left = @ - 1]
    /\ UNCHANGED mwDerived

MwNext ==
    \/ SelectColumn \/ ToggleMode \/ SelectOwnColumn
    \/ UseDateHeader \/ ClearTimestamps \/ AutoFix \/ PreviewTab

MwInit ==
    \E s \in MwScripts :
        /\ mwMapping = s.mapping
        /\ mwDerived = s.derived
        /\ mwHeaders = s.headers
        /\ mwScript = [targets |-> s.targets, picks |-> s.picks, tabs |-> s.tabs, left |-> s.left]
-----------------------------------------------------------------------------
MwColumns == UNION {s.headers : s \in MwScripts}

\* Whatever the form opens on names columns of the sheets. No column is called as
\* the model calls a calculated figure or none.
ASSUME MwAssumption ==
    /\ {Calc, NoColumn} \cap MwColumns = {}
    /\ \A s \in MwScripts :
          /\ DOMAIN s.mapping \subseteq MwColumns /\ UNION s.tabs \subseteq MwColumns
          /\ \A c \in DOMAIN s.mapping : s.mapping[c] \in Mappable \cup DerivedKeys
          /\ s.derived \in [DerivedKeys -> {Calc, NoColumn} \cup MwColumns]
          /\ s.left \in Nat

\* A mapping to targets and figures; each figure is calculated or has a column or none.
MwTypeOK ==
    /\ \A c \in DOMAIN mwMapping : mwMapping[c] \in Mappable \cup DerivedKeys
    /\ \A k \in DerivedKeys : mwDerived[k] \in {Calc, NoColumn} \cup MwColumns

\* The form and the server agree: of a mapping in the form the page saves it in,
\* with the derived figures that go with it, getCompatibility says "ok" exactly
\* when both checks of the server accept it.  No wording of a duplicate, no
\* figure without its column and no tab with other headers sets them apart.
WizardAgrees ==
    NormalizeMapping(mwMapping) = mwMapping =>
        (FormIsHappy <=> /\ CompatibleMapping(mwMapping)
                         /\ DerivedIsValid(mwMapping, mwDerived, mwHeaders))
=============================================================================
