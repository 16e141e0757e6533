-------------------------------- MODULE PosDays --------------------------------
(***************************************************************************)
(* The daily figures of the point of sale (POSDailySummary) and what       *)
(* writes them: posController.ts, with the checks of a connector's         *)
(* mapping and the evaluation of a row in posDerivedEvaluator.ts and       *)
(* sheetsCompatibility.ts.                                                 *)
(*                                                                         *)
(* What a cell reads as is a set: {n} for a number (or a day), {} for a    *)
(* blank or illegible cell or none at all.  A mapping names the column of  *)
(* each target, a derived figure is calculated or has a column of its own. *)
(***************************************************************************)
EXTENDS Integers, Sequences, FiniteSets

CONSTANTS
    PdProcs,   \* requests under way
    PdScripts  \* bounds: mapping, sheets, operations, how many follow, how many may fail

Raw == {"highTax", "lowTax", "saleTax", "gas", "lottery", "creditCard", "lotteryPayout"}
RequiredTargets == Raw \cup {"date", "cashExpenses"}
DerivedKeys == {"day", "totalSales", "creditPlusLottery", "cashDiff"}
Calc == "calc"
NoColumn == "none"   \* a derived figure in map mode without a column
PdSources == {"google_sheets", "file"}

\* A cell reads as one number at most, and a mapping has so many columns.
OneNumber(cell) == cell \subseteq Int /\ \A x, y \in cell : x = y
ASSUME PdAssumption ==
    /\ IsFiniteSet(PdProcs)
    /\ \A s \in PdScripts :
          /\ s \in [days : {s.days}, mapping : {s.mapping}, sheets : {s.sheets},
                    derived : {s.derived}, ops : {s.ops}, left : Nat, faults : Nat]
          /\ IsFiniteSet(DOMAIN s.mapping)
          /\ s.mapping = [c \in DOMAIN s.mapping |-> s.mapping[c]]
          /\ \A sheet \in s.sheets :
                /\ sheet \in Seq({sheet[i] : i \in DOMAIN sheet})
                /\ \A i \in DOMAIN sheet : \A c \in DOMAIN sheet[i] : OneNumber(sheet[i][c])

VARIABLES
    pdDays,    \* the stored days: date -> figures; {} without
    pdLast,    \* settings.lastImportSource
    pdJobs,    \* import jobs: processing, done
    pdProc,    \* progress of each request
    pdScript   \* what may still be asked

pdVars == <<pdDays, pdLast, pdJobs, pdProc, pdScript>>

PdIdle == [pc |-> "idle"]
PdAt(p, pc) == pdProc[p].pc = pc
PdDone(p) == pdProc' = [pdProc EXCEPT ![p] = PdIdle]
PdGo(p, pc) == pdProc' = [pdProc EXCEPT ![p].pc = pc]
-----------------------------------------------------------------------------
(* Checking a mapping.                                                     *)

Targets(mapping) == {mapping[c] : c \in DOMAIN mapping}
ColumnOf(mapping, target) == {c \in DOMAIN mapping : mapping[c] = target}

\* computeCompatibility: every required target, none twice.  (A mapped column
\* that the header lacks is only a warning.)
CompatibleMapping(mapping) ==
    /\ RequiredTargets \subseteq Targets(mapping)
    /\ Cardinality(Targets(mapping)) = Cardinality(DOMAIN mapping)

\* normalizeDerivedConfig: a column mapped to a derived figure goes before its
\* configuration; the cash difference is always calculated.
DerivedConfig(mapping, derived) ==
    [k \in DerivedKeys |->
        IF k = "cashDiff" THEN Calc
        ELSE IF ColumnOf(mapping, k) # {} THEN CHOOSE c \in ColumnOf(mapping, k) : TRUE
        ELSE derived[k]]

\* getMissingDerivedDependencies: what a calculated figure needs mapped.  The cash
\* difference needs the total or what makes it up.
Needs(k, config) ==
    CASE k = "day" -> {"date"}
      [] k = "totalSales" -> {"highTax", "lowTax"}
      [] k = "creditPlusLottery" -> {"creditCard", "lotteryPayout"}
      [] k = "cashDiff" -> {"saleTax", "gas", "lottery", "creditCard", "lotteryPayout"} \cup
             (IF config["totalSales"] = NoColumn THEN {"highTax", "lowTax"} ELSE {})

\* validateDerivedConfiguration.  A column mapped to a derived figure counts as
\* used twice, once by the mapping and once by the figure.
DerivedIsValid(mapping, derived, headers) ==
    LET config == DerivedConfig(mapping, derived)
        Users(c) == {k \in DerivedKeys : config[k] = c}
    IN  /\ "cashDiff" \notin Targets(mapping)
        /\ \A c \in headers \cup DOMAIN mapping :
              Cardinality(Users(c)) + Cardinality({c} \cap DOMAIN mapping) <= 1
        /\ RequiredTargets \subseteq Targets(mapping)
        /\ \A k \in DerivedKeys :
              IF config[k] = Calc THEN Needs(k, config) \subseteq Targets(mapping)
              ELSE config[k] \in headers
-----------------------------------------------------------------------------
(* Evaluating a row.                                                       *)

\* Numbers that may be missing: a sum of which a part is missing is missing.
Plus(a, b) == {x + y : x \in a, y \in b}
Minus(a, b) == {x - y : x \in a, y \in b}
Else(a, b) == IF a # {} THEN a ELSE b

Cell(row, c) == IF c \in DOMAIN row THEN row[c] ELSE {}
Value(row, mapping, target) == UNION {Cell(row, c) : c \in ColumnOf(mapping, target)}

\* The figure of a column of its own; a blank cell leaves the mapped one.
OwnColumn(row, config, k) == IF config[k] \in {Calc, NoColumn} THEN {} ELSE Cell(row, config[k])

\* The total: of its own column, else high and low taxable sales (applyFallbacks).
Total(row, mapping, config) ==
    Else(OwnColumn(row, config, "totalSales"),
         Plus(Value(row, mapping, "highTax"), Value(row, mapping, "lowTax")))

\* Mutant: the cash difference is taken from the taxable sales, whatever the total.
SalesOfTaxes(row, mapping, config) ==
    Plus(Value(row, mapping, "highTax"), Value(row, mapping, "lowTax"))

\* The sales that evaluateDerivedFixed calculates with: the total found so far.
Sales(row, mapping, config) ==
    Else(Total(row, mapping, config),
         Plus(Value(row, mapping, "highTax"), Value(row, mapping, "lowTax")))

CreditPlusLottery(row, mapping, config) ==
    Else(OwnColumn(row, config, "creditPlusLottery"),
         Plus(Value(row, mapping, "creditCard"), Value(row, mapping, "lotteryPayout")))

CashDifference(row, mapping, config) ==
    LET In == Plus(Plus(Sales(row, mapping, config), Value(row, mapping, "gas")),
                   Plus(Value(row, mapping, "lottery"), Value(row, mapping, "saleTax")))
    IN  Minus(In, Plus(Value(row, mapping, "creditCard"), Value(row, mapping, "lotteryPayout")))

The(set) == CHOOSE x \in set : TRUE

\* evaluateConfiguredPosRow: {} when the row is refused, for want of a date, a
\* derived figure or a required value; cash expenses and notes may be blank.
Evaluated(row, mapping, derived) ==
    LET config == DerivedConfig(mapping, derived)
        Of(t) == Value(row, mapping, t)
    IN  IF \/ Of("date") = {}
           \/ \E t \in Raw : Of(t) = {}
           \/ Total(row, mapping, config) = {} \/ CashDifference(row, mapping, config) = {}
           \/ CreditPlusLottery(row, mapping, config) = {}
        THEN {}
        ELSE {[date |-> The(Of("date")), figure |-> [t \in Raw |-> The(Of(t))],
               totalSales |-> The(Total(row, mapping, config)),
               clTotal |-> The(CreditPlusLottery(row, mapping, config)),
               cash |-> The(CashDifference(row, mapping, config)), source |-> "google_sheets"]}

\* mapRow, for files: known headings; a missing number is 0, and cash is what was
\* not paid by card.  {} when the date does not read: such a row is skipped.
FileRow(row) ==
    LET Of(t) == The(Else(Cell(row, t), {0}))
        total == The(Else(Cell(row, "totalSales"), {Of("highTax") + Of("lowTax")}))
    IN  {[date |-> d, figure |-> [t \in Raw |-> Of(t)], totalSales |-> total,
          clTotal |-> The(Else(Cell(row, "clTotal"), {Of("creditCard") + Of("lottery")})),
          cash |-> The(Else(Cell(row, "cash"), {total - Of("creditCard")})), source |-> "file"]
         : d \in Cell(row, "date")}
-----------------------------------------------------------------------------
(* Requests.                                                               *)

Work(p, op, rows, after) ==
    pdProc' = [pdProc EXCEPT ![p] = [pc |-> IF rows = <<>> THEN after ELSE "write",
                                     op |-> op, rows |-> rows, after |-> after]]
PdBegin == pdScript.left > 0 /\ pdScript' = [pdScript EXCEPT !.left = @ - 1]

\* commitPosImportFromSharedSheet reads the sheet with the connector's mapping,
\* which may have been saved for another header, and checks both; the first row
\* that is refused refuses the sheet.
ImportSheet(p) ==
    /\ PdAt(p, "idle") /\ "sheet" \in pdScript.ops /\ PdBegin
    /\ \E sheet \in pdScript.sheets, derived \in pdScript.derived :
          LET mapping == pdScript.mapping
              rows == [i \in DOMAIN sheet |-> Evaluated(sheet[i], mapping, derived)]
              refused == \/ sheet = <<>> \/ ~CompatibleMapping(mapping)
                         \/ ~DerivedIsValid(mapping, derived, DOMAIN sheet[1])
                         \/ \E i \in DOMAIN rows : rows[i] = {}
          IN  IF refused
              THEN pdProc' = [pdProc EXCEPT ![p] =
                       [pc |-> "refused", op |-> "sheet", sheet |-> sheet, derived |-> derived]]
              ELSE Work(p, "sheet", [i \in DOMAIN rows |-> The(rows[i])], "mark")
    /\ UNCHANGED <<pdDays, pdLast, pdJobs>>

\* The answer to a refused sheet.
Refuse(p) == PdAt(p, "refused") /\ PdDone(p) /\ UNCHANGED <<pdDays, pdLast, pdJobs, pdScript>>

\* importPosCsv and importPosFile, which record the import, and importPosRows.
ImportFile(p) ==
    /\ PdAt(p, "idle") /\ PdBegin
    /\ \E op \in {"file", "rows"} \cap pdScript.ops, sheet \in pdScript.sheets :
          LET good == {i \in DOMAIN sheet : FileRow(sheet[i]) # {}}
          IN  IF good = {} THEN PdDone(p)
              ELSE \E kept \in [1..Cardinality(good) -> good] :
                      /\ \A i, j \in DOMAIN kept : i < j => kept[i] < kept[j]
                      /\ Work(p, op, [i \in DOMAIN kept |-> The(FileRow(sheet[kept[i]]))],
                              IF op = "file" THEN "note" ELSE "end")
    /\ UNCHANGED <<pdDays, pdLast, pdJobs>>

\* One operation of the bulk write: the row takes the place of the day's.
WriteDay(p) ==
    /\ PdAt(p, "write")
    /\ LET row == Head(pdProc[p].rows)
           rest == Tail(pdProc[p].rows)
       IN  /\ pdDays' = [pdDays EXCEPT ![row.date] = {row}]
           /\ pdProc' = [pdProc EXCEPT ![p].rows = rest,
                                       ![p].pc = IF rest = <<>> THEN pdProc[p].after ELSE @]
    /\ UNCHANGED <<pdLast, pdJobs, pdScript>>

\* lastImportSource: of a file, or by markConnectorImported.
NoteFile(p) ==
    /\ PdAt(p, "note") /\ pdLast' = "file" /\ PdDone(p)
    /\ UNCHANGED <<pdDays, pdJobs, pdScript>>
EndRows(p) == PdAt(p, "end") /\ PdDone(p) /\ UNCHANGED <<pdDays, pdLast, pdJobs, pdScript>>
MarkSheet(p) ==
    /\ PdAt(p, "mark") /\ pdLast' = "google_sheets" /\ PdGo(p, "job")
    /\ UNCHANGED <<pdDays, pdJobs, pdScript>>

\* Mutant: no job is created for the update that ends it.
JobLeftOut(p) == PdAt(p, "job") /\ PdGo(p, "jobDone") /\ UNCHANGED <<pdDays, pdLast, pdJobs, pdScript>>

\* The import job is written when the import is over, in two steps.
CreateJob(p) ==
    /\ PdAt(p, "job") /\ pdJobs' = [pdJobs EXCEPT !.processing = @ + 1] /\ PdGo(p, "jobDone")
    /\ UNCHANGED <<pdDays, pdLast, pdScript>>
FinishJob(p) ==
    /\ PdAt(p, "jobDone") /\ PdDone(p)
    /\ pdJobs' = [processing |-> pdJobs.processing - 1, done |-> pdJobs.done + 1]
    /\ UNCHANGED <<pdDays, pdLast, pdScript>>

\* clearPosDailyData: all days, those of a range or those of a source, and then
\* the record of the last import, whatever is left.
InScope(scope, d) ==
    \/ scope.of = "all" \/ (scope.of = "range" /\ d \in scope.range)
    \/ (scope.of = "source" /\ \E r \in pdDays[d] : r.source = scope.source)

ClearDays(p) ==
    /\ PdAt(p, "idle") /\ "clear" \in pdScript.ops /\ PdBegin
    /\ \E of \in {"all", "range", "source"}, d \in DOMAIN pdDays, source \in PdSources :
          pdDays' = [e \in DOMAIN pdDays |->
              IF InScope([of |-> of, range |-> {d}, source |-> source], e) THEN {} ELSE pdDays[e]]
    /\ PdGo(p, "forget")
    /\ UNCHANGED <<pdLast, pdJobs>>
ForgetLast(p) ==
    /\ PdAt(p, "forget") /\ pdLast' = "null" /\ PdDone(p)
    /\ UNCHANGED <<pdDays, pdJobs, pdScript>>

\* The database refuses a write: the request ends there and the rows already
\* written stay.
PdFail(p) ==
    /\ pdProc[p].pc \in {"write", "mark", "job", "jobDone", "note", "forget"}
    /\ pdScript.faults > 0 /\ pdScript' = [pdScript EXCEPT !.faults = @ - 1]
    /\ PdDone(p)
    /\ UNCHANGED <<pdDays, pdLast, pdJobs>>
-----------------------------------------------------------------------------
PdInit ==
    /\ pdScript \in PdScripts
    /\ pdDays = [d \in pdScript.days |-> {}] /\ pdLast = "null"
    /\ pdJobs = [processing |-> 0, done |-> 0]
    /\ pdProc = [p \in PdProcs |-> PdIdle]

PdNext == \E p \in PdProcs :
    \/ ImportSheet(p) \/ Refuse(p) \/ ImportFile(p) \/ WriteDay(p) \/ NoteFile(p) \/ EndRows(p)
    \/ MarkSheet(p) \/ CreateJob(p) \/ FinishJob(p) \/ ClearDays(p) \/ ForgetLast(p) \/ PdFail(p)

PdSpec == PdInit /\ [][PdNext]_pdVars
-----------------------------------------------------------------------------
(* Properties.                                                             *)

\* The stored days and the requests have their types.
PdTypeOK ==
    /\ \A d \in DOMAIN pdDays : \A r \in pdDays[d] : r.date = d /\ r.source \in PdSources
    /\ pdLast \in PdSources \cup {"null"}
    /\ pdJobs \in [processing : Nat, done : Nat]
    /\ \A p \in PdProcs : pdProc[p].pc \in {"idle", "refused", "write", "mark", "job", "jobDone",
                                            "note", "end", "forget"}

\* A row has a date and every required figure.
Legible(row, mapping) == \A t \in Raw \cup {"date"} : Value(row, mapping, t) # {}

\* The check of a mapping and the evaluation of the rows agree: once the check has
\* passed, a sheet is refused only for a row in which a required cell does not
\* read; and of each day a sheet has written, whichever imports and clearings
\* crossed it, the cash difference follows from the total stored beside it.
CheckedSheetsAddUp ==
    /\ \A p \in PdProcs : PdAt(p, "refused") =>
          LET sheet == pdProc[p].sheet
              mapping == pdScript.mapping
          IN  \/ sheet = <<>> \/ ~CompatibleMapping(mapping)
              \/ ~DerivedIsValid(mapping, pdProc[p].derived, DOMAIN sheet[1])
              \/ \E i \in DOMAIN sheet : ~Legible(sheet[i], mapping)
    /\ \A d \in DOMAIN pdDays : \A r \in pdDays[d] : r.source = "google_sheets" =>
          r.cash = r.totalSales + r.figure["gas"] + r.figure["lottery"] + r.figure["saleTax"]
                   - r.figure["creditCard"] - r.figure["lotteryPayout"]
=============================================================================
