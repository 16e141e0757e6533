---------------------------- MODULE MCBackOffice ----------------------------
(* One instance of each part of the back office that shares no document with  *)
(* the others. A behaviour plays one part, its scene, and leaves the others   *)
(* at rest.                                                                   *)
EXTENDS QuickBooksConnection, SheetsChoice, Onboarding, Inventory, PosDays, PosReports,
        MappingWizard, PosPages, SheetsSetup, TaxDesk, AccountingPages

VARIABLE scene
-----------------------------------------------------------------------------
(* QuickBooks: a browser, a job and a desk; what each may do, and the faults. *)

MCAccounts == <<"a1", "a2">>
MCPreferred == [a \in {"a1", "a2"} |-> <<"4000", 0>>]
MCSystem == {<<"1000", 0>>}
QbBudget(start, grants, admin, pull, write, fault) ==
    [start |-> start, grants |-> grants, admin |-> admin, pull |-> pull,
     write |-> write, fault |-> fault]
QbRest == QbBudget("none", 0, 0, 0, 0, 0)
MCQbBudgets ==
    {QbRest, QbBudget("none", 2, 3, 0, 0, 1), QbBudget("r1", 1, 2, 1, 0, 0),
     QbBudget("r1", 1, 1, 1, 0, 1), QbBudget("r1", 0, 2, 1, 0, 1),
     QbBudget("r1", 1, 1, 0, 2, 1), QbBudget("r1", 0, 0, 0, 2, 2), QbBudget("r1", 0, 0, 2, 0, 2)}
-----------------------------------------------------------------------------
(* Google Sheets: no source, one source, a source of each kind.               *)

SgSource(id) == [id |-> id, on |-> TRUE, map |-> "full"]
SgOne == [active |-> "oauth", connected |-> TRUE,
          half |-> [k \in Kinds |-> IF k = "oauth"
                        THEN [on |-> TRUE, activeId |-> 1, held |-> <<SgSource(1)>>]
                        ELSE Unset]]
SgTwo == [SgOne EXCEPT !.active = "shared",
                       !.half["shared"] = [on |-> TRUE, activeId |-> 2, held |-> <<SgSource(2)>>]]
SgPlan(start, ops, left) == [start |-> start, ops |-> ops, left |-> left]
SgRest == SgPlan(Cleared, {}, 0)
MCSgScripts ==
    {SgRest,
     SgPlan(Cleared, {"create", "activate", "reset"}, 2),
     SgPlan(SgOne, {"create", "activate", "reset"}, 2),
     SgPlan(SgTwo, {"update", "reset", "create"}, 2),
     SgPlan(SgOne, {"commit", "activate"}, 2),
     SgPlan(Cleared, {"commit", "import"}, 2),
     SgPlan(SgOne, {"commit", "delete", "import"}, 2),
     SgPlan(SgOne, {"update", "cleanup", "legacy"}, 2),
     SgPlan(SgOne, {"connect", "disconnect", "status"}, 3),
     SgPlan(SgOne, {"update", "commit"}, 2),
     SgPlan(SgOne, {"verify", "activate", "create"}, 2),
     SgPlan(SgTwo, {"create", "cleanup", "activate"}, 2),
     SgPlan(SgTwo, {"stage", "debug", "import", "delete", "connect"}, 2)}
-----------------------------------------------------------------------------
(* Companies: nobody in one, ann's with two invites, one of each.             *)

ObNobody == [company |-> 0, role |-> 0]
ObMember(company, role) == [company |-> company, role |-> role]
ObThree(c) == <<NewRole(c, "Admin", TRUE, "all"), NewRole(c, "Member", TRUE, "some"),
                NewRole(c, "Viewer", TRUE, "some")>>
ObNone == [user |-> [u \in ObUsers |-> ObNobody], companies |-> 0, roles |-> <<>>,
           invites |-> <<>>]
ObOne == [user |-> [u \in ObUsers |-> IF u = "ann" THEN ObMember(1, 1) ELSE ObNobody],
          companies |-> 1, roles |-> ObThree(1),
          invites |-> <<Invitation(1, "ann", 1, TRUE), Invitation(1, "bob", 2, FALSE)>>]
ObOwn == [ObOne EXCEPT !.roles = Append(@, NewRole(1, "Clerk", FALSE, "some"))]
ObTwo == [user |-> [u \in ObUsers |-> IF u = "ann" THEN ObMember(1, 1) ELSE ObMember(2, 4)],
          companies |-> 2, roles |-> ObThree(1) \o ObThree(2),
          invites |-> <<Invitation(1, "bob", 2, FALSE)>>]
ObPlan(start, ops, left, faults) ==
    [start |-> start, ops |-> ops, left |-> left, faults |-> faults]
ObRest == ObPlan(ObNone, {}, 0, 0)
MCObScripts ==
    {ObRest,
     ObPlan(ObNone, {"found", "join"}, 2, 1),
     ObPlan(ObOne, {"found", "join", "revoke"}, 2, 1),
     ObPlan(ObOne, {"invite", "join"}, 2, 1),
     ObPlan(ObOne, {"assign", "join"}, 2, 0),
     ObPlan(ObTwo, {"invite"}, 1, 0), ObPlan(ObTwo, {"assign"}, 2, 0),
     ObPlan(ObOne, {"newRole", "dropRole", "editRole"}, 3, 0),
     ObPlan(ObOwn, {"newRole", "dropRole", "assign"}, 2, 0)}
-----------------------------------------------------------------------------
(* Inventory: <<1>> \o <<2, 3>> and <<1, 2>> \o <<3>> are one barcode.        *)

MCUpcs == {<<1>>, <<1, 2>>}
MCModifiers == {<<>>, <<3>>, <<2, 3>>}
InPlan(ops, left) ==
    [items |-> <<Item(<<1>>, <<2, 3>>, 1)>>, locations |-> <<Shelf("A"), Shelf("B")>>,
     ops |-> ops, left |-> left]
InRest == [InPlan({}, 0) EXCEPT !.items = <<>>, !.locations = <<>>]
MCInScripts ==
    {InRest,
     InPlan({"updateItem", "deleteItem"}, 2),
     InPlan({"createItem", "importItems", "updateItem"}, 2),
     InPlan({"createItem", "deleteLocation", "createLocation"}, 2),
     InPlan({"move", "deleteLocation", "updateLocation"}, 2),
     InPlan({"deleteItem", "createLocation", "move"}, 2)}
-----------------------------------------------------------------------------
(* Imports: mappings that do and do not pass the check, sheets with empty     *)
(* cells, days told twice, missing and additional columns.                    *)

PdColumns == {"date", "highTax", "lowTax", "saleTax", "gas", "lottery", "creditCard",
              "lotteryPayout", "cashExpenses"}
PdPlain == [c \in PdColumns |-> c]
PdDirect == [c \in PdColumns \cup {"sum"} |-> IF c = "sum" THEN "totalSales" ELSE c]
PdTwice == [c \in PdColumns \cup {"sum"} |-> IF c = "sum" THEN "gas" ELSE c]
PdShort == [c \in PdColumns \ {"gas"} |-> c]
PdCalc == [k \in DerivedKeys |-> Calc]
PdOwn == [PdCalc EXCEPT !["totalSales"] = "sum"]
PdUsed == [PdCalc EXCEPT !["totalSales"] = "gas"]
PdBoth == [PdCalc EXCEPT !["totalSales"] = "sum", !["creditPlusLottery"] = "cards"]
PdNone == [PdCalc EXCEPT !["totalSales"] = NoColumn]
PdRow(date, high, card, sum) ==
    [c \in PdColumns \cup {"sum"} |->
        CASE c = "date" -> date
          [] c = "highTax" -> high
          [] c = "creditCard" -> card
          [] c = "sum" -> sum
          [] c = "gas" -> {3}
          [] OTHER -> {1}]
PdNarrow == [c \in PdColumns \ {"gas"} |-> IF c = "date" THEN {1} ELSE {2}]
PdWide == [c \in PdColumns \cup {"sum", "cards"} |->
              CASE c = "date" -> {1} [] c = "cards" -> {5} [] OTHER -> {2}]
PdSheets ==
    {<<PdRow({1}, {2}, {1}, {9}), PdRow({2}, {2}, {1}, {})>>, <<PdRow({1}, {}, {1}, {7})>>,
     <<PdRow({1}, {4}, {1}, {9}), PdRow({1}, {5}, {2}, {8})>>,
     <<PdRow({}, {4}, {1}, {9}), PdRow({2}, {5}, {}, {8})>>,
     <<>>, <<PdNarrow>>, <<PdWide>>}
PdPlan(mapping, ops, left, faults) ==
    [days |-> {1, 2}, mapping |-> mapping, sheets |-> PdSheets,
     derived |-> {PdCalc, PdOwn, PdUsed, PdNone, PdBoth},
     ops |-> ops, left |-> left, faults |-> faults]
PdRest == [days |-> {}, mapping |-> PdPlain, sheets |-> {}, derived |-> {}, ops |-> {},
           left |-> 0, faults |-> 0]
MCPdScripts ==
    {PdRest,
     PdPlan(PdPlain, {"sheet"}, 2, 0), PdPlan(PdDirect, {"sheet"}, 1, 0),
     PdPlan(PdTwice, {"sheet"}, 1, 0), PdPlan(PdShort, {"sheet"}, 1, 0),
     PdPlan(PdPlain, {"sheet", "file", "rows", "clear"}, 2, 1)}
-----------------------------------------------------------------------------
(* Reports: years of both lengths beginning on every day of the week.         *)

RpCalendar(first, days, asks) ==
    [first |-> first, years |-> <<days, 365, 365>>, asks |-> asks]
MCRpCalendars ==
    {RpCalendar(f, n, IF f = 4 /\ n = 366 THEN 2 ELSE 0) : f \in 1..7, n \in {365, 366}}
RpFigure(sales, tax, cash, lottery, payout) ==
    [sales |-> sales, tax |-> tax, credit |-> 100, cash |-> cash, lottery |-> lottery,
     payout |-> payout, expenses |-> 20, cashPayout |-> 30]
MCRpFigures ==
    UNION {[1..n -> {RpFigure(1000, 50, 850, 0, 0), RpFigure(800, 40, 450, 100, 60),
                     RpFigure(500, 100, 750, 100, 80), RpFigure(0, 0, 0, 10, 5)}] : n \in 0..4}
RpRest == RpCalendar(1, 365, 0)
-----------------------------------------------------------------------------
(* The mapping form: a good mapping, one with a column of its own for a       *)
(* figure, none, and one whose figures use a column twice.                    *)

MwAll == RequiredTargets \cup {"sum", "timestamp"}
MwGood == [c \in RequiredTargets |-> c]
MwOwn == [c \in RequiredTargets \cup {"sum"} |-> IF c = "sum" THEN "totalSales" ELSE c]
MwPlan(mapping, derived, left) ==
    [mapping |-> mapping, derived |-> derived, headers |-> MwAll,
     targets |-> {"date", "gas", "highTax", "notes"}, picks |-> {"gas", "sum", "timestamp"},
     tabs |-> {MwAll \ {"sum"}, MwAll \ {"gas"}}, left |-> left]
MwRest == [mapping |-> [c \in {} |-> c], derived |-> PdCalc, headers |-> {},
           targets |-> {}, picks |-> {}, tabs |-> {}, left |-> 0]
MCMwScripts ==
    {MwRest,
     MwPlan(MwGood, PdCalc, 3), MwPlan(MwOwn, PdCalc, 2), MwPlan([c \in {} |-> c], PdCalc, 2),
     MwPlan(MwGood, [PdUsed EXCEPT !["creditPlusLottery"] = "gas"], 2)}
-----------------------------------------------------------------------------
(* The point-of-sale page.                                                    *)

PpPlan(ops, left) == [ops |-> ops, left |-> left, range |-> "r1", limit |-> 10]
PpRest == PpPlan({}, 0)
MCPpScripts ==
    {PpRest,
     PpPlan({"range", "page", "refresh"}, 3), PpPlan({"page", "limit", "fail"}, 3),
     PpPlan({"sync", "range", "refuse"}, 3), PpPlan({"open", "refuse", "page"}, 3),
     PpPlan({"sync", "view", "fail"}, 3), PpPlan({"page", "sync", "fail"}, 4)}
-----------------------------------------------------------------------------
(* The setup wizard: two spreadsheets in the list and one that is not.        *)

MCSuTabs == [A |-> <<"t1", "t2">>, B |-> <<"t1">>, C |-> <<"t3">>]
MCSuFiles == <<"B", "A">>
MCSuSuggested == [A |-> "ab", B |-> "ab", C |-> "raw"]
MCSuNormal == [ab |-> "ab", c |-> "c", raw |-> "c", wide |-> "ab", empty |-> "empty"]
MCSuCompatible ==
    {<<"A", "t1", "ab">>, <<"A", "t1", "wide">>, <<"B", "t1", "ab">>, <<"B", "t1", "wide">>,
     <<"A", "t2", "c">>, <<"C", "t3", "c">>, <<"C", "t3", "raw">>}
MCSuMatched == {"ab", "c", "wide"}
SuConfig(sheet, tab, map) == [sheet |-> sheet, tab |-> tab, map |-> map]
SuNone == SuConfig("none", "", "empty")
SuPlan(source, config, ops, left) ==
    [source |-> source, config |-> [oauth |-> config, shared |-> config],
     shared |-> IF config.sheet = "none" THEN <<>> ELSE <<config.sheet>>,
     ops |-> ops, left |-> left]
SuRest == SuPlan("oauth", SuNone, {}, 0)
MCSuScripts ==
    {SuRest,
     SuPlan("oauth", SuNone, {"open", "sheet", "map"}, 3),
     SuPlan("oauth", SuConfig("C", "t3", "raw"), {"open", "map", "fail"}, 3),
     SuPlan("oauth", SuConfig("A", "t1", "ab"), {"open", "tab", "back", "map"}, 4),
     SuPlan("shared", SuConfig("A", "t1", "ab"), {"open", "verify", "switch"}, 4),
     SuPlan("shared", SuNone, {"open", "verify", "close", "map"}, 3)}
-----------------------------------------------------------------------------
(* The tax dashboard: summed reports, payments of both kinds, journals whole and *)
(* broken; then the page over one of them.                                      *)

TxNone == [label |-> {}, amount |-> NoAmount]
TxLeaf(label, amount) == [cells |-> [label |-> label, amount |-> amount], head |-> {},
                          rows |-> <<>>, summary |-> TxNone]
TxGroup(head, rows, label, amount) ==
    [cells |-> TxNone, head |-> head, rows |-> rows,
     summary |-> [label |-> label, amount |-> amount]]
TxLedgers ==
    {<<TxLeaf({"a"}, 100), TxLeaf({"b"}, 250), TxGroup({}, <<>>, {"total"}, 350)>>,
     <<TxGroup({"g"}, <<TxLeaf({"a"}, 100),
                        TxGroup({"h"}, <<TxLeaf({"b"}, -30), TxLeaf({"c"}, NoAmount)>>,
                                {"total"}, -30)>>, {"total"}, 70)>>,
     <<TxLeaf({"a"}, 100), TxLeaf({}, 5)>>}
TxHalves(owed, own) ==
    <<TxGroup({"Liabilities"}, <<TxLeaf({"loan"}, owed)>>, {"total liabilities"}, owed),
      TxGroup({"Equity"}, <<TxLeaf({"own"}, own)>>, {"total equity"}, own)>>
TxSheet(owed, own) ==
    {<<TxGroup({"Assets"}, <<TxLeaf({"cash"}, owed + own)>>, {"total assets"}, owed + own)>>
        \o rest :
     rest \in {TxHalves(owed, own), <<>>,
               <<TxGroup({"both"}, TxHalves(owed, own),
                         {"total liabilities", "total liabilities and equity"}, owed + own)>>}}
TxDated(dates) == [i \in DOMAIN dates |-> [date |-> dates[i], id |-> i]]
TxLists == {<<>>, <<3>>, <<3, 1>>, <<2, 1>>, <<3, 2, 2>>}
TxSide(debit, credit) == [debit |-> debit, credit |-> credit]
TxSides == {TxSide(0, 0), TxSide(1000, 0), TxSide(0, 1000), TxSide(0, 500), TxSide(5, 0),
            TxSide(0, 10), TxSide(500, 500)}
TxWorld(ledger, sheet, customer, vendor, lines) ==
    [reports |-> [k \in {"profit-loss", "ar-aging", "ap-aging", "general-ledger"} |-> ledger]
                 @@ ("balance-sheet" :> sheet),
     lines |-> lines,
     payments |-> [customer |-> TxDated(customer), vendor |-> TxDated(vendor)]]
MCTxWorlds ==
    {TxWorld(r, <<>>, <<>>, <<>>, <<>>) : r \in TxLedgers}
    \cup {TxWorld(<<>>, sheet, <<>>, <<>>, <<>>) : sheet \in TxSheet(30, 70) \cup TxSheet(0, 10)}
    \cup {TxWorld(<<>>, <<>>, c, v, <<>>) : c \in TxLists, v \in TxLists}
    \cup {TxWorld(<<>>, <<>>, <<>>, <<>>, <<a, b>>) : a \in TxSides, b \in TxSides}
    \cup {TxWorld(<<>>, <<>>, <<>>, <<>>, <<a, b, c>>) : a \in TxSides, b \in TxSides, c \in TxSides}
TxPlan(ops, left) ==
    [ops |-> ops, left |-> left,
     sel |-> [dates |-> "d1", basis |-> "accrual", report |-> "profit-loss", payments |-> "all"]]
TxRest == TxPlan({}, 0)
MCTxPlans ==
    {TxRest, TxPlan({"select", "post"}, 2), TxPlan({"post", "refresh", "fail"}, 2)}
-----------------------------------------------------------------------------
(* The accounting pages.                                                       *)

ApPlan(ops, left) == [ops |-> ops, left |-> left]
ApRest == ApPlan({}, 0)
MCApPlans ==
    {ApRest,
     ApPlan({"open", "poll", "job"}, 5), ApPlan({"open", "reprocess", "job", "fail"}, 4),
     ApPlan({"open", "retry", "poll", "job"}, 4),
     ApPlan({"rows", "tick", "bulk", "elsewhere"}, 3),
     ApPlan({"rows", "tick", "approve", "exclude", "fail"}, 3)}
-----------------------------------------------------------------------------
vars == <<scene, qbVars, sgVars, obVars, inVars, pdVars, rpVars, mwVars, ppVars, suVars, txVars, apVars>>

Init ==
    /\ scene \in {"quickbooks", "sheets", "companies", "inventory", "days", "reports",
                  "wizard", "pages", "setup", "tax", "accounting"}
    /\ QbInit /\ (scene = "quickbooks" \/ qbBudget = QbRest)
    /\ SgInit /\ (scene = "sheets" \/ sgScript = SgRest)
    /\ ObInit /\ (scene = "companies" \/ obScript = [ops |-> {}, left |-> 0, faults |-> 0])
    /\ InInit /\ (scene = "inventory" \/ inScript = [ops |-> {}, left |-> 0])
    /\ PdInit /\ (scene = "days" \/ pdScript = PdRest)
    /\ RpInit /\ (scene = "reports" \/ (rpCalendar = RpRest /\ DOMAIN rpRows = {}))
    /\ MwInit /\ (scene = "wizard" \/ mwScript.targets = {})
    /\ PpInit /\ (scene = "pages" \/ ppScript = PpRest)
    /\ SuInit /\ (scene = "setup" \/ suScript = SuRest)
    /\ TxInit /\ (scene = "tax" \/ txPlan = TxRest)
    /\ ApInit /\ (scene = "accounting" \/ apPlan = ApRest)

Next ==
    /\ UNCHANGED scene
    /\ \/ /\ scene = "quickbooks" /\ QbNext
          /\ UNCHANGED <<sgVars, obVars, inVars, pdVars, rpVars, mwVars, ppVars, suVars, txVars, apVars>>
       \/ /\ scene = "sheets" /\ SgNext
          /\ UNCHANGED <<qbVars, obVars, inVars, pdVars, rpVars, mwVars, ppVars, suVars, txVars, apVars>>
       \/ /\ scene = "companies" /\ ObNext
          /\ UNCHANGED <<qbVars, sgVars, inVars, pdVars, rpVars, mwVars, ppVars, suVars, txVars, apVars>>
       \/ /\ scene = "inventory" /\ InNext
          /\ UNCHANGED <<qbVars, sgVars, obVars, pdVars, rpVars, mwVars, ppVars, suVars, txVars, apVars>>
       \/ /\ scene = "days" /\ PdNext
          /\ UNCHANGED <<qbVars, sgVars, obVars, inVars, rpVars, mwVars, ppVars, suVars, txVars, apVars>>
       \/ /\ scene = "reports" /\ RpNext
          /\ UNCHANGED <<qbVars, sgVars, obVars, inVars, pdVars, mwVars, ppVars, suVars, txVars, apVars>>
       \/ /\ scene = "wizard" /\ MwNext
          /\ UNCHANGED <<qbVars, sgVars, obVars, inVars, pdVars, rpVars, ppVars, suVars, txVars, apVars>>
       \/ /\ scene = "pages" /\ PpNext
          /\ UNCHANGED <<qbVars, sgVars, obVars, inVars, pdVars, rpVars, mwVars, suVars, txVars, apVars>>
       \/ /\ scene = "tax" /\ TxNext
          /\ UNCHANGED <<qbVars, sgVars, obVars, inVars, pdVars, rpVars, mwVars, ppVars, suVars, apVars>>
       \/ /\ scene = "accounting" /\ ApNext
          /\ UNCHANGED <<qbVars, sgVars, obVars, inVars, pdVars, rpVars, mwVars, ppVars, suVars, txVars>>
       \/ /\ scene = "setup" /\ SuNext
          /\ UNCHANGED <<qbVars, sgVars, obVars, inVars, pdVars, rpVars, mwVars, ppVars, txVars, apVars>>

\* QuickBooks is fair in its scene (QbFairness); elsewhere it has nothing to proceed with.
Spec == Init /\ [][Next]_vars /\ \A p \in QbProcs : WF_qbVars(scene = "quickbooks" /\ QbProceed(p))

\* The stored documents, the requests and the pages of every part have their types.
BackOfficeTypeOK ==
    /\ QbTypeOK /\ SgTypeOK /\ ObTypeOK /\ InTypeOK /\ PdTypeOK /\ RpTypeOK
    /\ MwTypeOK /\ PpTypeOK /\ SuTypeOK /\ TxTypeOK /\ ApTypeOK

\* What the reports compute from the stored days (posController.ts,
\* reportsController.ts) and the tax desk from the books
\* (quickbooksTaxService.ts:199) is what the figures add up to.
ComputedFiguresAgree == ReportsAgree /\ FiguresAddUp

\* The accounting pages agree with the server however answers, jobs and other
\* reviewers interleave: the tax desk (TaxDashboardPage.tsx:214), the statement
\* that is watched (StatementDetailPage.tsx:110) and the ticked ledger rows
\* (LedgerPage.tsx:103).
AccountingPagesAgree == TaxDeskAgrees /\ PageKeepsUp /\ TicksAreOpen
=============================================================================
