------------------------------- MODULE TaxDesk -------------------------------
(***************************************************************************)
(* The tax dashboard: TaxDashboardPage.tsx, the handlers of                 *)
(* quickbooksTaxController.ts and what quickbooksTaxService.ts makes of     *)
(* QuickBooks' answers.  Each section of the page asks for what is selected *)
(* and shows whichever answer comes last; a payment or a journal adjustment *)
(* is posted and its section asked again.  How a post finds its tag and     *)
(* retries is QuickBooksConnection's matter.                                *)
(*                                                                         *)
(* Amounts are thousandths of a dollar.  A report is a tree of rows and     *)
(* sections; of a label the model keeps which phrases it contains.          *)
(***************************************************************************)
EXTENDS Integers, Sequences, FiniteSets, SequencesExt

CONSTANTS
    TxWorlds,   \* what QuickBooks may hold: reports, customer and vendor payments, latest
                \* first, and the lines of a journal adjustment
    TxSections, \* sections of the page
    TxDates, TxBases,  \* dates and bases that may be selected
    TxReportKeys, TxKinds,  \* reports and kinds of payments that may be selected
    TxIds,      \* client request ids typed into the forms
    TxLimits,   \* page sizes
    TxDepth,    \* bound: levels of rows in a report
    TxPlans     \* bounds: what the user does and how often

TxSelections == [dates : TxDates, basis : TxBases, report : TxReportKeys, payments : TxKinds]

ASSUME TxAssumption ==
    /\ TxDepth \in Nat
    /\ TxPlans \subseteq
          [ops : SUBSET {"select", "refresh", "post", "fail"}, left : Nat, sel : TxSelections]

VARIABLES
    txBooks,  \* client request ids that were booked
    txSel,    \* the selected window, report and kind of payments
    txShown,  \* the sections
    txCalls,  \* requests of the sections that have not been answered
    txOrder,  \* requests made so far
    txLast,   \* history: the latest request of each section whose answer has come
    txStale,  \* history: sections that an overtaken answer, or one to a selection
              \* that was left before it was asked, came to
    txPost,   \* the post under way
    txTold,   \* ids whose post was reported as done
    txPlan

txVars == <<txBooks, txSel, txShown, txCalls, txOrder, txLast, txStale, txPost,
            txTold, txPlan>>

NoAmount == -1000000
-----------------------------------------------------------------------------
(* Reports.                                                                *)

Line(label, amount, path) == [label |-> label, amount |-> amount, path |-> path]
LineOf(cells, path) == IF cells.label = {} THEN <<>> ELSE <<Line(cells.label, cells.amount, path)>>

\* flattenReportRows: a row, what is below it, then its summary; a header without
\* a label adds nothing to the path.  The recursion of the code goes as deep as the
\* report; here each round opens the rows of one level, TxDepth of them.
Flatten(rows, path) ==
    LET Closed(some, at) == [i \in DOMAIN some |-> [row |-> {some[i]}, path |-> at, lines |-> <<>>]]
        Said(lines) == <<[row |-> {}, path |-> <<>>, lines |-> lines]>>
        Below(row, at) == IF row.head = {} THEN at ELSE Append(at, row.head)
        Opened(row, at) ==
            Said(LineOf(row.cells, at)) \o Closed(row.rows, Below(row, at))
                \o Said(LineOf(row.summary, Below(row, at)))
        round[n \in 0 .. TxDepth] ==
            IF n = 0 THEN Closed(rows, path)
            ELSE LET before == round[n - 1]
                 IN  FlattenSeq([i \in DOMAIN before |->
                         IF before[i].row = {} THEN <<before[i]>>
                         ELSE Opened(CHOOSE row \in before[i].row : TRUE, before[i].path)])
    IN  FlattenSeq([i \in DOMAIN round[TxDepth] |-> round[TxDepth][i].lines])

\* findLastAmountByLabel: the amount of the last line with the phrase.
LastAmount(lines, phrase) ==
    LET found == {i \in DOMAIN lines : phrase \in lines[i].label}
    IN  IF found = {} THEN NoAmount
        ELSE lines[CHOOSE i \in found : \A j \in found : j <= i].amount

\* fetchQuickBooksTaxOverview: each card from the report that has it.
Cards(reports) ==
    LET From(key, phrase) == LastAmount(Flatten(reports[key], <<>>), phrase)
    IN  [netIncome |-> From("profit-loss", "net income"),
         totalAssets |-> From("balance-sheet", "total assets"),
         totalLiabilities |-> From("balance-sheet", "total liabilities"),
         totalEquity |-> From("balance-sheet", "total equity"),
         arOpen |-> From("ar-aging", "total"), apOpen |-> From("ap-aging", "total")]

\* listQuickBooksTaxLedger: the lines that have an amount, numbered, in pages; the
\* cursor is an offset, and none follows the last page.
LedgerPage(lines, limit, offset) ==
    LET filtered == SelectSeq(lines, LAMBDA l : l.amount # NoAmount)
        ids == {n \in DOMAIN filtered : offset < n /\ n <= offset + limit}
    IN  [total |-> Len(filtered), entries |-> {[id |-> n, line |-> filtered[n]] : n \in ids},
         next |-> IF offset + limit < Len(filtered) THEN offset + limit ELSE 0]
-----------------------------------------------------------------------------
(* Payments.                                                               *)

\* Mutant: one payment too many.
UpToOneMore(seq, n) == SubSeq(seq, 1, IF Len(seq) <= n THEN Len(seq) ELSE n + 1)

\* A page of one kind; a full page may be followed by another.
UpTo(seq, n) == SubSeq(seq, 1, IF Len(seq) < n THEN Len(seq) ELSE n)
PaymentPage(payments, limit, start) ==
    LET page == UpTo(SubSeq(payments, start, Len(payments)), limit)
    IN  [payments |-> page, next |-> IF Len(page) = limit THEN start + limit ELSE 0]

\* Both kinds: the first page of each, by date, and no cursor.
Merged(payments, limit) ==
    LET all == PaymentPage(payments.customer, limit, 1).payments
                \o PaymentPage(payments.vendor, limit, 1).payments
        sorted == SortSeq([i \in DOMAIN all |-> <<i, all[i]>>],
                          LAMBDA a, b : b[2].date < a[2].date
                                        \/ (a[2].date = b[2].date /\ a[1] < b[1]))
    IN  UpTo([i \in DOMAIN sorted |-> sorted[i][2]], limit)
-----------------------------------------------------------------------------
(* Journal adjustments.  The schema and the service check the lines, each in  *)
(* its own words.                                                             *)

OneSided(line) == (line.debit > 0) # (line.credit > 0)
TotalOf(lines, Amount(_)) ==
    LET sum[n \in 0 .. Len(lines)] == IF n = 0 THEN 0 ELSE sum[n - 1] + Amount(lines[n])
    IN  sum[Len(lines)]
Balanced(debits, credits) == debits - credits <= 9 /\ credits - debits <= 9
Accepted(lines) ==
    /\ Len(lines) >= 2 /\ \A i \in DOMAIN lines : OneSided(lines[i])
    /\ Balanced(TotalOf(lines, LAMBDA l : l.debit), TotalOf(lines, LAMBDA l : l.credit))

\* The lines as the service sends them: a side and an amount rounded to cents.
Cents(mils) == (mils + 5) \div 10
PostingOf(line) ==
    [side |-> IF line.debit > 0 THEN "Debit" ELSE "Credit",
     mils |-> IF line.debit > 0 THEN line.debit ELSE line.credit]
SideTotal(lines, side) ==
    TotalOf(SelectSeq([i \in DOMAIN lines |-> PostingOf(lines[i])], LAMBDA l : l.side = side),
            LAMBDA l : l.mils)
Posts(lines) ==
    /\ \A i \in DOMAIN lines : OneSided(lines[i])
    /\ Balanced(SideTotal(lines, "Debit"), SideTotal(lines, "Credit"))
PostedTotal(lines, side) ==
    TotalOf(SelectSeq([i \in DOMAIN lines |-> PostingOf(lines[i])], LAMBDA l : l.side = side),
            LAMBDA l : Cents(l.mils))
-----------------------------------------------------------------------------
(* The page.                                                               *)

NoData == [for |-> <<>>, booked |-> {}, known |-> FALSE]
NoPost == [pc |-> "idle", id |-> "", sel |-> <<>>, section |-> ""]

\* What a section asks for: the chart of accounts depends on no selection, the
\* report and the payments on one of their own.
ParamsOf(section, sel) ==
    CASE section = "accounts" -> <<>>
      [] section = "payments" -> <<sel.dates, sel.payments>>
      [] section = "report" -> <<sel.dates, sel.basis, sel.report>>
      [] section \in {"overview", "ledger"} -> <<sel.dates, sel.basis>>

\* A load marks its section as loading and asks.
Asked(sections, sel) ==
    {[section |-> s, for |-> ParamsOf(s, sel), order |-> txOrder + 1, posted |-> FALSE,
      booked |-> {}, pc |-> "sent"] : s \in sections}
Loading(shown, sections) ==
    [s \in TxSections |-> IF s \in sections THEN [shown[s] EXCEPT !.loading = TRUE, !.error = FALSE]
                          ELSE shown[s]]
Load(sections, sel) ==
    /\ txCalls' = txCalls \cup Asked(sections, sel)
    /\ txOrder' = txOrder + 1
    /\ txShown' = Loading(txShown, sections)
May(op) == op \in txPlan.ops /\ txPlan.left > 0 /\ txPlan' = [txPlan EXCEPT !.left = @ - 1]

\* Every change of the selection makes refreshAll a new function, and its effect
\* loads all sections; so does the button.
Select ==
    /\ May("select")
    /\ \E sel \in TxSelections :
          /\ sel # txSel /\ Cardinality({f \in DOMAIN sel : sel[f] # txSel[f]}) = 1
          /\ txSel' = sel /\ Load(TxSections, sel)
    /\ UNCHANGED <<txBooks, txLast, txStale, txPost, txTold>>
RefreshAll ==
    /\ May("refresh") /\ Load(TxSections, txSel)
    /\ UNCHANGED <<txBooks, txSel, txLast, txStale, txPost, txTold>>

\* A handler of the server: QuickBooks is read.
Serve(call) ==
    /\ call.pc = "sent"
    /\ txCalls' = (txCalls \ {call}) \cup {[call EXCEPT !.pc = "served", !.booked = txBooks]}
    /\ UNCHANGED <<txBooks, txSel, txShown, txOrder, txLast, txStale, txPost, txTold, txPlan>>

\* The answer of a load, or its failure, replaces what the section has.
Arrive(call, data, error) ==
    LET s == call.section IN
    /\ txCalls' = txCalls \ {call}
    /\ txShown' = [txShown EXCEPT ![s] = [loading |-> FALSE, error |-> error, data |-> data]]
    /\ txLast' = [txLast EXCEPT ![s] = IF @ < call.order THEN call.order ELSE @]
    /\ txStale' = IF call.order < txLast[s] \/ call.for # ParamsOf(s, txSel)
                  THEN txStale \cup {s}
                  ELSE txStale \ {s}
    /\ txPost' = IF call.posted THEN NoPost ELSE txPost
    /\ UNCHANGED <<txBooks, txSel, txOrder, txTold>>
Deliver(call) ==
    /\ call.pc = "served"
    /\ Arrive(call, [for |-> call.for, booked |-> call.booked, known |-> TRUE], FALSE)
    /\ UNCHANGED txPlan
FailLoad(call) == May("fail") /\ Arrive(call, NoData, TRUE)

\* Recover Payment and Post Journal Adjustment: one post at a time, whichever form.
Submit ==
    /\ May("post") /\ txPost.pc = "idle"
    /\ \E id \in TxIds, section \in TxSections \cap {"payments", "ledger"} :
          txPost' = [pc |-> "sent", id |-> id, sel |-> txSel, section |-> section]
    /\ UNCHANGED <<txBooks, txSel, txShown, txCalls, txOrder, txLast, txStale, txTold>>

\* Mutant: the page does not ask again.
AskNothing(post) ==
    /\ txPost' = NoPost
    /\ UNCHANGED <<txCalls, txOrder, txShown>>

\* After a success the section is asked with the selection of the submit, and the
\* form stays busy until the answer.
AskAgain(post) ==
    /\ txPost' = [post EXCEPT !.pc = "reload"]
    /\ txCalls' = txCalls \cup {[c EXCEPT !.posted = TRUE] : c \in Asked({post.section}, post.sel)}
    /\ txOrder' = txOrder + 1
    /\ txShown' = Loading(txShown, {post.section})

\* The post is done, or was found done; it is refused; or it is done and an error
\* is reported.
PostDone ==
    /\ txPost.pc = "sent"
    /\ txBooks' = txBooks \cup {txPost.id} /\ txTold' = txTold \cup {<<txPost.id, txPost.section>>}
    /\ AskAgain(txPost)
    /\ UNCHANGED <<txSel, txLast, txStale, txPlan>>
PostRefused ==
    /\ txPost.pc = "sent" /\ May("fail")
    /\ txBooks' \in {txBooks, txBooks \cup {txPost.id}}
    /\ txPost' = NoPost
    /\ UNCHANGED <<txSel, txShown, txCalls, txOrder, txLast, txStale, txTold>>
-----------------------------------------------------------------------------
TxInit ==
    /\ txPlan \in TxPlans
    /\ txBooks = {} /\ txTold = {} /\ txStale = {} /\ txPost = NoPost
    /\ txSel = txPlan.sel
    /\ txOrder = 0 /\ txLast = [s \in TxSections |-> 0]
    /\ txCalls = {}
    /\ txShown = [s \in TxSections |-> [loading |-> FALSE, error |-> FALSE, data |-> NoData]]

\* The page opens: the effect loads every section.
Mount ==
    /\ txOrder = 0 /\ txPlan.ops # {} /\ Load(TxSections, txSel)
    /\ UNCHANGED <<txBooks, txSel, txLast, txStale, txPost, txTold, txPlan>>

TxNext ==
    \/ Mount
    \/ txOrder > 0 /\ (Select \/ RefreshAll \/ Submit \/ PostDone \/ PostRefused)
    \/ \E call \in txCalls : Serve(call) \/ Deliver(call) \/ FailLoad(call)
-----------------------------------------------------------------------------
(* Properties.                                                             *)

\* The sections and the requests under way have their types.
TxTypeOK ==
    /\ txPlan.left \in Nat /\ txBooks \subseteq TxIds /\ txStale \subseteq TxSections
    /\ txPost.pc \in {"idle", "sent", "reload"}
    /\ \A s \in TxSections : txShown[s].loading \in BOOLEAN /\ txShown[s].error \in BOOLEAN
    /\ \A c \in txCalls : c.section \in TxSections /\ c.pc \in {"sent", "served"}

\* Every line of a report reaches exactly one page of the ledger; of a balance
\* sheet that balances, the cards do, unless a total of liabilities and equity
\* passes for that of liabilities; the newest payments of both kinds are the newest of all, and the
\* pages of one kind lose none; and a journal the schema lets through is one the
\* service posts, balanced in cents if its amounts were.
FiguresAddUp == \A world \in TxWorlds :
    LET lines == Flatten(world.reports["general-ledger"], <<>>)
        sheet == Flatten(world.reports["balance-sheet"], <<>>)
        cards == Cards(world.reports)
        amounts == SelectSeq(lines, LAMBDA l : l.amount # NoAmount)
        payments == world.payments
        journal == world.lines
    IN
    /\ \A limit \in TxLimits :
          LET pages == {LedgerPage(lines, limit, limit * k) : k \in 0 .. (Len(lines) \div limit)}
          IN  /\ UNION {p.entries : p \in pages}
                    = {[id |-> n, line |-> amounts[n]] : n \in DOMAIN amounts}
              /\ \A p \in pages : p.next # 0 => LedgerPage(lines, limit, p.next).entries # {}
    /\ NoAmount \notin {cards.totalAssets, cards.totalLiabilities, cards.totalEquity} =>
          \/ cards.totalAssets = cards.totalLiabilities + cards.totalEquity
          \/ /\ \E i \in DOMAIN sheet : "total liabilities and equity" \in sheet[i].label
             /\ cards.totalLiabilities = cards.totalAssets
    /\ \A limit \in TxLimits :
          LET shown == Merged(payments, limit)
              all == payments.customer \o payments.vendor
          IN  /\ Len(shown) = Len(UpTo(all, limit))
              /\ \A p \in ToSet(all) \ ToSet(shown) : \A q \in ToSet(shown) : p.date <= q.date
    /\ \A limit \in TxLimits : \A kind \in DOMAIN payments :
          LET page == [k \in 0 .. Len(payments[kind]) |->
                          PaymentPage(payments[kind], limit, 1 + k * limit)]
          IN  /\ FlattenSeq([k \in 1 .. Len(payments[kind]) |-> page[k - 1].payments])
                    = payments[kind]
              /\ \A k \in DOMAIN page \ {0} :
                    page[k].payments # <<>> => page[k - 1].next = 1 + k * limit
    /\ Accepted(journal) => Posts(journal)
    /\ Posts(journal) /\ (\A i \in DOMAIN journal : (journal[i].debit + journal[i].credit) % 10 = 0)
          => PostedTotal(journal, "Debit") = PostedTotal(journal, "Credit")

\* When a section waits for nothing it is not loading, and unless it failed, or
\* the last answer was overtaken or was asked for a selection left meanwhile, it
\* shows what is selected and includes each document whose post to it was
\* reported as done.
TaxDeskAgrees ==
    \A s \in TxSections :
        txOrder > 0 /\ (\A c \in txCalls : c.section # s) =>
           /\ ~txShown[s].loading
           /\ ~txShown[s].error /\ s \notin txStale =>
                 /\ txShown[s].data.known /\ txShown[s].data.for = ParamsOf(s, txSel)
                 /\ \A told \in txTold : told[2] = s => told[1] \in txShown[s].data.booked
=============================================================================
